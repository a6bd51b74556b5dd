SPECIFICATION MCSpec
CHECK_DEADLOCK FALSE
CONSTANTS
    People = {1, 2, 3}
    ChatSlots = {"a1", "a2"}
    MaxMessages = 1
    Owners = {"u1", "u2"}
    Handsets = {"t1", "t2"}
    NoticeSlots = {"a1", "a2"}
    MaxNotices = 2
    Customers = {"u1", "u2"}
    AddressSlots = {"a1", "a2"}
    MaxAddresses = 3
    PlaceIds = {"g1", "g2"}
    Points = {6, 14, 16}
    Answers <- MCAnswers
    Kinds = {{}, {"locality", "political"}}
    Lookups = {"l1"}
    Areas = {"l1", "l2"}
    Names = {"kakkanad", "aluva"}
    Pincodes = {"p1", "p2"}
    Settings = {"near", "far"}
    AreaSlots = {"a1"}
    Promos = {"p1", "p2"}
    Words = {"w1", "w2"}
    LastDay = 2
    Admins = {"a1"}
    Sellers = {"s1"}
    Applications = {"shop", "garage"}
    PanelSlots = {"a1", "a2", "a3"}
    None = None
INVARIANTS
    ChatReachesItsReader
    PushFindsItsUser
    DefaultIsOneAndTheirs
    PlaceIsTheOneAsked
    CentreIsOfThePlace
    PanelKeepsItsWord
PROPERTY
    SwitchedOnIsValid
