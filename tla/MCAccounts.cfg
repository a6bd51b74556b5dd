SPECIFICATION MCSpec
CHECK_DEADLOCK FALSE
CONSTANTS
    OtpSlots = {"d1"}
    Outcomes = {"sent", "refused"}
    MaxCodes = 3
    Clients = {"d1", "d2"}
    MaxSessions = 4
    RacingClients = {"d1"}
    Parallel = 2
    MaxRaceSessions = 3
    Faults = {"lost", "dies"}
    Tokens = {"t1", "t2"}
    TicksPerSecond = 3
    AccessTtl = 2
    MaxNow = 12
    Accounts = {"u1", "u2", "u3"}
    Lines = {"l1", "l2"}
    Codes = {"91"}
    Emails = {"e1"}
    Choices = {{"CLEAN"}, {"REPAIR", "RENTAL"}}
    Tabs = {"s1"}
    Phones = {"p1"}
    Calls = {"c1"}
    None = None
INVARIANTS
    CodesWork
    SessionsHold
    LogoutHolds
    StaffKeepScope
