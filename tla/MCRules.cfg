SPECIFICATION RulesSpec
CHECK_DEADLOCK FALSE
CONSTANTS
    HourlyRates = {100, 167, 34900}
    ExtraProRates = {0, 29900}
    MaterialsFees = {0, 14900}
    Hours = {1, 3}
    Teams = {1, 2}
    Percents = {1, 15, 90}
    Caps = {0, 50, 30000}
    MinOrders = {0, 50000}
    Days = {0, 1}
    Today = 1
    Radii = {1, 2}
    MaxAreas = 3
    CancelTotals = {1, 5, 14, 15, 16, 179300}
    CancelAges = {0, 120, 121, 1440}
    OldCategories = {"laundry"}
    KeySets <- MCKeySets
    Values <- MCValues
INVARIANTS
    DiscountAsPromised
    AreaIsNearest
    RefundIsMost
    DetailsAsPromised
