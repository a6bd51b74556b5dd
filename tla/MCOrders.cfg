SPECIFICATION MCSpec
CHECK_DEADLOCK FALSE
CONSTANTS
    Orders = {"o1", "o2"}
    Buyers = {"b1"}
    Devices = {"d1", "d2"}
    Prices = {3, 5}
    Quantities = {1, 2}
    MayDie = {"order", "review"}
    Reviewers = {"r1", "r2"}
    Ratings = {4}
    Nobody = Nobody
INVARIANTS
    OrderTellsOneStory
    MovesAreToldOnce
    ReviewsAreEarned
PROPERTIES
    EarningsOnlyGrow
    ReviewsAreRewarded
