SPECIFICATION Spec
CHECK_DEADLOCK FALSE
SYMMETRY PatchSymmetry
CONSTANTS
    Admins = {a1}
    Deleters = {r1}
    SuperAdmins = {s1, s2}
    Fields = {rate}
    Amounts = {1, 2}
    Switches = {"keep", "on", "off"}
    MaxChanges = 2
INVARIANTS
    TypeOK
    HiddenHasRequest
    OneDecision
    OfflineFollowsInactive
PROPERTY
    HistoryStaysAsDecided
