SPECIFICATION Spec
CHECK_DEADLOCK FALSE
SYMMETRY StaffSymmetry
CONSTANTS
    Pros = {p1}
    Contacts = {c1, c2}
    Staff = {a1, a2}
    SuperAdmins = {s1, s2}
    None = None
    MaxMessages = 1
INVARIANTS
    DecisionMatchesStatus
    JobsGoToAssigned
PROPERTY
    DecidedOnce
