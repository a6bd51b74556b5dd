SPECIFICATION Spec
CHECK_DEADLOCK FALSE
CONSTANTS
    Admins = {a1}
    Deleters = {}
    SuperAdmins = {s1}
    Fields = {rate}
    Amounts = {1}
    Switches = {"keep"}
    MaxChanges = 1
INVARIANT RejectionIsRecorded
