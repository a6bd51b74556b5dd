SPECIFICATION LiveSpec
CONSTANTS
    Requests = {r1}
    Hooks = {h1}
    Professionals = {p1}
    NoProfessional = NoProfessional
    Totals <- OneTotal
    RazorpayEnabled = TRUE
    MaxRequestFaults = 0
    MaxJobErrors = 0
    MaxJobCrashes = 0
PROPERTY ProcessedIsRecorded
CHECK_DEADLOCK FALSE
