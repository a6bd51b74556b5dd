SPECIFICATION LiveSpec
CHECK_DEADLOCK FALSE
CONSTANTS
    Requests = {r1}
    Hooks = {h1}
    Professionals = {p1}
    NoProfessional = NoProfessional
    Totals <- OneTotal
    RazorpayEnabled = TRUE
    MaxRequestFaults = 1
    MaxJobErrors = 2
    MaxJobCrashes = 1
PROPERTIES
    PaidIsReleased
    RefundIsAsked
