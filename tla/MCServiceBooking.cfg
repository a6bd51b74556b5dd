SPECIFICATION Spec
CHECK_DEADLOCK FALSE
CONSTANTS
    Requests = {r1, r2}
    Hooks = {h1}
    Professionals = {p1}
    NoProfessional = NoProfessional
    Totals <- MCTotals
    RazorpayEnabled = TRUE
    MaxRequestFaults = 1
    MaxJobErrors = 1
    MaxJobCrashes = 0
SYMMETRY RequestSymmetry
INVARIANTS
    TypeOK
    PaidBeforeServed
    CaptureIsWhole
    RefundAtMostOnce
    RefundedIsProcessed
    RefundFollowsCancel
PROPERTY
    KeepsTheLedger
