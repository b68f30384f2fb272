SPECIFICATION Spec
CONSTANTS
    Requests = {r1, r2, r3, r4}
    MaxRequests = 1
    Window = 3
    Grace = 1
    Latency = 1
    MaxTime = 7
SYMMETRY Symmetry
INVARIANTS RateTypeOK AllowedBelowLimit 
CHECK_DEADLOCK FALSE
