SPECIFICATION Spec
CONSTANTS
    None = None
    Orders = {o1}
    Refs = {ref1, ref2}
    Deliveries = {d1}
    Strays = {}
    MaxCrashes = 1
    MaxErrors = 0
    EmitMayFail = FALSE
INVARIANTS
    OrderChargedOnce
CHECK_DEADLOCK FALSE
