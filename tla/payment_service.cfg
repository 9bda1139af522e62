SPECIFICATION FairSpec
CONSTANTS
    None = None
    Orders = {o1}
    Refs = {ref1, ref2}
    Deliveries = {d1}
    Strays = {s1}
    MaxCrashes = 1
    MaxErrors = 2
    EmitMayFail = FALSE
INVARIANTS
    ChargedHasRecord
    ConsumedHasPayment
    MarkedIsSettled
    OutcomeHasCause
PROPERTIES
    ImplementsLedger
    ChargeIsAnnounced
CHECK_DEADLOCK FALSE
