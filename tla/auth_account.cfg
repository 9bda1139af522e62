SPECIFICATION FairSpec
CONSTANTS
    None = None
    Initial = initial
    Requests = {q1, q2, q3}
    ResendLimit = 1
    MaxFaults = 1
INVARIANTS
    IInv
    OneAccount
    ResetsAreLocal
    SpentOtpIsGone
    ResendsAreLimited
PROPERTIES
    RequestsAnswered
CHECK_DEADLOCK FALSE
