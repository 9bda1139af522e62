SPECIFICATION FairSpec
CONSTANTS
    None = None
    Original = original
    Requests = {q1, q2}
    Sellers = {s1, s2}
    Names = {n1, n2}
    Files = {f1, f2}
    MaxFaults = 1
INVARIANTS
    IInv
    ShownImagesExist
    CreateReplyHolds
PROPERTIES
    OnlyEarlierSavesRevive
    RequestsAnswered
CHECK_DEADLOCK FALSE
