SPECIFICATION FairSpec
CONSTANTS
    p1 = p1
    None = None
    Orders = {o1}
    Users = {u1, u2}
    Products = {p1}
    Carts <- OneLineCart
    Prices = {1, 3}
    Stocks = {0, 2}
    MaxAmount = 2
    Requests = {r1, r2}
    MaxCrashes = 1
    EmitMayFail = TRUE
INVARIANTS
    IInv
    FulfilmentUnreachable
    CancelReplyHolds
    RevivedOrderIsCancelled
PROPERTIES
    StatusFollowsTable
    RequestsAnswered
CHECK_DEADLOCK FALSE
