SPECIFICATION FairCheckoutSpec
CONSTANTS
    p1 = p1
    p2 = p2
    None = None
    Orders = {o1}
    Users = {u1}
    Products = {p1}
    Carts <- OneLineCart
    Prices = {1}
    Stocks = {2}
    MaxAmount = 2
    Requests = {}
    MaxCrashes = 0
    EmitMayFail = FALSE
    Refs = {ref1, ref2, ref3}
    Deliveries = {d1}
    Strays = {}
    MaxPaymentCrashes = 1
    MaxErrors = 1
PROPERTIES
    PlacedOrderGetsLink
CHECK_DEADLOCK FALSE
