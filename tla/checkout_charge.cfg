SPECIFICATION CheckoutSpec
CONSTANTS
    p1 = p1
    p2 = p2
    None = None
    Orders = {o1}
    Users = {u1}
    Products = {p1, p2}
    Carts <- PricingCarts
    Prices = {1, 3}
    Stocks = {2}
    MaxAmount = 6
    Requests = {r1}
    MaxCrashes = 1
    EmitMayFail = TRUE
    Refs = {ref1}
    Deliveries = {d1}
    Strays = {}
    MaxPaymentCrashes = 0
    MaxErrors = 1
INVARIANTS
    TotalMatchesItems
    AnnouncedOrderIsCommitted
    ChargeMatchesItems
CHECK_DEADLOCK FALSE
