SPECIFICATION Spec
CONSTANTS
    Clients = {c1, c2}
    Products = {p1}
    Keys = {k1}
    Quantities = {1, 2}
    Prices = {5}
    Stocks = {3}
    TTL = 1
    NoOne = NoOne
    Janitors = {j1, j2}
    NoRow = NoRow
    NoReq = NoReq
    MaxRequests = 4
    MaxClock = 2
CHECK_DEADLOCK FALSE
SYMMETRY Symmetric
INVARIANTS
    Inv
    OneOrderPerKey
    ReplayFindsOrder
    ReplyTruthful
    NoCircularWait
PROPERTIES
    ImplementsShop
