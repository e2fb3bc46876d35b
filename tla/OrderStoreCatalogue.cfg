SPECIFICATION Spec
CONSTANTS
    Clients = {c1, c2}
    Products = {p1, p2}
    Keys = {k1, k2}
    Quantities = {1}
    Prices = {5, 7}
    Stocks = {2}
    TTL = 1
    NoOne = NoOne
    Janitors = {j1}
    NoRow = NoRow
    NoReq = NoReq
    MaxRequests = 4
    MaxClock = 0
CHECK_DEADLOCK FALSE
SYMMETRY Symmetric
INVARIANTS
    EventPerVersion
    OrderPerPurchase
    StockLedger
    OrderedProductsStay
    StockConserved
