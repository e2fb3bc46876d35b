SPECIFICATION FairSpec
CONSTANTS
    Clients = {c1, c2}
    Products = {p1}
    Keys = {k1}
    Quantities = {1}
    Prices = {5}
    Stocks = {2}
    TTL = 1
    NoOne = NoOne
    Janitors = {j1, j2}
    NoRow = NoRow
    NoReq = NoReq
    MaxRequests = 3
    MaxClock = 2
CHECK_DEADLOCK FALSE
PROPERTIES
    RequestsFinish
