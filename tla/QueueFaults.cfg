SPECIFICATION FairSpec
CONSTANTS
    c1 = c1  c2 = c2  d1 = d1  d2 = d2  x1 = x1  x2 = x2
    Tenants = {1}
    Clients = {c1}
    Drains = {d1, d2}
    Contents = {x1, x2}
    Similar <- X1X2Similar
    BatchSize = 2
    Limit = 1
    Faults = {"reject", "db", "crash"}
    MaxReq = 3
    MaxSync = 1
INVARIANTS SucceededIsStamped
PROPERTIES ImplementsRequest EveryRequestSettles
CHECK_DEADLOCK FALSE
