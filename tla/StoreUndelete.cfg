SPECIFICATION Spec
CONSTANTS
    t1 = t1  t2 = t2  c1 = c1  c2 = c2  x1 = x1  x2 = x2
    Tenants = {t1}
    Clients = {c1}
    TenantOf <- OneTenant
    SharedWith <- Nobody
    Types = {"decision", "fact"}
    Contents = {x1, x2}
    Similar <- X1X2Similar
    TTLs = {0}
    Ops = {"write", "update", "delete", "undelete"}
    OnlyCurrent = {"update"}
    Retention = 9
    Grace = 1
    MaxId = 3
    MaxDay = 1
    MaxVersion = 3
    MaxStamp = 6
CHECK_DEADLOCK FALSE
INVARIANTS OneCurrentPerChain
