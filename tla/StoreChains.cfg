SPECIFICATION Spec
CONSTANTS
    t1 = t1  t2 = t2  c1 = c1  c2 = c2  x1 = x1  x2 = x2
    Tenants = {t1}
    Clients = {c1}
    TenantOf <- OneTenant
    SharedWith <- Nobody
    Types = {"decision", "fact"}
    Contents = {x1, x2}
    Similar <- X1X2Similar
    TTLs = {0}
    Ops = {"write", "reply", "cascade", "write_supersedes", "update", "delete"}
    OnlyCurrent = {"write_supersedes", "update", "delete"}
    Retention = 9
    Grace = 1
    MaxId = 3
    MaxDay = 1
    MaxVersion = 3
    MaxStamp = 6
INVARIANTS TypeOK ThreadFlat LiveChainHasCurrent
CHECK_DEADLOCK FALSE
PROPERTIES AckedWriteIsReadable HistoryPreserved
