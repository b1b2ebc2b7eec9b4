SPECIFICATION Spec
CONSTANTS
    t1 = t1  t2 = t2  c1 = c1  c2 = c2  x1 = x1  x2 = x2
    Tenants = {t1, t2}
    Clients = {c1, c2}
    TenantOf <- TwoTenants
    SharedWith <- T1ReadsT2
    Types = {"decision", "note"}
    Contents = {x1}
    Similar <- NoneSimilar
    TTLs = {1}
    Ops = {"write", "force_new", "cite", "reply", "expire", "supersede", "update", "delete", "undelete", "retention"}
    OnlyCurrent = {}
    Retention = 0
    Grace = 0
    MaxId = 2
    MaxDay = 2
    MaxVersion = 2
    MaxStamp = 3
INVARIANTS LinksIntact
CHECK_DEADLOCK FALSE
PROPERTIES PurgeSparesUndeletable ThreadRestored
