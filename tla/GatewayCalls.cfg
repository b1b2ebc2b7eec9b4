SPECIFICATION Spec
CONSTANTS
    r1 = r1  r2 = r2
    Callers = {r1, r2}
    Owned = {1}
    Faults = {"register", "admin_pool", "revoke_pool", "revoke", "clean_pool", "tombstone", "touch"}
    GatewayFaults = {"fetch", "lost"}
    Ttl = 1
    FetchMax = 1
    Limit = 1
    NoticeTtl = 1
    Apart = TRUE
    MaxClient = 1
    MaxFaults = 1
    MaxKey = 2
    MaxNotice = 1
INVARIANTS PublishedKeyKnown NoticeShownOnce
PROPERTIES RetiredKeyRefused StaleIsDeleted
CHECK_DEADLOCK FALSE
