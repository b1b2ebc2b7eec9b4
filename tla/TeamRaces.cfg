SPECIFICATION FairSpec
CONSTANTS
    u1 = u1
    u2 = u2
    t1 = t1
    t2 = t2
    t3 = t3
    c1 = c1
    c2 = c2
    Users = {u1, u2}
    Teams = {t1, t2, t3}
    Founder <- TwoFounded
    Clients = {c1, c2}
    Roles = {"owner"}
    MAX_DAG_DEPTH = 2
    Ops = {"assign", "remove", "assign_team", "remove_team", "create", "web_create", "web_add", "patch", "web_remove", "web_delete", "refresh"}
    Syncs = {TRUE, FALSE}
    MaxChanges = 3
INVARIANTS DepthBounded
CHECK_DEADLOCK FALSE
PROPERTIES AccessConverges SyncedAccess
