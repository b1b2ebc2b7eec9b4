SPECIFICATION Spec
CONSTANTS
    e1 = e1  e2 = e2  s1 = s1  s2 = s2  r1 = r1  r2 = r2  c1 = c1  c2 = c2  k1 = k1  k2 = k2
    Subs = {s1, s2}
    Emails = {e1, e2}
    EmailOf <- MCEmailOf
    SameDomain = {s1}
    Reconcilers = {r1, r2}
    MaxTenant = 2
    Clients = {c1}
    Closers = {k1}
    Logger = "events"
    Solo = {"cancel", "close", "link", "unlink", "promote"}
    Grace = 0
    SessionTtl = 1
    LinkTtl = 0
    KeepRevoked = 0
    MaxClock = 1
    MaxLinks = 1
    MaxToken = 1
    MaxFaults = 1
INVARIANTS ClosedIsEmpty OnePrimary
PROPERTIES ClosureInOrder UnlinkedUserIsGone
CHECK_DEADLOCK FALSE
SYMMETRY ReconcilerSymmetry
