SPECIFICATION Spec
CONSTANTS
    e1 = e1  s1 = s1  s2 = s2  r1 = r1  r2 = r2  c1 = c1  c2 = c2
    Subs = {s1}
    Emails = {e1}
    EmailOf <- MCEmailOf
    SameDomain = {s1}
    Reconcilers = {r1, r2}
    MaxTenant = 2
    Form = {c1}
    Ttl = 2
    Cooldown = 2
    MinAge = 0
    MaxReminders = 2
    PerDay = 2
    Day = 2
    LastSubmit = 1
    MaxFaults = 1
INVARIANTS RemindedOncePerSubmission ProvisionedWhole
PROPERTIES RemindedWhileAwaiting AwaitingEnds 
CHECK_DEADLOCK FALSE
