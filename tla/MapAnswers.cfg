SPECIFICATION Spec
CONSTANTS
    a1 = a1  a2 = a2  a3 = a3  w1 = w1  s1 = s1
    Clients = {a1, w1}
    Web = {w1}
    Authors = {"owner", "model"}
    Turns = {"owner", "null"}
    Seeds = {s1}
    Ops = {"open", "write_owner", "write_model", "answer", "resolve"}
    Solo = {}
    Threshold = 2
    MaxId = 4
    MaxCalls = 4
INVARIANTS AnsweredOnce
CHECK_DEADLOCK FALSE
