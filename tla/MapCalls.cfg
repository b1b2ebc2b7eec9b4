SPECIFICATION Spec
CONSTANTS
    a1 = a1  a2 = a2  a3 = a3  w1 = w1  s1 = s1
    Clients = {a1, a2, a3, w1}
    Web = {w1}
    Authors = {"owner", "model"}
    Turns = {"model"}
    Seeds = {s1}
    Ops = {"open", "write_owner", "write_model", "answer", "resolve", "link", "review", "close", "get", "get_since"}
    Solo = {"open", "write_owner", "answer", "resolve", "link", "review", "close", "get_since", "flag"}
    Threshold = 1
    MaxId = 3
    MaxCalls = 5
SYMMETRY AgentSymmetry
INVARIANTS CursorCovers UnreviewedCounted
PROPERTIES NoBuriedInput
CHECK_DEADLOCK FALSE
