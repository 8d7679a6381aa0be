CONSTANTS
    Projects = {p1}
    Conns = {c1}
    Prompt = {}
    Publishers = {w1}
    Cap = 1
    MaxStreams = 1
    MaxEvents = 1
SPECIFICATION Spec
CHECK_DEADLOCK FALSE
INVARIANTS
    NoPanic
