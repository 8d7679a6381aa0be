CONSTANTS
    Projects = {p1, p2}
    Conns = {c1, c2}
    Prompt = {}
    Publishers = {w1, w2}
    Cap = 1
    MaxStreams = 2
    MaxEvents = 2
SPECIFICATION Spec
SYMMETRY Symm
CHECK_DEADLOCK FALSE
INVARIANTS
    IInv
    ProjectIsolation
    NoSilentLoss
PROPERTIES
    ImplementsBroadcast
