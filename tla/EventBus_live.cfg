CONSTANTS
    Projects = {p1}
    Conns = {c1, c2}
    Prompt = {c2}
    Publishers = {w1}
    Cap = 1
    MaxStreams = 3
    MaxEvents = 2
SPECIFICATION FairSpec
CHECK_DEADLOCK FALSE
PROPERTIES
    PublishReturns
    BufferedIsWritten
    GoneIsReclaimed
