CONSTANTS
    Nil = Nil
    p = p
    o = o
    n = n
    m = m
    a = a
    b = b
    Projects <- TwoProjects
    Words <- FourWords
    Writers = {w1}
    Searchers = {}
    Writes <- AllWrites
    Queries <- AllQueries
    Near <- ShareAWord
    Limit = 2
    BatchSize = 2
    SeedEntities <- ThreeEntities
    SeedObservations <- ThreeNotes
    MaxWrites = 1
    MaxSearches = 1
SPECIFICATION FairSpec
PROPERTIES
    BackfillEnds
CHECK_DEADLOCK FALSE
