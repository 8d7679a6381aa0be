CONSTANTS
    Nil = Nil
    p = p
    o = o
    n = n
    m = m
    a = a
    b = b
    Projects <- TwoProjects
    Words <- FourWords
    Writers = {w1, w2}
    Searchers = {s1}
    Writes <- AllWrites
    Queries <- AllQueries
    Near <- ShareAWord
    Limit = 2
    BatchSize = 1
    SeedEntities <- ThreeEntities
    SeedObservations <- ThreeNotes
    MaxWrites = 2
    MaxSearches = 1
SPECIFICATION FairSpec
INVARIANTS
    TypeOK
    VectorsAreFresh
    SearchIsExact
    ResultsAreOfTheEntity
PROPERTIES
    EditsStand
    SearchReturns
CHECK_DEADLOCK FALSE
