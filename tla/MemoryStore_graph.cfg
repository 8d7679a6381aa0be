CONSTANTS
    Nil = Nil
    Requests = {r1, r2, r3}
    Plans <- GraphPlans
    SeedEntities <- TwoProjects
    SeedObservations <- None
    SeedRelations <- None
SPECIFICATION Spec
SYMMETRY Symm
INVARIANTS
    TypeOK
    GraphWellFormed
    RelationsWithinProject
    DoneIsDurable
