CONSTANTS
    Nil = Nil
    Requests = {r1, r2}
    Plans <- SavePlans
    SeedEntities <- Noted
    SeedObservations <- Notes
    SeedRelations <- None
SPECIFICATION Spec
INVARIANTS
    ActiveIsOneSave
