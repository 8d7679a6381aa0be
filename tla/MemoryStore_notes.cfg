CONSTANTS
    Nil = Nil
    Requests = {r1, r2}
    Plans <- NotePlans
    SeedEntities <- Noted
    SeedObservations <- Notes
    SeedRelations <- None
SPECIFICATION FairSpec
INVARIANTS
    DeletedStaysDeleted
    ContentIsAudited
    ActiveComplete
    BootstrapSeesASave
    TrailAccounts
PROPERTIES
    CreationsAreReal
    EveryRequestReturns
