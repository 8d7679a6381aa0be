CONSTANTS
    Runs = {r1}
    Retention = 1
    Seed <- SeedOne
    MaxTime = 2
    MaxWrites = 2
    MaxFailures = 1
SPECIFICATION Spec
INVARIANTS
    ExportsAllData
