CONSTANTS
    Runs = {r1, r2}
    Retention = 2
    Seed = {}
    MaxTime = 3
    MaxWrites = 2
    MaxFailures = 1
SPECIFICATION Spec
SYMMETRY Symm
INVARIANTS
    ExportHasTheStable
    SafeIsRestorable
    DiskIsBounded
PROPERTIES
    PruneKeepsNewest
