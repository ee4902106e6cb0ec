SPECIFICATION MigrateSpec
CONSTANTS
    p1 = p1
    p2 = p2
    p3 = p3
    p4 = p4
    Runs = {p1, p2, p3, p4}
    MaxRunning = 2
    Commands <- SomeCommands
SYMMETRY AnyRun
INVARIANTS
    VersionsMatchSchema
PROPERTIES
    LoneRunSucceeds
    SuccessMeansComplete
