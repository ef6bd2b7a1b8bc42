CONSTANTS
    r1 = r1
    r2 = r2
    r3 = r3
    f1 = f1
    f2 = f2
    f3 = f3
    Replicas = {r1, r2, r3}
    Files = {f1, f2, f3}
    NoFile = NoFile
    NumStatements = 2
    Embedded <- RollingUpdate
    Calls = {c1}
    Nobody = Nobody
SPECIFICATION StartupFairSpec
CHECK_DEADLOCK FALSE
INVARIANTS
    TypeOK
    StartedIsMigrated
    CleanIsApplied
    VersionsInOrder
    StartupTypeOK
    CallsFindSchema
    ClientMissedOnlyEarly
PROPERTIES
    OnlyFaultsOrphan
    AllServe
