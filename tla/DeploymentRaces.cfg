SPECIFICATION FairSpec
CONSTANTS
    Migrators = {m1, m2}
    Requests = {r1}
    Probes = {p1}
    MaxFaults = 1
INVARIANTS
    IInv
    SchemaWhole
    MissingAtOnce
    ReadyMeansServed
    UpgradeMeansSchema
    DeadlocksNeedDowngrade
PROPERTIES
    EveryoneEnds
    SwitchesSchema
