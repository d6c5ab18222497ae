SPECIFICATION Spec
CONSTANTS
    Apps = {vf, demo}
    VisionFlow = {vf}
    DemoApp = demo
    Capabilities = {c1}
    Versions = {v1}
    DemoVersion = v1
    Servers = {s1}
    Runners = {r1}
    LastFile = 3
    SeedFile = 2
    MaxMisfits = 1
    MaxRetired = 1
    MaxSigningKey = 2
    MaxSaveFailures = 1
INVARIANTS
    TypeOK
    AnsweredIsKept
    OneActiveKey
    DefaultsComplete
    ProductionHasNoDemo
    MigrationsInOrder
PROPERTIES
    StartsAgain
