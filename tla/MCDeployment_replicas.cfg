SPECIFICATION ReplicatedSpec
CONSTANTS
    Apps = {vf, demo}
    VisionFlow = {vf}
    DemoApp = demo
    Capabilities = {c1}
    Versions = {v1}
    DemoVersion = v1
    Servers = {s1, s2}
    Runners = {r1}
    LastFile = 3
    SeedFile = 2
    MaxMisfits = 0
    MaxRetired = 1
    MaxSigningKey = 1
    MaxSaveFailures = 0
INVARIANTS
    StoreKeepsAnswers
