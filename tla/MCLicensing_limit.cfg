SPECIFICATION Spec
CONSTANTS
    Apps = {a1}
    Licenses = {l1}
    Devices = {d1, d2}
    Installs = {i1}
    NoApp = NoApp
    NoInstall = NoInstall
    AppIds = {}
    NoDevice = NoDevice
    Limits = {1}
    Deadlines = {0}
    ChallengeTTL = 0
    TokenTTL = 0
    RiskyTokenTTL = 0
    MaxTime = 0
    MaxChallenges = 3
    MaxPending = 1
    MaxSaveFailures = 0
SYMMETRY DeviceSymmetry
INVARIANTS
    ActiveWithinLimit
