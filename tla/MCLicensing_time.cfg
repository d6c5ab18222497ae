SPECIFICATION Spec
CONSTANTS
    Apps = {a1, a2}
    Licenses = {l1, l2}
    Devices = {d1}
    Installs = {i1, i2}
    NoApp = NoApp
    NoInstall = NoInstall
    AppIds = {}
    NoDevice = NoDevice
    Limits = {1}
    Deadlines = {1}
    ChallengeTTL = 1
    TokenTTL = 1
    RiskyTokenTTL = 0
    MaxTime = 2
    MaxChallenges = 2
    MaxPending = 1
    MaxSaveFailures = 0
SYMMETRY LicenseSymmetry
INVARIANTS
    TokenBacked
    DeadlineRespected
    OneTokenPerChallenge
