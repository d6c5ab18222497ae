SPECIFICATION Spec
CONSTANTS
    Apps = {a1}
    Licenses = {l1}
    Devices = {d1, d2}
    Installs = {i1}
    NoApp = NoApp
    NoInstall = NoInstall
    AppIds = {id1}
    NoDevice = NoDevice
    Limits = {1}
    Deadlines = {0}
    ChallengeTTL = 0
    TokenTTL = 0
    RiskyTokenTTL = 0
    MaxTime = 1
    MaxChallenges = 2
    MaxPending = 1
    MaxSaveFailures = 2
SYMMETRY DeviceSymmetry
INVARIANTS
    ReferentialIntegrity
    TokenBacked
    NothingUnsaved
    DeactivationLasts
    DiagnosisExplainsVerification
PROPERTIES
    SeatNeedsChallenge
    ImplementsLedger
    ServesInstallations
