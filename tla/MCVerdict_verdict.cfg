SPECIFICATION Spec
CONSTANTS
    Versions <- MCVersions
    NoVersion = NoVersion
    Word = Word
    d1 = d1
    h = h
    Devices = {d1, d2}
    NoDevice = NoDevice
    Full = 3
    Bucket <- MCBucket
    Fields = {"binary", "manifest"}
    Hashes = {h, forged}
    NoHash = NoHash
    Forged = forged
    MaxBuild = 2
    MaxModules = 2
    Entitlements = {basic, extra}
    NoEntitlement = NoEntitlement
    NoPolicy = NoPolicy
    basic = basic
    Sent <- MCSent
    Rows <- MCRows
    Minutes = {1, 100000}
    Patchable = {"token_ttl", "risk_ttl"}
    MaxReleases = 2
    Reports <- MCReports
INVARIANTS
    TypeOK
    VersionOrder
    BlockedIsDenied
    MinimumIsForced
    EvidenceOnlyTightens
    SettingsNormal
    CapabilityNeedsEntitlement
PROPERTIES
    RolloutOnlyWidens
