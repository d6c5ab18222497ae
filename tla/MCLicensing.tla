----------------------------- MODULE MCLicensing -----------------------------
(* Small instances of Licensing for TLC. *)
EXTENDS LicensingDiagnostics, TLC

DeviceSymmetry == Permutations(Devices)
LicenseSymmetry ==
    Permutations(Apps) \cup Permutations(Licenses) \cup Permutations(Installs)
=============================================================================
