------------------------ MODULE LicensingDiagnostics ------------------------
(***************************************************************************)
(* What the administrator is told about a licence and a device: the        *)
(* authorization diagnostics (authorizationDiagnosticLocked) read the       *)
(* database and change nothing.  They exist to explain the answers of the   *)
(* verification, so the properties compare the two in every state.          *)
(*                                                                          *)
(* The findings on the app, the release, the policy, the risk events and    *)
(* the integrity reports are left out: none depends on this state.          *)
(***************************************************************************)
EXTENDS LicensingRefinement

CONSTANTS
    NoDevice    \* no device asked for, or none found

ASSUME DiagnosticsAssumption == NoDevice \notin Devices

----------------------------------------------------------------------------
(* Which device and which activation the diagnosis is about *)

\* The activations of licence l, of which the one verified last is taken: any,
\* as last_verified_at is not part of the model.
Latest(l) ==
    LET activated == {x \in Devices : db.act[l][x] # "none"}
    IN  IF activated = {} THEN {NoDevice} ELSE activated

Known(x) == x # NoDevice /\ db.dev[x].status # "none"

\* The pairs [device, activation of which device] a diagnosis may be about.  A
\* device that is not given, or not known, is inferred from an activation.
Subjects(l, asked) ==
    IF Known(asked)
    THEN {[device |-> asked, activation |-> x] :
              x \in IF db.act[l][asked] # "none" THEN {asked} ELSE Latest(l)}
    ELSE {[device |-> x, activation |-> x] : x \in Latest(l)}

----------------------------------------------------------------------------
(* The findings *)

LicenseFinding_FaultIgnoresDeadline(named, l) ==
    IF db.lic[l].status = "none" THEN "license_not_found"
    ELSE IF db.lic[l].app # named THEN "license_app_mismatch"
    ELSE IF db.lic[l].status # "active" THEN "license_not_active" ELSE "ok"

\* The name the licence is filed under is compared with the name in the request;
\* either may be the app's internal id.
LicenseFinding(named, l) ==
    IF db.lic[l].status = "none" THEN "license_not_found"
    ELSE IF db.lic[l].app # named THEN "license_app_mismatch"
    ELSE IF db.lic[l].status # "active" THEN "license_not_active"
    ELSE IF now > db.lic[l].expiresAt THEN "license_expired" ELSE "ok"

DeviceFinding(x) ==
    IF x = NoDevice THEN "device_not_found"
    ELSE IF db.dev[x].status = "active" THEN "ok" ELSE "device_not_active"

ActivationFinding(l, x) ==
    IF x = NoDevice THEN "activation_not_found"
    ELSE IF db.act[l][x] = "active" THEN "ok" ELSE "activation_not_active"

\* What GET /admin/apps/{app_id}/diagnostics reports of a licence, about s.
Diagnosis(named, l, s) ==
    [license    |-> LicenseFinding(named, l),
     device     |-> DeviceFinding(s.device),
     activation |-> ActivationFinding(l, s.activation)]

AllClear == [license |-> "ok", device |-> "ok", activation |-> "ok"]

----------------------------------------------------------------------------
(* Properties *)

\* What a verification would answer: the request of device x for app a with its
\* token for licence l passes every check after the challenge.
TokenWouldVerify(a, l, x) ==
    LET cred == [kind |-> "token", lic |-> l, app |-> a, dev |-> x]
    IN  /\ LicenseUsable(l, a)
        /\ ~ Overdue(l)
        /\ PassesDevice(db, x, a, cred)

\* With the licence key nothing but the device limit could refuse x.
KeyNeedsOnlyASeat(a, l, x) ==
    LET cred == [kind |-> "key", lic |-> l]
    IN  /\ LicenseUsable(l, a)
        /\ ~ Overdue(l)
        /\ ~ ForAnotherApp(cred, a) /\ DeviceAllowed(db, x) /\ CredentialHolds(cred, db, x)

\* What a diagnosis is worth, whichever device it was asked for, known or not.  Where
\* it names the app by its key: if device and activation belong together, the asked
\* ones or those it fell back to, it is all clear exactly when that device's token
\* would verify at this moment.  If they do not, because the asked device has no
\* activation and another has, the good activation says nothing; but no trouble with
\* licence and device means that the licence key would give the device a seat, were
\* one free.  Where it names the app by its internal id it has no trouble only with
\* licences filed under that id, which no client can use.
DiagnosisExplainsVerification ==
    \A l \in Licenses, asked \in Devices \cup {NoDevice} : \A s \in Subjects(l, asked) :
        /\ \A a \in Apps :
              LET d == Diagnosis(a, l, s)
                  x == s.device
              IN  /\ x = s.activation =>
                         (d = AllClear <=> x # NoDevice /\ TokenWouldVerify(a, l, x))
                  /\ x # NoDevice => (d.license = "ok" /\ d.device = "ok"
                                      <=> KeyNeedsOnlyASeat(a, l, x))
        /\ \A id \in AppIds :
              Diagnosis(id, l, s).license = "ok" => \A a \in Apps : ~ LicenseUsable(l, a)
=============================================================================
