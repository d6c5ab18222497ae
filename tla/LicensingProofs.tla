--------------------------- MODULE LicensingProofs ---------------------------
(* Theorems about Licensing, for every value of its constants. *)
EXTENDS Licensing, FiniteSetTheorems, TLAPS

----------------------------------------------------------------------------
(* The operators on the database keep its type *)

\* Enrolling a device (findOrCreateDeviceLocked) keeps the database well typed.
LEMMA EnrolType ==
    ASSUME NEW d \in Database, NEW x \in Devices, NEW i \in Installs
    PROVE  Enrol(d, x, i) \in Database
  BY DEF Enrol, Database, Device, DeviceStatus

\* Setting an activation active keeps the database well typed.
LEMMA ActivateType ==
    ASSUME NEW d \in Database, NEW l \in Licenses, NEW x \in Devices
    PROVE  Activate(d, l, x) \in Database
  BY DEF Activate, Database, ActivationStatus

\* Revoking a licence and blocking its activations keeps the database well typed.
LEMMA RevokedType ==
    ASSUME NEW d \in Database, NEW l \in Licenses
    PROVE  Revoked(d, l) \in Database
<1> DEFINE ends == [x \in Devices |-> IF d.act[l][x] = "none" THEN "none" ELSE "blocked"]
           lic == [d.lic EXCEPT ![l].status = "revoked"]
           act == [d.act EXCEPT ![l] = ends]
<1>1. ends \in [Devices -> ActivationStatus]
  BY DEF ActivationStatus
<1>2. lic \in [Licenses -> License]
  BY DEF Database, License, LicenseStatus
<1>3. act \in [Licenses -> [Devices -> ActivationStatus]]
  BY <1>1 DEF Database
<1>4. Revoked(d, l) = [d EXCEPT !.lic = lic, !.act = act]
  BY DEF Revoked, Database
<1>5. QED
  BY <1>2, <1>3, <1>4 DEF Database

\* Setting a licence's status keeps the database well typed.
LEMMA StatusType ==
    ASSUME NEW d \in Database, NEW l \in Licenses, NEW s \in LicenseStatus
    PROVE  WithStatus(d, l, s) \in Database
<1>1. [d.lic EXCEPT ![l].status = s] \in [Licenses -> License]
  BY DEF Database, License
<1> QED
  BY <1>1 DEF WithStatus, Database

\* Blocking or unblocking a device keeps the database well typed.
LEMMA DeviceStatusType ==
    ASSUME NEW d \in Database, NEW x \in Devices, NEW s \in DeviceStatus
    PROVE  WithDevice(d, x, s) \in Database
  BY DEF WithDevice, Database, Device

\* Unbinding a device keeps the database well typed.
LEMMA UnboundType ==
    ASSUME NEW d \in Database, NEW x \in Devices
    PROVE  Unbound(d, x) \in Database
  BY DEF Unbound, Database, ActivationStatus

\* Ending the activation a token names keeps the database well typed.
LEMMA DeactivatedType ==
    ASSUME NEW d \in Database, NEW t \in Token
    PROVE  Deactivated(d, t) \in Database
  BY DEF Deactivated, Database, ActivationStatus, Token

\* Creating a licence within Limits and Deadlines keeps the database well typed.
LEMMA CreatedType ==
    ASSUME NEW d \in Database, NEW l \in Licenses, NEW a \in AppNames,
           NEW m \in Limits, NEW e \in Deadlines
    PROVE  Created(d, l, a, m, e) \in Database
  BY LicensingAssumption DEF Created, Database, License, LicenseStatus

\* The database of a production start (loadOrSeed) is well typed.
LEMMA EmptyType == EmptyDatabase \in Database
  BY DEF EmptyDatabase, Database, License, LicenseStatus, Device, DeviceStatus,
         ActivationStatus

----------------------------------------------------------------------------
(* The shape of a step: what it does to the database, the store and the     *)
(* history of revivals.                                                     *)

\* e is what a handler makes of the database.
DbStep(e) ==
    \/ e = db
    \/ \E l \in Licenses, a \in AppNames, m \in Limits, t \in Deadlines :
           db.lic[l].status = "none" /\ e = Created(db, l, a, m, t)
    \/ \E l \in Licenses, s \in {"active", "suspended", "expired"} :
           /\ db.lic[l].status # "none"
           /\ s = "expired" => now > db.lic[l].expiresAt
           /\ e = WithStatus(db, l, s)
    \/ \E l \in Licenses : db.lic[l].status # "none" /\ e = Revoked(db, l)
    \/ \E x \in Devices, s \in {"active", "blocked"} :
           db.dev[x].status # "none" /\ e = WithDevice(db, x, s)
    \/ \E x \in Devices : e = Unbound(db, x)
    \/ \E x \in Devices, i \in Installs : e = Enrol(db, x, i)
    \/ \E r \in pending : e = Deactivated(db, r.tok)

\* A step that takes or keeps the seat of device x for licence l: it spends a
\* live challenge.
SeatStep(e, l, x) ==
    \E i \in Installs :
        /\ \E c \in challenges : now <= c.expiresAt /\ c \notin challenges'
        /\ db.lic[l].status = "active" /\ ~ Overdue(l)
        /\ DeviceAllowed(Enrol(db, x, i), x)
        /\ SeatFree(Enrol(db, x, i), l, x)
        /\ e = Activate(Enrol(db, x, i), l, x)
        /\ NoteRevival(l, x)

CredentialType == \A cred \in Credential : cred.lic \in Licenses

\* Whatever credential a verification presents, it names a licence identity.
LEMMA CredentialLicense == TypeOK => CredentialType
  BY DEF TypeOK, CredentialType, Credential, Token

StepShape ==
    \/ Restart
    \/ \E e : DbStep(e) /\ db' = e /\ store' \in {store, e} /\ revived' = revived
    \/ \E e : \E l \in Licenses, x \in Devices :
           SeatStep(e, l, x) /\ db' = e /\ store' \in {store, e}

\* A save, successful or not, leaves the change in memory and the store old or new.
LEMMA SavedShape ==
    ASSUME NEW e, Saved(e)
    PROVE  db' = e /\ store' \in {store, e}
  BY DEF Saved, SaveSucceeds, SaveFails

\* Every handler, restart and tick has one of the three shapes of StepShape.
LEMMA StepShapeHolds == TypeOK /\ [Next]_vars => StepShape
<1> SUFFICES ASSUME TypeOK, [Next]_vars PROVE StepShape
  OBVIOUS
<1>1. ASSUME Unsaved, UNCHANGED revived PROVE StepShape
  BY <1>1 DEF StepShape, DbStep, Unsaved
<1>2. ASSUME NEW e, DbStep(e), Saved(e), UNCHANGED revived PROVE StepShape
  BY <1>2, SavedShape DEF StepShape
<1>3. CASE \E l \in Licenses, a \in AppNames, m \in Limits, t \in Deadlines :
               CreateLicense(l, a, m, t)
  BY <1>3, <1>2 DEF CreateLicense, DbStep, clients
<1>4. CASE \E l \in Licenses : RevokeLicense(l) \/ SuspendLicense(l) \/ ResumeLicense(l)
  <2>1. PICK l \in Licenses : RevokeLicense(l) \/ SuspendLicense(l) \/ ResumeLicense(l)
    BY <1>4
  <2>2. CASE RevokeLicense(l)
    BY <2>2, <1>2 DEF RevokeLicense, DbStep, clients
  <2>3. CASE SuspendLicense(l)
    BY <2>3, <1>2 DEF SuspendLicense, DbStep, clients
  <2>4. CASE ResumeLicense(l)
    BY <2>4, <1>2 DEF ResumeLicense, Resumed, DbStep, clients
  <2>5. QED
    BY <2>1, <2>2, <2>3, <2>4
<1>5. CASE \E x \in Devices : BlockDevice(x) \/ UnblockDevice(x) \/ UnbindDevice(x)
  BY <1>5, <1>2 DEF BlockDevice, UnblockDevice, UnbindDevice, DbStep, clients
<1>6. CASE \E a \in Apps, i \in Installs : IssueChallenge(a, i)
  BY <1>6, <1>1 DEF IssueChallenge, clients
<1>7. CASE StrayRequest
  BY <1>7, <1>1 DEF StrayRequest, clients
<1>8. CASE \E c \in challenges, x \in Devices, a \in Apps, i \in Installs,
              cred \in Credential : ClientVerification(c, x, a, i, cred)
  <2>1. PICK c \in challenges, x \in Devices, a \in Apps, i \in Installs,
             cred \in Credential : ClientVerification(c, x, a, i, cred)
    BY <1>8
  <2>2. cred.lic \in Licenses
    BY CredentialLicense DEF CredentialType
  <2>3. CASE \E wellFormed \in BOOLEAN : VerifyRefused(c, a, i, cred, wellFormed)
    BY <2>3, <1>1 DEF VerifyRefused, clients
  <2>4. CASE VerifyOverdue(c, a, i, cred)
    <3>1. DbStep(WithStatus(db, cred.lic, "expired"))
      BY <2>2, <2>4 DEF VerifyOverdue, PassesLicense, LicenseUsable, Overdue, DbStep
    <3>2. QED
      BY <2>4, <3>1, <1>2 DEF VerifyOverdue, clients
  <2>5. CASE VerifyDenied(c, x, a, i, cred)
    <3> DEFINE d == IF ForAnotherApp(cred, a) THEN db ELSE Enrol(db, x, i)
    <3>1. DbStep(d)
      BY DEF DbStep
    <3>2. Saved(d) /\ UNCHANGED revived
      BY <2>5 DEF VerifyDenied, clients
    <3>3. QED
      BY <3>1, <3>2, <1>2
  <2>6. ASSUME PassesLicense(c, a, i, cred), ~ Overdue(cred.lic), PassesDevice(Enrol(db, x, i), x, a, cred),
               challenges' = ChallengesWithout(c), NoteRevival(cred.lic, x), Saved(Activate(Enrol(db, x, i), cred.lic, x))
        PROVE  StepShape
    <3> DEFINE e == Activate(Enrol(db, x, i), cred.lic, x)
    <3>1. SeatStep(e, cred.lic, x)
      BY <2>1, <2>6 DEF SeatStep, PassesLicense, LicenseUsable, PassesDevice,
                        ChallengeAccepted, ChallengesWithout
    <3>2. db' = e /\ store' \in {store, e}
      BY <2>6, SavedShape
    <3> HIDE DEF e
    <3>3. QED
      BY <2>2, <3>1, <3>2 DEF StepShape
  <2>7. CASE \E integrityDenies \in BOOLEAN :
                 VerifyWithoutToken(c, x, a, i, cred, integrityDenies)
    BY <2>6, <2>7 DEF VerifyWithoutToken, Saved
  <2>8. CASE \E ttl \in {TokenTTL, RiskyTokenTTL} : VerifyGranted(c, x, a, i, cred, ttl)
    BY <2>6, <2>8 DEF VerifyGranted, GrantSaved, Saved
  <2>9. QED
    BY <2>1, <2>3, <2>4, <2>5, <2>7, <2>8 DEF ClientVerification
<1>9. CASE \E op \in TokenOps, t \in tokens, i \in Installs \cup {NoInstall} :
               TokenRequest(op, t, i)
  BY <1>9, <1>1 DEF TokenRequest
<1>10. CASE \E r \in pending : Heartbeat(r) \/ CapabilityCheck(r) \/ Deactivate(r)
  <2>1. PICK r \in pending : Heartbeat(r) \/ CapabilityCheck(r) \/ Deactivate(r)
    BY <1>10
  <2>2. CASE Heartbeat(r)
    BY <2>2, <1>2 DEF Heartbeat, Serve, DbStep
  <2>3. CASE CapabilityCheck(r)
    BY <2>3, <1>1, <1>2 DEF CapabilityCheck, Serve, DbStep
  <2>4. CASE Deactivate(r)
    <3>1. UNCHANGED revived
      BY <2>4 DEF Deactivate, Serve
    <3>2. DbStep(db) /\ DbStep(Deactivated(db, r.tok))
      BY DEF DbStep
    <3>3. Saved(db) \/ Saved(Deactivated(db, r.tok))
      BY <2>4 DEF Deactivate, Saved
    <3>4. QED
      BY <3>1, <3>2, <3>3, <1>2
  <2>5. QED
    BY <2>1, <2>2, <2>3, <2>4
<1>11. CASE Restart
  BY <1>11 DEF StepShape
<1>12. CASE Tick
  BY <1>12, <1>1 DEF Tick
<1>13. CASE UNCHANGED vars
  BY <1>13, <1>1 DEF vars, Unsaved
<1>14. QED
  BY <1>3, <1>4, <1>5, <1>6, <1>7, <1>8, <1>9, <1>10, <1>11, <1>12, <1>13 DEF Next

\* Only the clock's own step moves it.
LEMMA ClockTicks == [Next]_vars => now' = now \/ Tick
<1> SUFFICES ASSUME [Next]_vars PROVE now' = now \/ Tick
  OBVIOUS
<1>1. CASE \E l \in Licenses, a \in AppNames, m \in Limits, t \in Deadlines :
               CreateLicense(l, a, m, t)
  BY <1>1 DEF CreateLicense, clients
<1>2. CASE \E l \in Licenses : RevokeLicense(l) \/ SuspendLicense(l) \/ ResumeLicense(l)
  BY <1>2 DEF RevokeLicense, SuspendLicense, ResumeLicense, clients
<1>3. CASE \E x \in Devices : BlockDevice(x) \/ UnblockDevice(x) \/ UnbindDevice(x)
  BY <1>3 DEF BlockDevice, UnblockDevice, UnbindDevice, clients
<1>4. CASE \/ StrayRequest
           \/ \E a \in Apps, i \in Installs : IssueChallenge(a, i)
  BY <1>4 DEF IssueChallenge, StrayRequest, clients
<1>5. CASE \E c \in challenges, x \in Devices, a \in Apps, i \in Installs,
              cred \in Credential : ClientVerification(c, x, a, i, cred)
  BY <1>5 DEF ClientVerification, VerifyRefused, VerifyOverdue, VerifyDenied,
              VerifyWithoutToken, VerifyGranted, clients
<1>6. CASE \/ \E op \in TokenOps, t \in tokens, i \in Installs \cup {NoInstall} :
                  TokenRequest(op, t, i)
           \/ \E r \in pending : Heartbeat(r) \/ CapabilityCheck(r) \/ Deactivate(r)
  BY <1>6 DEF TokenRequest, Heartbeat, CapabilityCheck, Deactivate, Serve
<1>7. CASE Restart \/ Tick \/ UNCHANGED vars
  BY <1>7 DEF Restart, vars
<1>8. QED
  BY <1>1, <1>2, <1>3, <1>4, <1>5, <1>6, <1>7 DEF Next

----------------------------------------------------------------------------
(* Type correctness *)

\* What a handler that takes no seat makes of the database is well typed.
LEMMA DbStepType ==
    ASSUME TypeOK, NEW e, DbStep(e)
    PROVE  e \in Database
<1>1. db \in Database /\ \A r \in pending : r.tok \in Token
  BY DEF TypeOK, Request
<1>2. CASE \E l \in Licenses, s \in {"active", "suspended", "expired"} :
               e = WithStatus(db, l, s)
  BY <1>1, <1>2, StatusType DEF LicenseStatus
<1>3. CASE \E x \in Devices, s \in {"active", "blocked"} : e = WithDevice(db, x, s)
  BY <1>1, <1>3, DeviceStatusType DEF DeviceStatus
<1>4. CASE \E l \in Licenses, a \in AppNames, m \in Limits, t \in Deadlines :
               e = Created(db, l, a, m, t)
  BY <1>1, <1>4, CreatedType
<1>5. CASE \E r \in pending : e = Deactivated(db, r.tok)
  BY <1>1, <1>5, DeactivatedType
<1>6. QED
  BY <1>1, <1>2, <1>3, <1>4, <1>5, RevokedType, UnboundType, EnrolType DEF DbStep

\* What an activation or a verification that takes a seat leaves is well typed.
LEMMA SeatStepType ==
    ASSUME TypeOK, NEW e, NEW l \in Licenses, NEW x \in Devices, SeatStep(e, l, x)
    PROVE  e \in Database /\ revived' \in SUBSET Licenses
<1>1. PICK i \in Installs : e = Activate(Enrol(db, x, i), l, x) /\ NoteRevival(l, x)
  BY DEF SeatStep
<1>2. Enrol(db, x, i) \in Database
  BY EnrolType DEF TypeOK
<1>3. QED
  BY <1>1, <1>2, ActivateType DEF TypeOK, NoteRevival

\* What the store and the memory hold stays well typed.
LEMMA DatabaseType ==
    TypeOK /\ [Next]_vars => /\ db' \in Database /\ store' \in Database
                             /\ revived' \subseteq Licenses
<1> SUFFICES ASSUME TypeOK, [Next]_vars
             PROVE  /\ db' \in Database /\ store' \in Database
                    /\ revived' \subseteq Licenses
  OBVIOUS
<1>1. StepShape
  BY StepShapeHolds
<1>2. QED
  BY <1>1, DbStepType, SeatStepType DEF StepShape, Restart, TypeOK

\* Issuing a challenge (handleChallenge) keeps the live challenges well typed.
LEMMA NewChallengeType ==
    ASSUME TypeOK, NEW a \in Apps, NEW i \in Installs, IssueChallenge(a, i)
    PROVE  challenges' \subseteq Challenge /\ nextChallenge' \in Nat
  BY LicensingAssumption DEF IssueChallenge, TypeOK, Live, Challenge

\* A granted token (processClientVerification) is well typed.
LEMMA NewTokenType ==
    ASSUME TypeOK, NEW c \in challenges, NEW x \in Devices, NEW a \in Apps,
           NEW l \in Licenses, NEW ttl \in {TokenTTL, RiskyTokenTTL}
    PROVE  NewToken(c, x, a, l, ttl) \in Token
  BY LicensingAssumption DEF TypeOK, NewToken, Token, Challenge

\* The database, the store, the clients and the bookkeeping keep their types.
THEOREM TypeCorrect == Spec => []TypeOK
<1>1. Init => TypeOK
  BY EmptyType DEF Init, TypeOK
<1>2. TypeOK /\ [Next]_vars => TypeOK'
  <2> SUFFICES ASSUME TypeOK, [Next]_vars PROVE TypeOK'
    OBVIOUS
  <2> USE DEF TypeOK, Live, ChallengesWithout
  <2>1. /\ db' \in Database /\ store' \in Database /\ revived' \subseteq Licenses
    BY DatabaseType
  <2>2. ASSUME NEW e, Saved(e) PROVE failures' \in Nat
    BY <2>2 DEF Saved, SaveSucceeds, SaveFails
  <2>3. CASE \E l \in Licenses, a \in AppNames, m \in Limits, t \in Deadlines :
                 CreateLicense(l, a, m, t)
    BY <2>1, <2>2, <2>3 DEF CreateLicense, clients, issuing
  <2>4. CASE \E l \in Licenses : RevokeLicense(l) \/ SuspendLicense(l) \/ ResumeLicense(l)
    BY <2>1, <2>2, <2>4 DEF RevokeLicense, SuspendLicense, ResumeLicense, clients, issuing
  <2>5. CASE \E x \in Devices : BlockDevice(x) \/ UnblockDevice(x) \/ UnbindDevice(x)
    BY <2>1, <2>2, <2>5 DEF BlockDevice, UnblockDevice, UnbindDevice, clients, issuing
  <2>6. CASE \E a \in Apps, i \in Installs : IssueChallenge(a, i)
    BY <2>1, <2>6, NewChallengeType DEF IssueChallenge, Unsaved, clients
  <2>7. CASE StrayRequest
    BY <2>1, <2>7 DEF StrayRequest, Unsaved, clients
  <2>8. CASE \E c \in challenges, x \in Devices, a \in Apps, i \in Installs,
                cred \in Credential : ClientVerification(c, x, a, i, cred)
    <3>1. PICK c \in challenges, x \in Devices, a \in Apps, i \in Installs,
               cred \in Credential : ClientVerification(c, x, a, i, cred)
      BY <2>8
    <3>2. cred.lic \in Licenses
      BY CredentialLicense DEF CredentialType
    <3>3. CASE \E wellFormed \in BOOLEAN : VerifyRefused(c, a, i, cred, wellFormed)
      BY <2>1, <3>3 DEF VerifyRefused, Unsaved, clients
    <3>4. CASE VerifyOverdue(c, a, i, cred)
      BY <2>1, <2>2, <3>4 DEF VerifyOverdue, clients
    <3>5. CASE VerifyDenied(c, x, a, i, cred)
      BY <2>1, <2>2, <3>5 DEF VerifyDenied, clients
    <3>6. CASE \E integrityDenies \in BOOLEAN :
                   VerifyWithoutToken(c, x, a, i, cred, integrityDenies)
      <4>1. failures' \in Nat
        BY <2>2, <3>6 DEF VerifyWithoutToken, Saved
      <4>2. QED
        BY <2>1, <4>1, <3>6 DEF VerifyWithoutToken
    <3>7. CASE \E ttl \in {TokenTTL, RiskyTokenTTL} : VerifyGranted(c, x, a, i, cred, ttl)
      <4>1. PICK ttl \in {TokenTTL, RiskyTokenTTL} : VerifyGranted(c, x, a, i, cred, ttl)
        BY <3>7
      <4>2. NewToken(c, x, a, cred.lic, ttl) \in Token
        BY <3>2, NewTokenType
      <4>3. QED
        BY <2>1, <4>1, <4>2 DEF VerifyGranted, GrantSaved, SaveSucceeds
    <3>8. QED
      BY <3>1, <3>3, <3>4, <3>5, <3>6, <3>7 DEF ClientVerification
  <2>9. CASE \E op \in TokenOps, t \in tokens, i \in Installs \cup {NoInstall} :
                 TokenRequest(op, t, i)
    BY <2>1, <2>9 DEF TokenRequest, Request, Unsaved, issuing
  <2>10. CASE \E r \in pending : Heartbeat(r) \/ CapabilityCheck(r) \/ Deactivate(r)
    <3>1. PICK r \in pending : Heartbeat(r) \/ CapabilityCheck(r) \/ Deactivate(r)
      BY <2>10
    <3>2. CASE Heartbeat(r)
      BY <2>1, <2>2, <3>2 DEF Heartbeat, Serve, issuing
    <3>3. CASE CapabilityCheck(r)
      BY <2>1, <2>2, <3>3 DEF CapabilityCheck, Serve, issuing, Unsaved
    <3>4. CASE Deactivate(r)
      <4>1. failures' \in Nat
        BY <2>2, <3>4 DEF Deactivate, Saved
      <4>2. ended' \subseteq tokens'
        BY <3>4 DEF Deactivate, Serve, Request
      <4>3. QED
        BY <2>1, <4>1, <4>2, <3>4 DEF Deactivate, Serve, issuing
    <3>5. QED
      BY <3>1, <3>2, <3>3, <3>4
  <2>11. CASE Restart
    BY <2>1, <2>11 DEF Restart
  <2>12. CASE Tick
    BY <2>1, <2>12 DEF Tick, Unsaved, issuing
  <2>13. CASE UNCHANGED vars
    BY <2>13 DEF vars
  <2>14. QED
    BY <2>3, <2>4, <2>5, <2>6, <2>7, <2>8, <2>9, <2>10, <2>11, <2>12, <2>13 DEF Next
<1>3. QED
  BY <1>1, <1>2, PTL DEF Spec

----------------------------------------------------------------------------
(* Seats, revocations and references.  Sound(d, R) is what the three safety *)
(* invariants say of one database d when R is the set of licences revived;  *)
(* it is inductive for the memory and the store together.                   *)

Sound(d, R) ==
    /\ \A l \in Licenses : d.lic[l].status = "revoked" => SeatsTaken(d, l) = {}
    /\ \A l \in Licenses \ R : Cardinality(SeatsTaken(d, l)) <= d.lic[l].max
    /\ \A l \in Licenses, x \in Devices :
           d.act[l][x] # "none" => /\ d.lic[l].status # "none"
                                   /\ d.dev[x].status # "none"

\* Seats are counted by natural numbers, and fewer seats count for less.
LEMMA FewerSeats ==
    ASSUME NEW d, NEW e, NEW l, SeatsTaken(e, l) \subseteq SeatsTaken(d, l)
    PROVE  /\ Cardinality(SeatsTaken(d, l)) \in Nat
           /\ Cardinality(SeatsTaken(e, l)) \in Nat
           /\ Cardinality(SeatsTaken(e, l)) <= Cardinality(SeatsTaken(d, l))
<1>1. SeatsTaken(d, l) \subseteq Devices /\ SeatsTaken(e, l) \subseteq Devices
  BY DEF SeatsTaken
<1>2. IsFiniteSet(SeatsTaken(d, l)) /\ IsFiniteSet(SeatsTaken(e, l))
  BY <1>1, LicensingAssumption, FS_Subset
<1>3. QED
  BY <1>2, FS_CardinalityType, FS_Subset

\* A change that takes no seat, and revokes only what it empties, is sound.
Eases(d, e) ==
    /\ \A l \in Licenses :
           /\ SeatsTaken(e, l) \subseteq SeatsTaken(d, l)
           /\ e.lic[l].max = d.lic[l].max
           /\ e.lic[l].status = "revoked" =>
                  d.lic[l].status = "revoked" \/ SeatsTaken(e, l) = {}
           /\ d.lic[l].status # "none" => e.lic[l].status # "none"
    /\ \A x \in Devices : d.dev[x].status # "none" => e.dev[x].status # "none"
    /\ \A l \in Licenses, x \in Devices :
           e.act[l][x] # "none" => d.act[l][x] # "none"

\* A change that eases a sound database leaves it sound.
LEMMA EasingIsSound ==
    ASSUME NEW R, NEW d \in Database, NEW e, Sound(d, R), Eases(d, e)
    PROVE  Sound(e, R)
<1>1. ASSUME NEW l \in Licenses \ R
      PROVE  Cardinality(SeatsTaken(e, l)) <= e.lic[l].max
  <2>1. SeatsTaken(e, l) \subseteq SeatsTaken(d, l) /\ e.lic[l].max = d.lic[l].max
    BY DEF Eases
  <2>2. Cardinality(SeatsTaken(d, l)) <= d.lic[l].max /\ d.lic[l].max \in Nat
    BY DEF Sound, Database, License
  <2>3. QED
    BY <2>1, <2>2, FewerSeats
<1>2. ASSUME NEW l \in Licenses, e.lic[l].status = "revoked"
      PROVE  SeatsTaken(e, l) = {}
  BY <1>2 DEF Eases, Sound
<1>3. ASSUME NEW l \in Licenses, NEW x \in Devices, e.act[l][x] # "none"
      PROVE  e.lic[l].status # "none" /\ e.dev[x].status # "none"
  BY <1>3 DEF Eases, Sound
<1>4. QED
  BY <1>1, <1>2, <1>3 DEF Sound

\* What revoking licence l leaves in each field of the database.
LEMMA RevokedFields ==
    ASSUME NEW d \in Database, NEW l \in Licenses, NEW k \in Licenses, NEW x \in Devices
    PROVE  /\ Revoked(d, l).act[k][x] =
                  IF k = l /\ d.act[k][x] # "none" THEN "blocked" ELSE d.act[k][x]
           /\ Revoked(d, l).lic[k].max = d.lic[k].max
           /\ Revoked(d, l).lic[k].status = IF k = l THEN "revoked" ELSE d.lic[k].status
           /\ Revoked(d, l).dev = d.dev
  BY DEF Revoked, Database, License

\* Revocation (handleLicenseAction) eases the database: it empties what it revokes.
LEMMA RevokedEases ==
    ASSUME NEW d \in Database, NEW l \in Licenses
    PROVE  Eases(d, Revoked(d, l))
<1> DEFINE e == Revoked(d, l)
<1>1. ASSUME NEW k \in Licenses
      PROVE  /\ SeatsTaken(e, k) \subseteq SeatsTaken(d, k)
             /\ k = l => SeatsTaken(e, k) = {}
  BY RevokedFields DEF SeatsTaken
<1>2. ASSUME NEW k \in Licenses
      PROVE  /\ e.lic[k].max = d.lic[k].max
             /\ e.lic[k].status = IF k = l THEN "revoked" ELSE d.lic[k].status
  BY DEF Revoked, Database, License
<1>3. e.dev = d.dev
  BY DEF Revoked, Database
<1>4. ASSUME NEW k \in Licenses, NEW x \in Devices, e.act[k][x] # "none"
      PROVE  d.act[k][x] # "none"
  BY <1>4, RevokedFields
<1> HIDE DEF e
<1>5. Eases(d, e)
  BY <1>1, <1>2, <1>3, <1>4 DEF Eases
<1>6. QED
  BY <1>5 DEF e

\* Suspending, resuming or expiring a licence takes no seat.
LEMMA StatusEases ==
    ASSUME NEW d \in Database, NEW l \in Licenses,
           NEW s \in {"active", "suspended", "expired"}
    PROVE  Eases(d, WithStatus(d, l, s))
  BY DEF Eases, WithStatus, SeatsTaken, Database, License

\* Blocking or unblocking a device takes no seat.
LEMMA DeviceStatusEases ==
    ASSUME NEW d \in Database, NEW x \in Devices, NEW s \in {"active", "blocked"}
    PROVE  Eases(d, WithDevice(d, x, s))
  BY DEF Eases, WithDevice, SeatsTaken, Database, Device

\* Recording a device takes no seat.
LEMMA EnrolEases ==
    ASSUME NEW d \in Database, NEW x \in Devices, NEW i \in Installs
    PROVE  Eases(d, Enrol(d, x, i))
  BY DEF Eases, Enrol, SeatsTaken, Database, Device

\* Unbinding a device takes no seat.
LEMMA UnboundEases ==
    ASSUME NEW d \in Database, NEW x \in Devices
    PROVE  Eases(d, Unbound(d, x))
  BY DEF Eases, Unbound, SeatsTaken, Database, ActivationStatus

\* Deactivation (handleDeactivate) takes no seat.
LEMMA DeactivatedEases ==
    ASSUME NEW d \in Database, NEW t \in Token
    PROVE  Eases(d, Deactivated(d, t))
  BY DEF Eases, Deactivated, SeatsTaken, Database, ActivationStatus, Token

\* A licence that did not exist has no activation: creating it takes no seat.
LEMMA CreatedSound ==
    ASSUME NEW R, NEW d \in Database, Sound(d, R), NEW l \in Licenses, NEW a \in AppNames,
           NEW m \in Limits, NEW t \in Deadlines, d.lic[l].status = "none"
    PROVE  Sound(Created(d, l, a, m, t), R)
<1> DEFINE e == Created(d, l, a, m, t)
<1>1. /\ e.act = d.act /\ e.dev = d.dev
      /\ e.lic[l].status = "active" /\ e.lic[l].max = m
      /\ \A k \in Licenses \ {l} : e.lic[k] = d.lic[k]
  BY DEF Created, Database
<1> HIDE DEF e
<1>2. \A k \in Licenses : SeatsTaken(e, k) = SeatsTaken(d, k)
  BY <1>1 DEF SeatsTaken
<1>3. SeatsTaken(d, l) = {}
  BY DEF Sound, SeatsTaken
<1>4. Cardinality(SeatsTaken(e, l)) <= m
  BY <1>2, <1>3, FS_EmptySet, LicensingAssumption
<1>5. Sound(e, R)
  BY <1>1, <1>2, <1>4 DEF Sound
<1>6. QED
  BY <1>5 DEF e

\* Recording device x leaves licences, activations and known devices alone.
LEMMA EnrolFields ==
    ASSUME NEW d \in Database, NEW x \in Devices, NEW i \in Installs
    PROVE  /\ Enrol(d, x, i).lic = d.lic /\ Enrol(d, x, i).act = d.act
           /\ Enrol(d, x, i).dev[x].status # "none"
           /\ \A y \in Devices : d.dev[y].status # "none"
                                  => Enrol(d, x, i).dev[y] = d.dev[y]
  BY DEF Enrol, Database, Device

\* Activating device x for licence l changes that one activation.
LEMMA ActivateFields ==
    ASSUME NEW d \in Database, NEW l \in Licenses, NEW x \in Devices
    PROVE  /\ Activate(d, l, x).lic = d.lic /\ Activate(d, l, x).dev = d.dev
           /\ \A k \in Licenses, y \in Devices :
                  Activate(d, l, x).act[k][y] =
                      IF k = l /\ y = x THEN "active" ELSE d.act[k][y]
  BY DEF Activate, Database

\* Activating a device for an active licence is sound: either its seat was
\* free, or it was held already, or the licence is now among the revived.
LEMMA SeatSound ==
    ASSUME NEW R, NEW S, NEW d \in Database, Sound(d, R), NEW l \in Licenses,
           NEW x \in Devices, SeatFree(d, l, x), d.lic[l].status = "active",
           d.dev[x].status # "none",
           S = IF d.act[l][x] \in {"deactivated", "blocked"} THEN R \cup {l} ELSE R
    PROVE  Sound(Activate(d, l, x), S)
<1> DEFINE e == Activate(d, l, x)
<1>1. /\ e.lic = d.lic /\ e.dev = d.dev
      /\ \A k \in Licenses, y \in Devices :
             e.act[k][y] = IF k = l /\ y = x THEN "active" ELSE d.act[k][y]
  BY ActivateFields
<1> HIDE DEF e
<1>2. SeatsTaken(e, l) = SeatsTaken(d, l) \cup {x}
  BY <1>1 DEF SeatsTaken
<1>3. \A k \in Licenses \ {l} : SeatsTaken(e, k) = SeatsTaken(d, k)
  BY <1>1 DEF SeatsTaken
<1>4. ASSUME l \notin S
      PROVE  Cardinality(SeatsTaken(e, l)) <= d.lic[l].max
  <2>1. l \notin R /\ d.act[l][x] \in {"none", "active"}
    BY <1>4 DEF Database, ActivationStatus
  <2>2. CASE d.act[l][x] = "active"
    <3>1. SeatsTaken(e, l) = SeatsTaken(d, l)
      BY <1>2, <2>2 DEF SeatsTaken
    <3>2. QED
      BY <3>1, <2>1 DEF Sound
  <2>3. CASE d.act[l][x] = "none"
    <3>1. x \notin SeatsTaken(d, l)
      BY <2>3 DEF SeatsTaken
    <3>2. IsFiniteSet(SeatsTaken(d, l))
      <4>1. SeatsTaken(d, l) \subseteq Devices
        BY DEF SeatsTaken
      <4>2. QED
        BY <4>1, LicensingAssumption, FS_Subset
    <3>3. Cardinality(SeatsTaken(e, l)) = Cardinality(SeatsTaken(d, l)) + 1
      BY <1>2, <3>1, <3>2, FS_AddElement
    <3>4. Cardinality(SeatsTaken(d, l)) < d.lic[l].max
      BY <2>3 DEF SeatFree
    <3>5. Cardinality(SeatsTaken(d, l)) \in Nat /\ d.lic[l].max \in Nat
      BY <3>2, FS_CardinalityType DEF Database, License
    <3>6. QED
      BY <3>3, <3>4, <3>5
  <2>4. QED
    BY <2>1, <2>2, <2>3
<1>5. ASSUME NEW k \in Licenses \ S
      PROVE  Cardinality(SeatsTaken(e, k)) <= e.lic[k].max
  <2>1. k \notin R
    OBVIOUS
  <2>2. QED
    BY <1>1, <1>3, <1>4, <2>1 DEF Sound
<1>6. ASSUME NEW k \in Licenses, e.lic[k].status = "revoked"
      PROVE  SeatsTaken(e, k) = {}
  BY <1>1, <1>3, <1>6 DEF Sound
<1>7. ASSUME NEW k \in Licenses, NEW y \in Devices, e.act[k][y] # "none"
      PROVE  e.lic[k].status # "none" /\ e.dev[y].status # "none"
  BY <1>1, <1>7 DEF Sound
<1>8. Sound(e, S)
  BY <1>5, <1>6, <1>7 DEF Sound
<1>9. QED
  BY <1>8 DEF e

\* Whatever a handler makes of a sound database is sound.
LEMMA DbStepSound ==
    ASSUME TypeOK, NEW e, DbStep(e), NEW R, Sound(db, R)
    PROVE  Sound(e, R)
<1>1. db \in Database /\ \A r \in pending : r.tok \in Token
  BY DEF TypeOK, Request
<1>2. ASSUME Eases(db, e) PROVE Sound(e, R)
  BY <1>1, <1>2, EasingIsSound
<1>3. CASE e = db
  BY <1>3
<1>4. CASE \E l \in Licenses, a \in AppNames, m \in Limits, t \in Deadlines :
               db.lic[l].status = "none" /\ e = Created(db, l, a, m, t)
  BY <1>1, <1>4, CreatedSound
<1>5. CASE \E l \in Licenses, s \in {"active", "suspended", "expired"} :
               e = WithStatus(db, l, s)
  BY <1>1, <1>2, <1>5, StatusEases
<1>6. CASE \E l \in Licenses : e = Revoked(db, l)
  BY <1>1, <1>2, <1>6, RevokedEases
<1>7. CASE \E x \in Devices, s \in {"active", "blocked"} : e = WithDevice(db, x, s)
  BY <1>1, <1>2, <1>7, DeviceStatusEases
<1>8. CASE \E x \in Devices : e = Unbound(db, x)
  BY <1>1, <1>2, <1>8, UnboundEases
<1>9. CASE \E x \in Devices, i \in Installs : e = Enrol(db, x, i)
  BY <1>1, <1>2, <1>9, EnrolEases
<1>10. CASE \E r \in pending : e = Deactivated(db, r.tok)
  BY <1>1, <1>2, <1>10, DeactivatedEases
<1>11. QED
  BY <1>3, <1>4, <1>5, <1>6, <1>7, <1>8, <1>9, <1>10 DEF DbStep

\* A verification that takes or keeps a seat leaves a sound database.
LEMMA SeatStepSound ==
    ASSUME TypeOK, NEW e, NEW l \in Licenses, NEW x \in Devices, SeatStep(e, l, x),
           Sound(db, revived)
    PROVE  Sound(e, revived')
<1>1. PICK i \in Installs :
          /\ db.lic[l].status = "active" /\ SeatFree(Enrol(db, x, i), l, x)
          /\ e = Activate(Enrol(db, x, i), l, x) /\ NoteRevival(l, x)
  BY DEF SeatStep
<1> DEFINE d == Enrol(db, x, i)
<1>2. db \in Database /\ d \in Database
  BY EnrolType DEF TypeOK
<1>3. Sound(d, revived)
  BY <1>2, EnrolEases, EasingIsSound
<1>4. d.lic = db.lic /\ d.act = db.act /\ d.dev[x].status # "none"
  BY <1>2, EnrolFields
<1>5. revived' = IF d.act[l][x] \in {"deactivated", "blocked"}
                 THEN revived \cup {l} ELSE revived
  BY <1>1, <1>4 DEF NoteRevival
<1> HIDE DEF d
<1>6. Sound(Activate(d, l, x), revived')
  BY <1>1, <1>2, <1>3, <1>4, <1>5, SeatSound DEF d
<1>7. QED
  BY <1>1, <1>6 DEF d

\* Counting more licences as revived only weakens soundness.
LEMMA SoundGrows ==
    ASSUME NEW d, NEW R, NEW S, R \subseteq S, Sound(d, R)
    PROVE  Sound(d, S)
  BY DEF Sound

\* Both copies of the database are sound.
SoundStates == Sound(db, revived) /\ Sound(store, revived)

\* Every step keeps the memory and the store sound.
LEMMA SoundStep == TypeOK /\ SoundStates /\ [Next]_vars => SoundStates'
<1> SUFFICES ASSUME TypeOK, SoundStates, [Next]_vars
             PROVE  Sound(db', revived') /\ Sound(store', revived')
  BY DEF SoundStates, Sound, SeatsTaken
<1>1. StepShape
  BY StepShapeHolds
<1>2. CASE Restart
  BY <1>2 DEF Restart, SoundStates
<1>3. CASE \E e : DbStep(e) /\ db' = e /\ store' \in {store, e} /\ revived' = revived
  BY <1>3, DbStepSound DEF SoundStates
<1>4. CASE \E e : \E l \in Licenses, x \in Devices :
               SeatStep(e, l, x) /\ db' = e /\ store' \in {store, e}
  <2>1. revived \subseteq revived'
    BY <1>4 DEF SeatStep, NoteRevival
  <2>2. QED
    BY <1>4, <2>1, SeatStepSound, SoundGrows DEF SoundStates
<1>5. QED
  BY <1>1, <1>2, <1>3, <1>4 DEF StepShape

\* A production start is sound: no licence, no seat.
LEMMA SoundInit == Init => SoundStates
<1> SUFFICES ASSUME Init PROVE SoundStates
  OBVIOUS
<1>1. /\ \A l \in Licenses : db.lic[l].status = "none" /\ db.lic[l].max = 0
      /\ \A l \in Licenses, x \in Devices : db.act[l][x] = "none"
  BY DEF Init, EmptyDatabase
<1>2. \A l \in Licenses : SeatsTaken(db, l) = {}
  BY <1>1 DEF SeatsTaken
<1>3. Sound(db, revived)
  BY <1>1, <1>2, FS_EmptySet DEF Sound
<1>4. QED
  BY <1>3 DEF Init, SoundStates

\* The memory and the store are always sound: the inductive invariant from which
\* the three theorems below follow (all handlers of server.go that lock s.mu).
THEOREM AlwaysSound == Spec => []SoundStates
  BY SoundInit, SoundStep, TypeCorrect, PTL DEF Spec

\* A revoked licence holds no seat (handleLicenseAction, processClientVerification).
THEOREM RevocationEmptiesSeats == Spec => []RevokedHasNoSeat
<1>1. SoundStates => RevokedHasNoSeat
  BY DEF SoundStates, Sound, RevokedHasNoSeat
<1>2. QED
  BY <1>1, AlwaysSound, PTL

\* The device limit of a first activation (processClientVerification) is sound
\* until an ended activation is revived.
THEOREM SeatLimit == Spec => []SeatLimitUntilRevival
<1>1. SoundStates => SeatLimitUntilRevival
  BY DEF SoundStates, Sound, SeatLimitUntilRevival
<1>2. QED
  BY <1>1, AlwaysSound, PTL

\* No activation is ever saved whose licence or device is missing.
THEOREM ReferencesHold == Spec => []ReferentialIntegrity
<1>1. SoundStates => ReferentialIntegrity
  BY DEF SoundStates, Sound, ReferentialIntegrity
<1>2. QED
  BY <1>1, AlwaysSound, PTL

----------------------------------------------------------------------------
(* The device limit itself.  The documentation promises it without the      *)
(* exception of revived activations, and the run "limit" shows it exceeded; *)
(* the branch for an existing activation is the only way to exceed it.      *)

\* An ended activation is made active again only while a seat is free, as the
\* limit demands of a first activation, or because a restart forgot its end.
RevivesIntoFreeSeat ==
    \A l \in Licenses, x \in Devices :
        /\ db.act[l][x] \in {"deactivated", "blocked"}
        /\ db'.act[l][x] = "active"
        => Cardinality(SeatsTaken(db, l)) < db.lic[l].max \/ Restart

\* Activating a device that holds a seat already, or for which there is one,
\* keeps every licence within its limit.
LEMMA SeatWithinLimit ==
    ASSUME NEW d \in Database, Sound(d, {}), NEW l \in Licenses, NEW x \in Devices,
           d.lic[l].status = "active", d.dev[x].status # "none",
           d.act[l][x] # "active" => Cardinality(SeatsTaken(d, l)) < d.lic[l].max
    PROVE  Sound(Activate(d, l, x), {})
<1> DEFINE e == Activate(d, l, x)
           S == IF d.act[l][x] \in {"deactivated", "blocked"} THEN {} \cup {l} ELSE {}
<1>1. SeatFree(d, l, x)
  BY DEF SeatFree
<1>2. Sound(e, S)
  BY <1>1, SeatSound
<1>3. /\ e.lic = d.lic
      /\ \A y \in Devices : e.act[l][y] = IF y = x THEN "active" ELSE d.act[l][y]
  BY ActivateFields
<1>4. S \subseteq {l}
  OBVIOUS
<1> HIDE DEF e, S
<1>5. SeatsTaken(e, l) = SeatsTaken(d, l) \cup {x}
  BY <1>3 DEF SeatsTaken
<1>6. IsFiniteSet(SeatsTaken(d, l)) /\ Cardinality(SeatsTaken(d, l)) \in Nat
  <2>1. SeatsTaken(d, l) \subseteq Devices
    BY DEF SeatsTaken
  <2>2. QED
    BY <2>1, LicensingAssumption, FS_Subset, FS_CardinalityType
<1>7. Cardinality(SeatsTaken(e, l)) <= e.lic[l].max
  <2>1. CASE d.act[l][x] = "active"
    <3>1. SeatsTaken(e, l) = SeatsTaken(d, l)
      BY <1>5, <2>1 DEF SeatsTaken
    <3>2. QED
      BY <1>3, <3>1 DEF Sound
  <2>2. CASE d.act[l][x] # "active"
    <3>1. x \notin SeatsTaken(d, l)
      BY <2>2 DEF SeatsTaken
    <3>2. Cardinality(SeatsTaken(e, l)) = Cardinality(SeatsTaken(d, l)) + 1
      BY <1>5, <1>6, <3>1, FS_AddElement
    <3>3. d.lic[l].max \in Nat
      BY DEF Database, License
    <3>4. QED
      BY <1>3, <1>6, <2>2, <3>2, <3>3
  <2>3. QED
    BY <2>1, <2>2
<1>8. \A k \in Licenses : Cardinality(SeatsTaken(e, k)) <= e.lic[k].max
  BY <1>2, <1>4, <1>7 DEF Sound
<1>9. Sound(e, {})
  BY <1>2, <1>8 DEF Sound
<1>10. QED
  BY <1>9 DEF e

\* A verification that revives into a free seat only leaves every licence
\* within its limit.
LEMMA SeatStepWithinLimit ==
    ASSUME TypeOK, NEW e, NEW l \in Licenses, NEW x \in Devices, SeatStep(e, l, x),
           Sound(db, {}), db' = e, RevivesIntoFreeSeat, ~ Restart
    PROVE  Sound(e, {})
<1>1. PICK i \in Installs :
          /\ db.lic[l].status = "active" /\ SeatFree(Enrol(db, x, i), l, x)
          /\ e = Activate(Enrol(db, x, i), l, x)
  BY DEF SeatStep
<1> DEFINE d == Enrol(db, x, i)
<1>2. db \in Database /\ d \in Database
  BY EnrolType DEF TypeOK
<1>3. Sound(d, {})
  BY <1>2, EnrolEases, EasingIsSound
<1>4. d.lic = db.lic /\ d.act = db.act /\ d.dev[x].status # "none"
  BY <1>2, EnrolFields
<1>5. e.act[l][x] = "active" /\ e = Activate(d, l, x) /\ SeatFree(d, l, x)
  BY <1>1, <1>2, ActivateFields
<1> HIDE DEF d
<1>6. Sound(Activate(d, l, x), {})
  <2>1. SeatsTaken(d, l) = SeatsTaken(db, l)
    BY <1>4 DEF SeatsTaken
  <2>2. db.act[l][x] \in {"none", "active", "deactivated", "blocked"}
    BY <1>2 DEF Database, ActivationStatus
  <2>3. d.act[l][x] # "active" => Cardinality(SeatsTaken(d, l)) < d.lic[l].max
    BY <1>4, <1>5, <2>1, <2>2 DEF RevivesIntoFreeSeat, SeatFree
  <2>4. QED
    BY <1>1, <1>2, <1>3, <1>4, <2>3, SeatWithinLimit
<1>7. QED
  BY <1>5, <1>6

\* No licence is over its limit in the memory or in the store.
WithinLimit == Sound(db, {}) /\ Sound(store, {})

\* Every step that revives into a free seat only keeps it so.
LEMMA WithinLimitStep ==
    TypeOK /\ WithinLimit /\ [Next]_vars /\ [RevivesIntoFreeSeat]_vars => WithinLimit'
<1> SUFFICES ASSUME TypeOK, WithinLimit, [Next]_vars, [RevivesIntoFreeSeat]_vars
             PROVE  Sound(db', {}) /\ Sound(store', {})
  BY DEF WithinLimit, Sound, SeatsTaken
<1>1. StepShape
  BY StepShapeHolds
<1>2. CASE UNCHANGED vars
  BY <1>2 DEF WithinLimit, vars
<1>3. CASE Restart
  BY <1>3 DEF Restart, WithinLimit
<1>4. CASE \E e : DbStep(e) /\ db' = e /\ store' \in {store, e}
  BY <1>4, DbStepSound DEF WithinLimit
<1>5. CASE /\ RevivesIntoFreeSeat /\ ~ Restart
           /\ \E e : \E l \in Licenses, x \in Devices :
                  SeatStep(e, l, x) /\ db' = e /\ store' \in {store, e}
  BY <1>5, SeatStepWithinLimit DEF WithinLimit
<1>6. QED
  BY <1>1, <1>2, <1>3, <1>4, <1>5 DEF StepShape

\* The documented device limit holds, for every licence at every moment, in
\* every behaviour whose revivals find a free seat: of all handlers of server.go,
\* only the branch of processClientVerification for an existing activation can
\* put a licence over its max_devices.
THEOREM OnlyRevivalExceedsLimit ==
    Spec /\ [][RevivesIntoFreeSeat]_vars => []ActiveWithinLimit
<1>1. Init => WithinLimit
  <2>1. Init => SoundStates /\ revived = {}
    BY SoundInit DEF Init
  <2>2. QED
    BY <2>1 DEF SoundStates, WithinLimit
<1>2. WithinLimit => ActiveWithinLimit
  BY DEF WithinLimit, Sound, ActiveWithinLimit
<1>3. QED
  BY <1>1, <1>2, WithinLimitStep, TypeCorrect, PTL DEF Spec
=============================================================================
