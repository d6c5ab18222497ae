------------------------------ MODULE Licensing ------------------------------
(***************************************************************************)
(* The licence server of internal/licensecore/server.go: licences, the     *)
(* devices that activate them, the one-time challenges that every          *)
(* activation and verification consumes, and the signed tokens handed out. *)
(*                                                                         *)
(* A handler that holds s.mu for its whole body is one action.  The three  *)
(* handlers that verify the client's token before they lock are split in   *)
(* two: TokenRequest, and the locked section that runs later.              *)
(*                                                                         *)
(* db is the server's memory (s.data) and store what s.store.Save wrote.   *)
(* Timestamps, risk scores, reports, risk events and audit entries decide  *)
(* nothing in these handlers and are left out.                             *)
(***************************************************************************)
EXTENDS Integers, FiniteSets

CONSTANTS
    Apps,             \* app keys; no handler ever leaves an app inactive
    AppIds,           \* internal ids of apps, which administrators may use too
    Licenses,         \* licence identities, each created at most once
    Devices,          \* device fingerprints
    Installs,         \* install ids a client may present
    NoApp,            \* app of a licence that does not exist yet
    NoInstall,        \* install id left empty, or of an unknown device
    Limits,           \* values a licence's max_devices may have
    Deadlines,        \* values a licence's expires_at may have
    ChallengeTTL,     \* 5 minutes in the code
    TokenTTL,         \* settings.default_token_ttl_minutes
    RiskyTokenTTL,    \* settings.medium_risk_token_ttl_minutes
    MaxTime,          \* bound: ticks of the clock
    MaxChallenges,    \* bound: challenges ever issued
    MaxPending,       \* bound: requests between token check and lock
    MaxSaveFailures   \* bound: saves that fail

ASSUME LicensingAssumption ==
    /\ NoApp \notin Apps
    /\ AppIds \cap (Apps \cup {NoApp}) = {}
    /\ NoInstall \notin Installs
    /\ IsFiniteSet(Devices)
    /\ Limits \subseteq Nat \ {0}
    /\ Deadlines \subseteq Int
    /\ ChallengeTTL \in Nat
    /\ TokenTTL \in Nat
    /\ RiskyTokenTTL \in 0..TokenTTL
    /\ MaxTime \in Nat
    /\ MaxChallenges \in Nat
    /\ MaxPending \in Nat
    /\ MaxSaveFailures \in Nat

VARIABLES
    db,             \* the server's memory: licences, devices, activations
    store,          \* the last database written whole, from which a server starts
    challenges,     \* the live challenges, in memory only
    nextChallenge,  \* the next fresh challenge id
    tokens,         \* tokens that have left the server
    pending,        \* requests whose token is checked, not yet locked
    now,            \* the server's clock
    failures,       \* saves that have failed so far
    revived,        \* history: licences one of whose ended activations was
                    \* made active again
    ended           \* history: tokens whose deactivation was answered ok

vars == <<db, store, challenges, nextChallenge, tokens, pending, now,
          failures, revived, ended>>

----------------------------------------------------------------------------
(* Types *)

LicenseStatus == {"none", "active", "suspended", "revoked", "expired"}
DeviceStatus == {"none", "active", "blocked"}
ActivationStatus == {"none", "active", "deactivated", "blocked"}

\* A licence is filed under the name its creator gave the app: the app key, or the
\* internal id, by which the app is found as well.
AppNames == Apps \cup AppIds

License == [status: LicenseStatus, app: AppNames \cup {NoApp}, max: Nat,
            expiresAt: Int]
Device == [status: DeviceStatus, install: Installs \cup {NoInstall}]

Database == [lic: [Licenses -> License],
             dev: [Devices -> Device],
             act: [Licenses -> [Devices -> ActivationStatus]]]

Challenge == [id: Nat, app: Apps, install: Installs, expiresAt: Int]

\* chg is history: the challenge the token was granted for.
Token == [lic: Licenses, app: Apps, dev: Devices, iat: Nat, exp: Int, chg: Nat]

TokenOps == {"heartbeat", "capability", "deactivate"}
Request == [op: TokenOps, tok: Token, install: Installs \cup {NoInstall}]

----------------------------------------------------------------------------
(* Reading and changing the database.  An operator whose name ends in        *)
(* _Fault... is a deliberately wrong variant of the definition it precedes;  *)
(* it shows that a checked property notices the fault.                       *)

\* The devices that hold a seat of licence l (activeDeviceCountLocked).
SeatsTaken(d, l) == {x \in Devices : d.act[l][x] = "active"}

Enrol_FaultUnrecorded(d, x, i) == d

\* findOrCreateDeviceLocked: a known fingerprint keeps its record, its
\* install id included; an unknown one is recorded.
Enrol(d, x, i) ==
    IF d.dev[x].status = "none"
    THEN [d EXCEPT !.dev[x] = [status |-> "active", install |-> i]]
    ELSE d

\* The activation of device x for licence l becomes active, new or not.
Activate(d, l, x) == [d EXCEPT !.act[l][x] = "active"]

SeatFree_FaultOffByOne(d, l, x) ==
    d.act[l][x] = "none" => Cardinality(SeatsTaken(d, l)) <= d.lic[l].max

\* A first activation needs a free seat; an existing one is set back to active
\* whatever its status and however many seats are taken.
SeatFree(d, l, x) ==
    d.act[l][x] = "none" => Cardinality(SeatsTaken(d, l)) < d.lic[l].max

Revoked_FaultKeepsSeats(d, l) == [d EXCEPT !.lic[l].status = "revoked"]
Revoked_FaultUnknownStatus(d, l) ==
    [d EXCEPT !.lic[l].status = "revoked", !.act[l] = [x \in Devices |-> "revoked"]]

\* "revoke" blocks every activation of the licence, ended ones included.
Revoked(d, l) ==
    [d EXCEPT !.lic[l].status = "revoked",
              !.act[l] = [x \in Devices |-> IF d.act[l][x] = "none"
                                            THEN "none" ELSE "blocked"]]

Created(d, l, a, m, deadline) ==
    [d EXCEPT !.lic[l] = [status |-> "active", app |-> a, max |-> m,
                          expiresAt |-> deadline]]

WithStatus(d, l, s) == [d EXCEPT !.lic[l].status = s]

WithDevice(d, x, s) == [d EXCEPT !.dev[x].status = s]

Resumed_FaultRestoresSeats(d, l) ==
    [d EXCEPT !.lic[l].status = "active",
              !.act[l] = [x \in Devices |-> IF d.act[l][x] = "blocked"
                                            THEN "active" ELSE d.act[l][x]]]

\* "resume" reinstates a licence from any status and no activation.
Resumed(d, l) == WithStatus(d, l, "active")

Unbound_FaultDropsRecord(d, x) ==
    [d EXCEPT !.act = [l \in Licenses |->
        IF d.act[l][x] = "active"
        THEN [d.act[l] EXCEPT ![x] = "none"] ELSE d.act[l]]]

\* "unbind" ends the device's active activations, of whatever licence.
Unbound(d, x) ==
    [d EXCEPT !.act = [l \in Licenses |->
        IF d.act[l][x] = "active"
        THEN [d.act[l] EXCEPT ![x] = "deactivated"] ELSE d.act[l]]]

----------------------------------------------------------------------------
(* Saving *)

\* A failure leaves the change in memory; it may have been written all the same,
\* when it is the answer to the commit that is lost.  store is the last database
\* that was written whole: a file that was cut short (os.WriteFile truncates it
\* first) starts no server until a whole one is put back, see Deployment.
SaveSucceeds(d) == db' = d /\ store' = d /\ UNCHANGED failures

SaveFails(d) ==
    /\ failures < MaxSaveFailures
    /\ failures' = failures + 1
    /\ db' = d
    /\ store' \in {store, d}

Saved(d) == SaveSucceeds(d) \/ SaveFails(d)

Unsaved == UNCHANGED <<db, store, failures>>

clients == <<tokens, pending, now, revived, ended>>
issuing == <<challenges, nextChallenge>>

----------------------------------------------------------------------------
(* The administrator *)

\* POST /admin/licenses
CreateLicense(l, a, max, deadline) ==
    /\ db.lic[l].status = "none"
    /\ Saved(Created(db, l, a, max, deadline))
    /\ UNCHANGED <<issuing, clients>>

\* POST /admin/licenses/{id}/{action}: any action from any status.
RevokeLicense(l) ==
    /\ db.lic[l].status # "none"
    /\ Saved(Revoked(db, l))
    /\ UNCHANGED <<issuing, clients>>

SuspendLicense_FaultNotSaved(l) ==
    /\ db.lic[l].status # "none"
    /\ db' = WithStatus(db, l, "suspended")
    /\ UNCHANGED <<store, failures, issuing, clients>>

SuspendLicense(l) ==
    /\ db.lic[l].status # "none"
    /\ Saved(WithStatus(db, l, "suspended"))
    /\ UNCHANGED <<issuing, clients>>

ResumeLicense(l) ==
    /\ db.lic[l].status # "none"
    /\ Saved(Resumed(db, l))
    /\ UNCHANGED <<issuing, clients>>

\* POST /admin/devices/{id}/{action}
BlockDevice(x) ==
    /\ db.dev[x].status # "none"
    /\ Saved(WithDevice(db, x, "blocked"))
    /\ UNCHANGED <<issuing, clients>>

UnblockDevice(x) ==
    /\ db.dev[x].status # "none"
    /\ Saved(WithDevice(db, x, "active"))
    /\ UNCHANGED <<issuing, clients>>

UnbindDevice(x) ==
    /\ db.dev[x].status # "none"
    /\ Saved(Unbound(db, x))
    /\ UNCHANGED <<issuing, clients>>

----------------------------------------------------------------------------
(* Challenges *)

\* cleanupExpiredChallengesLocked
Live == {c \in challenges : now <= c.expiresAt}

\* POST /v1/challenge: sweep, then issue.
IssueChallenge(a, i) ==
    /\ nextChallenge <= MaxChallenges
    /\ challenges' = Live \cup {[id |-> nextChallenge, app |-> a, install |-> i,
                                 expiresAt |-> now + ChallengeTTL]}
    /\ nextChallenge' = nextChallenge + 1
    /\ Unsaved
    /\ UNCHANGED clients

ChallengesWithout_FaultKept(c) == Live

\* A challenge is deleted when it is presented, before it is compared with the
\* request; the sweep follows.
ChallengesWithout(c) == Live \ {c}

ChallengeAccepted(c, a, i) ==
    now <= c.expiresAt /\ c.app = a /\ c.install = i

----------------------------------------------------------------------------
(* Activation and verification: processClientVerification *)

\* The credential of a request: a licence key, or a token (expired or not)
\* when there is no key.
Credential ==
    {[kind |-> "key", lic |-> l] : l \in Licenses} \cup
    {[kind |-> "token", lic |-> t.lic, app |-> t.app, dev |-> t.dev] :
        t \in tokens}

LicenseUsable_FaultAnyApp(l, a) == db.lic[l].status = "active"
LicenseUsable_FaultAnyStatus(l, a) == db.lic[l].status # "none" /\ db.lic[l].app = a
LicenseUsable(l, a) == db.lic[l].status = "active" /\ db.lic[l].app = a

Overdue_FaultTooEarly(l) == now + 1 > db.lic[l].expiresAt
Overdue(l) == now > db.lic[l].expiresAt

ForAnotherApp(cred, a) == cred.kind = "token" /\ cred.app # a

DeviceAllowed_FaultIgnoresBlock(d, x) == TRUE
DeviceAllowed(d, x) == d.dev[x].status # "blocked"

\* A token is good only on its own device and while its activation is active.
CredentialHolds(cred, d, x) ==
    cred.kind = "token" => cred.dev = x /\ d.act[cred.lic][x] = "active"

\* The request passes every check up to the licence's deadline.
PassesLicense(c, a, i, cred) ==
    /\ ChallengeAccepted(c, a, i)
    /\ LicenseUsable(cred.lic, a)

\* It also passes the checks that follow the device's enrolment in d.
PassesDevice(d, x, a, cred) ==
    /\ ~ ForAnotherApp(cred, a)
    /\ DeviceAllowed(d, x)
    /\ CredentialHolds(cred, d, x)
    /\ SeatFree(d, cred.lic, x)

NoteRevival(l, x) ==
    revived' = IF db.act[l][x] \in {"deactivated", "blocked"}
               THEN revived \cup {l} ELSE revived

\* A stray challenge id, or no licence for the credential: only the sweep.
StrayRequest ==
    /\ challenges' = Live
    /\ Unsaved
    /\ UNCHANGED <<nextChallenge, clients>>

\* CHALLENGE_INVALID (wrong nonce included), INVALID_TOKEN, LICENSE_REQUIRED,
\* INVALID_LICENSE, LICENSE_<status>: the challenge is spent, nothing saved.
VerifyRefused(c, a, i, cred, wellFormed) ==
    /\ wellFormed => ~ PassesLicense(c, a, i, cred)
    /\ challenges' = ChallengesWithout(c)
    /\ Unsaved
    /\ UNCHANGED <<nextChallenge, clients>>

\* LICENSE_EXPIRED
VerifyOverdue(c, a, i, cred) ==
    /\ PassesLicense(c, a, i, cred)
    /\ Overdue(cred.lic)
    /\ challenges' = ChallengesWithout(c)
    /\ Saved(WithStatus(db, cred.lic, "expired"))
    /\ UNCHANGED <<nextChallenge, clients>>

\* TOKEN_APP_MISMATCH, DEVICE_BLOCKED, TOKEN_DEVICE_MISMATCH,
\* TOKEN_DEACTIVATED, DEVICE_LIMIT_EXCEEDED: all but the first leave the device
\* enrolled.  The outcome of the save is ignored.
VerifyDenied(c, x, a, i, cred) ==
    LET d == IF ForAnotherApp(cred, a) THEN db ELSE Enrol(db, x, i) IN
    /\ PassesLicense(c, a, i, cred)
    /\ ~ Overdue(cred.lic)
    /\ ~ PassesDevice(d, x, a, cred)
    /\ challenges' = ChallengesWithout(c)
    /\ Saved(d)
    /\ UNCHANGED <<nextChallenge, clients>>

\* INTEGRITY_FAILED, or SAVE_FAILED after the activation: the seat is taken,
\* no token leaves.
VerifyWithoutToken(c, x, a, i, cred, integrityDenies) ==
    LET d == Enrol(db, x, i) IN
    /\ PassesLicense(c, a, i, cred)
    /\ ~ Overdue(cred.lic)
    /\ PassesDevice(d, x, a, cred)
    /\ challenges' = ChallengesWithout(c)
    /\ \/ integrityDenies /\ Saved(Activate(d, cred.lic, x))
       \/ ~ integrityDenies /\ SaveFails(Activate(d, cred.lic, x))
    /\ NoteRevival(cred.lic, x)
    /\ UNCHANGED <<nextChallenge, tokens, pending, now, ended>>

NewToken(c, x, a, l, ttl) ==
    [lic |-> l, app |-> a, dev |-> x, iat |-> now, exp |-> now + ttl,
     chg |-> c.id]

GrantSaved_FaultAnswersAnyway(d) == Saved(d)
GrantSaved(d) == SaveSucceeds(d)

\* The token leaves only after the save; a risk above low shortens it.
VerifyGranted(c, x, a, i, cred, ttl) ==
    LET d == Enrol(db, x, i) IN
    /\ PassesLicense(c, a, i, cred)
    /\ ~ Overdue(cred.lic)
    /\ PassesDevice(d, x, a, cred)
    /\ challenges' = ChallengesWithout(c)
    /\ GrantSaved(Activate(d, cred.lic, x))
    /\ tokens' = tokens \cup {NewToken(c, x, a, cred.lic, ttl)}
    /\ NoteRevival(cred.lic, x)
    /\ UNCHANGED <<nextChallenge, pending, now, ended>>

ClientVerification(c, x, a, i, cred) ==
    \/ \E wellFormed \in BOOLEAN : VerifyRefused(c, a, i, cred, wellFormed)
    \/ VerifyOverdue(c, a, i, cred)
    \/ VerifyDenied(c, x, a, i, cred)
    \/ \E integrityDenies \in BOOLEAN :
           VerifyWithoutToken(c, x, a, i, cred, integrityDenies)
    \/ \E ttl \in {TokenTTL, RiskyTokenTTL} : VerifyGranted(c, x, a, i, cred, ttl)

----------------------------------------------------------------------------
(* Requests made with a token: checked before the lock, served under it *)

\* VerifyLicenseToken(..., false) at the head of the three handlers.
TokenRequest(op, t, i) ==
    /\ Cardinality(pending) < MaxPending
    /\ now <= t.exp
    /\ pending' = pending \cup {[op |-> op, tok |-> t, install |-> i]}
    /\ Unsaved
    /\ UNCHANGED <<issuing, tokens, now, revived, ended>>

Serve(r) == pending' = pending \ {r} /\ UNCHANGED <<issuing, tokens, now, revived>>

\* POST /v1/heartbeat: every answer saves, none looks at the licence, the
\* activation's status or the device's.
Heartbeat(r) ==
    /\ r.op = "heartbeat"
    /\ Saved(db)
    /\ Serve(r)
    /\ UNCHANGED ended

ActivationUsable(t) ==
    /\ db.lic[t.lic].status = "active"
    /\ db.lic[t.lic].app = t.app
    /\ db.act[t.lic][t.dev] = "active"

\* POST /v1/capability/check: only a denial of the policy is saved.
CapabilityCheck(r) ==
    /\ r.op = "capability"
    /\ \/ Unsaved
       \/ ActivationUsable(r.tok) /\ Saved(db)
    /\ Serve(r)
    /\ UNCHANGED ended

Mismatch(r) ==
    /\ db.dev[r.tok.dev].status # "none"
    /\ r.install # NoInstall
    /\ db.dev[r.tok.dev].install # r.install

\* A blocked activation is ended as well.
Deactivated(d, t) ==
    IF d.act[t.lic][t.dev] = "none" THEN d
    ELSE [d EXCEPT !.act[t.lic][t.dev] = "deactivated"]

Deactivate_FaultAnswersBeforeSave(r) ==
    /\ r.op = "deactivate"
    /\ ~ Mismatch(r)
    /\ Saved(Deactivated(db, r.tok))
    /\ ended' = ended \cup {r.tok}
    /\ Serve(r)

\* POST /v1/deactivate
Deactivate(r) ==
    /\ r.op = "deactivate"
    /\ \/ Mismatch(r) /\ Saved(db) /\ UNCHANGED ended
       \/ /\ ~ Mismatch(r)
          /\ SaveSucceeds(Deactivated(db, r.tok))
          /\ ended' = ended \cup {r.tok}
       \/ /\ ~ Mismatch(r)
          /\ SaveFails(Deactivated(db, r.tok))
          /\ UNCHANGED ended
    /\ Serve(r)

----------------------------------------------------------------------------
(* The environment *)

\* A crash or a restart: memory is what the store held; challenges and the
\* requests being served are gone, the clients keep their tokens.
Restart ==
    /\ db' = store
    /\ challenges' = {}
    /\ pending' = {}
    /\ UNCHANGED <<store, nextChallenge, tokens, now, failures, revived, ended>>

Tick ==
    /\ now < MaxTime
    /\ now' = now + 1
    /\ Unsaved
    /\ UNCHANGED <<issuing, tokens, pending, revived, ended>>

EmptyDatabase ==
    [lic |-> [l \in Licenses |-> [status |-> "none", app |-> NoApp, max |-> 0,
                                  expiresAt |-> 0]],
     dev |-> [x \in Devices |-> [status |-> "none", install |-> NoInstall]],
     act |-> [l \in Licenses |-> [x \in Devices |-> "none"]]]

\* A production start: an admin and apps, no licence yet.
Init ==
    /\ db = EmptyDatabase
    /\ store = db
    /\ challenges = {}
    /\ nextChallenge = 1
    /\ tokens = {}
    /\ pending = {}
    /\ now = 0
    /\ failures = 0
    /\ revived = {}
    /\ ended = {}

Next ==
    \/ \E l \in Licenses, a \in AppNames, m \in Limits, t \in Deadlines :
           CreateLicense(l, a, m, t)
    \/ \E l \in Licenses : RevokeLicense(l) \/ SuspendLicense(l) \/ ResumeLicense(l)
    \/ \E x \in Devices : BlockDevice(x) \/ UnblockDevice(x) \/ UnbindDevice(x)
    \/ \E a \in Apps, i \in Installs : IssueChallenge(a, i)
    \/ StrayRequest
    \/ \E c \in challenges, x \in Devices, a \in Apps, i \in Installs,
          cred \in Credential : ClientVerification(c, x, a, i, cred)
    \/ \E op \in TokenOps, t \in tokens, i \in Installs \cup {NoInstall} :
           TokenRequest(op, t, i)
    \/ \E r \in pending : Heartbeat(r) \/ CapabilityCheck(r) \/ Deactivate(r)
    \/ Restart
    \/ Tick

Spec == Init /\ [][Next]_vars

----------------------------------------------------------------------------
(* Properties *)

TypeOK ==
    /\ db \in Database
    /\ store \in Database
    /\ challenges \subseteq Challenge
    /\ nextChallenge \in Nat
    /\ tokens \subseteq Token
    /\ pending \subseteq Request
    /\ \A r \in pending : r.tok \in tokens
    /\ now \in Nat
    /\ failures \in Nat
    /\ revived \subseteq Licenses
    /\ ended \subseteq tokens

\* A revoked licence holds no seat, in memory and in the store, whatever the
\* order of revocations, verifications, restarts and failed saves.
RevokedHasNoSeat ==
    \A d \in {db, store}, l \in Licenses :
        d.lic[l].status = "revoked" => SeatsTaken(d, l) = {}

\* Seats never exceed max_devices as long as no ended activation of the licence
\* has been made active again: the limit check of the first activation is
\* sound across deactivations, unbinds, denials that enrol, and restarts.
SeatLimitUntilRevival ==
    \A d \in {db, store}, l \in Licenses \ revived :
        Cardinality(SeatsTaken(d, l)) <= d.lic[l].max

\* Every activation refers to a licence and a device that exist, which is what
\* the foreign keys of the PostgreSQL schema demand of each save.
ReferentialIntegrity ==
    \A d \in {db, store}, l \in Licenses, x \in Devices :
        d.act[l][x] # "none" => /\ d.lic[l].status # "none"
                                /\ d.dev[x].status # "none"

\* A token that has left the server is backed by an activation of its licence
\* and device, for its app, in memory and in the store: no crash and no failed
\* save leaves a client with a token the server has never heard of, and the
\* TOKEN_APP_MISMATCH branch of the verification is never taken.
TokenBacked ==
    \A d \in {db, store}, t \in tokens :
        /\ d.act[t.lic][t.dev] # "none"
        /\ d.lic[t.lic].app = t.app

\* A challenge buys at most one token, and not after it is gone.
OneTokenPerChallenge ==
    /\ \A t, u \in tokens : t.chg = u.chg => t = u
    /\ \A t \in tokens, c \in challenges : t.chg # c.id

\* A licence is marked expired only after its deadline, and no token is ever
\* issued after it.
DeadlineRespected ==
    /\ \A d \in {db, store}, l \in Licenses :
           d.lic[l].status = "expired" => now > d.lic[l].expiresAt
    /\ \A t \in tokens : t.iat <= db.lic[t.lic].expiresAt

\* Every handler that changes the database saves it before it unlocks: as long
\* as no save has failed a restart loses nothing.
NothingUnsaved == failures = 0 => db = store

\* A deactivation the client was told about lasts: through revocations,
\* resumptions, restarts and failed saves its activation is active again only
\* if a licence key revived it.
DeactivationLasts ==
    \A d \in {db, store}, t \in ended :
        d.act[t.lic][t.dev] = "active" => t.lic \in revived

\* A seat is taken only for an active licence and an unblocked device, by
\* presenting a live challenge, or because a restart forgot that it was ended.
SeatNeedsChallenge ==
    [][\A l \in Licenses, x \in Devices :
         db.act[l][x] # "active" /\ db'.act[l][x] = "active"
         => \/ /\ \E c \in challenges : now <= c.expiresAt /\ c \notin challenges'
               /\ db.lic[l].status = "active"
               /\ db.dev[x].status # "blocked"
            \/ db' = store]_vars

\* A token leaves only for an active licence and an unblocked device whose
\* activation is active and already on disk.
GrantIsAuthorised ==
    [][\A t \in tokens' \ tokens :
         /\ db.lic[t.lic].status = "active"
         /\ db.dev[t.dev].status # "blocked"
         /\ store'.act[t.lic][t.dev] = "active"]_vars

\* What the documentation says of the device limit: a licence never has more
\* active devices than max_devices.
ActiveWithinLimit ==
    \A l \in Licenses : Cardinality(SeatsTaken(db, l)) <= db.lic[l].max
=============================================================================
