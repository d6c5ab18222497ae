----------------------------- MODULE TokenProofs -----------------------------
(* Theorems about the tokens, challenges and deadlines of Licensing, and about *)
(* what the diagnosis says of them, for every value of the constants.          *)
EXTENDS LicensingDiagnostics, LicensingProofs

----------------------------------------------------------------------------
(* What a step makes of a database, beyond LicensingProofs!Eases: activations *)
(* and licences are never lost, an existing licence keeps its app and its     *)
(* deadline, it expires only past it, and an ended activation becomes active  *)
(* only by a revival.                                                         *)

Follows(d, e) ==
    /\ \A l \in Licenses, x \in Devices :
           /\ d.act[l][x] # "none" => e.act[l][x] # "none"
           /\ e.act[l][x] = "active" => \/ d.act[l][x] \in {"active", "none"}
                                        \/ l \in revived'
    /\ \A l \in Licenses :
           /\ d.lic[l].status # "none" => /\ e.lic[l].status # "none"
                                          /\ e.lic[l].app = d.lic[l].app
                                          /\ e.lic[l].expiresAt = d.lic[l].expiresAt
           /\ e.lic[l].status = "expired" =>
                  d.lic[l].status = "expired" \/ now > e.lic[l].expiresAt

\* A change that touches only statuses and wakes nothing follows.
LEMMA RevokedFollows ==
    ASSUME NEW d \in Database, NEW l \in Licenses
    PROVE  Follows(d, Revoked(d, l))
<1> DEFINE e == Revoked(d, l)
<1>1. ASSUME NEW k \in Licenses, NEW x \in Devices
      PROVE  e.act[k][x] = IF k = l /\ d.act[k][x] # "none"
                           THEN "blocked" ELSE d.act[k][x]
  BY RevokedFields
<1>2. ASSUME NEW k \in Licenses
      PROVE  /\ e.lic[k].status = IF k = l THEN "revoked" ELSE d.lic[k].status
             /\ e.lic[k].app = d.lic[k].app
             /\ e.lic[k].expiresAt = d.lic[k].expiresAt
  BY DEF Revoked, Database, License
<1> HIDE DEF e
<1>3. Follows(d, e)
  BY <1>1, <1>2 DEF Follows
<1>4. QED
  BY <1>3 DEF e

\* Suspending, resuming or, past the deadline, expiring a licence follows.
LEMMA StatusFollows ==
    ASSUME NEW d \in Database, NEW l \in Licenses,
           NEW s \in {"active", "suspended", "expired"},
           s = "expired" => now > d.lic[l].expiresAt
    PROVE  Follows(d, WithStatus(d, l, s))
<1> DEFINE e == WithStatus(d, l, s)
<1>1. e.act = d.act
  BY DEF WithStatus, Database
<1>2. ASSUME NEW k \in Licenses
      PROVE  /\ e.lic[k].status = IF k = l THEN s ELSE d.lic[k].status
             /\ e.lic[k].app = d.lic[k].app
             /\ e.lic[k].expiresAt = d.lic[k].expiresAt
  BY DEF WithStatus, Database, License
<1> HIDE DEF e
<1>3. Follows(d, e)
  BY <1>1, <1>2 DEF Follows
<1>4. QED
  BY <1>3 DEF e

\* Blocking, unblocking or recording a device follows.
LEMMA DevicesFollow ==
    ASSUME NEW d \in Database, NEW e, e.act = d.act, e.lic = d.lic
    PROVE  Follows(d, e)
  BY DEF Follows

\* Unbinding a device, or ending the activation of a token, follows.
LEMMA EndsFollow ==
    ASSUME NEW d \in Database, NEW e, e.lic = d.lic,
           \A l \in Licenses, x \in Devices :
               e.act[l][x] \in {d.act[l][x], "deactivated"}
    PROVE  Follows(d, e)
<1>1. ASSUME NEW l \in Licenses, NEW x \in Devices
      PROVE  /\ d.act[l][x] # "none" => e.act[l][x] # "none"
             /\ e.act[l][x] = "active" => d.act[l][x] = "active"
  OBVIOUS
<1>2. QED
  BY <1>1 DEF Follows

\* A new licence has no past to follow.
LEMMA CreatedFollows ==
    ASSUME NEW d \in Database, NEW l \in Licenses, NEW a \in AppNames,
           NEW m \in Limits, NEW t \in Deadlines, d.lic[l].status = "none"
    PROVE  Follows(d, Created(d, l, a, m, t))
<1> DEFINE e == Created(d, l, a, m, t)
<1>1. /\ e.act = d.act /\ e.lic[l].status = "active"
      /\ \A k \in Licenses \ {l} : e.lic[k] = d.lic[k]
  BY DEF Created, Database
<1> HIDE DEF e
<1>2. Follows(d, e)
  BY <1>1 DEF Follows
<1>3. QED
  BY <1>2 DEF e

\* What a handler that takes no seat makes of the database follows it.
LEMMA DbStepFollows ==
    ASSUME TypeOK, NEW e, DbStep(e)
    PROVE  Follows(db, e)
<1>1. db \in Database /\ \A r \in pending : r.tok \in Token
  BY DEF TypeOK, Request
<1>2. CASE e = db
  BY <1>1, <1>2, DevicesFollow
<1>3. CASE \E l \in Licenses, a \in AppNames, m \in Limits, t \in Deadlines :
               db.lic[l].status = "none" /\ e = Created(db, l, a, m, t)
  BY <1>1, <1>3, CreatedFollows
<1>4. CASE \E l \in Licenses, s \in {"active", "suspended", "expired"} :
               /\ s = "expired" => now > db.lic[l].expiresAt
               /\ e = WithStatus(db, l, s)
  BY <1>1, <1>4, StatusFollows
<1>5. CASE \E l \in Licenses : e = Revoked(db, l)
  BY <1>1, <1>5, RevokedFollows
<1>6. CASE \E x \in Devices, s \in {"active", "blocked"} : e = WithDevice(db, x, s)
  <2>1. e.act = db.act /\ e.lic = db.lic
    BY <1>1, <1>6 DEF WithDevice, Database
  <2>2. QED
    BY <1>1, <2>1, DevicesFollow
<1>7. CASE \E x \in Devices : e = Unbound(db, x)
  <2>1. e.lic = db.lic
    BY <1>1, <1>7 DEF Unbound, Database
  <2>2. ASSUME NEW l \in Licenses, NEW y \in Devices
        PROVE  e.act[l][y] \in {db.act[l][y], "deactivated"}
    BY <1>1, <1>7 DEF Unbound, Database
  <2>3. QED
    BY <1>1, <2>1, <2>2, EndsFollow
<1>8. CASE \E x \in Devices, i \in Installs : e = Enrol(db, x, i)
  <2>1. e.act = db.act /\ e.lic = db.lic
    BY <1>1, <1>8, EnrolFields
  <2>2. QED
    BY <1>1, <2>1, DevicesFollow
<1>9. CASE \E r \in pending : e = Deactivated(db, r.tok)
  <2>1. e.lic = db.lic
    BY <1>1, <1>9 DEF Deactivated, Database
  <2>2. ASSUME NEW l \in Licenses, NEW y \in Devices
        PROVE  e.act[l][y] \in {db.act[l][y], "deactivated"}
    BY <1>1, <1>9 DEF Deactivated, Database, Token
  <2>3. QED
    BY <1>1, <2>1, <2>2, EndsFollow
<1>10. QED
  BY <1>2, <1>3, <1>4, <1>5, <1>6, <1>7, <1>8, <1>9 DEF DbStep

\* A verification that takes or keeps a seat leaves a database that follows,
\* since it notes the revival of an ended activation.
LEMMA SeatStepFollows ==
    ASSUME TypeOK, NEW e, NEW l \in Licenses, NEW x \in Devices, SeatStep(e, l, x)
    PROVE  Follows(db, e)
<1>1. PICK i \in Installs : e = Activate(Enrol(db, x, i), l, x) /\ NoteRevival(l, x)
  BY DEF SeatStep
<1>2. db \in Database /\ Enrol(db, x, i) \in Database
  BY EnrolType DEF TypeOK
<1>3. Enrol(db, x, i).lic = db.lic /\ Enrol(db, x, i).act = db.act
  BY <1>2, EnrolFields
<1>4. /\ e.lic = db.lic
      /\ \A k \in Licenses, y \in Devices :
             e.act[k][y] = IF k = l /\ y = x THEN "active" ELSE db.act[k][y]
  BY <1>1, <1>2, <1>3, ActivateFields
<1>5. db.act[l][x] \in {"active", "none"} \/ l \in revived'
  BY <1>1, <1>2 DEF NoteRevival, Database, ActivationStatus
<1>6. QED
  BY <1>4, <1>5 DEF Follows

\* After any step the memory and the store each follow one of them before it,
\* and no revival is forgotten.
LEMMA StepFollows ==
    ASSUME TypeOK, [Next]_vars, NEW e \in {db', store'}
    PROVE  /\ \E d \in {db, store} : Follows(d, e)
           /\ revived \subseteq revived'
<1>1. StepShape
  BY StepShapeHolds
<1>2. Follows(store, store) /\ Follows(db, db)
  BY DevicesFollow DEF TypeOK
<1>3. CASE Restart
  BY <1>2, <1>3 DEF Restart
<1>4. CASE \E f : DbStep(f) /\ db' = f /\ store' \in {store, f} /\ revived' = revived
  BY <1>2, <1>4, DbStepFollows
<1>5. CASE \E f : \E l \in Licenses, x \in Devices :
               SeatStep(f, l, x) /\ db' = f /\ store' \in {store, f}
  <2>1. revived \subseteq revived'
    BY <1>5 DEF SeatStep, NoteRevival
  <2>2. QED
    BY <1>2, <1>5, <2>1, SeatStepFollows
<1>6. QED
  BY <1>1, <1>3, <1>4, <1>5 DEF StepShape

----------------------------------------------------------------------------
(* What a step does to challenges, tokens and confirmed deactivations *)

\* No token leaves and no deactivation is confirmed.
QuietStep == tokens' = tokens /\ ended' = ended

\* Challenges are spent or swept, none is issued.
SpendingStep == challenges' \subseteq challenges /\ nextChallenge' = nextChallenge

IssueStep ==
    \E a \in Apps, i \in Installs :
        challenges' \subseteq challenges \cup
            {[id |-> nextChallenge, app |-> a, install |-> i,
              expiresAt |-> now + ChallengeTTL]}

\* A token t leaves for challenge c, its activation active in memory and store.
GrantStep(c, t) ==
    /\ challenges' \subseteq challenges \ {c}
    /\ nextChallenge' = nextChallenge
    /\ tokens' = tokens \cup {t}
    /\ ended' = ended
    /\ t.chg = c.id
    /\ t \in Token
    /\ store' = db'
    /\ db'.act[t.lic][t.dev] = "active"
    /\ db'.lic = db.lic
    /\ db.lic[t.lic].status = "active"
    /\ db.lic[t.lic].app = t.app
    /\ db.dev[t.dev].status # "blocked"
    /\ t.iat <= db.lic[t.lic].expiresAt

\* The deactivation of token t is confirmed.
EndStep(t) ==
    /\ SpendingStep
    /\ tokens' = tokens
    /\ ended' = ended \cup {t}
    /\ t \in tokens
    /\ store' = db'
    /\ db'.act[t.lic][t.dev] # "active"

TokenStep ==
    \/ QuietStep /\ SpendingStep
    \/ QuietStep /\ IssueStep /\ nextChallenge' = nextChallenge + 1
    \/ \E c \in challenges : \E t : GrantStep(c, t)
    \/ \E t : EndStep(t)

\* A granted verification (processClientVerification) is a GrantStep.
LEMMA GrantShape ==
    ASSUME TypeOK, NEW c \in challenges, NEW x \in Devices, NEW a \in Apps,
           NEW i \in Installs, NEW cred \in Credential,
           NEW ttl \in {TokenTTL, RiskyTokenTTL}, VerifyGranted(c, x, a, i, cred, ttl)
    PROVE  GrantStep(c, NewToken(c, x, a, cred.lic, ttl))
<1> DEFINE l == cred.lic
           d == Enrol(db, x, i)
           t == NewToken(c, x, a, l, ttl)
<1>1. l \in Licenses /\ db \in Database
  BY CredentialLicense DEF CredentialType, TypeOK
<1>2. t \in Token
  BY <1>1, NewTokenType
<1>3. t.lic = l /\ t.dev = x /\ t.app = a /\ t.iat = now /\ t.chg = c.id
  BY DEF NewToken
<1>4. d \in Database /\ d.lic = db.lic
  BY <1>1, EnrolType, EnrolFields
<1>5. db' = Activate(d, l, x) /\ store' = db'
  BY DEF VerifyGranted, GrantSaved, SaveSucceeds
<1>6. db'.act[l][x] = "active" /\ db'.lic = db.lic
  BY <1>1, <1>4, <1>5, ActivateFields
<1>7. db.lic[l].status = "active" /\ db.lic[l].app = a
  BY DEF VerifyGranted, PassesLicense, LicenseUsable
<1>8. now <= db.lic[l].expiresAt
  <2>1. now \in Int /\ db.lic[l].expiresAt \in Int
    BY <1>1 DEF TypeOK, Database, License
  <2>2. QED
    BY <2>1 DEF VerifyGranted, Overdue
<1>9. db.dev[x].status # "blocked"
  <2>1. d.dev[x].status # "blocked"
    BY DEF VerifyGranted, PassesDevice, DeviceAllowed
  <2>2. QED
    BY <2>1, <1>1, EnrolFields
<1>10. /\ challenges' \subseteq challenges \ {c} /\ nextChallenge' = nextChallenge
       /\ tokens' = tokens \cup {t} /\ ended' = ended
  BY DEF VerifyGranted, ChallengesWithout, Live
<1> HIDE DEF t
<1>11. GrantStep(c, t)
  BY <1>2, <1>3, <1>5, <1>6, <1>7, <1>8, <1>9, <1>10 DEF GrantStep
<1>12. QED
  BY <1>11 DEF t

\* A confirmed deactivation (handleDeactivate) is an EndStep.
LEMMA EndShape ==
    ASSUME TypeOK, NEW r \in pending, Deactivate(r), ended' # ended
    PROVE  EndStep(r.tok)
<1>1. r.tok \in tokens /\ r.tok \in Token /\ db \in Database
  BY DEF TypeOK
<1>2. db' = Deactivated(db, r.tok) /\ store' = db' /\ ended' = ended \cup {r.tok}
  BY DEF Deactivate, SaveSucceeds
<1>3. Deactivated(db, r.tok).act[r.tok.lic][r.tok.dev] # "active"
  BY <1>1 DEF Deactivated, Database, Token
<1>4. QED
  BY <1>1, <1>2, <1>3 DEF EndStep, SpendingStep, Deactivate, Serve, issuing

\* Every handler, restart and tick has one of the four shapes of TokenStep.
LEMMA TokenStepHolds == TypeOK /\ [Next]_vars => TokenStep
<1> SUFFICES ASSUME TypeOK, [Next]_vars PROVE TokenStep
  OBVIOUS
<1>1. ASSUME UNCHANGED tokens, UNCHANGED ended, SpendingStep PROVE TokenStep
  BY <1>1 DEF TokenStep, QuietStep
<1>2. ASSUME UNCHANGED <<issuing, clients>> PROVE TokenStep
  BY <1>1, <1>2 DEF issuing, clients, SpendingStep
<1>3. CASE \E l \in Licenses, a \in AppNames, m \in Limits, t \in Deadlines :
               CreateLicense(l, a, m, t)
  BY <1>2, <1>3 DEF CreateLicense
<1>4. CASE \E l \in Licenses : RevokeLicense(l) \/ SuspendLicense(l) \/ ResumeLicense(l)
  BY <1>2, <1>4 DEF RevokeLicense, SuspendLicense, ResumeLicense
<1>5. CASE \E x \in Devices : BlockDevice(x) \/ UnblockDevice(x) \/ UnbindDevice(x)
  BY <1>2, <1>5 DEF BlockDevice, UnblockDevice, UnbindDevice
<1>6. CASE \E a \in Apps, i \in Installs : IssueChallenge(a, i)
  BY <1>6 DEF IssueChallenge, TokenStep, QuietStep, IssueStep, Live, clients
<1>7. CASE StrayRequest
  BY <1>1, <1>7 DEF StrayRequest, SpendingStep, Live, clients
<1>8. CASE \E c \in challenges, x \in Devices, a \in Apps, i \in Installs,
              cred \in Credential : ClientVerification(c, x, a, i, cred)
  <2>1. PICK c \in challenges, x \in Devices, a \in Apps, i \in Installs,
             cred \in Credential : ClientVerification(c, x, a, i, cred)
    BY <1>8
  <2>2. CASE \/ \E wellFormed \in BOOLEAN : VerifyRefused(c, a, i, cred, wellFormed)
             \/ VerifyOverdue(c, a, i, cred)
             \/ VerifyDenied(c, x, a, i, cred)
    BY <1>1, <2>2 DEF VerifyRefused, VerifyOverdue, VerifyDenied, SpendingStep,
                      ChallengesWithout, Live, clients
  <2>3. CASE \E integrityDenies \in BOOLEAN :
                 VerifyWithoutToken(c, x, a, i, cred, integrityDenies)
    BY <1>1, <2>3 DEF VerifyWithoutToken, SpendingStep, ChallengesWithout, Live
  <2>4. CASE \E ttl \in {TokenTTL, RiskyTokenTTL} : VerifyGranted(c, x, a, i, cred, ttl)
    BY <2>4, GrantShape DEF TokenStep
  <2>5. QED
    BY <2>1, <2>2, <2>3, <2>4 DEF ClientVerification
<1>9. CASE \E op \in TokenOps, t \in tokens, i \in Installs \cup {NoInstall} :
               TokenRequest(op, t, i)
  BY <1>1, <1>9 DEF TokenRequest, SpendingStep, issuing
<1>10. CASE \E r \in pending : Heartbeat(r) \/ CapabilityCheck(r) \/ Deactivate(r)
  <2>1. PICK r \in pending : Heartbeat(r) \/ CapabilityCheck(r) \/ Deactivate(r)
    BY <1>10
  <2>2. UNCHANGED tokens /\ SpendingStep
    BY <2>1 DEF Heartbeat, CapabilityCheck, Deactivate, Serve, SpendingStep, issuing
  <2>3. CASE ended' = ended
    BY <1>1, <2>2, <2>3
  <2>4. CASE ended' # ended
    <3>1. Deactivate(r)
      BY <2>1, <2>4 DEF Heartbeat, CapabilityCheck
    <3>2. QED
      BY <2>4, <3>1, EndShape DEF TokenStep
  <2>5. QED
    BY <2>3, <2>4
<1>11. CASE Restart
  BY <1>1, <1>11 DEF Restart, SpendingStep
<1>12. CASE Tick
  BY <1>1, <1>12 DEF Tick, SpendingStep, issuing
<1>13. CASE UNCHANGED vars
  BY <1>1, <1>13 DEF vars, SpendingStep
<1>14. QED
  BY <1>3, <1>4, <1>5, <1>6, <1>7, <1>8, <1>9, <1>10, <1>11, <1>12, <1>13 DEF Next

----------------------------------------------------------------------------
(* One token per challenge *)

\* Challenge ids are fresh, and a live challenge has bought nothing yet.
FreshChallenges ==
    /\ \A c \in challenges : c.id < nextChallenge
    /\ \A t \in tokens : t.chg < nextChallenge
    /\ \A c, e \in challenges : c.id = e.id => c = e
    /\ OneTokenPerChallenge

\* Issuing, spending and sweeping keep the challenges fresh.
LEMMA FreshStep == TypeOK /\ FreshChallenges /\ [Next]_vars => FreshChallenges'
<1> SUFFICES ASSUME TypeOK, FreshChallenges, [Next]_vars PROVE FreshChallenges'
  OBVIOUS
<1> USE DEF FreshChallenges, OneTokenPerChallenge
<1>1. /\ nextChallenge \in Nat
      /\ \A c \in challenges : c.id \in Nat
      /\ \A t \in tokens : t.chg \in Nat
  BY DEF TypeOK, Challenge, Token
<1>2. CASE QuietStep /\ SpendingStep
  BY <1>2 DEF QuietStep, SpendingStep
<1>3. CASE QuietStep /\ IssueStep /\ nextChallenge' = nextChallenge + 1
  <2>1. PICK a \in Apps, i \in Installs :
            challenges' \subseteq challenges \cup
                {[id |-> nextChallenge, app |-> a, install |-> i,
                  expiresAt |-> now + ChallengeTTL]}
    BY <1>3 DEF IssueStep
  <2> DEFINE n == [id |-> nextChallenge, app |-> a, install |-> i,
                   expiresAt |-> now + ChallengeTTL]
  <2>2. n.id = nextChallenge /\ \A c \in challenges' : c \in challenges \/ c = n
    BY <2>1
  <2>3. tokens' = tokens /\ nextChallenge' = nextChallenge + 1
    BY <1>3 DEF QuietStep
  <2> HIDE DEF n
  <2>4. /\ \A c \in challenges' : c.id < nextChallenge'
        /\ \A t \in tokens' : t.chg < nextChallenge'
    BY <1>1, <2>2, <2>3
  <2>5. \A c, e \in challenges' : c.id = e.id => c = e
    BY <1>1, <2>2
  <2>6. \A t \in tokens', c \in challenges' : t.chg # c.id
    BY <1>1, <2>2, <2>3
  <2>7. QED
    BY <2>3, <2>4, <2>5, <2>6
<1>4. CASE \E c \in challenges : \E t : GrantStep(c, t)
  BY <1>1, <1>4 DEF GrantStep
<1>5. CASE \E t : EndStep(t)
  BY <1>5 DEF EndStep, SpendingStep
<1>6. QED
  BY <1>2, <1>3, <1>4, <1>5, TokenStepHolds DEF TokenStep

\* A challenge buys at most one token (validateChallengeLocked deletes it when
\* it is presented).
THEOREM ChallengesAreSpent == Spec => []OneTokenPerChallenge
<1>1. Init => FreshChallenges
  BY DEF Init, FreshChallenges, OneTokenPerChallenge
<1>2. FreshChallenges => OneTokenPerChallenge
  BY DEF FreshChallenges
<1>3. QED
  BY <1>1, <1>2, FreshStep, TypeCorrect, PTL DEF Spec
----------------------------------------------------------------------------
(* What a token outlives: its activation, its licence's app and deadline.     *)
(* Backed(d) is what TokenBacked, DeactivationLasts and DeadlineRespected say *)
(* of one database d; it is inductive for the memory and the store together.  *)

Backed(d) ==
    /\ \A t \in tokens : /\ d.act[t.lic][t.dev] # "none"
                         /\ d.lic[t.lic].app = t.app
                         /\ t.iat <= d.lic[t.lic].expiresAt
    /\ \A t \in ended : d.act[t.lic][t.dev] = "active" => t.lic \in revived
    /\ \A l \in Licenses : d.lic[l].status = "expired" => now > d.lic[l].expiresAt

\* Both copies of the database back the tokens.
BackedStates == Backed(db) /\ Backed(store)

\* A database that follows one that backs the tokens and is sound backs the same
\* tokens, at whatever later time.
LEMMA FollowingBacks ==
    ASSUME TypeOK, NEW d \in {db, store}, Backed(d), Sound(d, revived),
           NEW e \in Database, Follows(d, e), revived \subseteq revived',
           now' \in {now, now + 1}
    PROVE  /\ \A t \in tokens : /\ e.act[t.lic][t.dev] # "none"
                                /\ e.lic[t.lic].app = t.app
                                /\ t.iat <= e.lic[t.lic].expiresAt
           /\ \A t \in ended : e.act[t.lic][t.dev] = "active" => t.lic \in revived'
           /\ \A l \in Licenses :
                  e.lic[l].status = "expired" => now' > e.lic[l].expiresAt
<1>1. /\ d \in Database
      /\ \A t \in tokens : t.lic \in Licenses /\ t.dev \in Devices
      /\ ended \subseteq tokens /\ now \in Int
      /\ \A l \in Licenses : e.lic[l].expiresAt \in Int
  BY DEF TypeOK, Token, Database, License
<1>2. ASSUME NEW t \in tokens
      PROVE  /\ e.act[t.lic][t.dev] # "none"
             /\ e.lic[t.lic].app = t.app
             /\ t.iat <= e.lic[t.lic].expiresAt
  <2>1. d.act[t.lic][t.dev] # "none" /\ d.lic[t.lic].status # "none"
    BY <1>1 DEF Backed, Sound
  <2>2. QED
    BY <1>1, <2>1 DEF Backed, Follows
<1>3. ASSUME NEW t \in ended, e.act[t.lic][t.dev] = "active"
      PROVE  t.lic \in revived'
  <2>1. d.act[t.lic][t.dev] # "none"
    BY <1>1 DEF Backed
  <2>2. d.act[t.lic][t.dev] = "active" \/ t.lic \in revived'
    BY <1>1, <1>3, <2>1 DEF Follows
  <2>3. QED
    BY <2>2 DEF Backed
<1>4. ASSUME NEW l \in Licenses, e.lic[l].status = "expired"
      PROVE  now' > e.lic[l].expiresAt
  <2>1. now > e.lic[l].expiresAt
    BY <1>4 DEF Follows, Backed
  <2>2. QED
    BY <1>1, <2>1
<1>5. QED
  BY <1>2, <1>3, <1>4

\* Every step keeps the tokens backed, by the memory and by the store.
LEMMA BackedStep ==
    TypeOK /\ TypeOK' /\ SoundStates /\ BackedStates /\ [Next]_vars => BackedStates'
<1> SUFFICES ASSUME TypeOK, TypeOK', SoundStates, BackedStates, [Next]_vars,
                    NEW e \in {db', store'}
             PROVE  /\ \A t \in tokens' : /\ e.act[t.lic][t.dev] # "none"
                                          /\ e.lic[t.lic].app = t.app
                                          /\ t.iat <= e.lic[t.lic].expiresAt
                    /\ \A t \in ended' :
                           e.act[t.lic][t.dev] = "active" => t.lic \in revived'
                    /\ \A l \in Licenses :
                           e.lic[l].status = "expired" => now' > e.lic[l].expiresAt
  BY DEF BackedStates, Backed
<1>1. PICK d \in {db, store} : Follows(d, e) /\ revived \subseteq revived'
  BY StepFollows
<1>2. Backed(d) /\ Sound(d, revived) /\ e \in Database
  BY DEF BackedStates, SoundStates, TypeOK
<1>3. now' \in {now, now + 1}
  BY ClockTicks DEF Tick
<1>4. /\ \A t \in tokens : /\ e.act[t.lic][t.dev] # "none"
                           /\ e.lic[t.lic].app = t.app
                           /\ t.iat <= e.lic[t.lic].expiresAt
      /\ \A t \in ended : e.act[t.lic][t.dev] = "active" => t.lic \in revived'
      /\ \A l \in Licenses :
             e.lic[l].status = "expired" => now' > e.lic[l].expiresAt
  BY <1>1, <1>2, <1>3, FollowingBacks
<1>5. CASE tokens' = tokens /\ ended' = ended
  BY <1>4, <1>5
<1>6. CASE \E c \in challenges : \E t : GrantStep(c, t)
  <2>1. PICK c \in challenges, t \in Token : GrantStep(c, t)
    BY <1>6 DEF GrantStep
  <2>2. e = db' /\ tokens' = tokens \cup {t} /\ ended' = ended
    BY <2>1 DEF GrantStep
  <2>3. /\ e.act[t.lic][t.dev] # "none"
        /\ e.lic[t.lic].app = t.app
        /\ t.iat <= e.lic[t.lic].expiresAt
    BY <2>1, <2>2 DEF GrantStep
  <2>4. QED
    BY <1>4, <2>2, <2>3
<1>7. CASE \E t : EndStep(t)
  <2>1. PICK t : EndStep(t)
    BY <1>7
  <2>2. /\ e = db' /\ tokens' = tokens /\ ended' = ended \cup {t}
        /\ e.act[t.lic][t.dev] # "active"
    BY <2>1 DEF EndStep
  <2>3. QED
    BY <1>4, <2>2
<1>8. QED
  BY <1>5, <1>6, <1>7, TokenStepHolds DEF TokenStep, QuietStep

\* The memory and the store always back every token that has left the server.
THEOREM AlwaysBacked == Spec => []BackedStates
<1>1. Init => BackedStates
  BY DEF Init, EmptyDatabase, BackedStates, Backed
<1>2. QED
  BY <1>1, BackedStep, TypeCorrect, AlwaysSound, PTL DEF Spec

\* Whatever crashes and saves that fail, the server knows the activation of every
\* token it handed out (processClientVerification answers after its save).
THEOREM TokensAreBacked == Spec => []TokenBacked
<1>1. BackedStates => TokenBacked
  BY DEF BackedStates, Backed, TokenBacked
<1>2. QED
  BY <1>1, AlwaysBacked, PTL

\* A deactivation that was answered ok (handleDeactivate) lasts until a licence
\* key revives the activation.
THEOREM DeactivationsLast == Spec => []DeactivationLasts
<1>1. BackedStates => DeactivationLasts
  BY DEF BackedStates, Backed, DeactivationLasts
<1>2. QED
  BY <1>1, AlwaysBacked, PTL

\* Licences expire after their deadline only, and no token is issued after it
\* (the order of the checks of processClientVerification).
THEOREM DeadlinesAreRespected == Spec => []DeadlineRespected
<1>1. BackedStates => DeadlineRespected
  BY DEF BackedStates, Backed, DeadlineRespected
<1>2. QED
  BY <1>1, AlwaysBacked, PTL

\* A token leaves only for an active licence and an unblocked device whose
\* activation is on disk (processClientVerification).
THEOREM GrantsAreAuthorised == Spec => GrantIsAuthorised
<1>1. ASSUME TypeOK, [Next]_vars, NEW t \in tokens' \ tokens
      PROVE  /\ db.lic[t.lic].status = "active"
             /\ db.dev[t.dev].status # "blocked"
             /\ store'.act[t.lic][t.dev] = "active"
  <2>1. PICK u : \E c \in challenges : GrantStep(c, u)
    BY <1>1, TokenStepHolds DEF TokenStep, QuietStep, EndStep
  <2>2. t = u
    BY <1>1, <2>1 DEF GrantStep
  <2>3. QED
    BY <2>1, <2>2 DEF GrantStep
<1>2. TypeOK /\ [Next]_vars =>
          [\A t \in tokens' \ tokens :
              /\ db.lic[t.lic].status = "active"
              /\ db.dev[t.dev].status # "blocked"
              /\ store'.act[t.lic][t.dev] = "active"]_vars
  BY <1>1
<1>3. QED
  BY <1>2, TypeCorrect, PTL DEF Spec, GrantIsAuthorised

----------------------------------------------------------------------------
(* Saving and seats *)

\* A step writes what it leaves in memory, leaves both alone, or counts a failure.
SaveStep ==
    \/ failures' = failures + 1
    \/ failures' = failures /\ db' = store'
    \/ failures' = failures /\ db' = db /\ store' = store

\* Every handler saves what it changes before it unlocks (the calls of
\* saveLocked and store.Save in server.go).
LEMMA SaveStepHolds == [Next]_vars => SaveStep
<1> SUFFICES ASSUME [Next]_vars PROVE SaveStep
  OBVIOUS
<1>1. ASSUME Unsaved PROVE SaveStep
  BY <1>1 DEF Unsaved, SaveStep
<1>2. ASSUME NEW e, Saved(e) PROVE SaveStep
  BY <1>2 DEF Saved, SaveSucceeds, SaveFails, SaveStep
<1>3. CASE \E l \in Licenses, a \in AppNames, m \in Limits, t \in Deadlines :
               CreateLicense(l, a, m, t)
  BY <1>2, <1>3 DEF CreateLicense
<1>4. CASE \E l \in Licenses : RevokeLicense(l) \/ SuspendLicense(l) \/ ResumeLicense(l)
  BY <1>2, <1>4 DEF RevokeLicense, SuspendLicense, ResumeLicense
<1>5. CASE \E x \in Devices : BlockDevice(x) \/ UnblockDevice(x) \/ UnbindDevice(x)
  BY <1>2, <1>5 DEF BlockDevice, UnblockDevice, UnbindDevice
<1>6. CASE \/ StrayRequest
           \/ \E a \in Apps, i \in Installs : IssueChallenge(a, i)
  BY <1>1, <1>6 DEF StrayRequest, IssueChallenge
<1>7. CASE \E c \in challenges, x \in Devices, a \in Apps, i \in Installs,
              cred \in Credential : ClientVerification(c, x, a, i, cred)
  <2>1. PICK c \in challenges, x \in Devices, a \in Apps, i \in Installs,
             cred \in Credential : ClientVerification(c, x, a, i, cred)
    BY <1>7
  <2>2. CASE \E wellFormed \in BOOLEAN : VerifyRefused(c, a, i, cred, wellFormed)
    BY <1>1, <2>2 DEF VerifyRefused
  <2>3. CASE VerifyOverdue(c, a, i, cred) \/ VerifyDenied(c, x, a, i, cred)
    BY <1>2, <2>3 DEF VerifyOverdue, VerifyDenied
  <2>4. CASE \E integrityDenies \in BOOLEAN :
                 VerifyWithoutToken(c, x, a, i, cred, integrityDenies)
    BY <1>2, <2>4 DEF VerifyWithoutToken, Saved
  <2>5. CASE \E ttl \in {TokenTTL, RiskyTokenTTL} : VerifyGranted(c, x, a, i, cred, ttl)
    BY <1>2, <2>5 DEF VerifyGranted, GrantSaved, Saved
  <2>6. QED
    BY <2>1, <2>2, <2>3, <2>4, <2>5 DEF ClientVerification
<1>8. CASE \E op \in TokenOps, t \in tokens, i \in Installs \cup {NoInstall} :
               TokenRequest(op, t, i)
  BY <1>1, <1>8 DEF TokenRequest
<1>9. CASE \E r \in pending : Heartbeat(r) \/ CapabilityCheck(r) \/ Deactivate(r)
  BY <1>1, <1>2, <1>9 DEF Heartbeat, CapabilityCheck, Deactivate, Saved
<1>10. CASE Restart
  BY <1>10 DEF Restart, SaveStep
<1>11. CASE Tick \/ UNCHANGED vars
  BY <1>1, <1>11 DEF Tick, vars, Unsaved
<1>12. QED
  BY <1>3, <1>4, <1>5, <1>6, <1>7, <1>8, <1>9, <1>10, <1>11 DEF Next

\* While no save has failed a restart loses nothing (every handler of server.go
\* that changes s.data).
THEOREM NothingIsUnsaved == Spec => []NothingUnsaved
<1>1. Init => NothingUnsaved
  BY DEF Init, NothingUnsaved
<1>2. TypeOK /\ NothingUnsaved /\ [Next]_vars => NothingUnsaved'
  <2> SUFFICES ASSUME TypeOK, NothingUnsaved, [Next]_vars, failures' = 0
               PROVE  db' = store'
    BY DEF NothingUnsaved
  <2>1. failures' # failures + 1
    BY DEF TypeOK
  <2>2. QED
    BY <2>1, SaveStepHolds DEF SaveStep, NothingUnsaved
<1>3. QED
  BY <1>1, <1>2, TypeCorrect, PTL DEF Spec

\* A handler that takes no seat makes no activation active.
LEMMA DbStepTakesNoSeat ==
    ASSUME TypeOK, NEW e, DbStep(e), NEW l \in Licenses, NEW x \in Devices,
           e.act[l][x] = "active"
    PROVE  db.act[l][x] = "active"
<1>1. db \in Database /\ \A r \in pending : r.tok \in Token
  BY DEF TypeOK, Request
<1>2. CASE e.act = db.act
  BY <1>2
<1>3. CASE \E k \in Licenses : e = Revoked(db, k)
  BY <1>1, <1>3, RevokedFields
<1>4. CASE \E y \in Devices : e = Unbound(db, y)
  BY <1>1, <1>4 DEF Unbound, Database
<1>5. CASE \E r \in pending : e = Deactivated(db, r.tok)
  BY <1>1, <1>5 DEF Deactivated, Database, Token
<1>6. ASSUME NEW k \in Licenses, NEW y \in Devices
      PROVE  /\ \A a \in AppNames, m \in Limits, t \in Deadlines :
                    Created(db, k, a, m, t).act = db.act
             /\ \A s \in {"active", "suspended", "expired"} :
                    WithStatus(db, k, s).act = db.act
             /\ \A s \in {"active", "blocked"} : WithDevice(db, y, s).act = db.act
             /\ \A i \in Installs : Enrol(db, y, i).act = db.act
  BY <1>1, EnrolFields DEF Created, WithStatus, WithDevice, Database
<1>7. QED
  BY <1>2, <1>3, <1>4, <1>5, <1>6 DEF DbStep

\* A seat is taken only with a live challenge, for an active licence and a
\* device that is not blocked, or because a restart forgot that it was ended
\* (validateChallengeLocked and the checks of processClientVerification).
THEOREM SeatsNeedChallenges == Spec => SeatNeedsChallenge
<1> DEFINE Justified(l, x) ==
               \/ /\ \E c \in challenges : now <= c.expiresAt /\ c \notin challenges'
                  /\ db.lic[l].status = "active"
                  /\ db.dev[x].status # "blocked"
               \/ db' = store
<1>1. ASSUME TypeOK, [Next]_vars, NEW l \in Licenses, NEW x \in Devices,
             db.act[l][x] # "active", db'.act[l][x] = "active"
      PROVE  Justified(l, x)
  <2>1. ~ DbStep(db')
    BY <1>1, DbStepTakesNoSeat
  <2>2. CASE db' = store
    BY <2>2
  <2>3. CASE \E k \in Licenses, y \in Devices : SeatStep(db', k, y)
    <3>1. PICK k \in Licenses, y \in Devices : SeatStep(db', k, y)
      BY <2>3
    <3>2. PICK i \in Installs :
              /\ \E c \in challenges : now <= c.expiresAt /\ c \notin challenges'
              /\ db.lic[k].status = "active"
              /\ DeviceAllowed(Enrol(db, y, i), y)
              /\ db' = Activate(Enrol(db, y, i), k, y)
      BY <3>1 DEF SeatStep
    <3>3. db \in Database /\ Enrol(db, y, i) \in Database
      BY <1>1, EnrolType DEF TypeOK
    <3>4. k = l /\ y = x
      BY <1>1, <3>2, <3>3, EnrolFields, ActivateFields
    <3>5. db.dev[y].status # "blocked"
      BY <3>2, <3>3, EnrolFields DEF DeviceAllowed
    <3>6. QED
      BY <3>2, <3>4, <3>5
  <2>4. QED
    BY <1>1, <2>1, <2>2, <2>3, StepShapeHolds DEF StepShape, Restart
<1>2. TypeOK /\ [Next]_vars =>
          [\A l \in Licenses, x \in Devices :
              db.act[l][x] # "active" /\ db'.act[l][x] = "active"
              => Justified(l, x)]_vars
  BY <1>1
<1>3. QED
  BY <1>2, TypeCorrect, PTL DEF Spec, SeatNeedsChallenge

----------------------------------------------------------------------------
(* What the administrator is told *)

\* A device the diagnosis is about is known, an activation it is about is on
\* record: the fallback from a device nobody knows never leaves the database.
LEMMA SubjectsExist ==
    ASSUME TypeOK, ReferentialIntegrity, NEW l \in Licenses,
           NEW asked \in Devices \cup {NoDevice}, NEW s \in Subjects(l, asked)
    PROVE  /\ \/ s.device = NoDevice
              \/ s.device \in Devices /\ db.dev[s.device].status # "none"
           /\ \/ s.activation = NoDevice
              \/ s.activation \in Devices /\ db.act[l][s.activation] # "none"
<1>1. \A x \in Latest(l) : \/ x = NoDevice
                           \/ x \in Devices /\ db.act[l][x] # "none"
  BY DEF Latest
<1>2. \A x \in Devices : db.act[l][x] # "none" => db.dev[x].status # "none"
  BY DEF ReferentialIntegrity
<1>3. CASE Known(asked)
  <2>1. asked \in Devices /\ db.dev[asked].status # "none"
    BY <1>3 DEF Known
  <2>2. PICK x \in IF db.act[l][asked] # "none" THEN {asked} ELSE Latest(l) :
            s = [device |-> asked, activation |-> x]
    BY <1>3 DEF Subjects
  <2> QED
    BY <1>1, <2>1, <2>2
<1>4. CASE ~ Known(asked)
  <2>1. PICK x \in Latest(l) : s = [device |-> x, activation |-> x]
    BY <1>4 DEF Subjects
  <2> QED
    BY <1>1, <1>2, <2>1
<1> QED
  BY <1>3, <1>4

\* The finding on the licence is good for one name only: for an app's key when the
\* licence is usable for that app, for an internal id when no app's client can use it.
LEMMA LicenseFindingIsForTheName ==
    ASSUME NEW l \in Licenses
    PROVE  /\ \A a \in Apps : LicenseFinding(a, l) = "ok"
                              <=> LicenseUsable(l, a) /\ ~ Overdue(l)
           /\ \A id \in AppIds : LicenseFinding(id, l) = "ok" =>
                                     \A a \in Apps : ~ LicenseUsable(l, a)
<1>1. AppIds \cap Apps = {}
  BY LicensingAssumption
<1> QED
  BY <1>1 DEF LicenseFinding, LicenseUsable, Overdue

\* The authorization diagnosis explains the verification, whichever device it was
\* asked for: all clear about a device and its own activation means that the device's
\* token would verify, and the other way round; clear about licence and device means
\* that the licence key needs no more than a free seat.  One that names the app by its
\* internal id clears only licences that no client can use.
THEOREM DiagnosesExplain == Spec => []DiagnosisExplainsVerification
<1>1. TypeOK /\ ReferentialIntegrity => DiagnosisExplainsVerification
  <2> SUFFICES ASSUME TypeOK, ReferentialIntegrity,
                      NEW l \in Licenses, NEW asked \in Devices \cup {NoDevice},
                      NEW s \in Subjects(l, asked), NEW a \in Apps
               PROVE  LET d == Diagnosis(a, l, s)
                          x == s.device
                      IN  /\ x = s.activation =>
                                 (d = AllClear <=> x # NoDevice /\ TokenWouldVerify(a, l, x))
                          /\ x # NoDevice => (d.license = "ok" /\ d.device = "ok"
                                              <=> KeyNeedsOnlyASeat(a, l, x))
    BY LicenseFindingIsForTheName DEF DiagnosisExplainsVerification, Diagnosis
  <2> DEFINE d == Diagnosis(a, l, s)
             x == s.device
             good == LicenseUsable(l, a) /\ ~ Overdue(l)
  <2>1. \/ x = NoDevice
        \/ x \in Devices /\ db.dev[x].status \in {"active", "blocked"}
    BY SubjectsExist DEF TypeOK, Database, Device, DeviceStatus
  <2>2. NoDevice \notin Devices
    BY DiagnosticsAssumption
  <2>3. d.license = "ok" <=> good
    BY LicenseFindingIsForTheName DEF Diagnosis
  <2>4. d.device = "ok" <=> x # NoDevice /\ db.dev[x].status = "active"
    BY <2>1 DEF Diagnosis, DeviceFinding
  <2>5. x = s.activation =>
            (d.activation = "ok" <=> x # NoDevice /\ db.act[l][x] = "active")
    BY DEF Diagnosis, ActivationFinding
  <2>6. d = AllClear <=> d.license = "ok" /\ d.device = "ok" /\ d.activation = "ok"
    BY DEF Diagnosis, AllClear
  <2>7. ASSUME x # NoDevice
        PROVE  KeyNeedsOnlyASeat(a, l, x) <=> good /\ db.dev[x].status = "active"
    BY <2>1, <2>7 DEF KeyNeedsOnlyASeat, ForAnotherApp, DeviceAllowed, CredentialHolds
  <2>8. ASSUME x # NoDevice
        PROVE  TokenWouldVerify(a, l, x) <=>
                   good /\ db.dev[x].status = "active" /\ db.act[l][x] = "active"
    BY <2>1, <2>8 DEF TokenWouldVerify, PassesDevice, ForAnotherApp, DeviceAllowed,
                      CredentialHolds, SeatFree
  <2> HIDE DEF d, x
  <2>9. x = s.activation => (d = AllClear <=> x # NoDevice /\ TokenWouldVerify(a, l, x))
    BY <2>3, <2>4, <2>5, <2>6, <2>8
  <2>10. x # NoDevice => (d.license = "ok" /\ d.device = "ok"
                          <=> KeyNeedsOnlyASeat(a, l, x))
    BY <2>3, <2>4, <2>7
  <2> QED
    BY <2>9, <2>10 DEF d, x
<1> QED
  BY <1>1, TypeCorrect, ReferencesHold, PTL
=============================================================================
