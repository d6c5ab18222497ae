------------------------- MODULE AdminSessionsProofs -------------------------
(* Theorems about AdminSessions, for every value of its constants. *)
EXTENDS AdminSessions, FiniteSetTheorems, TLAPS

----------------------------------------------------------------------------
(* Type correctness *)

Worker == {Idle} \cup Comparing \cup Authorized

\* A change that is audited (auditLocked) keeps memory and store well typed.
LEMMA SavedType ==
    ASSUME TypeOK, NEW d \in Database, NEW kind \in AuditKinds, NEW n \in Nat,
           SavedAndAnswered(Audited(d, kind, n), kind, n)
    PROVE  db' \in Database /\ store' \in Database /\ answered' \subseteq AuditEntry
<1>1. [kind |-> kind, sid |-> n] \in AuditEntry
  BY DEF AuditEntry
<1>2. Audited(d, kind, n) \in Database
  BY <1>1 DEF Audited, Database
<1>3. QED
  BY <1>1, <1>2 DEF SavedAndAnswered, TypeOK

\* A failure counted by recordRateLimitFailureLocked keeps the counters well typed.
LEMMA FailureType ==
    ASSUME TypeOK, NEW k \in Keys, FailureRecorded(k)
    PROVE  rate' \in [Keys -> [failures: Nat, age: 0..Window]]
<1>1. rate \in [Keys -> [failures: Nat, age: 0..Window]] /\ Window \in Nat
  BY AdminAssumption DEF TypeOK
<1>2. CASE rate[k].failures = 0 \/ WindowOver(k)
  BY <1>1, <1>2 DEF FailureRecorded
<1>3. CASE ~ (rate[k].failures = 0 \/ WindowOver(k))
  BY <1>1, <1>3 DEF FailureRecorded
<1>4. QED
  BY <1>2, <1>3

\* The worker of an authorised request names a session and an administrator.
LEMMA AuthorizedWorker ==
    ASSUME TypeOK, NEW q \in Workers, worker[q].pc = "authorized"
    PROVE  worker[q].sid \in Nat /\ worker[q].admin \in Admins
  BY DEF TypeOK, Idle, Comparing, Authorized

\* The worker of a login holds its key, its guess and the copied hash.
LEMMA ComparingWorker ==
    ASSUME TypeOK, NEW q \in Workers, worker[q].pc = "comparing"
    PROVE  worker[q] \in Comparing
  BY DEF TypeOK, Idle, Comparing, Authorized


\* The hash a login copied is an administrator's: an unknown account has none.
CopyShape ==
    \A q \in Workers :
        worker[q].pc = "comparing" /\ worker[q].copy # NoPassword
            => worker[q].key[1] \in Admins

\* TypeOK is inductive with CopyShape, which says whose a matching hash is.
Typed == TypeOK /\ CopyShape

\* Every step of a request, every tick and every restart keeps Typed.
LEMMA TypedStep == Typed /\ [Next]_vars => Typed'
<1> SUFFICES ASSUME TypeOK, CopyShape, [Next]_vars PROVE TypeOK' /\ CopyShape'
  BY DEF Typed
<1>1. Idle.pc = "idle" /\ "idle" # "comparing"
  BY DEF Idle
<1>2. ASSUME NEW q \in Workers, Done(q)
      PROVE  /\ worker' \in [Workers -> {Idle} \cup Comparing \cup Authorized]
             /\ CopyShape'
  BY <1>1, <1>2 DEF Done, TypeOK, CopyShape
<1>3. CASE \E q \in Workers, account \in Accounts, addr \in Addrs, guess \in Passwords :
               LoginBegin(q, account, addr, guess)
  <2>1. PICK q \in Workers, account \in Accounts, addr \in Addrs, guess \in Passwords :
            LoginBegin(q, account, addr, guess)
    BY <1>3
  <2> DEFINE copy == IF account \in Admins THEN db.pw[account] ELSE NoPassword
             w == [pc |-> "comparing", key |-> <<account, addr>>, guess |-> guess,
                   copy |-> copy]
  <2>2. copy \in Passwords \cup {NoPassword}
    BY DEF TypeOK, Database
  <2>3. w \in Comparing
    BY <2>2 DEF Comparing, Keys
  <2>4. w.key[1] = account /\ w.copy = copy
    OBVIOUS
  <2>5. worker' = [worker EXCEPT ![q] = w]
    BY <2>1 DEF LoginBegin
  <2>6. copy # NoPassword => account \in Admins
    OBVIOUS
  <2> HIDE DEF w, copy
  <2>7. worker' \in [Workers -> {Idle} \cup Comparing \cup Authorized]
    BY <2>3, <2>5 DEF TypeOK
  <2>8. CopyShape'
    BY <2>4, <2>5, <2>6 DEF CopyShape, TypeOK
  <2>9. QED
    BY <2>1, <2>7, <2>8 DEF LoginBegin, TypeOK
<1>4. CASE \E q \in Workers : LoginFails(q)
  <2>1. PICK q \in Workers : LoginFails(q)
    BY <1>4
  <2>2. worker[q].key \in Keys
    BY <2>1, ComparingWorker DEF LoginFails, Comparing
  <2>3. rate' \in [Keys -> [failures: Nat, age: 0..Window]]
    BY <2>1, <2>2, FailureType DEF LoginFails
  <2>4. QED
    BY <1>2, <2>1, <2>3 DEF LoginFails, TypeOK
<1>5. CASE \E q \in Workers : LoginSucceeds(q)
  <2>1. PICK q \in Workers : LoginSucceeds(q)
    BY <1>5
  <2>2. worker[q] \in Comparing
    BY <2>1, ComparingWorker DEF LoginSucceeds
  <2>3. worker[q].key \in Keys /\ worker[q].guess \in Passwords
    BY <2>2 DEF Comparing
  <2>4. worker[q].key[1] \in Admins
    BY <2>1, <2>3, AdminAssumption DEF LoginSucceeds, Matches, CopyShape
  <2>5. opened' \in Nat /\ SessionTTL \in Nat
    BY <2>1, AdminAssumption DEF LoginSucceeds, TypeOK
  <2>6. [sid |-> opened', admin |-> worker[q].key[1], age |-> 0,
         proven |-> worker[q].guess,
         late |-> worker[q].copy # db.pw[worker[q].key[1]],
         keeper |-> FALSE] \in Session
    BY <2>3, <2>4, <2>5 DEF Session
  <2>7. sessions' \subseteq Session
    BY <2>1, <2>6 DEF LoginSucceeds, TypeOK
  <2>8. [kind |-> "login", sid |-> opened'] \in AuditEntry
    BY <2>5 DEF AuditEntry, AuditKinds
  <2>9. db' \in Database
    BY <2>1, <2>8 DEF LoginSucceeds, Audited, TypeOK, Database
  <2>10. rate' \in [Keys -> [failures: Nat, age: 0..Window]]
    BY <2>1, <2>3, AdminAssumption DEF LoginSucceeds, FailuresForgotten, NoFailures, TypeOK
  <2>11. QED
    BY <1>2, <2>1, <2>5, <2>7, <2>9, <2>10 DEF LoginSucceeds, TypeOK
<1>6. CASE \E q \in Workers, s \in sessions : RequireAdmin(q, s)
  <2>1. PICK q \in Workers, s \in sessions : RequireAdmin(q, s)
    BY <1>6
  <2> DEFINE w == [pc |-> "authorized", sid |-> s.sid, admin |-> s.admin]
  <2>2. w \in Authorized /\ w.pc # "comparing"
    BY DEF TypeOK, Session, Authorized
  <2>3. worker' \in {worker, [worker EXCEPT ![q] = w]}
    BY <2>1 DEF RequireAdmin
  <2> HIDE DEF w
  <2>4. /\ worker' \in [Workers -> {Idle} \cup Comparing \cup Authorized]
        /\ CopyShape'
    BY <2>2, <2>3 DEF TypeOK, CopyShape
  <2>5. QED
    BY <2>1, <2>4 DEF RequireAdmin, TypeOK
<1>7. CASE \E q \in Workers : Logout(q) \/ AuditedAction(q) \/ NoChange(q)
  <2>1. PICK q \in Workers : Logout(q) \/ AuditedAction(q) \/ NoChange(q)
    BY <1>7
  <2>2. worker[q].sid \in Nat /\ db \in Database
    BY <2>1, AuthorizedWorker DEF Logout, AuditedAction, NoChange, TypeOK
  <2>3. /\ db' \in Database /\ store' \in Database /\ answered' \subseteq AuditEntry
    BY <2>1, <2>2, SavedType DEF Logout, AuditedAction, NoChange, AuditKinds, TypeOK
  <2>4. sessions' \subseteq Session
    BY <2>1 DEF Logout, AuditedAction, NoChange, TypeOK
  <2>5. QED
    BY <1>2, <2>1, <2>3, <2>4 DEF Logout, AuditedAction, NoChange, TypeOK
<1>8. CASE \E q \in Workers, current \in Passwords, new \in Passwords \cup {NoPassword} :
               ChangePassword(q, current, new)
  <2>1. PICK q \in Workers, current \in Passwords, new \in Passwords \cup {NoPassword} :
            ChangePassword(q, current, new)
    BY <1>8
  <2>2. worker[q].sid \in Nat /\ worker[q].admin \in Admins /\ new \in Passwords
    BY <2>1, AuthorizedWorker DEF ChangePassword, Acceptable
  <2>3. [db EXCEPT !.pw[worker[q].admin] = new] \in Database
    BY <2>2 DEF TypeOK, Database
  <2>4. /\ db' \in Database /\ store' \in Database /\ answered' \subseteq AuditEntry
    BY <2>1, <2>2, <2>3, SavedType DEF ChangePassword, AuditKinds
  <2>5. ASSUME NEW s \in sessions, NEW b \in BOOLEAN
        PROVE  [s EXCEPT !.keeper = b] \in Session
    BY DEF TypeOK, Session
  <2>6. ASSUME NEW s \in sessions
        PROVE  [s EXCEPT !.keeper = @ \/ s.sid = worker[q].sid] \in Session
    <3>1. (s.keeper \/ s.sid = worker[q].sid) \in BOOLEAN
      OBVIOUS
    <3>2. QED
      BY <2>5, <3>1
  <2>7. SessionsKept(worker[q].admin, worker[q].sid) \subseteq sessions
    BY DEF SessionsKept
  <2>8. sessions' \subseteq Session
    BY <2>1, <2>6, <2>7 DEF ChangePassword
  <2>9. QED
    BY <1>2, <2>1, <2>4, <2>8 DEF ChangePassword, TypeOK
<1>9. CASE Tick
  <2>1. /\ Window \in Nat /\ SessionTTL \in Nat
    BY AdminAssumption
  <2>2. rate' \in [Keys -> [failures: Nat, age: 0..Window]]
    BY <1>9, <2>1 DEF Tick, Older, TypeOK
  <2>3. ASSUME NEW s \in sessions
        PROVE  [s EXCEPT !.age = Older(@, SessionTTL + 1)] \in Session
    BY <2>1 DEF TypeOK, Session, Older
  <2>4. QED
    BY <1>9, <2>2, <2>3 DEF Tick, TypeOK, CopyShape
<1>10. CASE Restart
  BY <1>10, <1>1, AdminAssumption DEF Restart, TypeOK, CopyShape, NoFailures
<1>11. CASE UNCHANGED vars
  BY <1>11 DEF vars, TypeOK, CopyShape
<1>12. QED
  BY <1>3, <1>4, <1>5, <1>6, <1>7, <1>8, <1>9, <1>10, <1>11 DEF Next

\* The inductive invariant of the types holds throughout.
LEMMA AlwaysTyped == Spec => []Typed
<1>1. Init => Typed
  BY AdminAssumption DEF Init, Typed, TypeOK, CopyShape, Database, NoFailures, Idle
<1>2. QED
  BY <1>1, TypedStep, PTL DEF Spec

\* Administrators, sessions, counters, requests and answers keep their types.
THEOREM AdminTypeCorrect == Spec => []TypeOK
<1>1. Typed => TypeOK
  BY DEF Typed
<1>2. QED
  BY <1>1, AlwaysTyped, PTL

----------------------------------------------------------------------------
(* The audit trail *)

\* What was answered is in the stored trail, and no handler drops an entry from
\* memory, which is what the next save writes.
Trail == answered \subseteq store.audit /\ answered \subseteq db.audit

\* An audited save (auditLocked, then saveLocked) keeps what was answered.
LEMMA SavedTrail ==
    ASSUME TypeOK, Trail, NEW d \in Database, d.audit = db.audit, NEW kind, NEW n,
           SavedAndAnswered(Audited(d, kind, n), kind, n)
    PROVE  Trail'
<1> DEFINE entry == [kind |-> kind, sid |-> n]
           e == Audited(d, kind, n)
<1>1. e.audit = db.audit \cup {entry}
  BY DEF Audited, Database
<1>2. /\ db' = e /\ store' \in {store, e}
      /\ answered' = answered \/ (store' = e /\ answered' = answered \cup {entry})
  BY DEF SavedAndAnswered
<1> HIDE DEF e, entry
<1>3. QED
  BY <1>1, <1>2 DEF Trail

\* An audited action that was answered with success is in the stored trail
\* (auditLocked before saveLocked, the answer after both).
THEOREM AnswersAreAudited == Spec => []AnsweredIsAudited
<1>1. Init => Trail
  BY DEF Init, Trail
<1>2. TypeOK /\ Trail /\ [Next]_vars => Trail'
  <2> SUFFICES ASSUME TypeOK, Trail, [Next]_vars PROVE Trail'
    OBVIOUS
  <2>1. ASSUME UNCHANGED <<db, store, answered>> PROVE Trail'
    BY <2>1 DEF Trail
  <2>2. CASE \E q \in Workers :
                 \/ \E account \in Accounts, addr \in Addrs, guess \in Passwords :
                        LoginBegin(q, account, addr, guess)
                 \/ LoginFails(q)
                 \/ \E s \in sessions : RequireAdmin(q, s)
                 \/ NoChange(q)
    BY <2>1, <2>2 DEF LoginBegin, LoginFails, RequireAdmin, NoChange
  <2>3. CASE \E q \in Workers : LoginSucceeds(q)
    <3>1. /\ store' = store /\ answered' = answered
          /\ db' = Audited(db, "login", opened')
      BY <2>3 DEF LoginSucceeds
    <3>2. db.audit \subseteq Audited(db, "login", opened').audit
      BY DEF Audited, TypeOK, Database
    <3>3. QED
      BY <3>1, <3>2 DEF Trail
  <2>4. CASE \E q \in Workers : Logout(q) \/ AuditedAction(q)
    BY <2>4, SavedTrail DEF Logout, AuditedAction, TypeOK
  <2>5. CASE \E q \in Workers, current \in Passwords, new \in Passwords \cup {NoPassword} :
                 ChangePassword(q, current, new)
    <3>1. PICK q \in Workers, current \in Passwords, new \in Passwords \cup {NoPassword} :
              ChangePassword(q, current, new)
      BY <2>5
    <3> DEFINE d == [db EXCEPT !.pw[worker[q].admin] = new]
    <3>2. new \in Passwords
      BY <3>1 DEF ChangePassword, Acceptable
    <3>3. d \in Database /\ d.audit = db.audit
      BY <3>2 DEF TypeOK, Database
    <3>4. SavedAndAnswered(Audited(d, "password", worker[q].sid), "password", worker[q].sid)
      BY <3>1 DEF ChangePassword
    <3> HIDE DEF d
    <3>5. QED
      BY <3>3, <3>4, SavedTrail
  <2>6. CASE Tick \/ UNCHANGED vars
    BY <2>1, <2>6 DEF Tick, vars
  <2>7. CASE Restart
    BY <2>7 DEF Restart, Trail
  <2>8. QED
    BY <2>2, <2>3, <2>4, <2>5, <2>6, <2>7 DEF Next
<1>3. Trail => AnsweredIsAudited
  BY DEF Trail, AnsweredIsAudited
<1>4. QED
  BY <1>1, <1>2, <1>3, AdminTypeCorrect, PTL DEF Spec

----------------------------------------------------------------------------
(* Password changes and sessions *)

\* Only the session that changed the password, or one whose login had copied the
\* old hash before, is open with a password that is no longer its admin's
\* (handleAdminLogin, handleAdminPasswordChange).
THEOREM StaleSessionsAreLate == Spec => []OnlyLateSessionsAreStale
<1>1. Init => OnlyLateSessionsAreStale
  BY DEF Init, OnlyLateSessionsAreStale
<1>2. Typed /\ OnlyLateSessionsAreStale /\ [Next]_vars => OnlyLateSessionsAreStale'
  <2> SUFFICES ASSUME TypeOK, OnlyLateSessionsAreStale, [Next]_vars
               PROVE  OnlyLateSessionsAreStale'
    BY DEF Typed
  <2>1. ASSUME db'.pw = db.pw, sessions' \subseteq sessions
        PROVE  OnlyLateSessionsAreStale'
    BY <2>1 DEF OnlyLateSessionsAreStale
  <2>2. CASE \E q \in Workers :
                 \/ \E account \in Accounts, addr \in Addrs, guess \in Passwords :
                        LoginBegin(q, account, addr, guess)
                 \/ LoginFails(q)
                 \/ \E s \in sessions : RequireAdmin(q, s)
                 \/ NoChange(q)
    BY <2>1, <2>2 DEF LoginBegin, LoginFails, RequireAdmin, NoChange
  <2>3. CASE \E q \in Workers : LoginSucceeds(q)
    <3>1. PICK q \in Workers : LoginSucceeds(q)
      BY <2>3
    <3> DEFINE w == worker[q]
               s == [sid |-> opened', admin |-> w.key[1], age |-> 0,
                     proven |-> w.guess, late |-> w.copy # db.pw[w.key[1]],
                     keeper |-> FALSE]
    <3>2. sessions' = sessions \cup {s} /\ w.guess = w.copy
      BY <3>1 DEF LoginSucceeds, Matches
    <3>3. db'.pw = db.pw
      BY <3>1 DEF LoginSucceeds, Audited, TypeOK, Database
    <3>4. s.proven = db.pw[s.admin] \/ s.late
      BY <3>2
    <3> HIDE DEF s
    <3>5. QED
      BY <3>2, <3>3, <3>4 DEF OnlyLateSessionsAreStale
  <2>4. CASE \E q \in Workers : Logout(q) \/ AuditedAction(q)
    <3>1. PICK q \in Workers : Logout(q) \/ AuditedAction(q)
      BY <2>4
    <3>2. \E kind \in AuditKinds : db' = Audited(db, kind, worker[q].sid)
      BY <3>1 DEF Logout, AuditedAction, SavedAndAnswered, AuditKinds
    <3>3. db'.pw = db.pw
      BY <3>2 DEF Audited, TypeOK, Database
    <3>4. QED
      BY <2>1, <3>1, <3>3 DEF Logout, AuditedAction
  <2>5. CASE \E q \in Workers, current \in Passwords, new \in Passwords \cup {NoPassword} :
                 ChangePassword(q, current, new)
    <3>1. PICK q \in Workers, current \in Passwords, new \in Passwords \cup {NoPassword} :
              ChangePassword(q, current, new)
      BY <2>5
    <3> DEFINE a == worker[q].admin
    <3>2. db' = Audited([db EXCEPT !.pw[a] = new], "password", worker[q].sid)
      BY <3>1 DEF ChangePassword, SavedAndAnswered
    <3>3. \A b \in Admins \ {a} : db'.pw[b] = db.pw[b]
      BY <3>2 DEF Audited, TypeOK, Database
    <3>4. ASSUME NEW u \in sessions'
          PROVE  u.proven = db'.pw[u.admin] \/ u.keeper \/ u.late
      <4>1. PICK s \in SessionsKept(a, worker[q].sid) :
                u = [s EXCEPT !.keeper = @ \/ s.sid = worker[q].sid]
        BY <3>1 DEF ChangePassword
      <4>2. s \in sessions /\ s \in Session /\ (s.admin # a \/ s.sid = worker[q].sid)
        BY <4>1 DEF SessionsKept, TypeOK
      <4>3. /\ u.proven = s.proven /\ u.admin = s.admin /\ u.late = s.late
            /\ u.keeper = (s.keeper \/ s.sid = worker[q].sid)
        BY <4>1, <4>2 DEF Session
      <4>4. CASE s.sid = worker[q].sid
        BY <4>3, <4>4
      <4>5. CASE s.sid # worker[q].sid
        <5>1. s.admin \in Admins \ {a}
          BY <4>2, <4>5 DEF Session
        <5>2. s.proven = db'.pw[s.admin] \/ s.keeper \/ s.late
          BY <3>3, <4>2, <5>1 DEF OnlyLateSessionsAreStale
        <5>3. QED
          BY <4>3, <5>2
      <4>6. QED
        BY <4>4, <4>5
    <3>5. QED
      BY <3>4 DEF OnlyLateSessionsAreStale
  <2>6. CASE Tick
    <3>1. ASSUME NEW u \in sessions'
          PROVE  u.proven = db'.pw[u.admin] \/ u.keeper \/ u.late
      <4>1. PICK s \in sessions : u = [s EXCEPT !.age = Older(@, SessionTTL + 1)]
        BY <2>6 DEF Tick
      <4>2. s \in Session /\ db' = db
        BY <2>6 DEF Tick, TypeOK
      <4>3. /\ u.proven = s.proven /\ u.admin = s.admin
            /\ u.late = s.late /\ u.keeper = s.keeper
        BY <4>1, <4>2 DEF Session
      <4>4. QED
        BY <4>2, <4>3 DEF OnlyLateSessionsAreStale
    <3>2. QED
      BY <3>1 DEF OnlyLateSessionsAreStale
  <2>7. CASE Restart
    BY <2>7 DEF Restart, OnlyLateSessionsAreStale
  <2>8. CASE UNCHANGED vars
    BY <2>1, <2>8 DEF vars
  <2>9. QED
    BY <2>2, <2>3, <2>4, <2>5, <2>6, <2>7, <2>8 DEF Next
<1>3. QED
  BY <1>1, <1>2, AlwaysTyped, PTL DEF Spec

\* No step changes an account's password while a login for it is comparing.
ChangesAlone ==
    \A q \in Workers :
        LET a == worker[q].key[1]
        IN  worker'[q].pc = "comparing" /\ worker'[q] = worker[q] /\ a \in Admins
            => db'.pw[a] = db.pw[a]

\* Then the hash a login compares with is the one that is current, and no session is
\* opened late.
Punctual ==
    /\ \A q \in Workers :
           worker[q].pc = "comparing" /\ worker[q].key[1] \in Admins
               => worker[q].copy = db.pw[worker[q].key[1]]
    /\ \A s \in sessions : ~ s.late

\* A step that changes no password under a comparing login keeps that so.
LEMMA PunctualStep ==
    ASSUME Typed, Punctual, [Next]_vars, [ChangesAlone]_vars
    PROVE  Punctual'
<1>1. /\ worker \in [Workers -> {Idle} \cup Comparing \cup Authorized]
      /\ sessions \subseteq Session /\ db \in Database /\ Idle.pc # "comparing"
  BY DEF Typed, TypeOK, Idle
<1>2. ASSUME NEW q \in Workers, worker'[q].pc = "comparing", worker'[q] = worker[q],
             worker[q].key[1] \in Admins
      PROVE  worker'[q].copy = db'.pw[worker'[q].key[1]]
  BY <1>2 DEF ChangesAlone, Punctual, vars
<1>3. ASSUME \A q \in Workers : worker'[q].pc = "comparing" => worker'[q] = worker[q],
             \A u \in sessions' : ~ u.late
      PROVE  Punctual'
  BY <1>2, <1>3 DEF Punctual
<1>4. ASSUME NEW q \in Workers, Done(q)
      PROVE  \A p \in Workers : worker'[p].pc = "comparing" => worker'[p] = worker[p]
  BY <1>1, <1>4 DEF Done
<1>5. ASSUME NEW q \in Workers, NEW account \in Accounts, NEW addr \in Addrs,
             NEW guess \in Passwords, LoginBegin(q, account, addr, guess)
      PROVE  Punctual'
  <2>1. /\ UNCHANGED <<db, sessions>>
        /\ \A p \in Workers \ {q} : worker'[p] = worker[p]
    BY <1>1, <1>5 DEF LoginBegin
  <2>2. /\ worker'[q].key[1] = account
        /\ worker'[q].copy = IF account \in Admins THEN db.pw[account] ELSE NoPassword
    BY <1>1, <1>5 DEF LoginBegin
  <2> QED
    BY <2>1, <2>2 DEF Punctual
<1>6. ASSUME NEW q \in Workers, LoginSucceeds(q)
      PROVE  Punctual'
  <2>1. worker[q] \in Comparing /\ worker[q].key[1] \in Admins
    <3>1. worker[q] \in Comparing
      BY <1>6, ComparingWorker DEF LoginSucceeds, Typed
    <3>2. worker[q].copy # NoPassword
      BY <1>6, <3>1, AdminAssumption DEF LoginSucceeds, Matches, Comparing
    <3> QED
      BY <1>6, <3>1, <3>2 DEF LoginSucceeds, Typed, CopyShape
  <2>2. worker[q].copy = db.pw[worker[q].key[1]]
    BY <1>6, <2>1 DEF LoginSucceeds, Punctual
  <2>3. \A u \in sessions' : ~ u.late
    <3> DEFINE new == [sid |-> opened', admin |-> worker[q].key[1], age |-> 0,
                       proven |-> worker[q].guess,
                       late |-> worker[q].copy # db.pw[worker[q].key[1]],
                       keeper |-> FALSE]
    <3>1. sessions' = sessions \cup {new}
      BY <1>6 DEF LoginSucceeds
    <3>2. new.late = (worker[q].copy # db.pw[worker[q].key[1]])
      OBVIOUS
    <3> HIDE DEF new
    <3> QED
      BY <2>2, <3>1, <3>2 DEF Punctual
  <2> QED
    BY <1>3, <1>4, <1>6, <2>3 DEF LoginSucceeds
<1>7. ASSUME NEW q \in Workers,
             \/ LoginFails(q) \/ Logout(q) \/ NoChange(q) \/ AuditedAction(q)
      PROVE  Punctual'
  <2>1. sessions' \subseteq sessions /\ Done(q)
    BY <1>7 DEF LoginFails, Logout, NoChange, AuditedAction
  <2> QED
    BY <1>3, <1>4, <2>1 DEF Punctual
<1>8. ASSUME NEW q \in Workers, NEW s \in sessions, RequireAdmin(q, s)
      PROVE  Punctual'
  <2>1. \A p \in Workers : worker'[p].pc = "comparing" => worker'[p] = worker[p]
    BY <1>1, <1>8 DEF RequireAdmin
  <2>2. sessions' \subseteq sessions
    BY <1>8 DEF RequireAdmin
  <2> QED
    BY <1>3, <2>1, <2>2 DEF Punctual
<1>9. ASSUME NEW q \in Workers, NEW current, NEW new, ChangePassword(q, current, new)
      PROVE  Punctual'
  <2>1. \A u \in sessions' : \E s \in sessions :
            u = [s EXCEPT !.keeper = @ \/ s.sid = worker[q].sid]
    BY <1>9 DEF ChangePassword, SessionsKept
  <2>2. \A u \in sessions' : ~ u.late
    BY <1>1, <2>1 DEF Session, Punctual
  <2> QED
    BY <1>3, <1>4, <1>9, <2>2 DEF ChangePassword
<1>10. CASE Tick
  <2>1. \A u \in sessions' : \E s \in sessions :
            u = [s EXCEPT !.age = Older(@, SessionTTL + 1)]
    BY <1>10 DEF Tick
  <2>2. \A u \in sessions' : ~ u.late
    BY <1>1, <2>1 DEF Session, Punctual
  <2> QED
    BY <1>3, <1>10, <2>2 DEF Tick
<1>11. CASE Restart
  BY <1>1, <1>3, <1>11 DEF Restart
<1>12. CASE UNCHANGED vars
  BY <1>12 DEF vars, Punctual
<1> QED
  BY <1>5, <1>6, <1>7, <1>8, <1>9, <1>10, <1>11, <1>12 DEF Next

\* What the README says of a password change is true of a server on which none is made
\* while a login for the account compares: then no session opened with an old password
\* remains but the one that changed it, through failed saves and restarts.
THEOREM PunctualPasswords ==
    Spec /\ [][ChangesAlone]_vars => []OldPasswordOpensNothing
<1>1. Init => Punctual
  BY DEF Init, Punctual, Idle
<1>2. Punctual /\ OnlyLateSessionsAreStale => OldPasswordOpensNothing
  BY DEF Punctual, OnlyLateSessionsAreStale, OldPasswordOpensNothing
<1>3. Typed /\ Punctual /\ [Next]_vars /\ [ChangesAlone]_vars => Punctual'
  BY PunctualStep
<1> QED
  BY <1>1, <1>2, <1>3, AlwaysTyped, StaleSessionsAreLate, PTL DEF Spec

\* One that serves a single request at a time is such a server.
THEOREM OneRequestAtATime ==
    ASSUME NEW CONSTANT w, Workers = {w}
    PROVE  Spec => []OldPasswordOpensNothing
<1>1. Typed /\ [Next]_vars => [ChangesAlone]_vars
  <2> SUFFICES ASSUME Typed, Next, worker'[w].pc = "comparing", worker'[w] = worker[w],
                      worker[w].key[1] \in Admins
               PROVE  db'.pw = db.pw
    BY DEF ChangesAlone, vars
  <2>1. ~ Done(w) /\ ~ Restart
    BY DEF Done, Restart, Idle, Typed, TypeOK
  <2>2. \A q \in Workers : ~ Done(q)
    BY <2>1
  <2>3. db' = db
    BY <2>1, <2>2 DEF Next, LoginBegin, LoginFails, LoginSucceeds, RequireAdmin, Logout,
       ChangePassword, NoChange, AuditedAction, Tick
  <2> QED
    BY <2>3
<1> QED
  BY <1>1, PunctualPasswords, AlwaysTyped, PTL DEF Spec

----------------------------------------------------------------------------
(* The rate limit *)

\* Requests are counted by natural numbers.
LEMMA WorkersCount ==
    ASSUME NEW S \in SUBSET Workers
    PROVE  /\ Cardinality(Workers) \in Nat /\ Cardinality(S) \in Nat
           /\ Cardinality(S) <= Cardinality(Workers)
           /\ \A q \in S : Cardinality(S \ {q}) = Cardinality(S) - 1
<1>1. IsFiniteSet(Workers) /\ IsFiniteSet(S)
  BY FS_Subset, AdminAssumption
<1>2. QED
  BY <1>1, FS_CardinalityType, FS_Subset, FS_RemoveElement

\* What FailuresBounded says of one key.
KeyBounded(k) ==
    ~ WindowOver(k) =>
        rate[k].failures + Cardinality(InFlight(k))
            <= FailureLimit - 1 + Cardinality(Workers)

\* A key with no failure, with fewer than the limit, or with one whose request is
\* no longer comparing (S are those that are), is within the bound.
LEMMA FreshWindow ==
    ASSUME NEW S \in SUBSET Workers, NEW n \in Nat,
           n = 0 \/ (n = 1 /\ S # Workers) \/ n < FailureLimit
    PROVE  n + Cardinality(S) <= FailureLimit - 1 + Cardinality(Workers)
<1>1. FailureLimit \in Nat \ {0}
  BY AdminAssumption
<1>2. /\ Cardinality(Workers) \in Nat /\ Cardinality(S) \in Nat
      /\ Cardinality(S) <= Cardinality(Workers)
  BY WorkersCount
<1>3. CASE n = 1 /\ S # Workers
  <2>1. PICK q \in Workers : q \notin S
    BY <1>3
  <2>2. Workers \ {q} \in SUBSET Workers /\ S \subseteq Workers \ {q}
    BY <2>1
  <2>3. Cardinality(Workers \ {q}) = Cardinality(Workers) - 1
    BY <2>1, WorkersCount
  <2>4. IsFiniteSet(Workers \ {q})
    BY <2>2, FS_Subset, AdminAssumption
  <2>5. Cardinality(S) <= Cardinality(Workers \ {q})
    BY <2>2, <2>4, FS_Subset
  <2>6. QED
    BY <1>1, <1>2, <1>3, <2>3, <2>5
<1>4. CASE n = 0 \/ n < FailureLimit
  BY <1>1, <1>2, <1>4
<1>5. QED
  BY <1>3, <1>4

\* The failures of one window pass the limit by fewer than there are requests
\* (isRateLimitedLocked before the comparison, recordRateLimitFailureLocked after).
THEOREM FailuresAreBounded == Spec => []FailuresBounded
<1> USE DEF Idle
<1>1. Init => FailuresBounded
  <2> SUFFICES ASSUME Init, NEW k \in Keys PROVE KeyBounded(k)
    BY DEF FailuresBounded, KeyBounded
  <2>1. rate[k].failures = 0 /\ InFlight(k) \in SUBSET Workers
    BY DEF Init, NoFailures, InFlight
  <2>2. QED
    BY <2>1, FreshWindow DEF KeyBounded
<1>2. TypeOK /\ TypeOK' /\ FailuresBounded /\ [Next]_vars => FailuresBounded'
  <2> SUFFICES ASSUME TypeOK, TypeOK', FailuresBounded, [Next]_vars, NEW k \in Keys,
                      ~ WindowOver(k)'
               PROVE  rate'[k].failures + Cardinality(InFlight(k)')
                          <= FailureLimit - 1 + Cardinality(Workers)
    BY DEF FailuresBounded
  <2> DEFINE S == InFlight(k)
             T == InFlight(k)'
             Goal == rate'[k].failures + Cardinality(T)
                         <= FailureLimit - 1 + Cardinality(Workers)
  <2>1. /\ S \in SUBSET Workers /\ T \in SUBSET Workers
        /\ rate[k].failures \in Nat /\ rate'[k].failures \in Nat
        /\ FailureLimit \in Nat
    BY AdminAssumption DEF InFlight, TypeOK
  <2>2. /\ Cardinality(Workers) \in Nat
        /\ Cardinality(S) \in Nat /\ Cardinality(T) \in Nat
    BY <2>1, WorkersCount
  <2>3. ~ WindowOver(k) => rate[k].failures + Cardinality(S)
                               <= FailureLimit - 1 + Cardinality(Workers)
    BY DEF FailuresBounded
  <2>4. ASSUME rate'[k] = rate[k], T \subseteq S PROVE Goal
    <3>1. ~ WindowOver(k)
      BY <2>4 DEF WindowOver
    <3>2. Cardinality(T) <= Cardinality(S)
      BY <2>1, <2>4, FS_Subset, AdminAssumption
    <3>3. QED
      BY <2>1, <2>2, <2>3, <2>4, <3>1, <3>2
  <2>5. ASSUME NEW q \in Workers, worker' = [worker EXCEPT ![q] = Idle]
        PROVE  T = S \ {q}
    BY <2>5 DEF InFlight, TypeOK
  <2>6. CASE \E q \in Workers, account \in Accounts, addr \in Addrs, guess \in Passwords :
                 LoginBegin(q, account, addr, guess)
    <3>1. PICK q \in Workers, account \in Accounts, addr \in Addrs, guess \in Passwords :
              LoginBegin(q, account, addr, guess)
      BY <2>6
    <3>2. rate' = rate
      BY <3>1 DEF LoginBegin
    <3>3. CASE k = <<account, addr>>
      <4>1. rate'[k].failures < FailureLimit
        BY <2>1, <3>1, <3>2, <3>3 DEF LoginBegin, Limited, WindowOver
      <4>2. QED
        BY <2>1, <4>1, FreshWindow
    <3>4. CASE k # <<account, addr>>
      <4>1. worker'[q].key # k
        BY <3>1, <3>4 DEF LoginBegin, TypeOK
      <4>2. \A p \in Workers \ {q} : worker'[p] = worker[p]
        BY <3>1 DEF LoginBegin, TypeOK
      <4>3. T \subseteq S
        BY <4>1, <4>2 DEF InFlight
      <4>4. QED
        BY <2>4, <3>2, <4>3
    <3>5. QED
      BY <3>3, <3>4
  <2>7. CASE \E q \in Workers : LoginFails(q)
    <3>1. PICK q \in Workers : LoginFails(q)
      BY <2>7
    <3> DEFINE j == worker[q].key
    <3>2. T = S \ {q}
      BY <3>1, <2>5 DEF LoginFails, Done
    <3>3. CASE k # j
      <4>1. rate'[k] = rate[k]
        BY <3>1, <3>3 DEF LoginFails, FailureRecorded, TypeOK
      <4>2. QED
        BY <2>4, <3>2, <4>1
    <3>4. CASE k = j /\ (rate[k].failures = 0 \/ WindowOver(k))
      <4>1. rate'[k].failures = 1
        BY <3>1, <3>4 DEF LoginFails, FailureRecorded, TypeOK
      <4>2. T # Workers
        BY <3>2
      <4>3. QED
        BY <2>1, <4>1, <4>2, FreshWindow
    <3>5. CASE k = j /\ ~ (rate[k].failures = 0 \/ WindowOver(k))
      <4>1. rate'[k].failures = rate[k].failures + 1
        BY <3>1, <3>5 DEF LoginFails, FailureRecorded, TypeOK
      <4>2. q \in S
        BY <3>1, <3>5 DEF LoginFails, InFlight
      <4>3. Cardinality(T) = Cardinality(S) - 1
        BY <2>1, <3>2, <4>2, WorkersCount
      <4>4. QED
        BY <2>1, <2>2, <2>3, <3>5, <4>1, <4>3
    <3>6. QED
      BY <3>3, <3>4, <3>5
  <2>8. CASE \E q \in Workers : LoginSucceeds(q)
    <3>1. PICK q \in Workers : LoginSucceeds(q)
      BY <2>8
    <3>2. T = S \ {q}
      BY <3>1, <2>5 DEF LoginSucceeds, Done
    <3>3. rate'[k] = rate[k] \/ rate'[k].failures = 0
      BY <3>1 DEF LoginSucceeds, FailuresForgotten, NoFailures, TypeOK
    <3>4. QED
      BY <2>1, <2>4, <3>2, <3>3, FreshWindow
  <2>9. CASE \E q \in Workers, s \in sessions : RequireAdmin(q, s)
    <3>1. PICK q \in Workers, s \in sessions : RequireAdmin(q, s)
      BY <2>9
    <3>2. \A p \in Workers : worker'[p] = worker[p] \/ worker'[p].pc = "authorized"
      BY <3>1 DEF RequireAdmin, TypeOK
    <3>3. T \subseteq S
      BY <3>2 DEF InFlight
    <3>4. QED
      BY <2>4, <3>1, <3>3 DEF RequireAdmin
  <2>10. CASE \E q \in Workers :
                  \/ Logout(q) \/ AuditedAction(q) \/ NoChange(q)
                  \/ \E current \in Passwords, new \in Passwords \cup {NoPassword} :
                         ChangePassword(q, current, new)
    <3>1. PICK q \in Workers : rate' = rate /\ Done(q)
      BY <2>10 DEF Logout, AuditedAction, NoChange, ChangePassword
    <3>2. QED
      BY <2>4, <2>5, <3>1 DEF Done
  <2>11. CASE Tick
    <3>1. T = S
      BY <2>11 DEF Tick, InFlight
    <3>2. rate'[k].failures = rate[k].failures
      BY <2>11 DEF Tick, TypeOK
    <3>3. ~ WindowOver(k)
      <4>1. rate'[k] = rate[k] \/ rate'[k].age = Older(rate[k].age, Window)
        BY <2>11 DEF Tick, TypeOK
      <4>2. Window \in Nat /\ rate[k].age \in Nat
        BY AdminAssumption DEF TypeOK
      <4>3. QED
        BY <4>1, <4>2 DEF WindowOver, Older
    <3>4. QED
      BY <2>3, <3>1, <3>2, <3>3
  <2>12. CASE Restart
    <3>1. rate'[k].failures = 0
      BY <2>12 DEF Restart, NoFailures
    <3>2. QED
      BY <2>1, <3>1, FreshWindow
  <2>13. CASE UNCHANGED vars
    <3>1. rate' = rate /\ T = S
      BY <2>13 DEF vars, InFlight
    <3>2. QED
      BY <2>4, <3>1
  <2>14. QED
    BY <2>6, <2>7, <2>8, <2>9, <2>10, <2>11, <2>12, <2>13 DEF Next
<1>3. QED
  BY <1>1, <1>2, AdminTypeCorrect, PTL DEF Spec
=============================================================================
