---------------------------- MODULE AdminSessions ----------------------------
(***************************************************************************)
(* Administrators, their passwords and sessions, the login rate limit and  *)
(* the audit trail, of internal/licensecore/server.go.                     *)
(*                                                                         *)
(* No handler here holds s.mu from end to end.  A login copies the         *)
(* password hash under the lock, compares outside it and locks again; an   *)
(* authenticated request checks its session in one critical section and    *)
(* runs its handler in a later one.  A worker q of Workers is a request    *)
(* being served; its step from one section to the next is an action.       *)
(*                                                                         *)
(* Clocks are ages that grow with Tick and stop once nothing distinguishes *)
(* greater ones, so that time needs no bound.                              *)
(***************************************************************************)
EXTENDS Integers, FiniteSets

CONSTANTS
    Admins,        \* accounts that exist; no handler disables one
    Strangers,     \* account names that do not exist
    Addrs,         \* client addresses
    Passwords,     \* passwords, standing for their bcrypt hashes
    NoPassword,    \* no hash: of an account that does not exist, or of a new
                   \* password that is too short or that bcrypt refuses
    Workers,       \* requests served concurrently
    FailureLimit,  \* rateLimitFailures, 5 by default
    Window,        \* rateLimitWindow, one minute by default
    SessionTTL,    \* twelve hours
    MaxSessions    \* bound: sessions ever opened

Accounts == Admins \cup Strangers
Keys == Accounts \X Addrs

ASSUME AdminAssumption ==
    /\ Admins \cap Strangers = {}
    /\ NoPassword \notin Passwords
    /\ IsFiniteSet(Workers)
    /\ Workers # {}
    /\ FailureLimit \in Nat \ {0}
    /\ Window \in Nat \ {0}
    /\ SessionTTL \in Nat
    /\ MaxSessions \in Nat

VARIABLES
    db,         \* memory: each admin's password, and the audit trail
    store,      \* the last database written whole
    sessions,   \* open sessions, in memory only
    opened,     \* how many sessions were ever opened
    rate,       \* failure counter and window age of every rate-limit key
    worker,     \* where each worker stands
    answered    \* history: audited actions answered with success

vars == <<db, store, sessions, opened, rate, worker, answered>>

----------------------------------------------------------------------------
(* Types *)

AuditKinds == {"login", "logout", "password", "action"}
AuditEntry == [kind: AuditKinds, sid: Nat]
Database == [pw: [Admins -> Passwords], audit: SUBSET AuditEntry]

\* The last three fields are history: the password the session was opened with,
\* whether that was still the admin's password then, and whether the session
\* itself has changed the password since.
Session == [sid: Nat, admin: Admins, age: 0..SessionTTL+1,
            proven: Passwords, late: BOOLEAN, keeper: BOOLEAN]

Idle == [pc |-> "idle"]
Comparing == [pc: {"comparing"}, key: Keys, guess: Passwords,
              copy: Passwords \cup {NoPassword}]
Authorized == [pc: {"authorized"}, sid: Nat, admin: Admins]

NoFailures == [failures |-> 0, age |-> 0]

----------------------------------------------------------------------------
(* The rate limit *)

WindowOver(k) == rate[k].age >= Window

Limited_FaultNeverOver(k) == rate[k].failures >= FailureLimit
Limited_FaultOffByOne(k) == rate[k].failures > FailureLimit /\ ~ WindowOver(k)

\* isRateLimitedLocked
Limited(k) == rate[k].failures >= FailureLimit /\ ~ WindowOver(k)

\* recordRateLimitFailureLocked: a failure does not prolong the window; the
\* first one after it starts another.
FailureRecorded(k) ==
    rate' = [rate EXCEPT ![k] =
        IF rate[k].failures = 0 \/ WindowOver(k)
        THEN [failures |-> 1, age |-> 0]
        ELSE [failures |-> rate[k].failures + 1, age |-> rate[k].age]]

\* resetRateLimitLocked
FailuresForgotten(k) == rate' = [rate EXCEPT ![k] = NoFailures]

----------------------------------------------------------------------------
(* Saving and auditing *)

Audited(d, kind, sid) ==
    [d EXCEPT !.audit = @ \cup {[kind |-> kind, sid |-> sid]}]

\* The change stays in memory whether or not the save succeeds; the answer is
\* a success only when it does.  A save that fails may have written.  store is
\* the last database written whole; a file cut short is in Deployment.
SavedAndAnswered_FaultIgnoresError(d, kind, sid) ==
    /\ db' = d
    /\ store' \in {store, d}
    /\ answered' = answered \cup {[kind |-> kind, sid |-> sid]}

SavedAndAnswered(d, kind, sid) ==
    /\ db' = d
    /\ \/ /\ store' = d
          /\ answered' = answered \cup {[kind |-> kind, sid |-> sid]}
       \/ store' \in {store, d} /\ UNCHANGED answered

Done(q) == worker' = [worker EXCEPT ![q] = Idle]

----------------------------------------------------------------------------
(* Login *)

\* First section: refuse when limited (nothing changes), else copy the hash.
LoginBegin(q, account, addr, guess) ==
    /\ worker[q].pc = "idle"
    /\ ~ Limited(<<account, addr>>)
    /\ worker' = [worker EXCEPT ![q] =
           [pc |-> "comparing", key |-> <<account, addr>>, guess |-> guess,
            copy |-> IF account \in Admins THEN db.pw[account] ELSE NoPassword]]
    /\ UNCHANGED <<db, store, sessions, opened, rate, answered>>

\* bcrypt.CompareHashAndPassword; an account that does not exist has no hash.
Matches(w) == w.guess = w.copy

\* INVALID_CREDENTIALS
LoginFails(q) ==
    /\ worker[q].pc = "comparing"
    /\ ~ Matches(worker[q])
    /\ FailureRecorded(worker[q].key)
    /\ Done(q)
    /\ UNCHANGED <<db, store, sessions, opened, answered>>

\* Second section: the comparison was with the copy, whatever the password is
\* now.  The audit entry is not saved.
LoginSucceeds(q) ==
    LET admin == worker[q].key[1] IN
    /\ worker[q].pc = "comparing"
    /\ Matches(worker[q])
    /\ opened < MaxSessions
    /\ opened' = opened + 1
    /\ sessions' = sessions \cup
           {[sid |-> opened', admin |-> admin, age |-> 0,
             proven |-> worker[q].guess,
             late |-> worker[q].copy # db.pw[admin], keeper |-> FALSE]}
    /\ db' = Audited(db, "login", opened')
    /\ FailuresForgotten(worker[q].key)
    /\ Done(q)
    /\ UNCHANGED <<store, answered>>

----------------------------------------------------------------------------
(* Authenticated requests *)

Expired(s) == s.age > SessionTTL

\* requireAdmin: an expired session is deleted.
RequireAdmin(q, s) ==
    /\ worker[q].pc = "idle"
    /\ IF Expired(s)
       THEN sessions' = sessions \ {s} /\ UNCHANGED worker
       ELSE /\ worker' = [worker EXCEPT ![q] =
                   [pc |-> "authorized", sid |-> s.sid, admin |-> s.admin]]
            /\ UNCHANGED sessions
    /\ UNCHANGED <<db, store, opened, rate, answered>>

\* handleAdminLogout
Logout(q) ==
    /\ worker[q].pc = "authorized"
    /\ sessions' = {s \in sessions : s.sid # worker[q].sid}
    /\ SavedAndAnswered(Audited(db, "logout", worker[q].sid), "logout", worker[q].sid)
    /\ Done(q)
    /\ UNCHANGED <<opened, rate>>

\* invalidateAdminSessionsExceptLocked
SessionsKept_FaultKeepsOthers(admin, sid) == sessions
SessionsKept(admin, sid) == {s \in sessions : s.admin # admin \/ s.sid = sid}

Acceptable_FaultUnchecked(new) == TRUE

\* WEAK_PASSWORD, PASSWORD_HASH_FAILED
Acceptable(new) == new # NoPassword

\* handleAdminPasswordChange: check, change, invalidate, audit and save in one
\* section, even if the caller's session has ended meanwhile.
ChangePassword(q, current, new) ==
    LET a == worker[q].admin
        d == [db EXCEPT !.pw[a] = new] IN
    /\ worker[q].pc = "authorized"
    /\ Acceptable(new)
    /\ current = db.pw[a]
    /\ sessions' = {[s EXCEPT !.keeper = @ \/ s.sid = worker[q].sid] :
                        s \in SessionsKept(a, worker[q].sid)}
    /\ SavedAndAnswered(Audited(d, "password", worker[q].sid), "password", worker[q].sid)
    /\ Done(q)
    /\ UNCHANGED <<opened, rate>>

\* A request that changes nothing: a read, or one refused in its handler.
NoChange(q) ==
    /\ worker[q].pc = "authorized"
    /\ Done(q)
    /\ UNCHANGED <<db, store, sessions, opened, rate, answered>>

\* Every other handler that changes the database: audit, then save.
AuditedAction(q) ==
    /\ worker[q].pc = "authorized"
    /\ SavedAndAnswered(Audited(db, "action", worker[q].sid), "action", worker[q].sid)
    /\ Done(q)
    /\ UNCHANGED <<sessions, opened, rate>>

----------------------------------------------------------------------------
(* The environment *)

Older(n, limit) == IF n < limit THEN n + 1 ELSE n

Tick ==
    /\ rate' = [k \in Keys |-> IF rate[k].failures = 0 THEN rate[k]
                               ELSE [rate[k] EXCEPT !.age = Older(@, Window)]]
    /\ sessions' = {[s EXCEPT !.age = Older(@, SessionTTL + 1)] : s \in sessions}
    /\ UNCHANGED <<db, store, opened, worker, answered>>

\* Sessions, rate limits and requests live in memory only.
Restart ==
    /\ db' = store
    /\ sessions' = {}
    /\ rate' = [k \in Keys |-> NoFailures]
    /\ worker' = [q \in Workers |-> Idle]
    /\ UNCHANGED <<store, opened, answered>>

Init ==
    /\ db \in [pw: [Admins -> Passwords], audit: {{}}]
    /\ store = db
    /\ sessions = {}
    /\ opened = 0
    /\ rate = [k \in Keys |-> NoFailures]
    /\ worker = [q \in Workers |-> Idle]
    /\ answered = {}

Next ==
    \/ \E q \in Workers :
        \/ \E account \in Accounts, addr \in Addrs, guess \in Passwords :
               LoginBegin(q, account, addr, guess)
        \/ LoginFails(q)
        \/ LoginSucceeds(q)
        \/ \E s \in sessions : RequireAdmin(q, s)
        \/ Logout(q)
        \/ \E current \in Passwords, new \in Passwords \cup {NoPassword} :
               ChangePassword(q, current, new)
        \/ NoChange(q)
        \/ AuditedAction(q)
    \/ Tick
    \/ Restart

\* Time passes; nothing obliges a client to do anything.
Spec == Init /\ [][Next]_vars /\ WF_vars(Tick)

----------------------------------------------------------------------------
(* Properties *)

TypeOK ==
    /\ db \in Database
    /\ store \in Database
    /\ sessions \subseteq Session
    /\ opened \in Nat
    /\ rate \in [Keys -> [failures: Nat, age: 0..Window]]
    /\ worker \in [Workers -> {Idle} \cup Comparing \cup Authorized]
    /\ answered \subseteq AuditEntry

InFlight(k) == {q \in Workers : worker[q].pc = "comparing" /\ worker[q].key = k}

\* The limit is checked in one section and the failure counted in another, so
\* the failures of one window pass FailureLimit; but never by more than the
\* other logins in flight, whichever of them fail, succeed or are still
\* comparing, and though those admitted before the window still count in it.
FailuresBounded ==
    \A k \in Keys : ~ WindowOver(k) =>
        rate[k].failures + Cardinality(InFlight(k))
            <= FailureLimit - 1 + Cardinality(Workers)

\* An audited action that was answered with success is in the stored trail,
\* whatever fails to save or crashes afterwards.
AnsweredIsAudited == answered \subseteq store.audit

\* A session opened with a password that is no longer its admin's is the one
\* that changed it, or was opened late, by a login that had copied the old hash
\* before the change: through changes, changes back, lost saves and restarts no
\* other session outlives the password it was opened with.
OnlyLateSessionsAreStale ==
    \A s \in sessions : s.proven = db.pw[s.admin] \/ s.keeper \/ s.late

\* A key that is limited becomes usable again, however many requests keep
\* failing in the meantime.
LockoutEnds == \A k \in Keys : Limited(k) ~> ~ Limited(k)

\* What the README says of a password change: it invalidates the other
\* sessions, so that none opened with an old password remains.
OldPasswordOpensNothing ==
    \A s \in sessions : s.proven = db.pw[s.admin] \/ s.keeper
=============================================================================
