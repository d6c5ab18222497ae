-------------------------------- MODULE Client --------------------------------
(***************************************************************************)
(* One installation of the Go SDK (sdk/go/licenseguard): the install id    *)
(* and the token cache it keeps in two files, its calls, which an          *)
(* application may make from several goroutines at once, and its answer to *)
(* the question whether the application is authorised, which needs no      *)
(* server.                                                                 *)
(*                                                                         *)
(* The server is what this installation sees of it (ServerView): one        *)
(* licence, whether it is in order, and the activation of each install id.  *)
(* Both clocks agree; tokens age with Tick, and no age grows past MaxAge,   *)
(* so that time needs no bound.                                             *)
(***************************************************************************)
EXTENDS Integers, FiniteSets

CONSTANTS
    Ids,        \* install ids that may be drawn; the fingerprint follows the id
    NoId,       \* no id: the file is missing, or still empty
    NoToken,    \* no token: the file is missing
    Torn,       \* the cache file is cut short and does not parse
    Workers,    \* goroutines that may call the SDK
    Lifetimes,  \* lifetimes of a token, shorter for a risky one
    Grace,      \* settings.offline_grace_days, counted from the issue
    MaxAge,     \* where ages stop: beyond every lifetime
    MaxStray    \* bound: abandoned requests still on their way

Token == [install: Ids, age: 0..MaxAge, lifetime: Lifetimes]

ASSUME ClientAssumption ==
    /\ Workers # {}
    /\ NoId \notin Ids
    /\ NoToken \notin Token
    /\ Torn \notin Token
    /\ Torn # NoToken
    /\ Lifetimes \subseteq Nat
    /\ Grace \in Nat
    /\ MaxAge \in Nat
    /\ \A n \in Lifetimes \cup {Grace} : n < MaxAge
    /\ MaxStray \in Nat

VARIABLES
    file,        \* the install id on disk
    cache,       \* the token on disk
    worker,      \* where each goroutine stands in its call
    stray,       \* requests whose caller is gone, still to be served
    licensed,    \* server: the licence is active and not past its deadline
    seat,        \* server: the activation of each install id
    sinceGood,   \* history: how long since an install id was in good standing
    off,         \* history: a Deactivate has succeeded, and no Activate was
                 \* being made then or was begun since
    resurrected  \* history: an abandoned activation has taken a seat since the
                 \* last deactivation was served

vars == <<file, cache, worker, stray, licensed, seat, sinceGood, off, resurrected>>

Ops == {"activate", "verify", "heartbeat", "deactivate"}
Phases == {"idle", "installing", "creating", "writing", "sent", "answered", "saving"}

Call == [pc: Phases, op: Ops, tok: Token \cup {NoToken}, id: Ids \cup {NoId}]
Request == [op: Ops, tok: Token \cup {NoToken}, id: Ids]

Idle == [pc |-> "idle", op |-> "heartbeat", tok |-> NoToken, id |-> NoId]

Done(q) == worker' = [worker EXCEPT ![q] = Idle]
Goes(q, pc) == worker' = [worker EXCEPT ![q].pc = pc]

server == <<stray, licensed, seat, sinceGood, resurrected>>

----------------------------------------------------------------------------
(* Authorisation without the server: CachedAuthorization *)

CacheAuthorises_FaultNoDeadline(c) == c \in Token

\* Until the token expires, or in the grace the server signed into it.
CacheAuthorises(c) == c \in Token /\ (c.age <= c.lifetime \/ c.age <= Grace)

----------------------------------------------------------------------------
(* A call, up to its request *)

Begin_FaultSendsTornToken(q, op) ==
    /\ worker[q].pc = "idle"
    /\ op # "activate" => cache # NoToken
    /\ worker' = [worker EXCEPT ![q] =
           [pc |-> "installing", op |-> op, id |-> NoId,
            tok |-> IF op = "activate" THEN NoToken ELSE cache]]
    /\ off' = (off /\ op # "activate")
    /\ UNCHANGED <<file, cache, server>>

\* Activate has its key; the others start with LoadToken, which fails when
\* there is no token or it does not parse.
Begin(q, op) ==
    /\ worker[q].pc = "idle"
    /\ op # "activate" => cache \in Token
    /\ worker' = [worker EXCEPT ![q] =
           [pc |-> "installing", op |-> op, id |-> NoId,
            tok |-> IF op = "activate" THEN NoToken ELSE cache]]
    /\ off' = (off /\ op # "activate")
    /\ UNCHANGED <<file, cache, server>>

\* A heartbeat's answer changes nothing, here or in the server's seats.
Known(q, id) ==
    IF worker[q].op = "heartbeat" THEN Done(q)
    ELSE worker' = [worker EXCEPT ![q].pc = "sent", ![q].id = id]

UsedIds == {file} \cup {worker[q].id : q \in Workers} \cup
           {i \in Ids : seat[i] # "none"} \cup {r.id : r \in stray}

Drawn(q) ==
    \E id \in Ids \ UsedIds :
        worker' = [worker EXCEPT ![q].pc = "creating", ![q].id = id]

LoadInstallID_FaultAlwaysNew(q) ==
    /\ worker[q].pc = "installing"
    /\ Drawn(q)
    /\ UNCHANGED <<file, cache, off, server>>

\* LoadOrCreateInstallID reads the id and draws one when there is none ...
LoadInstallID(q) ==
    /\ worker[q].pc = "installing"
    /\ IF file = NoId THEN Drawn(q) ELSE Known(q, file)
    /\ UNCHANGED <<file, cache, off, server>>

\* ... which os.WriteFile stores by truncating the file and then writing it.
TruncateInstallID(q) ==
    /\ worker[q].pc = "creating"
    /\ file' = NoId
    /\ Goes(q, "writing")
    /\ UNCHANGED <<cache, off, server>>

WriteInstallID(q) ==
    /\ worker[q].pc = "writing"
    /\ \/ file' = worker[q].id /\ Known(q, worker[q].id)
       \/ UNCHANGED file /\ Done(q)
    /\ UNCHANGED <<cache, off, server>>

RequestOf(q) == [op |-> worker[q].op, tok |-> worker[q].tok, id |-> worker[q].id]

Abandoned(calls) ==
    /\ stray' \in SUBSET (stray \cup {RequestOf(q) : q \in calls})
    /\ stray \subseteq stray'
    /\ Cardinality(stray') <= MaxStray

\* The challenge or the request fails, is refused, or times out: an error, or a
\* result that is not cached.  The server may be serving the request yet.
CallFails(q) ==
    /\ worker[q].pc = "sent"
    /\ Abandoned({q})
    /\ Done(q)
    /\ UNCHANGED <<file, cache, off, licensed, seat, sinceGood, resurrected>>

----------------------------------------------------------------------------
(* The server's side of a request *)

View == INSTANCE ServerView

\* One tick older.  The cap is the model's: to the code, which compares times, all
\* ages beyond every lifetime and the grace are the same.
Older(n) == IF n < MaxAge THEN n + 1 ELSE n

\* What processClientVerification asks of an activation or a verification; it
\* may refuse for other reasons, which CallFails stands for.
Accepts(r) ==
    \/ r.op = "activate"
    \/ r.op = "verify" /\ r.tok.install = r.id /\ seat[r.id] = "active"

\* What handleDeactivate asks of the token and the install id.
Ends(r) ==
    /\ r.op = "deactivate"
    /\ r.tok.age <= r.tok.lifetime
    /\ r.tok.install = r.id

\* The seat is taken or kept; whether a token leaves is the caller's affair.
Activated(r) ==
    /\ View!Accept(r.id)
    /\ sinceGood' = [sinceGood EXCEPT ![r.id] = 0]

Deactivated(r) == View!End(r.id) /\ UNCHANGED sinceGood

\* A verdict below "deny" grants a token of one of the lifetimes.  One that
\* denies, or whose save fails, leaves the seat and no token: then the answer
\* is lost.
ServeGranting(q) ==
    /\ worker[q].pc = "sent"
    /\ Accepts(RequestOf(q))
    /\ Activated(RequestOf(q))
    /\ \E t \in Lifetimes :
           worker' = [worker EXCEPT ![q].pc = "answered",
               ![q].tok = [install |-> worker[q].id, age |-> 0, lifetime |-> t]]
    /\ UNCHANGED <<file, cache, off, stray, resurrected>>

ServeDeactivating(q) ==
    /\ worker[q].pc = "sent"
    /\ Ends(RequestOf(q))
    /\ Deactivated(RequestOf(q))
    /\ resurrected' = FALSE
    /\ Goes(q, "answered")
    /\ UNCHANGED <<file, cache, off, stray>>

\* A request whose caller has gone is served, or refused.
ServeStray(r) ==
    /\ \/ Accepts(r) /\ Activated(r)
       \/ Ends(r) /\ Deactivated(r)
       \/ UNCHANGED <<licensed, seat, sinceGood>>
    /\ stray' = stray \ {r}
    /\ resurrected' = (resurrected \/ (r.op = "activate" /\ seat' # seat))
    /\ UNCHANGED <<file, cache, off, worker>>

\* The administrator revokes the licence, ends one activation, or suspends the
\* licence; or its deadline passes; or it is resumed, without its seats.
Revoke ==
    /\ View!Revoke
    /\ UNCHANGED <<file, cache, off, worker, stray, sinceGood, resurrected>>

Unbind(i) ==
    /\ seat[i] = "active"
    /\ View!End(i)
    /\ UNCHANGED <<file, cache, off, worker, stray, sinceGood, resurrected>>

Suspend ==
    /\ View!Withdraw
    /\ UNCHANGED <<file, cache, off, worker, stray, sinceGood, resurrected>>

Resume ==
    /\ View!Restore
    /\ sinceGood' = [i \in Ids |-> IF seat[i] = "active" THEN 0 ELSE sinceGood[i]]
    /\ UNCHANGED <<file, cache, off, worker, stray, resurrected>>

----------------------------------------------------------------------------
(* The answer *)

AnswerLost(q) ==
    /\ worker[q].pc = "answered"
    /\ Done(q)
    /\ UNCHANGED <<file, cache, off, server>>

\* SaveToken: os.WriteFile truncates the file ...
TruncateCache(q) ==
    /\ worker[q].pc = "answered"
    /\ worker[q].op # "deactivate"
    /\ cache' = Torn
    /\ Goes(q, "saving")
    /\ UNCHANGED <<file, off, server>>

Disturbed(q) ==
    cache # Torn \/ \E p \in Workers \ {q} : worker[p].pc = "saving"

WriteCache_FaultExpiryFromReceipt(q) ==
    /\ worker[q].pc = "saving"
    /\ cache' = [worker[q].tok EXCEPT !.age = 0]
    /\ Done(q)
    /\ UNCHANGED <<file, off, server>>

\* ... and writes it, unless the file has been removed since.  When another call
\* has written or truncated it, either one's token, or neither, may be what is
\* left.  Activate and Verify ignore a save that fails.
WriteCache(q) ==
    /\ worker[q].pc = "saving"
    /\ \/ cache # NoToken /\ cache' \in {worker[q].tok, Torn}
       \/ (cache = NoToken \/ Disturbed(q)) /\ UNCHANGED cache
    /\ Done(q)
    /\ UNCHANGED <<file, off, server>>

NoActivateBut(q) == \A p \in Workers \ {q} : worker[p].op # "activate"

FinishDeactivate_FaultIgnoresError(q) ==
    /\ worker[q].pc = "answered"
    /\ worker[q].op = "deactivate"
    /\ cache' \in {cache, NoToken}
    /\ off' = NoActivateBut(q)
    /\ Done(q)
    /\ UNCHANGED <<file, server>>

\* Deactivate succeeds when DeleteToken does.
FinishDeactivate(q) ==
    /\ worker[q].pc = "answered"
    /\ worker[q].op = "deactivate"
    /\ \/ cache' = NoToken /\ off' = NoActivateBut(q)
       \/ UNCHANGED <<cache, off>>
    /\ Done(q)
    /\ UNCHANGED <<file, server>>

----------------------------------------------------------------------------
(* The environment *)

Aged(t) == IF t \in Token THEN [t EXCEPT !.age = Older(@)] ELSE t

Tick ==
    /\ cache' = Aged(cache)
    /\ worker' = [q \in Workers |-> [worker[q] EXCEPT !.tok = Aged(@)]]
    /\ stray' = {[r EXCEPT !.tok = Aged(@)] : r \in stray}
    /\ sinceGood' = [i \in Ids |-> IF View!Standing(i) THEN 0 ELSE Older(sinceGood[i])]
    /\ UNCHANGED <<file, off, licensed, seat, resurrected>>

\* The application is killed and starts again; requests it had sent may be
\* served yet.
Restart ==
    /\ Abandoned({q \in Workers : worker[q].pc = "sent"})
    /\ worker' = [q \in Workers |-> Idle]
    /\ UNCHANGED <<file, cache, off, licensed, seat, sinceGood, resurrected>>

\* First start, nothing on disk.
Init ==
    /\ file = NoId
    /\ cache = NoToken
    /\ worker = [q \in Workers |-> Idle]
    /\ stray = {}
    /\ licensed = TRUE
    /\ seat = [i \in Ids |-> "none"]
    /\ sinceGood = [i \in Ids |-> MaxAge]
    /\ off = FALSE
    /\ resurrected = FALSE

Next ==
    \/ \E q \in Workers :
        \/ \E op \in Ops : Begin(q, op)
        \/ LoadInstallID(q) \/ TruncateInstallID(q) \/ WriteInstallID(q)
        \/ CallFails(q) \/ ServeGranting(q) \/ ServeDeactivating(q)
        \/ AnswerLost(q)
        \/ TruncateCache(q) \/ WriteCache(q) \/ FinishDeactivate(q)
    \/ \E r \in stray : ServeStray(r)
    \/ Revoke \/ Suspend \/ Resume
    \/ \E i \in Ids : Unbind(i)
    \/ Tick
    \/ Restart

\* Time passes; nothing obliges an application to call the SDK.
Spec == Init /\ [][Next]_vars /\ WF_vars(Tick)

----------------------------------------------------------------------------
(* Properties *)

\* Both files, the calls and requests, and what the server knows keep their
\* shapes: no call goes on with a token that LoadToken could not parse, and every
\* request carries an install id, whatever crash has cut one of the files short.
TypeOK ==
    /\ file \in Ids \cup {NoId}
    /\ cache \in Token \cup {NoToken, Torn}
    /\ worker \in [Workers -> Call]
    /\ stray \subseteq Request
    /\ licensed \in BOOLEAN
    /\ seat \in [Ids -> {"none", "active", "ended"}]
    /\ sinceGood \in [Ids -> 0..MaxAge]
    /\ off \in BOOLEAN
    /\ resurrected \in BOOLEAN

\* The cache authorises an install id only while it was in good standing with
\* the server at most a lifetime or the grace ago: late and lost answers, calls
\* that overtake one another, torn files and restarts never stretch what a
\* revocation, an unbinding or a deactivation has ended.
AuthorisedOnlyRecently ==
    CacheAuthorises(cache) =>
        \/ sinceGood[cache.install] <= cache.lifetime
        \/ sinceGood[cache.install] <= Grace

\* Once no install id is ever in good standing again, the application is
\* finally refused for good, whatever it has cached and whatever is still on
\* its way.
AuthorisationEnds ==
    <>[](\A i \in Ids : ~ View!Standing(i)) => <>[](~ CacheAuthorises(cache))

\* For an application that makes one call at a time: a cached token belongs to
\* the install id that the next call will present, so the server will not call
\* it another device's; also after a crash while the id was being created.
TokenMatchesInstall == cache \in Token => cache.install = file

\* For an application that makes one call at a time: after a successful
\* Deactivate its seat is given up, unless an activation it had abandoned is
\* served later, and nothing in its cache authorises it.
DeactivateGivesUp ==
    off => /\ ~ CacheAuthorises(cache)
           /\ file # NoId => seat[file] # "active" \/ resurrected
=============================================================================
