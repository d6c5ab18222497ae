----------------------------- MODULE ClientProofs -----------------------------
(* Theorems about Client, for every value of its constants. *)
EXTENDS Client, TLAPS

----------------------------------------------------------------------------
(* Type correctness *)

\* A call that has come past LoadOrCreateInstallID has an id.
HasId ==
    \A q \in Workers :
        worker[q].pc \in {"creating", "writing", "sent"} => worker[q].id \in Ids

Typed == TypeOK /\ HasId

\* A call that moves on with a token and an id of the right kind stays a call.
LEMMA CallType ==
    ASSUME TypeOK, HasId, NEW q \in Workers, NEW c \in Call,
           c.pc \in {"creating", "writing", "sent"} => c.id \in Ids,
           worker' = [worker EXCEPT ![q] = c]
    PROVE  worker' \in [Workers -> Call] /\ HasId'
  BY DEF TypeOK, HasId

LEMMA IdleType == Idle \in Call /\ Idle.pc = "idle"
  BY DEF Idle, Call, Phases, Ops

\* Every call that ends leaves its goroutine idle.
LEMMA DoneType ==
    ASSUME TypeOK, HasId, NEW q \in Workers, Done(q)
    PROVE  worker' \in [Workers -> Call] /\ HasId'
  BY IdleType, CallType DEF Done

\* A call that goes to a phase it may be in, with its id, keeps its type.
LEMMA GoesType ==
    ASSUME TypeOK, HasId, NEW q \in Workers, NEW pc \in Phases, Goes(q, pc),
           pc \in {"creating", "writing", "sent"} => worker[q].id \in Ids
    PROVE  worker' \in [Workers -> Call] /\ HasId'
<1>1. worker[q] \in Call
  BY DEF TypeOK
<1> DEFINE c == [worker[q] EXCEPT !.pc = pc]
<1>2. c \in Call /\ c.pc = pc /\ c.id = worker[q].id
  BY <1>1 DEF Call
<1>3. worker' = [worker EXCEPT ![q] = c]
  BY DEF Goes
<1> HIDE DEF c
<1>4. QED
  BY <1>2, <1>3, CallType

\* Once the install id is known the request is sent, or the heartbeat is over.
LEMMA KnownType ==
    ASSUME TypeOK, HasId, NEW q \in Workers, NEW id \in Ids, Known(q, id)
    PROVE  worker' \in [Workers -> Call] /\ HasId'
<1>1. CASE worker[q].op = "heartbeat"
  BY <1>1, DoneType DEF Known
<1>2. CASE worker[q].op # "heartbeat"
  <2> DEFINE c == [worker[q] EXCEPT !.pc = "sent", !.id = id]
  <2>1. c \in Call /\ c.id = id
    BY DEF TypeOK, Call, Phases
  <2>2. worker' = [worker EXCEPT ![q] = c]
    BY <1>2 DEF Known
  <2> HIDE DEF c
  <2>3. QED
    BY <2>1, <2>2, CallType
<1>3. QED
  BY <1>1, <1>2

\* A drawn id is an id.
LEMMA DrawnType ==
    ASSUME TypeOK, HasId, NEW q \in Workers, Drawn(q)
    PROVE  worker' \in [Workers -> Call] /\ HasId'
<1>1. PICK id \in Ids \ UsedIds :
          worker' = [worker EXCEPT ![q].pc = "creating", ![q].id = id]
  BY DEF Drawn
<1> DEFINE c == [worker[q] EXCEPT !.pc = "creating", !.id = id]
<1>2. c \in Call /\ c.id = id
  BY DEF TypeOK, Call, Phases
<1>3. worker' = [worker EXCEPT ![q] = c]
  BY <1>1 DEF TypeOK
<1> HIDE DEF c
<1>4. QED
  BY <1>2, <1>3, CallType

\* What a sent call asks, and leaves behind when it is abandoned, is a request.
LEMMA RequestType ==
    ASSUME TypeOK, HasId, NEW q \in Workers, worker[q].pc = "sent"
    PROVE  RequestOf(q) \in Request /\ RequestOf(q).id = worker[q].id
  BY DEF TypeOK, HasId, Call, Request, RequestOf

\* Growing older keeps an age within its bounds and the order of ages.
LEMMA OlderOrder ==
    ASSUME NEW m \in 0..MaxAge, NEW n \in 0..MaxAge
    PROVE  /\ Older(n) \in 0..MaxAge
           /\ n <= Older(n)
           /\ m <= n => Older(m) <= Older(n)
  BY ClientAssumption DEF Older

\* A token that ages stays a token of the same install id and lifetime.
LEMMA AgedToken ==
    ASSUME NEW t \in Token
    PROVE  /\ Aged(t) \in Token
           /\ Aged(t).install = t.install
           /\ Aged(t).age = Older(t.age)
  BY OlderOrder, ClientAssumption DEF Aged, Token

LEMMA AgedOther ==
    ASSUME NEW t, t \notin Token
    PROVE  Aged(t) = t
  BY DEF Aged

\* An activation or a deactivation that is served leaves the seats well typed.
LEMMA ServedType ==
    ASSUME TypeOK, NEW r \in Request
    PROVE  Activated(r) \/ Deactivated(r)
           => /\ licensed' \in BOOLEAN
              /\ seat' \in [Ids -> {"none", "active", "ended"}]
              /\ sinceGood' \in [Ids -> 0..MaxAge]
<1>1. 0 \in 0..MaxAge
  BY ClientAssumption
<1>2. r.id \in Ids
  BY DEF Request
<1>3. QED
  BY <1>1, <1>2 DEF TypeOK, Activated, Deactivated, View!Accept, View!End

\* Every step of a call, of the server and of the environment keeps Typed.
LEMMA TypedStep == Typed /\ [Next]_vars => Typed'
<1> SUFFICES ASSUME TypeOK, HasId, [Next]_vars PROVE TypeOK' /\ HasId'
  BY DEF Typed
<1>1. ASSUME NEW q \in Workers, NEW op \in Ops, Begin(q, op)
      PROVE  TypeOK' /\ HasId'
  <2> DEFINE c == [pc |-> "installing", op |-> op, id |-> NoId,
                   tok |-> IF op = "activate" THEN NoToken ELSE cache]
  <2>1. c \in Call /\ c.pc = "installing"
    BY <1>1 DEF Begin, Call, Phases
  <2>2. worker' = [worker EXCEPT ![q] = c]
    BY <1>1 DEF Begin
  <2> HIDE DEF c
  <2>3. worker' \in [Workers -> Call] /\ HasId'
    BY <2>1, <2>2, CallType
  <2>4. QED
    BY <1>1, <2>3 DEF Begin, server, TypeOK
<1>2. ASSUME NEW q \in Workers, LoadInstallID(q)
      PROVE  TypeOK' /\ HasId'
  <2>1. worker' \in [Workers -> Call] /\ HasId'
    BY <1>2, DrawnType, KnownType DEF LoadInstallID, TypeOK
  <2>2. QED
    BY <1>2, <2>1 DEF LoadInstallID, server, TypeOK
<1>3. ASSUME NEW q \in Workers, TruncateInstallID(q)
      PROVE  TypeOK' /\ HasId'
  <2>1. worker' \in [Workers -> Call] /\ HasId'
    BY <1>3, GoesType DEF TruncateInstallID, Phases, HasId
  <2>2. QED
    BY <1>3, <2>1 DEF TruncateInstallID, server, TypeOK
<1>4. ASSUME NEW q \in Workers, WriteInstallID(q)
      PROVE  TypeOK' /\ HasId'
  <2>1. worker[q].id \in Ids
    BY <1>4 DEF WriteInstallID, HasId
  <2>2. worker' \in [Workers -> Call] /\ HasId'
    BY <1>4, <2>1, KnownType, DoneType DEF WriteInstallID
  <2>3. QED
    BY <1>4, <2>1, <2>2 DEF WriteInstallID, server, TypeOK
<1>5. ASSUME NEW q \in Workers, CallFails(q)
      PROVE  TypeOK' /\ HasId'
  <2>1. worker' \in [Workers -> Call] /\ HasId'
    BY <1>5, DoneType DEF CallFails
  <2>2. stray' \subseteq Request
    BY <1>5, RequestType DEF CallFails, Abandoned, TypeOK
  <2>3. QED
    BY <1>5, <2>1, <2>2 DEF CallFails, TypeOK
<1>6. ASSUME NEW q \in Workers, ServeGranting(q)
      PROVE  TypeOK' /\ HasId'
  <2>1. worker[q] \in Call /\ worker[q].id \in Ids
    BY <1>6 DEF ServeGranting, HasId, TypeOK
  <2>2. PICK t \in Lifetimes :
            worker' = [worker EXCEPT ![q].pc = "answered",
               ![q].tok = [install |-> worker[q].id, age |-> 0, lifetime |-> t]]
    BY <1>6 DEF ServeGranting
  <2> DEFINE tok == [install |-> worker[q].id, age |-> 0, lifetime |-> t]
             c == [worker[q] EXCEPT !.pc = "answered", !.tok = tok]
  <2>3. tok \in Token
    BY <2>1, ClientAssumption DEF Token
  <2>4. c \in Call /\ c.pc = "answered"
    BY <2>1, <2>3 DEF Call, Phases
  <2>5. worker' = [worker EXCEPT ![q] = c]
    BY <2>2 DEF TypeOK
  <2> HIDE DEF c, tok
  <2>6. worker' \in [Workers -> Call] /\ HasId'
    BY <2>4, <2>5, CallType
  <2>7. RequestOf(q) \in Request
    BY <1>6, RequestType DEF ServeGranting
  <2>8. QED
    BY <1>6, <2>6, <2>7, ServedType DEF ServeGranting, TypeOK
<1>7. ASSUME NEW q \in Workers, ServeDeactivating(q)
      PROVE  TypeOK' /\ HasId'
  <2>1. worker' \in [Workers -> Call] /\ HasId'
    BY <1>7, GoesType DEF ServeDeactivating, Phases
  <2>2. RequestOf(q) \in Request
    BY <1>7, RequestType DEF ServeDeactivating
  <2>3. QED
    BY <1>7, <2>1, <2>2, ServedType DEF ServeDeactivating, TypeOK
<1>8. ASSUME NEW q \in Workers, AnswerLost(q)
      PROVE  TypeOK' /\ HasId'
  <2>1. worker' \in [Workers -> Call] /\ HasId'
    BY <1>8, DoneType DEF AnswerLost
  <2>2. QED
    BY <1>8, <2>1 DEF AnswerLost, server, TypeOK
<1>9. ASSUME NEW q \in Workers, TruncateCache(q)
      PROVE  TypeOK' /\ HasId'
  <2>1. worker' \in [Workers -> Call] /\ HasId'
    BY <1>9, GoesType DEF TruncateCache, Phases
  <2>2. QED
    BY <1>9, <2>1 DEF TruncateCache, server, TypeOK
<1>10. ASSUME NEW q \in Workers, WriteCache(q)
       PROVE  TypeOK' /\ HasId'
  <2>1. worker' \in [Workers -> Call] /\ HasId'
    BY <1>10, DoneType DEF WriteCache
  <2>2. worker[q].tok \in Token \cup {NoToken}
    BY DEF TypeOK, Call
  <2>3. cache' \in Token \cup {NoToken, Torn}
    BY <1>10, <2>2 DEF WriteCache, TypeOK
  <2>4. QED
    BY <1>10, <2>1, <2>3 DEF WriteCache, server, TypeOK
<1>11. ASSUME NEW q \in Workers, FinishDeactivate(q)
       PROVE  TypeOK' /\ HasId'
  <2>1. worker' \in [Workers -> Call] /\ HasId'
    BY <1>11, DoneType DEF FinishDeactivate
  <2>2. NoActivateBut(q) \in BOOLEAN
    BY DEF NoActivateBut
  <2>3. off' \in BOOLEAN
    BY <1>11, <2>2 DEF FinishDeactivate, TypeOK
  <2>4. QED
    BY <1>11, <2>1, <2>3 DEF FinishDeactivate, server, TypeOK
<1>12. ASSUME NEW r \in stray, ServeStray(r)
       PROVE  TypeOK' /\ HasId'
  <2>1. r \in Request
    BY DEF TypeOK
  <2>2. /\ licensed' \in BOOLEAN
        /\ seat' \in [Ids -> {"none", "active", "ended"}]
        /\ sinceGood' \in [Ids -> 0..MaxAge]
    BY <1>12, <2>1, ServedType DEF ServeStray, TypeOK
  <2>3. QED
    BY <1>12, <2>2 DEF ServeStray, TypeOK, HasId
<1>13. CASE Revoke \/ Suspend \/ \E i \in Ids : Unbind(i)
  BY <1>13 DEF Revoke, Suspend, Unbind, View!Revoke, View!Withdraw, View!End, TypeOK, HasId
<1>14. CASE Resume
  <2>1. 0 \in 0..MaxAge
    BY ClientAssumption
  <2>2. QED
    BY <1>14, <2>1 DEF Resume, View!Restore, TypeOK, HasId
<1>15. CASE Tick
  <2>1. \A t \in Token \cup {NoToken, Torn} :
            /\ Aged(t) \in Token \cup {NoToken, Torn}
            /\ t # Torn => Aged(t) \in Token \cup {NoToken}
    BY AgedToken, AgedOther, ClientAssumption
  <2>2. \A q \in Workers : [worker[q] EXCEPT !.tok = Aged(@)] \in Call
    BY <2>1, ClientAssumption DEF TypeOK, Call
  <2>3. worker' \in [Workers -> Call]
    BY <1>15, <2>2 DEF Tick
  <2>4. HasId'
    BY <1>15 DEF Tick, HasId, TypeOK, Call
  <2>5. \A r \in stray : [r EXCEPT !.tok = Aged(@)] \in Request
    BY <2>1, ClientAssumption DEF TypeOK, Request
  <2>6. stray' \subseteq Request
    BY <1>15, <2>5 DEF Tick
  <2>7. sinceGood' \in [Ids -> 0..MaxAge]
    BY <1>15, OlderOrder, ClientAssumption DEF Tick, TypeOK
  <2>8. cache' \in Token \cup {NoToken, Torn}
    BY <1>15, <2>1 DEF Tick, TypeOK
  <2>9. QED
    BY <1>15, <2>3, <2>4, <2>6, <2>7, <2>8 DEF Tick, TypeOK
<1>16. CASE Restart
  <2>1. stray' \subseteq Request
    BY <1>16, RequestType DEF Restart, Abandoned, TypeOK
  <2>2. worker' \in [Workers -> Call] /\ HasId'
    BY <1>16, IdleType DEF Restart, HasId
  <2>3. QED
    BY <1>16, <2>1, <2>2 DEF Restart, TypeOK
<1>17. CASE UNCHANGED vars
  BY <1>17 DEF vars, TypeOK, HasId
<1>18. QED
  BY <1>1, <1>2, <1>3, <1>4, <1>5, <1>6, <1>7, <1>8, <1>9, <1>10, <1>11, <1>12,
     <1>13, <1>14, <1>15, <1>16, <1>17 DEF Next

\* A first start is well typed.
LEMMA ClientInit == Init => Typed
<1> SUFFICES ASSUME Init PROVE TypeOK /\ HasId
  BY DEF Typed
<1>1. HasId
  BY IdleType DEF Init, HasId
<1>2. MaxAge \in 0..MaxAge
  BY ClientAssumption
<1>3. QED
  BY <1>1, <1>2, IdleType DEF Init, TypeOK

\* The files hold an id and a token, or neither, and every call is in a phase of
\* its operation, for any number of goroutines and ids.
THEOREM ClientTypeCorrect == Spec => []TypeOK
<1>1. Typed => TypeOK
  BY DEF Typed
<1>2. QED
  BY <1>1, ClientInit, TypedStep, PTL DEF Spec

----------------------------------------------------------------------------
(* What the cache may still authorise *)

\* A token is no younger than the last good standing of its install id.
Backed(t, since) == t \in Token => since[t.install] <= t.age

\* So are the token on disk and the token of every call.
TokensBacked ==
    /\ Backed(cache, sinceGood)
    /\ \A q \in Workers : Backed(worker[q].tok, sinceGood)

\* Good standing is only ever renewed, except that time passes.
LEMMA RenewedStep ==
    ASSUME Typed, [Next]_vars, ~ Tick
    PROVE  \A i \in Ids : sinceGood'[i] = sinceGood[i] \/ sinceGood'[i] = 0
<1>1. \A r : Activated(r) => \A i \in Ids : sinceGood'[i] \in {sinceGood[i], 0}
  BY DEF Activated, Typed, TypeOK
<1>2. \A q \in Workers : ServeGranting(q) => Activated(RequestOf(q))
  BY DEF ServeGranting
<1>3. \A r \in stray : ServeStray(r) => Activated(r) \/ UNCHANGED sinceGood
  BY DEF ServeStray, Deactivated
<1>4. Resume => \A i \in Ids : sinceGood'[i] \in {sinceGood[i], 0}
  BY DEF Resume, Typed, TypeOK
<1>5. CASE \/ \E q \in Workers : ServeGranting(q)
           \/ \E r \in stray : ServeStray(r)
           \/ Resume
  BY <1>1, <1>2, <1>3, <1>4, <1>5
<1>6. CASE UNCHANGED sinceGood
  BY <1>6
<1>7. QED
  BY <1>5, <1>6 DEF Next, vars, server, Begin, LoadInstallID, TruncateInstallID,
     WriteInstallID, CallFails, ServeDeactivating, Deactivated, AnswerLost,
     TruncateCache, WriteCache, FinishDeactivate, Revoke, Suspend, Unbind, Restart

\* A token that stays where it was, or that comes from the disk or from a call,
\* is as well backed after a step that is not a tick as it was before.
LEMMA StillBacked ==
    ASSUME Typed, [Next]_vars, ~ Tick, NEW t, Backed(t, sinceGood)
    PROVE  Backed(t, sinceGood')
<1>1. CASE t \in Token
  <2>1. t.install \in Ids /\ t.age \in Nat
    BY <1>1 DEF Token
  <2>2. QED
    BY <1>1, <2>1, RenewedStep DEF Backed
<1>2. CASE t \notin Token
  BY <1>2 DEF Backed
<1>3. QED
  BY <1>1, <1>2

\* In a step that is not a tick the cache takes over a token that was in the cache
\* or in a call, or none.
LEMMA CacheStep ==
    ASSUME Typed, [Next]_vars, ~ Tick
    PROVE  \/ cache' \in {cache, NoToken, Torn}
           \/ \E q \in Workers : cache' = worker[q].tok
  BY DEF Next, vars, server, Begin, LoadInstallID, TruncateInstallID,
     WriteInstallID, CallFails, ServeGranting, ServeDeactivating, AnswerLost,
     TruncateCache, WriteCache, FinishDeactivate, ServeStray, Revoke, Suspend,
     Resume, Unbind, Restart

\* In a step that is not a tick a call keeps its token, takes the cached one, loses
\* it, or is granted a new one while its install id is in good standing.
LEMMA CallStep ==
    ASSUME Typed, [Next]_vars, ~ Tick, NEW p \in Workers
    PROVE  \/ worker'[p].tok \in {worker[p].tok, cache, NoToken}
           \/ /\ worker'[p].tok \in Token
              /\ worker'[p].tok.age = 0
              /\ sinceGood'[worker'[p].tok.install] = 0
<1> DEFINE Kept == worker'[p].tok \in {worker[p].tok, cache, NoToken}
<1>1. worker \in [Workers -> Call] /\ sinceGood \in [Ids -> 0..MaxAge]
  BY DEF Typed, TypeOK
<1>2. ASSUME NEW q \in Workers, Done(q) PROVE Kept
  BY <1>1, <1>2 DEF Done, Idle
<1>3. ASSUME NEW q \in Workers, NEW pc, Goes(q, pc) PROVE Kept
  BY <1>1, <1>3 DEF Goes, Call
<1>4. ASSUME NEW q \in Workers, NEW id, Known(q, id) PROVE Kept
  BY <1>1, <1>2, <1>4 DEF Known, Call
<1>5. ASSUME NEW q \in Workers, Drawn(q) PROVE Kept
  BY <1>1, <1>5 DEF Drawn, Call
<1>6. ASSUME NEW q \in Workers, NEW op \in Ops, Begin(q, op) PROVE Kept
  BY <1>1, <1>6 DEF Begin
<1>7. CASE \E q \in Workers : ServeGranting(q)
  <2>1. PICK q \in Workers : ServeGranting(q)
    BY <1>7
  <2>2. worker[q].id \in Ids
    BY <2>1 DEF ServeGranting, Typed, HasId
  <2>3. PICK t \in Lifetimes :
            worker' = [worker EXCEPT ![q].pc = "answered",
               ![q].tok = [install |-> worker[q].id, age |-> 0, lifetime |-> t]]
    BY <2>1 DEF ServeGranting
  <2>4. CASE p = q
    <3> DEFINE tok == [install |-> worker[q].id, age |-> 0, lifetime |-> t]
    <3>1. tok \in Token /\ tok.age = 0 /\ tok.install = worker[q].id
      BY <2>2, ClientAssumption DEF Token
    <3>2. worker'[p].tok = tok
      BY <1>1, <2>3, <2>4 DEF Call
    <3>3. sinceGood'[worker[q].id] = 0
      BY <1>1, <2>1, <2>2 DEF ServeGranting, Activated, RequestOf
    <3> HIDE DEF tok
    <3>4. QED
      BY <3>1, <3>2, <3>3
  <2>5. CASE p # q
    BY <1>1, <2>3, <2>5
  <2>6. QED
    BY <2>4, <2>5
<1>8. CASE Restart
  BY <1>1, <1>8 DEF Restart, Idle
<1>9. CASE UNCHANGED worker
  BY <1>9
<1>10. ASSUME NEW q \in Workers,
              \/ LoadInstallID(q) \/ TruncateInstallID(q) \/ WriteInstallID(q)
              \/ CallFails(q) \/ ServeDeactivating(q) \/ AnswerLost(q)
              \/ TruncateCache(q) \/ WriteCache(q) \/ FinishDeactivate(q)
       PROVE  Kept
  <2>1. Done(q) \/ (\E pc : Goes(q, pc)) \/ (\E id : Known(q, id)) \/ Drawn(q)
    BY <1>10 DEF LoadInstallID, TruncateInstallID, WriteInstallID, CallFails,
       ServeDeactivating, AnswerLost, TruncateCache, WriteCache, FinishDeactivate
  <2>2. QED
    BY <1>2, <1>3, <1>4, <1>5, <2>1
<1>11. QED
  BY <1>6, <1>7, <1>8, <1>9, <1>10 DEF Next, vars, ServeStray, Revoke, Suspend,
     Resume, Unbind

\* Whatever has been granted, saved, torn or overtaken, tokens stay backed.
LEMMA BackedStep == Typed /\ TokensBacked /\ [Next]_vars => TokensBacked'
<1> SUFFICES ASSUME Typed, TokensBacked, [Next]_vars PROVE TokensBacked'
  OBVIOUS
<1>1. CASE ~ Tick
  <2>1. Backed(NoToken, sinceGood) /\ Backed(Torn, sinceGood)
    BY ClientAssumption DEF Backed
  <2>2. Backed(cache', sinceGood')
    BY <1>1, <2>1, CacheStep, StillBacked DEF TokensBacked
  <2>3. ASSUME NEW p \in Workers PROVE Backed(worker'[p].tok, sinceGood')
    BY <1>1, <2>1, CallStep, StillBacked DEF TokensBacked, Backed, Token
  <2>4. QED
    BY <2>2, <2>3 DEF TokensBacked, Backed
<1>2. CASE Tick
  <2>1. sinceGood \in [Ids -> 0..MaxAge]
    BY DEF Typed, TypeOK
  <2>2. \A i \in Ids, n \in 0..MaxAge :
            sinceGood[i] <= n => sinceGood'[i] <= Older(n)
    BY <1>2, <2>1, OlderOrder, ClientAssumption DEF Tick
  <2>3. ASSUME NEW t, Backed(t, sinceGood), t \in Token
        PROVE  sinceGood'[Aged(t).install] <= Aged(t).age
    <3>1. t.install \in Ids /\ t.age \in 0..MaxAge
      BY <2>3 DEF Token
    <3>2. QED
      BY <2>2, <2>3, <3>1, AgedToken DEF Backed
  <2>4. ASSUME NEW t, Backed(t, sinceGood), Aged(t) \in Token
        PROVE  sinceGood'[Aged(t).install] <= Aged(t).age
    BY <2>3, <2>4, AgedOther
  <2>5. cache' = Aged(cache) /\ \A q \in Workers : worker'[q].tok = Aged(worker[q].tok)
    BY <1>2 DEF Tick, Typed, TypeOK, Call
  <2>6. QED
    BY <2>4, <2>5 DEF TokensBacked, Backed
<1>3. QED
  BY <1>1, <1>2

\* CachedAuthorization allows nothing beyond a lifetime, or the grace, after the
\* last good standing of the install id: for any number of concurrent calls, any
\* lifetimes and any grace.
THEOREM CacheIsRecent == Spec => []AuthorisedOnlyRecently
<1> DEFINE I == Typed /\ TokensBacked
<1>1. Init => I
  <2> SUFFICES ASSUME Init PROVE Typed /\ TokensBacked
    OBVIOUS
  <2>1. Typed
    BY ClientInit
  <2>2. TokensBacked
    BY ClientAssumption DEF Init, TokensBacked, Backed, Idle
  <2>3. QED
    BY <2>1, <2>2
<1>2. I /\ [Next]_vars => I'
  BY TypedStep, BackedStep
<1>3. I => AuthorisedOnlyRecently
  <2> SUFFICES ASSUME Typed, Backed(cache, sinceGood), CacheAuthorises(cache)
               PROVE  \/ sinceGood[cache.install] <= cache.lifetime
                      \/ sinceGood[cache.install] <= Grace
    BY DEF TokensBacked, AuthorisedOnlyRecently
  <2>1. cache \in Token /\ sinceGood[cache.install] <= cache.age
    BY DEF CacheAuthorises, Backed
  <2>2. /\ cache.install \in Ids
        /\ cache.age \in Nat /\ cache.lifetime \in Nat /\ Grace \in Nat
    <3>1. /\ cache.install \in Ids
          /\ cache.age \in 0..MaxAge /\ cache.lifetime \in Lifetimes
      BY <2>1 DEF Token
    <3>2. Lifetimes \subseteq Nat /\ MaxAge \in Nat /\ Grace \in Nat
      BY ClientAssumption
    <3>3. cache.lifetime \in Nat
      BY <3>1, <3>2
    <3>4. \A n \in 0..MaxAge : n \in Nat
      BY <3>2
    <3>5. QED
      BY <3>1, <3>2, <3>3, <3>4
  <2>3. sinceGood[cache.install] \in Nat
    BY <2>2 DEF Typed, TypeOK
  <2>4. QED
    BY <2>1, <2>2, <2>3 DEF CacheAuthorises
<1>4. QED
  <2> HIDE DEF I
  <2>1. QED
    BY <1>1, <1>2, <1>3, PTL DEF Spec

----------------------------------------------------------------------------
(* An application that makes one call at a time, from whichever goroutine *)

Quiet(w) == \A q \in Workers \ {w} : worker[q].pc = "idle"

OneCall == \E w \in Workers : Quiet(w)

\* A call that is not made goes nowhere; and it is made by a Begin.
LEMMA IdleStays ==
    ASSUME Typed, [Next]_vars, NEW q \in Workers, worker[q].pc = "idle",
           worker'[q].pc # "idle"
    PROVE  \A p \in Workers \ {q} : worker'[p] = worker[p]
<1>1. worker \in [Workers -> Call]
  BY DEF Typed, TypeOK
<1>2. ASSUME NEW p \in Workers, worker[p].pc # "idle",
             Done(p) \/ (\E pc : Goes(p, pc)) \/ (\E id : Known(p, id)) \/ Drawn(p)
      PROVE  worker'[q] = worker[q]
  BY <1>1, <1>2 DEF Done, Goes, Known, Drawn
<1>3. ASSUME NEW p \in Workers,
             \/ LoadInstallID(p) \/ TruncateInstallID(p) \/ WriteInstallID(p)
             \/ CallFails(p) \/ ServeDeactivating(p) \/ AnswerLost(p)
             \/ TruncateCache(p) \/ WriteCache(p) \/ FinishDeactivate(p)
      PROVE  FALSE
  <2>1. /\ worker[p].pc # "idle"
        /\ Done(p) \/ (\E pc : Goes(p, pc)) \/ (\E id : Known(p, id)) \/ Drawn(p)
    BY <1>3 DEF LoadInstallID, TruncateInstallID, WriteInstallID, CallFails,
       ServeDeactivating, AnswerLost, TruncateCache, WriteCache, FinishDeactivate
  <2>2. QED
    BY <1>2, <2>1
<1>4. ASSUME NEW p \in Workers, ServeGranting(p)
      PROVE  FALSE
  BY <1>1, <1>4 DEF ServeGranting
<1>5. ~ Tick
  BY <1>1 DEF Tick, Call
<1>6. ~ Restart
  BY DEF Restart, Idle
<1>7. worker' # worker
  OBVIOUS
<1>8. \E p \in Workers : \E op \in Ops : Begin(p, op)
  BY <1>3, <1>4, <1>5, <1>6, <1>7 DEF Next, vars, ServeStray, Revoke, Suspend, Resume, Unbind
<1>9. QED
  BY <1>1, <1>8 DEF Begin

\* So when there is at most one call before a step and after it, it is the same one's.
LEMMA SameCall ==
    ASSUME Typed, [Next]_vars, OneCall, OneCall'
    PROVE  \E w \in Workers : Quiet(w) /\ Quiet(w)'
<1>1. PICK u \in Workers : Quiet(u)
  BY DEF OneCall
<1>2. PICK v \in Workers : Quiet(v)'
  BY DEF OneCall
<1>3. CASE worker'[v].pc = "idle"
  BY <1>1, <1>2, <1>3 DEF Quiet
<1>4. CASE worker'[v].pc # "idle" /\ u # v
  <2>1. worker[v].pc = "idle"
    BY <1>1, <1>4 DEF Quiet
  <2>2. worker'[u] = worker[u]
    BY <1>4, <2>1, IdleStays
  <2>3. QED
    BY <1>1, <1>2, <1>4, <2>1, <2>2 DEF Quiet
<1>5. QED
  BY <1>1, <1>2, <1>3, <1>4

\* That goroutine, or none, takes the step.
LEMMA CallOf ==
    ASSUME Typed, NEW w \in Workers, Quiet(w), Quiet(w)',
           NEW q \in Workers,
           \/ \E op \in Ops : Begin(q, op)
           \/ LoadInstallID(q) \/ TruncateInstallID(q) \/ WriteInstallID(q)
           \/ CallFails(q) \/ ServeGranting(q) \/ ServeDeactivating(q)
           \/ AnswerLost(q)
           \/ TruncateCache(q) \/ WriteCache(q) \/ FinishDeactivate(q)
    PROVE  q = w
<1> SUFFICES ASSUME q # w PROVE FALSE
  OBVIOUS
<1>1. worker[q].pc = "idle" /\ worker'[q].pc = "idle"
  BY DEF Quiet
<1>2. PICK op \in Ops : Begin(q, op)
  BY <1>1 DEF LoadInstallID, TruncateInstallID, WriteInstallID, CallFails, ServeGranting,
     ServeDeactivating, AnswerLost, TruncateCache, WriteCache, FinishDeactivate
<1>3. QED
  BY <1>1, <1>2 DEF Begin, Typed, TypeOK

\* The token on disk, the request on its way and the token that is being saved
\* are the install id's on disk; it is missing only while it is being created.
OneInstall(w) ==
    /\ cache \in Token => cache.install = file
    /\ worker[w].pc \in {"creating", "writing"} => file = NoId
    /\ worker[w].pc = "sent" => worker[w].id = file
    /\ \/ worker[w].pc = "saving"
       \/ worker[w].pc = "answered" /\ worker[w].op # "deactivate"
       => (worker[w].tok \in Token => worker[w].tok.install = file)

\* While the install id is missing there is no token that could be sent.
LEMMA OneInstallStep ==
    ASSUME NEW w \in Workers, Quiet(w), Quiet(w)', Typed, OneInstall(w), [Next]_vars
    PROVE  OneInstall(w)'
<1>1. /\ worker \in [Workers -> Call] /\ worker[w] \in Call /\ w \in Workers
      /\ worker[w].pc \in {"creating", "writing", "sent"} => worker[w].id \in Ids
  BY DEF Typed, TypeOK, HasId
<1>2. cache \in Token => file \in Ids /\ file # NoId
  BY ClientAssumption DEF OneInstall, Token
<1>3. ASSUME Done(w), UNCHANGED file, cache' \in {cache, NoToken, Torn}
      PROVE  OneInstall(w)'
  BY <1>1, <1>3, ClientAssumption DEF Done, Idle, OneInstall
<1>4. ASSUME NEW id \in Ids, Known(w, id), file' = id, cache' = cache,
             cache \in Token => cache.install = id
      PROVE  OneInstall(w)'
  <2>1. worker'[w].pc = "idle" \/ (worker'[w].pc = "sent" /\ worker'[w].id = id)
    BY <1>1, <1>4 DEF Known, Done, Idle, Call
  <2>2. QED
    BY <1>4, <2>1 DEF OneInstall
<1>5. ASSUME NEW op \in Ops, Begin(w, op)
      PROVE  OneInstall(w)'
  <2>1. worker'[w].pc = "installing"
    BY <1>1, <1>5 DEF Begin
  <2>2. QED
    BY <1>5, <2>1 DEF Begin, OneInstall
<1>6. CASE LoadInstallID(w)
  <2>1. CASE file = NoId
    <3>1. worker'[w].pc = "creating"
      BY <1>1, <1>6, <2>1 DEF LoadInstallID, Drawn, Call
    <3>2. QED
      BY <1>6, <2>1, <3>1 DEF LoadInstallID, OneInstall
  <2>2. CASE file # NoId
    <3>1. file \in Ids
      BY <2>2 DEF Typed, TypeOK
    <3>2. QED
      BY <1>4, <1>6, <2>2, <3>1 DEF LoadInstallID, OneInstall
  <2>3. QED
    BY <2>1, <2>2
<1>7. CASE TruncateInstallID(w)
  <2>1. cache \notin Token
    BY <1>2, <1>7 DEF TruncateInstallID, OneInstall
  <2>2. worker'[w].pc = "writing"
    BY <1>1, <1>7 DEF TruncateInstallID, Goes, Call
  <2>3. QED
    BY <1>7, <2>1, <2>2 DEF TruncateInstallID, OneInstall
<1>8. CASE WriteInstallID(w)
  <2>1. cache \notin Token /\ worker[w].id \in Ids
    BY <1>1, <1>2, <1>8 DEF WriteInstallID, OneInstall
  <2>2. QED
    BY <1>3, <1>4, <1>8, <2>1 DEF WriteInstallID
<1>9. CASE CallFails(w) \/ AnswerLost(w)
  BY <1>3, <1>9 DEF CallFails, AnswerLost
<1>10. CASE ServeGranting(w)
  <2>1. PICK t \in Lifetimes :
            worker' = [worker EXCEPT ![w].pc = "answered",
               ![w].tok = [install |-> worker[w].id, age |-> 0, lifetime |-> t]]
    BY <1>10 DEF ServeGranting
  <2>2. worker'[w].pc = "answered" /\ worker'[w].tok.install = worker[w].id
    BY <1>1, <2>1 DEF Call
  <2>3. QED
    BY <1>10, <2>2 DEF ServeGranting, OneInstall
<1>11. CASE ServeDeactivating(w)
  <2>1. worker'[w].pc = "answered" /\ worker'[w].op = "deactivate"
    BY <1>1, <1>11 DEF ServeDeactivating, Goes, Ends, RequestOf, Call
  <2>2. QED
    BY <1>11, <2>1 DEF ServeDeactivating, OneInstall
<1>12. CASE TruncateCache(w)
  <2>1. worker'[w].pc = "saving" /\ worker'[w].tok = worker[w].tok
    BY <1>1, <1>12 DEF TruncateCache, Goes, Call
  <2>2. QED
    BY <1>12, <2>1, ClientAssumption DEF TruncateCache, OneInstall
<1>13. CASE WriteCache(w)
  <2>1. worker'[w].pc = "idle"
    BY <1>1, <1>13 DEF WriteCache, Done, Idle
  <2>2. cache' \in {cache, worker[w].tok, Torn} /\ worker[w].pc = "saving"
    BY <1>13 DEF WriteCache
  <2>3. QED
    BY <1>13, <2>1, <2>2, ClientAssumption DEF WriteCache, OneInstall
<1>14. CASE FinishDeactivate(w)
  BY <1>3, <1>14 DEF FinishDeactivate
<1>15. CASE Tick
  <2>1. /\ worker'[w].pc = worker[w].pc /\ worker'[w].op = worker[w].op
        /\ worker'[w].id = worker[w].id /\ worker'[w].tok = Aged(worker[w].tok)
    BY <1>1, <1>15 DEF Tick, Call
  <2>2. \A t : Aged(t) \in Token => t \in Token /\ Aged(t).install = t.install
    BY AgedToken, AgedOther
  <2>3. QED
    BY <1>15, <2>1, <2>2 DEF Tick, OneInstall
<1>16. CASE Restart
  BY <1>1, <1>16 DEF Restart, Idle, OneInstall
<1>17. CASE UNCHANGED <<file, cache, worker>>
  BY <1>17 DEF OneInstall
<1>18. QED
  BY <1>5, <1>6, <1>7, <1>8, <1>9, <1>10, <1>11, <1>12, <1>13, <1>14, <1>15, <1>16,
     <1>17, CallOf DEF Next, vars, ServeStray, Revoke, Suspend, Resume, Unbind

OneInstallEach == \A w \in Workers : OneInstall(w)

LEMMA OneInstallInit == Init => OneInstallEach
  BY ClientAssumption DEF Init, Idle, OneInstall, OneInstallEach

\* What holds of the call holds of the goroutines that make none.
LEMMA OneInstallKept ==
    ASSUME Typed, OneInstallEach, OneCall, OneCall', [Next]_vars
    PROVE  OneInstallEach'
<1>1. PICK w \in Workers : Quiet(w) /\ Quiet(w)'
  BY SameCall
<1>2. OneInstall(w)'
  BY <1>1, OneInstallStep DEF OneInstallEach
<1>3. QED
  BY <1>1, <1>2 DEF Quiet, OneInstall, OneInstallEach

\* The cached token of an application that makes one call at a time is of the
\* install id that LoadOrCreateInstallID will return, also after crashes.
THEOREM TokensMatchInstall == Spec /\ []OneCall => []TokenMatchesInstall
<1>1. OneInstallEach => TokenMatchesInstall
  BY ClientAssumption DEF OneInstallEach, OneInstall, TokenMatchesInstall
<1>2. Init => Typed /\ OneInstallEach
  BY ClientInit, OneInstallInit
<1>3. Typed /\ OneInstallEach /\ OneCall /\ OneCall' /\ [Next]_vars
      => (Typed /\ OneInstallEach)'
  BY TypedStep, OneInstallKept
<1>4. QED
  BY <1>1, <1>2, <1>3, PTL DEF Spec

\* The seat of the install id on disk is not taken, or an abandoned request took it.
SeatGivenUp == file # NoId => seat[file] # "active" \/ resurrected

\* After a successful Deactivate nothing is cached and nothing runs; from the moment
\* the server has served it, the seat is given up.
GivingUp(w) ==
    /\ off => cache = NoToken /\ worker[w].pc = "idle"
    /\ \/ off
       \/ worker[w].pc = "answered" /\ worker[w].op = "deactivate"
       => SeatGivenUp

\* A request whose caller has gone takes the seat only by an activation, which is noted.
LEMMA StraySeat ==
    ASSUME Typed, NEW r \in stray, ServeStray(r), SeatGivenUp
    PROVE  SeatGivenUp'
<1>1. r.id \in Ids /\ seat \in [Ids -> {"none", "active", "ended"}] /\ file \in Ids \cup {NoId}
  BY DEF Typed, TypeOK, Request
<1>2. CASE seat' = seat
  BY <1>2 DEF ServeStray, SeatGivenUp
<1>3. CASE seat' # seat /\ r.op = "activate"
  BY <1>3 DEF ServeStray, SeatGivenUp
<1>4. CASE Ends(r) /\ Deactivated(r)
  BY <1>1, <1>4 DEF ServeStray, Deactivated, View!End, SeatGivenUp
<1>5. CASE Accepts(r) /\ Activated(r) /\ r.op # "activate"
  <2>1. seat[r.id] = "active"
    BY <1>5 DEF Accepts
  <2>2. seat' = seat
    BY <1>1, <1>5, <2>1 DEF Activated, View!Accept
  <2>3. QED
    BY <1>2, <2>2
<1>6. QED
  BY <1>2, <1>3, <1>4, <1>5 DEF ServeStray

\* No step of the call, of the server or of the administrator takes the seat back
\* before an Activate is begun.
LEMMA GivingUpStep ==
    ASSUME NEW w \in Workers, Quiet(w), Quiet(w)',
           Typed, OneInstall(w), GivingUp(w), [Next]_vars
    PROVE  GivingUp(w)'
<1>1. /\ worker \in [Workers -> Call] /\ worker[w] \in Call /\ w \in Workers
      /\ seat \in [Ids -> {"none", "active", "ended"}]
      /\ file \in Ids \cup {NoId}
      /\ worker[w].pc = "sent" => worker[w].id \in Ids
  BY DEF Typed, TypeOK, HasId
<1> DEFINE Answered == worker[w].pc = "answered" /\ worker[w].op = "deactivate"
<1>2. ASSUME ~ off', ~ Answered' PROVE GivingUp(w)'
  BY <1>2 DEF GivingUp
<1>3. ASSUME Done(w) PROVE worker'[w].pc = "idle"
  BY <1>1, <1>3 DEF Done, Idle
<1>4. ASSUME NEW op \in Ops, Begin(w, op)
      PROVE  GivingUp(w)'
  <2>1. worker'[w].pc = "installing"
    BY <1>1, <1>4 DEF Begin
  <2>2. ~ off'
    BY <1>4, ClientAssumption DEF Begin, GivingUp
  <2>3. QED
    BY <1>2, <2>1, <2>2
<1>5. CASE LoadInstallID(w) \/ TruncateInstallID(w) \/ WriteInstallID(w)
  <2>1. worker'[w].pc # "answered"
    BY <1>1, <1>3, <1>5 DEF LoadInstallID, TruncateInstallID, WriteInstallID, Drawn,
       Known, Goes, Call
  <2>2. ~ off'
    BY <1>5 DEF LoadInstallID, TruncateInstallID, WriteInstallID, GivingUp
  <2>3. QED
    BY <1>2, <2>1, <2>2
<1>6. CASE CallFails(w) \/ AnswerLost(w) \/ WriteCache(w)
  <2>1. worker'[w].pc = "idle"
    BY <1>3, <1>6 DEF CallFails, AnswerLost, WriteCache
  <2>2. ~ off'
    BY <1>6 DEF CallFails, AnswerLost, WriteCache, GivingUp
  <2>3. QED
    BY <1>2, <2>1, <2>2
<1>7. CASE ServeGranting(w)
  <2>1. worker'[w].op = worker[w].op /\ worker[w].op # "deactivate"
    BY <1>1, <1>7 DEF ServeGranting, Accepts, RequestOf, Call
  <2>2. ~ off'
    BY <1>7 DEF ServeGranting, GivingUp
  <2>3. QED
    BY <1>2, <2>1, <2>2
<1>8. CASE ServeDeactivating(w)
  <2>1. worker[w].id = file
    BY <1>8 DEF ServeDeactivating, OneInstall
  <2>2. SeatGivenUp'
    BY <1>1, <1>8, <2>1 DEF ServeDeactivating, Deactivated, View!End, RequestOf, SeatGivenUp
  <2>3. ~ off'
    BY <1>8 DEF ServeDeactivating, GivingUp
  <2>4. QED
    BY <2>2, <2>3 DEF GivingUp
<1>9. CASE TruncateCache(w)
  <2>1. worker'[w].pc = "saving"
    BY <1>1, <1>9 DEF TruncateCache, Goes, Call
  <2>2. ~ off'
    BY <1>9 DEF TruncateCache, GivingUp
  <2>3. QED
    BY <1>2, <2>1, <2>2
<1>10. CASE FinishDeactivate(w)
  <2>1. worker'[w].pc = "idle" /\ SeatGivenUp /\ ~ off
    BY <1>3, <1>10 DEF FinishDeactivate, GivingUp
  <2>2. SeatGivenUp'
    BY <1>10, <2>1 DEF FinishDeactivate, server, SeatGivenUp
  <2>3. off' => cache' = NoToken
    BY <1>10, <2>1 DEF FinishDeactivate
  <2>4. QED
    BY <2>1, <2>2, <2>3 DEF GivingUp
<1>11. ASSUME NEW r \in stray, ServeStray(r)
       PROVE  GivingUp(w)'
  BY <1>11, StraySeat DEF ServeStray, GivingUp
<1>12. CASE Revoke \/ Suspend \/ Resume \/ \E i \in Ids : Unbind(i)
  <2>1. SeatGivenUp => SeatGivenUp'
    BY <1>1, <1>12 DEF Revoke, Suspend, Resume, Unbind, View!Revoke, View!Withdraw,
                        View!Restore, View!End, SeatGivenUp
  <2>2. QED
    BY <1>12, <2>1 DEF Revoke, Suspend, Resume, Unbind, GivingUp
<1>13. CASE Tick
  <2>1. worker'[w].pc = worker[w].pc /\ worker'[w].op = worker[w].op
    BY <1>1, <1>13 DEF Tick, Call
  <2>2. cache = NoToken => cache' = NoToken
    BY <1>13, AgedOther, ClientAssumption DEF Tick
  <2>3. QED
    BY <1>13, <2>1, <2>2 DEF Tick, GivingUp, SeatGivenUp
<1>14. CASE Restart
  <2>1. worker'[w].pc = "idle"
    BY <1>1, <1>14 DEF Restart, Idle
  <2>2. QED
    BY <1>14, <2>1 DEF Restart, GivingUp, SeatGivenUp
<1>15. CASE UNCHANGED vars
  BY <1>15 DEF vars, GivingUp, SeatGivenUp
<1>16. QED
  BY <1>4, <1>5, <1>6, <1>7, <1>8, <1>9, <1>10, <1>11, <1>12, <1>13, <1>14, <1>15, CallOf
     DEF Next

GivingUpEach == \A w \in Workers : GivingUp(w)

\* What holds of the call holds of the goroutines that make none.
LEMMA GivingUpKept ==
    ASSUME Typed, OneInstallEach, GivingUpEach, OneCall, OneCall', [Next]_vars
    PROVE  GivingUpEach'
<1>1. PICK w \in Workers : Quiet(w) /\ Quiet(w)'
  BY SameCall
<1>2. GivingUp(w)'
  BY <1>1, GivingUpStep DEF OneInstallEach, GivingUpEach
<1>3. QED
  BY <1>1, <1>2 DEF Quiet, GivingUp, GivingUpEach

\* A successful Deactivate of an application that makes one call at a time leaves
\* no authorisation, and no seat unless a request it had abandoned takes it later.
THEOREM DeactivatesForGood == Spec /\ []OneCall => []DeactivateGivesUp
<1> DEFINE I == Typed /\ OneInstallEach /\ GivingUpEach
<1>1. Init => I
  <2> SUFFICES ASSUME Init PROVE I
    OBVIOUS
  <2>1. ~ off /\ \A w \in Workers : worker[w].pc = "idle"
    BY IdleType DEF Init
  <2>2. GivingUpEach
    BY <2>1 DEF GivingUp, GivingUpEach
  <2>3. QED
    BY <2>2, ClientInit, OneInstallInit
<1>2. I /\ OneCall /\ OneCall' /\ [Next]_vars => I'
  BY TypedStep, OneInstallKept, GivingUpKept
<1>3. I => DeactivateGivesUp
  BY ClientAssumption
  DEF GivingUp, GivingUpEach, SeatGivenUp, DeactivateGivesUp, CacheAuthorises
<1>4. QED
  <2> HIDE DEF I
  <2>1. QED
    BY <1>1, <1>2, <1>3, PTL DEF Spec
=============================================================================
