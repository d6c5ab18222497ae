--------------------------- MODULE RefinementProofs ---------------------------
(* Licensing implements SeatLedger, for every value of the constants. *)
EXTENDS LicensingRefinement, TokenProofs

\* The devices whose activation of licence l has ended.
Former(d, l) == {x \in Devices : d.act[l][x] \in {"deactivated", "blocked"}}

\* Account l of a database.
AccountIn(d, l) ==
    [standing |-> StandingOf(d.lic[l].status), max |-> d.lic[l].max,
     seated |-> SeatsTaken(d, l), former |-> Former(d, l)]

\* The seats tokens have been given for.
Vouched(T) == {<<t.lic, t.dev>> : t \in T}

\* What the ledger makes of an account, field by field.
LEMMA Fields ==
    ASSUME NEW s, NEW m, NEW A, NEW F
    PROVE  LET account == [standing |-> s, max |-> m, seated |-> A, former |-> F]
           IN  /\ \A t : [account EXCEPT !.standing = t]
                             = [standing |-> t, max |-> m, seated |-> A, former |-> F]
               /\ \A X : Ledger!Leaves(account, X)
                             = [standing |-> s, max |-> m, seated |-> A \ X,
                                former |-> F \cup (X \cap A)]
               /\ \A x : Ledger!Sits(account, x)
                             = [standing |-> s, max |-> m, seated |-> A \cup {x},
                                former |-> F \ {x}]
<1>1. ASSUME NEW B, NEW G
      PROVE  [[standing |-> s, max |-> m, seated |-> A, former |-> F]
                  EXCEPT !.seated = B, !.former = G]
                 = [standing |-> s, max |-> m, seated |-> B, former |-> G]
  <2> DEFINE old == [standing |-> s, max |-> m, seated |-> A, former |-> F]
             new == [standing |-> s, max |-> m, seated |-> B, former |-> G]
             changed == [old EXCEPT !.seated = B, !.former = G]
  <2>1. DOMAIN changed = {"standing", "max", "seated", "former"}
    OBVIOUS
  <2>2. /\ changed.standing = s /\ changed.max = m
        /\ changed.seated = B /\ changed.former = G
    OBVIOUS
  <2>3. changed = [f \in DOMAIN changed |-> changed[f]]
    OBVIOUS
  <2> HIDE DEF changed
  <2>4. changed = new
    BY <2>1, <2>2, <2>3
  <2> QED
    BY <2>4 DEF changed
<1> DEFINE account == [standing |-> s, max |-> m, seated |-> A, former |-> F]
<1>2. account.seated = A /\ account.former = F
  OBVIOUS
<1>3. \A B, G : [account EXCEPT !.seated = B, !.former = G]
                    = [standing |-> s, max |-> m, seated |-> B, former |-> G]
  BY <1>1
<1>4. \A X : Ledger!Leaves(account, X)
                 = [account EXCEPT !.seated = account.seated \ X,
                                   !.former = account.former \cup (X \cap account.seated)]
  BY DEF Ledger!Leaves
<1>5. \A x : Ledger!Sits(account, x)
                 = [account EXCEPT !.seated = account.seated \cup {x},
                                   !.former = account.former \ {x}]
  BY DEF Ledger!Sits
<1>6. \A t : [account EXCEPT !.standing = t]
                 = [standing |-> t, max |-> m, seated |-> A, former |-> F]
  OBVIOUS
<1> HIDE DEF account
<1>7. /\ \A X : Ledger!Leaves(account, X) = [standing |-> s, max |-> m, seated |-> A \ X,
                                             former |-> F \cup (X \cap A)]
      /\ \A x : Ledger!Sits(account, x) = [standing |-> s, max |-> m, seated |-> A \cup {x},
                                           former |-> F \ {x}]
  BY <1>2, <1>3, <1>4, <1>5
<1> QED
  BY <1>6, <1>7 DEF account

\* Databases agree on an account that nothing it is made of tells apart.
LEMMA SameAccount ==
    ASSUME NEW d, NEW e, NEW l, e.lic[l].status = d.lic[l].status,
           e.lic[l].max = d.lic[l].max, \A x \in Devices : e.act[l][x] = d.act[l][x]
    PROVE  AccountIn(e, l) = AccountIn(d, l)
<1>1. SeatsTaken(e, l) = SeatsTaken(d, l)
  BY DEF SeatsTaken
<1>2. Former(e, l) = Former(d, l)
  BY DEF Former
<1> QED
  BY <1>1, <1>2 DEF AccountIn

\* The accounts are all of them.
LEMMA AccountsAre ==
    ASSUME NEW d
    PROVE  Accounts(d) = [l \in Licenses |-> AccountIn(d, l)]
  BY DEF Accounts, AccountIn, Former

\* Changing the standing of licence l, as suspension, resumption and expiry do.
LEMMA StatusAccounts ==
    ASSUME NEW d \in Database, NEW l \in Licenses, NEW s
    PROVE  Accounts(WithStatus(d, l, s))
               = [Accounts(d) EXCEPT ![l].standing = StandingOf(s)]
<1> DEFINE e == WithStatus(d, l, s)
<1>1. /\ e.act = d.act /\ e.lic[l].status = s
      /\ \A k \in Licenses : /\ e.lic[k].max = d.lic[k].max
                             /\ k # l => e.lic[k] = d.lic[k]
  BY DEF WithStatus, Database, License
<1> HIDE DEF e
<1>2. \A k \in Licenses \ {l} : AccountIn(e, k) = AccountIn(d, k)
  BY <1>1, SameAccount
<1>3. AccountIn(e, l) = [AccountIn(d, l) EXCEPT !.standing = StandingOf(s)]
  <2>1. SeatsTaken(e, l) = SeatsTaken(d, l) /\ Former(e, l) = Former(d, l)
    BY <1>1 DEF SeatsTaken, Former
  <2> QED
    BY <1>1, <2>1 DEF AccountIn
<1>4. Accounts(e) = [Accounts(d) EXCEPT ![l].standing = StandingOf(s)]
  BY <1>2, <1>3, AccountsAre
<1> QED
  BY <1>4 DEF e

\* Devices alone are in no account.
LEMMA DeviceAccounts ==
    ASSUME NEW d \in Database, NEW x \in Devices
    PROVE  /\ \A s : Accounts(WithDevice(d, x, s)) = Accounts(d)
           /\ \A i : Accounts(Enrol(d, x, i)) = Accounts(d)
<1>1. ASSUME NEW e, e.lic = d.lic, e.act = d.act
      PROVE  Accounts(e) = Accounts(d)
  BY <1>1, SameAccount, AccountsAre
<1>2. \A s : WithDevice(d, x, s).lic = d.lic /\ WithDevice(d, x, s).act = d.act
  BY DEF WithDevice, Database
<1>3. \A i : Enrol(d, x, i).lic = d.lic /\ Enrol(d, x, i).act = d.act
  BY DEF Enrol, Database
<1> QED
  BY <1>1, <1>2, <1>3

\* A new licence is a new account.
LEMMA CreatedAccounts ==
    ASSUME NEW d \in Database, NEW R, Sound(d, R), NEW l \in Licenses,
           d.lic[l].status = "none", NEW a, NEW m, NEW t
    PROVE  Accounts(Created(d, l, a, m, t))
               = [Accounts(d) EXCEPT ![l] = Ledger!NewAccount("open", m)]
<1> DEFINE e == Created(d, l, a, m, t)
<1>1. /\ e.act = d.act /\ e.lic[l].status = "active" /\ e.lic[l].max = m
      /\ \A k \in Licenses \ {l} : e.lic[k] = d.lic[k]
  BY DEF Created, Database
<1> HIDE DEF e
<1>2. \A k \in Licenses \ {l} : AccountIn(e, k) = AccountIn(d, k)
  BY <1>1, SameAccount
<1>3. \A x \in Devices : e.act[l][x] = "none"
  BY <1>1 DEF Sound
<1>4. SeatsTaken(e, l) = {} /\ Former(e, l) = {}
  BY <1>3 DEF SeatsTaken, Former
<1>5. AccountIn(e, l) = Ledger!NewAccount("open", m)
  BY <1>1, <1>4 DEF AccountIn, StandingOf, Ledger!NewAccount
<1>6. Accounts(e) = [Accounts(d) EXCEPT ![l] = Ledger!NewAccount("open", m)]
  BY <1>2, <1>5, AccountsAre
<1> QED
  BY <1>6 DEF e

\* Devices that lose their activations of licence l, as accounts see it.
LEMMA LeavesAccount ==
    ASSUME NEW d \in Database, NEW e, NEW l \in Licenses, NEW X \in SUBSET Devices,
           e.lic[l].max = d.lic[l].max,
           \A x \in Devices :
               IF x \in X /\ d.act[l][x] # "none"
               THEN /\ e.act[l][x] \in {"deactivated", "blocked"}
               ELSE e.act[l][x] = d.act[l][x]
    PROVE  AccountIn(e, l) = [Ledger!Leaves(AccountIn(d, l), X)
                                 EXCEPT !.standing = StandingOf(e.lic[l].status)]
<1>1. SeatsTaken(e, l) = SeatsTaken(d, l) \ X
  BY DEF SeatsTaken
<1>2. Former(e, l) = Former(d, l) \cup (X \cap SeatsTaken(d, l))
  BY DEF SeatsTaken, Former, Database, ActivationStatus
<1>3. AccountIn(e, l) = [standing |-> StandingOf(e.lic[l].status), max |-> d.lic[l].max,
                         seated |-> SeatsTaken(d, l) \ X,
                         former |-> Former(d, l) \cup (X \cap SeatsTaken(d, l))]
  BY <1>1, <1>2 DEF AccountIn
<1>4. Ledger!Leaves(AccountIn(d, l), X)
          = [standing |-> StandingOf(d.lic[l].status), max |-> d.lic[l].max,
             seated |-> SeatsTaken(d, l) \ X,
             former |-> Former(d, l) \cup (X \cap SeatsTaken(d, l))]
  BY Fields DEF AccountIn
<1> QED
  BY <1>3, <1>4, Fields

\* Revocation.
LEMMA RevokedAccounts ==
    ASSUME NEW d \in Database, NEW l \in Licenses
    PROVE  Accounts(Revoked(d, l))
               = [Accounts(d) EXCEPT
                     ![l] = [Ledger!Leaves(@, Devices) EXCEPT !.standing = "revoked"]]
<1> DEFINE e == Revoked(d, l)
<1>1. \A k \in Licenses, x \in Devices :
          /\ e.act[k][x] = IF k = l /\ d.act[k][x] # "none" THEN "blocked" ELSE d.act[k][x]
          /\ e.lic[k].max = d.lic[k].max
          /\ e.lic[k].status = IF k = l THEN "revoked" ELSE d.lic[k].status
  BY RevokedFields
<1>2. \A k \in Licenses : /\ e.lic[k].max = d.lic[k].max
                          /\ e.lic[k].status = IF k = l THEN "revoked" ELSE d.lic[k].status
  BY DEF Revoked, Database, License
<1> HIDE DEF e
<1>3. \A k \in Licenses \ {l} : AccountIn(e, k) = AccountIn(d, k)
  BY <1>1, <1>2, SameAccount
<1>4. AccountIn(e, l) = [Ledger!Leaves(AccountIn(d, l), Devices)
                            EXCEPT !.standing = "revoked"]
  BY <1>1, <1>2, LeavesAccount DEF StandingOf
<1>5. Accounts(e) = [Accounts(d) EXCEPT
                        ![l] = [Ledger!Leaves(@, Devices) EXCEPT !.standing = "revoked"]]
  BY <1>3, <1>4, AccountsAre
<1> QED
  BY <1>5 DEF e

\* Leaving an account changes its standing no more than it names.
LEMMA LeavingKeepsStanding ==
    ASSUME NEW d \in Database, NEW l \in Licenses, NEW X
    PROVE  [Ledger!Leaves(AccountIn(d, l), X) EXCEPT !.standing = StandingOf(d.lic[l].status)]
               = Ledger!Leaves(AccountIn(d, l), X)
<1>1. Ledger!Leaves(AccountIn(d, l), X)
          = [standing |-> StandingOf(d.lic[l].status), max |-> d.lic[l].max,
             seated |-> SeatsTaken(d, l) \ X,
             former |-> Former(d, l) \cup (X \cap SeatsTaken(d, l))]
  BY Fields DEF AccountIn
<1> QED
  BY <1>1, Fields

\* What the ledger makes of device x leaving the accounts of L.
After(d, x, L) ==
    [l \in Licenses |-> IF l \in L THEN Ledger!Leaves(Accounts(d)[l], {x})
                        ELSE Accounts(d)[l]]

\* Unbinding a device, and ending the activation of a token.
LEMMA EndedAccounts ==
    ASSUME NEW d \in Database
    PROVE  /\ \A x \in Devices : Accounts(Unbound(d, x)) = After(d, x, Licenses)
           /\ \A t \in Token : Accounts(Deactivated(d, t)) = After(d, t.dev, {t.lic})
<1>1. ASSUME NEW e, NEW x \in Devices, NEW L \in SUBSET Licenses, e.lic = d.lic,
             \A l \in Licenses, y \in Devices :
                 IF l \in L /\ y = x /\ d.act[l][y] # "none"
                 THEN e.act[l][y] \in {"deactivated", "blocked"}
                 ELSE e.act[l][y] = d.act[l][y]
      PROVE  Accounts(e) = After(d, x, L)
  <2>1. \A l \in Licenses \ L : AccountIn(e, l) = AccountIn(d, l)
    BY <1>1, SameAccount
  <2>2. \A l \in L : AccountIn(e, l) = Ledger!Leaves(AccountIn(d, l), {x})
    <3> SUFFICES ASSUME NEW l \in L
                 PROVE  AccountIn(e, l) = Ledger!Leaves(AccountIn(d, l), {x})
      OBVIOUS
    <3>1. AccountIn(e, l) = [Ledger!Leaves(AccountIn(d, l), {x})
                                EXCEPT !.standing = StandingOf(e.lic[l].status)]
      <4>1. /\ l \in Licenses /\ {x} \in SUBSET Devices /\ e.lic[l].max = d.lic[l].max
            /\ \A y \in Devices :
                   IF y \in {x} /\ d.act[l][y] # "none"
                   THEN e.act[l][y] \in {"deactivated", "blocked"}
                   ELSE e.act[l][y] = d.act[l][y]
        BY <1>1
      <4> QED
        BY <4>1, LeavesAccount
    <3>2. StandingOf(e.lic[l].status) = StandingOf(d.lic[l].status)
      BY <1>1
    <3>3. [Ledger!Leaves(AccountIn(d, l), {x}) EXCEPT !.standing = StandingOf(d.lic[l].status)]
              = Ledger!Leaves(AccountIn(d, l), {x})
      BY LeavingKeepsStanding
    <3> HIDE DEF AccountIn, StandingOf
    <3> QED
      BY <3>1, <3>2, <3>3
  <2> QED
    BY <2>1, <2>2, AccountsAre DEF After
<1>2. ASSUME NEW x \in Devices
      PROVE  Accounts(Unbound(d, x)) = After(d, x, Licenses)
  <2> DEFINE e == Unbound(d, x)
  <2>1. e.lic = d.lic
    BY DEF Unbound, Database
  <2>2. \A l \in Licenses, y \in Devices :
            e.act[l][y] = IF y = x /\ d.act[l][y] = "active" THEN "deactivated"
                          ELSE d.act[l][y]
    BY DEF Unbound, Database
  <2>3. \A l \in Licenses, y \in Devices : d.act[l][y] \in ActivationStatus
    BY DEF Database
  <2> HIDE DEF e
  <2>4. Accounts(e) = After(d, x, Licenses)
    BY <1>1, <2>1, <2>2, <2>3 DEF ActivationStatus
  <2> QED
    BY <2>4 DEF e
<1>3. ASSUME NEW t \in Token
      PROVE  Accounts(Deactivated(d, t)) = After(d, t.dev, {t.lic})
  <2> DEFINE e == Deactivated(d, t)
  <2>1. t.lic \in Licenses /\ t.dev \in Devices
    BY DEF Token
  <2>2. e.lic = d.lic
    BY DEF Deactivated, Database
  <2>3. \A l \in Licenses, y \in Devices :
            e.act[l][y] = IF l = t.lic /\ y = t.dev /\ d.act[l][y] # "none"
                          THEN "deactivated" ELSE d.act[l][y]
    BY <2>1 DEF Deactivated, Database
  <2> HIDE DEF e
  <2>4. Accounts(e) = After(d, t.dev, {t.lic})
    BY <1>1, <2>1, <2>2, <2>3
  <2> QED
    BY <2>4 DEF e
<1> QED
  BY <1>2, <1>3

\* Taking a seat.
LEMMA SeatAccounts ==
    ASSUME NEW d \in Database, NEW l \in Licenses, NEW x \in Devices, NEW i \in Installs
    PROVE  Accounts(Activate(Enrol(d, x, i), l, x))
               = [Accounts(d) EXCEPT ![l] = Ledger!Sits(@, x)]
<1> DEFINE e == Activate(Enrol(d, x, i), l, x)
<1>1. /\ e.lic = d.lic
      /\ \A k \in Licenses, y \in Devices :
             e.act[k][y] = IF k = l /\ y = x THEN "active" ELSE d.act[k][y]
  BY EnrolType, EnrolFields, ActivateFields
<1> HIDE DEF e
<1>2. \A k \in Licenses \ {l} : AccountIn(e, k) = AccountIn(d, k)
  BY <1>1, SameAccount
<1>3. AccountIn(e, l) = Ledger!Sits(AccountIn(d, l), x)
  <2>1. SeatsTaken(e, l) = SeatsTaken(d, l) \cup {x}
    BY <1>1 DEF SeatsTaken
  <2>2. Former(e, l) = Former(d, l) \ {x}
    BY <1>1 DEF Former
  <2> QED
    BY <1>1, <2>1, <2>2, Fields DEF AccountIn
<1>4. Accounts(e) = [Accounts(d) EXCEPT ![l] = Ledger!Sits(@, x)]
  BY <1>2, <1>3, AccountsAre
<1> QED
  BY <1>4 DEF e

----------------------------------------------------------------------------
(* Steps *)

\* The ledger counts as the server does.
LEMMA SameCount == \A S : Ledger!Cardinality(S) = Cardinality(S)
  BY DEF Cardinality, Ledger!Cardinality

\* What an account says of its licence's status.
LEMMA AccountStanding ==
    ASSUME NEW d \in Database, NEW l \in Licenses
    PROVE  /\ (Accounts(d)[l].standing = "absent") <=> (d.lic[l].status = "none")
           /\ d.lic[l].status = "active" => Accounts(d)[l].standing = "open"
<1>1. Accounts(d)[l] = AccountIn(d, l)
  BY AccountsAre
<1>2. d.lic[l].status \in LicenseStatus
  BY DEF Database, License
<1> QED
  BY <1>1, <1>2 DEF AccountIn, StandingOf, LicenseStatus

\* Whom the server lets sit, the ledger does.
LEMMA FreeSeatIsFree ==
    ASSUME NEW d \in Database, NEW l \in Licenses, NEW x \in Devices,
           SeatFree(d, l, x), d.lic[l].status = "active"
    PROVE  Ledger!MaySit(Accounts(d)[l], x)
<1>1. Accounts(d)[l] = AccountIn(d, l) /\ Accounts(d)[l].standing = "open"
  BY AccountsAre, AccountStanding
<1>2. x \in SeatsTaken(d, l) \cup Former(d, l)
      \/ Cardinality(SeatsTaken(d, l)) < d.lic[l].max
  <2>1. d.act[l][x] \in ActivationStatus
    BY DEF Database
  <2> QED
    BY <2>1 DEF SeatFree, SeatsTaken, Former, ActivationStatus
<1> QED
  BY <1>1, <1>2, SameCount DEF AccountIn, Ledger!MaySit

\* A save enters its database in the ledger.
LEMMA SaveEnters ==
    ASSUME NEW e, db' = e, store' \in {store, e}
    PROVE  Ledger!Entered(Accounts(e))
<1>1. Accounts(db)' = Accounts(e) /\ Accounts(store)' \in {Accounts(store), Accounts(e)}
  BY DEF Accounts, SeatsTaken, StandingOf
<1> QED
  BY <1>1 DEF Ledger!Entered

\* Enrolling takes no seat and frees none.
LEMMA EnrolLeavesSeats ==
    ASSUME NEW d \in Database, NEW l \in Licenses, NEW x \in Devices, NEW i \in Installs
    PROVE  SeatFree(Enrol(d, x, i), l, x) <=> SeatFree(d, l, x)
<1>1. SeatsTaken(Enrol(d, x, i), l) = SeatsTaken(d, l)
  BY EnrolFields DEF SeatsTaken
<1>2. Enrol(d, x, i).act[l][x] = d.act[l][x] /\ Enrol(d, x, i).lic[l] = d.lic[l]
  BY EnrolFields
<1> QED
  BY <1>1, <1>2 DEF SeatFree

\* A step that hands out no token is one of the ledger's, but not Vouch.
LEMMA QuietSteps ==
    ASSUME TypeOK, SoundStates, StepShape, tokens' = tokens
    PROVE  Ledger!Next
<1>1. Vouched(tokens)' = Vouched(tokens)
  BY DEF Vouched
<1>2. db \in Database /\ store \in Database /\ \A r \in pending : r.tok \in Token
  BY DEF TypeOK, Request
<1>3. CASE Restart
  <2>1. Accounts(db)' = Accounts(store) /\ Accounts(store)' = Accounts(store)
    BY <1>3 DEF Restart, Accounts, SeatsTaken, StandingOf
  <2> QED
    BY <1>1, <2>1 DEF Ledger!Next, Ledger!Crash, Vouched
<1>4. ASSUME NEW e, DbStep(e), db' = e, store' \in {store, e}
      PROVE  Ledger!Next
  <2>1. Ledger!Entered(Accounts(e))
    BY <1>4, SaveEnters
  <2>2. CASE Accounts(e) = Accounts(db)
    BY <1>1, <2>1, <2>2 DEF Ledger!Next, Ledger!Persist, Vouched
  <2>3. ASSUME NEW l \in Licenses, NEW a \in AppNames, NEW m \in Limits, NEW t \in Deadlines,
               db.lic[l].status = "none", e = Created(db, l, a, m, t)
        PROVE  Ledger!Next
    <3>1. Accounts(e) = [Accounts(db) EXCEPT ![l] = Ledger!NewAccount("open", m)]
      BY <1>2, <2>3, CreatedAccounts DEF SoundStates
    <3>2. Ledger!Open(l, m)
      BY <1>1, <1>2, <2>1, <2>3, <3>1, AccountStanding DEF Ledger!Open, Vouched
    <3> QED
      BY <3>2 DEF Ledger!Next
  <2>4. ASSUME NEW l \in Licenses, NEW s \in {"active", "suspended", "expired"},
               db.lic[l].status # "none", e = WithStatus(db, l, s)
        PROVE  Ledger!Next
    <3>1. Accounts(e) = [Accounts(db) EXCEPT ![l].standing = StandingOf(s)]
      BY <1>2, <2>4, StatusAccounts
    <3>2. StandingOf(s) = IF s = "active" THEN "open" ELSE "held"
      BY DEF StandingOf
    <3>3. Ledger!Reinstate(l) \/ Ledger!Hold(l)
      BY <1>1, <1>2, <2>1, <2>4, <3>1, <3>2, AccountStanding
      DEF Ledger!Reinstate, Ledger!Hold, Vouched
    <3> QED
      BY <3>3 DEF Ledger!Next
  <2>5. ASSUME NEW l \in Licenses, db.lic[l].status # "none", e = Revoked(db, l)
        PROVE  Ledger!Next
    <3>1. Accounts(e) = [Accounts(db) EXCEPT
              ![l] = [Ledger!Leaves(@, Devices) EXCEPT !.standing = "revoked"]]
      BY <1>2, <2>5, RevokedAccounts
    <3>2. Ledger!Revoke(l)
      BY <1>1, <1>2, <2>1, <2>5, <3>1, AccountStanding DEF Ledger!Revoke, Vouched
    <3> QED
      BY <3>2 DEF Ledger!Next
  <2>6. ASSUME NEW x \in Devices, NEW L \in SUBSET Licenses,
               Accounts(e) = After(db, x, L)
        PROVE  Ledger!Next
    <3>1. Ledger!Leave(x, L)
      BY <1>1, <2>1, <2>6 DEF After, Ledger!Leave, Vouched
    <3> QED
      BY <3>1 DEF Ledger!Next
  <2>7. CASE \/ e = db
             \/ \E x \in Devices, s \in {"active", "blocked"} : e = WithDevice(db, x, s)
             \/ \E x \in Devices, i \in Installs : e = Enrol(db, x, i)
    BY <1>2, <2>2, <2>7, DeviceAccounts
  <2>8. CASE \E x \in Devices : e = Unbound(db, x)
    BY <1>2, <2>6, <2>8, EndedAccounts
  <2>9. CASE \E r \in pending : e = Deactivated(db, r.tok)
    <3>1. \A t \in Token : t.dev \in Devices /\ {t.lic} \in SUBSET Licenses
      BY DEF Token
    <3> QED
      BY <1>2, <2>6, <2>9, <3>1, EndedAccounts
  <2> QED
    BY <1>4, <2>3, <2>4, <2>5, <2>7, <2>8, <2>9 DEF DbStep
<1>5. ASSUME NEW e, NEW l \in Licenses, NEW x \in Devices, SeatStep(e, l, x),
             db' = e, store' \in {store, e}
      PROVE  Ledger!Next
  <2>1. PICK i \in Installs :
            /\ db.lic[l].status = "active"
            /\ SeatFree(Enrol(db, x, i), l, x)
            /\ e = Activate(Enrol(db, x, i), l, x)
    BY <1>5 DEF SeatStep
  <2>2. Ledger!MaySit(Accounts(db)[l], x)
    BY <1>2, <2>1, EnrolLeavesSeats, FreeSeatIsFree
  <2>3. Accounts(e) = [Accounts(db) EXCEPT ![l] = Ledger!Sits(@, x)]
    BY <1>2, <2>1, SeatAccounts
  <2>4. Ledger!Entered(Accounts(e))
    BY <1>5, SaveEnters
  <2>5. Ledger!Sit(l, x)
    BY <1>1, <2>2, <2>3, <2>4 DEF Ledger!Sit, Vouched
  <2> QED
    BY <2>5 DEF Ledger!Next
<1> QED
  BY <1>3, <1>4, <1>5 DEF StepShape

\* A token leaves with a seat that is on disk.
LEMMA GrantVouches ==
    ASSUME TypeOK, NEW c \in challenges, NEW x \in Devices, NEW a \in Apps,
           NEW i \in Installs, NEW cred \in Credential,
           NEW ttl \in {TokenTTL, RiskyTokenTTL}, VerifyGranted(c, x, a, i, cred, ttl)
    PROVE  Ledger!Next
<1> DEFINE l == cred.lic
           e == Activate(Enrol(db, x, i), l, x)
           t == NewToken(c, x, a, l, ttl)
<1>1. l \in Licenses /\ db \in Database
  BY CredentialLicense DEF CredentialType, TypeOK
<1>2. /\ db.lic[l].status = "active" /\ SeatFree(Enrol(db, x, i), l, x)
      /\ db' = e /\ store' = e /\ tokens' = tokens \cup {t}
  BY DEF VerifyGranted, PassesLicense, LicenseUsable, PassesDevice, GrantSaved, SaveSucceeds
<1>3. t.lic = l /\ t.dev = x
  BY DEF NewToken
<1> HIDE DEF l, t
<1>4. Vouched(tokens)' = Vouched(tokens) \cup {<<l, x>>}
  BY <1>2, <1>3 DEF Vouched
<1>5. Ledger!MaySit(Accounts(db)[l], x)
  BY <1>1, <1>2, EnrolLeavesSeats, FreeSeatIsFree
<1>6. Accounts(e) = [Accounts(db) EXCEPT ![l] = Ledger!Sits(@, x)]
  BY <1>1, SeatAccounts
<1> HIDE DEF e
<1>7. Accounts(db)' = Accounts(e) /\ Accounts(store)' = Accounts(e)
  BY <1>2 DEF Accounts, SeatsTaken, StandingOf
<1>8. Ledger!Vouch(l, x)
  BY <1>4, <1>5, <1>6, <1>7 DEF Ledger!Vouch, Ledger!Confirmed, Vouched
<1> QED
  BY <1>1, <1>8 DEF Ledger!Next

\* Nothing else hands out a token.
LEMMA OnlyGrantsHandOut ==
    ASSUME Next, tokens' # tokens
    PROVE  \E c \in challenges, x \in Devices, a \in Apps, i \in Installs,
              cred \in Credential, ttl \in {TokenTTL, RiskyTokenTTL} :
                  VerifyGranted(c, x, a, i, cred, ttl)
<1>1. \E c \in challenges, x \in Devices, a \in Apps, i \in Installs,
         cred \in Credential : ClientVerification(c, x, a, i, cred)
  BY DEF Next, CreateLicense, RevokeLicense, SuspendLicense, ResumeLicense, BlockDevice,
         UnblockDevice, UnbindDevice, IssueChallenge, StrayRequest, TokenRequest,
         Heartbeat, CapabilityCheck, Deactivate, Serve, Restart, Tick, clients
<1>2. PICK c \in challenges, x \in Devices, a \in Apps, i \in Installs,
           cred \in Credential : ClientVerification(c, x, a, i, cred)
  BY <1>1
<1>3. \E ttl \in {TokenTTL, RiskyTokenTTL} : VerifyGranted(c, x, a, i, cred, ttl)
  BY <1>2 DEF ClientVerification, VerifyRefused, VerifyOverdue, VerifyDenied,
              VerifyWithoutToken, clients
<1> QED
  BY <1>3

----------------------------------------------------------------------------
(* The theorem *)

\* A new server has an empty ledger.
LEMMA LedgerInit == Init => Ledger!Init
<1> SUFFICES ASSUME Init
             PROVE  Ledger!Init
  OBVIOUS
<1>1. \A l \in Licenses : AccountIn(db, l) = Ledger!NewAccount("absent", 0)
  <2>1. \A l \in Licenses : db.lic[l].status = "none" /\ db.lic[l].max = 0
    BY DEF Init, EmptyDatabase
  <2>2. \A l \in Licenses : SeatsTaken(db, l) = {} /\ Former(db, l) = {}
    BY DEF Init, EmptyDatabase, SeatsTaken, Former
  <2> QED
    BY <2>1, <2>2 DEF AccountIn, StandingOf, Ledger!NewAccount
<1>2. Accounts(db) = [l \in Licenses |-> Ledger!NewAccount("absent", 0)]
  BY <1>1, AccountsAre
<1>3. store = db /\ tokens = {}
  BY DEF Init
<1> QED
  BY <1>2, <1>3 DEF Ledger!Init

\* Licensing implements SeatLedger: every handler, with its failing saves and its
\* restarts, keeps the promises of the ledger, for any number of licences, devices,
\* challenges, tokens and requests.
THEOREM LicensingImplementsLedger == Spec => ImplementsLedger
<1>1. TypeOK /\ SoundStates /\ [Next]_vars => [Ledger!Next]_(Ledger!vars)
  <2> SUFFICES ASSUME TypeOK, SoundStates, [Next]_vars
               PROVE  [Ledger!Next]_(Ledger!vars)
    OBVIOUS
  <2>1. CASE tokens' = tokens
    BY <2>1, StepShapeHolds, QuietSteps
  <2>2. CASE tokens' # tokens
    <3>1. Next
      BY <2>2 DEF vars
    <3> QED
      BY <2>2, <3>1, OnlyGrantsHandOut, GrantVouches
  <2> QED
    BY <2>1, <2>2
<1> QED
  BY <1>1, LedgerInit, TypeCorrect, AlwaysSound, PTL
  DEF Spec, ImplementsLedger, Ledger!Spec

----------------------------------------------------------------------------
(* What the ledger promises is so kept by the server. *)

Kept == INSTANCE SeatLedgerProofs WITH
    book    <- Accounts(db),
    durable <- Accounts(store),
    vouched <- {<<t.lic, t.dev>> : t \in tokens}

\* The instance that is proved about is the one that is implemented.
LEMMA SameLedger ==
    /\ Ledger!Init => Kept!Init
    /\ [Ledger!Next]_(Ledger!vars) => [Kept!Next]_(Kept!vars)
    /\ Kept!LedgerInv => Ledger!LedgerInv
<1>1. \A s, m : Ledger!NewAccount(s, m) = Kept!NewAccount(s, m)
  BY DEF Ledger!NewAccount, Kept!NewAccount
<1>2. \A a, X : Ledger!Leaves(a, X) = Kept!Leaves(a, X)
  BY DEF Ledger!Leaves, Kept!Leaves
<1>3. \A a, x : /\ Ledger!Sits(a, x) = Kept!Sits(a, x)
                /\ Ledger!MaySit(a, x) => Kept!MaySit(a, x)
  <2>1. \A S : Ledger!Cardinality(S) = Kept!Cardinality(S)
    BY SameCount DEF Cardinality, Kept!Cardinality
  <2> QED
    BY <2>1 DEF Ledger!Sits, Kept!Sits, Ledger!MaySit, Kept!MaySit
<1>4. Ledger!Init => Kept!Init
  BY <1>1 DEF Ledger!Init, Kept!Init
<1>5. Kept!LedgerInv => Ledger!LedgerInv
  BY DEF Ledger!LedgerInv, Kept!LedgerInv, Ledger!Account, Kept!Account,
         Ledger!Standing, Kept!Standing
<1>6. \A b : /\ Ledger!Entered(b) => Kept!Entered(b)
             /\ Ledger!Confirmed(b) => Kept!Confirmed(b)
  BY DEF Ledger!Entered, Kept!Entered, Ledger!Confirmed, Kept!Confirmed
<1>7. \A l \in Licenses, max \in Limits : Ledger!Open(l, max) => Kept!Open(l, max)
  BY <1>1, <1>6 DEF Ledger!Open, Kept!Open
<1>8. \A l \in Licenses : /\ Ledger!Reinstate(l) => Kept!Reinstate(l)
                          /\ Ledger!Hold(l) => Kept!Hold(l)
                          /\ Ledger!Revoke(l) => Kept!Revoke(l)
  BY <1>2, <1>6 DEF Ledger!Reinstate, Kept!Reinstate, Ledger!Hold, Kept!Hold,
                    Ledger!Revoke, Kept!Revoke
<1>9. \A x \in Devices, L \in SUBSET Licenses : Ledger!Leave(x, L) => Kept!Leave(x, L)
  BY <1>2, <1>6 DEF Ledger!Leave, Kept!Leave
<1>10. \A l \in Licenses, x \in Devices : /\ Ledger!Sit(l, x) => Kept!Sit(l, x)
                                          /\ Ledger!Vouch(l, x) => Kept!Vouch(l, x)
  BY <1>3, <1>6 DEF Ledger!Sit, Kept!Sit, Ledger!Vouch, Kept!Vouch
<1>11. /\ Ledger!Persist => Kept!Persist
       /\ Ledger!Crash => Kept!Crash
       /\ UNCHANGED Ledger!vars => UNCHANGED Kept!vars
  BY <1>6 DEF Ledger!Persist, Kept!Persist, Ledger!Crash, Kept!Crash, Ledger!vars, Kept!vars
<1>12. Ledger!Next => Kept!Next
  BY <1>7, <1>8, <1>9, <1>10, <1>11 DEF Ledger!Next, Kept!Next
<1> QED
  BY <1>4, <1>5, <1>11, <1>12

\* So in the server's memory, and in its store after any crash, a revoked licence has
\* no seat, and no seat is forgotten that a token was ever given for: it is taken, or
\* known to have ended.
THEOREM ServerKeepsLedger == Spec => []Ledger!LedgerInv
<1>1. Kept!Spec => []Kept!LedgerInv
  BY Kept!LedgerKeepsItsPromise
<1> QED
  BY <1>1, SameLedger, LicensingImplementsLedger, PTL
  DEF ImplementsLedger, Ledger!Spec, Kept!Spec

----------------------------------------------------------------------------
(* To its installations the server is the one of module Client. *)

\* The activations of licence l in a database, as its installations see them.
SeatsSeen(d, l) ==
    [x \in Devices |-> IF d.act[l][x] \in {"deactivated", "blocked"}
                       THEN "ended" ELSE d.act[l][x]]

\* A step that keeps the seats of a licence gives or withdraws the licence, or nothing.
LEMMA SameSeats ==
    ASSUME NEW l \in Licenses, SeatsSeen(db', l) = SeatsSeen(db, l)
    PROVE  [Seen(l)!Next]_(Seen(l)!vars)
<1>1. InOrder(l) \in BOOLEAN /\ InOrder(l)' \in BOOLEAN
  BY DEF InOrder
<1>2. CASE InOrder(l) = InOrder(l)'
  BY <1>2 DEF Seen!vars, SeatsSeen
<1>3. CASE InOrder(l) /\ ~ InOrder(l)'
  BY <1>3 DEF Seen!Next, Seen!Withdraw, SeatsSeen
<1>4. CASE ~ InOrder(l) /\ InOrder(l)'
  BY <1>4 DEF Seen!Next, Seen!Restore, SeatsSeen
<1> QED
  BY <1>1, <1>2, <1>3, <1>4

\* A step that changes neither the licence's status nor its deadline nor the clock keeps
\* it in order, or out of it.
LEMMA SameOrder ==
    ASSUME NEW l \in Licenses, db'.lic[l].status = db.lic[l].status,
           db'.lic[l].expiresAt = db.lic[l].expiresAt, now' = now
    PROVE  InOrder(l)' = InOrder(l)
  BY DEF InOrder, Overdue

\* Ending one seat, or none, is the installation's End.
LEMMA EndSeen ==
    ASSUME NEW l \in Licenses, NEW x \in Devices, InOrder(l)' = InOrder(l),
           \A y \in Devices : SeatsSeen(db', l)[y] =
               IF y = x /\ SeatsSeen(db, l)[y] # "none" THEN "ended" ELSE SeatsSeen(db, l)[y]
    PROVE  [Seen(l)!Next]_(Seen(l)!vars)
<1> DEFINE s == SeatsSeen(db, l)
           t == SeatsSeen(db', l)
<1>1. s = [y \in Devices |-> s[y]] /\ t = [y \in Devices |-> t[y]]
  BY DEF SeatsSeen
<1> HIDE DEF s, t
<1>2. t = [s EXCEPT ![x] = IF @ = "none" THEN "none" ELSE "ended"]
  BY <1>1 DEF s, t
<1>3. Seen(l)!End(x)
  BY <1>2 DEF Seen!End, SeatsSeen, s, t
<1> QED
  BY <1>3 DEF Seen!Next

\* Revoking a licence ends all its seats.
LEMMA RevokedSeen ==
    ASSUME TypeOK, NEW l \in Licenses, db' = Revoked(db, l)
    PROVE  Seen(l)!Revoke
<1>1. db \in Database
  BY DEF TypeOK
<1>2. \A x \in Devices :
          db'.act[l][x] = IF db.act[l][x] # "none" THEN "blocked" ELSE db.act[l][x]
  BY <1>1, RevokedFields
<1>3. db'.lic[l].status = "revoked"
  BY <1>1 DEF Revoked, Database, License
<1>4. ~ InOrder(l)'
  BY <1>3 DEF InOrder
<1>5. \A x \in Devices : SeatsSeen(db', l)[x] =
          IF SeatsSeen(db, l)[x] = "none" THEN "none" ELSE "ended"
  BY <1>2 DEF SeatsSeen
<1>6. SeatsSeen(db', l) =
          [x \in Devices |-> IF SeatsSeen(db, l)[x] = "none" THEN "none" ELSE "ended"]
  BY <1>5 DEF SeatsSeen
<1> QED
  BY <1>4, <1>6 DEF Seen!Revoke, SeatsSeen

\* An activation or a verification (processClientVerification) takes or keeps one seat of
\* a licence in order.
LEMMA SeatSeen ==
    ASSUME TypeOK, NEW k \in Licenses, NEW x \in Devices, SeatStep(db', k, x), now' = now,
           NEW l \in Licenses
    PROVE  [Seen(l)!Next]_(Seen(l)!vars)
<1>1. PICK i \in Installs :
          /\ db.lic[k].status = "active" /\ ~ Overdue(k)
          /\ db' = Activate(Enrol(db, x, i), k, x)
  BY DEF SeatStep
<1>2. db \in Database /\ Enrol(db, x, i) \in Database
  BY EnrolType DEF TypeOK
<1>3. db'.lic = db.lic /\ \A m \in Licenses, y \in Devices :
          db'.act[m][y] = IF m = k /\ y = x THEN "active" ELSE db.act[m][y]
  BY <1>1, <1>2, EnrolFields, ActivateFields
<1>4. InOrder(l)' = InOrder(l)
  BY <1>3, SameOrder
<1>5. CASE l # k
  <2>1. SeatsSeen(db', l) = SeatsSeen(db, l)
    BY <1>3, <1>5 DEF SeatsSeen
  <2> QED
    BY <2>1, SameSeats
<1>6. CASE l = k
  <2>1. InOrder(l)
    BY <1>1, <1>6 DEF InOrder
  <2>2. SeatsSeen(db', l) = [SeatsSeen(db, l) EXCEPT ![x] = "active"]
    BY <1>3, <1>6 DEF SeatsSeen
  <2>3. Seen(l)!Accept(x)
    BY <1>4, <2>1, <2>2 DEF Seen!Accept, SeatsSeen
  <2> QED
    BY <2>3 DEF Seen!Next
<1> QED
  BY <1>5, <1>6

\* What every other handler makes of the database.
LEMMA DbStepSeen ==
    ASSUME TypeOK, DbStep(db'), now' = now, NEW l \in Licenses
    PROVE  [Seen(l)!Next]_(Seen(l)!vars)
<1>1. db \in Database /\ \A r \in pending : r.tok \in Token
  BY DEF TypeOK, Request
<1>2. ASSUME db'.act[l] = db.act[l] PROVE [Seen(l)!Next]_(Seen(l)!vars)
  BY <1>2, SameSeats DEF SeatsSeen
<1>3. CASE db' = db
  BY <1>2, <1>3
<1>4. CASE \E k \in Licenses, a \in AppNames, m \in Limits, t \in Deadlines :
               db' = Created(db, k, a, m, t)
  BY <1>1, <1>2, <1>4 DEF Created, Database
<1>5. CASE \E k \in Licenses, s \in {"active", "suspended", "expired"} :
               db' = WithStatus(db, k, s)
  BY <1>1, <1>2, <1>5 DEF WithStatus, Database
<1>6. ASSUME NEW k \in Licenses, db' = Revoked(db, k)
      PROVE  [Seen(l)!Next]_(Seen(l)!vars)
  <2>1. CASE l = k
    BY <1>6, <2>1, RevokedSeen DEF Seen!Next
  <2>2. CASE l # k
    BY <1>1, <1>2, <1>6, <2>2 DEF Revoked, Database
  <2> QED
    BY <2>1, <2>2
<1>7. CASE \/ \E x \in Devices, s \in {"active", "blocked"} : db' = WithDevice(db, x, s)
           \/ \E x \in Devices, i \in Installs : db' = Enrol(db, x, i)
  BY <1>1, <1>2, <1>7 DEF WithDevice, Enrol, Database
<1>8. ASSUME NEW x \in Devices, db' = Unbound(db, x)
      PROVE  [Seen(l)!Next]_(Seen(l)!vars)
  <2>1. db'.lic = db.lic /\ \A y \in Devices :
            db'.act[l][y] = IF y = x /\ db.act[l][y] = "active" THEN "deactivated"
                            ELSE db.act[l][y]
    BY <1>1, <1>8 DEF Unbound, Database
  <2>2. \A y \in Devices : db.act[l][y] \in ActivationStatus
    BY <1>1 DEF Database
  <2>3. \A y \in Devices : SeatsSeen(db', l)[y] =
            IF y = x /\ SeatsSeen(db, l)[y] # "none" THEN "ended" ELSE SeatsSeen(db, l)[y]
    BY <2>1, <2>2 DEF SeatsSeen, ActivationStatus
  <2> QED
    BY <2>1, <2>3, SameOrder, EndSeen
<1>9. ASSUME NEW t \in Token, db' = Deactivated(db, t)
      PROVE  [Seen(l)!Next]_(Seen(l)!vars)
  <2>1. CASE l # t.lic \/ db.act[t.lic][t.dev] = "none"
    BY <1>1, <1>2, <1>9, <2>1 DEF Deactivated, Database
  <2>2. CASE l = t.lic /\ db.act[t.lic][t.dev] # "none"
    <3>1. t.dev \in Devices /\ db'.lic = db.lic /\ \A y \in Devices :
              db'.act[l][y] = IF y = t.dev THEN "deactivated" ELSE db.act[l][y]
      BY <1>1, <1>9, <2>2 DEF Deactivated, Database, Token
    <3>2. \A y \in Devices : SeatsSeen(db', l)[y] =
              IF y = t.dev /\ SeatsSeen(db, l)[y] # "none" THEN "ended"
              ELSE SeatsSeen(db, l)[y]
      BY <2>2, <3>1 DEF SeatsSeen
    <3> QED
      BY <3>1, <3>2, SameOrder, EndSeen
  <2> QED
    BY <2>1, <2>2
<1> QED
  BY <1>1, <1>3, <1>4, <1>5, <1>6, <1>7, <1>8, <1>9 DEF DbStep

\* Every step is one of the server that module Client presumes, but a restart that
\* forgets.
LEMMA StepSeen ==
    ASSUME TypeOK, [Next]_vars, ~ Forgets, NEW l \in Licenses
    PROVE  [Seen(l)!Next]_(Seen(l)!vars)
<1>1. CASE db' = db
  BY <1>1, SameSeats
<1>2. CASE now' = now /\ DbStep(db')
  BY <1>2, DbStepSeen
<1>3. CASE now' = now /\ \E k \in Licenses, x \in Devices : SeatStep(db', k, x)
  BY <1>3, SeatSeen
<1>4. Restart \/ Tick => db' = db
  BY DEF Forgets, Restart, Tick, Unsaved
<1> QED
  BY <1>1, <1>2, <1>3, <1>4, StepShapeHolds, ClockTicks DEF StepShape

\* The server of internal/licensecore/server.go serves the installations of every licence
\* as module Client lets its server do, except that a restart after a failed save goes
\* back to what was saved: what Client's theorems take for granted of the server.
THEOREM ServesEveryInstallation == Spec => ServesInstallations
<1>1. TypeOK /\ [Next]_vars =>
          [Forgets \/ \A l \in Licenses : [Seen(l)!Next]_(Seen(l)!vars)]_vars
  BY StepSeen
<1> QED
  BY <1>1, TypeCorrect, PTL DEF Spec, ServesInstallations

\* So as long as every save succeeds, whatever crashes and restarts there are, each
\* licence implements ServerView, from which Client takes its server.
THEOREM LicensingImplementsView ==
    ASSUME NEW l \in Licenses
    PROVE  Spec /\ [](failures = 0) => Seen(l)!Spec
<1>1. Init => Seen(l)!Init
  BY DEF Init, EmptyDatabase, Seen!Init, InOrder
<1>2. TypeOK /\ NothingUnsaved /\ failures = 0 /\ [Next]_vars
      => [Seen(l)!Next]_(Seen(l)!vars)
  BY StepSeen DEF NothingUnsaved, Forgets
<1> QED
  BY <1>1, <1>2, TypeCorrect, NothingIsUnsaved, PTL DEF Spec, Seen!Spec
=============================================================================
