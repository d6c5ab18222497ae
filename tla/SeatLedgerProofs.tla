-------------------------- MODULE SeatLedgerProofs --------------------------
(* What the ledger of seats comes to, for every value of its constants. *)
EXTENDS SeatLedger, TLAPS

\* LedgerInv of one account, when V is vouched for; and it is empty until it is opened.
Fair(account, l, V) ==
    /\ account \in Account
    /\ account.seated \cap account.former = {}
    /\ account.standing = "revoked" => account.seated = {}
    /\ account.standing = "absent" => account.seated = {} /\ account.former = {}
    /\ \A x \in Devices : <<l, x>> \in V => x \in account.seated \cup account.former

FairBook(b, V) ==
    /\ b = [l \in Licenses |-> b[l]]
    /\ \A l \in Licenses : Fair(b[l], l, V)

FairBooks == FairBook(book, vouched) /\ FairBook(durable, vouched)

\* Leaving keeps an account fair: who leaves is remembered.
LEMMA LeavesFair ==
    ASSUME NEW account, NEW l, NEW V, Fair(account, l, V), NEW X \in SUBSET Devices
    PROVE  /\ Fair(Leaves(account, X), l, V)
           /\ X = Devices => Fair([Leaves(account, X) EXCEPT !.standing = "revoked"], l, V)
<1> DEFINE e == Leaves(account, X)
<1>1. /\ e \in Account /\ e.standing = account.standing
      /\ e.seated = account.seated \ X
      /\ e.former = account.former \cup (X \cap account.seated)
  BY DEF Leaves, Fair, Account
<1> HIDE DEF e
<1>2. Fair(e, l, V)
  BY <1>1 DEF Fair
<1>3. ASSUME X = Devices
      PROVE  Fair([e EXCEPT !.standing = "revoked"], l, V)
  <2> DEFINE g == [e EXCEPT !.standing = "revoked"]
  <2>1. /\ g \in Account /\ g.standing = "revoked"
        /\ g.seated = e.seated /\ g.former = e.former
    BY <1>1 DEF Account, Standing
  <2>2. e.seated = {}
    BY <1>1, <1>3 DEF Fair, Account
  <2> HIDE DEF g
  <2> QED
    BY <1>2, <2>1, <2>2 DEF Fair, g
<1> QED
  BY <1>2, <1>3 DEF e

\* So does sitting, and it may be vouched for.
LEMMA SitsFair ==
    ASSUME NEW account, NEW l, NEW V, Fair(account, l, V), NEW x \in Devices,
           MaySit(account, x), NEW W, W \in {V, V \cup {<<l, x>>}}
    PROVE  Fair(Sits(account, x), l, W)
<1> DEFINE e == Sits(account, x)
<1>1. /\ e \in Account /\ e.standing = account.standing
      /\ e.seated = account.seated \cup {x} /\ e.former = account.former \ {x}
  BY DEF Sits, Fair, Account
<1>2. account.standing = "open"
  BY DEF MaySit
<1> HIDE DEF e
<1>3. Fair(e, l, W)
  BY <1>1, <1>2 DEF Fair
<1> QED
  BY <1>3 DEF e

\* A change of standing other than revocation keeps an account fair.
LEMMA StandingFair ==
    ASSUME NEW account, NEW l, NEW V, Fair(account, l, V), NEW s \in {"open", "held"}
    PROVE  Fair([account EXCEPT !.standing = s], l, V)
<1> DEFINE e == [account EXCEPT !.standing = s]
<1>1. /\ e \in Account /\ e.standing = s
      /\ e.seated = account.seated /\ e.former = account.former
  BY DEF Fair, Account, Standing
<1> HIDE DEF e
<1>2. Fair(e, l, V)
  BY <1>1 DEF Fair
<1> QED
  BY <1>2 DEF e

\* Every account stays a set of seats: nobody is seated and formerly seated at once, a
\* revoked account is empty, and a seat that was vouched for is never forgotten, in the
\* book and on disk, for any number of licences and devices and through every crash.
THEOREM LedgerKeepsItsPromise == Spec => []LedgerInv
<1>1. Init => FairBooks
  <2> SUFFICES ASSUME Init
               PROVE  FairBook(book, {})
    BY DEF FairBooks, Init
  <2>1. \A l \in Licenses : Fair(NewAccount("absent", 0), l, {})
    BY DEF NewAccount, Fair, Account, Standing
  <2> QED
    BY <2>1 DEF Init, FairBook
<1>2. FairBooks /\ [Next]_vars => FairBooks'
  <2> SUFFICES ASSUME FairBooks, [Next]_vars
               PROVE  FairBook(book', vouched') /\ FairBook(durable', vouched')
    BY DEF FairBooks, FairBook, Fair
  <2>1. FairBook(book, vouched) /\ FairBook(durable, vouched)
    BY DEF FairBooks
  <2>2. ASSUME NEW b, FairBook(b, vouched), Entered(b), UNCHANGED vouched
        PROVE  FairBook(book', vouched') /\ FairBook(durable', vouched')
    BY <2>1, <2>2 DEF Entered
  <2>3. ASSUME NEW l \in Licenses, NEW account, Fair(account, l, vouched)
        PROVE  FairBook([book EXCEPT ![l] = account], vouched)
    BY <2>1, <2>3 DEF FairBook
  <2>4. ASSUME NEW l \in Licenses, NEW max \in Limits, Open(l, max)
        PROVE  FairBook(book', vouched') /\ FairBook(durable', vouched')
    <3>1. Fair(NewAccount("open", max), l, vouched)
      BY <2>1, <2>4 DEF Open, FairBook, Fair, NewAccount, Account, Standing
    <3> QED
      BY <2>2, <2>3, <2>4, <3>1 DEF Open
  <2>5. ASSUME NEW l \in Licenses, Reinstate(l) \/ Hold(l)
        PROVE  FairBook(book', vouched') /\ FairBook(durable', vouched')
    <3>1. \A s \in {"open", "held"} : Fair([book[l] EXCEPT !.standing = s], l, vouched)
      BY <2>1, <2>5, StandingFair DEF FairBook, Reinstate, Hold
    <3> QED
      BY <2>2, <2>3, <2>5, <3>1 DEF Reinstate, Hold
  <2>6. ASSUME NEW l \in Licenses, Revoke(l)
        PROVE  FairBook(book', vouched') /\ FairBook(durable', vouched')
    <3>1. Fair([Leaves(book[l], Devices) EXCEPT !.standing = "revoked"], l, vouched)
      BY <2>1, LeavesFair DEF FairBook
    <3> QED
      BY <2>2, <2>3, <2>6, <3>1 DEF Revoke
  <2>7. ASSUME NEW x \in Devices, NEW L \in SUBSET Licenses, Leave(x, L)
        PROVE  FairBook(book', vouched') /\ FairBook(durable', vouched')
    <3>1. \A l \in Licenses : Fair(Leaves(book[l], {x}), l, vouched)
      BY <2>1, LeavesFair DEF FairBook
    <3>2. FairBook([l \in Licenses |-> IF l \in L THEN Leaves(book[l], {x}) ELSE book[l]],
                   vouched)
      BY <2>1, <3>1 DEF FairBook
    <3> QED
      BY <2>2, <2>7, <3>2 DEF Leave
  <2>8. ASSUME NEW l \in Licenses, NEW x \in Devices, Sit(l, x)
        PROVE  FairBook(book', vouched') /\ FairBook(durable', vouched')
    <3>1. Fair(Sits(book[l], x), l, vouched)
      BY <2>1, <2>8, SitsFair DEF FairBook, Sit
    <3> QED
      BY <2>2, <2>3, <2>8, <3>1 DEF Sit
  <2>9. ASSUME NEW l \in Licenses, NEW x \in Devices, Vouch(l, x)
        PROVE  FairBook(book', vouched') /\ FairBook(durable', vouched')
    <3>1. Fair(Sits(book[l], x), l, vouched')
      BY <2>1, <2>9, SitsFair DEF FairBook, Vouch
    <3>2. \A k \in Licenses \ {l} : Fair(book[k], k, vouched')
      BY <2>1, <2>9 DEF FairBook, Fair, Vouch
    <3>3. FairBook([book EXCEPT ![l] = Sits(@, x)], vouched')
      BY <2>1, <3>1, <3>2 DEF FairBook
    <3> QED
      BY <2>9, <3>3 DEF Vouch, Confirmed
  <2>10. CASE Persist
    BY <2>1, <2>2, <2>10 DEF Persist
  <2>11. CASE Crash
    BY <2>1, <2>11 DEF Crash
  <2>12. CASE UNCHANGED vars
    BY <2>1, <2>12 DEF vars
  <2> QED
    BY <2>4, <2>5, <2>6, <2>7, <2>8, <2>9, <2>10, <2>11, <2>12 DEF Next
<1>3. FairBooks => LedgerInv
  BY DEF FairBooks, FairBook, Fair, LedgerInv
<1> QED
  BY <1>1, <1>2, <1>3, PTL DEF Spec
=============================================================================
