----------------------------- MODULE SeatLedger -----------------------------
(***************************************************************************)
(* What the licence server promises about seats, without saying how: no    *)
(* challenges, no tokens, no clock, no handlers.  A licence is an account   *)
(* with a number of seats, the devices seated on it, and the devices that   *)
(* were.  book is what the server goes by, durable what it finds again      *)
(* after a crash, vouched the seats a client has been given a token for.    *)
(* Licensing is shown to implement this in LicensingRefinement.             *)
(***************************************************************************)
EXTENDS Integers, FiniteSets

CONSTANTS
    Licenses,   \* licence identities
    Devices,    \* device fingerprints
    Limits      \* numbers of seats a licence may be given

VARIABLES book, durable, vouched

vars == <<book, durable, vouched>>

\* "absent": never created; "open": seats may be taken; "held": suspended or
\* expired; "revoked".
Standing == {"absent", "open", "held", "revoked"}

Account == [standing: Standing, max: Limits \cup {0}, seated: SUBSET Devices,
            former: SUBSET Devices]

NewAccount(standing, max) ==
    [standing |-> standing, max |-> max, seated |-> {}, former |-> {}]

----------------------------------------------------------------------------
(* A change is in the book at once and on disk perhaps; what is answered for *)
(* is on disk.                                                               *)

Entered(b) == book' = b /\ durable' \in {durable, b}
Confirmed(b) == book' = b /\ durable' = b

Leaves(account, X) ==
    [account EXCEPT !.seated = @ \ X, !.former = @ \cup (X \cap account.seated)]

\* A device that had a seat may have it back; a new one needs a free seat.
MaySit(account, x) ==
    /\ account.standing = "open"
    /\ \/ x \in account.seated \cup account.former
       \/ Cardinality(account.seated) < account.max

Sits(account, x) ==
    [account EXCEPT !.seated = @ \cup {x}, !.former = @ \ {x}]

----------------------------------------------------------------------------
Open(l, max) ==
    /\ book[l].standing = "absent"
    /\ Entered([book EXCEPT ![l] = NewAccount("open", max)])
    /\ UNCHANGED vouched

Reinstate(l) ==
    /\ book[l].standing # "absent"
    /\ Entered([book EXCEPT ![l].standing = "open"])
    /\ UNCHANGED vouched

Hold(l) ==
    /\ book[l].standing # "absent"
    /\ Entered([book EXCEPT ![l].standing = "held"])
    /\ UNCHANGED vouched

Revoke(l) ==
    /\ book[l].standing # "absent"
    /\ Entered([book EXCEPT ![l] = [Leaves(@, Devices) EXCEPT !.standing = "revoked"]])
    /\ UNCHANGED vouched

\* The device leaves the accounts of L.
Leave(x, L) ==
    /\ Entered([l \in Licenses |-> IF l \in L THEN Leaves(book[l], {x}) ELSE book[l]])
    /\ UNCHANGED vouched

\* A seat taken without a token: the client is told nothing.
Sit(l, x) ==
    /\ MaySit(book[l], x)
    /\ Entered([book EXCEPT ![l] = Sits(@, x)])
    /\ UNCHANGED vouched

\* A token leaves only for a seat that is on disk.
Vouch(l, x) ==
    /\ MaySit(book[l], x)
    /\ Confirmed([book EXCEPT ![l] = Sits(@, x)])
    /\ vouched' = vouched \cup {<<l, x>>}

\* Some other change was saved, and the book with it.
Persist == Entered(book) /\ UNCHANGED vouched

Crash == book' = durable /\ UNCHANGED <<durable, vouched>>

----------------------------------------------------------------------------
Init ==
    /\ book = [l \in Licenses |-> NewAccount("absent", 0)]
    /\ durable = book
    /\ vouched = {}

Next ==
    \/ \E l \in Licenses, max \in Limits : Open(l, max)
    \/ \E l \in Licenses : Reinstate(l) \/ Hold(l) \/ Revoke(l)
    \/ \E x \in Devices, L \in SUBSET Licenses : Leave(x, L)
    \/ \E l \in Licenses, x \in Devices : Sit(l, x) \/ Vouch(l, x)
    \/ Persist
    \/ Crash

Spec == Init /\ [][Next]_vars

\* What the ledger comes to: every account is a set of seats, no device both
\* seated and formerly seated, a revoked account is empty, and a seat a client
\* holds a token for is never forgotten, in the book and on disk.
LedgerInv ==
    \A b \in {book, durable} :
        /\ b \in [Licenses -> Account]
        /\ \A l \in Licenses :
               /\ b[l].seated \cap b[l].former = {}
               /\ b[l].standing = "revoked" => b[l].seated = {}
               /\ \A x \in Devices : <<l, x>> \in vouched => x \in b[l].seated \cup b[l].former
=============================================================================
