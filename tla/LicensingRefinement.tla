------------------------ MODULE LicensingRefinement ------------------------
(***************************************************************************)
(* Licensing implements SeatLedger: every handler of the server, with its   *)
(* failing saves and its restarts, is one step of the ledger or none.  And   *)
(* to the installations of each licence it is the server of module Client.   *)
(***************************************************************************)
EXTENDS Licensing

StandingOf(status) ==
    CASE status = "none" -> "absent"
      [] status = "active" -> "open"
      [] status = "revoked" -> "revoked"
      [] OTHER -> "held"

\* The ledger's accounts in a database.
Accounts(d) ==
    [l \in Licenses |->
        [standing |-> StandingOf(d.lic[l].status),
         max      |-> d.lic[l].max,
         seated   |-> SeatsTaken(d, l),
         former   |-> {x \in Devices : d.act[l][x] \in {"deactivated", "blocked"}}]]

Ledger == INSTANCE SeatLedger WITH
    book    <- Accounts(db),
    durable <- Accounts(store),
    vouched <- {<<t.lic, t.dev>> : t \in tokens}

\* The server keeps the promises of the ledger: a first seat only within
\* max_devices, no seat of a revoked or suspended licence, no record of a seat
\* lost, a token only for a seat that is already on disk, whatever handlers run
\* in whatever order and whichever saves fail.
ImplementsLedger == Ledger!Spec

----------------------------------------------------------------------------
(* The server that module Client presumes *)

InOrder(l) == db.lic[l].status = "active" /\ ~ Overdue(l)

\* Licence l as its installations see it.  An activation that was blocked with
\* its licence, or ended by anyone, is ended.
Seen(l) == INSTANCE ServerView WITH
    Ids      <- Devices,
    licensed <- InOrder(l),
    seat     <- [x \in Devices |-> IF db.act[l][x] \in {"deactivated", "blocked"}
                                  THEN "ended" ELSE db.act[l][x]]

\* The one step an installation does not expect: a server that restarts after
\* a failed save goes back to what it had saved.
Forgets == Restart /\ db # store

\* Whatever handlers run for other devices and licences, whatever administrators
\* do and time takes away: every licence changes only as module Client lets the
\* server change it under an installation's eyes, except when it forgets.
ServesInstallations ==
    [][Forgets \/ \A l \in Licenses : [Seen(l)!Next]_(Seen(l)!vars)]_vars
=============================================================================
