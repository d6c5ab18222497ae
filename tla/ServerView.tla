----------------------------- MODULE ServerView -----------------------------
(***************************************************************************)
(* What one installation sees of the licence server: whether its licence is *)
(* in order, and the activation of each install id it may present.  Client   *)
(* takes its server's side from here; that the handlers of the server, for   *)
(* whatever clients and administrators, do no more to any of its licences    *)
(* than the actions below is shown in LicensingRefinement.                   *)
(***************************************************************************)

CONSTANT Ids    \* install ids; the device fingerprint follows the id

VARIABLES
    licensed,   \* the licence is active and not past its deadline
    seat        \* the activation of each install id: "none", "active", "ended"

vars == <<licensed, seat>>

\* What an installation needs to be served.
Standing(i) == licensed /\ seat[i] = "active"

----------------------------------------------------------------------------
\* An activation or a verification is accepted: the seat is taken or kept.
Accept(i) ==
    /\ licensed
    /\ seat' = [seat EXCEPT ![i] = "active"]
    /\ UNCHANGED licensed

\* Deactivated by the client, or unbound by an administrator.
End(i) ==
    /\ seat' = [seat EXCEPT ![i] = IF @ = "none" THEN "none" ELSE "ended"]
    /\ UNCHANGED licensed

\* Revocation ends every seat.
Revoke ==
    /\ licensed' = FALSE
    /\ seat' = [i \in Ids |-> IF seat[i] = "none" THEN "none" ELSE "ended"]

\* The licence is suspended, or its deadline passes: the seats stay.
Withdraw == licensed /\ licensed' = FALSE /\ UNCHANGED seat

\* It is created or resumed, with the seats it has.
Restore == ~ licensed /\ licensed' = TRUE /\ UNCHANGED seat

Init == licensed \in BOOLEAN /\ seat = [i \in Ids |-> "none"]

Next ==
    \/ \E i \in Ids : Accept(i) \/ End(i)
    \/ Revoke \/ Withdraw \/ Restore

Spec == Init /\ [][Next]_vars
=============================================================================
