---------------------------- MODULE Capabilities ----------------------------
(***************************************************************************)
(* From a capability policy an administrator sends to the decision about a   *)
(* licence's use of the capability, asked online (handleCapabilityCheck) or  *)
(* read from the bundle signed with the token.  Names and modes are taken up *)
(* to surrounding space and, for modes, letter case.                         *)
(***************************************************************************)
CONSTANTS
    Entitlements,
    NoEntitlement,  \* the empty string
    NoPolicy        \* no policy for the capability: nil

Modes == {"allow", "block", "hide", "readonly", "degrade", "watermark", "warn"}

\* What may be sent: any mode, or none, any requirement, or none.
Items == [mode: Modes \cup {"", "other"}, requires: Entitlements \cup {NoEntitlement}]

ASSUME CapabilitiesAssumption ==
    /\ NoEntitlement \notin Entitlements
    /\ NoPolicy \notin Items

NormalMode(mode) == IF mode = "" THEN "block" ELSE mode

\* normalizeCapabilityPolicy: everything else is answered INVALID_POLICY.
Acceptable(item) ==
    NormalMode(item.mode) \in Modes /\ item.requires # NoEntitlement

Policy(item) == [item EXCEPT !.mode = NormalMode(@)]

\* hasEntitlement
Entitled(entitlements, requires) ==
    requires = NoEntitlement \/ requires \in entitlements

Decided(allowed, effective, reason) ==
    [allowed |-> allowed, effective |-> effective, reason |-> reason]

Decision_FaultKeepsAllow(item, entitlements) ==
    IF item = NoPolicy THEN Decided(FALSE, "block", "unknown_capability")
    ELSE IF Entitled(entitlements, item.requires) THEN Decided(TRUE, "allow", "")
    ELSE Decided(FALSE, item.mode, "missing_entitlement")

\* capabilityDecision
Decision(item, entitlements) ==
    IF item = NoPolicy THEN Decided(FALSE, "block", "unknown_capability")
    ELSE IF Entitled(entitlements, item.requires) THEN Decided(TRUE, "allow", "")
    ELSE LET mode == IF item.mode \in Modes \ {"allow"} THEN item.mode ELSE "block"
         IN  Decided(FALSE, mode, "missing_entitlement")
=============================================================================
