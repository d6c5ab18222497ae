------------------------------ MODULE Settings ------------------------------
(***************************************************************************)
(* The system settings: what PATCH /admin/settings, or an old store, gives   *)
(* is put into a normal form, on every write and again on every read.        *)
(***************************************************************************)
EXTENDS Integers

Tunables ==
    {"token_ttl", "risk_ttl", "grace_days", "max_devices", "license_days", "audit_days"}

\* defaultSystemSettings; the two lifetimes of a token in minutes.
Defaults ==
    [token_ttl |-> 720, risk_ttl |-> 30, grace_days |-> 7, max_devices |-> 3,
     license_days |-> 365, audit_days |-> 365]

\* The settings of a store that has none.
Unset == [t \in Tunables |-> 0]

Lowest ==
    [token_ttl |-> 5, risk_ttl |-> 5, grace_days |-> 0, max_devices |-> 1,
     license_days |-> 1, audit_days |-> 7]

Highest ==
    [token_ttl |-> 43200, risk_ttl |-> 43200, grace_days |-> 30, max_devices |-> 1000,
     license_days |-> 3650, audit_days |-> 3650]

Clamp(value, low, high) ==
    IF value < low THEN low ELSE IF value > high THEN high ELSE value

\* No grace at all can be asked for; any other 0 is a setting that is missing.
Given(settings) ==
    [t \in Tunables |->
        IF settings[t] > 0 \/ (t = "grace_days" /\ settings[t] = 0)
        THEN settings[t] ELSE Defaults[t]]

Normalized_FaultEachAlone(settings) ==
    [t \in Tunables |-> Clamp(Given(settings)[t], Lowest[t], Highest[t])]

\* normalizeSystemSettings: each into its range, and the lifetime of a risky token
\* into that of any token.
Normalized(settings) ==
    LET n == [t \in Tunables |-> Clamp(Given(settings)[t], Lowest[t], Highest[t])]
    IN  [n EXCEPT !.risk_ttl = Clamp(Given(settings)["risk_ttl"], 5, n.token_ttl)]
=============================================================================
