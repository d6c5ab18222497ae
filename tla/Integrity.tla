------------------------------ MODULE Integrity ------------------------------
(***************************************************************************)
(* What the server concludes from the evidence a client sends with an        *)
(* activation, a verification or a heartbeat (evaluateIntegrityLocked), and  *)
(* how long a token it signs then lives.                                     *)
(***************************************************************************)
EXTENDS Releases, FiniteSets

CONSTANT MaxModules   \* bound: suspicious modules in one report

\* A hash the client leaves out is no mismatch for these, but is for the others.
LenientFields == {"binary", "signer"}

\* Signals that do not depend on the release: an invalid signature of the business
\* manifest, a failed business or database self-check, a debugger, a virtual machine.
Signals == {"signature", "business", "database", "debugger", "vm"}

Evidence ==
    [version: Versions \cup {NoVersion},
     hash: [Fields -> Hashes \cup {NoHash}],
     signals: SUBSET Signals,
     modules: 0..MaxModules]

Mismatched_FaultSkipsEmpty(row, evidence) ==
    {f \in Fields : /\ row.expected[f] # NoHash
                    /\ evidence.hash[f] \notin {row.expected[f], NoHash}}

Mismatched(row, evidence) ==
    {f \in Fields : /\ row.expected[f] # NoHash
                    /\ evidence.hash[f] # row.expected[f]
                    /\ f \in LenientFields => evidence.hash[f] # NoHash}

\* What is held against the client.
FindingsOf(releases, evidence) ==
    LET i == Named(releases, evidence.version)
        modules == IF evidence.modules > 0 THEN {"modules"} ELSE {}
    IN  evidence.signals \cup modules \cup
        (IF evidence.version = NoVersion THEN {}
         ELSE IF i = 0 THEN {"unknown"}
         ELSE ({releases[i].status} \cap {"deprecated", "blocked"}) \cup Mismatched(releases[i], evidence))

\* Only these deny; all of them are heavy enough for a high risk.
Denying == {"blocked", "binary", "signer", "manifest", "schema", "tables", "assets",
            "workflow", "signature", "business", "database"}

Denied(releases, evidence) == FindingsOf(releases, evidence) \cap Denying # {}

Capped(score) == IF score > 100 THEN 100 ELSE score

Score(releases, evidence) ==
    LET findings == FindingsOf(releases, evidence)
        Count(S) == Cardinality(findings \cap S)
    IN  Capped(10 + 12 * Count({"vm"}) + 20 * Count({"unknown"})
               + (20 + 8 * evidence.modules) * Count({"modules"})
               + 35 * Count({"deprecated"}) + 40 * Count({"debugger"})
               + 80 * Count({"signer"}) + 90 * Count({"binary", "manifest", "signature"})
               + 85 * Count({"blocked", "schema", "tables", "assets", "workflow",
                             "business", "database"}))

Level(score) == IF score >= 80 THEN "high" ELSE IF score >= 45 THEN "medium" ELSE "low"

\* processClientVerification: of the token, when one is signed.
Lifetime(level, long, short) == IF level \in {"medium", "high"} THEN short ELSE long
=============================================================================
