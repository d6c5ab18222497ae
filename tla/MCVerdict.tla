------------------------------ MODULE MCVerdict ------------------------------
(* A small instance of Verdict for TLC. *)
EXTENDS Verdict, TLC

CONSTANTS d1, h, basic

\* 0.9, 1, 1.0, 1.0-rc, 1.0.2, 1.2, 1-rc.2, 2 and beta
MCVersions ==
    {<<0, 9>>, <<1>>, <<1, 0>>, <<1, 0, Word>>, <<1, 0, 2>>, <<1, 2>>, <<1, Word, 2>>,
     <<2>>, <<Word>>}

MCBucket(i, d) == (2 * i + IF d = d1 THEN 0 ELSE 2) % Full

NoHashes == [f \in Fields |-> NoHash]
AllHashes == [f \in Fields |-> h]

\* Two versions, each with a build number.  Only of an active release is anything more
\* said: its rollout, a minimum, that it is mandatory, or its hashes.
Built == {[version |-> <<1, 0>>, build |-> 1], [version |-> <<1, 2>>, build |-> 2]}

\* One of them without, or with one that contradicts the version order.
Misbuilt == [version: {<<1, 2>>}, build: {-1, 0}]

Plain ==
    [status |-> "active", rollout |-> Full, mandatory |-> FALSE, minimum |-> NoVersion,
     expected |-> NoHashes]

WithMinimum == {[Plain EXCEPT !.rollout = 0, !.minimum = v] : v \in {<<1, 0>>, <<1, 2>>}}

Special ==
    {[Plain EXCEPT !.rollout = p] : p \in {-1, 1, 2, Full + 1}} \cup
    WithMinimum \cup
    {[Plain EXCEPT !.status = s] : s \in {"deprecated", "blocked", "other"}} \cup
    {[Plain EXCEPT !.mandatory = TRUE], [Plain EXCEPT !.expected = AllHashes]}

\* Of these the last two are refused.
MCSent ==
    [mode: {"allow", "watermark"}, requires: {basic}] \cup
    {[mode |-> "other", requires |-> basic], [mode |-> "allow", requires |-> NoEntitlement]}

MCRows == {x[1] @@ x[2] : x \in (Built \X Special) \cup (Misbuilt \X WithMinimum)}

\* Clients of a version that may be registered, of another and of none, with all
\* hashes right, wrong or missing, or one; and signals that make each of the levels.
MCReports ==
    [version: {<<1, 0>>}, hash: {NoHashes, AllHashes, [f \in Fields |-> Forged]},
     signals: {{"debugger"}}, modules: {0, MaxModules}]
    \cup [version: {<<1, 0>>}, hash: {NoHashes, AllHashes}, signals: {{}}, modules: {0}]
    \cup [version: {<<1, 0>>}, hash: {[AllHashes EXCEPT !["manifest"] = x] : x \in {NoHash, Forged}},
          signals: {{}}, modules: {0}]
    \cup [version: {<<2>>}, hash: {NoHashes}, signals: {{}, {"debugger"}, {"debugger", "vm"}},
          modules: {0}]
    \cup [version: {NoVersion}, hash: {NoHashes}, signals: {{}, {"database"}}, modules: {0}]
=============================================================================
