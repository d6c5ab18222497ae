------------------------------ MODULE Releases ------------------------------
(***************************************************************************)
(* The releases of one app on one platform (AppRelease; every search skips   *)
(* the rows of others), the version order, and the advice to update that a   *)
(* verification answers with (updateInfoLocked).                             *)
(*                                                                           *)
(* A version is the sequence of the parts between its separators: a number,  *)
(* or Word for a part that does not begin with a digit.  releases is the      *)
(* sequence of rows in the order they were created; 0 stands for no row.     *)
(***************************************************************************)
EXTENDS Integers, Sequences, FiniteSets, FiniteSetsExt

CONSTANTS
    Versions,       \* versions clients run and administrators name
    NoVersion,      \* the empty string
    Word,           \* a part that is no number
    Devices,
    NoDevice,       \* the empty string
    Full,           \* 100, the rollout that reaches every device
    Bucket(_, _),   \* the hash of a release's and a device's id, in 0..Full-1
    Fields,         \* hashes a release may register
    Hashes,
    NoHash,         \* the empty string
    MaxBuild,       \* the greatest int of the build, 2^63 - 1 with Go on 64 bits
    MaxReleases     \* bound: releases

ASSUME ReleasesAssumption ==
    /\ \A v \in Versions : v \in Seq(Nat \cup {Word}) /\ v # NoVersion
    /\ Word \notin Nat
    /\ MaxBuild \in Nat
    /\ MaxReleases \in Nat
    /\ Full \in Nat \ {0}
    /\ \A i \in 1..MaxReleases, d \in Devices : Bucket(i, d) \in 0..(Full - 1)
    /\ NoDevice \notin Devices
    /\ NoHash \notin Hashes

\* Any string is accepted; one that means nothing to the server is "other".
Statuses == {"active", "deprecated", "blocked", "other"}

\* 0 is no build number; negative ones are accepted.
Builds == (-MaxBuild - 1)..MaxBuild

Row(Rollouts) ==
    [version: Versions, build: Builds, status: Statuses, mandatory: BOOLEAN,
     rollout: Rollouts, minimum: Versions \cup {NoVersion},
     expected: [Fields -> Hashes \cup {NoHash}]]

Release == Row(0..Full)

----------------------------------------------------------------------------
(* The version order *)

IsNumber(v, k) == v[k] # Word

\* splitVersionParts leaves out the words; compareVersionStrings takes what is missing
\* at the end for 0.
Part(v, i) ==
    LET at == {k \in DOMAIN v :
                  IsNumber(v, k) /\ Cardinality({j \in 1..k : IsNumber(v, j)}) = i}
    IN  IF at = {} THEN 0 ELSE v[CHOOSE k \in at : TRUE]

Older_FaultShorterFirst(l, r) ==
    LET numbers(v) == Cardinality({k \in DOMAIN v : IsNumber(v, k)})
    IN  \/ numbers(l) < numbers(r)
        \/ \E i \in DOMAIN l : Part(l, i) < Part(r, i)

\* compareVersionStrings(l, r) < 0: the first difference decides.
Older(l, r) ==
    \E i \in DOMAIN l \cup DOMAIN r :
        /\ Part(l, i) < Part(r, i)
        /\ \A j \in 1..(i - 1) : Part(l, j) = Part(r, j)

----------------------------------------------------------------------------
(* Searches *)

RowsOf(releases, v) == {i \in DOMAIN releases : releases[i].version = v}

Named_FaultFirst(releases, v) ==
    IF RowsOf(releases, v) = {} THEN 0 ELSE Min(RowsOf(releases, v))

\* findReleaseLocked: the first blocked row of the version, or else the first.
Named(releases, v) ==
    LET rows == RowsOf(releases, v)
        blocked == {i \in rows : releases[i].status = "blocked"}
    IN  IF rows = {} THEN 0 ELSE Min(IF blocked = {} THEN rows ELSE blocked)

\* latestReleaseLocked: the highest build number, of these the newest row.
Latest(releases) ==
    LET active == {i \in DOMAIN releases : releases[i].status = "active"}
        first(i) == \A j \in active : \/ releases[j].build < releases[i].build
                                      \/ releases[j].build = releases[i].build /\ j <= i
    IN  IF active = {} THEN 0 ELSE CHOOSE i \in active : first(i)

----------------------------------------------------------------------------
(* The advice *)

BelowMinimum_FaultTrustsZero(releases, v, minimum) ==
    /\ minimum # NoVersion
    /\ LET c == Named(releases, v)
           m == Named(releases, minimum)
       IN  IF c # 0 /\ m # 0 THEN releases[c].build < releases[m].build
           ELSE Older(v, minimum)

\* isBelowMinSupportedLocked: by build number where both are known.
BelowMinimum(releases, v, minimum) ==
    /\ minimum # NoVersion
    /\ LET c == Named(releases, v)
           m == Named(releases, minimum)
       IN  IF c # 0 /\ m # 0 /\ releases[c].build # 0 /\ releases[m].build # 0
           THEN releases[c].build < releases[m].build
           ELSE Older(v, minimum)

InRollout_FaultSizeInKey(i, rollout, d) ==
    \/ rollout >= Full
    \/ rollout > 0 /\ d # NoDevice /\ Bucket(i + rollout, d) < rollout

\* releaseInRollout
InRollout(i, rollout, d) ==
    \/ rollout >= Full
    \/ rollout > 0 /\ d # NoDevice /\ Bucket(i, d) < rollout

NoAdvice == [release |-> 0, required |-> FALSE]

\* updateInfoLocked for a client that runs v.
Advice(releases, v, d) ==
    LET i == Latest(releases)
    IN  IF v = NoVersion \/ i = 0 THEN NoAdvice
        ELSE LET latest == releases[i]
                 required == \/ latest.mandatory
                             \/ BelowMinimum(releases, v, latest.minimum)
             IN  IF latest.version # v /\ (required \/ InRollout(i, latest.rollout, d))
                 THEN [release |-> i, required |-> required] ELSE NoAdvice

----------------------------------------------------------------------------
(* What administrators write *)

ClampPercent(p) == IF p < 0 THEN 0 ELSE IF p > Full THEN Full ELSE p

Created_FaultUnclamped(row) == [row EXCEPT !.rollout = IF @ = 0 THEN Full ELSE @]

\* POST .../releases: a rollout of 0 is taken for one that was left out.
Created(row) ==
    [row EXCEPT !.rollout = IF @ = 0 THEN Full ELSE ClampPercent(@)]

\* PATCH .../releases/<id>: anything but the version and the build number.
MayBecome(row, patched) == patched.version = row.version /\ patched.build = row.build

Patched(patched) == [patched EXCEPT !.rollout = ClampPercent(@)]
=============================================================================
