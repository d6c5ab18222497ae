------------------------------- MODULE Verdict -------------------------------
(***************************************************************************)
(* What administrators may make of an app's releases, of its policy for one   *)
(* capability and of the settings, by any sequence of requests, and what the  *)
(* server then answers a client: whether it denies it, for how long its token *)
(* lives, which update it is told to make, whether it may use the capability. *)
(* None of the answers changes what is kept here, so they are operators, and  *)
(* the properties speak of every client in every state.                       *)
(*                                                                           *)
(* A change whose save fails stays in memory: like one whose save succeeds.   *)
(***************************************************************************)
EXTENDS Integrity, Capabilities, Settings

CONSTANTS
    Rows,         \* bound: what administrators enter for a release
    Minutes,      \* bound: numbers they ask for in the settings
    Patchable,    \* bound: settings they change
    Sent,         \* bound: policies they send
    Reports,      \* bound: evidence the properties consider
    Forged        \* a hash that no release has

ASSUME VerdictAssumption ==
    /\ Rows \subseteq Row(Int)
    /\ Minutes \subseteq Int
    /\ Patchable \subseteq Tunables
    /\ Sent \subseteq Items
    /\ Reports \subseteq Evidence
    /\ Forged \in Hashes
    /\ \A row \in Rows, f \in Fields : row.expected[f] # Forged

VARIABLES
    releases,  \* rows in the order they were created
    settings,  \* as stored
    policy     \* of the capability, or NoPolicy

vars == <<releases, settings, policy>>

\* settingsLocked
InForce == Normalized(settings)

----------------------------------------------------------------------------
CreateRelease(row) ==
    /\ Len(releases) < MaxReleases
    /\ releases' = Append(releases, Created(row))
    /\ UNCHANGED <<settings, policy>>

PatchRelease(i, row) ==
    /\ MayBecome(releases[i], row)
    /\ releases' = [releases EXCEPT ![i] = Patched(row)]
    /\ UNCHANGED <<settings, policy>>

\* handleSettings: on top of the settings in force.
PatchSettings(patch) ==
    /\ settings' = Normalized([t \in Tunables |->
                       IF t \in DOMAIN patch THEN patch[t] ELSE InForce[t]])
    /\ UNCHANGED <<releases, policy>>

\* PUT .../capability-policies
PutPolicy(item) ==
    /\ Acceptable(item)
    /\ policy' = Policy(item)
    /\ UNCHANGED <<releases, settings>>

----------------------------------------------------------------------------
Init ==
    /\ releases = <<>>
    /\ settings \in {Unset, Defaults}
    /\ policy = NoPolicy

Next ==
    \/ \E row \in Rows :
          \/ CreateRelease(row)
          \/ \E i \in DOMAIN releases : PatchRelease(i, row)
    \/ \E T \in SUBSET Patchable : \E patch \in [T -> Minutes] : PatchSettings(patch)
    \/ \E item \in Sent : PutPolicy(item)

Spec == Init /\ [][Next]_vars

----------------------------------------------------------------------------
(* Properties *)

TypeOK ==
    /\ releases \in Seq(Release)
    /\ Len(releases) <= MaxReleases
    /\ settings \in [Tunables -> Int]
    /\ policy \in Items \cup {NoPolicy}

\* compareVersionStrings orders the versions that clients name and those registered: of
\* two at most one is older, and one that is older than another is older than all that
\* the other is not older than.  Where versions are of at most three digits, trailing
\* zeros and words aside, the order is that of the digits read as one number.
ThreeDigits(v) ==
    \A i \in DOMAIN v : Part(v, i) \in IF i <= 3 THEN 0..9 ELSE {0}

Weighted(v) == 100 * Part(v, 1) + 10 * Part(v, 2) + Part(v, 3)

InOrder(v, r) ==
    /\ ~ (Older(v, r) /\ Older(r, v))
    /\ Older(v, r) => \A w \in Versions : Older(v, w) \/ Older(w, r)
    /\ ThreeDigits(v) /\ ThreeDigits(r) =>
           /\ Older(v, r) <=> Weighted(v) < Weighted(r)
           /\ Older(r, v) <=> Weighted(r) < Weighted(v)

Disordered == UNION {{r \in Versions : ~ InOrder(v, r)} : v \in Versions}

VersionOrder == \A i \in DOMAIN releases : releases[i].version \notin Disordered

\* A blocked version is denied to every client that names it, whatever other
\* evidence it sends and whichever rows share the version, before or after it.
BlockedIsDenied ==
    \A i \in DOMAIN releases, e \in Reports :
        releases[i].status = "blocked" /\ e.version = releases[i].version
        => Denied(releases, e)

\* The build numbers registered for v and for w, of whichever rows that have one.
BuildPairs(v, w) ==
    {p \in {releases[i].build : i \in RowsOf(releases, v)} \X
           {releases[i].build : i \in RowsOf(releases, w)} : 0 \notin {p[1], p[2]}}

\* An update is compulsory when the latest release is mandatory, and else for the
\* clients older than its minimum, at any rollout and on any device.  Only build
\* numbers of the two versions, both known, can decide otherwise: one cannot tell
\* without the other, a 0 never tells, and a client of the minimum itself is never
\* forced.  A client of the latest version is told nothing.
MinimumIsForced ==
    Latest(releases) # 0 =>
        LET latest == releases[Latest(releases)]
            minimum == latest.minimum
        IN  \A v \in Versions, d \in Devices \cup {NoDevice} :
                LET advice == Advice(releases, v, d)
                    builds == BuildPairs(v, minimum)
                IN  IF v = latest.version THEN advice = NoAdvice
                    ELSE IF advice.required
                    THEN \/ latest.mandatory
                         \/ /\ minimum \notin {NoVersion, v}
                            /\ Older(v, minimum) \/ \E p \in builds : p[1] < p[2]
                    ELSE /\ ~ latest.mandatory
                         /\ minimum # NoVersion =>
                                ~ Older(v, minimum) \/ \E p \in builds : p[1] >= p[2]

\* A partial rollout of a release only widens as its percentage does: a device that is
\* offered the release is offered it after any change that does not lower it.
RolloutOnlyWidens ==
    [][LET i == Latest(releases)
       IN  /\ i # 0 /\ releases[i].rollout \in 1..(Full - 1)
           /\ i = Latest(releases') /\ releases[i].rollout <= releases'[i].rollout
           => \A v \in Versions, d \in Devices :
                  Advice(releases, v, d) = [release |-> i, required |-> FALSE]
                  => Advice(releases', v, d).release = i]_releases

\* Evidence only tells against a client.  Of two reports on one version the second is
\* worse when it has all the signals and suspicious modules of the first, and, where
\* its hashes differ, one that no release has or none where leaving it out is no
\* excuse.  Whatever is registered, the worse one is denied when the other is, does
\* not score lower, and gets no longer-lived token.
WorseReports ==
    {p \in Reports \X Reports :
        /\ p[1].version = p[2].version
        /\ p[1].signals \subseteq p[2].signals
        /\ p[1].modules <= p[2].modules
        /\ \A f \in Fields :
              \/ p[2].hash[f] \in {p[1].hash[f], Forged}
              \/ f \notin LenientFields /\ p[2].hash[f] = NoHash}

Verdicts ==
    LET long == InForce["token_ttl"]
        short == InForce["risk_ttl"]
        judged(score, e) ==
            [denied |-> Denied(releases, e), score |-> score,
             lifetime |-> Lifetime(Level(score), long, short)]
    IN  [e \in Reports |-> judged(Score(releases, e), e)]

EvidenceOnlyTightens ==
    LET verdict == Verdicts
    IN  /\ verdict \in [Reports -> [denied: BOOLEAN, score: 10..100, lifetime: Nat]]
        /\ \A p \in WorseReports :
              /\ verdict[p[1]].denied => verdict[p[2]].denied
              /\ verdict[p[1]].score <= verdict[p[2]].score
              /\ verdict[p[1]].lifetime >= verdict[p[2]].lifetime

\* The settings in force are within their ranges and in a normal form, from whatever
\* was stored or asked for, in any order: a token of risky evidence never outlives
\* another, and what an administrator reads is what is stored after a change.
SettingsNormal ==
    /\ \A t \in Tunables : Lowest[t] <= InForce[t] /\ InForce[t] <= Highest[t]
    /\ InForce["risk_ttl"] <= InForce["token_ttl"]
    /\ Normalized(InForce) = InForce

\* No sequence of policies, in any mode, allows a licence the capability without the
\* entitlement it requires: the answer is not allowed, and its effective mode not
\* "allow".  Which of the other modes it is, warn, watermark or degrade included, is
\* the policy's affair.
CapabilityNeedsEntitlement ==
    \A held \in SUBSET Entitlements :
        LET d == Decision(policy, held)
        IN  (d.allowed \/ d.effective = "allow") =>
                policy # NoPolicy /\ policy.requires \in held
=============================================================================
