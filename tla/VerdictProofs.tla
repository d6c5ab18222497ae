---------------------------- MODULE VerdictProofs ----------------------------
(* Theorems about Verdict, for every value of its constants. *)
EXTENDS Verdict, FiniteSetTheorems, WellFoundedInduction, TLAPS

----------------------------------------------------------------------------
(* Least and greatest elements *)

\* Every set of naturals that is not empty has a least element.
LEMMA LeastNatural ==
    ASSUME NEW S \in SUBSET Nat, S # {}
    PROVE  \E x \in S : \A y \in S : x <= y
<1>1. PICK x \in S : \A y \in S : <<y, x>> \notin OpToRel(<, Nat)
  BY WFMin, NatLessThanWellFounded
<1>2. \A y \in S : ~ (y < x)
  BY <1>1 DEF OpToRel
<1> QED
  BY <1>2

\* So Min of the community modules is defined on it.
LEMMA MinOfNaturals ==
    ASSUME NEW S \in SUBSET Nat, S # {}
    PROVE  Min(S) \in S /\ \A y \in S : Min(S) <= y
  BY LeastNatural DEF Min

----------------------------------------------------------------------------
(* Settings *)

\* Clamp stays in its range, and keeps what is in it.
LEMMA Clamped ==
    ASSUME NEW value \in Int, NEW low \in Int, NEW high \in Int, low <= high
    PROVE  /\ Clamp(value, low, high) \in low..high
           /\ value \in low..high => Clamp(value, low, high) = value
  BY DEF Clamp

\* The ranges are ranges, of positive numbers but for the days of grace; the two
\* lifetimes have the same.
LEMMA Ranges ==
    /\ Defaults \in [Tunables -> Int]
    /\ Lowest \in [Tunables -> Nat]
    /\ Highest \in [Tunables -> Nat]
    /\ \A t \in Tunables : Lowest[t] <= Highest[t]
    /\ \A t \in Tunables \ {"grace_days"} : Lowest[t] > 0
    /\ Lowest["token_ttl"] = 5 /\ Lowest["risk_ttl"] = 5
    /\ Highest["risk_ttl"] = Highest["token_ttl"]
    /\ "token_ttl" \in Tunables /\ "risk_ttl" \in Tunables
  BY DEF Tunables, Defaults, Lowest, Highest

\* What normalizeSystemSettings makes of each setting.
LEMMA NormalizedAt ==
    ASSUME NEW s
    PROVE  LET n == Normalized(s)
           IN  /\ n = [t \in Tunables |-> n[t]]
               /\ \A t \in Tunables \ {"risk_ttl"} :
                      n[t] = Clamp(Given(s)[t], Lowest[t], Highest[t])
               /\ n["risk_ttl"] = Clamp(Given(s)["risk_ttl"], 5, n["token_ttl"])
  BY Ranges DEF Normalized

\* The normal form is within the ranges, keeps the lifetime of a risky token within
\* that of any token, and is kept by normalizeSystemSettings.
LEMMA NormalForm ==
    ASSUME NEW s \in [Tunables -> Int]
    PROVE  LET n == Normalized(s)
           IN  /\ n \in [Tunables -> Int]
               /\ \A t \in Tunables : Lowest[t] <= n[t] /\ n[t] <= Highest[t]
               /\ n["risk_ttl"] <= n["token_ttl"]
               /\ Normalized(n) = n
<1> DEFINE n == Normalized(s)
           m == Normalized(n)
<1>1. Given(s) \in [Tunables -> Int]
  BY Ranges DEF Given
<1>2. \A t \in Tunables \ {"risk_ttl"} : n[t] \in Lowest[t]..Highest[t]
  BY <1>1, Ranges, Clamped, NormalizedAt
<1>3. n["risk_ttl"] \in 5..n["token_ttl"]
  <2>1. n["token_ttl"] \in Int /\ 5 <= n["token_ttl"]
    <3>1. n["token_ttl"] \in Lowest["token_ttl"]..Highest["token_ttl"]
      BY <1>2, Ranges
    <3> HIDE DEF n
    <3> QED
      BY <3>1, Ranges
  <2>2. Clamp(Given(s)["risk_ttl"], 5, n["token_ttl"]) \in 5..n["token_ttl"]
    <3>1. Given(s)["risk_ttl"] \in Int
      BY <1>1, Ranges
    <3> HIDE DEF n
    <3> QED
      BY <2>1, <3>1 DEF Clamp
  <2> QED
    BY <2>2, NormalizedAt
<1>4. \A t \in Tunables : n[t] \in Lowest[t]..Highest[t]
  BY <1>2, <1>3, Ranges
<1>5. n \in [Tunables -> Int]
  <2>1. n = [t \in Tunables |-> n[t]]
    BY NormalizedAt
  <2> HIDE DEF n
  <2> QED
    BY <1>4, <2>1, Ranges
<1>6. Given(n) = n
  <2>1. \A t \in Tunables : n[t] > 0 \/ (t = "grace_days" /\ n[t] = 0)
    <3> HIDE DEF n
    <3> QED
      BY <1>4, Ranges
  <2> HIDE DEF n
  <2> QED
    BY <1>5, <2>1 DEF Given
<1>7. \A t \in Tunables \ {"risk_ttl"} : m[t] = n[t]
  BY <1>2, <1>6, Ranges, Clamped, NormalizedAt
<1>8. m["risk_ttl"] = n["risk_ttl"]
  <2>1. m["risk_ttl"] = Clamp(n["risk_ttl"], 5, m["token_ttl"])
    BY <1>6, NormalizedAt
  <2>2. m["token_ttl"] = n["token_ttl"]
    BY <1>7, Ranges
  <2>3. n["token_ttl"] \in Int /\ n["risk_ttl"] \in Int
    BY <1>5, Ranges
  <2> HIDE DEF m, n
  <2> QED
    BY <1>3, <2>1, <2>2, <2>3 DEF Clamp
<1>9. m = n
  <2>1. m = [t \in Tunables |-> m[t]]
    BY NormalizedAt
  <2>2. n = [t \in Tunables |-> n[t]]
    BY NormalizedAt
  <2>3. \A t \in Tunables : m[t] = n[t]
    BY <1>7, <1>8
  <2> HIDE DEF m, n
  <2> QED
    BY <2>1, <2>2, <2>3
<1>10. \A t \in Tunables : Lowest[t] <= n[t] /\ n[t] <= Highest[t]
  <2> HIDE DEF n
  <2> QED
    BY <1>4, Ranges
<1>11. n["risk_ttl"] <= n["token_ttl"]
  <2>1. n["token_ttl"] \in Int
    BY <1>5, Ranges
  <2> HIDE DEF n
  <2> QED
    BY <1>3, <2>1
<1> QED
  BY <1>5, <1>9, <1>10, <1>11

----------------------------------------------------------------------------
(* The types *)

\* A rollout that is written lies within 0 and Full.
LEMMA PercentClamped ==
    ASSUME NEW p \in Int
    PROVE  ClampPercent(p) \in 0..Full
  BY ReleasesAssumption DEF ClampPercent

\* What is stored of a row an administrator enters is a release, with everything but
\* the rollout as entered; patching keeps the version too.
LEMMA RowStored ==
    ASSUME NEW row \in Row(Int)
    PROVE  /\ Created(row) \in Release
           /\ Patched(row) \in Release
           /\ Patched(row).version = row.version
<1>1. ClampPercent(row.rollout) \in 0..Full
  BY PercentClamped DEF Row
<1>2. Full \in 0..Full
  BY ReleasesAssumption
<1> QED
  BY <1>1, <1>2 DEF Created, Patched, Release, Row

\* The types of the releases, the settings and the policy are kept by every step.
LEMMA TypeKept ==
    ASSUME TypeOK, [Next]_vars
    PROVE  TypeOK'
<1> USE VerdictAssumption
<1>1. ASSUME NEW row \in Rows, CreateRelease(row)
      PROVE  TypeOK'
  <2>1. Created(row) \in Release
    BY RowStored
  <2>2. Append(releases, Created(row)) \in Seq(Release)
    BY <2>1 DEF TypeOK
  <2>3. Len(Append(releases, Created(row))) = Len(releases) + 1
    BY <2>1 DEF TypeOK
  <2> QED
    BY <1>1, <2>2, <2>3, ReleasesAssumption DEF TypeOK, CreateRelease
<1>2. ASSUME NEW row \in Rows, NEW i \in DOMAIN releases, PatchRelease(i, row)
      PROVE  TypeOK'
  <2>1. Patched(row) \in Release
    BY RowStored
  <2>2. /\ [releases EXCEPT ![i] = Patched(row)] \in Seq(Release)
        /\ Len([releases EXCEPT ![i] = Patched(row)]) = Len(releases)
    BY <2>1 DEF TypeOK
  <2> QED
    BY <1>2, <2>2 DEF TypeOK, PatchRelease
<1>3. ASSUME NEW T \in SUBSET Patchable, NEW patch \in [T -> Minutes],
             PatchSettings(patch)
      PROVE  TypeOK'
  <2> DEFINE asked == [t \in Tunables |-> IF t \in DOMAIN patch THEN patch[t] ELSE InForce[t]]
  <2>1. InForce \in [Tunables -> Int]
    BY NormalForm DEF InForce, TypeOK
  <2>2. asked \in [Tunables -> Int]
    BY <2>1
  <2>3. settings' = Normalized(asked)
    BY <1>3 DEF PatchSettings
  <2>4. settings' \in [Tunables -> Int]
    BY <2>2, <2>3, NormalForm
  <2> QED
    BY <1>3, <2>4 DEF TypeOK, PatchSettings
<1>4. ASSUME NEW item \in Sent, PutPolicy(item)
      PROVE  TypeOK'
  <2>1. Policy(item) \in Items
    BY DEF Policy, NormalMode, Items, Modes
  <2> QED
    BY <1>4, <2>1 DEF TypeOK, PutPolicy
<1>5. CASE UNCHANGED vars
  BY <1>5 DEF TypeOK, vars
<1> QED
  BY <1>1, <1>2, <1>3, <1>4, <1>5 DEF Next

\* Releases, settings and policy keep their types, and settings are integers whatever
\* administrators ask for.
THEOREM VerdictTypeCorrect == Spec => []TypeOK
<1>1. Init => TypeOK
  <2>1. Unset \in [Tunables -> Int] /\ Defaults \in [Tunables -> Int]
    BY Ranges DEF Unset
  <2> QED
    BY <2>1, ReleasesAssumption DEF Init, TypeOK
<1> QED
  BY <1>1, TypeKept, PTL DEF Spec

\* The settings in force are always in their normal form.
THEOREM SettingsAreNormal == Spec => []SettingsNormal
<1>1. TypeOK => SettingsNormal
  BY NormalForm DEF TypeOK, SettingsNormal, InForce
<1> QED
  BY <1>1, VerdictTypeCorrect, PTL

----------------------------------------------------------------------------
(* Capabilities *)

\* The policy that is stored has passed normalizeCapabilityPolicy.
PolicyAccepted == policy # NoPolicy => policy.requires \in Entitlements

\* Whatever policies are sent, in any order, the capability is allowed to nobody who
\* lacks the entitlement.
THEOREM CapabilitiesNeedEntitlements == Spec => []CapabilityNeedsEntitlement
<1>1. Init => PolicyAccepted
  BY DEF Init, PolicyAccepted
<1>2. PolicyAccepted /\ [Next]_vars => PolicyAccepted'
  <2> SUFFICES ASSUME PolicyAccepted, [Next]_vars
               PROVE  PolicyAccepted'
    OBVIOUS
  <2>1. ASSUME NEW item \in Sent, PutPolicy(item)
        PROVE  PolicyAccepted'
    BY <2>1, VerdictAssumption DEF PutPolicy, Acceptable, Policy, Items, PolicyAccepted
  <2>2. CASE UNCHANGED policy
    BY <2>2 DEF PolicyAccepted
  <2> QED
    BY <2>1, <2>2 DEF Next, CreateRelease, PatchRelease, PatchSettings, vars
<1>3. PolicyAccepted => CapabilityNeedsEntitlement
  BY CapabilitiesAssumption
  DEF PolicyAccepted, CapabilityNeedsEntitlement, Decision, Decided, Entitled
<1> QED
  BY <1>1, <1>2, <1>3, PTL DEF Spec

----------------------------------------------------------------------------
(* The version order *)

VersionParts == Seq(Nat \cup {Word})

\* The parts of a version are naturals, and zero past its end.
LEMMA PartIs ==
    ASSUME NEW v \in VersionParts, NEW i \in Nat
    PROVE  Part(v, i) \in Nat /\ (Part(v, i) # 0 => i <= Len(v))
<1> DEFINE numbers(k) == {j \in 1..k : IsNumber(v, j)}
           at == {k \in DOMAIN v : IsNumber(v, k) /\ Cardinality(numbers(k)) = i}
<1>1. CASE at = {}
  BY <1>1 DEF Part
<1>2. CASE at # {}
  <2>1. PICK k \in at : Part(v, i) = v[k]
    BY <1>2 DEF Part
  <2>2. k \in 1..Len(v) /\ v[k] \in Nat /\ Cardinality(numbers(k)) = i
    BY <2>1 DEF IsNumber, VersionParts
  <2>3. i <= k
    <3>1. IsFiniteSet(1..k) /\ Cardinality(1..k) = k
      <4>1. k \in Int /\ 1 \in Int /\ ~ (1 > k) /\ k - 1 + 1 = k
        BY <2>2 DEF VersionParts
      <4> QED
        BY <4>1, FS_Interval
    <3>2. numbers(k) \in SUBSET (1..k)
      OBVIOUS
    <3>3. Cardinality(numbers(k)) <= Cardinality(1..k)
      BY <3>1, <3>2, FS_Subset
    <3> QED
      BY <2>2, <3>1, <3>3
  <2> QED
    BY <2>1, <2>2, <2>3
<1> QED
  BY <1>1, <1>2

\* A first difference, wherever it is, decides: it is no further than the longer version.
LEMMA DecidedAt ==
    ASSUME NEW v \in VersionParts, NEW w \in VersionParts, NEW i \in Nat \ {0},
           Part(v, i) < Part(w, i),
           \A j \in 1..(i - 1) : Part(v, j) = Part(w, j)
    PROVE  Older(v, w)
<1>1. Part(v, i) \in Nat /\ Part(w, i) \in Nat
  BY PartIs
<1>2. i <= Len(w)
  BY <1>1, PartIs
<1>3. i \in DOMAIN v \cup DOMAIN w
  BY <1>2 DEF VersionParts
<1> QED
  BY <1>3 DEF Older

\* Of two versions at most one is older.
LEMMA OlderAsymmetric ==
    ASSUME NEW v \in VersionParts, NEW w \in VersionParts, Older(v, w), Older(w, v)
    PROVE  FALSE
<1>1. PICK i \in DOMAIN v \cup DOMAIN w :
          Part(v, i) < Part(w, i) /\ \A j \in 1..(i - 1) : Part(v, j) = Part(w, j)
  BY DEF Older
<1>2. PICK k \in DOMAIN v \cup DOMAIN w :
          Part(w, k) < Part(v, k) /\ \A j \in 1..(k - 1) : Part(w, j) = Part(v, j)
  BY DEF Older
<1>3. i \in Nat \ {0} /\ k \in Nat \ {0}
  BY DEF VersionParts
<1>4. \A j \in Nat : Part(v, j) \in Nat /\ Part(w, j) \in Nat
  BY PartIs
<1>5. CASE i < k
  BY <1>1, <1>2, <1>3, <1>4, <1>5
<1>6. CASE k < i
  BY <1>1, <1>2, <1>3, <1>4, <1>6
<1>7. CASE i = k
  BY <1>1, <1>2, <1>3, <1>4, <1>7
<1> QED
  BY <1>3, <1>5, <1>6, <1>7

\* A version that is older than another is older than every third that the other is not
\* older than: the first place where the three differ decides.
LEMMA OlderSplits ==
    ASSUME NEW v \in VersionParts, NEW r \in VersionParts, NEW w \in VersionParts,
           Older(v, r)
    PROVE  Older(v, w) \/ Older(w, r)
<1>1. PICK i \in DOMAIN v \cup DOMAIN r :
          Part(v, i) < Part(r, i) /\ \A j \in 1..(i - 1) : Part(v, j) = Part(r, j)
  BY DEF Older
<1>2. i \in Nat \ {0}
  BY DEF VersionParts
<1>3. \A j \in Nat : Part(v, j) \in Nat /\ Part(w, j) \in Nat /\ Part(r, j) \in Nat
  BY PartIs
<1> DEFINE differ == {k \in 1..i : Part(w, k) # Part(v, k) \/ Part(w, k) # Part(r, k)}
<1>4. differ \in SUBSET Nat /\ differ # {}
  <2>1. i \in differ
    BY <1>1, <1>2, <1>3
  <2> QED
    BY <2>1
<1>5. PICK m \in differ : \A k \in differ : m <= k
  BY <1>4, LeastNatural
<1>6. m \in Nat \ {0} /\ m <= i
  BY <1>2, <1>5
<1>7. \A j \in 1..(m - 1) : Part(w, j) = Part(v, j) /\ Part(w, j) = Part(r, j)
  <2> SUFFICES ASSUME NEW j \in 1..(m - 1)
               PROVE  j \notin differ /\ j \in 1..i
    OBVIOUS
  <2> QED
    BY <1>2, <1>5, <1>6
<1>8. Part(v, m) <= Part(r, m)
  BY <1>1, <1>2, <1>3, <1>6
<1>9. Part(v, m) < Part(w, m) \/ Part(w, m) < Part(r, m)
  BY <1>3, <1>5, <1>6, <1>8
<1>10. CASE Part(v, m) < Part(w, m)
  BY <1>6, <1>7, <1>10, DecidedAt
<1>11. CASE Part(w, m) < Part(r, m)
  BY <1>6, <1>7, <1>11, DecidedAt
<1> QED
  BY <1>9, <1>10, <1>11

\* Versions of three digits compare as the numbers that the digits are read as.
LEMMA OlderIsLighter ==
    ASSUME NEW v \in VersionParts, NEW r \in VersionParts, ThreeDigits(v), ThreeDigits(r)
    PROVE  Older(v, r) <=> Weighted(v) < Weighted(r)
<1>1. ASSUME NEW u \in VersionParts, ThreeDigits(u), NEW i \in Nat \ {0}
      PROVE  IF i <= 3 THEN Part(u, i) \in 0..9 ELSE Part(u, i) = 0
  <2>1. CASE i \in DOMAIN u
    BY <1>1, <2>1 DEF ThreeDigits
  <2>2. CASE i \notin DOMAIN u
    <3>1. ~ (i <= Len(u))
      BY <2>2 DEF VersionParts
    <3>2. Part(u, i) = 0
      BY <3>1, PartIs
    <3> QED
      BY <3>2
  <2> QED
    BY <2>1, <2>2
<1> DEFINE first(i) == Part(v, i) < Part(r, i) /\ \A j \in 1..(i - 1) : Part(v, j) = Part(r, j)
<1>2. \A i \in {1, 2, 3} : Part(v, i) \in 0..9 /\ Part(r, i) \in 0..9
  BY <1>1
<1>3. ASSUME Older(v, r)
      PROVE  first(1) \/ first(2) \/ first(3)
  <2>1. PICK i \in DOMAIN v \cup DOMAIN r : first(i)
    BY <1>3 DEF Older
  <2>2. i \in Nat \ {0}
    BY DEF VersionParts
  <2>3. i <= 3
    <3> SUFFICES ASSUME ~ (i <= 3)
                 PROVE  FALSE
      OBVIOUS
    <3>1. Part(v, i) = 0 /\ Part(r, i) = 0
      BY <1>1, <2>2
    <3> QED
      BY <2>1, <3>1
  <2>4. i = 1 \/ i = 2 \/ i = 3
    BY <2>2, <2>3
  <2> HIDE DEF first
  <2> QED
    BY <2>1, <2>4
<1>4. ASSUME first(1) \/ first(2) \/ first(3)
      PROVE  Older(v, r)
  <2>1. \A i \in Nat \ {0} : first(i) => Older(v, r)
    BY DecidedAt
  <2> HIDE DEF first
  <2> QED
    BY <1>4, <2>1
<1>5. /\ first(1) <=> Part(v, 1) < Part(r, 1)
      /\ first(2) <=> Part(v, 2) < Part(r, 2) /\ Part(v, 1) = Part(r, 1)
      /\ first(3) <=> /\ Part(v, 3) < Part(r, 3)
                      /\ Part(v, 1) = Part(r, 1) /\ Part(v, 2) = Part(r, 2)
  <2>1. 1..(1 - 1) = {} /\ 1..(2 - 1) = {1} /\ 1..(3 - 1) = {1, 2}
    OBVIOUS
  <2> QED
    BY <2>1
<1>6. Weighted(v) < Weighted(r) <=>
          \/ Part(v, 1) < Part(r, 1)
          \/ Part(v, 1) = Part(r, 1) /\ Part(v, 2) < Part(r, 2)
          \/ Part(v, 1) = Part(r, 1) /\ Part(v, 2) = Part(r, 2) /\ Part(v, 3) < Part(r, 3)
  <2> DEFINE a == Part(v, 1)
             b == Part(v, 2)
             c == Part(v, 3)
             x == Part(r, 1)
             y == Part(r, 2)
             z == Part(r, 3)
  <2>1. /\ a \in 0..9 /\ b \in 0..9 /\ c \in 0..9
        /\ x \in 0..9 /\ y \in 0..9 /\ z \in 0..9
    BY <1>2
  <2>2. Weighted(v) = 100 * a + 10 * b + c /\ Weighted(r) = 100 * x + 10 * y + z
    BY DEF Weighted
  <2> HIDE DEF a, b, c, x, y, z
  <2>3. Weighted(v) < Weighted(r) <=>
            a < x \/ (a = x /\ b < y) \/ (a = x /\ b = y /\ c < z)
    BY <2>1, <2>2
  <2> QED
    BY <2>3 DEF a, b, c, x, y, z
<1> HIDE DEF first
<1> QED
  BY <1>3, <1>4, <1>5, <1>6

\* Versions are ordered, however many parts they have, of whatever size, with words in
\* them or not.
THEOREM VersionsAreOrdered == Spec => []VersionOrder
<1>1. \A v, r \in Versions : InOrder(v, r)
  <2> SUFFICES ASSUME NEW v \in Versions, NEW r \in Versions
               PROVE  InOrder(v, r)
    OBVIOUS
  <2>1. \A u \in Versions : u \in VersionParts
    BY ReleasesAssumption DEF VersionParts
  <2>2. ~ (Older(v, r) /\ Older(r, v))
    BY <2>1, OlderAsymmetric
  <2>3. Older(v, r) => \A w \in Versions : Older(v, w) \/ Older(w, r)
    BY <2>1, OlderSplits
  <2>4. ThreeDigits(v) /\ ThreeDigits(r) =>
            /\ Older(v, r) <=> Weighted(v) < Weighted(r)
            /\ Older(r, v) <=> Weighted(r) < Weighted(v)
    BY <2>1, OlderIsLighter
  <2> QED
    BY <2>2, <2>3, <2>4 DEF InOrder
<1>2. VersionOrder
  BY <1>1 DEF VersionOrder, Disordered
<1> QED
  BY <1>2, PTL

----------------------------------------------------------------------------
(* Searches of releases *)

\* A search by version that meets a blocked row returns a blocked row of that version.
LEMMA BlockedIsNamed ==
    ASSUME NEW rs \in Seq(Release), NEW i \in DOMAIN rs, rs[i].status = "blocked"
    PROVE  LET n == Named(rs, rs[i].version)
           IN  n # 0 /\ n \in DOMAIN rs /\ rs[n].status = "blocked"
<1> DEFINE rows == RowsOf(rs, rs[i].version)
           blocked == {j \in rows : rs[j].status = "blocked"}
<1>1. i \in blocked /\ blocked \in SUBSET Nat /\ rows # {}
  BY DEF RowsOf
<1>2. Min(blocked) \in blocked
  BY <1>1, MinOfNaturals
<1>3. Named(rs, rs[i].version) = Min(blocked)
  BY <1>1 DEF Named
<1> QED
  BY <1>2, <1>3 DEF RowsOf

\* A row that is found by version is of that version.
LEMMA NamedVersion ==
    ASSUME NEW rs \in Seq(Release), NEW v, Named(rs, v) # 0
    PROVE  Named(rs, v) \in DOMAIN rs /\ rs[Named(rs, v)].version = v
<1> DEFINE rows == RowsOf(rs, v)
           blocked == {j \in rows : rs[j].status = "blocked"}
           searched == IF blocked = {} THEN rows ELSE blocked
<1>1. rows # {} /\ Named(rs, v) = Min(searched)
  BY DEF Named
<1>2. searched \in SUBSET Nat /\ searched # {} /\ searched \subseteq rows
  BY <1>1 DEF RowsOf
<1>3. Min(searched) \in rows
  <2> HIDE DEF searched
  <2> QED
    BY <1>2, MinOfNaturals
<1> QED
  BY <1>1, <1>3 DEF RowsOf

\* The row that latestReleaseLocked returns, if any, is one of the active ones.
LEMMA LatestIsActive ==
    ASSUME NEW rs \in Seq(Release), Latest(rs) # 0
    PROVE  Latest(rs) \in DOMAIN rs /\ rs[Latest(rs)].status = "active"
<1> DEFINE active == {i \in DOMAIN rs : rs[i].status = "active"}
           first(i) == \A j \in active : \/ rs[j].build < rs[i].build
                                         \/ rs[j].build = rs[i].build /\ i >= j
           bounds == {b \in Nat : \A j \in active : rs[j].build <= b - MaxBuild - 1}
<1> USE ReleasesAssumption
<1>1. active # {}
  BY DEF Latest
<1>2. active \in SUBSET Nat /\ \A j \in active : rs[j].build \in Builds
  <2>1. \A j \in DOMAIN rs : j \in Nat /\ rs[j] \in Release
    OBVIOUS
  <2> QED
    BY <2>1 DEF Release, Row
<1>3. 2 * MaxBuild + 1 \in bounds
  BY <1>2 DEF Builds
<1>4. PICK b \in bounds : \A c \in bounds : b <= c
  BY <1>3, LeastNatural
<1>5. \E j \in active : rs[j].build = b - MaxBuild - 1
  <2> SUFFICES ASSUME \A j \in active : rs[j].build # b - MaxBuild - 1
               PROVE  FALSE
    OBVIOUS
  <2>1. \A j \in active : rs[j].build <= (b - 1) - MaxBuild - 1
    BY <1>2, <1>4 DEF Builds
  <2>2. b - 1 \in Nat
    BY <1>1, <1>2, <1>4, <2>1 DEF Builds
  <2>3. b - 1 \in bounds
    BY <2>1, <2>2
  <2> QED
    BY <1>4, <2>3
<1>6. \E i \in active : first(i)
  <2> DEFINE top == {j \in active : rs[j].build = b - MaxBuild - 1}
             room == {c \in Nat : \A j \in top : j <= c}
  <2>1. Len(rs) \in room
    BY DEF first
  <2>2. PICK c \in room : \A x \in room : c <= x
    BY <2>1, LeastNatural
  <2>3. c \in top
    <3> SUFFICES ASSUME c \notin top
                 PROVE  FALSE
      OBVIOUS
    <3>1. \A j \in top : j <= c - 1
      BY <1>2, <2>2
    <3>2. c - 1 \in room
      BY <1>2, <1>5, <2>2, <3>1
    <3> QED
      BY <2>2, <3>2
  <2>4. first(c)
    BY <1>2, <1>4, <2>2, <2>3 DEF Builds
  <2> QED
    BY <2>3, <2>4
<1>7. Latest(rs) = CHOOSE i \in active : \A j \in active :
                      \/ rs[j].build < rs[i].build
                      \/ rs[j].build = rs[i].build /\ j <= i
  BY <1>1 DEF Latest
<1>8. \E i \in active : \A j \in active : \/ rs[j].build < rs[i].build
                                          \/ rs[j].build = rs[i].build /\ j <= i
  BY <1>2, <1>6
<1> QED
  BY <1>7, <1>8

----------------------------------------------------------------------------
(* Releases *)

\* A blocked version is denied in every state, whatever rows share it.
THEOREM BlockedAreDenied == Spec => []BlockedIsDenied
<1>1. TypeOK => BlockedIsDenied
  <2> SUFFICES ASSUME TypeOK, NEW i \in DOMAIN releases, NEW e \in Reports,
                      releases[i].status = "blocked", e.version = releases[i].version
               PROVE  Denied(releases, e)
    BY DEF BlockedIsDenied
  <2> DEFINE n == Named(releases, e.version)
  <2>1. releases \in Seq(Release)
    BY DEF TypeOK
  <2>2. n # 0 /\ releases[n].status = "blocked"
    BY <2>1, BlockedIsNamed
  <2>3. e.version # NoVersion
    <3>1. releases[i] \in Release
      BY <2>1
    <3> QED
      BY <3>1, ReleasesAssumption DEF Release, Row
  <2>4. "blocked" \in FindingsOf(releases, e)
    BY <2>2, <2>3 DEF FindingsOf
  <2> QED
    BY <2>4 DEF Denied, Denying
<1> QED
  BY <1>1, VerdictTypeCorrect, PTL

\* What a patch or a new row leaves of the row that was the latest.
LEMMA LatestStays ==
    ASSUME TypeOK, [Next]_releases,
           NEW i, i = Latest(releases), i # 0
    PROVE  i \in DOMAIN releases' /\ releases'[i].version = releases[i].version
<1>1. releases \in Seq(Release) /\ i \in DOMAIN releases
  BY LatestIsActive DEF TypeOK
<1>2. ASSUME NEW row \in Rows, CreateRelease(row)
      PROVE  i \in DOMAIN releases' /\ releases'[i] = releases[i]
  <2>1. Created(row) \in Release
    BY RowStored, VerdictAssumption
  <2> QED
    BY <1>1, <1>2, <2>1 DEF CreateRelease
<1>3. ASSUME NEW row \in Rows, NEW k \in DOMAIN releases, PatchRelease(k, row)
      PROVE  i \in DOMAIN releases' /\ releases'[i].version = releases[i].version
  <2>1. Patched(row).version = row.version
    BY RowStored, VerdictAssumption
  <2> QED
    BY <1>1, <1>3, <2>1 DEF PatchRelease, MayBecome
<1>4. CASE UNCHANGED releases
  BY <1>1, <1>4
<1> QED
  BY <1>2, <1>3, <1>4 DEF Next, PatchSettings, PutPolicy

\* A partial rollout that is not lowered keeps every device it has reached.
THEOREM RolloutsWiden == Spec => RolloutOnlyWidens
<1>1. TypeOK /\ TypeOK' /\ [Next]_vars =>
      [LET i == Latest(releases)
       IN  /\ i # 0 /\ releases[i].rollout \in 1..(Full - 1)
           /\ i = Latest(releases') /\ releases[i].rollout <= releases'[i].rollout
           => \A v \in Versions, d \in Devices :
                  Advice(releases, v, d) = [release |-> i, required |-> FALSE]
                  => Advice(releases', v, d).release = i]_releases
  <2> DEFINE i == Latest(releases)
  <2> SUFFICES ASSUME TypeOK, TypeOK', [Next]_vars,
                      i # 0, releases[i].rollout \in 1..(Full - 1),
                      i = Latest(releases'), releases[i].rollout <= releases'[i].rollout,
                      NEW v \in Versions, NEW d \in Devices,
                      Advice(releases, v, d) = [release |-> i, required |-> FALSE]
               PROVE  Advice(releases', v, d).release = i
    OBVIOUS
  <2>1. i \in DOMAIN releases' /\ releases'[i].version = releases[i].version
    BY LatestStays DEF vars
  <2>2. /\ i \in DOMAIN releases /\ releases[i] \in Release /\ releases'[i] \in Release
        /\ i \in 1..MaxReleases
    BY <2>1, LatestIsActive, ReleasesAssumption DEF TypeOK
  <2>3. v # NoVersion
    BY ReleasesAssumption
  <2>4. releases[i].version # v /\ InRollout(i, releases[i].rollout, d)
    BY <2>3 DEF Advice, NoAdvice
  <2>5. Bucket(i, d) < releases[i].rollout
    BY <2>4, ReleasesAssumption DEF InRollout
  <2>6. InRollout(i, releases'[i].rollout, d)
    <3>1. releases'[i].rollout \in Int /\ Bucket(i, d) \in Int
      BY <2>2, ReleasesAssumption DEF Release, Row
    <3> QED
      BY <2>5, <3>1, ReleasesAssumption DEF InRollout
  <2> QED
    BY <2>1, <2>3, <2>4, <2>6 DEF Advice
<1> QED
  BY <1>1, VerdictTypeCorrect, PTL DEF Spec, RolloutOnlyWidens

\* isBelowMinSupportedLocked has no two build numbers to compare.
Unbuilt(rs, v, m) ==
    LET c == Named(rs, v)
        k == Named(rs, m)
    IN  \/ c = 0 \/ k = 0
        \/ rs[c].build = 0 \/ rs[k].build = 0

\* Those it compares are of rows of the two versions.
LEMMA BuildsFound ==
    ASSUME releases \in Seq(Release), NEW v, NEW m, ~ Unbuilt(releases, v, m)
    PROVE  \E p \in BuildPairs(v, m) :
               /\ p[1] = releases[Named(releases, v)].build
               /\ p[2] = releases[Named(releases, m)].build
               /\ p[1] \in Int /\ p[2] \in Int
<1> DEFINE c == Named(releases, v)
           k == Named(releases, m)
           p == <<releases[c].build, releases[k].build>>
<1>1. c # 0 /\ k # 0 /\ releases[c].build # 0 /\ releases[k].build # 0
  BY DEF Unbuilt
<1>2. c \in RowsOf(releases, v) /\ k \in RowsOf(releases, m)
  BY <1>1, NamedVersion DEF RowsOf
<1>3. releases[c].build \in Int /\ releases[k].build \in Int
  <2>1. releases[c] \in Release /\ releases[k] \in Release
    BY <1>2 DEF RowsOf
  <2>2. \A row \in Release : row.build \in Builds
    BY DEF Release, Row
  <2>3. Builds \subseteq Int
    BY DEF Builds
  <2> HIDE DEF c, k
  <2> QED
    BY <2>1, <2>2, <2>3
<1>4. p \in BuildPairs(v, m)
  <2> HIDE DEF c, k
  <2> QED
    BY <1>1, <1>2 DEF BuildPairs
<1> QED
  BY <1>3, <1>4

\* Which clients the latest release forces to update, for all releases there may be:
\* also where rows of one version differ, or contradict the version order.
THEOREM MinimaAreForced == Spec => []MinimumIsForced
<1>1. TypeOK => MinimumIsForced
  <2> DEFINE latest == releases[Latest(releases)]
             m == latest.minimum
  <2> SUFFICES ASSUME TypeOK, Latest(releases) # 0,
                      NEW v \in Versions, NEW d \in Devices \cup {NoDevice}
               PROVE  LET advice == Advice(releases, v, d)
                          builds == BuildPairs(v, m)
                      IN  IF v = latest.version THEN advice = NoAdvice
                          ELSE IF advice.required
                          THEN \/ latest.mandatory
                               \/ /\ m \notin {NoVersion, v}
                                  /\ Older(v, m) \/ \E p \in builds : p[1] < p[2]
                          ELSE /\ ~ latest.mandatory
                               /\ m # NoVersion =>
                                      ~ Older(v, m) \/ \E p \in builds : p[1] >= p[2]
    BY DEF MinimumIsForced
  <2>1. releases \in Seq(Release) /\ latest \in Release
    <3>1. releases \in Seq(Release)
      BY DEF TypeOK
    <3> QED
      BY <3>1, LatestIsActive
  <2>2. v # NoVersion /\ latest.mandatory \in BOOLEAN
    BY <2>1, ReleasesAssumption DEF Release, Row
  <2>3. CASE v = latest.version
    BY <2>3 DEF Advice
  <2>4. v # latest.version =>
            (Advice(releases, v, d).required <=>
                latest.mandatory \/ BelowMinimum(releases, v, m))
    BY <2>2 DEF Advice, NoAdvice, BelowMinimum
  <2>5. BelowMinimum(releases, v, m) <=>
            /\ m # NoVersion
            /\ \/ Older(v, m) /\ Unbuilt(releases, v, m)
               \/ /\ ~ Unbuilt(releases, v, m)
                  /\ releases[Named(releases, v)].build < releases[Named(releases, m)].build
    BY DEF BelowMinimum, Unbuilt
  <2>6. ASSUME ~ Unbuilt(releases, v, m)
        PROVE  \E p \in BuildPairs(v, m) :
                   /\ p[1] = releases[Named(releases, v)].build
                   /\ p[2] = releases[Named(releases, m)].build
                   /\ p[1] \in Int /\ p[2] \in Int
    BY <2>1, <2>6, BuildsFound
  <2>7. ~ BelowMinimum(releases, v, v)
    <3>1. v \in VersionParts
      BY ReleasesAssumption DEF VersionParts
    <3>2. ~ Older(v, v)
      BY <3>1, OlderAsymmetric
    <3>3. ~ Unbuilt(releases, v, v) =>
              ~ (releases[Named(releases, v)].build < releases[Named(releases, v)].build)
      BY <2>1, BuildsFound
    <3> QED
      BY <3>2, <3>3 DEF BelowMinimum, Unbuilt
  <2>8. BelowMinimum(releases, v, m) =>
            /\ m \notin {NoVersion, v}
            /\ Older(v, m) \/ \E p \in BuildPairs(v, m) : p[1] < p[2]
    BY <2>5, <2>6, <2>7
  <2>9. ~ BelowMinimum(releases, v, m) /\ m # NoVersion =>
            ~ Older(v, m) \/ \E p \in BuildPairs(v, m) : p[1] >= p[2]
    BY <2>5, <2>6
  <2> QED
    BY <2>2, <2>3, <2>4, <2>8, <2>9
<1> QED
  BY <1>1, VerdictTypeCorrect, PTL

----------------------------------------------------------------------------
(* Evidence *)

\* No registered hash is the forged one.
NoForgery == \A i \in DOMAIN releases, f \in Fields : releases[i].expected[f] # Forged

\* What administrators enter is never the forged hash, and nothing else is stored.
LEMMA NothingForged == Spec => []NoForgery
<1>1. Init => NoForgery
  BY DEF Init, NoForgery
<1>2. TypeOK /\ NoForgery /\ [Next]_vars => NoForgery'
  <2> SUFFICES ASSUME TypeOK, NoForgery, [Next]_vars
               PROVE  NoForgery'
    OBVIOUS
  <2>1. ASSUME NEW row \in Rows
        PROVE  /\ Created(row) \in Release /\ Patched(row) \in Release
               /\ \A f \in Fields : /\ Created(row).expected[f] # Forged
                                    /\ Patched(row).expected[f] # Forged
    <3>1. row \in Row(Int) /\ \A f \in Fields : row.expected[f] # Forged
      BY VerdictAssumption
    <3>2. Created(row).expected = row.expected /\ Patched(row).expected = row.expected
      BY <3>1 DEF Created, Patched, Row
    <3> QED
      BY <3>1, <3>2, RowStored
  <2>2. ASSUME NEW row \in Rows, CreateRelease(row)
        PROVE  NoForgery'
    <3>1. releases \in Seq(Release) /\ releases' = Append(releases, Created(row))
      BY <2>2 DEF TypeOK, CreateRelease
    <3>2. \A i \in DOMAIN releases' :
              \/ i \in DOMAIN releases /\ releases'[i] = releases[i]
              \/ releases'[i] = Created(row)
      BY <2>1, <3>1
    <3> QED
      BY <2>1, <3>2 DEF NoForgery
  <2>3. ASSUME NEW row \in Rows, NEW k \in DOMAIN releases, PatchRelease(k, row)
        PROVE  NoForgery'
    <3>1. \A i \in DOMAIN releases' : i \in DOMAIN releases /\
              (releases'[i] = releases[i] \/ releases'[i] = Patched(row))
      BY <2>3 DEF PatchRelease
    <3> QED
      BY <2>1, <3>1 DEF NoForgery
  <2>4. CASE UNCHANGED releases
    BY <2>4 DEF NoForgery
  <2> QED
    BY <2>2, <2>3, <2>4 DEF Next, PatchSettings, PutPolicy, vars
<1> QED
  BY <1>1, <1>2, VerdictTypeCorrect, PTL DEF Spec

\* Worse evidence has every finding of the better.
LEMMA FindingsGrow ==
    ASSUME TypeOK, NoForgery, NEW p \in WorseReports
    PROVE  FindingsOf(releases, p[1]) \subseteq FindingsOf(releases, p[2])
<1> DEFINE a == p[1]
           b == p[2]
           i == Named(releases, a.version)
<1>1. /\ a \in Evidence /\ b \in Evidence
      /\ a.version = b.version /\ a.signals \subseteq b.signals /\ a.modules <= b.modules
      /\ \A f \in Fields : \/ b.hash[f] = a.hash[f] \/ b.hash[f] = Forged
                           \/ f \notin LenientFields /\ b.hash[f] = NoHash
  BY VerdictAssumption DEF WorseReports
<1>2. a.modules > 0 => b.modules > 0
  BY <1>1 DEF Evidence
<1>3. ASSUME i \in DOMAIN releases
      PROVE  Mismatched(releases[i], a) \subseteq Mismatched(releases[i], b)
  BY <1>1, <1>3, ReleasesAssumption, VerdictAssumption DEF Mismatched, NoForgery
<1>4. i # 0 => Mismatched(releases[i], a) \subseteq Mismatched(releases[i], b)
  BY <1>3, NamedVersion DEF TypeOK
<1> QED
  BY <1>1, <1>2, <1>4 DEF FindingsOf

\* Fewer findings never count for more.
LEMMA CountGrows ==
    ASSUME NEW F, NEW G, F \subseteq G, NEW S, IsFiniteSet(S)
    PROVE  /\ Cardinality(F \cap S) \in Nat /\ Cardinality(G \cap S) \in Nat
           /\ Cardinality(F \cap S) <= Cardinality(G \cap S)
<1>1. IsFiniteSet(G \cap S)
  BY FS_Subset
<1>2. F \cap S \in SUBSET (G \cap S)
  OBVIOUS
<1> QED
  BY <1>1, <1>2, FS_Subset, FS_CardinalityType

\* The sets of findings with one weight are finite.
LEMMA WeighedFinite ==
    /\ IsFiniteSet({"vm"}) /\ IsFiniteSet({"unknown"}) /\ IsFiniteSet({"modules"})
    /\ IsFiniteSet({"deprecated"}) /\ IsFiniteSet({"debugger"}) /\ IsFiniteSet({"signer"})
    /\ IsFiniteSet({"binary", "manifest", "signature"})
    /\ IsFiniteSet({"blocked", "schema", "tables", "assets", "workflow",
                    "business", "database"})
<1>1. \A x : IsFiniteSet({x})
  BY FS_Singleton
<1>2. \A x, S : IsFiniteSet(S) => IsFiniteSet(S \cup {x})
  BY FS_AddElement
<1>3. IsFiniteSet({"binary"} \cup {"manifest"} \cup {"signature"})
  BY <1>1, <1>2
<1>4. IsFiniteSet({"blocked"} \cup {"schema"} \cup {"tables"} \cup {"assets"}
                  \cup {"workflow"} \cup {"business"} \cup {"database"})
  BY <1>1, <1>2
<1>5. {"binary", "manifest", "signature"} = {"binary"} \cup {"manifest"} \cup {"signature"}
  OBVIOUS
<1>6. {"blocked", "schema", "tables", "assets", "workflow", "business", "database"} =
      {"blocked"} \cup {"schema"} \cup {"tables"} \cup {"assets"}
          \cup {"workflow"} \cup {"business"} \cup {"database"}
  OBVIOUS
<1> QED
  BY <1>1, <1>3, <1>4, <1>5, <1>6

\* More findings, with more suspicious modules, never lower the score, which lies
\* between 10 and 100.
LEMMA ScoreGrows ==
    ASSUME NEW rs, NEW a \in Evidence, NEW b \in Evidence,
           FindingsOf(rs, a) \subseteq FindingsOf(rs, b), a.modules <= b.modules
    PROVE  /\ Score(rs, a) \in 10..100 /\ Score(rs, b) \in 10..100
           /\ Score(rs, a) <= Score(rs, b)
<1> DEFINE F == FindingsOf(rs, a)
           G == FindingsOf(rs, b)
           N(H, S) == Cardinality(H \cap S)
           heavy == {"binary", "manifest", "signature"}
           others == {"blocked", "schema", "tables", "assets", "workflow",
                      "business", "database"}
           Sum(H, m) == 10 + 12 * N(H, {"vm"}) + 20 * N(H, {"unknown"}) + m
                        + 35 * N(H, {"deprecated"}) + 40 * N(H, {"debugger"})
                        + 80 * N(H, {"signer"}) + 90 * N(H, heavy) + 85 * N(H, others)
           ma == (20 + 8 * a.modules) * N(F, {"modules"})
           mb == (20 + 8 * b.modules) * N(G, {"modules"})
<1>1. \A S \in {{"vm"}, {"unknown"}, {"modules"}, {"deprecated"}, {"debugger"},
                {"signer"}, heavy, others} :
          N(F, S) \in Nat /\ N(G, S) \in Nat /\ N(F, S) <= N(G, S)
  BY CountGrows, WeighedFinite
<1>2. ma \in Nat /\ mb \in Nat /\ ma <= mb
  <2>1. a.modules \in Nat /\ b.modules \in Nat
    BY DEF Evidence
  <2>2. N(G, {"modules"}) <= 1
    <3>1. G \cap {"modules"} = {} \/ G \cap {"modules"} = {"modules"}
      OBVIOUS
    <3>2. Cardinality({"modules"}) = 1 /\ Cardinality({}) = 0
      BY FS_Singleton, FS_EmptySet
    <3> HIDE DEF G
    <3> QED
      BY <3>1, <3>2
  <2>3. N(F, {"modules"}) \in Nat /\ N(G, {"modules"}) \in Nat
        /\ N(F, {"modules"}) <= N(G, {"modules"})
    BY <1>1
  <2> DEFINE x == N(F, {"modules"})
             y == N(G, {"modules"})
  <2> HIDE DEF N, F, G
  <2>4. x \in {0, 1} /\ y \in {0, 1} /\ x <= y
    BY <2>2, <2>3
  <2>5. CASE x = 0
    BY <2>1, <2>4, <2>5
  <2>6. CASE x = 1
    BY <2>1, <2>4, <2>6
  <2> QED
    BY <2>4, <2>5, <2>6
<1>3. Score(rs, a) = Capped(Sum(F, ma)) /\ Score(rs, b) = Capped(Sum(G, mb))
  BY DEF Score
<1>4. /\ Sum(F, ma) \in Nat /\ Sum(F, ma) >= 10 /\ Sum(G, mb) \in Nat
      /\ Sum(F, ma) <= Sum(G, mb)
  <2> HIDE DEF ma, mb, F, G, N, heavy, others
  <2> QED
    BY <1>1, <1>2
<1> HIDE DEF Sum
<1> QED
  BY <1>3, <1>4 DEF Capped

\* Whatever is registered and set, worse evidence is denied when the better is, does not
\* score lower, and gets no longer-lived token.
THEOREM EvidenceTightens == Spec => []EvidenceOnlyTightens
<1>1. TypeOK /\ NoForgery => EvidenceOnlyTightens
  <2> SUFFICES ASSUME TypeOK, NoForgery
               PROVE  EvidenceOnlyTightens
    OBVIOUS
  <2> DEFINE long == InForce["token_ttl"]
             short == InForce["risk_ttl"]
             score(e) == Score(releases, e)
             lifetime(e) == Lifetime(Level(score(e)), long, short)
  <2>1. long \in Nat /\ short \in Nat /\ short <= long
    <3>1. /\ InForce \in [Tunables -> Int]
          /\ \A t \in Tunables : Lowest[t] <= InForce[t]
          /\ short <= long
      BY NormalForm DEF TypeOK, InForce
    <3> HIDE DEF InForce
    <3> QED
      BY <3>1, Ranges
  <2>2. Verdicts = [e \in Reports |-> [denied |-> Denied(releases, e), score |-> score(e),
                                       lifetime |-> lifetime(e)]]
    BY DEF Verdicts
  <2>3. \A e \in Reports : score(e) \in 10..100 /\ lifetime(e) \in Nat
    <3> SUFFICES ASSUME NEW e \in Reports
                 PROVE  score(e) \in 10..100 /\ lifetime(e) \in Nat
      OBVIOUS
    <3>1. score(e) \in 10..100
      <4>1. e \in Evidence /\ e.modules <= e.modules
        BY VerdictAssumption DEF Evidence
      <4> QED
        BY <4>1, ScoreGrows
    <3> QED
      BY <2>1, <3>1 DEF Lifetime
  <2>4. \A e \in Reports : Denied(releases, e) \in BOOLEAN
    BY DEF Denied
  <2>5. Verdicts \in [Reports -> [denied: BOOLEAN, score: 10..100, lifetime: Nat]]
    <3> HIDE DEF score, lifetime
    <3> QED
      BY <2>2, <2>3, <2>4
  <2>6. ASSUME NEW p \in WorseReports
        PROVE  /\ Denied(releases, p[1]) => Denied(releases, p[2])
               /\ score(p[1]) <= score(p[2])
               /\ lifetime(p[1]) >= lifetime(p[2])
    <3>1. /\ p[1] \in Reports /\ p[2] \in Reports
          /\ p[1] \in Evidence /\ p[2] \in Evidence /\ p[1].modules <= p[2].modules
      BY VerdictAssumption DEF WorseReports
    <3>2. FindingsOf(releases, p[1]) \subseteq FindingsOf(releases, p[2])
      BY FindingsGrow
    <3>3. score(p[1]) <= score(p[2])
      BY <3>1, <3>2, ScoreGrows
    <3>4. lifetime(p[1]) >= lifetime(p[2])
      <4> HIDE DEF long, short, score
      <4> QED
        BY <2>1, <2>3, <3>1, <3>3 DEF Lifetime, Level
    <3> QED
      BY <3>2, <3>3, <3>4 DEF Denied
  <2>7. \A p \in WorseReports : p[1] \in Reports /\ p[2] \in Reports
    BY DEF WorseReports
  <2> HIDE DEF score, lifetime
  <2> QED
    BY <2>2, <2>5, <2>6, <2>7 DEF EvidenceOnlyTightens
<1> QED
  BY <1>1, VerdictTypeCorrect, NothingForged, PTL
=============================================================================
