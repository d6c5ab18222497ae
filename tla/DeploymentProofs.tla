--------------------------- MODULE DeploymentProofs ---------------------------
(* Theorems about Deployment, for every value of its constants. *)
EXTENDS Deployment, TLAPS

----------------------------------------------------------------------------
(* Migrations *)

\* A runner has passed no file but the seed that is not recorded.
RunnersInOrder ==
    \A r \in Runners, e \in 1..LastFile :
        e < runner[r].at /\ e # SeedFile => e \in schema

\* The types of the migrations.
MigrationsType ==
    /\ schema \subseteq 1..LastFile
    /\ runner \in [Runners -> Progress]
    /\ \A r \in Runners : runner[r].missing => runner[r].at > 0

\* Migrations that are recorded stay recorded.
LEMMA RunnerStep ==
    ASSUME MigrationsType, RunnersInOrder, MigrationsInOrder, [Next]_vars
    PROVE  MigrationsType' /\ RunnersInOrder' /\ MigrationsInOrder'
<1> USE DeploymentAssumption
<1>1. Idle \in Progress
  BY DEF Idle, Progress
<1>2. ASSUME NEW r \in Runners, runner[r].at > 0
      PROVE  /\ After(r) \in Progress /\ ~ After(r).missing
             /\ After(r).at \in {0, runner[r].at + 1}
             /\ runner[r].at \in 1..LastFile
  <2>1. runner[r] \in Progress /\ runner[r].at \in 1..LastFile
    BY <1>2 DEF MigrationsType, Progress
  <2>2. CASE runner[r].at = LastFile
    BY <1>1, <2>1, <2>2 DEF After, Idle
  <2>3. CASE runner[r].at # LastFile
    <3>1. After(r) = [runner[r] EXCEPT !.at = @ + 1, !.missing = FALSE]
      BY <2>3 DEF After
    <3>2. runner[r].at + 1 \in 0..LastFile
      BY <2>1, <2>3
    <3> QED
      BY <2>1, <3>1, <3>2 DEF Progress
  <2> QED
    BY <2>2, <2>3
<1>3. ASSUME NEW r \in Runners, NEW next \in Progress, Runs(r, next),
             schema \subseteq schema', schema' \subseteq 1..LastFile,
             next.missing => next.at > 0,
             \A e \in 1..LastFile : e < next.at /\ e # SeedFile => e \in schema'
      PROVE  MigrationsType' /\ RunnersInOrder'
  <2>1. runner' \in [Runners -> Progress]
    BY <1>3 DEF Runs, MigrationsType
  <2>2. \A q \in Runners : runner'[q] = IF q = r THEN next ELSE runner[q]
    BY <1>3 DEF Runs, MigrationsType
  <2> QED
    BY <1>3, <2>1, <2>2 DEF MigrationsType, RunnersInOrder
<1>4. ASSUME NEW r \in Runners, NEW seeds \in BOOLEAN, BeginMigrations(r, seeds)
      PROVE  MigrationsType' /\ RunnersInOrder' /\ MigrationsInOrder'
  <2> DEFINE next == [at |-> 1, seeds |-> seeds, missing |-> FALSE]
  <2>1. next \in Progress /\ Runs(r, next) /\ schema' = schema
    BY <1>4 DEF BeginMigrations, Progress
  <2>2. MigrationsType' /\ RunnersInOrder'
    BY <1>3, <2>1 DEF MigrationsType
  <2> QED
    BY <2>1, <2>2 DEF MigrationsInOrder
<1>5. ASSUME NEW r \in Runners, CheckFile(r)
      PROVE  MigrationsType' /\ RunnersInOrder' /\ MigrationsInOrder'
  <2>1. runner[r].at > 0 /\ schema' = schema
    BY <1>5 DEF CheckFile
  <2>2. CASE \/ runner[r].at = SeedFile /\ ~ runner[r].seeds
             \/ runner[r].at \in schema
    <3>1. Runs(r, After(r))
      BY <1>5, <2>2 DEF CheckFile
    <3>2. \A e \in 1..LastFile : e < After(r).at /\ e # SeedFile => e \in schema'
      BY <1>2, <2>1, <2>2 DEF RunnersInOrder
    <3>3. MigrationsType' /\ RunnersInOrder'
      BY <1>2, <1>3, <2>1, <3>1, <3>2 DEF MigrationsType
    <3> QED
      BY <2>1, <3>3 DEF MigrationsInOrder
  <2>3. CASE ~ \/ runner[r].at = SeedFile /\ ~ runner[r].seeds
               \/ runner[r].at \in schema
    <3> DEFINE next == [runner[r] EXCEPT !.missing = TRUE]
    <3>1. Runs(r, next)
      BY <1>5, <2>3 DEF CheckFile
    <3>2. next \in Progress /\ next.at = runner[r].at
      BY DEF MigrationsType, Progress
    <3>3. MigrationsType' /\ RunnersInOrder'
      BY <1>3, <2>1, <3>1, <3>2 DEF MigrationsType, RunnersInOrder
    <3> QED
      BY <2>1, <3>3 DEF MigrationsInOrder
  <2> QED
    BY <2>2, <2>3
<1>6. ASSUME NEW r \in Runners, ApplyFile(r)
      PROVE  MigrationsType' /\ RunnersInOrder' /\ MigrationsInOrder'
  <2>1. runner[r].at > 0 /\ schema' = schema \cup {runner[r].at} /\ Runs(r, After(r))
    BY <1>6 DEF ApplyFile, MigrationsType
  <2>2. \A e \in 1..LastFile : e < After(r).at /\ e # SeedFile => e \in schema'
    BY <1>2, <2>1 DEF RunnersInOrder
  <2>3. MigrationsType' /\ RunnersInOrder'
    BY <1>2, <1>3, <2>1, <2>2 DEF MigrationsType
  <2> QED
    BY <1>2, <2>1, <2>3 DEF MigrationsInOrder, RunnersInOrder
<1>7. ASSUME NEW r \in Runners, FailFile(r)
      PROVE  MigrationsType' /\ RunnersInOrder' /\ MigrationsInOrder'
  <2>1. Runs(r, Idle) /\ schema' = schema /\ Idle.at = 0 /\ ~ Idle.missing
    BY <1>7 DEF FailFile, Idle
  <2>2. MigrationsType' /\ RunnersInOrder'
    BY <1>1, <1>3, <2>1 DEF MigrationsType
  <2> QED
    BY <2>1, <2>2 DEF MigrationsInOrder
<1>8. CASE UNCHANGED migrating
  BY <1>8 DEF migrating, MigrationsType, RunnersInOrder, MigrationsInOrder
<1>9. ASSUME NEW s \in Servers,
             \/ \E a \in Apps, v \in Versions : CreateApp(s, a, v) \/ CreateRelease(s, a, v)
             \/ CreateMisfit(s)
             \/ \E a \in Apps, C \in SUBSET Capabilities \ {{}} : UpsertPolicies(s, a, C)
             \/ \E a \in Apps : SeedDefaultPolicies(s, a) \/ RotateKey(s, a)
             \/ OtherChange(s)
      PROVE  UNCHANGED migrating
  BY <1>9 DEF CreateApp, CreateRelease, CreateMisfit, UpsertPolicies, SeedDefaultPolicies,
              RotateKey, OtherChange, Saved, migrating
<1>10. ASSUME NEW s \in Servers,
              Stop(s) \/ \E bootstrap \in BOOLEAN : Start(s, bootstrap)
       PROVE  UNCHANGED migrating
  BY <1>10 DEF Stop, Start, StartRefused, StartUnchanged, StartSaved, migrating
<1>11. LoseSigningKey \/ UNCHANGED vars => UNCHANGED migrating
  BY DEF LoseSigningKey, vars, migrating
<1> QED
  BY <1>4, <1>5, <1>6, <1>7, <1>8, <1>9, <1>10, <1>11 DEF Next

\* Types and order of the migrations hold throughout.
LEMMA RunnersHold == Spec => [](MigrationsType /\ RunnersInOrder /\ MigrationsInOrder)
<1>1. Init => MigrationsType /\ RunnersInOrder /\ MigrationsInOrder
  BY DeploymentAssumption
  DEF Init, Idle, Progress, MigrationsType, RunnersInOrder, MigrationsInOrder
<1> QED
  BY <1>1, RunnerStep, PTL DEF Spec

\* A migration is recorded only when all before it are but the seed, for any number of
\* runners and files and whatever fails in between.
THEOREM MigrationsRunInOrder == Spec => []MigrationsInOrder
  BY RunnersHold, PTL

----------------------------------------------------------------------------
(* Databases: what every change of one keeps *)

\* A database with the SDK keys as the code keeps them: at most one active key of an
\* app, and none of an app that is not there.
Sane(d) ==
    /\ d \in Database
    /\ \A a \in Apps : d.keys[a].active \in {<<>>} \cup {<<pub>> : pub \in Nat}
    /\ \A a \in Apps \ d.apps : d.keys[a].active = <<>>

\* What start-up sees to: the settings are in normal form, and every app has its
\* active key, with the public key pub.
KeyedFor(d, pub) == d.normal /\ \A a \in d.apps : d.keys[a].active = <<pub>>

\* Nothing of the demo seed.
NoDemo(d) == d.admin # "demo" /\ ~ d.seeded

\* The store of a new machine.
LEMMA EmptySane == Sane(EmptyDatabase) /\ NoDemo(EmptyDatabase)
<1>1. EmptyDatabase \in Database
  <2>1. <<>> \in Seq(Nat)
    OBVIOUS
  <2> QED
    BY <2>1 DEF EmptyDatabase, Database, NoKeys, Keys, PolicyKind, AdminKind
<1> QED
  BY <1>1 DEF Sane, NoDemo, EmptyDatabase, NoKeys

\* Filing a release, or a row that no table accepts.
LEMMA RowKept ==
    ASSUME NEW d, Sane(d), NEW a \in Apps, NEW v \in Versions, NEW pub
    PROVE  \A e \in {WithMisfit(d), WithRelease(d, a, v)} :
               /\ Sane(e)
               /\ NoDemo(d) => NoDemo(e)
               /\ KeyedFor(d, pub) => KeyedFor(e, pub)
<1>1. WithMisfit(d) \in Database
  <2> DEFINE m == d.misfits + 1
  <2>1. m \in Nat /\ d \in Database
    BY DEF Sane, Database
  <2>2. WithMisfit(d) = [d EXCEPT !.misfits = m]
    BY DEF WithMisfit
  <2> HIDE DEF m
  <2> QED
    BY <2>1, <2>2 DEF Database
<1>2. [d EXCEPT !.releases[a] = @ \cup {v}] \in Database
  BY DEF Sane, Database
<1>3. ASSUME NEW e \in {WithMisfit(d), [d EXCEPT !.releases[a] = @ \cup {v}]}
      PROVE  e.apps = d.apps /\ e.keys = d.keys /\ e.admin = d.admin
             /\ e.seeded = d.seeded /\ e.normal = d.normal /\ e \in Database
  <2>1. e \in Database
    BY <1>1, <1>2
  <2>2. e.apps = d.apps /\ e.keys = d.keys /\ e.admin = d.admin /\ e.seeded = d.seeded
        /\ e.normal = d.normal
    BY DEF WithMisfit, Sane, Database
  <2> QED
    BY <2>1, <2>2
<1>4. ASSUME NEW e \in {WithMisfit(d), WithRelease(d, a, v)}
      PROVE  e \in {WithMisfit(d), [d EXCEPT !.releases[a] = @ \cup {v}]}
  BY DEF WithRelease
<1>5. ASSUME NEW e \in {WithMisfit(d), WithRelease(d, a, v)}
      PROVE  /\ Sane(e)
             /\ NoDemo(d) => NoDemo(e)
             /\ KeyedFor(d, pub) => KeyedFor(e, pub)
  <2>1. e.apps = d.apps /\ e.keys = d.keys /\ e.admin = d.admin
        /\ e.seeded = d.seeded /\ e.normal = d.normal /\ e \in Database
    BY <1>3, <1>4
  <2> QED
    BY <2>1 DEF Sane, NoDemo, KeyedFor
<1> QED
  BY <1>5

\* Changing policies.
LEMMA PoliciesKept ==
    ASSUME NEW d, Sane(d), NEW a \in Apps, NEW C \in SUBSET Capabilities, NEW pub
    PROVE  \A e \in {WithPolicies(d, a, C), WithDefaultPolicies(d, a)} :
               /\ Sane(e) /\ e.apps = d.apps /\ e.keys = d.keys
               /\ NoDemo(d) => NoDemo(e)
               /\ KeyedFor(d, pub) => KeyedFor(e, pub)
<1>1. Filled(d.policies[a]) \in [Capabilities -> PolicyKind]
  BY DEF Sane, Database, Filled, PolicyKind
<1>2. [c \in Capabilities |-> IF c \in C THEN "custom" ELSE d.policies[a][c]]
      \in [Capabilities -> PolicyKind]
  BY DEF Sane, Database, PolicyKind
<1>3. ASSUME NEW P \in [Capabilities -> PolicyKind], NEW e, e = [d EXCEPT !.policies[a] = P]
      PROVE  /\ Sane(e) /\ e.apps = d.apps /\ e.keys = d.keys
             /\ NoDemo(d) => NoDemo(e)
             /\ KeyedFor(d, pub) => KeyedFor(e, pub)
  <2>1. /\ e \in Database /\ e.apps = d.apps /\ e.keys = d.keys
        /\ e.admin = d.admin /\ e.seeded = d.seeded /\ e.normal = d.normal
    BY <1>3 DEF Sane, Database
  <2> QED
    BY <2>1 DEF Sane, NoDemo, KeyedFor
<1> SUFFICES ASSUME NEW e \in {WithPolicies(d, a, C), WithDefaultPolicies(d, a)}
             PROVE  /\ Sane(e) /\ e.apps = d.apps /\ e.keys = d.keys
                    /\ NoDemo(d) => NoDemo(e)
                    /\ KeyedFor(d, pub) => KeyedFor(e, pub)
  OBVIOUS
<1>4. \E P \in [Capabilities -> PolicyKind] : e = [d EXCEPT !.policies[a] = P]
  BY <1>1, <1>2 DEF WithPolicies, WithDefaultPolicies
<1> QED
  BY <1>3, <1>4

\* A new app has the one key that was made with it.
LEMMA NewAppKept ==
    ASSUME NEW d, Sane(d), NEW a \in Apps \ d.apps, NEW v \in Versions, NEW pub \in Nat
    PROVE  LET e == NewApp(d, a, v, pub)
           IN  /\ Sane(e)
               /\ NoDemo(d) => NoDemo(e)
               /\ KeyedFor(d, pub) => KeyedFor(e, pub)
<1> DEFINE e == [d EXCEPT !.apps = @ \cup {a}, !.keys[a].active = Append(@, pub),
                          !.releases[a] = @ \cup {v}]
<1>1. Append(d.keys[a].active, pub) = <<pub>> /\ <<pub>> \in Seq(Nat)
  <2>1. d.keys[a].active = <<>>
    BY DEF Sane
  <2>2. Append(<<>>, pub) = <<pub>>
    OBVIOUS
  <2> QED
    BY <2>1, <2>2
<1>2. e.keys = [d.keys EXCEPT ![a] = [active |-> <<pub>>, retired |-> @.retired]]
  <2>1. e.keys = [d.keys EXCEPT ![a].active = <<pub>>]
    BY <1>1 DEF Sane, Database
  <2>2. [d.keys[a] EXCEPT !.active = <<pub>>] =
            [active |-> <<pub>>, retired |-> d.keys[a].retired]
    <3>1. d.keys[a] \in Keys
      BY DEF Sane, Database
    <3> QED
      BY <3>1 DEF Keys
  <2> QED
    BY <2>1, <2>2
<1>3. [active |-> <<pub>>, retired |-> d.keys[a].retired] \in Keys
  BY <1>1 DEF Sane, Database, Keys
<1>4. /\ e.apps = d.apps \cup {a} /\ e.admin = d.admin /\ e.seeded = d.seeded
      /\ e.normal = d.normal /\ e \in Database
  <2> DEFINE keys == [d.keys EXCEPT ![a].active = Append(@, pub)]
             releases == [d.releases EXCEPT ![a] = @ \cup {v}]
  <2>1. e = [d EXCEPT !.apps = @ \cup {a}, !.keys = keys, !.releases = releases]
    BY DEF Sane, Database
  <2>2. keys \in [Apps -> Keys]
    <3>1. e.keys = keys
      BY <2>1 DEF Sane, Database
    <3>2. d.keys \in [Apps -> Keys]
      BY DEF Sane, Database
    <3> HIDE DEF e, keys
    <3> QED
      BY <1>2, <1>3, <3>1, <3>2
  <2>3. releases \in [Apps -> SUBSET Versions]
    BY DEF Sane, Database
  <2> HIDE DEF e, keys, releases
  <2> QED
    BY <2>1, <2>2, <2>3 DEF Sane, Database
<1>5. Sane(e) /\ (NoDemo(d) => NoDemo(e)) /\ (KeyedFor(d, pub) => KeyedFor(e, pub))
  <2>1. \A b \in Apps : e.keys[b].active = IF b = a THEN <<pub>> ELSE d.keys[b].active
    <3>1. d.keys \in [Apps -> Keys]
      BY DEF Sane, Database
    <3> HIDE DEF e
    <3> QED
      BY <1>2, <3>1
  <2>2. d.apps \subseteq Apps
    BY DEF Sane, Database
  <2> HIDE DEF e
  <2> QED
    BY <1>4, <2>1, <2>2 DEF Sane, NoDemo, KeyedFor
<1>6. CASE a \in VisionFlow
  BY <1>5, <1>6, PoliciesKept DEF NewApp
<1>7. CASE a \notin VisionFlow
  BY <1>5, <1>7 DEF NewApp
<1> QED
  BY <1>6, <1>7

\* Rotation leaves one active key.
LEMMA RotatedKept ==
    ASSUME NEW d, Sane(d), NEW a \in d.apps, NEW pub \in Nat
    PROVE  LET e == [d EXCEPT !.keys[a] = Rotated(@, pub)]
           IN  /\ Sane(e)
               /\ NoDemo(d) => NoDemo(e)
               /\ KeyedFor(d, pub) => KeyedFor(e, pub)
<1>1. a \in Apps /\ d.keys[a] \in Keys
  BY DEF Sane, Database
<1>2. Rotated(d.keys[a], pub) \in Keys /\ Rotated(d.keys[a], pub).active = <<pub>>
  BY <1>1 DEF Rotated, Keys
<1> QED
  BY <1>1, <1>2 DEF Sane, NoDemo, KeyedFor, Database

\* The demo seed of migration 002 adds an app without a key.
LEMMA SeededKept ==
    ASSUME NEW d, Sane(d)
    PROVE  Sane(Seeded(d))
  BY CatalogAssumption DEF Sane, Seeded, Database

\* The demo data of a server.
LEMMA DemoDataKept ==
    ASSUME NEW pub \in Nat
    PROVE  Sane(DemoData(pub)) /\ KeyedFor(DemoData(pub), pub)
<1>1. <<pub>> \in Seq(Nat)
  OBVIOUS
<1> DEFINE e == DemoData(pub)
<1>2. \A a \in Apps : e.keys[a] = IF a = DemoApp THEN [active |-> <<pub>>, retired |-> 0]
                                  ELSE NoKeys
  BY CatalogAssumption DEF DemoData, EmptyDatabase, NoKeys
<1>3. /\ e.apps = {DemoApp} /\ e.seeded = TRUE /\ e.admin = "demo" /\ e.normal
      /\ e.releases \in [Apps -> SUBSET Versions]
      /\ e.keys \in [Apps -> Keys]
  <2>1. e.keys = [a \in Apps |-> e.keys[a]]
    BY DEF DemoData, EmptyDatabase
  <2>2. \A a \in Apps : e.keys[a] \in Keys
    <3>1. <<>> \in Seq(Nat)
      OBVIOUS
    <3>2. NoKeys \in Keys /\ [active |-> <<pub>>, retired |-> 0] \in Keys
      BY <1>1, <3>1 DEF NoKeys, Keys
    <3> HIDE DEF e
    <3> QED
      BY <1>2, <3>2
  <2>3. e.keys \in [Apps -> Keys]
    <3> HIDE DEF e
    <3> QED
      BY <2>1, <2>2
  <2> QED
    BY <2>3, CatalogAssumption DEF DemoData, EmptyDatabase
<1>4. e \in Database
  <2>1. EmptyDatabase \in Database
    BY EmptySane DEF Sane
  <2>2. e.apps \in SUBSET Apps
    BY <1>3, CatalogAssumption
  <2> QED
    BY <1>3, <2>1, <2>2 DEF DemoData, Database, AdminKind
<1> HIDE DEF e
<1>5. \A a \in Apps : e.keys[a].active = IF a = DemoApp THEN <<pub>> ELSE <<>>
  <2>1. NoKeys.active = <<>> /\ [active |-> <<pub>>, retired |-> 0].active = <<pub>>
    BY DEF NoKeys
  <2> QED
    BY <1>2, <2>1
<1>6. \A a \in Apps : e.keys[a].active \in {<<>>} \cup {<<p>> : p \in Nat}
  BY <1>5
<1>7. \A a \in Apps \ e.apps : e.keys[a].active = <<>>
  BY <1>3, <1>5
<1>8. KeyedFor(e, pub)
  BY <1>3, <1>5, CatalogAssumption DEF KeyedFor
<1>9. Sane(e)
  BY <1>4, <1>6, <1>7 DEF Sane
<1> QED
  BY <1>8, <1>9 DEF e

\* An administrator is added when there is none.
LEMMA AdminKept ==
    ASSUME NEW d, Sane(d), NEW bootstrap \in BOOLEAN, NEW pub
    PROVE  LET e == WithAdmin(d, bootstrap)
           IN  /\ Sane(e)
               /\ NoDemo(d) /\ (d.admin # "none" \/ bootstrap) => NoDemo(e)
               /\ KeyedFor(d, pub) => KeyedFor(e, pub)
  BY DEF Sane, WithAdmin, NoDemo, KeyedFor, Database, AdminKind

\* After start-up every app has one active key, with the server's public key.
LEMMA LoadedKept ==
    ASSUME NEW d, Sane(d), NEW pub \in Nat
    PROVE  LET e == WithLoadedDefaults(d, pub)
           IN  /\ Sane(e) /\ KeyedFor(e, pub)
               /\ e.admin = d.admin /\ e.seeded = d.seeded
<1> DEFINE e == WithLoadedDefaults(d, pub)
           keys == [a \in Apps |-> IF a \in d.apps THEN Refreshed(d.keys[a], pub)
                                   ELSE d.keys[a]]
           policies == [a \in Apps |->
                           IF a \in (d.apps \cap VisionFlow) \ Keyless(d)
                           THEN Filled(d.policies[a]) ELSE d.policies[a]]
<1>1. \A a \in Apps : /\ Refreshed(d.keys[a], pub) \in Keys
                      /\ Refreshed(d.keys[a], pub).active = <<pub>>
  <2> SUFFICES ASSUME NEW a \in Apps
               PROVE  /\ Refreshed(d.keys[a], pub) \in Keys
                      /\ Refreshed(d.keys[a], pub).active = <<pub>>
    OBVIOUS
  <2>1. d.keys[a] \in Keys /\ <<pub>> \in Seq(Nat)
    BY DEF Sane, Database
  <2>2. CASE d.keys[a].active = <<>>
    BY <2>1, <2>2 DEF Refreshed, Keys
  <2>3. CASE d.keys[a].active # <<>>
    <3>1. PICK q \in Nat : d.keys[a].active = <<q>>
      BY <2>3 DEF Sane
    <3>2. [<<q>> EXCEPT ![1] = pub] = <<pub>>
      OBVIOUS
    <3>3. Refreshed(d.keys[a], pub) = [d.keys[a] EXCEPT !.active = <<pub>>]
      BY <2>1, <2>3, <3>1, <3>2 DEF Refreshed, Keys
    <3> QED
      BY <2>1, <3>3 DEF Keys
  <2> QED
    BY <2>2, <2>3
<1>2. keys \in [Apps -> Keys]
  BY <1>1 DEF Sane, Database
<1>3. policies \in [Apps -> [Capabilities -> PolicyKind]]
  BY DEF Sane, Database, Filled, PolicyKind
<1>4. /\ e \in Database /\ e.apps = d.apps /\ e.keys = keys
      /\ e.admin = d.admin /\ e.seeded = d.seeded /\ e.normal
  <2>1. e = [d EXCEPT !.normal = TRUE, !.keys = keys, !.policies = policies]
    BY DEF WithLoadedDefaults
  <2> HIDE DEF keys, policies
  <2> QED
    BY <1>2, <1>3, <2>1 DEF Sane, Database
<1>5. d.apps \subseteq Apps
  BY DEF Sane, Database
<1>6. \A a \in Apps : e.keys[a] = IF a \in d.apps THEN Refreshed(d.keys[a], pub)
                                  ELSE d.keys[a]
  BY <1>4
<1>7. Sane(d)
  OBVIOUS
<1> HIDE DEF e, keys
<1>8. \A a \in Apps : e.keys[a].active = IF a \in d.apps THEN <<pub>> ELSE <<>>
  BY <1>1, <1>6, <1>7 DEF Sane
<1>9. \A a \in Apps : e.keys[a].active \in {<<>>} \cup {<<p>> : p \in Nat}
  BY <1>8
<1>10. \A a \in Apps \ e.apps : e.keys[a].active = <<>>
  BY <1>4, <1>8
<1>11. KeyedFor(e, pub)
  BY <1>4, <1>5, <1>8 DEF KeyedFor
<1>12. Sane(e)
  BY <1>4, <1>9, <1>10 DEF Sane
<1> QED
  BY <1>4, <1>11, <1>12 DEF e

----------------------------------------------------------------------------
(* The store and the servers *)

\* The types of everything but the migrations.
ServingType ==
    /\ postgres \in BOOLEAN /\ production \in BOOLEAN
    /\ disk \in Stores
    /\ phase \in [Servers -> {"down", "up", "refused"}]
    /\ mem \in [Servers -> Database]
    /\ signingKey \in Nat
    /\ skipped \in [Servers -> SUBSET Apps]
    /\ failures \in Nat

\* The databases that exist have their keys in order, and a server that is up has given
\* every app the public key it signs with.
KeysInOrder ==
    /\ Sane(disk.data)
    /\ \A s \in Servers : Sane(mem[s]) /\ (phase[s] = "up" => KeyedFor(mem[s], signingKey))

\* In production nothing holds demo data, and no runner seeds; a store that cannot be
\* read, or is missing, holds nothing.
NoDemoAnywhere ==
    /\ disk.status # "whole" => disk.data = EmptyDatabase
    /\ production =>
          /\ NoDemo(disk.data)
          /\ \A s \in Servers : NoDemo(mem[s])
          /\ \A r \in Runners : ~ runner[r].seeds
    /\ \A r \in Runners : runner[r].missing /\ runner[r].at = SeedFile => runner[r].seeds

Proper == ServingType /\ KeysInOrder /\ NoDemoAnywhere

\* The three kinds of store.
LEMMA StoreTypes ==
    /\ Torn \in Stores /\ Torn.data = EmptyDatabase
    /\ Missing \in Stores /\ Missing.data = EmptyDatabase
    /\ \A d \in Database : Whole(d) \in Stores /\ Whole(d).data = d /\ Whole(d).status = "whole"
  BY EmptySane DEF Torn, Missing, Whole, Stores, Sane

\* What a save may leave on disk.
LEMMA InterruptedStores ==
    ASSUME NEW d
    PROVE  /\ Interrupted(d) \subseteq {disk, Torn, Whole(d)}
           /\ postgres => Interrupted(d) \subseteq {disk, Whole(d)}
  BY DEF Interrupted

\* A handler that makes d of the memory and saves keeps what d keeps.
LEMMA SavedKeeps ==
    ASSUME Proper, NEW s \in Servers, NEW d, Saved(s, d), Sane(d),
           NoDemo(mem[s]) => NoDemo(d),
           KeyedFor(mem[s], signingKey) => KeyedFor(d, signingKey)
    PROVE  Proper'
<1>1. /\ UNCHANGED <<postgres, production, schema, runner, signingKey, skipped>>
      /\ phase[s] = "up" /\ d \in Database /\ EmptyDatabase \in Database
  BY EmptySane DEF Saved, environment, migrating, Sane
<1>2. disk' \in {disk, Torn, Whole(d)} /\ failures' \in Nat
  BY InterruptedStores DEF Saved, Answered, SaveFails, Killed, Proper, ServingType
<1>3. \/ mem' = [mem EXCEPT ![s] = d] /\ phase' = phase
      \/ mem' = [mem EXCEPT ![s] = EmptyDatabase] /\ phase' = [phase EXCEPT ![s] = "down"]
  BY DEF Saved, Answered, SaveFails, Killed
<1>4. ServingType'
  BY <1>1, <1>2, <1>3, StoreTypes DEF Proper, ServingType
<1>5. Sane(disk'.data) /\ (disk'.status # "whole" => disk'.data = EmptyDatabase)
  BY <1>1, <1>2, StoreTypes, EmptySane DEF Proper, KeysInOrder, NoDemoAnywhere
<1>6. \A t \in Servers :
          \/ t # s /\ mem'[t] = mem[t] /\ phase'[t] = phase[t]
          \/ t = s /\ mem'[t] = d /\ phase'[t] = "up"
          \/ t = s /\ mem'[t] = EmptyDatabase /\ phase'[t] = "down"
  BY <1>1, <1>3 DEF Proper, ServingType
<1>7. KeysInOrder'
  BY <1>1, <1>5, <1>6, EmptySane DEF Proper, KeysInOrder
<1>8. NoDemoAnywhere'
  <2>1. production => NoDemo(disk'.data)
    BY <1>1, <1>2, StoreTypes, EmptySane DEF Proper, NoDemoAnywhere
  <2> QED
    BY <1>1, <1>5, <1>6, <2>1, EmptySane DEF Proper, NoDemoAnywhere
<1> QED
  BY <1>4, <1>7, <1>8 DEF Proper

\* A deployment begins with a store without demo data and with no keys.
LEMMA ProperInit == Init => Proper
<1> SUFFICES ASSUME Init
             PROVE  Proper
  OBVIOUS
<1>1. Sane(disk.data) /\ NoDemo(disk.data) /\ disk \in Stores
      /\ (disk.status # "whole" => disk.data = EmptyDatabase)
  <2>1. CASE disk \in {Whole(EmptyDatabase), Missing}
    BY <2>1, EmptySane, StoreTypes DEF Sane
  <2>2. ASSUME NEW S \in SUBSET Apps, NEW v \in Versions,
               NEW admin \in {"none", "bootstrap"}, NEW normal \in BOOLEAN,
               disk = Whole(Legacy(S, v, admin, normal))
        PROVE  Sane(disk.data) /\ NoDemo(disk.data) /\ disk \in Stores
               /\ disk.status = "whole"
    <3> DEFINE d == Legacy(S, v, admin, normal)
    <3>1. d \in Database /\ d.keys = EmptyDatabase.keys /\ d.admin = admin /\ ~ d.seeded
      BY EmptySane DEF Legacy, Sane, Database, EmptyDatabase, AdminKind
    <3> HIDE DEF d
    <3>2. \A a \in Apps : d.keys[a].active = <<>>
      <4>1. \A a \in Apps : EmptyDatabase.keys[a] = NoKeys
        BY DEF EmptyDatabase
      <4>2. NoKeys.active = <<>>
        BY DEF NoKeys
      <4> QED
        BY <3>1, <4>1, <4>2
    <3>3. Sane(d) /\ NoDemo(d)
      BY <3>1, <3>2 DEF Sane, NoDemo
    <3> QED
      BY <2>2, <3>3, StoreTypes DEF Sane, d
  <2> QED
    BY <2>1, <2>2 DEF Init
<1>2. ServingType
  BY <1>1, EmptySane DEF Init, ServingType, Sane
<1>3. KeysInOrder
  BY <1>1, EmptySane DEF Init, KeysInOrder
<1>4. NoDemoAnywhere
  BY <1>1, EmptySane DEF Init, NoDemoAnywhere, Idle
<1> QED
  BY <1>2, <1>3, <1>4 DEF Proper

\* What a server that can start works with: in order, and in production without
\* demo data.
LEMMA LoadedIsProper ==
    ASSUME Proper, NEW bootstrap \in BOOLEAN, ~ NoAdmin(bootstrap)
    PROVE  LET d == Loaded(bootstrap)
           IN  Sane(d) /\ KeyedFor(d, signingKey) /\ (production => NoDemo(d))
<1>1. Sane(disk.data) /\ signingKey \in Nat /\ (production => NoDemo(disk.data))
  BY DEF Proper, KeysInOrder, ServingType, NoDemoAnywhere
<1>2. CASE NotFound
  <2>1. disk.data.admin = "none"
    BY <1>2 DEF NotFound, Proper, NoDemoAnywhere, IsEmpty, EmptyDatabase
  <2>2. production => bootstrap
    BY <2>1 DEF NoAdmin, MaySeed
  <2>3. CASE bootstrap
    <3> DEFINE d == [EmptyDatabase EXCEPT !.admin = "bootstrap"]
    <3>1. d \in Database /\ d.keys = EmptyDatabase.keys /\ d.apps = {} /\ ~ d.seeded
          /\ d.admin = "bootstrap" /\ d.normal
      BY EmptySane DEF Sane, Database, EmptyDatabase, AdminKind
    <3>2. Sane(d) /\ KeyedFor(d, signingKey) /\ NoDemo(d)
      BY <3>1, EmptySane DEF Sane, KeyedFor, NoDemo
    <3> QED
      BY <1>2, <2>3, <3>2 DEF Loaded
  <2>4. CASE ~ bootstrap
    BY <1>1, <1>2, <2>2, <2>4, DemoDataKept DEF Loaded
  <2> QED
    BY <2>3, <2>4
<1>3. CASE ~ NotFound
  <2> DEFINE e == WithLoadedDefaults(disk.data, signingKey)
  <2>1. Sane(e) /\ KeyedFor(e, signingKey)
        /\ e.admin = disk.data.admin /\ e.seeded = disk.data.seeded
    BY <1>1, LoadedKept
  <2>2. production => NoDemo(e) /\ (e.admin # "none" \/ bootstrap)
    BY <1>1, <2>1 DEF NoDemo, NoAdmin, MaySeed
  <2>3. Loaded(bootstrap) = WithAdmin(e, bootstrap)
    BY <1>3 DEF Loaded
  <2> HIDE DEF e
  <2> QED
    BY <2>1, <2>2, <2>3, AdminKept
<1> QED
  BY <1>2, <1>3

\* Starting keeps the deployment in order.
LEMMA StartKeeps ==
    ASSUME Proper, NEW s \in Servers, NEW bootstrap \in BOOLEAN, Start(s, bootstrap)
    PROVE  Proper'
<1> DEFINE d == Loaded(bootstrap)
<1>1. UNCHANGED <<postgres, production, schema, runner, signingKey>>
  BY DEF Start, StartRefused, StartUnchanged, StartSaved, environment, migrating
<1>2. /\ failures' \in Nat
      /\ disk' \in {disk, Torn, Whole(d)}
      /\ \/ GivesUp(s) /\ disk' \in {disk, Torn, Whole(d)}
                       /\ (disk' # disk => ~ NoAdmin(bootstrap))
         \/ ComesUp(s, d) /\ ~ NoAdmin(bootstrap)
  BY InterruptedStores
  DEF Start, StartRefused, StartUnchanged, StartSaved, Proper, ServingType
<1> HIDE DEF d
<1>3. ~ NoAdmin(bootstrap) =>
          Sane(d) /\ KeyedFor(d, signingKey) /\ (production => NoDemo(d))
  BY LoadedIsProper DEF d
<1>4. disk' = disk \/ ~ NoAdmin(bootstrap)
  BY <1>2 DEF Start, StartRefused, StartUnchanged, StartSaved
<1>5. /\ disk' \in Stores /\ Sane(disk'.data) /\ (production => NoDemo(disk'.data))
      /\ (disk'.status # "whole" => disk'.data = EmptyDatabase)
  BY <1>2, <1>3, <1>4, StoreTypes, EmptySane
  DEF Proper, ServingType, KeysInOrder, NoDemoAnywhere, Sane
<1>6. /\ \A t \in Servers :
             \/ mem'[t] = mem[t] /\ phase'[t] \in {phase[t], "refused"}
             \/ mem'[t] = d /\ phase'[t] = "up" /\ ~ NoAdmin(bootstrap)
      /\ mem' \in [Servers -> Database]
      /\ phase' \in [Servers -> {"down", "up", "refused"}]
      /\ skipped' \in [Servers -> SUBSET Apps]
  <2>1. CASE GivesUp(s)
    BY <2>1 DEF GivesUp, Proper, ServingType
  <2>2. CASE ComesUp(s, d) /\ ~ NoAdmin(bootstrap)
    <3>1. d \in Database /\ Keyless(disk.data) \subseteq Apps
      BY <1>3, <2>2 DEF Sane, Keyless, Proper, KeysInOrder, Database
    <3> QED
      BY <2>2, <3>1 DEF ComesUp, Proper, ServingType
  <2> QED
    BY <1>2, <2>1, <2>2
<1>7. ServingType'
  BY <1>1, <1>2, <1>5, <1>6 DEF Proper, ServingType
<1>8. KeysInOrder'
  BY <1>1, <1>3, <1>5, <1>6 DEF Proper, KeysInOrder
<1>9. NoDemoAnywhere'
  BY <1>1, <1>3, <1>5, <1>6 DEF Proper, NoDemoAnywhere
<1> QED
  BY <1>7, <1>8, <1>9 DEF Proper

\* So do the migrations: in production the seed is passed over.
LEMMA MigratingKeeps ==
    ASSUME Proper, MigrationsType, MigrationsType', NEW r \in Runners,
           \/ \E seeds \in BOOLEAN : BeginMigrations(r, seeds)
           \/ CheckFile(r) \/ ApplyFile(r) \/ FailFile(r)
    PROVE  Proper'
<1> DEFINE Moves(next) == /\ runner' = [runner EXCEPT ![r] = next]
                          /\ production => ~ next.seeds
                          /\ next.missing /\ next.at = SeedFile => next.seeds
<1>1. UNCHANGED <<environment, serving>> /\ \E next : Moves(next)
  <2>1. ~ Idle.seeds /\ ~ Idle.missing
    BY DEF Idle
  <2>2. runner[r] \in Progress
    BY DEF MigrationsType
  <2>3. \/ After(r) = Idle
        \/ ~ After(r).missing /\ After(r).seeds = runner[r].seeds
    BY <2>2 DEF After, Progress
  <2>4. production => ~ runner[r].seeds
    BY DEF Proper, NoDemoAnywhere
  <2>5. (production => ~ After(r).seeds) /\ ~ After(r).missing
    BY <2>1, <2>3, <2>4
  <2>6. ASSUME NEW seeds \in BOOLEAN, BeginMigrations(r, seeds)
        PROVE  UNCHANGED <<environment, serving>> /\ \E next : Moves(next)
    <3> DEFINE next == [at |-> 1, seeds |-> seeds, missing |-> FALSE]
    <3>1. (production => ~ next.seeds) /\ ~ next.missing
      BY <2>6 DEF BeginMigrations
    <3> QED
      BY <2>6, <3>1 DEF BeginMigrations, Runs
  <2>7. CASE CheckFile(r)
    <3>1. CASE \/ runner[r].at = SeedFile /\ ~ runner[r].seeds
               \/ runner[r].at \in schema
      BY <2>5, <2>7, <3>1 DEF CheckFile, Runs
    <3>2. CASE ~ \/ runner[r].at = SeedFile /\ ~ runner[r].seeds
                 \/ runner[r].at \in schema
      <4> DEFINE next == [runner[r] EXCEPT !.missing = TRUE]
      <4>1. next.at = runner[r].at /\ next.seeds = runner[r].seeds
        BY <2>2 DEF Progress
      <4>2. Runs(r, next)
        BY <2>7, <3>2 DEF CheckFile
      <4>3. (production => ~ next.seeds) /\ (next.at = SeedFile => next.seeds)
        BY <2>2, <2>4, <3>2, <4>1 DEF Progress
      <4> HIDE DEF next
      <4> QED
        BY <4>2, <4>3 DEF Runs
    <3> QED
      BY <3>1, <3>2
  <2>8. CASE ApplyFile(r)
    BY <2>5, <2>8 DEF ApplyFile, Runs
  <2>9. CASE FailFile(r)
    BY <2>1, <2>9 DEF FailFile, Runs
  <2> QED
    BY <2>6, <2>7, <2>8, <2>9
<1>2. \/ disk' = disk
      \/ disk' = Whole(Seeded(disk.data)) /\ ~ production
  <2>1. CASE ApplyFile(r)
    BY <2>1 DEF ApplyFile, Proper, NoDemoAnywhere
  <2>2. CASE disk' = disk
    BY <2>2
  <2> QED
    BY <2>1, <2>2 DEF BeginMigrations, CheckFile, FailFile
<1>3. disk' \in Stores /\ Sane(disk'.data)
      /\ (disk'.status # "whole" => disk'.data = EmptyDatabase)
      /\ (production => disk' = disk)
  <2>1. Sane(Seeded(disk.data))
    BY SeededKept DEF Proper, KeysInOrder
  <2> QED
    BY <1>2, <2>1, StoreTypes DEF Proper, ServingType, KeysInOrder, NoDemoAnywhere, Sane
<1>4. ServingType' /\ KeysInOrder'
  BY <1>1, <1>3 DEF Proper, ServingType, KeysInOrder, environment, serving
<1>5. NoDemoAnywhere'
  <2>1. PICK next : Moves(next)
    BY <1>1
  <2>2. \A q \in Runners : runner'[q] = IF q = r THEN next ELSE runner[q]
    BY <2>1 DEF MigrationsType
  <2> QED
    BY <1>1, <1>3, <2>1, <2>2 DEF Proper, NoDemoAnywhere, environment, serving
<1> QED
  BY <1>4, <1>5 DEF Proper

\* Every step of the deployment keeps it in order.
LEMMA ProperStep ==
    ASSUME Proper, MigrationsType, MigrationsType', [Next]_vars
    PROVE  Proper'
<1>1. \A s \in Servers : Sane(mem[s]) /\ mem[s].apps \subseteq Apps
  BY DEF Proper, KeysInOrder, Sane, Database
<1>2. signingKey \in Nat
  BY DEF Proper, ServingType
<1>3. ASSUME NEW s \in Servers, NEW a \in Apps, NEW v \in Versions, CreateApp(s, a, v)
      PROVE  Proper'
  BY <1>1, <1>2, <1>3, NewAppKept, SavedKeeps DEF CreateApp
<1>4. ASSUME NEW s \in Servers, NEW a \in Apps, NEW v \in Versions,
             CreateRelease(s, a, v) \/ CreateMisfit(s)
      PROVE  Proper'
  BY <1>1, <1>4, RowKept, SavedKeeps DEF CreateRelease, CreateMisfit
<1>5. ASSUME NEW s \in Servers, CreateMisfit(s)
      PROVE  Proper'
  BY <1>1, <1>4, <1>5, CatalogAssumption
<1>6. ASSUME NEW s \in Servers, NEW a \in Apps, NEW C \in SUBSET Capabilities \ {{}},
             UpsertPolicies(s, a, C)
      PROVE  Proper'
  BY <1>1, <1>6, PoliciesKept, SavedKeeps DEF UpsertPolicies
<1>7. ASSUME NEW s \in Servers, NEW a \in Apps, SeedDefaultPolicies(s, a)
      PROVE  Proper'
  BY <1>1, <1>7, PoliciesKept, SavedKeeps DEF SeedDefaultPolicies
<1>8. ASSUME NEW s \in Servers, NEW a \in Apps, RotateKey(s, a)
      PROVE  Proper'
  BY <1>1, <1>2, <1>8, RotatedKept, SavedKeeps DEF RotateKey
<1>9. ASSUME NEW s \in Servers, OtherChange(s)
      PROVE  Proper'
  BY <1>1, <1>9, SavedKeeps DEF OtherChange
<1>10. ASSUME NEW s \in Servers, Stop(s)
       PROVE  Proper'
  BY <1>10, EmptySane
  DEF Stop, Proper, ServingType, KeysInOrder, NoDemoAnywhere, environment, migrating, Sane
<1>11. CASE LoseSigningKey
  BY <1>11 DEF LoseSigningKey, Proper, ServingType, KeysInOrder, NoDemoAnywhere,
               environment, migrating
<1>12. CASE UNCHANGED vars
  BY <1>12 DEF vars, Proper, ServingType, KeysInOrder, NoDemoAnywhere
<1> QED
  BY <1>3, <1>4, <1>5, <1>6, <1>7, <1>8, <1>9, <1>10, <1>11, <1>12,
     StartKeeps, MigratingKeeps DEF Next

----------------------------------------------------------------------------
(* The theorems *)

\* The deployment is in order throughout.
LEMMA ProperHolds == Spec => [](Proper /\ MigrationsType)
  BY ProperInit, ProperStep, RunnersHold, PTL DEF Spec

\* The deployment's state has its types.
THEOREM DeploymentTypeCorrect == Spec => []TypeOK
<1>1. Proper /\ MigrationsType => TypeOK
  BY DEF Proper, ServingType, MigrationsType, TypeOK
<1> QED
  BY <1>1, ProperHolds, PTL

\* Every app of a running server has exactly one active SDK key, and it carries the
\* public key of the server, for any number of servers on one store, and whatever is
\* saved, interrupted, migrated, lost or started in between.
THEOREM EveryAppHasItsKey == Spec => []OneActiveKey
<1>1. Proper => OneActiveKey
  BY DEF Proper, KeysInOrder, KeyedFor, OneActiveKey
<1> QED
  BY <1>1, ProperHolds, PTL

\* A production deployment never holds demo data or the demo administrator, in the
\* store or in any server.
THEOREM NoDemoInProduction == Spec => []ProductionHasNoDemo
<1>1. Proper => ProductionHasNoDemo
  BY DEF Proper, NoDemoAnywhere, NoDemo, ProductionHasNoDemo
<1> QED
  BY <1>1, ProperHolds, PTL

----------------------------------------------------------------------------
(* What is answered is kept.  Grows says what no change of a database takes  *)
(* away from it.                                                             *)

Grows(d, e) ==
    /\ d.apps \subseteq e.apps
    /\ d.admin # "none" => e.admin # "none"
    /\ \A a \in Apps : /\ d.releases[a] \subseteq e.releases[a]
                       /\ d.keys[a].retired <= e.keys[a].retired
    /\ \A a \in Apps, c \in Capabilities :
           /\ d.policies[a][c] = "custom" => e.policies[a][c] = "custom"
           /\ d.policies[a][c] # "none" => e.policies[a][c] # "none"
           /\ a \in (e.apps \ d.apps) \cap VisionFlow => e.policies[a][c] # "none"

\* Facts that an administrator was answered are not taken away either.
LEMMA GrowingKeepsFacts ==
    ASSUME NEW d \in Database, NEW e \in Database, Grows(d, e)
    PROVE  Facts(d) \subseteq Facts(e)
<1>1. {<<"app", a>> : a \in d.apps} \subseteq {<<"app", a>> : a \in e.apps}
  BY DEF Grows
<1>2. {<<"release", x[1], x[2]>> :
           x \in {y \in Apps \X Versions : y[2] \in d.releases[y[1]]}}
          \subseteq
      {<<"release", x[1], x[2]>> :
           x \in {y \in Apps \X Versions : y[2] \in e.releases[y[1]]}}
  <2>1. {y \in Apps \X Versions : y[2] \in d.releases[y[1]]}
            \subseteq {y \in Apps \X Versions : y[2] \in e.releases[y[1]]}
    BY DEF Grows
  <2> QED
    BY <2>1
<1>3. {<<"policy", x[1], x[2]>> :
           x \in {y \in Apps \X Capabilities : d.policies[y[1]][y[2]] = "custom"}}
          \subseteq
      {<<"policy", x[1], x[2]>> :
           x \in {y \in Apps \X Capabilities : e.policies[y[1]][y[2]] = "custom"}}
  <2>1. {y \in Apps \X Capabilities : d.policies[y[1]][y[2]] = "custom"}
            \subseteq {y \in Apps \X Capabilities : e.policies[y[1]][y[2]] = "custom"}
    BY DEF Grows
  <2> QED
    BY <2>1
<1>4. UNION {{<<"retired", a, n>> : n \in 1..d.keys[a].retired} : a \in Apps}
          \subseteq UNION {{<<"retired", a, n>> : n \in 1..e.keys[a].retired} : a \in Apps}
  <2>1. \A a \in Apps : 1..d.keys[a].retired \subseteq 1..e.keys[a].retired
    <3>1. \A a \in Apps : d.keys[a].retired \in Nat /\ e.keys[a].retired \in Nat
      BY DEF Database, Keys
    <3>2. \A a \in Apps : d.keys[a].retired <= e.keys[a].retired
      BY DEF Grows
    <3>3. \A m, n \in Nat : m <= n => 1..m \subseteq 1..n
      OBVIOUS
    <3> QED
      BY <3>1, <3>2, <3>3
  <2>2. \A a \in Apps : {<<"retired", a, n>> : n \in 1..d.keys[a].retired}
                            \subseteq {<<"retired", a, n>> : n \in 1..e.keys[a].retired}
    BY <2>1
  <2> QED
    BY <2>2
<1> QED
  BY <1>1, <1>2, <1>3, <1>4 DEF Facts

\* A database grows when nothing changes, and by two changes when by each.
LEMMA GrowsOn ==
    ASSUME NEW d \in Database
    PROVE  /\ Grows(d, d)
           /\ \A e, g \in Database : Grows(d, e) /\ Grows(e, g) => Grows(d, g)
<1>1. \A e \in Database, a \in Apps : e.keys[a].retired \in Nat
  BY DEF Database, Keys
<1> QED
  BY <1>1 DEF Grows

\* Every handler's change lets the database grow.
LEMMA HandlersGrow ==
    ASSUME NEW d, Sane(d), NEW a \in Apps, NEW v \in Versions,
           NEW C \in SUBSET Capabilities, NEW pub \in Nat
    PROVE  /\ Grows(d, WithMisfit(d)) /\ Grows(d, WithRelease(d, a, v))
           /\ Grows(d, WithPolicies(d, a, C)) /\ Grows(d, WithDefaultPolicies(d, a))
           /\ Grows(d, [d EXCEPT !.keys[a] = Rotated(@, pub)])
           /\ a \notin d.apps => Grows(d, NewApp(d, a, v, pub))
<1>1. d \in Database /\ \A b \in Apps : d.keys[b] \in Keys /\ d.keys[b].retired \in Nat
  BY DEF Sane, Database, Keys
<1>2. Grows(d, WithMisfit(d)) /\ Grows(d, WithRelease(d, a, v))
  BY <1>1 DEF Grows, WithMisfit, WithRelease, Database
<1>3. \A P \in [Capabilities -> PolicyKind] :
          (\A c \in Capabilities :
               /\ d.policies[a][c] = "custom" => P[c] = "custom"
               /\ d.policies[a][c] # "none" => P[c] # "none")
          => Grows(d, [d EXCEPT !.policies[a] = P])
  BY <1>1 DEF Grows, Database
<1>4. Grows(d, WithPolicies(d, a, C)) /\ Grows(d, WithDefaultPolicies(d, a))
  <2>1. [c \in Capabilities |-> IF c \in C THEN "custom" ELSE d.policies[a][c]]
            \in [Capabilities -> PolicyKind]
        /\ Filled(d.policies[a]) \in [Capabilities -> PolicyKind]
    BY <1>1 DEF Database, PolicyKind, Filled
  <2> QED
    BY <1>3, <2>1 DEF WithPolicies, WithDefaultPolicies, Filled
<1>5. Grows(d, [d EXCEPT !.keys[a] = Rotated(@, pub)])
  <2>1. d.keys[a].retired <= Rotated(d.keys[a], pub).retired
    BY <1>1 DEF Rotated, Keys
  <2> QED
    BY <1>1, <2>1 DEF Grows, Database
<1>6. ASSUME a \notin d.apps
      PROVE  Grows(d, NewApp(d, a, v, pub))
  <2> DEFINE e == [d EXCEPT !.apps = @ \cup {a}, !.keys[a].active = Append(@, pub),
                            !.releases[a] = @ \cup {v}]
             g == NewApp(d, a, v, pub)
  <2>1. /\ e.apps = d.apps \cup {a} /\ e.policies = d.policies /\ e.admin = d.admin
        /\ \A b \in Apps : /\ d.releases[b] \subseteq e.releases[b]
                           /\ e.keys[b].retired = d.keys[b].retired
    BY <1>1 DEF Database
  <2>2. /\ g.apps = e.apps /\ g.admin = e.admin
        /\ g.releases = e.releases /\ g.keys = e.keys
    <3> HIDE DEF e
    <3>1. e.apps = e.apps
      OBVIOUS
    <3>2. g = IF a \in VisionFlow THEN [e EXCEPT !.policies[a] = Filled(@)] ELSE e
      BY DEF NewApp, WithDefaultPolicies, e
    <3> QED
      BY <3>2
  <2>3. \A b \in Apps, c \in Capabilities :
            g.policies[b][c] = IF b = a /\ a \in VisionFlow THEN Filled(d.policies[a])[c]
                               ELSE d.policies[b][c]
    <3>1. g = IF a \in VisionFlow THEN [e EXCEPT !.policies[a] = Filled(@)] ELSE e
      BY DEF NewApp, WithDefaultPolicies
    <3>2. "policies" \in DOMAIN e /\ d.policies \in [Apps -> [Capabilities -> PolicyKind]]
      BY <1>1 DEF Database
    <3> HIDE DEF e, g
    <3> QED
      BY <2>1, <3>1, <3>2
  <2>4. \A c \in Capabilities : /\ Filled(d.policies[a])[c] # "none"
                                /\ d.policies[a][c] = "custom"
                                       => Filled(d.policies[a])[c] = "custom"
    BY DEF Filled
  <2> HIDE DEF e, g
  <2>5. Grows(d, g)
    BY <1>1, <2>1, <2>2, <2>3, <2>4 DEF Grows
  <2> QED
    BY <2>5 DEF g
<1> QED
  BY <1>2, <1>4, <1>5, <1>6

\* The seed and start-up let it grow as well, and start-up leaves no VisionFlow app
\* without its policies but those that had no key.
LEMMA StartGrows ==
    ASSUME NEW d, Sane(d), NEW pub \in Nat, NEW bootstrap \in BOOLEAN
    PROVE  /\ Grows(d, Seeded(d))
           /\ LET e == WithAdmin(WithLoadedDefaults(d, pub), bootstrap)
              IN  /\ Grows(d, e) /\ e.admin # "none" /\ e.apps = d.apps
                  /\ \A a \in (d.apps \cap VisionFlow) \ Keyless(d), c \in Capabilities :
                         e.policies[a][c] # "none"
<1>1. d \in Database /\ \A b \in Apps : d.keys[b] \in Keys /\ d.keys[b].retired \in Nat
  BY DEF Sane, Database, Keys
<1>2. Grows(d, Seeded(d))
  BY <1>1, CatalogAssumption DEF Grows, Seeded, Database
<1> DEFINE e == WithLoadedDefaults(d, pub)
           g == WithAdmin(e, bootstrap)
<1>3. e \in Database
  BY LoadedKept DEF Sane
<1>4. /\ e.apps = d.apps /\ e.releases = d.releases /\ e.admin = d.admin
      /\ \A a \in Apps : e.keys[a] = IF a \in d.apps THEN Refreshed(d.keys[a], pub)
                                     ELSE d.keys[a]
      /\ \A a \in Apps : e.policies[a] = IF a \in (d.apps \cap VisionFlow) \ Keyless(d)
                                         THEN Filled(d.policies[a]) ELSE d.policies[a]
  BY <1>1 DEF WithLoadedDefaults, Database
<1>5. \A a \in Apps : Refreshed(d.keys[a], pub).retired = d.keys[a].retired
  BY <1>1 DEF Refreshed, Keys
<1>6. \A a \in Apps, c \in Capabilities :
          /\ Filled(d.policies[a])[c] # "none"
          /\ d.policies[a][c] = "custom" => Filled(d.policies[a])[c] = "custom"
  BY DEF Filled
<1>7. d.apps \subseteq Apps
  BY <1>1 DEF Database
<1> HIDE DEF e
<1>8. /\ g.apps = e.apps /\ g.releases = e.releases /\ g.keys = e.keys
      /\ g.policies = e.policies /\ g.admin # "none"
  BY <1>3 DEF WithAdmin, Database
<1> HIDE DEF g
<1>9. Grows(d, g)
  BY <1>1, <1>4, <1>5, <1>6, <1>8 DEF Grows
<1>10. \A a \in (d.apps \cap VisionFlow) \ Keyless(d), c \in Capabilities :
           g.policies[a][c] # "none"
  BY <1>4, <1>6, <1>7, <1>8
<1> QED
  BY <1>2, <1>4, <1>8, <1>9, <1>10 DEF e, g

\* Who is up has an administrator and, on PostgreSQL, the whole schema; so has a store
\* that something was answered about, unless it is torn.
Served ==
    /\ \A s \in Servers : phase[s] = "up" =>
           mem[s].admin # "none" /\ (postgres => SchemaReady)
    /\ promised # {} /\ disk.status # "torn" =>
           disk.data.admin # "none" /\ (postgres => SchemaReady)

Lasting == Served /\ DefaultsComplete

\* No two servers are up at once, whoever they are.
OneUp == \A s, t \in Servers : phase[s] = "up" /\ phase[t] = "up" => s = t

\* A step keeps what was answered if it is taken while no two servers are up.
KeepsAlone == OneUp /\ AnsweredIsKept => AnsweredIsKept'

\* A handler that lets the memory grow and saves keeps what was answered.
LEMMA SavedLasts ==
    ASSUME Proper, Lasting, NEW s \in Servers, NEW d \in Database, Saved(s, d),
           Grows(mem[s], d)
    PROVE  Lasting' /\ KeepsAlone
<1>1. /\ UNCHANGED <<postgres, schema, skipped>>
      /\ phase[s] = "up" /\ mem[s] \in Database
  BY DEF Saved, environment, migrating, Proper, ServingType
<1>2. /\ disk' \in {disk, Torn, Whole(d)}
      /\ \/ disk' = Whole(d) /\ promised' = promised \cup Facts(d)
         \/ promised' = promised
  BY InterruptedStores DEF Saved, Answered, SaveFails, Killed
<1>3. \/ mem' = [mem EXCEPT ![s] = d] /\ phase' = phase
      \/ mem' = [mem EXCEPT ![s] = EmptyDatabase] /\ phase' = [phase EXCEPT ![s] = "down"]
  BY DEF Saved, Answered, SaveFails, Killed
<1>4. \A t \in Servers : phase'[t] = "up" =>
          /\ phase[t] = "up"
          /\ mem'[t] = IF t = s THEN d ELSE mem[t]
  BY <1>3 DEF Proper, ServingType
<1>5. SchemaReady' <=> SchemaReady
  BY <1>1 DEF SchemaReady
<1>6. d.admin # "none" /\ (postgres => SchemaReady)
  BY <1>1 DEF Lasting, Served, Grows
<1>7. /\ Torn.status = "torn"
      /\ Whole(d).status = "whole" /\ Whole(d).data = d
  BY DEF Torn, Whole
<1>8. Served'
  BY <1>1, <1>2, <1>4, <1>5, <1>6, <1>7 DEF Lasting, Served
<1>9. DefaultsComplete'
  <2>1. \A a \in (d.apps \cap VisionFlow) \ skipped[s], c \in Capabilities :
            d.policies[a][c] # "none"
    <3>1. d.apps \subseteq Apps
      BY DEF Database
    <3> QED
      BY <1>1, <3>1 DEF Lasting, DefaultsComplete, Grows
  <2> QED
    BY <1>1, <1>4, <2>1 DEF Lasting, DefaultsComplete
<1>10. KeepsAlone
  <2> SUFFICES ASSUME OneUp, AnsweredIsKept
               PROVE  AnsweredIsKept'
    BY DEF KeepsAlone
  <2>1. /\ promised \subseteq Facts(mem[s])
        /\ disk.status # "torn" => promised \subseteq Facts(disk.data)
    BY <1>1 DEF AnsweredIsKept, StoreKeepsAnswers
  <2>2. Facts(mem[s]) \subseteq Facts(d)
    BY <1>1, GrowingKeepsFacts
  <2>3. promised' \subseteq Facts(d)
    BY <1>2, <2>1, <2>2
  <2>4. disk'.status # "torn" => promised' \subseteq Facts(disk'.data)
    BY <1>2, <1>7, <2>1, <2>3
  <2>5. \A t \in Servers : phase'[t] = "up" => promised' \subseteq Facts(mem'[t])
    BY <1>1, <1>4, <2>3 DEF OneUp
  <2> QED
    BY <2>4, <2>5 DEF AnsweredIsKept, StoreKeepsAnswers
<1> QED
  BY <1>8, <1>9, <1>10 DEF Lasting

\* What a server that can start works with.
LEMMA LoadedLasts ==
    ASSUME Proper, Lasting, NEW bootstrap \in BOOLEAN, Readable, ~ NoAdmin(bootstrap)
    PROVE  LET d == Loaded(bootstrap)
           IN  /\ d.admin # "none" /\ d \in Database
               /\ promised \subseteq Facts(disk.data) => promised \subseteq Facts(d)
               /\ \A a \in (d.apps \cap VisionFlow) \ Keyless(disk.data), c \in Capabilities :
                      d.policies[a][c] # "none"
<1>1. Sane(disk.data) /\ signingKey \in Nat /\ disk.data \in Database
  BY DEF Proper, KeysInOrder, ServingType, Sane
<1>2. Sane(Loaded(bootstrap))
  BY LoadedIsProper
<1>3. CASE NotFound
  <2>1. disk.data.admin = "none"
    BY <1>3 DEF NotFound, Proper, NoDemoAnywhere, IsEmpty, EmptyDatabase
  <2>2. promised = {}
    BY <2>1 DEF Readable, Lasting, Served
  <2>3. Loaded(bootstrap).admin # "none" /\ Loaded(bootstrap).apps \cap VisionFlow = {}
    BY <1>3, CatalogAssumption DEF Loaded, DemoData, EmptyDatabase
  <2> QED
    BY <1>2, <2>2, <2>3 DEF Sane
<1>4. CASE ~ NotFound
  <2> DEFINE e == WithAdmin(WithLoadedDefaults(disk.data, signingKey), bootstrap)
  <2>1. Loaded(bootstrap) = e
    BY <1>4 DEF Loaded
  <2>2. /\ Grows(disk.data, e) /\ e.admin # "none" /\ e.apps = disk.data.apps
        /\ \A a \in (disk.data.apps \cap VisionFlow) \ Keyless(disk.data), c \in Capabilities :
               e.policies[a][c] # "none"
    BY <1>1, StartGrows
  <2> HIDE DEF e
  <2>3. e \in Database
    BY <1>2, <2>1 DEF Sane
  <2>4. Facts(disk.data) \subseteq Facts(e)
    BY <1>1, <2>2, <2>3, GrowingKeepsFacts
  <2> QED
    BY <2>1, <2>2, <2>3, <2>4
<1> QED
  BY <1>3, <1>4

\* Starting keeps what was answered.
LEMMA StartLasts ==
    ASSUME Proper, Lasting, NEW s \in Servers, NEW bootstrap \in BOOLEAN,
           Start(s, bootstrap)
    PROVE  Lasting' /\ (AnsweredIsKept => AnsweredIsKept')
<1> DEFINE d == Loaded(bootstrap)
<1>1. UNCHANGED <<postgres, schema, promised>> /\ (SchemaReady' <=> SchemaReady)
  BY DEF Start, StartRefused, StartUnchanged, StartSaved, environment, migrating, SchemaReady
<1>2. CASE StartRefused(s, bootstrap)
  <2>1. \A t \in Servers : phase'[t] = "up" => phase[t] = "up"
    BY <1>2 DEF StartRefused, GivesUp, Proper, ServingType
  <2>2. UNCHANGED <<disk, mem, skipped>>
    BY <1>2 DEF StartRefused, GivesUp
  <2> QED
    BY <1>1, <2>1, <2>2
    DEF Lasting, Served, DefaultsComplete, AnsweredIsKept, StoreKeepsAnswers
<1>3. CASE StartUnchanged(s, bootstrap) \/ StartSaved(s, bootstrap)
  <2>1. Readable /\ ~ NoAdmin(bootstrap)
    BY <1>3 DEF StartUnchanged, StartSaved
  <2>2. /\ d.admin # "none" /\ d \in Database
        /\ promised \subseteq Facts(disk.data) => promised \subseteq Facts(d)
        /\ \A a \in (d.apps \cap VisionFlow) \ Keyless(disk.data), c \in Capabilities :
               d.policies[a][c] # "none"
    BY <2>1, LoadedLasts
  <2>3. /\ disk' \in {disk, Torn, Whole(d)}
        /\ GivesUp(s) \/ ComesUp(s, d)
    BY <1>3, InterruptedStores DEF StartUnchanged, StartSaved
  <2> HIDE DEF d
  <2>4. \A t \in Servers : phase'[t] = "up" =>
            \/ phase[t] = "up" /\ mem'[t] = mem[t] /\ skipped'[t] = skipped[t]
            \/ t = s /\ mem'[t] = d /\ skipped'[t] = Keyless(disk.data)
    <3>1. CASE GivesUp(s)
      BY <3>1 DEF GivesUp, Proper, ServingType
    <3>2. CASE ComesUp(s, d)
      BY <3>2 DEF ComesUp, Proper, ServingType
    <3> QED
      BY <2>3, <3>1, <3>2
  <2>5. disk.status # "torn" /\ (postgres => SchemaReady)
    BY <2>1 DEF Readable
  <2>6. /\ Torn.status = "torn"
        /\ Whole(d).status = "whole" /\ Whole(d).data = d
    BY DEF Torn, Whole
  <2>7. Served'
    BY <1>1, <2>2, <2>3, <2>4, <2>5, <2>6 DEF Lasting, Served
  <2>8. DefaultsComplete'
    BY <2>2, <2>4 DEF Lasting, DefaultsComplete
  <2>9. ASSUME AnsweredIsKept
        PROVE  AnsweredIsKept'
    <3>1. promised \subseteq Facts(disk.data) /\ promised \subseteq Facts(d)
      BY <2>2, <2>5, <2>9 DEF AnsweredIsKept, StoreKeepsAnswers
    <3>2. StoreKeepsAnswers'
      BY <1>1, <2>3, <2>6, <3>1 DEF StoreKeepsAnswers
    <3>3. \A t \in Servers : phase'[t] = "up" => promised' \subseteq Facts(mem'[t])
      BY <1>1, <2>4, <2>9, <3>1 DEF AnsweredIsKept
    <3> QED
      BY <3>2, <3>3 DEF AnsweredIsKept
  <2> QED
    BY <2>7, <2>8, <2>9 DEF Lasting
<1> QED
  BY <1>2, <1>3 DEF Start

\* Only a file is ever torn or missing, and only a database is migrated.
OnPostgres ==
    /\ postgres => disk.status = "whole"
    /\ \A r \in Runners : runner[r].at > 0 => postgres

\* No step changes that.
LEMMA OnPostgresStep ==
    ASSUME OnPostgres, MigrationsType, [Next]_vars
    PROVE  OnPostgres'
<1>1. ASSUME NEW d
      PROVE  Whole(d).status = "whole" /\ (postgres => Interrupted(d) \subseteq {disk, Whole(d)})
  BY InterruptedStores DEF Whole
<1>2. ASSUME NEW s \in Servers, NEW d, Saved(s, d)
      PROVE  OnPostgres'
  <2>1. UNCHANGED <<postgres, runner>>
    BY <1>2 DEF Saved, environment, migrating
  <2>2. postgres => disk'.status = "whole"
    BY <1>1, <1>2 DEF Saved, Answered, SaveFails, Killed, OnPostgres
  <2> QED
    BY <2>1, <2>2 DEF OnPostgres
<1>3. ASSUME NEW s \in Servers, NEW bootstrap \in BOOLEAN, Start(s, bootstrap)
      PROVE  OnPostgres'
  <2>1. UNCHANGED <<postgres, runner>>
    BY <1>3 DEF Start, StartRefused, StartUnchanged, StartSaved, environment, migrating
  <2>2. postgres => disk'.status = "whole"
    BY <1>1, <1>3 DEF Start, StartRefused, StartUnchanged, StartSaved, OnPostgres
  <2> QED
    BY <2>1, <2>2 DEF OnPostgres
<1>4. ASSUME NEW r \in Runners,
             \/ \E seeds \in BOOLEAN : BeginMigrations(r, seeds)
             \/ CheckFile(r) \/ ApplyFile(r) \/ FailFile(r)
      PROVE  OnPostgres'
  <2>1. /\ postgres /\ postgres' = postgres
    BY <1>4
    DEF OnPostgres, MigrationsType, BeginMigrations, CheckFile, ApplyFile, FailFile, Runs,
        environment
  <2>2. disk'.status = "whole"
    BY <1>1, <1>4, <2>1 DEF OnPostgres, BeginMigrations, CheckFile, ApplyFile, FailFile
  <2> QED
    BY <2>1, <2>2 DEF OnPostgres
<1>5. CASE UNCHANGED <<postgres, disk, runner>>
  BY <1>5 DEF OnPostgres
<1> QED
  BY <1>2, <1>3, <1>4, <1>5
  DEF Next, vars, CreateApp, CreateRelease, CreateMisfit, UpsertPolicies,
      SeedDefaultPolicies, RotateKey, OtherChange, Stop, LoseSigningKey,
      environment, migrating

\* So do the migrations.
LEMMA MigratingLasts ==
    ASSUME Proper, Lasting, MigrationsType, OnPostgres, NEW r \in Runners,
           \/ \E seeds \in BOOLEAN : BeginMigrations(r, seeds)
           \/ CheckFile(r) \/ ApplyFile(r) \/ FailFile(r)
    PROVE  Lasting' /\ (AnsweredIsKept => AnsweredIsKept')
<1>1. UNCHANGED <<postgres, phase, mem, skipped, promised>> /\ schema \subseteq schema'
  BY DEF BeginMigrations, CheckFile, ApplyFile, FailFile, Runs, environment, serving
<1>2. disk' \in {disk, Whole(Seeded(disk.data))}
  BY DEF BeginMigrations, CheckFile, ApplyFile, FailFile
<1>3. disk.status = "whole"
  BY DEF OnPostgres, MigrationsType, BeginMigrations, CheckFile, ApplyFile, FailFile
<1>4. SchemaReady => SchemaReady'
  BY <1>1 DEF SchemaReady
<1>5. disk.data \in Database /\ Seeded(disk.data) \in Database
      /\ Grows(disk.data, Seeded(disk.data)) /\ Facts(disk.data) \subseteq Facts(Seeded(disk.data))
  <2>1. Sane(disk.data) /\ signingKey \in Nat
    BY DEF Proper, KeysInOrder, ServingType
  <2> QED
    BY <2>1, SeededKept, StartGrows, GrowingKeepsFacts DEF Sane
<1>6. Whole(Seeded(disk.data)).data = Seeded(disk.data)
  BY DEF Whole
<1>7. /\ disk.data.admin # "none" => disk'.data.admin # "none"
      /\ Facts(disk.data) \subseteq Facts(disk'.data)
  BY <1>2, <1>5, <1>6 DEF Grows
<1>8. disk.status # "torn"
  BY <1>3
<1>9. Served'
  BY <1>1, <1>4, <1>7, <1>8 DEF Lasting, Served
<1>10. DefaultsComplete'
  BY <1>1 DEF Lasting, DefaultsComplete
<1>11. AnsweredIsKept => AnsweredIsKept'
  BY <1>1, <1>7, <1>8 DEF AnsweredIsKept, StoreKeepsAnswers
<1> QED
  BY <1>9, <1>10, <1>11 DEF Lasting

\* Every step of the deployment keeps what was answered.
LEMMA LastingStep ==
    ASSUME Proper, Lasting, MigrationsType, OnPostgres, [Next]_vars
    PROVE  Lasting' /\ KeepsAlone
<1>1. \A s \in Servers : Sane(mem[s]) /\ mem[s] \in Database
  BY DEF Proper, KeysInOrder, Sane
<1>2. signingKey \in Nat
  BY DEF Proper, ServingType
<1>3. ASSUME NEW s \in Servers, NEW d, Saved(s, d), Sane(d), Grows(mem[s], d)
      PROVE  Lasting' /\ KeepsAlone
  BY <1>3, SavedLasts DEF Sane
<1>4. ASSUME NEW s \in Servers, NEW a \in Apps, NEW v \in Versions,
             CreateApp(s, a, v) \/ CreateRelease(s, a, v) \/ CreateMisfit(s)
      PROVE  Lasting' /\ KeepsAlone
  <2>1. {} \in SUBSET Capabilities
    OBVIOUS
  <2> QED
    BY <1>1, <1>2, <1>3, <1>4, <2>1, HandlersGrow, NewAppKept, RowKept
    DEF CreateApp, CreateRelease, CreateMisfit
<1>5. ASSUME NEW s \in Servers, CreateMisfit(s)
      PROVE  Lasting' /\ KeepsAlone
  BY <1>1, <1>4, <1>5, CatalogAssumption
<1>6. ASSUME NEW s \in Servers, NEW a \in Apps, NEW C \in SUBSET Capabilities \ {{}},
             UpsertPolicies(s, a, C)
      PROVE  Lasting' /\ KeepsAlone
  <2>1. DemoVersion \in Versions
    BY CatalogAssumption
  <2> QED
    BY <1>1, <1>2, <1>3, <1>6, <2>1, HandlersGrow, PoliciesKept DEF UpsertPolicies
<1>7. ASSUME NEW s \in Servers, NEW a \in Apps, SeedDefaultPolicies(s, a) \/ RotateKey(s, a)
      PROVE  Lasting' /\ KeepsAlone
  <2>1. DemoVersion \in Versions /\ {} \in SUBSET Capabilities
    BY CatalogAssumption
  <2>2. CASE SeedDefaultPolicies(s, a)
    BY <1>1, <1>2, <1>3, <2>1, <2>2, HandlersGrow, PoliciesKept DEF SeedDefaultPolicies
  <2>3. CASE RotateKey(s, a)
    BY <1>1, <1>2, <1>3, <2>1, <2>3, HandlersGrow, RotatedKept DEF RotateKey
  <2> QED
    BY <1>7, <2>2, <2>3
<1>8. ASSUME NEW s \in Servers, OtherChange(s)
      PROVE  Lasting' /\ KeepsAlone
  BY <1>1, <1>3, <1>8, GrowsOn DEF OtherChange
<1>9. ASSUME NEW s \in Servers, Stop(s)
      PROVE  Lasting' /\ KeepsAlone
  <2>1. /\ UNCHANGED <<postgres, schema, disk, promised, skipped>>
        /\ \A t \in Servers : phase'[t] = "up" => phase[t] = "up" /\ mem'[t] = mem[t]
    BY <1>9 DEF Stop, environment, migrating, Proper, ServingType
  <2> QED
    BY <2>1 DEF Lasting, Served, SchemaReady, DefaultsComplete, KeepsAlone, AnsweredIsKept,
                StoreKeepsAnswers
<1>10. CASE LoseSigningKey \/ UNCHANGED vars
  BY <1>10 DEF LoseSigningKey, vars, environment, migrating, Lasting, Served, SchemaReady,
               DefaultsComplete, KeepsAlone, AnsweredIsKept, StoreKeepsAnswers
<1>11. (AnsweredIsKept => AnsweredIsKept') => KeepsAlone
  BY DEF KeepsAlone
<1> QED
  BY <1>11, <1>4, <1>5, <1>6, <1>7, <1>8, <1>9, <1>10, StartLasts, MigratingLasts DEF Next

\* What was answered lasts throughout.
LEMMA LastingHolds == Spec => [](Lasting /\ Proper /\ MigrationsType /\ OnPostgres)
<1>1. Init => Lasting /\ OnPostgres
  <2> SUFFICES ASSUME Init
               PROVE  Lasting /\ OnPostgres
    OBVIOUS
  <2>1. OnPostgres
    BY DEF Init, OnPostgres, Whole, Missing, Idle
  <2> QED
    BY <2>1 DEF Init, Lasting, Served, DefaultsComplete
<1> QED
  BY <1>1, OnPostgresStep, LastingStep, ProperHolds, PTL DEF Spec

\* Every VisionFlow app of a running server has the policies of the defaults, for any
\* number of servers, but those that got their key at this start.
THEOREM DefaultsAreComplete == Spec => []DefaultsComplete
<1>1. Lasting => DefaultsComplete
  BY DEF Lasting
<1> QED
  BY <1>1, LastingHolds, PTL

\* Servers keep what was answered as long as no two of them are up at once: in the memory
\* of the one that is up, and in a store that is not torn, through interrupted saves,
\* crashes, replacements of one server by another and migrations.
THEOREM OneUpKeepsAnswers == Spec /\ []OneUp => []AnsweredIsKept
<1>1. Init => AnsweredIsKept
  BY DEF Init, AnsweredIsKept, StoreKeepsAnswers
<1>2. /\ Lasting /\ Proper /\ MigrationsType /\ OnPostgres
      /\ OneUp /\ AnsweredIsKept /\ [Next]_vars
      => AnsweredIsKept'
  BY LastingStep DEF KeepsAlone
<1> QED
  BY <1>1, <1>2, LastingHolds, PTL DEF Spec

\* So a deployment of one server keeps them whatever happens.
THEOREM OneServerKeepsAnswers ==
    ASSUME \A s, t \in Servers : s = t
    PROVE  Spec => []AnsweredIsKept
<1>1. OneUp
  BY DEF OneUp
<1> QED
  BY <1>1, OneUpKeepsAnswers, PTL

\* Once something was answered a server gives up only on a torn file or when its own
\* save fails, for any number of servers.
THEOREM DeploymentStartsAgain == Spec => StartsAgain
<1>1. Lasting /\ Proper /\ [Next]_vars =>
          [\A s \in Servers :
              phase[s] # "refused" /\ phase'[s] = "refused" /\ promised # {}
              => disk.status = "torn" \/ failures' > failures]_vars
  <2> SUFFICES ASSUME Lasting, Proper, Next, NEW s \in Servers,
                      phase[s] # "refused", phase'[s] = "refused", promised # {},
                      disk.status # "torn"
               PROVE  failures' > failures
    OBVIOUS
  <2>1. PICK bootstrap \in BOOLEAN : Start(s, bootstrap)
    <3>1. ASSUME NEW t \in Servers, NEW d, Saved(t, d) PROVE FALSE
      BY <3>1 DEF Saved, Answered, SaveFails, Killed, Proper, ServingType
    <3>2. ASSUME NEW t \in Servers, Stop(t) PROVE FALSE
      BY <3>2 DEF Stop, Proper, ServingType
    <3>3. ASSUME NEW t \in Servers, NEW bootstrap \in BOOLEAN, Start(t, bootstrap)
          PROVE  t = s
      BY <3>3 DEF Start, StartRefused, StartUnchanged, StartSaved, GivesUp, ComesUp,
                  Proper, ServingType
    <3>4. ASSUME phase' = phase PROVE FALSE
      BY <3>4
    <3>5. ~ LoseSigningKey
      BY <3>4 DEF LoseSigningKey
    <3>6. ASSUME NEW r \in Runners
          PROVE  /\ \A seeds \in BOOLEAN : ~ BeginMigrations(r, seeds)
                 /\ ~ CheckFile(r) /\ ~ ApplyFile(r) /\ ~ FailFile(r)
      BY <3>4 DEF BeginMigrations, CheckFile, ApplyFile, FailFile, Runs, serving
    <3>7. PICK t \in Servers, bootstrap \in BOOLEAN : Start(t, bootstrap)
      BY <3>1, <3>2, <3>5, <3>6
         DEF Next, CreateApp, CreateRelease, CreateMisfit, UpsertPolicies,
             SeedDefaultPolicies, RotateKey, OtherChange
    <3> QED
      BY <3>3, <3>7
  <2>2. Readable /\ disk.data.admin # "none"
    BY DEF Readable, Lasting, Served
  <2>3. ~ StartRefused(s, bootstrap)
    BY <2>2 DEF StartRefused, NoAdmin
  <2>4. ~ ComesUp(s, Loaded(bootstrap)) /\ ~ ComesUp(s, disk.data)
    BY DEF ComesUp, Proper, ServingType
  <2>5. failures' = failures + 1
    BY <2>1, <2>3, <2>4 DEF Start, StartUnchanged, StartSaved
  <2> QED
    BY <2>5 DEF Proper, ServingType
<1> QED
  BY <1>1, LastingHolds, PTL DEF Spec, StartsAgain

----------------------------------------------------------------------------
(* Starting again                                                            *)

\* The next start of a server that has all of its memory on disk: it can read the
\* store, finds an administrator and makes no key.  It finds nothing to save either
\* (StartUnchanged), unless the last start had made keys and so passed over the
\* policies of their apps; the start after it does.
RestartsSettle ==
    \A s \in Servers, bootstrap \in BOOLEAN :
        phase[s] = "up" /\ disk = Whole(mem[s])
        => /\ Readable /\ ~ NotFound /\ ~ NoAdmin(bootstrap)
           /\ Keyless(disk.data) = {}
           /\ skipped[s] = {} => Loaded(bootstrap) = disk.data

\* What start-up adds to a database that has normal settings, its keys and its default
\* policies: nothing.
LEMMA NothingToAdd ==
    ASSUME NEW d, Sane(d), NEW pub \in Nat, KeyedFor(d, pub),
           \A a \in d.apps \cap VisionFlow, c \in Capabilities : d.policies[a][c] # "none"
    PROVE  WithLoadedDefaults(d, pub) = d
<1> DEFINE keys == [a \in Apps |-> IF a \in d.apps THEN Refreshed(d.keys[a], pub)
                                   ELSE d.keys[a]]
           policies == [a \in Apps |->
                           IF a \in (d.apps \cap VisionFlow) \ Keyless(d)
                           THEN Filled(d.policies[a]) ELSE d.policies[a]]
<1>1. /\ d \in Database /\ d.apps \subseteq Apps /\ d.keys \in [Apps -> Keys]
      /\ d.policies \in [Apps -> [Capabilities -> PolicyKind]]
  BY DEF Sane, Database
<1>2. ASSUME NEW a \in d.apps
      PROVE  Refreshed(d.keys[a], pub) = d.keys[a]
  <2>1. d.keys[a] \in Keys /\ d.keys[a].active = <<pub>>
    BY <1>1 DEF KeyedFor
  <2>2. <<pub>> # <<>> /\ [<<pub>> EXCEPT ![1] = pub] = <<pub>>
    OBVIOUS
  <2>3. Refreshed(d.keys[a], pub) = [d.keys[a] EXCEPT !.active = <<pub>>]
    BY <2>1, <2>2 DEF Refreshed, Keys
  <2> QED
    BY <2>1, <2>3 DEF Keys
<1>3. keys = d.keys
  BY <1>1, <1>2
<1>4. ASSUME NEW a \in d.apps \cap VisionFlow
      PROVE  Filled(d.policies[a]) = d.policies[a]
  BY <1>1, <1>4 DEF Filled
<1>5. policies = d.policies
  BY <1>1, <1>4
<1>6. WithLoadedDefaults(d, pub) = [d EXCEPT !.normal = TRUE, !.keys = keys,
                                             !.policies = policies]
  BY DEF WithLoadedDefaults
<1>7. d.normal = TRUE
  BY <1>1 DEF KeyedFor, Database
<1> HIDE DEF keys, policies
<1>8. [d EXCEPT !.normal = TRUE, !.keys = d.keys, !.policies = d.policies] = d
  BY <1>1, <1>7 DEF Database
<1> QED
  BY <1>3, <1>5, <1>6, <1>8

\* A restart after a complete save settles: no server that was stopped or killed is kept
\* from starting by what it had saved itself, and start-up's additions (ensureLoadedDefaults,
\* loadOrSeed) are made once and not at every start, for any number of servers.
THEOREM RestartsAreQuiet == Spec => []RestartsSettle
<1>1. Lasting /\ Proper => RestartsSettle
  <2> SUFFICES ASSUME Lasting, Proper, NEW s \in Servers, NEW bootstrap \in BOOLEAN,
                      phase[s] = "up", disk = Whole(mem[s])
               PROVE  /\ Readable /\ ~ NotFound /\ ~ NoAdmin(bootstrap)
                      /\ Keyless(disk.data) = {}
                      /\ skipped[s] = {} => Loaded(bootstrap) = disk.data
    BY DEF RestartsSettle
  <2> DEFINE d == mem[s]
  <2>1. /\ Sane(d) /\ KeyedFor(d, signingKey) /\ signingKey \in Nat
        /\ d.admin # "none" /\ (postgres => SchemaReady)
    BY DEF Proper, KeysInOrder, ServingType, Lasting, Served
  <2>2. disk.data = d /\ disk.status = "whole"
    BY DEF Whole
  <2>3. Readable /\ ~ NotFound /\ ~ NoAdmin(bootstrap)
    BY <2>1, <2>2 DEF Readable, NotFound, NoAdmin, IsEmpty
  <2>4. Keyless(d) = {}
    <3>1. <<signingKey>> # <<>>
      OBVIOUS
    <3> QED
      BY <2>1, <3>1 DEF Keyless, KeyedFor
  <2>5. ASSUME skipped[s] = {} PROVE Loaded(bootstrap) = d
    <3>1. \A a \in d.apps \cap VisionFlow, c \in Capabilities : d.policies[a][c] # "none"
      BY <2>5 DEF Lasting, DefaultsComplete
    <3>2. WithLoadedDefaults(d, signingKey) = d
      BY <2>1, <3>1, NothingToAdd
    <3> QED
      BY <2>1, <2>2, <2>3, <3>2 DEF Loaded, WithAdmin
  <2> QED
    BY <2>2, <2>3, <2>4, <2>5
<1> QED
  BY <1>1, LastingHolds, PTL
=============================================================================
