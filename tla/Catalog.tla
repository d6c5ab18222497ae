------------------------------- MODULE Catalog -------------------------------
(***************************************************************************)
(* The administrator's part of the server's database (licensecore.Data):    *)
(* apps, their SDK keys, releases and capability policies, and the           *)
(* administrators; what each handler does to it, what start-up adds to it,    *)
(* and what the PostgreSQL schema accepts of it.  Deployment runs it.         *)
(*                                                                           *)
(* findAppLocked accepts an app's internal id as well as its app_key, but     *)
(* rows are filed under the name that was given.  A row filed under an id is  *)
(* read by nobody who uses the app_key; it is kept as a misfit.               *)
(***************************************************************************)
EXTENDS Integers, Sequences

CONSTANTS
    Apps,           \* app keys
    VisionFlow,     \* those isVisionFlowAppKey recognises
    DemoApp,        \* the app of the demo seed
    Capabilities,   \* those the VisionFlow defaults list
    Versions,       \* platform, version and channel of a release
    DemoVersion     \* that of the release in the demo seed

ASSUME CatalogAssumption ==
    /\ VisionFlow \subseteq Apps
    /\ DemoApp \in Apps \ VisionFlow
    /\ DemoVersion \in Versions

\* active holds the public keys of the active SDK keys in their order, retired
\* counts the rotated ones.
Keys == [active: Seq(Nat), retired: Nat]

PolicyKind == {"none", "default", "custom"}

AdminKind == {"none", "demo", "bootstrap"}

\* seeded tells whether the demo seed's release, known by its id, is one of the
\* releases.  misfits counts the rows that no PostgreSQL table accepts: a second
\* release of a version, a row filed under an app's internal id, an integer above
\* 32 bits.  normal tells whether the settings are in the form that
\* normalizeSystemSettings gives them; Settings says what that form is.
Database ==
    [apps: SUBSET Apps,
     keys: [Apps -> Keys],
     releases: [Apps -> SUBSET Versions],
     seeded: BOOLEAN,
     policies: [Apps -> [Capabilities -> PolicyKind]],
     misfits: Nat,
     admin: AdminKind,
     normal: BOOLEAN]

NoKeys == [active |-> <<>>, retired |-> 0]

EmptyDatabase ==
    [apps |-> {},
     keys |-> [a \in Apps |-> NoKeys],
     releases |-> [a \in Apps |-> {}],
     seeded |-> FALSE,
     policies |-> [a \in Apps |-> [c \in Capabilities |-> "none"]],
     misfits |-> 0,
     admin |-> "none",
     normal |-> TRUE]

\* dataIsEmpty: settings and keys alone do not count.
IsEmpty(d) == d.apps = {} /\ d.admin = "none"

----------------------------------------------------------------------------
(* Capability policies                                                       *)

Filled_FaultOverwrites(policies) == [c \in Capabilities |-> "default"]

\* ensureDefaultVisionFlowPoliciesLocked: only what is missing.
Filled(policies) ==
    [c \in Capabilities |-> IF policies[c] = "none" THEN "default" ELSE policies[c]]

WithDefaultPolicies(d, a) == [d EXCEPT !.policies[a] = Filled(@)]

\* PUT .../capability-policies: upsertCapabilityPoliciesLocked.
WithPolicies(d, a, C) ==
    [d EXCEPT !.policies[a] = [c \in Capabilities |->
        IF c \in C THEN "custom" ELSE d.policies[a][c]]]

----------------------------------------------------------------------------
(* SDK keys; pub is the public key of the server that makes them             *)

\* Every active key is retired and a new one appended.
Rotated(keys, pub) ==
    [active |-> <<pub>>, retired |-> keys.retired + Len(keys.active)]

Refreshed_FaultOnlyMissing(keys, pub) ==
    IF keys.active = <<>> THEN [keys EXCEPT !.active = <<pub>>] ELSE keys

\* What start-up does: a missing key is made, the first active one is given the
\* public key of this server.
Refreshed(keys, pub) ==
    IF keys.active = <<>> THEN [keys EXCEPT !.active = <<pub>>]
    ELSE [keys EXCEPT !.active[1] = pub]

----------------------------------------------------------------------------
(* Apps and releases                                                         *)

NewApp_FaultNoPolicies(d, a, v, pub) ==
    [d EXCEPT !.apps = @ \cup {a}, !.keys[a].active = Append(@, pub),
              !.releases[a] = @ \cup {v}]

\* POST /admin/apps: the app, its first release, a key, and the default policies
\* of a VisionFlow app.
NewApp(d, a, v, pub) ==
    LET e == [d EXCEPT !.apps = @ \cup {a}, !.keys[a].active = Append(@, pub),
                       !.releases[a] = @ \cup {v}]
    IN  IF a \in VisionFlow THEN WithDefaultPolicies(e, a) ELSE e

WithMisfit(d) == [d EXCEPT !.misfits = @ + 1]

\* POST .../releases: no look at the releases there are.
WithRelease(d, a, v) ==
    IF v \in d.releases[a] THEN WithMisfit(d) ELSE [d EXCEPT !.releases[a] = @ \cup {v}]

\* The demo data: of the server that seeds an empty store.
DemoData(pub) ==
    [EmptyDatabase EXCEPT !.apps = {DemoApp}, !.keys[DemoApp].active = <<pub>>,
                          !.releases[DemoApp] = {DemoVersion}, !.seeded = TRUE,
                          !.admin = "demo"]

\* ... and of migration 002, which knows what is there by the app's key and the
\* release's id, and fails on another release of the same version.
SeedConflicts(d) == ~ d.seeded /\ DemoVersion \in d.releases[DemoApp]

Seeded(d) ==
    IF d.seeded THEN d
    ELSE [d EXCEPT !.apps = @ \cup {DemoApp}, !.seeded = TRUE,
                   !.releases[DemoApp] = @ \cup {DemoVersion}]

----------------------------------------------------------------------------
(* What is read at start-up, and what PostgreSQL takes                       *)

\* Apps whose key start-up has to make first.
Keyless(d) == {a \in d.apps : d.keys[a].active = <<>>}

\* ensureLoadedDefaults: the settings, then the loop over the apps.  The default
\* policies of an app without a key are passed over.
WithLoadedDefaults(d, pub) ==
    [d EXCEPT
        !.normal = TRUE,
        !.keys = [a \in Apps |-> IF a \in d.apps THEN Refreshed(d.keys[a], pub)
                                 ELSE d.keys[a]],
        !.policies = [a \in Apps |->
            IF a \in (d.apps \cap VisionFlow) \ Keyless(d) THEN Filled(d.policies[a])
            ELSE d.policies[a]]]

WithAdmin(d, bootstrap) ==
    IF d.admin # "none" THEN d
    ELSE [d EXCEPT !.admin = IF bootstrap THEN "bootstrap" ELSE "demo"]

\* What the constraints of the schema accept.
Storable(d) == d.misfits = 0

\* A store of an earlier version of the server: apps without keys or policies, and
\* settings from before some of them were added.
Legacy(S, v, admin, normal) ==
    [EmptyDatabase EXCEPT
        !.apps = S,
        !.releases = [a \in Apps |-> IF a \in S THEN {v} ELSE {}],
        !.admin = admin,
        !.normal = normal]

\* What an administrator who was answered may rely on.
Facts(d) ==
    {<<"app", a>> : a \in d.apps} \cup
    {<<"release", x[1], x[2]>> :
        x \in {y \in Apps \X Versions : y[2] \in d.releases[y[1]]}} \cup
    {<<"policy", x[1], x[2]>> :
        x \in {y \in Apps \X Capabilities : d.policies[y[1]][y[2]] = "custom"}} \cup
    UNION {{<<"retired", a, n>> : n \in 1..d.keys[a].retired} : a \in Apps}
=============================================================================
