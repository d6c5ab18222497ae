----------------------------- MODULE Deployment -----------------------------
(***************************************************************************)
(* Servers, their store and the migrations: what the program goes through   *)
(* from an empty machine on.  A server reads the store once, when it starts  *)
(* (loadOrSeed), and from then on writes all of its memory at every change:  *)
(* to a JSON file, truncated and then written, or to PostgreSQL in one        *)
(* transaction that deletes every row and inserts its own.  The migrations    *)
(* (RunPostgresMigrations) are run by a process of their own, or of a server   *)
(* with -auto-migrate before it starts.                                       *)
(***************************************************************************)
EXTENDS Catalog, FiniteSets

CONSTANTS
    Servers,         \* replicas; the code keeps no lock between them
    Runners,         \* processes that run migrations
    LastFile,        \* migration files are 1..LastFile, in order of name
    SeedFile,        \* the one whose name has _seed_
    MaxMisfits,      \* bound: rows no PostgreSQL table accepts
    MaxRetired,      \* bound: rotations of an app's key
    MaxSigningKey,   \* bound: signing keys ever made
    MaxSaveFailures  \* bound: saves that fail though they need not

ASSUME DeploymentAssumption ==
    /\ LastFile \in Nat
    /\ SeedFile \in 2..LastFile
    /\ MaxMisfits \in Nat
    /\ MaxRetired \in Nat
    /\ MaxSigningKey \in Nat
    /\ MaxSaveFailures \in Nat

VARIABLES
    postgres,    \* -store postgres, or the JSON file
    production,  \* -production, the same at every start
    disk,        \* the file or the database: its status and what it holds
    schema,      \* the migrations recorded in schema_migrations
    runner,      \* for each runner: the file it is at, 0 when idle; whether it
                 \* seeds; whether it has found the file missing
    phase,       \* of each server: "down", "up", "refused" (gave up starting)
    mem,         \* the memory of each server (s.data)
    signingKey,  \* the key pair in -key-dir, shared by the servers
    skipped,     \* apps a server made a key for when it started
    failures,    \* saves that have failed so far
    promised     \* history: what administrators were answered

vars == <<postgres, production, disk, schema, runner, phase, mem, signingKey,
          skipped, failures, promised>>

environment == <<postgres, production>>
migrating == <<schema, runner>>
serving == <<phase, mem, signingKey, skipped, failures, promised>>

----------------------------------------------------------------------------
(* The store *)

Whole(d) == [status |-> "whole", data |-> d]
Torn == [status |-> "torn", data |-> EmptyDatabase]
Missing == [status |-> "missing", data |-> EmptyDatabase]

\* Every table and column the queries name is there.
SchemaReady == (1..LastFile) \ {SeedFile} \subseteq schema

Readable == disk.status # "torn" /\ (postgres => SchemaReady)

\* ErrStoreNotFound
NotFound == disk.status = "missing" \/ (postgres /\ IsEmpty(disk.data))

Accepts(d) == postgres => SchemaReady /\ Storable(d)

Interrupted_FaultDeletes(d) == {disk, Whole(EmptyDatabase), Whole(d)}

\* What a save leaves that fails or is cut short: a transaction is rolled back,
\* or was committed and only its answer lost; a file may have been truncated.
Interrupted(d) ==
    IF postgres THEN {disk} \cup {Whole(e) : e \in IF Accepts(d) THEN {d} ELSE {}}
    ELSE {disk, Torn, Whole(d)}

----------------------------------------------------------------------------
(* The handlers of a server *)

\* SAVE_FAILED leaves the change in memory.
Answered(s, d) ==
    /\ Accepts(d)
    /\ disk' = Whole(d)
    /\ promised' = promised \cup Facts(d)
    /\ mem' = [mem EXCEPT ![s] = d]
    /\ UNCHANGED <<phase, failures>>

SaveFails(s, d) ==
    /\ \/ ~ Accepts(d) /\ UNCHANGED failures
       \/ Accepts(d) /\ failures < MaxSaveFailures /\ failures' = failures + 1
    /\ disk' \in Interrupted(d)
    /\ mem' = [mem EXCEPT ![s] = d]
    /\ UNCHANGED <<phase, promised>>

Killed(s, d) ==
    /\ disk' \in Interrupted(d)
    /\ mem' = [mem EXCEPT ![s] = EmptyDatabase]
    /\ phase' = [phase EXCEPT ![s] = "down"]
    /\ UNCHANGED <<failures, promised>>

\* saveLocked at the end of a handler that has made d of the memory.
Saved(s, d) ==
    /\ phase[s] = "up"
    /\ Answered(s, d) \/ SaveFails(s, d) \/ Killed(s, d)
    /\ UNCHANGED <<environment, migrating, signingKey, skipped>>

CreateApp(s, a, v) ==
    a \notin mem[s].apps /\ Saved(s, NewApp(mem[s], a, v, signingKey))

CreateRelease(s, a, v) ==
    /\ a \in mem[s].apps
    /\ mem[s].misfits < MaxMisfits
    /\ Saved(s, WithRelease(mem[s], a, v))

\* A release, policy, key or licence for an app named by its internal id, or a
\* licence or release with a number the schema has no room for.
CreateMisfit(s) ==
    /\ mem[s].apps # {}
    /\ mem[s].misfits < MaxMisfits
    /\ Saved(s, WithMisfit(mem[s]))

UpsertPolicies(s, a, C) ==
    a \in mem[s].apps /\ Saved(s, WithPolicies(mem[s], a, C))

\* POST .../capability-policies/visionflow-defaults: of any app.
SeedDefaultPolicies(s, a) ==
    a \in mem[s].apps /\ Saved(s, WithDefaultPolicies(mem[s], a))

RotateKey(s, a) ==
    /\ a \in mem[s].apps
    /\ mem[s].keys[a].retired < MaxRetired
    /\ Saved(s, [mem[s] EXCEPT !.keys[a] = Rotated(@, signingKey)])

\* Every other handler that saves; none of them touches the catalogue.
OtherChange(s) == Saved(s, mem[s])

\* A crash between two requests, or a stop.
Stop(s) ==
    /\ phase[s] = "up"
    /\ mem' = [mem EXCEPT ![s] = EmptyDatabase]
    /\ phase' = [phase EXCEPT ![s] = "down"]
    /\ UNCHANGED <<environment, migrating, disk, signingKey, skipped, failures, promised>>

----------------------------------------------------------------------------
(* Start-up: NewServerWithStoreOptions and loadOrSeed *)

MaySeed_FaultAlways == TRUE
\* ServerOptions.SeedDemoData
MaySeed == ~ production

\* Neither an administrator to find, nor one to make.
NoAdmin(bootstrap) == disk.data.admin = "none" /\ ~ bootstrap /\ ~ MaySeed

\* What a server that can start works with.
Loaded(bootstrap) ==
    IF NotFound
    THEN IF bootstrap THEN [EmptyDatabase EXCEPT !.admin = "bootstrap"]
         ELSE DemoData(signingKey)
    ELSE WithAdmin(WithLoadedDefaults(disk.data, signingKey), bootstrap)

ComesUp(s, d) ==
    /\ phase' = [phase EXCEPT ![s] = "up"]
    /\ mem' = [mem EXCEPT ![s] = d]
    /\ skipped' = [skipped EXCEPT ![s] = Keyless(disk.data)]

\* log.Fatal
GivesUp(s) == phase' = [phase EXCEPT ![s] = "refused"] /\ UNCHANGED <<mem, skipped>>

StartRefused(s, bootstrap) ==
    /\ phase[s] # "up"
    /\ ~ Readable \/ NoAdmin(bootstrap)
    /\ GivesUp(s)
    /\ UNCHANGED <<environment, migrating, disk, signingKey, failures, promised>>

\* Nothing to add to what was loaded, so nothing to save.
StartUnchanged(s, bootstrap) ==
    /\ phase[s] # "up"
    /\ Readable /\ ~ NotFound /\ ~ NoAdmin(bootstrap)
    /\ Loaded(bootstrap) = disk.data
    /\ ComesUp(s, disk.data)
    /\ UNCHANGED <<environment, migrating, disk, signingKey, failures, promised>>

StartSaved(s, bootstrap) ==
    /\ phase[s] # "up"
    /\ Readable /\ ~ NoAdmin(bootstrap)
    /\ LET d == Loaded(bootstrap)
       IN  /\ NotFound \/ d # disk.data
           /\ \/ /\ Accepts(d)
                 /\ disk' = Whole(d)
                 /\ ComesUp(s, d)
                 /\ UNCHANGED failures
              \/ /\ failures < MaxSaveFailures
                 /\ failures' = failures + 1
                 /\ disk' \in Interrupted(d)
                 /\ GivesUp(s)
    /\ UNCHANGED <<environment, migrating, signingKey, promised>>

Start(s, bootstrap) ==
    StartRefused(s, bootstrap) \/ StartUnchanged(s, bootstrap) \/ StartSaved(s, bootstrap)

\* -key-dir was not persistent: LoadOrCreateSigningKey makes another key.
LoseSigningKey ==
    /\ signingKey < MaxSigningKey
    /\ \A s \in Servers : phase[s] # "up"
    /\ signingKey' = signingKey + 1
    /\ UNCHANGED <<environment, migrating, disk, phase, mem, skipped, failures, promised>>

----------------------------------------------------------------------------
(* Migrations: RunPostgresMigrations *)

Idle == [at |-> 0, seeds |-> FALSE, missing |-> FALSE]

After_FaultNoEnd(r) == [runner[r] EXCEPT !.at = @ + 1, !.missing = FALSE]

\* The end of the loop is idleness.
After(r) == IF runner[r].at = LastFile THEN Idle
            ELSE [runner[r] EXCEPT !.at = @ + 1, !.missing = FALSE]

Runs(r, next) == runner' = [runner EXCEPT ![r] = next] /\ UNCHANGED <<environment, serving>>

\* validateMigrationOptions; a server's own run never seeds.
BeginMigrations(r, seeds) ==
    /\ postgres
    /\ runner[r] = Idle
    /\ seeds => ~ production
    /\ Runs(r, [at |-> 1, seeds |-> seeds, missing |-> FALSE])
    /\ UNCHANGED <<disk, schema>>

\* migrationApplied, outside the transaction that follows.
CheckFile(r) ==
    /\ runner[r].at > 0 /\ ~ runner[r].missing
    /\ Runs(r, IF \/ runner[r].at = SeedFile /\ ~ runner[r].seeds
                  \/ runner[r].at \in schema
               THEN After(r) ELSE [runner[r] EXCEPT !.missing = TRUE])
    /\ UNCHANGED <<disk, schema>>

\* One transaction: the statements of the file, all of them idempotent, and the
\* record that it was applied.
ApplyFile(r) ==
    /\ runner[r].missing
    /\ runner[r].at = SeedFile => ~ SeedConflicts(disk.data)
    /\ disk' = IF runner[r].at = SeedFile THEN Whole(Seeded(disk.data)) ELSE disk
    /\ schema' = schema \cup {runner[r].at}
    /\ Runs(r, After(r))

FailFile_FaultGoesOn(r) ==
    runner[r].at > 0 /\ Runs(r, After(r)) /\ UNCHANGED <<disk, schema>>

\* An error, the timeout or a kill; also the answer of a commit that was lost,
\* which is ApplyFile and then this.
FailFile(r) ==
    runner[r].at > 0 /\ Runs(r, Idle) /\ UNCHANGED <<disk, schema>>

----------------------------------------------------------------------------
\* A new machine, or the store of an earlier version: of the time before the
\* second required migration when it is PostgreSQL, whose settings are then the
\* row that migration 004 inserts.
Init ==
    /\ postgres \in BOOLEAN
    /\ production \in BOOLEAN
    /\ production => postgres
    /\ \/ /\ disk = IF postgres THEN Whole(EmptyDatabase) ELSE Missing
          /\ schema = {}
       \/ /\ \E S \in SUBSET Apps, v \in Versions, admin \in {"none", "bootstrap"},
                normal \in BOOLEAN :
                 /\ S # {}
                 /\ postgres => normal
                 /\ disk = Whole(Legacy(S, v, admin, normal))
          /\ schema = IF postgres THEN {1} ELSE {}
    /\ runner = [r \in Runners |-> Idle]
    /\ phase = [s \in Servers |-> "down"]
    /\ mem = [s \in Servers |-> EmptyDatabase]
    /\ signingKey = 1
    /\ skipped = [s \in Servers |-> {}]
    /\ failures = 0
    /\ promised = {}

Next ==
    \/ \E s \in Servers :
          \/ \E a \in Apps, v \in Versions : CreateApp(s, a, v) \/ CreateRelease(s, a, v)
          \/ CreateMisfit(s)
          \/ \E a \in Apps, C \in SUBSET Capabilities \ {{}} : UpsertPolicies(s, a, C)
          \/ \E a \in Apps : SeedDefaultPolicies(s, a) \/ RotateKey(s, a)
          \/ OtherChange(s)
          \/ Stop(s)
          \/ \E bootstrap \in BOOLEAN : Start(s, bootstrap)
    \/ LoseSigningKey
    \/ \E r \in Runners :
          \/ \E seeds \in BOOLEAN : BeginMigrations(r, seeds)
          \/ CheckFile(r) \/ ApplyFile(r) \/ FailFile(r)

Spec == Init /\ [][Next]_vars

----------------------------------------------------------------------------
(* Properties *)

Stores == [status: {"whole", "torn", "missing"}, data: Database]

Progress == [at: 0..LastFile, seeds: BOOLEAN, missing: BOOLEAN]

TypeOK ==
    /\ postgres \in BOOLEAN
    /\ production \in BOOLEAN
    /\ disk \in Stores
    /\ schema \subseteq 1..LastFile
    /\ runner \in [Runners -> Progress]
    /\ phase \in [Servers -> {"down", "up", "refused"}]
    /\ mem \in [Servers -> Database]
    /\ signingKey \in Nat
    /\ skipped \in [Servers -> SUBSET Apps]
    /\ failures \in Nat

\* What the documentation presumes when it deploys several replicas on one
\* database: what any of them has answered stays in the store.
StoreKeepsAnswers == disk.status # "torn" => promised \subseteq Facts(disk.data)

\* With one server: what an administrator was answered is in the store, unless the
\* file is torn, and in the memory of the server while it runs: through failed,
\* interrupted and refused saves, restarts, start-up and migrations.
AnsweredIsKept ==
    /\ StoreKeepsAnswers
    /\ \A s \in Servers : phase[s] = "up" => promised \subseteq Facts(mem[s])

\* Every app a running server knows has exactly one active SDK key, and it carries
\* the public key the server signs with, also after the signing key was lost and
\* for apps from before there were SDK keys.
OneActiveKey ==
    \A s \in Servers : phase[s] = "up" =>
        \A a \in mem[s].apps : mem[s].keys[a].active = <<signingKey>>

\* A VisionFlow app has a policy for every capability of the defaults, however it
\* came to be there; the exception is an app that got its key at this start.
DefaultsComplete ==
    \A s \in Servers : phase[s] = "up" =>
        \A a \in (mem[s].apps \cap VisionFlow) \ skipped[s], c \in Capabilities :
            mem[s].policies[a][c] # "none"

\* Demo data and the demo administrator never get into a deployment that is always
\* run with -production, empty, upgraded, seeded or restarted.  A store that was
\* filled without it keeps what it holds.
ProductionHasNoDemo ==
    production => \A d \in {disk.data} \cup {mem[s] : s \in Servers} :
                      d.admin # "demo" /\ ~ d.seeded

\* A migration is recorded only when all before it are, whatever fails in between
\* and however many processes migrate; only the seed may be missing, or late.
MigrationsInOrder ==
    \A f \in schema, e \in 1..LastFile : e < f /\ e # SeedFile => e \in schema

\* Once an administrator has been answered the deployment can be started again: a
\* server gives up only on a torn file or when its own save fails.
StartsAgain ==
    [][\A s \in Servers :
         phase[s] # "refused" /\ phase'[s] = "refused" /\ promised # {}
         => disk.status = "torn" \/ failures' > failures]_vars
=============================================================================
