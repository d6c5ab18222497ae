# License Guard in TLA+

Models, model-checking runs and machine-checked proofs for the licence server
of this repository. Paths are those of the repository; `server.go` is
`internal/licensecore/server.go`.

| Modules | Part of the system |
|---|---|
| `Licensing` | the licence server: licences, devices, activations, challenges, tokens |
| `SeatLedger`, `LicensingRefinement` | what it promises about seats, without saying how; the mapping under which it keeps the promise |
| `LicensingDiagnostics` | what the administrator is told about a licence and a device |
| `AdminSessions` | logins, sessions, the rate limit, the audit trail |
| `Catalog`, `Deployment` | apps, keys, releases and policies in their store; servers, saves, start-up and migrations |
| `Releases`, `Integrity`, `Capabilities`, `Settings`, `Verdict` | the server's judgements, as operators; `Verdict` lets administrators change what they depend on |
| `Client` | the Go SDK on one device |
| `ServerView` | the server as one installation sees it: `Client` is built on it, `LicensingRefinement` shows that `Licensing` keeps to it |
| `MC*` | the instances for TLC |
| `*Proofs` | the theorems, checked by TLAPS |

## 1. The system

| Component | State | Operations | Interacts with |
|---|---|---|---|
| Licensing core (`server.go`) | licences, devices, activations (`s.data`, under `s.mu`); live challenges (`s.challenges`, memory only) | challenge, activate, verify, heartbeat, capability check, deactivate; administrator: create, revoke, suspend, resume, block, unblock, unbind | saves through the store, signs tokens for the SDK, asks the integrity evaluation for a verdict |
| Administrator sessions, rate limit, audit (`server.go`) | password hashes, audit log (`s.data`); sessions and failure counters (memory only) | login, session check, logout, password change; every administrator action is authorised and audited here | guards every administrator handler; the same limiter guards challenge, activate and verify |
| Integrity evaluation (`evaluateIntegrityLocked`) | integrity reports, risk events | score a report against a release; deny or shorten the token | called by activate, verify, heartbeat |
| Releases and updates | releases per app | create, patch; latest release, minimum version, rollout | read by the integrity evaluation and the update advice |
| Capability policies | policies per app | upsert, defaults, decision, signed bundle | read by capability check and by activate/verify |
| Settings, SDK keys, apps | one record or list each | update with clamping, rotate, create | read by most handlers |
| Stores (`store.go`, `postgres_store.go`) | the whole database | Load, Save | called at the end of every changing handler |
| Migrations (`migration.go`) | `schema_migrations` | run the pending files | run before the server starts |
| Go SDK (`sdk/go/licenseguard`) | cached token, install id | activate, verify, heartbeat, deactivate, offline authorisation | HTTP to the core |
| `licenseguardctl`, admin UI, scripts | none of their own | sequences of admin calls | HTTP to the core |

How the parts interact: one process serves all requests; `s.mu` serialises what
they do to `s.data`, and a handler that changes it calls `saveLocked` before it
unlocks. Some handlers leave and re-enter the lock (login), check something
before taking it (token handlers), or are entered after a check made in an
earlier critical section (`requireAdmin`). Challenges, sessions, counters and
requests die with the process; `s.data` returns to what the last save wrote.

What is hard: those windows between critical sections; saves that fail after
memory has changed; restarts; the many orders in which revocation, unbinding,
deactivation and re-activation write one activation's status; three clocks
(challenge, token, licence deadline); the client's cache, which outlives all
of it. Then there are the stores: a file is truncated
before it is written, PostgreSQL refuses rows the memory accepts, a server reads the
store once and writes all of its memory ever after, migrations stop half way. And
there is arithmetic that decides who gets in: versions with missing parts, percentages
and hash buckets, weights that are added and capped, ranges that depend on each other.
`PROJECT.json` lists each hazard at its line, with the properties that cover it.

What makes each component correct:

- Licensing core: the device limit, revocation that stays effective, one token
  per challenge, tokens only for licences, devices and activations in good
  standing, deactivations that last, deadlines, nothing answered that a crash
  loses.
- Sessions: a password change ends the other sessions, the limiter limits but
  never for ever, what was answered is in the audit trail.
- Integrity, capabilities, releases, settings: verdicts are monotone in the
  evidence, version comparison is an order, a rollout only grows with its
  percentage, a minimum version is forced on exactly those below it, a capability
  needs its entitlement, the settings are always within their ranges.
- Diagnosis: what it clears is what a verification would accept.
- Stores, start-up and migrations: what was answered is kept, migrations are recorded
  in order, a start completes keys and default policies, production never gets demo
  data, and no legal sequence of calls reaches a store no server can start from.
- SDK: nothing is authorised beyond expiry and grace, and a confirmed
  deactivation leaves no usable token behind.

## 2. What is modelled

### `Licensing`

`db` is `s.data` reduced to what handlers decide by: a licence's status, the name its
app was given (the key or the internal id), limit and deadline; a device's status and install id; the status of the
activation of each licence and device. `store` is the last database a save wrote whole.
`challenges` are the live challenges, `tokens` the tokens that have left the
server (a client may present any of them at any time, expired or not, and to
any endpoint), `pending` the requests whose token has been verified and that wait
for the lock. `revived` and `ended` are history variables.

| Code | Definition |
|---|---|
| `handleLicenses` POST, `handleLicenseAction` | `CreateLicense`, `RevokeLicense`, `SuspendLicense`, `ResumeLicense` |
| `handleDeviceAction` | `BlockDevice`, `UnblockDevice`, `UnbindDevice` |
| `handleChallenge` | `IssueChallenge` |
| `handleActivate`, `handleVerify`, `processClientVerification` | `ClientVerification`, split by outcome: `StrayRequest`, `VerifyRefused`, `VerifyOverdue`, `VerifyDenied`, `VerifyWithoutToken`, `VerifyGranted` |
| `handleHeartbeat`, `handleCapabilityCheck`, `handleDeactivate` | `TokenRequest` (before the lock), then `Heartbeat`, `CapabilityCheck`, `Deactivate` |
| `saveLocked`, `Store.Save` | `SaveSucceeds`, `SaveFails` |
| a crash or a restart, `loadOrSeed` | `Restart` |

When a save fails the change stays in memory, as in the code, and it may nevertheless
have been written, as when the answer to a PostgreSQL commit is lost. A JSON file that
was cut short starts no server, so it is not a value of `store`, here or in
`AdminSessions`; what it does to a deployment is in `Deployment`. The verification ignores the outcome of its saves on
the paths that refuse, and not on the path that grants; so does the model.

Abstractions. The integrity verdict is any verdict: deny, or one of two token
lifetimes. A capability decision is any decision. (`Integrity` and `Capabilities`
compute them.) Risk events, reports, audit
entries and timestamps that nobody reads are left out, as is the rate limiter,
which only refuses (it is modelled in `AdminSessions`). A licence is created
for an existing app; the limit and the deadline are any of `Limits` and `Deadlines`.
Clients name their app by its key, with which the verification compares the name on the
licence: a licence filed under an internal id serves nobody. The token lifetimes are constants, although an
administrator may change the settings. `IssueChallenge` is one step though the
handler reads the clock in an earlier section than the one that inserts. Signing
does not fail. Clients cannot make tokens up (Ed25519), so a token presented is
one that was issued.

### `SeatLedger` and `LicensingRefinement`

`SeatLedger` is the licence server seen from its seats. A licence is an account:
whether seats may be taken, how many, who is seated and who was. `book` is what the
server goes by, `durable` what it finds again after a crash, `vouched` the seats a
client holds a token for. A change is in the book at once and durable perhaps; a
token leaves only for a seat that is durable (`Vouch`). A device takes a first seat
only when one is free; one that was seated may come back, which is what the code
does (see `limit` below). No clock, challenge, token, request or handler is left.

`LicensingRefinement` reads an account out of a licence and its activations:
`Ledger == INSTANCE SeatLedger WITH book <- Accounts(db), ...`, and
`ImplementsLedger == Ledger!Spec` says that every handler, with its failing saves,
and every restart is one step of the ledger or none.

It also states what `Client` presumes of the server. `Seen(l) == INSTANCE ServerView`
reads the view of an installation out of licence `l`: in order when it is active and not
past its deadline, each activation missing, active or ended. `ServesInstallations` says
that every step of the server, for whichever device, by whichever handler, is for each
licence a step of `ServerView` or none, except one (`Forgets`): a restart after a failed
save, which takes memory back to the store.

### `LicensingDiagnostics`

Operators over the state of `Licensing`, for `GET /admin/apps/{app_id}/diagnostics`:

| Code | Definition |
|---|---|
| `latestActivationForLicenseLocked` | `Latest` (any activation: the model has no `last_verified_at`) |
| `findDiagnosticDeviceLocked`, the two fallbacks of `authorizationDiagnosticLocked` | `Subjects` |
| the findings on licence, device and activation | `LicenseFinding`, `DeviceFinding`, `ActivationFinding`, `Diagnosis` |

The findings on app, release, policy, reports and risk events depend on no state of
this model. The findings are translated from the diagnosis alone (`server.go:1927-1990`):
it compares the name on the licence with the name in the request, key or internal id, and
has its own order of checks. `TokenWouldVerify` and `KeyNeedsOnlyASeat` are made of the
checks `Licensing` verifies with, so the property compares two handlers, for every device
that may be asked for, unknown ones and the fallback to another device's activation
included.

### `AdminSessions`

`worker` holds the requests being served, each `idle`, `comparing` (a login that
has copied the hash and left the lock) or `authorized` (past `requireAdmin`, its
handler not yet run). `LoginBegin`, then `LoginFails` or `LoginSucceeds`;
`RequireAdmin`, then `Logout`, `ChangePassword`, `AuditedAction` or `NoChange`.
`rate` is the failure counter and the age of its window; ages stop growing once
nothing tells greater ones apart, so time is unbounded. The audit entry of a
login is in memory but not saved, as in the code. `answered` collects the audited
actions whose answer was a success. Passwords stand for their bcrypt hashes:
comparing is equality. The limiter's parameters are positive, as by default; with
zero the code switches it off. Administrators are neither created nor disabled by
any handler.

### `Catalog` and `Deployment`

`Catalog` is the administrator's half of `Data`: apps, their SDK keys, releases and
capability policies, whether there is an administrator; what each handler and each
start does to it; and what the PostgreSQL schema accepts. `Deployment` runs it: servers
with their memories (`mem`), one store (`disk`), migrations, the key directory.

| Code | Definition |
|---|---|
| `handleApps`, `handleAppDetail`, `handleCapabilityPolicies`, `handleVisionFlowCapabilityDefaults`, `handleSDKKeyRotate` | `CreateApp`, `CreateRelease`, `UpsertPolicies`, `SeedDefaultPolicies`, `RotateKey`; every other saving handler is `OtherChange` |
| the same handlers called with what the schema refuses | `CreateMisfit`; `CreateRelease` of a version there is |
| `saveLocked`, `Store.Save` | `Saved`: `Answered`, `SaveFails` or `Killed` |
| `JSONStore.Save` cut short, a PostgreSQL transaction rolled back or committed without an answer | `Interrupted` |
| `NewServerWithStoreOptions`, `loadOrSeed`, `ensureLoadedDefaults`, `validateProductionConfig` | `Start`: `StartRefused`, `StartUnchanged`, `StartSaved`; `Loaded` |
| a crash, a stop; a lost `-key-dir` | `Stop`; `LoseSigningKey` |
| `RunPostgresMigrations`, `licenseguard-migrate`, `-auto-migrate` | `BeginMigrations`, then for each file `CheckFile`, `ApplyFile` or `FailFile` |

A file is truncated and then written, so a save cut short leaves the old file, the new
one or one that does not parse (`Torn`), from which no server starts. A transaction is
whole or nothing. A *misfit* is a row the memory accepts and the schema does not: a
second release of one version, a row filed under an app's internal id (the lookup takes
either name, the row keeps the one given), a number above 32 bits. One misfit makes
every later PostgreSQL save fail until the server is restarted. `Init` is an empty
machine, or the store of an earlier version: apps without keys or policies, settings that
may not be in their normal form (`normal`; loading them changes them, which forces a
save), and of PostgreSQL the first migration only. `-production` is the same at every
start: a store that was filled without it is not cleaned up by the code. `promised` collects the facts an administrator was
answered.

Abstractions. A release is known by platform, version and channel; a policy is
missing, a default or custom. A migration file is its number; `SeedFile` stands for
`002_seed_demo.sql`, the others add tables and columns. `migrationApplied` reads outside
the transaction that follows, so two runners may both find a file missing; the
statements are idempotent. Deleting a torn file, or restoring a backup, is the
operator's business. That licences survive all this is in `Licensing`.

### `Releases`, `Integrity`, `Capabilities`, `Settings` and `Verdict`

What the server concludes, as operators, one module per subject:

| Code | Definition |
|---|---|
| `compareVersionStrings`, `splitVersionParts` | `Older`, `Part`, `IsNumber` |
| `findReleaseLocked`, `latestReleaseLocked` | `Named`, `Latest` |
| `updateInfoLocked`, `isBelowMinSupportedLocked`, `releaseInRollout` | `Advice`, `BelowMinimum`, `InRollout` |
| creating and patching a release | `Created`, `MayBecome`, `Patched` |
| `evaluateIntegrityLocked`; the denial and the lifetime in `processClientVerification` | `FindingsOf`, `Mismatched`, `Score`, `Level`; `Denied`, `Lifetime` |
| `normalizeCapabilityPolicy`, `hasEntitlement`, `capabilityDecision` | `Acceptable`, `Policy`, `Entitled`, `Decision` |
| `normalizeSystemSettings` | `Normalized`, `Given`, `Clamp` |

`Verdict` has the state they depend on, the releases of one app and platform, the policy
of one capability and the settings, and its actions are the handlers that change it:
`CreateRelease`, `PatchRelease`, `PatchSettings`, `PutPolicy`. None of the judgements
changes anything, so the properties quantify over clients, devices and evidence in every
state. A version is the sequence of its parts, each a number or not; strings are not
put together. The bucket of a release and device is a constant operator: any hash. A
patch changes everything but version and build number, whichever fields the request
names. Build numbers are any integers a machine holds (`Builds`), 0 for none, and need
not follow the versions; a status the server does not know is `other`. A save that fails
leaves the change in memory, so it is not told apart here; what
it does to the store is in `Deployment`. A request that is refused for missing fields
changes nothing.

### `Client`

One installation of the Go SDK: `file` is the install id on disk, `cache` the token
on disk, `worker` the goroutines that may be inside a call at the same time. A call
goes through the steps that something else can come between:

| Code | Definition |
|---|---|
| `LoadToken` at the head of `Verify`, `Heartbeat`, `Deactivate`; the start of `Activate` | `Begin` |
| `LoadOrCreateInstallID` | `LoadInstallID`, and when there is none `TruncateInstallID`, `WriteInstallID` (the two halves of `os.WriteFile`) |
| `postJSON` with an error, a refusal, a timeout | `CallFails` before the server has served the request, `AnswerLost` after |
| `SaveToken` | `TruncateCache`, `WriteCache` |
| `DeleteToken` at the end of `Deactivate` | `FinishDeactivate` |
| `CachedAuthorization` | `CacheAuthorises` |
| the process is killed, `NewClient` | `Restart` |

The server is what the installation sees of it, the module `ServerView`: `licensed`,
whether its licence is active and before its deadline; `seat`, the status of its
activation for each install id. `ServeGranting` and `ServeDeactivating` are the handlers;
`Revoke`, `Unbind`, `Suspend`, `Resume` the administrator and the clock. All of them
change the server's side by the actions of `ServerView`, and those are all that
`Licensing` does (`ServesInstallations`). `stray` are the requests whose
caller has timed out or been killed: the server may serve them at any later time, or
refuse them. `sinceGood`, `off` and `resurrected` are history variables.

Abstractions. A token is its install id, its age and its lifetime; that it is
authentic, of this application, and accompanied by its capability policy is assumed.
Both clocks agree. Ages stop at `MaxAge`, beyond every lifetime, where nothing tells
greater ones apart, so time is unbounded. The challenge and the request that presents
it are one step; `Licensing` models challenges. The server refuses for whatever
reason (`CallFails`), its seats are not counted, and its memory does not go back to
the store: those are in `Licensing`, and that the last is the only difference between
the two is `ServesInstallations`. When two saves overlap the outcome is either
token, neither, or a file that does not parse. The token that `VerifyWithToken` is
given is the cached one, as `Verify` does. A heartbeat ends when it is sent, as its
answer changes nothing.

Operators whose names contain `_Fault` are deliberately wrong variants of the
definition they precede. Nothing uses them in the specification; each stands for
a plausible bug that one of the checked properties notices, listed under
`mutants` in `PROJECT.json`.

## 3. The runs

| Run | Bounds | Shows |
|---|---|---|
| `seats` | 1 licence of limit 1 or 2, 3 devices (symmetric), 3 challenges | `TypeOK`, `SeatLimitUntilRevival`, `RevokedHasNoSeat`, `GrantIsAuthorised` |
| `crash` | 1 app with a key and an internal id, 1 licence of deadline 0, 2 devices (symmetric), 2 challenges, 2 failing saves, clock to 1 | `ReferentialIntegrity`, `TokenBacked`, `NothingUnsaved`, `DeactivationLasts`, `SeatNeedsChallenge`; the refinement `ImplementsLedger`; `ServesInstallations`; `DiagnosisExplainsVerification` |
| `time` | 2 apps, 2 licences, 1 device, 2 install ids (symmetric); deadline, challenge and token lifetimes 1 and 0, clock to 2 | `TokenBacked`, `DeadlineRespected`, `OneTokenPerChallenge` |
| `sessions` | 1 administrator, 2 passwords, 2 concurrent requests (symmetric), 2 sessions ever | `AnsweredIsAudited`, `OnlyLateSessionsAreStale` |
| `rate` | a known and an unknown account, limit 2, window 2, 2 concurrent requests | `TypeOK`, `FailuresBounded`, `LockoutEnds` |
| `sequential` | 1 goroutine, 2 install ids, 1 stray request, lifetime 1, grace 2 | `TypeOK`, `TokenMatchesInstall`, `DeactivateGivesUp`, `AuthorisationEnds` |
| `concurrent` | 2 goroutines and 2 install ids (symmetric), lifetimes 1 and 3, grace 2 | `AuthorisedOnlyRecently` |
| `deploy` | 1 server, 1 migration runner, 3 migration files, a VisionFlow and the demo app, 1 capability, 1 version, 1 misfit, 1 rotation, 2 signing keys, 1 needless save failure | `TypeOK`, `AnsweredIsKept`, `OneActiveKey`, `DefaultsComplete`, `ProductionHasNoDemo`, `MigrationsInOrder`, `StartsAgain` |
| `verdict` | 2 releases of the 26 in `MCRows`, build numbers -1 to 2, 9 versions, 2 devices, 3 buckets, 2 hashes, 2 entitlements, 2 settings and 2 values | `TypeOK`, `VersionOrder`, `BlockedIsDenied`, `MinimumIsForced`, `EvidenceOnlyTightens`, `SettingsNormal`, `CapabilityNeedsEntitlement`, `RolloutOnlyWidens` |
| `limit`, `race`, `replicas` | as small as the counterexample allows | disagreements of code and documentation, below |

Why the bounds are enough. To exceed a limit of two takes three devices, and to
exceed it through a revival takes three spent challenges (take, end and let
another take, take back). Failing saves are not in `seats`; that the limit survives them is
the theorem `SeatLimit`. A deactivation that does not last takes a token, its
deactivation and one more event, with two failing saves around them; the refinement
adds no case, since an account's steps concern two devices at most, and one tick takes a licence past
its deadline in every state an installation may find it in. In `time` the clock
passes the end of a challenge, of a long and a short token and of the deadline while
something else is still valid; a token of the wrong app takes two licences. A diagnosis is wrong
about an app or a device with two names and two devices, in `crash`. The login race
takes two concurrent requests; the limiter's excess takes as many logins in flight as
there are workers. The client's races take two goroutines; two install ids are drawn
only when two first calls overlap or a crash leaves the id empty. A grace longer and one
shorter than the lifetime are both covered; a stray request needs no second
goroutine to be served late.

In `deploy` three files are one before the seed, the seed and one after; a
server that runs while the runner stands at any of them is enough to lose or to
overwrite something, and one misfit, rotation, lost key or failing save each is the
most that separates a legal store from one that cannot be read or saved. In `verdict`
a version may be registered twice, in either order, with a build number, without, or
with one that contradicts the version order; the versions have one to three
parts, trailing zeros, and words at the end, in the middle and alone; the percentages
lie at, between and beyond the ends, the buckets on both sides of each; the requested
settings lie below and above every range; the reports make each level of risk, and
each way for a hash to be wrong.

Restarts, ticks of the session and token clocks, verifications that are refused,
administrator actions, migrations, changes of policies and settings are unbounded.
`MaxPending`, `MaxSaveFailures`, `MaxChallenges`, `MaxTime`, `MaxSessions`,
`MaxStray`, the number of `Ids`, `MaxMisfits`, `MaxRetired`, `MaxSigningKey` and
`MaxReleases` are the only bounds on behaviours.
Deadlock checking is on everywhere; a restart or a change is always possible.

Fairness. `Licensing`, `Deployment` and `Verdict` assume none: nothing obliges a client
or an administrator to act, or an operator to start a server. `AdminSessions` assumes
`WF_vars(Tick)`: time passes, nothing else. `LockoutEnds` needs no more, and the run
lets requests fail without end while time passes. `Client` assumes `WF_vars(Tick)` as
well: `AuthorisationEnds` must hold of an application that never calls the SDK again,
and of one that keeps calling.

### Disagreements found

- `limit`: `processClientVerification` compares with `max_devices` only when there
  is no activation record (`server.go:1623`); an ended or blocked one is set back
  to active unconditionally (`server.go:1641`). End the activation of device 1,
  activate device 2, activate device 1 again: two active devices on a one-seat
  licence. What does hold is `SeatLimitUntilRevival`.
- `race`: a login that copied the hash before a password change opens its session
  after the change. What does hold is `OnlyLateSessionsAreStale`.
- `replicas`: a server writes all of its memory, which it read when it started, over
  whatever PostgreSQL holds (`postgres_store.go:106`), while the production checklist
  describes several replicas on one database. The run starts from PostgreSQL
  (`ReplicatedInit`): two servers start, one answers a change, and the next save of the
  other removes it. What does hold is `AnsweredIsKept`, of one
  server; the other properties of `Deployment` hold of any number.

Known behaviours without a run of their own:

- After a deactivation, re-activating with the key makes the old token pass again,
  although the integration guide says that it is answered `TOKEN_DEACTIVATED`
  (`docs/03-windows-go-integration-guide.md:391`). `DeactivationLasts` states what
  holds: only a re-activation does this, never a restart, a resumption or a failed save.
- A `Verify` that was granted its token before a concurrent `Deactivate` was served may
  save it after `Deactivate` has succeeded (`client.go:316`); the cache then authorises
  until the expiry and grace of that token. What holds is `DeactivateGivesUp` for an
  application that makes one call at a time, and `AuthorisedOnlyRecently` for every other.
- A diagnosis that names a device without an activation of the licence, or a device
  that is not known, is made about the licence's latest activation, of another device
  (`server.go:1956`). The enhancement plan describes this for a diagnosis that names
  only a licence. Read as one about the device it falls back to, it is right; where it
  keeps the device and takes the activation of another, `DiagnosisExplainsVerification`
  claims nothing of the activation.
- An app is found by its key or its internal id, but the diagnosis compares the name in the
  request with the name on the licence (`server.go:1940`), and the verification compares
  the latter with the key (`server.go:1581`). So a diagnosis that names the app by its id
  reports `license_app_mismatch` for a licence that verifies, and clears a licence filed
  under the id, which no client can use.
- The latest release is the active one with the highest build number, and every client of
  another version is advised to take it (`server.go:2331`): so may be a client of a newer
  version, when that is not registered or has no build number, and the release may be of
  a version that is blocked in another channel. Whether a minimum version is enforced is
  decided by build numbers where both versions have one, also when they contradict the
  version order or belong to rows of another channel (`server.go:2373`).
- A row filed under an app's internal id, or a release registered twice, is accepted on the
  JSON store and makes the PostgreSQL store refuse every save until the server restarts;
  nothing that was answered is lost (`AnsweredIsKept`).

## 4. What is proved

Everything below holds for every value of the constants, from the assumptions the
modules name: `LicensingAssumption` (finitely many devices, positive limits, integer
deadlines, natural lifetimes, no internal id that is an app's key, `NoApp` and `NoInstall`
outside their sets),
`AdminAssumption` (finitely many requests and at least one, a positive limit and
window, no account both known and unknown, `NoPassword` not a password),
`ClientAssumption` (at least one goroutine, natural lifetimes and grace below `MaxAge`, `NoId`, `NoToken` and
`Torn` outside their sets), `DiagnosticsAssumption` (`NoDevice` is no device),
`CatalogAssumption` and `DeploymentAssumption` (the demo
app is no VisionFlow app, the seed is not the first migration, natural bounds), and
`ReleasesAssumption`, `CapabilitiesAssumption` and `VerdictAssumption` (versions are
sequences of numbers and words, the greatest build is a natural, buckets lie below `Full`, the sentinels are outside
their sets, no release registers the hash `Forged`).

Some properties are false of the code without a condition; there the theorem has the
condition as a formula about the behaviour beside `Spec`. Each says
which behaviours break the property, so what the violation runs show by one example is
known to be the only way:

| Condition | Says | Theorems |
|---|---|---|
| `[]OneCall` | no two calls of the SDK overlap, from however many goroutines | `TokensMatchInstall`, `DeactivatesForGood` |
| `[]OneUp` | no two servers are up at once, however many there are | `OneUpKeepsAnswers` |
| `[][RevivesIntoFreeSeat]_vars` | an ended activation is revived only while a seat is free, or by a restart that forgot its end | `OnlyRevivalExceedsLimit` |
| `[][ChangesAlone]_vars` | no password changes while a login for the account compares | `PunctualPasswords`; it follows from one worker in `OneRequestAtATime` |
| `[](failures = 0)` | no save fails | `LicensingImplementsView` |

| Module | Theorem | Property |
|---|---|---|
| `LicensingProofs` | `TypeCorrect` | `TypeOK` |
| | `RevocationEmptiesSeats` | `RevokedHasNoSeat` |
| | `SeatLimit` | `SeatLimitUntilRevival` |
| | `OnlyRevivalExceedsLimit` | `ActiveWithinLimit`, if revivals find a free seat |
| | `ReferencesHold` | `ReferentialIntegrity` |
| `TokenProofs` | `ChallengesAreSpent` | `OneTokenPerChallenge` |
| | `TokensAreBacked` | `TokenBacked` |
| | `DeactivationsLast` | `DeactivationLasts` |
| | `DeadlinesAreRespected` | `DeadlineRespected` |
| | `GrantsAreAuthorised` | `GrantIsAuthorised` |
| | `NothingIsUnsaved` | `NothingUnsaved` |
| | `SeatsNeedChallenges` | `SeatNeedsChallenge` |
| | `DiagnosesExplain` | `DiagnosisExplainsVerification` |
| `SeatLedgerProofs` | `LedgerKeepsItsPromise` | `LedgerInv` of the ledger itself |
| `RefinementProofs` | `LicensingImplementsLedger` | `ImplementsLedger` |
| | `ServerKeepsLedger` | `LedgerInv` of the ledger in the server |
| | `ServesEveryInstallation` | `ServesInstallations` |
| | `LicensingImplementsView` | `Seen(l)!Spec` of every licence, if no save fails |
| `AdminSessionsProofs` | `AdminTypeCorrect` | `TypeOK` |
| | `AnswersAreAudited` | `AnsweredIsAudited` |
| | `StaleSessionsAreLate` | `OnlyLateSessionsAreStale` |
| | `FailuresAreBounded` | `FailuresBounded` |
| | `PunctualPasswords` | `OldPasswordOpensNothing`, if no login overlaps a change |
| | `OneRequestAtATime` | `OldPasswordOpensNothing`, for one request at a time |
| `ClientProofs` | `ClientTypeCorrect` | `TypeOK` |
| | `CacheIsRecent` | `AuthorisedOnlyRecently` |
| | `TokensMatchInstall` | `TokenMatchesInstall`, if calls do not overlap |
| | `DeactivatesForGood` | `DeactivateGivesUp`, if calls do not overlap |
| `DeploymentProofs` | `DeploymentTypeCorrect` | `TypeOK` |
| | `MigrationsRunInOrder` | `MigrationsInOrder` |
| | `EveryAppHasItsKey` | `OneActiveKey` |
| | `NoDemoInProduction` | `ProductionHasNoDemo` |
| | `DefaultsAreComplete` | `DefaultsComplete` |
| | `OneUpKeepsAnswers` | `AnsweredIsKept`, if no two servers are up at once |
| | `OneServerKeepsAnswers` | `AnsweredIsKept`, for one server |
| | `RestartsAreQuiet` | `RestartsSettle` |
| | `DeploymentStartsAgain` | `StartsAgain` |
| `VerdictProofs` | `VerdictTypeCorrect` | `TypeOK` |
| | `VersionsAreOrdered` | `VersionOrder` |
| | `SettingsAreNormal` | `SettingsNormal` |
| | `CapabilitiesNeedEntitlements` | `CapabilityNeedsEntitlement` |
| | `BlockedAreDenied` | `BlockedIsDenied` |
| | `RolloutsWiden` | `RolloutOnlyWidens` |
| | `MinimaAreForced` | `MinimumIsForced` |
| | `EvidenceTightens` | `EvidenceOnlyTightens` |

**Seats, revocation, references.** None of the three is inductive by itself: that
a new licence holds no seat needs the references, and that a revoked licence takes
none needs the order of checks in the verification. `Sound(d, R)` is their
conjunction for one database `d` and set `R` of revived licences; `SoundStates`
claims it of the memory and of the store, which a restart makes the memory, and is
inductive together with `TypeOK`. To avoid a case per action and invariant,
`StepShapeHolds` first shows that every step has one of three shapes: go back to
the store; `DbStep`, a change that takes no seat; `SeatStep`, a verification that
takes or keeps one, having spent a challenge. Each change of the database is then
shown once to ease it (`Eases`: no new seat, no licence or device lost, revoked
only when emptied), and easing is shown once to preserve soundness. Only creation,
which is sound because nothing refers to a licence that does not exist, and
`SeatSound`, where the counting is done, need their own arguments.

**The device limit.** `SeatLimitUntilRevival` gives up on a licence for good once one of
its activations is revived. `OnlyRevivalExceedsLimit` says how much of the documented limit
the code keeps: taking `Sound(d, {})`, soundness without the exception, of memory and
store, a step that takes a seat either keeps one, adds one below the limit, or revives;
and if the last is ruled out where no seat is free, soundness without exception is
inductive. A restart is excused since the store satisfies it too.

**Tokens.** `Follows(d, e)` says what a step never undoes from database `d` to `e`:
activations and licences are not lost, app and deadline do not change, an ended
activation becomes active only by a noted revival. `StepFollows` shows that memory
and store each follow one of the two before the step; this is what makes the
invariants survive restarts and failed saves. `TokenStepHolds` sorts the steps by
what they do to clients: nothing, spend challenges, issue one, grant a token
(`GrantStep`), confirm a deactivation (`EndStep`). `BackedStates`, the conjunction
of `TokenBacked`, `DeactivationLasts` and `DeadlineRespected` for both databases, is
inductive relative to `SoundStates`, needed because an activation keeps its
licence from being created anew with another app. One token per challenge is
inductive once challenge ids are known to be fresh (`FreshChallenges`).

**Diagnosis.** A device with an activation is known (`ReferentialIntegrity`), so whatever
the diagnosis falls back to is in the database (`SubjectsExist`). Its finding on the
licence is good for an app's key exactly when the licence is usable for that app, and for
an internal id only when no app's key is on the licence, the names being disjoint
(`LicenseFindingIsForTheName`); the findings on device and activation are the conjuncts
that the verification of the device's token comes down to.

**Sessions.** `TypeOK` needs `CopyShape`: a login whose guess matches is an
administrator's, since an unknown account has no hash to copy. The trail needs
that memory keeps what the store has (`Trail`), for the next save writes memory.
`FailuresBounded` and `OnlyLateSessionsAreStale` are inductive with the types; the
former counts the logins in flight, one leaving when its failure is counted. When
no password changes under a login that compares, the copied hash is the current one
(`Punctual`), so no session is opened late and `OnlyLateSessionsAreStale` leaves none stale.

**Client.** `AuthorisedOnlyRecently` speaks of the cache alone and is not inductive: a
token may come back from any call. `TokensBacked` says of the cache and of every
call that its token is no younger than the last good standing of its install id.
`CacheStep` and `CallStep` show where the tokens of a step come from: the cache, a
call, or a grant that renews the good standing; ticks keep the order of ages. Where
calls do not overlap, `OneInstall` follows the install id through the call that is being
made (missing only while it is being created, and then no token is cached), and `GivingUp`
claims the seat from the moment the server has served the deactivation, before the client
knows, and needs `OneInstall`, since it is the install id on disk whose seat is ended. Both
are claimed of every goroutine while all others are idle, so a call may come from another
goroutine than the last.

**The ledger.** `LedgerInv` is inductive once an account that was never opened is known
to be empty (`Fair`); each change of an account keeps it fair, each step changes the book
by one of them, and the durable book is the old one or the new. For the refinement every
change the server makes to its database is shown once to be the ledger's change of the
accounts: revoking, unbinding and ending (`LeavesAccount`, `EndedAccounts`), suspending and
resuming, creating, enrolling (nothing), activating (sitting). Three facts about reachable
states carry it: a device sits only when `MaySit` allows it, which is the test of
the verification; a licence that does not exist has no activations, which is
`ReferentialIntegrity`; and a token leaves only when its seat is stored (`GrantVouches`),
which is what makes the step a `Vouch` and not a `Sit`. With the refinement the ledger's
theorem is one about the server: `ServerKeepsLedger` instantiates `LedgerKeepsItsPromise`.

**The server of the client.** `Client` changes `licensed` and `seat` by actions of
`ServerView` only; `ServesEveryInstallation` shows that `Licensing` changes them by no
others, whoever acts. So an interleaving of the client with the whole server has no step
on the server's side that `Client` does not have, and what is proved of `Client` is proved
against that server, as long as it does not forget. The proof goes by the three shapes
of a step: a `DbStep` is one licence created, suspended, expired, resumed or revoked, or
activations ended, or touches neither; a seat is taken only under a licence in order (the
checks of the verification, hence `~ Overdue(l)` in `SeatStep`); the clock can only pass
a deadline. Each change is shown once to be an action of the view of its licence and
to leave the views of the others alone (`EndSeen`, `RevokedSeen`, `SeatSeen`). A restart is either nothing
(memory is the store, by `NothingUnsaved` whenever no save has failed) or `Forgets`.
When it forgets, the seat of a token that left is not lost (`TokenBacked`,
`ServerKeepsLedger`), but what was changed without being saved is undone: a revocation that was
answered with an error, say, which the administrator has to repeat.

**Deployment.** The order of migrations is inductive with what each runner has passed
(`RunnersInOrder`): the check and the transaction are two steps, but what was recorded
stays recorded, so a second runner does no harm. `Proper` says of the store and every
memory that each app has no key or one, and none before it exists, that a server that
is up has given every app the key it signs with, and that in production neither demo data
nor a seeding runner exists; its proof goes by what each change of a database keeps, not
by handler. What was answered is kept because a database only grows: `Grows` holds from
the memory to the memory after every handler, from the store to what a start makes of it
and to what the seed makes of it, and `GrowingKeepsFacts` says that facts survive that.
`Served` (a server that is up has an administrator and its schema, and so has a store
that something was answered about) makes a restart find something to load; `StartsAgain` follows, since what
is left to refuse a start is a torn file or a failed save. It is enough that no two servers are up
at once (`OneUpKeepsAnswers`): the server that takes over loads what the one before it had
saved, and only that was answered. `RestartsSettle` adds that start-up makes its additions once: `NothingToAdd`
shows that loading changes nothing in a database whose apps have their key and
policies, which is what `Proper` and `DefaultsComplete` say of one that was saved.

**Verdict.** The types, and `PolicyAccepted` and `NoForgery` (of policies and releases
that were accepted) are the only invariants; the rest is about operators. The normal
form of the settings is compared range by range; its second application changes nothing
because the lifetime of a risky token was clamped to a lifetime that stays as it is.
`Latest` is characterised by the greatest build and, among those, the greatest index, the
newest row (found as least elements of sets of naturals), `Named` by being blocked when any
row of the version is. A rollout widens since the bucket depends on the release and the
device and not on the percentage. A minimum is forced since what decides is the version
order, or the build numbers of the rows found for the two versions, both known: nothing is
assumed of these numbers, and the statement names them where they alone could decide
otherwise. The version order is lexical in the parts, a missing part counting as zero: the
first part in which two versions differ decides (`DecidedAt`). If v is older than r, the
first part in which any third version w differs from either of them makes it newer than v
or older than r (`OlderSplits`). For the evidence, more findings are a
superset up to a forged or missing hash, the score is a sum of non-negative weights over
them, and the level and the lifetime are monotone in the score.

Only model-checked: `LockoutEnds` and `AuthorisationEnds`, as the prover does not do
fairness. The properties of the violation runs are false of the code; under the
conditions above they are theorems (`StoreKeepsAnswers` as a part of `AnsweredIsKept`).

## 5. Plan

Each module is parameterised by constants with named assumptions, has one action per
handler, and no `RECURSIVE` operator. Of the plan the licensing core and its ledger,
the sessions, the client, the deployment and the verdicts are done, with their proofs, and
the client and the licensing core are composed through `ServerView`. Left, in this order:

1. `Client` against a server that forgets: a restart after a failed save as an action of
   `ServerView`, and what of the client's properties survives it.
2. Risk events with the status an administrator gives them, and the retention of the
   audit trail, should the code come to act on them: today both are only stored.

Not modelled, and why:

- The admin UI, scripts, deployment files and the example change no state except through
  the API. `licenseguardctl` is a sequential client of the API without state of its own;
  each command is a few calls that are actions here, in a fixed order.
- Onboarding, integration bundles, the dashboard and the version diagnosis only read and
  format. Risk events, integrity reports and notes are appended and shown, and decide
  nothing.
- Validation of missing or malformed fields refuses a request and changes nothing. The
  flags of the server that are only checked for their form, and the checks of the
  migration directory, stop a start before anything is read.
- Key generation, signing, bcrypt and HTTP are trusted. `FetchPublicKey`, the Windows
  encryption of the cache and the SDK's hooks keep no state the model would notice.
- The number of failure counters, which is not bounded by the code.
