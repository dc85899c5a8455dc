# Formal model of the XMCL shared node runtime

This directory holds TLA+ specifications of the shared-node agent and of the
compiler service beside it, the TLC configurations that check them on small
instances, and theorems about them that TLAPS checks for every instance.
`PROJECT.json` lists, for each definition, the lines of the source it models, and,
for each part of the system, whether it is modelled.

## The system

A **control plane** (not in this repository) hands *commands* to the agent of a
compute node: `RestoreAndStart` and `StopAndSync`, each for one *service* and one
*assignment* of it to the node, delivered under a *lease*. The **daemon**
(`internal/agent/daemon.go`) processes one command at a time: it lets the
**executor** (`executor.go`) do the work, reports to the control plane, and
acknowledges. The executor records results and assignment phases in the
**command store** `commands.json` (`state.go`), restores and syncs the service's
directory through the **workspace manager** (`internal/workspace`), and starts and
stops its container through the **Docker runtime** (`internal/docker`). A
setuid **quota helper** changes the directory's ownership before a start and
seals it before a sync. Object storage is reached with short-lived grants; a
revision becomes visible with its manifest, which is written once.

The **compiler service** (`compiler/src`, JavaScript) turns a launcher's bundle
into the immutable content layer a service runs on. Signed requests pass a
**replay store** and become files of a durable **job queue**; **run loops** take
jobs, build, have the control plane bind the digest of the result, upload it and
report. A build resolves a **toolchain** of a reviewed catalogue and the
**verified Java root**, downloads artifacts, runs an installer in a **sandbox**,
merges its output with the bundle's files and remote mods, and **packages** the
result. Two scripts prepare the host: one generates the catalogue's lock from
upstream metadata, one materializes the Java root.

| Part | State | Operations | Module |
|---|---|---|---|
| Daemon, lease renewal | position in `Process`, command, result, `leaseLost` | deliver, report, release, acknowledge, renew, lapse | `NodeAgent` |
| Executor, command store | memory and file: results, active assignments | start, stop, reconcile, commit, write failure, reload | `NodeAgent` |
| Docker | the managed container of each service | create, start, health wait, stop, remove, exit | `NodeAgent` |
| Workspace manager, object transfer | directory, staging, recorded manifest, objects, manifests | restore, sync, release, step by step | `WorkspaceManager`; seen from the executor in `NodeAgent` |
| Job queue | job files: state, attempts, backoff | enqueue, claim, finish, initialize | `CompilerQueue` |
| Compiler HTTP worker | run loops, requests on the wire | consume, start, stop, attempt, callbacks | `CompilerWorker` |
| Replay store | one file per consumed nonce | consume, expire | `ReplayStore` |
| Catalogue generator | downloads done, the lock | fetch, retry, validate, write; parse | `ToolchainCatalog` |
| Java root | partial directories, the root | materialize, verify | `JreRoots` |
| Bundle validation, packaging | none: pure | validate; pad, split, frame, read back | `Bundle`, `Packaging` |
| Reviewed builder, sandbox | position and output of a build, sandbox directories | resolve, download, install, merge, package | `RuntimeBuild` |
| Host of the compiler | service up or down, mount | start, death, power loss | `BuildHost` |

### What makes it hard

* The agent, or the compiler service, can die between any effect and its record;
  the command or job is then taken up again. A write can fail after memory has
  changed.
* A second goroutine renews the lease, writes the same file, and cancels the work
  in the middle when a renewal fails.
* Requests may take effect although their response is lost, or after the client
  gave up on them.
* Containers survive the agent; so do half-replaced directories, drafts of a sync
  and partial directories of a materializer.
* A service's next assignment meets what the previous one left on the node.
* Several calls of the replay store, several materializers and several run loops
  work on the same files, with an await between each check and its use.
* Catalogue, bundle and package are each checked more than once, by code with
  different rules.

The `hazards` list of `PROJECT.json` gives them at source lines. Further ones the
modules contain, but which have no entry of their own there: the repair of records
after a restart failing half-way, an error of `claim` ending the process, a retried
job delaying others (all under `AcceptedJobFinishes`), and the empty entries that
calls of the replay store leave behind when they die, which nothing ever expires.

## Modules

### NodeAgent

One module models daemon, executor, command store, lease renewal, restart and the
Docker and workspace operations they call, because every hard behaviour is an
interleaving of these. `pc` is the position of the daemon's main goroutine between
two steps that a crash, the renewal goroutine, the game server or the control
plane can separate:

| `pc` | the daemon is about to |
|---|---|
| `reconcile` | run `Executor.Reconcile` after a (re)start |
| `next` | ask for a command |
| `execute` | run `Executor.Execute` (again, after a stopped report) |
| `setStarting`, `dockerStart`, `waitNew`, `waitOld` | record the phase, call `Runtime.Start`, wait for the health of a container it created / found |
| `setStopped`, `publish`, `syncDone` | record the stop, publish the sealed workspace, commit the sync |
| `decide` | read `leaseLost` after `Execute` and choose the report |
| `reportStopped`, `markReported`, `reportStarted`, `reportSynced`, `release`, `checkLease`, `ack`, `clearLease` | take that step of `Daemon.Process` |

`mem` and `disk` are the two copies of `commands.json`; `Persist` changes both, or
only memory when the write fails, exactly as `FileStore.persist` leaves it.
`container`, `ws` and `blob` are Docker's container, the local directory and the
published manifests of each service. `issued`, `revOf`, `acked`, `started`,
`stopped`, `synced` and `rev` belong to the control plane. `saved` and `healthy`
are history variables.

Abstractions:

* Game progress is the set of assignments whose play session a workspace or a
  revision contains. That is all the progress properties need to tell apart.
* A command is identified by kind, service and assignment, and is well formed;
  refusals of malformed commands are not modelled.
* A request repeated by `d.retry` is one action that may leave `pc` where it is:
  accepted, response lost. A rejected credential ends the retries
  (`CredentialRejected`); shutdown is `Crash`.
* Every Docker call is atomic, except that the health wait is a state of its own.
  A crash inside a workspace swap is the second outcome of `RestoreFail`.
* `Sync` publishes the workspace as it is at the time of publication. The code
  archives it earlier and reuses the archive; the two agree as long as nothing
  writes to the sealed directory, which is `SealOnlyWhenStopped`. That the archive
  carries the directory is `PublishedRestores` of `WorkspaceManager`.
* A crash is the death of the process. Loss of unsynced file-system buffers is
  not modelled.
* Leases in `commands.json` are never read back, so only their writes appear.

The control plane is external. It numbers assignments, withdraws a start by
issuing the stop, carries the current revision in each command, and (unless
`Overlap`) issues the next assignment of a service only when the last one is over.

### WorkspaceManager

The inside of `Restore`, `Sync` and `Release` for one service. Assignment `a`
restores revision `a - 1`, a server plays, and revision `a` is published. `phase`
is where the executor is with the assignment; `pc` is the next step of the call in
progress:

| `pc` | the manager is about to |
|---|---|
| `fetch`, `seal`, `move`, `activate`, `quota`, `drop`, `record`, `world`, `prepare` | download and extract, seal what is replaced, do the two renames of the swap, apply the quota, remove the backup, record the manifest, extract the initial world, hand over (the order of `drop` and `quota` depends on the branch, as in the code) |
| `open`, `load`, `draft`, `upload`, `publish`, `persist`, `clean` | create a missing directory and seal it, look for the draft of an earlier attempt, build one, upload its archives, publish the manifest, record it, remove the draft |
| `remove`, `forget` | remove the directory, remove the recorded manifest |

`memory` and `state` are the two copies of the recorded manifest, `staging` is the
draft of the current sync, `blobs` and `published` are the object store. A
directory or archive is a function from paths to versions of a file; a manifest is
a content layer, at most one config layer and world layers, as `classify` forms
them, and `Reuse` is `buildManifest`'s reuse of the previous revision's blobs. Each
step may fail (`RestoreFails`, `SyncFails`, `ReleaseFails`, with what the failed
step leaves: part of a removed tree, an object whose PUT was not answered, memory
changed and file not), and the agent may die at any time (`Crash`).

What no retry can change is a *refusal*, a step to position `refused`:
a directory with an entry that is no regular file or has a bad name (`Irregular`),
an archive over `MaxArchive` bytes (4 GiB in the code), a manifest with more than
`MaxBlobs` descriptors or `MaxPaths` paths or over `Limit`, and one whose JSON is over
`MaxManifest` (1 MiB). The last is measured in the paths a manifest lists, which is
what makes it long. `Session(f)` is what a server may make of a directory `f`.

Grants, hashes, archive formats and batch sizes are abstracted. An archive is as large
as the files in it, so compressed and logical sizes are one number, and a world group
fits one archive: the code's splitting of larger ones is left out.
`WorkspaceAssumption` says what the names of the files give the code: a path is
content, config or of one world group, compiler layers are distinct and without
worlds, a seed is a world, and layers and seed have regular entries only.

### CompilerQueue, CompilerWorker, JobLifecycle

`CompilerQueue` gives the files of `FilesystemCompilerJobQueue` and what each
operation writes; `nextAttemptAt` is the backoff still to wait. `CompilerWorker`
adds who calls them: intake (`HandleHttp`, `Consume`), `Start` and `Stop` of the
service, and, for each run loop, an attempt whose `pc` is the next step of
`processQueued` and `CompilerWorker.run`: `Claim`, `GetGrants`, `Build`,
`PrepareUpload`, `UploadExact`, `ReconcileExactUpload`, `Publish` or `PostFailed`,
and the two writes of `finish` (`ArchiveJob`, `RemovePending`) or `Requeue`.
`bound`, `told` and `store` are what control plane and object store hold; `late`
are the requests the client gave up on that may still arrive. A request that gives the
id of a known job to another one is answered 409 and changes nothing. A callback about
an archive in `Bulky`, whose paths do not fit the limit on callbacks, is never sent
(`callback_payload_too_large`). `finish` meets a state conflict when the record is not
running. A build is one step with any outcome; `RuntimeBuild` opens it. A crash, a stop, a failed
write and a lost or late request count against `MaxFaults`.

`JobLifecycle` is the promise: a job is accepted once, retired only after the
control plane has heard a verdict, and never forgotten or taken back.
`CompilerWorker` implements it (`ImplementsLifecycle`): a job is new without a
file, accepted with one in `pending/`, retired with one in `archive/`.

### ReplayStore

`FilesystemReplayStore.consume`, await by await, for any number of concurrent
calls, of one process or of replicas on one directory: list, scan for expired
entries and unlink them, check the capacity again, create, write, sync, and the
error path that removes the file. A call works with the clock value it started
with. Calls may die between any two steps. Signatures are not modelled: a nonce
belongs to one authentic request.

### ToolchainCatalog, JreRoots, Bundle, Packaging, RuntimeBuild, BuildHost

* `ToolchainCatalog`: the generator's downloads in order, each answered, retried or
  refused; the lock it writes (in place, so a death leaves it torn), the
  generator's own validation and the parser of the service. What filtering and
  sorting return is stated by positions and ranks, in `Lists`, for
  `WorkspaceManager` too.
* `JreRoots`: `materialize_verified_jre.mjs` for any number of concurrent runs, each
  filling a partial directory and renaming it, and the registry's verification. A link
  resolves along any chain of links to an entry of the root; a dangling or cyclic one
  is refused. Nothing is synced, so a power loss may damage a root.
* `Bundle`: `validateBundle` over the records of the archive, the manifest and the
  declarations. The frozen manifest may leave the Java runtime open. `Packaging`: the path and size rules, tar padding and path split,
  zstd framing, and the reader that checks the package before it is uploaded.
* `RuntimeBuild`: `ReviewedRuntimeBuilder.build` and the sandbox, one step per
  await: toolchain, Java root, cached or fetched artifacts, installer, collection,
  merge, mods, generated files, package. Downloads and installer have timers.
* `BuildHost` composes the last five: the lock made by the generator is the one the
  service parses, the root made by the materializers is the one it verifies and the
  installer runs on. The service dies and starts, and the host loses power. The mount
  of the root is made read-only, or writable again, only while the service is down
  (`Remount`): an assumption about the deployment, since the service looks at the mount
  when it resolves a runtime and not again.

### Modules named MC... and ...Proofs

`MC` modules give constants for TLC. The proof modules state and prove theorems
about the modules they are named after: `NodeAgentProofs` (types, shapes of steps,
the command store, order of assignments) and on it `NodeAgentProgressProofs`
(containers, sessions, the current revision); `WorkspaceManagerProofs`;
`CompilerWorkerProofs`; `ReplayStoreProofs`; `RuntimeBuildProofs` (Java roots, and
one build by itself) and on it `BuildHostProofs`; `ListProofs` has what the operators
of `Lists` return. See *Proofs*.

## Runs

| Run | Instance | Shows |
|---|---|---|
| `agent_faults` | failing writes, lapsing leases | the ten safety properties of `NodeAgent` below |
| `agent_overlap` | overlapping assignments, failing ignored removals; sessions cut off by `NoSessions` | `AckedIsDurable` also with refused, mismatched and foreign assignments |
| `agent_live` | fair; renewals fail but leases do not lapse | `CommandsAcknowledged`, `LeaseLossEndsProcess` |
| `agent_seal` | as `agent_faults`, with failing ignored removals | `SealOnlyWhenStopped` is violated |
| `agent_health` | as `agent_faults` | `StartedOnlyIfHealthy` is violated |
| `agent_lease` | as `agent_live`, one assignment, lapsing leases | `LeaseLossEndsProcess` is violated |
| `agent_stop` | as `agent_live` | `StopsAcknowledged` is violated |
| `workspace` | fair; 2 assignments, 5 paths, 5 versions, 4 compiler layers, 6 kinds of session, limits of 5 bytes, 3 bytes an archive, 4 paths and 3 descriptors | `PublishedRestores`, `RestoredIsWhole`, `CommandsComplete` |
| `compiler_jobs` | fair; 1 loop, 2 jobs, 3 archives, 2 envelopes, 2 deliveries, 2 faults | seven properties of `CompilerWorker` |
| `compiler_verdict` | 1 loop, 1 job, 1 fault | `NoContradictoryFailure` is violated |
| `replay_store` | 3 calls, 2 nonces, capacity 1, 3 instants | three properties of `ReplayStore` |
| `build_host` | fair; 2 candidates, 8 upstreams, 2 materializers, 7 resolutions, 1 build of some 200 inputs, 5 installer outputs | nine properties from lock to archive |

Bounds, and why they are enough:

* *Agent.* One service and two assignments (one in `agent_lease`): a second
  assignment meets everything a first one can leave behind (entry, container,
  directory, revision), and services interact only through the sequential daemon
  and the shared file. No run combines all faults: the overlapping assignments are
  checked without failing writes, lapsing leases and play sessions, which would
  multiply its 1.4 million states. Crashes, failed renewals, failed transfers and
  Docker calls, lost responses and rejected credentials are possible in every run.
* *Workspace.* The second assignment restores what the first published, under the
  same layer, another one or none, and deduplicates against it. The six order
  pairs cover these cases, with the layer named by the stop or not and with a seed
  or not; one of them names a layer whose files are those a session has left, one a
  layer too large for an archive. A session changes config, worlds or files of the
  layer, leaves a file that is large or too large, or leaves a symlink, and each limit
  is low enough to be met. Faults are not counted. The
  two safety properties are also proved, for any files, layers, sessions and orders.
* *Compiler jobs.* Two faults allow a fault during the recovery from another. Two
  jobs share the queue, two archives make a second build differ from the first, the
  third is too long for a callback, one envelope expires as soon as it is issued. Delays are cut at `AttemptCap`, which
  `CapIsFaithful` ties to the ceiling. One loop keeps the liveness check small;
  the inductive invariant of the proofs was also checked with two loops (2.1
  million states), and the safety theorems hold for any number.
* *Replay store.* Three calls are one more than a race needs; the second nonce is
  signed by a clock that runs ahead. Symmetric in the calls.
* *Build host.* Inputs are honest bundles, all small disagreements of records,
  manifest, declarations and frozen mods, and stale compatibility in each of three
  places; path lengths in characters and bytes straddle the limits. Two
  materializers race for one root.

### Agent

* `AckedIsDurable`: an acknowledged result is the one a restarted agent reads.
* `AckedStopIsSynced`, `HeadIsPublished`: a stop is acknowledged only after its
  revision is published and current; the control plane never points to a revision
  without a manifest.
* `ProgressKept`, `HeadCarriesProgress`: the progress of a started assignment is in
  the local workspace or in a published revision, and finally in the current one.
  The second holds as long as every synced assignment was started: a stop of an
  assignment that never reached the node publishes an *empty* directory as the next
  revision (`executor.go:243`, `workspace.go:426`; the test
  `TestStopAndSyncCompletesWhenStartNeverReachedTheNode` wants the sync).
* `BillingClosedBeforeSync`: a sync starts only behind an accepted stopped report.
* `SealOnlyWhenStopped`, `RunningIsOwned`: which containers may run, and when.
* `ReplayReturnsOriginal`: a recorded result never changes on disk. With
  overlapping assignments an uncoded `failed` result can (`executor.go:101`).
* `CommandsAcknowledged`: under fairness every command is acknowledged, unless a
  stop withdraws it or it is stranded for ever as in `agent_stop`.
* `LeaseLossEndsProcess`: under fairness a `Process` that lost its lease returns,
  provided the control plane still honours the lease.

### Workspace

* `PublishedRestores`: a published revision has all its objects, passes the
  validation of the next restore unless it is over one of its limits, names the layer the server
  ran on, and unpacks to what the server left, however often the sync failed, was
  cut and resumed.
* `RestoredIsWhole`: when `Restore` returns, the directory is exactly the assigned
  revision under the assigned layer, whatever earlier attempts left in its place.
  Under a new layer only the worlds are kept (`workspace.go:314`), but layers are
  compared by digest and size (`sameArchive`, `workspace.go:1635`): config files stay
  if the server happened to leave exactly the files of the new layer.
* `CommandsComplete`: once faults cease every call completes. Nothing an earlier
  attempt recorded, uploaded or published makes a retry fail, but for the states
  `Obstructed` names:
  * *A directory that cannot be archived.* A symlink, another irregular entry or a bad
    name anywhere in it, or more files of one kind than an archive may hold, makes
    every `Sync` of the stop fail (`Undraftable`).
  * *A layer or revision over a limit.* A start whose layer, revision and seed exceed
    the quota or an archive limit is refused each time (`TooLarge`).
  * *A draft without its archives.* A crash or an error inside the removal of a
    finished staging directory (`workspace.go:549`) may delete archives and leave
    `sync.json`. Every later `Sync` of that stop is then refused ("sync descriptor
    archive is missing or changed"), although the comment on `syncDescriptor` says it
    lets a restarted agent resume the draft. The revision is published by then. As an
    exception of `CommandsComplete` this hazard is covered by no property.
  * *A revision that does not fit.* `buildManifest` does not validate. Config files
    that overlay those of the layer count twice towards the limit, and a world may
    have more groups than a manifest may have descriptors; such a revision is
    published, and refused by each later restore and by a resumed sync.
* `restoreInitialWorld` runs after the workspace was replaced. A start that is cut
  inside it and followed by a stop publishes a part of the seed as the next
  revision; README.md says archives are verified before the active workspace is
  replaced. `PublishedRestores` speaks of the directory as the stop found it.

### Compiler service

* `AckedJobIsKept`: a job answered 202 is in `pending/` or `archive/` ever after.
* `AttemptOwnsRecord`: two loops never work on one job, and an attempt's record
  says running. Exception: a `finish` that threw although its write took effect.
* `BoundBeforeStored`, `PublishedIsStored`: no object is stored before the control
  plane bound its digest, late requests included; when it has heard *published*, the
  store holds the bound archive, provided the job's builds agree.
* `ImplementsLifecycle`: see `JobLifecycle`. `CompilerTypeOK` includes the ceiling
  of the backoff.
* `AcceptedJobFinishes`: under fairness each accepted job is archived, unless
  `Obstructed`: the start of the service failed (`start()` keeps its rejected
  promise), both writes of a finish failed, the envelope expires no later than it
  was issued, another archive than the bound one holds its key, or the archive lists
  more paths than a callback may carry. In these states the property promises nothing
  of the job itself; it still shows that one such job does not keep the others from
  finishing, except for the failed start, which stops them all.
* `AcceptedIsRemembered`, `AcceptedOnce`, `BoundedOvershoot`: no concurrent cleanup
  forgets a nonce before it expires; a second acceptance needs a call that spans the
  expiry, or a file-system error on that entry; concurrent calls exceed the
  capacity by less than their number.

### Build

* `LockIsReviewable`: a lock the generator wrote whole is one the service accepts,
  unless an installer names a coordinate under two urls or reuses that of the mappings,
  the server or the installer itself; the property is silent about such a lock.
* `MaterializedRootVerifies`, `RootNeverReplaced`, `InstallerRunsVerifiedRoot`: a
  visible root is whole and is never replaced, and an installer only runs on the
  root that was reviewed, on a read-only mount.
* `AcceptedBundleIsExact`: checks by count and by membership add up to equality.
* `OutputIsExactUnion`: no source of files hides one of another source. Paths of mods
  are compared with case folded, those of the installer and the bundle exactly, as the
  code compares them.
* `ArchiveRoundTrips`, `SizeBudgetSuffices`: the package reads back as the files
  built, and limits on files imply those on the package.
* `BuildEnds`: under fairness a build ends, whatever does not answer.

### Disagreements the runs show

* **Started without health check** (`agent_health`). README: "After a healthy start
  it reports only `endpoint: {host, port}`". After a crash in the health wait
  `Reconcile` promotes `starting` to `running` unseen.
* **Sealed under a running server** (`agent_seal`). The quota helper relies on
  "Docker is stopped before sealing". An ignored failure of `ContainerRemove`
  followed by a stop of the same or a later assignment breaks it.
* **Lost lease does not end the command** (`agent_lease`). `d.retry` repeats a
  report refused for its stale lease without looking at `leaseLost`. (The run
  assumes the refusal is not a 401 or 403, which ends the retries.)
* **A stop that can never complete** (`agent_stop`). The entry of a new assignment
  is written before the inactive container of the previous one is removed. A stop
  that arrives in between meets the old label and fails at every delivery.
* **Failed after published** (`compiler_verdict`). `compiler/README.md`: "the worker
  never sends a contradictory failed callback after publication has begun".
  `publicationStarted` is local to an attempt: when the *published* callback arrived
  and its response was lost, the next attempt may fail and say so.

Met while modelling, without a run of its own: `materialize_verified_jre.mjs:49`
serves a Java runtime only if exactly one toolchain of the catalogue names it. The
checked-in lock has two with `java-runtime-delta-21`, so the script refuses it
(`SelectJre`, position `unsupported`), whereas `compiler/README.md` describes "a
verified run of the current locks".

### Fairness

* *Agent.* The daemon keeps taking steps that are not faults
  (`WF_vars(Progress /\ ~Fault)`; the goroutine runs as long as it has something to
  do), and faults, that is crashes, failed renewals, failing transfers and Docker
  calls, rejected credentials, eventually stop (`<>[][~Fault]_vars`). Every loop of
  the code that must end is a retry without limit (`d.retry`, redelivery of an
  unacknowledged command), so this is what the code itself relies on. Nothing is
  assumed of game servers or of the control plane's scheduling, except that a
  deliverable command is delivered to a daemon that asks. An error caused by the
  agent's own cancellation of a lost lease is not a fault.
* *Workspace.* The same: weak fairness of the steps and calls of `Restore`, `Sync`
  and `Release`, and an end of faults. A call that refuses what it finds is not a
  fault but a step to position `refused`, and is called again.
* *Compiler jobs.* Weak fairness of the service's start (a supervisor), of the end
  of a stop, of the passing of a backoff, and of each loop's steps without fault.
  Faults are at most `MaxFaults`, so they end by themselves.
* *Build host.* Weak fairness of a build's own steps, timers included. Nothing is
  assumed of servers, the installer, the generator or the materializers.

## Proofs

TLAPS proves, for every value of the constants that satisfies the named
assumptions:

| Theorem | Statement |
|---|---|
| `TypeCorrect` | `Spec => []TypeOK` of `NodeAgent` |
| `AcknowledgedResultsAreDurable` | `Spec => []AckedIsDurable` |
| `BillingIsClosedBeforeSync` | `Spec => []BillingClosedBeforeSync` |
| `SealedWorkspaceIsQuiet` | `~RemoveMayFail` implies `Spec => []SealOnlyWhenStopped` |
| `WaitingDaemonOwnsContainers` | `~RemoveMayFail` implies `Spec => []RunningIsOwned` |
| `NextStartFindsItsRevision` | `Spec => []HeadIsPublished` |
| `StopIsSyncedBeforeAck` | `~Overlap` implies `Spec => []AckedStopIsSynced` |
| `StoredResultsAreFinal` | `~Overlap` implies `Spec => ReplayReturnsOriginal` |
| `ProgressSurvives` | `~Overlap` and `~RemoveMayFail` imply `Spec => []ProgressKept` |
| `NextStartSeesProgress` | `~Overlap` and `~RemoveMayFail` imply `Spec => []HeadCarriesProgress` |
| `WorkspaceInvariant` | `Spec => []Inv` of `WorkspaceManager` |
| `PublishedRevisionsRestore` | `Spec => []PublishedRestores` |
| `RestoreIsWhole` | `Spec => RestoredIsWhole` |
| `CompilerTypeCorrect` | `Spec => []CompilerTypeOK` of `CompilerWorker` |
| `AckedJobsAreKept` | `Spec => []AckedJobIsKept` |
| `AttemptsOwnTheirRecords` | `Spec => []AttemptOwnsRecord` |
| `StoredJobsAreBound` | `Spec => []BoundBeforeStored` |
| `PublishedJobsAreStored` | `Spec => []PublishedIsStored` |
| `ServiceImplementsLifecycle` | `Spec => ImplementsLifecycle`, the refinement |
| `AcceptedStaysRemembered` | `Spec => []AcceptedIsRemembered` of `ReplayStore` |
| `NonceIsAcceptedOnce` | `Spec => AcceptedOnce` |
| `OvershootIsBounded` | `Spec => []BoundedOvershoot` |
| `VisibleRootVerifies` | `[]MaterializedRootVerifies`, for `JreRoots` alone under any catalogues |
| `VisibleRootIsNeverReplaced` | `RootNeverReplaced`, likewise |
| `HostRootVerifies`, `HostRootIsNeverReplaced` | the same of `BuildHost` |
| `InstallersRunOnReviewedRoot` | `Spec => []InstallerRunsVerifiedRoot` of `BuildHost` |
| `AcceptedBundlesAreExact` | `Spec => []AcceptedBundleIsExact` |
| `PackageIsExactUnion` | `Spec => []OutputIsExactUnion` |
| `HandedOverArchiveReadsBack` | `Spec => []ArchiveRoundTrips` |
| `PackageLimitsAreNeverMet` | `Spec => []SizeBudgetSuffices` |
| `WrittenLockIsReviewable` | `Spec => []LockIsReviewable` |

The assumptions only say what the constants are: `ConstantsAssumption`,
`WorkspaceAssumption` (see above), `QueueAssumption`, `CapIsFaithful`,
`WorkerAssumption`, `ReplayAssumption` (finitely many calls and nonces),
`JreAssumption`, `CatalogAssumption` (candidates are distinct, libraries are a list),
`LimitsAssumption` (the package limits leave room for headers, padding and frames, as
the values of `production-limits.mjs` do), and `InputAssumption` for the inputs of a
build: sizes are natural numbers, arrays are sequences, a mod's path is made from its file name as
`bundle.mjs:163` makes it, path strings are ordered, folding case moves no path of
`mods/` to `.xmcl/`, and an output directory is finite.

Some theorems of the agent have conditions on its environment, and a run or the code
shows why:

* `~RemoveMayFail`: the removals whose errors `Runtime.Start` ignores succeed.
  `agent_seal` shows that `SealOnlyWhenStopped` is false without it; a server that
  still runs can also write after its workspace was published.
* `~Overlap`: the control plane issues an assignment of a service only when the
  previous one is over (`Over` of `NodeAgent`). With overlap a refused stop is
  acknowledged without a sync, an uncoded failure is executed again, and a start may
  replace an unsynced workspace (see `executor.go:210`).

Inductive invariants, and why the properties need them:

* `DurableInv` strengthens `AckedIsDurable`. Outside the wait for work memory and
  file agree (`InSync`), because every failed write makes `Process` return; after
  `Execute` the stored result is the one being reported (`ResultStored`); a command
  that is still executing is not acknowledged (`NotYetAcked`), so that `Commit`
  never overwrites an acknowledged result; and acknowledged results are in both
  copies (`AckedInStore`), because a delivery writes memory to the file.
* `BillingInv` strengthens `BillingClosedBeforeSync`: an entry marked reported, in
  memory or on disk, belongs to an accepted report.
* `OwnedInv` strengthens both container properties. After reconciliation a running
  container is owned by the entry in memory, and one that is still starting belongs
  to the start in progress (`RunningOwned`); an entry on disk that matches a running
  container is not one of a stopped assignment, which `Reconcile` would pass over
  (`DurablyOwned`); and each position of the executor knows the phase of the entry
  (`AtPosition`). It needs `InSync` for the entry a new container is started under.
* `PublishedInv` strengthens `HeadIsPublished`: results, in memory or on disk, are
  those of issued commands, and a sync result is one whose manifest is in the object
  store, also while the report of it is repeated.
* `OrderInv` is what one assignment at a time means inside the agent. An entry of
  the store is that of the latest assignment of its service, before its sync
  (`EntryIsLatest`); no command is refused, so no result is one that a redelivery
  would replace (`ResultsInOrder`); memory has every result the file has
  (`MemAhead`); `AtCommand` is what `Process` knows of its command at each position;
  and a synced report is one of a stored sync (`SyncedStored`).
  `StoredResultsAreFinal` follows because every `Commit` then fills an empty slot.
* `KeptInv` strengthens `ProgressKept` and rests on `OrderInv` and `OwnedInv`. A
  session exists only of an assignment the store knows (`SavedBegun`), and only an
  assignment without a stop result runs (`RunningBegun`); as long as the agent
  *holds* an assignment, by an entry in memory or on disk or by a started result,
  its session is in the workspace or in the object store (`HeldKept`), and once its
  stop is stored, in the object store (`SyncedKept`). The entry on disk counts,
  since a crash returns to it.
* `HeadInv` strengthens `HeadCarriesProgress` and rests on `KeptInv`. A revision is
  written once (`OneManifest`), the head is what the latest assignment restored and
  after its sync what it published (`HeadFollows`), the workspace of a held
  assignment contains the revision it was restored from (`HeldContinues`), so each
  synced revision contains its predecessor (`SyncedExtends`), and the head contains
  them all (`HeadCarries`).
* `Inv` of `WorkspaceManagerProofs`. What a retry finds, in memory, on disk, in the
  draft or in the object store, was left by an earlier attempt, so each of the four
  places needs its own statement. A remembered manifest is the restored one or, after
  the stop, one of what the server left (`KnownInv`), and so is a draft, which only
  exists during a stop (`SyncInv`); while the server has nothing to sync the directory
  is what was restored, up to the part of a seed (`RestoreInv`), and during a stop it
  is what the server left. A published manifest packs what was left, under keys of
  revisions up to its own, and its objects are stored (`Publications`); the objects a
  sync has not uploaded yet are on its list. That keys are of *earlier* revisions is
  what makes reuse sound: an archive of a new revision never has the key of one it
  reuses. The two data lemmas are that a manifest which packs a directory is valid
  unless oversized (`PacksValidates`) and unpacks to that directory under its layer
  (`ExtractedIsKept`); `Extracted` is therefore stated path by path.
* `Inv` of `CompilerWorkerProofs`. Everything that still refers to a job, loops and
  late requests included, refers to one with a file (`ReferencedIsKept`), else a
  late callback would be heard of a job that is new again; `finish` archives only
  behind a verdict and removes only behind the archive (`FinishOrder`); `Ownership`
  says what a failed finish leaves; and archive, binding and object agree in an
  attempt (`AttemptIsBound`), on the wire (`LateIsBound`) and outside
  (`OutsideIsBound`), since a request carries what its attempt knew when it was
  sent. The refinement is one step per action: a step of the abstract lifecycle or
  a stutter.
* `ReplayInv`. A call's clock value is not ahead of the clock and its victim had
  expired by it (`CallIsHonest`); at most one call fills the entry of a live nonce,
  and none after an acceptance (`FilledOnce`). The bound on the overshoot needs only
  the types: the calls past the check are counted together with the entries.
* `JreInv`. How far a partial directory is filled is fixed by the position of its
  run (`Staged`), so what is renamed in is whole (`RootIsWhole`).
* `HostInv` joins `JreInv` with `Sound` of every build and with what the parts know
  of each other: the lock is written once, at the end (`LockWritten`), a service
  that is up has found it, its runtime and an undamaged root (`ServiceReady`), and
  only such a service builds, under a reviewed toolchain (`BuildsReviewed`). `Sound`
  says what a build has made by the place it is at. For the merge it counts: the
  files are as many as the three sources have together, each source is in them
  unchanged, and mods are apart under folding (`UnionOf`), which a collision at any
  step would break. That the package reads back uses the split of a path at a
  slash. That a bundle is exact uses that ascending paths are distinct (a least
  later entry that does not ascend would not follow its predecessor) and that of
  two listings of equal length without repetition, one inside the other, neither
  has more.
* `BudgetInv` rests on `HostInv`: no build has failed at the limits of the package,
  and the files it has so far have sizes. At the package the checks on the files have
  just passed; `SumsCompare` bounds the padded sum by the sum of the sizes and a
  constant for each file, and `LimitsAssumption` does the rest. A sum is a fold over a
  set, and what it adds up to is shown by a smallest counterexample: a set of
  naturals that is not empty has a least member, which takes the place of the
  induction theorems.
* `LockIsGenerated`: a lock that is written is what the generator made of the upstream
  and passed its own validation. That the service accepts it takes no further state,
  but what the generator's lists contain: sorting permutes (`SortPermutes`), and the
  libraries that are left after the deduplication differ from each other and from the
  installer, its server and its mappings (`LibrariesApart`, `DependenciesApart`,
  `ArtifactsApart`).

Each invariant was checked with TLC before it was proved. Lemmas are grouped by the
shape of a step, so that the case of an action is one citation. A `USE` at the top of
each proof module lets Zenon try a leaf before the SMT solver, which is much the
faster order here.

Left to TLC:

* liveness (`CommandsAcknowledged`, `LeaseLossEndsProcess`, `AcceptedJobFinishes`,
  `BuildEnds`, `CommandsComplete`), which is out of the prover's reach. Every
  invariant and action property of a passing run has a theorem; for the agent some
  have the conditions above.
* `StartedOnlyIfHealthy`, `StopsAcknowledged` and `NoContradictoryFailure`, which are
  violated, and `SealOnlyWhenStopped` where removals fail.

## Plan

1. `NodeCredential`: registration and rotation of the credential through crashes.
2. `BootstrapRunner`: idempotent creation, resume, approval, finalization.
3. An abstract specification of one assignment that `NodeAgent` implements.

## Not modelled

* The control-plane client's registration, credential rotation and credential file,
  the heartbeat, and the LightNode bootstrap runner: state machines of their own,
  independent of the ones here (see *Plan*).
* Configuration, telemetry, metrics, container hardening options, runtime descriptor
  and image validation, grant URLs, signatures and key loading, archive and ZIP byte
  layouts, Maven and profile parsing, deployment scripts and the runtime image:
  sequential validation, data processing or input and output without shared state.
* The world-seed downloader, which the service never calls.
* The per-service file lock, which excludes a second agent on the node; one agent is
  modelled.
