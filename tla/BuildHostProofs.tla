-------------------------- MODULE BuildHostProofs ---------------------------
(***************************************************************************)
(* The build host, for any catalogue and resolution and any number of      *)
(* materializers, power losses and builds.                                 *)
(*                                                                         *)
(* HostInv, the inductive invariant, joins the invariants of the roots and *)
(* of each build with what the lock, the service and the builds know of    *)
(* each other.                                                             *)
(***************************************************************************)
EXTENDS BuildHost, RuntimeBuildProofs, ListProofs

\* A leaf is tried with Zenon, then with the SMT solver.
USE ZenonT(5), SMTT(15)

\* The lock is written once, at the end of the generation.
LockWritten ==
    /\ gen = [pc |-> gen.pc, at |-> gen.at, attempt |-> gen.attempt]
    /\ lock.state # "none" => gen.pc = "done"

\* A service that is up found a catalogue, its one runtime and a good root.
ServiceReady == service = "up" =>
    /\ lock.state # "none" /\ \A t \in Reviewed(lock) : t.jre.id = JreId
    /\ readOnlyMount /\ root.there /\ root.damaged = {}

\* Only a service that is up builds, and with reviewed toolchains.
BuildsReviewed == \A b \in Builder :
    /\ build[b].pc # "idle" => service = "up"
    /\ build[b].pc \notin {"idle", "failed", "toolchain"} => build[b].toolchain \in Reviewed(lock)

\* The inductive invariant of the build host.
HostInv == JreInv /\ BuildsSound /\ LockWritten /\ ServiceReady /\ BuildsReviewed

\* One step of a build.
LEMMA OneBuildStep ==
  ASSUME BuildsSound, NEW b \in Builder, BuildStep(b)
  PROVE  /\ Steps(b) /\ Sound(build'[b])
         /\ KeepsToolchain(b) \/ build'[b].toolchain \in Reviewed(lock)
         /\ service = "up" /\ UNCHANGED <<catalogVars, jreVars, service, readOnlyMount>>
<1>1. service = "up" /\ UNCHANGED <<catalogVars, jreVars, service, readOnlyMount>>
  BY DEF BuildStep, Own
<1>2. CASE LocalStep(b)
  <2>1. CASE ResolveToolchain(b, Reviewed(lock), lock.revision) BY <1>1, <2>1, ToolchainStep
  <2>2. CASE ResolveVerifiedJre(b, RootUsable) \/ ReadCache(b) \/ FetchTimeout(b)
    BY <1>1, <2>2, ArtifactStep
  <2>3. CASE MakeWorkspace(b) \/ InstallerTimeout(b) BY <1>1, <2>3, InstallStep
  <2>4. CASE CollectFiles(b) \/ RemoveWorkspace(b) BY <1>1, <2>4, CollectStep, RemoveStep
  <2>5. CASE Merge(b) \/ AddRemoteMod(b) \/ FetchModTimeout(b)
    BY <1>1, <2>5, MergeStep, ModStep, FetchModStep
  <2>6. CASE AddGeneratedFiles(b) \/ Package(b) \/ VerifyContent(b)
    BY <1>1, <2>6, GeneratedStep, PackageStep, VerifyStep
  <2> QED BY <1>1, <1>2, <2>1, <2>2, <2>3, <2>4, <2>5, <2>6 DEF LocalStep
<1>3. CASE \E input \in Input : Begin(b, input) BY <1>1, <1>3, BeginStep
<1>4. CASE Answered(b) BY <1>1, <1>4, ArtifactStep, InstallStep, FetchModStep DEF Answered
<1>5. CASE Return(b) BY <1>1, <1>5, ReturnStep
<1> QED BY <1>2, <1>3, <1>4, <1>5 DEF BuildStep, Own

\* HostInv holds when nothing was started.
LEMMA HostInitInv == ASSUME Init PROVE HostInv
<1>1. JreInv BY JreInitInv DEF Init
<1>2. \A b \in Builder : build[b] = Idle BY DEF Init, BuildInit
<1>3. BuildsSound BY <1>2, IdleSound DEF Init, BuildInit, BuildsSound
<1>4. LockWritten
  <2>1. lock.state = "none" BY DEF Init, CatalogInit, NoLock
  <2> QED BY <2>1 DEF LockWritten, Init, CatalogInit
<1>5. ServiceReady BY DEF Init, ServiceReady
<1>6. BuildsReviewed BY <1>2, IdleSound DEF BuildsReviewed
<1> QED BY <1>1, <1>3, <1>4, <1>5, <1>6 DEF HostInv

\* JreInv needs no more than its own variables.
LEMMA RootFrame == ASSUME JreInv, UNCHANGED jreVars PROVE JreInv'
<1>1. [JreNext({})]_jreVars OBVIOUS
<1> QED BY <1>1, JreStep

\* BuildsSound needs no more than the builds.
LEMMA BuildFrame == ASSUME BuildsSound, UNCHANGED build PROVE BuildsSound'
BY DEF BuildsSound

\* The builds of a service that died are gone.
LEMMA DeadBuilds ==
  ASSUME ServiceDies
  PROVE  BuildsSound' /\ \A b \in Builder : build'[b].pc = "idle"
<1>1. build' = [b \in Builder |-> Idle] BY DEF ServiceDies
<1> QED BY <1>1, IdleSound DEF BuildsSound

\* While there is no lock, no service is up and nothing is built.
LEMMA NothingWithoutLock ==
  ASSUME HostInv, lock.state = "none"
  PROVE  service # "up" /\ \A b \in Builder : build[b].pc = "idle"
BY DEF HostInv, ServiceReady, BuildsReviewed

\* The generator writes the lock at its end.
LEMMA GenerateStep == ASSUME HostInv, Generate PROVE HostInv'
<1>1. UNCHANGED <<jreVars, buildVars, service, readOnlyMount>> BY DEF Generate
<1>2. JreInv' /\ BuildsSound'
  BY <1>1, RootFrame, BuildFrame DEF HostInv, buildVars
<1>3. gen.pc \in {"idle", "fetch", "write"}
  BY DEF Generate, CatalogNext, StartGeneration, Fetched, TransportFails, AnswerRejected,
     WriteLock
<1>4. lock.state = "none" BY <1>3 DEF HostInv, LockWritten
<1>5. service # "up" /\ \A b \in Builder : build[b].pc = "idle" BY <1>4, NothingWithoutLock
<1>6. ServiceReady' /\ BuildsReviewed'
  BY <1>1, <1>5 DEF ServiceReady, BuildsReviewed, buildVars
<1>7. LockWritten'
  <2>1. gen = [pc |-> gen.pc, at |-> gen.at, attempt |-> gen.attempt] BY DEF HostInv, LockWritten
  <2>2. gen' = [pc |-> gen'.pc, at |-> gen'.at, attempt |-> gen'.attempt]
    BY <2>1 DEF Generate, CatalogNext, StartGeneration, Fetched, TransportFails, AnswerRejected,
       WriteLock
  <2>3. CASE UNCHANGED lock BY <1>4, <2>2, <2>3 DEF LockWritten
  <2>4. CASE gen' = [gen EXCEPT !.pc = "done"] BY <2>1, <2>2, <2>4 DEF LockWritten
  <2>5. UNCHANGED lock \/ gen' = [gen EXCEPT !.pc = "done"]
    BY DEF Generate, CatalogNext, StartGeneration, Fetched, TransportFails, AnswerRejected,
       WriteLock
  <2> QED BY <2>3, <2>4, <2>5
<1> QED BY <1>2, <1>6, <1>7 DEF HostInv

\* A materializer changes no root that is there.
LEMMA MaterializeStep == ASSUME HostInv, Materialize PROVE HostInv'
<1>1. UNCHANGED <<catalogVars, buildVars, service, readOnlyMount>> BY DEF Materialize
<1>2. PICK m \in Materializer :
         (\E agree \in BOOLEAN : SelectJre(m, JreView, agree)) \/ MatStep(m)
  BY DEF Materialize
<1>3. JreInv' BY <1>2, JreStep DEF HostInv, JreNext
<1>4. root.there => root' = root BY <1>2, MaterializersKeepRoot DEF HostInv
<1>5. BuildsSound' /\ LockWritten' /\ BuildsReviewed'
  BY <1>1, BuildFrame DEF HostInv, LockWritten, BuildsReviewed, buildVars, catalogVars
<1>6. ServiceReady' BY <1>1, <1>4 DEF HostInv, ServiceReady, catalogVars
<1> QED BY <1>3, <1>5, <1>6 DEF HostInv

\* A root that verifies has no damage at all.
LEMMA UsableRootIsWhole ==
  ASSUME JreInv, RootUsable
  PROVE  readOnlyMount /\ root.there /\ root.damaged = {}
<1>1. readOnlyMount /\ root.there /\ VerifyRuntimeRoot(root) BY DEF RootUsable, ResolveRoot
<1>2. root.damaged \subseteq Content BY DEF JreInv, JreTypeOK, Root
<1> QED BY <1>1, <1>2 DEF VerifyRuntimeRoot, Content

\* The service starts on a reviewed catalogue and a root that verifies.
LEMMA StartStep == ASSUME HostInv, StartService PROVE HostInv'
<1>1. UNCHANGED <<catalogVars, jreVars, buildVars, readOnlyMount>> BY DEF StartService
<1>2. JreInv' /\ BuildsSound' BY <1>1, RootFrame, BuildFrame DEF HostInv, buildVars
<1>3. LockWritten' BY <1>1 DEF HostInv, LockWritten, catalogVars
<1>4. readOnlyMount /\ root.there /\ root.damaged = {}
  BY UsableRootIsWhole DEF HostInv, StartService
<1>5. lock.state # "none" BY DEF StartService, Reviewed, ParseCatalog
<1>6. \A t \in Reviewed(lock) : t.jre.id = JreId BY DEF StartService
<1>7. ServiceReady' BY <1>1, <1>4, <1>5, <1>6 DEF ServiceReady, catalogVars, jreVars
<1>8. BuildsReviewed' BY <1>1 DEF HostInv, BuildsReviewed, StartService, buildVars, catalogVars
<1> QED BY <1>2, <1>3, <1>7, <1>8 DEF HostInv

\* A service that goes down, with or without its machine, builds nothing.
LEMMA DownStep ==
  ASSUME HostInv, StopService \/ LosePower
  PROVE  HostInv'
<1>1. service' = "down" /\ UNCHANGED catalogVars /\ ServiceDies BY DEF StopService, LosePower
<1>2. BuildsSound' /\ \A b \in Builder : build'[b].pc = "idle" BY <1>1, DeadBuilds
<1>3. JreInv' BY RootFrame, PowerLossStep DEF HostInv, StopService, LosePower
<1>4. LockWritten' BY <1>1 DEF HostInv, LockWritten, catalogVars
<1>5. ServiceReady' /\ BuildsReviewed' BY <1>1, <1>2 DEF ServiceReady, BuildsReviewed
<1> QED BY <1>2, <1>3, <1>4, <1>5 DEF HostInv

\* The root is mounted otherwise only while no service is up.
LEMMA RemountStep == ASSUME HostInv, Remount PROVE HostInv'
<1>1. service = "down" /\ UNCHANGED <<catalogVars, jreVars, buildVars, service>> BY DEF Remount
<1>2. JreInv' /\ BuildsSound' BY <1>1, RootFrame, BuildFrame DEF HostInv, buildVars
<1>3. LockWritten' /\ BuildsReviewed'
  BY <1>1 DEF HostInv, LockWritten, BuildsReviewed, catalogVars, buildVars
<1>4. ServiceReady' BY <1>1 DEF ServiceReady
<1> QED BY <1>2, <1>3, <1>4 DEF HostInv

\* A build changes nothing but itself.
LEMMA BuildingStep ==
  ASSUME HostInv, NEW b \in Builder, BuildStep(b)
  PROVE  HostInv'
<1>1. /\ Steps(b) /\ Sound(build'[b])
      /\ KeepsToolchain(b) \/ build'[b].toolchain \in Reviewed(lock)
      /\ service = "up" /\ UNCHANGED <<catalogVars, jreVars, service, readOnlyMount>>
  BY OneBuildStep DEF HostInv
<1>2. BuildsSound' BY <1>1 DEF HostInv, BuildsSound, Steps
<1>3. JreInv' BY <1>1, RootFrame DEF HostInv
<1>4. LockWritten' /\ ServiceReady'
  BY <1>1 DEF HostInv, LockWritten, ServiceReady, catalogVars, jreVars
<1>5. BuildsReviewed'
  <2> SUFFICES ASSUME NEW c \in Builder
               PROVE  build'[c].pc \notin {"idle", "failed", "toolchain"}
                         => build'[c].toolchain \in Reviewed(lock)
    BY <1>1 DEF BuildsReviewed, catalogVars
  <2>1. CASE c = b BY <1>1, <2>1 DEF KeepsToolchain, HostInv, BuildsReviewed
  <2>2. CASE c # b BY <1>1, <2>2 DEF Steps, HostInv, BuildsReviewed
  <2> QED BY <2>1, <2>2
<1> QED BY <1>2, <1>3, <1>4, <1>5 DEF HostInv

\* HostInv is preserved by every step.
LEMMA HostStep == ASSUME HostInv, [Next]_hostVars PROVE HostInv'
<1>1. CASE UNCHANGED hostVars
  <2>1. UNCHANGED <<catalogVars, jreVars, buildVars, service, readOnlyMount>> BY <1>1 DEF hostVars
  <2>2. JreInv' /\ BuildsSound' BY <2>1, RootFrame, BuildFrame DEF HostInv, buildVars
  <2>3. LockWritten' /\ ServiceReady' /\ BuildsReviewed'
    BY <2>1 DEF HostInv, LockWritten, ServiceReady, BuildsReviewed, catalogVars, jreVars,
       buildVars
  <2> QED BY <2>2, <2>3 DEF HostInv
<1>2. CASE Next
  BY <1>2, GenerateStep, MaterializeStep, StartStep, DownStep, RemountStep, BuildingStep DEF Next
<1> QED BY <1>1, <1>2

\* HostInv is an invariant of the build host.
THEOREM HostInvariant == Spec => []HostInv
<1>1. Init => HostInv BY HostInitInv
<1>2. HostInv /\ [Next]_hostVars => HostInv' BY HostStep
<1> QED BY <1>1, <1>2, PTL DEF Spec

\* For any catalogue, resolution and number of builds: from the check of the
\* registry to the end of the installer's run the Java root is the reviewed one,
\* whole, undamaged and on a read-only mount, whatever materializers do.
THEOREM InstallersRunOnReviewedRoot == Spec => []InstallerRunsVerifiedRoot
<1>1. HostInv => InstallerRunsVerifiedRoot
  <2> SUFFICES ASSUME HostInv, NEW b \in Builder, build[b].pc \in {"artifact", "fetch", "install"}
               PROVE  /\ readOnlyMount /\ root.there /\ root.damaged = {}
                      /\ resolution \cup {Manifest} \subseteq root.holds
                      /\ build[b].toolchain \in Reviewed(lock)
                      /\ build[b].toolchain.jre.id = JreId
    BY DEF InstallerRunsVerifiedRoot
  <2>1. service = "up" /\ build[b].toolchain \in Reviewed(lock) BY DEF HostInv, BuildsReviewed
  <2>2. /\ readOnlyMount /\ root.there /\ root.damaged = {}
        /\ build[b].toolchain.jre.id = JreId
    BY <2>1 DEF HostInv, ServiceReady
  <2>3. root.holds = resolution \cup {Manifest}
    BY <2>2 DEF HostInv, JreInv, RootIsWhole, Content
  <2> QED BY <2>1, <2>2, <2>3
<1> QED BY <1>1, HostInvariant, PTL

\* On the whole host, with the lock its generator wrote: a root that is there and
\* lost no data passes verifyRuntimeRoot when the service starts and builds.
THEOREM HostRootVerifies == Spec => []MaterializedRootVerifies
<1>1. HostInv => MaterializedRootVerifies BY WholeRootVerifies DEF HostInv
<1> QED BY <1>1, HostInvariant, PTL

\* No step of the host but a power loss changes a root that is there: neither
\* the generator, the service, a build nor a materializer that comes late.
THEOREM HostRootIsNeverReplaced == Spec => RootNeverReplaced
<1>1. HostInv /\ [Next]_hostVars => [root.there /\ ~PowerLoss => UNCHANGED root]_jreVars
  <2> SUFFICES ASSUME HostInv, [Next]_hostVars, root.there, ~PowerLoss
               PROVE  UNCHANGED root
    BY DEF jreVars
  <2>1. CASE Materialize BY <2>1, MaterializersKeepRoot DEF Materialize, HostInv
  <2>2. CASE UNCHANGED jreVars BY <2>2 DEF jreVars
  <2>3. Materialize \/ UNCHANGED jreVars
    BY DEF Next, hostVars, Generate, StartService, StopService, LosePower, Remount,
       BuildStep, Own
  <2> QED BY <2>1, <2>2, <2>3
<1> QED BY <1>1, HostInvariant, PTL DEF Spec, RootNeverReplaced
-----------------------------------------------------------------------------
(* The package and its archive *)

\* For every output, bundle and list of mods: a package is the exact union of its
\* sources, each file with its own bytes, and no file shares the folded path of
\* a mod.
THEOREM PackageIsExactUnion == Spec => []OutputIsExactUnion
<1>1. HostInv => OutputIsExactUnion
  <2> SUFFICES ASSUME HostInv PROVE OutputIsExactUnion OBVIOUS
  <2>1. ASSUME NEW b \in Builder, Done(b)
        PROVE  /\ build[b].input \in Input /\ build[b].output \in InstallerOutput
               /\ AllJoined(build[b].files, build[b].output, build[b].input, build[b].toolchain)
    BY <2>1 DEF HostInv, BuildsSound, Sound, Began, HasOutput, Done, BuildAt
  <2>2. \A b \in Builder : Done(b) => IsExactUnion(build[b].files, build[b].output, build[b].input)
    BY <2>1, ExactUnion
  <2> QED BY <2>2 DEF OutputIsExactUnion, IsExactUnion
<1> QED BY <1>1, HostInvariant, PTL

\* For every output, bundle and list of mods: an archive that is handed over
\* reads back, with a reader that stops at NUL bytes and splits names and
\* prefixes as tar does, as exactly the files that were built.
THEOREM HandedOverArchiveReadsBack == Spec => []ArchiveRoundTrips
<1>1. HostInv => ArchiveRoundTrips
  <2> SUFFICES ASSUME HostInv, NEW b \in Builder, build[b].pc = "done"
               PROVE  CanUnpack(build[b].archive) /\ Unpack(build[b].archive) = build[b].files
    BY DEF ArchiveRoundTrips, Done, BuildAt
  <2> DEFINE r == build[b]
  <2>1. /\ r.input \in Input /\ r.output \in InstallerOutput
        /\ AllJoined(r.files, r.output, r.input, r.toolchain)
        /\ r.archive.tar.headers =
              {[at |-> SplitTarPath(p), file |-> r.files[p]] : p \in DOMAIN r.files}
        /\ ValidateImmutableContent(r.archive, r.files)
    BY DEF HostInv, BuildsSound, Sound, Began, HasOutput
  <2>2. r.files = [p \in DOMAIN r.files |-> r.files[p]] /\ IsFiniteSet(DOMAIN r.files)
    BY <2>1, FilesAtEnd
  <2> QED BY <2>1, <2>2, ReadBack
<1> QED BY <1>1, HostInvariant, PTL
-----------------------------------------------------------------------------
(* Accepted bundles *)

\* For every bundle and frozen manifest: validateBundle only counts records and
\* looks up members, but what it accepts is exact.  The records of the zip are
\* the files of the manifest and bundle.json, the declared local mods are the
\* manifest's, the declared remote mods are the frozen ones, none of them twice.
THEOREM AcceptedBundlesAreExact == Spec => []AcceptedBundleIsExact
<1>1. HostInv => AcceptedBundleIsExact
  <2> SUFFICES ASSUME HostInv, NEW b \in Builder, Accepted(b)
               PROVE  LET zip   == build[b].input.bundle.zip
                          files == build[b].input.bundle.manifest.files
                          mods  == build[b].input.frozen.mods
                          declared == build[b].input.bundle.mods
                          local == {f \in PairsOf(files) : IsLocalMod(f[1])}
                      IN  /\ Len(files) = Cardinality(PairsOf(files)) /\ Len(zip) = Len(files) + 1
                          /\ {f \in PairsOf(zip) : f[1] # BundleJson} = PairsOf(files)
                          /\ Len(declared) = Cardinality(Paths(declared))
                          /\ PairsAt(declared, {i \in DOMAIN declared :
                                                   declared[i].source = "local"}) = local
                          /\ PairsAt(declared, {i \in DOMAIN declared :
                                                   declared[i].source # "local"}) = PairsOf(mods)
                          /\ Len(mods) = Cardinality(Paths(mods))
    BY DEF AcceptedBundleIsExact
  <2> DEFINE input == build[b].input
             zip   == input.bundle.zip
             files == input.bundle.manifest.files
             mods  == input.frozen.mods
             declared == input.bundle.mods
  <2>1. input \in Input /\ ValidateBundle(input.bundle, input.frozen)
    BY DEF HostInv, BuildsSound, Sound, Began, Accepted
  <2>2. /\ Listing(zip) /\ Distinct(zip) /\ Listing(files) /\ Distinct(files)
        /\ Listing(mods) /\ Distinct(mods) /\ Listing(declared) /\ Distinct(declared)
    BY <2>1, AcceptedDistinct
  <2>3. ListedExactly(zip, files) /\ VerifyResolvedMods(declared, files, mods)
    BY <2>1 DEF ValidateBundle
  <2> HIDE DEF zip, files, mods, declared
  <2>4. /\ Len(zip) = Len(files) + 1
        /\ {f \in PairsOf(zip) : f[1] # BundleJson} = PairsOf(files)
    BY <2>2, <2>3, RecordsAreListed
  <2>5. /\ PairsAt(declared, {i \in DOMAIN declared : declared[i].source = "local"})
              = {f \in PairsOf(files) : IsLocalMod(f[1])}
        /\ PairsAt(declared, {i \in DOMAIN declared : declared[i].source # "local"})
              = PairsOf(mods)
    BY <2>2, <2>3, DeclarationsAreMods
  <2>6. /\ Len(files) = Cardinality(PairsOf(files)) /\ Len(declared) = Cardinality(Paths(declared))
        /\ Len(mods) = Cardinality(Paths(mods))
    BY <2>2, CountPaths
  <2> QED BY <2>4, <2>5, <2>6 DEF zip, files, mods, declared
<1> QED BY <1>1, HostInvariant, PTL
-----------------------------------------------------------------------------
(* Package limits *)

\* BudgetInv is preserved by every step of the build host.
LEMMA BudgetStep == ASSUME HostInv, BudgetInv, [Next]_hostVars PROVE BudgetInv'
<1>1. CASE UNCHANGED build BY <1>1 DEF BudgetInv, Budgeted, HasOutput
<1>2. CASE ServiceDies
  <2>1. Idle.pc = "idle" /\ Idle.code = "" BY DEF Idle
  <2>2. \A b \in Builder : build'[b] = Idle BY <1>2 DEF ServiceDies
  <2> QED BY <2>1, <2>2 DEF BudgetInv, Budgeted, HasOutput
<1>3. ASSUME NEW b \in Builder, BuildStep(b) PROVE BudgetInv'
  <2>0. BuildsSound /\ Budgeted(build[b]) BY DEF HostInv, BudgetInv
  <2>1. Steps(b) BY <1>3, <2>0, OneBuildStep
  <2>2. Budgeted(build'[b])
    <3>1. CASE \/ \E input \in Input : Begin(b, input)
               \/ ResolveToolchain(b, Reviewed(lock), lock.revision)
               \/ ResolveVerifiedJre(b, RootUsable) \/ ReadCache(b) \/ FetchTimeout(b)
               \/ FetchArtifact(b) \/ MakeWorkspace(b) \/ InstallerTimeout(b) \/ RunInstaller(b)
               \/ Return(b)
      BY <2>0, <3>1, EarlyBudget
    <3>2. CASE CollectFiles(b) \/ RemoveWorkspace(b) BY <2>0, <3>2, CollectBudget
    <3>3. CASE \/ Merge(b) \/ AddRemoteMod(b) \/ FetchModTimeout(b) \/ FetchMod(b)
               \/ AddGeneratedFiles(b)
      BY <2>0, <3>3, JoinBudget
    <3>4. CASE Package(b) \/ VerifyContent(b) BY <2>0, <3>4, PackageBudget
    <3> QED BY <1>3, <3>1, <3>2, <3>3, <3>4 DEF BuildStep, Own, LocalStep, Answered
  <2>3. ASSUME NEW c \in Builder PROVE Budgeted(build'[c])
    <3>1. CASE c = b BY <2>2, <3>1
    <3>2. CASE c # b BY <2>1, <3>2 DEF Steps, BudgetInv
    <3> QED BY <3>1, <3>2
  <2> QED BY <2>3 DEF BudgetInv, Budgeted, HasOutput
<1> QED BY <1>1, <1>2, <1>3 DEF Next, Generate, Materialize, StartService, StopService, LosePower,
        Remount, hostVars, buildVars

\* For every bundle, installer output and choice of limits that are related as
\* those of production-limits.mjs are: files that pass validateOutputFiles are
\* never refused once they are padded to tar blocks and framed, so the checks of
\* packageDeterministicTarZst on its own output cannot fail.
THEOREM PackageLimitsAreNeverMet == Spec => []SizeBudgetSuffices
<1>1. Init => BudgetInv
  <2>1. Idle.pc = "idle" /\ Idle.code = "" BY DEF Idle
  <2> QED BY <2>1 DEF Init, BuildInit, BudgetInv, Budgeted, HasOutput
<1>2. HostInv /\ BudgetInv /\ [Next]_hostVars => BudgetInv' BY BudgetStep
<1>3. BudgetInv => SizeBudgetSuffices BY DEF BudgetInv, Budgeted, SizeBudgetSuffices
<1> QED BY <1>1, <1>2, <1>3, HostInvariant, PTL DEF Spec
-----------------------------------------------------------------------------
(* The lock *)

\* What a lock may hold: the urls an installer names, and one for each other file.
Url == STRING \cup {"primary", "server", "mappings"}
LockArtifact == [role : {"primary", "dependency"}, coordinate : Nat, url : Url]

\* sortArtifacts moves artifacts, and nothing else.
LEMMA SortPermutes ==
  ASSUME NEW a \in Seq(LockArtifact)
  PROVE  \E order : /\ ListsOnce(order, DOMAIN a)
                    /\ SortArtifacts(a) = [k \in 1 .. Len(a) |-> a[order[k]]]
<1> DEFINE I == DOMAIN a
           R == {p \in I \X I : Precedes(a, p[1], p[2])}
           rank == [i \in I |-> Cardinality({j \in I : Precedes(a, j, i)})]
           order == Arrange(rank, I)
<1>1. I = 1 .. Len(a) /\ Len(a) \in Nat OBVIOUS
<1>2. IsFiniteSet(I) /\ Cardinality(I) = Len(a) BY <1>1, FS_Interval
<1>3. \A i \in I : i \in Nat /\ a[i].coordinate \in Nat /\ a[i].role \in {"primary", "dependency"}
  <2>1. \A i \in I : i \in Nat /\ a[i] \in LockArtifact BY <1>1
  <2> QED BY <2>1 DEF LockArtifact
<1>4. OrdersTotally(R, I)
  <2>1. \A i, j \in I : <<i, j>> \in R <=> Precedes(a, i, j) OBVIOUS
  <2>2. \A i \in I : Precedes(a, i, i) BY <1>3 DEF Precedes
  <2>3. \A i, j \in I : Precedes(a, i, j) \/ Precedes(a, j, i) BY <1>3 DEF Precedes
  <2>4. \A i, j \in I : Precedes(a, i, j) /\ Precedes(a, j, i) => i = j BY <1>3 DEF Precedes
  <2>5. \A i, j, k \in I : Precedes(a, i, j) /\ Precedes(a, j, k) => Precedes(a, i, k)
    BY <1>3 DEF Precedes
  <2> QED BY <2>1, <2>2, <2>3, <2>4, <2>5 DEF OrdersTotally
<1>5. RankIn(R, I) = rank
  <2>1. ASSUME NEW i \in I PROVE UptoIn(R, I, i) = {j \in I : Precedes(a, j, i)} BY DEF UptoIn
  <2> QED BY <2>1 DEF RankIn
<1>6. ListsOnce(order, I)
  <2> HIDE DEF R, rank, I
  <2> QED BY <1>2, <1>4, <1>5, RanksAreDistinct, ArrangeLists
<1>7. SortArtifacts(a) = [k \in DOMAIN order |-> a[order[k]]] BY DEF SortArtifacts
<1>8. DOMAIN order = 1 .. Len(a) BY <1>2, <1>6 DEF ListsOnce
<1> QED BY <1>6, <1>7, <1>8

\* The coordinates of a list are distinct.
Apart(a) == \A i, j \in DOMAIN a : a[i].coordinate = a[j].coordinate => i = j

\* An installer that names every coordinate under one url has distinct libraries.
LEMMA LibrariesApart ==
  ASSUME upstream \in Upstream, NEW c \in Range(Candidate), c.kind = "neoforge", OneUrlPerCoordinate(c)
  PROVE  /\ Libraries(c) \in Seq(LockArtifact) /\ Apart(Libraries(c))
         /\ \A k \in DOMAIN Libraries(c) :
               Libraries(c)[k].coordinate \notin
                  {upstream.mappings[c.version], PrimaryCoordinate(Tuple(c)), ServerCoordinate(Tuple(c))}
<1> DEFINE all == upstream.libraries[c.version]
           first == {i \in DOMAIN all : \A j \in 1 .. i - 1 : all[j] # all[i]}
           n == Cardinality(first)
           kept == Ascending(first)
<1>1. all \in Seq([coordinate : Nat, url : STRING]) BY CatalogAssumption
<1>2. /\ DOMAIN all = 1 .. Len(all) /\ Len(all) \in Nat
      /\ \A i \in 1 .. Len(all) : all[i] \in [coordinate : Nat, url : STRING]
  BY <1>1, SeqMembers
<1>3. first \subseteq Nat /\ IsFiniteSet(first)
  <2>1. IsFiniteSet(DOMAIN all) BY <1>2, FS_Interval
  <2> QED BY <1>2, <2>1, FS_Subset
<1>4. ListsOnce(kept, first) /\ n \in Nat
  <2> HIDE DEF first
  <2> QED BY <1>3, AscendingLists, FS_CardinalityType
<1>5. Libraries(c) = [k \in DOMAIN kept |->
                        Artifact("dependency", all[kept[k]].coordinate, all[kept[k]].url)]
  BY DEF Libraries
<1>6. ASSUME NEW i \in first, NEW j \in first, all[i].coordinate = all[j].coordinate PROVE i = j
  <2>1. i \in DOMAIN all /\ j \in DOMAIN all OBVIOUS
  <2>2. all[i].url = all[j].url BY <1>6, <2>1 DEF OneUrlPerCoordinate
  <2>3. all[i] \in [coordinate : Nat, url : STRING] /\ all[j] \in [coordinate : Nat, url : STRING]
    BY <1>2, <2>1
  <2>4. all[i] = all[j] BY <1>6, <2>2, <2>3
  <2>5. i \in Nat /\ j \in Nat /\ i >= 1 /\ j >= 1 BY <1>2, <2>1
  <2>6. ~(i < j) /\ ~(j < i) BY <2>4, <2>5
  <2> QED BY <2>5, <2>6
<1> HIDE DEF kept
<1>7. \A i \in first : all[i].coordinate \in Nat /\ all[i].url \in STRING
  <2>1. \A i \in first : all[i] \in [coordinate : Nat, url : STRING] BY <1>2
  <2> QED BY <2>1
<1>8. \A i \in first : all[i].coordinate \notin
         {upstream.mappings[c.version], PrimaryCoordinate(Tuple(c)), ServerCoordinate(Tuple(c))}
  BY DEF OneUrlPerCoordinate
<1> HIDE DEF first, all
<1>9. kept \in [1 .. n -> first] /\ \A k, l \in 1 .. n : kept[k] = kept[l] => k = l
  BY <1>4 DEF ListsOnce
<1> HIDE DEF n
<1>10. /\ DOMAIN Libraries(c) = 1 .. n
       /\ \A k \in 1 .. n : /\ kept[k] \in first
                            /\ Libraries(c)[k] = Artifact("dependency", all[kept[k]].coordinate,
                                                          all[kept[k]].url)
  BY <1>5, <1>9
<1>11. \A k \in 1 .. n : Libraries(c)[k] \in LockArtifact
  BY <1>7, <1>10 DEF Artifact, LockArtifact, Url
<1>12. Libraries(c) \in Seq(LockArtifact)
  <2>1. Libraries(c) = [k \in 1 .. n |-> Libraries(c)[k]] BY <1>5, <1>10
  <2>2. Libraries(c) \in [1 .. n -> LockArtifact] BY <1>11, <2>1
  <2> QED BY <1>4, <2>2
<1>13. \A k \in 1 .. n : Libraries(c)[k].coordinate = all[kept[k]].coordinate
  BY <1>10 DEF Artifact
<1> QED BY <1>6, <1>8, <1>9, <1>10, <1>12, <1>13 DEF Apart

\* Two lists with distinct coordinates, apart from each other.
LEMMA ConcatApart ==
  ASSUME NEW a \in Seq(LockArtifact), NEW b \in Seq(LockArtifact), Apart(a), Apart(b),
         \A i \in DOMAIN a, j \in DOMAIN b : a[i].coordinate # b[j].coordinate
  PROVE  a \o b \in Seq(LockArtifact) /\ Apart(a \o b)
<1>1. /\ a \o b \in Seq(LockArtifact) /\ Len(a \o b) = Len(a) + Len(b)
      /\ \A i \in 1 .. Len(a) + Len(b) : (a \o b)[i] = IF i <= Len(a) THEN a[i] ELSE b[i - Len(a)]
  OBVIOUS
<1>2. /\ DOMAIN a = 1 .. Len(a) /\ DOMAIN b = 1 .. Len(b) /\ Len(a) \in Nat /\ Len(b) \in Nat
      /\ DOMAIN (a \o b) = 1 .. Len(a) + Len(b)
  BY <1>1
<1>3. ASSUME NEW i \in 1 .. Len(a) + Len(b), NEW j \in 1 .. Len(a) + Len(b),
             (a \o b)[i].coordinate = (a \o b)[j].coordinate
      PROVE  i = j
  <2>1. CASE i <= Len(a) /\ j <= Len(a)
    <3>1. i \in DOMAIN a /\ j \in DOMAIN a /\ (a \o b)[i] = a[i] /\ (a \o b)[j] = a[j]
      BY <1>1, <1>2, <2>1
    <3> QED BY <1>3, <3>1 DEF Apart
  <2>2. CASE i <= Len(a) /\ ~(j <= Len(a))
    <3>1. i \in DOMAIN a /\ j - Len(a) \in DOMAIN b /\ (a \o b)[i] = a[i] /\ (a \o b)[j] = b[j - Len(a)]
      BY <1>1, <1>2, <2>2
    <3> QED BY <1>3, <3>1
  <2>3. CASE ~(i <= Len(a)) /\ j <= Len(a)
    <3>1. j \in DOMAIN a /\ i - Len(a) \in DOMAIN b /\ (a \o b)[j] = a[j] /\ (a \o b)[i] = b[i - Len(a)]
      BY <1>1, <1>2, <2>3
    <3> QED BY <1>3, <3>1
  <2>4. CASE ~(i <= Len(a)) /\ ~(j <= Len(a))
    <3>1. /\ i - Len(a) \in DOMAIN b /\ j - Len(a) \in DOMAIN b
          /\ (a \o b)[j] = b[j - Len(a)] /\ (a \o b)[i] = b[i - Len(a)]
      BY <1>1, <1>2, <2>4
    <3>2. i - Len(a) = j - Len(a) BY <1>3, <3>1 DEF Apart
    <3> QED BY <1>2, <3>2
  <2> QED BY <2>1, <2>2, <2>3, <2>4
<1> QED BY <1>1, <1>2, <1>3 DEF Apart

\* Sorting keeps coordinates distinct.
LEMMA SortApart ==
  ASSUME NEW a \in Seq(LockArtifact), Apart(a)
  PROVE  Apart(SortArtifacts(a))
<1>1. PICK order : /\ ListsOnce(order, DOMAIN a)
                   /\ SortArtifacts(a) = [k \in 1 .. Len(a) |-> a[order[k]]]
  BY SortPermutes
<1>2. DOMAIN a = 1 .. Len(a) /\ Len(a) \in Nat OBVIOUS
<1>3. Cardinality(DOMAIN a) = Len(a) BY <1>2, FS_Interval
<1>4. /\ order \in [1 .. Len(a) -> DOMAIN a]
      /\ \A k, l \in 1 .. Len(a) : order[k] = order[l] => k = l
  BY <1>1, <1>3 DEF ListsOnce
<1>5. ASSUME NEW k \in 1 .. Len(a), NEW l \in 1 .. Len(a), a[order[k]].coordinate = a[order[l]].coordinate
      PROVE  k = l
  <2>1. order[k] = order[l] BY <1>4, <1>5 DEF Apart
  <2> QED BY <1>4, <2>1
<1> HIDE DEF ListsOnce
<1> QED BY <1>1, <1>5 DEF Apart

\* The dependencies of a candidate.
LEMMA DependenciesApart ==
  ASSUME upstream \in Upstream, NEW c \in Range(Candidate), c.kind = "neoforge" => OneUrlPerCoordinate(c)
  PROVE  /\ Dependencies(c) \in Seq(LockArtifact) /\ Apart(Dependencies(c))
         /\ \A k \in DOMAIN Dependencies(c) :
               Dependencies(c)[k].coordinate \notin {PrimaryCoordinate(Tuple(c)), ServerCoordinate(Tuple(c))}
<1>1. CASE c.kind # "neoforge"
  <2>1. Dependencies(c) = <<>> BY <1>1 DEF Dependencies
  <2> QED BY <2>1 DEF Apart
<1>2. CASE c.kind = "neoforge"
  <2> DEFINE m == Artifact("dependency", upstream.mappings[c.version], "mappings")
             libs == Libraries(c)
  <2>1. m \in LockArtifact /\ m.coordinate = upstream.mappings[c.version]
    <3>1. upstream.mappings[c.version] \in Nat BY <1>2, CatalogAssumption
    <3>2. m = [role |-> "dependency", coordinate |-> upstream.mappings[c.version], url |-> "mappings"]
      BY DEF Artifact
    <3> HIDE DEF m
    <3> QED BY <3>1, <3>2 DEF LockArtifact, Url
  <2>2. /\ libs \in Seq(LockArtifact) /\ Apart(libs)
        /\ \A k \in DOMAIN libs : libs[k].coordinate \notin
              {upstream.mappings[c.version], PrimaryCoordinate(Tuple(c)), ServerCoordinate(Tuple(c))}
    BY <1>2, LibrariesApart
  <2>3. Dependencies(c) = libs \o <<m>> BY <1>2 DEF Dependencies
  <2>4. m.coordinate \notin {PrimaryCoordinate(Tuple(c)), ServerCoordinate(Tuple(c))}
    BY <1>2, <2>1 DEF OneUrlPerCoordinate
  <2> HIDE DEF m, libs
  <2>5. <<m>> \in Seq(LockArtifact) /\ Apart(<<m>>) /\ DOMAIN <<m>> = {1} /\ <<m>>[1] = m
    BY <2>1 DEF Apart
  <2>6. \A i \in DOMAIN libs, j \in DOMAIN <<m>> : libs[i].coordinate # <<m>>[j].coordinate
    BY <2>1, <2>2, <2>5
  <2>7. libs \o <<m>> \in Seq(LockArtifact) /\ Apart(libs \o <<m>>)
    BY <2>2, <2>5, <2>6, ConcatApart
  <2>8. \A k \in DOMAIN (libs \o <<m>>) :
           (libs \o <<m>>)[k] = m \/ (k \in DOMAIN libs /\ (libs \o <<m>>)[k] = libs[k])
    BY <2>1, <2>2
  <2> QED BY <2>2, <2>3, <2>4, <2>7, <2>8
<1> QED BY <1>1, <1>2

\* The artifacts of a candidate whose own two coordinates differ.
LEMMA ArtifactsApart ==
  ASSUME upstream \in Upstream, NEW c \in Range(Candidate), c.kind = "neoforge" => OneUrlPerCoordinate(c)
  PROVE  /\ Artifacts(c) \in Seq(LockArtifact) /\ {1, 2} \subseteq DOMAIN Artifacts(c)
         /\ Artifacts(c)[1].coordinate = PrimaryCoordinate(Tuple(c))
         /\ Artifacts(c)[2].coordinate = ServerCoordinate(Tuple(c))
         /\ PrimaryCoordinate(Tuple(c)) # ServerCoordinate(Tuple(c)) => Apart(Artifacts(c))
<1> DEFINE p == Artifact("primary", PrimaryCoordinate(Tuple(c)), "primary")
           s == Artifact("dependency", ServerCoordinate(Tuple(c)), "server")
           deps == Dependencies(c)
<1>1. /\ p \in LockArtifact /\ p.coordinate = PrimaryCoordinate(Tuple(c))
      /\ s \in LockArtifact /\ s.coordinate = ServerCoordinate(Tuple(c))
  <2>1. {PrimaryCoordinate(Tuple(c)), ServerCoordinate(Tuple(c))} \subseteq Nat BY CatalogAssumption
  <2>2. p = [role |-> "primary", coordinate |-> PrimaryCoordinate(Tuple(c)), url |-> "primary"]
    BY DEF Artifact
  <2>3. s = [role |-> "dependency", coordinate |-> ServerCoordinate(Tuple(c)), url |-> "server"]
    BY DEF Artifact
  <2> HIDE DEF p, s
  <2> QED BY <2>1, <2>2, <2>3 DEF LockArtifact, Url
<1>2. /\ deps \in Seq(LockArtifact) /\ Apart(deps)
      /\ \A k \in DOMAIN deps :
            deps[k].coordinate \notin {PrimaryCoordinate(Tuple(c)), ServerCoordinate(Tuple(c))}
  BY DependenciesApart
<1>3. Artifacts(c) = <<p, s>> \o deps BY DEF Artifacts
<1> HIDE DEF p, s, deps
<1>4. <<p, s>> \in Seq(LockArtifact) /\ DOMAIN <<p, s>> = {1, 2} /\ <<p, s>>[1] = p /\ <<p, s>>[2] = s
  <2>1. <<p, s>> \in Seq(LockArtifact) /\ Len(<<p, s>>) = 2 /\ <<p, s>>[1] = p /\ <<p, s>>[2] = s
    BY <1>1
  <2>2. DOMAIN <<p, s>> = 1 .. 2 BY <2>1
  <2>3. 1 .. 2 = {1, 2} OBVIOUS
  <2> QED BY <2>1, <2>2, <2>3
<1>5. /\ <<p, s>> \o deps \in Seq(LockArtifact) /\ {1, 2} \subseteq DOMAIN (<<p, s>> \o deps)
      /\ (<<p, s>> \o deps)[1] = p /\ (<<p, s>> \o deps)[2] = s
  BY <1>1, <1>2
<1>6. ASSUME PrimaryCoordinate(Tuple(c)) # ServerCoordinate(Tuple(c)) PROVE Apart(<<p, s>> \o deps)
  <2>1. Apart(<<p, s>>) BY <1>1, <1>4, <1>6 DEF Apart
  <2>2. \A i \in DOMAIN <<p, s>>, j \in DOMAIN deps : <<p, s>>[i].coordinate # deps[j].coordinate
    BY <1>1, <1>2, <1>4
  <2> QED BY <1>2, <1>4, <2>1, <2>2, ConcatApart
<1> QED BY <1>1, <1>3, <1>5, <1>6

\* What validation finds of a generated toolchain.
LEMMA GeneratedParses ==
  ASSUME upstream \in Upstream, NEW c \in Range(Candidate), c.kind = "neoforge" => OneUrlPerCoordinate(c),
         ValidateToolchain(Toolchain(c))
  PROVE  ParseToolchain(Toolchain(c))
<1> DEFINE t == Toolchain(c)
           a == Artifacts(c)
<1>1. t.artifacts = SortArtifacts(a) /\ Tuple(t) = Tuple(c) BY DEF Toolchain, Tuple
<1>2. /\ a \in Seq(LockArtifact) /\ {1, 2} \subseteq DOMAIN a
      /\ a[1].coordinate = PrimaryCoordinate(Tuple(c)) /\ a[2].coordinate = ServerCoordinate(Tuple(c))
      /\ PrimaryCoordinate(Tuple(c)) # ServerCoordinate(Tuple(c)) => Apart(a)
  BY ArtifactsApart
<1>3. PICK i : AtCoordinate(t, ServerCoordinate(Tuple(t))) = {i} BY DEF ValidateToolchain
<1> HIDE DEF t, a
<1>4. PICK order : ListsOnce(order, DOMAIN a) /\ SortArtifacts(a) = [k \in 1 .. Len(a) |-> a[order[k]]]
  BY <1>2, SortPermutes
<1>5. DOMAIN a = 1 .. Len(a) /\ Len(a) \in Nat BY <1>2
<1>6. Cardinality(DOMAIN a) = Len(a) BY <1>2, SeqMembers
<1>7. \A x \in DOMAIN a : \E k \in 1 .. Len(a) : order[k] = x BY <1>4, <1>6 DEF ListsOnce
<1>8. PICK k1 \in 1 .. Len(a), k2 \in 1 .. Len(a) : order[k1] = 1 /\ order[k2] = 2 BY <1>2, <1>7
<1>9. /\ DOMAIN t.artifacts = 1 .. Len(a)
      /\ t.artifacts[k1] = a[1] /\ t.artifacts[k2] = a[2]
  BY <1>1, <1>4, <1>8
<1>10. PrimaryCoordinate(Tuple(c)) # ServerCoordinate(Tuple(c))
  <2> SUFFICES ASSUME PrimaryCoordinate(Tuple(c)) = ServerCoordinate(Tuple(c)) PROVE FALSE OBVIOUS
  <2>1. k1 \in AtCoordinate(t, ServerCoordinate(Tuple(t))) /\ k2 \in AtCoordinate(t, ServerCoordinate(Tuple(t)))
    BY <1>1, <1>2, <1>9 DEF AtCoordinate
  <2>2. k1 = k2 BY <1>3, <2>1
  <2> QED BY <1>8, <2>2
<1>11. Apart(t.artifacts) BY <1>1, <1>2, <1>10, SortApart
<1> QED BY <1>11 DEF ParseToolchain, ValidateToolchain, Apart, t

\* The lock is the one that was validated, or none to be read.
LockIsGenerated ==
    /\ upstream \in Upstream
    /\ lock.state = "written" => lock = GeneratedLock /\ ValidateToolchainCatalog(GeneratedLock)

\* A validated lock is reviewable.
LEMMA GeneratedIsReviewable == ASSUME LockIsGenerated PROVE LockIsReviewable
<1> SUFFICES ASSUME lock.state = "written",
                    \A i \in DOMAIN Candidate :
                       Candidate[i].kind = "neoforge" => OneUrlPerCoordinate(Candidate[i])
             PROVE  ParseCatalog(lock)
  BY DEF LockIsReviewable
<1>1. lock = GeneratedLock /\ ValidateToolchainCatalog(lock) BY DEF LockIsGenerated
<1>2. lock.toolchains = {Toolchain(Candidate[i]) : i \in DOMAIN Candidate} BY <1>1 DEF GeneratedLock
<1>3. \A i \in DOMAIN Candidate : Candidate[i] \in Range(Candidate) BY DEF Range
<1>4. ASSUME NEW t \in lock.toolchains PROVE ParseToolchain(t) /\ t.jre.revision = lock.revision
  <2>1. PICK i \in DOMAIN Candidate : t = Toolchain(Candidate[i]) BY <1>2
  <2>2. ValidateToolchain(Toolchain(Candidate[i])) BY <1>1, <2>1 DEF ValidateToolchainCatalog
  <2>3. ParseToolchain(Toolchain(Candidate[i])) BY <1>3, <2>2, GeneratedParses DEF LockIsGenerated
  <2>4. t.jre.revision = RuntimeRevision BY <2>1, <2>2 DEF ValidateToolchain, JreFor
  <2>5. lock.revision = RuntimeRevision BY <1>1 DEF ValidateToolchainCatalog
  <2> QED BY <2>1, <2>3, <2>4, <2>5
<1>5. lock.toolchains # {}
  <2>1. Candidate \in Seq(Range(Candidate)) /\ Candidate # <<>> BY CatalogAssumption
  <2>2. 1 \in DOMAIN Candidate BY <2>1
  <2> QED BY <1>2, <2>2
<1> QED BY <1>1, <1>4, <1>5 DEF ParseCatalog, ValidateToolchainCatalog

\* Only the generator writes the lock, and what it validated.
LEMMA LockStep == ASSUME LockIsGenerated, [Next]_hostVars PROVE LockIsGenerated'
<1>1. CASE UNCHANGED <<upstream, lock>>
  <2>1. GeneratedLock' = GeneratedLock
    BY <1>1 DEF GeneratedLock, Toolchain, Artifacts, Dependencies, Libraries
  <2> QED BY <1>1, <2>1 DEF LockIsGenerated, ValidateToolchainCatalog
<1>2. CASE WriteLock /\ UNCHANGED upstream /\ lock' # lock
  <2>1. ValidateToolchainCatalog(GeneratedLock) /\ lock' \in {GeneratedLock, TornLock}
    BY <1>2 DEF WriteLock
  <2>2. GeneratedLock' = GeneratedLock
    BY <1>2 DEF GeneratedLock, Toolchain, Artifacts, Dependencies, Libraries
  <2>3. TornLock.state = "torn" BY DEF TornLock, NoLock
  <2> QED BY <1>2, <2>1, <2>2, <2>3 DEF LockIsGenerated, ValidateToolchainCatalog
<1>3. UNCHANGED <<upstream, lock>> \/ (WriteLock /\ UNCHANGED upstream)
  <2>1. CASE Generate
    BY <2>1 DEF Generate, CatalogNext, StartGeneration, Fetched, TransportFails, AnswerRejected, WriteLock
  <2>2. CASE Materialize \/ StartService \/ StopService \/ LosePower \/ Remount
    BY <2>2 DEF Materialize, StartService, StopService, LosePower, Remount, catalogVars
  <2>3. CASE \E b \in Builder : BuildStep(b) BY <2>3 DEF BuildStep, Own, catalogVars
  <2>4. CASE UNCHANGED hostVars BY <2>4 DEF hostVars, catalogVars
  <2> QED BY <2>1, <2>2, <2>3, <2>4 DEF Next
<1> QED BY <1>1, <1>2, <1>3

\* The service accepts every lock the generator wrote whole, for any candidates
\* and any upstream whose installers name each coordinate under one url: what
\* validateToolchainCatalog and the generator's deduplication leave open is
\* nothing parseCatalog refuses.
THEOREM WrittenLockIsReviewable == Spec => []LockIsReviewable
<1>1. Init => LockIsGenerated BY DEF Init, CatalogInit, NoLock, LockIsGenerated
<1>2. LockIsGenerated /\ [Next]_hostVars => LockIsGenerated' BY LockStep
<1>3. LockIsGenerated => LockIsReviewable BY GeneratedIsReviewable
<1> QED BY <1>1, <1>2, <1>3, PTL DEF Spec
=============================================================================
