---------------------------- MODULE RuntimeBuild ----------------------------
(***************************************************************************)
(* ReviewedRuntimeBuilder.build and the sandbox it runs the installer in:   *)
(* from a validated bundle to the archive that is uploaded.                *)
(*                                                                         *)
(* Every await is a step.  A download or the installer may answer, be      *)
(* refused or never answer; each has a timer.  Contents say where bytes    *)
(* come from.  Bytes whose digest is not the expected one are refused and  *)
(* never enter the state.                                                  *)
(***************************************************************************)
EXTENDS Bundle

CONSTANTS
    Builder,          \* the loops that build, one job each
    Input,            \* bundles with the frozen manifest they are built for
    InstallerOutput,  \* what an installer may leave in its output directory
    Fold(_)           \* NFKC and lower case of a path

\* What the code that makes these gives them: arrays and paths are sequences,
\* sizes are numbers, a mod's path is instance/mods/<filename>, path strings are
\* ordered, folding cannot move a file of mods/ to .xmcl/, and a directory tree
\* is finite.
ASSUME InputAssumption ==
    /\ \A input \in Input :
          LET mods  == input.frozen.mods
              paths == Paths(input.bundle.manifest.files)
          IN  /\ \A s \in {input.bundle.zip, input.bundle.manifest.files,
                           input.bundle.mods, mods} \cup paths : s \in Seq(Range(s))
              /\ \A s \in {input.bundle.zip, mods} : \A i \in DOMAIN s : s[i].size \in Nat
              /\ \A i \in DOMAIN mods :
                    /\ \E filename \in Range(mods[i].path) : mods[i].path = ModPath(filename)
                    /\ \A p \in Generated : Fold(p) # Fold(Tail(mods[i].path))
              /\ \A p \in paths : ~Before(p, p)
              /\ \A p, q, r \in paths : Before(p, q) /\ Before(q, r) => Before(p, r)
    /\ \A output \in InstallerOutput :
          IsFiniteSet(DOMAIN output) /\ \A p \in DOMAIN output : output[p].size \in Nat

VARIABLES
    build,     \* build[b]: where the build is and what it has so far
    workspace  \* the sandbox directories on disk: in use, or left behind

buildVars == <<build, workspace>>

NoFiles == [p \in {} |-> p]

\* files and more; no path of files changes.
Joined(files, more) == [p \in DOMAIN files \cup DOMAIN more |->
                          IF p \in DOMAIN files THEN files[p] ELSE more[p]]

Idle == [pc |-> "idle", input |-> <<>>, toolchain |-> <<>>, artifacts |-> <<>>,
         output |-> NoFiles, files |-> NoFiles, mods |-> <<>>, code |-> "", archive |-> <<>>]

BuildInit ==
    /\ build = [b \in Builder |-> Idle]
    /\ workspace = {}

BuildAt(b, pc) == build[b].pc = pc
BuildGoto(b, pc) == build' = [build EXCEPT ![b].pc = pc]
BuildFails(b, code) == build' = [build EXCEPT ![b] = [Idle EXCEPT !.pc = "failed", !.code = code]]
-----------------------------------------------------------------------------
(* Up to the sandbox *)

\* ServerCompiler.run validates the downloaded bundle, then builds.
Begin(b, input) ==
    /\ BuildAt(b, "idle")
    /\ IF ValidateBundle(input.bundle, input.frozen)
       THEN build' = [build EXCEPT ![b].pc = "toolchain", ![b].input = input]
       ELSE BuildFails(b, "invalid_bundle")
    /\ UNCHANGED workspace

Serves(toolchain, compat) ==
    /\ toolchain.mc = compat.mc /\ toolchain.kind = compat.kind
    /\ toolchain.version = compat.version /\ toolchain.java = compat.java

ResolveToolchain(b, toolchains, revision) ==
    /\ BuildAt(b, "toolchain")
    /\ LET compat == build[b].input.bundle.manifest.compat
           serving == {t \in toolchains : Serves(t, compat)}
       IN  IF /\ serving # {} /\ compat.revision = revision
              /\ build[b].input.frozen.compat.revision = revision
           THEN \E t \in serving :
                   build' = [build EXCEPT ![b].pc = "jre", ![b].toolchain = t]
           ELSE BuildFails(b, "unsupported_compatibility")
    /\ UNCHANGED workspace

\* resolveVerifiedJre: the registry verifies the root again.
ResolveVerifiedJre(b, usable) ==
    /\ BuildAt(b, "jre")
    /\ IF usable
       THEN build' = [build EXCEPT ![b].pc = "artifact",
                                   ![b].artifacts = build[b].toolchain.artifacts]
       ELSE BuildFails(b, "compiler_unavailable")
    /\ UNCHANGED workspace

\* The next reviewed artifact: cached bytes are used if they are the reviewed
\* ones, and end the build if they are not or cannot be read.
ReadCache(b) ==
    /\ BuildAt(b, "artifact") /\ build[b].artifacts # <<>>
    /\ \/ build' = [build EXCEPT ![b].artifacts = Tail(@)]
       \/ BuildGoto(b, "fetch")
       \/ BuildFails(b, "artifact_cache")
    /\ UNCHANGED workspace

FetchArtifact(b) ==
    /\ BuildAt(b, "fetch")
    /\ \/ build' = [build EXCEPT ![b].pc = "artifact", ![b].artifacts = Tail(@)]
       \/ BuildFails(b, "artifact_download")
    /\ UNCHANGED workspace

\* Mutant: a download that timed out is tried again without end.
FetchTimeoutRetries(b) ==
    /\ BuildAt(b, "fetch")
    /\ BuildGoto(b, "artifact")
    /\ UNCHANGED workspace

FetchTimeout(b) ==
    /\ BuildAt(b, "fetch")
    /\ BuildFails(b, "artifact_download")
    /\ UNCHANGED workspace
-----------------------------------------------------------------------------
(* The sandbox *)

Live(b) == <<b, "live">>
Left(b) == <<b, "left">>

\* selectNeoForgeArtifacts: at least the installer, the server and a library.
SelectNeoForgeArtifacts(t) == t.kind = "neoforge" /\ Len(t.artifacts) >= 3

\* mkdtemp, then the inputs are written; a write may fail.
MakeWorkspace(b) ==
    /\ BuildAt(b, "artifact") /\ build[b].artifacts = <<>>
    /\ workspace' = workspace \cup {Live(b)}
    /\ \/ SelectNeoForgeArtifacts(build[b].toolchain) /\ BuildGoto(b, "install")
       \/ build' = [build EXCEPT ![b].pc = "remove", ![b].code = "installer_failed"]

RunInstaller(b) ==
    /\ BuildAt(b, "install")
    /\ \/ \E output \in InstallerOutput :
             build' = [build EXCEPT ![b].pc = "collect", ![b].output = output]
       \/ build' = [build EXCEPT ![b].pc = "remove", ![b].code = "installer_failed"]
    /\ UNCHANGED workspace

InstallerTimeout(b) ==
    /\ BuildAt(b, "install")
    /\ build' = [build EXCEPT ![b].pc = "remove", ![b].code = "installer_failed"]
    /\ UNCHANGED workspace

InstallerLeftovers == {<<Segment(n)>> : n \in {"run.sh", "run.bat", "user_jvm_args.txt",
                                               "installer.log", "installer.jar.log"}}

\* The scripts and logs are removed, the rest collected within the limits.
Kept(output) == [p \in DOMAIN output \ InstallerLeftovers |-> output[p]]
Collectable(files) ==
    /\ \A p \in DOMAIN files : files[p].regular
    /\ Cardinality(DOMAIN files) <= MaxFiles
    /\ OutputSizeWithinLimit(Sizes(files), MaxSandboxBytes)

AsFile(f) == [content |-> f.content, size |-> f.size, mode |-> f.mode]

CollectFiles(b) ==
    /\ BuildAt(b, "collect")
    /\ LET kept == Kept(build[b].output)
       IN  build' = IF Collectable(kept)
                    THEN [build EXCEPT ![b].pc = "remove",
                                       ![b].files = [p \in DOMAIN kept |-> AsFile(kept[p])]]
                    ELSE [build EXCEPT ![b].pc = "remove", ![b].code = "installer_failed"]
    /\ UNCHANGED workspace

\* The finally block: rm may fail, which nobody hears.
RemoveWorkspace(b) ==
    /\ BuildAt(b, "remove")
    /\ \E left \in {{}, {Left(b)}} : workspace' = (workspace \ {Live(b)}) \cup left
    /\ IF build[b].code = "" THEN BuildGoto(b, "merge") ELSE BuildFails(b, build[b].code)
-----------------------------------------------------------------------------
(* The output *)

Reserved(path) == Len(path) > 1 /\ path[1].text = ".xmcl"

NormalizeSandboxOutput(files) ==
    /\ Cardinality(DOMAIN files) <= MaxFiles
    /\ OutputSizeWithinLimit(Sizes(files), MaxSandboxBytes)
    /\ \A p \in DOMAIN files : SafeOutputPath(p) /\ ~Forbidden(p) /\ ~Reserved(p)

InstanceFilesOf(bundle) == {p \in Paths(bundle.manifest.files) : IsInstance(p)}

\* The bundle's instance files, under their output paths.
BundleContent(bundle) ==
    [p \in {Tail(q) : q \in InstanceFilesOf(bundle)} |->
        LET source == At(bundle.zip, InstancePath(p))
        IN  [content |-> source.content, size |-> source.size, mode |-> 644]]

\* Mutant: what the installer wrote may be replaced.
CopyBundleContentOver(files, bundle) ==
    \A p \in DOMAIN BundleContent(bundle) : SafeOutputPath(p) /\ ~Forbidden(p)

\* copyValidatedBundleContent: nothing the installer wrote is replaced.
CopyValidatedBundleContent(files, bundle) ==
    \A p \in DOMAIN BundleContent(bundle) :
        SafeOutputPath(p) /\ ~Forbidden(p) /\ p \notin DOMAIN files

Merge(b) ==
    /\ BuildAt(b, "merge")
    /\ LET input == build[b].input
           files == build[b].files
       IN  IF ~NormalizeSandboxOutput(files) THEN BuildFails(b, "invalid_installer_output")
           ELSE IF ~CopyValidatedBundleContent(files, input.bundle)
           THEN BuildFails(b, "invalid_local_content")
           ELSE build' = [build EXCEPT ![b].pc = "mods", ![b].mods = input.frozen.mods,
                                       ![b].files = Joined(files, BundleContent(input.bundle))]
    /\ UNCHANGED workspace

\* addRemoteMods, one mod: its path must be free on a file system that folds
\* case, too.
ModCollides(files, path) ==
    \/ Fold(path) \in {Fold(p) : p \in DOMAIN files}
    \/ ~SafeOutputPath(path) \/ Forbidden(path)

AddRemoteMod(b) ==
    /\ BuildAt(b, "mods") /\ build[b].mods # <<>>
    /\ IF ModCollides(build[b].files, Tail(Head(build[b].mods).path))
       THEN BuildFails(b, "remote_mod_collision")
       ELSE BuildGoto(b, "fetchmod")
    /\ UNCHANGED workspace

ModFile(mod) == [content |-> mod.content, size |-> mod.size, mode |-> 644]
ModFiles(mod) == [p \in {Tail(mod.path)} |-> ModFile(mod)]

FetchMod(b) ==
    /\ BuildAt(b, "fetchmod")
    /\ LET mod == Head(build[b].mods)
       IN  \/ build' = [build EXCEPT ![b].pc = "mods", ![b].mods = Tail(@),
                                     ![b].files = Joined(ModFiles(mod), @)]
           \/ BuildFails(b, "remote_mod_download")
    /\ UNCHANGED workspace

FetchModTimeout(b) ==
    /\ BuildAt(b, "fetchmod")
    /\ BuildFails(b, "remote_mod_download")
    /\ UNCHANGED workspace

\* createAssemblyPlan: what the launcher starts.
LaunchTarget(t) == IF t.kind \in {"forge", "neoforge"} THEN t.version ELSE "server.jar"

GeneratedFiles(t) ==
    [p \in Generated |-> [content |-> [origin |-> "generated", id |-> LaunchTarget(t)],
                          size |-> 1, mode |-> IF p = LaunchSh THEN 755 ELSE 644]]

\* addGeneratedFile, twice.
AddGeneratedFiles(b) ==
    /\ BuildAt(b, "mods") /\ build[b].mods = <<>>
    /\ IF Generated \cap DOMAIN build[b].files # {}
       THEN BuildFails(b, "invalid_installer_output")
       ELSE build' = [build EXCEPT ![b].pc = "pack",
                                   ![b].files = Joined(GeneratedFiles(build[b].toolchain), @)]
    /\ UNCHANGED workspace

\* validateOutputFiles, then packageDeterministicTarZst.
Package(b) ==
    /\ BuildAt(b, "pack")
    /\ LET files == build[b].files
       IN  IF ~ValidateOutputFiles(files) THEN BuildFails(b, "invalid_builder_output")
           ELSE IF \E p \in DOMAIN files : ~CanSplit(p) THEN BuildFails(b, "path_too_long")
           ELSE \E tar \in {PackageTar(files)} : \E archive \in {RawZstd(tar)} :
                   IF ~TarFits(tar) \/ ~ArchiveFits(archive) THEN BuildFails(b, "package_limit")
                   ELSE build' = [build EXCEPT ![b].pc = "verify", ![b].archive = archive]
    /\ UNCHANGED workspace

\* The archive is read back before it leaves the builder.
VerifyContent(b) ==
    /\ BuildAt(b, "verify")
    /\ IF ValidateImmutableContent(build[b].archive, build[b].files)
       THEN BuildGoto(b, "done") ELSE BuildFails(b, "invalid_content")
    /\ UNCHANGED workspace

\* The result goes to the publisher; the loop is free for another job.
Return(b) ==
    /\ build[b].pc \in {"done", "failed"}
    /\ build' = [build EXCEPT ![b] = Idle]
    /\ UNCHANGED workspace

\* The service dies: what its builds had is gone, their directories stay.
ServiceDies ==
    /\ build' = [b \in Builder |-> Idle]
    /\ workspace' = {Left(w[1]) : w \in workspace}
-----------------------------------------------------------------------------
(* Properties *)

Accepted(b) == build[b].pc \notin {"idle", "failed"}
Done(b) == BuildAt(b, "done")
PairsAt(seq, at) == {<<seq[i].path, seq[i].content>> : i \in at}
PairsOf(seq) == PairsAt(seq, DOMAIN seq)

\* A bundle that passed validateBundle's checks by count and by membership is
\* exact: its records but bundle.json are the manifest's files, each once and
\* with its content, and its mod declarations are the local mods and the frozen
\* remote mods, each once and apart.
AcceptedBundleIsExact == \A b \in Builder : Accepted(b) =>
    LET zip   == build[b].input.bundle.zip
        files == build[b].input.bundle.manifest.files
        mods  == build[b].input.frozen.mods
        declared == build[b].input.bundle.mods
        local == {f \in PairsOf(files) : IsLocalMod(f[1])}
    IN  /\ Len(files) = Cardinality(PairsOf(files)) /\ Len(zip) = Len(files) + 1
        /\ {f \in PairsOf(zip) : f[1] # BundleJson} = PairsOf(files)
        /\ Len(declared) = Cardinality(Paths(declared))
        /\ PairsAt(declared, {i \in DOMAIN declared : declared[i].source = "local"}) = local
        /\ PairsAt(declared, {i \in DOMAIN declared : declared[i].source # "local"}) = PairsOf(mods)
        /\ Len(mods) = Cardinality(Paths(mods))

\* A package holds what the installer left, the bundle's instance files, the
\* frozen mods and the two generated files, every one of them with its own
\* bytes: no source hides a file of another.  A frozen mod differs from every
\* other file also where case is folded.  Files of the installer and the bundle
\* are compared as they are: two that differ only in case are both kept.
OutputIsExactUnion == \A b \in Builder : Done(b) =>
    LET kept  == Kept(build[b].output)
        local == BundleContent(build[b].input.bundle)
        mods  == build[b].input.frozen.mods
        files == build[b].files
    IN  /\ Cardinality(DOMAIN files) =
              Cardinality(DOMAIN kept) + Cardinality(DOMAIN local) + Len(mods) + 2
        /\ \A p \in DOMAIN kept : files[p] = AsFile(kept[p])
        /\ \A p \in DOMAIN local : files[p] = local[p]
        /\ \A i \in DOMAIN mods :
              /\ files[Tail(mods[i].path)] = ModFile(mods[i])
              /\ \A p \in DOMAIN files \ {Tail(mods[i].path)} : Fold(p) # Fold(Tail(mods[i].path))

\* An archive that is handed over reads back as the files that were built.
ArchiveRoundTrips == \A b \in Builder :
    Done(b) => CanUnpack(build[b].archive) /\ Unpack(build[b].archive) = build[b].files

\* Files that pass validateOutputFiles never exceed the package limits once
\* they are padded and framed: the size checks on the way in are enough.
SizeBudgetSuffices == \A b \in Builder : build[b].code # "package_limit"
=============================================================================
