----------------------------- MODULE BuildHost -----------------------------
(***************************************************************************)
(* From the catalogue to the archive: the generator writes the lock that   *)
(* is shipped, materializers put the Java root in place under that lock,   *)
(* the service (production-composition.mjs) starts from both and builds.   *)
(*                                                                         *)
(* The service may die and be started again at any time; a power loss      *)
(* takes everything that runs on its machine and may damage the root.  The *)
(* mount of the root changes only while the service is down.  The          *)
(* generator runs elsewhere, before the rest.                              *)
(***************************************************************************)
EXTENDS ToolchainCatalog, JreRoots, RuntimeBuild

VARIABLES
    service,       \* is the compiler service up
    readOnlyMount  \* is the Java root on a read-only mount, as seen by it

hostVars == <<catalogVars, jreVars, buildVars, service, readOnlyMount>>

Init ==
    /\ CatalogInit /\ JreInit /\ BuildInit
    /\ service = "down"
    /\ readOnlyMount = FALSE

\* What the reviewed catalogue shows to the materializer.
JreView == {[version |-> t.version, jre |-> t.jre.id] : t \in Reviewed(lock)}

Generate ==
    /\ CatalogNext
    /\ UNCHANGED <<jreVars, buildVars, service, readOnlyMount>>

\* A materializer is run once there is a lock; a lock that does not parse, or
\* that was not made from the runtime lock, ends it.
Materialize ==
    /\ lock.state # "none"
    /\ \E m \in Materializer :
          \/ \E agree \in BOOLEAN : SelectJre(m, JreView, agree /\ ParseCatalog(lock))
          \/ MatStep(m)
    /\ UNCHANGED <<catalogVars, buildVars, service, readOnlyMount>>

RootUsable == ResolveRoot(readOnlyMount)

\* createProductionCompilerWorker: the catalogue parses, the registry names its
\* runtimes and every root verifies; otherwise the process exits.
StartService ==
    /\ service = "down"
    /\ Reviewed(lock) # {}
    /\ {t.jre.id : t \in Reviewed(lock)} = {JreId}
    /\ RootUsable
    /\ service' = "up"
    /\ UNCHANGED <<catalogVars, jreVars, buildVars, readOnlyMount>>

StopService ==
    /\ service = "up"
    /\ ServiceDies
    /\ service' = "down"
    /\ UNCHANGED <<catalogVars, jreVars, readOnlyMount>>

\* What a build does by itself, timers included.
LocalStep(b) ==
    \/ ResolveToolchain(b, Reviewed(lock), lock.revision)
    \/ ResolveVerifiedJre(b, RootUsable)
    \/ ReadCache(b) \/ FetchTimeout(b)
    \/ MakeWorkspace(b) \/ InstallerTimeout(b) \/ CollectFiles(b) \/ RemoveWorkspace(b)
    \/ Merge(b) \/ AddRemoteMod(b) \/ FetchModTimeout(b)
    \/ AddGeneratedFiles(b) \/ Package(b) \/ VerifyContent(b)

\* What a build waits for.
Answered(b) == FetchArtifact(b) \/ RunInstaller(b) \/ FetchMod(b)

Own(b) == service = "up" /\ LocalStep(b)
          /\ UNCHANGED <<catalogVars, jreVars, service, readOnlyMount>>

BuildStep(b) ==
    \/ Own(b)
    \/ /\ service = "up"
       /\ (\E input \in Input : Begin(b, input)) \/ Answered(b) \/ Return(b)
       /\ UNCHANGED <<catalogVars, jreVars, service, readOnlyMount>>

\* Once it is there the root is mounted read-only, and may be mounted otherwise
\* later.  A service keeps the mounts it was started with.
Remount ==
    /\ service = "down" /\ root.there
    /\ readOnlyMount' = ~readOnlyMount
    /\ UNCHANGED <<catalogVars, jreVars, buildVars, service>>

LosePower ==
    /\ PowerLoss /\ ServiceDies
    /\ service' = "down"
    /\ UNCHANGED <<catalogVars, readOnlyMount>>

Next ==
    \/ Generate \/ Materialize \/ StartService \/ StopService \/ LosePower \/ Remount
    \/ \E b \in Builder : BuildStep(b)

Spec == Init /\ [][Next]_hostVars

\* The event loop runs what is ready, and a timer that is set fires unless the
\* answer comes first.  Nothing is assumed of the servers or of the installer.
FairSpec == Spec /\ \A b \in Builder : WF_hostVars(Own(b))
-----------------------------------------------------------------------------
\* The installer runs on the Java root that was reviewed: between the check and
\* the end of the run nothing can have changed or damaged it, and it is on the
\* read-only mount, however the root was mounted before the service started.
InstallerRunsVerifiedRoot == \A b \in Builder :
    build[b].pc \in {"artifact", "fetch", "install"} =>
        /\ readOnlyMount /\ root.there /\ root.damaged = {}
        /\ resolution \cup {Manifest} \subseteq root.holds
        /\ build[b].toolchain \in Reviewed(lock)
        /\ build[b].toolchain.jre.id = JreId

\* Every build that began ends, though downloads, mods and the installer may
\* never answer, and the directory it used is gone or given up for good.
BuildEnds == \A b \in Builder :
    (build[b].pc # "idle") ~> (build[b].pc \in {"idle", "done", "failed"} /\ Live(b) \notin workspace)
=============================================================================
