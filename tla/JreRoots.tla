------------------------------ MODULE JreRoots ------------------------------
(***************************************************************************)
(* The reviewed Java root: scripts/materialize_verified_jre.mjs, which      *)
(* builds it beside its final place and renames it in, and                 *)
(* VerifiedReadOnlyJreRegistry, which verifies it at every start of the    *)
(* compiler service and before every build.                                *)
(*                                                                         *)
(* Materializers may run at the same time, fail or die at any await, and   *)
(* the machine may lose power: nothing is synced, so a renamed root may    *)
(* come back with damaged files or not at all.  A resolution is the set of *)
(* its entries; a link's target is a path of the resolution, "nowhere"     *)
(* (inside the root, but not there) or "outside".                          *)
(***************************************************************************)
EXTENDS Naturals, FiniteSets

CONSTANTS
    Materializer,  \* invocations of the script, all with one outputRoot
    Resolution,    \* the resolutions a reviewed runtime lock may hold
    JreId,         \* the one id the script serves
    MaxTotal       \* MAX_TOTAL_BYTES

ASSUME JreAssumption ==
    /\ MaxTotal \in Nat
    /\ \A r \in Resolution : \A e \in r :
          /\ e.type \in {"directory", "file", "link"}
          /\ e.size \in Nat

VARIABLES
    resolution,  \* the entries reviewed for JreId, fixed
    mat,         \* mat[m]: where the invocation is, and its byte total
    stage,       \* stage[m]: what its partial directory holds
    root         \* outputRoot: is it there, from which invocation, what it
                 \* holds, what is damaged

jreVars == <<resolution, mat, stage, root>>

Manifest == [path |-> ".xmcl-runtime-resolution.json", type |-> "manifest",
             parent |-> "", target |-> "", size |-> 0]

Of(type) == {e \in resolution : e.type = type}
Absent == [there |-> FALSE, by |-> {}, holds |-> {}, damaged |-> {}]

MatPc == {"idle", "select", "missing", "mkdir", "files", "links", "manifest",
          "rename", "cleanup", "done", "failed", "unsupported"}

JreInit ==
    /\ resolution \in Resolution
    /\ mat = [m \in Materializer |-> [pc |-> "idle", total |-> 0]]
    /\ stage = [m \in Materializer |-> {}]
    /\ root = Absent

MatAt(m, pc)   == mat[m].pc = pc
MatGoto(m, pc) == mat' = [mat EXCEPT ![m].pc = pc]
-----------------------------------------------------------------------------
(* The materializer *)

\* validateResolution, second loop: every parent is a declared directory.
ParentsDeclared(entries) == \A e \in entries :
    e.parent # "" => \E d \in entries : d.path = e.parent /\ d.type = "directory"

\* validateResolution, first loop: paths are unique, sizes positive.
ValidateResolution(entries) ==
    /\ entries # {}
    /\ \A e, f \in entries : e.path = f.path => e = f
    /\ \A e \in entries : e.type = "file" => e.size > 0
    /\ ParentsDeclared(entries)

\* The script reads both locks.  They agree, or they do not; the view of the
\* catalogue is a set of toolchains, each with the id of its Java runtime.
SelectJre(m, toolchains, locksAgree) ==
    /\ MatAt(m, "idle")
    /\ MatGoto(m, IF ~locksAgree THEN "failed"
                  ELSE IF Cardinality({t \in toolchains : t.jre = JreId}) # 1
                  THEN "unsupported" ELSE "select")
    /\ UNCHANGED <<resolution, stage, root>>

ReadResolution(m) ==
    /\ MatAt(m, "select")
    /\ MatGoto(m, IF ValidateResolution(resolution) THEN "missing" ELSE "failed")
    /\ UNCHANGED <<resolution, stage, root>>

AssertMissing(m) ==
    /\ MatAt(m, "missing")
    /\ MatGoto(m, IF root.there THEN "failed" ELSE "mkdir")
    /\ UNCHANGED <<resolution, stage, root>>

MakeDirectories(m) ==
    /\ MatAt(m, "mkdir")
    /\ stage' = [stage EXCEPT ![m] = Of("directory")]
    /\ MatGoto(m, "files")
    /\ UNCHANGED <<resolution, root>>

\* Mutant: the last file is not waited for.
PlaceFileButOne(m) ==
    /\ MatAt(m, "files")
    /\ IF Cardinality(Of("file") \ stage[m]) <= 1
       THEN MatGoto(m, "links") /\ UNCHANGED stage
       ELSE \E e \in Of("file") \ stage[m] :
               /\ mat' = [mat EXCEPT ![m].total = @ + e.size]
               /\ stage' = [stage EXCEPT ![m] = @ \cup {e}]
    /\ UNCHANGED <<resolution, root>>

\* downloadExact answers with the bytes of the entry, or the script gives up.
PlaceFile(m) ==
    /\ MatAt(m, "files")
    /\ IF Of("file") \subseteq stage[m]
       THEN MatGoto(m, "links") /\ UNCHANGED stage
       ELSE \E e \in Of("file") \ stage[m] :
               IF mat[m].total + e.size > MaxTotal
               THEN MatGoto(m, "cleanup") /\ UNCHANGED stage
               ELSE /\ mat' = [mat EXCEPT ![m].total = @ + e.size]
                    /\ stage' = [stage EXCEPT ![m] = @ \cup {e}]
    /\ UNCHANGED <<resolution, root>>

LinkStaysWithinRoot(e) == e.target # "outside"

PlaceLinks(m) ==
    /\ MatAt(m, "links")
    /\ IF \A e \in Of("link") : LinkStaysWithinRoot(e)
       THEN stage' = [stage EXCEPT ![m] = @ \cup Of("link")] /\ MatGoto(m, "manifest")
       ELSE UNCHANGED stage /\ MatGoto(m, "cleanup")
    /\ UNCHANGED <<resolution, root>>

WriteManifest(m) ==
    /\ MatAt(m, "manifest")
    /\ stage' = [stage EXCEPT ![m] = @ \cup {Manifest}]
    /\ MatGoto(m, "rename")
    /\ UNCHANGED <<resolution, root>>

\* Mutant: a root in place is replaced.
RenameStagingOver(m) ==
    /\ MatAt(m, "rename")
    /\ root' = [there |-> TRUE, by |-> {m}, holds |-> stage[m], damaged |-> {}]
    /\ stage' = [stage EXCEPT ![m] = {}]
    /\ MatGoto(m, "done")
    /\ UNCHANGED resolution

\* rename replaces nothing but an empty directory.
RenameStaging(m) ==
    /\ MatAt(m, "rename")
    /\ IF root.there /\ root.holds # {}
       THEN MatGoto(m, "cleanup") /\ UNCHANGED <<stage, root>>
       ELSE /\ root' = [there |-> TRUE, by |-> {m}, holds |-> stage[m], damaged |-> {}]
            /\ stage' = [stage EXCEPT ![m] = {}]
            /\ MatGoto(m, "done")
    /\ UNCHANGED resolution

\* A download, a write or a rename throws.
MaterializeFails(m) ==
    /\ mat[m].pc \in {"mkdir", "files", "links", "manifest", "rename"}
    /\ MatGoto(m, "cleanup")
    /\ UNCHANGED <<resolution, stage, root>>

\* The catch block removes the partial directory, or fails to.
CleanUp(m) ==
    /\ MatAt(m, "cleanup")
    /\ stage' \in {stage, [stage EXCEPT ![m] = {}]}
    /\ MatGoto(m, "failed")
    /\ UNCHANGED <<resolution, root>>

MaterializerDies(m) ==
    /\ mat[m].pc \notin {"idle", "done", "failed", "unsupported"}
    /\ MatGoto(m, "failed")
    /\ UNCHANGED <<resolution, stage, root>>

MatStep(m) ==
    \/ ReadResolution(m) \/ AssertMissing(m) \/ MakeDirectories(m)
    \/ PlaceFile(m) \/ PlaceLinks(m) \/ WriteManifest(m) \/ RenameStaging(m)
    \/ MaterializeFails(m) \/ CleanUp(m) \/ MaterializerDies(m)

\* Power is lost: invocations die; an unsynced root comes back with some of its
\* files damaged, or not at all.
PowerLoss ==
    /\ mat' = [m \in Materializer |->
                 IF mat[m].pc \in {"idle", "done", "failed", "unsupported"} THEN mat[m]
                 ELSE [mat[m] EXCEPT !.pc = "failed"]]
    /\ \/ root' = Absent
       \/ \E lost \in SUBSET {e \in root.holds : e.type \in {"file", "manifest"}} :
             root' = [root EXCEPT !.damaged = @ \cup lost]
    /\ UNCHANGED <<resolution, stage>>
-----------------------------------------------------------------------------
(* The registry *)

\* realpath of an entry: a link must lead, through other links or not, to
\* something in the root.  The ones that do not are the links of a set that is
\* never left: each leads nowhere or to another link of the set.
Resolves(holds, e) ==
    ~\E stuck \in SUBSET {f \in holds : f.type = "link"} :
        /\ e \in stuck
        /\ \A f \in stuck, g \in holds : g.path = f.target => g \in stuck

\* verifyRuntimeRoot: the manifest has the reviewed digest, and every entry it
\* names is in the root, undamaged, under declared directories.
VerifyRuntimeRoot(r) ==
    /\ Manifest \in r.holds \ r.damaged
    /\ ParentsDeclared(resolution)
    /\ \A e \in resolution : e \in r.holds \ r.damaged /\ Resolves(r.holds, e)

\* Mutant: the mount is not inspected.
ResolveRootAnyMount(readOnlyMount) ==
    root.there /\ VerifyRuntimeRoot(root) /\ \E e \in root.holds : e.path = "bin/java"

\* resolve: the root is there, on a read-only mount, verifies and has a java.
ResolveRoot(readOnlyMount) ==
    /\ root.there /\ readOnlyMount
    /\ VerifyRuntimeRoot(root)
    /\ \E e \in root.holds : e.path = "bin/java"
-----------------------------------------------------------------------------
(* Steps under a catalogue's toolchains, and what they keep true *)

JreNext(toolchains) ==
    \/ \E m \in Materializer :
          \/ \E agree \in BOOLEAN : SelectJre(m, toolchains, agree)
          \/ MatStep(m)
    \/ PowerLoss

\* A root that can be seen is whole: unless power was lost under it, or a link
\* of the reviewed resolution leads nowhere or in a circle, the registry accepts what the
\* materializer renamed in, whatever failed, died or ran beside it.
MaterializedRootVerifies ==
    /\ root.there /\ root.damaged = {}
    /\ \A e \in Of("link") : Resolves(resolution, e)
    => VerifyRuntimeRoot(root)

\* Only a power loss changes a root once it was renamed in: no later or
\* concurrent materializer replaces it, so a running build keeps its Java.
RootNeverReplaced == [][root.there /\ ~PowerLoss => UNCHANGED root]_jreVars
=============================================================================
