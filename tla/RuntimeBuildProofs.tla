------------------------- MODULE RuntimeBuildProofs -------------------------
(***************************************************************************)
(* The Java roots and one build, each alone: for any resolution of runtime *)
(* files and number of materializers and power losses, and for any bundle, *)
(* installer output and number of builds.                                  *)
(*                                                                         *)
(* JreInv is the inductive invariant of the roots.                         *)
(* Sound says what a build has made by the place it is at: it is what the  *)
(* theorems about builds in BuildHostProofs follow from.  Each action of a *)
(* build preserves it.  The lemmas after that say what a sound build means *)
(* for its package, its archive and its bundle, and what the limits on its *)
(* files mean for the size of the package.                                 *)
(***************************************************************************)
EXTENDS JreRoots, RuntimeBuild, FiniteSetTheorems, WellFoundedInduction, TLAPS

\* A leaf is tried with Zenon, then with the SMT solver.
USE ZenonT(5), SMTT(15)

-----------------------------------------------------------------------------
(* The Java roots *)

\* What a partial directory or a root can hold.
Content == resolution \cup {Manifest}

Root == [there : BOOLEAN, by : SUBSET Materializer,
         holds : SUBSET Content, damaged : SUBSET Content]

JreTypeOK ==
    /\ resolution \in Resolution
    /\ mat \in [Materializer -> [pc : MatPc, total : Nat]]
    /\ stage \in [Materializer -> SUBSET Content]
    /\ root \in Root

\* How far a partial directory is filled, by the place of its invocation.
Staged(m) ==
    /\ mat[m].pc \in {"missing", "mkdir", "files", "links", "manifest", "rename"}
          => ParentsDeclared(resolution)
    /\ mat[m].pc \in {"files", "links", "manifest", "rename"}
          => Of("directory") \subseteq stage[m]
    /\ mat[m].pc \in {"links", "manifest", "rename"} => Of("file") \subseteq stage[m]
    /\ mat[m].pc \in {"manifest", "rename"} => Of("link") \subseteq stage[m]
    /\ mat[m].pc = "rename" => Manifest \in stage[m]

\* A visible root holds everything.
RootIsWhole == root.there =>
    ParentsDeclared(resolution) /\ root.holds = Content

JreInv ==
    /\ JreTypeOK
    /\ \A m \in Materializer : Staged(m)
    /\ RootIsWhole

\* Every entry of a reviewed resolution is a directory, a file or a link.
LEMMA ThreeTypes ==
  ASSUME resolution \in Resolution
  PROVE  resolution = Of("directory") \cup Of("file") \cup Of("link")
BY JreAssumption DEF Of

\* The fields of Absent.
LEMMA AbsentType == Absent \in Root /\ ~Absent.there
BY DEF Absent, Root

\* JreInv holds initially.
LEMMA JreInitInv == ASSUME JreInit PROVE JreInv
<1>1. root \in Root /\ ~root.there BY AbsentType DEF JreInit
<1>2. "idle" \in MatPc BY DEF MatPc
<1>3. \A m \in Materializer : mat[m].pc = "idle" BY DEF JreInit
<1>4. JreTypeOK BY <1>1, <1>2 DEF JreInit, JreTypeOK
<1> QED BY <1>1, <1>3, <1>4 DEF JreInv, Staged, RootIsWhole

\* A step of one invocation that leaves the root alone has to be looked at only
\* where it happens.
LEMMA Local ==
  ASSUME JreInv, NEW m \in Materializer, UNCHANGED <<resolution, root>>,
         mat' \in [Materializer -> [pc : MatPc, total : Nat]],
         stage' \in [Materializer -> SUBSET Content],
         \A k \in Materializer \ {m} : mat'[k] = mat[k] /\ stage'[k] = stage[k],
         Staged(m)'
  PROVE  JreInv'
<1>1. JreTypeOK' BY DEF JreInv, JreTypeOK, Root, Content
<1>2. ASSUME NEW k \in Materializer, k # m PROVE Staged(k)'
  BY <1>2 DEF JreInv, Staged, ParentsDeclared, Of
<1>3. RootIsWhole' BY DEF JreInv, RootIsWhole, ParentsDeclared, Content
<1> QED BY <1>1, <1>2, <1>3 DEF JreInv

\* Where a move leads.
LEMMA Goes ==
  ASSUME JreTypeOK, NEW m \in Materializer, NEW pc \in MatPc, MatGoto(m, pc)
  PROVE  /\ mat' \in [Materializer -> [pc : MatPc, total : Nat]]
         /\ mat'[m].pc = pc
         /\ \A k \in Materializer \ {m} : mat'[k] = mat[k]
BY DEF JreTypeOK, MatGoto

\* A move that leaves the partial directory alone.
LEMMA Moves ==
  ASSUME JreInv, NEW m \in Materializer, NEW pc \in MatPc, MatGoto(m, pc),
         UNCHANGED <<resolution, stage, root>>,
         pc \in {"missing", "mkdir", "links"} => ParentsDeclared(resolution),
         pc = "links" => Of("directory") \cup Of("file") \subseteq stage[m],
         pc \notin {"files", "manifest", "rename"}
  PROVE  JreInv'
<1>1. /\ mat' \in [Materializer -> [pc : MatPc, total : Nat]] /\ mat'[m].pc = pc
      /\ \A k \in Materializer \ {m} : mat'[k] = mat[k]
  BY Goes DEF JreInv
<1>2. stage' \in [Materializer -> SUBSET Content] BY DEF JreInv, JreTypeOK
<1>3. Staged(m)' BY <1>1 DEF Staged, ParentsDeclared, Of
<1> QED BY <1>1, <1>2, <1>3, Local
-----------------------------------------------------------------------------
(* One step per action *)

\* The choice of the runtime makes no directory.
LEMMA SelectStep ==
  ASSUME JreInv, NEW m \in Materializer, NEW T, NEW agree \in BOOLEAN, SelectJre(m, T, agree)
  PROVE  JreInv'
<1>1. \E pc \in {"failed", "unsupported", "select"} : MatGoto(m, pc)
  BY DEF SelectJre
<1> QED BY <1>1, Moves DEF SelectJre, MatPc

\* The checks, and every way to give up.
LEMMA GivingUpStep ==
  ASSUME JreInv, NEW m \in Materializer,
         ReadResolution(m) \/ AssertMissing(m) \/ MaterializeFails(m) \/ MaterializerDies(m)
  PROVE  JreInv'
<1>1. CASE ReadResolution(m)
  <2>1. \/ MatGoto(m, "missing") /\ ParentsDeclared(resolution)
        \/ MatGoto(m, "failed")
    BY <1>1 DEF ReadResolution, ValidateResolution
  <2> QED BY <1>1, <2>1, Moves DEF ReadResolution, MatPc
<1>2. CASE AssertMissing(m)
  <2>1. ParentsDeclared(resolution) BY <1>2 DEF AssertMissing, MatAt, JreInv, Staged
  <2>2. MatGoto(m, "mkdir") \/ MatGoto(m, "failed") BY <1>2 DEF AssertMissing
  <2> QED BY <1>2, <2>1, <2>2, Moves DEF AssertMissing, MatPc
<1>3. CASE MaterializeFails(m) BY <1>3, Moves DEF MaterializeFails, MatPc
<1>4. CASE MaterializerDies(m) BY <1>4, Moves DEF MaterializerDies, MatPc
<1> QED BY <1>1, <1>2, <1>3, <1>4

\* The directories come first.
LEMMA DirectoriesStep ==
  ASSUME JreInv, NEW m \in Materializer, MakeDirectories(m)
  PROVE  JreInv'
<1>1. "files" \in MatPc /\ MatGoto(m, "files") BY DEF MatPc, MakeDirectories
<1>2. /\ mat' \in [Materializer -> [pc : MatPc, total : Nat]] /\ mat'[m].pc = "files"
      /\ \A k \in Materializer \ {m} : mat'[k] = mat[k]
  BY <1>1, Goes DEF JreInv
<1>3. /\ stage' \in [Materializer -> SUBSET Content] /\ stage'[m] = Of("directory")
      /\ \A k \in Materializer \ {m} : stage'[k] = stage[k]
  BY DEF MakeDirectories, JreInv, JreTypeOK, Of, Content
<1>4. ParentsDeclared(resolution) /\ UNCHANGED <<resolution, root>>
  BY DEF MakeDirectories, MatAt, JreInv, Staged
<1>5. Staged(m)' BY <1>2, <1>3, <1>4 DEF Staged, ParentsDeclared, Of
<1> QED BY <1>2, <1>3, <1>4, <1>5, Local

\* Files are placed until none is missing.
LEMMA FileStep ==
  ASSUME JreInv, NEW m \in Materializer, PlaceFile(m)
  PROVE  JreInv'
<1>0. /\ mat[m].pc = "files" /\ UNCHANGED <<resolution, root>>
      /\ ParentsDeclared(resolution) /\ Of("directory") \subseteq stage[m]
  BY DEF PlaceFile, MatAt, JreInv, Staged
<1>1. CASE Of("file") \subseteq stage[m] /\ MatGoto(m, "links") /\ UNCHANGED stage
  BY <1>0, <1>1, Moves DEF MatPc
<1>2. CASE MatGoto(m, "cleanup") /\ UNCHANGED stage
  BY <1>0, <1>2, Moves DEF MatPc
<1>3. CASE \E e \in Of("file") : /\ mat' = [mat EXCEPT ![m].total = @ + e.size]
                                 /\ stage' = [stage EXCEPT ![m] = @ \cup {e}]
  <2>1. PICK e \in Of("file") : /\ mat' = [mat EXCEPT ![m].total = @ + e.size]
                                /\ stage' = [stage EXCEPT ![m] = @ \cup {e}]
    BY <1>3
  <2>2. e.size \in Nat /\ e \in Content
    BY JreAssumption DEF Of, Content, JreInv, JreTypeOK
  <2>3. /\ mat' \in [Materializer -> [pc : MatPc, total : Nat]] /\ mat'[m].pc = "files"
        /\ \A k \in Materializer \ {m} : mat'[k] = mat[k]
    BY <1>0, <2>1, <2>2 DEF JreInv, JreTypeOK
  <2>4. /\ stage' \in [Materializer -> SUBSET Content] /\ stage[m] \subseteq stage'[m]
        /\ \A k \in Materializer \ {m} : stage'[k] = stage[k]
    BY <2>1, <2>2 DEF JreInv, JreTypeOK
  <2>5. Staged(m)' BY <1>0, <2>3, <2>4 DEF Staged, ParentsDeclared, Of
  <2> QED BY <1>0, <2>3, <2>4, <2>5, Local
<1> QED BY <1>1, <1>2, <1>3 DEF PlaceFile

\* Then the links.
LEMMA LinksStep ==
  ASSUME JreInv, NEW m \in Materializer, PlaceLinks(m)
  PROVE  JreInv'
<1>0. /\ UNCHANGED <<resolution, root>> /\ ParentsDeclared(resolution)
      /\ Of("directory") \cup Of("file") \subseteq stage[m]
  BY DEF PlaceLinks, MatAt, JreInv, Staged
<1>1. CASE MatGoto(m, "cleanup") /\ UNCHANGED stage BY <1>0, <1>1, Moves DEF MatPc
<1>2. CASE MatGoto(m, "manifest") /\ stage' = [stage EXCEPT ![m] = @ \cup Of("link")]
  <2>1. /\ mat' \in [Materializer -> [pc : MatPc, total : Nat]] /\ mat'[m].pc = "manifest"
        /\ \A k \in Materializer \ {m} : mat'[k] = mat[k]
    BY <1>2, Goes DEF JreInv, MatPc
  <2>2. /\ stage' \in [Materializer -> SUBSET Content] /\ stage'[m] = stage[m] \cup Of("link")
        /\ \A k \in Materializer \ {m} : stage'[k] = stage[k]
    BY <1>2 DEF JreInv, JreTypeOK, Of, Content
  <2>3. Staged(m)' BY <1>0, <2>1, <2>2 DEF Staged, ParentsDeclared, Of
  <2> QED BY <1>0, <2>1, <2>2, <2>3, Local
<1> QED BY <1>1, <1>2 DEF PlaceLinks

\* Then the manifest.
LEMMA ManifestStep ==
  ASSUME JreInv, NEW m \in Materializer, WriteManifest(m)
  PROVE  JreInv'
<1>0. /\ UNCHANGED <<resolution, root>> /\ ParentsDeclared(resolution)
      /\ Of("directory") \cup Of("file") \cup Of("link") \subseteq stage[m]
  BY DEF WriteManifest, MatAt, JreInv, Staged
<1>1. "rename" \in MatPc /\ MatGoto(m, "rename") BY DEF MatPc, WriteManifest
<1>2. /\ mat' \in [Materializer -> [pc : MatPc, total : Nat]] /\ mat'[m].pc = "rename"
      /\ \A k \in Materializer \ {m} : mat'[k] = mat[k]
  BY <1>1, Goes DEF JreInv
<1>3. /\ stage' \in [Materializer -> SUBSET Content] /\ stage'[m] = stage[m] \cup {Manifest}
      /\ \A k \in Materializer \ {m} : stage'[k] = stage[k]
  BY DEF WriteManifest, JreInv, JreTypeOK, Content
<1>4. Staged(m)' BY <1>0, <1>2, <1>3 DEF Staged, ParentsDeclared, Of
<1> QED BY <1>0, <1>2, <1>3, <1>4, Local

\* The catch block ends the invocation.
LEMMA CleanUpStep ==
  ASSUME JreInv, NEW m \in Materializer, CleanUp(m)
  PROVE  JreInv'
<1>1. "failed" \in MatPc /\ MatGoto(m, "failed") BY DEF MatPc, CleanUp
<1>2. /\ mat' \in [Materializer -> [pc : MatPc, total : Nat]] /\ mat'[m].pc = "failed"
      /\ \A k \in Materializer \ {m} : mat'[k] = mat[k]
  BY <1>1, Goes DEF JreInv
<1>3. /\ stage' \in [Materializer -> SUBSET Content]
      /\ \A k \in Materializer \ {m} : stage'[k] = stage[k]
  BY DEF CleanUp, JreInv, JreTypeOK
<1>4. UNCHANGED <<resolution, root>> BY DEF CleanUp
<1>5. Staged(m)' BY <1>2 DEF Staged
<1> QED BY <1>2, <1>3, <1>4, <1>5, Local

\* A visible root has entries, so no rename replaces it.
LEMMA RenameRefuses ==
  ASSUME JreInv, NEW m \in Materializer, RenameStaging(m), root.there
  PROVE  MatGoto(m, "cleanup") /\ UNCHANGED <<resolution, stage, root>>
BY DEF RenameStaging, JreInv, RootIsWhole, Content

\* The rename makes a whole root visible.
LEMMA RenameStep ==
  ASSUME JreInv, NEW m \in Materializer, RenameStaging(m)
  PROVE  JreInv'
<1>1. CASE root.there BY <1>1, RenameRefuses, Moves DEF MatPc
<1>2. CASE ~root.there
  <2> DEFINE new == [there |-> TRUE, by |-> {m}, holds |-> stage[m], damaged |-> {}]
  <2>1. /\ root' = new /\ stage' = [stage EXCEPT ![m] = {}] /\ MatGoto(m, "done")
        /\ resolution' = resolution /\ mat[m].pc = "rename"
    BY <1>2 DEF RenameStaging, MatAt
  <2>2. resolution = Of("directory") \cup Of("file") \cup Of("link")
    BY ThreeTypes DEF JreInv, JreTypeOK
  <2>3. ParentsDeclared(resolution) /\ stage[m] = Content
    BY <2>1, <2>2 DEF JreInv, JreTypeOK, Staged, Content
  <2>4. new \in Root /\ new.there /\ new.holds = Content BY <2>3 DEF Root
  <2> HIDE DEF new
  <2>5. /\ mat' \in [Materializer -> [pc : MatPc, total : Nat]] /\ mat'[m].pc = "done"
        /\ \A k \in Materializer \ {m} : mat'[k] = mat[k]
    BY <2>1, Goes DEF JreInv, MatPc
  <2>6. /\ stage' \in [Materializer -> SUBSET Content]
        /\ \A k \in Materializer \ {m} : stage'[k] = stage[k]
    BY <2>1 DEF JreInv, JreTypeOK
  <2>7. JreTypeOK' BY <2>1, <2>4, <2>5, <2>6 DEF JreInv, JreTypeOK, Root, Content
  <2>8. RootIsWhole' BY <2>1, <2>3, <2>4 DEF RootIsWhole, ParentsDeclared, Content
  <2>9. \A k \in Materializer \ {m} : Staged(k)'
    BY <2>1, <2>5, <2>6 DEF JreInv, Staged, ParentsDeclared, Of
  <2>10. Staged(m)' BY <2>5 DEF Staged
  <2> QED BY <2>7, <2>8, <2>9, <2>10 DEF JreInv
<1> QED BY <1>1, <1>2

\* A power loss may damage the root or lose it; it adds nothing.
LEMMA PowerLossStep == ASSUME JreInv, PowerLoss PROVE JreInv'
<1>1. resolution' = resolution /\ stage' = stage BY DEF PowerLoss
<1>2. ASSUME NEW m \in Materializer
      PROVE  mat'[m] \in [pc : MatPc, total : Nat] /\ (mat'[m] = mat[m] \/ mat'[m].pc = "failed")
  BY DEF PowerLoss, JreInv, JreTypeOK, MatPc
<1>3. mat' \in [Materializer -> [pc : MatPc, total : Nat]] BY <1>2 DEF PowerLoss
<1>4. \A m \in Materializer : Staged(m)'
  BY <1>1, <1>2 DEF JreInv, Staged, ParentsDeclared, Of
<1>5. root' \in Root /\ (root'.there => root.there /\ root'.holds = root.holds)
  <2>1. CASE root' = Absent BY <2>1, AbsentType
  <2>2. CASE \E lost \in SUBSET root.holds : root' = [root EXCEPT !.damaged = @ \cup lost]
    BY <2>2 DEF JreInv, JreTypeOK, Root
  <2> QED BY <2>1, <2>2 DEF PowerLoss
<1>6. JreTypeOK' BY <1>1, <1>3, <1>5 DEF JreInv, JreTypeOK, Root, Content
<1>7. RootIsWhole' BY <1>1, <1>5 DEF JreInv, RootIsWhole, ParentsDeclared, Content
<1> QED BY <1>4, <1>6, <1>7 DEF JreInv

\* JreInv is preserved by every step.
LEMMA JreStep ==
  ASSUME JreInv, NEW T, [JreNext(T)]_jreVars
  PROVE  JreInv'
<1>1. CASE \E m \in Materializer : \E agree \in BOOLEAN : SelectJre(m, T, agree)
  BY <1>1, SelectStep
<1>2. CASE \E m \in Materializer : MatStep(m)
  BY <1>2, GivingUpStep, DirectoriesStep, FileStep, LinksStep, ManifestStep, RenameStep,
     CleanUpStep DEF MatStep
<1>3. CASE PowerLoss BY <1>3, PowerLossStep
<1>4. CASE UNCHANGED jreVars
  BY <1>4 DEF jreVars, JreInv, JreTypeOK, Root, Content, Staged, RootIsWhole, ParentsDeclared, Of
<1> QED BY <1>1, <1>2, <1>3, <1>4 DEF JreNext

\* No materializer changes a visible root.
LEMMA MaterializersKeepRoot ==
  ASSUME JreInv, root.there, NEW m \in Materializer, NEW T,
         (\E agree \in BOOLEAN : SelectJre(m, T, agree)) \/ MatStep(m)
  PROVE  root' = root
<1>1. CASE RenameStaging(m) BY <1>1, RenameRefuses
<1>2. CASE ~RenameStaging(m)
  BY <1>2 DEF MatStep, SelectJre, ReadResolution, AssertMissing, MakeDirectories, PlaceFile,
     PlaceLinks, WriteManifest, MaterializeFails, CleanUp, MaterializerDies
<1> QED BY <1>1, <1>2

\* Only a power loss does.
LEMMA RootKept ==
  ASSUME JreInv, NEW T, [JreNext(T)]_jreVars
  PROVE  [root.there /\ ~PowerLoss => UNCHANGED root]_jreVars
BY MaterializersKeepRoot DEF JreNext, jreVars

\* A whole root that nothing damaged passes verifyRuntimeRoot.
LEMMA WholeRootVerifies == JreInv => MaterializedRootVerifies
<1> SUFFICES ASSUME JreInv, root.there, root.damaged = {},
                    \A e \in Of("link") : Resolves(resolution, e)
             PROVE  VerifyRuntimeRoot(root)
  BY DEF MaterializedRootVerifies
<1>1. ParentsDeclared(resolution) /\ root.holds = Content BY DEF JreInv, RootIsWhole
<1>2. ASSUME NEW e \in resolution PROVE Resolves(root.holds, e)
  <2>0. Manifest.type # "link" BY DEF Manifest
  <2>1. {f \in Content : f.type = "link"} = Of("link") BY <2>0 DEF Content, Of
  <2>2. CASE e.type = "link"
    <3>1. Resolves(resolution, e) BY <2>2 DEF Of
    <3> QED BY <1>1, <2>1, <3>1 DEF Resolves, Of, Content
  <2>3. CASE e.type # "link" BY <2>3 DEF Resolves
  <2> QED BY <2>2, <2>3
<1> QED BY <1>1, <1>2 DEF VerifyRuntimeRoot, Content
-----------------------------------------------------------------------------
(* The roots alone, under any catalogue, also one that changes *)

\* JreInv is an invariant of the materializers and the root they share.
THEOREM JreInvariant ==
  ASSUME NEW CONSTANT Catalogue
  PROVE  JreInit /\ [][\E T \in Catalogue : JreNext(T)]_jreVars => []JreInv
<1>1. JreInit => JreInv BY JreInitInv
<1>2. JreInv /\ [\E T \in Catalogue : JreNext(T)]_jreVars => JreInv' BY JreStep
<1> QED BY <1>1, <1>2, PTL

\* Whatever number of materializers run, fail and die beside each other, a root
\* that is there and lost no data to a power loss passes verifyRuntimeRoot, as
\* long as no link of the reviewed resolution leads nowhere.
THEOREM VisibleRootVerifies ==
  ASSUME NEW CONSTANT Catalogue
  PROVE  JreInit /\ [][\E T \in Catalogue : JreNext(T)]_jreVars => []MaterializedRootVerifies
<1> QED BY WholeRootVerifies, JreInvariant, PTL

\* The final rename of materialize_verified_jre.mjs replaces no root, also when
\* it passed the check for a missing one before that root was renamed in.
THEOREM VisibleRootIsNeverReplaced ==
  ASSUME NEW CONSTANT Catalogue
  PROVE  JreInit /\ [][\E T \in Catalogue : JreNext(T)]_jreVars => RootNeverReplaced
<1>1. JreInv /\ [\E T \in Catalogue : JreNext(T)]_jreVars
         => [root.there /\ ~PowerLoss => UNCHANGED root]_jreVars
  BY RootKept
<1> QED BY <1>1, JreInvariant, PTL DEF RootNeverReplaced
-----------------------------------------------------------------------------
(* One build *)

\* A build as a record with exactly its fields.
Shaped(r) ==
    r = [pc |-> r.pc, input |-> r.input, toolchain |-> r.toolchain, artifacts |-> r.artifacts,
         output |-> r.output, files |-> r.files, mods |-> r.mods, code |-> r.code,
         archive |-> r.archive]

\* What CollectFiles takes from the output of an installer.
Collected(output) == [p \in DOMAIN Kept(output) |-> AsFile(Kept(output)[p])]

\* files is the exact union of what was collected, the bundle's content and the
\* first n mods, and free of collisions.
UnionOf(files, output, input, n) ==
    LET kept  == Kept(output)
        local == BundleContent(input.bundle)
        mods  == input.frozen.mods
    IN  /\ IsFiniteSet(DOMAIN files) /\ files = [p \in DOMAIN files |-> files[p]]
        /\ Cardinality(DOMAIN files) = Cardinality(DOMAIN kept) + Cardinality(DOMAIN local) + n
        /\ \A p \in DOMAIN kept : p \in DOMAIN files /\ files[p] = AsFile(kept[p])
        /\ \A p \in DOMAIN local : p \in DOMAIN files /\ files[p] = local[p]
        /\ \A i \in 1 .. n :
              /\ Tail(mods[i].path) \in DOMAIN files
              /\ files[Tail(mods[i].path)] = ModFile(mods[i])
              /\ \A p \in DOMAIN files \ {Tail(mods[i].path)} : Fold(p) # Fold(Tail(mods[i].path))

\* files is the union with all mods, and with the generated files beside it.
AllJoined(files, output, input, toolchain) ==
    \E before \in {[p \in DOMAIN files \ Generated |-> files[p]]} :
       /\ UnionOf(before, output, input, Len(input.frozen.mods))
       /\ files = Joined(GeneratedFiles(toolchain), before)

\* How many mods of the frozen list a build has added.
Added(r) == Len(r.input.frozen.mods) - Len(r.mods)

\* A build that has an input, and one that has collected its installer's output.
Began(r) == r.pc \notin {"idle", "failed"}
HasOutput(r) ==
    \/ r.pc \in {"merge", "mods", "fetchmod", "pack", "verify", "done"}
    \/ r.pc = "remove" /\ r.code = ""

\* What a build has made by the place it is at.
Sound(r) ==
    /\ Shaped(r)
    /\ Began(r) => r.input \in Input /\ ValidateBundle(r.input.bundle, r.input.frozen)
    /\ r.pc = "collect" \/ HasOutput(r) => r.output \in InstallerOutput
    /\ HasOutput(r) /\ r.pc \in {"remove", "merge"} => r.files = Collected(r.output)
    /\ r.pc \in {"mods", "fetchmod"} =>
          /\ r.mods \in Seq(Range(r.input.frozen.mods))
          /\ Len(r.mods) <= Len(r.input.frozen.mods)
          /\ \A i \in DOMAIN r.mods : r.mods[i] = r.input.frozen.mods[Added(r) + i]
          /\ UnionOf(r.files, r.output, r.input, Added(r))
    /\ r.pc = "fetchmod" => r.mods # <<>> /\ ~ModCollides(r.files, Tail(Head(r.mods).path))
    /\ r.pc \in {"pack", "verify", "done"} =>
          AllJoined(r.files, r.output, r.input, r.toolchain)
    /\ r.pc \in {"verify", "done"} =>
          r.archive.tar.headers =
              {[at |-> SplitTarPath(p), file |-> r.files[p]] : p \in DOMAIN r.files}
    /\ r.pc = "done" => ValidateImmutableContent(r.archive, r.files)

\* Every build is sound.
BuildsSound == build = [b \in Builder |-> build[b]] /\ \A b \in Builder : Sound(build[b])

\* A step of one build: the others keep their records.
Steps(b) ==
    /\ build' = [c \in Builder |-> build'[c]]
    /\ \A c \in Builder \ {b} : build'[c] = build[c]

\* A build past the choice of its toolchain keeps it.
KeepsToolchain(b) ==
    \/ build'[b].pc \in {"idle", "failed", "toolchain"}
    \/ /\ build[b].pc \notin {"idle", "failed", "toolchain"}
       /\ build'[b].toolchain = build[b].toolchain
-----------------------------------------------------------------------------
(* What a step changes *)

\* An idle build is sound.
LEMMA IdleSound == Sound(Idle) /\ Idle.pc = "idle"
<1>1. Shaped(Idle) /\ Idle.pc = "idle" BY DEF Idle, Shaped
<1> QED BY <1>1 DEF Sound, Began, HasOutput

\* So is a failed one.
LEMMA FailedSound ==
  ASSUME NEW code, NEW r, r = [Idle EXCEPT !.pc = "failed", !.code = code]
  PROVE  Sound(r) /\ r.pc = "failed"
<1>1. Shaped(r) /\ r.pc = "failed" BY DEF Idle, Shaped
<1> QED BY <1>1 DEF Sound, Began, HasOutput

\* A failure replaces the record of one build.
LEMMA Failing ==
  ASSUME BuildsSound, NEW b \in Builder, NEW code, BuildFails(b, code)
  PROVE  Steps(b) /\ Sound(build'[b]) /\ KeepsToolchain(b)
<1> DEFINE failed == [Idle EXCEPT !.pc = "failed", !.code = code]
<1>1. Sound(failed) /\ failed.pc = "failed" BY FailedSound
<1>2. build' = [build EXCEPT ![b] = failed] BY DEF BuildFails
<1> HIDE DEF failed
<1>3. Steps(b) /\ build'[b] = failed BY <1>2 DEF BuildsSound, Steps
<1> QED BY <1>1, <1>3 DEF KeepsToolchain

\* Before there is an output there is only the input to look at.
LEMMA EarlySound ==
  ASSUME NEW r, Shaped(r),
         \/ r.pc \in {"toolchain", "jre", "artifact", "fetch", "install", "collect"}
         \/ r.pc = "remove" /\ r.code # "",
         r.input \in Input /\ ValidateBundle(r.input.bundle, r.input.frozen),
         r.pc = "collect" => r.output \in InstallerOutput
  PROVE  Sound(r)
BY DEF Sound, HasOutput

\* A move changes where a build is, and nothing else.
LEMMA Going ==
  ASSUME BuildsSound, NEW b \in Builder, NEW pc, BuildGoto(b, pc)
  PROVE  /\ Steps(b) /\ Shaped(build'[b]) /\ build'[b].pc = pc
         /\ \A f \in {"input", "toolchain", "artifacts", "output", "files", "mods", "code",
                      "archive"} :
               build'[b][f] = build[b][f]
<1>1. Steps(b) /\ build'[b] = [build[b] EXCEPT !.pc = pc]
  BY DEF BuildGoto, BuildsSound, Steps
<1>2. Shaped(build[b]) BY DEF BuildsSound, Sound
<1> QED BY <1>1, <1>2 DEF Shaped
-----------------------------------------------------------------------------
(* One step per action *)

\* A build begins with a bundle that is valid.
LEMMA BeginStep ==
  ASSUME BuildsSound, NEW b \in Builder, NEW input \in Input, Begin(b, input)
  PROVE  Steps(b) /\ Sound(build'[b]) /\ KeepsToolchain(b)
<1>1. CASE BuildFails(b, "invalid_bundle") BY <1>1, Failing
<1>2. CASE /\ ValidateBundle(input.bundle, input.frozen)
           /\ build' = [build EXCEPT ![b].pc = "toolchain", ![b].input = input]
  <2>1. Steps(b) /\ build'[b] = [build[b] EXCEPT !.pc = "toolchain", !.input = input]
    BY <1>2 DEF BuildsSound, Steps
  <2>2. Shaped(build[b]) BY DEF BuildsSound, Sound
  <2>3. Shaped(build'[b]) /\ build'[b].pc = "toolchain" /\ build'[b].input = input
    BY <2>1, <2>2 DEF Shaped
  <2> QED BY <1>2, <2>1, <2>3, EarlySound DEF KeepsToolchain
<1> QED BY <1>1, <1>2 DEF Begin

\* The toolchain is one of those the service has reviewed.
LEMMA ToolchainStep ==
  ASSUME BuildsSound, NEW b \in Builder, NEW toolchains, NEW revision,
         ResolveToolchain(b, toolchains, revision)
  PROVE  /\ Steps(b) /\ Sound(build'[b])
         /\ KeepsToolchain(b) \/ build'[b].toolchain \in toolchains
<1>1. CASE BuildFails(b, "unsupported_compatibility") BY <1>1, Failing
<1>2. CASE \E t \in toolchains : build' = [build EXCEPT ![b].pc = "jre", ![b].toolchain = t]
  <2>1. PICK t \in toolchains : build' = [build EXCEPT ![b].pc = "jre", ![b].toolchain = t]
    BY <1>2
  <2>2. Steps(b) /\ build'[b] = [build[b] EXCEPT !.pc = "jre", !.toolchain = t]
    BY <2>1 DEF BuildsSound, Steps
  <2>3. Shaped(build[b]) /\ Sound(build[b]) BY DEF BuildsSound, Sound
  <2>4. Shaped(build'[b]) /\ build'[b].pc = "jre" /\ build'[b].toolchain = t
        /\ build'[b].input = build[b].input
    BY <2>2, <2>3 DEF Shaped
  <2> QED BY <2>2, <2>3, <2>4, EarlySound DEF KeepsToolchain, Sound, Began, ResolveToolchain,
       BuildAt
<1> QED BY <1>1, <1>2 DEF ResolveToolchain

\* The root is verified, artifacts are read or fetched.
LEMMA ArtifactStep ==
  ASSUME BuildsSound, NEW b \in Builder, NEW usable,
         \/ ResolveVerifiedJre(b, usable) \/ ReadCache(b)
         \/ FetchArtifact(b) \/ FetchTimeout(b)
  PROVE  Steps(b) /\ Sound(build'[b]) /\ KeepsToolchain(b)
<1>0. build[b].pc \in {"jre", "artifact", "fetch"}
  BY DEF ResolveVerifiedJre, ReadCache, FetchArtifact, FetchTimeout, BuildAt
<1>1. CASE \E code : BuildFails(b, code) BY <1>1, Failing
<1>2. CASE BuildGoto(b, "fetch")
  <2>1. Steps(b) /\ Shaped(build'[b]) /\ build'[b].pc = "fetch"
        /\ build'[b].input = build[b].input /\ build'[b].toolchain = build[b].toolchain
    BY <1>2, Going
  <2> QED BY <1>0, <2>1, EarlySound DEF KeepsToolchain, BuildsSound, Sound, Began
<1>3. CASE \E rest : \/ build' = [build EXCEPT ![b].artifacts = rest]
                      \/ build' = [build EXCEPT ![b].pc = "artifact", ![b].artifacts = rest]
  <2>1. PICK rest : \/ build' = [build EXCEPT ![b].artifacts = rest]
                    \/ build' = [build EXCEPT ![b].pc = "artifact", ![b].artifacts = rest]
    BY <1>3
  <2>2. /\ Steps(b)
        /\ \/ build'[b] = [build[b] EXCEPT !.artifacts = rest]
           \/ build'[b] = [build[b] EXCEPT !.pc = "artifact", !.artifacts = rest]
    BY <2>1 DEF BuildsSound, Steps
  <2>3. Shaped(build[b]) /\ Sound(build[b]) BY DEF BuildsSound, Sound
  <2>4. /\ Shaped(build'[b]) /\ build'[b].pc \in {"jre", "artifact", "fetch"}
        /\ build'[b].input = build[b].input /\ build'[b].toolchain = build[b].toolchain
    BY <1>0, <2>2, <2>3 DEF Shaped
  <2> QED BY <1>0, <2>2, <2>3, <2>4, EarlySound DEF KeepsToolchain, Sound, Began
<1>4. CASE ResolveVerifiedJre(b, usable) BY <1>1, <1>3, <1>4 DEF ResolveVerifiedJre
<1>5. CASE ReadCache(b)
  <2>1. \/ build' = [build EXCEPT ![b].artifacts = Tail(build[b].artifacts)]
        \/ BuildGoto(b, "fetch")
        \/ BuildFails(b, "artifact_cache")
    BY <1>5 DEF ReadCache
  <2> QED BY <2>1, <1>1, <1>2, <1>3
<1>6. CASE FetchArtifact(b)
  <2>1. \/ build' = [build EXCEPT ![b].pc = "artifact", ![b].artifacts = Tail(build[b].artifacts)]
        \/ BuildFails(b, "artifact_download")
    BY <1>6 DEF FetchArtifact
  <2> QED BY <2>1, <1>1, <1>3
<1>7. CASE FetchTimeout(b) BY <1>1, <1>7 DEF FetchTimeout
<1> QED BY <1>4, <1>5, <1>6, <1>7

\* The sandbox is made, the installer runs or fails.
LEMMA InstallStep ==
  ASSUME BuildsSound, NEW b \in Builder,
         MakeWorkspace(b) \/ RunInstaller(b) \/ InstallerTimeout(b)
  PROVE  Steps(b) /\ Sound(build'[b]) /\ KeepsToolchain(b)
<1>0. build[b].pc \in {"artifact", "install"}
  BY DEF MakeWorkspace, RunInstaller, InstallerTimeout, BuildAt
<1>1. CASE BuildGoto(b, "install")
  <2>1. Steps(b) /\ Shaped(build'[b]) /\ build'[b].pc = "install"
        /\ build'[b].input = build[b].input /\ build'[b].toolchain = build[b].toolchain
    BY <1>1, Going
  <2> QED BY <1>0, <2>1, EarlySound DEF KeepsToolchain, BuildsSound, Sound, Began
<1>2. CASE build' = [build EXCEPT ![b].pc = "remove", ![b].code = "installer_failed"]
  <2>2. Steps(b) /\ build'[b] = [build[b] EXCEPT !.pc = "remove", !.code = "installer_failed"]
    BY <1>2 DEF BuildsSound, Steps
  <2>3. Shaped(build[b]) /\ Sound(build[b]) BY DEF BuildsSound, Sound
  <2>4. /\ Shaped(build'[b]) /\ build'[b].pc = "remove" /\ build'[b].code = "installer_failed"
        /\ build'[b].input = build[b].input /\ build'[b].toolchain = build[b].toolchain
    BY <2>2, <2>3 DEF Shaped
  <2> QED BY <1>0, <2>2, <2>3, <2>4, EarlySound DEF KeepsToolchain, Sound, Began
<1>3. CASE \E output \in InstallerOutput :
              build' = [build EXCEPT ![b].pc = "collect", ![b].output = output]
  <2>1. PICK output \in InstallerOutput :
           build' = [build EXCEPT ![b].pc = "collect", ![b].output = output]
    BY <1>3
  <2>2. Steps(b) /\ build'[b] = [build[b] EXCEPT !.pc = "collect", !.output = output]
    BY <2>1 DEF BuildsSound, Steps
  <2>3. Shaped(build[b]) /\ Sound(build[b]) BY DEF BuildsSound, Sound
  <2>4. /\ Shaped(build'[b]) /\ build'[b].pc = "collect" /\ build'[b].output = output
        /\ build'[b].input = build[b].input /\ build'[b].toolchain = build[b].toolchain
    BY <2>2, <2>3 DEF Shaped
  <2> QED BY <1>0, <2>2, <2>3, <2>4, EarlySound DEF KeepsToolchain, Sound, Began
<1> QED BY <1>1, <1>2, <1>3 DEF MakeWorkspace, RunInstaller, InstallerTimeout

\* What is collected are the files the installer left, but its leftovers.
LEMMA CollectStep ==
  ASSUME BuildsSound, NEW b \in Builder, CollectFiles(b)
  PROVE  Steps(b) /\ Sound(build'[b]) /\ KeepsToolchain(b)
<1>0. build[b].pc = "collect" BY DEF CollectFiles, BuildAt
<1>1. Shaped(build[b]) /\ Sound(build[b]) BY DEF BuildsSound, Sound
<1>2. CASE build' = [build EXCEPT ![b].pc = "remove", ![b].files = Collected(build[b].output)]
  <2>1. /\ Steps(b)
        /\ build'[b] = [build[b] EXCEPT !.pc = "remove", !.files = Collected(build[b].output)]
    BY <1>2 DEF BuildsSound, Steps
  <2>2. /\ Shaped(build'[b]) /\ build'[b].pc = "remove"
        /\ build'[b].files = Collected(build[b].output) /\ build'[b].output = build[b].output
        /\ build'[b].input = build[b].input /\ build'[b].toolchain = build[b].toolchain
    BY <1>1, <2>1 DEF Shaped
  <2> QED BY <1>0, <1>1, <2>1, <2>2 DEF KeepsToolchain, Sound, Began, HasOutput
<1>3. CASE build' = [build EXCEPT ![b].pc = "remove", ![b].code = "installer_failed"]
  <2>1. Steps(b) /\ build'[b] = [build[b] EXCEPT !.pc = "remove", !.code = "installer_failed"]
    BY <1>3 DEF BuildsSound, Steps
  <2>2. /\ Shaped(build'[b]) /\ build'[b].pc = "remove" /\ build'[b].code = "installer_failed"
        /\ build'[b].input = build[b].input /\ build'[b].toolchain = build[b].toolchain
    BY <1>1, <2>1 DEF Shaped
  <2> QED BY <1>0, <1>1, <2>1, <2>2, EarlySound DEF KeepsToolchain, Sound, Began
<1> QED BY <1>2, <1>3 DEF CollectFiles, Collected

\* The directory goes, the files stay.
LEMMA RemoveStep ==
  ASSUME BuildsSound, NEW b \in Builder, RemoveWorkspace(b)
  PROVE  Steps(b) /\ Sound(build'[b]) /\ KeepsToolchain(b)
<1>0. build[b].pc = "remove" BY DEF RemoveWorkspace, BuildAt
<1>1. CASE BuildFails(b, build[b].code) BY <1>1, Failing
<1>2. CASE build[b].code = "" /\ BuildGoto(b, "merge")
  <2>1. /\ Steps(b) /\ Shaped(build'[b]) /\ build'[b].pc = "merge"
        /\ build'[b].input = build[b].input /\ build'[b].toolchain = build[b].toolchain
        /\ build'[b].output = build[b].output /\ build'[b].files = build[b].files
    BY <1>2, Going
  <2>2. Sound(build[b]) BY DEF BuildsSound
  <2> QED BY <1>0, <1>2, <2>1, <2>2 DEF KeepsToolchain, Sound, Began, HasOutput
<1> QED BY <1>1, <1>2 DEF RemoveWorkspace
-----------------------------------------------------------------------------
(* The union of the files *)

\* The values of a function on a finite set are finitely many.
LEMMA FiniteValues ==
  ASSUME NEW f, IsFiniteSet(DOMAIN f)
  PROVE  /\ IsFiniteSet({f[x] : x \in DOMAIN f})
         /\ Cardinality({f[x] : x \in DOMAIN f}) <= Cardinality(DOMAIN f)
<1> DEFINE V == {f[x] : x \in DOMAIN f}
           g == [x \in DOMAIN f |-> f[x]]
<1>1. g \in Surjection(DOMAIN f, V) BY DEF Surjection
<1> QED BY <1>1, FS_Surjection

\* Two finite sets of paths that do not meet.
LEMMA DisjointUnion ==
  ASSUME NEW S, NEW T, IsFiniteSet(S), IsFiniteSet(T), S \cap T = {}
  PROVE  /\ IsFiniteSet(S \cup T)
         /\ Cardinality(S \cup T) = Cardinality(S) + Cardinality(T)
         /\ Cardinality(S) \in Nat /\ Cardinality(T) \in Nat
<1>1. Cardinality(S) \in Nat /\ Cardinality(T) \in Nat BY FS_CardinalityType
<1>2. Cardinality(S \cap T) = 0 BY FS_EmptySet
<1>3. IsFiniteSet(S \cup T)
      /\ Cardinality(S \cup T) = Cardinality(S) + Cardinality(T) - Cardinality(S \cap T)
  BY FS_Union
<1> QED BY <1>1, <1>2, <1>3

\* The paths of a sequence of records are finitely many.
LEMMA FinitePaths ==
  ASSUME NEW s, s \in Seq(Range(s))
  PROVE  IsFiniteSet(Paths(s)) /\ IsFiniteSet(DOMAIN s)
<1>1. DOMAIN s = 1 .. Len(s) /\ Len(s) \in Nat OBVIOUS
<1>2. IsFiniteSet(DOMAIN s) BY <1>1, FS_Interval
<1> DEFINE f == [i \in DOMAIN s |-> s[i].path]
<1>3. IsFiniteSet({f[x] : x \in DOMAIN f}) BY <1>2, FiniteValues
<1>4. {f[x] : x \in DOMAIN f} = Paths(s) BY DEF Paths
<1> QED BY <1>2, <1>3, <1>4

\* What is kept and what the bundle brings are finite.
LEMMA FiniteSources ==
  ASSUME NEW input \in Input, NEW output \in InstallerOutput
  PROVE  IsFiniteSet(DOMAIN Kept(output)) /\ IsFiniteSet(DOMAIN BundleContent(input.bundle))
<1>1. IsFiniteSet(DOMAIN Kept(output))
  <2>1. IsFiniteSet(DOMAIN output) BY InputAssumption
  <2>2. DOMAIN Kept(output) \in SUBSET DOMAIN output BY DEF Kept
  <2> QED BY <2>1, <2>2, FS_Subset
<1>2. IsFiniteSet(DOMAIN BundleContent(input.bundle))
  <2> DEFINE I == InstanceFilesOf(input.bundle)
             f == [q \in I |-> Tail(q)]
  <2>1. input.bundle.manifest.files \in Seq(Range(input.bundle.manifest.files)) BY InputAssumption
  <2>2. I \in SUBSET Paths(input.bundle.manifest.files) BY DEF InstanceFilesOf
  <2>3. IsFiniteSet(I) BY <2>1, <2>2, FinitePaths, FS_Subset
  <2>4. IsFiniteSet({f[x] : x \in DOMAIN f}) BY <2>3, FiniteValues
  <2>5. {f[x] : x \in DOMAIN f} = DOMAIN BundleContent(input.bundle) BY DEF BundleContent
  <2> QED BY <2>4, <2>5
<1> QED BY <1>1, <1>2

\* The first union: no path of the bundle is one of the installer's.
LEMMA FirstUnion ==
  ASSUME NEW input \in Input, NEW output \in InstallerOutput,
         CopyValidatedBundleContent(Collected(output), input.bundle)
  PROVE  UnionOf(Joined(Collected(output), BundleContent(input.bundle)), output, input, 0)
<1> DEFINE kept  == Collected(output)
           local == BundleContent(input.bundle)
           files == Joined(kept, local)
<1>1. DOMAIN kept = DOMAIN Kept(output) /\ \A p \in DOMAIN kept : kept[p] = AsFile(Kept(output)[p])
  BY DEF Collected
<1>2. IsFiniteSet(DOMAIN kept) /\ IsFiniteSet(DOMAIN local) BY <1>1, FiniteSources
<1>3. DOMAIN kept \cap DOMAIN local = {} BY DEF CopyValidatedBundleContent
<1> HIDE DEF kept, local
<1>4. /\ files = [p \in DOMAIN files |-> files[p]] /\ DOMAIN files = DOMAIN kept \cup DOMAIN local
      /\ \A p \in DOMAIN kept : files[p] = kept[p]
      /\ \A p \in DOMAIN local : files[p] = local[p]
  BY <1>3 DEF Joined
<1> HIDE DEF files
<1>5. /\ IsFiniteSet(DOMAIN files)
      /\ Cardinality(DOMAIN files) = Cardinality(DOMAIN kept) + Cardinality(DOMAIN local) + 0
  <2> DEFINE S == DOMAIN kept
             T == DOMAIN local
  <2>1. IsFiniteSet(S) /\ IsFiniteSet(T) /\ S \cap T = {} BY <1>2, <1>3
  <2> HIDE DEF S, T
  <2>2. /\ IsFiniteSet(S \cup T) /\ Cardinality(S \cup T) = Cardinality(S) + Cardinality(T)
        /\ Cardinality(S) \in Nat /\ Cardinality(T) \in Nat
    BY <2>1, DisjointUnion
  <2>3. DOMAIN files = S \cup T BY <1>4 DEF S, T
  <2>4. /\ IsFiniteSet(DOMAIN files)
        /\ Cardinality(DOMAIN files) = Cardinality(S) + Cardinality(T) + 0
    BY <2>2, <2>3
  <2> QED BY <2>4 DEF S, T
<1>6. UnionOf(files, output, input, 0)
  BY <1>1, <1>4, <1>5 DEF UnionOf, local
<1> QED BY <1>6 DEF files, kept, local

\* A mod whose folded path is free joins the union.
LEMMA NextUnion ==
  ASSUME NEW input \in Input, NEW output, NEW files, NEW n \in Nat, n < Len(input.frozen.mods),
         UnionOf(files, output, input, n), NEW mod, mod = input.frozen.mods[n + 1],
         ~ModCollides(files, Tail(mod.path)), output \in InstallerOutput
  PROVE  UnionOf(Joined(ModFiles(mod), files), output, input, n + 1)
<1> DEFINE path == Tail(mod.path)
           kept  == Kept(output)
           local == BundleContent(input.bundle)
           mods  == input.frozen.mods
           new   == Joined(ModFiles(mod), files)
<1>1. \A p \in DOMAIN files : Fold(p) # Fold(path) BY DEF ModCollides
<1>2. DOMAIN ModFiles(mod) = {path} /\ ModFiles(mod)[path] = ModFile(mod) BY DEF ModFiles
<1>3. /\ IsFiniteSet(DOMAIN files)
      /\ Cardinality(DOMAIN files) = Cardinality(DOMAIN kept) + Cardinality(DOMAIN local) + n
      /\ \A p \in DOMAIN kept : p \in DOMAIN files /\ files[p] = AsFile(kept[p])
      /\ \A p \in DOMAIN local : p \in DOMAIN files /\ files[p] = local[p]
  BY DEF UnionOf
<1>4. \A i \in 1 .. n :
        /\ Tail(mods[i].path) \in DOMAIN files
        /\ files[Tail(mods[i].path)] = ModFile(mods[i])
        /\ \A p \in DOMAIN files \ {Tail(mods[i].path)} : Fold(p) # Fold(Tail(mods[i].path))
  BY DEF UnionOf
<1> HIDE DEF path, kept, local
<1>5. path \notin DOMAIN files BY <1>1
<1>6. /\ new = [p \in DOMAIN new |-> new[p]] /\ DOMAIN new = DOMAIN files \cup {path}
      /\ new[path] = ModFile(mod) /\ \A p \in DOMAIN files : new[p] = files[p]
  BY <1>2, <1>5 DEF Joined
<1> HIDE DEF new
<1>7. IsFiniteSet(DOMAIN new) /\ Cardinality(DOMAIN new) = Cardinality(DOMAIN files) + 1
  BY <1>3, <1>5, <1>6, FS_AddElement
<1>8. Cardinality(DOMAIN kept) \in Nat /\ Cardinality(DOMAIN local) \in Nat
  BY FiniteSources, FS_CardinalityType DEF kept, local
<1>9. Cardinality(DOMAIN new) = Cardinality(DOMAIN kept) + Cardinality(DOMAIN local) + (n + 1)
  BY <1>3, <1>7, <1>8
<1>10. ASSUME NEW i \in 1 .. (n + 1)
       PROVE  /\ Tail(mods[i].path) \in DOMAIN new
              /\ new[Tail(mods[i].path)] = ModFile(mods[i])
              /\ \A p \in DOMAIN new \ {Tail(mods[i].path)} : Fold(p) # Fold(Tail(mods[i].path))
  <2>1. CASE i = n + 1
    <3>1. mods[i] = mod /\ Tail(mods[i].path) = path BY <2>1 DEF path
    <3> QED BY <1>1, <1>6, <3>1
  <2>2. CASE i \in 1 .. n BY <1>1, <1>4, <1>5, <1>6, <2>2
  <2>3. i = n + 1 \/ i \in 1 .. n OBVIOUS
  <2> QED BY <2>1, <2>2, <2>3
<1>11. UnionOf(new, output, input, n + 1)
  BY <1>3, <1>5, <1>6, <1>7, <1>9, <1>10 DEF UnionOf, kept, local
<1> QED BY <1>11 DEF new
-----------------------------------------------------------------------------
(* The actions that join files and pack them *)

\* The installer's files and the bundle's are merged.
LEMMA MergeStep ==
  ASSUME BuildsSound, NEW b \in Builder, Merge(b)
  PROVE  Steps(b) /\ Sound(build'[b]) /\ KeepsToolchain(b)
<1> DEFINE r == build[b]
           mods == r.input.frozen.mods
           joined == Joined(r.files, BundleContent(r.input.bundle))
<1>0. r.pc = "merge" BY DEF Merge, BuildAt
<1>1. Shaped(r) /\ Sound(r) BY DEF BuildsSound, Sound
<1>2. CASE \E code : BuildFails(b, code) BY <1>2, Failing
<1>3. CASE /\ CopyValidatedBundleContent(r.files, r.input.bundle)
           /\ build' = [build EXCEPT ![b].pc = "mods", ![b].mods = mods, ![b].files = joined]
  <2>1. r.input \in Input /\ r.output \in InstallerOutput /\ r.files = Collected(r.output)
        /\ ValidateBundle(r.input.bundle, r.input.frozen)
    BY <1>0, <1>1 DEF Sound, HasOutput, Began
  <2>2. UnionOf(joined, r.output, r.input, 0) BY <1>3, <2>1, FirstUnion
  <2>3. mods \in Seq(Range(mods)) BY <2>1, InputAssumption
  <2> HIDE DEF joined
  <2>4. Steps(b) /\ build'[b] = [r EXCEPT !.pc = "mods", !.mods = mods, !.files = joined]
    BY <1>3 DEF BuildsSound, Steps
  <2>5. /\ Shaped(build'[b]) /\ build'[b].pc = "mods" /\ build'[b].mods = mods
        /\ build'[b].files = joined /\ build'[b].output = r.output
        /\ build'[b].input = r.input /\ build'[b].toolchain = r.toolchain
    BY <1>1, <2>4 DEF Shaped
  <2>6. Added(build'[b]) = 0 /\ \A i \in DOMAIN mods : Added(build'[b]) + i = i
    BY <2>3, <2>5 DEF Added
  <2>7. /\ build'[b].mods \in Seq(Range(build'[b].input.frozen.mods))
        /\ Len(build'[b].mods) <= Len(build'[b].input.frozen.mods)
        /\ \A i \in DOMAIN build'[b].mods :
              build'[b].mods[i] = build'[b].input.frozen.mods[Added(build'[b]) + i]
    BY <2>3, <2>5, <2>6
  <2>8. UnionOf(build'[b].files, build'[b].output, build'[b].input, Added(build'[b]))
    BY <2>2, <2>5, <2>6
  <2>9. Sound(build'[b]) BY <2>1, <2>5, <2>7, <2>8 DEF Sound, HasOutput, Began
  <2> QED BY <1>0, <2>4, <2>5, <2>9 DEF KeepsToolchain
<1> QED BY <1>2, <1>3 DEF Merge

\* A mod whose path is free may be fetched.
LEMMA ModStep ==
  ASSUME BuildsSound, NEW b \in Builder, AddRemoteMod(b)
  PROVE  Steps(b) /\ Sound(build'[b]) /\ KeepsToolchain(b)
<1>0. build[b].pc = "mods" /\ build[b].mods # <<>> BY DEF AddRemoteMod, BuildAt
<1>1. CASE BuildFails(b, "remote_mod_collision") BY <1>1, Failing
<1>2. CASE ~ModCollides(build[b].files, Tail(Head(build[b].mods).path)) /\ BuildGoto(b, "fetchmod")
  <2>1. /\ Steps(b) /\ Shaped(build'[b]) /\ build'[b].pc = "fetchmod"
        /\ build'[b].input = build[b].input /\ build'[b].toolchain = build[b].toolchain
        /\ build'[b].output = build[b].output /\ build'[b].files = build[b].files
        /\ build'[b].mods = build[b].mods
    BY <1>2, Going
  <2>2. Sound(build[b]) BY DEF BuildsSound
  <2> QED BY <1>0, <1>2, <2>1, <2>2 DEF KeepsToolchain, Sound, Began, HasOutput, Added
<1> QED BY <1>1, <1>2 DEF AddRemoteMod

\* The head and the tail of a list.
LEMMA ListFacts ==
  ASSUME NEW S, NEW s \in Seq(S), s # <<>>
  PROVE  /\ Len(s) \in Nat \ {0} /\ 1 \in DOMAIN s /\ Head(s) = s[1]
         /\ Tail(s) \in Seq(S) /\ Len(Tail(s)) = Len(s) - 1
         /\ \A i \in DOMAIN Tail(s) :
               i \in Nat /\ i + 1 \in DOMAIN s /\ Tail(s)[i] = s[i + 1]
OBVIOUS

\* A fetched mod joins the files.
LEMMA FetchModStep ==
  ASSUME BuildsSound, NEW b \in Builder, FetchMod(b) \/ FetchModTimeout(b)
  PROVE  Steps(b) /\ Sound(build'[b]) /\ KeepsToolchain(b)
<1> DEFINE r == build[b]
           mods == r.input.frozen.mods
           mod == Head(r.mods)
           joined == Joined(ModFiles(mod), r.files)
<1>0. r.pc = "fetchmod" BY DEF FetchMod, FetchModTimeout, BuildAt
<1>1. Shaped(r) /\ Sound(r) BY DEF BuildsSound, Sound
<1>2. CASE BuildFails(b, "remote_mod_download") BY <1>2, Failing
<1>3. CASE build' = [build EXCEPT ![b].pc = "mods", ![b].mods = Tail(r.mods), ![b].files = joined]
  <2>1. /\ r.input \in Input /\ r.output \in InstallerOutput
        /\ ValidateBundle(r.input.bundle, r.input.frozen)
        /\ r.mods \in Seq(Range(mods)) /\ Len(r.mods) <= Len(mods) /\ r.mods # <<>>
        /\ \A i \in DOMAIN r.mods : r.mods[i] = mods[Added(r) + i]
        /\ UnionOf(r.files, r.output, r.input, Added(r))
        /\ ~ModCollides(r.files, Tail(mod.path))
    BY <1>0, <1>1 DEF Sound, HasOutput, Began
  <2>2. mods \in Seq(Range(mods)) BY <2>1, InputAssumption
  <2>3. /\ Len(r.mods) \in Nat \ {0} /\ Len(mods) \in Nat /\ Added(r) \in Nat
        /\ Added(r) < Len(mods) /\ mod = mods[Added(r) + 1]
    <3>1. Len(r.mods) \in Nat \ {0} /\ 1 \in DOMAIN r.mods /\ mod = r.mods[1]
      BY <2>1, ListFacts
    <3>2. Len(mods) \in Nat BY <2>2
    <3>3. Len(r.mods) <= Len(mods) BY <2>1
    <3> DEFINE all  == Len(mods)
               left == Len(r.mods)
    <3>4. all \in Nat /\ left \in Nat \ {0} /\ left <= all BY <3>1, <3>2, <3>3
    <3> HIDE DEF all, left
    <3>5. all - left \in Nat /\ all - left < all BY <3>4
    <3>6. Added(r) \in Nat /\ Added(r) < Len(mods) BY <3>5 DEF Added, all, left
    <3> QED BY <2>1, <3>1, <3>2, <3>6
  <2>4. UnionOf(joined, r.output, r.input, Added(r) + 1)
    BY <2>1, <2>3, NextUnion
  <2> HIDE DEF joined
  <2>5. Steps(b) /\ build'[b] = [r EXCEPT !.pc = "mods", !.mods = Tail(r.mods), !.files = joined]
    BY <1>3 DEF BuildsSound, Steps
  <2>6. /\ Shaped(build'[b]) /\ build'[b].pc = "mods" /\ build'[b].mods = Tail(r.mods)
        /\ build'[b].files = joined /\ build'[b].output = r.output
        /\ build'[b].input = r.input /\ build'[b].toolchain = r.toolchain
    BY <1>1, <2>5 DEF Shaped
  <2>7. /\ Tail(r.mods) \in Seq(Range(mods)) /\ Len(Tail(r.mods)) = Len(r.mods) - 1
        /\ \A i \in DOMAIN Tail(r.mods) :
              i \in Nat /\ i + 1 \in DOMAIN r.mods /\ Tail(r.mods)[i] = r.mods[i + 1]
    BY <2>1, ListFacts
  <2>8. Added(build'[b]) = Added(r) + 1
    <3>1. Len(mods) - (Len(r.mods) - 1) = (Len(mods) - Len(r.mods)) + 1 BY <2>3
    <3> QED BY <2>6, <2>7, <3>1 DEF Added
  <2>9. ASSUME NEW i \in DOMAIN Tail(r.mods)
        PROVE  Tail(r.mods)[i] = mods[Added(build'[b]) + i]
    <3>1. i \in Nat /\ Tail(r.mods)[i] = mods[Added(r) + (i + 1)] BY <2>1, <2>7
    <3>2. Added(r) + (i + 1) = (Added(r) + 1) + i BY <2>3, <3>1
    <3> QED BY <2>8, <3>1, <3>2
  <2>10. Len(Tail(r.mods)) <= Len(mods) BY <2>1, <2>3, <2>7
  <2>11. Sound(build'[b])
    BY <2>1, <2>4, <2>6, <2>7, <2>8, <2>9, <2>10 DEF Sound, HasOutput, Began
  <2> QED BY <1>0, <2>5, <2>6, <2>11 DEF KeepsToolchain
<1> QED BY <1>2, <1>3 DEF FetchMod, FetchModTimeout

\* The generated files join last; nothing had their paths.
LEMMA GeneratedStep ==
  ASSUME BuildsSound, NEW b \in Builder, AddGeneratedFiles(b)
  PROVE  Steps(b) /\ Sound(build'[b]) /\ KeepsToolchain(b)
<1> DEFINE r == build[b]
           mods == r.input.frozen.mods
           joined == Joined(GeneratedFiles(r.toolchain), r.files)
<1>0. r.pc = "mods" /\ r.mods = <<>> BY DEF AddGeneratedFiles, BuildAt
<1>1. Shaped(r) /\ Sound(r) BY DEF BuildsSound, Sound
<1>2. CASE BuildFails(b, "invalid_installer_output") BY <1>2, Failing
<1>3. CASE /\ Generated \cap DOMAIN r.files = {}
           /\ build' = [build EXCEPT ![b].pc = "pack", ![b].files = joined]
  <2>1. /\ r.input \in Input /\ r.output \in InstallerOutput
        /\ ValidateBundle(r.input.bundle, r.input.frozen)
        /\ UnionOf(r.files, r.output, r.input, Added(r))
    BY <1>0, <1>1 DEF Sound, HasOutput, Began
  <2>2. mods \in Seq(Range(mods)) BY <2>1, InputAssumption
  <2>3. Added(r) = Len(mods) BY <1>0, <2>2 DEF Added
  <2>4. r.files = [p \in DOMAIN r.files |-> r.files[p]] BY <2>1 DEF UnionOf
  <2>5. r.files = [p \in DOMAIN joined \ Generated |-> joined[p]]
    BY <1>3, <2>4 DEF Joined, GeneratedFiles
  <2> HIDE DEF joined
  <2>6. Steps(b) /\ build'[b] = [r EXCEPT !.pc = "pack", !.files = joined]
    BY <1>3 DEF BuildsSound, Steps
  <2>7. /\ Shaped(build'[b]) /\ build'[b].pc = "pack"
        /\ build'[b].files = joined /\ build'[b].output = r.output
        /\ build'[b].input = r.input /\ build'[b].toolchain = r.toolchain
    BY <1>1, <2>6 DEF Shaped
  <2>8. AllJoined(joined, r.output, r.input, r.toolchain)
    BY <2>1, <2>3, <2>5 DEF joined, AllJoined
  <2>9. Sound(build'[b]) BY <2>1, <2>7, <2>8 DEF Sound, HasOutput, Began
  <2> QED BY <1>0, <2>6, <2>7, <2>9 DEF KeepsToolchain
<1> QED BY <1>2, <1>3 DEF AddGeneratedFiles

\* The archive has one header per file.
LEMMA PackageStep ==
  ASSUME BuildsSound, NEW b \in Builder, Package(b)
  PROVE  Steps(b) /\ Sound(build'[b]) /\ KeepsToolchain(b)
<1> DEFINE r == build[b]
           archive == RawZstd(PackageTar(r.files))
<1>0. r.pc = "pack" BY DEF Package, BuildAt
<1>1. Shaped(r) /\ Sound(r) BY DEF BuildsSound, Sound
<1>2. CASE \E code : BuildFails(b, code) BY <1>2, Failing
<1>3. CASE build' = [build EXCEPT ![b].pc = "verify", ![b].archive = archive]
  <2>1. archive.tar.headers =
           {[at |-> SplitTarPath(p), file |-> r.files[p]] : p \in DOMAIN r.files}
    BY DEF RawZstd, PackageTar
  <2> HIDE DEF archive
  <2>2. Steps(b) /\ build'[b] = [r EXCEPT !.pc = "verify", !.archive = archive]
    BY <1>3 DEF BuildsSound, Steps
  <2>3. /\ Shaped(build'[b]) /\ build'[b].pc = "verify" /\ build'[b].archive = archive
        /\ build'[b].files = r.files /\ build'[b].output = r.output
        /\ build'[b].input = r.input /\ build'[b].toolchain = r.toolchain
    BY <1>1, <2>2 DEF Shaped
  <2>4. Sound(build'[b]) BY <1>0, <1>1, <2>1, <2>3 DEF Sound, HasOutput, Began
  <2> QED BY <1>0, <2>2, <2>3, <2>4 DEF KeepsToolchain
<1> QED BY <1>2, <1>3 DEF Package

\* Only an archive that reads back is handed over.
LEMMA VerifyStep ==
  ASSUME BuildsSound, NEW b \in Builder, VerifyContent(b)
  PROVE  Steps(b) /\ Sound(build'[b]) /\ KeepsToolchain(b)
<1>0. build[b].pc = "verify" BY DEF VerifyContent, BuildAt
<1>1. CASE BuildFails(b, "invalid_content") BY <1>1, Failing
<1>2. CASE ValidateImmutableContent(build[b].archive, build[b].files) /\ BuildGoto(b, "done")
  <2>1. /\ Steps(b) /\ Shaped(build'[b]) /\ build'[b].pc = "done"
        /\ build'[b].input = build[b].input /\ build'[b].toolchain = build[b].toolchain
        /\ build'[b].output = build[b].output /\ build'[b].files = build[b].files
        /\ build'[b].archive = build[b].archive
    BY <1>2, Going
  <2>2. Sound(build[b]) BY DEF BuildsSound
  <2> QED BY <1>0, <1>2, <2>1, <2>2 DEF KeepsToolchain, Sound, Began, HasOutput
<1> QED BY <1>1, <1>2 DEF VerifyContent

\* A build that returned leaves nothing.
LEMMA ReturnStep ==
  ASSUME BuildsSound, NEW b \in Builder, Return(b)
  PROVE  Steps(b) /\ Sound(build'[b]) /\ KeepsToolchain(b)
<1>1. Steps(b) /\ build'[b] = Idle BY DEF Return, BuildsSound, Steps
<1> QED BY <1>1, IdleSound DEF KeepsToolchain
-----------------------------------------------------------------------------
(* Sums *)

\* The least number of a set.
LEMMA MinIsLeast ==
  ASSUME NEW S, S \subseteq Nat, S # {}
  PROVE  Min(S) \in S /\ \A y \in S : Min(S) <= y
<1>1. PICK x \in S : \A y \in S : ~(<<y, x>> \in OpToRel(<, Nat))
  BY NatLessThanWellFounded, WFMin
<1>2. ASSUME NEW y \in S PROVE x <= y
  <2>1. x \in Nat /\ y \in Nat OBVIOUS
  <2>2. ~(y < x) BY <1>1, <2>1 DEF OpToRel
  <2> QED BY <2>1, <2>2
<1>3. \E z \in S : \A y \in S : z <= y BY <1>2
<1> QED BY <1>3 DEF Min

\* The element the fold takes next, and the sets of at most n elements.
Pick(s) == CHOOSE x \in s : TRUE
Upto(S, n) == {s \in SUBSET S : Cardinality(s) <= n}

\* g adds up f over the sets of C, element by element.
Adds(g, f, C) == g = [s \in C |->
    IF s = {} THEN 0 ELSE f[Pick(s)] + g[s \ {Pick(s)}]]

\* The library's sum is a fold over the subsets.
LEMMA SumIsFold ==
  ASSUME NEW f, NEW S
  PROVE  SumFunctionOnSet(f, S) = (CHOOSE g : Adds(g, f, SUBSET S))[S]
BY DEF SumFunctionOnSet, FoldFunctionOnSet, MapThenFoldSet, Adds, Pick

\* Without the element that is taken next a set is smaller by one.
LEMMA Smaller ==
  ASSUME NEW S, IsFiniteSet(S), NEW s \in SUBSET S, s # {}
  PROVE  /\ Pick(s) \in s /\ s \ {Pick(s)} \in SUBSET S
         /\ Cardinality(s) \in Nat \ {0}
         /\ Cardinality(s \ {Pick(s)}) = Cardinality(s) - 1
<1>1. Pick(s) \in s BY DEF Pick
<1>2. IsFiniteSet(s) BY FS_Subset
<1>3. Cardinality(s) \in Nat /\ Cardinality(s) # 0 BY <1>2, FS_CardinalityType, FS_EmptySet
<1>4. Cardinality(s \ {Pick(s)}) = Cardinality(s) - 1 BY <1>1, <1>2, FS_RemoveElement
<1> QED BY <1>1, <1>3, <1>4

\* A fold over small sets extends to sets with one more element.
LEMMA AddsOneMore ==
  ASSUME NEW S, IsFiniteSet(S), NEW f, NEW n \in Nat, NEW g, Adds(g, f, Upto(S, n))
  PROVE  \E h : Adds(h, f, Upto(S, n + 1))
<1> DEFINE h == [s \in Upto(S, n + 1) |-> IF s = {} THEN 0 ELSE f[Pick(s)] + g[s \ {Pick(s)}]]
<1>1. ASSUME NEW t \in Upto(S, n) PROVE t \in Upto(S, n + 1) /\ h[t] = g[t]
  <2>1. t \in SUBSET S /\ Cardinality(t) <= n BY DEF Upto
  <2>2. Cardinality(t) \in Nat BY <2>1, FS_Subset, FS_CardinalityType
  <2>3. t \in Upto(S, n + 1) BY <2>1, <2>2 DEF Upto
  <2>4. g[t] = IF t = {} THEN 0 ELSE f[Pick(t)] + g[t \ {Pick(t)}] BY DEF Adds
  <2> QED BY <2>3, <2>4
<1>2. ASSUME NEW s \in Upto(S, n + 1), s # {} PROVE h[s \ {Pick(s)}] = g[s \ {Pick(s)}]
  <2>1. s \in SUBSET S /\ Cardinality(s) <= n + 1 BY DEF Upto
  <2>2. s \ {Pick(s)} \in Upto(S, n) BY <1>2, <2>1, Smaller DEF Upto
  <2> QED BY <1>1, <2>2
<1>3. Adds(h, f, Upto(S, n + 1)) BY <1>2 DEF Adds
<1> QED BY <1>3

\* Hence there is one over all subsets of a finite set.
LEMMA SumExists ==
  ASSUME NEW S, IsFiniteSet(S), NEW f
  PROVE  \E g : Adds(g, f, SUBSET S)
<1> DEFINE Bad == {n \in Nat : ~\E g : Adds(g, f, Upto(S, n))}
<1>1. Bad \in SUBSET Nat /\ \A n \in Nat : n \notin Bad => \E g : Adds(g, f, Upto(S, n)) OBVIOUS
<1>2. 0 \notin Bad
  <2> DEFINE g == [s \in Upto(S, 0) |-> 0]
  <2>1. ASSUME NEW s \in Upto(S, 0) PROVE s = {}
    BY FS_Subset, FS_CardinalityType, FS_EmptySet DEF Upto
  <2>2. Adds(g, f, Upto(S, 0)) BY <2>1 DEF Adds
  <2> QED BY <2>2
<1>3. ASSUME NEW n \in Nat, n \notin Bad PROVE n + 1 \notin Bad
  <2>1. PICK g : Adds(g, f, Upto(S, n)) BY <1>3
  <2> QED BY <2>1, AddsOneMore
<1> HIDE DEF Bad
<1>4. Bad = {}
  <2> SUFFICES ASSUME Bad # {} PROVE FALSE OBVIOUS
  <2>1. PICK n \in Bad : \A k \in Bad : n <= k BY <1>1, MinIsLeast
  <2>2. n \in Nat /\ n # 0 BY <1>1, <1>2
  <2>3. n - 1 \in Nat /\ n - 1 \notin Bad BY <2>1, <2>2
  <2>4. (n - 1) + 1 \notin Bad BY <1>3, <2>3
  <2> QED BY <2>2, <2>4
<1>5. Upto(S, Cardinality(S)) = SUBSET S BY FS_Subset DEF Upto
<1>6. Cardinality(S) \in Nat BY FS_CardinalityType
<1>7. \E g : Adds(g, f, Upto(S, Cardinality(S))) BY <1>1, <1>4, <1>6
<1> QED BY <1>5, <1>7

\* A sum over a finite set can be taken element by element.
LEMMA SumUnfolds ==
  ASSUME NEW S, IsFiniteSet(S), NEW f
  PROVE  \E g : Adds(g, f, SUBSET S) /\ SumFunctionOnSet(f, S) = g[S]
<1> DEFINE g == CHOOSE g : Adds(g, f, SUBSET S)
<1>1. Adds(g, f, SUBSET S) BY SumExists
<1>2. SumFunctionOnSet(f, S) = g[S] BY SumIsFold
<1> HIDE DEF g
<1> QED BY <1>1, <1>2

\* Induction over a finite set: G holds {} and, with a set that lacks the element
\* taken next, the set itself.
LEMMA SetInduction ==
  ASSUME NEW S, IsFiniteSet(S), NEW G, {} \in G,
         \A s \in SUBSET S : s # {} /\ s \ {Pick(s)} \in G => s \in G
  PROVE  S \in G
<1> DEFINE Bad == {n \in Nat : \E s \in SUBSET S : Cardinality(s) = n /\ s \notin G}
<1>1. Bad = {}
  <2> SUFFICES ASSUME Bad # {} PROVE FALSE OBVIOUS
  <2>1. Bad \subseteq Nat OBVIOUS
  <2>2. PICK n \in Bad : \A k \in Bad : n <= k
    <3> HIDE DEF Bad
    <3> QED BY <2>1, MinIsLeast
  <2>3. PICK s \in SUBSET S : Cardinality(s) = n /\ s \notin G BY <2>2
  <2>4. s # {} BY <2>3
  <2>5. s \ {Pick(s)} \in SUBSET S /\ n \in Nat \ {0} /\ Cardinality(s \ {Pick(s)}) = n - 1
    BY <2>3, <2>4, Smaller
  <2>6. n - 1 \in Nat /\ ~(n <= n - 1) BY <2>5
  <2>7. n - 1 \in Bad BY <2>3, <2>4, <2>5, <2>6
  <2> QED
    <3> HIDE DEF Bad
    <3> QED BY <2>2, <2>6, <2>7
<1>2. IsFiniteSet(S) /\ Cardinality(S) \in Nat BY FS_CardinalityType
<1> QED BY <1>1, <1>2

\* Terms that exceed those of another sum by at most K each.
LEMMA SumsCompare ==
  ASSUME NEW S, IsFiniteSet(S), NEW f \in [S -> Nat], NEW h \in [S -> Nat], NEW K \in Nat,
         \A x \in S : h[x] <= f[x] + K
  PROVE  /\ SumFunction(f) \in Nat /\ SumFunction(h) \in Nat
         /\ SumFunction(h) <= SumFunction(f) + Cardinality(S) * K
<1>1. PICK a : Adds(a, f, SUBSET S) /\ SumFunctionOnSet(f, S) = a[S] BY SumUnfolds
<1>2. PICK b : Adds(b, h, SUBSET S) /\ SumFunctionOnSet(h, S) = b[S] BY SumUnfolds
<1> DEFINE G == {s \in SUBSET S : a[s] \in Nat /\ b[s] \in Nat /\ b[s] <= a[s] + Cardinality(s) * K}
<1>3. {} \in G
  <2>1. a[{}] = 0 /\ b[{}] = 0 BY <1>1, <1>2 DEF Adds
  <2>2. Cardinality({}) = 0 BY FS_EmptySet
  <2>3. 0 <= 0 + 0 * K OBVIOUS
  <2> QED BY <2>1, <2>2, <2>3
<1>4. ASSUME NEW s \in SUBSET S, s # {}, s \ {Pick(s)} \in G PROVE s \in G
  <2> DEFINE x == Pick(s)
             c == Cardinality(s \ {x})
  <2>0. Pick(s) \in s /\ Cardinality(s) \in Nat \ {0} /\ Cardinality(s \ {Pick(s)}) = Cardinality(s) - 1
    BY <1>4, Smaller
  <2>1. x \in S /\ Cardinality(s) = c + 1 /\ c \in Nat BY <2>0
  <2>2. a[s] = f[x] + a[s \ {x}] BY <1>1, <1>4 DEF Adds
  <2>3. b[s] = h[x] + b[s \ {x}] BY <1>2, <1>4 DEF Adds
  <2>4. f[x] \in Nat /\ h[x] \in Nat /\ h[x] <= f[x] + K BY <2>1
  <2>5. a[s \ {x}] \in Nat /\ b[s \ {x}] \in Nat /\ b[s \ {x}] <= a[s \ {x}] + c * K BY <1>4
  <2> HIDE DEF x, c
  <2>6. (c + 1) * K = c * K + K /\ c * K \in Nat BY <2>1
  <2>7. a[s] \in Nat /\ b[s] \in Nat /\ b[s] <= a[s] + (c + 1) * K
    BY <2>2, <2>3, <2>4, <2>5, <2>6
  <2> QED BY <2>1, <2>7
<1>5. S \in G
  <2> HIDE DEF G
  <2> QED BY <1>3, <1>4, SetInduction
<1> QED BY <1>1, <1>2, <1>5 DEF SumFunction

\* Terms of at most K, with one place c where the bound is off by d.
LEMMA SumIsCapped ==
  ASSUME NEW S, IsFiniteSet(S), NEW h \in [S -> Nat], NEW K \in Nat, NEW c \in S, NEW d \in Int,
         \A x \in S : h[x] <= IF x = c THEN K + d ELSE K
  PROVE  SumFunction(h) \in Nat /\ SumFunction(h) <= Cardinality(S) * K + d
<1>1. PICK b : Adds(b, h, SUBSET S) /\ SumFunctionOnSet(h, S) = b[S] BY SumUnfolds
<1> DEFINE Off(s) == IF c \in s THEN d ELSE 0
           G == {s \in SUBSET S : b[s] \in Nat /\ b[s] <= Cardinality(s) * K + Off(s)}
<1>3. {} \in G
  <2>1. b[{}] = 0 BY <1>1 DEF Adds
  <2>2. Cardinality({}) = 0 BY FS_EmptySet
  <2>3. 0 <= 0 * K + 0 OBVIOUS
  <2> QED BY <2>1, <2>2, <2>3
<1>4. ASSUME NEW s \in SUBSET S, s # {}, s \ {Pick(s)} \in G PROVE s \in G
  <2> DEFINE x == Pick(s)
             k == Cardinality(s \ {x})
  <2>0. Pick(s) \in s /\ Cardinality(s) \in Nat \ {0} /\ Cardinality(s \ {Pick(s)}) = Cardinality(s) - 1
    BY <1>4, Smaller
  <2>1. x \in s /\ x \in S /\ Cardinality(s) = k + 1 /\ k \in Nat BY <2>0
  <2>3. b[s] = h[x] + b[s \ {x}] BY <1>1, <1>4 DEF Adds
  <2>4. h[x] \in Nat /\ h[x] <= (IF x = c THEN K + d ELSE K) BY <2>1
  <2>5. b[s \ {x}] \in Nat /\ b[s \ {x}] <= k * K + Off(s \ {x}) BY <1>4
  <2> HIDE DEF x, k
  <2>6. (k + 1) * K = k * K + K /\ k * K \in Nat BY <2>1
  <2>7. b[s] \in Nat /\ b[s] <= (k + 1) * K + Off(s)
    BY <2>1, <2>3, <2>4, <2>5, <2>6
  <2> QED BY <2>1, <2>7
<1>5. S \in G
  <2> HIDE DEF G
  <2> QED BY <1>3, <1>4, SetInduction
<1> QED BY <1>1, <1>5 DEF SumFunction

\* Quotient and remainder.
LEMMA Division ==
  ASSUME NEW a \in Nat, NEW b \in Nat \ {0}
  PROVE  /\ a \div b \in Nat /\ b * (a \div b) <= a /\ a < b * (a \div b) + b
         /\ a % b \in 0 .. b - 1
OBVIOUS

\* The quotient grows with the dividend.
LEMMA DivisionGrows ==
  ASSUME NEW a \in Nat, NEW b \in Nat \ {0}, NEW e \in Nat, a <= e
  PROVE  a \div b <= e \div b
<1> DEFINE q == a \div b
           r == e \div b
<1>1. q \in Nat /\ b * q <= a BY Division
<1>2. r \in Nat /\ e < b * r + b BY Division
<1> HIDE DEF q, r
<1>3. b * q < b * (r + 1) BY <1>1, <1>2
<1>4. ~(r + 1 <= q)
  <2> SUFFICES ASSUME r + 1 <= q PROVE FALSE OBVIOUS
  <2>1. q - (r + 1) \in Nat BY <1>1, <1>2
  <2>2. b * (q - (r + 1)) \in Nat BY <2>1
  <2>3. b * (q - (r + 1)) = b * q - b * (r + 1) BY <1>1, <1>2
  <2> QED BY <1>1, <1>2, <1>3, <2>2, <2>3
<1>5. q <= r BY <1>1, <1>2, <1>4
<1> QED BY <1>5 DEF q, r
-----------------------------------------------------------------------------
(* Sizes of packages *)

\* Files with sizes.
Sized(files) == IsFiniteSet(DOMAIN files) /\ \A p \in DOMAIN files : files[p].size \in Nat

\* A header and padding take less than two blocks.
LEMMA PaddedAdds ==
  ASSUME NEW size \in Nat
  PROVE  Padded(size) \in Nat /\ Padded(size) <= size + (2 * TarBlock - 1)
<1>1. TarBlock \in Nat \ {0} BY LimitsAssumption
<1>2. size % TarBlock \in 0 .. TarBlock - 1 BY <1>1, Division
<1>3. TarBlock - (size % TarBlock) \in Nat BY <1>1, <1>2
<1>4. (TarBlock - (size % TarBlock)) % TarBlock \in 0 .. TarBlock - 1 BY <1>1, <1>3, Division
<1> QED BY <1>1, <1>4 DEF Padded

\* The tar of files within the input limits is within its own.
LEMMA TarIsWithinLimit ==
  ASSUME NEW files, Sized(files), ValidateOutputFiles(files)
  PROVE  PackageTar(files).size \in Nat /\ TarFits(PackageTar(files))
<1> DEFINE S == DOMAIN files
           K == 2 * TarBlock - 1
           f == Sizes(files)
           h == [p \in S |-> Padded(files[p].size)]
<1>1. TarBlock \in Nat \ {0} /\ K \in Nat BY LimitsAssumption
<1>2. f \in [S -> Nat] /\ h \in [S -> Nat] /\ IsFiniteSet(S) BY PaddedAdds DEF Sizes, Sized
<1>3. \A p \in S : h[p] <= f[p] + K BY PaddedAdds DEF Sizes, Sized
<1>4. PackageTar(files).size = SumFunction(h) + 2 * TarBlock BY DEF PackageTar
<1>5. Cardinality(S) \in 2 .. MaxFiles /\ SumFunction(f) <= MaxPackageInputBytes
  BY DEF ValidateOutputFiles, OutputSizeWithinLimit
<1> HIDE DEF f, h, K, S
<1>6. /\ SumFunction(f) \in Nat /\ SumFunction(h) \in Nat
      /\ SumFunction(h) <= SumFunction(f) + Cardinality(S) * K
  BY <1>1, <1>2, <1>3, SumsCompare
<1>7. MaxFiles \in Nat /\ MaxPackageInputBytes \in Nat /\ MaxPackageTarBytes \in Nat
  BY LimitsAssumption
<1>8. Cardinality(S) * K <= MaxFiles * K /\ MaxFiles * K \in Nat /\ Cardinality(S) * K \in Nat
  <2>1. Cardinality(S) \in Nat /\ MaxFiles - Cardinality(S) \in Nat BY <1>5, <1>7
  <2>2. (MaxFiles - Cardinality(S)) * K \in Nat BY <1>1, <2>1
  <2>3. (MaxFiles - Cardinality(S)) * K = MaxFiles * K - Cardinality(S) * K BY <1>1, <1>7, <2>1
  <2>4. MaxFiles * K \in Nat /\ Cardinality(S) * K \in Nat BY <1>1, <1>7, <2>1
  <2> QED BY <2>2, <2>3, <2>4
<1>9. MaxPackageInputBytes + MaxFiles * K + 2 * TarBlock <= MaxPackageTarBytes
  BY LimitsAssumption DEF K
<1>10. SumFunction(h) + 2 * TarBlock \in Nat BY <1>1, <1>6
<1>11. SumFunction(h) + 2 * TarBlock <= MaxPackageTarBytes
  BY <1>1, <1>5, <1>6, <1>7, <1>8, <1>9
<1> QED BY <1>4, <1>10, <1>11 DEF TarFits

\* The lesser of two numbers.
LEMMA MinOfTwo ==
  ASSUME NEW a \in Int, NEW b \in Int
  PROVE  Min({a, b}) = IF a <= b THEN a ELSE b
BY DEF Min

\* The frame of a tar within its limit is within that of an archive.
LEMMA ArchiveIsWithinLimit ==
  ASSUME NEW tar, tar.size \in Nat, TarFits(tar)
  PROVE  ArchiveFits(RawZstd(tar))
<1> DEFINE t == tar.size
           Z == ZstdBlock
           n == (t + Z - 1) \div Z
           h == [i \in 1 .. n |-> Min({Z, t - (i - 1) * Z})]
           top == (MaxPackageTarBytes + Z - 1) \div Z
<1>1. t \in Nat /\ Z \in Nat \ {0} /\ MaxPackageTarBytes \in Nat /\ MaxPackageArchiveBytes \in Nat
  BY LimitsAssumption
<1>2. t <= MaxPackageTarBytes BY DEF TarFits
<1>3. t + Z - 1 \in Nat /\ MaxPackageTarBytes + Z - 1 \in Nat
      /\ t + Z - 1 <= MaxPackageTarBytes + Z - 1 BY <1>1, <1>2
<1>4. n \in Nat /\ top \in Nat /\ Z * n <= t + Z - 1 /\ t + Z - 1 < Z * n + Z
  BY <1>1, <1>3, Division
<1>5. n <= top BY <1>1, <1>3, DivisionGrows
<1>6. /\ BlockBytes(RawZstd(tar)) = h /\ Len(RawZstd(tar).blocks) = n
  BY <1>4 DEF BlockBytes, RawZstd
<1>7. 9 + MaxPackageTarBytes + 3 * top <= MaxPackageArchiveBytes BY LimitsAssumption
<1>8. SumFunction(h) \in Nat /\ SumFunction(h) <= t
  <2> HIDE DEF n, t, Z
  <2>1. ASSUME NEW i \in 1 .. n
        PROVE  h[i] \in Nat /\ h[i] <= IF i = n THEN Z + (t - n * Z) ELSE Z
    <3>1. i \in Int /\ n - i \in Nat /\ i - 1 \in Nat BY <1>4
    <3>2. (n - i) * Z \in Nat /\ (n - i) * Z = n * Z - i * Z /\ (i - 1) * Z = i * Z - Z
          /\ n * Z \in Nat /\ i * Z \in Nat /\ Z * n = n * Z /\ (i - 1) * Z \in Nat
      BY <1>1, <1>4, <3>1
    <3>3. t - (i - 1) * Z \in Nat BY <1>1, <1>4, <3>2
    <3>4. h[i] = IF Z <= t - (i - 1) * Z THEN Z ELSE t - (i - 1) * Z BY <1>1, <3>3, MinOfTwo
    <3> QED BY <1>1, <1>4, <3>1, <3>2, <3>3, <3>4
  <2>2. IsFiniteSet(1 .. n) /\ Cardinality(1 .. n) = n BY <1>4, FS_Interval
  <2>3. CASE n = 0
    <3>1. 1 .. n = {} BY <2>3
    <3>2. PICK b : Adds(b, h, SUBSET (1 .. n)) /\ SumFunctionOnSet(h, 1 .. n) = b[1 .. n]
      BY <2>2, SumUnfolds
    <3>3. b[1 .. n] = 0 BY <3>1, <3>2 DEF Adds
    <3> QED BY <1>1, <3>2, <3>3 DEF SumFunction
  <2>4. CASE n # 0
    <3>1. n \in 1 .. n /\ t - n * Z \in Int /\ n * Z \in Nat BY <1>1, <1>4, <2>4
    <3>3. h \in [1 .. n -> Nat] BY <2>1
    <3> HIDE DEF h
    <3>2. SumFunction(h) \in Nat /\ SumFunction(h) <= n * Z + (t - n * Z)
      BY <1>1, <2>1, <2>2, <3>1, <3>3, SumIsCapped
    <3> QED BY <1>1, <3>1, <3>2
  <2> QED BY <2>3, <2>4
<1> HIDE DEF n, t, Z, h, top
<1>9. 9 + SumFunction(h) + 3 * n <= MaxPackageArchiveBytes
  BY <1>1, <1>2, <1>4, <1>5, <1>7, <1>8
<1> QED BY <1>6, <1>9 DEF ArchiveFits, ArchiveBytes
-----------------------------------------------------------------------------
(* The package and its archive *)

\* The two generated paths are two.
LEMMA TwoGenerated == IsFiniteSet(Generated) /\ Cardinality(Generated) = 2
<1>1. RuntimeJson # LaunchSh
  <2>1. RuntimeJson[2].text = "runtime.json" /\ LaunchSh[2].text = "launch.sh"
    BY DEF RuntimeJson, LaunchSh, Segment
  <2> QED BY <2>1
<1>2. IsFiniteSet({RuntimeJson}) /\ Cardinality({RuntimeJson}) = 1 BY FS_Singleton
<1>3. /\ IsFiniteSet({RuntimeJson} \cup {LaunchSh})
      /\ Cardinality({RuntimeJson} \cup {LaunchSh}) = 2
  BY <1>1, <1>2, FS_AddElement
<1>4. Generated = {RuntimeJson} \cup {LaunchSh} BY DEF Generated
<1> QED BY <1>3, <1>4

\* before is the union with all mods, and files adds the two generated ones.
AllBut(before, files, output, input) ==
    /\ UnionOf(before, output, input, Len(input.frozen.mods))
    /\ DOMAIN files = DOMAIN before \cup Generated
    /\ \A p \in DOMAIN before : files[p] = before[p]
    /\ Cardinality(DOMAIN files) = Cardinality(DOMAIN before) + 2

\* The files of a package are finitely many, and known path by path.
LEMMA FilesAtEnd ==
  ASSUME NEW files, NEW output \in InstallerOutput, NEW input \in Input, NEW toolchain,
         AllJoined(files, output, input, toolchain)
  PROVE  /\ files = [p \in DOMAIN files |-> files[p]] /\ IsFiniteSet(DOMAIN files)
         /\ \E before : AllBut(before, files, output, input)
<1>1. PICK before :
         /\ before = [p \in DOMAIN files \ Generated |-> files[p]]
         /\ UnionOf(before, output, input, Len(input.frozen.mods))
         /\ files = Joined(GeneratedFiles(toolchain), before)
  BY DEF AllJoined
<1> DEFINE S == DOMAIN before
<1>2. S \cap Generated = {} /\ \A p \in S : files[p] = before[p] BY <1>1
<1>3. IsFiniteSet(S) BY <1>1 DEF UnionOf
<1>4. DOMAIN files = S \cup Generated /\ files = [p \in DOMAIN files |-> files[p]]
  BY <1>1 DEF Joined, GeneratedFiles
<1> HIDE DEF S
<1>5. IsFiniteSet(S \cup Generated) /\ Cardinality(S \cup Generated) = Cardinality(S) + 2
  BY <1>2, <1>3, TwoGenerated, DisjointUnion
<1>6. IsFiniteSet(DOMAIN files) /\ Cardinality(DOMAIN files) = Cardinality(DOMAIN before) + 2
  BY <1>4, <1>5 DEF S
<1>7. AllBut(before, files, output, input) BY <1>1, <1>2, <1>4, <1>6 DEF S, AllBut
<1> QED BY <1>4, <1>6, <1>7

\* An archive that holds every entry, and as many headers as there are entries,
\* reads back as the entries: the reader finds no path twice, so the headers
\* found for the entries are all there are.
LEMMA ReadBack ==
  ASSUME NEW files, files = [p \in DOMAIN files |-> files[p]], IsFiniteSet(DOMAIN files),
         NEW archive,
         archive.tar.headers = {[at |-> SplitTarPath(p), file |-> files[p]] : p \in DOMAIN files},
         ValidateImmutableContent(archive, files)
  PROVE  CanUnpack(archive) /\ Unpack(archive) = files
<1> DEFINE H == archive.tar.headers
           D == DOMAIN files
           found == [p \in D |-> CHOOSE h \in H : ReadPath(h) = p /\ h.file = files[p]]
<1>1. CanUnpack(archive) /\ Cardinality(H) = Cardinality(D)
  BY DEF ValidateImmutableContent
<1>2. IsFiniteSet(H)
  <2> DEFINE header == [p \in D |-> [at |-> SplitTarPath(p), file |-> files[p]]]
  <2>1. IsFiniteSet({header[p] : p \in DOMAIN header}) BY FiniteValues
  <2>2. {header[p] : p \in DOMAIN header} = H OBVIOUS
  <2> QED BY <2>1, <2>2
<1>3. \A p \in D : found[p] \in H /\ ReadPath(found[p]) = p /\ found[p].file = files[p]
  BY DEF ValidateImmutableContent
<1>4. \A g, h \in H : ReadPath(g) = ReadPath(h) => g = h BY <1>1 DEF CanUnpack
<1>5. found \in Injection(D, H)
  <2>1. found \in [D -> H] BY <1>3
  <2>2. \A p, q \in D : found[p] = found[q] => p = q BY <1>3
  <2> HIDE DEF found
  <2> QED BY <2>1, <2>2 DEF Injection, IsInjective
<1> HIDE DEF found
<1>6. found \in Surjection(D, H) BY <1>1, <1>2, <1>5, FS_Injection
<1>7. ASSUME NEW h \in H PROVE ReadPath(h) \in D /\ h.file = files[ReadPath(h)]
  <2>1. PICK p \in D : found[p] = h BY <1>6 DEF Surjection
  <2> QED BY <1>3, <2>1
<1>8. {ReadPath(h) : h \in H} = D
  <2>1. \A p \in D : \E h \in H : p = ReadPath(h) BY <1>3
  <2> HIDE DEF H, D
  <2> QED BY <1>7, <2>1
<1>9. ASSUME NEW p \in D PROVE (CHOOSE h \in H : ReadPath(h) = p).file = files[p]
  <2>1. \E h \in H : ReadPath(h) = p BY <1>3
  <2>2. /\ (CHOOSE h \in H : ReadPath(h) = p) \in H
        /\ ReadPath(CHOOSE h \in H : ReadPath(h) = p) = p
    BY <2>1
  <2> QED BY <1>7, <2>2
<1>10. Unpack(archive) = [p \in D |-> files[p]] BY <1>8, <1>9 DEF Unpack
<1> QED BY <1>1, <1>10

\* What OutputIsExactUnion says of one build.
IsExactUnion(files, output, input) ==
    LET kept  == Kept(output)
        local == BundleContent(input.bundle)
        mods  == input.frozen.mods
    IN  /\ Cardinality(DOMAIN files) =
              Cardinality(DOMAIN kept) + Cardinality(DOMAIN local) + Len(mods) + 2
        /\ \A p \in DOMAIN kept : files[p] = AsFile(kept[p])
        /\ \A p \in DOMAIN local : files[p] = local[p]
        /\ \A i \in DOMAIN mods :
              /\ files[Tail(mods[i].path)] = ModFile(mods[i])
              /\ \A p \in DOMAIN files \ {Tail(mods[i].path)} : Fold(p) # Fold(Tail(mods[i].path))

\* It follows from the last union.
LEMMA ExactUnion ==
  ASSUME NEW files, NEW output \in InstallerOutput, NEW input \in Input, NEW toolchain,
         AllJoined(files, output, input, toolchain)
  PROVE  IsExactUnion(files, output, input)
<1> DEFINE kept  == Kept(output)
           local == BundleContent(input.bundle)
           mods  == input.frozen.mods
<1>1. PICK before : AllBut(before, files, output, input) BY FilesAtEnd
<1>2. /\ UnionOf(before, output, input, Len(input.frozen.mods))
      /\ DOMAIN files = DOMAIN before \cup Generated
      /\ \A p \in DOMAIN before : files[p] = before[p]
      /\ Cardinality(DOMAIN files) = Cardinality(DOMAIN before) + 2
  BY <1>1 DEF AllBut
<1>3. DOMAIN mods = 1 .. Len(mods)
  <2>1. mods \in Seq(Range(mods)) BY InputAssumption
  <2> QED BY <2>1
<1>4. \A i \in DOMAIN mods : \A p \in Generated : Fold(p) # Fold(Tail(mods[i].path))
  BY InputAssumption
<1>5. /\ Cardinality(DOMAIN before)
            = Cardinality(DOMAIN kept) + Cardinality(DOMAIN local) + Len(mods)
      /\ \A p \in DOMAIN kept : p \in DOMAIN before /\ before[p] = AsFile(kept[p])
      /\ \A p \in DOMAIN local : p \in DOMAIN before /\ before[p] = local[p]
  BY <1>2 DEF UnionOf
<1>6. \A i \in DOMAIN mods :
         /\ Tail(mods[i].path) \in DOMAIN before
         /\ before[Tail(mods[i].path)] = ModFile(mods[i])
         /\ \A p \in DOMAIN before \ {Tail(mods[i].path)} : Fold(p) # Fold(Tail(mods[i].path))
  BY <1>2, <1>3 DEF UnionOf
<1> HIDE DEF kept, local, mods
<1>7. Cardinality(DOMAIN files) =
         Cardinality(DOMAIN kept) + Cardinality(DOMAIN local) + Len(mods) + 2
  BY <1>2, <1>5
<1>8. /\ \A p \in DOMAIN kept : files[p] = AsFile(kept[p])
      /\ \A p \in DOMAIN local : files[p] = local[p]
      /\ \A i \in DOMAIN mods :
            /\ files[Tail(mods[i].path)] = ModFile(mods[i])
            /\ \A p \in DOMAIN files \ {Tail(mods[i].path)} : Fold(p) # Fold(Tail(mods[i].path))
  BY <1>2, <1>4, <1>5, <1>6
<1> QED BY <1>7, <1>8 DEF IsExactUnion, kept, local, mods
-----------------------------------------------------------------------------
(* Accepted bundles *)

\* A list of entries, and one in which no path repeats.
Distinct(s) == \A i, j \in DOMAIN s : s[i].path = s[j].path => i = j
Listing(s) == s \in Seq(Range(s))

\* What At finds.
LEMMA AtFinds ==
  ASSUME NEW s, Listing(s), NEW path, path \in Paths(s)
  PROVE  \E i \in DOMAIN s : s[i].path = path /\ At(s, path) = s[i]
BY DEF Paths, At

\* With distinct paths it finds the one there is.
LEMMA AtIsThere ==
  ASSUME NEW s, Listing(s), Distinct(s), NEW i \in DOMAIN s
  PROVE  At(s, s[i].path) = s[i]
<1>1. s[i].path \in Paths(s) BY DEF Paths
<1>2. PICK j \in DOMAIN s : s[j].path = s[i].path /\ At(s, s[i].path) = s[j] BY <1>1, AtFinds
<1> QED BY <1>2 DEF Distinct

\* f lists the n members of V, each of them once.
Enumerates(f, n, V) == /\ V = {f[i] : i \in 1 .. n}
                       /\ \A i, j \in 1 .. n : f[i] = f[j] => i = j

\* A list without repetition has as many values as entries.
LEMMA CountValues ==
  ASSUME NEW n \in Nat, NEW f, NEW V, Enumerates(f, n, V)
  PROVE  IsFiniteSet(V) /\ Cardinality(V) = n
<1> DEFINE g == [i \in 1 .. n |-> f[i]]
<1>1. g \in Surjection(1 .. n, V) BY DEF Surjection, Enumerates
<1>2. g \in Injection(1 .. n, V) BY DEF Injection, IsInjective, Enumerates
<1>3. IsFiniteSet(1 .. n) /\ Cardinality(1 .. n) = n BY FS_Interval
<1> HIDE DEF g
<1> QED BY <1>1, <1>2, <1>3, FS_Surjection

\* So have the paths of a list, and its pairs, when paths are distinct.
LEMMA CountPaths ==
  ASSUME NEW s, Listing(s), Distinct(s)
  PROVE  /\ IsFiniteSet(Paths(s)) /\ Cardinality(Paths(s)) = Len(s)
         /\ Cardinality(PairsOf(s)) = Len(s) /\ Len(s) \in Nat
<1>1. DOMAIN s = 1 .. Len(s) /\ Len(s) \in Nat BY DEF Listing
<1> DEFINE f == [i \in 1 .. Len(s) |-> s[i].path]
           g == [i \in 1 .. Len(s) |-> <<s[i].path, s[i].content>>]
<1>2. Enumerates(f, Len(s), Paths(s)) BY <1>1 DEF Enumerates, Distinct, Paths
<1>3. Enumerates(g, Len(s), PairsOf(s))
  <2>1. PairsOf(s) = {g[i] : i \in 1 .. Len(s)} BY <1>1 DEF PairsOf, PairsAt
  <2>2. \A i, j \in 1 .. Len(s) : g[i] = g[j] => i = j BY <1>1 DEF Distinct
  <2> QED BY <2>1, <2>2 DEF Enumerates
<1> HIDE DEF f, g
<1> QED BY <1>1, <1>2, <1>3, CountValues

\* A list that ascends from entry to entry has distinct paths.
LEMMA AscendingIsDistinct ==
  ASSUME NEW s, Listing(s),
         \A p \in Paths(s) : ~Before(p, p),
         \A p, q, r \in Paths(s) : Before(p, q) /\ Before(q, r) => Before(p, r),
         \A i \in 1 .. Len(s) - 1 : Before(s[i].path, s[i + 1].path)
  PROVE  Distinct(s)
<1>1. DOMAIN s = 1 .. Len(s) /\ Len(s) \in Nat BY DEF Listing
<1>2. \A i \in DOMAIN s : s[i].path \in Paths(s) BY DEF Paths
<1> DEFINE Late == {j \in Nat : \E i \in DOMAIN s : i < j /\ j \in DOMAIN s
                                                    /\ ~Before(s[i].path, s[j].path)}
<1>3. Late = {}
  <2> SUFFICES ASSUME Late # {} PROVE FALSE OBVIOUS
  <2>1. Late \subseteq Nat OBVIOUS
  <2>2. PICK j : j \in Late /\ \A k \in Late : j <= k
    <3> HIDE DEF Late
    <3> QED BY <2>1, MinIsLeast
  <2>3. PICK i \in DOMAIN s : i < j /\ j \in DOMAIN s /\ ~Before(s[i].path, s[j].path)
    BY <2>2
  <2>4. /\ i \in Nat /\ j \in Nat /\ i >= 1 /\ j - 1 \in 1 .. Len(s) - 1 /\ (j - 1) + 1 = j
        /\ j - 1 \in DOMAIN s /\ i <= j - 1
    BY <1>1, <2>3
  <2>5. Before(s[j - 1].path, s[j].path) BY <2>4
  <2>6. i # j - 1 BY <2>3, <2>5
  <2>7. j - 1 \notin Late
    <3>1. ~(j <= j - 1) BY <2>4
    <3> HIDE DEF Late
    <3> QED BY <2>2, <3>1
  <2>8. i < j - 1 /\ j - 1 \in Nat BY <2>4, <2>6
  <2>9. Before(s[i].path, s[j - 1].path) BY <2>4, <2>7, <2>8
  <2> QED BY <1>2, <2>3, <2>4, <2>5, <2>9
<1>4. \A i, j \in DOMAIN s : i < j => Before(s[i].path, s[j].path) BY <1>1, <1>3
<1> HIDE DEF Late
<1>5. ASSUME NEW i \in DOMAIN s, NEW j \in DOMAIN s, s[i].path = s[j].path PROVE i = j
  <2>1. ~Before(s[i].path, s[j].path) /\ ~Before(s[j].path, s[i].path) BY <1>2, <1>5
  <2>2. ~(i < j) /\ ~(j < i) BY <1>4, <2>1
  <2> QED BY <1>1, <2>2
<1> QED BY <1>5 DEF Distinct

\* A list in which no entry repeats the path of an earlier one.
LEMMA EarlierIsDistinct ==
  ASSUME NEW s, Listing(s), \A i \in DOMAIN s : \A j \in 1 .. i - 1 : s[j].path # s[i].path
  PROVE  Distinct(s)
<1>1. DOMAIN s = 1 .. Len(s) /\ Len(s) \in Nat BY DEF Listing
<1>2. ASSUME NEW i \in DOMAIN s, NEW j \in DOMAIN s, j < i PROVE s[j].path # s[i].path
  <2>1. j \in 1 .. i - 1 BY <1>1, <1>2
  <2> QED BY <2>1
<1> QED BY <1>1, <1>2 DEF Distinct

\* The entries of an accepted manifest are distinct, and so are the records of
\* the zip, the declarations and the frozen mods.
LEMMA AcceptedDistinct ==
  ASSUME NEW input \in Input, ValidateBundle(input.bundle, input.frozen)
  PROVE  \A s \in {input.bundle.zip, input.bundle.manifest.files, input.bundle.mods,
                   input.frozen.mods} : Listing(s) /\ Distinct(s)
<1> DEFINE zip   == input.bundle.zip
           files == input.bundle.manifest.files
           declared == input.bundle.mods
           mods  == input.frozen.mods
<1>1. Listing(zip) /\ Listing(files) /\ Listing(declared) /\ Listing(mods)
  BY InputAssumption DEF Listing
<1>2. Distinct(zip)
  <2>1. \A i \in DOMAIN zip : \A j \in 1 .. i - 1 : zip[j].path # zip[i].path
    BY DEF ValidateBundle, ReadsZip
  <2> QED BY <1>1, <2>1, EarlierIsDistinct
<1>3. Distinct(files)
  <2>1. \A i \in 1 .. Len(files) - 1 : Before(files[i].path, files[i + 1].path)
    BY DEF ValidateBundle, ParsesManifest
  <2>2. /\ \A p \in Paths(files) : ~Before(p, p)
        /\ \A p, q, r \in Paths(files) : Before(p, q) /\ Before(q, r) => Before(p, r)
    BY InputAssumption
  <2> HIDE DEF files
  <2> QED BY <1>1, <2>1, <2>2, AscendingIsDistinct
<1>4. Distinct(declared)
  <2>1. \A i \in DOMAIN declared : \A j \in 1 .. i - 1 : declared[j].path # declared[i].path
    BY DEF ValidateBundle, VerifyResolvedMods
  <2> QED BY <1>1, <2>1, EarlierIsDistinct
<1>5. Distinct(mods)
  <2>1. \A i \in DOMAIN mods : \A j \in 1 .. i - 1 : mods[j].path # mods[i].path
    BY DEF ValidateBundle, VerifyResolvedMods, FrozenModsApart
  <2> QED BY <1>1, <2>1, EarlierIsDistinct
<1> QED BY <1>1, <1>2, <1>3, <1>4, <1>5

\* Every record is listed and the list is as long: so everything listed is a
\* record, with the same content.
LEMMA RecordsAreListed ==
  ASSUME NEW zip, NEW files, Listing(zip), Listing(files), Distinct(zip), Distinct(files),
         ListedExactly(zip, files)
  PROVE  /\ Len(zip) = Len(files) + 1
         /\ {f \in PairsOf(zip) : f[1] # BundleJson} = PairsOf(files)
<1> DEFINE others == Paths(zip) \ {BundleJson}
<1>1. /\ IsFiniteSet(Paths(zip)) /\ Cardinality(Paths(zip)) = Len(zip) /\ Len(zip) \in Nat
      /\ IsFiniteSet(Paths(files)) /\ Cardinality(Paths(files)) = Len(files) /\ Len(files) \in Nat
  BY CountPaths
<1>2. BundleJson \in Paths(zip) /\ Len(files) = Len(zip) - 1 BY <1>1 DEF ListedExactly
<1>3. Cardinality(others) = Len(zip) - 1
  BY <1>1, <1>2, FS_RemoveElement
<1>4. others \subseteq Paths(files) BY DEF ListedExactly
<1>5. others = Paths(files)
  <2> HIDE DEF others
  <2> QED BY <1>1, <1>2, <1>3, <1>4, FS_Subset
<1>6. \A path \in others : At(files, path).content = At(zip, path).content BY DEF ListedExactly
<1>7. ASSUME NEW i \in DOMAIN zip, zip[i].path # BundleJson
      PROVE  <<zip[i].path, zip[i].content>> \in PairsOf(files)
  <2>1. zip[i].path \in others BY <1>7 DEF Paths
  <2>2. PICK j \in DOMAIN files : files[j].path = zip[i].path /\ At(files, zip[i].path) = files[j]
    BY <1>5, <2>1, AtFinds
  <2>3. files[j].content = zip[i].content BY <1>6, <2>1, <2>2, AtIsThere
  <2>4. <<zip[i].path, zip[i].content>> = <<files[j].path, files[j].content>> BY <2>2, <2>3
  <2> QED BY <2>4 DEF PairsOf, PairsAt
<1>8. ASSUME NEW j \in DOMAIN files
      PROVE  /\ files[j].path # BundleJson
             /\ <<files[j].path, files[j].content>> \in PairsOf(zip)
  <2>1. files[j].path \in others BY <1>5 DEF Paths
  <2>2. PICK i \in DOMAIN zip : zip[i].path = files[j].path /\ At(zip, files[j].path) = zip[i]
    BY <2>1, AtFinds
  <2>3. files[j].content = zip[i].content BY <1>6, <2>1, <2>2, AtIsThere
  <2>4. <<files[j].path, files[j].content>> = <<zip[i].path, zip[i].content>> BY <2>2, <2>3
  <2> QED BY <2>1, <2>4 DEF PairsOf, PairsAt
<1>9. \A f \in PairsOf(zip) : f[1] # BundleJson => f \in PairsOf(files)
  BY <1>7 DEF PairsOf, PairsAt
<1>10. \A f \in PairsOf(files) : f \in PairsOf(zip) /\ f[1] # BundleJson
  <2>1. ASSUME NEW f \in PairsOf(files) PROVE f \in PairsOf(zip) /\ f[1] # BundleJson
    <3>1. PICK j \in DOMAIN files : f = <<files[j].path, files[j].content>>
      BY DEF PairsOf, PairsAt
    <3> QED BY <1>8, <3>1
  <2> QED BY <2>1
<1> QED BY <1>1, <1>2, <1>9, <1>10

\* The declarations are the local mods and the frozen mods.
LEMMA DeclarationsAreMods ==
  ASSUME NEW declared, NEW files, NEW mods, Listing(declared), Listing(files), Listing(mods),
         Distinct(declared), Distinct(files), Distinct(mods),
         VerifyResolvedMods(declared, files, mods)
  PROVE  /\ PairsAt(declared, {i \in DOMAIN declared : declared[i].source = "local"})
               = {f \in PairsOf(files) : IsLocalMod(f[1])}
         /\ PairsAt(declared, {i \in DOMAIN declared : declared[i].source # "local"})
               = PairsOf(mods)
<1> DEFINE local == {p \in Paths(files) : IsLocalMod(p)}
           L == {i \in DOMAIN declared : declared[i].source = "local"}
           R == {i \in DOMAIN declared : declared[i].source # "local"}
<1>1. \A k \in DOMAIN mods : mods[k].path \notin local
  BY DEF VerifyResolvedMods, FrozenModsApart
<1>2. \A i \in L : /\ declared[i].path \in local
                   /\ At(files, declared[i].path).content = declared[i].content
  BY DEF VerifyResolvedMods
<1>3. \A i \in R : /\ declared[i].path \in Paths(mods)
                   /\ At(mods, declared[i].path).content = declared[i].content
  BY DEF VerifyResolvedMods
<1>4. local \cup Paths(mods) \subseteq Paths(declared) BY DEF VerifyResolvedMods
<1>5. local \cap Paths(mods) = {} BY <1>1 DEF Paths
<1>6. ASSUME NEW i \in L
      PROVE  \E j \in DOMAIN files : /\ IsLocalMod(files[j].path)
                                     /\ files[j].path = declared[i].path
                                     /\ files[j].content = declared[i].content
  <2>1. declared[i].path \in Paths(files) /\ IsLocalMod(declared[i].path) BY <1>2
  <2> QED BY <1>2, <2>1, AtFinds
<1>7. ASSUME NEW i \in R
      PROVE  \E k \in DOMAIN mods : /\ mods[k].path = declared[i].path
                                    /\ mods[k].content = declared[i].content
  BY <1>3, AtFinds
<1>8. ASSUME NEW j \in DOMAIN files, IsLocalMod(files[j].path)
      PROVE  \E i \in L : /\ declared[i].path = files[j].path
                          /\ declared[i].content = files[j].content
  <2>1. files[j].path \in local BY <1>8 DEF Paths
  <2>2. PICK i \in DOMAIN declared : declared[i].path = files[j].path BY <1>4, <2>1 DEF Paths
  <2>3. i \in L BY <1>3, <1>5, <2>1, <2>2
  <2>4. declared[i].content = files[j].content BY <1>2, <2>2, <2>3, AtIsThere
  <2> QED BY <2>2, <2>3, <2>4
<1>9. ASSUME NEW k \in DOMAIN mods
      PROVE  \E i \in R : /\ declared[i].path = mods[k].path
                          /\ declared[i].content = mods[k].content
  <2>1. mods[k].path \in Paths(mods) BY DEF Paths
  <2>2. PICK i \in DOMAIN declared : declared[i].path = mods[k].path BY <1>4, <2>1 DEF Paths
  <2>3. i \in R BY <1>2, <1>5, <2>1, <2>2
  <2>4. declared[i].content = mods[k].content BY <1>3, <2>2, <2>3, AtIsThere
  <2> QED BY <2>2, <2>3, <2>4
<1> HIDE DEF L, R
<1>10. L \subseteq DOMAIN declared /\ R \subseteq DOMAIN declared BY DEF L, R
<1>11. PairsAt(declared, L) = {f \in PairsOf(files) : IsLocalMod(f[1])}
  <2>1. ASSUME NEW f \in PairsAt(declared, L) PROVE f \in PairsOf(files) /\ IsLocalMod(f[1])
    <3>1. PICK i \in L : f = <<declared[i].path, declared[i].content>> BY DEF PairsAt
    <3>2. PICK j \in DOMAIN files : /\ IsLocalMod(files[j].path)
                                    /\ f = <<files[j].path, files[j].content>>
      BY <1>6, <3>1
    <3> QED BY <3>2 DEF PairsOf, PairsAt
  <2>2. ASSUME NEW f \in PairsOf(files), IsLocalMod(f[1]) PROVE f \in PairsAt(declared, L)
    <3>1. PICK j \in DOMAIN files : f = <<files[j].path, files[j].content>>
      BY DEF PairsOf, PairsAt
    <3>2. PICK i \in L : f = <<declared[i].path, declared[i].content>> BY <1>8, <2>2, <3>1
    <3> QED BY <3>2 DEF PairsAt
  <2> QED BY <2>1, <2>2
<1>12. PairsAt(declared, R) = PairsOf(mods)
  <2>1. ASSUME NEW f \in PairsAt(declared, R) PROVE f \in PairsOf(mods)
    <3>1. PICK i \in R : f = <<declared[i].path, declared[i].content>> BY DEF PairsAt
    <3>2. PICK k \in DOMAIN mods : f = <<mods[k].path, mods[k].content>> BY <1>7, <3>1
    <3> QED BY <3>2 DEF PairsOf, PairsAt
  <2>2. ASSUME NEW f \in PairsOf(mods) PROVE f \in PairsAt(declared, R)
    <3>1. PICK k \in DOMAIN mods : f = <<mods[k].path, mods[k].content>> BY DEF PairsOf, PairsAt
    <3>2. PICK i \in R : f = <<declared[i].path, declared[i].content>> BY <1>9, <3>1
    <3> QED BY <3>2 DEF PairsAt
  <2> QED BY <2>1, <2>2
<1> QED BY <1>11, <1>12 DEF L, R
-----------------------------------------------------------------------------
(* Package limits *)

\* No build has failed at the package limits, and the files it has so far have
\* sizes.
Budgeted(r) ==
    /\ r.code # "package_limit"
    /\ HasOutput(r) => \A p \in DOMAIN r.files : r.files[p].size \in Nat

BudgetInv == \A b \in Builder : Budgeted(build[b])

\* A failure with any other code.
LEMMA FailingInBudget ==
  ASSUME BuildsSound, NEW b \in Builder, NEW code, code # "package_limit", BuildFails(b, code)
  PROVE  Budgeted(build'[b])
<1> DEFINE failed == [Idle EXCEPT !.pc = "failed", !.code = code]
<1>1. failed.pc = "failed" /\ failed.code = code BY DEF Idle
<1>2. build'[b] = failed BY DEF BuildFails, BuildsSound
<1> QED BY <1>1, <1>2 DEF Budgeted, HasOutput

\* A build that keeps its files and its code, and does not get an output.
LEMMA KeepingInBudget ==
  ASSUME NEW r, NEW s, Budgeted(r), s.files = r.files, s.code = r.code,
         HasOutput(s) => HasOutput(r)
  PROVE  Budgeted(s)
BY DEF Budgeted

\* The files of an accepted bundle have the sizes of their records.
LEMMA BundleSizes ==
  ASSUME NEW input \in Input, ValidateBundle(input.bundle, input.frozen),
         NEW p \in DOMAIN BundleContent(input.bundle)
  PROVE  BundleContent(input.bundle)[p].size \in Nat
<1> DEFINE zip   == input.bundle.zip
           files == input.bundle.manifest.files
<1>1. PICK q \in Paths(files) : IsInstance(q) /\ p = Tail(q)
  BY DEF BundleContent, InstanceFilesOf
<1>2. q \in Seq(Range(q)) BY InputAssumption
<1>3. InstancePath(p) = q
  BY <1>1, <1>2 DEF InstancePath, IsInstance
<1>4. Listing(zip) /\ Listing(files) /\ Distinct(zip) /\ Distinct(files)
  BY AcceptedDistinct
<1>5. ListedExactly(zip, files) BY DEF ValidateBundle
<1>6. q \in Paths(zip)
  <2>1. PICK j \in DOMAIN files : files[j].path = q BY DEF Paths
  <2>2. <<q, files[j].content>> \in PairsOf(files) BY <2>1 DEF PairsOf, PairsAt
  <2>3. <<q, files[j].content>> \in PairsOf(zip) BY <1>4, <1>5, <2>2, RecordsAreListed
  <2> QED BY <2>3 DEF PairsOf, PairsAt, Paths
<1>7. PICK i \in DOMAIN zip : At(zip, q) = zip[i] BY <1>4, <1>6, AtFinds
<1>8. zip[i].size \in Nat BY InputAssumption
<1>9. BundleContent(input.bundle)[p].size = At(zip, InstancePath(p)).size
  BY DEF BundleContent
<1> QED BY <1>3, <1>7, <1>8, <1>9

\* The files of two sources have sizes if both have.
LEMMA JoinedSizes ==
  ASSUME NEW f, NEW g, \A p \in DOMAIN f : f[p].size \in Nat, \A p \in DOMAIN g : g[p].size \in Nat
  PROVE  \A p \in DOMAIN Joined(f, g) : Joined(f, g)[p].size \in Nat
BY DEF Joined

\* Up to the installer's output there are no files.
LEMMA EarlyBudget ==
  ASSUME NEW reviewed, NEW revision, NEW usable, BuildsSound, NEW b \in Builder, Budgeted(build[b]),
         \/ \E input \in Input : Begin(b, input)
         \/ ResolveToolchain(b, reviewed, revision)
         \/ ResolveVerifiedJre(b, usable) \/ ReadCache(b) \/ FetchTimeout(b)
         \/ FetchArtifact(b) \/ MakeWorkspace(b) \/ InstallerTimeout(b) \/ RunInstaller(b)
         \/ Return(b)
  PROVE  Budgeted(build'[b])
<1> DEFINE r == build[b]
           s == build'[b]
<1>0. Shaped(r) /\ r.code # "package_limit" BY DEF BuildsSound, Sound, Budgeted
<1>1. CASE \E code \in {"invalid_bundle", "unsupported_compatibility", "compiler_unavailable",
                        "artifact_cache", "artifact_download"} : BuildFails(b, code)
  BY <1>1, FailingInBudget
<1>2. CASE s = Idle
  <2>1. Idle.pc = "idle" /\ Idle.code = "" BY DEF Idle
  <2> QED BY <1>2, <2>1 DEF Budgeted, HasOutput
<1>3. CASE s.pc \in {"toolchain", "jre", "artifact", "fetch", "install", "collect"} /\ s.code = r.code
  BY <1>0, <1>3 DEF Budgeted, HasOutput
<1>4. CASE s.pc = "remove" /\ s.code = "installer_failed" BY <1>4 DEF Budgeted, HasOutput
<1>5. ASSUME NEW input \in Input, Begin(b, input) PROVE Budgeted(s)
  <2>1. CASE build' = [build EXCEPT ![b].pc = "toolchain", ![b].input = input]
    BY <1>0, <1>3, <2>1 DEF BuildsSound, Shaped
  <2> QED BY <1>1, <1>5, <2>1 DEF Begin
<1>6. CASE ResolveToolchain(b, reviewed, revision)
  <2>1. CASE \E t : build' = [build EXCEPT ![b].pc = "jre", ![b].toolchain = t]
    BY <1>0, <1>3, <2>1 DEF BuildsSound, Shaped
  <2> QED BY <1>1, <1>6, <2>1 DEF ResolveToolchain
<1>7. CASE ResolveVerifiedJre(b, usable) \/ ReadCache(b) \/ FetchTimeout(b) \/ FetchArtifact(b)
  <2>1. CASE \E a : build' = [build EXCEPT ![b].pc = "artifact", ![b].artifacts = a]
    BY <1>0, <1>3, <2>1 DEF BuildsSound, Shaped
  <2>2. CASE BuildGoto(b, "fetch") BY <1>0, <1>3, <2>2 DEF BuildGoto, BuildsSound, Shaped
  <2>3. CASE r.pc = "artifact" /\ build' = [build EXCEPT ![b].artifacts = Tail(@)]
    BY <1>0, <1>3, <2>3 DEF BuildsSound, Shaped
  <2> QED BY <1>1, <1>7, <2>1, <2>2, <2>3
          DEF ResolveVerifiedJre, ReadCache, FetchTimeout, FetchArtifact, BuildAt
<1>8. CASE MakeWorkspace(b) \/ InstallerTimeout(b) \/ RunInstaller(b)
  <2>1. CASE BuildGoto(b, "install") BY <1>0, <1>3, <2>1 DEF BuildGoto, BuildsSound, Shaped
  <2>2. CASE \E output : build' = [build EXCEPT ![b].pc = "collect", ![b].output = output]
    BY <1>0, <1>3, <2>2 DEF BuildsSound, Shaped
  <2>3. CASE build' = [build EXCEPT ![b].pc = "remove", ![b].code = "installer_failed"]
    BY <1>0, <1>4, <2>3 DEF BuildsSound, Shaped
  <2> QED BY <1>8, <2>1, <2>2, <2>3 DEF MakeWorkspace, InstallerTimeout, RunInstaller
<1>9. CASE Return(b) BY <1>2, <1>9 DEF Return, BuildsSound
<1> QED BY <1>5, <1>6, <1>7, <1>8, <1>9

\* What is collected has the installer's sizes.
LEMMA CollectBudget ==
  ASSUME BuildsSound, NEW b \in Builder, Budgeted(build[b]), CollectFiles(b) \/ RemoveWorkspace(b)
  PROVE  Budgeted(build'[b])
<1> DEFINE r == build[b]
           s == build'[b]
           kept == Kept(r.output)
           files == [p \in DOMAIN kept |-> AsFile(kept[p])]
<1>0. Shaped(r) /\ Sound(r) /\ r.code # "package_limit" BY DEF BuildsSound, Sound, Budgeted
<1>1. CASE CollectFiles(b)
  <2>1. r.output \in InstallerOutput BY <1>0, <1>1 DEF CollectFiles, BuildAt, Sound
  <2>2. \A p \in DOMAIN files : files[p].size \in Nat
    BY <2>1, InputAssumption DEF Kept, AsFile
  <2> HIDE DEF files
  <2>3. CASE build' = [build EXCEPT ![b].pc = "remove", ![b].files = files]
    <3>1. s.files = files /\ s.code = r.code BY <1>0, <2>3 DEF BuildsSound, Shaped
    <3> QED BY <1>0, <2>2, <3>1 DEF Budgeted
  <2>4. CASE build' = [build EXCEPT ![b].pc = "remove", ![b].code = "installer_failed"]
    <3>1. s.pc = "remove" /\ s.code = "installer_failed" BY <1>0, <2>4 DEF BuildsSound, Shaped
    <3> QED BY <3>1 DEF Budgeted, HasOutput
  <2> QED BY <1>1, <2>3, <2>4 DEF CollectFiles, files
<1>2. CASE RemoveWorkspace(b)
  <2>1. CASE BuildFails(b, r.code) BY <1>0, <2>1, FailingInBudget
  <2>2. CASE r.code = "" /\ BuildGoto(b, "merge")
    <3>1. s.files = r.files /\ s.code = r.code BY <2>2, Going
    <3>2. HasOutput(r) BY <1>2, <2>2 DEF RemoveWorkspace, BuildAt, HasOutput
    <3> QED BY <3>1, <3>2, KeepingInBudget
  <2> QED BY <1>2, <2>1, <2>2 DEF RemoveWorkspace
<1> QED BY <1>1, <1>2

\* The files of the bundle, the mods and the generated files have sizes.
LEMMA JoinBudget ==
  ASSUME BuildsSound, NEW b \in Builder, Budgeted(build[b]),
         Merge(b) \/ AddRemoteMod(b) \/ FetchModTimeout(b) \/ FetchMod(b) \/ AddGeneratedFiles(b)
  PROVE  Budgeted(build'[b])
<1> DEFINE r == build[b]
           s == build'[b]
<1>0. Shaped(r) /\ Sound(r) /\ r.code # "package_limit" BY DEF BuildsSound, Sound, Budgeted
<1>1. HasOutput(r) /\ Began(r)
  BY DEF Merge, AddRemoteMod, FetchModTimeout, FetchMod, AddGeneratedFiles, BuildAt, HasOutput, Began
<1>2. \A p \in DOMAIN r.files : r.files[p].size \in Nat BY <1>1 DEF Budgeted
<1>3. r.input \in Input /\ ValidateBundle(r.input.bundle, r.input.frozen) BY <1>0, <1>1 DEF Sound
<1>4. CASE \E code \in {"invalid_installer_output", "invalid_local_content", "remote_mod_collision",
                        "remote_mod_download"} : BuildFails(b, code)
  BY <1>4, FailingInBudget
<1>5. CASE BuildGoto(b, "fetchmod")
  <2>1. s.files = r.files /\ s.code = r.code BY <1>5, Going
  <2> QED BY <1>1, <2>1, KeepingInBudget
<1>6. ASSUME NEW f, NEW g, s.files = Joined(f, g), s.code = r.code,
             \A p \in DOMAIN f : f[p].size \in Nat, \A p \in DOMAIN g : g[p].size \in Nat
      PROVE  Budgeted(s)
  <2>1. \A p \in DOMAIN Joined(f, g) : Joined(f, g)[p].size \in Nat BY <1>6, JoinedSizes
  <2> QED BY <1>0, <1>6, <2>1 DEF Budgeted
<1>7. CASE Merge(b)
  <2> DEFINE content == BundleContent(r.input.bundle)
  <2>1. CASE build' = [build EXCEPT ![b].pc = "mods", ![b].mods = r.input.frozen.mods,
                                    ![b].files = Joined(r.files, content)]
    <3>1. \A p \in DOMAIN content : content[p].size \in Nat BY <1>3, BundleSizes
    <3> HIDE DEF content
    <3>2. s.files = Joined(r.files, content) /\ s.code = r.code
      BY <1>0, <2>1 DEF BuildsSound, Shaped
    <3> QED BY <1>2, <1>6, <3>1, <3>2
  <2> QED BY <1>4, <1>7, <2>1 DEF Merge
<1>8. CASE AddRemoteMod(b) \/ FetchModTimeout(b) BY <1>4, <1>5, <1>8 DEF AddRemoteMod, FetchModTimeout
<1>9. CASE FetchMod(b)
  <2> DEFINE mod == Head(r.mods)
  <2>1. CASE build' = [build EXCEPT ![b].pc = "mods", ![b].mods = Tail(@),
                                    ![b].files = Joined(ModFiles(mod), @)]
    <3>1. mod.size \in Nat
      <4>1. r.mods \in Seq(Range(r.input.frozen.mods)) /\ r.mods # <<>>
        BY <1>0, <1>9 DEF Sound, FetchMod, BuildAt
      <4>2. mod \in Range(r.input.frozen.mods) BY <4>1
      <4> QED BY <1>3, <4>2, InputAssumption DEF Range
    <3>2. \A p \in DOMAIN ModFiles(mod) : ModFiles(mod)[p].size \in Nat
      BY <3>1 DEF ModFiles, ModFile
    <3> HIDE DEF mod
    <3>3. s.files = Joined(ModFiles(mod), r.files) /\ s.code = r.code
      BY <1>0, <2>1 DEF BuildsSound, Shaped
    <3> QED BY <1>2, <1>6, <3>2, <3>3
  <2> QED BY <1>4, <1>9, <2>1 DEF FetchMod
<1>10. CASE AddGeneratedFiles(b)
  <2> DEFINE generated == GeneratedFiles(r.toolchain)
  <2>1. CASE build' = [build EXCEPT ![b].pc = "pack", ![b].files = Joined(generated, @)]
    <3>1. \A p \in DOMAIN generated : generated[p].size \in Nat BY DEF GeneratedFiles
    <3> HIDE DEF generated
    <3>2. s.files = Joined(generated, r.files) /\ s.code = r.code
      BY <1>0, <2>1 DEF BuildsSound, Shaped
    <3> QED BY <1>2, <1>6, <3>1, <3>2
  <2> QED BY <1>4, <1>10, <2>1 DEF AddGeneratedFiles
<1> QED BY <1>7, <1>8, <1>9, <1>10

\* The files of a build that packs are finitely many.
LEMMA PackedIsFinite ==
  ASSUME NEW r, Sound(r), r.pc = "pack"
  PROVE  IsFiniteSet(DOMAIN r.files)
<1>1. PICK before \in {[p \in DOMAIN r.files \ Generated |-> r.files[p]]} :
         UnionOf(before, r.output, r.input, Len(r.input.frozen.mods))
  BY DEF Sound, AllJoined
<1>2. IsFiniteSet(DOMAIN r.files \ Generated) BY <1>1 DEF UnionOf
<1>3. IsFiniteSet((DOMAIN r.files \ Generated) \cup Generated) BY <1>2, TwoGenerated, FS_Union
<1>4. DOMAIN r.files \subseteq (DOMAIN r.files \ Generated) \cup Generated OBVIOUS
<1> QED BY <1>3, <1>4, FS_Subset

\* What was within the input limits is within those of the package.
LEMMA PackageBudget ==
  ASSUME BuildsSound, NEW b \in Builder, Budgeted(build[b]), Package(b) \/ VerifyContent(b)
  PROVE  Budgeted(build'[b])
<1> DEFINE r == build[b]
           s == build'[b]
<1>0. Shaped(r) /\ Sound(r) /\ r.code # "package_limit" BY DEF BuildsSound, Sound, Budgeted
<1>1. CASE Package(b)
  <2> DEFINE tar == PackageTar(r.files)
  <2>1. r.pc = "pack" BY <1>1 DEF Package, BuildAt
  <2>2. Sized(r.files)
    BY <1>0, <2>1, PackedIsFinite DEF Sized, Budgeted, HasOutput
  <2>3. CASE BuildFails(b, "invalid_builder_output") \/ BuildFails(b, "path_too_long")
    BY <2>3, FailingInBudget
  <2>4. CASE ValidateOutputFiles(r.files)
    <3>1. tar.size \in Nat /\ TarFits(tar) BY <2>2, <2>4, TarIsWithinLimit
    <3> HIDE DEF tar
    <3>2. ArchiveFits(RawZstd(tar)) BY <3>1, ArchiveIsWithinLimit
    <3>3. \/ BuildFails(b, "path_too_long")
          \/ \E archive : build' = [build EXCEPT ![b].pc = "verify", ![b].archive = archive]
      BY <1>1, <2>4, <3>1, <3>2 DEF Package, tar
    <3>4. CASE \E archive : build' = [build EXCEPT ![b].pc = "verify", ![b].archive = archive]
      <4>1. s.files = r.files /\ s.code = r.code BY <1>0, <3>4 DEF BuildsSound, Shaped
      <4>2. HasOutput(r) BY <2>1 DEF HasOutput
      <4> QED BY <4>1, <4>2, KeepingInBudget
    <3> QED BY <2>3, <3>3, <3>4
  <2> QED BY <1>1, <2>3, <2>4 DEF Package
<1>2. CASE VerifyContent(b)
  <2>1. CASE BuildFails(b, "invalid_content") BY <2>1, FailingInBudget
  <2>2. CASE BuildGoto(b, "done")
    <3>1. s.files = r.files /\ s.code = r.code BY <2>2, Going
    <3>2. HasOutput(r) BY <1>2 DEF VerifyContent, BuildAt, HasOutput
    <3> QED BY <3>1, <3>2, KeepingInBudget
  <2> QED BY <1>2, <2>1, <2>2 DEF VerifyContent
<1> QED BY <1>1, <1>2
=============================================================================
