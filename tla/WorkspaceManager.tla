-------------------------- MODULE WorkspaceManager --------------------------
(***************************************************************************)
(* The workspace manager of the node agent: the inside of Restore, Sync    *)
(* and Release for one service, and the executor's calls of them from one  *)
(* assignment to the next.                                                 *)
(*                                                                         *)
(* Assignment a restores revision a - 1, lets a server play on it and      *)
(* publishes revision a.  The agent may die between any two steps, every   *)
(* step may fail, and the executor then calls again, or is told to stop    *)
(* instead of to start.  A directory or an archive is a function from      *)
(* paths to versions of a file, Gone where there is none; equal archives   *)
(* have equal hashes.  An archive is as large as the files in it: the      *)
(* limits on compressed and on logical sizes apply to the same number, and *)
(* the one on the total compressed size is implied by the quota.  A world  *)
(* group is small enough for one archive: the splitting of larger ones     *)
(* into several is left out.                                               *)
(***************************************************************************)
EXTENDS Lists

CONSTANTS
    Path,           \* paths of files
    ConfigPath,     \* those under config/ and defaultconfigs/
    WorldGroup,     \* sequence of sets: the world groups of classify, sorted
    Version,        \* versions of what is at a path
    Irregular,      \* those Sync cannot archive: a symlink, a device, a bad name
    Bytes,          \* Bytes[v]: the size of a file of version v
    Layer,          \* Layer[c]: the files of compiler-owned content c
    Seed,           \* the files of an initial world
    Session(_),     \* Session(f): what a server may make of the directory f
    Orders,         \* what the control plane may order: see order
    Limit,          \* workspaceLimit
    MaxArchive,     \* maxBlobBytes
    MaxPaths,       \* maxArchiveEntries
    MaxBlobs,       \* descriptors a manifest may have
    MaxManifest,    \* maxManifestBytes, in paths a manifest can list
    MaxAssignment,  \* bound: assignments of the service
    None

Gone    == 0
Files   == [Path -> Version \cup {Gone}]
Nothing == [p \in Path |-> Gone]
WorldPath   == UNION Range(WorldGroup)
ContentPath == Path \ (ConfigPath \cup WorldPath)
Content == DOMAIN Layer

\* An archive has the key it is stored under; a manifest has one of the content,
\* at most one of the config files and those of the worlds.
Descriptor == [key : [kind : {"compiler", "content", "config", "world"},
                      rev : Nat, index : Nat, files : Files],
               files : Files]
Manifests == [rev : Nat, content : Descriptor, config : Seq(Descriptor), world : Seq(Descriptor)]

ASSUME WorkspaceAssumption ==
    /\ Gone \notin Version /\ Irregular \subseteq Version /\ Bytes \in [Version -> Nat]
    /\ ConfigPath \cup WorldPath \subseteq Path /\ ConfigPath \cap WorldPath = {}
    /\ WorldGroup \in Seq(SUBSET Path)
    /\ \A i, j \in DOMAIN WorldGroup : i # j => WorldGroup[i] \cap WorldGroup[j] = {}
    /\ Layer \in [Content -> Files] /\ Seed \in Files
    /\ \A f \in Files : Session(f) \subseteq Files
    /\ \A c, d \in Content : Layer[c] = Layer[d] => c = d
    /\ \A c \in Content : \A p \in WorldPath : Layer[c][p] = Gone
    /\ \A p \in Path : Seed[p] # Gone => p \in WorldPath
    /\ \A f \in {Layer[c] : c \in Content} \cup {Seed} : \A p \in Path : f[p] \notin Irregular
    /\ {Limit, MaxArchive, MaxPaths, MaxBlobs, MaxManifest} \subseteq Nat
    /\ MaxAssignment \in Nat \ {0}
    /\ None \notin Content \cup Files /\ None \notin Manifests
    /\ Orders \subseteq [1 .. MaxAssignment ->
           [start : Content \cup {None}, stop : Content \cup {None}, seed : BOOLEAN]]
    /\ \A o \in Orders : \A a \in DOMAIN o :
           o[a].stop \in {o[a].start, None} /\ (o[a].seed => a = 1)

Present(f)    == {p \in Path : f[p] # Gone}
Size(f)       == MapThenSumSet(LAMBDA p : Bytes[f[p]], Present(f))
Only(f, ps)   == [p \in Path |-> IF p \in ps THEN f[p] ELSE Gone]
Over(f, base) == [p \in Path |-> IF f[p] # Gone THEN f[p] ELSE base[p]]

\* What a removal of a tree that fails or is cut short can leave.
Partly(f) == {Only(f, ps) : ps \in SUBSET Path}
-----------------------------------------------------------------------------
(* Descriptors and manifests *)

Key(kind, rev, index, files) ==
    [kind |-> kind, rev |-> rev, index |-> index, files |-> files]
Blob(key, files) == [key |-> key, files |-> files]

\* A compiler-owned layer has a key of its own, a content layer is named by its
\* hash, the others by revision.
CompilerBlob(c)   == Blob(Key("compiler", 0, 0, Layer[c]), Layer[c])
ContentBlob(f)    == Blob(Key("content", 0, 0, f), f)
ConfigBlob(r, f)  == Blob(Key("config", r, 0, Nothing), f)
WorldBlob(r, i, f) == Blob(Key("world", r, i, Nothing), f)

Manifest(rev, content, config, world) ==
    [rev |-> rev, content |-> content, config |-> config, world |-> world]

ManifestDescriptors(m) == <<m.content>> \o m.config \o m.world
IsCompilerContent(d) == d.key.kind = "compiler"

LogicalSize(m) == LET ds == ManifestDescriptors(m)
                  IN  SumFunction([i \in DOMAIN ds |-> Size(ds[i].files)])

\* A manifest's JSON is mostly the paths it lists.
ManifestSize(m) == LET ds == ManifestDescriptors(m)
                   IN  SumFunction([i \in DOMAIN ds |-> Cardinality(Present(ds[i].files))])

ValidDescriptor(d) == Size(d.files) <= MaxArchive /\ Cardinality(Present(d.files)) <= MaxPaths

\* The limits validateManifest sets; that on the manifest's own bytes is not one.
Oversized(m) == LET ds == ManifestDescriptors(m) IN
    \/ LogicalSize(m) > Limit
    \/ Len(ds) > MaxBlobs
    \/ \E d \in Range(ds) : ~ValidDescriptor(d)
    \/ Cardinality(UNION {Present(d.files) : d \in Range(ds)}) > MaxPaths

\* extractArchive, descriptor by descriptor: a config file may replace one of
\* the content layer, every other duplicate path is refused.
Disjoint(m) == LET ds == ManifestDescriptors(m) IN
    \A i, j \in DOMAIN ds : i < j =>
        \A p \in Present(ds[i].files) \cap Present(ds[j].files) :
            p \in ConfigPath /\ i = 1 /\ j = 2 /\ m.config # <<>>
Unpacked(ds) == [p \in Path |->
    LET has == {i \in DOMAIN ds : ds[i].files[p] # Gone}
    IN  IF has = {} THEN Gone ELSE ds[Max(has)].files[p]]
Extracted(m) == Over(Unpacked(m.world), Over(Unpacked(m.config), m.content.files))

ValidateManifest(m) ==
    LET ds == ManifestDescriptors(m) IN
    /\ ~Oversized(m)
    /\ \A i, j \in DOMAIN ds : i # j => ds[i].key # ds[j].key
    /\ Disjoint(m)
    /\ ~IsCompilerContent(m.content) => Present(m.content.files) \subseteq ContentPath
    /\ \A d \in Range(m.config) : d.key.kind = "config" /\ Present(d.files) \subseteq ConfigPath
    /\ \A d \in Range(m.world) : d.key.kind = "world" /\ Present(d.files) \subseteq WorldPath

\* Restore with a compiler-owned layer of the command's: a layer that differs
\* from the manifest's also drops the config layer made on top of that.
Replaced(m, c) ==
    IF c = None THEN m
    ELSE Manifest(m.rev, CompilerBlob(c),
                  IF m.content.files = Layer[c] THEN m.config ELSE <<>>, m.world)

\* classify: the archives of the world groups that have files, in order.
WorldLayers(f) ==
    LET held == Ascending({i \in DOMAIN WorldGroup : Only(f, WorldGroup[i]) # Nothing})
    IN  [k \in DOMAIN held |-> Only(f, WorldGroup[held[k]])]

\* Mutant: a blob is reused when it has the same paths.
ReuseByPath(d, known) ==
    LET same == {k \in Range(known) : Present(k.files) = Present(d.files)}
    IN  IF same # {} THEN CHOOSE k \in same : TRUE ELSE d

\* A blob with the files of one of the previous manifest is that blob.
Reuse(d, known) ==
    LET same == {k \in Range(known) : k.files = d.files}
    IN  IF same # {} THEN CHOOSE k \in same : TRUE ELSE d

\* validateRestoredManifest: what a first restore records is valid as well.
ValidateRestored(m) ==
    \/ ValidateManifest(m)
    \/ /\ IsCompilerContent(m.content) /\ ValidDescriptor(m.content)
       /\ m.config = <<>> /\ m.world = <<>>

NoManifest(r) == Manifest(r, ContentBlob(Nothing), <<>>, <<>>)

BuildManifest(f, r, c, previous) ==
    LET prior  == IF previous = None THEN NoManifest(r) ELSE previous
        config == Only(f, ConfigPath)
        worlds == WorldLayers(f)
    IN  Manifest(r,
            IF c # None THEN CompilerBlob(c)
            ELSE IF IsCompilerContent(prior.content) THEN prior.content
            ELSE ContentBlob(Only(f, ContentPath)),
            IF config = Nothing THEN <<>>
            ELSE <<Reuse(ConfigBlob(r, config), prior.config)>>,
            [i \in DOMAIN worlds |-> Reuse(WorldBlob(r, i, worlds[i]), prior.world)])

\* The archives that were built, hence have a local file.
Built(m) == (IF IsCompilerContent(m.content) THEN <<>> ELSE <<m.content>>) \o m.config \o m.world
-----------------------------------------------------------------------------
Assignment == 1 .. MaxAssignment
NoDir == None
NoStaging == [json |-> None, intact |-> FALSE]

VARIABLES
    order,      \* order[a]: the layers its start and its stop name, and if it has a seed
    now,        \* the current assignment
    phase,      \* "start", "active", "stop", "synced" or "done"
    pc,         \* the next step of the call in progress; "idle", or "refused" when
                \* the last call found something it does not accept
    local,      \* what that call has in hand: the files to activate and those moved
                \* to <service>.previous, the manifest, the archives to upload
    dir,        \* the active workspace, or NoDir
    memory,     \* Manager.restored, or None
    state,      \* the manifest file of the service under .state, or None
    staging,    \* the directory of the current sync: sync.json, or None, and
                \* whether every archive it names is there
    blobs,      \* the immutable objects in the object store
    published,  \* published[r]: the manifest of revision r, or None
    left,       \* history: left[a], what the stopped server left behind
    ran         \* history: the assignments whose restore was completed

vars == <<order, now, phase, pc, local, dir, memory, state, staging,
          blobs, published, left, ran>>
known == <<memory, state>>
cloud == <<blobs, published>>
hist == <<order, left, ran>>

Idle == [files |-> Nothing, moved |-> NoDir, manifest |-> None, todo |-> <<>>]

Init ==
    /\ order \in Orders
    /\ now = 1 /\ phase = "start" /\ pc = "idle" /\ local = Idle
    /\ dir = NoDir
    /\ memory = None /\ state = None /\ staging = NoStaging
    /\ blobs = {CompilerBlob(c) : c \in Content}
    /\ published = [a \in Assignment |-> None]
    /\ left = [a \in Assignment |-> Nothing]
    /\ ran = {}

Goto(next) == pc' = next /\ UNCHANGED local
Return     == pc' = "idle" /\ local' = Idle
Refuse     == pc' = "refused" /\ local' = Idle
Free       == pc \in {"idle", "refused"}
Layered    == order[now].start # None
Bare       == now = 1 /\ ~Layered
-----------------------------------------------------------------------------
(* Restore *)

\* Mutant: a workspace that is there is taken for the restored one.
CallRestoreOnce ==
    /\ phase = "start" /\ Free
    /\ pc' = IF dir # NoDir THEN "prepare" ELSE IF Bare THEN "seal" ELSE "fetch"
    /\ local' = Idle
    /\ UNCHANGED <<now, phase, dir, known, staging, cloud, hist>>

\* The executor calls Restore for a start whose assignment has no entry yet.
CallRestore ==
    /\ phase = "start" /\ Free
    /\ pc' = IF Bare THEN "seal" ELSE "fetch"
    /\ local' = Idle
    /\ UNCHANGED <<now, phase, dir, known, staging, cloud, hist>>

\* The manifest to restore: that of the revision, with the command's layer.
Wanted == IF now = 1 THEN Manifest(0, CompilerBlob(order[1].start), <<>>, <<>>)
          ELSE Replaced(published[now - 1], order[now].start)

\* Download, verification and extraction into a staging directory that no later
\* call reads.  A manifest is downloaded up to its limit; the layer named by the
\* command is checked by itself.
Fetch ==
    /\ pc = "fetch"
    /\ \E m \in {Wanted} :
       IF /\ now > 1 => /\ ManifestSize(published[now - 1]) <= MaxManifest
                        /\ ValidateManifest(published[now - 1])
          /\ Layered => ValidDescriptor(CompilerBlob(order[now].start))
          /\ Range(ManifestDescriptors(m)) \subseteq blobs
          /\ Disjoint(m) /\ LogicalSize(m) <= Limit
       THEN /\ pc' = "seal"
            /\ local' = [Idle EXCEPT !.files = Extracted(m), !.manifest = m]
       ELSE Refuse
    /\ UNCHANGED <<now, phase, dir, known, staging, cloud, hist>>

\* sealReplacedWorkspaces, and the removal of an old <service>.previous: what an
\* earlier call moved there is never read.
SealReplaced ==
    /\ pc = "seal" /\ Goto("move")
    /\ UNCHANGED <<now, phase, dir, known, staging, cloud, hist>>

\* replaceWorkspaceWithBackup: the two renames.
MoveAway ==
    /\ pc = "move" /\ pc' = "activate"
    /\ dir' = NoDir
    /\ local' = [local EXCEPT !.moved = dir]
    /\ UNCHANGED <<now, phase, known, staging, cloud, hist>>

Activate ==
    /\ pc = "activate"
    /\ Goto(IF Bare THEN "drop" ELSE "quota")
    /\ dir' = local.files
    /\ UNCHANGED <<now, phase, known, staging, cloud, hist>>

ApplyQuota ==
    /\ pc = "quota"
    /\ Goto(IF Bare THEN "world" ELSE "drop")
    /\ UNCHANGED <<now, phase, dir, known, staging, cloud, hist>>

\* The backup is removed.  Only the activation of an empty workspace minds one
\* that stays.
DropBackup ==
    /\ pc = "drop"
    /\ Goto(IF Bare THEN "quota" ELSE "record")
    /\ UNCHANGED <<now, phase, dir, known, staging, cloud, hist>>

RecordRestored ==
    /\ pc = "record"
    /\ Goto(IF now = 1 THEN "world" ELSE "prepare")
    /\ memory' = local.manifest /\ state' = local.manifest
    /\ UNCHANGED <<now, phase, dir, staging, cloud, hist>>

\* restoreInitialWorld: verified as a whole, extracted file by file into the
\* active workspace, under its quota.
ExtractWorld ==
    /\ pc = "world"
    /\ LET missing == {p \in Present(Seed) : dir[p] # Seed[p]}
       IN  IF ~order[1].seed \/ missing = {} THEN Goto("prepare") /\ UNCHANGED dir
           ELSE \E p \in missing :
                   LET more == [dir EXCEPT ![p] = Seed[p]]
                   IN  IF Size(more) > Limit THEN Refuse /\ UNCHANGED dir
                       ELSE Goto("world") /\ dir' = more
    /\ UNCHANGED <<now, phase, known, staging, cloud, hist>>

\* Restore returns and the executor records the assignment.
Prepare ==
    /\ pc = "prepare" /\ Return
    /\ phase' = "active" /\ ran' = ran \cup {now}
    /\ UNCHANGED <<now, dir, known, staging, cloud, order, left>>

\* A step of Restore fails, with what the failed step leaves; the last two are
\* the removal of an activated workspace whose quota was refused, and the record
\* of the assignment after Restore has returned.
RestoreFails ==
    /\ pc \in {"fetch", "seal", "move", "activate", "drop", "quota", "record", "world", "prepare"}
    /\ pc = "drop" => Bare
    /\ Return
    /\ dir' \in CASE pc = "activate" -> {NoDir, local.moved}
                 [] pc = "quota" /\ ~Bare -> Partly(dir) \cup {NoDir, local.moved}
                 [] OTHER -> {dir}
    /\ memory' = IF pc = "record" THEN local.manifest ELSE memory
    /\ UNCHANGED <<now, phase, state, staging, cloud, hist>>
-----------------------------------------------------------------------------
(* Between the calls *)

\* A server starts only on a compiler-owned layer; the quota holds it.
Play ==
    /\ phase = "active" /\ Layered
    /\ \E f \in Session(dir) : dir' = f /\ Size(f) <= Limit
    /\ UNCHANGED <<now, phase, pc, local, known, staging, cloud, hist>>

\* The stop arrives, after the start or instead of it, and the server stops.
StopServer ==
    /\ phase \in {"start", "active"} /\ Free
    /\ phase' = "stop"
    /\ left' = [left EXCEPT ![now] = IF dir = NoDir THEN Nothing ELSE dir]
    /\ UNCHANGED <<now, pc, local, dir, known, staging, cloud, order, ran>>

\* The control plane assigns the service again.
NextAssignment ==
    /\ phase = "done" /\ now < MaxAssignment
    /\ now' = now + 1 /\ phase' = "start"
    /\ staging' = NoStaging
    /\ UNCHANGED <<pc, local, dir, known, cloud, hist>>

\* The agent dies and is started again.
Crash ==
    /\ Return
    /\ memory' = None
    /\ UNCHANGED <<now, phase, dir, state, staging, cloud, hist>>
-----------------------------------------------------------------------------
(* Sync *)

CallSync ==
    /\ phase = "stop" /\ Free
    /\ Goto("open")
    /\ UNCHANGED <<now, phase, dir, known, staging, cloud, hist>>

\* A workspace that is not there is created; it is sealed.
OpenWorkspace ==
    /\ pc = "open" /\ Goto("load")
    /\ dir' = IF dir = NoDir THEN Nothing ELSE dir
    /\ UNCHANGED <<now, phase, known, staging, cloud, hist>>

\* loadSyncDescriptor: a draft that does not verify is an error.
LoadDescriptor ==
    /\ pc = "load"
    /\ IF staging.json = None THEN Goto("draft")
       ELSE IF ValidateManifest(staging.json) /\ staging.intact
       THEN /\ pc' = "upload"
            /\ local' = [Idle EXCEPT !.manifest = staging.json, !.todo = Built(staging.json)]
       ELSE Refuse
    /\ UNCHANGED <<now, phase, dir, known, staging, cloud, hist>>

\* collectFiles refuses the whole directory for one entry it cannot archive.
Collectable(f) == \A p \in Path : f[p] \notin Irregular

\* buildArchive refuses an archive larger than one object may be; content is not
\* archived when it is compiler-owned.
Archivable(f, c, previous) ==
    \A ps \in {ConfigPath} \cup Range(WorldGroup) \cup
              (IF c # None \/ (previous # None /\ IsCompilerContent(previous.content))
               THEN {} ELSE {ContentPath}) :
        Size(Only(f, ps)) <= MaxArchive

\* collectFiles, previousManifest, buildManifest, and sync.json, which is renamed
\* into place.
Draft ==
    /\ pc = "draft"
    /\ IF \/ ~Collectable(dir)
          \/ memory = None /\ state # None /\ ~ValidateRestored(state)
       THEN Refuse /\ UNCHANGED <<memory, staging>>
       ELSE \E previous \in {IF memory # None THEN memory ELSE state} :
            \E m \in {BuildManifest(dir, now, order[now].stop, previous)} :
                /\ memory' = previous
                /\ IF Archivable(dir, order[now].stop, previous)
                   THEN /\ staging' = [json |-> m, intact |-> TRUE]
                        /\ pc' = "upload"
                        /\ local' = [Idle EXCEPT !.manifest = m, !.todo = Built(m)]
                   ELSE Refuse /\ UNCHANGED staging
    /\ UNCHANGED <<now, phase, dir, state, cloud, hist>>

\* A conditional PUT: the object is created, or compared with what is there.
Stored(d) == {b \in blobs : b.key = d.key}

Upload ==
    /\ pc = "upload"
    /\ IF local.todo = <<>> THEN Goto("publish") /\ UNCHANGED blobs
       ELSE LET d == Head(local.todo) IN
            IF Stored(d) \subseteq {d}
            THEN /\ blobs' = blobs \cup {d}
                 /\ pc' = "upload" /\ local' = [local EXCEPT !.todo = Tail(@)]
            ELSE Refuse /\ UNCHANGED blobs
    /\ UNCHANGED <<now, phase, dir, known, staging, published, hist>>

\* Mutant: a manifest that is there already is an error, also the same one.
PublishNew ==
    /\ pc = "publish"
    /\ IF published[now] = None
       THEN Goto("persist") /\ published' = [published EXCEPT ![now] = local.manifest]
       ELSE Refuse /\ UNCHANGED published
    /\ UNCHANGED <<now, phase, dir, known, staging, blobs, hist>>

\* uploadBytes of the manifest, under the same condition.
Publish ==
    /\ pc = "publish"
    /\ IF published[now] \in {None, local.manifest}
       THEN Goto("persist") /\ published' = [published EXCEPT ![now] = local.manifest]
       ELSE Refuse /\ UNCHANGED published
    /\ UNCHANGED <<now, phase, dir, known, staging, blobs, hist>>

RecordSynced ==
    /\ pc = "persist" /\ Goto("clean")
    /\ memory' = local.manifest /\ state' = local.manifest
    /\ UNCHANGED <<now, phase, dir, staging, cloud, hist>>

\* The staging directory goes, Sync returns and the executor commits the result.
CleanUp ==
    /\ pc = "clean" /\ Return
    /\ staging' = NoStaging
    /\ phase' = "synced"
    /\ UNCHANGED <<now, dir, known, cloud, hist>>

\* A step of Sync fails.  A PUT that failed may have taken effect; a removal that
\* failed, or was cut short by a crash, leaves part of the staging directory; and
\* the commit may fail after the removal.
SyncFails ==
    /\ pc \in {"open", "load", "draft", "upload", "publish", "persist", "clean"}
    /\ Return
    /\ dir' \in IF pc = "open" /\ dir = NoDir THEN {NoDir, Nothing} ELSE {dir}
    /\ blobs' \in IF pc = "upload" /\ local.todo # <<>> /\ Stored(Head(local.todo)) = {}
                  THEN {blobs, blobs \cup {Head(local.todo)}} ELSE {blobs}
    /\ published' \in IF pc = "publish" /\ published[now] = None
                      THEN {published, [published EXCEPT ![now] = local.manifest]} ELSE {published}
    /\ memory' = IF pc = "persist" THEN local.manifest ELSE memory
    /\ staging' \in IF pc = "clean"
                    THEN {staging, NoStaging, [staging EXCEPT !.intact = Built(staging.json) = <<>>]}
                    ELSE {staging}
    /\ UNCHANGED <<now, phase, state, hist>>
-----------------------------------------------------------------------------
(* Release *)

CallRelease ==
    /\ phase = "synced" /\ Free
    /\ Goto("remove")
    /\ UNCHANGED <<now, phase, dir, known, staging, cloud, hist>>

RemoveWorkspace ==
    /\ pc = "remove" /\ Goto("forget")
    /\ dir' = NoDir /\ memory' = None
    /\ UNCHANGED <<now, phase, state, staging, cloud, hist>>

ForgetState ==
    /\ pc = "forget" /\ Return
    /\ state' = None
    /\ phase' = "done"
    /\ UNCHANGED <<now, dir, memory, staging, cloud, hist>>

ReleaseFails ==
    /\ pc \in {"remove", "forget"} /\ Return
    /\ dir' \in IF pc = "remove" /\ dir # NoDir THEN Partly(dir) ELSE {dir}
    /\ UNCHANGED <<now, phase, known, staging, cloud, hist>>
-----------------------------------------------------------------------------
Restore == CallRestore \/ Fetch \/ SealReplaced \/ MoveAway \/ Activate \/ ApplyQuota
           \/ DropBackup \/ RecordRestored \/ ExtractWorld \/ Prepare
Sync    == CallSync \/ OpenWorkspace \/ LoadDescriptor \/ Draft \/ Upload \/ Publish
           \/ RecordSynced \/ CleanUp
Release == CallRelease \/ RemoveWorkspace \/ ForgetState
Fault   == RestoreFails \/ SyncFails \/ ReleaseFails \/ Crash

Next == Restore \/ Sync \/ Release \/ Fault \/ Play \/ StopServer \/ NextAssignment

Spec == Init /\ [][Next]_vars

\* The daemon goes on with the call in progress and calls again for a command
\* that is not acknowledged; faults cease at some time.
FairSpec == Spec /\ WF_vars(Restore \/ Sync \/ Release) /\ <>[][~Fault]_vars
-----------------------------------------------------------------------------
(* Properties *)

\* What keeps of a directory under a compiler-owned layer: the world and the
\* config files as they are, the rest as the layer has it.
Kept(f, c) == IF c = None THEN f
              ELSE Over(Only(f, ConfigPath \cup WorldPath), Layer[c])

\* The compiler-owned layer a manifest has, or None.
LayerOf(m) == IF IsCompilerContent(m.content)
              THEN CHOOSE c \in Content : Layer[c] = m.content.files ELSE None

\* The layer the assignment's directory was restored with.
RestoredLayer(a) == IF order[a].start # None THEN order[a].start
                    ELSE IF a = 1 THEN None ELSE LayerOf(published[a - 1])

\* Every published revision is complete and restores to what the server left:
\* its objects are stored, its manifest passes the check of the next restore
\* unless it is over a limit of that check (a restore also reads no more than
\* 1 MiB of a manifest, which no publish looks at), its layer is the one the
\* server ran on, and unpacked it is the directory as it was when the server
\* stopped, through any number of failed, cut and resumed syncs.
PublishedRestores == \A r \in Assignment : published[r] # None =>
    LET m == published[r] IN
    /\ Range(ManifestDescriptors(m)) \subseteq blobs
    /\ ValidateManifest(m) \/ Oversized(m)
    /\ LayerOf(m) \in {RestoredLayer(r)} \cup (IF r \in ran THEN {} ELSE {None})
    /\ Extracted(m) = Kept(left[r], LayerOf(m))

\* The directory a start is to find, from the history.  Config files are kept
\* under a layer that has the files of the one before.
Expected(a) ==
    LET c == order[a].start
        before == Kept(left[a - 1], LayerOf(published[a - 1]))
    IN  IF a = 1 THEN Over(IF order[1].seed THEN Seed ELSE Nothing,
                           IF c = None THEN Nothing ELSE Layer[c])
        ELSE IF c = None \/ published[a - 1].content.files = Layer[c] THEN before
        ELSE Over(Only(before, WorldPath), Layer[c])

\* When Restore returns, the directory is exactly the assigned revision under
\* the assigned layer, whatever earlier attempts left in its place.
RestoredIsWhole ==
    [][phase = "start" /\ phase' = "active" => dir = Expected(now)]_vars

\* What a start is to restore is over a limit: the revision's manifest, the layer
\* of the command, or all of it under the quota.
TooLarge ==
    \/ /\ now > 1
       /\ Oversized(published[now - 1]) \/ ManifestSize(published[now - 1]) > MaxManifest
    \/ Layered /\ ~ValidDescriptor(CompilerBlob(order[now].start))
    \/ (IF Bare THEN 0 ELSE LogicalSize(Wanted))
         + (IF now = 1 /\ order[1].seed THEN Size(Seed) ELSE 0) > Limit

\* What the server left cannot be drafted: an entry that is no regular file or
\* has a bad name, or files too large for one archive.
Undraftable ==
    /\ staging.json = None /\ dir # NoDir
    /\ \/ ~Collectable(dir)
       \/ ~Archivable(dir, order[now].stop, IF memory # None THEN memory ELSE state)

\* What can keep a command from being carried out once faults cease: a call is
\* refused for a revision or a layer over a limit, a directory that cannot be
\* drafted, a draft that was partly removed or is over a limit, or a record that
\* is over a limit.
Obstructed ==
    /\ pc = "refused"
    /\ \/ phase = "start" /\ TooLarge
       \/ phase = "stop" /\ Undraftable
       \/ phase = "stop" /\ staging.json # None /\ ~(staging.intact /\ ValidateManifest(staging.json))
       \/ phase = "stop" /\ state # None /\ Oversized(state)

\* A start is restored, a stop synced and a synced workspace released once
\* faults cease: a retry is never refused because of what an earlier attempt has
\* recorded, uploaded or published, unless the command is obstructed.
CommandsComplete == \A p \in {"start", "stop", "synced"} :
    (phase = p) ~> (phase # p \/ Obstructed)
=============================================================================
