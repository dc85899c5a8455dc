------------------------------- MODULE Bundle -------------------------------
(***************************************************************************)
(* bundle.mjs: the checks on the launcher's archive before it is built.    *)
(*                                                                         *)
(* A zip is the sequence of its central directory records.  Contents stand *)
(* for their digests, so two files have the same content when both their   *)
(* size and their sha256 agree.  compat stands for the Minecraft version,  *)
(* the loader, the Java requirement and the runtime catalogue revision.    *)
(***************************************************************************)
EXTENDS Packaging

CONSTANTS
    Before(_, _),      \* the order of path strings
    MaxBundleEntries,  \* MAX_BUNDLE_ENTRIES
    MaxEntryBytes,     \* MAX_ENTRY_BYTES
    MaxRatio           \* highest compression ratio, 100

NoJava == ""
BundleJson == <<Segment("bundle.json")>>
Resolved(name) == <<Segment("resolved"), Segment(name)>>
RequiredResolvedFiles == {Resolved("version.json"), Resolved("loader.json"),
                          Resolved("artifacts.json"), Resolved("mods.json")}

InstancePath(path) == <<Segment("instance")>> \o path
ModPath(filename) == <<Segment("instance"), Segment("mods"), filename>>

IsInstance(path) == Len(path) > 1 /\ path[1] = Segment("instance")
IsLocalMod(path) == Len(path) > 2 /\ IsInstance(path) /\ path[2] = Segment("mods")

SafeZipPath(path) ==
    path # <<>> /\ \A i \in DOMAIN path : path[i].text \notin {"", ".", ".."}

\* The directories an instance may bring, and its few top-level files.
InstanceDirectories == {"mods", "config", "defaultconfigs", "kubejs", "scripts",
    "datapacks", "global_packs", "openloader", "paxi", "resourcepacks"}
InstanceFiles == {"server.properties", "pack.toml", "pack.mcmeta", "server-icon.png"}

StartScripts == {"server.sh", "start.sh", "server.bat", "start.bat", "server.cmd", "start.cmd"}

AllowedPath(path) ==
    /\ SafeZipPath(path)
    /\ path[Len(path)].text \notin StartScripts
    /\ \/ path \in RequiredResolvedFiles
       \/ /\ IsInstance(path)
          /\ IF Len(path) = 2 THEN path[2].text \in InstanceFiles
             ELSE path[2].text \in InstanceDirectories

\* readZip: sound stands for the signatures, flags, offsets and the checksum of
\* one record; the records are bounded one by one and together.
ReadsZip(zip) ==
    /\ Len(zip) <= MaxBundleEntries
    /\ \A i \in DOMAIN zip :
          /\ zip[i].sound /\ SafeZipPath(zip[i].path)
          /\ zip[i].size <= MaxEntryBytes
          /\ zip[i].size > 0 => zip[i].packed > 0 /\ zip[i].size <= MaxRatio * zip[i].packed
          /\ \A j \in 1 .. i - 1 : zip[j].path # zip[i].path
    /\ SumFunction([i \in DOMAIN zip |-> zip[i].size]) <= MaxPackageInputBytes

Paths(seq) == {seq[i].path : i \in DOMAIN seq}
At(seq, path) == seq[CHOOSE i \in DOMAIN seq : seq[i].path = path]

\* parseManifest: allowed paths in strictly ascending order.
ParsesManifest(files) ==
    /\ \A i \in DOMAIN files : AllowedPath(files[i].path)
    /\ \A i \in 1 .. Len(files) - 1 : Before(files[i].path, files[i + 1].path)

\* The frozen manifest names the same runtime, or leaves Java open.
VerifyCompatibility(manifest, frozen) == \E java \in {manifest.compat.java, NoJava} :
    frozen.compat = [manifest.compat EXCEPT !.java = java]

\* Mutant: the lengths are not compared.
ListedSubset(zip, files) ==
    /\ BundleJson \in Paths(zip)
    /\ \A path \in Paths(zip) \ {BundleJson} :
          /\ path \in Paths(files) /\ AllowedPath(path)
          /\ At(files, path).content = At(zip, path).content

\* validateBundle's own loop: every record is listed as it is, and the list is
\* no longer than the records.
ListedExactly(zip, files) ==
    /\ BundleJson \in Paths(zip)
    /\ \A path \in Paths(zip) \ {BundleJson} :
          /\ path \in Paths(files) /\ AllowedPath(path)
          /\ At(files, path).content = At(zip, path).content
    /\ Cardinality(Paths(files)) = Len(zip) - 1

\* verifyResolvedMetadata: the resolved descriptions repeat the manifest, and
\* artifacts.json lists the instance files in its order.
VerifyResolvedMetadata(bundle) ==
    /\ bundle.described = bundle.manifest.compat
    /\ bundle.artifacts = SelectSeq(bundle.manifest.files, LAMBDA f : IsInstance(f.path))

\* verifyResolvedMods, the frozen list: distinct, and apart from local mods.
FrozenModsApart(mods, local) ==
    \A i \in DOMAIN mods :
        /\ mods[i].path \notin local
        /\ \A j \in 1 .. i - 1 : mods[j].path # mods[i].path

\* ... and the declarations: each one local or remote as declared, none twice,
\* none missing.
VerifyResolvedMods(declarations, files, mods) ==
    LET local == {p \in Paths(files) : IsLocalMod(p)}
    IN  /\ FrozenModsApart(mods, local)
        /\ \A i \in DOMAIN declarations :
              LET d == declarations[i]
              IN  /\ \A j \in 1 .. i - 1 : declarations[j].path # d.path
                  /\ IF d.source = "local"
                     THEN d.path \in local /\ At(files, d.path).content = d.content
                     ELSE d.path \in Paths(mods) /\ At(mods, d.path).content = d.content
        /\ Len(declarations) = Cardinality(local) + Cardinality(Paths(mods))
        /\ local \cup Paths(mods) \subseteq Paths(declarations)

ValidateBundle(bundle, frozen) ==
    /\ ReadsZip(bundle.zip)
    /\ BundleJson \in Paths(bundle.zip)
    /\ ParsesManifest(bundle.manifest.files)
    /\ VerifyCompatibility(bundle.manifest, frozen)
    /\ ListedExactly(bundle.zip, bundle.manifest.files)
    /\ RequiredResolvedFiles \subseteq Paths(bundle.zip)
    /\ VerifyResolvedMetadata(bundle)
    /\ VerifyResolvedMods(bundle.mods, bundle.manifest.files, frozen.mods)
=============================================================================
