----------------------- MODULE WorkspaceManagerProofs -----------------------
(***************************************************************************)
(* The workspace manager, for any paths, layers, sessions and orders, and  *)
(* any number of assignments, faults and crashes.                          *)
(*                                                                         *)
(* The first half is about the data: what a directory is packed into and   *)
(* what unpacking that gives.  The second half is the inductive invariant: *)
(* every manifest that is published, drafted or remembered is one of the   *)
(* directory the server left, or the one that was restored.                *)
(***************************************************************************)
EXTENDS WorkspaceManager, ListProofs

\* A leaf is tried with Zenon, then with the SMT solver.
USE ZenonT(5), SMTT(15)

-----------------------------------------------------------------------------
(* Files *)

\* What the constants are.
LEMMA PathsAre ==
  /\ ConfigPath \subseteq Path /\ WorldPath \subseteq Path /\ ConfigPath \cap WorldPath = {}
  /\ ContentPath = Path \ (ConfigPath \cup WorldPath)
BY WorkspaceAssumption DEF ContentPath

\* The layers: directories without worlds, each under one name.
LEMMA LayersAre ==
  /\ \A c \in Content : Layer[c] \in Files /\ c # None
  /\ \A c \in Content : \A p \in WorldPath : Layer[c][p] = Gone
  /\ \A c, d \in Content : Layer[c] = Layer[d] => c = d
BY WorkspaceAssumption

\* None is no directory, no manifest and no layer.
LEMMA NoneIsNone == None \notin Files /\ None \notin Manifests /\ None \notin Content
BY WorkspaceAssumption

\* Selecting and laying over give directories.
LEMMA FilesClosed ==
  /\ Nothing \in Files
  /\ \A f \in Files : \A ps : Only(f, ps) \in Files
  /\ \A f, g \in Files : Over(f, g) \in Files
BY DEF Files, Nothing, Only, Over

\* A selection, path by path.
LEMMA OnlyAt == \A f, ps : \A p \in Path : Only(f, ps)[p] = IF p \in ps THEN f[p] ELSE Gone
BY DEF Only

\* A directory laid over another, path by path.
LEMMA OverAt == \A f, g : \A p \in Path : Over(f, g)[p] = IF f[p] # Gone THEN f[p] ELSE g[p]
BY DEF Over

\* The empty directory has no file.
LEMMA NothingAt == \A p \in Path : Nothing[p] = Gone
BY DEF Nothing

\* Directories that agree on every path are the same.
LEMMA SameFiles ==
  ASSUME NEW f \in Files, NEW g \in Files, \A p \in Path : f[p] = g[p]
  PROVE  f = g
BY DEF Files

\* A directory is nothing when it has no file.
LEMMA HasFile ==
  ASSUME NEW f \in Files, f # Nothing
  PROVE  \E p \in Path : f[p] # Gone
BY FilesClosed, NothingAt, SameFiles

\* Archives.
LEMMA DescriptorIs ==
  /\ \A d \in Descriptor : d.files \in Files /\ d.key.kind \in {"compiler", "content", "config", "world"}
  /\ \A f \in Files : ContentBlob(f) \in Descriptor /\ ContentBlob(f).files = f
                      /\ ContentBlob(f).key.kind = "content"
  /\ \A c \in Content : CompilerBlob(c) \in Descriptor /\ CompilerBlob(c).files = Layer[c]
                        /\ CompilerBlob(c).key.kind = "compiler"
  /\ \A r \in Nat : \A f \in Files : ConfigBlob(r, f) \in Descriptor /\ ConfigBlob(r, f).files = f
                        /\ ConfigBlob(r, f).key.kind = "config"
  /\ \A r, i \in Nat : \A f \in Files :
        /\ WorldBlob(r, i, f) \in Descriptor /\ WorldBlob(r, i, f).files = f
        /\ WorldBlob(r, i, f).key.kind = "world"
        /\ WorldBlob(r, i, f).key.rev = r /\ WorldBlob(r, i, f).key.index = i
<1>1. \A d \in Descriptor : d.files \in Files /\ d.key.kind \in {"compiler", "content", "config", "world"}
  BY DEF Descriptor
<1>2. \A f \in Files : ContentBlob(f) \in Descriptor /\ ContentBlob(f).files = f
                      /\ ContentBlob(f).key.kind = "content"
  BY DEF Descriptor, ContentBlob, Blob, Key
<1>3. \A c \in Content : CompilerBlob(c) \in Descriptor /\ CompilerBlob(c).files = Layer[c]
                        /\ CompilerBlob(c).key.kind = "compiler"
  BY LayersAre DEF Descriptor, CompilerBlob, Blob, Key
<1>4. \A r \in Nat : \A f \in Files : ConfigBlob(r, f) \in Descriptor /\ ConfigBlob(r, f).files = f
                        /\ ConfigBlob(r, f).key.kind = "config"
  BY FilesClosed DEF Descriptor, ConfigBlob, Blob, Key
<1>5. \A r, i \in Nat : \A f \in Files :
        /\ WorldBlob(r, i, f) \in Descriptor /\ WorldBlob(r, i, f).files = f
        /\ WorldBlob(r, i, f).key.kind = "world"
        /\ WorldBlob(r, i, f).key.rev = r /\ WorldBlob(r, i, f).key.index = i
  BY FilesClosed DEF Descriptor, WorldBlob, Blob, Key
<1> QED BY <1>1, <1>2, <1>3, <1>4, <1>5

\* Manifests.
LEMMA ManifestIs ==
  ASSUME NEW rev \in Nat, NEW content \in Descriptor, NEW config \in Seq(Descriptor),
         NEW world \in Seq(Descriptor)
  PROVE  /\ Manifest(rev, content, config, world) \in Manifests
         /\ Manifest(rev, content, config, world).rev = rev
         /\ Manifest(rev, content, config, world).content = content
         /\ Manifest(rev, content, config, world).config = config
         /\ Manifest(rev, content, config, world).world = world
BY DEF Manifest, Manifests

\* The parts of a manifest.
LEMMA PartsAre ==
  ASSUME NEW m \in Manifests
  PROVE  /\ m.rev \in Nat /\ m.content \in Descriptor
         /\ m.config \in Seq(Descriptor) /\ m.world \in Seq(Descriptor)
BY DEF Manifests

-----------------------------------------------------------------------------
(* The layers of a directory *)

\* The world archives of f: one for each group that has files.
LEMMA WorldLayersAre ==
  ASSUME NEW f \in Files
  PROVE  \E n, at :
            /\ n \in Nat /\ at \in [1 .. n -> DOMAIN WorldGroup]
            /\ WorldLayers(f) = [k \in 1 .. n |-> Only(f, WorldGroup[at[k]])]
            /\ \A k, l \in 1 .. n : at[k] = at[l] => k = l
            /\ \A k \in 1 .. n : Only(f, WorldGroup[at[k]]) # Nothing
            /\ \A i \in DOMAIN WorldGroup : Only(f, WorldGroup[i]) # Nothing =>
                  \E k \in 1 .. n : at[k] = i
<1> DEFINE H == {i \in DOMAIN WorldGroup : Only(f, WorldGroup[i]) # Nothing}
           at == Ascending(H)
<1>1. WorldGroup \in Seq(SUBSET Path) BY WorkspaceAssumption
<1>2. DOMAIN WorldGroup = 1 .. Len(WorldGroup) /\ Len(WorldGroup) \in Nat BY <1>1
<1>3. IsFiniteSet(1 .. Len(WorldGroup)) BY <1>2, FS_Interval
<1>4. H \subseteq Nat /\ IsFiniteSet(H) BY <1>2, <1>3, FS_Subset
<1>5. ListsOnce(at, H) /\ Cardinality(H) \in Nat
  <2> HIDE DEF H
  <2> QED BY <1>4, AscendingLists, FS_CardinalityType
<1>6. WorldLayers(f) = [k \in DOMAIN at |-> Only(f, WorldGroup[at[k]])] BY DEF WorldLayers
<1> DEFINE n == Cardinality(H)
<1>7. /\ at \in [1 .. n -> H] /\ \A k, l \in 1 .. n : at[k] = at[l] => k = l
      /\ \A i \in H : \E k \in 1 .. n : at[k] = i
  <2> HIDE DEF H, at
  <2> QED BY <1>5 DEF ListsOnce
<1>8. n \in Nat BY <1>5
<1> HIDE DEF n, at
<1>9. at \in [1 .. n -> DOMAIN WorldGroup] /\ \A k \in 1 .. n : Only(f, WorldGroup[at[k]]) # Nothing
  BY <1>7
<1>10. WorldLayers(f) = [k \in 1 .. n |-> Only(f, WorldGroup[at[k]])] BY <1>6, <1>9
<1>11. \A i \in DOMAIN WorldGroup : Only(f, WorldGroup[i]) # Nothing => \E k \in 1 .. n : at[k] = i
  BY <1>7
<1> HIDE DEF H
<1> WITNESS n, at
<1> QED BY <1>7, <1>8, <1>9, <1>10, <1>11

\* What they hold: each file of the worlds, in one archive.
LEMMA WorldLayersHold ==
  ASSUME NEW f \in Files
  PROVE  /\ WorldLayers(f) \in Seq(Files)
         /\ \A k \in DOMAIN WorldLayers(f) : WorldLayers(f)[k] # Nothing
         /\ \A k \in DOMAIN WorldLayers(f) : \A p \in Path :
               WorldLayers(f)[k][p] # Gone => p \in WorldPath /\ WorldLayers(f)[k][p] = f[p]
         /\ \A k, l \in DOMAIN WorldLayers(f) : \A p \in Path :
               WorldLayers(f)[k][p] # Gone /\ WorldLayers(f)[l][p] # Gone => k = l
         /\ \A p \in WorldPath : f[p] # Gone =>
               \E k \in DOMAIN WorldLayers(f) : WorldLayers(f)[k][p] = f[p]
<1>1. PICK n, at :
            /\ n \in Nat /\ at \in [1 .. n -> DOMAIN WorldGroup]
            /\ WorldLayers(f) = [k \in 1 .. n |-> Only(f, WorldGroup[at[k]])]
            /\ \A k, l \in 1 .. n : at[k] = at[l] => k = l
            /\ \A k \in 1 .. n : Only(f, WorldGroup[at[k]]) # Nothing
            /\ \A i \in DOMAIN WorldGroup : Only(f, WorldGroup[i]) # Nothing =>
                  \E k \in 1 .. n : at[k] = i
  BY WorldLayersAre
<1>2. /\ \A i \in DOMAIN WorldGroup : WorldGroup[i] \subseteq WorldPath
      /\ \A p \in WorldPath : \E i \in DOMAIN WorldGroup : p \in WorldGroup[i]
      /\ \A i, j \in DOMAIN WorldGroup : i # j => WorldGroup[i] \cap WorldGroup[j] = {}
  BY WorkspaceAssumption DEF WorldPath, Range
<1>3. \A k \in 1 .. n : Only(f, WorldGroup[at[k]]) \in Files BY FilesClosed
<1>4. WorldLayers(f) \in Seq(Files)
  <2>1. WorldLayers(f) \in [1 .. n -> Files] BY <1>1, <1>3
  <2> QED BY <1>1, <2>1
<1>5. DOMAIN WorldLayers(f) = 1 .. n /\ \A k \in 1 .. n : WorldLayers(f)[k] = Only(f, WorldGroup[at[k]])
  BY <1>1
<1>6. ASSUME NEW k \in 1 .. n, NEW p \in Path, WorldLayers(f)[k][p] # Gone
      PROVE  p \in WorldGroup[at[k]] /\ WorldLayers(f)[k][p] = f[p]
  BY <1>5, <1>6, OnlyAt
<1>7. ASSUME NEW k \in 1 .. n, NEW l \in 1 .. n, NEW p \in Path,
             WorldLayers(f)[k][p] # Gone, WorldLayers(f)[l][p] # Gone
      PROVE  k = l
  <2>1. p \in WorldGroup[at[k]] /\ p \in WorldGroup[at[l]] BY <1>6, <1>7
  <2>2. at[k] \in DOMAIN WorldGroup /\ at[l] \in DOMAIN WorldGroup BY <1>1
  <2>3. at[k] = at[l] BY <1>2, <2>1, <2>2
  <2> QED BY <1>1, <2>3
<1>8. ASSUME NEW p \in WorldPath, f[p] # Gone
      PROVE  \E k \in 1 .. n : WorldLayers(f)[k][p] = f[p]
  <2>1. PICK i \in DOMAIN WorldGroup : p \in WorldGroup[i] BY <1>2
  <2>2. p \in Path BY PathsAre
  <2>3. Only(f, WorldGroup[i])[p] = f[p] BY <2>1, <2>2, OnlyAt
  <2>4. Only(f, WorldGroup[i]) # Nothing BY <1>8, <2>2, <2>3, NothingAt
  <2>5. PICK k \in 1 .. n : at[k] = i BY <1>1, <2>4
  <2> QED BY <1>5, <2>3, <2>5
<1>9. \A k \in 1 .. n : at[k] \in DOMAIN WorldGroup BY <1>1
<1> QED BY <1>1, <1>2, <1>4, <1>5, <1>6, <1>7, <1>8, <1>9

-----------------------------------------------------------------------------
(* Manifests of a directory *)

\* The archives of m hold the directory f, or what keeps of it under a layer.
Packs(m, f) ==
    /\ IsCompilerContent(m.content) \/ m.content = ContentBlob(Only(f, ContentPath))
    /\ Only(f, ConfigPath) = Nothing => Len(m.config) = 0
    /\ Only(f, ConfigPath) # Nothing => Len(m.config) = 1 /\ m.config[1].files = Only(f, ConfigPath)
    /\ Len(m.world) = Len(WorldLayers(f))
    /\ \A i \in DOMAIN m.world : m.world[i].files = WorldLayers(f)[i]

\* The keys of m: distinct, and of revisions up to r.
Keyed(m, r) ==
    /\ m \in Manifests /\ Len(m.config) <= 1
    /\ IsCompilerContent(m.content) => \E c \in Content : m.content = CompilerBlob(c)
    /\ \A i \in DOMAIN m.config : m.config[i].key.kind = "config"
    /\ \A i \in DOMAIN m.world : m.world[i].key.kind = "world" /\ m.world[i].key.rev <= r
    /\ \A i, j \in DOMAIN m.world : m.world[i].key = m.world[j].key => i = j

\* The archives of a manifest, in order.
LEMMA DescriptorsAre ==
  ASSUME NEW m \in Manifests, Len(m.config) <= 1
  PROVE  LET ds == ManifestDescriptors(m)
             k  == Len(m.config)
         IN  /\ ds \in Seq(Descriptor) /\ DOMAIN ds = 1 .. Len(ds) /\ Len(ds) = 1 + k + Len(m.world)
             /\ k \in {0, 1} /\ Len(m.world) \in Nat
             /\ ds[1] = m.content
             /\ k = 1 => ds[2] = m.config[1]
             /\ \A i \in 1 + k + 1 .. Len(ds) : i - (1 + k) \in DOMAIN m.world
                                                /\ ds[i] = m.world[i - (1 + k)]
<1> DEFINE c == m.content
           g == m.config
           w == m.world
<1>1. c \in Descriptor /\ g \in Seq(Descriptor) /\ w \in Seq(Descriptor) BY PartsAre
<1>2. ManifestDescriptors(m) = <<c>> \o g \o w BY DEF ManifestDescriptors
<1>3. Len(g) \in {0, 1}
  <2>1. Len(g) <= 1 OBVIOUS
  <2> HIDE DEF g
  <2>2. Len(g) \in Nat BY <1>1
  <2> QED BY <2>1, <2>2
<1> HIDE DEF c, g, w
<1>4. /\ <<c>> \o g \in Seq(Descriptor) /\ Len(<<c>> \o g) = 1 + Len(g) /\ Len(g) \in Nat
      /\ (<<c>> \o g)[1] = c /\ (Len(g) = 1 => (<<c>> \o g)[2] = g[1])
  BY <1>1
<1>5. /\ (<<c>> \o g) \o w \in Seq(Descriptor) /\ Len((<<c>> \o g) \o w) = Len(<<c>> \o g) + Len(w)
      /\ Len(w) \in Nat /\ DOMAIN w = 1 .. Len(w)
      /\ \A i \in 1 .. Len(<<c>> \o g) : ((<<c>> \o g) \o w)[i] = (<<c>> \o g)[i]
      /\ \A i \in Len(<<c>> \o g) + 1 .. Len(<<c>> \o g) + Len(w) :
            ((<<c>> \o g) \o w)[i] = w[i - Len(<<c>> \o g)]
  BY <1>1, <1>4
<1> DEFINE ds == (<<c>> \o g) \o w
<1>6. ds \in Seq(Descriptor) /\ Len(ds) = 1 + Len(g) + Len(w) BY <1>4, <1>5
<1>7. DOMAIN ds = 1 .. Len(ds) BY <1>6
<1>8. ds[1] = c BY <1>4, <1>5
<1>9. Len(g) = 1 => ds[2] = g[1] BY <1>4, <1>5
<1>10. \A i \in 1 + Len(g) + 1 .. Len(ds) : i - (1 + Len(g)) \in DOMAIN w /\ ds[i] = w[i - (1 + Len(g))]
  BY <1>4, <1>5, <1>6
<1> HIDE DEF ds
<1>11. ManifestDescriptors(m) = ds BY <1>2 DEF ds
<1> QED BY <1>3, <1>5, <1>6, <1>7, <1>8, <1>9, <1>10, <1>11 DEF c, g, w

\* The place of an archive in the manifest.
LEMMA DescriptorPlace ==
  ASSUME NEW m \in Manifests, Len(m.config) <= 1, NEW i \in DOMAIN ManifestDescriptors(m)
  PROVE  LET d == ManifestDescriptors(m)[i]
             k == Len(m.config)
         IN  \/ i = 1 /\ d = m.content
             \/ i = 2 /\ k = 1 /\ 1 \in DOMAIN m.config /\ d = m.config[1]
             \/ i > 1 + k /\ i - (1 + k) \in DOMAIN m.world /\ d = m.world[i - (1 + k)]
<1> DEFINE ds == ManifestDescriptors(m)
           k == Len(m.config)
<1>1. /\ DOMAIN ds = 1 .. Len(ds) /\ Len(ds) = 1 + k + Len(m.world) /\ Len(m.world) \in Nat
      /\ k \in {0, 1} /\ ds[1] = m.content /\ (k = 1 => ds[2] = m.config[1])
      /\ \A j \in 1 + k + 1 .. Len(ds) : j - (1 + k) \in DOMAIN m.world /\ ds[j] = m.world[j - (1 + k)]
  BY DescriptorsAre
<1>2. m.config \in Seq(Descriptor) BY PartsAre
<1>3. k = 1 => 1 \in DOMAIN m.config BY <1>2
<1> HIDE DEF ds, k
<1>4. i \in 1 .. Len(ds) BY <1>1 DEF ds
<1>5. i = 1 \/ (i = 2 /\ k = 1) \/ i \in 1 + k + 1 .. Len(ds)
  <2>1. Len(ds) = 1 + k + Len(m.world) /\ Len(m.world) \in Nat /\ k \in Nat /\ (k = 0 \/ k = 1)
    BY <1>1
  <2> DEFINE n == Len(ds)
             w == Len(m.world)
  <2>2. n = 1 + k + w /\ w \in Nat /\ k \in Nat /\ i \in 1 .. n BY <1>4, <2>1
  <2> HIDE DEF n, w
  <2>3. k = 0 \/ k = 1 BY <2>1
  <2>4. i = 1 \/ (i = 2 /\ k = 1) \/ i \in 1 + k + 1 .. n BY <2>2, <2>3
  <2> QED BY <2>4 DEF n
<1>6. CASE i = 1 BY <1>1, <1>6 DEF ds
<1>7. CASE i = 2 /\ k = 1 BY <1>1, <1>3, <1>7 DEF ds, k
<1>8. CASE i \in 1 + k + 1 .. Len(ds)
  <2>1. i > 1 + k BY <1>1, <1>8
  <2>2. i - (1 + k) \in DOMAIN m.world /\ ds[i] = m.world[i - (1 + k)] BY <1>1, <1>8
  <2> QED BY <2>1, <2>2 DEF ds, k
<1> QED BY <1>5, <1>6, <1>7, <1>8

\* The greatest of one number.
LEMMA MaxOfOne == ASSUME NEW k \in Nat PROVE Max({k}) = k
BY DEF Max

\* Unpacking archives of which at most one holds each path.
LEMMA UnpackedAt ==
  ASSUME NEW ds \in Seq(Descriptor), NEW p \in Path,
         \A i, j \in DOMAIN ds : ds[i].files[p] # Gone /\ ds[j].files[p] # Gone => i = j
  PROVE  /\ \A i \in DOMAIN ds : ds[i].files[p] # Gone => Unpacked(ds)[p] = ds[i].files[p]
         /\ (\A i \in DOMAIN ds : ds[i].files[p] = Gone) => Unpacked(ds)[p] = Gone
<1> DEFINE has == {i \in DOMAIN ds : ds[i].files[p] # Gone}
<1>1. Unpacked(ds)[p] = IF has = {} THEN Gone ELSE ds[Max(has)].files[p] BY DEF Unpacked
<1>2. ASSUME NEW i \in DOMAIN ds, ds[i].files[p] # Gone PROVE Unpacked(ds)[p] = ds[i].files[p]
  <2>1. has = {i} BY <1>2
  <2>2. i \in Nat BY <1>2
  <2>3. Max(has) = i BY <2>1, <2>2, MaxOfOne
  <2> QED BY <1>1, <2>1, <2>3
<1>3. ASSUME \A i \in DOMAIN ds : ds[i].files[p] = Gone PROVE Unpacked(ds)[p] = Gone
  <2>1. has = {} BY <1>3
  <2> QED BY <1>1, <2>1
<1> QED BY <1>2, <1>3

\* The worlds unpacked.
LEMMA WorldUnpacked ==
  ASSUME NEW f \in Files, NEW m \in Manifests, Packs(m, f), NEW p \in Path
  PROVE  Unpacked(m.world)[p] = Only(f, WorldPath)[p]
<1> DEFINE w == m.world
           l == WorldLayers(f)
<1>1. w \in Seq(Descriptor) BY PartsAre
<1>2. /\ l \in Seq(Files)
      /\ \A k \in DOMAIN l : \A q \in Path : l[k][q] # Gone => q \in WorldPath /\ l[k][q] = f[q]
      /\ \A k, j \in DOMAIN l : \A q \in Path : l[k][q] # Gone /\ l[j][q] # Gone => k = j
      /\ \A q \in WorldPath : f[q] # Gone => \E k \in DOMAIN l : l[k][q] = f[q]
  BY WorldLayersHold
<1>3. Len(w) = Len(l) /\ \A i \in DOMAIN w : w[i].files = l[i] BY DEF Packs
<1>4. DOMAIN w = 1 .. Len(w) BY <1>1
<1>5. DOMAIN l = 1 .. Len(l)
  <2> HIDE DEF l
  <2> QED BY <1>2
<1>6. DOMAIN w = DOMAIN l BY <1>3, <1>4, <1>5
<1> HIDE DEF w, l
<1>7. \A i, j \in DOMAIN w : w[i].files[p] # Gone /\ w[j].files[p] # Gone => i = j BY <1>2, <1>3, <1>6
<1>8. CASE \E i \in DOMAIN w : w[i].files[p] # Gone
  <2>1. PICK i \in DOMAIN w : w[i].files[p] # Gone BY <1>8
  <2>2. Unpacked(w)[p] = w[i].files[p] BY <1>1, <1>7, <2>1, UnpackedAt
  <2>3. p \in WorldPath /\ w[i].files[p] = f[p] BY <1>2, <1>3, <1>6, <2>1
  <2> QED BY <2>2, <2>3, OnlyAt DEF w
<1>9. CASE \A i \in DOMAIN w : w[i].files[p] = Gone
  <2>1. Unpacked(w)[p] = Gone BY <1>1, <1>9, UnpackedAt
  <2>2. p \in WorldPath => f[p] = Gone BY <1>2, <1>3, <1>6, <1>9
  <2> QED BY <2>1, <2>2, OnlyAt DEF w
<1> QED BY <1>8, <1>9

\* The config files unpacked.
LEMMA ConfigUnpacked ==
  ASSUME NEW f \in Files, NEW m \in Manifests, Packs(m, f), NEW p \in Path
  PROVE  Unpacked(m.config)[p] = Only(f, ConfigPath)[p]
<1> DEFINE g == m.config
<1>1. g \in Seq(Descriptor) BY PartsAre
<1>2. DOMAIN g = 1 .. Len(g) BY <1>1
<1>3. CASE Only(f, ConfigPath) = Nothing
  <2>1. Len(g) = 0 BY <1>3 DEF Packs
  <2>2. DOMAIN g = {} BY <1>2, <2>1
  <2> HIDE DEF g
  <2>3. Unpacked(g)[p] = Gone BY <1>1, <2>2, UnpackedAt
  <2> QED BY <1>3, <2>3, NothingAt DEF g
<1>4. CASE Only(f, ConfigPath) # Nothing
  <2>1. Len(g) = 1 /\ g[1].files = Only(f, ConfigPath) BY <1>4 DEF Packs
  <2>2. DOMAIN g = {1} BY <1>2, <2>1
  <2> HIDE DEF g
  <2>3. Unpacked(g)[p] = g[1].files[p]
    <3>1. CASE g[1].files[p] # Gone BY <1>1, <2>2, <3>1, UnpackedAt
    <3>2. CASE g[1].files[p] = Gone BY <1>1, <2>2, <3>2, UnpackedAt
    <3> QED BY <3>1, <3>2
  <2> QED BY <2>1, <2>3 DEF g
<1> QED BY <1>3, <1>4

\* The layer of a manifest.
LEMMA LayerOfCompiler ==
  ASSUME NEW m, NEW c \in Content, m.content = CompilerBlob(c)
  PROVE  IsCompilerContent(m.content) /\ LayerOf(m) = c
<1>1. m.content.files = Layer[c] /\ m.content.key.kind = "compiler" BY DescriptorIs
<1>2. IsCompilerContent(m.content) BY <1>1 DEF IsCompilerContent
<1>3. LayerOf(m) = CHOOSE d \in Content : Layer[d] = Layer[c] BY <1>1, <1>2 DEF LayerOf
<1>4. \A d \in Content : Layer[d] = Layer[c] <=> d = c BY LayersAre
<1>5. (CHOOSE d \in Content : Layer[d] = Layer[c]) = c BY <1>4
<1> QED BY <1>2, <1>3, <1>5

\* A manifest of a directory unpacks to what keeps of that directory.
LEMMA ExtractedIsKept ==
  ASSUME NEW f \in Files, NEW m, NEW r, Keyed(m, r), Packs(m, f)
  PROVE  Extracted(m) = Kept(f, LayerOf(m))
<1>1. m \in Manifests BY DEF Keyed
<1>2. /\ \A p \in Path : Unpacked(m.world)[p] = Only(f, WorldPath)[p]
      /\ \A p \in Path : Unpacked(m.config)[p] = Only(f, ConfigPath)[p]
  BY <1>1, WorldUnpacked, ConfigUnpacked
<1>3. Extracted(m) = [p \in Path |->
         IF Unpacked(m.world)[p] # Gone THEN Unpacked(m.world)[p]
         ELSE IF Unpacked(m.config)[p] # Gone THEN Unpacked(m.config)[p] ELSE m.content.files[p]]
  BY DEF Extracted, Over
<1>4. CASE IsCompilerContent(m.content)
  <2>1. PICK c \in Content : m.content = CompilerBlob(c) BY <1>4 DEF Keyed
  <2>2. LayerOf(m) = c /\ c # None /\ m.content.files = Layer[c]
    BY <2>1, LayerOfCompiler, LayersAre, DescriptorIs
  <2>3. Kept(f, c) = Over(Only(f, ConfigPath \cup WorldPath), Layer[c]) BY <2>2 DEF Kept
  <2>4. ASSUME NEW p \in Path
        PROVE  (IF Unpacked(m.world)[p] # Gone THEN Unpacked(m.world)[p]
                ELSE IF Unpacked(m.config)[p] # Gone THEN Unpacked(m.config)[p] ELSE m.content.files[p])
               = (IF Only(f, ConfigPath \cup WorldPath)[p] # Gone
                  THEN Only(f, ConfigPath \cup WorldPath)[p] ELSE Layer[c][p])
    BY <1>2, <2>2, OnlyAt
  <2> QED BY <1>3, <2>2, <2>3, <2>4 DEF Over
<1>5. CASE ~IsCompilerContent(m.content)
  <2>1. m.content = ContentBlob(Only(f, ContentPath)) BY <1>5 DEF Packs
  <2>2. m.content.files = Only(f, ContentPath) BY <2>1, FilesClosed, DescriptorIs
  <2>3. LayerOf(m) = None /\ Kept(f, None) = f BY <1>5 DEF LayerOf, Kept
  <2>4. ASSUME NEW p \in Path
        PROVE  (IF Unpacked(m.world)[p] # Gone THEN Unpacked(m.world)[p]
                ELSE IF Unpacked(m.config)[p] # Gone THEN Unpacked(m.config)[p] ELSE m.content.files[p])
               = f[p]
    BY <1>2, <2>2, OnlyAt, PathsAre
  <2>5. f = [p \in Path |-> f[p]] BY DEF Files
  <2> QED BY <1>3, <2>3, <2>4, <2>5
<1> QED BY <1>4, <1>5

\* What the archives of a manifest hold.
LEMMA ArchivesHold ==
  ASSUME NEW f \in Files, NEW m, NEW r, Keyed(m, r), Packs(m, f)
  PROVE  /\ \A p \in Path : m.content.files[p] # Gone => p \notin WorldPath
         /\ ~IsCompilerContent(m.content) => Present(m.content.files) \subseteq ContentPath
         /\ \A i \in DOMAIN m.config : i = 1 /\ Present(m.config[i].files) \subseteq ConfigPath
         /\ \A i \in DOMAIN m.world : Present(m.world[i].files) \subseteq WorldPath
         /\ \A i, j \in DOMAIN m.world : \A p \in Present(m.world[i].files) \cap Present(m.world[j].files) :
               i = j
<1>1. m \in Manifests BY DEF Keyed
<1>2. m.content \in Descriptor /\ m.config \in Seq(Descriptor) /\ m.world \in Seq(Descriptor)
  BY <1>1, PartsAre
<1>3. /\ \A p \in Path : m.content.files[p] # Gone => p \notin WorldPath
      /\ ~IsCompilerContent(m.content) => Present(m.content.files) \subseteq ContentPath
  <2>1. CASE IsCompilerContent(m.content)
    <3>1. PICK c \in Content : m.content = CompilerBlob(c) BY <2>1 DEF Keyed
    <3>2. m.content.files = Layer[c] BY <3>1, DescriptorIs
    <3> QED BY <2>1, <3>2, LayersAre
  <2>2. CASE ~IsCompilerContent(m.content)
    <3>1. m.content.files = Only(f, ContentPath) BY <2>2, FilesClosed, DescriptorIs DEF Packs
    <3>2. \A p \in Path : m.content.files[p] # Gone => p \in ContentPath BY <3>1, OnlyAt
    <3> QED BY <3>2, PathsAre DEF Present
  <2> QED BY <2>1, <2>2
<1>5. \A i \in DOMAIN m.config : i = 1 /\ Present(m.config[i].files) \subseteq ConfigPath
  <2> DEFINE g == m.config
  <2>1. DOMAIN g = 1 .. Len(g) /\ Len(g) \in Nat /\ g \in Seq(Descriptor) BY <1>2
  <2>2. Len(g) <= 1 BY DEF Keyed
  <2>3. Len(g) = 1 => g[1].files = Only(f, ConfigPath) BY DEF Packs
  <2> HIDE DEF g
  <2>4. \A i \in DOMAIN g : i = 1 /\ Len(g) = 1 BY <2>1, <2>2
  <2>5. Present(Only(f, ConfigPath)) \subseteq ConfigPath BY OnlyAt DEF Present
  <2>6. \A i \in DOMAIN g : i = 1 /\ g[i].files = Only(f, ConfigPath) BY <2>3, <2>4
  <2> QED BY <2>5, <2>6 DEF g
<1>6. /\ \A i \in DOMAIN m.world : Present(m.world[i].files) \subseteq WorldPath
      /\ \A i, j \in DOMAIN m.world : \A p \in Present(m.world[i].files) \cap Present(m.world[j].files) :
            i = j
  <2> DEFINE w == m.world
             l == WorldLayers(f)
  <2>1. /\ l \in Seq(Files)
        /\ \A k \in DOMAIN l : \A q \in Path : l[k][q] # Gone => q \in WorldPath /\ l[k][q] = f[q]
        /\ \A k, j \in DOMAIN l : \A q \in Path : l[k][q] # Gone /\ l[j][q] # Gone => k = j
    BY WorldLayersHold
  <2>2. Len(w) = Len(l) /\ \A i \in DOMAIN w : w[i].files = l[i] BY DEF Packs
  <2>3. DOMAIN w = 1 .. Len(w) BY <1>2
  <2> HIDE DEF w, l
  <2>4. DOMAIN w = DOMAIN l BY <2>1, <2>2, <2>3
  <2>5. \A i \in DOMAIN w : i \in DOMAIN l /\ w[i].files = l[i] BY <2>2, <2>4
  <2>6. \A i \in DOMAIN w : \A p \in Present(w[i].files) : p \in Path /\ l[i][p] # Gone
    BY <2>5 DEF Present
  <2> QED BY <2>1, <2>5, <2>6 DEF w
<1> QED BY <1>3, <1>5, <1>6

\* The three kinds of archives, by the places they have in the manifest.
LEMMA KeysDiffer ==
  ASSUME NEW f \in Files, NEW m, NEW r, Keyed(m, r), Packs(m, f),
         NEW i \in DOMAIN ManifestDescriptors(m), NEW j \in DOMAIN ManifestDescriptors(m),
         ManifestDescriptors(m)[i].key = ManifestDescriptors(m)[j].key
  PROVE  i = j
<1> DEFINE k == Len(m.config)
           d == ManifestDescriptors(m)[i]
           e == ManifestDescriptors(m)[j]
<1>1. m \in Manifests /\ Len(m.config) <= 1 BY DEF Keyed
<1>2. m.content.key.kind \in {"compiler", "content"}
  BY FilesClosed, DescriptorIs DEF Keyed, Packs, IsCompilerContent
<1>3. /\ \A x \in DOMAIN m.config : m.config[x].key.kind = "config"
      /\ \A x \in DOMAIN m.world : m.world[x].key.kind = "world"
      /\ \A x, y \in DOMAIN m.world : m.world[x].key = m.world[y].key => x = y
  BY DEF Keyed
<1>4. /\ \/ i = 1 /\ d = m.content
         \/ i = 2 /\ k = 1 /\ 1 \in DOMAIN m.config /\ d = m.config[1]
         \/ i > 1 + k /\ i - (1 + k) \in DOMAIN m.world /\ d = m.world[i - (1 + k)]
      /\ \/ j = 1 /\ e = m.content
         \/ j = 2 /\ k = 1 /\ 1 \in DOMAIN m.config /\ e = m.config[1]
         \/ j > 1 + k /\ j - (1 + k) \in DOMAIN m.world /\ e = m.world[j - (1 + k)]
  BY <1>1, DescriptorPlace
<1>5. d.key = e.key OBVIOUS
<1>6. i \in Nat /\ j \in Nat /\ k \in Nat
  <2>1. ManifestDescriptors(m) \in Seq(Descriptor) BY <1>1, DescriptorsAre
  <2>2. m.config \in Seq(Descriptor) BY <1>1, PartsAre
  <2> QED BY <2>1, <2>2
<1> HIDE DEF d, e, k
<1>7. CASE i = 1 /\ d = m.content BY <1>2, <1>3, <1>4, <1>5, <1>7
<1>8. CASE i = 2 /\ 1 \in DOMAIN m.config /\ d = m.config[1] BY <1>2, <1>3, <1>4, <1>5, <1>8
<1>9. CASE i - (1 + k) \in DOMAIN m.world /\ d = m.world[i - (1 + k)]
  <2>1. d.key.kind = "world" BY <1>3, <1>9
  <2>2. j - (1 + k) \in DOMAIN m.world /\ e = m.world[j - (1 + k)] BY <1>2, <1>3, <1>4, <1>5, <2>1
  <2>3. i - (1 + k) = j - (1 + k) BY <1>3, <1>5, <1>9, <2>2
  <2> QED BY <1>6, <2>3
<1> QED BY <1>4, <1>7, <1>8, <1>9

\* The extraction of a manifest of a directory meets no path twice, save those
\* of the config files.
LEMMA PacksDisjoint ==
  ASSUME NEW f \in Files, NEW m, NEW r, Keyed(m, r), Packs(m, f)
  PROVE  Disjoint(m)
<1> DEFINE ds == ManifestDescriptors(m)
<1> SUFFICES ASSUME NEW i \in DOMAIN ds, NEW j \in DOMAIN ds, i < j,
                    NEW p \in Present(ds[i].files) \cap Present(ds[j].files)
             PROVE  p \in ConfigPath /\ i = 1 /\ j = 2 /\ m.config # <<>>
  BY DEF Disjoint
<1> DEFINE k == Len(m.config)
           d == ds[i]
           e == ds[j]
<1>1. m \in Manifests /\ Len(m.config) <= 1 BY DEF Keyed
<1>2. /\ \A q \in Path : m.content.files[q] # Gone => q \notin WorldPath
      /\ \A x \in DOMAIN m.config : x = 1 /\ Present(m.config[x].files) \subseteq ConfigPath
      /\ \A x \in DOMAIN m.world : Present(m.world[x].files) \subseteq WorldPath
      /\ \A x, y \in DOMAIN m.world : \A q \in Present(m.world[x].files) \cap Present(m.world[y].files) :
            x = y
  BY ArchivesHold
<1>3. /\ \/ i = 1 /\ d = m.content
         \/ i = 2 /\ k = 1 /\ 1 \in DOMAIN m.config /\ d = m.config[1]
         \/ i > 1 + k /\ i - (1 + k) \in DOMAIN m.world /\ d = m.world[i - (1 + k)]
      /\ \/ j = 1 /\ e = m.content
         \/ j = 2 /\ k = 1 /\ 1 \in DOMAIN m.config /\ e = m.config[1]
         \/ j > 1 + k /\ j - (1 + k) \in DOMAIN m.world /\ e = m.world[j - (1 + k)]
  BY <1>1, DescriptorPlace
<1>4. p \in Path /\ d.files[p] # Gone /\ p \in Present(d.files) /\ p \in Present(e.files)
  BY DEF Present
<1>5. i \in Nat /\ j \in Nat /\ k \in Nat /\ i < j /\ i >= 1
  <2>1. ds \in Seq(Descriptor) /\ DOMAIN ds = 1 .. Len(ds) BY <1>1, DescriptorsAre
  <2>2. m.config \in Seq(Descriptor) BY <1>1, PartsAre
  <2> HIDE DEF ds
  <2> QED BY <2>1, <2>2
<1>6. m.config = <<>> => k = 0 OBVIOUS
<1> HIDE DEF d, e, k, ds
<1>7. CASE j = 1 BY <1>5, <1>7
<1>8. CASE j = 2 /\ k = 1 /\ 1 \in DOMAIN m.config /\ e = m.config[1]
  <2>1. i = 1 BY <1>5, <1>8
  <2>2. p \in ConfigPath BY <1>2, <1>4, <1>8
  <2>3. m.config # <<>> BY <1>6, <1>8
  <2> QED BY <1>8, <2>1, <2>2, <2>3
<1>9. CASE j - (1 + k) \in DOMAIN m.world /\ e = m.world[j - (1 + k)]
  <2>1. p \in WorldPath BY <1>2, <1>4, <1>9
  <2>2. CASE d = m.content BY <1>2, <1>4, <2>1, <2>2
  <2>3. CASE 1 \in DOMAIN m.config /\ d = m.config[1] BY <1>2, <1>4, <2>1, <2>3, PathsAre
  <2>4. CASE i - (1 + k) \in DOMAIN m.world /\ d = m.world[i - (1 + k)]
    <3>1. i - (1 + k) = j - (1 + k) BY <1>2, <1>4, <1>9, <2>4
    <3> QED BY <1>5, <3>1
  <2> QED BY <1>3, <2>2, <2>3, <2>4
<1> QED BY <1>3, <1>7, <1>8, <1>9

\* A manifest of a directory passes the check of the next restore, unless it is
\* too large.
LEMMA PacksValidates ==
  ASSUME NEW f \in Files, NEW m, NEW r, Keyed(m, r), Packs(m, f)
  PROVE  ValidateManifest(m) \/ Oversized(m)
<1>1. \A i, j \in DOMAIN ManifestDescriptors(m) :
         i # j => ManifestDescriptors(m)[i].key # ManifestDescriptors(m)[j].key
  BY KeysDiffer
<1>2. Disjoint(m) BY PacksDisjoint
<1>3. /\ ~IsCompilerContent(m.content) => Present(m.content.files) \subseteq ContentPath
      /\ \A i \in DOMAIN m.config : Present(m.config[i].files) \subseteq ConfigPath
      /\ \A i \in DOMAIN m.world : Present(m.world[i].files) \subseteq WorldPath
  BY ArchivesHold
<1>4. \A e \in Range(m.config) : e.key.kind = "config" /\ Present(e.files) \subseteq ConfigPath
  BY <1>3 DEF Range, Keyed
<1>5. \A e \in Range(m.world) : e.key.kind = "world" /\ Present(e.files) \subseteq WorldPath
  BY <1>3 DEF Range, Keyed
<1> QED BY <1>1, <1>2, <1>3, <1>4, <1>5 DEF ValidateManifest

-----------------------------------------------------------------------------
(* Building a manifest *)

\* What is reused has the same files.
LEMMA ReuseIs ==
  ASSUME NEW d \in Descriptor, NEW old \in Seq(Descriptor)
  PROVE  /\ Reuse(d, old) \in Descriptor /\ Reuse(d, old).files = d.files
         /\ Reuse(d, old) = d \/ \E i \in DOMAIN old : Reuse(d, old) = old[i]
         /\ (\E i \in DOMAIN old : old[i].files = d.files) => \E i \in DOMAIN old : Reuse(d, old) = old[i]
<1> DEFINE same == {k \in Range(old) : k.files = d.files}
<1>1. Reuse(d, old) = IF same # {} THEN CHOOSE k \in same : TRUE ELSE d BY DEF Reuse
<1>2. \A i \in DOMAIN old : old[i] \in Descriptor OBVIOUS
<1>3. CASE same = {}
  <2>1. Reuse(d, old) = d BY <1>1, <1>3
  <2>2. \A i \in DOMAIN old : old[i].files # d.files BY <1>3 DEF Range
  <2> QED BY <2>1, <2>2
<1>4. CASE same # {}
  <2>1. Reuse(d, old) \in same
    <3>1. (CHOOSE k \in same : TRUE) \in same BY <1>4
    <3> QED BY <1>1, <1>4, <3>1
  <2>2. PICK i \in DOMAIN old : Reuse(d, old) = old[i] BY <2>1 DEF Range
  <2> QED BY <1>2, <2>1, <2>2
<1> QED BY <1>3, <1>4

\* The world archives of a new manifest: the archives of an earlier revision
\* whose files are the same, and new ones.
LEMMA NewWorld ==
  ASSUME NEW f \in Files, NEW r \in Nat, NEW prior,
         Keyed(prior, r - 1) \/ (Keyed(prior, r) /\ Packs(prior, f)),
         NEW w, w = [i \in DOMAIN WorldLayers(f) |-> Reuse(WorldBlob(r, i, WorldLayers(f)[i]), prior.world)]
  PROVE  /\ w \in Seq(Descriptor) /\ Len(w) = Len(WorldLayers(f))
         /\ \A i \in DOMAIN w : /\ w[i].files = WorldLayers(f)[i]
                                /\ w[i].key.kind = "world" /\ w[i].key.rev <= r
         /\ \A i, j \in DOMAIN w : w[i].key = w[j].key => i = j
<1> DEFINE l == WorldLayers(f)
           old == prior.world
<1>1. /\ l \in Seq(Files) /\ \A k \in DOMAIN l : l[k] # Nothing
      /\ \A k, j \in DOMAIN l : \A q \in Path : l[k][q] # Gone /\ l[j][q] # Gone => k = j
  BY WorldLayersHold
<1>2. w = [i \in DOMAIN l |-> Reuse(WorldBlob(r, i, l[i]), old)] OBVIOUS
<1>3. /\ prior \in Manifests /\ old \in Seq(Descriptor)
      /\ \A i \in DOMAIN old : old[i].key.kind = "world"
      /\ \A i, j \in DOMAIN old : old[i].key = old[j].key => i = j
  <2>1. prior \in Manifests BY DEF Keyed
  <2> QED BY <2>1, PartsAre DEF Keyed
<1>4. \/ \A i \in DOMAIN old : old[i].key.rev <= r - 1
      \/ /\ \A i \in DOMAIN old : old[i].key.rev <= r
         /\ Len(old) = Len(l) /\ \A i \in DOMAIN old : old[i].files = l[i]
  BY DEF Keyed, Packs
<1> HIDE DEF l, old
<1>5. DOMAIN l = 1 .. Len(l) /\ Len(l) \in Nat /\ \A i \in DOMAIN l : l[i] \in Files /\ i \in Nat BY <1>1
<1>6. DOMAIN old = 1 .. Len(old) /\ \A i \in DOMAIN old : old[i] \in Descriptor BY <1>3
<1>7. \A i \in DOMAIN old : old[i].key.rev \in Nat BY <1>6 DEF Descriptor
<1>8. ASSUME NEW i \in DOMAIN l
      PROVE  LET d == WorldBlob(r, i, l[i])
             IN  /\ d \in Descriptor /\ d.files = l[i] /\ d.key.kind = "world"
                 /\ d.key.rev = r /\ d.key.index = i
                 /\ w[i] \in Descriptor /\ w[i].files = l[i]
                 /\ w[i] = d \/ \E k \in DOMAIN old : w[i] = old[k]
                 /\ (\E k \in DOMAIN old : old[k].files = l[i]) => \E k \in DOMAIN old : w[i] = old[k]
  <2> DEFINE d == WorldBlob(r, i, l[i])
  <2>1. /\ d \in Descriptor /\ d.files = l[i] /\ d.key.kind = "world"
        /\ d.key.rev = r /\ d.key.index = i
    BY <1>5, DescriptorIs
  <2>2. w[i] = Reuse(d, old) BY <1>2
  <2> HIDE DEF d
  <2>3. /\ w[i] \in Descriptor /\ w[i].files = d.files
        /\ w[i] = d \/ \E k \in DOMAIN old : w[i] = old[k]
        /\ (\E k \in DOMAIN old : old[k].files = d.files) => \E k \in DOMAIN old : w[i] = old[k]
    <3>1. d \in Descriptor /\ old \in Seq(Descriptor) BY <1>3, <2>1
    <3>2. /\ Reuse(d, old) \in Descriptor /\ Reuse(d, old).files = d.files
          /\ Reuse(d, old) = d \/ \E k \in DOMAIN old : Reuse(d, old) = old[k]
          /\ (\E k \in DOMAIN old : old[k].files = d.files) => \E k \in DOMAIN old : Reuse(d, old) = old[k]
      BY <3>1, ReuseIs
    <3> QED BY <2>2, <3>2
  <2> QED BY <2>1, <2>3 DEF d
<1>9. DOMAIN w = DOMAIN l BY <1>2
<1>10. w \in Seq(Descriptor) /\ Len(w) = Len(l)
  <2>1. w = [i \in 1 .. Len(l) |-> w[i]] BY <1>2, <1>5
  <2>2. w \in [1 .. Len(l) -> Descriptor] BY <1>5, <1>8, <2>1
  <2> QED BY <1>5, <2>2
<1>11. ASSUME NEW i \in DOMAIN l PROVE w[i].key.kind = "world" /\ w[i].key.rev <= r
  <2>1. CASE w[i] = WorldBlob(r, i, l[i]) BY <1>8, <2>1
  <2>2. CASE \E k \in DOMAIN old : w[i] = old[k] BY <1>3, <1>4, <1>7, <2>2
  <2> QED BY <1>8, <2>1, <2>2
<1>12. ASSUME NEW i \in DOMAIN l, NEW j \in DOMAIN l, i # j PROVE l[i] # l[j]
  <2>1. PICK q \in Path : l[i][q] # Gone BY <1>1, <1>5, HasFile
  <2> QED BY <1>1, <1>12, <2>1
<1>13. ASSUME NEW i \in DOMAIN l, NEW j \in DOMAIN l, i # j,
              w[i] = WorldBlob(r, i, l[i]), ~\E k \in DOMAIN old : w[i] = old[k]
       PROVE  w[i].key # w[j].key
  <2>1. CASE w[j] = WorldBlob(r, j, l[j])
    <3>1. WorldBlob(r, i, l[i]).key.index = i BY <1>8
    <3>2. WorldBlob(r, j, l[j]).key.index = j BY <1>8
    <3> QED BY <1>13, <2>1, <3>1, <3>2
  <2>2. CASE \E k \in DOMAIN old : w[j] = old[k]
    <3>1. CASE \A k \in DOMAIN old : old[k].key.rev <= r - 1
      <4>1. PICK k \in DOMAIN old : w[j] = old[k] BY <2>2
      <4>2. w[j].key.rev \in Nat /\ w[j].key.rev <= r - 1 BY <1>7, <3>1, <4>1
      <4>3. w[i].key.rev = r BY <1>8, <1>13
      <4> QED BY <4>2, <4>3
    <3>2. CASE Len(old) = Len(l) /\ \A k \in DOMAIN old : old[k].files = l[k]
      <4>1. i \in DOMAIN old /\ old[i].files = l[i] BY <1>5, <1>6, <3>2
      <4> QED BY <1>8, <1>13, <4>1
    <3> QED BY <1>4, <3>1, <3>2
  <2> QED BY <1>8, <2>1, <2>2
<1>14. ASSUME NEW i \in DOMAIN l, NEW j \in DOMAIN l, i # j,
              \E k \in DOMAIN old : w[i] = old[k], \E k \in DOMAIN old : w[j] = old[k]
       PROVE  w[i].key # w[j].key
  <2>1. PICK k \in DOMAIN old : w[i] = old[k] BY <1>14
  <2>2. PICK n \in DOMAIN old : w[j] = old[n] BY <1>14
  <2>3. old[k].files = l[i] /\ old[n].files = l[j] BY <1>8, <2>1, <2>2
  <2>4. k # n BY <1>12, <1>14, <2>3
  <2> QED BY <1>3, <2>1, <2>2, <2>4
<1>15. \A i, j \in DOMAIN l : w[i].key = w[j].key => i = j BY <1>8, <1>13, <1>14
<1> QED BY <1>8, <1>9, <1>10, <1>11, <1>15 DEF l

\* The manifest of a directory holds it, under the layer of the call or of the
\* manifest before.
LEMMA BuildGood ==
  ASSUME NEW f \in Files, NEW r \in Nat, NEW c \in Content \cup {None}, NEW previous,
         previous = None \/ Keyed(previous, r - 1) \/ (Keyed(previous, r) /\ Packs(previous, f))
  PROVE  LET m == BuildManifest(f, r, c, previous)
         IN  /\ Packs(m, f) /\ Keyed(m, r)
             /\ LayerOf(m) = IF c # None THEN c ELSE IF previous = None THEN None ELSE LayerOf(previous)
<1> DEFINE prior  == IF previous = None THEN NoManifest(r) ELSE previous
           config == Only(f, ConfigPath)
           l      == WorldLayers(f)
           mc     == IF c # None THEN CompilerBlob(c)
                     ELSE IF IsCompilerContent(prior.content) THEN prior.content
                     ELSE ContentBlob(Only(f, ContentPath))
           mg     == IF config = Nothing THEN <<>> ELSE <<Reuse(ConfigBlob(r, config), prior.config)>>
           mw     == [i \in DOMAIN l |-> Reuse(WorldBlob(r, i, l[i]), prior.world)]
           m      == Manifest(r, mc, mg, mw)
<1>1. BuildManifest(f, r, c, previous) = m BY DEF BuildManifest
<1>2. /\ Keyed(prior, r - 1) \/ (Keyed(prior, r) /\ Packs(prior, f))
      /\ LayerOf(prior) = IF previous = None THEN None ELSE LayerOf(previous)
  <2>1. CASE previous = None
    <3>1. ContentBlob(Nothing) \in Descriptor /\ ContentBlob(Nothing).key.kind = "content"
      BY FilesClosed, DescriptorIs
    <3>2. <<>> \in Seq(Descriptor) OBVIOUS
    <3>3. /\ NoManifest(r) \in Manifests /\ NoManifest(r).content = ContentBlob(Nothing)
          /\ NoManifest(r).config = <<>> /\ NoManifest(r).world = <<>>
      <4> DEFINE e == ContentBlob(Nothing)
                 z == <<>>
      <4>1. NoManifest(r) = Manifest(r, e, z, z) BY DEF NoManifest
      <4>2. e \in Descriptor /\ z \in Seq(Descriptor) BY <3>1, <3>2
      <4> HIDE DEF e, z
      <4>3. /\ Manifest(r, e, z, z) \in Manifests /\ Manifest(r, e, z, z).content = e
            /\ Manifest(r, e, z, z).config = z /\ Manifest(r, e, z, z).world = z
        BY <4>2, ManifestIs
      <4> QED BY <4>1, <4>3 DEF e, z
    <3>4. ~IsCompilerContent(NoManifest(r).content) BY <3>1, <3>3 DEF IsCompilerContent
    <3>5. Keyed(NoManifest(r), r - 1) BY <3>3, <3>4 DEF Keyed
    <3>6. LayerOf(NoManifest(r)) = None BY <3>4 DEF LayerOf
    <3> QED BY <2>1, <3>5, <3>6
  <2>2. CASE previous # None BY <2>2
  <2> QED BY <2>1, <2>2
<1>3. /\ prior \in Manifests
      /\ IsCompilerContent(prior.content) => \E d \in Content : prior.content = CompilerBlob(d)
      /\ \A i \in DOMAIN prior.config : prior.config[i].key.kind = "config"
  BY <1>2 DEF Keyed
<1> HIDE DEF prior
<1>4. prior.content \in Descriptor /\ prior.config \in Seq(Descriptor) BY <1>3, PartsAre
<1>5. /\ mw \in Seq(Descriptor) /\ Len(mw) = Len(l)
      /\ \A i \in DOMAIN mw : mw[i].files = l[i] /\ mw[i].key.kind = "world" /\ mw[i].key.rev <= r
      /\ \A i, j \in DOMAIN mw : mw[i].key = mw[j].key => i = j
  BY <1>2, NewWorld
<1>6. /\ mc \in Descriptor
      /\ IsCompilerContent(mc) \/ mc = ContentBlob(Only(f, ContentPath))
      /\ IsCompilerContent(mc) => \E d \in Content : mc = CompilerBlob(d)
      /\ LayerOf(m) = IF c # None THEN c ELSE LayerOf(prior)
  <2>1. m.content = mc BY DEF Manifest
  <2>2. Only(f, ContentPath) \in Files BY FilesClosed
  <2>3. CASE c # None
    <3>1. mc = CompilerBlob(c) /\ c \in Content BY <2>3
    <3>2. mc \in Descriptor BY <3>1, DescriptorIs
    <3>3. LayerOf(m) = c /\ IsCompilerContent(m.content)
      <4>1. m.content = CompilerBlob(c) BY <2>1, <3>1
      <4> HIDE DEF m
      <4> QED BY <3>1, <4>1, LayerOfCompiler
    <3> HIDE DEF m, mc
    <3> QED BY <2>1, <2>3, <3>1, <3>2, <3>3
  <2>4. CASE c = None /\ IsCompilerContent(prior.content)
    <3>1. mc = prior.content BY <2>4
    <3>2. LayerOf(m) = LayerOf(prior)
      <4>1. m.content = prior.content BY <2>1, <3>1
      <4> HIDE DEF m, mc
      <4> QED BY <4>1 DEF LayerOf
    <3> HIDE DEF m, mc
    <3> QED BY <1>3, <1>4, <2>4, <3>1, <3>2
  <2>5. CASE c = None /\ ~IsCompilerContent(prior.content)
    <3>1. mc = ContentBlob(Only(f, ContentPath)) BY <2>5
    <3>2. mc \in Descriptor /\ ~IsCompilerContent(mc) BY <2>2, <3>1, DescriptorIs DEF IsCompilerContent
    <3> HIDE DEF m, mc
    <3>3. LayerOf(m) = None /\ LayerOf(prior) = None BY <2>1, <2>5, <3>2 DEF LayerOf
    <3> QED BY <2>5, <3>1, <3>2, <3>3
  <2> QED BY <2>3, <2>4, <2>5
<1>7. /\ mg \in Seq(Descriptor) /\ Len(mg) <= 1
      /\ \A i \in DOMAIN mg : mg[i].key.kind = "config"
      /\ config = Nothing => Len(mg) = 0
      /\ config # Nothing => Len(mg) = 1 /\ mg[1].files = config
  <2>1. CASE config = Nothing
    <3>1. mg = <<>> BY <2>1
    <3> HIDE DEF mg
    <3> QED BY <2>1, <3>1
  <2>2. CASE config # Nothing
    <3> DEFINE d == ConfigBlob(r, config)
               u == Reuse(d, prior.config)
    <3>1. config \in Files BY FilesClosed
    <3>2. d \in Descriptor /\ d.files = config /\ d.key.kind = "config" BY <3>1, DescriptorIs
    <3>3. mg = <<u>> BY <2>2
    <3> HIDE DEF d, config, mg
    <3>4. /\ u \in Descriptor /\ u.files = d.files
          /\ u = d \/ \E k \in DOMAIN prior.config : u = prior.config[k]
      BY <1>4, <3>2, ReuseIs
    <3> HIDE DEF u
    <3>5. u.key.kind = "config" BY <1>3, <3>2, <3>4
    <3> QED BY <2>2, <3>2, <3>3, <3>4, <3>5
  <2> QED BY <2>1, <2>2
<1> HIDE DEF mc, mg, mw, l, config
<1>8. m \in Manifests /\ m.content = mc /\ m.config = mg /\ m.world = mw
  BY <1>5, <1>6, <1>7, ManifestIs
<1> HIDE DEF m
<1>9. Packs(m, f) BY <1>5, <1>6, <1>7, <1>8 DEF Packs, config, l
<1>10. Keyed(m, r) BY <1>5, <1>6, <1>7, <1>8 DEF Keyed
<1> QED BY <1>1, <1>2, <1>6, <1>9, <1>10

-----------------------------------------------------------------------------
(* The manifest to restore *)

\* The layer of a manifest is a layer, or None.
LEMMA LayerOfIs ==
  ASSUME NEW m, NEW r, Keyed(m, r)
  PROVE  /\ LayerOf(m) \in Content \cup {None}
         /\ LayerOf(m) # None <=> IsCompilerContent(m.content)
         /\ LayerOf(m) # None => m.content = CompilerBlob(LayerOf(m))
<1>1. CASE IsCompilerContent(m.content)
  <2>1. PICK c \in Content : m.content = CompilerBlob(c) BY <1>1 DEF Keyed
  <2>2. LayerOf(m) = c BY <2>1, LayerOfCompiler
  <2> QED BY <1>1, <2>1, <2>2, LayersAre
<1>2. CASE ~IsCompilerContent(m.content)
  <2>1. LayerOf(m) = None BY <1>2 DEF LayerOf
  <2> QED BY <1>2, <2>1
<1> QED BY <1>1, <1>2

\* Nothing is unpacked from no archive.
LEMMA NothingUnpacked == \A p \in Path : Unpacked(<<>>)[p] = Gone
<1> DEFINE z == <<>>
<1>1. z \in Seq(Descriptor) /\ DOMAIN z = {} OBVIOUS
<1> HIDE DEF z
<1>2. \A p \in Path : Unpacked(z)[p] = Gone BY <1>1, UnpackedAt
<1> QED BY <1>2 DEF z

\* A first restore has the layer only.
LEMMA FirstIs ==
  ASSUME NEW c \in Content
  PROVE  LET m == Manifest(0, CompilerBlob(c), <<>>, <<>>)
         IN  Keyed(m, 0) /\ LayerOf(m) = c /\ Extracted(m) = Layer[c]
<1> DEFINE e == CompilerBlob(c)
           z == <<>>
           v == 0
           m == Manifest(v, e, z, z)
<1>1. e \in Descriptor /\ e.files = Layer[c] /\ z \in Seq(Descriptor) /\ Len(z) = 0 /\ DOMAIN z = {}
  BY DescriptorIs
<1>2. \A p \in Path : Unpacked(z)[p] = Gone BY NothingUnpacked
<1> HIDE DEF e, z
<1>3. m \in Manifests /\ m.content = e /\ m.config = z /\ m.world = z
  <2>1. v \in Nat OBVIOUS
  <2> HIDE DEF v
  <2>2. e \in Descriptor /\ z \in Seq(Descriptor) BY <1>1
  <2> QED BY <2>1, <2>2, ManifestIs
<1> HIDE DEF m
<1>4. Keyed(m, 0) BY <1>1, <1>3 DEF Keyed, e
<1>5. LayerOf(m) = c BY <1>3, LayerOfCompiler DEF e
<1>6. Extracted(m) = [p \in Path |->
         IF Unpacked(z)[p] # Gone THEN Unpacked(z)[p]
         ELSE IF Unpacked(z)[p] # Gone THEN Unpacked(z)[p] ELSE Layer[c][p]]
  BY <1>1, <1>3 DEF Extracted, Over
<1>7. Layer[c] = [p \in Path |-> Layer[c][p]] BY LayersAre DEF Files
<1>8. Extracted(m) = Layer[c] BY <1>2, <1>6, <1>7
<1> QED BY <1>4, <1>5, <1>8 DEF m, e, z, v

\* A manifest with the layer of the command in place of its own.
LEMMA ReplacedIs ==
  ASSUME NEW f \in Files, NEW m, NEW r, Keyed(m, r), Packs(m, f), NEW c \in Content \cup {None}
  PROVE  /\ Keyed(Replaced(m, c), r)
         /\ LayerOf(Replaced(m, c)) = IF c = None THEN LayerOf(m) ELSE c
         /\ Extracted(Replaced(m, c)) =
              IF c = None \/ m.content.files = Layer[c] THEN Kept(f, LayerOf(m))
              ELSE Over(Only(Kept(f, LayerOf(m)), WorldPath), Layer[c])
<1>1. m \in Manifests BY DEF Keyed
<1>2. /\ m.rev \in Nat /\ m.content \in Descriptor
      /\ m.config \in Seq(Descriptor) /\ m.world \in Seq(Descriptor)
  BY <1>1, PartsAre
<1>3. Extracted(m) = Kept(f, LayerOf(m)) BY ExtractedIsKept
<1>4. CASE c = None
  <2>1. Replaced(m, c) = m BY <1>4 DEF Replaced
  <2> QED BY <1>3, <1>4, <2>1
<1>5. CASE c # None
  <2> DEFINE e == CompilerBlob(c)
             z == <<>>
             g == IF m.content.files = Layer[c] THEN m.config ELSE z
             w == m.world
             n == Manifest(m.rev, e, g, w)
  <2>1. c \in Content /\ Replaced(m, c) = n BY <1>5 DEF Replaced
  <2>2. e \in Descriptor /\ e.files = Layer[c] BY <2>1, DescriptorIs
  <2>3. g \in Seq(Descriptor) /\ Len(g) <= 1 /\ \A i \in DOMAIN g : g[i].key.kind = "config"
    <3>1. z \in Seq(Descriptor) /\ Len(z) = 0 /\ DOMAIN z = {} OBVIOUS
    <3> HIDE DEF z
    <3> QED BY <1>2, <3>1 DEF Keyed
  <2>4. \A p \in Path : m.content.files # Layer[c] => Unpacked(g)[p] = Gone BY NothingUnpacked
  <2>5. m.content.files = Layer[c] => g = m.config OBVIOUS
  <2> HIDE DEF e, g
  <2>6. n \in Manifests /\ n.content = e /\ n.config = g /\ n.world = m.world
    BY <1>2, <2>2, <2>3, ManifestIs
  <2> HIDE DEF n
  <2>7. Keyed(n, r) BY <2>1, <2>3, <2>6 DEF Keyed, e
  <2>8. LayerOf(n) = c BY <2>1, <2>6, LayerOfCompiler DEF e
  <2>9. CASE m.content.files = Layer[c]
    <3>1. Extracted(n) = Extracted(m) BY <2>2, <2>5, <2>6, <2>9 DEF Extracted
    <3> QED BY <1>3, <1>5, <2>1, <2>7, <2>8, <2>9, <3>1
  <2>10. CASE m.content.files # Layer[c]
    <3>1. \A p \in Path : Unpacked(m.world)[p] = Only(f, WorldPath)[p] BY <1>1, WorldUnpacked
    <3> DEFINE k == Kept(f, LayerOf(m))
    <3>2. ASSUME NEW p \in Path PROVE Only(k, WorldPath)[p] = Only(f, WorldPath)[p]
      <4>1. CASE p \notin WorldPath BY <4>1, OnlyAt
      <4>2. CASE LayerOf(m) = None
        <5>1. k = f BY <4>2 DEF Kept
        <5> QED BY <5>1
      <4>3. CASE p \in WorldPath /\ LayerOf(m) # None
        <5>1. LayerOf(m) \in Content BY <4>3, LayerOfIs
        <5>2. k = Over(Only(f, ConfigPath \cup WorldPath), Layer[LayerOf(m)]) BY <4>3 DEF Kept
        <5>3. Layer[LayerOf(m)][p] = Gone BY <4>3, <5>1, LayersAre
        <5>4. Only(f, ConfigPath \cup WorldPath)[p] = f[p] BY <4>3, OnlyAt
        <5>5. k[p] = f[p] BY <5>2, <5>3, <5>4, OverAt
        <5> HIDE DEF k
        <5> QED BY <4>3, <5>5, OnlyAt
      <4> QED BY <4>1, <4>2, <4>3
    <3> HIDE DEF k
    <3>3. Extracted(n) = [p \in Path |->
             IF Unpacked(m.world)[p] # Gone THEN Unpacked(m.world)[p]
             ELSE IF Unpacked(g)[p] # Gone THEN Unpacked(g)[p] ELSE Layer[c][p]]
      BY <2>2, <2>6 DEF Extracted, Over
    <3>4. Over(Only(k, WorldPath), Layer[c]) = [p \in Path |->
             IF Only(k, WorldPath)[p] # Gone THEN Only(k, WorldPath)[p] ELSE Layer[c][p]]
      BY DEF Over
    <3>5. ASSUME NEW p \in Path
          PROVE  (IF Unpacked(m.world)[p] # Gone THEN Unpacked(m.world)[p]
                  ELSE IF Unpacked(g)[p] # Gone THEN Unpacked(g)[p] ELSE Layer[c][p])
                 = (IF Only(k, WorldPath)[p] # Gone THEN Only(k, WorldPath)[p] ELSE Layer[c][p])
      BY <2>4, <2>10, <3>1, <3>2
    <3>6. Extracted(n) = Over(Only(k, WorldPath), Layer[c]) BY <3>3, <3>4, <3>5
    <3> QED BY <1>5, <2>1, <2>7, <2>8, <2>10, <3>6 DEF k
  <2> QED BY <2>9, <2>10
<1> QED BY <1>4, <1>5

-----------------------------------------------------------------------------
(* The archives of a manifest *)

\* What a concatenation and a tail hold.
LEMMA RangeOfParts ==
  ASSUME NEW S, NEW s \in Seq(S), NEW t \in Seq(S)
  PROVE  /\ Range(s \o t) = Range(s) \cup Range(t)
         /\ s # <<>> => Head(s) \in S /\ Tail(s) \in Seq(S) /\ Range(s) = {Head(s)} \cup Range(Tail(s))
<1>1. Range(s \o t) \subseteq Range(s) \cup Range(t) BY DEF Range
<1>2. Range(s) \cup Range(t) \subseteq Range(s \o t)
  <2>1. ASSUME NEW i \in DOMAIN s PROVE s[i] \in Range(s \o t)
    <3>1. i \in DOMAIN (s \o t) /\ (s \o t)[i] = s[i] OBVIOUS
    <3> QED BY <3>1 DEF Range
  <2>2. ASSUME NEW i \in DOMAIN t PROVE t[i] \in Range(s \o t)
    <3>1. Len(s) + i \in DOMAIN (s \o t) /\ (s \o t)[Len(s) + i] = t[i] OBVIOUS
    <3> QED BY <3>1 DEF Range
  <2> QED BY <2>1, <2>2 DEF Range
<1>3. ASSUME s # <<>>
      PROVE  Head(s) \in S /\ Tail(s) \in Seq(S) /\ Range(s) = {Head(s)} \cup Range(Tail(s))
  <2>1. Head(s) \in S /\ Tail(s) \in Seq(S) /\ Head(s) = s[1] /\ 1 \in DOMAIN s BY <1>3
  <2>2. Len(Tail(s)) = Len(s) - 1 /\ \A i \in DOMAIN Tail(s) : i + 1 \in DOMAIN s /\ Tail(s)[i] = s[i + 1]
    BY <1>3
  <2>3. \A i \in DOMAIN s : i = 1 \/ (i - 1 \in DOMAIN Tail(s) /\ Tail(s)[i - 1] = s[i])
    BY <1>3
  <2>4. Range(s) \subseteq {Head(s)} \cup Range(Tail(s))
    <3>1. ASSUME NEW i \in DOMAIN s PROVE s[i] \in {s[1]} \cup Range(Tail(s)) BY <2>3 DEF Range
    <3> QED BY <2>1, <3>1 DEF Range
  <2>5. {Head(s)} \cup Range(Tail(s)) \subseteq Range(s)
    <3>1. s[1] \in Range(s) BY <2>1 DEF Range
    <3>2. ASSUME NEW i \in DOMAIN Tail(s) PROVE Tail(s)[i] \in Range(s) BY <2>2 DEF Range
    <3> QED BY <2>1, <3>1, <3>2 DEF Range
  <2> QED BY <2>1, <2>4, <2>5
<1> QED BY <1>1, <1>2, <1>3

\* The archives of a manifest are those that were built, and a compiler-owned
\* layer.
LEMMA BuiltAre ==
  ASSUME NEW m \in Manifests
  PROVE  /\ Built(m) \in Seq(Descriptor)
         /\ Range(ManifestDescriptors(m)) \subseteq {m.content} \cup Range(Built(m))
         /\ ~IsCompilerContent(m.content) => Range(ManifestDescriptors(m)) \subseteq Range(Built(m))
<1> DEFINE c == <<m.content>>
           b == IF IsCompilerContent(m.content) THEN <<>> ELSE <<m.content>>
           g == m.config
           w == m.world
<1>1. m.content \in Descriptor /\ g \in Seq(Descriptor) /\ w \in Seq(Descriptor) BY PartsAre
<1>2. c \in Seq(Descriptor) /\ Range(c) = {m.content} BY <1>1 DEF Range
<1>3. b \in Seq(Descriptor) /\ (~IsCompilerContent(m.content) => b = c) BY <1>1
<1>4. ManifestDescriptors(m) = c \o g \o w /\ Built(m) = b \o g \o w BY DEF ManifestDescriptors, Built
<1> HIDE DEF c, b, g, w
<1>5. c \o g \in Seq(Descriptor) /\ b \o g \in Seq(Descriptor) BY <1>1, <1>2, <1>3
<1>6. (b \o g) \o w \in Seq(Descriptor) BY <1>1, <1>5
<1>7. /\ Range(c \o g) = Range(c) \cup Range(g) /\ Range(b \o g) = Range(b) \cup Range(g)
  BY <1>1, <1>2, <1>3, RangeOfParts
<1> DEFINE cg == c \o g
           bg == b \o g
<1>8. Range(cg \o w) = Range(cg) \cup Range(w) /\ Range(bg \o w) = Range(bg) \cup Range(w)
  <2>1. cg \in Seq(Descriptor) /\ bg \in Seq(Descriptor) BY <1>5
  <2> HIDE DEF cg, bg
  <2> QED BY <1>1, <2>1, RangeOfParts
<1>9. /\ Range(ManifestDescriptors(m)) = {m.content} \cup Range(g) \cup Range(w)
      /\ Range(Built(m)) = Range(b) \cup Range(g) \cup Range(w)
  BY <1>2, <1>4, <1>7, <1>8
<1> QED BY <1>2, <1>3, <1>4, <1>6, <1>9

-----------------------------------------------------------------------------
(* The inductive invariant *)

RestorePc == {"fetch", "seal", "move", "activate", "quota", "drop", "record", "world", "prepare"}
SyncPc    == {"open", "load", "draft", "upload", "publish", "persist", "clean"}
ReleasePc == {"remove", "forget"}

TypeOK ==
    /\ order \in Orders /\ now \in Assignment
    /\ phase \in {"start", "active", "stop", "synced", "done"}
    /\ pc \in {"idle", "refused"} \cup RestorePc \cup SyncPc \cup ReleasePc
    /\ local \in [files : Files, moved : Files \cup {NoDir}, manifest : Manifests \cup {None},
                  todo : Seq(Descriptor)]
    /\ dir \in Files \cup {NoDir}
    /\ memory \in Manifests \cup {None} /\ state \in Manifests \cup {None}
    /\ staging \in [json : Manifests \cup {None}, intact : BOOLEAN]
    /\ published \in [Assignment -> Manifests \cup {None}]
    /\ left \in [Assignment -> Files]

\* A call is made in its phase; an assignment that is started has not run.
Places ==
    /\ pc \in RestorePc => phase = "start"
    /\ pc \in SyncPc => phase = "stop"
    /\ pc \in ReleasePc => phase = "synced"
    /\ phase = "active" => now \in ran
    /\ phase = "start" => now \notin ran
    /\ ran \subseteq 1 .. now

\* The layers a manifest of the assignment may have; of the current one.
Layers(a) == {RestoredLayer(a)} \cup (IF a \in ran THEN {} ELSE {None})
Assigned  == RestoredLayer(now)
Fitting   == Layers(now)

\* m is a manifest, of revision r, of what the server left; the one that was
\* restored; one of either kind.
Synced(m)   == Packs(m, left[now]) /\ Keyed(m, now) /\ LayerOf(m) \in Fitting
Restored(m) == ~Bare /\ Keyed(m, now - 1) /\ LayerOf(m) = Assigned
Known(m)    == m = None \/ Restored(m) \/ (phase \in {"stop", "synced"} /\ Synced(m))

Publications ==
    /\ {CompilerBlob(c) : c \in Content} \subseteq blobs
    /\ \A r \in Assignment : published[r] # None =>
          /\ Packs(published[r], left[r]) /\ Keyed(published[r], r) /\ LayerOf(published[r]) \in Layers(r)
          /\ Range(ManifestDescriptors(published[r])) \subseteq blobs
    /\ \A r \in Assignment : r < now => published[r] # None
    /\ phase \in {"synced", "done"} \/ pc \in {"persist", "clean"} => published[now] # None
    /\ \A r \in Assignment : published[r] # None => r < now \/ (r = now /\ phase \notin {"start", "active"})

\* What the manager remembers; after a restore of something there is a record.
KnownInv ==
    /\ Known(memory) /\ Known(state)
    /\ phase = "done" => memory = None /\ state = None
    /\ pc = "forget" => memory = None
    /\ (phase \in {"active", "stop"} /\ now \in ran) \/ pc \in {"world", "prepare"} => Bare \/ state # None

\* What is restored, before an initial world.
Base == IF Bare THEN Nothing ELSE Extracted(Wanted)

RestoreInv ==
    /\ pc \in {"fetch", "record"} => ~Bare
    /\ pc \in {"seal", "move", "activate", "quota", "drop", "record"} =>
          local.files = Base /\ (Bare \/ local.manifest = Wanted)
    /\ pc \in {"quota", "drop", "record"} => dir = local.files
    /\ pc = "world" =>
          /\ now = 1 /\ dir \in Files
          /\ \A p \in Path : dir[p] = Base[p] \/ (order[1].seed /\ Seed[p] # Gone /\ dir[p] = Seed[p])
    /\ pc = "prepare" => dir = Expected(now)
    /\ phase = "active" => dir # NoDir

SyncInv ==
    /\ phase = "stop" => dir = left[now] \/ (dir = NoDir /\ left[now] = Nothing)
    /\ pc \in SyncPc \ {"open"} => dir = left[now]
    /\ staging.json # None => phase = "stop" /\ Synced(staging.json)
    /\ pc \in {"upload", "publish", "persist", "clean"} => Synced(local.manifest)
    /\ pc = "upload" => Range(ManifestDescriptors(local.manifest)) \subseteq blobs \cup Range(local.todo)
    /\ pc = "publish" => Range(ManifestDescriptors(local.manifest)) \subseteq blobs

Inv == TypeOK /\ Places /\ Publications /\ KnownInv /\ RestoreInv /\ SyncInv

\* The orders.
LEMMA OrdersAre ==
  ASSUME TypeOK, NEW a \in Assignment
  PROVE  /\ order[a].start \in Content \cup {None} /\ order[a].stop \in {order[a].start, None}
         /\ order[a].seed \in BOOLEAN
BY WorkspaceAssumption DEF TypeOK, Assignment

\* The current assignment, and the one before.
LEMMA NowIs ==
  ASSUME TypeOK
  PROVE  /\ now \in Nat /\ now >= 1 /\ now \in Assignment /\ 1 \in Assignment /\ MaxAssignment \in Nat
         /\ now # 1 => now > 1 /\ now - 1 \in Assignment /\ now - 1 < now /\ now - 1 \in Nat
BY WorkspaceAssumption DEF TypeOK, Assignment

\* The manifest to restore: its keys, its layer and what it unpacks to.
LEMMA WantedIs ==
  ASSUME TypeOK, Publications, ~Bare
  PROVE  /\ Keyed(Wanted, now - 1) /\ LayerOf(Wanted) = Assigned /\ Extracted(Wanted) \in Files
         /\ now # 1 => Extracted(Wanted) = Expected(now)
         /\ now = 1 => order[1].start \in Content /\ Extracted(Wanted) = Layer[order[1].start]
<1>1. CASE now = 1
  <2> DEFINE c == order[1].start
  <2>1. c \in Content
    <3>1. c \in Content \cup {None} BY NowIs, OrdersAre
    <3>2. c # None BY <1>1 DEF Bare, Layered
    <3> QED BY <3>1, <3>2
  <2>2. Wanted = Manifest(0, CompilerBlob(c), <<>>, <<>>) BY <1>1 DEF Wanted
  <2>3. Assigned = c BY <1>1, <2>1, LayersAre DEF Assigned, RestoredLayer
  <2> HIDE DEF c
  <2>4. Keyed(Wanted, 0) /\ LayerOf(Wanted) = c /\ Extracted(Wanted) = Layer[c] BY <2>1, <2>2, FirstIs
  <2>5. now - 1 = 0 BY <1>1
  <2>6. Layer[c] \in Files BY <2>1, LayersAre
  <2> QED BY <1>1, <2>1, <2>3, <2>4, <2>5, <2>6 DEF c
<1>2. CASE now # 1
  <2> DEFINE b == now - 1
             m == published[b]
             c == order[now].start
             f == left[b]
  <2>1. b \in Assignment /\ b < now BY <1>2, NowIs
  <2>2. m # None BY <2>1 DEF Publications
  <2>3. Packs(m, f) /\ Keyed(m, b) BY <2>1, <2>2 DEF Publications
  <2>4. f \in Files BY <2>1 DEF TypeOK
  <2>5. c \in Content \cup {None} BY NowIs, OrdersAre
  <2>6. Wanted = Replaced(m, c) BY <1>2 DEF Wanted
  <2>7. Assigned = IF c = None THEN LayerOf(m) ELSE c BY <1>2 DEF Assigned, RestoredLayer
  <2>8. Expected(now) = IF c = None \/ m.content.files = Layer[c] THEN Kept(f, LayerOf(m))
                        ELSE Over(Only(Kept(f, LayerOf(m)), WorldPath), Layer[c])
    BY <1>2 DEF Expected
  <2> HIDE DEF b, m, c, f
  <2>9. /\ Keyed(Wanted, b) /\ LayerOf(Wanted) = IF c = None THEN LayerOf(m) ELSE c
        /\ Extracted(Wanted) = IF c = None \/ m.content.files = Layer[c] THEN Kept(f, LayerOf(m))
                               ELSE Over(Only(Kept(f, LayerOf(m)), WorldPath), Layer[c])
    BY <2>3, <2>4, <2>5, <2>6, ReplacedIs
  <2>10. LayerOf(m) \in Content \cup {None} BY <2>3, LayerOfIs
  <2>11. Kept(f, LayerOf(m)) \in Files BY <2>4, <2>10, FilesClosed, LayersAre DEF Kept
  <2>12. c # None => Layer[c] \in Files BY <2>5, LayersAre
  <2>13. Extracted(Wanted) \in Files BY <2>9, <2>11, <2>12, FilesClosed
  <2> QED BY <1>2, <2>7, <2>8, <2>9, <2>13 DEF b
<1> QED BY <1>1, <1>2

\* What is restored is a directory, and so is what a start is to find.
LEMMA BaseIs ==
  ASSUME TypeOK, Publications
  PROVE  Base \in Files /\ Expected(now) \in Files
<1>1. Base \in Files BY WantedIs, FilesClosed DEF Base
<1>2. CASE now # 1
  <2>1. ~Bare BY <1>2 DEF Bare
  <2> QED BY <1>1, <1>2, <2>1, WantedIs
<1>3. CASE now = 1
  <2>1. order[1].start \in Content \cup {None} BY NowIs, OrdersAre
  <2>2. Seed \in Files BY WorkspaceAssumption
  <2>3. Expected(1) = Over(IF order[1].seed THEN Seed ELSE Nothing,
                           IF order[1].start = None THEN Nothing ELSE Layer[order[1].start])
    BY DEF Expected
  <2>4. (IF order[1].seed THEN Seed ELSE Nothing) \in Files BY <2>2, FilesClosed
  <2>5. (IF order[1].start = None THEN Nothing ELSE Layer[order[1].start]) \in Files
    BY <2>1, FilesClosed, LayersAre
  <2> QED BY <1>1, <1>3, <2>3, <2>4, <2>5, FilesClosed
<1> QED BY <1>2, <1>3

-----------------------------------------------------------------------------
(* What most steps leave alone *)

Quiet == UNCHANGED <<order, now, published, left, ran>>

\* Then what is assigned stays.
LEMMA QuietFrame ==
  ASSUME Quiet
  PROVE  /\ Bare' <=> Bare
         /\ Assigned' = Assigned /\ Fitting' = Fitting /\ Wanted' = Wanted /\ Base' = Base
         /\ Expected(now)' = Expected(now)
BY DEF Quiet, Bare, Layered, Assigned, Fitting, Layers, RestoredLayer, Wanted, Base, Expected

\* The revisions stay, while objects may be added.
LEMMA QuietPublications ==
  ASSUME Publications, Quiet, blobs \subseteq blobs',
         phase' \in {"synced", "done"} \/ pc' \in {"persist", "clean"} =>
            phase \in {"synced", "done"} \/ pc \in {"persist", "clean"},
         phase' \in {"start", "active"} => phase \in {"start", "active"}
  PROVE  Publications'
<1>1. \A r \in Assignment : Layers(r)' = Layers(r) BY DEF Quiet, Layers, RestoredLayer
<1> QED BY <1>1 DEF Publications, Quiet

\* What is remembered stays, or is forgotten in memory.
LEMMA QuietKnown ==
  ASSUME KnownInv, Quiet, memory' \in {memory, None}, state' = state,
         phase' = phase \/ (phase = "stop" /\ phase' = "synced"),
         pc' = "forget" => memory' = None,
         pc' \in {"world", "prepare"} => Bare \/ state # None
  PROVE  KnownInv'
<1>1. (Bare' <=> Bare) /\ Assigned' = Assigned /\ Fitting' = Fitting BY QuietFrame
<1>2. Known(memory)' /\ Known(state)' BY <1>1 DEF KnownInv, Known, Restored, Synced, Quiet
<1> QED BY <1>1, <1>2 DEF KnownInv, Quiet

\* Outside a restore there is little to show.
LEMMA NotRestoring ==
  ASSUME pc' \notin RestorePc, phase' = "active" => dir' # NoDir
  PROVE  RestoreInv'
BY DEF RestoreInv, RestorePc

\* Nor outside a stop, where there is no draft.
LEMMA NotSyncing ==
  ASSUME pc' \notin SyncPc, phase' # "stop", staging'.json = None
  PROVE  SyncInv'
BY DEF SyncInv, SyncPc

\* The calls and their steps are apart.
LEMMA PcsAre ==
  /\ RestorePc \cap (SyncPc \cup ReleasePc \cup {"idle", "refused"}) = {}
  /\ SyncPc \cap (RestorePc \cup ReleasePc \cup {"idle", "refused"}) = {}
  /\ ReleasePc \cap (SyncPc \cup RestorePc \cup {"idle", "refused"}) = {}
BY DEF RestorePc, SyncPc, ReleasePc

\* A call that has nothing in hand.
LEMMA IdleIs ==
  /\ Idle \in [files : Files, moved : Files \cup {NoDir}, manifest : Manifests \cup {None},
               todo : Seq(Descriptor)]
  /\ Idle.files = Nothing /\ Idle.manifest = None
BY FilesClosed DEF Idle

-----------------------------------------------------------------------------
(* The steps of a restore *)

\* A step of a restore within the call: what is to be shown of it.
LEMMA RestoreStep ==
  ASSUME Inv, Quiet, UNCHANGED <<staging, blobs>>, phase = "start", phase' = "start",
         pc' \in RestorePc \cup {"idle", "refused"},
         local' \in [files : Files, moved : Files \cup {NoDir}, manifest : Manifests \cup {None},
                     todo : Seq(Descriptor)],
         dir' \in Files \cup {NoDir}, memory' \in Manifests \cup {None}, state' \in Manifests \cup {None},
         KnownInv', RestoreInv'
  PROVE  Inv'
<1>1. TypeOK' BY DEF Inv, TypeOK, Quiet
<1>2. Places' BY PcsAre DEF Inv, Places, Quiet
<1>3. Publications'
  <2>1. pc' \notin {"persist", "clean"} BY PcsAre DEF SyncPc
  <2> QED BY <2>1, QuietPublications DEF Inv
<1>4. SyncInv'
  <2>1. staging.json = None BY DEF Inv, SyncInv
  <2> QED BY <2>1, PcsAre, NotSyncing
<1> QED BY <1>1, <1>2, <1>3, <1>4 DEF Inv

\* The call begins.
LEMMA CallRestoreStep == ASSUME Inv, CallRestore PROVE Inv'
<1>1. Quiet /\ UNCHANGED <<staging, blobs, phase, dir, memory, state>> /\ phase = "start"
  BY DEF CallRestore, Quiet, known, cloud, hist
<1>2. local' = Idle /\ pc' = IF Bare THEN "seal" ELSE "fetch" BY DEF CallRestore
<1>3. (Bare' <=> Bare) /\ Base' = Base BY <1>1, QuietFrame
<1>4. KnownInv' BY <1>1, <1>2, QuietKnown DEF Inv
<1>5. RestoreInv'
  <2>1. Bare => Base = Nothing BY DEF Base
  <2> QED BY <1>1, <1>2, <1>3, <2>1, IdleIs DEF RestoreInv
<1>6. pc' \in RestorePc BY <1>2 DEF RestorePc
<1> QED BY <1>1, <1>2, <1>4, <1>5, <1>6, IdleIs, RestoreStep DEF Inv, TypeOK

\* What is fetched is the manifest to restore.
LEMMA FetchStep == ASSUME Inv, Fetch PROVE Inv'
<1>1. Quiet /\ UNCHANGED <<staging, blobs, phase, dir, memory, state>> /\ pc = "fetch"
  BY DEF Fetch, Quiet, known, cloud, hist
<1>2. phase = "start" /\ ~Bare BY <1>1 DEF Inv, Places, RestoreInv, RestorePc
<1>3. Keyed(Wanted, now - 1) /\ Extracted(Wanted) \in Files BY <1>2, WantedIs DEF Inv
<1>4. \/ pc' = "seal" /\ local' = [Idle EXCEPT !.files = Extracted(Wanted), !.manifest = Wanted]
      \/ pc' = "refused" /\ local' = Idle
  BY DEF Fetch, Refuse
<1>5. (Bare' <=> Bare) /\ Base' = Base /\ Wanted' = Wanted BY <1>1, QuietFrame
<1>6. KnownInv' BY <1>1, <1>4, QuietKnown DEF Inv
<1>7. Base = Extracted(Wanted) BY <1>2 DEF Base
<1>8. CASE pc' = "seal" /\ local' = [Idle EXCEPT !.files = Extracted(Wanted), !.manifest = Wanted]
  <2>1. Wanted \in Manifests BY <1>3 DEF Keyed
  <2>2. /\ local' \in [files : Files, moved : Files \cup {NoDir}, manifest : Manifests \cup {None},
                       todo : Seq(Descriptor)]
        /\ local'.files = Extracted(Wanted) /\ local'.manifest = Wanted
    BY <1>3, <1>8, <2>1, IdleIs
  <2>3. RestoreInv' BY <1>1, <1>2, <1>5, <1>7, <1>8, <2>2 DEF RestoreInv
  <2>4. pc' \in RestorePc BY <1>8 DEF RestorePc
  <2> QED BY <1>1, <1>2, <1>6, <2>2, <2>3, <2>4, RestoreStep DEF Inv, TypeOK
<1>9. CASE pc' = "refused" /\ local' = Idle
  <2>1. RestoreInv' BY <1>1, <1>2, <1>9, NotRestoring, PcsAre
  <2> QED BY <1>1, <1>2, <1>6, <1>9, <2>1, IdleIs, RestoreStep DEF Inv, TypeOK
<1> QED BY <1>4, <1>8, <1>9

\* The directory that is there is sealed.
LEMMA SealReplacedStep == ASSUME Inv, SealReplaced PROVE Inv'
<1>1. /\ Quiet /\ UNCHANGED <<staging, blobs, phase, dir, memory, state, local>>
      /\ pc = "seal" /\ pc' = "move"
  BY DEF SealReplaced, Goto, Quiet, known, cloud, hist
<1>2. phase = "start" BY <1>1 DEF Inv, Places, RestorePc
<1>3. (Bare' <=> Bare) /\ Base' = Base /\ Wanted' = Wanted BY <1>1, QuietFrame
<1>4. KnownInv' BY <1>1, QuietKnown DEF Inv
<1>5. RestoreInv' BY <1>1, <1>2, <1>3 DEF Inv, RestoreInv
<1>6. pc' \in RestorePc BY <1>1 DEF RestorePc
<1> QED BY <1>1, <1>2, <1>4, <1>5, <1>6, RestoreStep DEF Inv, TypeOK

\* The directory that was there is moved away.
LEMMA MoveAwayStep == ASSUME Inv, MoveAway PROVE Inv'
<1>1. /\ Quiet /\ UNCHANGED <<staging, blobs, phase, memory, state>>
      /\ pc = "move" /\ pc' = "activate" /\ dir' = NoDir /\ local' = [local EXCEPT !.moved = dir]
  BY DEF MoveAway, Quiet, known, cloud, hist
<1>2. phase = "start" BY <1>1 DEF Inv, Places, RestorePc
<1>3. (Bare' <=> Bare) /\ Base' = Base /\ Wanted' = Wanted BY <1>1, QuietFrame
<1>4. KnownInv' BY <1>1, QuietKnown DEF Inv
<1>5. /\ local' \in [files : Files, moved : Files \cup {NoDir}, manifest : Manifests \cup {None},
                     todo : Seq(Descriptor)]
      /\ local'.files = local.files /\ local'.manifest = local.manifest
  BY <1>1 DEF Inv, TypeOK
<1>6. RestoreInv' BY <1>1, <1>2, <1>3, <1>5 DEF Inv, RestoreInv
<1>7. pc' \in RestorePc BY <1>1 DEF RestorePc
<1> QED BY <1>1, <1>2, <1>4, <1>5, <1>6, <1>7, RestoreStep DEF Inv, TypeOK

\* What was fetched takes its place.
LEMMA ActivateStep == ASSUME Inv, Activate PROVE Inv'
<1>1. /\ Quiet /\ UNCHANGED <<staging, blobs, phase, memory, state, local>>
      /\ pc = "activate" /\ pc' = (IF Bare THEN "drop" ELSE "quota") /\ dir' = local.files
  BY DEF Activate, Goto, Quiet, known, cloud, hist
<1>2. phase = "start" BY <1>1 DEF Inv, Places, RestorePc
<1>3. (Bare' <=> Bare) /\ Base' = Base /\ Wanted' = Wanted BY <1>1, QuietFrame
<1>4. KnownInv' BY <1>1, QuietKnown DEF Inv
<1>5. RestoreInv' BY <1>1, <1>2, <1>3 DEF Inv, RestoreInv
<1>6. pc' \in RestorePc /\ dir' \in Files BY <1>1 DEF RestorePc, Inv, TypeOK
<1> QED BY <1>1, <1>2, <1>4, <1>5, <1>6, RestoreStep DEF Inv, TypeOK

\* It is given its quota.
LEMMA ApplyQuotaStep == ASSUME Inv, ApplyQuota PROVE Inv'
<1>1. /\ Quiet /\ UNCHANGED <<staging, blobs, phase, dir, memory, state, local>>
      /\ pc = "quota" /\ pc' = (IF Bare THEN "world" ELSE "drop")
  BY DEF ApplyQuota, Goto, Quiet, known, cloud, hist
<1>2. phase = "start" BY <1>1 DEF Inv, Places, RestorePc
<1>3. (Bare' <=> Bare) /\ Base' = Base /\ Wanted' = Wanted BY <1>1, QuietFrame
<1>4. KnownInv' BY <1>1, QuietKnown DEF Inv
<1>5. dir = local.files /\ local.files = Base /\ Base \in Files BY <1>1, BaseIs DEF Inv, RestoreInv
<1>6. Bare => now = 1 BY DEF Bare
<1>7. RestoreInv'
  <2>1. CASE Bare
    <3>1. pc' = "world" /\ now' = 1 /\ dir' = Base' /\ dir' \in Files BY <1>1, <1>3, <1>5, <1>6, <2>1 DEF Quiet
    <3> QED BY <1>1, <1>2, <3>1 DEF RestoreInv
  <2>2. CASE ~Bare BY <1>1, <1>2, <1>3, <2>2 DEF Inv, RestoreInv
  <2> QED BY <2>1, <2>2
<1>8. pc' \in RestorePc BY <1>1 DEF RestorePc
<1> QED BY <1>1, <1>2, <1>4, <1>7, <1>8, RestoreStep DEF Inv, TypeOK

\* The backup is dropped.
LEMMA DropBackupStep == ASSUME Inv, DropBackup PROVE Inv'
<1>1. /\ Quiet /\ UNCHANGED <<staging, blobs, phase, dir, memory, state, local>>
      /\ pc = "drop" /\ pc' = (IF Bare THEN "quota" ELSE "record")
  BY DEF DropBackup, Goto, Quiet, known, cloud, hist
<1>2. phase = "start" BY <1>1 DEF Inv, Places, RestorePc
<1>3. (Bare' <=> Bare) /\ Base' = Base /\ Wanted' = Wanted BY <1>1, QuietFrame
<1>4. KnownInv' BY <1>1, QuietKnown DEF Inv
<1>5. RestoreInv' BY <1>1, <1>2, <1>3 DEF Inv, RestoreInv
<1>6. pc' \in RestorePc BY <1>1 DEF RestorePc
<1> QED BY <1>1, <1>2, <1>4, <1>5, <1>6, RestoreStep DEF Inv, TypeOK

\* The restored manifest is recorded.
LEMMA RecordRestoredStep == ASSUME Inv, RecordRestored PROVE Inv'
<1>1. /\ Quiet /\ UNCHANGED <<staging, blobs, phase, dir, local>>
      /\ pc = "record" /\ pc' = (IF now = 1 THEN "world" ELSE "prepare")
      /\ memory' = local.manifest /\ state' = local.manifest
  BY DEF RecordRestored, Goto, Quiet, cloud, hist
<1>2. phase = "start" /\ ~Bare BY <1>1 DEF Inv, Places, RestoreInv, RestorePc
<1>3. /\ Bare' <=> Bare
      /\ Base' = Base /\ Wanted' = Wanted /\ Assigned' = Assigned /\ Expected(now)' = Expected(now)
  BY <1>1, QuietFrame
<1>4. local.manifest = Wanted /\ dir = Base /\ Base \in Files
  BY <1>1, <1>2, BaseIs DEF Inv, RestoreInv
<1>5. /\ Keyed(Wanted, now - 1) /\ LayerOf(Wanted) = Assigned
      /\ now # 1 => Extracted(Wanted) = Expected(now)
  BY <1>2, WantedIs DEF Inv
<1>6. Wanted \in Manifests /\ Wanted # None BY <1>5, NoneIsNone DEF Keyed
<1>7. KnownInv'
  <2>1. memory' = Wanted /\ state' = Wanted BY <1>1, <1>4
  <2>2. Known(memory)' /\ Known(state)' BY <1>1, <1>2, <1>3, <1>5, <2>1 DEF Known, Restored, Quiet
  <2>3. phase' # "done" /\ pc' # "forget" BY <1>1, <1>2
  <2> QED BY <1>6, <2>1, <2>2, <2>3 DEF KnownInv
<1>8. RestoreInv'
  <2>1. CASE now = 1
    <3>1. pc' = "world" /\ now' = 1 /\ dir' = Base' /\ dir' \in Files BY <1>1, <1>3, <1>4, <2>1 DEF Quiet
    <3> QED BY <1>1, <1>2, <3>1 DEF RestoreInv
  <2>2. CASE now # 1
    <3>1. dir = Expected(now) BY <1>2, <1>4, <1>5, <2>2 DEF Base
    <3>2. pc' = "prepare" /\ dir' = Expected(now)' BY <1>1, <1>3, <2>2, <3>1
    <3> QED BY <1>1, <1>2, <3>2 DEF RestoreInv
  <2> QED BY <2>1, <2>2
<1>9. pc' \in RestorePc BY <1>1 DEF RestorePc
<1> QED BY <1>1, <1>2, <1>4, <1>6, <1>7, <1>8, <1>9, RestoreStep DEF Inv, TypeOK

\* The initial world is laid over the first restore, file by file.
LEMMA ExtractWorldStep == ASSUME Inv, ExtractWorld PROVE Inv'
<1> DEFINE missing == {p \in Present(Seed) : dir[p] # Seed[p]}
<1>1. Quiet /\ UNCHANGED <<staging, blobs, phase, memory, state>> /\ pc = "world"
  BY DEF ExtractWorld, Quiet, known, cloud, hist
<1>2. phase = "start" BY <1>1 DEF Inv, Places, RestorePc
<1>3. /\ Bare' <=> Bare
      /\ Base' = Base /\ Expected(now)' = Expected(now)
  BY <1>1, QuietFrame
<1>4. /\ now = 1 /\ dir \in Files
      /\ \A p \in Path : dir[p] = Base[p] \/ (order[1].seed /\ Seed[p] # Gone /\ dir[p] = Seed[p])
  BY <1>1 DEF Inv, RestoreInv
<1>5. \/ (~order[1].seed \/ missing = {}) /\ pc' = "prepare" /\ local' = local /\ dir' = dir
      \/ pc' = "refused" /\ local' = Idle /\ dir' = dir
      \/ /\ order[1].seed /\ pc' = "world" /\ local' = local
         /\ \E p \in missing : dir' = [dir EXCEPT ![p] = Seed[p]]
  BY DEF ExtractWorld, Goto, Refuse
<1>6. KnownInv'
  <2>1. Bare \/ state # None BY <1>1 DEF Inv, KnownInv
  <2>2. pc' # "forget" BY <1>5
  <2> QED BY <1>1, <2>1, <2>2, QuietKnown DEF Inv
<1>7. Seed \in Files BY WorkspaceAssumption
<1>8. CASE (~order[1].seed \/ missing = {}) /\ pc' = "prepare" /\ local' = local /\ dir' = dir
  <2> DEFINE c == order[1].start
  <2>1. c \in Content \cup {None} BY NowIs, OrdersAre DEF Inv
  <2>2. Base = IF c = None THEN Nothing ELSE Layer[c]
    <3>1. CASE c = None
      <4>1. Bare BY <1>4, <3>1 DEF Bare, Layered
      <4> QED BY <3>1, <4>1 DEF Base
    <3>2. CASE c # None
      <4>1. ~Bare BY <1>4, <3>2 DEF Bare, Layered
      <4>2. Base = Extracted(Wanted) BY <4>1 DEF Base
      <4> QED BY <1>4, <3>2, <4>1, <4>2, WantedIs DEF Inv
    <3> QED BY <3>1, <3>2
  <2>3. Expected(now) = Over(IF order[1].seed THEN Seed ELSE Nothing, Base)
    BY <1>4, <2>2 DEF Expected
  <2>4. ASSUME NEW p \in Path PROVE dir[p] = Expected(now)[p]
    <3>1. CASE order[1].seed
      <4>1. Expected(now)[p] = IF Seed[p] # Gone THEN Seed[p] ELSE Base[p] BY <2>3, <3>1, OverAt
      <4>2. Seed[p] # Gone => dir[p] = Seed[p] BY <1>8, <3>1 DEF Present
      <4> QED BY <1>4, <4>1, <4>2
    <3>2. CASE ~order[1].seed
      <4>1. Expected(now) = Over(Nothing, Base) BY <2>3, <3>2
      <4>2. Expected(now)[p] = Base[p] BY <4>1, NothingAt, OverAt
      <4> QED BY <1>4, <3>2, <4>2
    <3> QED BY <3>1, <3>2
  <2>5. dir = Expected(now) BY <1>4, <2>4, BaseIs, SameFiles DEF Inv
  <2>6. RestoreInv' BY <1>1, <1>2, <1>3, <1>8, <2>5 DEF RestoreInv
  <2>7. pc' \in RestorePc BY <1>8 DEF RestorePc
  <2> QED BY <1>1, <1>2, <1>6, <1>8, <2>6, <2>7, RestoreStep DEF Inv, TypeOK
<1>9. CASE pc' = "refused" /\ local' = Idle /\ dir' = dir
  <2>1. RestoreInv' BY <1>1, <1>2, <1>9, NotRestoring, PcsAre
  <2> QED BY <1>1, <1>2, <1>6, <1>9, <2>1, IdleIs, RestoreStep DEF Inv, TypeOK
<1>10. CASE /\ order[1].seed /\ pc' = "world" /\ local' = local
            /\ \E p \in missing : dir' = [dir EXCEPT ![p] = Seed[p]]
  <2>1. PICK p \in missing : dir' = [dir EXCEPT ![p] = Seed[p]] BY <1>10
  <2>2. p \in Path /\ Seed[p] # Gone /\ Seed[p] \in Version \cup {Gone} BY <1>7 DEF Present, Files
  <2>3. dir' \in Files BY <1>4, <2>1, <2>2 DEF Files
  <2>4. \A q \in Path : dir'[q] = IF q = p THEN Seed[p] ELSE dir[q] BY <1>4, <2>1 DEF Files
  <2>5. \A q \in Path : dir'[q] = Base[q] \/ (order[1].seed /\ Seed[q] # Gone /\ dir'[q] = Seed[q])
    BY <1>4, <1>10, <2>2, <2>4
  <2>6. RestoreInv' BY <1>1, <1>2, <1>3, <1>4, <1>10, <2>3, <2>5 DEF RestoreInv, Quiet
  <2>7. pc' \in RestorePc BY <1>10 DEF RestorePc
  <2> QED BY <1>1, <1>2, <1>6, <1>10, <2>3, <2>6, <2>7, RestoreStep DEF Inv, TypeOK
<1> QED BY <1>5, <1>8, <1>9, <1>10

\* A step of a restore fails: the workspace may be anything, but nothing is
\* remembered that was not restored.
LEMMA RestoreFailsStep == ASSUME Inv, RestoreFails PROVE Inv'
<1>1. Quiet /\ UNCHANGED <<staging, blobs, phase, state>> /\ pc \in RestorePc /\ pc' = "idle" /\ local' = Idle
  BY DEF RestoreFails, Return, Quiet, cloud, hist, RestorePc
<1>2. phase = "start" BY <1>1 DEF Inv, Places
<1>3. (Bare' <=> Bare) /\ Assigned' = Assigned BY <1>1, QuietFrame
<1>4. memory' = IF pc = "record" THEN local.manifest ELSE memory BY DEF RestoreFails
<1>5. dir' \in Files \cup {NoDir}
  <2>1. dir' \in CASE pc = "activate" -> {NoDir, local.moved}
                   [] pc = "quota" /\ ~Bare -> Partly(dir) \cup {NoDir, local.moved}
                   [] OTHER -> {dir}
    BY DEF RestoreFails
  <2>2. local.moved \in Files \cup {NoDir} /\ dir \in Files \cup {NoDir} BY DEF Inv, TypeOK
  <2>3. CASE pc = "activate" BY <2>1, <2>2, <2>3
  <2>4. CASE pc = "quota" /\ ~Bare
    <3>1. dir = Base BY <2>4 DEF Inv, RestoreInv
    <3>2. dir \in Files BY <3>1, BaseIs DEF Inv
    <3>3. Partly(dir) \subseteq Files BY <3>2, FilesClosed DEF Partly
    <3>4. dir' \in Partly(dir) \cup {NoDir, local.moved} BY <2>1, <2>4
    <3> QED BY <2>2, <3>3, <3>4
  <2>5. CASE pc # "activate" /\ ~(pc = "quota" /\ ~Bare)
    <3>1. dir' \in {dir} BY <2>1, <2>5
    <3> QED BY <2>2, <3>1
  <2> QED BY <2>3, <2>4, <2>5
<1>6. memory' \in Manifests \cup {None} /\ KnownInv'
  <2>1. CASE pc = "record"
    <3>1. ~Bare /\ memory' = Wanted BY <1>4, <2>1 DEF Inv, RestoreInv
    <3>2. Keyed(Wanted, now - 1) /\ LayerOf(Wanted) = Assigned BY <3>1, WantedIs DEF Inv
    <3>3. Wanted \in Manifests BY <3>2 DEF Keyed
    <3>4. Known(memory)' BY <1>1, <1>3, <3>1, <3>2 DEF Known, Restored, Quiet
    <3>5. Known(state)' BY <1>1, <1>2, <1>3 DEF Inv, KnownInv, Known, Restored, Quiet
    <3>6. phase' = "start" /\ pc' = "idle" BY <1>1, <1>2
    <3> QED BY <3>1, <3>3, <3>4, <3>5, <3>6 DEF KnownInv
  <2>2. CASE pc # "record"
    <3>1. memory' = memory BY <1>4, <2>2
    <3> QED BY <1>1, <3>1, QuietKnown DEF Inv, TypeOK
  <2> QED BY <2>1, <2>2
<1>7. RestoreInv' BY <1>1, <1>2, NotRestoring, PcsAre
<1> QED BY <1>1, <1>2, <1>5, <1>6, <1>7, IdleIs, RestoreStep DEF Inv, TypeOK

\* Restore has returned.
LEMMA PrepareStep == ASSUME Inv, Prepare PROVE Inv'
<1>1. /\ UNCHANGED <<now, dir, memory, state, staging, blobs, published, order, left>>
      /\ pc = "prepare" /\ pc' = "idle" /\ local' = Idle /\ phase' = "active" /\ ran' = ran \cup {now}
  BY DEF Prepare, Return, known, cloud
<1>2. phase = "start" BY <1>1 DEF Inv, Places, RestorePc
<1>3. Bare' <=> Bare BY <1>1 DEF Bare, Layered
<1>4. Assigned' = Assigned BY <1>1 DEF Assigned, RestoredLayer
<1>5. TypeOK' BY <1>1, IdleIs DEF Inv, TypeOK
<1>6. Places'
  <2>1. pc' \notin RestorePc /\ pc' \notin SyncPc /\ pc' \notin ReleasePc BY <1>1, PcsAre
  <2>2. ran \subseteq 1 .. now /\ now \in 1 .. now BY NowIs DEF Inv, Places
  <2> QED BY <1>1, <2>1, <2>2 DEF Places
<1>7. Publications'
  <2>1. \A r \in Assignment : published[r] # None => r < now BY <1>2 DEF Inv, Publications
  <2>2. \A r \in Assignment : RestoredLayer(r)' = RestoredLayer(r) BY <1>1 DEF RestoredLayer
  <2>3. \A r \in Assignment : r < now => (r \in ran' <=> r \in ran) BY <1>1, NowIs DEF Inv, Assignment
  <2>4. \A r \in Assignment : r < now => Layers(r)' = Layers(r) BY <2>2, <2>3 DEF Layers
  <2> QED BY <1>1, <2>1, <2>4 DEF Inv, Publications
<1>8. KnownInv'
  <2>1. Bare \/ state # None BY <1>1 DEF Inv, KnownInv
  <2>2. Known(memory)' /\ Known(state)'
    BY <1>1, <1>2, <1>3, <1>4 DEF Inv, KnownInv, Known, Restored
  <2> QED BY <1>1, <1>3, <2>1, <2>2 DEF KnownInv
<1>9. RestoreInv'
  <2>1. dir = Expected(now) BY <1>1 DEF Inv, RestoreInv
  <2>2. dir \in Files BY <2>1, BaseIs DEF Inv
  <2>3. dir' # NoDir BY <1>1, <2>2, NoneIsNone DEF NoDir
  <2> QED BY <1>1, <2>3, NotRestoring, PcsAre
<1>10. SyncInv'
  <2>1. staging.json = None BY <1>2 DEF Inv, SyncInv
  <2> QED BY <1>1, <2>1, NotSyncing, PcsAre
<1> QED BY <1>5, <1>6, <1>7, <1>8, <1>9, <1>10 DEF Inv

-----------------------------------------------------------------------------
(* Between the calls *)

\* A step outside a restore that leaves the staging directory without a draft.
LEMMA IdleStep ==
  ASSUME TypeOK', Places', Publications', KnownInv', pc' \notin RestorePc \cup SyncPc,
         phase' # "stop", staging'.json = None, phase' = "active" => dir' # NoDir
  PROVE  Inv'
BY NotRestoring, NotSyncing DEF Inv

\* The server changes the directory.
LEMMA PlayStep == ASSUME Inv, Play PROVE Inv'
<1>1. /\ Quiet /\ UNCHANGED <<phase, pc, local, memory, state, staging, blobs>> /\ phase = "active"
      /\ dir' \in Session(dir)
  BY DEF Play, Quiet, known, cloud, hist
<1>2. dir \in Files BY <1>1 DEF Inv, TypeOK, RestoreInv
<1>3. dir' \in Files BY <1>1, <1>2, WorkspaceAssumption
<1>4. TypeOK' BY <1>1, <1>3 DEF Inv, TypeOK, Quiet
<1>5. Places' BY <1>1 DEF Inv, Places, Quiet
<1>6. Publications' BY <1>1, QuietPublications DEF Inv
<1>7. pc \notin RestorePc /\ pc \notin SyncPc /\ pc \notin ReleasePc BY <1>1 DEF Inv, Places
<1>8. KnownInv'
  <2>1. pc' \notin {"forget", "world", "prepare"} BY <1>1, <1>7 DEF RestorePc, ReleasePc
  <2> QED BY <1>1, <2>1, QuietKnown DEF Inv
<1>9. staging'.json = None BY <1>1 DEF Inv, SyncInv
<1> QED BY <1>1, <1>3, <1>4, <1>5, <1>6, <1>7, <1>8, <1>9, NoneIsNone, IdleStep DEF NoDir

\* What the server left is what is in the directory.
LEMMA StopServerStep == ASSUME Inv, StopServer PROVE Inv'
<1>1. /\ UNCHANGED <<now, pc, local, dir, memory, state, staging, blobs, published, order, ran>>
      /\ phase \in {"start", "active"} /\ pc \in {"idle", "refused"} /\ phase' = "stop"
      /\ left' = [left EXCEPT ![now] = IF dir = NoDir THEN Nothing ELSE dir]
  BY DEF StopServer, Free, known, cloud
<1>2. Bare' <=> Bare BY <1>1 DEF Bare, Layered
<1>3. Assigned' = Assigned BY <1>1 DEF Assigned, RestoredLayer
<1>4. now \in Assignment /\ left \in [Assignment -> Files] /\ dir \in Files \cup {NoDir}
  BY DEF Inv, TypeOK
<1>5. /\ left' \in [Assignment -> Files]
      /\ left'[now] = IF dir = NoDir THEN Nothing ELSE dir
      /\ \A r \in Assignment : r # now => left'[r] = left[r]
  BY <1>1, <1>4, FilesClosed
<1>6. TypeOK' BY <1>1, <1>5 DEF Inv, TypeOK
<1>7. pc' \notin RestorePc /\ pc' \notin SyncPc /\ pc' \notin ReleasePc BY <1>1, PcsAre
<1>8. Places' BY <1>1, <1>7 DEF Inv, Places
<1>9. Publications'
  <2>1. \A r \in Assignment : published[r] # None => r < now /\ r # now
    BY <1>1, NowIs DEF Inv, Publications, Assignment
  <2>2. \A r \in Assignment : Layers(r)' = Layers(r) BY <1>1 DEF Layers, RestoredLayer
  <2>3. pc' \notin {"persist", "clean"} BY <1>7 DEF SyncPc
  <2> QED BY <1>1, <1>5, <2>1, <2>2, <2>3 DEF Inv, Publications
<1>10. KnownInv'
  <2>1. Known(memory)' /\ Known(state)'
    BY <1>1, <1>2, <1>3 DEF Inv, KnownInv, Known, Restored
  <2>2. now \in ran => Bare \/ state # None BY <1>1 DEF Inv, KnownInv, Places
  <2>3. pc' \notin {"forget", "world", "prepare"} BY <1>7 DEF RestorePc, ReleasePc
  <2> QED BY <1>1, <1>2, <2>1, <2>2, <2>3 DEF KnownInv
<1>11. RestoreInv' BY <1>1, <1>7, NotRestoring
<1>12. SyncInv'
  <2>1. staging.json = None BY <1>1 DEF Inv, SyncInv
  <2>2. staging'.json = None BY <1>1, <2>1
  <2>3. dir' = left'[now'] \/ (dir' = NoDir /\ left'[now'] = Nothing) BY <1>1, <1>5
  <2> QED BY <1>7, <2>2, <2>3 DEF SyncInv, SyncPc
<1> QED BY <1>6, <1>8, <1>9, <1>10, <1>11, <1>12 DEF Inv

\* The next assignment finds nothing remembered, and the revision before.
LEMMA NextAssignmentStep == ASSUME Inv, NextAssignment PROVE Inv'
<1>1. /\ UNCHANGED <<pc, local, dir, memory, state, blobs, published, order, left, ran>>
      /\ phase = "done" /\ now < MaxAssignment /\ now' = now + 1 /\ phase' = "start"
      /\ staging' = NoStaging
  BY DEF NextAssignment, known, cloud, hist
<1>2. now \in Nat /\ now >= 1 /\ MaxAssignment \in Nat BY NowIs DEF Inv
<1>3. now' \in Assignment BY <1>1, <1>2 DEF Assignment
<1>4. staging' \in [json : Manifests \cup {None}, intact : BOOLEAN] /\ staging'.json = None
  BY <1>1 DEF NoStaging
<1>5. TypeOK' BY <1>1, <1>3, <1>4 DEF Inv, TypeOK
<1>6. pc' \notin RestorePc /\ pc' \notin SyncPc /\ pc' \notin ReleasePc BY <1>1 DEF Inv, Places
<1>7. Places'
  <2>1. ran \subseteq 1 .. now BY DEF Inv, Places
  <2>2. ran' \subseteq 1 .. now' /\ now' \notin ran' BY <1>1, <1>2, <2>1
  <2> QED BY <1>1, <1>6, <2>2 DEF Places
<1>8. Publications'
  <2>1. \A r \in Assignment : Layers(r)' = Layers(r) BY <1>1 DEF Layers, RestoredLayer
  <2>2. \A r \in Assignment : r \in Nat BY DEF Assignment
  <2>3. \A r \in Assignment : published[r] # None => r < now' BY <1>1, <1>2, <2>2 DEF Inv, Publications
  <2>4. published[now] # None BY <1>1 DEF Inv, Publications
  <2>5. \A r \in Assignment : r < now' => r < now \/ r = now BY <1>1, <1>2, <2>2
  <2>6. \A r \in Assignment : r < now' => published[r] # None BY <2>4, <2>5 DEF Inv, Publications
  <2>7. pc' \notin {"persist", "clean"} BY <1>6 DEF SyncPc
  <2> QED BY <1>1, <2>1, <2>3, <2>6, <2>7 DEF Inv, Publications
<1>9. KnownInv'
  <2>1. memory' = None /\ state' = None BY <1>1 DEF Inv, KnownInv
  <2>2. pc' \notin {"forget", "world", "prepare"} BY <1>6 DEF RestorePc, ReleasePc
  <2> QED BY <1>1, <2>1, <2>2 DEF KnownInv, Known
<1> QED BY <1>1, <1>4, <1>5, <1>6, <1>7, <1>8, <1>9, IdleStep

\* The agent dies: what it had in memory is gone.
LEMMA CrashStep == ASSUME Inv, Crash PROVE Inv'
<1>1. /\ Quiet /\ UNCHANGED <<phase, dir, state, staging, blobs>>
      /\ pc' = "idle" /\ local' = Idle /\ memory' = None
  BY DEF Crash, Return, Quiet, cloud, hist
<1>2. TypeOK' BY <1>1, IdleIs DEF Inv, TypeOK, Quiet
<1>3. pc' \notin RestorePc /\ pc' \notin SyncPc /\ pc' \notin ReleasePc BY <1>1, PcsAre
<1>4. Places' BY <1>1, <1>3 DEF Inv, Places, Quiet
<1>5. Publications' BY <1>1, QuietPublications DEF Inv
<1>6. KnownInv' BY <1>1, QuietKnown DEF Inv
<1>7. RestoreInv' BY <1>1, <1>3, NotRestoring DEF Inv, RestoreInv
<1>8. SyncInv'
  <2>1. Fitting' = Fitting BY <1>1, QuietFrame
  <2>2. staging'.json # None => phase' = "stop" /\ Synced(staging.json)'
    BY <1>1, <2>1 DEF Inv, SyncInv, Synced, Quiet
  <2>3. phase' = "stop" => dir' = left'[now'] \/ (dir' = NoDir /\ left'[now'] = Nothing)
    BY <1>1 DEF Inv, SyncInv, Quiet
  <2> QED BY <1>3, <2>2, <2>3 DEF SyncInv, SyncPc
<1> QED BY <1>2, <1>4, <1>5, <1>6, <1>7, <1>8 DEF Inv

-----------------------------------------------------------------------------
(* The steps of a sync *)

\* A step of a sync that publishes nothing: what is to be shown of it.
LEMMA SyncStep ==
  ASSUME Inv, Quiet, blobs \subseteq blobs', phase = "stop", phase' = "stop",
         pc' \in SyncPc \cup {"idle", "refused"}, pc' \in {"persist", "clean"} => pc \in {"persist", "clean"},
         local' \in [files : Files, moved : Files \cup {NoDir}, manifest : Manifests \cup {None},
                     todo : Seq(Descriptor)],
         staging' \in [json : Manifests \cup {None}, intact : BOOLEAN],
         dir' \in Files \cup {NoDir}, memory' \in Manifests \cup {None}, state' \in Manifests \cup {None},
         KnownInv', SyncInv'
  PROVE  Inv'
<1>1. TypeOK' BY DEF Inv, TypeOK, Quiet
<1>2. Places' BY PcsAre DEF Inv, Places, Quiet
<1>3. Publications' BY QuietPublications DEF Inv
<1>4. RestoreInv' BY PcsAre, NotRestoring
<1> QED BY <1>1, <1>2, <1>3, <1>4 DEF Inv

\* A sync that ends, leaving the directory and the draft.
LEMMA SyncEnds ==
  ASSUME Inv, Quiet, phase = "stop", phase' = "stop", pc' \notin SyncPc,
         dir' = left[now] \/ (dir' = NoDir /\ left[now] = Nothing),
         staging'.json \in {staging.json, None}
  PROVE  SyncInv'
<1>1. Fitting' = Fitting BY QuietFrame
<1>2. staging.json # None => Synced(staging.json) BY DEF Inv, SyncInv
<1>3. staging'.json # None => Synced(staging.json)' BY <1>1, <1>2 DEF Synced, Quiet
<1> QED BY <1>3 DEF SyncInv, SyncPc, Quiet

\* A sync is called.
LEMMA CallSyncStep == ASSUME Inv, CallSync PROVE Inv'
<1>1. /\ Quiet /\ UNCHANGED <<phase, dir, memory, state, staging, blobs, local>>
      /\ phase = "stop" /\ pc' = "open"
  BY DEF CallSync, Goto, Quiet, known, cloud, hist
<1>2. KnownInv' BY <1>1, QuietKnown DEF Inv
<1>3. SyncInv'
  <2>1. Fitting' = Fitting BY <1>1, QuietFrame
  <2>2. staging'.json # None => Synced(staging.json)' BY <1>1, <2>1 DEF Inv, SyncInv, Synced, Quiet
  <2> QED BY <1>1, <2>2 DEF Inv, SyncInv, SyncPc, Quiet
<1>4. pc' \in SyncPc BY <1>1 DEF SyncPc
<1> QED BY <1>1, <1>2, <1>3, <1>4, SyncStep DEF Inv, TypeOK

\* It finds the directory, or makes an empty one.
LEMMA OpenWorkspaceStep == ASSUME Inv, OpenWorkspace PROVE Inv'
<1>1. /\ Quiet /\ UNCHANGED <<phase, memory, state, staging, blobs, local>>
      /\ pc = "open" /\ pc' = "load" /\ dir' = IF dir = NoDir THEN Nothing ELSE dir
  BY DEF OpenWorkspace, Goto, Quiet, known, cloud, hist
<1>2. phase = "stop" BY <1>1 DEF Inv, Places, SyncPc
<1>3. dir = left[now] \/ (dir = NoDir /\ left[now] = Nothing) BY <1>2 DEF Inv, SyncInv
<1>4. left[now] \in Files /\ left[now] # NoDir BY NoneIsNone DEF Inv, TypeOK, NoDir
<1>5. dir' = left[now] BY <1>1, <1>3, <1>4
<1>6. KnownInv' BY <1>1, QuietKnown DEF Inv
<1>7. SyncInv'
  <2>1. Fitting' = Fitting BY <1>1, QuietFrame
  <2>2. staging'.json # None => Synced(staging.json)' BY <1>1, <2>1 DEF Inv, SyncInv, Synced, Quiet
  <2> QED BY <1>1, <1>2, <1>5, <2>2 DEF SyncInv, Quiet
<1>8. pc' \in SyncPc BY <1>1 DEF SyncPc
<1> QED BY <1>1, <1>2, <1>4, <1>5, <1>6, <1>7, <1>8, SyncStep DEF Inv, TypeOK

\* What is to be uploaded of a manifest: all but a compiler-owned layer, which
\* is stored.
LEMMA BuiltComplete ==
  ASSUME Publications, NEW m, NEW r, Keyed(m, r)
  PROVE  Built(m) \in Seq(Descriptor) /\ Range(ManifestDescriptors(m)) \subseteq blobs \cup Range(Built(m))
<1>1. m \in Manifests BY DEF Keyed
<1>2. CASE IsCompilerContent(m.content)
  <2>1. PICK c \in Content : m.content = CompilerBlob(c) BY <1>2 DEF Keyed
  <2>2. m.content \in blobs BY <2>1 DEF Publications
  <2> QED BY <1>1, <2>2, BuiltAre
<1>3. CASE ~IsCompilerContent(m.content) BY <1>1, <1>3, BuiltAre
<1> QED BY <1>2, <1>3

\* The upload begins, with a manifest of what the server left.
LEMMA UploadBegins ==
  ASSUME Inv, Quiet, phase = "stop", phase' = "stop", pc' = "upload", pc \in SyncPc \ {"open"},
         NEW m, Synced(m), UNCHANGED <<blobs, dir, state>>, memory' \in Manifests \cup {None}, KnownInv',
         local' = [Idle EXCEPT !.manifest = m, !.todo = Built(m)],
         staging' \in [json : {m}, intact : BOOLEAN]
  PROVE  Inv'
<1>1. Fitting' = Fitting BY QuietFrame
<1>2. Keyed(m, now) BY DEF Synced
<1>3. m \in Manifests BY <1>2 DEF Keyed
<1>4. Built(m) \in Seq(Descriptor) /\ Range(ManifestDescriptors(m)) \subseteq blobs \cup Range(Built(m))
  BY <1>2, BuiltComplete DEF Inv
<1>5. /\ local' \in [files : Files, moved : Files \cup {NoDir}, manifest : Manifests \cup {None},
                     todo : Seq(Descriptor)]
      /\ local'.manifest = m /\ local'.todo = Built(m)
  BY <1>3, <1>4, FilesClosed DEF Idle
<1>6. staging' \in [json : Manifests \cup {None}, intact : BOOLEAN] /\ staging'.json = m BY <1>3
<1>7. dir' = left'[now'] BY DEF Inv, SyncInv, Quiet
<1>8. Synced(local.manifest)' /\ Synced(staging.json)' BY <1>1, <1>5, <1>6 DEF Synced, Quiet
<1>9. Range(ManifestDescriptors(local'.manifest)) \subseteq blobs' \cup Range(local'.todo) BY <1>4, <1>5
<1>10. SyncInv' BY <1>7, <1>8, <1>9 DEF SyncInv
<1>11. pc' \in SyncPc BY DEF SyncPc
<1> QED BY <1>5, <1>6, <1>10, <1>11, SyncStep DEF Inv, TypeOK

\* A draft is taken up again.
LEMMA LoadDescriptorStep == ASSUME Inv, LoadDescriptor PROVE Inv'
<1>1. Quiet /\ UNCHANGED <<phase, dir, memory, state, staging, blobs>> /\ pc = "load"
  BY DEF LoadDescriptor, Quiet, known, cloud, hist
<1>2. phase = "stop" /\ dir = left[now] BY <1>1 DEF Inv, Places, SyncInv, SyncPc
<1>3. \/ staging.json = None /\ pc' = "draft" /\ local' = local
      \/ /\ staging.json # None /\ pc' = "upload"
         /\ local' = [Idle EXCEPT !.manifest = staging.json, !.todo = Built(staging.json)]
      \/ pc' = "refused" /\ local' = Idle
  BY DEF LoadDescriptor, Goto, Refuse
<1>4. KnownInv' BY <1>1, <1>3, QuietKnown DEF Inv
<1>5. CASE staging.json = None /\ pc' = "draft" /\ local' = local
  <2>1. SyncInv' BY <1>1, <1>2, <1>5 DEF SyncInv, Quiet
  <2>2. pc' \in SyncPc BY <1>5 DEF SyncPc
  <2> QED BY <1>1, <1>2, <1>4, <1>5, <2>1, <2>2, SyncStep DEF Inv, TypeOK
<1>6. CASE /\ staging.json # None /\ pc' = "upload"
           /\ local' = [Idle EXCEPT !.manifest = staging.json, !.todo = Built(staging.json)]
  <2>1. Synced(staging.json) BY <1>6 DEF Inv, SyncInv
  <2>2. staging' \in [json : {staging.json}, intact : BOOLEAN] BY <1>1 DEF Inv, TypeOK
  <2>3. pc \in SyncPc \ {"open"} BY <1>1 DEF SyncPc
  <2>4. memory' \in Manifests \cup {None} /\ phase' = "stop" /\ UNCHANGED <<blobs, dir, state>>
    BY <1>1, <1>2 DEF Inv, TypeOK
  <2> QED BY <1>1, <1>2, <1>4, <1>6, <2>1, <2>2, <2>3, <2>4, UploadBegins
<1>7. CASE pc' = "refused" /\ local' = Idle
  <2>1. SyncInv' BY <1>1, <1>2, <1>7, SyncEnds, PcsAre
  <2> QED BY <1>1, <1>2, <1>4, <1>7, <2>1, IdleIs, SyncStep DEF Inv, TypeOK
<1> QED BY <1>3, <1>5, <1>6, <1>7

\* A draft is made, from what is remembered of the revision before.
LEMMA DraftStep == ASSUME Inv, Draft PROVE Inv'
<1> DEFINE previous == IF memory # None THEN memory ELSE state
           c == order[now].stop
           m == BuildManifest(dir, now, c, previous)
<1>1. Quiet /\ UNCHANGED <<phase, dir, state, blobs>> /\ pc = "draft"
  BY DEF Draft, Quiet, cloud, hist
<1>2. phase = "stop" /\ dir = left[now] BY <1>1 DEF Inv, Places, SyncInv, SyncPc
<1>3. \/ pc' = "refused" /\ local' = Idle /\ UNCHANGED <<memory, staging>>
      \/ memory' = previous /\ pc' = "refused" /\ local' = Idle /\ staging' = staging
      \/ /\ memory' = previous /\ staging' = [json |-> m, intact |-> TRUE] /\ pc' = "upload"
         /\ local' = [Idle EXCEPT !.manifest = m, !.todo = Built(m)]
  BY DEF Draft, Refuse
<1>4. CASE pc' = "refused" /\ local' = Idle /\ UNCHANGED <<memory, staging>>
  <2>1. KnownInv' BY <1>1, <1>4, QuietKnown DEF Inv
  <2>2. SyncInv' BY <1>1, <1>2, <1>4, SyncEnds, PcsAre
  <2> QED BY <1>1, <1>2, <1>4, <2>1, <2>2, IdleIs, SyncStep DEF Inv, TypeOK
<1>5. /\ previous \in Manifests \cup {None} /\ (state # None => previous # None)
      /\ previous # None => Restored(previous) \/ Synced(previous)
  BY DEF Inv, TypeOK, KnownInv, Known
<1>6. ASSUME memory' = previous, pc' \in {"refused", "upload"} PROVE KnownInv'
  <2>1. (Bare' <=> Bare) /\ Assigned' = Assigned /\ Fitting' = Fitting BY <1>1, QuietFrame
  <2> HIDE DEF previous, m
  <2>2. Known(memory)' BY <1>1, <1>2, <1>5, <1>6, <2>1 DEF Known, Restored, Synced, Quiet
  <2>3. Known(state)' BY <1>1, <1>2, <2>1 DEF Inv, KnownInv, Known, Restored, Synced, Quiet
  <2>4. now \in ran => Bare \/ state # None BY <1>2 DEF Inv, KnownInv
  <2> QED BY <1>1, <1>2, <1>6, <2>1, <2>2, <2>3, <2>4 DEF KnownInv, Quiet
<1>7. CASE memory' = previous /\ pc' = "refused" /\ local' = Idle /\ staging' = staging
  <2>1. KnownInv' /\ memory' \in Manifests \cup {None} BY <1>5, <1>6, <1>7
  <2>2. SyncInv' BY <1>1, <1>2, <1>7, SyncEnds, PcsAre
  <2> HIDE DEF previous, m
  <2> QED BY <1>1, <1>2, <1>7, <2>1, <2>2, IdleIs, SyncStep DEF Inv, TypeOK
<1>8. CASE /\ memory' = previous /\ staging' = [json |-> m, intact |-> TRUE] /\ pc' = "upload"
           /\ local' = [Idle EXCEPT !.manifest = m, !.todo = Built(m)]
  <2>1. KnownInv' /\ memory' \in Manifests \cup {None} BY <1>5, <1>6, <1>8
  <2>2. Synced(m)
    <3>1. dir \in Files /\ now \in Nat BY <1>2, NowIs DEF Inv, TypeOK
    <3>2. order[now].start \in Content \cup {None} /\ c \in {order[now].start, None}
      BY NowIs, OrdersAre DEF Inv
    <3>3. c \in Content \cup {None} BY <3>2
    <3>4. previous = None \/ Keyed(previous, now - 1) \/ (Keyed(previous, now) /\ Packs(previous, dir))
      BY <1>2, <1>5 DEF Restored, Synced
    <3>5. c # None => c = Assigned BY <3>2 DEF Assigned, RestoredLayer
    <3>6. Assigned \in Fitting /\ (now \notin ran => None \in Fitting) BY DEF Assigned, Fitting, Layers
    <3>7. previous = None => None \in Fitting
      <4>1. CASE now \in ran /\ previous = None
        <5>1. Bare BY <1>2, <1>5, <4>1 DEF Inv, KnownInv
        <5>2. Assigned = None BY <5>1 DEF Bare, Layered, Assigned, RestoredLayer
        <5> QED BY <3>6, <5>2
      <4> QED BY <3>6, <4>1
    <3>8. previous # None => LayerOf(previous) \in Fitting BY <1>5, <3>6 DEF Restored, Synced
    <3> HIDE DEF c, previous
    <3>9. /\ Packs(m, dir) /\ Keyed(m, now)
          /\ LayerOf(m) = IF c # None THEN c ELSE IF previous = None THEN None ELSE LayerOf(previous)
      BY <3>1, <3>3, <3>4, BuildGood
    <3> HIDE DEF m
    <3>10. LayerOf(m) \in Fitting BY <3>5, <3>6, <3>7, <3>8, <3>9
    <3> QED BY <1>2, <3>9, <3>10 DEF Synced
  <2>3. staging' \in [json : {m}, intact : BOOLEAN]
    <3> HIDE DEF m
    <3> QED BY <1>8
  <2>4. pc \in SyncPc \ {"open"} /\ phase' = "stop" /\ UNCHANGED <<blobs, dir, state>>
    BY <1>1, <1>2 DEF SyncPc
  <2> HIDE DEF m, previous
  <2> QED BY <1>1, <1>2, <1>8, <2>1, <2>2, <2>3, <2>4, UploadBegins
<1> QED BY <1>3, <1>4, <1>7, <1>8

\* An archive is stored, or all are.
LEMMA UploadStep == ASSUME Inv, Upload PROVE Inv'
<1>1. Quiet /\ UNCHANGED <<phase, dir, memory, state, staging>> /\ pc = "upload"
  BY DEF Upload, Quiet, known, hist
<1>2. phase = "stop" /\ dir = left[now] BY <1>1 DEF Inv, Places, SyncInv, SyncPc
<1>3. \/ local.todo = <<>> /\ pc' = "publish" /\ local' = local /\ blobs' = blobs
      \/ /\ local.todo # <<>> /\ blobs' = blobs \cup {Head(local.todo)}
         /\ pc' = "upload" /\ local' = [local EXCEPT !.todo = Tail(@)]
      \/ pc' = "refused" /\ local' = Idle /\ blobs' = blobs
  BY DEF Upload, Goto, Refuse
<1>4. KnownInv' BY <1>1, <1>3, QuietKnown DEF Inv
<1>5. Synced(local.manifest)
      /\ Range(ManifestDescriptors(local.manifest)) \subseteq blobs \cup Range(local.todo)
  BY <1>1 DEF Inv, SyncInv
<1>6. Fitting' = Fitting BY <1>1, QuietFrame
<1>7. staging'.json # None => Synced(staging.json)' BY <1>1, <1>6 DEF Inv, SyncInv, Synced, Quiet
<1>8. local'.manifest = local.manifest => Synced(local.manifest)' BY <1>1, <1>5, <1>6 DEF Synced, Quiet
<1>9. CASE local.todo = <<>> /\ pc' = "publish" /\ local' = local /\ blobs' = blobs
  <2>1. Range(local.todo) = {} BY <1>9 DEF Range
  <2>2. Range(ManifestDescriptors(local'.manifest)) \subseteq blobs' BY <1>5, <1>9, <2>1
  <2>3. SyncInv' BY <1>1, <1>2, <1>7, <1>8, <1>9, <2>2 DEF SyncInv, Quiet
  <2>4. pc' \in SyncPc BY <1>9 DEF SyncPc
  <2> QED BY <1>1, <1>2, <1>4, <1>9, <2>3, <2>4, SyncStep DEF Inv, TypeOK
<1>10. CASE /\ local.todo # <<>> /\ blobs' = blobs \cup {Head(local.todo)}
            /\ pc' = "upload" /\ local' = [local EXCEPT !.todo = Tail(@)]
  <2> DEFINE t == local.todo
  <2>1. t \in Seq(Descriptor) BY DEF Inv, TypeOK
  <2> HIDE DEF t
  <2>2. t # <<>> => Head(t) \in Descriptor /\ Tail(t) \in Seq(Descriptor)
                    /\ Range(t) = {Head(t)} \cup Range(Tail(t))
    BY <2>1, RangeOfParts
  <2>3. Tail(t) \in Seq(Descriptor) /\ Range(t) = {Head(t)} \cup Range(Tail(t)) BY <1>10, <2>2 DEF t
  <2>4. local' = [local EXCEPT !.todo = Tail(t)] BY <1>10 DEF t
  <2>5. /\ local' \in [files : Files, moved : Files \cup {NoDir}, manifest : Manifests \cup {None},
                       todo : Seq(Descriptor)]
        /\ local'.manifest = local.manifest /\ local'.todo = Tail(t)
    BY <2>3, <2>4 DEF Inv, TypeOK
  <2>6. blobs' = blobs \cup {Head(t)} BY <1>10 DEF t
  <2>7. Range(ManifestDescriptors(local.manifest)) \subseteq blobs \cup Range(t) BY <1>5 DEF t
  <2>8. Range(ManifestDescriptors(local'.manifest)) \subseteq blobs' \cup Range(local'.todo)
    BY <2>3, <2>5, <2>6, <2>7
  <2>9. SyncInv' BY <1>1, <1>2, <1>7, <1>8, <1>10, <2>5, <2>8 DEF SyncInv, Quiet
  <2>10. pc' \in SyncPc BY <1>10 DEF SyncPc
  <2>11. blobs \subseteq blobs' BY <2>6
  <2> QED BY <1>1, <1>2, <1>4, <1>10, <2>5, <2>9, <2>10, <2>11, SyncStep DEF Inv, TypeOK
<1>11. CASE pc' = "refused" /\ local' = Idle /\ blobs' = blobs
  <2>1. SyncInv' BY <1>1, <1>2, <1>11, SyncEnds, PcsAre
  <2> QED BY <1>1, <1>2, <1>4, <1>11, <2>1, IdleIs, SyncStep DEF Inv, TypeOK
<1> QED BY <1>3, <1>9, <1>10, <1>11

\* The manifest of the sync is published, or was, or is not yet.
LEMMA PublishedOrNot ==
  ASSUME Inv, pc = "publish", UNCHANGED <<order, now, left, ran, blobs, phase, state, memory>>,
         published' \in {published, [published EXCEPT ![now] = local.manifest]},
         pc' \in {"idle", "refused"} \/ (pc' = "persist" /\ published'[now] # None),
         local' \in [files : Files, moved : Files \cup {NoDir}, manifest : Manifests \cup {None},
                     todo : Seq(Descriptor)],
         dir' = dir, staging' = staging, pc' = "persist" => local'.manifest = local.manifest
  PROVE  Inv'
<1>1. phase = "stop" /\ dir = left[now] BY DEF Inv, Places, SyncInv, SyncPc
<1>2. Synced(local.manifest) /\ Range(ManifestDescriptors(local.manifest)) \subseteq blobs
  BY DEF Inv, SyncInv
<1>3. local.manifest \in Manifests /\ local.manifest # None BY <1>2, NoneIsNone DEF Synced, Keyed
<1>4. now \in Assignment /\ published \in [Assignment -> Manifests \cup {None}] BY DEF Inv, TypeOK
<1>5. /\ published' \in [Assignment -> Manifests \cup {None}]
      /\ \A r \in Assignment : r # now => published'[r] = published[r]
      /\ published'[now] = published[now] \/ published'[now] = local.manifest
  BY <1>3, <1>4
<1>6. Bare' <=> Bare BY DEF Bare, Layered
<1>7. \A r \in Assignment : r \in Nat /\ (r < now => r # now) BY DEF Assignment
<1>8. ASSUME NEW r \in Assignment, r < now \/ r = now PROVE RestoredLayer(r)' = RestoredLayer(r)
  <2>1. CASE r = 1 BY <2>1 DEF RestoredLayer
  <2>2. CASE r # 1
    <3>1. r - 1 \in Assignment /\ r - 1 # now
      <4>1. MaxAssignment \in Nat /\ now \in Nat /\ r \in 1 .. MaxAssignment BY NowIs DEF Inv, Assignment
      <4> QED BY <1>8, <2>2, <4>1 DEF Assignment
    <3>2. published'[r - 1] = published[r - 1] BY <1>5, <3>1
    <3> QED BY <2>2, <3>2 DEF RestoredLayer
  <2> QED BY <2>1, <2>2
<1>9. \A r \in Assignment : r < now \/ r = now => Layers(r)' = Layers(r) BY <1>8 DEF Layers
<1>10. Assigned' = Assigned /\ Fitting' = Fitting
  <2>1. RestoredLayer(now)' = RestoredLayer(now)
    <3>1. CASE now = 1 BY <3>1 DEF RestoredLayer
    <3>2. CASE now # 1
      <4>1. now - 1 \in Assignment /\ now - 1 # now BY <3>2, NowIs DEF Inv
      <4>2. published'[now - 1] = published[now - 1] BY <1>5, <4>1
      <4> QED BY <3>2, <4>2 DEF RestoredLayer
    <3> QED BY <3>1, <3>2
  <2> QED BY <2>1 DEF Assigned, Fitting, Layers
<1>11. TypeOK' BY <1>5 DEF Inv, TypeOK, SyncPc
<1>12. Places' BY PcsAre DEF Inv, Places, SyncPc
<1>13. Publications'
  <2>1. \A r \in Assignment : published'[r] # None => r < now \/ r = now
    BY <1>5 DEF Inv, Publications
  <2>2. ASSUME NEW r \in Assignment, published'[r] # None
        PROVE  /\ Packs(published'[r], left[r]) /\ Keyed(published'[r], r)
               /\ LayerOf(published'[r]) \in Layers(r)
               /\ Range(ManifestDescriptors(published'[r])) \subseteq blobs
    <3>1. CASE published'[r] = published[r] BY <2>2, <3>1 DEF Inv, Publications
    <3>2. CASE published'[r] # published[r]
      <4>1. r = now /\ published'[r] = local.manifest BY <1>5, <3>2
      <4> QED BY <1>2, <4>1 DEF Synced, Fitting
    <3> QED BY <3>1, <3>2
  <2>3. \A r \in Assignment : published'[r] # None => Layers(r)' = Layers(r) BY <1>9, <2>1
  <2>4. \A r \in Assignment : r < now => published'[r] # None BY <1>5, <1>7 DEF Inv, Publications
  <2>5. phase' = "stop" BY <1>1
  <2>6. {CompilerBlob(c) : c \in Content} \subseteq blobs BY DEF Inv, Publications
  <2> QED BY <2>1, <2>2, <2>3, <2>4, <2>5, <2>6 DEF Publications
<1>14. KnownInv'
  <2>1. Known(memory)' /\ Known(state)'
    BY <1>6, <1>10 DEF Inv, KnownInv, Known, Restored, Synced
  <2> QED BY <1>1, <1>6, <2>1 DEF Inv, KnownInv
<1>15. RestoreInv' BY <1>1, PcsAre, NotRestoring DEF SyncPc
<1>16. SyncInv'
  <2>1. staging'.json # None => Synced(staging.json)' BY <1>10 DEF Inv, SyncInv, Synced
  <2>2. local'.manifest = local.manifest => Synced(local.manifest)' BY <1>2, <1>10 DEF Synced
  <2> QED BY <1>1, <2>1, <2>2 DEF SyncInv, SyncPc
<1> QED BY <1>11, <1>12, <1>13, <1>14, <1>15, <1>16 DEF Inv

\* The manifest is published, under the condition that it is new or the same.
LEMMA PublishStep == ASSUME Inv, Publish PROVE Inv'
<1>1. /\ UNCHANGED <<order, now, left, ran, blobs, phase, state, memory, dir, staging>> /\ pc = "publish"
  BY DEF Publish, known, hist
<1>2. now \in Assignment /\ published \in [Assignment -> Manifests \cup {None}] BY DEF Inv, TypeOK
<1>3. local.manifest # None BY <1>1, NoneIsNone DEF Inv, SyncInv, Synced, Keyed
<1>4. \/ pc' = "persist" /\ local' = local /\ published' = [published EXCEPT ![now] = local.manifest]
      \/ pc' = "refused" /\ local' = Idle /\ published' = published
  BY DEF Publish, Goto, Refuse
<1>5. local \in [files : Files, moved : Files \cup {NoDir}, manifest : Manifests \cup {None},
                 todo : Seq(Descriptor)]
  BY DEF Inv, TypeOK
<1>6. CASE pc' = "persist" /\ local' = local /\ published' = [published EXCEPT ![now] = local.manifest]
  <2>1. published'[now] # None BY <1>2, <1>3, <1>6
  <2>2. published' \in {published, [published EXCEPT ![now] = local.manifest]} BY <1>6
  <2> QED BY <1>1, <1>5, <1>6, <2>1, <2>2, PublishedOrNot
<1>7. CASE pc' = "refused" /\ local' = Idle /\ published' = published
  BY <1>1, <1>7, IdleIs, PublishedOrNot
<1> QED BY <1>4, <1>6, <1>7

\* The synced manifest is recorded.
LEMMA RecordSyncedStep == ASSUME Inv, RecordSynced PROVE Inv'
<1>1. /\ Quiet /\ UNCHANGED <<phase, dir, staging, blobs, local>> /\ pc = "persist" /\ pc' = "clean"
      /\ memory' = local.manifest /\ state' = local.manifest
  BY DEF RecordSynced, Goto, Quiet, cloud, hist
<1>2. phase = "stop" /\ dir = left[now] /\ Synced(local.manifest)
  BY <1>1 DEF Inv, Places, SyncInv, SyncPc
<1>3. local.manifest \in Manifests /\ local.manifest # None BY <1>2, NoneIsNone DEF Synced, Keyed
<1>4. Fitting' = Fitting BY <1>1, QuietFrame
<1>5. KnownInv'
  <2>1. Known(memory)' /\ Known(state)' BY <1>1, <1>2, <1>4 DEF Known, Synced, Quiet
  <2> QED BY <1>1, <1>2, <1>3, <2>1 DEF KnownInv
<1>6. SyncInv'
  <2>1. staging'.json # None => Synced(staging.json)' BY <1>1, <1>4 DEF Inv, SyncInv, Synced, Quiet
  <2>2. Synced(local.manifest)' BY <1>1, <1>2, <1>4 DEF Synced, Quiet
  <2> QED BY <1>1, <1>2, <2>1, <2>2 DEF SyncInv, Quiet
<1>7. pc' \in SyncPc BY <1>1 DEF SyncPc
<1> QED BY <1>1, <1>2, <1>3, <1>5, <1>6, <1>7, SyncStep DEF Inv, TypeOK

\* The sync is over.
LEMMA CleanUpStep == ASSUME Inv, CleanUp PROVE Inv'
<1>1. /\ Quiet /\ UNCHANGED <<dir, memory, state, blobs>> /\ pc = "clean" /\ pc' = "idle"
      /\ local' = Idle /\ staging' = NoStaging /\ phase' = "synced"
  BY DEF CleanUp, Return, Quiet, known, cloud, hist
<1>2. phase = "stop" BY <1>1 DEF Inv, Places, SyncPc
<1>3. staging' \in [json : Manifests \cup {None}, intact : BOOLEAN] /\ staging'.json = None
  BY <1>1 DEF NoStaging
<1>4. TypeOK' BY <1>1, <1>3, IdleIs DEF Inv, TypeOK, Quiet
<1>5. pc' \notin RestorePc /\ pc' \notin SyncPc /\ pc' \notin ReleasePc BY <1>1, PcsAre
<1>6. Places' BY <1>1, <1>5 DEF Inv, Places, Quiet
<1>7. Publications' BY <1>1, <1>2, QuietPublications DEF Inv
<1>8. KnownInv' BY <1>1, <1>2, QuietKnown DEF Inv
<1> QED BY <1>1, <1>3, <1>4, <1>5, <1>6, <1>7, <1>8, IdleStep

\* A step of a sync fails.
LEMMA SyncFailsStep == ASSUME Inv, SyncFails PROVE Inv'
<1>1. /\ UNCHANGED <<now, phase, state, order, left, ran>> /\ pc \in SyncPc /\ pc' = "idle" /\ local' = Idle
      /\ dir' \in IF pc = "open" /\ dir = NoDir THEN {NoDir, Nothing} ELSE {dir}
      /\ blobs' \in IF pc = "upload" /\ local.todo # <<>> /\ Stored(Head(local.todo)) = {}
                    THEN {blobs, blobs \cup {Head(local.todo)}} ELSE {blobs}
      /\ published' \in IF pc = "publish" /\ published[now] = None
                        THEN {published, [published EXCEPT ![now] = local.manifest]} ELSE {published}
      /\ memory' = IF pc = "persist" THEN local.manifest ELSE memory
      /\ staging' \in IF pc = "clean"
                      THEN {staging, NoStaging, [staging EXCEPT !.intact = Built(staging.json) = <<>>]}
                      ELSE {staging}
  BY DEF SyncFails, Return, hist, SyncPc
<1>2. CASE pc = "publish"
  <2>1. dir' = dir /\ blobs' = blobs /\ memory' = memory /\ staging' = staging BY <1>1, <1>2
  <2>2. published' \in {published, [published EXCEPT ![now] = local.manifest]} BY <1>1, <1>2
  <2> QED BY <1>1, <1>2, <2>1, <2>2, IdleIs, PublishedOrNot
<1>3. CASE pc # "publish"
  <2>1. Quiet
    <3>1. published' = published BY <1>1, <1>3
    <3> QED BY <1>1, <3>1 DEF Quiet
  <2>2. phase = "stop" /\ phase' = "stop" BY <1>1 DEF Inv, Places
  <2>3. dir' \in Files \cup {NoDir} /\ (dir' = left[now] \/ (dir' = NoDir /\ left[now] = Nothing))
    <3>1. dir = left[now] \/ (dir = NoDir /\ left[now] = Nothing) BY <2>2 DEF Inv, SyncInv
    <3>2. left[now] \in Files /\ left[now] # NoDir BY NoneIsNone DEF Inv, TypeOK, NoDir
    <3>3. CASE pc = "open" /\ dir = NoDir
      <4>1. dir' \in {NoDir, Nothing} BY <1>1, <3>3
      <4> QED BY <3>1, <3>2, <3>3, <4>1
    <3>4. CASE ~(pc = "open" /\ dir = NoDir)
      <4>1. dir' = dir BY <1>1, <3>4
      <4> QED BY <3>1, <3>2, <4>1
    <3> QED BY <3>3, <3>4
  <2>4. blobs \subseteq blobs'
    <3>1. blobs' \in {blobs, blobs \cup {Head(local.todo)}} BY <1>1
    <3> QED BY <3>1
  <2>5. staging' \in [json : Manifests \cup {None}, intact : BOOLEAN] /\ staging'.json \in {staging.json, None}
    <3>1. staging \in [json : Manifests \cup {None}, intact : BOOLEAN] BY DEF Inv, TypeOK
    <3>2. staging' \in {staging, NoStaging, [staging EXCEPT !.intact = Built(staging.json) = <<>>]}
      BY <1>1
    <3>3. (Built(staging.json) = <<>>) \in BOOLEAN OBVIOUS
    <3>4. CASE staging' = staging BY <3>1, <3>4
    <3>5. CASE staging' = NoStaging BY <3>5 DEF NoStaging
    <3>6. CASE staging' = [staging EXCEPT !.intact = Built(staging.json) = <<>>]
      <4> DEFINE b == Built(staging.json) = <<>>
      <4>1. b \in BOOLEAN /\ staging' = [staging EXCEPT !.intact = b] BY <3>6
      <4> HIDE DEF b
      <4> QED BY <3>1, <4>1
    <3> QED BY <3>2, <3>4, <3>5, <3>6
  <2>6. SyncInv' BY <1>1, <2>1, <2>2, <2>3, <2>5, SyncEnds, PcsAre
  <2>7. memory' \in Manifests \cup {None} /\ KnownInv'
    <3>1. CASE pc = "persist"
      <4>1. Synced(local.manifest) /\ memory' = local.manifest BY <1>1, <3>1 DEF Inv, SyncInv
      <4>2. local.manifest \in Manifests BY <4>1 DEF Synced, Keyed
      <4>3. (Bare' <=> Bare) /\ Assigned' = Assigned /\ Fitting' = Fitting BY <2>1, QuietFrame
      <4>4. Known(memory)' BY <2>1, <2>2, <4>1, <4>3 DEF Known, Synced, Quiet
      <4>5. Known(state)' BY <1>1, <2>1, <2>2, <4>3 DEF Inv, KnownInv, Known, Restored, Synced, Quiet
      <4>6. now \in ran => Bare \/ state # None BY <2>2 DEF Inv, KnownInv
      <4> QED BY <1>1, <2>1, <2>2, <4>1, <4>2, <4>3, <4>4, <4>5, <4>6 DEF KnownInv, Quiet
    <3>2. CASE pc # "persist"
      <4>1. memory' = memory BY <1>1, <3>2
      <4> QED BY <1>1, <2>1, <4>1, QuietKnown DEF Inv, TypeOK
    <3> QED BY <3>1, <3>2
  <2> QED BY <1>1, <2>1, <2>2, <2>3, <2>4, <2>5, <2>6, <2>7, IdleIs, SyncStep DEF Inv, TypeOK
<1> QED BY <1>2, <1>3

-----------------------------------------------------------------------------
(* The steps of a release *)

\* A step of a release, whole or failed.
LEMMA ReleaseStep ==
  ASSUME Inv, Quiet, UNCHANGED <<staging, blobs>>, phase = "synced", phase' \in {"synced", "done"},
         pc' \in ReleasePc \cup {"idle"}, phase' = "done" => pc' = "idle",
         local' \in {local, Idle}, dir' \in Files \cup {NoDir}, memory' \in {memory, None},
         state' \in {state, None}, KnownInv'
  PROVE  Inv'
<1>1. TypeOK' BY IdleIs DEF Inv, TypeOK, Quiet
<1>2. pc' \notin RestorePc \cup SyncPc BY PcsAre
<1>3. Places' BY <1>2, PcsAre DEF Inv, Places, Quiet
<1>4. Publications' BY QuietPublications DEF Inv
<1>5. staging.json = None BY DEF Inv, SyncInv
<1> QED BY <1>1, <1>2, <1>3, <1>4, <1>5, IdleStep

\* A release is called.
LEMMA CallReleaseStep == ASSUME Inv, CallRelease PROVE Inv'
<1>1. /\ Quiet /\ UNCHANGED <<phase, dir, memory, state, staging, blobs, local>>
      /\ phase = "synced" /\ pc' = "remove"
  BY DEF CallRelease, Goto, Quiet, known, cloud, hist
<1>2. KnownInv' BY <1>1, QuietKnown DEF Inv
<1>3. pc' \in ReleasePc BY <1>1 DEF ReleasePc
<1> QED BY <1>1, <1>2, <1>3, ReleaseStep DEF Inv, TypeOK

\* The workspace goes.
LEMMA RemoveWorkspaceStep == ASSUME Inv, RemoveWorkspace PROVE Inv'
<1>1. /\ Quiet /\ UNCHANGED <<phase, state, staging, blobs, local>> /\ pc = "remove" /\ pc' = "forget"
      /\ dir' = NoDir /\ memory' = None
  BY DEF RemoveWorkspace, Goto, Quiet, cloud, hist
<1>2. phase = "synced" BY <1>1 DEF Inv, Places, ReleasePc
<1>3. KnownInv' BY <1>1, QuietKnown DEF Inv
<1>4. pc' \in ReleasePc BY <1>1 DEF ReleasePc
<1> QED BY <1>1, <1>2, <1>3, <1>4, ReleaseStep

\* What is known of it goes.
LEMMA ForgetStateStep == ASSUME Inv, ForgetState PROVE Inv'
<1>1. /\ Quiet /\ UNCHANGED <<dir, memory, staging, blobs>> /\ pc = "forget" /\ pc' = "idle"
      /\ local' = Idle /\ state' = None /\ phase' = "done"
  BY DEF ForgetState, Return, Quiet, cloud, hist
<1>2. phase = "synced" /\ memory = None BY <1>1 DEF Inv, Places, KnownInv, ReleasePc
<1>3. KnownInv' BY <1>1, <1>2 DEF KnownInv, Known
<1> QED BY <1>1, <1>2, <1>3, ReleaseStep DEF Inv, TypeOK

\* A step of a release fails.
LEMMA ReleaseFailsStep == ASSUME Inv, ReleaseFails PROVE Inv'
<1>1. /\ Quiet /\ UNCHANGED <<phase, memory, state, staging, blobs>> /\ pc \in ReleasePc /\ pc' = "idle"
      /\ local' = Idle /\ dir' \in IF pc = "remove" /\ dir # NoDir THEN Partly(dir) ELSE {dir}
  BY DEF ReleaseFails, Return, Quiet, known, cloud, hist, ReleasePc
<1>2. phase = "synced" BY <1>1 DEF Inv, Places
<1>3. KnownInv' BY <1>1, QuietKnown DEF Inv
<1>4. dir' \in Files \cup {NoDir}
  <2>1. dir \in Files \cup {NoDir} BY DEF Inv, TypeOK
  <2>2. dir \in Files => Partly(dir) \subseteq Files BY FilesClosed DEF Partly
  <2> QED BY <1>1, <2>1, <2>2
<1> QED BY <1>1, <1>2, <1>3, <1>4, ReleaseStep

-----------------------------------------------------------------------------
(* Theorems *)

\* The invariant holds at the beginning.
LEMMA InitInv == ASSUME Init PROVE Inv
<1>1. 1 \in Assignment BY WorkspaceAssumption DEF Assignment
<1>2. TypeOK BY <1>1, IdleIs, FilesClosed DEF Init, TypeOK, NoStaging
<1>3. Places BY PcsAre DEF Init, Places
<1>4. \A r \in Assignment : published[r] = None BY DEF Init
<1>5. \A r \in Assignment : ~(r < 1) BY DEF Assignment
<1>6. Publications BY <1>4, <1>5 DEF Init, Publications
<1>7. KnownInv BY DEF Init, KnownInv, Known
<1>8. RestoreInv BY DEF Init, RestoreInv
<1>9. SyncInv BY DEF Init, SyncInv, NoStaging, SyncPc
<1> QED BY <1>2, <1>3, <1>6, <1>7, <1>8, <1>9 DEF Inv

\* Every step keeps it.
LEMMA NextInv == ASSUME Inv, [Next]_vars PROVE Inv'
<1>1. CASE Restore
  BY <1>1, CallRestoreStep, FetchStep, SealReplacedStep, MoveAwayStep, ActivateStep, ApplyQuotaStep,
     DropBackupStep, RecordRestoredStep, ExtractWorldStep, PrepareStep
  DEF Restore
<1>2. CASE Sync
  BY <1>2, CallSyncStep, OpenWorkspaceStep, LoadDescriptorStep, DraftStep, UploadStep, PublishStep,
     RecordSyncedStep, CleanUpStep
  DEF Sync
<1>3. CASE Release BY <1>3, CallReleaseStep, RemoveWorkspaceStep, ForgetStateStep DEF Release
<1>4. CASE Fault BY <1>4, RestoreFailsStep, SyncFailsStep, ReleaseFailsStep, CrashStep DEF Fault
<1>5. CASE Play BY <1>5, PlayStep
<1>6. CASE StopServer BY <1>6, StopServerStep
<1>7. CASE NextAssignment BY <1>7, NextAssignmentStep
<1>8. CASE UNCHANGED vars
  <2>1. /\ Quiet /\ UNCHANGED <<phase, pc, local, dir, memory, state, staging, blobs>>
    BY <1>8 DEF vars, Quiet
  <2>2. /\ Bare' <=> Bare
        /\ Assigned' = Assigned /\ Fitting' = Fitting /\ Wanted' = Wanted /\ Base' = Base
        /\ Expected(now)' = Expected(now)
    BY <2>1, QuietFrame
  <2>3. TypeOK' /\ Places' BY <2>1 DEF Inv, TypeOK, Places, Quiet
  <2>4. Publications' BY <2>1, QuietPublications DEF Inv
  <2>5. KnownInv' BY <2>1, QuietKnown DEF Inv, KnownInv
  <2>6. RestoreInv' BY <2>1, <2>2 DEF Inv, RestoreInv, Quiet
  <2>7. SyncInv' BY <2>1, <2>2 DEF Inv, SyncInv, Synced, Quiet
  <2> QED BY <2>3, <2>4, <2>5, <2>6, <2>7 DEF Inv
<1> QED BY <1>1, <1>2, <1>3, <1>4, <1>5, <1>6, <1>7, <1>8 DEF Next

\* Every manifest that is remembered, drafted or published is one of the
\* directory the server left, or the one that was restored.
THEOREM WorkspaceInvariant == Spec => []Inv
BY InitInv, NextInv, PTL DEF Spec

\* Every published revision is complete and restores to what the server left,
\* whatever failed, was cut or was repeated on the way (Manager.Sync,
\* buildManifest, validateManifest, extractArchive).
THEOREM PublishedRevisionsRestore == Spec => []PublishedRestores
<1>1. ASSUME Inv PROVE PublishedRestores
  <2> SUFFICES ASSUME NEW r \in Assignment, published[r] # None
               PROVE  LET m == published[r] IN
                      /\ Range(ManifestDescriptors(m)) \subseteq blobs
                      /\ ValidateManifest(m) \/ Oversized(m)
                      /\ LayerOf(m) \in {RestoredLayer(r)} \cup (IF r \in ran THEN {} ELSE {None})
                      /\ Extracted(m) = Kept(left[r], LayerOf(m))
    BY DEF PublishedRestores
  <2> DEFINE m == published[r]
             f == left[r]
  <2>1. /\ Packs(m, f) /\ Keyed(m, r) /\ LayerOf(m) \in Layers(r)
        /\ Range(ManifestDescriptors(m)) \subseteq blobs
    BY <1>1 DEF Inv, Publications
  <2>2. f \in Files BY <1>1 DEF Inv, TypeOK
  <2> HIDE DEF m, f
  <2>3. ValidateManifest(m) \/ Oversized(m) BY <2>1, <2>2, PacksValidates
  <2>4. Extracted(m) = Kept(f, LayerOf(m)) BY <2>1, <2>2, ExtractedIsKept
  <2> QED BY <2>1, <2>3, <2>4 DEF m, f, Layers
<1> QED BY <1>1, WorkspaceInvariant, PTL

\* A start that succeeds has the assigned revision under the assigned layer in
\* the directory, and nothing of an earlier attempt (Manager.Restore,
\* replaceWorkspaceWithBackup, restoreInitialWorld).
THEOREM RestoreIsWhole == Spec => RestoredIsWhole
<1>1. ASSUME Inv, [Next]_vars PROVE [phase = "start" /\ phase' = "active" => dir = Expected(now)]_vars
  <2> SUFFICES ASSUME phase = "start", phase' = "active" PROVE dir = Expected(now)
    OBVIOUS
  <2>1. Prepare
    BY <1>1 DEF Next, Restore, Sync, Release, Fault, CallRestore, Fetch, SealReplaced, MoveAway,
       Activate, ApplyQuota, DropBackup, RecordRestored, ExtractWorld, CallSync, OpenWorkspace,
       LoadDescriptor, Draft, Upload, Publish, RecordSynced, CleanUp, CallRelease, RemoveWorkspace,
       ForgetState, RestoreFails, SyncFails, ReleaseFails, Crash, Play, StopServer, NextAssignment, vars
  <2>2. pc = "prepare" BY <2>1 DEF Prepare
  <2> QED BY <1>1, <2>2 DEF Inv, RestoreInv
<1> QED BY <1>1, WorkspaceInvariant, PTL DEF Spec, RestoredIsWhole
=============================================================================
