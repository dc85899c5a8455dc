----------------------------- MODULE MCBuildHost -----------------------------
(* BuildHost on a small catalogue, root, bundle and installer, for TLC. *)
EXTENDS BuildHost, TLC

-----------------------------------------------------------------------------
(* The catalogue: two loaders on one Minecraft version *)

Java21 == "java-runtime-delta-21"
MCCandidate == <<
    [mc |-> "1.21.1", kind |-> "neoforge", version |-> "21.1.249", java |-> Java21],
    [mc |-> "1.21.1", kind |-> "quilt", version |-> "0.29.2", java |-> Java21]>>

MCServerCoordinate(c) == 1
MCPrimaryCoordinate(c) == 3

Lib(coordinate, url) == [coordinate |-> coordinate, url |-> url]
MCUpstream ==
    {[java |-> [mc \in {"1.21.1"} |-> java],
      libraries |-> [v \in {"21.1.249"} |-> libraries],
      mappings |-> [v \in {"21.1.249"} |-> mappings]] :
        java \in {Java21, "java-runtime-gamma-17"},
        libraries \in {<<Lib(4, "u1"), Lib(4, "u1")>>, <<Lib(4, "u1"), Lib(4, "u2")>>},
        mappings \in {2, 4}}
-----------------------------------------------------------------------------
(* The Java root *)

Dir(p)           == [path |-> p, type |-> "directory", parent |-> "", target |-> "", size |-> 0]
File(p, d, n)    == [path |-> p, type |-> "file", parent |-> d, target |-> "", size |-> n]
Symlink(p, d, t) == [path |-> p, type |-> "link", parent |-> d, target |-> t, size |-> 0]

MCResolution == {
    {Dir("bin"), File("bin/keytool", "bin", 1), File("release", "", 1), Symlink("tool", "bin", "bin/keytool")},
    {Dir("bin"), File("bin/java", "bin", 1), Symlink("java", "", "nowhere")},
    {Dir("bin"), File("bin/java", "bin", 1), Symlink("java", "", "jre"), Symlink("jre", "", "bin/java")},
    {Dir("bin"), File("bin/java", "bin", 1), Symlink("java", "", "jre"), Symlink("jre", "", "java")},
    {Dir("bin"), File("bin/java", "bin", 1), Symlink("java", "", "outside")},
    {File("bin/java", "bin", 1)},
    {Dir("bin"), File("bin/java", "bin", 3)}}
-----------------------------------------------------------------------------
(* Paths *)

Order == <<".xmcl", "A.jar", "a.jar", "artifacts.json", "b.jar", "bundle.json", "config",
           "instance", "launch.sh", "libraries", "loader.json", "long", "mods", "mods.json",
           "resolved", "run.sh", "runtime.json", "server.jar", "version.json", "wide", "x", "y", "z">>
RankOf == [t \in {Order[i] : i \in DOMAIN Order} |-> CHOOSE i \in DOMAIN Order : Order[i] = t]
Rank(s) == RankOf[s.text]

MCBefore(p, q) == \E i \in 1 .. Len(q) :
    /\ SubSeq(p, 1, i - 1) = SubSeq(q, 1, i - 1)
    /\ i > Len(p) \/ Rank(p[i]) < Rank(q[i])

MCForbidden(path) == path[Len(path)].text \in {"java", "launch.sh", "run.sh"}

MCFold(path) == [i \in DOMAIN path |->
    IF path[i].text = "A.jar" THEN Segment("a.jar") ELSE path[i]]
-----------------------------------------------------------------------------
(* Bundles *)

Compat(revision) == [mc |-> "1.21.1", kind |-> "neoforge", version |-> "21.1.249",
                     java |-> Java21, revision |-> revision]

Config(s) == InstancePath(<<Segment("config"), s>>)
X    == Segment("x")
Long == [text |-> "long", chars |-> 3, bytes |-> 6, cut |-> "long"]
Wide == [text |-> "wide", chars |-> 3, bytes |-> 7, cut |-> "wide"]
Nul  == [text |-> "y", chars |-> 1, bytes |-> 1, cut |-> ""]
Cut  == [text |-> "z", chars |-> 1, bytes |-> 1, cut |-> "x"]
Local(name) == ModPath(Segment(name))

Content(id) == [origin |-> "bundle", id |-> id]
Rec(path, id, size) == [path |-> path, content |-> Content(id), size |-> size,
                        packed |-> 1, sound |-> TRUE]
Listed(r) == [path |-> r.path, content |-> r.content]

\* The four descriptions, after the instance files in path order.
Described == <<Rec(Resolved("artifacts.json"), "r", 0), Rec(Resolved("loader.json"), "r", 0),
               Rec(Resolved("mods.json"), "r", 0), Rec(Resolved("version.json"), "r", 0)>>
ZipOf(records) == <<Rec(BundleJson, "m", 0)>> \o records \o Described

Remote(path, id, size) == [path |-> path, content |-> [origin |-> "mod", id |-> id], size |-> size]
Declare(source, m) == [source |-> source, path |-> m.path, content |-> m.content]

FilesOf(records) == [i \in DOMAIN (records \o Described) |-> Listed((records \o Described)[i])]
InstanceOf(records) == [i \in DOMAIN records |-> Listed(records[i])]

Made(zipped, listed, declared, mods, compat, described, frozen) ==
    [bundle |-> [zip |-> ZipOf(zipped),
                 manifest |-> [files |-> FilesOf(listed), compat |-> compat],
                 described |-> described,
                 artifacts |-> InstanceOf(listed),
                 mods |-> declared],
     frozen |-> [compat |-> frozen, mods |-> mods]]

\* A bundle as the launcher writes it.
Honest(locals, records, mods) ==
    Made(records \o locals, records \o locals,
         [i \in DOMAIN locals |-> Declare("local", locals[i])]
           \o [i \in DOMAIN mods |-> Declare("remote", mods[i])],
         mods, Compat("r1"), Compat("r1"), Compat("r1"))

OtherJava(java) == [Compat("r1") EXCEPT !.java = java]

A1 == Rec(Local("a.jar"), "a", 1)
A2 == Rec(Local("a.jar"), "other", 1)
UpperA == Rec(Local("A.jar"), "upper", 1)
C1 == Rec(Config(X), "c", 2)
B  == Remote(Local("b.jar"), "b", 1)
BigA == Remote(Local("A.jar"), "A", 1)

HonestInputs ==
    {Honest(locals, <<C1>>, mods) : locals \in {<<>>, <<A1>>, <<UpperA>>}, mods \in {<<B>>, <<BigA, B>>}}
    \cup
    {Honest(<<>>, records, <<>>) :
        records \in {<<Rec(Config(Long), "l", 1)>>, <<Rec(Config(Wide), "w", 1)>>, <<Rec(Config(Nul), "n", 1)>>,
                     <<Rec(Config(Cut), "n", 1)>>, <<Rec(Config(X), "c", 5)>>,
                     <<Rec(Config(X), "c", 4), Rec(Config(Segment("y")), "d", 4)>>}}

\* Every small disagreement of records, manifest, declarations and frozen mods.
Declarations == {<<>>, <<Declare("local", A1)>>, <<Declare("remote", B)>>,
    <<Declare("local", A1), Declare("remote", B)>>, <<Declare("local", A1), Declare("local", A1)>>,
    <<Declare("remote", B), Declare("remote", B)>>, <<Declare("remote", A1), Declare("remote", B)>>,
    <<Declare("local", A2), Declare("remote", B)>>}

MixedInputs ==
    {Made(zipped, listed, declared, mods, Compat("r1"), Compat("r1"), Compat("r1")) :
        zipped \in {<<>>, <<A1>>, <<A2>>}, listed \in {<<>>, <<A1>>},
        declared \in Declarations, mods \in {<<>>, <<B>>, <<B, B>>, <<Listed(A1) @@ [size |-> 1]>>}}

StaleInputs ==
    {Made(<<C1>>, <<C1>>, <<>>, <<>>, Compat(m), Compat(d), Compat(f)) :
        m \in {"r1", "r2"}, d \in {"r1", "r2"}, f \in {"r1", "r2"}}
    \cup
    {Made(<<C1>>, <<C1>>, <<>>, <<>>, OtherJava(java), OtherJava(java), OtherJava(frozen)) :
        java \in {Java21, "java-runtime-gamma-17"}, frozen \in {NoJava, Java21}}

MCInput == HonestInputs \cup MixedInputs \cup StaleInputs
-----------------------------------------------------------------------------
(* Installers *)

Out(id, size, mode) == [content |-> [origin |-> "installer", id |-> id], size |-> size,
                        mode |-> mode, regular |-> TRUE]
ServerJar == <<Segment("libraries"), Segment("server.jar")>> :> Out("server", 2, 755)
RunSh     == <<Segment("run.sh")>> :> Out("run", 1, 755)

MCInstallerOutput == {
    ServerJar @@ RunSh,
    ServerJar @@ (Tail(Local("a.jar")) :> Out("a", 1, 644)),
    ServerJar @@ (Tail(Config(X)) :> Out("x", 1, 644)),
    ServerJar @@ (RuntimeJson :> Out("rt", 1, 644)),
    ServerJar @@ (<<Segment("x")>> :> [Out("x", 1, 644) EXCEPT !.regular = FALSE])}
=============================================================================
