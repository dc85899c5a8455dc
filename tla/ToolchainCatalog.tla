-------------------------- MODULE ToolchainCatalog --------------------------
(***************************************************************************)
(* toolchain-catalog.mjs and update_toolchain_catalog.mjs: generating the  *)
(* lock of reviewed toolchains from upstream metadata, and the rules by    *)
(* which reviewed-builder.mjs later accepts it.                            *)
(*                                                                         *)
(* Every download is a step that may be answered, fail in transport and be *)
(* tried again, or be refused for good.  An upstream is what the metadata  *)
(* servers say: the Java a Minecraft version needs, the libraries of an    *)
(* installer, the coordinate of the mappings.  Coordinates are numbers in  *)
(* their string order.                                                     *)
(***************************************************************************)
EXTENDS Lists

CONSTANTS
    Candidate,             \* SUPPORTED_TOOLCHAIN_CANDIDATES, a sequence
    Upstream,              \* what the upstream servers may say
    RuntimeJava,           \* the Java requirements the runtime lock selects
    RuntimeRevision,       \* the digest of the runtime lock
    PrimaryCoordinate(_),  \* primaryCoordinate of a tuple
    ServerCoordinate(_),   \* com.mojang:minecraft-server:<version>:server
    MaxAttempts            \* tries of one download, 3

\* What tells candidates, and toolchains, apart.
Tuple(t) == <<t.mc, t.kind, t.version, t.java>>

ASSUME CatalogAssumption ==
    /\ Candidate # <<>> /\ MaxAttempts \in Nat \ {0}
    /\ \A i, j \in DOMAIN Candidate : Candidate[i] = Candidate[j] => i = j
    /\ Candidate \in Seq(Range(Candidate))
    /\ \A c \in Range(Candidate) : {PrimaryCoordinate(Tuple(c)), ServerCoordinate(Tuple(c))} \subseteq Nat
    /\ \A u \in Upstream : \A c \in Range(Candidate) : c.kind = "neoforge" =>
          /\ u.libraries[c.version] \in Seq([coordinate : Nat, url : STRING])
          /\ u.mappings[c.version] \in Nat

VARIABLES
    upstream,  \* the upstream this behaviour meets
    gen,       \* the generator: where it is, the download it is at, its tries
    lock       \* toolchain-catalog.lock.json

catalogVars == <<upstream, gen, lock>>

NoLock   == [state |-> "none", revision |-> RuntimeRevision, toolchains |-> {}]
TornLock == [NoLock EXCEPT !.state = "torn"]

CatalogInit ==
    /\ upstream \in Upstream
    /\ gen = [pc |-> "idle", at |-> 1, attempt |-> 0]
    /\ lock = NoLock
-----------------------------------------------------------------------------
(* The order of artifacts *)

\* sortArtifacts orders by coordinate and role, and is stable.
Precedes(artifacts, i, j) ==
    LET a == artifacts[i]
        b == artifacts[j]
    IN  \/ a.coordinate < b.coordinate
        \/ a.coordinate = b.coordinate /\ a.role = "dependency" /\ b.role = "primary"
        \/ a.coordinate = b.coordinate /\ a.role = b.role /\ i <= j

SortArtifacts(artifacts) ==
    LET at == DOMAIN artifacts
        order == Arrange([i \in at |-> Cardinality({j \in at : Precedes(artifacts, j, i)})], at)
    IN  [k \in DOMAIN order |-> artifacts[order[k]]]
-----------------------------------------------------------------------------
(* What is downloaded *)

Artifact(role, coordinate, url) == [role |-> role, coordinate |-> coordinate, url |-> url]

\* Mutant: a library both profiles name is kept twice.
LibrariesRepeated(c) ==
    LET all == upstream.libraries[c.version]
    IN  [i \in DOMAIN all |-> Artifact("dependency", all[i].coordinate, all[i].url)]

\* resolveNeoForgeDependencies: libraries of the installer's two profiles, each
\* coordinate and url once, then the mappings.
Libraries(c) ==
    LET all == upstream.libraries[c.version]
        kept == Ascending({i \in DOMAIN all : \A j \in 1 .. i - 1 : all[j] # all[i]})
    IN  [k \in DOMAIN kept |->
           Artifact("dependency", all[kept[k]].coordinate, all[kept[k]].url)]

Dependencies(c) ==
    IF c.kind # "neoforge" THEN <<>>
    ELSE Libraries(c) \o <<Artifact("dependency", upstream.mappings[c.version], "mappings")>>

\* The primary artifact, the Minecraft server, and the dependencies.
Artifacts(c) ==
    <<Artifact("primary", PrimaryCoordinate(Tuple(c)), "primary"),
      Artifact("dependency", ServerCoordinate(Tuple(c)), "server")>> \o Dependencies(c)

\* loadMinecraftMetadata asks once per Minecraft version, for the first
\* candidate that has it.
FirstOfVersion(i) == \A j \in 1 .. i - 1 : Candidate[j].mc # Candidate[i].mc
VersionFetches == Cardinality({i \in DOMAIN Candidate : FirstOfVersion(i)})

\* resolvePrimaryArtifact: metadata and a checksum, which Quilt's metadata carries.
PrimaryFetches(c) == IF c.kind = "quilt" THEN 1 ELSE 2

CandidateFetches(c) == PrimaryFetches(c) + Len(Artifacts(c))

\* The downloads of a generation, the version manifest first.
Fetches == 1 + VersionFetches
           + SumFunction([i \in DOMAIN Candidate |-> CandidateFetches(Candidate[i])])
-----------------------------------------------------------------------------
(* The generator *)

VerifyMinecraftJava(c) == upstream.java[c.mc] = c.java
JreFor(java) == [id |-> java, revision |-> RuntimeRevision]

\* parseReviewedRuntimeCatalog, validateCandidates, verifyMinecraftJava and
\* jreFor: what ends the generation whatever is downloaded.
Generatable == \A i \in DOMAIN Candidate :
    /\ FirstOfVersion(i) => VerifyMinecraftJava(Candidate[i])
    /\ Candidate[i].java \in RuntimeJava

StartGeneration ==
    /\ gen.pc = "idle"
    /\ gen' = [gen EXCEPT !.pc = IF Generatable THEN "fetch" ELSE "failed"]
    /\ UNCHANGED <<upstream, lock>>

\* downloadOnce returns bytes that carry the checksum upstream published.
Fetched ==
    /\ gen.pc = "fetch"
    /\ gen' = [gen EXCEPT !.at = @ + 1, !.attempt = 0,
                          !.pc = IF gen.at = Fetches THEN "write" ELSE "fetch"]
    /\ UNCHANGED <<upstream, lock>>

\* A transport error or a timeout: the download is tried again, or given up.
TransportFails ==
    /\ gen.pc = "fetch"
    /\ gen' = IF gen.attempt < MaxAttempts - 1 THEN [gen EXCEPT !.attempt = @ + 1]
              ELSE [gen EXCEPT !.pc = "failed"]
    /\ UNCHANGED <<upstream, lock>>

\* A size or a checksum that does not match is not tried again.  (A redirect
\* makes fetch throw: it is a TransportFails.)
AnswerRejected ==
    /\ gen.pc = "fetch"
    /\ gen' = [gen EXCEPT !.pc = "failed"]
    /\ UNCHANGED <<upstream, lock>>

Toolchain(c) ==
    [mc |-> c.mc, kind |-> c.kind, version |-> c.version, java |-> c.java,
     jre |-> JreFor(c.java),
     artifacts |-> SortArtifacts(Artifacts(c))]

GeneratedLock ==
    [state |-> "written", revision |-> RuntimeRevision,
     toolchains |-> {Toolchain(Candidate[i]) : i \in DOMAIN Candidate}]

\* The artifacts with a role, and those at a coordinate.
Primaries(t) == {i \in DOMAIN t.artifacts : t.artifacts[i].role = "primary"}
AtCoordinate(t, coordinate) == {i \in DOMAIN t.artifacts : t.artifacts[i].coordinate = coordinate}

\* One primary artifact, at the coordinate of the loader.
OnePrimary(t) == \E i \in Primaries(t) :
    Primaries(t) = {i} /\ t.artifacts[i].coordinate = PrimaryCoordinate(Tuple(t))

ValidateToolchain(t) ==
    /\ Len(t.artifacts) >= 2
    /\ t.jre = JreFor(t.java) /\ t.java \in RuntimeJava
    /\ OnePrimary(t)
    /\ \E i \in DOMAIN t.artifacts : AtCoordinate(t, ServerCoordinate(Tuple(t))) = {i}
    /\ SortArtifacts(t.artifacts) = t.artifacts
    /\ t.kind = "neoforge" => Len(t.artifacts) >= 3

ValidateToolchainCatalog(l) ==
    /\ l.revision = RuntimeRevision
    /\ \A t \in l.toolchains : ValidateToolchain(t)
    /\ \A t, u \in l.toolchains : Tuple(t) = Tuple(u) => t = u
    /\ {Tuple(t) : t \in l.toolchains} = {Tuple(Candidate[i]) : i \in DOMAIN Candidate}

\* The script writes the lock in place: killed in the middle, it leaves half.
WriteLock ==
    /\ gen.pc = "write"
    /\ IF ValidateToolchainCatalog(GeneratedLock)
       THEN lock' \in {GeneratedLock, TornLock} /\ gen' = [gen EXCEPT !.pc = "done"]
       ELSE UNCHANGED lock /\ gen' = [gen EXCEPT !.pc = "failed"]
    /\ UNCHANGED upstream

CatalogNext == StartGeneration \/ Fetched \/ TransportFails \/ AnswerRejected \/ WriteLock
-----------------------------------------------------------------------------
(* The reader in the compiler service *)

ParseToolchain(t) ==
    /\ Len(t.artifacts) >= 1
    /\ OnePrimary(t)
    /\ \A i, j \in DOMAIN t.artifacts :
          t.artifacts[i].coordinate = t.artifacts[j].coordinate => i = j

\* parseCatalog: the whole lock is read, other loader families included.
ParseCatalog(l) ==
    /\ l.state = "written" /\ l.toolchains # {}
    /\ \A t \in l.toolchains : ParseToolchain(t) /\ t.jre.revision = l.revision
    /\ \A t, u \in l.toolchains : Tuple(t) = Tuple(u) => t = u

\* ReviewedToolchainCatalog with supportedFamilies ["neoforge"].
Reviewed(l) == IF ParseCatalog(l) THEN {t \in l.toolchains : t.kind = "neoforge"} ELSE {}

\* Do the installer's profiles name every coordinate under one url, and leave
\* the coordinates of the mappings, the server and the installer alone?
OneUrlPerCoordinate(c) ==
    LET all == upstream.libraries[c.version]
        used == {all[i].coordinate : i \in DOMAIN all}
    IN  /\ \A i, j \in DOMAIN all : all[i].coordinate = all[j].coordinate
                                        => all[i].url = all[j].url
        /\ used \cap {upstream.mappings[c.version], PrimaryCoordinate(Tuple(c)), ServerCoordinate(Tuple(c))} = {}
        /\ upstream.mappings[c.version] \notin {PrimaryCoordinate(Tuple(c)), ServerCoordinate(Tuple(c))}

\* A lock the generator wrote whole is one the service accepts, unless an
\* installer names a coordinate twice: the generator keeps both, the service
\* refuses the catalogue.
LockIsReviewable ==
    /\ lock.state = "written"
    /\ \A i \in DOMAIN Candidate :
          Candidate[i].kind = "neoforge" => OneUrlPerCoordinate(Candidate[i])
    => ParseCatalog(lock)
=============================================================================
