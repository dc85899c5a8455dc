----------------------------- MODULE Packaging -----------------------------
(***************************************************************************)
(* The output rules and the deterministic tar.zst of reviewed-builder.mjs: *)
(* which paths and sizes a package may have, how it is written and how it  *)
(* is read back before anything is uploaded.                               *)
(*                                                                         *)
(* A path is the sequence of its segments.  A segment has its text, its    *)
(* length in characters and in bytes, and the text a reader that stops at  *)
(* a NUL byte sees.                                                        *)
(* A file has its content, its size and its mode; files is a function from *)
(* paths.  Sizes are in the units of an instance, and so are the limits.   *)
(***************************************************************************)
EXTENDS Naturals, Sequences, FiniteSetsExt

CONSTANTS
    Forbidden(_),       \* forbiddenOutputPath
    MaxPathLen,         \* longest output path
    MaxFiles,           \* PRODUCTION_OUTPUT_LIMITS.maxFiles
    MaxFileBytes, MaxSandboxBytes, MaxPackageInputBytes,
    MaxPackageTarBytes, MaxPackageArchiveBytes,
    TarBlock,           \* 512
    NameLimit,          \* 100, the tar name field
    PrefixLimit,        \* 155, the tar prefix field
    ZstdBlock           \* RAW_ZSTD_BLOCK_BYTES

\* How the limits in production-limits.mjs relate: a package of any files within
\* the input limits, each padded to whole blocks, fits the tar limit, and its
\* block headers fit the archive limit.
ASSUME LimitsAssumption ==
    /\ {MaxPathLen, MaxFiles, MaxFileBytes, MaxSandboxBytes, MaxPackageInputBytes,
        MaxPackageTarBytes, MaxPackageArchiveBytes, NameLimit, PrefixLimit} \subseteq Nat
    /\ TarBlock \in Nat \ {0} /\ ZstdBlock \in Nat \ {0}
    /\ MaxPackageInputBytes + MaxFiles * (2 * TarBlock - 1) + 2 * TarBlock
          <= MaxPackageTarBytes
    /\ 9 + MaxPackageTarBytes + 3 * ((MaxPackageTarBytes + ZstdBlock - 1) \div ZstdBlock)
          <= MaxPackageArchiveBytes

Segment(text) == [text |-> text, chars |-> 1, bytes |-> 1, cut |-> text]
RuntimeJson == <<Segment(".xmcl"), Segment("runtime.json")>>
LaunchSh    == <<Segment(".xmcl"), Segment("launch.sh")>>
Generated   == {RuntimeJson, LaunchSh}

\* Segments are joined with slashes.
CharLength(path) == SumFunction([i \in DOMAIN path |-> path[i].chars]) + Len(path) - 1
ByteLength(path) == SumFunction([i \in DOMAIN path |-> path[i].bytes]) + Len(path) - 1

SafeOutputPath(path) ==
    /\ path # <<>> /\ CharLength(path) <= MaxPathLen
    /\ \A i \in DOMAIN path : path[i].text \notin {"", ".", ".."}

ValidOutputMode(mode) == mode \in {644, 755}

Sizes(files) == [p \in DOMAIN files |-> files[p].size]

OutputSizeWithinLimit(sizes, maximum) ==
    /\ \A p \in DOMAIN sizes : sizes[p] <= MaxFileBytes
    /\ SumFunction(sizes) <= maximum

ValidateOutputFiles(files) ==
    /\ Cardinality(DOMAIN files) \in 2 .. MaxFiles
    /\ \A p \in DOMAIN files :
          /\ SafeOutputPath(p)
          /\ p \in Generated \/ ~Forbidden(p)
          /\ ValidOutputMode(files[p].mode)
    /\ Generated \subseteq DOMAIN files /\ files[LaunchSh].mode = 755
    /\ OutputSizeWithinLimit(Sizes(files), MaxPackageInputBytes)
-----------------------------------------------------------------------------
(* Writing *)

\* splitTarPath tries the shortest prefix first.
Splits(path) == {i \in 1 .. Len(path) - 1 :
    /\ ByteLength(SubSeq(path, 1, i)) <= PrefixLimit
    /\ ByteLength(SubSeq(path, i + 1, Len(path))) <= NameLimit}

CanSplit(path) == ByteLength(path) <= NameLimit \/ Splits(path) # {}

SplitTarPath(path) ==
    IF ByteLength(path) <= NameLimit THEN [name |-> path, prefix |-> <<>>]
    ELSE LET i == Min(Splits(path))
         IN  [name |-> SubSeq(path, i + 1, Len(path)), prefix |-> SubSeq(path, 1, i)]

\* Mutant: a size of whole blocks is padded with one more.
PaddedAlways(size) == TarBlock + size + TarBlock - (size % TarBlock)

Padded(size) == TarBlock + size + ((TarBlock - (size % TarBlock)) % TarBlock)

\* One header per file, written in path order, then two empty blocks.
PackageTar(files) ==
    [headers |-> {[at |-> SplitTarPath(p), file |-> files[p]] : p \in DOMAIN files},
     size |-> SumFunction([p \in DOMAIN files |-> Padded(files[p].size)]) + 2 * TarBlock]

TarFits(tar) == tar.size <= MaxPackageTarBytes

\* The frame: the tar's size, then raw blocks, the last one marked.
RawZstd(tar) ==
    LET count == (tar.size + ZstdBlock - 1) \div ZstdBlock
        Size(i) == Min({ZstdBlock, tar.size - (i - 1) * ZstdBlock})
    IN  [tar |-> tar, declared |-> tar.size,
         blocks |-> [i \in 1 .. count |->
                       [size |-> Size(i), last |-> (i - 1) * ZstdBlock + Size(i) = tar.size]]]

BlockBytes(archive) == [i \in DOMAIN archive.blocks |-> archive.blocks[i].size]
ArchiveBytes(archive) == 9 + SumFunction(BlockBytes(archive)) + 3 * Len(archive.blocks)
ArchiveFits(archive) == ArchiveBytes(archive) <= MaxPackageArchiveBytes
-----------------------------------------------------------------------------
(* Reading back *)

\* The block loop ends at the first last block, which must end the frame.
ReadsWhole(archive) ==
    /\ archive.blocks # <<>> /\ ArchiveFits(archive)
    /\ \A i \in DOMAIN archive.blocks :
          /\ archive.blocks[i].last <=> i = Len(archive.blocks)
          /\ archive.blocks[i].size <= ZstdBlock
    /\ SumFunction(BlockBytes(archive)) = archive.declared

\* A text field ends at its first NUL.
TarText(path) ==
    LET nuls == {i \in DOMAIN path : path[i].cut # path[i].text}
    IN  IF nuls = {} THEN path
        ELSE Append(SubSeq(path, 1, Min(nuls) - 1), Segment(path[Min(nuls)].cut))

ReadPath(header) == TarText(header.at.prefix) \o TarText(header.at.name)

CanUnpack(archive) ==
    /\ ReadsWhole(archive)
    /\ \A h \in archive.tar.headers :
          /\ SafeOutputPath(ReadPath(h)) /\ ValidOutputMode(h.file.mode)
          /\ \A g \in archive.tar.headers : ReadPath(g) = ReadPath(h) => g = h

Unpack(archive) ==
    [p \in {ReadPath(h) : h \in archive.tar.headers} |->
        (CHOOSE h \in archive.tar.headers : ReadPath(h) = p).file]

\* Mutant: the entries are only counted.
ValidateCount(archive, entries) ==
    CanUnpack(archive) /\ Cardinality(DOMAIN Unpack(archive)) = Cardinality(DOMAIN entries)

\* The archive must read back as the entries that describe it, with a launcher
\* that is the one its runtime description asks for.
ValidateImmutableContent(archive, entries) ==
    LET headers == archive.tar.headers
    IN  /\ CanUnpack(archive)
        /\ Cardinality(headers) = Cardinality(DOMAIN entries)
        /\ \A p \in DOMAIN entries : \E h \in headers : ReadPath(h) = p /\ h.file = entries[p]
        /\ \E runtime, launch \in headers :
              /\ ReadPath(runtime) = RuntimeJson /\ ReadPath(launch) = LaunchSh
              /\ launch.file.content.id = runtime.file.content.id
=============================================================================
