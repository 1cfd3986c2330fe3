--------------------------- MODULE RawtilesWriter ---------------------------
(***************************************************************************)
(* The pack writer of slippypack-core: the calls of the TileWriter trait   *)
(* that collect a pack (begin_pack, register_byte_source, add_extension,   *)
(* add_tile_ref) and `finalize`, which sorts what was collected, plans the *)
(* whole file layout in memory and only then streams it out.               *)
(*                                                                         *)
(* `finalize` is modelled loop iteration by loop iteration, because what   *)
(* makes the writer correct is a relation between its loops: the offset    *)
(* the planning loop computes for a tile must be the stream position the   *)
(* output loop has reached when it writes that tile, several loops and     *)
(* several failure points later.                                           *)
(*                                                                         *)
(* Abstractions: a tile's bytes and an extension's payload are names with  *)
(* a length (and, for payloads, a rank in byte order); header fields that  *)
(* are copied unchanged from the metadata are left out; an output error is *)
(* raised before the chunk it belongs to.  u64 arithmetic is unbounded:    *)
(* every length that reaches the planner was narrowed to u32 first.        *)
(***************************************************************************)
EXTENDS Integers, Sequences

CONSTANTS
  Keys,        \* tile keys [z, x, y] callers may pass to add_tile_ref
  Bytes,       \* names of tile byte strings
  ByteLen,     \* their lengths
  Tags,        \* extension tags, as unsigned big-endian numbers
  Payloads,    \* extension payloads, numbered in byte order
  PayloadLen,  \* their lengths
  SourceIds,   \* source ids callers may put in TileContent::External
  Metas,       \* metadata callers may pass to begin_pack
  U32Max,      \* u32::MAX, scaled down for model checking
  MaxTiles,    \* bound: add_tile_ref calls that succeed
  MaxExts,     \* bound: add_extension calls that succeed
  MaxSources   \* bound: registered byte sources

HeaderSize == 292        \* HEADER_BASE_SIZE
EntrySize  == 20         \* INDEX_ENTRY_SIZE
SectionHeaderSize == 8   \* SECTION_HEADER_SIZE
CrcSize    == 4
ZoomOffsetsCount == 24   \* ZOOM_OFFSETS_COUNT

Key == [z : Nat, x : Nat, y : Nat]
Meta == [uuid : Nat, parent : BOOLEAN, dim : Nat, zmin : Nat, zmax : Nat]

ASSUME KeysAssumption == Keys \subseteq Key
ASSUME BytesAssumption == ByteLen \in [Bytes -> Nat]
ASSUME ExtensionsAssumption ==
  Tags \subseteq Nat /\ Payloads \subseteq Nat /\ PayloadLen \in [Payloads -> Nat]
ASSUME CallersAssumption == SourceIds \subseteq Nat /\ Metas \subseteq Meta
ASSUME BoundsAssumption ==
  /\ U32Max \in Nat
  /\ MaxTiles \in Nat /\ MaxExts \in Nat /\ MaxSources \in Nat

(* TileContent: bytes held inline, or a range of a registered source. *)
Contents ==
  [kind : {"Inline"}, source : {0}, bytes : Bytes]
    \cup [kind : {"External"}, source : SourceIds, bytes : Bytes]
Tiles == [key : Keys, content : Contents]
Extensions == [tag : Tags, payload : Payloads]

TileLen(t) == ByteLen[t.content.bytes]

(* Mutant: rounds down. *)
AlignDown(v) == v - (v % 4)

AlignUp(v) == IF v % 4 = 0 THEN v ELSE v + (4 - (v % 4))

KeyLess(a, b) ==
  \/ a.z < b.z
  \/ a.z = b.z /\ a.x < b.x
  \/ a.z = b.z /\ a.x = b.x /\ a.y < b.y

ExtLeq(a, b) ==
  \/ a.tag < b.tag
  \/ a.tag = b.tag /\ a.payload <= b.payload

(* Length of one serialised section: tag, length, payload, zero padding. *)
SectionLen(e) == SectionHeaderSize + AlignUp(PayloadLen[e.payload])

(* The rearrangements of a sequence, as sort_by_key and sort_by see them. *)
Rearrangements(n) == {p \in [1..n -> 1..n] : \A i, j \in 1..n : p[i] = p[j] => i = j}
Permuted(s, p) == [i \in 1..Len(s) |-> s[p[i]]]

(* Mutant: the extension sort is gone. *)
Unsorted(s) == TRUE

KeySorted(s) == \A i, j \in 1..Len(s) : i < j => KeyLess(s[i].key, s[j].key)
ExtSorted(s) == \A i, j \in 1..Len(s) : i < j => ExtLeq(s[i], s[j])

NoZoom == [offset |-> 0, count |-> 0]   \* ZoomOffset::default()

VARIABLES
  pc,        \* where the writer is: NotBegun, Building, or a stage of finalize
  result,    \* what the last call returned, or will return once it ends
  meta,      \* BuildingState.metadata
  keysSeen,  \* BuildingState.tile_keys_seen
  tiles,     \* BuildingState.tiles, sorted in place by finalize
  exts,      \* BuildingState.extensions, sorted in place by finalize
  sources,   \* byte_sources.len()
  next,      \* index of the element the current loop of finalize handles next
  cursor,    \* `cursor` of the layout plan
  offsets,   \* tile_offsets
  extOffset, \* extensions_offset
  zoomDir,   \* zoom_offsets
  pos,       \* bytes the output has accepted
  crc,       \* bytes the CRC has absorbed
  entries,   \* index entries in the output
  blob,      \* tile bytes in the output, each with its position
  sections   \* extension sections in the output, each with its position

callVars == <<meta, keysSeen, tiles, exts, sources>>
planVars == <<cursor, offsets, extOffset, zoomDir>>
outVars  == <<pos, crc, entries, blob, sections>>
vars == <<pc, result, callVars, next, planVars, outVars>>

NoMeta == [uuid |-> 0, parent |-> FALSE, dim |-> 0, zmin |-> 0, zmax |-> 0]

Init ==
  /\ pc = "NotBegun" /\ result = "Ok"
  /\ meta = NoMeta /\ keysSeen = {} /\ tiles = <<>> /\ exts = <<>> /\ sources = 0
  /\ next = 1
  /\ cursor = 0 /\ offsets = <<>> /\ extOffset = 0
  /\ zoomDir = [z \in 0..(ZoomOffsetsCount - 1) |-> NoZoom]
  /\ pos = 0 /\ crc = 0 /\ entries = <<>> /\ blob = <<>> /\ sections = <<>>

----------------------------------------------------------------------------
(* The calls that collect a pack.  A call returns the first error that     *)
(* applies and then leaves the writer as it was.                           *)

Collecting == pc \in {"NotBegun", "Building"}

MetadataError(m) == m.uuid = 0 \/ m.parent \/ m.dim = 0 \/ m.zmax < m.zmin

BeginPack(m) ==
  /\ Collecting
  /\ result' = IF pc # "NotBegun" THEN "AlreadyBegun"
               ELSE IF MetadataError(m) THEN "InvalidMetadata" ELSE "Ok"
  /\ IF result' = "Ok"
       THEN pc' = "Building" /\ meta' = m
       ELSE UNCHANGED <<pc, meta>>
  /\ UNCHANGED <<keysSeen, tiles, exts, sources, next, planVars, outVars>>

RegisterByteSource ==
  /\ Collecting /\ sources < MaxSources
  /\ sources' = sources + 1
  /\ result' = "Ok"
  /\ UNCHANGED <<pc, meta, keysSeen, tiles, exts, next, planVars, outVars>>

AddExtension(e) ==
  /\ Collecting /\ Len(exts) < MaxExts
  /\ result' = IF pc # "Building" THEN "NotBegun"
               ELSE IF PayloadLen[e.payload] > U32Max THEN "ExtensionTooLarge" ELSE "Ok"
  /\ exts' = IF result' = "Ok" THEN Append(exts, e) ELSE exts
  /\ UNCHANGED <<pc, meta, keysSeen, tiles, sources, next, planVars, outVars>>

(* Mutant: a second tile for a key is accepted. *)
TileVerdictNoDuplicates(t) ==
  IF pc # "Building" THEN "NotBegun"
  ELSE IF t.key.z < meta.zmin \/ t.key.z > meta.zmax THEN "TileZoomOutOfRange"
  ELSE IF t.key.z >= ZoomOffsetsCount THEN "TileZoomTooHigh"
  ELSE IF TileLen(t) > U32Max THEN "TileTooLarge"
  ELSE "Ok"

TileVerdict(t) ==
  IF pc # "Building" THEN "NotBegun"
  ELSE IF t.key.z < meta.zmin \/ t.key.z > meta.zmax THEN "TileZoomOutOfRange"
  ELSE IF t.key.z >= ZoomOffsetsCount THEN "TileZoomTooHigh"
  ELSE IF TileLen(t) > U32Max THEN "TileTooLarge"
  ELSE IF t.key \in keysSeen THEN "DuplicateTile"
  ELSE "Ok"

AddTileRef(t) ==
  /\ Collecting /\ Len(tiles) < MaxTiles
  /\ result' = TileVerdict(t)
  /\ IF result' = "Ok"
       THEN tiles' = Append(tiles, t) /\ keysSeen' = keysSeen \cup {t.key}
       ELSE UNCHANGED <<tiles, keysSeen>>
  /\ UNCHANGED <<pc, meta, exts, sources, next, planVars, outVars>>

----------------------------------------------------------------------------
(* finalize: sort, validate, plan. *)

BlobStart == AlignUp(HeaderSize + Len(tiles) * EntrySize)

Fail(e) == pc' = "Failed" /\ result' = e

(* An External tile must name a registered source. *)
SourcesRegistered ==
  \A i \in 1..Len(tiles) :
    tiles[i].content.kind = "External" => tiles[i].content.source < sources

FinalizeNotBegun ==
  /\ pc = "NotBegun"
  /\ Fail("NotBegun")
  /\ UNCHANGED <<callVars, next, planVars, outVars>>

Sort ==
  /\ \E p \in Rearrangements(Len(tiles)) : tiles' = Permuted(tiles, p)
  /\ KeySorted(tiles')
  /\ \E p \in Rearrangements(Len(exts)) : exts' = Permuted(exts, p)
  /\ ExtSorted(exts')

Finalize ==
  /\ pc = "Building"
  /\ Sort
  /\ IF ~SourcesRegistered
       THEN Fail("SourceUnregistered") /\ UNCHANGED cursor
       ELSE IF Len(tiles) > U32Max
              THEN Fail("PackTooLarge") /\ UNCHANGED cursor
              ELSE pc' = "PlanTiles" /\ cursor' = BlobStart /\ UNCHANGED result
  /\ UNCHANGED <<meta, keysSeen, sources, next, offsets, extOffset, zoomDir, outVars>>

(* Mutant: the next tile starts right after this one, unaligned. *)
AfterTileUnaligned(at, t) == at + TileLen(t)

(* Where the tile after one that starts at `at` starts. *)
AfterTile(at, t) == AlignUp(at + TileLen(t))

PlanTile ==
  /\ pc = "PlanTiles" /\ next <= Len(tiles)
  /\ offsets' = Append(offsets, cursor)
  /\ cursor' = AfterTile(cursor, tiles[next])
  /\ next' = next + 1
  /\ UNCHANGED <<pc, result, callVars, extOffset, zoomDir, outVars>>

EndOfTiles ==
  /\ pc = "PlanTiles" /\ next > Len(tiles)
  /\ extOffset' = cursor
  /\ pc' = "PlanExts" /\ next' = 1
  /\ UNCHANGED <<result, callVars, cursor, offsets, zoomDir, outVars>>

PlanExt ==
  /\ pc = "PlanExts" /\ next <= Len(exts)
  /\ cursor' = cursor + SectionLen(exts[next])
  /\ next' = next + 1
  /\ UNCHANGED <<pc, result, callVars, offsets, extOffset, zoomDir, outVars>>

(* Mutant: extensions_offset is not narrowed here. *)
IndexTooFar == HeaderSize > U32Max

(* index_offset or extensions_offset does not fit u32. *)
PlanTooLarge == HeaderSize > U32Max \/ extOffset > U32Max

NarrowPlan ==
  /\ pc = "PlanExts" /\ next > Len(exts)
  /\ IF PlanTooLarge
       THEN Fail("PackTooLarge") /\ UNCHANGED next
       ELSE pc' = "PlanZooms" /\ next' = 1 /\ UNCHANGED result
  /\ UNCHANGED <<callVars, planVars, outVars>>

(* Mutants: operands swapped; the last tile of a run not counted. *)
DirectoryEntrySwapped(first, last) ==
  [offset |-> HeaderSize + (first - 1) * EntrySize, count |-> first - last]
DirectoryEntryShort(first, last) ==
  [offset |-> HeaderSize + (first - 1) * EntrySize, count |-> last - first]

(* The directory entry of the run of tiles first..last. *)
DirectoryEntry(first, last) ==
  [offset |-> HeaderSize + (first - 1) * EntrySize, count |-> last - first + 1]

(* Mutant: the outer loop resumes at the tile it has just handled. *)
SameTile(last) == last
NextRun(last) == last + 1

(* One turn of the outer directory loop: the run of tiles next..last shares *)
(* a zoom level and ends where the level changes.                           *)
PlanZoom ==
  /\ pc = "PlanZooms" /\ next <= Len(tiles)
  /\ LET z == tiles[next].key.z
     IN \E last \in next..Len(tiles) :
          /\ \A j \in next..last : tiles[j].key.z = z
          /\ last < Len(tiles) => tiles[last + 1].key.z # z
          /\ IF DirectoryEntry(next, last).offset > U32Max
               THEN Fail("PackTooLarge") /\ UNCHANGED <<next, zoomDir>>
               ELSE /\ zoomDir' = [zoomDir EXCEPT ![z] = DirectoryEntry(next, last)]
                    /\ next' = NextRun(last)
                    /\ UNCHANGED <<pc, result>>
  /\ UNCHANGED <<callVars, cursor, offsets, extOffset, outVars>>

----------------------------------------------------------------------------
(* finalize: stream the planned file. *)

WriteChunk(n) == pos' = pos + n /\ crc' = crc + n

WriteHeader ==
  /\ pc = "PlanZooms" /\ next > Len(tiles)
  /\ WriteChunk(HeaderSize)
  /\ pc' = "Index" /\ next' = 1
  /\ UNCHANGED <<result, callVars, planVars, entries, blob, sections>>

WriteEntry ==
  /\ pc = "Index" /\ next <= Len(tiles)
  /\ IF TileLen(tiles[next]) > U32Max
       THEN Fail("TileTooLarge") /\ UNCHANGED <<next, pos, crc, entries>>
       ELSE IF offsets[next] > U32Max
         THEN Fail("PackTooLarge") /\ UNCHANGED <<next, pos, crc, entries>>
         ELSE /\ WriteChunk(EntrySize)
              /\ entries' = Append(entries, [key    |-> tiles[next].key,
                                             offset |-> offsets[next],
                                             length |-> TileLen(tiles[next])])
              /\ next' = next + 1
              /\ UNCHANGED <<pc, result>>
  /\ UNCHANGED <<callVars, planVars, blob, sections>>

PadIndex ==
  /\ pc = "Index" /\ next > Len(tiles)
  /\ WriteChunk(BlobStart - (HeaderSize + Len(tiles) * EntrySize))
  /\ pc' = "Blob" /\ next' = 1
  /\ UNCHANGED <<result, callVars, planVars, entries, blob, sections>>

(* A tile's bytes and the padding that follows them. *)
WriteTile ==
  /\ pc = "Blob" /\ next <= Len(tiles)
  /\ LET end == offsets[next] + TileLen(tiles[next])
     IN WriteChunk(TileLen(tiles[next]) + (AlignUp(end) - end))
  /\ blob' = Append(blob, [at |-> pos, bytes |-> tiles[next].content.bytes])
  /\ next' = next + 1
  /\ UNCHANGED <<pc, result, callVars, planVars, entries, sections>>

EndOfBlob ==
  /\ pc = "Blob" /\ next > Len(tiles)
  /\ pc' = "Exts" /\ next' = 1
  /\ UNCHANGED <<result, callVars, planVars, outVars>>

WriteExt ==
  /\ pc = "Exts" /\ next <= Len(exts)
  /\ WriteChunk(SectionLen(exts[next]))
  /\ sections' = Append(sections, [at |-> pos, ext |-> exts[next]])
  /\ next' = next + 1
  /\ UNCHANGED <<pc, result, callVars, planVars, entries, blob>>

(* The CRC footer goes to the output and not into the CRC. *)
WriteCrc ==
  /\ pc = "Exts" /\ next > Len(exts)
  /\ pos' = pos + CrcSize
  /\ pc' = "Done" /\ result' = "Ok"
  /\ UNCHANGED <<callVars, next, planVars, crc, entries, blob, sections>>

(* The byte source of an External tile fails to deliver the range. *)
SourceIoFails ==
  /\ pc = "Blob" /\ next <= Len(tiles)
  /\ tiles[next].content.kind = "External"
  /\ Fail("SourceIo")
  /\ UNCHANGED <<callVars, next, planVars, outVars>>

(* The output refuses the next chunk. *)
OutputIoFails ==
  /\ \/ pc = "PlanZooms" /\ next > Len(tiles)
     \/ pc = "Index" /\ next <= Len(tiles)
     \/ pc = "Blob" /\ next <= Len(tiles)
     \/ pc = "Exts"
  /\ Fail("OutputIo")
  /\ UNCHANGED <<callVars, next, planVars, outVars>>

(* finalize consumed the writer: nothing more can be called. *)
Consumed == pc \in {"Done", "Failed"} /\ UNCHANGED vars

Collect ==
  \/ \E m \in Metas : BeginPack(m)
  \/ RegisterByteSource
  \/ FinalizeNotBegun \/ Finalize
  \/ \E e \in Extensions : AddExtension(e)
  \/ \E t \in Tiles : AddTileRef(t)

Plan == PlanTile \/ EndOfTiles \/ PlanExt \/ NarrowPlan \/ PlanZoom

Stream ==
  \/ WriteHeader \/ WriteEntry \/ PadIndex \/ WriteTile \/ EndOfBlob
  \/ WriteExt \/ WriteCrc \/ SourceIoFails \/ OutputIoFails

Next == Collect \/ Plan \/ Stream \/ Consumed

(* Once called, finalize runs to its end; nothing obliges a caller to call *)
(* it.                                                                     *)
Spec == Init /\ [][Next]_vars /\ WF_vars(Plan) /\ WF_vars(Stream)

----------------------------------------------------------------------------
(* Properties *)

Streaming == pc \in {"Index", "Blob", "Exts"}
Errors == {"Ok", "AlreadyBegun", "InvalidMetadata", "NotBegun", "TileZoomOutOfRange",
           "TileZoomTooHigh", "TileTooLarge", "DuplicateTile", "ExtensionTooLarge",
           "SourceUnregistered", "PackTooLarge", "SourceIo", "OutputIo"}

(* The type of every variable. *)
TypeOK ==
  /\ pc \in {"NotBegun", "Building", "PlanTiles", "PlanExts", "PlanZooms",
             "Index", "Blob", "Exts", "Done", "Failed"}
  /\ result \in Errors
  /\ meta \in Meta
  /\ keysSeen \subseteq Keys
  /\ tiles \in Seq(Tiles) /\ exts \in Seq(Extensions)
  /\ sources \in Nat /\ next \in Nat \ {0}
  /\ cursor \in Nat /\ offsets \in Seq(Nat) /\ extOffset \in Nat
  /\ zoomDir \in [0..(ZoomOffsetsCount - 1) -> [offset : Nat, count : Nat]]
  /\ pos \in Nat /\ crc \in Nat
  /\ entries \in Seq([key : Keys, offset : Nat, length : Nat])
  /\ blob \in Seq([at : Nat, bytes : Bytes])
  /\ sections \in Seq([at : Nat, ext : Extensions])

(* The offset and length an index entry promises are where the output loop *)
(* really put that tile's bytes, on a 4-byte boundary: the planning loop   *)
(* and the output loop advance alike.                                      *)
IndexPointsAtTiles ==
  \A i \in 1..Len(blob) :
    /\ blob[i].at = entries[i].offset
    /\ ByteLen[blob[i].bytes] = entries[i].length
    /\ entries[i].key = tiles[i].key /\ blob[i].bytes = tiles[i].content.bytes
    /\ blob[i].at % 4 = 0

(* No two tiles share a byte, none reaches into the index before the blob *)
(* or into the extension area after it.                                   *)
ExtentsDisjoint ==
  /\ \A i, j \in 1..Len(entries) :
       i < j => entries[i].offset + entries[i].length <= entries[j].offset
  /\ \A i \in 1..Len(entries) :
       /\ entries[i].offset >= HeaderSize + Len(tiles) * EntrySize
       /\ entries[i].offset + entries[i].length <= extOffset

(* The zoom directory in the header selects, for every level, exactly the *)
(* index entries of that level, and the index is strictly sorted: what    *)
(* lets a reader binary-search one level's slice.                         *)
DirectorySelectsLevels ==
  (Streaming \/ pc = "Done") =>
    /\ KeySorted(tiles)
    /\ \A z \in DOMAIN zoomDir : \A i \in 1..Len(tiles) :
         LET first == (zoomDir[z].offset - HeaderSize) \div EntrySize
         IN tiles[i].key.z = z <=> i > first /\ i <= first + zoomDir[z].count

(* Once a byte has been written the only errors left are those of the     *)
(* byte source and of the output: every limit is checked before the file  *)
(* is started, although the narrowing of offsets sits in the output loop. *)
LateFailuresAreIo == pc = "Failed" /\ pos > 0 => result \in {"SourceIo", "OutputIo"}

(* A call of finalize that got past its checks returns. *)
FinalizeReturns == (pc \notin {"NotBegun", "Building"}) ~> (pc \in {"Done", "Failed"})
=============================================================================
