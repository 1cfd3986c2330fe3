----------------------------- MODULE PackReader -----------------------------
(***************************************************************************)
(* RawtilesReader of slippypack-core: `open`, which validates a file, and  *)
(* `tile_bytes`, which looks one tile up through the zoom directory.       *)
(*                                                                         *)
(* A file is a record of what its bytes decode to: its size and CRC        *)
(* verdict, the header fields the reader uses, the index entries, and the  *)
(* byte strings and extension sections found at given positions.  The      *)
(* slice binary search of the standard library is modelled by its          *)
(* contract on a sorted slice: the entry with the wanted key, if any.      *)
(***************************************************************************)
EXTENDS Integers, Sequences

CONSTANTS
  ByteLen,      \* length of each tile byte string
  SectionLen(_) \* length of a serialised extension section

HeaderSize == 292        \* HEADER_BASE_SIZE
EntrySize  == 20         \* INDEX_ENTRY_SIZE
SectionHeaderSize == 8   \* SECTION_HEADER_SIZE
CrcSize    == 4
ZoomOffsetsCount == 24   \* ZOOM_OFFSETS_COUNT

NoTile == "NoTile"       \* None
Panic == "Panic"         \* a slice index out of range
Garbage == "Garbage"     \* a slice that is not one stored byte string

CrcOffset(file) == file.size - CrcSize

(* The sections from a position on, walked as read_extension_sections does: *)
(* whole sections only, and the last must end exactly at the CRC.           *)
SectionsFrom(file, start) ==
  LET failed == [whole |-> FALSE, exts |-> <<>>]
      walk[at \in 0..file.size] ==
        IF at = CrcOffset(file) THEN [whole |-> TRUE, exts |-> <<>>]
        ELSE LET here == {i \in 1..Len(file.sections) : file.sections[i].at = at}
             IN IF here = {} \/ CrcOffset(file) - at < SectionHeaderSize
                  THEN failed
                  ELSE LET e == file.sections[CHOOSE i \in here : TRUE].ext
                           end == at + SectionLen(e)
                       IN IF end > CrcOffset(file)
                            THEN failed
                            ELSE [whole |-> walk[end].whole, exts |-> <<e>> \o walk[end].exts]
  IN walk[start]

EntriesInBounds(file) ==
  \A i \in 1..Len(file.entries) :
    file.entries[i].offset + file.entries[i].length <= CrcOffset(file)

(* The invariants read_header checks on the metadata; enum bytes, magic and *)
(* version are the writer's own constants and always parse.                 *)
HeaderVerdict(m) ==
  IF m.uuid = 0 THEN "PackUuidIsZero"
  ELSE IF m.parent THEN "ParentUuidNotZero"
  ELSE IF m.dim = 0 THEN "InvalidTileDim"
  ELSE IF m.zmax < m.zmin THEN "InvalidZoomRange"
  ELSE "Ok"

(* What `open` returns: the first check that fails, or Ok. *)
Open(file) ==
  IF file.size < HeaderSize + CrcSize THEN "TooShort"
  ELSE IF ~file.crcMatches THEN "CrcMismatch"
  ELSE IF HeaderVerdict(file.meta) # "Ok" THEN HeaderVerdict(file.meta)
  ELSE IF file.indexOffset # HeaderSize THEN "IndexOffsetNotAtHeaderEnd"
  ELSE IF file.indexOffset + file.tileCount * EntrySize > file.size
    THEN "IndexOffsetOutOfBounds"
  ELSE IF ~EntriesInBounds(file) THEN "TileOutOfBounds"
  ELSE IF file.extOffset > CrcOffset(file) THEN "ExtensionsOffsetOutOfBounds"
  ELSE IF ~SectionsFrom(file, file.extOffset).whole THEN "Extensions"
  ELSE "Ok"

Slice(file, begin, len) ==
  LET here == {i \in 1..Len(file.blob) :
                 file.blob[i].at = begin /\ ByteLen[file.blob[i].bytes] = len}
  IN IF here = {} THEN Garbage ELSE file.blob[CHOOSE i \in here : TRUE].bytes

(* The entry tile_bytes finds through the directory: its number, 0 when    *)
(* there is none, and -1 when a slice index is out of range, which `open`, *)
(* not looking at the directory, does not exclude.                         *)
Lookup(file, key) ==
  IF key.z >= ZoomOffsetsCount \/ file.zoomDir[key.z].count = 0 THEN 0
  ELSE LET start == (file.zoomDir[key.z].offset - file.indexOffset) \div EntrySize
           end == start + file.zoomDir[key.z].count
           hits == {i \in (start + 1)..end :
                      file.entries[i].key.x = key.x /\ file.entries[i].key.y = key.y}
       IN IF file.zoomDir[key.z].offset < file.indexOffset \/ end > Len(file.entries)
            THEN -1
            ELSE IF hits = {} THEN 0 ELSE CHOOSE i \in hits : TRUE

TileBytes(file, key) ==
  LET i == Lookup(file, key)
  IN IF i = 0 THEN NoTile
     ELSE IF i = -1 THEN Panic
     ELSE Slice(file, file.entries[i].offset, file.entries[i].length)
=============================================================================
