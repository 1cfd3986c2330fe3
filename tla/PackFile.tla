------------------------------ MODULE PackFile ------------------------------
(***************************************************************************)
(* A pack byte by byte: how the core lays a finished pack out, how the     *)
(* core's reader takes the bytes apart again, and how the C++ validator    *)
(* (spec-validator-cpp), written against the layout tables alone, does.    *)
(* Bytes may differ from what the writer left: another writer computes a   *)
(* correct checksum over a file that breaks the format, and storage damage *)
(* flips bits under a checksum that was right.                             *)
(*                                                                         *)
(* file[a + 1] is the byte at offset a.  Uuids and the timestamp are byte  *)
(* strings copied as they are.  A u32 beyond every file is read as Beyond; *)
(* with Top = 256 there is none, and Word4 is the u32 itself.              *)
(***************************************************************************)
EXTENDS Crc32, FiniteSets, SequencesExt

CONSTANTS
  Packs,       \* what is handed to the writer
  Top,         \* bound: a u32 is known if its highest byte is below
  Values,      \* bytes another writer may put somewhere
  Crowded,     \* offsets at which it may put several at once
  MaxAltered,  \* bound: how many
  Body,        \* a short string under a checksum, for the damage
  Flips        \* bits that may flip in each of four consecutive bytes

Octet == 0..255
ASSUME TopAssumption == Top \in 1..256
ASSUME ValuesAssumption == Values \subseteq Octet
ASSUME DamageAssumption == Body \in Seq(SUBSET Byte) /\ Flips \subseteq SUBSET Byte

HeaderSize == 292
EntrySize == 20
SectionHeaderSize == 8
CrcSize == 4
Zooms == 0..23
Magic == <<82, 65, 87, 84>>   \* "RAWT"
Beyond == 16777216 * Top
U32 == 0..(Beyond - 1)

VARIABLES
  pack,     \* what was written
  file,     \* the bytes, without the checksum over them
  altered,  \* the offsets another writer put something else at
  burst     \* [at, flips]: damage under the checksum

vars == <<pack, file, altered, burst>>

AlignUp(v) == ((v + 3) \div 4) * 4
Zeros(n) == [k \in 1..n |-> 0]

----------------------------------------------------------------------------
(* The writer. *)

(* to_le_bytes, of signed numbers too *)
Places == <<1, 256, 65536, 16777216>>
LE(v, n) == [k \in 1..n |-> (v \div Places[k]) % 256]
Field(at, bytes) == [at |-> at, bytes |-> bytes]

(* Mutant: the two middle corners change places. *)
BboxFieldsSwapped(h) == {Field(64 + 4 * (k - 1), LE(h.bbox[<<1, 3, 2, 4>>[k]], 4)) : k \in 1..4}
BboxFields(h) == {Field(64 + 4 * (k - 1), LE(h.bbox[k], 4)) : k \in 1..4}

(* write_header: fields at fixed offsets in a buffer of zeros. *)
HeaderFields(h) ==
  {Field(0, Magic), Field(4, <<h.major, h.minor>>), Field(8, h.pack_uuid),
   Field(24, h.supersedes), Field(40, h.parent),
   Field(56, <<h.pixel_format, h.projection, h.addressing, h.axis>>),
   Field(60, LE(h.tile_dim_px, 2)), Field(62, <<h.zoom_min, h.zoom_max>>),
   Field(80, h.build_timestamp), Field(88, LE(h.tile_count, 4)),
   Field(92, LE(h.index_offset, 4)), Field(288, LE(h.extensions_offset, 4))}
  \cup BboxFields(h)
  \cup {Field(96 + 8 * z, LE(h.zooms[z].offset, 4) \o LE(h.zooms[z].count, 4)) : z \in Zooms}

WriteHeader(h) ==
  LET fields == HeaderFields(h)
      covering(a) == {f \in fields : a \in f.at..(f.at + Len(f.bytes) - 1)}
  IN [k \in 1..HeaderSize |->
        IF covering(k - 1) = {} THEN 0
        ELSE LET f == CHOOSE g \in covering(k - 1) : TRUE IN f.bytes[k - f.at]]

WriteEntry(t, offset) ==
  <<t.z, t.compression, 0, 0>> \o LE(t.x, 4) \o LE(t.y, 4) \o LE(offset, 4)
    \o LE(Len(t.bytes), 4)

Padded(bytes) == bytes \o Zeros(AlignUp(Len(bytes)) - Len(bytes))
WriteSection(s) == s.tag \o LE(Len(s.payload), 4) \o Padded(s.payload)

BlobStart(count) == AlignUp(HeaderSize + count * EntrySize)
TileOffset(p, i) ==
  LET at[j \in 1..(Len(p.tiles) + 1)] ==
        IF j = 1 THEN BlobStart(Len(p.tiles)) ELSE AlignUp(at[j - 1] + Len(p.tiles[j - 1].bytes))
  IN at[i]

(* The header of a pack; its tiles come in index order. *)
Directory(p) ==
  [z \in Zooms |->
     LET here == {i \in DOMAIN p.tiles : p.tiles[i].z = z}
     IN IF here = {} THEN [offset |-> 0, count |-> 0]
        ELSE [offset |-> HeaderSize + EntrySize * ((CHOOSE i \in here : i - 1 \notin here) - 1),
              count |-> Cardinality(here)]]
Header(p) ==
  [major |-> 1, minor |-> 0, pack_uuid |-> p.uuid, supersedes |-> p.supersedes,
   parent |-> Zeros(16), pixel_format |-> p.pixel, projection |-> p.projection,
   addressing |-> p.addressing, axis |-> p.axis, tile_dim_px |-> p.dim,
   zoom_min |-> p.zooms[1], zoom_max |-> p.zooms[2], bbox |-> p.bbox,
   build_timestamp |-> p.timestamp, tile_count |-> Len(p.tiles),
   index_offset |-> HeaderSize, zooms |-> Directory(p),
   extensions_offset |-> TileOffset(p, Len(p.tiles) + 1)]

Written(p) ==
  WriteHeader(Header(p))
    \o FlattenSeq([i \in DOMAIN p.tiles |-> WriteEntry(p.tiles[i], TileOffset(p, i))])
    \o Zeros(BlobStart(Len(p.tiles)) - (HeaderSize + EntrySize * Len(p.tiles)))
    \o FlattenSeq([i \in DOMAIN p.tiles |-> Padded(p.tiles[i].bytes)])
    \o FlattenSeq([i \in DOMAIN p.sections |-> WriteSection(p.sections[i])])

(* What the writer is handed: the checks of PackMetadata passed, the tiles *)
(* are in index order, and the pack is one whose offsets fit.              *)
Tiles == [z : Zooms, x : U32, y : U32, compression : {0, 1}, bytes : Seq(Octet)]
Sections == [tag : [1..4 -> Octet], payload : Seq(Octet)]
KeyBefore(a, b) ==
  \/ a.z < b.z
  \/ a.z = b.z /\ a.x < b.x
  \/ a.z = b.z /\ a.x = b.x /\ a.y < b.y
IsZero(bytes) == \A k \in DOMAIN bytes : bytes[k] = 0
IsDim(dim) == dim \in Nat /\ dim > 0 /\ dim < 65536   \* a u16, not 0
IsBbox(bbox) ==   \* four i32
  bbox \in [1..4 -> Int] /\ \A k \in 1..4 : bbox[k] \div 16777216 \in -128..127
IsMetadata(p) ==
  /\ p.uuid \in [1..16 -> Octet] /\ ~IsZero(p.uuid)
  /\ p.supersedes \in [1..16 -> Octet] /\ p.timestamp \in [1..8 -> Octet]
  /\ p.pixel \in {1, 2} /\ p.projection \in {1, 3}
  /\ p.addressing \in {1, 2} /\ p.axis \in {1, 2} /\ IsDim(p.dim)
  /\ p.zooms \in [1..2 -> Octet] /\ p.zooms[1] <= p.zooms[2]
  /\ IsBbox(p.bbox)
IsPack(p) ==
  /\ IsMetadata(p) /\ p.tiles \in Seq(Tiles) /\ p.sections \in Seq(Sections)
  /\ \A i, j \in DOMAIN p.tiles : i < j => KeyBefore(p.tiles[i], p.tiles[j])
  /\ Len(Written(p)) < Beyond
ASSUME PacksAssumption == \A p \in Packs : IsPack(p)

----------------------------------------------------------------------------
(* Decoding. *)

Bytes(f, at, n) == SubSeq(f, at + 1, at + n)
Byte1(f, at) == f[at + 1]
Word2(f, at) == f[at + 1] + 256 * f[at + 2]
Word4(f, at) == IF f[at + 4] >= Top THEN Beyond
                ELSE Word2(f, at) + 65536 * f[at + 3] + 16777216 * f[at + 4]
Signed4(f, at) ==
  Word2(f, at) + 65536 * f[at + 3]
    + 16777216 * (IF f[at + 4] < 128 THEN f[at + 4] ELSE f[at + 4] - 256)

ReaderLayout ==
  [version |-> 4, pack_uuid |-> 8, supersedes |-> 24, parent |-> 40, pixel_format |-> 56,
   projection |-> 57, addressing |-> 58, axis |-> 59, tile_dim_px |-> 60, zoom_min |-> 62,
   zoom_max |-> 63, bbox |-> 64, build_timestamp |-> 80, tile_count |-> 88,
   index_offset |-> 92, zooms |-> 96, extensions_offset |-> 288]
ValidatorLayout ==
  [version |-> 4, pack_uuid |-> 8, supersedes |-> 24, parent |-> 40, pixel_format |-> 56,
   projection |-> 57, addressing |-> 58, axis |-> 59, tile_dim_px |-> 60, zoom_min |-> 62,
   zoom_max |-> 63, bbox |-> 64, build_timestamp |-> 80, tile_count |-> 88,
   index_offset |-> 92, zooms |-> 96, extensions_offset |-> 96 + 24 * 8]

Decode(f, at) ==
  [major |-> Byte1(f, at.version), minor |-> Byte1(f, at.version + 1),
   pack_uuid |-> Bytes(f, at.pack_uuid, 16), supersedes |-> Bytes(f, at.supersedes, 16),
   parent |-> Bytes(f, at.parent, 16), pixel_format |-> Byte1(f, at.pixel_format),
   projection |-> Byte1(f, at.projection), addressing |-> Byte1(f, at.addressing),
   axis |-> Byte1(f, at.axis), tile_dim_px |-> Word2(f, at.tile_dim_px),
   zoom_min |-> Byte1(f, at.zoom_min), zoom_max |-> Byte1(f, at.zoom_max),
   bbox |-> [k \in 1..4 |-> Signed4(f, at.bbox + 4 * (k - 1))],
   build_timestamp |-> Bytes(f, at.build_timestamp, 8),
   tile_count |-> Word4(f, at.tile_count), index_offset |-> Word4(f, at.index_offset),
   zooms |-> [z \in Zooms |-> [offset |-> Word4(f, at.zooms + 8 * z),
                               count |-> Word4(f, at.zooms + 8 * z + 4)]],
   extensions_offset |-> Word4(f, at.extensions_offset)]

(* The entry at `at`, the same 20 bytes in both programs. *)
Entry(f, at) ==
  [key |-> [z |-> Byte1(f, at), x |-> Word4(f, at + 4), y |-> Word4(f, at + 8)],
   compression |-> Byte1(f, at + 1), flags |-> Byte1(f, at + 2), reserved |-> Byte1(f, at + 3),
   offset |-> Word4(f, at + 12), length |-> Word4(f, at + 16)]
Entries(f, h) == [i \in 1..h.tile_count |-> Entry(f, h.index_offset + EntrySize * (i - 1))]

CrcOffset(f) == Len(f)   \* the checksum follows the bytes of `file`

----------------------------------------------------------------------------
(* RawtilesReader: read_header, read_index_entry, read_extension_sections. *)

(* Mutant: a newer minor version is turned away. *)
VersionExact(h) == h.major = 1 /\ h.minor = 0
VersionSupported(h) == h.major = 1

HeaderReads(f, h) ==
  /\ Bytes(f, 0, 4) = Magic /\ VersionSupported(h)
  /\ ~IsZero(h.pack_uuid) /\ IsZero(h.parent)
  /\ h.pixel_format \in {1, 2} /\ h.projection \in {1, 3}
  /\ h.addressing \in {1, 2} /\ h.axis \in {1, 2}
  /\ h.tile_dim_px # 0 /\ h.zoom_min <= h.zoom_max

EntryReads(f, e) ==
  /\ e.compression \in {0, 1} /\ e.flags = 0 /\ e.reserved = 0
  /\ e.offset + e.length <= CrcOffset(f)

SectionsRead(f, start) ==
  LET walk[at \in start..CrcOffset(f)] ==
        \/ at = CrcOffset(f)
        \/ /\ at + SectionHeaderSize <= CrcOffset(f)
           /\ LET end == at + SectionHeaderSize + Word4(f, at + 4)
              IN /\ AlignUp(end - at) + at <= CrcOffset(f)
                 /\ IsZero(Bytes(f, end, AlignUp(end - at) - (end - at)))
                 /\ walk[at + AlignUp(end - at)]
  IN walk[start]

Opens(f) ==
  /\ Len(f) >= HeaderSize
  /\ LET h == Decode(f, ReaderLayout)
     IN /\ HeaderReads(f, h)
        /\ h.index_offset = HeaderSize
        /\ h.index_offset + h.tile_count * EntrySize <= Len(f) + CrcSize
        /\ \A i \in 1..h.tile_count : EntryReads(f, Entries(f, h)[i])
        /\ h.extensions_offset <= CrcOffset(f)
        /\ SectionsRead(f, h.extensions_offset)

(* tile_bytes, up to the slice it returns. *)
Reader == INSTANCE PackReader WITH ByteLen <- <<>>, SectionLen <- LAMBDA s : 0
Found(f, key) ==
  LET h == Decode(f, ReaderLayout)
  IN Reader!Lookup([zoomDir |-> h.zooms, indexOffset |-> h.index_offset,
                    entries |-> Entries(f, h)], key)
FoundBytes(f, i) ==
  LET e == Entries(f, Decode(f, ReaderLayout))[i] IN Bytes(f, e.offset, e.length)

----------------------------------------------------------------------------
(* The C++ validator: every error it reports, warnings left out. *)

BboxValid(bbox) ==
  /\ bbox[1] >= -180000000 /\ bbox[3] <= 180000000 /\ bbox[1] < bbox[3]
  /\ bbox[2] >= -90000000 /\ bbox[4] <= 90000000 /\ bbox[2] < bbox[4]
HeaderValid(f, h) ==
  /\ Bytes(f, 0, 4) = Magic /\ h.major = 1
  /\ ~IsZero(h.pack_uuid) /\ IsZero(h.parent)
  /\ h.pixel_format = 1 /\ h.projection \in {1, 3} /\ h.addressing = 1 /\ h.axis \in {1, 2}
  /\ h.tile_dim_px > 0 /\ h.zoom_min <= h.zoom_max
  /\ BboxValid(h.bbox)
  /\ h.index_offset = HeaderSize
  /\ h.extensions_offset >= BlobStart(h.tile_count) /\ h.extensions_offset % 4 = 0
  /\ h.extensions_offset <= CrcOffset(f)

EntriesValid(h, entries) ==
  \A i \in DOMAIN entries :
    LET e == entries[i]
    IN /\ i > 1 => KeyBefore(entries[i - 1].key, e.key)
       /\ e.reserved = 0 /\ e.compression = 0 /\ e.key.z \in Zooms
       /\ e.offset >= BlobStart(h.tile_count)
       /\ e.offset + e.length <= h.extensions_offset

(* Mutant: only the counts are compared. *)
DirectoryCounts(h, entries) ==
  \A z \in Zooms : h.zooms[z].count = Cardinality({i \in DOMAIN entries : entries[i].key.z = z})
DirectoryValid(h, entries) ==
  \A z \in Zooms :
    LET here == {i \in DOMAIN entries : entries[i].key.z = z}
    IN /\ h.zooms[z].count = Cardinality(here)
       /\ h.zooms[z].offset =
            IF here = {} THEN 0
            ELSE h.index_offset + EntrySize * ((CHOOSE i \in here : \A j \in here : i <= j) - 1)

SectionsValid(f, start) ==
  LET walk[at \in start..CrcOffset(f)] ==
        \/ at = CrcOffset(f)
        \/ /\ at + SectionHeaderSize <= CrcOffset(f)
           /\ LET end == at + SectionHeaderSize + Word4(f, at + 4)
              IN AlignUp(end) <= CrcOffset(f) /\ walk[AlignUp(end)]
  IN walk[start]

Accepts(f) ==
  /\ Len(f) >= HeaderSize
  /\ LET h == Decode(f, ValidatorLayout)
     IN /\ HeaderValid(f, h)
        /\ EntriesValid(h, Entries(f, h)) /\ DirectoryValid(h, Entries(f, h))
        /\ SectionsValid(f, h.extensions_offset)

----------------------------------------------------------------------------
NoBurst == [at |-> 0, flips |-> <<>>]

Init ==
  /\ pack \in Packs /\ file = Written(pack)
  /\ altered = {} /\ burst = NoBurst

(* Another writer puts a different byte somewhere, and seals the result. *)
Alter ==
  /\ burst = NoBurst /\ Cardinality(altered) < MaxAltered
  /\ \E at \in 0..(Len(file) - 1), v \in Values :
       /\ altered = {} \/ altered \cup {at} \subseteq Crowded
       /\ at \notin altered /\ Byte1(file, at) # v
       /\ file' = [file EXCEPT ![at + 1] = v] /\ altered' = altered \cup {at}
  /\ UNCHANGED <<pack, burst>>

(* Bits flip in up to four bytes in a row of a sealed string. *)
Sealed == Body \o LittleEndian(Checksum(Body))
Damage ==
  /\ burst = NoBurst /\ altered = {}
  /\ \E at \in 1..(Len(Sealed) - 3), flips \in [1..4 -> Flips] :
       /\ \E k \in 1..4 : flips[k] # {}
       /\ burst' = [at |-> at, flips |-> flips]
  /\ UNCHANGED <<pack, file, altered>>

Next == Alter \/ Damage
Spec == Init /\ [][Next]_vars

----------------------------------------------------------------------------
(* Properties *)

(* Damage within 32 consecutive bits of a sealed string, its checksum       *)
(* included, never goes unnoticed: this is what the footer is for.          *)
Damaged ==
  [k \in DOMAIN Sealed |->
     IF k - burst.at \in 0..3 THEN Xor(Sealed[k], burst.flips[k - burst.at + 1]) ELSE Sealed[k]]
BurstsAreNoticed ==
  burst # NoBurst =>
    LittleEndian(Checksum(SubSeq(Damaged, 1, Len(Body)))) # SubSeq(Damaged, Len(Body) + 1, Len(Sealed))

(* What the writer writes, both programs read: the same header that was    *)
(* handed to it, and through the directory each tile's bytes.  The         *)
(* validator accepts it, except for what it does not know: pixel format 2, *)
(* single images and RLE8, and an empty or impossible bounding box, which  *)
(* the core does not look at (its README: "two implementations agree").    *)
Known(p) ==
  /\ p.pixel = 1 /\ p.addressing = 1 /\ BboxValid(p.bbox)
  /\ \A i \in DOMAIN p.tiles : p.tiles[i].compression = 0
WrittenPacksAgree ==
  altered = {} =>
    /\ Opens(file)
    /\ Decode(file, ReaderLayout) = Header(pack) /\ Decode(file, ValidatorLayout) = Header(pack)
    /\ \A i \in DOMAIN pack.tiles :
         /\ Found(file, pack.tiles[i]) = i
         /\ FoundBytes(file, i) = pack.tiles[i].bytes
    /\ Accepts(file) <=> Known(pack)

(* The validator vouches for the reader: a file it accepts is opened, and  *)
(* the reader finds every tile of the index and fails on none, although    *)
(* `open` checks neither the order of the index nor the directory.  Flags  *)
(* and the padding of sections are left to the reader.                     *)
Strict(f) ==
  LET h == Decode(f, ReaderLayout)
  IN /\ \A i \in DOMAIN Entries(f, h) : Entries(f, h)[i].flags = 0
     /\ SectionsValid(f, h.extensions_offset) => SectionsRead(f, h.extensions_offset)
ValidatorVouches ==
  Accepts(file) /\ Strict(file) =>
    /\ Opens(file)
    /\ LET entries == Entries(file, Decode(file, ReaderLayout))
       IN \A i \in DOMAIN entries : Found(file, entries[i].key) = i

(* A pack of a newer minor version opens, with the same tiles: what such a *)
(* version may change is the minor number, the reserved bytes and the tags *)
(* of sections (read_header: "Higher minor versions MUST be accepted").    *)
SectionAt(p, i) ==
  LET at[j \in 1..(Len(p.sections) + 1)] ==
        IF j = 1 THEN Header(p).extensions_offset
        ELSE at[j - 1] + Len(WriteSection(p.sections[j - 1]))
  IN at[i]
OpenToChange(p) ==
  (5..7) \cup UNION {SectionAt(p, j)..(SectionAt(p, j) + 3) : j \in DOMAIN p.sections}
NewerMinorsOpen ==
  altered \subseteq OpenToChange(pack) =>
    /\ Opens(file)
    /\ \A i \in DOMAIN pack.tiles :
         /\ Found(file, pack.tiles[i]) = i
         /\ FoundBytes(file, i) = pack.tiles[i].bytes
=============================================================================
