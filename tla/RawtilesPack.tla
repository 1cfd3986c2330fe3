---------------------------- MODULE RawtilesPack ----------------------------
(***************************************************************************)
(* Writer and reader of one pack composed: the file RawtilesWriter leaves  *)
(* behind is opened by PackReader, and the two together implement          *)
(* PackStore.                                                              *)
(***************************************************************************)
EXTENDS RawtilesWriter, FiniteSets, Bags, Functions

Reader == INSTANCE PackReader

(* There is one empty byte string, and what a lookup answers without a     *)
(* tile is none of them.                                                   *)
ASSUME ByteStringsAssumption ==
  /\ \A b, c \in Bytes : ByteLen[b] = 0 /\ ByteLen[c] = 0 => b = c
  /\ Bytes \cap {Reader!NoTile, Reader!Panic, Reader!Garbage} = {}

(* The bytes in the output, as a reader decodes them. *)
File == [size        |-> pos,
         crcMatches  |-> pc = "Done" /\ crc = pos - CrcSize,
         meta        |-> meta,
         indexOffset |-> HeaderSize,
         tileCount   |-> Len(tiles),
         zoomDir     |-> zoomDir,
         extOffset   |-> extOffset,
         entries     |-> entries,
         blob        |-> blob,
         sections    |-> sections]

BagOfSeq(s) ==
  [e \in {s[i] : i \in 1..Len(s)} |-> Cardinality({i \in 1..Len(s) : s[i] = e})]

(* Everything a reader can get out of the finished file, if it opens. *)
ReadBack ==
  IF pc # "Done" \/ Reader!Open(File) # "Ok" THEN {}
  ELSE {[tiles |-> {t \in [key : Keys, bytes : Bytes \cup {Reader!Garbage}] :
                     t.bytes = Reader!TileBytes(File, t.key)},
        exts  |-> BagOfSeq(Reader!SectionsFrom(File, extOffset).exts)]}

StorePhase ==
  IF Collecting THEN "Collecting"
  ELSE IF pc = "Done" THEN "Published"
  ELSE IF pc = "Failed" THEN "Abandoned"
  ELSE "Sealed"

TilesCollected ==
  {[key |-> tiles[i].key, bytes |-> tiles[i].content.bytes] : i \in 1..Len(tiles)}

Store == INSTANCE PackStore WITH
  TileKeys    <- Keys,
  ByteStrings <- Bytes,
  Attachments <- Extensions,
  phase       <- StorePhase,
  collected   <- TilesCollected,
  attached    <- BagOfSeq(exts),
  published   <- ReadBack

----------------------------------------------------------------------------
(* The writer, read back through the reader, implements the pack store: a *)
(* published pack returns for each key exactly the bytes added for it.    *)
ImplementsPackStore == Store!Spec

(* The layout as a function of what was collected: a tile starts after the *)
(* index and after the padded bytes of every tile with a smaller key.      *)
Collected == {tiles[i] : i \in 1..Len(tiles)}
CanonicalStart == AlignUp(HeaderSize + Cardinality(Collected) * EntrySize)
Before(k) == {t \in Collected : KeyLess(t.key, k)}
PaddedBytes(T) == SumFunctionOnSet([t \in Collected |-> AlignUp(TileLen(t))], T)
SectionBytes == SumFunctionOnSet([i \in 1..Len(exts) |-> SectionLen(exts[i])], 1..Len(exts))

(* The writer is deterministic: the file depends on the set of tiles and   *)
(* the bag of extensions alone, never on the order of the calls that       *)
(* collected them, so two writers given the same inputs write the same     *)
(* bytes (the comment above the extension sort in finalize).               *)
LayoutIsCanonical ==
  pc = "Done" =>
    /\ \A i \in 1..Len(entries) :
         /\ entries[i].offset = CanonicalStart + PaddedBytes(Before(entries[i].key))
         /\ Cardinality(Before(entries[i].key)) = i - 1
    /\ \A i, j \in 1..Len(sections) : i < j => ExtLeq(sections[i].ext, sections[j].ext)
    /\ pos = CanonicalStart + PaddedBytes(Collected) + SectionBytes + CrcSize
=============================================================================
