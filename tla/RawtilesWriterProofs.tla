------------------------ MODULE RawtilesWriterProofs ------------------------
(***************************************************************************)
(* Proofs about RawtilesWriter and about the modules that extend it,       *)
(* RawtilesPack and PackBuilder, for every set of keys, bytes and          *)
(* extensions and every value of U32Max and of the bounds.                 *)
(*                                                                         *)
(* The writer.  Its invariant is built in layers, each proved from the     *)
(* ones before it: how far each loop has come (Progress), what the         *)
(* planning loop has computed (Planned), and what the output loops have    *)
(* written (Written).                                                      *)
(*                                                                         *)
(* The pack.  The file the writer leaves behind, read back by the reader,  *)
(* implements PackStore, and its layout is what adding up the collected    *)
(* tiles and extensions gives.                                             *)
(*                                                                         *)
(* The builder.  Every step of the builder is a step of the writer or      *)
(* leaves it alone, so what holds of the writer holds of the builder's     *)
(* writer too.  The rest is the link between the two: the stream that was  *)
(* hashed is the accepted tiles one after the other (Accepted), and the    *)
(* writer holds these tiles in the same order, whatever the sort of        *)
(* `finalize` may do (InWriter).                                           *)
(***************************************************************************)
EXTENDS PackBuilder, RawtilesPack, FiniteSums, FunctionTheorems, SequenceTheorems

Planning == {"PlanTiles", "PlanExts", "PlanZooms"}

(* The loop counters and the lengths of what the loops build. *)
Progress ==
  /\ Len(blob) <= Len(entries) /\ Len(entries) <= Len(offsets)
  /\ Len(offsets) <= Len(tiles) /\ Len(sections) <= Len(exts)
  /\ pc \in {"NotBegun", "Building"} => next = 1 /\ offsets = <<>>
  /\ pc = "NotBegun" => tiles = <<>>
  /\ pc = "PlanTiles" => Len(offsets) = next - 1
  /\ pc \in {"PlanExts", "PlanZooms", "Index", "Blob", "Exts", "Done"}
       => Len(offsets) = Len(tiles)
  /\ pc \in {"NotBegun", "Building"} \cup Planning
       => pos = 0 /\ crc = 0 /\ entries = <<>> /\ blob = <<>> /\ sections = <<>>
  /\ pc = "Index" => Len(entries) = next - 1 /\ blob = <<>> /\ sections = <<>>
  /\ pc \in {"Blob", "Exts", "Done"} => Len(entries) = Len(tiles)
  /\ pc = "Blob" => Len(blob) = next - 1 /\ sections = <<>>
  /\ pc \in {"Exts", "Done"} => Len(blob) = Len(tiles)
  /\ pc = "Exts" => Len(sections) = next - 1
  /\ pc = "Done" => Len(sections) = Len(exts)

(* Where the planning loop puts tile i, from the tile before it. *)
OffsetAt(i) ==
  IF i = 1 THEN BlobStart ELSE AlignUp(offsets[i - 1] + TileLen(tiles[i - 1]))

(* The stages at which every tile has its offset. *)
PlanMade == {"PlanExts", "PlanZooms", "Index", "Blob", "Exts", "Done"}

(* What the plan says while it is made and after. *)
Planned ==
  /\ \A i \in 1..Len(offsets) : offsets[i] = OffsetAt(i) /\ offsets[i] % 4 = 0
  /\ \A i, j \in 1..Len(offsets) : i < j => offsets[i] + TileLen(tiles[i]) <= offsets[j]
  /\ \A i \in 1..Len(offsets) : BlobStart <= offsets[i]
  /\ pc = "PlanTiles" =>
       /\ cursor = OffsetAt(next) /\ BlobStart <= cursor /\ cursor % 4 = 0
       /\ \A i \in 1..Len(offsets) : offsets[i] + TileLen(tiles[i]) <= cursor
  /\ pc \in PlanMade =>
       /\ extOffset = OffsetAt(Len(tiles) + 1) /\ BlobStart <= extOffset
       /\ \A i \in 1..Len(offsets) : offsets[i] + TileLen(tiles[i]) <= extOffset

(* What the output holds, and that the limits were checked before it did. *)
Written ==
  /\ \A i \in 1..Len(tiles) : TileLen(tiles[i]) <= U32Max
  /\ pc \in {"PlanZooms", "Index", "Blob", "Exts", "Done"} => extOffset <= U32Max
  /\ \A i \in 1..Len(entries) :
       entries[i] = [key |-> tiles[i].key, offset |-> offsets[i],
                     length |-> TileLen(tiles[i])]
  /\ \A i \in 1..Len(blob) :
       blob[i] = [at |-> offsets[i], bytes |-> tiles[i].content.bytes]
  /\ pc = "Index" => pos = HeaderSize + (next - 1) * EntrySize
  /\ pc = "Blob" => pos = OffsetAt(next)
  /\ LateFailuresAreIo
  /\ Len(entries) > 0 =>
       /\ extOffset <= U32Max
       /\ \A i \in 1..Len(offsets) : offsets[i] + TileLen(tiles[i]) <= extOffset

----------------------------------------------------------------------------
(* Lemmas about the helpers. *)

(* align_up_u64 rounds up to a multiple of four. *)
LEMMA AlignUpFacts ==
  ASSUME NEW v \in Nat
  PROVE  AlignUp(v) \in Nat /\ v <= AlignUp(v) /\ AlignUp(v) % 4 = 0
BY DEF AlignUp

(* Sorting in place keeps a sequence's type, length and elements. *)
LEMMA PermutedFacts ==
  ASSUME NEW S, NEW s \in Seq(S), NEW p \in Rearrangements(Len(s))
  PROVE  /\ Permuted(s, p) \in Seq(S)
         /\ Len(Permuted(s, p)) = Len(s)
         /\ \A i \in 1..Len(s) : \E j \in 1..Len(s) : Permuted(s, p)[i] = s[j]
<1>1. /\ Len(s) \in Nat
      /\ \A i \in 1..Len(s) : p[i] \in 1..Len(s) /\ s[p[i]] \in S
  BY DEF Rearrangements
<1>2. Permuted(s, p) \in [1..Len(s) -> S]
  BY <1>1 DEF Permuted
<1>3. Permuted(s, p) \in Seq(S) /\ Len(Permuted(s, p)) = Len(s)
  BY <1>1, <1>2
<1>4. \A i \in 1..Len(s) : Permuted(s, p)[i] = s[p[i]]
  BY DEF Permuted
<1> QED BY <1>1, <1>3, <1>4

(* Every recorded tile has a natural length. *)
LEMMA TileLenNat ==
  ASSUME NEW t \in Tiles
  PROVE  TileLen(t) \in Nat
BY BytesAssumption DEF Tiles, Contents, TileLen

(* A serialised section has a natural length. *)
LEMMA SectionLenNat ==
  ASSUME NEW e \in Extensions
  PROVE  SectionLen(e) \in Nat
<1>1. PayloadLen[e.payload] \in Nat
  BY ExtensionsAssumption DEF Extensions
<1> QED BY <1>1, AlignUpFacts DEF SectionLen, SectionHeaderSize

(* The blob starts after the index. *)
LEMMA BlobStartFacts ==
  ASSUME Len(tiles) \in Nat
  PROVE  /\ BlobStart \in Nat /\ BlobStart % 4 = 0
         /\ HeaderSize + Len(tiles) * EntrySize \in Nat
         /\ HeaderSize + Len(tiles) * EntrySize <= BlobStart
<1>1. HeaderSize + Len(tiles) * EntrySize \in Nat
  BY DEF HeaderSize, EntrySize
<1> QED BY <1>1, AlignUpFacts DEF BlobStart

----------------------------------------------------------------------------
(* Types and progress. *)

(* Init establishes types and progress. *)
LEMMA InitTyped == Init => TypeOK /\ Progress
BY DEF Init, TypeOK, Progress, NoMeta, NoZoom, Meta, Errors, ZoomOffsetsCount, Planning

(* Every step keeps the types, and every loop its count. *)
LEMMA NextTyped == TypeOK /\ Progress /\ [Next]_vars => TypeOK' /\ Progress'
<1>1. SUFFICES ASSUME TypeOK, Progress, [Next]_vars PROVE TypeOK' /\ Progress'
  OBVIOUS
<1>2. ASSUME NEW m \in Metas, BeginPack(m) PROVE TypeOK' /\ Progress'
  BY <1>1, <1>2, CallersAssumption
     DEF BeginPack, Collecting, Errors, MetadataError, TypeOK, Progress, Planning,
         callVars, planVars, outVars
<1>3. ASSUME RegisterByteSource PROVE TypeOK' /\ Progress'
  BY <1>1, <1>3
     DEF RegisterByteSource, Collecting, Errors, TypeOK, Progress, Planning,
         callVars, planVars, outVars
<1>4. ASSUME NEW e \in Extensions, AddExtension(e) PROVE TypeOK' /\ Progress'
  BY <1>1, <1>4
     DEF AddExtension, Collecting, Errors, TypeOK, Progress, Planning, callVars,
         planVars, outVars
<1>5. ASSUME NEW t \in Tiles, AddTileRef(t) PROVE TypeOK' /\ Progress'
  <2>1. t.key \in Keys
    BY DEF Tiles
  <2>2. Append(tiles, t) \in Seq(Tiles) /\ Len(Append(tiles, t)) = Len(tiles) + 1
    BY <1>1 DEF TypeOK
  <2>3. result' \in Errors
    BY <1>5 DEF AddTileRef, TileVerdict, Errors
  <2>4. CASE result' = "Ok"
    <3>1. pc = "Building"
      BY <1>5, <2>4 DEF AddTileRef, TileVerdict, Collecting
    <3> QED BY <1>1, <1>5, <2>1, <2>2, <2>3, <2>4, <3>1
       DEF AddTileRef, TypeOK, Progress, Planning, callVars, planVars, outVars
  <2>5. CASE result' # "Ok"
    BY <1>1, <1>5, <2>3, <2>5
       DEF AddTileRef, Collecting, TypeOK, Progress, Planning, callVars, planVars,
           outVars
  <2> QED BY <2>4, <2>5
<1>6. ASSUME FinalizeNotBegun PROVE TypeOK' /\ Progress'
  BY <1>1, <1>6
     DEF FinalizeNotBegun, Fail, Errors, TypeOK, Progress, Planning, callVars,
         planVars, outVars
<1>7. ASSUME Finalize PROVE TypeOK' /\ Progress'
  <2>1. /\ tiles' \in Seq(Tiles) /\ Len(tiles') = Len(tiles)
        /\ exts' \in Seq(Extensions) /\ Len(exts') = Len(exts)
    BY <1>1, <1>7, PermutedFacts DEF Finalize, Sort, TypeOK
  <2>2. BlobStart \in Nat
    BY <1>1, BlobStartFacts DEF TypeOK
  <2> QED BY <1>1, <1>7, <2>1, <2>2
     DEF Finalize, Fail, Errors, TypeOK, Progress, Planning, callVars, planVars, outVars
<1>8. ASSUME PlanTile PROVE TypeOK' /\ Progress'
  <2>1. next \in 1..Len(tiles) /\ cursor \in Nat
    BY <1>1, <1>8 DEF PlanTile, AfterTile, TypeOK
  <2>2. TileLen(tiles[next]) \in Nat
    BY <1>1, <2>1, TileLenNat DEF TypeOK
  <2>3. cursor + TileLen(tiles[next]) \in Nat
    BY <2>1, <2>2
  <2>4. AlignUp(cursor + TileLen(tiles[next])) \in Nat
    BY <2>3, AlignUpFacts
  <2> QED BY <1>1, <1>8, <2>1, <2>4
     DEF PlanTile, AfterTile, TypeOK, Progress, Planning, callVars, planVars, outVars
<1>9. ASSUME EndOfTiles PROVE TypeOK' /\ Progress'
  BY <1>1, <1>9 DEF EndOfTiles, TypeOK, Progress, Planning, callVars, planVars, outVars
<1>10. ASSUME PlanExt PROVE TypeOK' /\ Progress'
  <2>1. SectionLen(exts[next]) \in Nat
    BY <1>1, <1>10, SectionLenNat DEF PlanExt, TypeOK
  <2> QED BY <1>1, <1>10, <2>1
     DEF PlanExt, TypeOK, Progress, Planning, callVars, planVars, outVars
<1>11. ASSUME NarrowPlan PROVE TypeOK' /\ Progress'
  BY <1>1, <1>11
     DEF NarrowPlan, PlanTooLarge, Fail, Errors, TypeOK, Progress, Planning, callVars,
         planVars, outVars
<1>12. ASSUME PlanZoom PROVE TypeOK' /\ Progress'
  <2> DEFINE z == tiles[next].key.z
             offset == HeaderSize + (next - 1) * EntrySize
  <2>1. PICK last \in next..Len(tiles) :
          IF offset > U32Max
            THEN Fail("PackTooLarge") /\ UNCHANGED <<next, zoomDir>>
            ELSE /\ zoomDir' = [zoomDir EXCEPT ![z] =
                                  [offset |-> offset, count |-> last - next + 1]]
                 /\ next' = last + 1
                 /\ UNCHANGED <<pc, result>>
    BY <1>12 DEF PlanZoom, DirectoryEntry, NextRun
  <2>2. next \in Nat \ {0} /\ Len(tiles) \in Nat
    BY <1>1 DEF TypeOK
  <2>3. offset \in Nat
    BY <2>2 DEF HeaderSize, EntrySize
  <2>4. last - next + 1 \in Nat /\ last + 1 \in Nat \ {0}
    BY <2>2
  <2>5. /\ zoomDir' \in [0..(ZoomOffsetsCount - 1) -> [offset : Nat, count : Nat]]
        /\ pc' \in {"PlanZooms", "Failed"} /\ result' \in Errors
        /\ next' \in Nat \ {0} /\ pc = "PlanZooms"
        /\ UNCHANGED <<callVars, cursor, offsets, extOffset, outVars>>
    <3> HIDE DEF offset, z
    <3>1. [offset |-> offset, count |-> last - next + 1] \in [offset : Nat, count : Nat]
      BY <2>3, <2>4
    <3>2. zoomDir' \in [0..(ZoomOffsetsCount - 1) -> [offset : Nat, count : Nat]]
      BY <1>1, <2>1, <3>1 DEF TypeOK
    <3>3. pc = "PlanZooms" /\ UNCHANGED <<callVars, cursor, offsets, extOffset, outVars>>
      BY <1>12 DEF PlanZoom, DirectoryEntry, NextRun
    <3> QED BY <1>1, <2>1, <2>4, <3>2, <3>3 DEF Fail, Errors, TypeOK
  <2> QED BY <1>1, <2>5 DEF TypeOK, Progress, Planning, callVars, planVars, outVars
<1>13. ASSUME WriteHeader PROVE TypeOK' /\ Progress'
  BY <1>1, <1>13
     DEF WriteHeader, WriteChunk, HeaderSize, TypeOK, Progress, Planning, callVars,
         planVars, outVars
<1>14. ASSUME WriteEntry PROVE TypeOK' /\ Progress'
  <2>1. next \in 1..Len(tiles) /\ tiles[next] \in Tiles /\ next \in 1..Len(offsets)
    BY <1>1, <1>14 DEF WriteEntry, TypeOK, Progress
  <2>2. offsets[next] \in Nat /\ tiles[next].key \in Keys
    BY <1>1, <2>1 DEF TypeOK, Tiles
  <2>3. TileLen(tiles[next]) \in Nat
    BY <2>1, TileLenNat
  <2> DEFINE entry == [key |-> tiles[next].key, offset |-> offsets[next],
                       length |-> TileLen(tiles[next])]
  <2>4. entry \in [key : Keys, offset : Nat, length : Nat]
    BY <2>2, <2>3
  <2>5. \/ Fail("TileTooLarge") /\ UNCHANGED <<next, pos, crc, entries>>
        \/ Fail("PackTooLarge") /\ UNCHANGED <<next, pos, crc, entries>>
        \/ /\ WriteChunk(EntrySize) /\ entries' = Append(entries, entry)
           /\ next' = next + 1 /\ UNCHANGED <<pc, result>>
    BY <1>14 DEF WriteEntry
  <2>6. pc = "Index" /\ UNCHANGED <<callVars, planVars, blob, sections>>
    BY <1>14 DEF WriteEntry
  <2> HIDE DEF entry
  <2>7. CASE result' \in {"TileTooLarge", "PackTooLarge"} /\ pc' = "Failed"
             /\ UNCHANGED <<next, pos, crc, entries>>
    BY <1>1, <2>6, <2>7
       DEF Errors, TypeOK, Progress, Planning, callVars, planVars, outVars
  <2>8. CASE /\ WriteChunk(EntrySize) /\ entries' = Append(entries, entry)
             /\ next' = next + 1 /\ UNCHANGED <<pc, result>>
    <3>1. /\ entries' \in Seq([key : Keys, offset : Nat, length : Nat])
          /\ Len(entries') = Len(entries) + 1
      BY <1>1, <2>4, <2>8 DEF TypeOK
    <3>2. pos' \in Nat /\ crc' \in Nat
      BY <1>1, <2>8 DEF WriteChunk, EntrySize, TypeOK
    <3> QED BY <1>1, <2>1, <2>6, <2>8, <3>1, <3>2
       DEF TypeOK, Progress, Planning, callVars, planVars, outVars
  <2> QED BY <2>5, <2>7, <2>8 DEF Fail
<1>15. ASSUME PadIndex PROVE TypeOK' /\ Progress'
  <2>1. Len(tiles) \in Nat
    BY <1>1 DEF TypeOK
  <2>2. BlobStart - (HeaderSize + Len(tiles) * EntrySize) \in Nat
    BY <2>1, BlobStartFacts DEF HeaderSize, EntrySize
  <2> QED BY <1>1, <1>15, <2>2
     DEF PadIndex, WriteChunk, TypeOK, Progress, Planning, callVars, planVars, outVars
<1>16. ASSUME WriteTile PROVE TypeOK' /\ Progress'
  <2>1. next \in 1..Len(tiles) /\ tiles[next] \in Tiles /\ next \in 1..Len(offsets)
    BY <1>1, <1>16 DEF WriteTile, TypeOK, Progress
  <2>2. offsets[next] \in Nat
    BY <1>1, <2>1 DEF TypeOK
  <2>3. TileLen(tiles[next]) \in Nat
    BY <2>1, TileLenNat
  <2> DEFINE end == offsets[next] + TileLen(tiles[next])
             chunk == TileLen(tiles[next]) + (AlignUp(end) - end)
  <2>4. end \in Nat
    BY <2>2, <2>3
  <2>5. chunk \in Nat
    <3> HIDE DEF end
    <3> QED BY <2>3, <2>4, AlignUpFacts
  <2>6. pos' = pos + chunk /\ crc' = crc + chunk
    BY <1>16 DEF WriteTile, WriteChunk
  <2>7. [at |-> pos, bytes |-> tiles[next].content.bytes] \in [at : Nat, bytes : Bytes]
    <3>1. tiles[next].content.bytes \in Bytes
      BY <2>1 DEF Tiles, Contents
    <3>2. pos \in Nat
      BY <1>1 DEF TypeOK
    <3> QED BY <3>1, <3>2
  <2> HIDE DEF chunk
  <2> QED BY SMTT(30), <1>1, <1>16, <2>1, <2>5, <2>6, <2>7
     DEF WriteTile, TypeOK, Progress, Planning, callVars, planVars, outVars
<1>17. ASSUME EndOfBlob PROVE TypeOK' /\ Progress'
  BY <1>1, <1>17 DEF EndOfBlob, TypeOK, Progress, Planning, callVars, planVars, outVars
<1>18. ASSUME WriteExt PROVE TypeOK' /\ Progress'
  <2>1. next \in 1..Len(exts) /\ exts[next] \in Extensions
    BY <1>1, <1>18 DEF WriteExt, TypeOK
  <2>2. SectionLen(exts[next]) \in Nat
    BY <2>1, SectionLenNat
  <2>3. [at |-> pos, ext |-> exts[next]] \in [at : Nat, ext : Extensions]
    <3>1. pos \in Nat
      BY <1>1 DEF TypeOK
    <3> QED BY <2>1, <3>1
  <2> DEFINE section == [at |-> pos, ext |-> exts[next]]
             len == SectionLen(exts[next])
  <2>4. /\ pc = "Exts" /\ pc' = "Exts" /\ next' = next + 1
        /\ pos' = pos + len /\ crc' = crc + len
        /\ sections' = Append(sections, section)
        /\ UNCHANGED <<result, callVars, planVars, entries, blob>>
    BY <1>18 DEF WriteExt, WriteChunk
  <2>5. section \in [at : Nat, ext : Extensions] /\ len \in Nat
    BY <2>2, <2>3
  <2> HIDE DEF section, len
  <2>6. TypeOK'
    BY <1>1, <2>4, <2>5 DEF TypeOK, callVars, planVars
  <2>7. Progress'
    BY <1>1, <2>1, <2>4, <2>5 DEF TypeOK, Progress, Planning, callVars, planVars
  <2> QED BY <2>6, <2>7
<1>19. ASSUME WriteCrc PROVE TypeOK' /\ Progress'
  BY <1>1, <1>19
     DEF WriteCrc, CrcSize, Errors, TypeOK, Progress, Planning, callVars, planVars,
         outVars
<1>20. ASSUME SourceIoFails PROVE TypeOK' /\ Progress'
  BY <1>1, <1>20
     DEF SourceIoFails, Fail, Errors, TypeOK, Progress, Planning, callVars, planVars,
         outVars
<1>21. ASSUME OutputIoFails PROVE TypeOK' /\ Progress'
  BY <1>1, <1>21
     DEF OutputIoFails, Fail, Errors, TypeOK, Progress, Planning, callVars, planVars,
         outVars
<1>22. ASSUME UNCHANGED vars PROVE TypeOK' /\ Progress'
  BY <1>1, <1>22 DEF vars, TypeOK, Progress, Planning, callVars, planVars, outVars
<1> QED
  BY <1>1, <1>2, <1>3, <1>4, <1>5, <1>6, <1>7, <1>8, <1>9, <1>10, <1>11, <1>12, <1>13,
     <1>14, <1>15, <1>16, <1>17, <1>18, <1>19, <1>20, <1>21, <1>22
     DEF Next, Collect, Plan, Stream, Consumed

(* Every variable keeps its type, and no loop of finalize runs past what *)
(* it walks.                                                             *)
THEOREM TypeCorrect == Spec => [](TypeOK /\ Progress)
BY InitTyped, NextTyped, PTL DEF Spec

----------------------------------------------------------------------------
(* The plan. *)

(* A step that leaves tiles, offsets and extensions_offset alone and does *)
(* not enter a stage that claims more about them.                         *)
PlanKept ==
  /\ UNCHANGED <<tiles, offsets, extOffset>>
  /\ pc' # "PlanTiles"
  /\ pc' \in PlanMade => pc \in PlanMade

(* Such a step keeps the plan. *)
LEMMA PlanKeptPlanned == Planned /\ PlanKept => Planned'
BY DEF Planned, PlanKept, OffsetAt, BlobStart, TileLen

(* While nothing has been planned the plan says nothing. *)
LEMMA NoPlan ==
  ASSUME offsets = <<>>, pc \notin PlanMade, pc # "PlanTiles"
  PROVE  Planned
BY DEF Planned

(* Every step keeps the plan consistent. *)
LEMMA NextPlanned ==
  TypeOK /\ TypeOK' /\ Progress /\ Progress' /\ Planned /\ [Next]_vars => Planned'
<1>1. SUFFICES ASSUME TypeOK, TypeOK', Progress, Progress', Planned, [Next]_vars
               PROVE  Planned'
  OBVIOUS
<1>2. CASE Collecting /\ pc' \in {"NotBegun", "Building", "Failed"}
  <2>1. offsets = <<>>
    BY <1>1, <1>2 DEF Progress, Collecting
  <2>2. offsets' = <<>>
    BY <1>1, <1>2, <2>1 DEF Next, Collect, Plan, Stream, Consumed, BeginPack,
       RegisterByteSource, AddExtension, AddTileRef, FinalizeNotBegun, Finalize,
       PlanTile, EndOfTiles, PlanExt, NarrowPlan, PlanZoom, WriteHeader, WriteEntry,
       PadIndex, WriteTile, EndOfBlob, WriteExt, WriteCrc, SourceIoFails, OutputIoFails,
       Collecting, planVars, vars
  <2> QED BY <1>2, <2>2, NoPlan DEF Planned, PlanMade
<1>3. ASSUME Finalize, pc' = "PlanTiles" PROVE Planned'
  <2>1. offsets' = <<>> /\ next' = 1 /\ cursor' = BlobStart
    BY <1>1, <1>3 DEF Finalize, Progress, Fail
  <2>2. Len(tiles') = Len(tiles) /\ Len(tiles) \in Nat
    BY <1>1, <1>3, PermutedFacts DEF Finalize, Sort, TypeOK
  <2>3. BlobStart' = BlobStart /\ BlobStart \in Nat /\ BlobStart % 4 = 0
    BY <2>2, BlobStartFacts DEF BlobStart
  <2> QED BY <1>3, <2>1, <2>3 DEF Planned, OffsetAt, PlanMade
<1>4. ASSUME PlanTile PROVE Planned'
  <2> DEFINE n == Len(offsets)
             len == TileLen(tiles[next])
  <2>1. /\ n \in Nat /\ next = n + 1 /\ next \in 1..Len(tiles)
        /\ cursor \in Nat /\ tiles[next] \in Tiles
    <3>1. pc = "PlanTiles" /\ next <= Len(tiles)
      BY <1>4 DEF PlanTile
    <3>2. /\ tiles \in Seq(Tiles) /\ offsets \in Seq(Nat) /\ next \in Nat \ {0}
          /\ cursor \in Nat
      BY <1>1 DEF TypeOK
    <3>3. Len(offsets) = next - 1
      BY <1>1, <3>1 DEF Progress
    <3> QED BY <3>1, <3>2, <3>3
  <2>2. len \in Nat
    BY <2>1, TileLenNat
  <2>3. /\ offsets' = Append(offsets, cursor) /\ cursor' = AlignUp(cursor + len)
        /\ next' = next + 1 /\ pc' = "PlanTiles" /\ tiles' = tiles /\ pc = "PlanTiles"
    BY <1>4 DEF PlanTile, AfterTile, callVars
  <2>4. cursor + len \in Nat /\ cursor <= cursor + len
    BY <2>1, <2>2
  <2>5. cursor' \in Nat /\ cursor + len <= cursor' /\ cursor' % 4 = 0
    BY <2>3, <2>4, AlignUpFacts
  <2>6. /\ \A i \in 1..n : offsets'[i] = offsets[i] /\ offsets[i] \in Nat
        /\ offsets'[n + 1] = cursor /\ Len(offsets') = n + 1
    <3>1. offsets \in Seq(Nat)
      BY <1>1 DEF TypeOK
    <3> QED BY <2>1, <2>3, <3>1
  <2>7. \A i \in 1..n : TileLen(tiles[i]) \in Nat
    <3>1. tiles \in Seq(Tiles)
      BY <1>1 DEF TypeOK
    <3>2. \A i \in 1..n : tiles[i] \in Tiles
      BY <2>1, <3>1
    <3> QED BY <3>2, TileLenNat
  <2>8. BlobStart' = BlobStart /\ BlobStart \in Nat
    <3>1. Len(tiles) \in Nat
      BY <1>1 DEF TypeOK
    <3>2. BlobStart' = BlobStart
      BY <2>3 DEF BlobStart
    <3> QED BY <3>1, <3>2, BlobStartFacts
  <2>9. \A t : TileLen(t)' = TileLen(t)
    BY DEF TileLen
  <2>10. /\ \A i \in 1..n : offsets[i] = OffsetAt(i) /\ offsets[i] % 4 = 0
         /\ \A i, j \in 1..n : i < j => offsets[i] + TileLen(tiles[i]) <= offsets[j]
         /\ \A i \in 1..n : BlobStart <= offsets[i]
         /\ cursor = OffsetAt(next) /\ BlobStart <= cursor /\ cursor % 4 = 0
         /\ \A i \in 1..n : offsets[i] + TileLen(tiles[i]) <= cursor
    BY <1>1, <2>3 DEF Planned
  <2>11. \A i \in 1..(n + 1) : OffsetAt(i)' = OffsetAt(i)
    BY <2>1, <2>3, <2>6, <2>8 DEF OffsetAt, TileLen
  <2>12. \A i : i = n + 2 => OffsetAt(i)' = cursor'
    <3>1. ASSUME NEW i, i = n + 2 PROVE OffsetAt(i)' = cursor'
      <4>1. i # 1 /\ i - 1 = n + 1 /\ tiles' = tiles
        BY <2>1, <2>3, <3>1
      <4>2. OffsetAt(i)' = AlignUp(offsets'[i - 1] + TileLen(tiles'[i - 1]))
        BY <4>1 DEF OffsetAt, TileLen
      <4> QED BY <2>1, <2>3, <2>6, <4>1, <4>2
    <3> QED BY <3>1
  <2> HIDE DEF n, len
  <2>13. \A i \in 1..(n + 1) : offsets'[i] = OffsetAt(i)' /\ offsets'[i] % 4 = 0
    BY <2>1, <2>6, <2>10, <2>11
  <2>14. \A i, j \in 1..(n + 1) : i < j => offsets'[i] + TileLen(tiles[i]) <= offsets'[j]
    BY <2>1, <2>6, <2>10
  <2>15. \A i \in 1..(n + 1) : BlobStart <= offsets'[i]
    BY <2>1, <2>6, <2>10
  <2>16. \A i \in 1..(n + 1) : offsets'[i] + TileLen(tiles[i]) <= cursor'
    <3>1. ASSUME NEW i \in 1..n PROVE offsets'[i] + TileLen(tiles[i]) <= cursor'
      <4>1. /\ offsets'[i] \in Nat /\ TileLen(tiles[i]) \in Nat
            /\ offsets'[i] + TileLen(tiles[i]) <= cursor
        BY <2>6, <2>7, <2>10
      <4>2. cursor <= cursor' /\ cursor \in Nat /\ cursor' \in Nat
        BY <2>1, <2>2, <2>4, <2>5
      <4> QED BY <4>1, <4>2
    <3>2. offsets'[n + 1] + TileLen(tiles[n + 1]) <= cursor'
      BY <2>1, <2>5, <2>6 DEF len
    <3> QED BY <2>1, <3>1, <3>2
  <2>17. BlobStart' <= cursor'
    BY <2>1, <2>2, <2>4, <2>5, <2>8, <2>10
  <2>18. /\ n + 2 = next' /\ Len(offsets') = n + 1 /\ pc' = "PlanTiles" /\ tiles' = tiles
         /\ \A i \in 1..(n + 1) : TileLen(tiles[i])' = TileLen(tiles[i])
    BY <2>1, <2>3, <2>6, <2>9
  <2>19. cursor' = OffsetAt(next)'
    BY <2>12, <2>18
  <2> QED BY <2>5, <2>8, <2>13, <2>14, <2>15, <2>16, <2>17, <2>18, <2>19
          DEF Planned, PlanMade, TileLen
<1>5. ASSUME EndOfTiles PROVE Planned'
  <2>1. /\ UNCHANGED <<tiles, offsets>> /\ extOffset' = cursor /\ pc = "PlanTiles"
        /\ pc' = "PlanExts" /\ next = Len(tiles) + 1
    <3>1. /\ pc = "PlanTiles" /\ next > Len(tiles) /\ extOffset' = cursor
          /\ UNCHANGED <<tiles, offsets>> /\ pc' = "PlanExts"
      BY <1>5 DEF EndOfTiles, callVars
    <3>2. next \in Nat /\ Len(tiles) \in Nat /\ Len(offsets) \in Nat
      <4>1. tiles \in Seq(Tiles) /\ offsets \in Seq(Nat) /\ next \in Nat \ {0}
        BY <1>1 DEF TypeOK
      <4> QED BY <4>1
    <3>3. Len(offsets) = next - 1 /\ Len(offsets) <= Len(tiles)
      BY <1>1, <3>1 DEF Progress
    <3>4. next > Len(tiles)
      BY <3>1
    <3>5. next = Len(tiles) + 1
      BY <3>2, <3>3, <3>4
    <3> QED BY <3>1, <3>5
  <2>2. BlobStart' = BlobStart
    BY <2>1 DEF BlobStart
  <2>3. \A i : TileLen(tiles[i])' = TileLen(tiles[i]) /\ OffsetAt(i)' = OffsetAt(i)
    BY <2>1, <2>2 DEF TileLen, OffsetAt
  <2>4. /\ extOffset' = OffsetAt(Len(tiles) + 1) /\ BlobStart <= extOffset'
        /\ \A i \in 1..Len(offsets) : offsets[i] + TileLen(tiles[i]) <= extOffset'
    BY <1>1, <2>1 DEF Planned
  <2>5. /\ \A i \in 1..Len(offsets) : offsets[i] = OffsetAt(i) /\ offsets[i] % 4 = 0
        /\ \A i, j \in 1..Len(offsets) : i < j => offsets[i] + TileLen(tiles[i]) <= offsets[j]
        /\ \A i \in 1..Len(offsets) : BlobStart <= offsets[i]
    BY <1>1 DEF Planned
  <2>6. OffsetAt(Len(tiles) + 1)' = OffsetAt(Len(tiles) + 1)
    BY <2>1, <2>3
  <2>7. offsets' = offsets /\ pc' # "PlanTiles"
    BY <2>1
  <2> QED BY <2>2, <2>3, <2>4, <2>5, <2>6, <2>7 DEF Planned, TileLen
<1>6. ASSUME \/ PlanExt \/ NarrowPlan \/ PlanZoom \/ WriteHeader \/ WriteEntry \/ PadIndex
             \/ WriteTile \/ EndOfBlob \/ WriteExt \/ WriteCrc \/ SourceIoFails
             \/ OutputIoFails
      PROVE  PlanKept
  BY <1>6 DEF PlanExt, NarrowPlan, PlanZoom, WriteHeader, WriteEntry, PadIndex, WriteTile,
     EndOfBlob, WriteExt, WriteCrc, SourceIoFails, OutputIoFails, Fail, PlanKept, PlanMade,
     callVars, planVars, outVars
<1>7. CASE UNCHANGED vars
  BY <1>1, <1>7 DEF vars, callVars, planVars, Planned, OffsetAt, BlobStart, TileLen
<1>8. ASSUME \/ \E m \in Metas : BeginPack(m)
             \/ RegisterByteSource \/ FinalizeNotBegun
             \/ \E e \in Extensions : AddExtension(e)
             \/ \E t \in Tiles : AddTileRef(t)
      PROVE  Collecting /\ pc' \in {"NotBegun", "Building", "Failed"}
  BY <1>8 DEF BeginPack, RegisterByteSource, FinalizeNotBegun, AddExtension, AddTileRef,
     Collecting, Fail
<1>9. ASSUME Finalize PROVE Collecting /\ pc' \in {"PlanTiles", "Failed"}
  BY <1>9 DEF Finalize, Collecting, Fail
<1> QED BY <1>1, <1>2, <1>3, <1>4, <1>5, <1>6, <1>7, <1>8, <1>9, PlanKeptPlanned
        DEF Next, Collect, Plan, Stream, Consumed

----------------------------------------------------------------------------
(* The output. *)

(* A step that leaves tiles, plan and output alone and enters neither an *)
(* output loop nor, with a new error, Failed after the first byte.       *)
OutputKept ==
  /\ UNCHANGED <<tiles, offsets, extOffset, pos, entries, blob>>
  /\ pc' \notin {"Index", "Blob"}
  /\ pc' \in {"PlanZooms", "Exts", "Done"} => extOffset <= U32Max
  /\ pc' = "Failed" => pos = 0 \/ result' \in {"SourceIo", "OutputIo"}

(* Such a step keeps what is known of the output. *)
LEMMA OutputKeptWritten == Written /\ OutputKept => Written'
BY DEF Written, OutputKept, TileLen, LateFailuresAreIo

(* The next step of an output loop stays within the plan. *)
LEMMA NextInPlan ==
  ASSUME TypeOK, Progress, Planned, Written, pc \in {"Index", "Blob"}, next <= Len(tiles)
  PROVE  /\ next \in 1..Len(tiles) /\ next \in 1..Len(offsets)
         /\ Len(offsets) = Len(tiles) /\ Len(tiles) \in Nat
         /\ tiles[next] \in Tiles /\ TileLen(tiles[next]) \in Nat
         /\ offsets[next] \in Nat /\ offsets[next] = OffsetAt(next)
         /\ TileLen(tiles[next]) <= U32Max /\ offsets[next] <= U32Max
<1>1. /\ tiles \in Seq(Tiles) /\ offsets \in Seq(Nat) /\ next \in Nat \ {0}
      /\ extOffset \in Nat
  BY DEF TypeOK
<1>2. next \in 1..Len(tiles) /\ Len(offsets) = Len(tiles) /\ Len(tiles) \in Nat
  BY <1>1 DEF Progress
<1>3. tiles[next] \in Tiles /\ offsets[next] \in Nat
  BY <1>1, <1>2
<1>4. TileLen(tiles[next]) \in Nat
  BY <1>3, TileLenNat
<1>5. offsets[next] + TileLen(tiles[next]) <= extOffset /\ offsets[next] = OffsetAt(next)
  BY <1>2 DEF Planned, PlanMade
<1>6. TileLen(tiles[next]) <= U32Max /\ extOffset <= U32Max
  BY <1>2 DEF Written
<1>7. offsets[next] <= U32Max
  BY <1>1, <1>3, <1>4, <1>5, <1>6, BoundsAssumption
<1> QED BY <1>2, <1>3, <1>4, <1>5, <1>6, <1>7

(* Every step keeps what is known of the output. *)
LEMMA NextWritten ==
  TypeOK /\ Progress /\ Progress' /\ Planned /\ Written /\ [Next]_vars => Written'
<1>1. SUFFICES ASSUME TypeOK, Progress, Progress', Planned, Written, [Next]_vars
               PROVE  Written'
  OBVIOUS
<1>2. ASSUME \/ \E m \in Metas : BeginPack(m)
             \/ RegisterByteSource \/ FinalizeNotBegun
             \/ \E e \in Extensions : AddExtension(e)
             \/ PlanExt \/ PlanZoom \/ NarrowPlan \/ EndOfBlob
      PROVE  OutputKept
  <2>1. pc \in {"PlanZooms", "Exts"} => extOffset <= U32Max
    BY <1>1 DEF Written
  <2>2. pc = "Blob" => extOffset <= U32Max
    BY <1>1 DEF Written
  <2>3. pc \in {"NotBegun", "Building", "PlanTiles", "PlanExts", "PlanZooms"} => pos = 0
    BY <1>1 DEF Progress, Planning
  <2>4. CASE \/ \E m \in Metas : BeginPack(m)
             \/ RegisterByteSource \/ FinalizeNotBegun
             \/ \E e \in Extensions : AddExtension(e)
    <3>1. UNCHANGED <<tiles, offsets, extOffset, pos, entries, blob>>
      BY <2>4 DEF BeginPack, RegisterByteSource, FinalizeNotBegun, AddExtension, callVars,
         planVars, outVars
    <3>2. pc \in {"NotBegun", "Building"} /\ pc' \in {"NotBegun", "Building", "Failed"}
      BY <2>4 DEF BeginPack, RegisterByteSource, FinalizeNotBegun, AddExtension, Fail,
         Collecting
    <3> QED BY <2>3, <3>1, <3>2 DEF OutputKept
  <2>5. CASE PlanExt \/ EndOfBlob
    BY <2>2, <2>5 DEF PlanExt, EndOfBlob, OutputKept, callVars, planVars, outVars
  <2>6. CASE PlanZoom
    <3>1. /\ pc' = pc \/ pc' = "Failed"
          /\ pc = "PlanZooms"
          /\ UNCHANGED <<tiles, offsets, extOffset, pos, entries, blob>>
      BY <2>6 DEF PlanZoom, Fail, callVars, outVars
    <3> QED BY <2>1, <2>3, <3>1 DEF OutputKept
  <2>7. CASE NarrowPlan
    <3>1. /\ pc = "PlanExts" /\ UNCHANGED <<tiles, offsets, extOffset, pos, entries, blob>>
          /\ pc' = "Failed" \/ (pc' = "PlanZooms" /\ ~(extOffset > U32Max))
      BY <2>7 DEF NarrowPlan, PlanTooLarge, Fail, callVars, planVars, outVars
    <3>2. extOffset \in Nat
      BY <1>1 DEF TypeOK
    <3>3. ~(extOffset > U32Max) => extOffset <= U32Max
      BY <3>2, BoundsAssumption
    <3> QED BY <2>3, <3>1, <3>3 DEF OutputKept
  <2> QED BY <1>2, <2>4, <2>5, <2>6, <2>7
<1>3. ASSUME NEW t \in Tiles, AddTileRef(t) PROVE Written'
  <2>1. /\ pos' = 0 /\ entries' = <<>> /\ blob' = <<>> /\ pc' \in {"NotBegun", "Building"}
    BY <1>1, <1>3 DEF AddTileRef, Progress, Collecting, outVars
  <2>2. /\ \A i \in 1..Len(tiles) : TileLen(tiles[i]) <= U32Max
        /\ tiles \in Seq(Tiles) /\ TileLen(t) \in Nat
    BY <1>1, TileLenNat DEF Written, TypeOK
  <2>3. \/ tiles' = tiles
        \/ tiles' = Append(tiles, t) /\ TileLen(t) <= U32Max
    BY <1>3, <2>2, BoundsAssumption DEF AddTileRef, TileVerdict
  <2>4. \A i \in 1..Len(tiles') : TileLen(tiles'[i]) <= U32Max
    <3>1. CASE tiles' = tiles
      BY <2>2, <3>1
    <3>2. CASE tiles' = Append(tiles, t) /\ TileLen(t) <= U32Max
      BY <2>2, <3>2
    <3> QED BY <2>3, <3>1, <3>2
  <2> QED BY <2>1, <2>4 DEF Written, LateFailuresAreIo, TileLen
<1>4. ASSUME Finalize PROVE Written'
  <2>1. /\ pos' = 0 /\ entries' = <<>> /\ blob' = <<>> /\ pc' \in {"PlanTiles", "Failed"}
    BY <1>1, <1>4 DEF Finalize, Progress, Fail, outVars
  <2>2. /\ Len(tiles') = Len(tiles)
        /\ \A i \in 1..Len(tiles) : \E j \in 1..Len(tiles) : tiles'[i] = tiles[j]
    <3>1. PICK p \in Rearrangements(Len(tiles)) : tiles' = Permuted(tiles, p)
      BY <1>4 DEF Finalize, Sort
    <3>2. tiles \in Seq(Tiles)
      BY <1>1 DEF TypeOK
    <3>3. /\ Len(Permuted(tiles, p)) = Len(tiles)
          /\ \A i \in 1..Len(tiles) : \E j \in 1..Len(tiles) : Permuted(tiles, p)[i] = tiles[j]
      BY <3>2, PermutedFacts
    <3> QED BY <3>1, <3>3
  <2>3. \A i \in 1..Len(tiles') : TileLen(tiles'[i]) <= U32Max
    BY <1>1, <2>2 DEF Written
  <2> QED BY <2>1, <2>3 DEF Written, LateFailuresAreIo, TileLen
<1>5. ASSUME WriteHeader PROVE Written'
  <2>1. /\ entries = <<>> /\ blob = <<>> /\ pos = 0 /\ pc = "PlanZooms" /\ extOffset <= U32Max
    BY <1>1, <1>5 DEF WriteHeader, Progress, Planning, Written
  <2>2. /\ pos' = HeaderSize /\ pc' = "Index" /\ next' = 1
        /\ UNCHANGED <<tiles, offsets, extOffset, entries, blob, result>>
    BY <1>5, <2>1 DEF WriteHeader, WriteChunk, HeaderSize, callVars, planVars
  <2> QED BY <1>1, <2>1, <2>2
          DEF Written, LateFailuresAreIo, TileLen, HeaderSize, EntrySize
<1>6. ASSUME WriteEntry PROVE Written'
  <2>1. /\ pc = "Index" /\ next <= Len(tiles)
    BY <1>6 DEF WriteEntry
  <2>2. /\ next \in 1..Len(tiles) /\ TileLen(tiles[next]) \in Nat /\ offsets[next] \in Nat
        /\ TileLen(tiles[next]) <= U32Max /\ offsets[next] <= U32Max
    BY <1>1, <2>1, NextInPlan
  <2> DEFINE entry == [key |-> tiles[next].key, offset |-> offsets[next],
                       length |-> TileLen(tiles[next])]
  <2>3. /\ ~(TileLen(tiles[next]) > U32Max) /\ ~(offsets[next] > U32Max)
    BY <2>2, BoundsAssumption
  <2>4. /\ pos' = pos + EntrySize /\ entries' = Append(entries, entry)
        /\ next' = next + 1 /\ pc' = "Index"
        /\ UNCHANGED <<tiles, offsets, extOffset, blob, result>>
    BY <1>6, <2>1, <2>3 DEF WriteEntry, WriteChunk, callVars, planVars
  <2>5. /\ entries \in Seq([key : Keys, offset : Nat, length : Nat])
        /\ Len(entries) = next - 1 /\ next \in Nat
        /\ pos = HeaderSize + (next - 1) * EntrySize
    BY <1>1, <2>1 DEF TypeOK, Progress, Written
  <2>6. \A i \in 1..Len(entries) :
          entries[i] = [key |-> tiles[i].key, offset |-> offsets[i],
                        length |-> TileLen(tiles[i])]
    BY <1>1 DEF Written
  <2>7. \A i \in 1..Len(entries') :
          entries'[i] = [key |-> tiles[i].key, offset |-> offsets[i],
                         length |-> TileLen(tiles[i])]
    <3> HIDE DEF entry
    <3>1. \A i \in 1..Len(entries') :
            entries'[i] = IF i = next THEN entry ELSE entries[i]
      BY <2>4, <2>5
    <3>2. Len(entries') = next
      BY <2>4, <2>5
    <3>3. ASSUME NEW i \in 1..Len(entries')
          PROVE  entries'[i] = [key |-> tiles[i].key, offset |-> offsets[i],
                                length |-> TileLen(tiles[i])]
      <4>1. CASE i = next
        BY <3>1, <4>1 DEF entry
      <4>2. CASE i # next
        <5>1. i \in 1..Len(entries)
          BY <2>5, <3>2, <4>2
        <5>2. entries'[i] = entries[i]
          BY <3>1, <4>2
        <5> QED BY <2>6, <5>1, <5>2
      <4> QED BY <4>1, <4>2
    <3> QED BY <3>3
  <2>8. pos' = HeaderSize + (next' - 1) * EntrySize
    BY <2>4, <2>5 DEF HeaderSize, EntrySize
  <2>9. /\ extOffset <= U32Max
        /\ \A i \in 1..Len(offsets) : offsets[i] + TileLen(tiles[i]) <= extOffset
    BY <1>1, <2>1 DEF Written, Planned, PlanMade
  <2> HIDE DEF entry
  <2> QED BY <1>1, <2>4, <2>7, <2>8, <2>9 DEF Written, LateFailuresAreIo, TileLen
<1>7. ASSUME PadIndex PROVE Written'
  <2>1. /\ pc = "Index" /\ next = Len(tiles) + 1 /\ Len(tiles) \in Nat /\ blob = <<>>
    <3>1. pc = "Index" /\ next > Len(tiles)
      BY <1>7 DEF PadIndex
    <3>2. /\ next \in Nat /\ Len(tiles) \in Nat /\ Len(entries) \in Nat
          /\ Len(offsets) \in Nat
      BY <1>1 DEF TypeOK
    <3>3. /\ Len(entries) = next - 1 /\ Len(entries) <= Len(offsets)
          /\ Len(offsets) <= Len(tiles) /\ blob = <<>>
      BY <1>1, <3>1 DEF Progress
    <3> QED BY <3>1, <3>2, <3>3
  <2>2. pos = HeaderSize + Len(tiles) * EntrySize
    BY <1>1, <2>1 DEF Written
  <2>3. /\ pos' = pos + (BlobStart - (HeaderSize + Len(tiles) * EntrySize))
        /\ pc' = "Blob" /\ next' = 1
        /\ UNCHANGED <<tiles, offsets, extOffset, entries, blob, result>>
    BY <1>7 DEF PadIndex, WriteChunk, callVars, planVars
  <2>4. BlobStart \in Nat /\ HeaderSize + Len(tiles) * EntrySize \in Nat
    BY <2>1, BlobStartFacts
  <2>5. pos' = BlobStart'
    <3>1. pos' = BlobStart
      BY <2>2, <2>3, <2>4 DEF HeaderSize, EntrySize
    <3> QED BY <2>3, <3>1 DEF BlobStart
  <2>6. pos' = OffsetAt(next)'
    BY <2>3, <2>5 DEF OffsetAt
  <2> QED BY <1>1, <2>1, <2>3, <2>6 DEF Written, LateFailuresAreIo, TileLen
<1>8. ASSUME WriteTile PROVE Written'
  <2>1. pc = "Blob" /\ next <= Len(tiles)
    BY <1>8 DEF WriteTile
  <2>2. /\ next \in 1..Len(tiles) /\ TileLen(tiles[next]) \in Nat /\ offsets[next] \in Nat
        /\ offsets[next] = OffsetAt(next)
    BY <1>1, <2>1, NextInPlan
  <2> DEFINE chunk == [at |-> pos, bytes |-> tiles[next].content.bytes]
             end == offsets[next] + TileLen(tiles[next])
  <2>3. /\ pos' = pos + (TileLen(tiles[next]) + (AlignUp(end) - end))
        /\ blob' = Append(blob, chunk) /\ next' = next + 1 /\ pc' = "Blob"
        /\ UNCHANGED <<tiles, offsets, extOffset, entries, result>>
    BY <1>8, <2>1 DEF WriteTile, WriteChunk, callVars, planVars
  <2>4. end \in Nat /\ AlignUp(end) \in Nat
    <3>1. end \in Nat
      BY <2>2
    <3> QED BY <3>1, AlignUpFacts
  <2>5. pos = offsets[next]
    BY <1>1, <2>1, <2>2 DEF Written
  <2>6. pos' = AlignUp(end)
    <3>1. \A o, len, a \in Nat : o + (len + (a - (o + len))) = a
      OBVIOUS
    <3>2. offsets[next] + (TileLen(tiles[next]) + (AlignUp(end) - end)) = AlignUp(end)
      BY <2>2, <2>4, <3>1
    <3> QED BY <2>3, <2>5, <3>2
  <2>7. pos' = OffsetAt(next)'
    <3>1. next \in Nat \ {0}
      BY <2>2
    <3>2. next + 1 # 1 /\ (next + 1) - 1 = next
      BY <3>1
    <3>3. OffsetAt(next)' = AlignUp(offsets[next] + TileLen(tiles[next]))
      BY <2>3, <3>2 DEF OffsetAt, TileLen
    <3> QED BY <2>6, <3>3
  <2>8. /\ blob \in Seq([at : Nat, bytes : Bytes]) /\ Len(blob) = next - 1 /\ next \in Nat
        /\ \A i \in 1..Len(blob) :
             blob[i] = [at |-> offsets[i], bytes |-> tiles[i].content.bytes]
    BY <1>1, <2>1 DEF TypeOK, Progress, Written
  <2>9. \A i \in 1..Len(blob') :
          blob'[i] = [at |-> offsets[i], bytes |-> tiles[i].content.bytes]
    <3> HIDE DEF chunk
    <3>1. Len(blob') = next /\ \A i \in 1..next : blob'[i] = IF i = next THEN chunk ELSE blob[i]
      BY <2>3, <2>8
    <3>2. ASSUME NEW i \in 1..Len(blob')
          PROVE  blob'[i] = [at |-> offsets[i], bytes |-> tiles[i].content.bytes]
      <4>1. CASE i = next
        BY <2>5, <3>1, <4>1 DEF chunk
      <4>2. CASE i # next
        <5>1. i \in 1..Len(blob) /\ i \in 1..next
          BY <2>8, <3>1, <4>2
        <5>2. blob'[i] = blob[i]
          BY <3>1, <4>2, <5>1
        <5> QED BY <2>8, <5>1, <5>2
      <4> QED BY <4>1, <4>2
    <3> QED BY <3>2
  <2> HIDE DEF chunk, end
  <2> QED BY <1>1, <2>1, <2>3, <2>7, <2>9 DEF Written, LateFailuresAreIo, TileLen
<1>9. ASSUME WriteExt \/ WriteCrc \/ SourceIoFails \/ OutputIoFails PROVE Written'
  <2>1. /\ UNCHANGED <<tiles, offsets, extOffset, entries, blob>>
        /\ pc' \in {"Exts", "Done", "Failed"}
        /\ pc' \in {"Exts", "Done"} => pc = "Exts"
        /\ pc' = "Failed" => result' \in {"SourceIo", "OutputIo"}
    BY <1>9 DEF WriteExt, WriteCrc, SourceIoFails, OutputIoFails, Fail, callVars, planVars,
       outVars
  <2> QED BY <1>1, <2>1 DEF Written, LateFailuresAreIo, TileLen
<1>10. ASSUME PlanTile \/ EndOfTiles PROVE Written'
  <2>1. /\ tiles' = tiles /\ entries' = <<>> /\ blob' = <<>> /\ pos' = 0
        /\ pc' \in {"PlanTiles", "PlanExts"}
    BY <1>1, <1>10 DEF PlanTile, EndOfTiles, Progress, Planning, callVars, outVars
  <2> QED BY <1>1, <2>1 DEF Written, LateFailuresAreIo, TileLen
<1>11. CASE UNCHANGED vars
  BY <1>1, <1>11
     DEF vars, callVars, planVars, outVars, Written, LateFailuresAreIo, TileLen, OffsetAt,
         BlobStart
<1> QED BY <1>1, <1>2, <1>3, <1>4, <1>5, <1>6, <1>7, <1>8, <1>9, <1>10, <1>11, OutputKeptWritten
        DEF Next, Collect, Plan, Stream, Consumed

----------------------------------------------------------------------------
(* The theorems. *)

(* The layers together. *)
LayoutInv == TypeOK /\ Progress /\ Planned /\ Written

(* The writer starts with an empty plan and an empty output. *)
LEMMA InitLayout == Init => LayoutInv
<1>1. Init => TypeOK /\ Progress
  BY InitTyped
<1>2. Init => Planned
  BY NoPlan DEF Init, PlanMade
<1>3. Init => Written
  BY DEF Init, Written, LateFailuresAreIo
<1> QED BY <1>1, <1>2, <1>3 DEF LayoutInv

(* The layers hold in every reachable state. *)
THEOREM LayoutHolds == Spec => []LayoutInv
<1>1. LayoutInv /\ [Next]_vars => LayoutInv'
  BY NextTyped, NextPlanned, NextWritten DEF LayoutInv
<1> QED BY InitLayout, <1>1, PTL DEF Spec

(* Every variable keeps its type. *)
THEOREM Typed == Spec => []TypeOK
<1>1. LayoutInv => TypeOK
  BY DEF LayoutInv
<1> QED BY LayoutHolds, <1>1, PTL

(* In such a state every index entry points at its tile. *)
LEMMA LayoutPoints == LayoutInv => IndexPointsAtTiles
<1> SUFFICES ASSUME LayoutInv, NEW i \in 1..Len(blob)
             PROVE  /\ blob[i].at = entries[i].offset
                    /\ ByteLen[blob[i].bytes] = entries[i].length
                    /\ entries[i].key = tiles[i].key
                    /\ blob[i].bytes = tiles[i].content.bytes
                    /\ blob[i].at % 4 = 0
  BY DEF IndexPointsAtTiles
<1>1. /\ Len(blob) \in Nat /\ Len(entries) \in Nat /\ Len(offsets) \in Nat
      /\ Len(blob) <= Len(entries) /\ Len(entries) <= Len(offsets)
  <2>1. /\ blob \in Seq([at : Nat, bytes : Bytes]) /\ offsets \in Seq(Nat)
        /\ entries \in Seq([key : Keys, offset : Nat, length : Nat])
    BY DEF LayoutInv, TypeOK
  <2>2. Len(blob) <= Len(entries) /\ Len(entries) <= Len(offsets)
    BY DEF LayoutInv, Progress
  <2> QED BY <2>1, <2>2
<1>2. i \in 1..Len(entries) /\ i \in 1..Len(offsets)
  BY <1>1
<1>3. /\ blob[i] = [at |-> offsets[i], bytes |-> tiles[i].content.bytes]
      /\ entries[i] = [key |-> tiles[i].key, offset |-> offsets[i],
                       length |-> TileLen(tiles[i])]
  BY <1>2 DEF LayoutInv, Written
<1>4. offsets[i] % 4 = 0
  BY <1>2 DEF LayoutInv, Planned
<1> QED BY <1>3, <1>4 DEF TileLen

(* The offset and length of an index entry are those of the tile's bytes in *)
(* the stream, for any tiles, contents and limits: the planning loop of     *)
(* finalize and its output loop agree.                                      *)
THEOREM PlanMatchesStream == Spec => []IndexPointsAtTiles
BY LayoutHolds, LayoutPoints, PTL

(* In such a state the tiles are disjoint. *)
LEMMA LayoutDisjoint == LayoutInv => ExtentsDisjoint
<1> SUFFICES ASSUME LayoutInv PROVE ExtentsDisjoint
  OBVIOUS
<1>1. /\ Len(entries) \in Nat /\ Len(offsets) \in Nat /\ Len(entries) <= Len(offsets)
      /\ Len(tiles) \in Nat
  <2>1. /\ tiles \in Seq(Tiles) /\ offsets \in Seq(Nat)
        /\ entries \in Seq([key : Keys, offset : Nat, length : Nat])
    BY DEF LayoutInv, TypeOK
  <2>2. Len(entries) <= Len(offsets)
    BY DEF LayoutInv, Progress
  <2> QED BY <2>1, <2>2
<1>2. \A i \in 1..Len(entries) :
        /\ i \in 1..Len(offsets)
        /\ entries[i].offset = offsets[i] /\ entries[i].length = TileLen(tiles[i])
  <2> SUFFICES ASSUME NEW i \in 1..Len(entries)
               PROVE  /\ i \in 1..Len(offsets)
                      /\ entries[i].offset = offsets[i]
                      /\ entries[i].length = TileLen(tiles[i])
    OBVIOUS
  <2>1. entries[i] = [key |-> tiles[i].key, offset |-> offsets[i],
                      length |-> TileLen(tiles[i])]
    BY DEF LayoutInv, Written
  <2>2. i \in 1..Len(offsets)
    BY <1>1
  <2> QED BY <2>1, <2>2
<1>3. \A i, j \in 1..Len(entries) :
        i < j => entries[i].offset + entries[i].length <= entries[j].offset
  <2>1. \A i, j \in 1..Len(offsets) : i < j => offsets[i] + TileLen(tiles[i]) <= offsets[j]
    BY DEF LayoutInv, Planned
  <2> QED BY <1>2, <2>1
<1>4. \A i \in 1..Len(entries) : entries[i].offset + entries[i].length <= extOffset
  <2> SUFFICES ASSUME NEW i \in 1..Len(entries)
               PROVE  entries[i].offset + entries[i].length <= extOffset
    OBVIOUS
  <2>1. Len(entries) > 0
    BY <1>1
  <2> QED BY <1>2, <2>1 DEF LayoutInv, Written
<1>5. \A i \in 1..Len(entries) : BlobStart <= offsets[i] /\ offsets[i] \in Nat
  <2>1. \A i \in 1..Len(offsets) : BlobStart <= offsets[i]
    BY DEF LayoutInv, Planned
  <2>2. offsets \in Seq(Nat)
    BY DEF LayoutInv, TypeOK
  <2> QED BY <1>2, <2>1, <2>2
<1>6. /\ BlobStart \in Nat /\ HeaderSize + Len(tiles) * EntrySize \in Nat
      /\ HeaderSize + Len(tiles) * EntrySize <= BlobStart
  BY <1>1, BlobStartFacts
<1>7. \A i \in 1..Len(entries) : entries[i].offset >= HeaderSize + Len(tiles) * EntrySize
  <2> SUFFICES ASSUME NEW i \in 1..Len(entries)
               PROVE  entries[i].offset >= HeaderSize + Len(tiles) * EntrySize
    OBVIOUS
  <2> DEFINE indexEnd == HeaderSize + Len(tiles) * EntrySize
  <2>1. /\ indexEnd \in Nat /\ indexEnd <= BlobStart /\ BlobStart <= offsets[i]
        /\ BlobStart \in Nat /\ offsets[i] \in Nat
    BY <1>5, <1>6
  <2> HIDE DEF indexEnd
  <2>2. offsets[i] >= indexEnd
    BY <2>1
  <2> QED BY <1>2, <2>2 DEF indexEnd
<1> QED BY <1>3, <1>4, <1>7 DEF ExtentsDisjoint

(* No two tiles of a pack overlap, and none reaches into the index before *)
(* the blob or into the extension area after it.                          *)
THEOREM TilesDoNotOverlap == Spec => []ExtentsDisjoint
BY LayoutHolds, LayoutDisjoint, PTL

(* Once the first byte is out, only the byte source and the output can make *)
(* finalize fail: the limits it still tests in its output loop cannot fail. *)
THEOREM LimitsCheckedFirst == Spec => []LateFailuresAreIo
<1>1. LayoutInv => LateFailuresAreIo
  BY DEF LayoutInv, Written
<1> QED BY LayoutHolds, <1>1, PTL

----------------------------------------------------------------------------
(* The zoom directory.  The tiles are sorted before the plan is made, so   *)
(* one level's tiles lie together; the directory loop goes from run to     *)
(* run, and between two runs the directory selects exactly the tiles it    *)
(* has passed.                                                             *)

(* The slice of the index that the directory gives for level z. *)
Selected(z, i) ==
  LET first == (zoomDir[z].offset - HeaderSize) \div EntrySize
  IN i > first /\ i <= first + zoomDir[z].count

(* The directory selects the first n tiles, each at its level. *)
Selects(n) ==
  \A z \in 0..(ZoomOffsetsCount - 1) : \A i \in 1..Len(tiles) :
    Selected(z, i) <=> i <= n /\ tiles[i].key.z = z

Directory ==
  /\ pc \in Planning \cup {"Index", "Blob", "Exts", "Done"} => KeySorted(tiles)
  /\ pc \in {"NotBegun", "Building", "PlanTiles", "PlanExts"} =>
       zoomDir = [z \in 0..(ZoomOffsetsCount - 1) |-> NoZoom]
  /\ pc = "PlanZooms" =>
       /\ next <= Len(tiles) + 1 /\ Selects(next - 1)
       /\ 1 < next /\ next <= Len(tiles) => tiles[next - 1].key.z # tiles[next].key.z
  /\ pc \in {"Index", "Blob", "Exts", "Done"} => Selects(Len(tiles))

----------------------------------------------------------------------------
(* In sorted tiles the levels do not decrease. *)
LEMMA LevelsAscend ==
  ASSUME TypeOK, KeySorted(tiles), NEW i \in 1..Len(tiles), NEW j \in 1..Len(tiles), i <= j
  PROVE  tiles[i].key.z \in Nat /\ tiles[i].key.z <= tiles[j].key.z
<1>1. \A k \in 1..Len(tiles) : tiles[k].key.z \in Nat
  <2> SUFFICES ASSUME NEW k \in 1..Len(tiles) PROVE tiles[k].key.z \in Nat
    OBVIOUS
  <2>1. tiles[k] \in Tiles
    BY DEF TypeOK
  <2>2. tiles[k].key \in Key
    BY <2>1, KeysAssumption DEF Tiles
  <2> QED BY <2>2 DEF Key
<1>2. i < j => KeyLess(tiles[i].key, tiles[j].key)
  BY DEF KeySorted
<1> QED BY <1>1, <1>2 DEF KeyLess

(* An empty directory selects nothing: an absent level points before the   *)
(* index.                                                                  *)
LEMMA NothingSelected ==
  ASSUME zoomDir = [z \in 0..(ZoomOffsetsCount - 1) |-> NoZoom] PROVE Selects(0)
<1>1. (0 - HeaderSize) \div EntrySize \in Int
  <2>1. 0 - HeaderSize \in Int /\ EntrySize \in Nat \ {0}
    BY DEF HeaderSize, EntrySize
  <2> QED BY <2>1
<1>2. \A z \in 0..(ZoomOffsetsCount - 1) : zoomDir[z].offset = 0 /\ zoomDir[z].count = 0
  BY DEF NoZoom
<1> QED BY <1>1, <1>2 DEF Selects, Selected

(* A step that leaves tiles and directory alone and does not reach a stage *)
(* that claims more.                                                       *)
DirectoryKept ==
  /\ UNCHANGED <<tiles, zoomDir>>
  /\ \/ pc' = pc \/ pc' = "Failed"
     \/ pc \in {"NotBegun", "Building"} /\ pc' \in {"NotBegun", "Building"}
     \/ pc = "PlanTiles" /\ pc' = "PlanExts"
     \/ pc \in {"Index", "Blob", "Exts"} /\ pc' \in {"Index", "Blob", "Exts", "Done"}
  /\ pc = "PlanZooms" => pc' = "Failed" \/ next' = next

(* Such a step keeps what is said of the directory. *)
LEMMA KeptDirectory == Directory /\ DirectoryKept => Directory'
BY DEF Directory, DirectoryKept, Planning, Selects, Selected, KeySorted

(* One turn of the directory loop. *)
LEMMA PlanZoomDirectory == TypeOK /\ Directory /\ PlanZoom => Directory'
<1> SUFFICES ASSUME TypeOK, Directory, PlanZoom PROVE Directory'
  OBVIOUS
<1> DEFINE z == tiles[next].key.z
           levels == 0..(ZoomOffsetsCount - 1)
<1>1. /\ pc = "PlanZooms" /\ next \in 1..Len(tiles) /\ tiles' = tiles
      /\ Len(tiles) \in Nat
  BY DEF PlanZoom, TypeOK, callVars
<1>2. PICK last \in next..Len(tiles) :
        /\ \A j \in next..last : tiles[j].key.z = z
        /\ last < Len(tiles) => tiles[last + 1].key.z # z
        /\ IF DirectoryEntry(next, last).offset > U32Max
             THEN Fail("PackTooLarge") /\ UNCHANGED <<next, zoomDir>>
             ELSE /\ zoomDir' = [zoomDir EXCEPT ![z] = DirectoryEntry(next, last)]
                  /\ next' = NextRun(last)
                  /\ UNCHANGED <<pc, result>>
  BY DEF PlanZoom
<1>3. CASE DirectoryEntry(next, last).offset > U32Max
  <2>1. pc' = "Failed"
    BY <1>2, <1>3 DEF Fail
  <2> QED BY <2>1 DEF Directory, Planning
<1>4. CASE ~(DirectoryEntry(next, last).offset > U32Max)
  <2>1. /\ zoomDir' = [zoomDir EXCEPT ![z] = DirectoryEntry(next, last)]
        /\ next' = last + 1 /\ pc' = "PlanZooms"
    BY <1>1, <1>2, <1>4 DEF NextRun
  <2>2. KeySorted(tiles) /\ Selects(next - 1)
    BY <1>1 DEF Directory, Planning
  <2>3. ASSUME NEW i \in 1..(next - 1) PROVE tiles[i].key.z # z
    <3>1. next - 1 \in 1..Len(tiles) /\ i \in 1..Len(tiles) /\ i <= next - 1 /\ 1 < next
      BY <1>1, <2>3
    <3>2. /\ tiles[i].key.z \in Nat /\ tiles[i].key.z <= tiles[next - 1].key.z
      BY <2>2, <3>1, LevelsAscend
    <3>3. tiles[next - 1].key.z \in Nat /\ tiles[next - 1].key.z <= z /\ z \in Nat
      BY <1>1, <2>2, <3>1, LevelsAscend
    <3>4. tiles[next - 1].key.z # z
      BY <1>1, <3>1 DEF Directory
    <3> QED BY <3>2, <3>3, <3>4
  <2>4. ASSUME NEW y \in levels, NEW i \in 1..Len(tiles)
        PROVE  Selected(y, i)' <=> i <= last /\ tiles[i].key.z = y
    <3>1. CASE y = z
      <4>1. zoomDir'[y] = DirectoryEntry(next, last)
        BY <2>1, <2>4, <3>1 DEF TypeOK
      <4>2. last \in Nat /\ next \in Nat /\ next <= last
        BY <1>1, <1>2
      <4>3. (zoomDir'[y].offset - HeaderSize) \div EntrySize = next - 1
        BY <4>1, <4>2 DEF DirectoryEntry, HeaderSize, EntrySize
      <4>4. zoomDir'[y].count = last - next + 1
        BY <4>1 DEF DirectoryEntry
      <4>5. Selected(y, i)' <=> i >= next /\ i <= last
        BY <4>2, <4>3, <4>4 DEF Selected, HeaderSize, EntrySize
      <4>6. i >= next /\ i <= last => tiles[i].key.z = z
        BY <1>2, <4>2
      <4>7. ~(i >= next) => tiles[i].key.z # z
        BY <2>3, <4>2
      <4> QED BY <3>1, <4>5, <4>6, <4>7
    <3>2. CASE y # z
      <4>1. zoomDir'[y] = zoomDir[y]
        BY <2>1, <3>2
      <4>2. Selected(y, i)' <=> Selected(y, i)
        BY <4>1 DEF Selected, HeaderSize, EntrySize
      <4>3. Selected(y, i) <=> i <= next - 1 /\ tiles[i].key.z = y
        BY <2>2, <2>4 DEF Selects
      <4>4. last \in Nat /\ next \in Nat /\ next <= last
        BY <1>1, <1>2
      <4>5. i > next - 1 /\ i <= last => tiles[i].key.z = z
        BY <1>2, <4>4
      <4> QED BY <3>2, <4>2, <4>3, <4>4, <4>5
    <3> QED BY <3>1, <3>2
  <2>5. Selects(next - 1)'
    <3>1. next' - 1 = last
      BY <1>1, <1>2, <2>1
    <3>2. \A y \in levels : \A i \in 1..Len(tiles') :
            Selected(y, i)' <=> i <= next' - 1 /\ tiles'[i].key.z = y
      BY <1>1, <2>4, <3>1
    <3> QED BY <3>2 DEF Selects, Selected
  <2>6. 1 < next' /\ next' <= Len(tiles') => tiles'[next' - 1].key.z # tiles'[next'].key.z
    <3>1. last \in next..last /\ last + 1 - 1 = last
      BY <1>1, <1>2
    <3>2. tiles[last].key.z = z
      BY <1>2, <3>1
    <3> QED BY <1>1, <1>2, <2>1, <3>1, <3>2
  <2>7. next' <= Len(tiles') + 1 /\ KeySorted(tiles')
    BY <1>1, <1>2, <2>1, <2>2
  <2> QED BY <2>1, <2>5, <2>6, <2>7 DEF Directory, Planning
<1> QED BY <1>3, <1>4

(* The directory starts empty. *)
LEMMA InitDirectory == Init => Directory
BY DEF Init, Directory, Planning

(* Every step keeps it. *)
LEMMA NextDirectory == TypeOK /\ Progress /\ Directory /\ [Next]_vars => Directory'
<1> SUFFICES ASSUME TypeOK, Progress, Directory, [Next]_vars PROVE Directory'
  OBVIOUS
<1> USE DEF DirectoryKept, callVars, planVars, outVars, Fail
<1>1. ASSUME NEW m \in Metas, BeginPack(m) PROVE DirectoryKept
  BY <1>1 DEF BeginPack, Collecting
<1>2. ASSUME NEW e \in Extensions, AddExtension(e) PROVE DirectoryKept
  BY <1>2 DEF AddExtension, Collecting
<1>3. ASSUME NEW t \in Tiles, AddTileRef(t) PROVE Directory'
  <2>1. pc \in {"NotBegun", "Building"} /\ pc' = pc /\ zoomDir' = zoomDir
    BY <1>3 DEF AddTileRef, Collecting
  <2> QED BY <2>1 DEF Directory, Planning
<1>4. ASSUME RegisterByteSource \/ FinalizeNotBegun PROVE DirectoryKept
  BY <1>4 DEF RegisterByteSource, FinalizeNotBegun, Collecting
<1>5. CASE Finalize
  <2>1. pc = "Building" /\ zoomDir' = zoomDir /\ KeySorted(tiles') /\ pc' \in {"PlanTiles", "Failed"}
    BY <1>5 DEF Finalize, Sort
  <2> QED BY <2>1 DEF Directory, Planning
<1>6. ASSUME PlanTile \/ EndOfTiles \/ PlanExt PROVE DirectoryKept
  BY <1>6 DEF PlanTile, EndOfTiles, PlanExt
<1>7. CASE NarrowPlan
  <2>1. CASE PlanTooLarge
    <3>1. pc' = "Failed"
      BY <1>7, <2>1 DEF NarrowPlan
    <3> QED BY <3>1 DEF Directory, Planning
  <2>2. CASE ~PlanTooLarge
    <3>1. pc = "PlanExts" /\ pc' = "PlanZooms" /\ next' = 1 /\ UNCHANGED <<tiles, zoomDir>>
      BY <1>7, <2>2 DEF NarrowPlan
    <3>2. Selects(0) /\ KeySorted(tiles) /\ Len(tiles) \in Nat
      BY <3>1, NothingSelected DEF Directory, Planning, TypeOK
    <3>3. Selects(next - 1)'
      BY <3>1, <3>2 DEF Selects, Selected
    <3>4. KeySorted(tiles')
      BY <3>1, <3>2
    <3> QED BY <3>1, <3>2, <3>3, <3>4 DEF Directory, Planning
  <2> QED BY <2>1, <2>2
<1>8. CASE WriteHeader
  <2>1. pc = "PlanZooms" /\ pc' = "Index" /\ UNCHANGED <<tiles, zoomDir>> /\ next > Len(tiles)
    BY <1>8 DEF WriteHeader
  <2>2. Selects(next - 1) /\ next <= Len(tiles) + 1 /\ KeySorted(tiles)
    BY <2>1 DEF Directory, Planning
  <2>4. next - 1 = Len(tiles)
    <3>1. next \in Nat /\ Len(tiles) \in Nat
      BY DEF TypeOK
    <3> QED BY <2>1, <2>2, <3>1
  <2>3. Selects(Len(tiles))' /\ KeySorted(tiles')
    BY <2>1, <2>2, <2>4 DEF Selects, Selected
  <2> QED BY <2>1, <2>3 DEF Directory, Planning
<1>9. ASSUME WriteEntry \/ PadIndex \/ WriteTile \/ EndOfBlob \/ WriteExt \/ WriteCrc
      PROVE  DirectoryKept
  BY <1>9 DEF WriteEntry, PadIndex, WriteTile, EndOfBlob, WriteExt, WriteCrc
<1>10. ASSUME SourceIoFails \/ OutputIoFails PROVE DirectoryKept
  BY <1>10 DEF SourceIoFails, OutputIoFails
<1>11. ASSUME Consumed \/ UNCHANGED vars PROVE DirectoryKept
  BY <1>11 DEF Consumed, vars
<1> QED
  BY <1>1, <1>2, <1>3, <1>4, <1>5, <1>6, <1>7, <1>8, <1>9, <1>10, <1>11, KeptDirectory,
     PlanZoomDirectory DEF Next, Collect, Plan, Stream

(* For any tiles and any order in which they were added, every level of    *)
(* the zoom directory selects exactly the index entries of that level, in  *)
(* an index that is strictly sorted.                                       *)
THEOREM DirectoryIsRight == Spec => []DirectorySelectsLevels
<1>1. TypeOK /\ Directory => DirectorySelectsLevels
  BY DEF TypeOK, Directory, Planning, DirectorySelectsLevels, Streaming, Selects, Selected
<1>2. TypeOK /\ Progress /\ Directory /\ [Next]_vars => Directory'
  BY NextDirectory
<1> QED BY <1>1, <1>2, InitDirectory, TypeCorrect, PTL DEF Spec
-----------------------------------------------------------------------------
(* The pack, read back. *)

(* The reader's walk over the sections, as a function of positions. *)
WalkStep(walk, file, at) ==
  LET failed == [whole |-> FALSE, exts |-> <<>>]
  IN IF at = Reader!CrcOffset(file) THEN [whole |-> TRUE, exts |-> <<>>]
     ELSE LET here == {i \in 1..Len(file.sections) : file.sections[i].at = at}
          IN IF here = {} \/ Reader!CrcOffset(file) - at < Reader!SectionHeaderSize
               THEN failed
               ELSE LET e == file.sections[CHOOSE i \in here : TRUE].ext
                        end == at + SectionLen(e)
                    IN IF end > Reader!CrcOffset(file)
                         THEN failed
                         ELSE [whole |-> walk[end].whole, exts |-> <<e>> \o walk[end].exts]
IsWalk(walk, file) == walk = [at \in 0..file.size |-> WalkStep(walk, file, at)]
Walk(file) == CHOOSE walk : IsWalk(walk, file)

(* What a section reader may meet. *)
Sectionable(file) ==
  file.size \in Nat /\ file.sections \in Seq([at : Nat, ext : Extensions])

(* The reader returns what the walk says of the place it starts at. *)
LEMMA SectionsAreTheWalk ==
  ASSUME NEW file, NEW start
  PROVE  Reader!SectionsFrom(file, start) = Walk(file)[start]
BY DEF Reader!SectionsFrom, Walk, IsWalk, WalkStep, Reader!CrcOffset

(* A section takes up at least its header. *)
LEMMA SectionsAreLong ==
  ASSUME NEW e \in Extensions
  PROVE  SectionLen(e) \in Nat /\ SectionLen(e) >= 8
<1>1. PayloadLen[e.payload] \in Nat
  BY ExtensionsAssumption DEF Extensions
<1> QED BY <1>1, AlignUpFacts DEF SectionLen, SectionHeaderSize

(* A step of the walk looks only ahead of its place. *)
LEMMA WalkLooksAhead ==
  ASSUME NEW file, Sectionable(file), NEW at \in 0..file.size, NEW f, NEW g,
         \A a \in 0..file.size : a > at => f[a] = g[a]
  PROVE  WalkStep(f, file, at) = WalkStep(g, file, at)
<1>. DEFINE here == {i \in 1..Len(file.sections) : file.sections[i].at = at}
            e == file.sections[CHOOSE i \in here : TRUE].ext
            end == at + SectionLen(e)
            last == Reader!CrcOffset(file)
<1>1. ASSUME here # {}, ~(end > last) PROVE end \in 0..file.size /\ end > at
  <2>1. (CHOOSE i \in here : TRUE) \in 1..Len(file.sections)
    BY <1>1
  <2>2. e \in Extensions
    <3>1. ASSUME NEW j \in 1..Len(file.sections) PROVE file.sections[j].ext \in Extensions
      <4>1. file.sections[j] \in [at : Nat, ext : Extensions]
        BY ElementOfSeq DEF Sectionable
      <4> QED BY <4>1
    <3> QED BY <2>1, <3>1
  <2>3. SectionLen(e) \in Nat /\ SectionLen(e) >= 8
    BY <2>2, SectionsAreLong
  <2>4. last \in Int /\ last <= file.size /\ at \in Nat /\ file.size \in Nat
    BY DEF Reader!CrcOffset, Reader!CrcSize, Sectionable
  <2> HIDE DEF e, here, last
  <2> QED BY <1>1, <2>3, <2>4
<1>2. ASSUME here # {}, ~(end > last) PROVE f[end] = g[end]
  BY <1>1, <1>2
<1>3. WalkStep(f, file, at) =
        IF at = last THEN [whole |-> TRUE, exts |-> <<>>]
        ELSE IF here = {} \/ last - at < Reader!SectionHeaderSize \/ end > last
               THEN [whole |-> FALSE, exts |-> <<>>]
               ELSE [whole |-> f[end].whole, exts |-> <<e>> \o f[end].exts]
  BY DEF WalkStep
<1>4. WalkStep(g, file, at) =
        IF at = last THEN [whole |-> TRUE, exts |-> <<>>]
        ELSE IF here = {} \/ last - at < Reader!SectionHeaderSize \/ end > last
               THEN [whole |-> FALSE, exts |-> <<>>]
               ELSE [whole |-> g[end].whole, exts |-> <<e>> \o g[end].exts]
  BY DEF WalkStep
<1> HIDE DEF e, end, here, last
<1>5. CASE at = last \/ here = {} \/ last - at < Reader!SectionHeaderSize \/ end > last
  BY <1>3, <1>4, <1>5
<1>6. CASE at # last /\ here # {} /\ ~(last - at < Reader!SectionHeaderSize) /\ ~(end > last)
  <2>1. f[end] = g[end]
    BY <1>2, <1>6
  <2> QED BY <1>3, <1>4, <1>6, <2>1
<1> QED BY <1>5, <1>6

(* So the walk is defined, from the end of the file backwards. *)
LEMMA WalkExists ==
  ASSUME NEW file, Sectionable(file)
  PROVE  \A at \in 0..file.size : Walk(file)[at] = WalkStep(Walk(file), file, at)
<1>. DEFINE size == file.size
            Good == {n \in Nat : \E g : \A at \in 0..size :
                       at > size - n => g[at] = WalkStep(g, file, at)}
<1>0. size \in Nat
  BY DEF Sectionable
<1>1. 0 \in Good
  BY <1>0
<1>2. ASSUME NEW n \in Nat, n \in Good PROVE n + 1 \in Good
  <2>1. PICK g : \A at \in 0..size : at > size - n => g[at] = WalkStep(g, file, at)
    BY <1>2
  <2>. DEFINE h == [a \in 0..size |-> IF a = size - n THEN WalkStep(g, file, a) ELSE g[a]]
  <2>2. ASSUME NEW at \in 0..size, at > size - (n + 1) PROVE h[at] = WalkStep(h, file, at)
    <3>1. \A a \in 0..size : a > at => h[a] = g[a]
      BY <1>0, <2>2
    <3> HIDE DEF h
    <3>2. WalkStep(h, file, at) = WalkStep(g, file, at)
      BY <3>1, WalkLooksAhead
    <3>3. h[at] = WalkStep(g, file, at)
      BY <1>0, <2>1, <2>2 DEF h
    <3> QED BY <3>2, <3>3
  <2>3. \E f : \A at \in 0..size : at > size - (n + 1) => f[at] = WalkStep(f, file, at)
    <3> HIDE DEF h
    <3> QED BY <2>2
  <2> QED BY <2>3
<1>3. Nat \subseteq Good
  <2>1. \A n \in Nat : n \in Good => n + 1 \in Good
    BY <1>2
  <2> HIDE DEF Good
  <2> QED BY <1>1, <2>1, SetInduction
<1>4. PICK g : \A at \in 0..size : g[at] = WalkStep(g, file, at)
  <2>1. size + 1 \in Good
    BY <1>0, <1>3
  <2> QED BY <1>0, <2>1
<1>. DEFINE h == [at \in 0..size |-> WalkStep(g, file, at)]
<1>5. IsWalk(h, file)
  <2>1. \A a \in 0..size : h[a] = g[a]
    BY <1>4
  <2>2. \A at \in 0..size : WalkStep(h, file, at) = WalkStep(g, file, at)
    <3> HIDE DEF h
    <3> QED BY <2>1, WalkLooksAhead
  <2>3. [at \in 0..size |-> WalkStep(h, file, at)] = [at \in 0..size |-> WalkStep(g, file, at)]
    <3> HIDE DEF h
    <3> QED BY <2>2
  <2> QED BY <2>3 DEF IsWalk
<1>6. IsWalk(Walk(file), file)
  <2> HIDE DEF h
  <2> QED BY <1>5 DEF Walk
<1>7. Walk(file) = [at \in 0..size |-> WalkStep(Walk(file), file, at)]
  BY <1>6 DEF IsWalk
<1> HIDE DEF Good
<1> QED BY <1>7

(* Where the i-th section of a file starts when the first is at `start`. *)
PlaceOf(file, start, i) ==
  IF i = 1 THEN start ELSE file.sections[i - 1].at + SectionLen(file.sections[i - 1].ext)

(* The sections of a file lie one after the other up to the CRC. *)
Stacked(file, start) ==
  /\ start \in Nat /\ Sectionable(file)
  /\ \A i \in 1..Len(file.sections) : file.sections[i].at = PlaceOf(file, start, i)
  /\ \A i, j \in 1..Len(file.sections) : i < j => file.sections[i].at < file.sections[j].at
  /\ Reader!CrcOffset(file) = PlaceOf(file, start, Len(file.sections) + 1)
  /\ Reader!CrcOffset(file) \in 0..file.size

(* From such a file the reader gets every section, in order. *)
LEMMA WalkReadsAll ==
  ASSUME NEW file, NEW start, Stacked(file, start)
  PROVE  Reader!SectionsFrom(file, start) =
           [whole |-> TRUE, exts |-> [i \in 1..Len(file.sections) |-> file.sections[i].ext]]
<1>. DEFINE n == Len(file.sections)
            last == Reader!CrcOffset(file)
            E == [i \in 1..n |-> file.sections[i].ext]
            At(i) == PlaceOf(file, start, i)
            From(i) == [whole |-> TRUE, exts |-> SubSeq(E, i, n)]
            Reads(i) == At(i) \in 0..last /\ Walk(file)[At(i)] = From(i)
            Good == {k \in Nat : k <= n => Reads(n + 1 - k)}
<1>1. /\ n \in Nat /\ start \in Nat /\ Sectionable(file) /\ last \in 0..file.size
      /\ file.size \in Nat /\ At(n + 1) = last
  <2>1. file.sections \in Seq([at : Nat, ext : Extensions]) /\ file.size \in Nat
    BY DEF Stacked, Sectionable
  <2> QED BY <2>1 DEF Stacked
<1>2. ASSUME NEW i \in 1..n
      PROVE  /\ file.sections[i].ext \in Extensions /\ file.sections[i].at \in Nat
             /\ file.sections[i].at = At(i)
             /\ At(i + 1) = file.sections[i].at + SectionLen(file.sections[i].ext)
             /\ SectionLen(file.sections[i].ext) \in Nat /\ SectionLen(file.sections[i].ext) >= 8
  <2>1. file.sections[i] \in [at : Nat, ext : Extensions]
    BY ElementOfSeq DEF Stacked, Sectionable
  <2>2. file.sections[i].at = At(i)
    BY DEF Stacked
  <2>3. i + 1 # 1 /\ i + 1 - 1 = i
    BY <1>1
  <2>4. At(i + 1) = file.sections[i].at + SectionLen(file.sections[i].ext)
    BY <2>3 DEF PlaceOf
  <2> QED BY <2>1, <2>2, <2>4, SectionsAreLong
<1>3. E \in Seq(Extensions) /\ Len(E) = n
  BY <1>1, <1>2
<1>4. 0 \in Good
  <2>1. SubSeq(E, n + 1, n) = <<>>
    BY <1>1, SubSeqEmpty
  <2>2. WalkStep(Walk(file), file, last) = [whole |-> TRUE, exts |-> <<>>]
    BY DEF WalkStep
  <2>3. Walk(file)[last] = WalkStep(Walk(file), file, last)
    BY <1>1, WalkExists
  <2>4. n + 1 - 0 = n + 1 /\ At(n + 1) \in 0..last
    BY <1>1
  <2> HIDE DEF last, E, At
  <2> QED BY <1>1, <2>1, <2>2, <2>3, <2>4
<1>5. ASSUME NEW k \in Nat, k \in Good PROVE k + 1 \in Good
  <2>. HIDE DEF last, n
  <2>a. n \in Nat
    BY <1>1
  <2> SUFFICES ASSUME k + 1 <= n PROVE Reads(n + 1 - (k + 1))
    <3> HIDE DEF Reads
    <3> QED BY <2>a
  <2>0. Reads(n + 1 - k)
    <3> HIDE DEF Reads
    <3> QED BY <2>a, <1>5
  <2>. DEFINE i == n - k
              e == file.sections[i].ext
              here == {j \in 1..n : file.sections[j].at = At(i)}
  <2>1. i \in 1..n /\ n + 1 - (k + 1) = i /\ n + 1 - k = i + 1
    BY <2>a
  <2>2. At(i + 1) \in 0..last /\ Walk(file)[At(i + 1)] = From(i + 1)
    <3>1. Reads(i + 1)
      <4> HIDE DEF Reads, i
      <4> QED BY <2>0, <2>1
    <3> QED BY <3>1
  <2> HIDE DEF i
  <2>3. /\ At(i) \in Nat /\ At(i + 1) = At(i) + SectionLen(e)
        /\ SectionLen(e) \in Nat /\ SectionLen(e) >= 8 /\ e \in Extensions
    BY <1>2, <2>1
  <2>4. here = {i}
    <3>1. \A j \in 1..n : file.sections[j].at = file.sections[i].at => j = i
      <4>1. \A a, b \in 1..n : a < b => file.sections[a].at < file.sections[b].at
        BY DEF Stacked, n
      <4>2. ASSUME NEW j \in 1..n, file.sections[j].at = file.sections[i].at, j # i PROVE FALSE
        <5>1. j < i \/ i < j
          BY <1>1, <2>1, <4>2
        <5>2. file.sections[j].at \in Nat /\ file.sections[i].at \in Nat
          BY <1>2, <2>1
        <5> QED BY <4>1, <4>2, <5>1, <5>2, <2>1
      <4> QED BY <4>2
    <3>2. file.sections[i].at = At(i)
      BY <1>2, <2>1
    <3> HIDE DEF At
    <3> QED BY <2>1, <3>1, <3>2
  <2>5. (CHOOSE j \in here : TRUE) = i
    <3> HIDE DEF here
    <3> QED BY <2>4
  <2> HIDE DEF e
  <2>6. At(i) \in 0..last /\ At(i) # last /\ last - At(i) >= 8 /\ ~(At(i) + SectionLen(e) > last)
    <3> HIDE DEF At, last
    <3> QED BY <1>1, <2>2, <2>3
  <2>7. WalkStep(Walk(file), file, At(i)) =
          [whole |-> Walk(file)[At(i + 1)].whole, exts |-> <<e>> \o Walk(file)[At(i + 1)].exts]
    <3>1. ~(here = {}) /\ ~(last - At(i) < Reader!SectionHeaderSize)
      <4> HIDE DEF here, At, last
      <4> QED BY <1>1, <2>4, <2>6, <2>3 DEF Reader!SectionHeaderSize
    <3>2. file.sections[CHOOSE j \in here : TRUE].ext = e
      BY <2>5 DEF e
    <3>3. WalkStep(Walk(file), file, At(i)) =
            IF At(i) = last THEN [whole |-> TRUE, exts |-> <<>>]
            ELSE IF here = {} \/ last - At(i) < Reader!SectionHeaderSize
              THEN [whole |-> FALSE, exts |-> <<>>]
              ELSE LET f == file.sections[CHOOSE j \in here : TRUE].ext
                       end == At(i) + SectionLen(f)
                   IN IF end > last THEN [whole |-> FALSE, exts |-> <<>>]
                      ELSE [whole |-> Walk(file)[end].whole, exts |-> <<f>> \o Walk(file)[end].exts]
      BY DEF WalkStep, last, n
    <3> HIDE DEF here, At, last
    <3> QED BY <2>3, <2>6, <3>1, <3>2, <3>3
  <2>8. <<E[i]>> \o SubSeq(E, i + 1, n) = SubSeq(E, i, n)
    <3>1. n \in i..Len(E) /\ i \in 1..Len(E)
      BY <1>1, <1>3, <2>1
    <3> HIDE DEF E
    <3> QED BY <1>3, <3>1, SubSeqRecursiveFirst
  <2>9. E[i] = e
    BY <2>1 DEF e
  <2>10. WalkStep(Walk(file), file, At(i)) = From(i)
    <3>1. /\ Walk(file)[At(i + 1)].whole = TRUE
          /\ Walk(file)[At(i + 1)].exts = SubSeq(E, i + 1, n)
      <4> DEFINE r == Walk(file)[At(i + 1)]
      <4>1. r = [whole |-> TRUE, exts |-> SubSeq(E, i + 1, n)]
        BY <2>2
      <4> HIDE DEF r
      <4>2. r.whole = TRUE /\ r.exts = SubSeq(E, i + 1, n)
        BY <4>1
      <4> QED BY <4>2 DEF r
    <3> HIDE DEF At, E, n
    <3> QED BY <2>7, <2>8, <2>9, <3>1
  <2>11. Walk(file)[At(i)] = WalkStep(Walk(file), file, At(i))
    <3>1. At(i) \in 0..file.size
      <4> HIDE DEF At, last
      <4> QED BY <1>1, <2>6
    <3> HIDE DEF At
    <3> QED BY <1>1, <3>1, WalkExists
  <2> HIDE DEF At, From
  <2> QED BY <2>1, <2>6, <2>10, <2>11
<1>6. Nat \subseteq Good
  <2> HIDE DEF Good
  <2>1. \A k \in Nat : k \in Good => k + 1 \in Good
    BY <1>5
  <2> QED BY <1>4, <2>1, SetInduction
<1>7. Walk(file)[At(1)] = From(1)
  <2>1. n \in Good /\ n + 1 - n = 1
    <3> HIDE DEF Good
    <3> QED BY <1>1, <1>6
  <2> HIDE DEF At, From, last, n
  <2> QED BY <1>1, <2>1
<1>8. SubSeq(E, 1, n) = E
  <2> HIDE DEF E
  <2> QED BY <1>3, SubSeqFull
<1>9. At(1) = start
  BY DEF PlaceOf
<1> HIDE DEF At, E
<1>10. Walk(file)[start] = [whole |-> TRUE, exts |-> E]
  BY <1>7, <1>8, <1>9
<1> QED BY <1>10, SectionsAreTheWalk DEF E

----------------------------------------------------------------------------
(* What was collected, and where the extensions lie. *)

(* A level's slot in the directory is empty or a run of the index. *)
Slot(z) ==
  \/ zoomDir[z] = NoZoom
  \/ \E first, last \in 1..Len(tiles) : first <= last /\ zoomDir[z] = DirectoryEntry(first, last)

Taken ==
  /\ \A i \in 1..Len(tiles) : tiles[i].key \in keysSeen /\ tiles[i].key.z < ZoomOffsetsCount
  /\ pc \notin {"NotBegun", "Failed"} => ~MetadataError(meta)
  /\ \A z \in 0..(ZoomOffsetsCount - 1) : Slot(z)

(* Where the i-th section starts. *)
SectionPlace(i) ==
  IF i = 1 THEN extOffset ELSE sections[i - 1].at + SectionLen(sections[i - 1].ext)

Sectioned ==
  /\ \A i \in 1..Len(sections) : sections[i].ext = exts[i] /\ sections[i].at = SectionPlace(i)
  /\ \A i, j \in 1..Len(sections) : i < j => sections[i].at < sections[j].at
  /\ pc = "Exts" =>
       /\ pos = SectionPlace(next) /\ extOffset <= pos
       /\ \A i \in 1..Len(sections) : sections[i].at < pos
  /\ pc = "Done" =>
       /\ pos = SectionPlace(Len(exts) + 1) + CrcSize /\ extOffset + CrcSize <= pos
       /\ crc = pos - CrcSize
  /\ pc \notin {"Done", "Failed"} => crc = pos

(* Every step keeps what is known of the collected tiles and the metadata. *)
LEMMA NextTaken == TypeOK /\ Progress /\ Directory /\ Taken /\ [Next]_vars => Taken'
<1> SUFFICES ASSUME TypeOK, Progress, Directory, Taken, [Next]_vars PROVE Taken'
  OBVIOUS
<1>. DEFINE Kept == /\ UNCHANGED <<tiles, keysSeen, meta, zoomDir>>
                    /\ pc' \in {"NotBegun", "Failed"} \/ pc \notin {"NotBegun", "Failed"}
<1>0. Kept => Taken'
  BY DEF Taken, Slot
<1>1. ASSUME NEW m \in Metas, BeginPack(m) PROVE Taken'
  <2>1. CASE result' = "Ok"
    BY <1>1, <2>1 DEF BeginPack, Taken, Slot, MetadataError, planVars
  <2>2. CASE result' # "Ok"
    <3>1. Kept
      BY <1>1, <2>2 DEF BeginPack, planVars
    <3> QED BY <3>1, <1>0
  <2> QED BY <2>1, <2>2
<1>2. ASSUME NEW e \in Extensions, AddExtension(e) PROVE Kept
  BY <1>2 DEF AddExtension, planVars
<1>3. ASSUME NEW t \in Tiles, AddTileRef(t) PROVE Taken'
  <2>1. CASE result' = "Ok"
    <3>1. /\ pc = "Building" /\ pc' = pc /\ UNCHANGED <<meta, zoomDir>>
          /\ tiles' = Append(tiles, t) /\ keysSeen' = keysSeen \cup {t.key}
          /\ ~(t.key.z >= ZoomOffsetsCount)
      BY <1>3, <2>1 DEF AddTileRef, TileVerdict, planVars
    <3>2. /\ Len(tiles') = Len(tiles) + 1 /\ Len(tiles) \in Nat /\ tiles'[Len(tiles) + 1] = t
          /\ \A i \in 1..Len(tiles) : tiles'[i] = tiles[i]
      BY <3>1 DEF TypeOK
    <3>3. t.key.z \in Nat
      BY KeysAssumption DEF Tiles, Key
    <3>5. \A i \in 1..Len(tiles') : tiles'[i].key \in keysSeen' /\ tiles'[i].key.z < ZoomOffsetsCount
      <4>1. \A i \in 1..Len(tiles) : tiles'[i].key \in keysSeen' /\ tiles'[i].key.z < ZoomOffsetsCount
        BY <3>1, <3>2 DEF Taken
      <4>2. t.key \in keysSeen' /\ t.key.z < ZoomOffsetsCount
        BY <3>1, <3>3 DEF ZoomOffsetsCount
      <4>3. \A i \in 1..Len(tiles') : i \in 1..Len(tiles) \/ i = Len(tiles) + 1
        BY <3>2
      <4> QED BY <3>2, <4>1, <4>2, <4>3
    <3>4. \A z \in 0..(ZoomOffsetsCount - 1) : zoomDir'[z] = NoZoom
      BY <3>1 DEF Directory, Planning
    <3> QED BY <3>1, <3>5, <3>4 DEF Taken, Slot
  <2>2. CASE result' # "Ok"
    <3>1. Kept
      BY <1>3, <2>2 DEF AddTileRef, planVars
    <3> QED BY <3>1, <1>0
  <2> QED BY <2>1, <2>2
<1>4. ASSUME RegisterByteSource \/ FinalizeNotBegun PROVE Kept
  BY <1>4 DEF RegisterByteSource, FinalizeNotBegun, Fail, callVars, planVars
<1>5. ASSUME Finalize PROVE Taken'
  <2>1. /\ pc = "Building" /\ UNCHANGED <<meta, keysSeen, zoomDir>>
        /\ \E p \in Rearrangements(Len(tiles)) : tiles' = Permuted(tiles, p)
    BY <1>5 DEF Finalize, Sort
  <2>. PICK p \in Rearrangements(Len(tiles)) : tiles' = Permuted(tiles, p)
    BY <2>1
  <2>2. /\ Len(tiles') = Len(tiles) /\ tiles \in Seq(Tiles)
        /\ \A i \in 1..Len(tiles) : \E j \in 1..Len(tiles) : tiles'[i] = tiles[j]
    <3>1. tiles \in Seq(Tiles)
      BY DEF TypeOK
    <3>2. /\ Len(Permuted(tiles, p)) = Len(tiles)
          /\ \A i \in 1..Len(tiles) : \E j \in 1..Len(tiles) : Permuted(tiles, p)[i] = tiles[j]
      <4>1. ASSUME NEW S, NEW s \in Seq(S), NEW q \in Rearrangements(Len(s))
            PROVE  /\ Len(Permuted(s, q)) = Len(s)
                   /\ \A i \in 1..Len(s) : \E j \in 1..Len(s) : Permuted(s, q)[i] = s[j]
        BY PermutedFacts
      <4> QED BY <3>1, <4>1
    <3> QED BY <3>1, <3>2
  <2>3. \A i \in 1..Len(tiles') : tiles'[i].key \in keysSeen' /\ tiles'[i].key.z < ZoomOffsetsCount
    BY <2>1, <2>2 DEF Taken
  <2>4. \A z \in 0..(ZoomOffsetsCount - 1) : zoomDir'[z] = NoZoom
    BY <2>1 DEF Directory, Planning
  <2> QED BY <2>1, <2>3, <2>4 DEF Taken, Slot
<1>6. ASSUME PlanTile \/ EndOfTiles \/ PlanExt \/ NarrowPlan PROVE Kept
  BY <1>6 DEF PlanTile, EndOfTiles, PlanExt, NarrowPlan, Fail, callVars, planVars
<1>7. ASSUME PlanZoom PROVE Taken'
  <2>1. PICK last \in next..Len(tiles) :
          \/ pc' = "Failed" /\ UNCHANGED zoomDir
          \/ zoomDir' = [zoomDir EXCEPT ![tiles[next].key.z] = DirectoryEntry(next, last)]
    BY <1>7 DEF PlanZoom, Fail
  <2>2. /\ UNCHANGED <<tiles, keysSeen, meta>> /\ pc = "PlanZooms"
        /\ next \in 1..Len(tiles) /\ last \in 1..Len(tiles) /\ next <= last
    BY SMTT(30), <1>7, <2>1 DEF PlanZoom, callVars, TypeOK
  <2>3. ASSUME NEW z \in 0..(ZoomOffsetsCount - 1) PROVE Slot(z)'
    <3>1. zoomDir'[z] = zoomDir[z] \/ zoomDir'[z] = DirectoryEntry(next, last)
      BY <2>1 DEF TypeOK
    <3>2. CASE zoomDir'[z] = zoomDir[z]
      BY <3>2, <2>2 DEF Taken, Slot
    <3>3. CASE zoomDir'[z] = DirectoryEntry(next, last)
      <4>1. \E first, end \in 1..Len(tiles') : first <= end /\ zoomDir'[z] = DirectoryEntry(first, end)
        BY <2>2, <3>3
      <4> QED BY <4>1 DEF Slot, DirectoryEntry
    <3> QED BY <3>1, <3>2, <3>3
  <2> QED BY <2>2, <2>3 DEF Taken
<1>8. ASSUME WriteHeader \/ WriteEntry \/ PadIndex \/ WriteTile \/ EndOfBlob \/ WriteExt \/ WriteCrc
      PROVE  Kept
  BY <1>8 DEF WriteHeader, WriteEntry, PadIndex, WriteTile, EndOfBlob, WriteExt, WriteCrc, Fail,
              callVars, planVars
<1>9. ASSUME SourceIoFails \/ OutputIoFails \/ Consumed \/ UNCHANGED vars PROVE Kept
  BY <1>9 DEF SourceIoFails, OutputIoFails, Consumed, vars, Fail, callVars, planVars
<1> HIDE DEF Kept
<1> QED
  BY <1>0, <1>1, <1>2, <1>3, <1>4, <1>5, <1>6, <1>7, <1>8, <1>9 DEF Next, Collect, Plan, Stream

(* While there are no sections there is little to keep. *)
LEMMA NoSectionsYet ==
  ASSUME Sectioned, TypeOK, TypeOK', sections = <<>>, sections' = <<>>,
         pc \notin {"Exts", "Done", "Failed"}, pc' \notin {"Exts", "Done"},
         pc' = "Failed" \/ UNCHANGED <<pos, crc>> \/ \E n \in Int : WriteChunk(n)
  PROVE  Sectioned'
BY SMTT(30) DEF Sectioned, WriteChunk, TypeOK

(* Every step keeps the sections one after the other. *)
LEMMA NextSectioned ==
  LayoutInv /\ LayoutInv' /\ Sectioned /\ [Next]_vars => Sectioned'
<1> SUFFICES ASSUME LayoutInv, LayoutInv', Sectioned, [Next]_vars PROVE Sectioned'
  OBVIOUS
<1>0. /\ TypeOK /\ TypeOK' /\ Progress /\ Progress' /\ Planned /\ Written
      /\ sections \in Seq([at : Nat, ext : Extensions]) /\ Len(sections) \in Nat /\ pos \in Nat
      /\ next \in Nat /\ extOffset \in Nat
  <2>1. TypeOK /\ TypeOK' /\ Progress /\ Progress' /\ Planned /\ Written
    BY DEF LayoutInv
  <2>2. /\ sections \in Seq([at : Nat, ext : Extensions]) /\ pos \in Nat
        /\ next \in Nat /\ extOffset \in Nat
    BY <2>1 DEF TypeOK
  <2>3. Len(sections) \in Nat
    BY <2>2, LenProperties
  <2> QED BY <2>1, <2>2, <2>3
<1>1. CASE UNCHANGED vars
  BY <1>1 DEF Sectioned, SectionPlace, vars, callVars, planVars, outVars
<1>2. CASE Consumed
  BY <1>2 DEF Consumed, Sectioned, SectionPlace, vars, callVars, planVars, outVars
<1>3. ASSUME pc' = "Failed", UNCHANGED outVars, UNCHANGED <<exts, extOffset>> PROVE Sectioned'
  BY <1>3 DEF Sectioned, SectionPlace, outVars
<1>4. CASE Collect
  <2>1. pc \in {"NotBegun", "Building"} /\ pc' \in {"NotBegun", "Building", "Failed", "PlanTiles"}
        /\ UNCHANGED outVars
    BY <1>4 DEF Collect, BeginPack, RegisterByteSource, FinalizeNotBegun, Finalize, AddExtension,
                AddTileRef, Collecting, Fail
  <2>2. sections = <<>> /\ sections' = <<>> /\ UNCHANGED <<pos, crc>>
    BY <1>0, <2>1 DEF Progress, outVars
  <2> QED BY <1>0, <2>1, <2>2, NoSectionsYet
<1>5. CASE Plan
  <2>1. pc \in Planning /\ pc' \in Planning \cup {"Failed"} /\ UNCHANGED outVars
    BY <1>5 DEF Plan, PlanTile, EndOfTiles, PlanExt, NarrowPlan, PlanZoom, Fail, Planning
  <2>2. sections = <<>> /\ sections' = <<>> /\ UNCHANGED <<pos, crc>>
    BY <1>0, <2>1 DEF Progress, outVars
  <2> QED BY <1>0, <2>1, <2>2, NoSectionsYet DEF Planning
<1>6. CASE WriteHeader \/ WriteEntry \/ PadIndex \/ WriteTile
  <2>1. /\ pc \in {"PlanZooms", "Index", "Blob"} /\ pc' \in {"Index", "Blob", "Failed"}
        /\ UNCHANGED <<sections, exts, extOffset>>
        /\ \/ pc' = "Failed" \/ \E n \in Int : WriteChunk(n)
    <3>1. HeaderSize \in Int /\ EntrySize \in Int
      BY DEF HeaderSize, EntrySize
    <3>2. CASE WriteHeader
      BY <3>1, <3>2 DEF WriteHeader, callVars, planVars
    <3>3. CASE WriteEntry
      BY <3>1, <3>3 DEF WriteEntry, Fail, callVars, planVars
    <3>4. CASE PadIndex
      <4>1. BlobStart - (HeaderSize + Len(tiles) * EntrySize) \in Int
        <5>1. Len(tiles) \in Nat
          BY <1>0 DEF TypeOK
        <5>2. BlobStart \in Nat /\ HeaderSize + Len(tiles) * EntrySize \in Nat
          BY <5>1, BlobStartFacts
        <5> DEFINE indexEnd == HeaderSize + Len(tiles) * EntrySize
        <5> HIDE DEF indexEnd
        <5>3. BlobStart - indexEnd \in Int
          BY <5>2 DEF indexEnd
        <5> QED BY <5>3 DEF indexEnd
      <4> QED BY <3>4, <4>1 DEF PadIndex, callVars, planVars
    <3>5. CASE WriteTile
      <4>1. next \in 1..Len(offsets) /\ next \in 1..Len(tiles) /\ pc = "Blob" /\ pc' = pc
        BY <1>0, <3>5, NextInPlan DEF WriteTile
      <4>2. offsets[next] \in Nat /\ TileLen(tiles[next]) \in Nat
        BY <1>0, <3>5, NextInPlan DEF WriteTile
      <4>3. AlignUp(offsets[next] + TileLen(tiles[next])) \in Nat
        BY <4>2, AlignUpFacts
      <4>4. TileLen(tiles[next]) + (AlignUp(offsets[next] + TileLen(tiles[next])) - (offsets[next] + TileLen(tiles[next]))) \in Int
        BY <4>2, <4>3
      <4> QED BY <3>5, <4>1, <4>4 DEF WriteTile, callVars, planVars
    <3> QED BY <1>6, <3>2, <3>3, <3>4, <3>5
  <2>2. sections = <<>>
    BY <1>0, <2>1 DEF Progress, Planning
  <2> QED BY <1>0, <2>1, <2>2, NoSectionsYet
<1>7. CASE EndOfBlob
  <2>1. /\ pc = "Blob" /\ pc' = "Exts" /\ next' = 1 /\ next > Len(tiles) /\ sections = <<>>
        /\ UNCHANGED <<pos, crc, sections, exts, extOffset>>
    BY <1>0, <1>7 DEF EndOfBlob, Progress, callVars, planVars, outVars
  <2>2. next = Len(tiles) + 1
    BY SMTT(30), <1>0, <2>1 DEF Progress, TypeOK
  <2>3. pos = extOffset
    BY <1>0, <2>1, <2>2 DEF Written, Planned, PlanMade
  <2> QED BY <1>0, <2>1, <2>3 DEF Sectioned, SectionPlace
<1>8. CASE WriteExt
  <2>. DEFINE e == exts[next]
              n == Len(sections)
  <2>1. /\ pc = "Exts" /\ pc' = pc /\ next <= Len(exts) /\ next' = next + 1 /\ n = next - 1
        /\ sections' = Append(sections, [at |-> pos, ext |-> e])
        /\ pos' = pos + SectionLen(e) /\ crc' = crc + SectionLen(e) /\ UNCHANGED <<exts, extOffset>>
    BY <1>0, <1>8 DEF WriteExt, WriteChunk, Progress, callVars, planVars
  <2>2. e \in Extensions /\ SectionLen(e) \in Nat /\ SectionLen(e) >= 8
    <3>1. e \in Extensions
      BY <1>0, <2>1 DEF TypeOK
    <3> QED BY <3>1, SectionsAreLong
  <2>3. /\ Len(sections') = n + 1 /\ sections'[n + 1] = [at |-> pos, ext |-> e]
        /\ \A i \in 1..n : sections'[i] = sections[i]
    BY <1>0, <2>1
  <2>4. /\ pos = SectionPlace(next) /\ extOffset <= pos /\ crc = pos
        /\ \A i \in 1..n : sections[i].at < pos
    BY <2>1 DEF Sectioned
  <2> HIDE DEF e
  <2>5. ASSUME NEW i \in 1..(n + 1)
        PROVE  sections'[i].ext = exts'[i] /\ sections'[i].at = SectionPlace(i)'
    <3>0. i - 1 \in 1..n => sections'[i - 1] = sections[i - 1]
      BY <2>3
    <3>1. SectionPlace(i)' = SectionPlace(i)
      BY <1>0, <2>1, <3>0 DEF SectionPlace
    <3>2. CASE i = n + 1
      BY <1>0, <2>1, <2>3, <2>4, <3>1, <3>2 DEF e
    <3>3. CASE i \in 1..n
      BY <2>1, <2>3, <3>1, <3>3 DEF Sectioned
    <3> QED BY <1>0, <3>2, <3>3
  <2>6. ASSUME NEW i \in 1..(n + 1), NEW j \in 1..(n + 1), i < j
        PROVE  sections'[i].at < sections'[j].at
    <3>1. i \in 1..n /\ sections'[i].at = sections[i].at
      BY <1>0, <2>3, <2>6
    <3>2. CASE j = n + 1
      BY <2>3, <2>4, <3>1, <3>2
    <3>3. CASE j \in 1..n
      BY <2>3, <2>6, <3>1, <3>3 DEF Sectioned
    <3> QED BY <1>0, <3>2, <3>3
  <2>7. pos' = SectionPlace(next)'
    <3>1. next' # 1 /\ next' - 1 = n + 1
      BY <1>0, <2>1
    <3>2. sections'[next' - 1] = [at |-> pos, ext |-> e]
      BY <2>3, <3>1
    <3>3. sections'[next' - 1].at = pos /\ sections'[next' - 1].ext = e
      BY <3>2
    <3> QED BY <2>1, <3>1, <3>3 DEF SectionPlace
  <2>8. \A i \in 1..(n + 1) : sections'[i].at < pos'
    <3> SUFFICES ASSUME NEW i \in 1..(n + 1) PROVE sections'[i].at < pos'
      OBVIOUS
    <3>1. CASE i = n + 1
      BY <1>0, <2>1, <2>2, <2>3, <3>1
    <3>2. CASE i \in 1..n
      <4>1. sections[i].at < pos /\ sections[i].at \in Nat
        <5>1. sections[i] \in [at : Nat, ext : Extensions]
          BY <1>0, <3>2, ElementOfSeq
        <5> QED BY <2>4, <3>2, <5>1
      <4> QED BY <1>0, <2>1, <2>2, <2>3, <3>2, <4>1
    <3> QED BY <1>0, <3>1, <3>2
  <2>9. crc' = pos' /\ extOffset' <= pos'
    BY <1>0, <2>1, <2>2, <2>4
  <2> QED BY <2>1, <2>3, <2>5, <2>6, <2>7, <2>8, <2>9 DEF Sectioned
<1>9. CASE WriteCrc
  <2>1. /\ pc = "Exts" /\ pc' = "Done" /\ next > Len(exts) /\ Len(sections) = next - 1
        /\ pos' = pos + CrcSize /\ UNCHANGED <<crc, exts, extOffset, sections>>
    BY <1>0, <1>9 DEF WriteCrc, Progress, callVars, planVars
  <2>2. next = Len(exts) + 1
    <3>1. Len(sections) <= Len(exts) /\ Len(exts) \in Nat
      BY <1>0 DEF Progress, TypeOK
    <3> QED BY <1>0, <2>1, <3>1
  <2>3. CrcSize \in Nat /\ pos = SectionPlace(Len(exts) + 1) /\ extOffset <= pos /\ crc = pos
    BY <2>1, <2>2 DEF Sectioned, CrcSize
  <2>4. SectionPlace(Len(exts) + 1)' = SectionPlace(Len(exts) + 1)
    BY <2>1 DEF SectionPlace, SectionLen
  <2>5. /\ \A i \in 1..Len(sections') :
              sections'[i].ext = exts'[i] /\ sections'[i].at = SectionPlace(i)'
        /\ \A i, j \in 1..Len(sections') : i < j => sections'[i].at < sections'[j].at
    BY <2>1 DEF Sectioned, SectionPlace
  <2>6. /\ pos' = SectionPlace(Len(exts) + 1)' + CrcSize /\ extOffset' + CrcSize <= pos'
        /\ crc' = pos' - CrcSize
    BY <1>0, <2>1, <2>3, <2>4
  <2> QED BY <2>1, <2>5, <2>6 DEF Sectioned
<1>10. CASE SourceIoFails \/ OutputIoFails
  BY <1>3, <1>10 DEF SourceIoFails, OutputIoFails, Fail, callVars, planVars
<1> QED BY <1>1, <1>2, <1>4, <1>5, <1>6, <1>7, <1>8, <1>9, <1>10 DEF Next, Stream

----------------------------------------------------------------------------
(* The finished file, read back. *)

(* KeyLess is a strict order of the keys. *)
LEMMA KeyOrder ==
  ASSUME NEW a \in Key, NEW b \in Key, NEW c \in Key
  PROVE  /\ ~KeyLess(a, a)
         /\ KeyLess(a, b) /\ KeyLess(b, c) => KeyLess(a, c)
BY DEF Key, KeyLess

(* A key is its three numbers. *)
LEMMA SameKey ==
  ASSUME NEW a \in Key, NEW b \in Key, a.z = b.z, a.x = b.x, a.y = b.y
  PROVE  a = b
BY DEF Key

StoreInv == LayoutInv /\ Directory /\ Taken /\ Sectioned

(* What a finished writer leaves: every tile has an entry and its bytes,   *)
(* and the extension area ends at the CRC.                                 *)
LEMMA Finished ==
  ASSUME StoreInv, pc = "Done"
  PROVE  /\ Len(entries) = Len(tiles) /\ Len(blob) = Len(tiles) /\ Len(sections) = Len(exts)
         /\ Len(tiles) \in Nat /\ Len(exts) \in Nat /\ pos \in Nat /\ extOffset \in Nat
         /\ extOffset <= pos - 4 /\ pos - 4 = SectionPlace(Len(exts) + 1) /\ crc = pos - 4
         /\ \A i \in 1..Len(tiles) : /\ tiles[i] \in Tiles
                                     /\ entries[i].key = tiles[i].key
                                     /\ entries[i].offset = blob[i].at
                                     /\ entries[i].length = ByteLen[blob[i].bytes]
                                     /\ blob[i].bytes = tiles[i].content.bytes
<1>1. /\ Len(tiles) \in Nat /\ Len(exts) \in Nat /\ pos \in Nat /\ extOffset \in Nat
      /\ tiles \in Seq(Tiles)
  BY DEF StoreInv, LayoutInv, TypeOK
<1>2. Len(entries) = Len(tiles) /\ Len(blob) = Len(tiles) /\ Len(sections) = Len(exts)
  BY DEF StoreInv, LayoutInv, Progress
<1>3. extOffset + 4 <= pos /\ pos = SectionPlace(Len(exts) + 1) + 4 /\ crc = pos - 4
  BY DEF StoreInv, Sectioned, CrcSize
<1>4. SectionPlace(Len(exts) + 1) \in Int
  <2>1. CASE Len(exts) = 0
    BY <1>1, <2>1 DEF SectionPlace
  <2>2. CASE Len(exts) # 0
    <3>1. Len(exts) \in 1..Len(sections) /\ sections \in Seq([at : Nat, ext : Extensions])
      BY <1>1, <1>2, <2>2 DEF StoreInv, LayoutInv, TypeOK
    <3>2. sections[Len(exts)] \in [at : Nat, ext : Extensions]
      BY <3>1, ElementOfSeq
    <3>3. sections[Len(exts)].at \in Nat /\ SectionLen(sections[Len(exts)].ext) \in Nat
      BY <3>2, SectionsAreLong
    <3>4. Len(exts) + 1 # 1 /\ Len(exts) + 1 - 1 = Len(exts)
      BY <1>1, <2>2
    <3> QED BY <3>3, <3>4 DEF SectionPlace
  <2> QED BY <2>1, <2>2
<1>5. extOffset <= pos - 4 /\ pos - 4 = SectionPlace(Len(exts) + 1)
  BY <1>1, <1>3, <1>4
<1>6. ASSUME NEW i \in 1..Len(tiles)
      PROVE  /\ tiles[i] \in Tiles
             /\ entries[i].key = tiles[i].key
             /\ entries[i].offset = blob[i].at
             /\ entries[i].length = ByteLen[blob[i].bytes]
             /\ blob[i].bytes = tiles[i].content.bytes
  <2>1. tiles[i] \in Tiles
    BY <1>1
  <2>2. i \in 1..Len(blob) /\ IndexPointsAtTiles
    BY <1>2, LayoutPoints DEF StoreInv
  <2> QED BY <2>1, <2>2 DEF IndexPointsAtTiles
<1> QED BY <1>1, <1>2, <1>3, <1>5, <1>6

(* The sections of the finished file lie one after the other. *)
LEMMA FileStacked ==
  ASSUME StoreInv, pc = "Done"
  PROVE  Stacked(File, extOffset)
<1>1. File.size = pos /\ File.sections = sections
  BY DEF File
<1>2. /\ extOffset \in Nat /\ pos \in Nat /\ sections \in Seq([at : Nat, ext : Extensions])
      /\ extOffset <= pos - 4 /\ pos - 4 = SectionPlace(Len(exts) + 1) /\ Len(sections) = Len(exts)
  BY Finished DEF StoreInv, LayoutInv, TypeOK
<1>3. Reader!CrcOffset(File) = pos - 4
  BY <1>1 DEF Reader!CrcOffset, Reader!CrcSize
<1>4. \A i \in Nat : PlaceOf(File, extOffset, i) = SectionPlace(i)
  BY <1>1 DEF PlaceOf, SectionPlace
<1>5. /\ \A i \in 1..Len(sections) : sections[i].at = SectionPlace(i)
      /\ \A i, j \in 1..Len(sections) : i < j => sections[i].at < sections[j].at
  BY DEF StoreInv, Sectioned
<1>6. Len(sections) \in Nat /\ pos - 4 \in 0..pos
  BY <1>2
<1>7. \A i \in 1..Len(sections) : sections[i].at = PlaceOf(File, extOffset, i)
  BY <1>4, <1>5, <1>6
<1>8. PlaceOf(File, extOffset, Len(sections) + 1) = pos - 4
  BY <1>2, <1>4, <1>6
<1> HIDE DEF File
<1> QED BY <1>1, <1>2, <1>3, <1>5, <1>6, <1>7, <1>8 DEF Stacked, Sectionable

(* The reader gets the extensions, in the order in which they were sorted. *)
LEMMA SectionsReadBack ==
  ASSUME StoreInv, pc = "Done"
  PROVE  Reader!SectionsFrom(File, extOffset) = [whole |-> TRUE, exts |-> exts]
<1>1. Reader!SectionsFrom(File, extOffset) =
        [whole |-> TRUE, exts |-> [i \in 1..Len(sections) |-> sections[i].ext]]
  <2>1. File.sections = sections
    BY DEF File
  <2>2. Reader!SectionsFrom(File, extOffset) =
          [whole |-> TRUE, exts |-> [i \in 1..Len(File.sections) |-> File.sections[i].ext]]
    BY FileStacked, WalkReadsAll
  <2> QED BY <2>1, <2>2
<1>2. /\ Len(sections) = Len(exts) /\ exts \in Seq(Extensions)
      /\ \A i \in 1..Len(sections) : sections[i].ext = exts[i]
  BY Finished DEF StoreInv, Sectioned, LayoutInv, TypeOK
<1>3. [i \in 1..Len(sections) |-> sections[i].ext] = exts
  BY <1>2
<1> QED BY <1>1, <1>3

(* `open` accepts what the writer calls done. *)
LEMMA FinishedFileOpens ==
  ASSUME StoreInv, pc = "Done"
  PROVE  Reader!Open(File) = "Ok"
<1>1. /\ File.size = pos /\ File.meta = meta /\ File.indexOffset = HeaderSize
      /\ File.tileCount = Len(tiles) /\ File.extOffset = extOffset /\ File.entries = entries
      /\ File.crcMatches = (pc = "Done" /\ crc = pos - CrcSize)
  BY DEF File
<1>2. /\ pos \in Nat /\ extOffset \in Nat /\ extOffset <= pos - 4 /\ crc = pos - 4
      /\ Len(tiles) \in Nat /\ Len(entries) = Len(tiles)
  BY Finished
<1>3. Reader!CrcOffset(File) = pos - 4 /\ Reader!CrcSize = 4
  BY <1>1 DEF Reader!CrcOffset, Reader!CrcSize
<1>4. ~MetadataError(meta)
  BY DEF StoreInv, Taken
<1>5. Reader!HeaderVerdict(File.meta) = "Ok"
  BY <1>1, <1>4 DEF Reader!HeaderVerdict, MetadataError
<1>6. HeaderSize + Len(tiles) * EntrySize \in Nat /\ HeaderSize + Len(tiles) * EntrySize <= extOffset
  <2>1. /\ BlobStart \in Nat /\ HeaderSize + Len(tiles) * EntrySize \in Nat
        /\ HeaderSize + Len(tiles) * EntrySize <= BlobStart
    BY <1>2, BlobStartFacts
  <2>2. BlobStart <= extOffset
    BY DEF StoreInv, LayoutInv, Planned, PlanMade
  <2>. DEFINE indexEnd == HeaderSize + Len(tiles) * EntrySize
  <2> HIDE DEF indexEnd
  <2>3. indexEnd \in Nat /\ indexEnd <= BlobStart
    BY <2>1 DEF indexEnd
  <2>4. indexEnd \in Nat /\ indexEnd <= extOffset
    BY <1>2, <2>1, <2>2, <2>3
  <2> QED BY <2>4 DEF indexEnd
<1>7. Len(tiles) * EntrySize \in Nat
  BY <1>2 DEF EntrySize
<1>8. Reader!EntriesInBounds(File)
  <2> SUFFICES ASSUME NEW i \in 1..Len(entries)
               PROVE  entries[i].offset + entries[i].length <= pos - 4
    BY <1>1, <1>3 DEF Reader!EntriesInBounds
  <2>1. entries[i].offset + entries[i].length <= extOffset
    BY LayoutDisjoint DEF StoreInv, ExtentsDisjoint
  <2>2. entries[i] \in [key : Keys, offset : Nat, length : Nat]
    BY ElementOfSeq DEF StoreInv, LayoutInv, TypeOK
  <2>3. entries[i].offset + entries[i].length \in Nat
    BY <2>2
  <2> QED BY <1>2, <2>1, <2>3
<1>9. Reader!SectionsFrom(File, File.extOffset).whole = TRUE
  BY <1>1, SectionsReadBack
<1>10. /\ Reader!HeaderSize = 292 /\ HeaderSize = 292 /\ Reader!EntrySize = EntrySize /\ CrcSize = 4
  BY DEF Reader!HeaderSize, HeaderSize, Reader!EntrySize, EntrySize, CrcSize
<1>11. ~(File.size < Reader!HeaderSize + Reader!CrcSize) /\ File.crcMatches
  <2>1. 292 <= extOffset
    <3>. DEFINE index == Len(tiles) * EntrySize
    <3>1. index \in Nat /\ 292 + index <= extOffset
      BY <1>6, <1>7, <1>10
    <3> HIDE DEF index
    <3> QED BY <1>2, <3>1
  <2>2. ~(File.size < Reader!HeaderSize + Reader!CrcSize)
    BY <1>1, <1>2, <1>3, <1>10, <2>1
  <2>3. pc = "Done" /\ crc = pos - CrcSize
    BY <1>2, <1>10
  <2>4. File.crcMatches
    BY <1>1, <2>3, Zenon
  <2> QED BY <2>2, <2>4
<1>12. ~(File.indexOffset # Reader!HeaderSize)
  BY <1>1, <1>10
<1>13. ~(File.indexOffset + File.tileCount * Reader!EntrySize > File.size)
  <2>. DEFINE indexEnd == HeaderSize + Len(tiles) * EntrySize
  <2>1. indexEnd \in Nat /\ indexEnd <= extOffset
    BY <1>6
  <2>2. File.indexOffset + File.tileCount * Reader!EntrySize = indexEnd
    BY <1>1, <1>10
  <2> HIDE DEF indexEnd
  <2> QED BY <1>1, <1>2, <2>1, <2>2
<1>14. ~(File.extOffset > Reader!CrcOffset(File))
  BY <1>1, <1>2, <1>3
<1> HIDE DEF File
<1> QED BY <1>5, <1>8, <1>9, <1>11, <1>12, <1>13, <1>14 DEF Reader!Open

(* A lookup of a key finds the entry of the tile with that key, if any. *)
LEMMA LookupFinds ==
  ASSUME StoreInv, pc = "Done", NEW key \in Keys
  PROVE  /\ \A i \in 1..Len(tiles) : tiles[i].key = key => Reader!Lookup(File, key) = i
         /\ \/ Reader!Lookup(File, key) = 0
            \/ /\ Reader!Lookup(File, key) \in 1..Len(tiles)
               /\ tiles[Reader!Lookup(File, key)].key = key
<1>1. /\ File.indexOffset = HeaderSize /\ File.zoomDir = zoomDir /\ File.entries = entries
  BY DEF File
<1>2. /\ Len(tiles) \in Nat /\ Len(entries) = Len(tiles)
      /\ \A i \in 1..Len(tiles) : tiles[i] \in Tiles /\ entries[i].key = tiles[i].key
  BY Finished
<1>3. KeySorted(tiles) /\ Selects(Len(tiles))
  BY DEF StoreInv, Directory, Planning
<1>4. key \in Key /\ \A i \in 1..Len(tiles) : tiles[i].key \in Key
  BY <1>2, KeysAssumption DEF Tiles
<1>z. key.z \in Nat
  BY <1>4 DEF Key
<1>5. ASSUME NEW i \in 1..Len(tiles), NEW j \in 1..Len(tiles), tiles[i].key = tiles[j].key
      PROVE  i = j
  <2>1. i < j => KeyLess(tiles[i].key, tiles[j].key)
    BY <1>3 DEF KeySorted
  <2>2. j < i => KeyLess(tiles[j].key, tiles[i].key)
    BY <1>3 DEF KeySorted
  <2>3. ~(i < j) /\ ~(j < i)
    BY <1>4, <1>5, <2>1, <2>2, KeyOrder
  <2> QED BY <2>3
<1>6. CASE key.z >= ZoomOffsetsCount
  <2>1. Reader!Lookup(File, key) = 0
    <3>1. key.z >= Reader!ZoomOffsetsCount
      BY <1>6 DEF Reader!ZoomOffsetsCount, ZoomOffsetsCount
    <3> HIDE DEF File
    <3> QED BY <3>1, Zenon DEF Reader!Lookup
  <2>2. \A i \in 1..Len(tiles) : tiles[i].key # key
    <3>1. \A i \in 1..Len(tiles) : tiles[i].key.z < ZoomOffsetsCount
      BY DEF StoreInv, Taken
    <3> QED BY <1>z, <1>6, <3>1 DEF ZoomOffsetsCount
  <2> QED BY <2>1, <2>2
<1>7. CASE key.z < ZoomOffsetsCount
  <2>. DEFINE z == key.z
  <2>1. z \in 0..(ZoomOffsetsCount - 1) /\ ~(z >= Reader!ZoomOffsetsCount)
    BY <1>z, <1>7 DEF ZoomOffsetsCount, Reader!ZoomOffsetsCount
  <2>2. \A i \in 1..Len(tiles) : Selected(z, i) <=> i <= Len(tiles) /\ tiles[i].key.z = z
    BY <1>3, <2>1 DEF Selects
  <2>3. Slot(z)
    BY <2>1 DEF StoreInv, Taken
  <2>4. CASE zoomDir[z] = NoZoom
    <3>1. zoomDir[z].count = 0 /\ zoomDir[z].offset = 0
      BY <2>4 DEF NoZoom
    <3>2. Reader!Lookup(File, key) = 0
      BY <1>1, <3>1 DEF Reader!Lookup
    <3>3. ASSUME NEW i \in 1..Len(tiles), tiles[i].key = key PROVE FALSE
      <4>1. Selected(z, i)
        BY <1>2, <2>2, <3>3
      <4>2. (0 - HeaderSize) \div EntrySize \in Int
        <5>1. 0 - HeaderSize \in Int /\ EntrySize \in Nat \ {0}
          BY DEF HeaderSize, EntrySize
        <5> QED BY <5>1
      <4> QED BY <3>1, <4>1, <4>2 DEF Selected
    <3> QED BY <3>2, <3>3
  <2>5. ASSUME NEW first \in 1..Len(tiles), NEW last \in 1..Len(tiles), first <= last,
               zoomDir[z] = DirectoryEntry(first, last)
        PROVE  /\ \A i \in 1..Len(tiles) : tiles[i].key = key => Reader!Lookup(File, key) = i
               /\ \/ Reader!Lookup(File, key) = 0
                  \/ /\ Reader!Lookup(File, key) \in 1..Len(tiles)
                     /\ tiles[Reader!Lookup(File, key)].key = key
    <3>1. zoomDir[z].offset = 292 + (first - 1) * 20 /\ zoomDir[z].count = last - first + 1
      BY <2>5 DEF DirectoryEntry, HeaderSize, EntrySize
    <3>2. (zoomDir[z].offset - HeaderSize) \div 20 = first - 1
      BY <1>2, <3>1 DEF HeaderSize
    <3>3. ASSUME NEW i \in 1..Len(tiles) PROVE (i >= first /\ i <= last) <=> tiles[i].key.z = z
      <4>1. Selected(z, i) <=> (i > first - 1 /\ i <= first - 1 + (last - first + 1))
        BY <3>1, <3>2 DEF Selected, EntrySize
      <4> QED BY <1>2, <2>2, <2>5, <4>1
    <3>. DEFINE hits == {i \in first..last : entries[i].key.x = key.x /\ entries[i].key.y = key.y}
    <3>4. Reader!Lookup(File, key) = IF hits = {} THEN 0 ELSE CHOOSE i \in hits : TRUE
      <4>1. /\ first - 1 + 1 = first /\ first - 1 + (last - first + 1) = last
            /\ ~(last > Len(entries)) /\ last - first + 1 # 0
            /\ ~(zoomDir[z].offset < HeaderSize)
        BY <1>2, <2>5, <3>1 DEF HeaderSize
      <4>. DEFINE start == (File.zoomDir[key.z].offset - File.indexOffset) \div Reader!EntrySize
                  end == start + File.zoomDir[key.z].count
      <4>2. start = first - 1
        BY <1>1, <3>2 DEF Reader!EntrySize
      <4>3. start + 1 = first /\ end = last
        BY <1>1, <3>1, <4>1, <4>2
      <4>4. Reader!Lookup(File, key) =
              IF key.z >= Reader!ZoomOffsetsCount \/ File.zoomDir[key.z].count = 0 THEN 0
              ELSE IF File.zoomDir[key.z].offset < File.indexOffset \/ end > Len(File.entries)
                THEN -1
                ELSE IF {i \in (start + 1)..end :
                          File.entries[i].key.x = key.x /\ File.entries[i].key.y = key.y} = {}
                  THEN 0
                  ELSE CHOOSE i \in {i \in (start + 1)..end :
                          File.entries[i].key.x = key.x /\ File.entries[i].key.y = key.y} : TRUE
        BY DEF Reader!Lookup
      <4> HIDE DEF start, end, File
      <4>5. ~(key.z >= Reader!ZoomOffsetsCount) /\ File.zoomDir[key.z].count # 0
            /\ ~(File.zoomDir[key.z].offset < File.indexOffset) /\ ~(end > Len(File.entries))
        BY <1>1, <2>1, <3>1, <4>1, <4>3
      <4>6. {i \in (start + 1)..end :
               File.entries[i].key.x = key.x /\ File.entries[i].key.y = key.y} = hits
        BY <1>1, <4>3, Zenon
      <4> HIDE DEF hits
      <4> QED BY <4>4, <4>5, <4>6, Zenon
    <3>5. \A i \in hits : i \in 1..Len(tiles) /\ tiles[i].key = key
      <4> SUFFICES ASSUME NEW i \in hits PROVE i \in 1..Len(tiles) /\ tiles[i].key = key
        OBVIOUS
      <4>1. i \in 1..Len(tiles) /\ i >= first /\ i <= last
        BY <1>2, <2>5
      <4>2. tiles[i].key.z = key.z /\ tiles[i].key.x = key.x /\ tiles[i].key.y = key.y
        BY <1>2, <3>3, <4>1
      <4> QED BY <1>4, <4>1, <4>2, SameKey
    <3>6. ASSUME NEW i \in 1..Len(tiles), tiles[i].key = key PROVE hits = {i}
      <4>1. i \in hits
        BY <1>2, <2>5, <3>3, <3>6
      <4>2. \A j \in hits : j = i
        BY <1>5, <3>5, <3>6
      <4> HIDE DEF hits
      <4> QED BY <4>1, <4>2
    <3> HIDE DEF hits
    <3>7. ASSUME NEW i \in 1..Len(tiles), tiles[i].key = key PROVE Reader!Lookup(File, key) = i
      <4>1. hits = {i}
        BY <3>6, <3>7
      <4> QED BY <3>4, <4>1
    <3>8. CASE hits = {}
      BY <3>4, <3>7, <3>8
    <3>9. CASE hits # {}
      <4>1. Reader!Lookup(File, key) \in hits
        BY <3>4, <3>9
      <4> QED BY <3>5, <3>7, <4>1
    <3> QED BY <3>8, <3>9
  <2> QED BY <2>3, <2>4, <2>5 DEF Slot
<1> QED BY <1>z, <1>6, <1>7 DEF ZoomOffsetsCount

(* The bytes at an entry's place are the bytes of its tile. *)
LEMMA SliceReads ==
  ASSUME StoreInv, pc = "Done", NEW i \in 1..Len(tiles)
  PROVE  Reader!Slice(File, entries[i].offset, entries[i].length) = tiles[i].content.bytes
<1>1. File.blob = blob
  BY DEF File
<1>2. /\ Len(entries) = Len(tiles) /\ Len(blob) = Len(tiles) /\ Len(tiles) \in Nat
      /\ \A j \in 1..Len(tiles) : /\ tiles[j] \in Tiles
                                  /\ entries[j].offset = blob[j].at
                                  /\ entries[j].length = ByteLen[blob[j].bytes]
                                  /\ blob[j].bytes = tiles[j].content.bytes
  BY Finished
<1>. DEFINE here == {j \in 1..Len(blob) : blob[j].at = entries[i].offset
                                          /\ ByteLen[blob[j].bytes] = entries[i].length}
<1>3. ASSUME NEW j \in 1..Len(tiles), blob[j].at = entries[i].offset,
             ByteLen[blob[j].bytes] = entries[i].length
      PROVE  blob[j].bytes = blob[i].bytes
  <2>1. /\ blob[i].bytes \in Bytes /\ blob[j].bytes \in Bytes
        /\ entries[i].offset \in Nat /\ entries[i].length \in Nat
    <3>1. /\ blob \in Seq([at : Nat, bytes : Bytes])
          /\ entries \in Seq([key : Keys, offset : Nat, length : Nat])
      BY DEF StoreInv, LayoutInv, TypeOK
    <3>2. blob[i] \in [at : Nat, bytes : Bytes] /\ blob[j] \in [at : Nat, bytes : Bytes]
          /\ entries[i] \in [key : Keys, offset : Nat, length : Nat]
      BY <1>2, <3>1, ElementOfSeq
    <3> QED BY <3>2
  <2>2. \A a, b \in 1..Len(entries) :
          a < b => entries[a].offset + entries[a].length <= entries[b].offset
    BY LayoutDisjoint DEF StoreInv, ExtentsDisjoint
  <2>3. entries[j].offset = entries[i].offset /\ entries[j].length = entries[i].length
    BY <1>2, <1>3
  <2>4. CASE i = j
    BY <2>4
  <2>5. CASE i # j
    <3>1. i < j \/ j < i
      BY <1>2, <2>5
    <3>2. entries[i].offset + entries[i].length <= entries[i].offset
      BY <1>2, <2>2, <2>3, <3>1
    <3>3. entries[i].length = 0
      BY <2>1, <3>2
    <3> QED BY <1>2, <1>3, <2>1, <3>3, ByteStringsAssumption
  <2> QED BY <2>4, <2>5
<1>4. i \in here
  BY <1>2
<1>5. Reader!Slice(File, entries[i].offset, entries[i].length) =
        IF here = {} THEN Reader!Garbage ELSE blob[CHOOSE j \in here : TRUE].bytes
  BY <1>1 DEF Reader!Slice
<1>6. \A j \in here : blob[j].bytes = blob[i].bytes
  BY <1>2, <1>3
<1> HIDE DEF here
<1>7. (CHOOSE j \in here : TRUE) \in here
  BY <1>4
<1> QED BY <1>2, <1>4, <1>5, <1>6, <1>7

(* Read back, the finished file is the pack that was collected. *)
LEMMA PackReadsBack ==
  ASSUME StoreInv, pc = "Done"
  PROVE  ReadBack = {[tiles |-> TilesCollected, exts |-> BagOfSeq(exts)]}
<1>. DEFINE read == {t \in [key : Keys, bytes : Bytes \cup {Reader!Garbage}] :
                       t.bytes = Reader!TileBytes(File, t.key)}
<1>1. /\ Len(tiles) \in Nat
      /\ \A i \in 1..Len(tiles) : tiles[i] \in Tiles
  BY Finished
<1>2. File.entries = entries
  BY DEF File
<1>3. ASSUME NEW i \in 1..Len(tiles)
      PROVE  [key |-> tiles[i].key, bytes |-> tiles[i].content.bytes] \in read
  <2>. DEFINE t == [key |-> tiles[i].key, bytes |-> tiles[i].content.bytes]
  <2>1. tiles[i].key \in Keys /\ tiles[i].content.bytes \in Bytes
    <3>1. tiles[i] \in Tiles
      BY <1>1
    <3> QED BY <3>1 DEF Tiles, Contents
  <2>2. Reader!Lookup(File, tiles[i].key) = i
    BY <2>1, LookupFinds
  <2>3. i # 0 /\ i # -1
    OBVIOUS
  <2>4. Reader!TileBytes(File, tiles[i].key) =
          Reader!Slice(File, entries[i].offset, entries[i].length)
    BY <1>2, <2>2, <2>3 DEF Reader!TileBytes
  <2>5. Reader!TileBytes(File, tiles[i].key) = tiles[i].content.bytes
    BY <2>4, SliceReads
  <2> QED BY <2>1, <2>5
<1>4. ASSUME NEW t \in read PROVE t \in TilesCollected
  <2>1. t.key \in Keys /\ t.bytes \in Bytes \cup {Reader!Garbage}
        /\ t.bytes = Reader!TileBytes(File, t.key) /\ t = [key |-> t.key, bytes |-> t.bytes]
    OBVIOUS
  <2>. DEFINE i == Reader!Lookup(File, t.key)
  <2>2. i # 0
    <3>1. Reader!NoTile \notin Bytes \cup {Reader!Garbage}
      BY ByteStringsAssumption DEF Reader!NoTile, Reader!Garbage
    <3> QED BY <2>1, <3>1 DEF Reader!TileBytes
  <2>3. i \in 1..Len(tiles) /\ tiles[i].key = t.key
    BY <2>1, <2>2, LookupFinds
  <2>4. i # -1
    BY <2>3
  <2>5. t.bytes = Reader!Slice(File, entries[i].offset, entries[i].length)
    BY <1>2, <2>1, <2>2, <2>4 DEF Reader!TileBytes
  <2> HIDE DEF i
  <2>6. t.bytes = tiles[i].content.bytes
    BY <2>3, <2>5, SliceReads
  <2> QED BY <2>1, <2>3, <2>6 DEF TilesCollected
<1>5. read = TilesCollected
  <2> HIDE DEF read
  <2>1. \A t \in TilesCollected : t \in read
    BY <1>3 DEF TilesCollected
  <2> QED BY <1>4, <2>1
<1>6. Reader!SectionsFrom(File, extOffset).exts = exts
  BY SectionsReadBack
<1>7. ReadBack = {[tiles |-> read, exts |-> BagOfSeq(Reader!SectionsFrom(File, extOffset).exts)]}
  BY FinishedFileOpens DEF ReadBack
<1> HIDE DEF read
<1> QED BY <1>5, <1>6, <1>7

----------------------------------------------------------------------------
(* What the pack store sees of the writer's sequences. *)

(* The positions at which an element occurs. *)
Places(s, x) == {i \in 1..Len(s) : s[i] = x}

(* They are finitely many. *)
LEMMA PlacesFinite ==
  ASSUME NEW s, Len(s) \in Nat, NEW x
  PROVE  IsFiniteSet(Places(s, x)) /\ Cardinality(Places(s, x)) \in Nat
<1>1. IsFiniteSet(1..Len(s))
  BY FS_Interval
<1>2. Places(s, x) \in SUBSET (1..Len(s))
  BY DEF Places
<1> HIDE DEF Places
<1> QED BY <1>1, <1>2, FS_Subset, FS_CardinalityType

(* A bag with one more copy of an element. *)
OneMore(bag, e) ==
  [x \in DOMAIN bag \cup {e} |->
     (IF x \in DOMAIN bag THEN bag[x] ELSE 0) + (IF x \in {e} THEN 1 ELSE 0)]

(* Attaching an extension adds one copy of it to the bag. *)
LEMMA BagAppend ==
  ASSUME NEW S, NEW s \in Seq(S), NEW e \in S
  PROVE  BagOfSeq(Append(s, e)) = OneMore(BagOfSeq(s), e)
<1>. DEFINE r == Append(s, e)
            n == Len(s)
            D == {s[i] : i \in 1..n}
<1>1. n \in Nat /\ Len(r) = n + 1 /\ r[n + 1] = e /\ \A i \in 1..n : r[i] = s[i]
  OBVIOUS
<1>2. {r[i] : i \in 1..Len(r)} = D \cup {e}
  <2> HIDE DEF r, n
  <2>1. \A i \in 1..(n + 1) : i \in 1..n \/ i = n + 1
    BY <1>1
  <2>2. n + 1 \in 1..(n + 1) /\ \A i \in 1..n : i \in 1..(n + 1)
    BY <1>1
  <2> QED BY <1>1, <2>1, <2>2
<1>3. ASSUME NEW x
      PROVE  /\ x = e => Places(r, x) = Places(s, x) \cup {n + 1}
             /\ x # e => Places(r, x) = Places(s, x)
             /\ n + 1 \notin Places(s, x)
             /\ x \notin D => Places(s, x) = {}
  <2>1. \A i : i \in 1..(n + 1) <=> i \in 1..n \/ i = n + 1
    BY <1>1
  <2>2. n + 1 \notin 1..n
    BY <1>1
  <2> HIDE DEF r
  <2> QED BY <1>1, <2>1, <2>2 DEF Places
<1>4. ASSUME NEW x \in D \cup {e}
      PROVE  Cardinality(Places(r, x)) =
               (IF x \in D THEN Cardinality(Places(s, x)) ELSE 0) + (IF x \in {e} THEN 1 ELSE 0)
  <2>1. IsFiniteSet(Places(s, x)) /\ Cardinality(Places(s, x)) \in Nat
    BY <1>1, PlacesFinite
  <2>2. x \notin D => Cardinality(Places(s, x)) = 0
    BY <1>3, FS_EmptySet
  <2>3. Cardinality(Places(s, x) \cup {n + 1}) = Cardinality(Places(s, x)) + 1
    BY <1>3, <2>1, FS_AddElement
  <2>4. /\ x = e => Cardinality(Places(r, x)) = Cardinality(Places(s, x)) + 1
        /\ x # e => Cardinality(Places(r, x)) = Cardinality(Places(s, x))
    <3> HIDE DEF r, n, D
    <3> QED BY <1>3, <2>3
  <2> HIDE DEF r, n, D
  <2>5. x # e => x \in D
    OBVIOUS
  <2> QED BY <2>1, <2>2, <2>4, <2>5
<1>5. BagOfSeq(r) = [x \in D \cup {e} |-> Cardinality(Places(r, x))]
  BY <1>2 DEF BagOfSeq, Places
<1>6. BagOfSeq(s) = [x \in D |-> Cardinality(Places(s, x))]
  BY DEF BagOfSeq, Places
<1> HIDE DEF D, r, n
<1>7. DOMAIN BagOfSeq(s) = D /\ \A x \in D : BagOfSeq(s)[x] = Cardinality(Places(s, x))
  BY <1>6
<1> QED BY <1>4, <1>5, <1>7 DEF r, OneMore

(* Sorting a sequence keeps its elements and its bag. *)
LEMMA BagPermuted ==
  ASSUME NEW S, NEW s \in Seq(S), NEW p \in Rearrangements(Len(s))
  PROVE  /\ BagOfSeq(Permuted(s, p)) = BagOfSeq(s)
         /\ \A j \in 1..Len(s) : \E i \in 1..Len(s) : Permuted(s, p)[i] = s[j]
<1>. DEFINE r == Permuted(s, p)
            n == Len(s)
<1>1. n \in Nat /\ Len(r) = n /\ r \in Seq(S)
  BY PermutedFacts
<1>2. \A i \in 1..n : p[i] \in 1..n /\ r[i] = s[p[i]]
  BY DEF Rearrangements, Permuted
<1>3. p \in [1..n -> 1..n] /\ \A i, j \in 1..n : p[i] = p[j] => i = j
  BY DEF Rearrangements
<1>4. p \in Surjection(1..n, 1..n)
  <2> HIDE DEF n
  <2>1. p \in Injection(1..n, 1..n)
    BY <1>3, Fun_IsInj
  <2>2. IsFiniteSet(1..n)
    BY <1>1, FS_Interval
  <2> QED BY <2>1, <2>2, FS_Injection
<1>5. \A j \in 1..n : \E i \in 1..n : p[i] = j
  BY <1>4, Fun_SurjectionProperties
<1>6. {r[i] : i \in 1..n} = {s[i] : i \in 1..n}
  <2> HIDE DEF r, n
  <2>1. \A i \in 1..n : \E j \in 1..n : r[i] = s[j]
    BY <1>2
  <2>2. \A j \in 1..n : \E i \in 1..n : r[i] = s[j]
    BY <1>2, <1>5
  <2>. DEFINE R == {r[i] : i \in 1..n}
              D == {s[i] : i \in 1..n}
  <2>3. \A x \in R : x \in D
    BY <2>1
  <2>4. \A x \in D : x \in R
    BY <2>2
  <2>5. R = D
    <3> HIDE DEF R, D
    <3> QED BY <2>3, <2>4
  <2> QED BY <2>5
<1>7. ASSUME NEW x PROVE Cardinality(Places(r, x)) = Cardinality(Places(s, x))
  <2>. DEFINE q == [i \in Places(r, x) |-> p[i]]
  <2>1. q \in [Places(r, x) -> Places(s, x)]
    <3> HIDE DEF r, n
    <3> QED BY <1>1, <1>2 DEF Places, n
  <2>2. \A a, b \in Places(r, x) : q[a] = q[b] => a = b
    <3>1. \A a \in Places(r, x) : a \in 1..n
      BY <1>1 DEF Places
    <3> QED BY <1>3, <3>1
  <2>3. ASSUME NEW j \in Places(s, x) PROVE \E i \in Places(r, x) : q[i] = j
    <3>1. j \in 1..n /\ s[j] = x
      BY DEF Places
    <3>2. PICK i \in 1..n : p[i] = j
      BY <1>5, <3>1
    <3>3. i \in Places(r, x)
      <4> HIDE DEF r, n
      <4> QED BY <1>1, <1>2, <3>1, <3>2 DEF Places
    <3> QED BY <3>2, <3>3
  <2>4. q \in Bijection(Places(r, x), Places(s, x))
    <3> HIDE DEF q
    <3> QED BY <2>1, <2>2, <2>3, Fun_IsBij
  <2>5. IsFiniteSet(Places(r, x))
    BY <1>1, PlacesFinite
  <2>6. ExistsBijection(Places(r, x), Places(s, x))
    BY <2>4, Fun_ExistsBij
  <2> HIDE DEF q, r
  <2> QED BY <2>5, <2>6, FS_Bijection
<1>8. BagOfSeq(r) = [x \in {r[i] : i \in 1..n} |-> Cardinality(Places(r, x))]
  BY <1>1 DEF BagOfSeq, Places
<1>9. BagOfSeq(s) = [x \in {s[i] : i \in 1..n} |-> Cardinality(Places(s, x))]
  BY DEF BagOfSeq, Places
<1>10. \A j \in 1..n : \E i \in 1..n : r[i] = s[j]
  <2> HIDE DEF r, n
  <2> QED BY <1>2, <1>5
<1> HIDE DEF r, n
<1>11. BagOfSeq(r) = BagOfSeq(s)
  BY <1>6, <1>7, <1>8, <1>9
<1> QED BY <1>10, <1>11 DEF r, n

----------------------------------------------------------------------------
(* The layers together, and each step as a step of the pack store. *)

(* The layers hold initially and every step keeps them. *)
LEMMA InitStored == Init => StoreInv
<1> SUFFICES ASSUME Init PROVE StoreInv
  OBVIOUS
<1>1. LayoutInv /\ Directory
  BY InitLayout, InitDirectory
<1>2. Taken
  BY DEF Init, Taken, Slot
<1>3. Sectioned
  BY DEF Init, Sectioned
<1> QED BY <1>1, <1>2, <1>3 DEF StoreInv

(* Every step keeps the layers. *)
LEMMA NextStored == StoreInv /\ [Next]_vars => StoreInv'
<1> SUFFICES ASSUME StoreInv, [Next]_vars PROVE StoreInv'
  OBVIOUS
<1>1. LayoutInv'
  BY NextTyped, NextPlanned, NextWritten DEF StoreInv, LayoutInv
<1>2. Directory' /\ Taken'
  BY NextDirectory, NextTaken DEF StoreInv, LayoutInv
<1>3. Sectioned'
  BY <1>1, NextSectioned DEF StoreInv
<1> QED BY <1>1, <1>2, <1>3 DEF StoreInv

(* The layers the read-back rests on hold in every reachable state. *)
THEOREM StoredAlways == Spec => []StoreInv
BY InitStored, NextStored, PTL DEF Spec

(* Before it is done the writer has published nothing. *)
LEMMA NotDoneNothingRead == pc # "Done" => ReadBack = {}
BY DEF ReadBack

(* An empty pack store is what the writer starts as. *)
LEMMA InitStores == Init => Store!Init
<1> SUFFICES ASSUME Init PROVE Store!Init
  OBVIOUS
<1>1. StorePhase = "Collecting" /\ ReadBack = {}
  BY NotDoneNothingRead DEF Init, StorePhase, Collecting
<1>2. TilesCollected = {}
  BY DEF Init, TilesCollected
<1>3. BagOfSeq(exts) = [e \in {} |-> 1]
  <2>1. {exts[i] : i \in 1..Len(exts)} = {}
    BY DEF Init
  <2> QED BY <2>1 DEF BagOfSeq
<1>4. Store!EmptyBag = [e \in {} |-> 1]
  BY DEF Store!EmptyBag, Store!SetToBag
<1> QED BY <1>1, <1>2, <1>3, <1>4 DEF Store!Init

(* The tiles collected once one more is appended. *)
LEMMA TileCollected ==
  ASSUME TypeOK, NEW t \in Tiles, tiles' = Append(tiles, t)
  PROVE  TilesCollected' = TilesCollected \cup {[key |-> t.key, bytes |-> t.content.bytes]}
<1>. DEFINE At(s, i) == [key |-> s[i].key, bytes |-> s[i].content.bytes]
            n == Len(tiles)
            Now == {At(tiles', i) : i \in 1..Len(tiles')}
            Old == {At(tiles, i) : i \in 1..n}
<1>0. tiles \in Seq(Tiles)
  BY DEF TypeOK
<1>1. n \in Nat /\ Len(tiles') = n + 1 /\ tiles'[n + 1] = t /\ \A i \in 1..n : tiles'[i] = tiles[i]
  BY <1>0
<1>2. ASSUME NEW i \in 1..Len(tiles') PROVE At(tiles', i) \in Old \cup {At(tiles', n + 1)}
  <2>1. i \in 1..n \/ i = n + 1
    BY <1>1
  <2>2. i \in 1..n => At(tiles', i) = At(tiles, i)
    BY <1>1
  <2> HIDE DEF At, n
  <2> QED BY <2>1, <2>2
<1>3. ASSUME NEW i \in 1..n PROVE At(tiles, i) \in Now
  <2>1. At(tiles', i) = At(tiles, i) /\ i \in 1..Len(tiles')
    BY <1>1
  <2> HIDE DEF At, n
  <2> QED BY <2>1
<1>4. At(tiles', n + 1) \in Now
  <2>1. n + 1 \in 1..Len(tiles')
    BY <1>1
  <2> HIDE DEF At, n
  <2> QED BY <2>1
<1>5. (\A x \in Now : x \in Old \cup {At(tiles', n + 1)}) /\ (\A x \in Old : x \in Now)
  <2> HIDE DEF At, n
  <2> QED BY <1>2, <1>3
<1>6. Now = Old \cup {At(tiles', n + 1)}
  <2> HIDE DEF At, n, Now, Old
  <2> QED BY <1>4, <1>5
<1>7. Now = TilesCollected' /\ Old = TilesCollected
  BY DEF TilesCollected
<1> HIDE DEF Now, Old
<1> QED BY <1>1, <1>6, <1>7

(* Sorting keeps what was collected and attached. *)
LEMMA SortKeepsAll ==
  ASSUME TypeOK, Sort
  PROVE  TilesCollected' = TilesCollected /\ BagOfSeq(exts)' = BagOfSeq(exts)
<1>. DEFINE At(s, i) == [key |-> s[i].key, bytes |-> s[i].content.bytes]
            Now == {At(tiles', i) : i \in 1..Len(tiles')}
            Old == {At(tiles, i) : i \in 1..Len(tiles)}
<1>0. tiles \in Seq(Tiles) /\ exts \in Seq(Extensions)
  BY DEF TypeOK
<1>1. PICK p \in Rearrangements(Len(tiles)) : tiles' = Permuted(tiles, p)
  BY DEF Sort
<1>2. PICK q \in Rearrangements(Len(exts)) : exts' = Permuted(exts, q)
  BY DEF Sort
<1>3. BagOfSeq(exts)' = BagOfSeq(exts)
  <2>1. BagOfSeq(Permuted(exts, q)) = BagOfSeq(exts)
    BY <1>0, BagPermuted
  <2>2. BagOfSeq(exts)' = BagOfSeq(exts')
    BY DEF BagOfSeq
  <2> QED BY <1>2, <2>1, <2>2
<1>4. /\ Len(tiles') = Len(tiles)
      /\ \A i \in 1..Len(tiles) : \E j \in 1..Len(tiles) : tiles'[i] = tiles[j]
      /\ \A j \in 1..Len(tiles) : \E i \in 1..Len(tiles) : tiles'[i] = tiles[j]
  <2>1. \A i \in 1..Len(tiles) : \E j \in 1..Len(tiles) : Permuted(tiles, p)[i] = tiles[j]
    BY <1>0, PermutedFacts
  <2>2. \A j \in 1..Len(tiles) : \E i \in 1..Len(tiles) : Permuted(tiles, p)[i] = tiles[j]
    BY <1>0, BagPermuted
  <2>3. Len(Permuted(tiles, p)) = Len(tiles)
    BY <1>0, PermutedFacts
  <2> QED BY <1>1, <2>1, <2>2, <2>3
<1>5. ASSUME NEW i \in 1..Len(tiles') PROVE At(tiles', i) \in Old
  <2>1. PICK j \in 1..Len(tiles) : tiles'[i] = tiles[j]
    BY <1>4
  <2>2. At(tiles', i) = At(tiles, j)
    BY <2>1
  <2> HIDE DEF At
  <2> QED BY <2>2
<1>6. ASSUME NEW j \in 1..Len(tiles) PROVE At(tiles, j) \in Now
  <2>1. PICK i \in 1..Len(tiles') : tiles'[i] = tiles[j]
    BY <1>4
  <2>2. At(tiles', i) = At(tiles, j)
    BY <2>1
  <2> HIDE DEF At
  <2> QED BY <2>2
<1>7. Now = Old
  <2>1. (\A x \in Now : x \in Old) /\ (\A x \in Old : x \in Now)
    <3> HIDE DEF At
    <3> QED BY <1>5, <1>6
  <2> HIDE DEF Now, Old
  <2> QED BY <2>1
<1>8. Now = TilesCollected' /\ Old = TilesCollected
  BY DEF TilesCollected
<1> HIDE DEF Now, Old
<1> QED BY <1>3, <1>7, <1>8

(* The pack store sees nothing of a step that only plans or writes. *)
LEMMA NothingSeen ==
  ASSUME UNCHANGED <<tiles, exts>>, pc # "Done", pc' # "Done", StorePhase' = StorePhase
  PROVE  UNCHANGED Store!vars
<1>1. TilesCollected' = TilesCollected /\ BagOfSeq(exts)' = BagOfSeq(exts)
  BY DEF TilesCollected, BagOfSeq
<1>2. ReadBack = {} /\ ReadBack' = {}
  BY DEF ReadBack
<1> QED BY <1>1, <1>2 DEF Store!vars

(* A step that only fails abandons the pack. *)
LEMMA FailureAbandons ==
  ASSUME UNCHANGED TilesCollected, UNCHANGED BagOfSeq(exts),
         pc \notin {"Done", "Failed"}, pc' = "Failed"
  PROVE  Store!Abandon
<1>1. StorePhase \in {"Collecting", "Sealed"}
  BY DEF StorePhase
<1>2. StorePhase' = "Abandoned"
  BY DEF StorePhase, Collecting
<1>3. ReadBack = {} /\ ReadBack' = {}
  BY DEF ReadBack
<1> QED BY <1>1, <1>2, <1>3 DEF Store!Abandon

(* Each call that collects is an addition, an attachment, a seal or nothing. *)
LEMMA CollectStores ==
  ASSUME StoreInv, Collect
  PROVE  Store!Next \/ UNCHANGED Store!vars
<1>0. TypeOK /\ tiles \in Seq(Tiles) /\ exts \in Seq(Extensions)
  BY DEF StoreInv, LayoutInv, TypeOK
<1>1. ASSUME NEW m \in Metas, BeginPack(m) PROVE UNCHANGED Store!vars
  <2>1. UNCHANGED <<tiles, exts>> /\ Collecting /\ Collecting'
    BY <1>1 DEF BeginPack, Collecting
  <2>2. pc # "Done" /\ pc' # "Done" /\ StorePhase' = StorePhase
    BY <2>1 DEF Collecting, StorePhase
  <2> QED BY <2>1, <2>2, NothingSeen
<1>2. CASE RegisterByteSource
  <2>1. UNCHANGED <<tiles, exts, pc>> /\ Collecting
    BY <1>2 DEF RegisterByteSource
  <2>2. pc # "Done" /\ pc' # "Done" /\ StorePhase' = StorePhase
    BY <2>1 DEF Collecting, StorePhase
  <2> QED BY <2>1, <2>2, NothingSeen
<1>3. CASE FinalizeNotBegun
  <2>1. UNCHANGED TilesCollected /\ UNCHANGED BagOfSeq(exts) /\ pc = "NotBegun" /\ pc' = "Failed"
    BY <1>3 DEF FinalizeNotBegun, Fail, callVars, TilesCollected, BagOfSeq
  <2> QED BY <2>1, FailureAbandons DEF Store!Next
<1>4. CASE Finalize
  <2>1. Sort /\ pc = "Building"
    BY <1>4 DEF Finalize
  <2>2. UNCHANGED TilesCollected /\ UNCHANGED BagOfSeq(exts)
    BY <1>0, <2>1, SortKeepsAll
  <2>3. pc' \in {"Failed", "PlanTiles"}
    BY <1>4 DEF Finalize, Fail
  <2>4. CASE pc' = "Failed"
    BY <2>1, <2>2, <2>4, FailureAbandons DEF Store!Next
  <2>5. CASE pc' = "PlanTiles"
    <3>1. StorePhase = "Collecting" /\ StorePhase' = "Sealed"
      BY <2>1, <2>5 DEF StorePhase, Collecting
    <3>2. ReadBack = {} /\ ReadBack' = {}
      BY <2>1, <2>5 DEF ReadBack
    <3>3. Store!Seal
      BY <2>2, <3>1, <3>2 DEF Store!Seal
    <3> QED BY <3>3 DEF Store!Next
  <2> QED BY <2>3, <2>4, <2>5
<1>5. ASSUME NEW e \in Extensions, AddExtension(e) PROVE Store!Next \/ UNCHANGED Store!vars
  <2>1. UNCHANGED <<pc, tiles>> /\ Collecting /\ exts' = (IF result' = "Ok" THEN Append(exts, e) ELSE exts)
    BY <1>5 DEF AddExtension
  <2>2. /\ StorePhase = "Collecting" /\ StorePhase' = "Collecting" /\ pc # "Done" /\ pc' # "Done"
        /\ ReadBack = {} /\ ReadBack' = {} /\ TilesCollected' = TilesCollected
    BY <2>1 DEF Collecting, StorePhase, ReadBack, TilesCollected
  <2>3. CASE result' # "Ok"
    BY <2>1, <2>2, <2>3, NothingSeen
  <2>4. CASE result' = "Ok"
    <3>1. BagOfSeq(exts)' = BagOfSeq(Append(exts, e))
      BY <2>1, <2>4 DEF BagOfSeq
    <3>2. BagOfSeq(Append(exts, e)) = OneMore(BagOfSeq(exts), e)
      BY <1>0, BagAppend
    <3>3. Store!Attach(e)
      BY <2>2, <3>1, <3>2 DEF OneMore, Store!Attach, Store!(+), Store!SetToBag
    <3> QED BY <3>3 DEF Store!Next
  <2> QED BY <2>3, <2>4
<1>6. ASSUME NEW t \in Tiles, AddTileRef(t) PROVE Store!Next \/ UNCHANGED Store!vars
  <2>1. /\ UNCHANGED <<pc, exts>> /\ Collecting /\ result' = TileVerdict(t)
        /\ IF result' = "Ok" THEN tiles' = Append(tiles, t) ELSE UNCHANGED tiles
    BY <1>6 DEF AddTileRef
  <2>2. /\ StorePhase = "Collecting" /\ StorePhase' = "Collecting" /\ pc # "Done" /\ pc' # "Done"
        /\ ReadBack = {} /\ ReadBack' = {} /\ BagOfSeq(exts)' = BagOfSeq(exts)
    BY <2>1 DEF Collecting, StorePhase, ReadBack, BagOfSeq
  <2>3. CASE result' # "Ok"
    BY <2>1, <2>2, <2>3, NothingSeen
  <2>4. CASE result' = "Ok"
    <3>1. TilesCollected' = TilesCollected \cup {[key |-> t.key, bytes |-> t.content.bytes]}
      BY <1>0, <2>1, <2>4, TileCollected
    <3>2. t.key \notin keysSeen
      BY <2>1, <2>4 DEF TileVerdict
    <3>3. \A s \in TilesCollected : s.key # t.key
      <4> SUFFICES ASSUME NEW i \in 1..Len(tiles) PROVE tiles[i].key # t.key
        BY DEF TilesCollected
      <4> QED BY <3>2 DEF StoreInv, Taken
    <3>4. Store!Add(t.key, t.content.bytes)
      BY <2>2, <3>1, <3>3 DEF Store!Add
    <3>5. t.key \in Keys /\ t.content.bytes \in Bytes
      BY DEF Tiles, Contents
    <3> QED BY <3>4, <3>5 DEF Store!Next
  <2> QED BY <2>3, <2>4
<1> QED BY <1>1, <1>2, <1>3, <1>4, <1>5, <1>6 DEF Collect

(* What is read back, for any finished state, the next one included. *)
LEMMA PublishedIsCollected ==
  StoreInv /\ pc = "Done" => ReadBack = {[tiles |-> TilesCollected, exts |-> BagOfSeq(exts)]}
BY PackReadsBack

(* The last write publishes the pack. *)
LEMMA WriteCrcPublishes ==
  ASSUME StoreInv, StoreInv', WriteCrc
  PROVE  Store!Publish
<1>1. pc = "Exts" /\ pc' = "Done" /\ UNCHANGED <<tiles, exts>>
  BY DEF WriteCrc, callVars
<1>2. StorePhase = "Sealed" /\ StorePhase' = "Published"
  BY <1>1 DEF StorePhase, Collecting
<1>3. TilesCollected' = TilesCollected /\ BagOfSeq(exts)' = BagOfSeq(exts)
  BY <1>1 DEF TilesCollected, BagOfSeq
<1>4. ReadBack' = {[tiles |-> TilesCollected', exts |-> BagOfSeq(exts)']}
  <2>1. (StoreInv /\ pc = "Done" => ReadBack = {[tiles |-> TilesCollected, exts |-> BagOfSeq(exts)]})'
    BY PublishedIsCollected, PTL
  <2> QED BY <1>1, <2>1
<1> QED BY <1>2, <1>3, <1>4 DEF Store!Publish

(* Every step of the writer is a step of the pack store or changes nothing there. *)
LEMMA NextStores ==
  ASSUME StoreInv, StoreInv', [Next]_vars
  PROVE  [Store!Next]_(Store!vars)
<1>1. CASE UNCHANGED vars \/ Consumed
  <2>1. UNCHANGED vars
    BY <1>1 DEF Consumed
  <2> QED BY <2>1 DEF vars, callVars, planVars, outVars, Store!vars, StorePhase, Collecting,
                      TilesCollected, BagOfSeq, ReadBack, File
<1>2. CASE Collect
  BY <1>2, CollectStores
<1>3. ASSUME UNCHANGED <<tiles, exts>>, pc \notin {"NotBegun", "Building", "Done", "Failed"},
             pc' \notin {"NotBegun", "Building", "Done"}
      PROVE  Store!Next \/ UNCHANGED Store!vars
  <2>1. CASE pc' = "Failed"
    <3>1. UNCHANGED TilesCollected /\ UNCHANGED BagOfSeq(exts)
      BY <1>3 DEF TilesCollected, BagOfSeq
    <3> QED BY <1>3, <2>1, <3>1, FailureAbandons DEF Store!Next
  <2>2. CASE pc' # "Failed"
    <3>1. StorePhase' = StorePhase
      BY <1>3, <2>2 DEF StorePhase, Collecting
    <3> QED BY <1>3, <3>1, NothingSeen
  <2> QED BY <2>1, <2>2
<1>4. CASE Plan
  <2>1. /\ UNCHANGED <<tiles, exts>> /\ pc \in {"PlanTiles", "PlanExts", "PlanZooms"}
        /\ pc' \in {"PlanTiles", "PlanExts", "PlanZooms", "Failed"}
    BY <1>4 DEF Plan, PlanTile, EndOfTiles, PlanExt, NarrowPlan, PlanZoom, Fail, callVars
  <2> QED BY <1>3, <2>1
<1>5. CASE WriteCrc
  BY <1>5, WriteCrcPublishes DEF Store!Next
<1>6. CASE Stream /\ ~WriteCrc
  <2>1. /\ UNCHANGED <<tiles, exts>> /\ pc \in {"PlanZooms", "Index", "Blob", "Exts"}
        /\ pc' \in {"Index", "Blob", "Exts", "Failed"}
    BY <1>6 DEF Stream, WriteHeader, WriteEntry, PadIndex, WriteTile, EndOfBlob, WriteExt,
                SourceIoFails, OutputIoFails, Fail, callVars
  <2> QED BY <1>3, <2>1
<1> QED BY <1>1, <1>2, <1>4, <1>5, <1>6 DEF Next

(* The writer, read back through the reader, implements the pack store. *)
THEOREM PackStoreImplemented == Spec => ImplementsPackStore
<1>1. StoreInv /\ StoreInv' /\ [Next]_vars => [Store!Next]_(Store!vars)
  BY NextStores
<1> QED BY <1>1, InitStores, StoredAlways, PTL DEF Spec, ImplementsPackStore, Store!Spec

-----------------------------------------------------------------------------
(* The canonical layout *)

(* From the sort on, the extensions stay sorted. *)
ExtsSorted == pc \notin {"NotBegun", "Building", "Failed"} => ExtSorted(exts)

(* Only calls that collect, and the sort itself, touch the extensions. *)
LEMMA NextExtsSorted == ExtsSorted /\ [Next]_vars => ExtsSorted'
<1> SUFFICES ASSUME ExtsSorted, [Next]_vars PROVE ExtsSorted'
  OBVIOUS
<1>1. CASE Finalize
  BY <1>1 DEF Finalize, Sort, ExtsSorted
<1>2. CASE FinalizeNotBegun
  BY <1>2 DEF FinalizeNotBegun, Fail, ExtsSorted
<1>3. CASE (\E m \in Metas : BeginPack(m)) \/ RegisterByteSource
           \/ (\E e \in Extensions : AddExtension(e)) \/ (\E t \in Tiles : AddTileRef(t))
  <2>1. pc' \in {"NotBegun", "Building"}
    BY <1>3 DEF BeginPack, RegisterByteSource, AddExtension, AddTileRef, Collecting
  <2> QED BY <2>1 DEF ExtsSorted
<1>4. CASE Plan
  BY <1>4 DEF Plan, PlanTile, EndOfTiles, PlanExt, NarrowPlan, PlanZoom, Fail, callVars, ExtsSorted
<1>5. CASE Stream
  BY <1>5 DEF Stream, WriteHeader, WriteEntry, PadIndex, WriteTile, EndOfBlob, WriteExt, WriteCrc,
              SourceIoFails, OutputIoFails, Fail, callVars, ExtsSorted
<1>6. CASE Consumed \/ UNCHANGED vars
  BY <1>6 DEF Consumed, vars, callVars, ExtsSorted
<1> QED BY <1>1, <1>2, <1>3, <1>4, <1>5, <1>6 DEF Next, Collect

(* Keys are ordered strictly. *)
LEMMA KeyLessIsStrict ==
  ASSUME NEW a \in Key, NEW b \in Key, KeyLess(a, b)
  PROVE  ~KeyLess(b, a) /\ a # b
BY DEF Key, KeyLess

(* Padding after an aligned start is padding of the length. *)
LEMMA AlignedSum ==
  ASSUME NEW a \in Nat, NEW n \in Nat, a % 4 = 0
  PROVE  AlignUp(a + n) = a + AlignUp(n)
<1>1. (a + n) % 4 = n % 4
  OBVIOUS
<1> QED BY <1>1 DEF AlignUp

(* The first m tiles of a sorted pack. *)
First(m) == {tiles[i] : i \in 1..m}

(* Sorted, the tiles with smaller keys are those at smaller positions. *)
LEMMA FirstIsBefore ==
  ASSUME tiles \in Seq(Tiles), KeySorted(tiles), NEW i \in 1..Len(tiles)
  PROVE  Before(tiles[i].key) = First(i - 1)
<1>0. Len(tiles) \in Nat /\ \A j \in 1..Len(tiles) : tiles[j].key \in Key
  <2>1. \A j \in 1..Len(tiles) : tiles[j] \in Tiles
    OBVIOUS
  <2> QED BY <2>1, KeysAssumption DEF Tiles
<1>1. ASSUME NEW j \in 1..Len(tiles)
      PROVE  KeyLess(tiles[j].key, tiles[i].key) <=> j \in 1..(i - 1)
  <2>1. CASE j < i
    BY <1>0, <2>1 DEF KeySorted
  <2>2. CASE j = i
    BY <1>0, <2>2, KeyLessIsStrict
  <2>3. CASE i < j
    BY <1>0, <2>3, KeyLessIsStrict DEF KeySorted
  <2> QED BY <1>0, <2>1, <2>2, <2>3
<1>2. ASSUME NEW t \in Before(tiles[i].key) PROVE t \in First(i - 1)
  BY <1>1 DEF Before, Collected, First
<1>3. ASSUME NEW t \in First(i - 1) PROVE t \in Before(tiles[i].key)
  <2>1. PICK j \in 1..(i - 1) : t = tiles[j]
    BY DEF First
  <2>2. j \in 1..Len(tiles)
    BY <1>0
  <2> QED BY <1>1, <2>1, <2>2 DEF Before, Collected
<1> QED BY <1>2, <1>3

(* One tile more. *)
LEMMA FirstGrows ==
  ASSUME tiles \in Seq(Tiles), KeySorted(tiles), NEW m \in Nat, m + 1 \in 1..Len(tiles)
  PROVE  /\ First(m + 1) = First(m) \cup {tiles[m + 1]}
         /\ tiles[m + 1] \notin First(m)
<1>0. Len(tiles) \in Nat /\ \A j \in 1..Len(tiles) : tiles[j].key \in Key
  <2>1. \A j \in 1..Len(tiles) : tiles[j] \in Tiles
    OBVIOUS
  <2> QED BY <2>1, KeysAssumption DEF Tiles
<1>1. 1..(m + 1) = (1..m) \cup {m + 1}
  OBVIOUS
<1>2. First(m + 1) = First(m) \cup {tiles[m + 1]}
  BY <1>1 DEF First
<1>3. ASSUME NEW j \in 1..m PROVE tiles[j] # tiles[m + 1]
  <2>1. j \in 1..Len(tiles) /\ j < m + 1
    BY <1>0
  <2>2. KeyLess(tiles[j].key, tiles[m + 1].key)
    BY <2>1 DEF KeySorted
  <2> QED BY <1>0, <2>1, <2>2, KeyLessIsStrict
<1> QED BY <1>2, <1>3 DEF First

(* The first m tiles are m, and the next one is planned after their bytes. *)
LEMMA FirstAddUp ==
  ASSUME TypeOK, KeySorted(tiles), Len(offsets) = Len(tiles), Planned,
         NEW m \in Nat, m <= Len(tiles)
  PROVE  /\ IsFiniteSet(First(m)) /\ Cardinality(First(m)) = m /\ First(m) \subseteq Collected
         /\ PaddedBytes(First(m)) \in Nat
         /\ OffsetAt(m + 1) = BlobStart + PaddedBytes(First(m))
<1>. DEFINE f == [t \in Collected |-> AlignUp(TileLen(t))]
            Adds(k) == /\ IsFiniteSet(First(k)) /\ Cardinality(First(k)) = k
                       /\ First(k) \subseteq Collected
                       /\ PaddedBytes(First(k)) \in Nat
                       /\ OffsetAt(k + 1) = BlobStart + PaddedBytes(First(k))
            T == {k \in Nat : k <= Len(tiles) => Adds(k)}
<1>0. /\ tiles \in Seq(Tiles) /\ Len(tiles) \in Nat /\ offsets \in Seq(Nat)
      /\ \A j \in 1..Len(tiles) : tiles[j] \in Tiles /\ TileLen(tiles[j]) \in Nat
  BY TileLenNat DEF TypeOK
<1>1. \A t \in Collected : f[t] = AlignUp(TileLen(t)) /\ f[t] \in Nat
  BY <1>0, AlignUpFacts DEF Collected
<1>2. BlobStart \in Nat
  BY <1>0, BlobStartFacts
<1>3. 0 \in T
  <2>1. First(0) = {}
    BY DEF First
  <2>2. PaddedBytes({}) = 0
    BY SumEmpty DEF PaddedBytes
  <2>3. OffsetAt(0 + 1) = BlobStart
    BY DEF OffsetAt
  <2>4. BlobStart + 0 = BlobStart /\ IsFiniteSet({}) /\ Cardinality({}) = 0
    BY <1>2, FS_EmptySet
  <2>5. Adds(0)
    <3>1. IsFiniteSet(First(0)) /\ Cardinality(First(0)) = 0 /\ First(0) \subseteq Collected
      BY <2>1, <2>4
    <3>2. PaddedBytes(First(0)) = 0
      BY <2>1, <2>2
    <3> QED BY <2>3, <2>4, <3>1, <3>2
  <2> QED BY <2>5
<1>4. ASSUME NEW k \in Nat, k \in T PROVE k + 1 \in T
  <2> SUFFICES ASSUME k + 1 <= Len(tiles) PROVE Adds(k + 1)
    OBVIOUS
  <2>1. k + 1 \in 1..Len(tiles) /\ Adds(k)
    BY <1>0, <1>4
  <2>. DEFINE t == tiles[k + 1]
  <2>2. First(k + 1) = First(k) \cup {t} /\ t \notin First(k) /\ t \in Collected
    BY <1>0, <2>1, FirstGrows DEF Collected
  <2>3. IsFiniteSet(First(k + 1)) /\ Cardinality(First(k + 1)) = k + 1
    BY <2>1, <2>2, FS_AddElement
  <2>4. First(k + 1) \subseteq Collected /\ First(k + 1) \ {t} = First(k) /\ t \in First(k + 1)
    BY <2>1, <2>2
  <2>5. PaddedBytes(First(k + 1)) = AlignUp(TileLen(t)) + PaddedBytes(First(k))
    <3>1. \A x \in First(k + 1) : f[x] \in Nat
      BY <1>1, <2>4
    <3>2. SumFunctionOnSet(f, First(k + 1)) = f[t] + SumFunctionOnSet(f, First(k + 1) \ {t})
      <4> HIDE DEF f, t
      <4> QED BY <2>3, <2>4, <3>1, SumSplit
    <3> QED BY <1>1, <2>2, <2>4, <3>2 DEF PaddedBytes
  <2>6. OffsetAt(k + 2) = AlignUp(offsets[k + 1] + TileLen(t))
    BY DEF OffsetAt
  <2>7. offsets[k + 1] = OffsetAt(k + 1) /\ offsets[k + 1] % 4 = 0 /\ offsets[k + 1] \in Nat
    BY <1>0, <2>1 DEF Planned
  <2>8. TileLen(t) \in Nat /\ AlignUp(TileLen(t)) \in Nat
    BY <1>0, <2>1, AlignUpFacts
  <2>9. AlignUp(offsets[k + 1] + TileLen(t)) = offsets[k + 1] + AlignUp(TileLen(t))
    BY <2>7, <2>8, AlignedSum
  <2>10. k + 1 + 1 = k + 2
    OBVIOUS
  <2>11. PaddedBytes(First(k + 1)) \in Nat
    BY <2>1, <2>5, <2>8
  <2>12. OffsetAt(k + 2) = BlobStart + PaddedBytes(First(k + 1))
    <3>. DEFINE a == PaddedBytes(First(k))
                b == AlignUp(TileLen(t))
    <3>1. OffsetAt(k + 2) = offsets[k + 1] + b /\ offsets[k + 1] = BlobStart + a
      BY <2>1, <2>6, <2>7, <2>9
    <3>2. a \in Nat /\ b \in Nat
      BY <2>1, <2>8
    <3> HIDE DEF a, b
    <3>3. OffsetAt(k + 2) = BlobStart + (b + a)
      BY <1>2, <3>1, <3>2
    <3> QED BY <2>5, <3>3 DEF a, b
  <2> HIDE DEF t
  <2> QED BY <2>3, <2>4, <2>10, <2>11, <2>12
<1>5. Nat \subseteq T
  <2> HIDE DEF T
  <2> QED BY <1>3, <1>4, SetInduction
<1> QED BY <1>5

(* The sections add up likewise. *)
LEMMA SectionsAddUp ==
  ASSUME TypeOK, Sectioned, Len(sections) = Len(exts), NEW m \in Nat, m <= Len(exts)
  PROVE  LET f == [i \in 1..Len(exts) |-> SectionLen(exts[i])]
         IN SectionPlace(m + 1) = extOffset + SumFunctionOnSet(f, 1..m)
<1>. DEFINE f == [i \in 1..Len(exts) |-> SectionLen(exts[i])]
            Adds(k) == /\ SumFunctionOnSet(f, 1..k) \in Nat
                       /\ SectionPlace(k + 1) = extOffset + SumFunctionOnSet(f, 1..k)
            T == {k \in Nat : k <= Len(exts) => Adds(k)}
<1>0. /\ Len(exts) \in Nat /\ extOffset \in Nat
      /\ \A i \in 1..Len(exts) : SectionLen(exts[i]) \in Nat
  <2>1. exts \in Seq(Extensions) /\ extOffset \in Nat
    BY DEF TypeOK
  <2>2. Len(exts) \in Nat /\ \A i \in 1..Len(exts) : exts[i] \in Extensions
    BY <2>1
  <2> QED BY <2>1, <2>2, SectionLenNat
<1>1. \A i \in 1..Len(exts) : f[i] \in Nat /\ f[i] = SectionLen(exts[i])
  BY <1>0
<1>2. 0 \in T
  <2>1. 1..0 = {} /\ SectionPlace(0 + 1) = extOffset
    BY DEF SectionPlace
  <2>2. SumFunctionOnSet(f, {}) = 0
    BY SumEmpty
  <2> HIDE DEF f
  <2> QED BY <1>0, <2>1, <2>2
<1>3. ASSUME NEW k \in Nat, k \in T PROVE k + 1 \in T
  <2> SUFFICES ASSUME k + 1 <= Len(exts) PROVE Adds(k + 1)
    OBVIOUS
  <2>1. k + 1 \in 1..Len(exts) /\ Adds(k)
    BY <1>0, <1>3
  <2>2. IsFiniteSet(1..(k + 1)) /\ k + 1 \in 1..(k + 1) /\ (1..(k + 1)) \ {k + 1} = 1..k
    <3>1. (1..(k + 1)) \ {k + 1} = 1..k /\ k + 1 \in 1..(k + 1) /\ 1 \in Int /\ k + 1 \in Int
      OBVIOUS
    <3> QED BY <3>1, FS_Interval
  <2>3. SumFunctionOnSet(f, 1..(k + 1)) = f[k + 1] + SumFunctionOnSet(f, 1..k)
    <3>1. \A i \in 1..(k + 1) : f[i] \in Nat
      BY <1>0, <1>1
    <3>2. SumFunctionOnSet(f, 1..(k + 1)) = f[k + 1] + SumFunctionOnSet(f, (1..(k + 1)) \ {k + 1})
      <4> HIDE DEF f
      <4> QED BY <2>2, <3>1, SumSplit
    <3> QED BY <2>2, <3>2
  <2>4. SectionPlace(k + 2) = sections[k + 1].at + SectionLen(sections[k + 1].ext)
    BY DEF SectionPlace
  <2>5. sections[k + 1].at = SectionPlace(k + 1) /\ sections[k + 1].ext = exts[k + 1]
    BY <2>1 DEF Sectioned
  <2>6. k + 1 + 1 = k + 2 /\ f[k + 1] \in Nat /\ f[k + 1] = SectionLen(exts[k + 1])
    BY <1>1, <2>1
  <2>7. SectionPlace(k + 1 + 1) = SectionPlace(k + 1) + f[k + 1]
    BY <2>4, <2>5, <2>6
  <2> HIDE DEF f
  <2>8. SumFunctionOnSet(f, 1..k) \in Nat /\ SectionPlace(k + 1) = extOffset + SumFunctionOnSet(f, 1..k)
    BY <2>1
  <2>9. /\ SumFunctionOnSet(f, 1..(k + 1)) \in Nat
        /\ SectionPlace(k + 1 + 1) = extOffset + SumFunctionOnSet(f, 1..(k + 1))
    BY <1>0, <2>3, <2>6, <2>7, <2>8
  <2> QED BY <2>9
<1>4. Nat \subseteq T
  <2> HIDE DEF T
  <2> QED BY <1>2, <1>3, SetInduction
<1> QED BY <1>4

(* What is in the finished file is what adding up gives. *)
LEMMA StoredIsCanonical == StoreInv /\ ExtsSorted => LayoutIsCanonical
<1> SUFFICES ASSUME StoreInv, ExtsSorted, pc = "Done" PROVE LayoutIsCanonical
  BY DEF LayoutIsCanonical
<1>1. /\ TypeOK /\ Planned /\ Sectioned /\ KeySorted(tiles) /\ ExtSorted(exts)
      /\ Len(offsets) = Len(tiles) /\ Len(entries) = Len(tiles) /\ Len(sections) = Len(exts)
      /\ tiles \in Seq(Tiles) /\ Len(tiles) \in Nat /\ Len(exts) \in Nat
  BY DEF StoreInv, LayoutInv, Directory, Progress, ExtsSorted, TypeOK
<1>2. First(Len(tiles)) = Collected
  BY DEF First, Collected
<1>3. /\ CanonicalStart = BlobStart
      /\ OffsetAt(Len(tiles) + 1) = CanonicalStart + PaddedBytes(Collected)
  BY <1>1, <1>2, FirstAddUp DEF CanonicalStart, BlobStart
<1>4. ASSUME NEW i \in 1..Len(entries)
      PROVE  /\ entries[i].offset = CanonicalStart + PaddedBytes(Before(entries[i].key))
             /\ Cardinality(Before(entries[i].key)) = i - 1
  <2>1. i \in 1..Len(tiles) /\ i - 1 \in Nat /\ i - 1 <= Len(tiles) /\ i - 1 + 1 = i
    BY <1>1
  <2>2. entries[i].key = tiles[i].key /\ entries[i].offset = offsets[i]
    <3>1. Written
      BY DEF StoreInv, LayoutInv
    <3>2. entries[i] = [key |-> tiles[i].key, offset |-> offsets[i], length |-> TileLen(tiles[i])]
      BY <3>1 DEF Written
    <3> QED BY <3>2
  <2>3. offsets[i] = OffsetAt(i)
    BY <1>1, <2>1 DEF Planned
  <2>4. Before(entries[i].key) = First(i - 1)
    BY <1>1, <2>1, <2>2, FirstIsBefore
  <2>5. /\ Cardinality(First(i - 1)) = i - 1
        /\ OffsetAt(i - 1 + 1) = BlobStart + PaddedBytes(First(i - 1))
    BY <1>1, <2>1, FirstAddUp
  <2> QED BY <1>3, <2>1, <2>2, <2>3, <2>4, <2>5
<1>5. \A i, j \in 1..Len(sections) : i < j => ExtLeq(sections[i].ext, sections[j].ext)
  BY <1>1 DEF Sectioned, ExtSorted
<1>6. pos = CanonicalStart + PaddedBytes(Collected) + SectionBytes + CrcSize
  <2>1. pos = SectionPlace(Len(exts) + 1) + CrcSize
    BY DEF StoreInv, Sectioned
  <2>2. SectionPlace(Len(exts) + 1) = extOffset + SectionBytes
    BY <1>1, SectionsAddUp DEF SectionBytes
  <2>3. extOffset = OffsetAt(Len(tiles) + 1)
    BY <1>1 DEF Planned, PlanMade
  <2> QED BY <1>3, <2>1, <2>2, <2>3
<1> QED BY <1>4, <1>5, <1>6 DEF LayoutIsCanonical

(* The layout is a function of the set of tiles and the extensions: the    *)
(* offset of a tile is the bytes of the tiles with smaller keys, whatever  *)
(* the order of the calls and however many there were.                     *)
THEOREM LayoutAlwaysCanonical == Spec => []LayoutIsCanonical
<1>1. Init => ExtsSorted
  BY DEF Init, ExtsSorted
<1> QED BY <1>1, NextExtsSorted, StoredAlways, StoredIsCanonical, PTL DEF Spec
-----------------------------------------------------------------------------
(* The builder. *)

Accepts == [key : Keys, bytes : Bytes]

(* What has been fed: keys in order, and each tile's slice of the stream. *)
Accepted ==
  /\ held \in Seq(Accepts) /\ hashed \in Seq(Colours)
  /\ KeySorted(held)
  /\ previous = IF held = <<>> THEN NoKey ELSE held[Len(held)].key
  /\ Len(hashed) = Len(held) * PixelsPerTile
  /\ \A i \in 1..Len(held) : \A p \in 1..PixelsPerTile :
       held[i].bytes[p] = hashed[(i - 1) * PixelsPerTile + p]

(* The writer holds the first n accepted tiles, in order. *)
Holds(n) == Len(tiles) = n /\ \A i \in 1..n : tiles[i] = InlineTile(held[i])

(* What has been handed to the writer. *)
InWriter ==
  /\ handed \in 0..Len(held)
  /\ phase \in {"New", "Feeding", "Attaching", "Handing", "Finalizing", "Finished"}
  /\ phase \in {"Feeding", "Attaching", "Handing", "Finalizing"} => config \in Configs
  /\ phase \in {"New", "Feeding"} => pc = "NotBegun" /\ tiles = <<>> /\ handed = 0
  /\ phase = "Attaching" => pc = "Building" /\ tiles = <<>> /\ handed = 0
  /\ phase = "Handing" => pc = "Building" /\ Holds(handed)
  /\ phase = "Finalizing" => pc \notin {"NotBegun", "Building"} /\ Holds(Len(held))
  /\ phase = "Finished" /\ answer = "Ok" => pc = "Done" /\ Holds(Len(held))

BuilderInv == LayoutInv /\ Accepted /\ InWriter

----------------------------------------------------------------------------
(* Sorting what is sorted. *)

(* An increasing rearrangement moves nothing. *)
LEMMA IncreasingIsIdentity ==
  ASSUME NEW n \in Nat, NEW p \in [1..n -> 1..n],
         \A i, j \in 1..n : i < j => p[i] < p[j]
  PROVE  \A i \in 1..n : p[i] = i
<1>. DEFINE Up == {k \in Nat : k \in 1..n => p[k] >= k}
            Down == {k \in Nat : n - k \in 1..n => p[n - k] <= n - k}
<1>0. \A i \in 1..n : p[i] \in Nat /\ p[i] >= 1 /\ p[i] <= n
  OBVIOUS
<1>1. Nat \subseteq Up
  <2>1. 0 \in Up
    OBVIOUS
  <2>2. ASSUME NEW k \in Nat, k \in Up PROVE k + 1 \in Up
    <3> SUFFICES ASSUME k + 1 \in 1..n PROVE p[k + 1] >= k + 1
      OBVIOUS
    <3>1. CASE k = 0
      BY <3>1, <1>0
    <3>2. CASE k # 0
      <4>1. k \in 1..n /\ p[k] >= k
        BY <3>2, <2>2
      <4>2. p[k] < p[k + 1]
        BY <4>1
      <4> QED BY <4>1, <4>2, <1>0
    <3> QED BY <3>1, <3>2
  <2>3. \A k \in Nat : k \in Up => k + 1 \in Up
    BY <2>2
  <2> HIDE DEF Up
  <2> QED BY <2>1, <2>3, SetInduction
<1>2. Nat \subseteq Down
  <2>1. 0 \in Down
    BY <1>0
  <2>2. ASSUME NEW k \in Nat, k \in Down PROVE k + 1 \in Down
    <3> SUFFICES ASSUME n - (k + 1) \in 1..n PROVE p[n - (k + 1)] <= n - (k + 1)
      OBVIOUS
    <3>1. CASE n - k \in 1..n
      <4>1. p[n - k] <= n - k
        BY <3>1, <2>2
      <4>2. p[n - (k + 1)] < p[n - k]
        BY <3>1
      <4> QED BY <3>1, <4>1, <4>2, <1>0
    <3> QED BY <3>1
  <2>3. \A k \in Nat : k \in Down => k + 1 \in Down
    BY <2>2
  <2> HIDE DEF Down
  <2> QED BY <2>1, <2>3, SetInduction
<1>3. ASSUME NEW i \in 1..n PROVE p[i] = i
  <2>1. i \in Up /\ n - i \in Down
    BY <1>1, <1>2
  <2>2. n - (n - i) = i
    OBVIOUS
  <2>3. p[i] >= i /\ p[i] <= i
    BY <2>1, <2>2
  <2> QED BY <2>3, <1>0
<1> QED BY <1>3

(* The sort of `finalize` leaves tiles that are in order as they are. *)
LEMMA SortedStays ==
  ASSUME tiles \in Seq(Tiles), KeySorted(tiles), Sort
  PROVE  tiles' = tiles
<1>1. PICK p \in Rearrangements(Len(tiles)) : tiles' = Permuted(tiles, p)
  BY DEF Sort
<1>2. Len(tiles) \in Nat /\ p \in [1..Len(tiles) -> 1..Len(tiles)]
  BY DEF Rearrangements
<1>3. /\ tiles' \in Seq(Tiles) /\ Len(tiles') = Len(tiles)
      /\ \A i \in 1..Len(tiles) : tiles'[i] = tiles[p[i]]
  BY <1>1, <1>2, PermutedFacts DEF Permuted
<1>4. ASSUME NEW i \in 1..Len(tiles) PROVE tiles[i].key \in Key
  <2>1. tiles[i] \in Tiles
    BY ElementOfSeq
  <2> QED BY <2>1, KeysAssumption DEF Tiles
<1>5. ASSUME NEW i \in 1..Len(tiles), NEW j \in 1..Len(tiles), i < j
      PROVE  p[i] < p[j]
  <2>1. KeyLess(tiles[p[i]].key, tiles[p[j]].key)
    <3>1. KeyLess(tiles'[i].key, tiles'[j].key)
      BY <1>3, <1>5 DEF Sort, KeySorted
    <3> QED BY <3>1, <1>3
  <2>2. p[i] \in 1..Len(tiles) /\ p[j] \in 1..Len(tiles)
    BY <1>2
  <2>3. tiles[p[i]].key \in Key /\ tiles[p[j]].key \in Key
    BY <1>4, <2>2
  <2>4. CASE p[i] = p[j]
    BY <2>1, <2>3, <2>4, KeyOrder
  <2>5. CASE p[j] < p[i]
    <3>1. KeyLess(tiles[p[j]].key, tiles[p[i]].key)
      BY <2>2, <2>5 DEF KeySorted
    <3> QED BY <2>1, <2>3, <3>1, KeyOrder
  <2> QED BY <2>2, <2>4, <2>5
<1>6. \A i \in 1..Len(tiles) : p[i] = i
  BY <1>2, <1>5, IncreasingIsIdentity
<1>7. \A i \in 1..Len(tiles') : tiles'[i] = tiles[i]
  BY <1>3, <1>6
<1> QED BY <1>3, <1>7, SeqEqual

----------------------------------------------------------------------------
(* One tile is fed. *)

(* The prefix of opaque pixels exists: the stream of colours ends at the   *)
(* first pixel that is not opaque, or with the buffer.                     *)
LEMMA OpaquePrefixTyped ==
  ASSUME NEW rgba \in [1..PixelsPerTile -> Pixel]
  PROVE  OpaquePrefix(rgba) \in Seq(Colours)
<1>0. PixelsPerTile \in Nat /\ Len(rgba) = PixelsPerTile
  BY PixelsAssumption
<1>. DEFINE Stops == {i \in 0..PixelsPerTile : i < PixelsPerTile => ~rgba[i + 1].opaque}
            Ends(i) == /\ \A j \in 1..i : rgba[j].opaque
                       /\ i < Len(rgba) => ~rgba[i + 1].opaque
<1>1. PixelsPerTile \in Stops /\ Stops \subseteq Nat
  BY <1>0
<1>2. PICK n \in Stops : \A k \in Stops : n <= k
  BY <1>1, NatMin
<1>3. ASSUME NEW j \in 1..n PROVE rgba[j].opaque
  <2>1. j - 1 \in 0..PixelsPerTile /\ j - 1 < n /\ j - 1 < PixelsPerTile /\ j - 1 + 1 = j
    BY <1>0, <1>2
  <2>2. j - 1 \notin Stops
    BY <1>2, <2>1
  <2> QED BY <2>1, <2>2
<1>4. n \in 0..Len(rgba) /\ Ends(n)
  BY <1>0, <1>2, <1>3
<1>. DEFINE m == CHOOSE i \in 0..Len(rgba) : Ends(i)
<1>5. m \in 0..Len(rgba)
  BY <1>4, Zenon
<1>6. OpaquePrefix(rgba) = [i \in 1..m |-> rgba[i].colour]
  BY DEF OpaquePrefix
<1>7. m \in Nat /\ \A i \in 1..m : rgba[i].colour \in Colours
  <2>1. m \in Nat /\ m <= PixelsPerTile
    BY <1>0, <1>5
  <2> HIDE DEF m
  <2> QED BY <2>1, <1>0 DEF Pixel
<1> HIDE DEF m
<1> QED BY <1>6, <1>7

(* A tile of colours is a sequence of PixelsPerTile of them. *)
LEMMA BytesAreColours ==
  ASSUME NEW rgb \in Bytes
  PROVE  rgb \in Seq(Colours) /\ Len(rgb) = PixelsPerTile
BY EncodingAssumption, PixelsAssumption

(* A sequence of PixelsPerTile colours is a tile. *)
LEMMA ColoursAreBytes ==
  ASSUME NEW rgb \in Seq(Colours), Len(rgb) = PixelsPerTile
  PROVE  rgb \in Bytes
BY EncodingAssumption, PixelsAssumption

(* The tiles before tile i take up (i - 1) * PixelsPerTile pixels, and all *)
(* up to it i * PixelsPerTile.                                             *)
LEMMA Slices ==
  ASSUME NEW w \in Nat, NEW n \in Nat, NEW i \in 1..n, NEW p \in 1..w
  PROVE  /\ (i - 1) * w + p \in 1..(n * w)
         /\ n * w \in Nat /\ (n + 1) * w = n * w + w
<1>1. \A a, b \in Nat : a * b \in Nat
  OBVIOUS
<1>2. PICK d \in Nat : n = i + d
  <2>1. n - i \in Nat /\ n = i + (n - i)
    OBVIOUS
  <2> QED BY <2>1
<1>3. n * w = (i - 1) * w + w + d * w
  BY <1>2
<1>4. (i - 1) * w \in Nat /\ d * w \in Nat /\ n * w \in Nat
  BY <1>1, <1>2
<1>5. (n + 1) * w = n * w + w
  OBVIOUS
<1> QED BY <1>3, <1>4, <1>5

(* One more tile of the right size is accepted, or nothing changes. *)
LEMMA AcceptKeeps ==
  ASSUME Accepted, NEW k \in Keys, NEW rgb \in Seq(Colours), AcceptRgb(k, rgb)
  PROVE  Accepted' /\ (held' = held \/ \E t \in Accepts : held' = Append(held, t))
<1>1. CASE answer' # "Ok"
  <2>1. UNCHANGED <<previous, hashed, held>>
    BY <1>1 DEF AcceptRgb
  <2> QED BY <2>1 DEF Accepted, KeySorted
<1>2. CASE answer' = "Ok"
  <2>. DEFINE t == [key |-> k, bytes |-> rgb]
              w == PixelsPerTile
              n == Len(held)
  <2>1. Len(rgb) = w /\ KeyLess(previous, k)
    BY <1>2 DEF AcceptRgb, RgbVerdict, Follows
  <2>2. previous' = k /\ hashed' = hashed \o rgb /\ held' = Append(held, t)
    BY <1>2 DEF AcceptRgb
  <2>3. t \in Accepts /\ w \in Nat /\ k \in Key
    BY <2>1, ColoursAreBytes, PixelsAssumption, KeysAssumption DEF Accepts
  <2>4. held \in Seq(Accepts) /\ hashed \in Seq(Colours) /\ n \in Nat /\ Len(hashed) = n * w
    BY DEF Accepted
  <2>5. /\ held' \in Seq(Accepts) /\ Len(held') = n + 1 /\ held'[n + 1] = t
        /\ \A i \in 1..n : held'[i] = held[i]
    BY <2>2, <2>3, <2>4
  <2>6. /\ hashed' \in Seq(Colours) /\ Len(hashed') = Len(hashed) + w
        /\ \A i \in 1..(Len(hashed) + w) :
             hashed'[i] = IF i <= Len(hashed) THEN hashed[i] ELSE rgb[i - Len(hashed)]
    BY <2>1, <2>2, <2>4, ConcatProperties
  <2>7. KeySorted(held')
    <3>1. ASSUME NEW i \in 1..n PROVE held[i].key \in Key
      <4>1. held[i] \in Accepts
        BY <2>4, ElementOfSeq
      <4> QED BY <4>1, KeysAssumption DEF Accepts
    <3>2. ASSUME NEW i \in 1..n PROVE KeyLess(held[i].key, k)
      <4>1. n \in 1..n /\ previous = held[n].key
        BY <2>4 DEF Accepted
      <4>2. i = n \/ KeyLess(held[i].key, held[n].key)
        BY <4>1 DEF Accepted, KeySorted
      <4> QED BY <2>1, <2>3, <3>1, <4>1, <4>2, KeyOrder
    <3>3. ASSUME NEW i \in 1..(n + 1), NEW j \in 1..(n + 1), i < j
          PROVE  KeyLess(held'[i].key, held'[j].key)
      <4>1. i \in 1..n /\ held'[i] = held[i]
        BY <2>4, <2>5, <3>3
      <4>2. CASE j = n + 1
        BY <4>1, <4>2, <3>2, <2>5
      <4>3. CASE j # n + 1
        <5>1. j \in 1..n /\ held'[j] = held[j]
          BY <2>4, <2>5, <4>3
        <5> QED BY <3>3, <4>1, <5>1 DEF Accepted, KeySorted
      <4> QED BY <4>2, <4>3
    <3> QED BY <2>5, <3>3 DEF KeySorted
  <2>8. previous' = IF held' = <<>> THEN NoKey ELSE held'[Len(held')].key
    <3>1. held' # <<>>
      BY <2>4, <2>5
    <3> QED BY <2>2, <2>5, <3>1
  <2>9. Len(hashed') = Len(held') * w
    <3>1. (n + 1) * w = n * w + w
      BY <2>3, <2>4
    <3> QED BY <2>4, <2>5, <2>6, <3>1
  <2>10. ASSUME NEW i \in 1..Len(held'), NEW p \in 1..w
         PROVE  held'[i].bytes[p] = hashed'[(i - 1) * w + p]
    <3>0. n * w \in Nat
      BY <2>3, <2>4
    <3>1. CASE i \in 1..n
      <4>1. (i - 1) * w + p \in 1..(n * w)
        BY <3>1, <2>3, <2>4, Slices
      <4>2. hashed'[(i - 1) * w + p] = hashed[(i - 1) * w + p]
        <5> DEFINE q == (i - 1) * w + p
        <5>1. q \in 1..(n * w)
          BY <4>1
        <5> HIDE DEF q
        <5>2. q \in 1..(Len(hashed) + w) /\ q <= Len(hashed)
          BY <5>1, <2>3, <2>4, <3>0
        <5>3. hashed'[q] = hashed[q]
          BY <5>2, <2>6
        <5> QED BY <5>3 DEF q
      <4>3. held[i].bytes[p] = hashed[(i - 1) * w + p]
        BY <3>1 DEF Accepted
      <4> QED BY <4>2, <4>3, <3>1, <2>5
    <3>2. CASE i = n + 1
      <4>1. (i - 1) * w + p = Len(hashed) + p
        BY <3>2, <2>4
      <4>2. hashed'[Len(hashed) + p] = rgb[p]
        <5>1. Len(hashed) + p \in 1..(Len(hashed) + w) /\ ~(Len(hashed) + p <= Len(hashed))
          BY <2>3, <2>4, <3>0
        <5>2. Len(hashed) + p - Len(hashed) = p
          BY <2>4, <3>0
        <5> QED BY <5>1, <5>2, <2>6
      <4> QED BY <3>2, <4>1, <4>2, <2>5
    <3> QED BY <3>1, <3>2, <2>4, <2>5
  <2>11. Accepted'
    BY <2>5, <2>6, <2>7, <2>8, <2>9, <2>10 DEF Accepted
  <2> QED BY <2>2, <2>3, <2>11
<1> QED BY <1>1, <1>2

(* The RGB888 entry point. *)
LEMMA RgbKeeps ==
  ASSUME Accepted, NEW k \in Keys, NEW rgb \in RgbBuffers, AddTileRgb888(k, rgb)
  PROVE  Accepted' /\ (held' = held \/ \E t \in Accepts : held' = Append(held, t))
<1>1. rgb \in Seq(Colours)
  BY BytesAreColours, EmptySeq DEF RgbBuffers
<1>2. AcceptRgb(k, rgb)
  BY DEF AddTileRgb888
<1> QED BY <1>1, <1>2, AcceptKeeps

(* The RGBA8888 entry point: what reaches the common body are the colours. *)
LEMMA RgbaKeeps ==
  ASSUME Accepted, NEW k \in Keys, NEW rgba \in RgbaBuffers, AddTileRgba8888(k, rgba)
  PROVE  Accepted' /\ (held' = held \/ \E t \in Accepts : held' = Append(held, t))
<1>1. CASE UNCHANGED <<previous, hashed, held>>
  BY <1>1 DEF Accepted, KeySorted
<1>2. CASE ~UNCHANGED <<previous, hashed, held>>
  <2>1. Len(rgba) = PixelsPerTile /\ scratch' = <<>> \o OpaquePrefix(rgba) /\ AcceptRgb(k, scratch')
    BY <1>2 DEF AddTileRgba8888, ScratchCleared
  <2>2. rgba \in [1..PixelsPerTile -> Pixel]
    BY <2>1, PixelsAssumption DEF RgbaBuffers
  <2>3. scratch' \in Seq(Colours)
    BY <2>1, <2>2, OpaquePrefixTyped, ConcatEmptySeq
  <2> QED BY <2>1, <2>3, AcceptKeeps
<1> QED BY <1>1, <1>2

----------------------------------------------------------------------------
(* The builder and its writer. *)

(* Every step of the builder is a step of the writer or leaves it alone. *)
LEMMA BuilderStepsWriter == BuilderInv /\ [BuilderNext]_allVars => [Next]_vars
<1> SUFFICES ASSUME BuilderInv, [BuilderNext]_allVars PROVE [Next]_vars
  OBVIOUS
<1>1. ASSUME NEW c \in Configs, New(c) PROVE UNCHANGED vars
  BY <1>1 DEF New
<1>2. ASSUME NEW k \in Keys, NEW rgb \in RgbBuffers, AddTileRgb888(k, rgb) PROVE UNCHANGED vars
  BY <1>2 DEF AddTileRgb888
<1>3. ASSUME NEW k \in Keys, NEW rgba \in RgbaBuffers, AddTileRgba8888(k, rgba) PROVE UNCHANGED vars
  BY <1>3 DEF AddTileRgba8888
<1>4. ASSUME NEW d \in Descriptors, FinishRejects(d) PROVE UNCHANGED vars
  BY <1>4 DEF FinishRejects
<1>5. ASSUME NEW d \in Descriptors, FinishBegins(d) PROVE Next
  <2>1. BeginPack(BuilderMeta(config)) /\ config \in Configs
    BY <1>5 DEF FinishBegins, BuilderInv, InWriter
  <2>2. BuilderMeta(config) \in Metas
    BY <2>1, ConfigsAssumption
  <2> QED BY <2>1, <2>2 DEF Next, Collect
<1>6. ASSUME FinishAttaches PROVE [Next]_vars
  <2>1. CASE config.attr = NoAttribution
    BY <1>6, <2>1 DEF FinishAttaches
  <2>2. CASE config.attr # NoAttribution
    <3>1. config \in Configs /\ AddExtension([tag |-> AttrTag, payload |-> config.attr])
      BY <1>6, <2>2 DEF FinishAttaches, BuilderInv, InWriter
    <3>2. [tag |-> AttrTag, payload |-> config.attr] \in Extensions
      BY <3>1, <2>2, AttributionAssumption DEF Extensions, NoAttribution
    <3> QED BY <3>1, <3>2 DEF Next, Collect
  <2> QED BY <2>1, <2>2
<1>7. ASSUME FinishHandsTile PROVE Next
  <2>1. AddTileRef(InlineTile(held[handed + 1])) /\ handed + 1 \in 1..Len(held)
    BY <1>7 DEF FinishHandsTile, BuilderInv, InWriter, Accepted
  <2>2. held[handed + 1] \in Accepts
    BY <2>1 DEF BuilderInv, Accepted
  <2>3. InlineTile(held[handed + 1]) \in Tiles
    BY <2>2 DEF InlineTile, Accepts, Tiles, Contents
  <2> QED BY <2>1, <2>3 DEF Next, Collect
<1>8. ASSUME FinishFinalizes PROVE Next
  BY <1>8 DEF FinishFinalizes, Next, Collect
<1>9. ASSUME FinalizeRuns PROVE Next
  BY <1>9 DEF FinalizeRuns, Next, Plan, Stream
<1>10. ASSUME FinishReturns PROVE UNCHANGED vars
  BY <1>10 DEF FinishReturns
<1>11. ASSUME Gone \/ UNCHANGED allVars PROVE UNCHANGED vars
  BY <1>11 DEF Gone, allVars
<1> QED
  BY <1>1, <1>2, <1>3, <1>4, <1>5, <1>6, <1>7, <1>8, <1>9, <1>10, <1>11
     DEF BuilderNext, Feed, Finish

(* What was accepted is not touched once `finish` has been called. *)
LEMMA NextAccepted == Accepted /\ [BuilderNext]_allVars => Accepted'
<1> SUFFICES ASSUME Accepted, [BuilderNext]_allVars PROVE Accepted'
  OBVIOUS
<1>1. CASE UNCHANGED <<previous, hashed, held>>
  BY <1>1 DEF Accepted, KeySorted
<1>2. ASSUME NEW k \in Keys, NEW rgb \in RgbBuffers, AddTileRgb888(k, rgb) PROVE Accepted'
  BY <1>2, RgbKeeps
<1>3. ASSUME NEW k \in Keys, NEW rgba \in RgbaBuffers, AddTileRgba8888(k, rgba) PROVE Accepted'
  BY <1>3, RgbaKeeps
<1>4. ASSUME NEW c \in Configs, New(c) PROVE UNCHANGED <<previous, hashed, held>>
  BY <1>4 DEF New
<1>5. ASSUME NEW d \in Descriptors, FinishRejects(d) \/ FinishBegins(d)
      PROVE  UNCHANGED <<previous, hashed, held>>
  BY <1>5 DEF FinishRejects, FinishBegins
<1>6. ASSUME Finish \/ Gone \/ UNCHANGED allVars PROVE UNCHANGED <<previous, hashed, held>>
  BY <1>6 DEF Finish, FinishAttaches, FinishHandsTile, FinishFinalizes, FinalizeRuns, FinishReturns,
              Gone, allVars, builderVars
<1> QED BY <1>1, <1>2, <1>3, <1>4, <1>5, <1>6 DEF BuilderNext, Feed

(* While finalize runs the tiles stay as they are. *)
LEMMA RunKeepsTiles ==
  ASSUME FinalizeRuns
  PROVE  tiles' = tiles /\ pc' \notin {"NotBegun", "Building"}
BY DEF FinalizeRuns, Plan, PlanTile, EndOfTiles, PlanExt, NarrowPlan, PlanZoom, WriteHeader,
       WriteEntry, PadIndex, WriteTile, EndOfBlob, WriteExt, WriteCrc, Fail, callVars

(* The writer holds what it was handed. *)
LEMMA NextInWriter == BuilderInv /\ Accepted' /\ [BuilderNext]_allVars => InWriter'
<1> SUFFICES ASSUME BuilderInv, Accepted', [BuilderNext]_allVars PROVE InWriter'
  OBVIOUS
<1>0. LayoutInv /\ Accepted /\ InWriter /\ Len(held) \in Nat
  BY DEF BuilderInv, Accepted
<1>1. ASSUME NEW c \in Configs, New(c) PROVE InWriter'
  BY <1>0, <1>1 DEF New, InWriter, vars, callVars
<1>2. ASSUME NEW k \in Keys, NEW rgb \in RgbBuffers, AddTileRgb888(k, rgb) PROVE InWriter'
  <2>1. phase = "Feeding" /\ UNCHANGED <<phase, config, handed, pc, tiles>>
    BY <1>2 DEF AddTileRgb888, vars, callVars
  <2>2. 0 \in 0..Len(held')
    BY DEF Accepted
  <2> QED BY <1>0, <2>1, <2>2 DEF InWriter
<1>3. ASSUME NEW k \in Keys, NEW rgba \in RgbaBuffers, AddTileRgba8888(k, rgba) PROVE InWriter'
  <2>1. phase = "Feeding" /\ UNCHANGED <<phase, config, handed, pc, tiles>>
    BY <1>3 DEF AddTileRgba8888, vars, callVars
  <2>2. 0 \in 0..Len(held')
    BY DEF Accepted
  <2> QED BY <1>0, <2>1, <2>2 DEF InWriter
<1>4. ASSUME NEW d \in Descriptors, FinishRejects(d) PROVE InWriter'
  BY <1>0, <1>4 DEF FinishRejects, InWriter
<1>5. ASSUME NEW d \in Descriptors, FinishBegins(d) PROVE InWriter'
  BY <1>0, <1>5 DEF FinishBegins, BeginPack, GiveUp, InWriter
<1>6. ASSUME FinishAttaches PROVE InWriter'
  BY <1>0, <1>6 DEF FinishAttaches, AddExtension, GiveUp, InWriter, Holds, vars, callVars
<1>7. ASSUME FinishHandsTile PROVE InWriter'
  <2>1. /\ phase = "Handing" /\ pc = "Building" /\ Holds(handed) /\ config \in Configs
        /\ handed \in 0..Len(held) /\ handed + 1 \in 1..Len(held) /\ tiles \in Seq(Tiles)
        /\ UNCHANGED <<pc, held, config>>
    BY <1>0, <1>7 DEF FinishHandsTile, AddTileRef, InWriter, LayoutInv, TypeOK
  <2>2. CASE result' = "Ok"
    <3>1. tiles' = Append(tiles, InlineTile(held[handed + 1])) /\ handed' = handed + 1 /\ phase' = phase
      BY <1>7, <2>2 DEF FinishHandsTile, AddTileRef
    <3>2. /\ Len(tiles') = handed + 1 /\ tiles'[handed + 1] = InlineTile(held[handed + 1])
          /\ \A i \in 1..handed : tiles'[i] = tiles[i]
      BY <2>1, <3>1 DEF Holds
    <3>3. Holds(handed)'
      BY <2>1, <3>1, <3>2 DEF Holds, InlineTile
    <3> QED BY <2>1, <3>1, <3>3 DEF InWriter
  <2>3. CASE result' # "Ok"
    BY <1>7, <2>1, <2>3 DEF FinishHandsTile, AddTileRef, GiveUp, InWriter
  <2> QED BY <2>2, <2>3
<1>8. ASSUME FinishFinalizes PROVE InWriter'
  <2>1. /\ phase = "Handing" /\ pc = "Building" /\ Holds(Len(held)) /\ config \in Configs
        /\ tiles \in Seq(Tiles) /\ phase' = "Finalizing" /\ Sort /\ pc' \in {"PlanTiles", "Failed"}
        /\ UNCHANGED <<held, handed, config>>
    BY <1>0, <1>8 DEF FinishFinalizes, Finalize, Fail, InWriter, LayoutInv, TypeOK
  <2>2. KeySorted(tiles)
    <3>1. Len(tiles) = Len(held) /\ \A i \in 1..Len(held) : tiles[i].key = held[i].key
      <4>1. \A i \in 1..Len(held) : InlineTile(held[i]).key = held[i].key
        BY DEF InlineTile
      <4> QED BY <2>1, <4>1 DEF Holds
    <3> QED BY <1>0, <3>1 DEF KeySorted, Accepted
  <2>3. tiles' = tiles
    BY <2>1, <2>2, SortedStays
  <2>4. Holds(Len(held))'
    BY <2>1, <2>3 DEF Holds
  <2> QED BY <1>0, <2>1, <2>4 DEF InWriter
<1>9. ASSUME FinalizeRuns PROVE InWriter'
  <2>1. tiles' = tiles /\ pc' \notin {"NotBegun", "Building"}
    BY <1>9, RunKeepsTiles
  <2>2. phase = "Finalizing" /\ UNCHANGED <<phase, config, held, handed>>
    BY <1>9 DEF FinalizeRuns, builderVars
  <2> QED BY <1>0, <2>1, <2>2 DEF InWriter, Holds
<1>10. ASSUME FinishReturns PROVE InWriter'
  <2>1. /\ phase = "Finalizing" /\ phase' = "Finished" /\ (answer' = "Ok" => pc = "Done")
        /\ UNCHANGED <<config, held, handed, pc, tiles>>
    BY <1>10 DEF FinishReturns, vars, callVars
  <2> QED BY <1>0, <2>1 DEF InWriter, Holds
<1>11. ASSUME Gone \/ UNCHANGED allVars PROVE InWriter'
  <2>1. UNCHANGED <<phase, answer, config, held, handed, pc, tiles>>
    BY <1>11 DEF Gone, allVars, builderVars, vars, callVars
  <2> QED BY <1>0, <2>1 DEF InWriter, Holds
<1> QED
  BY <1>1, <1>2, <1>3, <1>4, <1>5, <1>6, <1>7, <1>8, <1>9, <1>10, <1>11
     DEF BuilderNext, Feed, Finish

(* For any configuration, tiles and calls, the builder's invariant holds. *)
THEOREM BuilderAlways == BuilderSpec => []BuilderInv
<1>1. BuilderInit => BuilderInv
  <2> SUFFICES ASSUME BuilderInit PROVE BuilderInv
    OBVIOUS
  <2>1. LayoutInv
    BY InitLayout DEF BuilderInit
  <2>2. Accepted
    BY PixelsAssumption DEF BuilderInit, Accepted, KeySorted
  <2>3. InWriter
    BY DEF BuilderInit, Init, InWriter
  <2> QED BY <2>1, <2>2, <2>3 DEF BuilderInv
<1>2. BuilderInv /\ [BuilderNext]_allVars => BuilderInv'
  <2> SUFFICES ASSUME BuilderInv, [BuilderNext]_allVars PROVE BuilderInv'
    OBVIOUS
  <2>1. [Next]_vars
    BY BuilderStepsWriter
  <2>2. LayoutInv'
    BY <2>1, NextTyped, NextPlanned, NextWritten DEF LayoutInv, BuilderInv
  <2>3. Accepted'
    BY NextAccepted DEF BuilderInv
  <2> QED BY <2>2, <2>3, NextInWriter DEF BuilderInv
<1> QED BY <1>1, <1>2, PTL DEF BuilderSpec

(* The content hash covers the pixels in the order in which the index of   *)
(* the finished pack lists its tiles, all of them and nothing else, for    *)
(* every set of colours, tile size and configuration, whichever entry      *)
(* point each tile came through and whatever was rejected in between: the  *)
(* sort of `finalize`, which could part the two, moves nothing, since the  *)
(* builder takes keys in that order only.                                  *)
THEOREM HashIsOfTheIndex == BuilderSpec => []HashFollowsIndex
<1>1. BuilderInv => HashFollowsIndex
  <2> SUFFICES ASSUME BuilderInv, phase = "Finished", answer = "Ok"
               PROVE  /\ Len(hashed) = PixelsPerTile * Len(blob)
                      /\ \A i \in 1..Len(blob) :
                           blob[i].bytes = [p \in 1..PixelsPerTile |-> hashed[(i - 1) * PixelsPerTile + p]]
    BY DEF HashFollowsIndex
  <2>1. pc = "Done" /\ Holds(Len(held)) /\ Len(held) \in Nat
    BY DEF BuilderInv, InWriter, Accepted
  <2>2. Len(blob) = Len(held)
    BY <2>1 DEF BuilderInv, LayoutInv, Progress, Holds
  <2>3. Len(hashed) = PixelsPerTile * Len(blob)
    BY <2>1, <2>2, PixelsAssumption DEF BuilderInv, Accepted
  <2>4. ASSUME NEW i \in 1..Len(blob)
        PROVE  blob[i].bytes = [p \in 1..PixelsPerTile |-> hashed[(i - 1) * PixelsPerTile + p]]
    <3>1. i \in 1..Len(held)
      BY <2>2
    <3>2. blob[i].bytes = tiles[i].content.bytes
      BY LayoutPoints DEF BuilderInv, IndexPointsAtTiles
    <3>3. blob[i].bytes = held[i].bytes
      <4>1. tiles[i] = InlineTile(held[i])
        BY <2>1, <3>1 DEF Holds
      <4>2. tiles[i].content.bytes = held[i].bytes
        BY <4>1 DEF InlineTile
      <4> QED BY <3>2, <4>2
    <3>4. held[i] \in Accepts
      BY <3>1 DEF BuilderInv, Accepted
    <3>5. held[i].bytes \in [1..PixelsPerTile -> Colours]
      BY <3>4, EncodingAssumption DEF Accepts
    <3>6. \A p \in 1..PixelsPerTile : held[i].bytes[p] = hashed[(i - 1) * PixelsPerTile + p]
      BY <3>1 DEF BuilderInv, Accepted
    <3> QED BY <3>3, <3>5, <3>6
  <2> QED BY <2>3, <2>4
<1> QED BY BuilderAlways, <1>1, PTL

(* In a pack of the builder, too, an index entry gives the place and the   *)
(* length of its tile's bytes.                                             *)
THEOREM BuilderPacksPointAtTiles == BuilderSpec => []IndexPointsAtTiles
BY BuilderAlways, LayoutPoints, PTL DEF BuilderInv

(* The builder is a pack store too: whatever is fed, attached and finished *)
(* through it, what a reader gets out of its pack is what it collected.    *)
THEOREM BuilderImplementsPackStore == BuilderSpec => ImplementsPackStore
<1>1. BuilderInit => Init /\ StoreInv /\ Store!Init
  BY InitStored, InitStores DEF BuilderInit
<1>2. BuilderInv /\ StoreInv /\ [BuilderNext]_allVars => StoreInv'
  BY BuilderStepsWriter, NextStored
<1>3. BuilderInv /\ StoreInv /\ StoreInv' /\ [BuilderNext]_allVars => [Store!Next]_(Store!vars)
  BY BuilderStepsWriter, NextStores
<1> QED BY <1>1, <1>2, <1>3, BuilderAlways, PTL DEF BuilderSpec, ImplementsPackStore, Store!Spec

(* Each accepted tile, as a reader should find it. *)
FedIsReadBack ==
  phase = "Finished" /\ answer = "Ok" =>
    ReadBack = {[tiles |-> {held[i] : i \in 1..Len(held)}, exts |-> BagOfSeq(exts)]}

(* What `finish` returned without an error opens, and a reader gets out of *)
(* it every tile that was accepted, byte for byte, and no other: the order *)
(* check of the builder never lets the writer refuse a tile in between.    *)
THEOREM BuilderPackReadsBack == BuilderSpec => []FedIsReadBack
<1>1. BuilderInit => StoreInv
  BY InitStored DEF BuilderInit
<1>2. BuilderInv /\ StoreInv /\ [BuilderNext]_allVars => StoreInv'
  BY BuilderStepsWriter, NextStored
<1>3. BuilderInv /\ StoreInv => FedIsReadBack
  <2> SUFFICES ASSUME BuilderInv, StoreInv, phase = "Finished", answer = "Ok"
               PROVE  ReadBack = {[tiles |-> {held[i] : i \in 1..Len(held)}, exts |-> BagOfSeq(exts)]}
    BY DEF FedIsReadBack
  <2>1. pc = "Done" /\ Holds(Len(held)) /\ held \in Seq(Accepts) /\ Len(held) \in Nat
    BY DEF BuilderInv, InWriter, Accepted
  <2>2. ASSUME NEW i \in 1..Len(held)
        PROVE  [key |-> tiles[i].key, bytes |-> tiles[i].content.bytes] = held[i]
    <3>1. tiles[i].key = held[i].key /\ tiles[i].content.bytes = held[i].bytes
      <4>1. tiles[i] = InlineTile(held[i])
        BY <2>1 DEF Holds
      <4> QED BY <4>1 DEF InlineTile
    <3>2. held[i] \in Accepts
      BY <2>1, ElementOfSeq
    <3> QED BY <3>1, <3>2 DEF Accepts
  <2>. DEFINE Fed == {held[i] : i \in 1..Len(held)}
              Read == {[key |-> tiles[i].key, bytes |-> tiles[i].content.bytes] : i \in 1..Len(held)}
  <2>3. Read = Fed
    <3>1. (\A x \in Read : x \in Fed) /\ (\A x \in Fed : x \in Read)
      BY <2>2
    <3> HIDE DEF Read, Fed
    <3> QED BY <3>1
  <2>4. TilesCollected = Read
    BY <2>1 DEF TilesCollected, Holds
  <2> HIDE DEF Read, Fed
  <2>5. ReadBack = {[tiles |-> TilesCollected, exts |-> BagOfSeq(exts)]}
    BY <2>1, PackReadsBack
  <2> QED BY <2>3, <2>4, <2>5 DEF Fed
<1> QED BY <1>1, <1>2, <1>3, BuilderAlways, PTL DEF BuilderSpec

(* A rejected tile leaves the stream, the tiles and the order alone, and   *)
(* so does every call of `finish` that fails.                              *)
THEOREM RejectionAlwaysHarmless == BuilderSpec => RejectionIsHarmless
<1>1. [BuilderNext]_allVars => [answer' # "Ok" => UNCHANGED <<previous, hashed, held>>]_allVars
  <2> SUFFICES ASSUME [BuilderNext]_allVars, answer' # "Ok"
               PROVE  UNCHANGED <<previous, hashed, held>>
    OBVIOUS
  <2>1. ASSUME NEW c \in Configs, New(c) PROVE UNCHANGED <<previous, hashed, held>>
    BY <2>1 DEF New
  <2>2. ASSUME NEW k \in Keys, NEW rgb \in RgbBuffers, AddTileRgb888(k, rgb)
        PROVE  UNCHANGED <<previous, hashed, held>>
    BY <2>2 DEF AddTileRgb888, AcceptRgb
  <2>3. ASSUME NEW k \in Keys, NEW rgba \in RgbaBuffers, AddTileRgba8888(k, rgba)
        PROVE  UNCHANGED <<previous, hashed, held>>
    BY <2>3 DEF AddTileRgba8888, AcceptRgb
  <2>4. ASSUME NEW d \in Descriptors, FinishRejects(d) \/ FinishBegins(d)
        PROVE  UNCHANGED <<previous, hashed, held>>
    BY <2>4 DEF FinishRejects, FinishBegins
  <2>5. ASSUME Finish \/ Gone \/ UNCHANGED allVars PROVE UNCHANGED <<previous, hashed, held>>
    BY <2>5 DEF Finish, FinishAttaches, FinishHandsTile, FinishFinalizes, FinalizeRuns, FinishReturns,
                Gone, allVars, builderVars
  <2> QED BY <2>1, <2>2, <2>3, <2>4, <2>5 DEF BuilderNext, Feed
<1> QED BY <1>1, PTL DEF BuilderSpec, RejectionIsHarmless
=============================================================================
