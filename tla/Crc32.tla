------------------------------- MODULE Crc32 -------------------------------
(***************************************************************************)
(* The checksum at the end of a pack, CRC-32/ISO-HDLC.  A word is the set  *)
(* of the positions of its one bits, so that exclusive or is symmetric     *)
(* difference and a shift subtracts; a byte is such a set within 0..7.     *)
(***************************************************************************)
EXTENDS Integers, Sequences

Word == 0..31
Byte == 0..7
Polynomial == {5, 8, 9, 15, 19, 20, 21, 23, 24, 26, 27, 29, 30, 31}  \* 0xEDB88320

Xor(a, b) == (a \ b) \cup (b \ a)
ShiftRight(c, n) == {b - n : b \in {d \in c : d >= n}}

DivisionStep(c) == Xor(ShiftRight(c, 1), IF 0 \in c THEN Polynomial ELSE {})

(* The table entry of a byte: eight steps of the division. *)
TableEntry(byte) ==
  LET step[k \in 0..8] == IF k = 0 THEN byte ELSE DivisionStep(step[k - 1])
  IN step[8]
Table == [byte \in SUBSET Byte |-> TableEntry(byte)]

(* Mutant: the table is indexed by the input alone. *)
AbsorbByInput(c, byte) == Xor(ShiftRight(c, 8), Table[byte])
Absorb(c, byte) == Xor(ShiftRight(c, 8), Table[Xor(c \cap Byte, byte)])

(* Crc32::update: `data` mixed into the accumulator `c`. *)
Update(c, data) ==
  LET acc[k \in 0..Len(data)] == IF k = 0 THEN c ELSE Absorb(acc[k - 1], data[k])
  IN acc[Len(data)]

Checksum(data) == Word \ Update(Word, data)

(* A word as it lies in the file, low byte first. *)
LittleEndian(c) == [k \in 1..4 |-> ShiftRight(c, 8 * (k - 1)) \cap Byte]
=============================================================================
