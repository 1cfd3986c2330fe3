-------------------------- MODULE TileCodecProofs ---------------------------
(***************************************************************************)
(* Proofs about TileCodec and the codec of Rle8 in it, for every picture,  *)
(* palette, tile size, stream and MaxRun.                                  *)
(*                                                                         *)
(* The reservation.  A header costs a byte and so does the value of a      *)
(* repeat.  A literal of MaxRun bytes pays for its header out of the       *)
(* reservation; a shorter one is the last block or ends at a run, and the  *)
(* repeat there saves at least the byte that it owes.  That debt is what   *)
(* Balance keeps.                                                          *)
(*                                                                         *)
(* The round trip.  A trace is the record of a reader that takes a stream  *)
(* block by block: the places it stops at, how many bytes it has decoded   *)
(* there, and that they are the bytes of the blocks.  The encoder keeps a  *)
(* trace of what it has written (Written), decode makes one of what it     *)
(* reads and decode_streaming follows that of decode (Decodes), and decode *)
(* never leaves the trace of the encoder (Faithful).                       *)
(*                                                                         *)
(* The picture.  snap_pixel keeps the first of the nearest slots it has    *)
(* seen, and the two bits of a channel are those of the nearest level; the *)
(* buffer holds one code per pixel until the tile is stored (TileInv).     *)
(***************************************************************************)
EXTENDS TileCodec, WellFoundedInduction, SequenceTheorems, FiniteSetTheorems, TLAPS

(* One header for every MaxRun bytes. *)
Budget(n) == n + (n \div MaxRun)

Balance ==
  /\ stage = "Encode" =>
       /\ origin = "Encoded" /\ data \in Seq(Nat) /\ encoded \in Seq(Nat)
       /\ i \in 0..Len(data)
       /\ \/ Len(encoded) <= Budget(i)
          \/ Len(encoded) <= Budget(i) + 1 /\ (i = Len(data) \/ IsRun(data, i, RepeatThreshold))
  /\ origin = "Encoded" /\ stage # "Encode" =>
       data \in Seq(Nat) /\ encoded \in Seq(Nat) /\ Len(encoded) <= Budget(Len(data)) + 1

----------------------------------------------------------------------------
(* Lemmas about the helpers. *)

(* A set of naturals that is not empty has a least element. *)
LEMMA Least ==
  ASSUME NEW T, T \subseteq Nat, T # {} PROVE \E m \in T : \A k \in T : m <= k
<1>. DEFINE R == OpToRel(<, Nat)
<1>1. IsWellFoundedOn(R, Nat)
  BY NatLessThanWellFounded
<1>2. \A x, y \in Nat : x < y => <<x, y>> \in R
  BY DEF OpToRel
<1>. HIDE DEF R
<1>3. PICK m \in T : \A k \in T : <<k, m>> \notin R
  BY <1>1, WFMin
<1>4. ASSUME NEW k \in T PROVE m <= k
  <2>1. ~(k < m)
    BY <1>2, <1>3
  <2>. QED
    BY <2>1
<1>. QED
  BY <1>4

(* What a literal's length is, from where it starts and ends. *)
LEMMA Difference ==
  ASSUME NEW a \in Nat, NEW b \in Nat, a + 1 <= b, b <= a + MaxRun
  PROVE  b - a \in 1..MaxRun /\ b = a + (b - a)
BY MaxRunAssumption

(* Whole rows of MaxRun bytes are paid for; shorter ones cost nothing. *)
LEMMA BudgetGrows ==
  ASSUME NEW m \in Nat, NEW n \in Nat
  PROVE  /\ Budget(m) \in Nat /\ Budget(m) + n <= Budget(m + n)
         /\ n = MaxRun => Budget(m + n) = Budget(m) + n + 1
<1>1. MaxRun \in Nat /\ MaxRun > 0
  BY MaxRunAssumption
<1>2. m \div MaxRun \in Nat /\ (m + n) \div MaxRun \in Nat
  BY <1>1
<1>3. m \div MaxRun <= (m + n) \div MaxRun
  BY <1>1
<1>4. (m + MaxRun) \div MaxRun = (m \div MaxRun) + 1
  BY <1>1
<1>. QED
  BY <1>1, <1>2, <1>3, <1>4 DEF Budget

(* The inner loop of encode finds a run, of at least three bytes wherever  *)
(* three bytes are equal.                                                  *)
LEMMA RunLengthFacts ==
  ASSUME NEW s \in Seq(Nat), NEW p \in Nat, p < Len(s)
  PROVE  /\ RunLength(s, p) \in 1..MaxRun /\ p + RunLength(s, p) <= Len(s)
         /\ IsRun(s, p, RunLength(s, p))
         /\ IsRun(s, p, RepeatThreshold) => RunLength(s, p) >= RepeatThreshold
<1>. USE MaxRunAssumption
<1>. DEFINE Stops == {n \in 1..MaxRun : n = MaxRun \/ ~IsRun(s, p, n + 1)}
<1>0. MaxRun \in Stops /\ Stops \subseteq Nat
  OBVIOUS
<1>1. PICK n \in Stops : \A k \in Stops : n <= k
  BY <1>0, Least
<1>2. IsRun(s, p, n)
  <2>1. CASE n = 1
    BY <2>1 DEF IsRun
  <2>2. CASE n > 1
    <3>1. n - 1 \in 1..MaxRun /\ n - 1 \notin Stops
      BY <1>1, <2>2
    <3>. QED
      BY <3>1
  <2>. QED
    BY <1>1, <2>1, <2>2
<1>3. /\ RunLength(s, p) \in 1..MaxRun /\ IsRun(s, p, RunLength(s, p))
      /\ RunLength(s, p) = MaxRun \/ ~IsRun(s, p, RunLength(s, p) + 1)
  BY <1>1, <1>2 DEF RunLength
<1>4. ASSUME IsRun(s, p, 3), NEW k \in 1..3 PROVE IsRun(s, p, k)
  BY SMTT(30), <1>4 DEF IsRun
<1>5. p + RunLength(s, p) <= Len(s)
  BY <1>3 DEF IsRun
<1>6. ASSUME IsRun(s, p, 3), RunLength(s, p) < 3 PROVE FALSE
  BY <1>3, <1>4, <1>6
<1>. QED
  BY <1>3, <1>5, <1>6 DEF RepeatThreshold

(* A literal has at most MaxRun bytes, and a shorter one ends where the    *)
(* data ends or a run begins.                                              *)
LEMMA LiteralEndFacts ==
  ASSUME NEW s \in Seq(Nat), NEW p \in Nat, p < Len(s)
  PROVE  /\ LiteralEnd(s, p) \in (p + 1)..Len(s) /\ LiteralEnd(s, p) <= p + MaxRun
         /\ \/ LiteralEnd(s, p) = p + MaxRun \/ LiteralEnd(s, p) = Len(s)
            \/ IsRun(s, LiteralEnd(s, p), RepeatThreshold)
<1>. USE MaxRunAssumption
<1>. DEFINE Stops == {e \in (p + 1)..Len(s) : LiteralStops(s, p, e)}
            end == LiteralEnd(s, p)
<1>1. Len(s) \in Stops /\ Stops \subseteq Nat
  BY DEF LiteralStops
<1>2. PICK e \in Stops : \A f \in Stops : e <= f
  BY <1>1, Least
<1>3. /\ end \in (p + 1)..Len(s) /\ LiteralStops(s, p, end)
      /\ \A f \in (p + 1)..(end - 1) : ~LiteralStops(s, p, f)
  <2>1. \A f \in (p + 1)..(e - 1) : ~LiteralStops(s, p, f)
    BY <1>2
  <2>. QED
    BY <1>2, <2>1 DEF LiteralEnd
<1>4. end <= p + MaxRun
  <2>1. SUFFICES ASSUME end > p + MaxRun PROVE FALSE
    BY <1>3
  <2>2. end - 1 \in (p + 1)..(end - 1) /\ (end - 1) - p >= MaxRun
    BY SMTT(30), <1>3, <2>1
  <2>. QED
    BY <1>3, <2>2 DEF LiteralStops
<1>5. end = p + MaxRun \/ end = Len(s) \/ IsRun(s, end, RepeatThreshold)
  <2>1. end = Len(s) \/ end - p >= MaxRun \/ IsRun(s, end, RepeatThreshold)
    BY <1>3 DEF LiteralStops
  <2>2. end - p >= MaxRun => end = p + MaxRun
    <3>1. end \in Nat
      BY <1>3
    <3>. HIDE DEF end
    <3>. QED
      BY <1>4, <3>1
  <2>. QED
    BY <2>1, <2>2
<1>. QED
  BY <1>3, <1>4, <1>5

----------------------------------------------------------------------------
(* Nothing has been read and nothing written. *)
LEMMA InitBalance == Init => Balance
<1> SUFFICES ASSUME Init PROVE Balance
  OBVIOUS
<1>1. CASE stage = "Encode"
  <2>1. /\ data \in Seq(Nat) /\ encoded = <<>> /\ i = 0 /\ origin = "Encoded"
    BY <1>1, InputsAssumption DEF Init, NothingDecoded
  <2>2. Budget(0) \in Nat
    BY BudgetGrows
  <2>. QED
    BY <1>1, <2>1, <2>2 DEF Balance
<1>2. CASE stage = "Decode"
  BY <1>2 DEF Init, Balance
<1>. QED
  BY <1>1, <1>2 DEF Init

(* A repeat of three bytes or more pays the debt of the literal before it. *)
LEMMA RepeatBalances == Balance /\ EmitRepeat => Balance'
<1> SUFFICES ASSUME Balance, EmitRepeat PROVE Balance'
  OBVIOUS
<1>. USE MaxRunAssumption
<1>. DEFINE n == RunLength(data, i)
<1>1. /\ stage = "Encode" /\ origin = "Encoded" /\ data \in Seq(Nat) /\ encoded \in Seq(Nat)
      /\ i \in 0..Len(data) /\ i < Len(data) /\ n >= 3
      /\ encoded' = encoded \o <<MaxRun + n - 1, data[i + 1]>> /\ i' = i + n
      /\ UNCHANGED <<stage, origin, data>>
  BY DEF EmitRepeat, Balance, RepeatThreshold
<1>2. n \in 1..MaxRun /\ i + n <= Len(data)
  BY <1>1, RunLengthFacts
<1>3. Budget(i) \in Nat /\ Budget(i + n) \in Nat /\ Budget(i) + n <= Budget(i + n)
  <2>1. i \in Nat /\ n \in Nat
    BY <1>1, <1>2
  <2>2. i + n \in Nat
    BY <2>1
  <2>. HIDE DEF n
  <2>. QED
    BY <2>1, <2>2, BudgetGrows
<1>4. Len(encoded) <= Budget(i) + 1
  BY <1>1, <1>3 DEF Balance
<1>. HIDE DEF n
<1>5. encoded' \in Seq(Nat) /\ Len(encoded') = Len(encoded) + 2
  BY <1>1, <1>2
<1>6. Len(encoded') <= Budget(i + n)
  BY <1>1, <1>2, <1>3, <1>4, <1>5
<1>7. Budget(i)' = Budget(i + n)
  BY <1>1 DEF Budget
<1>. QED
  BY <1>1, <1>2, <1>5, <1>6, <1>7 DEF Balance

(* A literal of MaxRun bytes has its header paid; a shorter one owes it,   *)
(* and starts with no debt, or encode would have emitted a repeat.         *)
LEMMA LiteralBalances == Balance /\ EmitLiteral => Balance'
<1> SUFFICES ASSUME Balance, EmitLiteral PROVE Balance'
  OBVIOUS
<1>. USE MaxRunAssumption
<1>. DEFINE n == i' - i
<1>1. /\ stage = "Encode" /\ origin = "Encoded" /\ data \in Seq(Nat) /\ encoded \in Seq(Nat)
      /\ i \in 0..Len(data) /\ i < Len(data) /\ RunLength(data, i) < RepeatThreshold
      /\ encoded' = encoded \o <<i' - i - 1>> \o SubSeq(data, i + 1, i')
      /\ i' = LiteralEnd(data, i)
      /\ UNCHANGED <<stage, origin, data>>
  BY DEF EmitLiteral, Balance
<1>2. /\ i' \in (i + 1)..Len(data) /\ i' <= i + MaxRun
      /\ i' = i + MaxRun \/ i' = Len(data) \/ IsRun(data, i', RepeatThreshold)
  BY <1>1, LiteralEndFacts
<1>3. n \in 1..MaxRun /\ i' = i + n /\ i \in Nat /\ i' \in Nat /\ i' <= Len(data)
  <2>1. i \in Nat /\ Len(data) \in Nat
    BY <1>1
  <2>2. i' \in Nat /\ i + 1 <= i' /\ i' <= Len(data)
    BY <1>2, <2>1
  <2>3. i' <= i + MaxRun
    BY <1>2
  <2>4. n \in 1..MaxRun /\ i' = i + n
    BY <2>1, <2>2, <2>3, Difference
  <2>. QED
    BY <2>1, <2>2, <2>4
<1>. HIDE DEF n
<1>4. /\ Budget(i) \in Nat /\ Budget(i') \in Nat /\ Budget(i) + n <= Budget(i')
      /\ n = MaxRun => Budget(i') = Budget(i) + n + 1
  <2>1. n \in Nat
    BY <1>3
  <2>. QED
    BY <1>3, <2>1, BudgetGrows
<1>5. ~IsRun(data, i, RepeatThreshold)
  <2>1. RunLength(data, i) \in Nat
    BY <1>1, RunLengthFacts
  <2>. QED
    BY <1>1, <2>1, RunLengthFacts DEF RepeatThreshold
<1>6. Len(encoded) <= Budget(i)
  BY <1>1, <1>5 DEF Balance
<1>7. encoded' \in Seq(Nat) /\ Len(encoded') = Len(encoded) + 1 + n
  <2>1. SubSeq(data, i + 1, i') \in Seq(Nat) /\ Len(SubSeq(data, i + 1, i')) = n
    <3>1. 1 <= i + 1 /\ i + 1 <= i' + 1 /\ i' <= Len(data) /\ i' - (i + 1) + 1 = n
      BY <1>3
    <3>. QED
      BY <1>1, <1>3, <3>1
  <2>2. <<i' - i - 1>> \in Seq(Nat) /\ Len(<<i' - i - 1>>) = 1
    <3>1. i' - i - 1 \in Nat
      BY <1>3
    <3>. QED
      BY <3>1
  <2>. QED
    BY <1>1, <2>1, <2>2
<1>8. \/ Len(encoded') <= Budget(i')
      \/ Len(encoded') <= Budget(i') + 1 /\ (i' = Len(data) \/ IsRun(data, i', RepeatThreshold))
  <2>1. CASE i' = i + MaxRun
    BY <1>3, <1>4, <1>6, <1>7, <2>1
  <2>2. CASE i' = Len(data) \/ IsRun(data, i', RepeatThreshold)
    BY <1>3, <1>4, <1>6, <1>7, <2>2
  <2>. QED
    BY <1>2, <2>1, <2>2
<1>9. Budget(i)' = Budget(i') /\ IsRun(data, i, RepeatThreshold)' = IsRun(data, i', RepeatThreshold)
  BY <1>1 DEF Budget, IsRun, RepeatThreshold
<1>10. i' \in 0..Len(data)
  BY <1>1, <1>3
<1>. QED
  BY <1>1, <1>7, <1>8, <1>9, <1>10 DEF Balance

(* Every step keeps the account; after encode the stream is only cut.      *)
LEMMA StepBalance == Balance /\ [Next]_codecVars => Balance'
<1> SUFFICES ASSUME Balance, [Next]_codecVars PROVE Balance'
  OBVIOUS
<1>1. CASE EndOfData
  <2>1. /\ stage = "Encode" /\ i = Len(data) /\ stage' = "Stored" /\ origin = "Encoded"
        /\ data \in Seq(Nat) /\ encoded \in Seq(Nat) /\ UNCHANGED <<data, encoded, origin>>
    BY <1>1 DEF EndOfData, encoderVars, Balance
  <2>2. Budget(Len(data)) \in Nat /\ Budget(Len(data))' = Budget(Len(data))
    BY <2>1, BudgetGrows DEF Budget
  <2>3. Len(encoded) <= Budget(Len(data)) + 1
    BY <2>1, <2>2 DEF Balance
  <2>. QED
    BY <2>1, <2>2, <2>3 DEF Balance
<1>2. CASE ReadBack
  <2>1. PICK n \in 0..Len(encoded) :
          /\ encoded' = SubSeq(encoded, 1, n)
          /\ origin' = IF n < Len(encoded) THEN "Cut" ELSE origin
    BY <1>2 DEF ReadBack
  <2>2. stage = "Stored" /\ stage' = "Decode" /\ data' = data
    BY <1>2 DEF ReadBack
  <2>3. CASE origin' = "Encoded"
    <3>1. origin = "Encoded" /\ encoded \in Seq(Nat) /\ n = Len(encoded)
      BY <2>1, <2>2, <2>3 DEF Balance
    <3>2. encoded' = encoded
      BY <2>1, <3>1
    <3>. QED
      BY <2>2, <3>1, <3>2 DEF Balance, Budget
  <2>4. CASE origin' # "Encoded"
    BY <2>2, <2>4 DEF Balance
  <2>. QED
    BY <2>3, <2>4
<1>3. CASE Decoding
  BY <1>3 DEF Decoding, DecodeBlock, DecodeCutOff, DecodeReturns, StreamBlock, SinkFails,
              StreamCutOff, StreamReturns, Decoded, Streamed, encoderVars, Balance, Budget
<1>4. CASE UNCHANGED codecVars
  BY <1>4 DEF codecVars, encoderVars, Balance, Budget, IsRun
<1>. QED
  BY <1>1, <1>2, <1>3, <1>4, RepeatBalances, LiteralBalances DEF Next, Encoding

(* The account covers the reservation. *)
LEMMA BalanceFits == Balance => EncodedFitsReservation
<1> SUFFICES ASSUME Balance, origin = "Encoded" PROVE EncodedFitsReservation
  BY DEF EncodedFitsReservation
<1>1. CASE stage = "Encode"
  <2>1. i \in Nat /\ Len(data) - i \in Nat /\ Len(encoded) \in Nat /\ data \in Seq(Nat)
    BY <1>1 DEF Balance
  <2>2. Budget(i) \in Nat /\ Budget(i) + (Len(data) - i) <= Budget(i + (Len(data) - i))
    BY <2>1, BudgetGrows
  <2>3. i + (Len(data) - i) = Len(data) /\ Budget(Len(data)) \in Nat
    BY <2>1, BudgetGrows
  <2>4. Len(encoded) <= Budget(i) + 1
    BY <1>1, <2>1, <2>2 DEF Balance
  <2>5. Len(encoded) <= Budget(Len(data)) + 1
    BY <2>1, <2>2, <2>3, <2>4
  <2>. QED
    BY <2>5 DEF Budget, EncodedFitsReservation
<1>2. CASE stage # "Encode"
  BY <1>2 DEF Balance, Budget, EncodedFitsReservation
<1>. QED
  BY <1>1, <1>2

----------------------------------------------------------------------------
(* Traces. *)

(* The block at a position of a stream. *)
BlockSize(s, p) == (s[p + 1] % MaxRun) + 1
Literal(s, p) == s[p + 1] < MaxRun
BlockStop(s, p) == IF Literal(s, p) THEN p + 1 + BlockSize(s, p) ELSE p + 2
BlockByte(s, p, k) == IF Literal(s, p) THEN s[p + 1 + k] ELSE s[p + 2]

(* A reader that starts at the head of `s` and takes block after block     *)
(* comes to `last`.  `at` maps each place it passes to the number of bytes *)
(* decoded when it is there, and the bytes are those of `d`.               *)
Trace(at, s, d, last) ==
  /\ DOMAIN at \subseteq 0..last /\ 0 \in DOMAIN at /\ last \in DOMAIN at
  /\ at[0] = 0 /\ \A p \in DOMAIN at : at[p] \in Nat
  /\ \A p \in DOMAIN at : p < last =>
       /\ at[p] < at[last]
       /\ BlockStop(s, p) \in DOMAIN at /\ at[BlockStop(s, p)] = at[p] + BlockSize(s, p)
       /\ \A k \in 1..BlockSize(s, p) : d[at[p] + k] = BlockByte(s, p, k)

(* A block has between one and MaxRun bytes and a header. *)
LEMMA BlockFacts ==
  ASSUME NEW s \in Seq(Nat), NEW p \in Nat, p < Len(s)
  PROVE  /\ BlockSize(s, p) \in 1..MaxRun /\ BlockStop(s, p) \in Nat /\ BlockStop(s, p) > p + 1
         /\ Literal(s, p) => BlockStop(s, p) = p + 1 + BlockSize(s, p)
         /\ s[p + 1] \in Nat
<1>. USE MaxRunAssumption
<1>1. s[p + 1] \in Nat
  <2>1. p + 1 \in 1..Len(s)
    OBVIOUS
  <2> QED BY <2>1
<1>2. s[p + 1] % MaxRun \in 0..(MaxRun - 1)
  BY <1>1
<1>3. BlockSize(s, p) \in 1..MaxRun
  BY <1>2 DEF BlockSize
<1> QED BY <1>1, <1>3 DEF BlockStop

(* What a header of encode says. *)
LEMMA Headers ==
  ASSUME NEW n \in 1..MaxRun
  PROVE  (MaxRun + n - 1) % MaxRun = n - 1 /\ (n - 1) % MaxRun = n - 1
<1>. USE MaxRunAssumption
<1>1. MaxRun \in Nat \ {0} /\ n - 1 \in 0..(MaxRun - 1)
  OBVIOUS
<1>2. (n - 1) % MaxRun = n - 1
  BY <1>1
<1>3. MaxRun + n - 1 = MaxRun + (n - 1)
  OBVIOUS
<1>4. (MaxRun + (n - 1)) % MaxRun = n - 1
  BY <1>1
<1> QED BY <1>2, <1>3, <1>4

(* `t` and `e` go on where a trace of `s` and `d` ends. *)
GoesOn(at, s, d, t, e, last) ==
  /\ last <= Len(s) /\ last < Len(t)
  /\ \A k \in 1..last : t[k] = s[k]
  /\ \A k \in 1..at[last] : e[k] = d[k]
  /\ \A k \in 1..BlockSize(t, last) : e[at[last] + k] = BlockByte(t, last, k)

(* The trace with one more block. *)
Grown(at, t, e, last) ==
  \E go : /\ Trace(go, t, e, BlockStop(t, last))
          /\ go[BlockStop(t, last)] = at[last] + BlockSize(t, last)
          /\ DOMAIN go = DOMAIN at \cup {BlockStop(t, last)}
          /\ \A p \in DOMAIN at : go[p] = at[p]

(* The bytes of a literal lie before its end. *)
LEMMA Within ==
  ASSUME NEW a \in Nat, NEW b \in Int, NEW k \in 1..b, NEW c \in Nat, a + 1 + b <= c
  PROVE  a + 1 + k \in 1..c
OBVIOUS

(* Streams that agree as far as a block goes have the same block there. *)
LEMMA SameBlock ==
  ASSUME NEW s \in Seq(Nat), NEW t \in Seq(Nat), NEW last \in Nat, NEW p \in Nat,
         last <= Len(s), \A k \in 1..last : t[k] = s[k], p < last, BlockStop(s, p) <= last
  PROVE  /\ BlockSize(t, p) = BlockSize(s, p) /\ BlockStop(t, p) = BlockStop(s, p)
         /\ \A k \in 1..BlockSize(s, p) : BlockByte(t, p, k) = BlockByte(s, p, k)
<1>1. /\ BlockSize(s, p) \in Nat /\ BlockStop(s, p) \in Nat /\ BlockStop(s, p) > p + 1
      /\ Literal(s, p) => BlockStop(s, p) = p + 1 + BlockSize(s, p)
  <2>1. p < Len(s)
    OBVIOUS
  <2> QED BY <2>1, BlockFacts, MaxRunAssumption
<1>2. p + 1 \in 1..last /\ p + 2 \in 1..last
  BY <1>1
<1>3. /\ BlockSize(t, p) = BlockSize(s, p) /\ BlockStop(t, p) = BlockStop(s, p)
      /\ Literal(t, p) = Literal(s, p)
  BY <1>2 DEF BlockSize, BlockStop, Literal
<1>4. CASE Literal(s, p)
  <2>1. ASSUME NEW k \in 1..BlockSize(s, p) PROVE p + 1 + k \in 1..last
    BY SMTT(30), <1>1, <1>4, Within
  <2> QED BY <1>3, <1>4, <2>1 DEF BlockByte
<1>5. CASE ~Literal(s, p)
  BY <1>2, <1>3, <1>5 DEF BlockByte
<1> QED BY <1>3, <1>4, <1>5

(* A trace goes on with the block at its end, whatever the stream and the  *)
(* bytes are after what it has passed.                                     *)
LEMMA TraceGrows ==
  ASSUME NEW at, NEW s \in Seq(Nat), NEW d, NEW t \in Seq(Nat), NEW e, NEW last \in Nat,
         Trace(at, s, d, last), GoesOn(at, s, d, t, e, last)
  PROVE  Grown(at, t, e, last)
<1>g. /\ last <= Len(s) /\ last < Len(t)
      /\ \A k \in 1..last : t[k] = s[k]
      /\ \A k \in 1..at[last] : e[k] = d[k]
      /\ \A k \in 1..BlockSize(t, last) : e[at[last] + k] = BlockByte(t, last, k)
  BY DEF GoesOn
<1>. USE <1>g
<1>. DEFINE stop == BlockStop(t, last)
            size == BlockSize(t, last)
            go == [p \in DOMAIN at \cup {stop} |-> IF p = stop THEN at[last] + size ELSE at[p]]
<1>1. size \in 1..MaxRun /\ stop \in Nat /\ stop > last
  BY BlockFacts
<1>2. DOMAIN at \subseteq 0..last /\ 0 \in DOMAIN at /\ last \in DOMAIN at /\ at[0] = 0
      /\ \A p \in DOMAIN at : at[p] \in Nat
  BY DEF Trace
<1>3. stop \notin DOMAIN at /\ MaxRun \in Nat
  BY <1>1, <1>2, MaxRunAssumption
<1> HIDE DEF stop, size
<1>4. go[stop] = at[last] + size /\ \A p \in DOMAIN at : go[p] = at[p]
  BY <1>3
<1>5. DOMAIN go = DOMAIN at \cup {stop}
  OBVIOUS
<1> HIDE DEF go
<1>6. ASSUME NEW p \in DOMAIN go, p < stop
      PROVE  /\ go[p] < go[stop]
             /\ BlockStop(t, p) \in DOMAIN go /\ go[BlockStop(t, p)] = go[p] + BlockSize(t, p)
             /\ \A k \in 1..BlockSize(t, p) : e[go[p] + k] = BlockByte(t, p, k)
  <2>0. p \in DOMAIN at /\ p \in 0..last /\ go[p] = at[p] /\ at[p] \in Nat /\ at[last] \in Nat
    BY <1>1, <1>2, <1>4, <1>5, <1>6
  <2>1. CASE p = last
    BY <1>1, <1>3, <1>4, <1>5, <2>0, <2>1 DEF stop, size
  <2>2. CASE p < last
    <3>1. /\ at[p] < at[last] /\ BlockStop(s, p) \in DOMAIN at
          /\ at[BlockStop(s, p)] = at[p] + BlockSize(s, p)
          /\ \A k \in 1..BlockSize(s, p) : d[at[p] + k] = BlockByte(s, p, k)
      BY <2>0, <2>2 DEF Trace
    <3>2. BlockSize(s, p) \in 1..MaxRun /\ BlockStop(s, p) > p + 1
          /\ (Literal(s, p) => BlockStop(s, p) = p + 1 + BlockSize(s, p))
      <4>1. p \in Nat /\ p < Len(s)
        <5>1. Len(s) \in Nat /\ p \in Nat /\ last \in Nat
          BY <2>0
        <5> QED BY <2>2, <5>1
      <4> QED BY <4>1, BlockFacts
    <3>3. BlockStop(s, p) \in 0..last
      BY <1>2, <3>1
    <3>5. /\ BlockSize(t, p) = BlockSize(s, p) /\ BlockStop(t, p) = BlockStop(s, p)
          /\ \A k \in 1..BlockSize(s, p) : BlockByte(t, p, k) = BlockByte(s, p, k)
      <4>1. p \in Nat /\ BlockStop(s, p) <= last
        BY <2>0, <3>3
      <4> QED BY <2>2, <4>1, SameBlock
    <3>7. at[BlockStop(s, p)] <= at[last]
      <4>1. CASE BlockStop(s, p) = last
        BY <4>1, <2>0
      <4>2. CASE BlockStop(s, p) < last
        <5>1. at[BlockStop(s, p)] < at[last]
          BY <3>1, <4>2 DEF Trace
        <5>2. at[BlockStop(s, p)] \in Nat
          BY <1>2, <3>1
        <5> QED BY <2>0, <5>1, <5>2
      <4> QED BY <3>3, <4>1, <4>2
    <3>8. \A k \in 1..BlockSize(s, p) : e[at[p] + k] = d[at[p] + k]
      <4> SUFFICES ASSUME NEW k \in 1..BlockSize(s, p) PROVE e[at[p] + k] = d[at[p] + k]
        OBVIOUS
      <4>1. at[p] + k \in 1..at[last]
        <5>1. at[p] + BlockSize(s, p) <= at[last]
          BY <3>1, <3>7
        <5> QED BY <1>3, <2>0, <3>2, <5>1
      <4> QED BY <4>1
    <3>9. go[p] < go[stop]
      BY <1>1, <1>3, <1>4, <2>0, <3>1
    <3>10. BlockStop(t, p) \in DOMAIN go /\ go[BlockStop(t, p)] = go[p] + BlockSize(t, p)
      BY <1>4, <1>5, <2>0, <3>1, <3>5
    <3>11. \A k \in 1..BlockSize(t, p) : e[go[p] + k] = BlockByte(t, p, k)
      BY <2>0, <3>1, <3>5, <3>8
    <3> QED BY <3>9, <3>10, <3>11
  <2> QED BY <2>0, <2>1, <2>2
<1>7. DOMAIN go \subseteq 0..stop /\ 0 \in DOMAIN go /\ stop \in DOMAIN go /\ go[0] = 0
      /\ \A p \in DOMAIN go : go[p] \in Nat
  <2>1. go[stop] \in Nat
    BY <1>1, <1>2, <1>3, <1>4
  <2> QED BY <1>1, <1>2, <1>4, <1>5, <2>1
<1>8. Trace(go, t, e, stop)
  BY <1>6, <1>7 DEF Trace
<1> QED BY <1>4, <1>5, <1>8 DEF stop, size, Grown

----------------------------------------------------------------------------
(* The encoder. *)

(* While encode runs, and until the pack is read, the stream written so    *)
(* far decodes to the bytes encoded so far.                                *)
Encodes(s, n) ==
  \E at : Trace(at, s, data, Len(s)) /\ at[Len(s)] = n

Written ==
  /\ data \in Seq(Nat) /\ encoded \in Seq(Nat) /\ expected \in Nat
  /\ stage \in {"Encode", "Stored"} =>
       /\ origin = "Encoded" /\ out = <<>> /\ sink = <<>>
       /\ verdict = "None" /\ streamed = "None" /\ i \in 0..Len(data)
       /\ Encodes(encoded, IF stage = "Encode" THEN i ELSE Len(data))
  /\ stage = "Stored" => expected = Len(data) /\ i = 0

(* A reader at the head of a stream has decoded nothing. *)
LEMMA NothingTraced ==
  ASSUME NEW s, NEW d PROVE \E at : Trace(at, s, d, 0) /\ at[0] = 0 /\ DOMAIN at = {0}
<1>. DEFINE at == [p \in {0} |-> 0]
<1>1. Trace(at, s, d, 0) /\ at[0] = 0 /\ DOMAIN at = {0}
  BY DEF Trace
<1> HIDE DEF at
<1> QED BY <1>1

(* encode emits a block that decodes to the bytes it has read. *)
LEMMA EmissionTraced ==
  ASSUME data \in Seq(Nat), encoded \in Seq(Nat), NEW block \in Seq(Nat), block # <<>>,
         Encodes(encoded, i), i \in Nat,
         LET t == encoded \o block
             last == Len(encoded)
         IN /\ BlockStop(t, last) = Len(t)
            /\ \A k \in 1..BlockSize(t, last) : data[i + k] = BlockByte(t, last, k)
            /\ i' = i + BlockSize(t, last)
  PROVE  Encodes(encoded \o block, i')
<1>. DEFINE t == encoded \o block
            last == Len(encoded)
<1>1. last \in Nat /\ t \in Seq(Nat) /\ last < Len(t) /\ \A k \in 1..last : t[k] = encoded[k]
  OBVIOUS
<1>2. PICK at : Trace(at, encoded, data, last) /\ at[last] = i
  BY DEF Encodes
<1> HIDE DEF t, last
<1>3. last <= Len(encoded)
  BY DEF last
<1>4. /\ BlockStop(t, last) = Len(t)
      /\ \A k \in 1..BlockSize(t, last) : data[at[last] + k] = BlockByte(t, last, k)
      /\ i' = at[last] + BlockSize(t, last)
  BY <1>2 DEF t, last
<1>a. GoesOn(at, encoded, data, t, data, last)
  BY <1>1, <1>3, <1>4 DEF GoesOn
<1>5. Grown(at, t, data, last)
  BY <1>1, <1>2, <1>a, TraceGrows
<1>6. \E go : Trace(go, t, data, Len(t)) /\ go[Len(t)] = i'
  BY <1>4, <1>5 DEF Grown
<1> QED BY <1>6 DEF Encodes, t

(* What a block of two adds to a sequence. *)
LEMMA TwoMore ==
  ASSUME NEW s \in Seq(Nat), NEW b \in Seq(Nat), Len(b) = 2
  PROVE  /\ s \o b \in Seq(Nat) /\ Len(s \o b) = Len(s) + 2 /\ Len(s) \in Nat
         /\ (s \o b)[Len(s) + 1] = b[1] /\ (s \o b)[Len(s) + 2] = b[2]
<1>. DEFINE t == s \o b
<1>1. /\ t \in Seq(Nat) /\ Len(t) = Len(s) + Len(b)
      /\ \A k \in 1..(Len(s) + Len(b)) : t[k] = IF k <= Len(s) THEN s[k] ELSE b[k - Len(s)]
  BY ConcatProperties
<1>2. Len(s) \in Nat
  OBVIOUS
<1> HIDE DEF t
<1>3. t[Len(s) + 1] = b[1] /\ t[Len(s) + 2] = b[2]
  <2>. DEFINE n == Len(s)
  <2>1. n \in Nat /\ \A k \in 1..(n + 2) : t[k] = IF k <= n THEN s[k] ELSE b[k - n]
    BY <1>1, <1>2
  <2> HIDE DEF n
  <2>2. /\ n + 1 \in 1..(n + 2) /\ ~(n + 1 <= n) /\ n + 1 - n = 1
        /\ n + 2 \in 1..(n + 2) /\ ~(n + 2 <= n) /\ n + 2 - n = 2
    BY <2>1
  <2>3. t[n + 1] = b[1] /\ t[n + 2] = b[2]
    BY <2>1, <2>2
  <2> QED BY <2>3 DEF n
<1> QED BY <1>1, <1>2, <1>3 DEF t

(* A repeat decodes to the run that encode has found. *)
LEMMA RepeatWritten == Written /\ EmitRepeat => Written'
<1> SUFFICES ASSUME Written, EmitRepeat PROVE Written'
  OBVIOUS
<1>. USE MaxRunAssumption
<1>. DEFINE n == RunLength(data, i)
            block == <<MaxRun + n - 1, data[i + 1]>>
            t == encoded \o block
            last == Len(encoded)
<1>1. /\ stage = "Encode" /\ data \in Seq(Nat) /\ encoded \in Seq(Nat) /\ expected \in Nat
      /\ i \in 0..Len(data) /\ i < Len(data)
      /\ encoded' = t /\ i' = i + n /\ Encodes(encoded, i)
      /\ UNCHANGED <<stage, origin, data, expected, decodeVars, streamVars>>
  BY DEF EmitRepeat, Written
<1>2. n \in 1..MaxRun /\ i + n <= Len(data) /\ \A k \in 1..n : data[i + k] = data[i + 1]
  <2>1. n \in 1..MaxRun /\ i + n <= Len(data) /\ IsRun(data, i, n)
    BY <1>1, RunLengthFacts
  <2> QED BY <2>1 DEF IsRun
<1> HIDE DEF n
<1>3. block \in Seq(Nat) /\ block # <<>> /\ Len(block) = 2 /\ data[i + 1] \in Nat
      /\ block[1] = MaxRun + n - 1 /\ block[2] = data[i + 1]
  <2> HIDE DEF t, block
  <2>1. data \in Seq(Nat) /\ i + 1 \in 1..Len(data) /\ n \in Nat /\ n >= 1
    BY <1>1, <1>2
  <2>2. data[i + 1] \in Nat /\ MaxRun + n - 1 \in Nat
    BY <2>1
  <2> QED BY <2>2 DEF block
<1>4. /\ t \in Seq(Nat) /\ Len(t) = last + 2 /\ last \in Nat
      /\ t[last + 1] = MaxRun + n - 1 /\ t[last + 2] = data[i + 1]
  <2> HIDE DEF block
  <2>1. encoded \in Seq(Nat) /\ block \in Seq(Nat) /\ Len(block) = 2
    BY <1>1, <1>3
  <2>2. /\ t \in Seq(Nat) /\ Len(t) = last + 2 /\ last \in Nat
        /\ t[last + 1] = block[1] /\ t[last + 2] = block[2]
    BY <2>1, TwoMore
  <2> QED BY <1>3, <2>2, Zenon
<1> HIDE DEF t, last, block
<1>5. ~Literal(t, last) /\ BlockSize(t, last) = n /\ BlockStop(t, last) = Len(t)
  <2>1. (MaxRun + n - 1) % MaxRun = n - 1
    BY <1>2, Headers
  <2>2. t[last + 1] % MaxRun = n - 1
    BY <1>4, <2>1
  <2>3. BlockSize(t, last) = n
    BY <1>2, <2>2 DEF BlockSize
  <2>4. ~Literal(t, last)
    BY <1>2, <1>4 DEF Literal
  <2> QED BY <1>4, <2>3, <2>4 DEF BlockStop
<1>6. \A k \in 1..BlockSize(t, last) : data[i + k] = BlockByte(t, last, k)
  BY <1>2, <1>4, <1>5 DEF BlockByte
<1>7. Encodes(t, i')
  BY <1>1, <1>3, <1>5, <1>6, EmissionTraced DEF t, last
<1>8. Encodes(encoded, i)'
  BY <1>1, <1>7 DEF Encodes
<1>9. i' \in 0..Len(data)
  BY <1>1, <1>2
<1> QED BY <1>1, <1>4, <1>8, <1>9 DEF Written, decodeVars, streamVars

(* Concatenation is associative. *)
LEMMA Regroup ==
  ASSUME NEW r \in Seq(Nat), NEW s \in Seq(Nat), NEW u \in Seq(Nat)
  PROVE  r \o s \o u = r \o (s \o u)
<1>1. /\ (r \o s) \o u \in Seq(Nat) /\ r \o (s \o u) \in Seq(Nat)
      /\ Len((r \o s) \o u) = Len(r \o (s \o u))
  OBVIOUS
<1>2. \A k \in 1..Len((r \o s) \o u) : ((r \o s) \o u)[k] = (r \o (s \o u))[k]
  OBVIOUS
<1> QED BY <1>1, <1>2, SeqEqual

(* A literal decodes to the bytes that encode has copied. *)
LEMMA LiteralWritten == Written /\ EmitLiteral => Written'
<1> SUFFICES ASSUME Written, EmitLiteral PROVE Written'
  OBVIOUS
<1>. USE MaxRunAssumption
<1>. DEFINE n == i' - i
            tail == SubSeq(data, i + 1, i')
            block == <<i' - i - 1>> \o tail
            t == encoded \o block
            last == Len(encoded)
<1>1. /\ stage = "Encode" /\ data \in Seq(Nat) /\ encoded \in Seq(Nat) /\ expected \in Nat
      /\ i \in 0..Len(data) /\ i < Len(data) /\ i' = LiteralEnd(data, i)
      /\ encoded' = encoded \o <<i' - i - 1>> \o SubSeq(data, i + 1, i') /\ Encodes(encoded, i)
      /\ UNCHANGED <<stage, origin, data, expected, decodeVars, streamVars>>
  BY DEF EmitLiteral, Written
<1>2. i' \in (i + 1)..Len(data) /\ i' <= i + MaxRun
  BY <1>1, LiteralEndFacts
<1>3. n \in 1..MaxRun /\ i' = i + n /\ i \in Nat /\ i' \in Nat /\ i' <= Len(data) /\ n - 1 \in Nat
      /\ i' - i - 1 = n - 1
  <2>1. i \in Nat /\ Len(data) \in Nat
    BY <1>1
  <2>2. i' \in Nat /\ i + 1 <= i' /\ i' <= Len(data)
    BY <1>2, <2>1
  <2>3. i' <= i + MaxRun
    BY <1>2
  <2>4. n \in 1..MaxRun /\ i' = i + n
    BY <2>1, <2>2, <2>3, Difference
  <2>5. i' - i - 1 = n - 1
    BY <2>1, <2>2
  <2> HIDE DEF n
  <2>. QED
    BY <2>1, <2>2, <2>4, <2>5
<1>4. tail \in Seq(Nat) /\ Len(tail) = n /\ \A k \in 1..n : tail[k] = data[i + k]
  <2>1. 1 <= i + 1 /\ i + 1 <= i' + 1 /\ i' <= Len(data) /\ i' - (i + 1) + 1 = n
    <3>1. i' - (i + 1) + 1 = n
      BY <1>3
    <3> HIDE DEF n
    <3> QED BY <1>3, <3>1
  <2>2. tail \in Seq(Nat) /\ Len(tail) = n
    <3> HIDE DEF n
    <3> QED BY <1>1, <1>3, <2>1
  <2>3. \A k \in 1..n : tail[k] = data[i + 1 + k - 1]
    <3> HIDE DEF n
    <3> QED BY <1>1, <1>3, <2>1, <2>2
  <2>4. \A k \in 1..n : i + 1 + k - 1 = i + k
    <3> HIDE DEF n
    <3> QED BY <1>3
  <2> QED BY <2>2, <2>3, <2>4
<1> HIDE DEF n, tail
<1>5. /\ block \in Seq(Nat) /\ block # <<>> /\ Len(block) = n + 1 /\ block[1] = n - 1
      /\ \A k \in 1..n : block[1 + k] = data[i + k]
  BY <1>3, <1>4
<1>6. encoded' = t
  <2>1. <<i' - i - 1>> \in Seq(Nat)
    BY <1>3
  <2>2. encoded \o <<i' - i - 1>> \o tail = encoded \o (<<i' - i - 1>> \o tail)
    <3> HIDE DEF t, last, block, n, tail
    <3> QED BY <1>1, <1>4, <2>1, Regroup
  <2> QED BY <1>1, <2>2 DEF tail
<1> HIDE DEF block
<1>7. /\ t \in Seq(Nat) /\ Len(t) = last + (n + 1) /\ last \in Nat
      /\ \A k \in 1..(n + 1) : t[last + k] = block[k]
  <2> HIDE DEF n
  <2>1. /\ t \in Seq(Nat) /\ Len(t) = last + Len(block) /\ last \in Nat
        /\ \A k \in 1..Len(block) : t[last + k] = block[k]
    BY SMTT(30), <1>1, <1>5
  <2> QED BY <1>5, <2>1
<1> HIDE DEF t, last
<1>8. t[last + 1] = n - 1 /\ \A k \in 1..n : t[last + 1 + k] = data[i + k]
  <2>1. 1 \in 1..(n + 1)
    BY <1>3
  <2>2. \A k \in 1..n : 1 + k \in 1..(n + 1) /\ last + (1 + k) = last + 1 + k
    BY <1>3, <1>7
  <2> QED BY <1>5, <1>7, <2>1, <2>2
<1>9. Literal(t, last) /\ BlockSize(t, last) = n /\ BlockStop(t, last) = Len(t)
  <2>1. Literal(t, last)
    BY <1>3, <1>8 DEF Literal
  <2>2. BlockSize(t, last) = n
    BY <1>3, <1>8, Headers DEF BlockSize
  <2> QED BY <1>3, <1>7, <2>1, <2>2 DEF BlockStop
<1>10. \A k \in 1..BlockSize(t, last) : data[i + k] = BlockByte(t, last, k)
  BY <1>8, <1>9 DEF BlockByte
<1>11. Encodes(t, i')
  BY <1>1, <1>3, <1>5, <1>9, <1>10, EmissionTraced DEF t, last
<1>12. Encodes(encoded, i)'
  BY <1>1, <1>6, <1>11 DEF Encodes
<1>13. i' \in 0..Len(data)
  BY <1>3
<1> QED BY <1>1, <1>6, <1>7, <1>12, <1>13 DEF Written, decodeVars, streamVars

----------------------------------------------------------------------------
(* The decoders. *)

(* What decode has done when it has read the first `last` bytes. *)
DecodeTrace(at, last) ==
  /\ Trace(at, encoded, out, last) /\ last <= Len(encoded) /\ at[last] = Len(out)
  /\ \A p \in DOMAIN at : p < last => p = 0 \/ at[p] < expected

Going(last) == last < Len(encoded) /\ (last = 0 \/ Len(out) < expected)

(* Why decode stopped there. *)
VerdictFits(last) ==
  \/ verdict = "UnexpectedEnd" /\ Going(last) /\ BlockStop(encoded, last) > Len(encoded)
  \/ ~Going(last) /\ verdict = (IF Len(out) = expected THEN "Ok" ELSE "OutputLengthMismatch")

(* decode_streaming follows the same trace and clips at expected_len. *)
SinkFits(at) ==
  /\ i \in DOMAIN at
  /\ Len(sink) = (IF at[i] < expected THEN at[i] ELSE expected)
  /\ \A k \in 1..Len(sink) : sink[k] = out[k]

StreamTraced ==
  \E last, at : last \in Nat /\ DecodeTrace(at, last) /\ VerdictFits(last) /\ SinkFits(at)

Agreement ==
  /\ \/ streamed = verdict
     \/ streamed = "Ok" /\ verdict = "OutputLengthMismatch" /\ Len(out) > expected
  /\ streamed = "Ok" => Len(sink) = expected

Decodes ==
  /\ stage \in {"Encode", "Stored", "Decode", "Stream", "End"}
  /\ out \in Seq(Nat) /\ sink \in Seq(Nat)
  /\ stage \in {"Decode", "Stream", "End"} /\ expected = 0 => encoded = <<>>
  /\ stage = "Decode" =>
       /\ verdict = "None" /\ streamed = "None" /\ sink = <<>>
       /\ i \in Nat /\ \E at : DecodeTrace(at, i)
  /\ stage \in {"Stream", "End"} => StreamTraced
  /\ stage = "Stream" => streamed = "None"
  /\ stage = "End" => streamed = "OutputSink" \/ Agreement

(* A reader never has more bytes before it than after it. *)
LEMMA TraceClimbs ==
  ASSUME NEW at, NEW s, NEW d, NEW last \in Nat, Trace(at, s, d, last), NEW p \in DOMAIN at
  PROVE  p \in 0..last /\ at[p] \in Nat /\ at[last] \in Nat /\ at[p] <= at[last]
<1>1. p \in 0..last /\ at[p] \in Nat /\ at[last] \in Nat
  BY DEF Trace
<1>2. CASE p = last
  BY <1>1, <1>2
<1>3. CASE p < last
  <2>1. at[p] < at[last]
    BY <1>3 DEF Trace
  <2> QED BY <1>1, <2>1
<1> QED BY <1>1, <1>2, <1>3

(* What concatenation and a prefix hold at an index. *)
LEMMA Appended ==
  ASSUME NEW r \in Seq(Nat), NEW s \in Seq(Nat)
  PROVE  /\ r \o s \in Seq(Nat) /\ Len(r \o s) = Len(r) + Len(s)
         /\ \A k \in 1..Len(r) : (r \o s)[k] = r[k]
         /\ \A k \in 1..Len(s) : (r \o s)[Len(r) + k] = s[k]
OBVIOUS

(* What a prefix of a sequence holds. *)
LEMMA Taken ==
  ASSUME NEW s \in Seq(Nat), NEW m \in 0..Len(s)
  PROVE  /\ SubSeq(s, 1, m) \in Seq(Nat) /\ Len(SubSeq(s, 1, m)) = m
         /\ \A k \in 1..m : SubSeq(s, 1, m)[k] = s[k]
OBVIOUS

(* The room left, when it is less than a block. *)
LEMMA Clipped ==
  ASSUME NEW a \in Nat, NEW e \in Nat, a < e, NEW n \in Nat, e - a < n
  PROVE  e - a \in 1..n /\ a + (e - a) = e /\ ~(a + n < e)
OBVIOUS

(* ... and when it is not. *)
LEMMA NotClipped ==
  ASSUME NEW a \in Nat, NEW e \in Nat, NEW n \in Nat, n >= 1, ~(e - a < n)
  PROVE  n \in 1..n /\ (a + n < e \/ a + n = e)
OBVIOUS

(* An index after the first `a` of `a + m`. *)
LEMMA Beyond ==
  ASSUME NEW a \in Nat, NEW m \in Nat, NEW k \in 1..(a + m), k > a
  PROVE  k - a \in 1..m /\ k = a + (k - a)
OBVIOUS

(* The bytes of a block that is there. *)
LEMMA BlockThere ==
  ASSUME encoded \in Seq(Nat), NEW p \in Nat, p < Len(encoded), BlockEnd(p) <= Len(encoded)
  PROVE  /\ BlockBytes(p) \in Seq(Nat) /\ Len(BlockBytes(p)) = BlockSize(encoded, p)
         /\ \A k \in 1..BlockSize(encoded, p) : BlockBytes(p)[k] = BlockByte(encoded, p, k)
<1>. DEFINE n == BlockSize(encoded, p)
<1>0. BlockEnd(p) = BlockStop(encoded, p) /\ BlockLen(p) = n
  BY DEF BlockEnd, BlockStop, BlockLen, BlockSize, IsLiteral, Literal
<1>1. n \in Nat /\ n >= 1 /\ Len(encoded) \in Nat
  BY BlockFacts, MaxRunAssumption
<1> HIDE DEF n
<1>2. CASE IsLiteral(p)
  <2>1. BlockEnd(p) = p + 1 + n /\ BlockBytes(p) = SubSeq(encoded, p + 2, p + 1 + n)
    BY <1>0, <1>2 DEF BlockEnd, BlockBytes
  <2>2. p + 1 + n <= Len(encoded) /\ p + 1 + n - (p + 2) + 1 = n
    BY <1>1, <2>1
  <2>3. SubSeq(encoded, p + 2, p + 1 + n) \in Seq(Nat) /\ Len(SubSeq(encoded, p + 2, p + 1 + n)) = n
    BY <1>1, <2>2
  <2>4. ASSUME NEW k \in 1..n
        PROVE  SubSeq(encoded, p + 2, p + 1 + n)[k] = encoded[p + 1 + k]
    <3>1. p + 2 + k - 1 = p + 1 + k
      BY <1>1
    <3>2. SubSeq(encoded, p + 2, p + 1 + n)[k] = encoded[p + 2 + k - 1]
      BY <1>1, <2>2, <2>3
    <3> QED BY <3>1, <3>2
  <2> QED BY <1>2, <2>1, <2>3, <2>4 DEF BlockByte, Literal, IsLiteral, n
<1>3. CASE ~IsLiteral(p)
  <2>1. BlockBytes(p) = [k \in 1..n |-> encoded[p + 2]] /\ BlockEnd(p) = p + 2
    BY <1>0, <1>3 DEF BlockBytes, BlockEnd
  <2>2. p + 2 \in 1..Len(encoded)
    BY <1>1, <2>1
  <2>3. encoded[p + 2] \in Nat
    BY <2>2
  <2> QED BY <1>1, <1>3, <2>1, <2>3 DEF BlockByte, Literal, IsLiteral, n
<1> QED BY <1>2, <1>3

(* decode goes on along its trace. *)
LEMMA DecodeBlockGoesOn ==
  ASSUME encoded \in Seq(Nat), out \in Seq(Nat), expected \in Nat, i \in Nat,
         NEW at, DecodeTrace(at, i), DecodeBlock
  PROVE  /\ out' \in Seq(Nat) /\ i' = BlockStop(encoded, i) /\ i' \in Nat
         /\ Len(out') = Len(out) + BlockSize(encoded, i)
         /\ \A k \in 1..Len(out) : out'[k] = out[k]
         /\ \A k \in 1..BlockSize(encoded, i) : out'[Len(out) + k] = BlockByte(encoded, i, k)
         /\ \E go : DecodeTrace(go, i)'
<1>1. /\ i < Len(encoded) /\ (i = 0 \/ Len(out) < expected) /\ BlockEnd(i) <= Len(encoded)
      /\ out' = out \o BlockBytes(i) /\ i' = BlockEnd(i)
      /\ UNCHANGED <<encoded, expected>>
  BY DEF DecodeBlock, MoreToDecode, encoderVars
<1>2. BlockEnd(i) = BlockStop(encoded, i)
  BY DEF BlockEnd, BlockStop, BlockLen, BlockSize, IsLiteral, Literal
<1>. DEFINE n == BlockSize(encoded, i)
<1>3. /\ BlockBytes(i) \in Seq(Nat) /\ Len(BlockBytes(i)) = n /\ n \in Nat
      /\ \A k \in 1..n : BlockBytes(i)[k] = BlockByte(encoded, i, k)
      /\ BlockStop(encoded, i) \in Nat
  BY <1>1, BlockThere, BlockFacts, MaxRunAssumption
<1> HIDE DEF n
<1>4. /\ out' \in Seq(Nat) /\ Len(out') = Len(out) + n
      /\ \A k \in 1..Len(out) : out'[k] = out[k]
      /\ \A k \in 1..n : out'[Len(out) + k] = BlockByte(encoded, i, k)
  <2>1. /\ out' \in Seq(Nat) /\ Len(out') = Len(out) + n
        /\ \A k \in 1..Len(out) : out'[k] = out[k]
    BY <1>1, <1>3, Appended
  <2>2. ASSUME NEW k \in 1..n PROVE out'[Len(out) + k] = BlockBytes(i)[k]
    BY <1>1, <1>3, Appended
  <2> QED BY <1>3, <2>1, <2>2
<1>5. at[i] = Len(out) /\ Trace(at, encoded, out, i) /\ i <= Len(encoded)
      /\ \A p \in DOMAIN at : p < i => p = 0 \/ at[p] < expected
  BY DEF DecodeTrace
<1>6. GoesOn(at, encoded, out, encoded, out', i)
  BY <1>1, <1>4, <1>5 DEF GoesOn, n
<1>7. Grown(at, encoded, out', i)
  BY <1>5, <1>6, TraceGrows
<1>8. PICK go : /\ Trace(go, encoded, out', BlockStop(encoded, i))
                /\ go[BlockStop(encoded, i)] = at[i] + n
                /\ DOMAIN go = DOMAIN at \cup {BlockStop(encoded, i)}
                /\ \A p \in DOMAIN at : go[p] = at[p]
  BY <1>7 DEF Grown, n
<1>9. ASSUME NEW p \in DOMAIN go, p < BlockStop(encoded, i) PROVE p = 0 \/ go[p] < expected
  <2>1. p \in DOMAIN at /\ go[p] = at[p]
    BY <1>3, <1>8, <1>9
  <2>2. p \in 0..i
    BY <1>5, <2>1 DEF Trace
  <2> QED BY <1>1, <1>5, <2>1, <2>2
<1>10. DecodeTrace(go, i)'
  BY <1>1, <1>2, <1>4, <1>5, <1>8, <1>9 DEF DecodeTrace
<1> QED BY <1>1, <1>2, <1>3, <1>4, <1>10 DEF n

(* decode_streaming goes on along the trace of decode. *)
LEMMA StreamBlockGoesOn ==
  ASSUME encoded \in Seq(Nat), out \in Seq(Nat), sink \in Seq(Nat), expected \in Nat,
         NEW last \in Nat, NEW at, DecodeTrace(at, last), VerdictFits(last), SinkFits(at),
         StreamBlock
  PROVE  sink' \in Seq(Nat) /\ SinkFits(at)'
<1>1. /\ i < Len(encoded) /\ Len(sink) < expected /\ BlockEnd(i) <= Len(encoded)
      /\ sink' = sink \o SubSeq(BlockBytes(i), 1, ToWrite(i)) /\ i' = BlockEnd(i)
      /\ UNCHANGED <<encoded, expected, out>>
  BY DEF StreamBlock, MoreToStream, encoderVars, decodeVars
<1>2. BlockEnd(i) = BlockStop(encoded, i) /\ BlockLen(i) = BlockSize(encoded, i)
  BY DEF BlockEnd, BlockStop, BlockLen, BlockSize, IsLiteral, Literal
<1>. DEFINE n == BlockSize(encoded, i)
            m == ToWrite(i)
<1>3. /\ i \in DOMAIN at /\ Len(sink) = (IF at[i] < expected THEN at[i] ELSE expected)
      /\ \A k \in 1..Len(sink) : sink[k] = out[k]
  BY DEF SinkFits
<1>4. i \in 0..last /\ at[i] \in Nat /\ at[last] \in Nat /\ at[i] <= at[last]
      /\ at[last] = Len(out)
  BY <1>3, TraceClimbs DEF DecodeTrace
<1>5. at[i] < expected /\ Len(sink) = at[i]
  BY <1>1, <1>3, <1>4
<1>6. i < last
  <2>1. CASE i = last
    <3>1. Going(last)
      BY <1>1, <1>4, <1>5, <2>1 DEF Going
    <3>2. BlockStop(encoded, last) > Len(encoded)
      BY <3>1 DEF VerdictFits
    <3>3. BlockStop(encoded, last) \in Nat /\ BlockStop(encoded, last) <= Len(encoded)
      BY <1>1, <1>2, <2>1, BlockFacts
    <3>4. Len(encoded) \in Nat
      OBVIOUS
    <3> QED BY <3>2, <3>3, <3>4
  <2> QED BY <1>4, <2>1
<1>7. /\ BlockStop(encoded, i) \in DOMAIN at /\ at[BlockStop(encoded, i)] = at[i] + n
      /\ \A k \in 1..n : out[at[i] + k] = BlockByte(encoded, i, k)
  BY <1>3, <1>6 DEF DecodeTrace, Trace
<1>8. /\ BlockBytes(i) \in Seq(Nat) /\ Len(BlockBytes(i)) = n /\ n \in Nat /\ n >= 1
      /\ \A k \in 1..n : BlockBytes(i)[k] = BlockByte(encoded, i, k)
  BY <1>1, <1>4, BlockThere, BlockFacts, MaxRunAssumption
<1>9. m = (IF expected - Len(sink) < n THEN expected - Len(sink) ELSE n)
  BY <1>2 DEF ToWrite
<1> HIDE DEF n, m
<1>10. m \in 1..n /\ at[i] + m = (IF at[i] + n < expected THEN at[i] + n ELSE expected)
  <2>1. m = IF expected - at[i] < n THEN expected - at[i] ELSE n
    BY <1>5, <1>9
  <2>2. at[i] \in Nat /\ expected \in Nat /\ at[i] < expected /\ n \in Nat /\ n >= 1
    BY <1>4, <1>5, <1>8
  <2>3. CASE expected - at[i] < n
    BY <2>1, <2>2, <2>3, Clipped
  <2>4. CASE ~(expected - at[i] < n)
    <3>1. m = n
      BY <2>1, <2>4
    <3>2. n \in 1..n /\ (at[i] + n < expected \/ at[i] + n = expected)
      BY <2>2, <2>4, NotClipped
    <3>3. at[i] + n = IF at[i] + n < expected THEN at[i] + n ELSE expected
      BY <3>2
    <3> QED BY <3>1, <3>2, <3>3
  <2> QED BY <2>3, <2>4
<1>11. /\ SubSeq(BlockBytes(i), 1, m) \in Seq(Nat) /\ Len(SubSeq(BlockBytes(i), 1, m)) = m
       /\ \A k \in 1..m : SubSeq(BlockBytes(i), 1, m)[k] = BlockBytes(i)[k]
  <2>1. m \in 0..Len(BlockBytes(i))
    BY <1>8, <1>10
  <2> QED BY <1>8, <2>1, Taken
<1>12. /\ sink' \in Seq(Nat) /\ Len(sink') = at[i] + m
       /\ \A k \in 1..Len(sink) : sink'[k] = sink[k]
       /\ \A k \in 1..m : sink'[at[i] + k] = BlockBytes(i)[k]
  <2>1. sink' = sink \o SubSeq(BlockBytes(i), 1, m)
    BY <1>1 DEF m
  <2>2. m \in Nat
    BY <1>8, <1>10
  <2>3. /\ sink' \in Seq(Nat) /\ Len(sink') = Len(sink) + m
        /\ \A k \in 1..Len(sink) : sink'[k] = sink[k]
    BY <1>11, <2>1, <2>2, Appended
  <2>4. ASSUME NEW k \in 1..m PROVE sink'[Len(sink) + k] = SubSeq(BlockBytes(i), 1, m)[k]
    BY <1>11, <2>1, <2>2, Appended
  <2> QED BY <1>5, <1>11, <2>3, <2>4
<1>13. \A k \in 1..Len(sink') : sink'[k] = out[k]
  <2> SUFFICES ASSUME NEW k \in 1..Len(sink') PROVE sink'[k] = out[k]
    OBVIOUS
  <2>0. m \in Nat /\ k \in Nat
    BY <1>8, <1>10, <1>12
  <2>1. CASE k <= at[i]
    <3>1. k \in 1..Len(sink)
      BY <1>4, <1>5, <1>12, <2>0, <2>1
    <3> QED BY <1>3, <1>12, <3>1
  <2>2. CASE k > at[i]
    <3>. DEFINE j == k - at[i]
    <3>1. j \in 1..m /\ j \in 1..n /\ k = at[i] + j
      <4>1. k \in 1..(at[i] + m)
        BY <1>12
      <4>2. j \in 1..m /\ k = at[i] + j
        BY <1>4, <2>0, <2>2, <4>1, Beyond
      <4> HIDE DEF j
      <4> QED BY <1>8, <1>10, <4>2
    <3> HIDE DEF j
    <3>2. sink'[k] = BlockBytes(i)[j]
      BY <1>12, <3>1
    <3>3. out[k] = BlockByte(encoded, i, j)
      BY <1>7, <3>1
    <3> QED BY <1>8, <3>1, <3>2, <3>3
  <2> QED BY <1>4, <2>0, <2>1, <2>2
<1>14. SinkFits(at)'
  BY <1>1, <1>2, <1>7, <1>10, <1>12, <1>13 DEF SinkFits
<1> QED BY <1>12, <1>14

Decoders == {"Decode", "Stream", "End"}

(* decode reads on the trace that encode left, as far as the stream goes. *)
Follows(full, at) ==
  /\ full \in Seq(Nat) /\ Trace(at, full, data, Len(full)) /\ at[Len(full)] = Len(data)
  /\ Len(encoded) <= Len(full) /\ \A k \in 1..Len(encoded) : encoded[k] = full[k]
  /\ (origin = "Encoded") <=> (Len(encoded) = Len(full))
  /\ i \in DOMAIN at /\ i <= Len(encoded)
  /\ at[i] = Len(out) /\ \A k \in 1..Len(out) : out[k] = data[k]

(* What a tile of this writer is decoded to. *)
Faithful ==
  stage \in Decoders /\ origin # "Foreign" =>
    /\ origin \in {"Encoded", "Cut"} /\ expected = Len(data)
    /\ stage = "Decode" => \E full, at : Follows(full, at)
    /\ stage # "Decode" =>
         IF origin = "Encoded" THEN verdict = "Ok" /\ out = data
         ELSE verdict # "Ok" /\ Len(out) <= Len(data)

CodecInv == Written /\ Decodes /\ Faithful

(* Nothing has been written, or a foreign stream not been read. *)
LEMMA InitCodec == Init => CodecInv
<1> SUFFICES ASSUME Init PROVE CodecInv
  OBVIOUS
<1>1. PICK at : Trace(at, encoded, data, 0) /\ at[0] = 0 /\ DOMAIN at = {0}
  BY NothingTraced
<1>2. PICK bt : Trace(bt, encoded, out, 0) /\ bt[0] = 0 /\ DOMAIN bt = {0}
  BY NothingTraced
<1>3. i = 0 /\ out = <<>> /\ sink = <<>> /\ verdict = "None" /\ streamed = "None"
  BY DEF Init, NothingDecoded
<1>4. CASE stage = "Encode"
  <2>1. /\ data \in Seq(Nat) /\ encoded = <<>> /\ origin = "Encoded" /\ expected = 0
    BY <1>4, InputsAssumption DEF Init
  <2>2. Encodes(encoded, i)
    BY <1>1, <1>3, <2>1 DEF Encodes
  <2>3. i \in 0..Len(data)
    BY <1>3, <2>1
  <2> QED BY <1>3, <1>4, <2>1, <2>2, <2>3 DEF CodecInv, Written, Decodes, Faithful, Decoders
<1>5. CASE stage = "Decode"
  <2>1. data = <<>> /\ encoded \in Seq(Nat) /\ origin = "Foreign" /\ expected \in Nat \ {0}
    BY <1>5, StreamsAssumption DEF Init
  <2>2. DecodeTrace(bt, i)
    BY <1>2, <1>3, <2>1 DEF DecodeTrace
  <2> QED BY <1>3, <1>5, <2>1, <2>2 DEF CodecInv, Written, Decodes, Faithful, Decoders
<1> QED BY <1>4, <1>5 DEF Init

(* The encoder is done; the bytes it read are the whole tile. *)
LEMMA EndWritten == CodecInv /\ EndOfData => CodecInv'
<1> SUFFICES ASSUME CodecInv, EndOfData PROVE CodecInv'
  OBVIOUS
<1>1. /\ stage = "Encode" /\ i = Len(data) /\ stage' = "Stored" /\ i' = 0
      /\ expected' = Len(data)
      /\ UNCHANGED <<encoded, data, origin, out, verdict, sink, streamed>>
  BY DEF EndOfData, encoderVars, decodeVars, streamVars
<1>2. /\ data \in Seq(Nat) /\ encoded \in Seq(Nat) /\ Encodes(encoded, Len(data))
      /\ origin = "Encoded" /\ out = <<>> /\ sink = <<>>
      /\ verdict = "None" /\ streamed = "None" /\ Len(data) \in Nat
  BY <1>1 DEF CodecInv, Written
<1>3. Encodes(encoded, Len(data))'
  BY <1>1, <1>2 DEF Encodes
<1>4. Written'
  BY <1>1, <1>2, <1>3 DEF Written
<1> QED BY <1>1, <1>2, <1>4 DEF CodecInv, Decodes, Faithful, Decoders

(* What is read back is the stream or its first bytes. *)
LEMMA ReadWritten == CodecInv /\ ReadBack => CodecInv'
<1> SUFFICES ASSUME CodecInv, ReadBack PROVE CodecInv'
  OBVIOUS
<1>1. PICK n \in 0..Len(encoded) :
        /\ encoded' = SubSeq(encoded, 1, n)
        /\ origin' = IF n < Len(encoded) THEN "Cut" ELSE origin
  BY DEF ReadBack
<1>2. /\ stage = "Stored" /\ stage' = "Decode"
      /\ UNCHANGED <<data, i, expected, out, verdict, sink, streamed>>
  BY DEF ReadBack, decodeVars, streamVars
<1>3. /\ data \in Seq(Nat) /\ encoded \in Seq(Nat) /\ expected = Len(data) /\ i = 0
      /\ origin = "Encoded" /\ out = <<>> /\ sink = <<>>
      /\ verdict = "None" /\ streamed = "None" /\ Encodes(encoded, Len(data))
      /\ Len(encoded) \in Nat /\ expected \in Nat
  BY <1>2 DEF CodecInv, Written
<1>4. PICK at : Trace(at, encoded, data, Len(encoded)) /\ at[Len(encoded)] = Len(data)
  BY <1>3 DEF Encodes
<1>5. /\ encoded' \in Seq(Nat) /\ Len(encoded') = n
      /\ \A k \in 1..n : encoded'[k] = encoded[k]
  BY <1>1, <1>3, Taken
<1>6. at[0] = 0 /\ 0 \in DOMAIN at
  BY <1>4 DEF Trace
<1>7. expected = 0 => encoded' = <<>>
  <2> SUFFICES ASSUME expected = 0 PROVE encoded' = <<>>
    OBVIOUS
  <2>1. ~(0 < Len(encoded))
    BY <1>3, <1>4, <1>6 DEF Trace
  <2>2. n = 0
    BY <1>3, <2>1
  <2> QED BY <1>5, <2>2
<1>a. PICK full : full = encoded
  OBVIOUS
<1>8. Follows(full, at)'
  BY <1>1, <1>2, <1>3, <1>4, <1>5, <1>6, <1>a DEF Follows
<1>9. Faithful'
  BY <1>1, <1>2, <1>3, <1>8 DEF Faithful, Decoders
<1>10. PICK bt : Trace(bt, encoded', out', 0) /\ bt[0] = 0 /\ DOMAIN bt = {0}
  BY NothingTraced
<1>11. DecodeTrace(bt, i)'
  BY <1>2, <1>3, <1>5, <1>10 DEF DecodeTrace
<1>12. Decodes'
  BY <1>2, <1>3, <1>7, <1>11 DEF Decodes
<1>13. Written'
  BY <1>2, <1>3, <1>5 DEF Written
<1> QED BY <1>9, <1>12, <1>13 DEF CodecInv

(* A block that decode reads whole. *)
LEMMA BlockDecoded == CodecInv /\ DecodeBlock => CodecInv'
<1> SUFFICES ASSUME CodecInv, DecodeBlock PROVE CodecInv'
  OBVIOUS
<1>1. /\ stage = "Decode" /\ i < Len(encoded) /\ BlockEnd(i) <= Len(encoded)
      /\ UNCHANGED <<stage, data, encoded, origin, expected, verdict, sink, streamed>>
  BY DEF DecodeBlock, MoreToDecode, encoderVars, streamVars
<1>2. /\ data \in Seq(Nat) /\ encoded \in Seq(Nat) /\ expected \in Nat /\ out \in Seq(Nat)
      /\ sink = <<>> /\ verdict = "None" /\ streamed = "None" /\ i \in Nat
      /\ expected = 0 => encoded = <<>>
  BY <1>1 DEF CodecInv, Written, Decodes
<1>3. PICK at : DecodeTrace(at, i)
  BY <1>1 DEF CodecInv, Decodes
<1>4. /\ out' \in Seq(Nat) /\ i' = BlockStop(encoded, i) /\ i' \in Nat
      /\ Len(out') = Len(out) + BlockSize(encoded, i)
      /\ \A k \in 1..Len(out) : out'[k] = out[k]
      /\ \A k \in 1..BlockSize(encoded, i) : out'[Len(out) + k] = BlockByte(encoded, i, k)
      /\ \E go : DecodeTrace(go, i)'
  BY <1>2, <1>3, DecodeBlockGoesOn
<1>5. Decodes'
  BY <1>1, <1>2, <1>4 DEF Decodes
<1>6. Written'
  BY <1>1, <1>2 DEF Written
<1>7. Faithful'
  <2> SUFFICES ASSUME origin # "Foreign" PROVE Faithful'
    BY <1>1 DEF Faithful
  <2>1. origin \in {"Encoded", "Cut"} /\ expected = Len(data)
    BY <1>1 DEF CodecInv, Faithful, Decoders
  <2>2. PICK full, bt : Follows(full, bt)
    BY <1>1 DEF CodecInv, Faithful, Decoders
  <2>3. /\ full \in Seq(Nat) /\ Trace(bt, full, data, Len(full)) /\ bt[Len(full)] = Len(data)
        /\ Len(encoded) <= Len(full) /\ \A k \in 1..Len(encoded) : encoded[k] = full[k]
        /\ (origin = "Encoded") <=> (Len(encoded) = Len(full))
        /\ i \in DOMAIN bt /\ i <= Len(encoded)
        /\ bt[i] = Len(out) /\ \A k \in 1..Len(out) : out[k] = data[k]
    BY <2>2 DEF Follows
  <2>4. Len(encoded) \in Nat /\ Len(full) \in Nat /\ Len(out) \in Nat
    BY <1>2, <2>3
  <2>5. BlockEnd(i) = BlockStop(encoded, i)
    BY DEF BlockEnd, BlockStop, BlockLen, BlockSize, IsLiteral, Literal
  <2>6. /\ BlockSize(full, i) = BlockSize(encoded, i) /\ BlockStop(full, i) = BlockStop(encoded, i)
        /\ \A k \in 1..BlockSize(encoded, i) : BlockByte(full, i, k) = BlockByte(encoded, i, k)
    <3>1. \A k \in 1..Len(encoded) : full[k] = encoded[k]
      BY <2>3
    <3>2. i < Len(encoded) /\ BlockStop(encoded, i) <= Len(encoded) /\ Len(encoded) <= Len(encoded)
      BY <1>1, <2>4, <2>5
    <3>3. encoded \in Seq(Nat) /\ full \in Seq(Nat) /\ Len(encoded) \in Nat /\ i \in Nat
      BY <1>2, <2>3, <2>4
    <3> QED BY ONLY <3>1, <3>2, <3>3, SameBlock, SMTT(30)
  <2>7. i < Len(full) /\ BlockSize(encoded, i) \in Nat
    BY SMTT(30), <1>1, <1>2, <2>3, <2>4, BlockFacts, MaxRunAssumption
  <2>8. /\ BlockStop(full, i) \in DOMAIN bt
        /\ bt[BlockStop(full, i)] = Len(out) + BlockSize(full, i)
        /\ \A k \in 1..BlockSize(full, i) : data[Len(out) + k] = BlockByte(full, i, k)
    BY <2>3, <2>7 DEF Trace
  <2>9. ASSUME NEW k \in 1..(Len(out) + BlockSize(encoded, i)) PROVE out'[k] = data[k]
    <3>1. CASE k <= Len(out)
      BY SMTT(30), <1>4, <2>3, <2>4, <2>7, <3>1
    <3>2. CASE k > Len(out)
      <4>1. k - Len(out) \in 1..BlockSize(encoded, i) /\ k = Len(out) + (k - Len(out))
        BY <2>4, <2>7, <3>2, Beyond
      <4> QED BY <1>4, <2>6, <2>8, <4>1
    <3> QED BY <2>4, <2>7, <3>1, <3>2
  <2>10. Follows(full, bt)'
    BY <1>1, <1>4, <2>3, <2>5, <2>6, <2>8, <2>9 DEF Follows
  <2> QED BY <1>1, <2>1, <2>10 DEF Faithful, Decoders
<1> QED BY <1>5, <1>6, <1>7 DEF CodecInv

(* What the two ends of decode share. *)
LEMMA DecodeEnds ==
  ASSUME CodecInv, stage = "Decode", stage' = "Stream", i' = 0,
         UNCHANGED <<data, encoded, origin, expected, out, sink, streamed>>,
         \/ verdict' = "UnexpectedEnd" /\ Going(i) /\ BlockStop(encoded, i) > Len(encoded)
         \/ ~Going(i) /\ verdict' = (IF Len(out) = expected THEN "Ok" ELSE "OutputLengthMismatch"),
         Faithful'
  PROVE  CodecInv'
<1>1. /\ data \in Seq(Nat) /\ encoded \in Seq(Nat) /\ expected \in Nat /\ out \in Seq(Nat)
      /\ sink = <<>> /\ verdict = "None" /\ streamed = "None" /\ i \in Nat
      /\ expected = 0 => encoded = <<>>
  BY DEF CodecInv, Written, Decodes
<1>2. PICK at : DecodeTrace(at, i)
  BY DEF CodecInv, Decodes
<1>3. PICK last : last = i
  OBVIOUS
<1>4. DecodeTrace(at, last)'
  BY <1>2, <1>3 DEF DecodeTrace
<1>5. VerdictFits(last)'
  BY <1>3 DEF VerdictFits, Going
<1>6. at[0] = 0 /\ 0 \in DOMAIN at
  BY <1>2 DEF DecodeTrace, Trace
<1>7. SinkFits(at)'
  BY <1>1, <1>6 DEF SinkFits
<1>8. StreamTraced'
  BY <1>1, <1>3, <1>4, <1>5, <1>7 DEF StreamTraced
<1>10. Decodes'
  BY <1>1, <1>8 DEF Decodes
<1>9. Written'
  BY <1>1 DEF Written
<1> QED BY <1>9, <1>10 DEF CodecInv

(* Where decode stands in a tile of this writer. *)
LEMMA WhereDecodeStands ==
  ASSUME CodecInv, stage = "Decode", origin # "Foreign"
  PROVE  /\ origin \in {"Encoded", "Cut"} /\ expected = Len(data) /\ Len(out) <= Len(data)
         /\ Len(out) \in Nat /\ Len(data) \in Nat /\ i <= Len(encoded)
         /\ \A k \in 1..Len(out) : out[k] = data[k]
         /\ Len(out) = Len(data) => origin = "Encoded" /\ i = Len(encoded)
         /\ origin = "Encoded" /\ i = Len(encoded) => Len(out) = Len(data)
         /\ origin = "Encoded" /\ i < Len(encoded) => BlockStop(encoded, i) <= Len(encoded)
<1>1. PICK full, bt : Follows(full, bt)
  BY DEF CodecInv, Faithful, Decoders
<1>2. /\ full \in Seq(Nat) /\ Trace(bt, full, data, Len(full)) /\ bt[Len(full)] = Len(data)
      /\ Len(encoded) <= Len(full) /\ \A k \in 1..Len(encoded) : encoded[k] = full[k]
      /\ (origin = "Encoded") <=> (Len(encoded) = Len(full))
      /\ i \in DOMAIN bt /\ i <= Len(encoded)
      /\ bt[i] = Len(out) /\ \A k \in 1..Len(out) : out[k] = data[k]
  BY <1>1 DEF Follows
<1>3. data \in Seq(Nat) /\ encoded \in Seq(Nat) /\ out \in Seq(Nat) /\ i \in Nat
  BY DEF CodecInv, Written, Decodes
<1>4. Len(encoded) \in Nat /\ Len(full) \in Nat /\ Len(out) \in Nat /\ Len(data) \in Nat
  BY <1>2, <1>3
<1>5. Len(out) <= Len(data)
  BY <1>2, <1>4, TraceClimbs
<1>6. i < Len(full) => Len(out) < Len(data)
  BY <1>2 DEF Trace
<1>7. origin \in {"Encoded", "Cut"} /\ expected = Len(data)
  BY DEF CodecInv, Faithful, Decoders
<1>8. ASSUME origin = "Encoded", i < Len(encoded) PROVE BlockStop(encoded, i) <= Len(encoded)
  <2>1. BlockStop(full, i) \in DOMAIN bt /\ i < Len(full)
    BY <1>2, <1>4, <1>8 DEF Trace
  <2>2. BlockStop(full, i) <= Len(full)
    BY <1>2, <1>4, <2>1 DEF Trace
  <2>3. BlockStop(encoded, i) = BlockStop(full, i)
    <3>1. \A k \in 1..Len(full) : encoded[k] = full[k]
      BY <1>2, <1>8
    <3>2. Len(full) <= Len(full)
      BY <1>4
    <3> QED BY ZenonT(30), <1>2, <1>3, <1>4, <2>1, <2>2, <3>1, <3>2, SameBlock
  <2> QED BY <1>2, <1>8, <2>2, <2>3
<1>9. Len(out) = Len(data) => i = Len(full)
  BY <1>2, <1>3, <1>4, <1>6
<1>10. Len(out) = Len(data) => origin = "Encoded" /\ i = Len(encoded)
  BY <1>2, <1>3, <1>4, <1>9
<1> QED BY <1>2, <1>4, <1>5, <1>7, <1>8, <1>10

(* A whole stream of this writer has no block cut off. *)
LEMMA CutOffDecoded == CodecInv /\ DecodeCutOff => CodecInv'
<1> SUFFICES ASSUME CodecInv, DecodeCutOff PROVE CodecInv'
  OBVIOUS
<1>1. /\ stage = "Decode" /\ stage' = "Stream" /\ i' = 0 /\ verdict' = "UnexpectedEnd"
      /\ i < Len(encoded) /\ (i = 0 \/ Len(out) < expected) /\ BlockEnd(i) > Len(encoded)
      /\ UNCHANGED <<data, encoded, origin, expected, out, sink, streamed>>
  BY DEF DecodeCutOff, MoreToDecode, Decoded, encoderVars, streamVars
<1>2. BlockEnd(i) = BlockStop(encoded, i)
  BY DEF BlockEnd, BlockStop, BlockLen, BlockSize, IsLiteral, Literal
<1>3. Going(i)
  BY <1>1 DEF Going
<1>4. Faithful'
  <2> SUFFICES ASSUME origin # "Foreign" PROVE Faithful'
    BY <1>1 DEF Faithful
  <2>1. origin \in {"Encoded", "Cut"} /\ expected = Len(data) /\ Len(out) <= Len(data)
        /\ (origin = "Encoded" => BlockStop(encoded, i) <= Len(encoded))
    BY <1>1, WhereDecodeStands
  <2>2. Len(encoded) \in Nat /\ BlockStop(encoded, i) \in Nat
    BY <1>1, BlockFacts DEF CodecInv, Written, Decodes
  <2>3. origin # "Encoded"
    BY <1>1, <1>2, <2>1, <2>2
  <2> QED BY <1>1, <2>1, <2>3 DEF Faithful, Decoders
<1> QED BY <1>1, <1>2, <1>3, <1>4, DecodeEnds

(* decode returns Ok for what encode wrote, and for no part of it. *)
LEMMA ReturnDecoded == CodecInv /\ DecodeReturns => CodecInv'
<1> SUFFICES ASSUME CodecInv, DecodeReturns PROVE CodecInv'
  OBVIOUS
<1>1. /\ stage = "Decode" /\ stage' = "Stream" /\ i' = 0
      /\ verdict' = (IF Len(out) = expected THEN "Ok" ELSE "OutputLengthMismatch")
      /\ ~Going(i)
      /\ UNCHANGED <<data, encoded, origin, expected, out, sink, streamed>>
  BY DEF DecodeReturns, MoreToDecode, Decoded, ExactLength, Going, encoderVars, streamVars
<1>2. /\ data \in Seq(Nat) /\ encoded \in Seq(Nat) /\ out \in Seq(Nat) /\ i \in Nat
      /\ Len(encoded) \in Nat /\ Len(out) \in Nat /\ Len(data) \in Nat
      /\ expected = 0 => encoded = <<>>
  BY <1>1 DEF CodecInv, Written, Decodes
<1>3. Faithful'
  <2> SUFFICES ASSUME origin # "Foreign" PROVE Faithful'
    BY <1>1 DEF Faithful
  <2>1. /\ origin \in {"Encoded", "Cut"} /\ expected = Len(data) /\ Len(out) <= Len(data)
        /\ i <= Len(encoded)
        /\ \A k \in 1..Len(out) : out[k] = data[k]
        /\ Len(out) = Len(data) => origin = "Encoded" /\ i = Len(encoded)
        /\ origin = "Encoded" /\ i = Len(encoded) => Len(out) = Len(data)
    BY <1>1, WhereDecodeStands
  <2>2. CASE origin = "Encoded"
    <3>1. i = Len(encoded) \/ (i # 0 /\ ~(Len(out) < expected))
      BY <1>1, <1>2, <2>1 DEF Going
    <3>2. Len(out) = Len(data)
      BY <1>2, <2>1, <2>2, <3>1
    <3>3. out = data
      BY <1>2, <2>1, <3>2, SeqEqual
    <3> QED BY <1>1, <2>1, <2>2, <3>2, <3>3 DEF Faithful, Decoders
  <2>3. CASE origin # "Encoded"
    <3>1. Len(out) # expected
      BY <2>1, <2>3
    <3> QED BY <1>1, <2>1, <2>3, <3>1 DEF Faithful, Decoders
  <2> QED BY <2>2, <2>3
<1> QED BY <1>1, <1>3, DecodeEnds

(* decode_streaming leaves everything but the sink alone. *)
LEMMA StreamKeeps ==
  ASSUME CodecInv, stage = "Stream", stage' \in {"Stream", "End"},
         UNCHANGED <<data, encoded, origin, expected, out, verdict>>, Decodes'
  PROVE  CodecInv'
<1>1. Written'
  BY DEF CodecInv, Written
<1>2. Faithful'
  BY DEF CodecInv, Faithful, Decoders
<1> QED BY <1>1, <1>2 DEF CodecInv

(* A block that decode_streaming passes on, clipped if need be. *)
LEMMA BlockStreamed == CodecInv /\ StreamBlock => CodecInv'
<1> SUFFICES ASSUME CodecInv, StreamBlock PROVE CodecInv'
  OBVIOUS
<1>1. /\ stage = "Stream"
      /\ UNCHANGED <<stage, data, encoded, origin, expected, out, verdict, streamed>>
  BY DEF StreamBlock, encoderVars, decodeVars
<1>2. /\ encoded \in Seq(Nat) /\ expected \in Nat /\ out \in Seq(Nat) /\ sink \in Seq(Nat)
      /\ streamed = "None" /\ (expected = 0 => encoded = <<>>)
  BY <1>1 DEF CodecInv, Written, Decodes
<1>3. PICK last, at : last \in Nat /\ DecodeTrace(at, last) /\ VerdictFits(last) /\ SinkFits(at)
  BY <1>1 DEF CodecInv, Decodes, StreamTraced
<1>4. sink' \in Seq(Nat) /\ SinkFits(at)'
  BY <1>2, <1>3, StreamBlockGoesOn
<1>5. DecodeTrace(at, last)' /\ VerdictFits(last)'
  BY <1>1, <1>3 DEF DecodeTrace, VerdictFits, Going
<1>a. StreamTraced'
  BY <1>3, <1>4, <1>5 DEF StreamTraced
<1>6. Decodes'
  BY <1>1, <1>2, <1>4, <1>a DEF Decodes
<1> QED BY <1>1, <1>6, StreamKeeps

(* What the ends of decode_streaming share. *)
LEMMA StreamEnds ==
  ASSUME CodecInv, stage = "Stream", stage' = "End",
         UNCHANGED <<data, encoded, i, origin, expected, out, verdict, sink>>,
         streamed' = "OutputSink" \/ Agreement'
  PROVE  CodecInv'
<1>1. /\ encoded \in Seq(Nat) /\ expected \in Nat /\ out \in Seq(Nat) /\ sink \in Seq(Nat)
      /\ (expected = 0 => encoded = <<>>)
  BY DEF CodecInv, Written, Decodes
<1>2. PICK last, at : last \in Nat /\ DecodeTrace(at, last) /\ VerdictFits(last) /\ SinkFits(at)
  BY DEF CodecInv, Decodes, StreamTraced
<1>3. DecodeTrace(at, last)' /\ VerdictFits(last)' /\ SinkFits(at)'
  BY <1>2 DEF DecodeTrace, VerdictFits, Going, SinkFits
<1>a. StreamTraced'
  BY <1>2, <1>3 DEF StreamTraced
<1>4. Decodes'
  BY <1>1, <1>a DEF Decodes
<1> QED BY <1>4, StreamKeeps

(* Where decode_streaming stands, compared with where decode stopped. *)
LEMMA WhereStreamStands ==
  ASSUME CodecInv, stage = "Stream"
  PROVE  \E last, at :
           /\ last \in Nat /\ DecodeTrace(at, last) /\ VerdictFits(last) /\ SinkFits(at)
           /\ i \in 0..last /\ last <= Len(encoded) /\ Len(encoded) \in Nat
           /\ at[i] \in Nat /\ Len(out) \in Nat /\ at[i] <= Len(out) /\ expected \in Nat
           /\ i < last => BlockStop(encoded, i) <= Len(encoded)
           /\ Len(sink) = (IF at[i] < expected THEN at[i] ELSE expected)
           /\ i = last => at[i] = Len(out)
           /\ last = 0 => Len(out) = 0
           /\ expected = 0 => Len(encoded) = 0
<1>1. PICK last, at : last \in Nat /\ DecodeTrace(at, last) /\ VerdictFits(last) /\ SinkFits(at)
  BY DEF CodecInv, Decodes, StreamTraced
<1>2. /\ encoded \in Seq(Nat) /\ expected \in Nat /\ out \in Seq(Nat)
      /\ expected = 0 => encoded = <<>>
  BY DEF CodecInv, Written, Decodes
<1>3. Len(encoded) \in Nat /\ Len(out) \in Nat
  BY <1>2
<1>4. Trace(at, encoded, out, last) /\ last <= Len(encoded) /\ at[last] = Len(out)
  BY <1>1 DEF DecodeTrace
<1>5. i \in DOMAIN at /\ Len(sink) = (IF at[i] < expected THEN at[i] ELSE expected)
  BY <1>1 DEF SinkFits
<1>6. i \in 0..last /\ at[i] \in Nat /\ at[i] <= Len(out)
  BY <1>1, <1>4, <1>5, TraceClimbs
<1>7. ASSUME i < last PROVE BlockStop(encoded, i) <= Len(encoded)
  <2>1. BlockStop(encoded, i) \in DOMAIN at
    BY <1>4, <1>5, <1>7 DEF Trace
  <2>2. BlockStop(encoded, i) \in 0..last
    BY <1>4, <2>1 DEF Trace
  <2> QED BY <1>1, <1>3, <1>4, <2>2
<1>8. last = 0 => Len(out) = 0
  BY <1>4 DEF Trace
<1>9. expected = 0 => Len(encoded) = 0
  BY <1>2
<1> QED BY <1>1, <1>2, <1>3, <1>4, <1>5, <1>6, <1>7, <1>8, <1>9

(* decode_streaming runs into the end of the stream where decode did. *)
LEMMA CutOffStreamed == CodecInv /\ StreamCutOff => CodecInv'
<1> SUFFICES ASSUME CodecInv, StreamCutOff PROVE CodecInv'
  OBVIOUS
<1>1. /\ stage = "Stream" /\ stage' = "End" /\ streamed' = "UnexpectedEnd"
      /\ i < Len(encoded) /\ Len(sink) < expected /\ BlockEnd(i) > Len(encoded)
      /\ UNCHANGED <<data, encoded, i, origin, expected, out, verdict, sink>>
  BY DEF StreamCutOff, MoreToStream, Streamed, encoderVars, decodeVars
<1>2. BlockEnd(i) = BlockStop(encoded, i)
  BY DEF BlockEnd, BlockStop, BlockLen, BlockSize, IsLiteral, Literal
<1>3. PICK last, at :
        /\ last \in Nat /\ DecodeTrace(at, last) /\ VerdictFits(last) /\ SinkFits(at)
        /\ i \in 0..last /\ last <= Len(encoded) /\ Len(encoded) \in Nat
        /\ at[i] \in Nat /\ Len(out) \in Nat /\ at[i] <= Len(out) /\ expected \in Nat
        /\ i < last => BlockStop(encoded, i) <= Len(encoded)
        /\ Len(sink) = (IF at[i] < expected THEN at[i] ELSE expected)
        /\ i = last => at[i] = Len(out)
        /\ last = 0 => Len(out) = 0
        /\ expected = 0 => Len(encoded) = 0
  BY <1>1, WhereStreamStands
<1>4. BlockStop(encoded, i) \in Nat
  BY <1>1, <1>3, BlockFacts DEF CodecInv, Written
<1>5. i = last
  BY <1>1, <1>2, <1>3, <1>4
<1>6. Len(out) < expected
  BY <1>1, <1>3, <1>5
<1>7. Going(last)
  BY <1>1, <1>5, <1>6 DEF Going
<1>8. verdict = "UnexpectedEnd"
  BY <1>3, <1>7 DEF VerdictFits
<1>9. Agreement'
  BY <1>1, <1>8 DEF Agreement
<1> QED BY <1>1, <1>9, StreamEnds

(* decode_streaming returns what decode did, unless it has clipped. *)
LEMMA ReturnStreamed == CodecInv /\ StreamReturns => CodecInv'
<1> SUFFICES ASSUME CodecInv, StreamReturns PROVE CodecInv'
  OBVIOUS
<1>1. /\ stage = "Stream" /\ stage' = "End"
      /\ streamed' = (IF Len(sink) = expected THEN "Ok" ELSE "OutputLengthMismatch")
      /\ ~(i < Len(encoded) /\ Len(sink) < expected)
      /\ UNCHANGED <<data, encoded, i, origin, expected, out, verdict, sink>>
  BY DEF StreamReturns, MoreToStream, Streamed, ExactLength, encoderVars, decodeVars
<1>3. PICK last, at :
        /\ last \in Nat /\ DecodeTrace(at, last) /\ VerdictFits(last) /\ SinkFits(at)
        /\ i \in 0..last /\ last <= Len(encoded) /\ Len(encoded) \in Nat
        /\ at[i] \in Nat /\ Len(out) \in Nat /\ at[i] <= Len(out) /\ expected \in Nat
        /\ i < last => BlockStop(encoded, i) <= Len(encoded)
        /\ Len(sink) = (IF at[i] < expected THEN at[i] ELSE expected)
        /\ i = last => at[i] = Len(out)
        /\ last = 0 => Len(out) = 0
        /\ expected = 0 => Len(encoded) = 0
  BY <1>1, WhereStreamStands
<1>4. ~Going(last) => verdict = (IF Len(out) = expected THEN "Ok" ELSE "OutputLengthMismatch")
  BY <1>3 DEF VerdictFits
<1>5. CASE Len(sink) = expected
  <2>1. Len(out) >= expected
    BY <1>3, <1>5
  <2>2. ~Going(last)
    <3>1. CASE expected = 0
      BY <1>3, <2>1, <3>1 DEF Going
    <3>2. CASE expected # 0
      BY <1>3, <2>1, <3>2 DEF Going
    <3> QED BY <3>1, <3>2
  <2> QED BY <1>1, <1>3, <1>4, <1>5, <2>1, <2>2, StreamEnds DEF Agreement
<1>6. CASE Len(sink) # expected
  <2>1. Len(sink) < expected /\ Len(sink) = at[i] /\ at[i] < expected
    BY <1>3, <1>6
  <2>2. i = last /\ last = Len(encoded)
    BY <1>1, <1>3, <2>1
  <2>3. ~Going(last)
    BY <2>2 DEF Going
  <2>4. verdict = "OutputLengthMismatch"
    BY <1>3, <1>4, <2>1, <2>2, <2>3
  <2> QED BY <1>1, <1>6, <2>4, StreamEnds DEF Agreement
<1> QED BY <1>5, <1>6

(* Every step of the three functions keeps the invariant. *)
LEMMA StepCodec == CodecInv /\ [Next]_codecVars => CodecInv'
<1> SUFFICES ASSUME CodecInv, [Next]_codecVars PROVE CodecInv'
  OBVIOUS
<1>1. CASE EmitRepeat
  <2>1. stage = "Encode" /\ stage' = "Encode" /\ out' = out /\ sink' = sink
    BY <1>1 DEF EmitRepeat, decodeVars, streamVars
  <2> QED BY <1>1, <2>1, RepeatWritten DEF CodecInv, Decodes, Faithful, Decoders
<1>2. CASE EmitLiteral
  <2>1. stage = "Encode" /\ stage' = "Encode" /\ out' = out /\ sink' = sink
    BY <1>2 DEF EmitLiteral, decodeVars, streamVars
  <2> QED BY <1>2, <2>1, LiteralWritten DEF CodecInv, Decodes, Faithful, Decoders
<1>3. CASE SinkFails
  <2>1. /\ stage = "Stream" /\ stage' = "End" /\ streamed' = "OutputSink"
        /\ UNCHANGED <<data, encoded, i, origin, expected, out, verdict, sink>>
    BY <1>3 DEF SinkFails, Streamed, encoderVars, decodeVars
  <2> QED BY <2>1, StreamEnds
<1>4. CASE UNCHANGED codecVars
  <2>1. UNCHANGED <<stage, data, encoded, i, origin, expected, out, verdict, sink, streamed>>
    BY <1>4 DEF codecVars, encoderVars, decodeVars, streamVars
  <2>2. Written'
    BY <2>1 DEF CodecInv, Written, Encodes
  <2>3. /\ \A at, n : DecodeTrace(at, n)' <=> DecodeTrace(at, n)
        /\ \A n : VerdictFits(n)' <=> VerdictFits(n)
        /\ \A at : SinkFits(at)' <=> SinkFits(at)
        /\ \A full, at : Follows(full, at)' <=> Follows(full, at)
    BY <2>1 DEF DecodeTrace, VerdictFits, Going, SinkFits, Follows
  <2>4. (\E at : DecodeTrace(at, i))' <=> \E at : DecodeTrace(at, i)
    BY <2>1 DEF DecodeTrace
  <2>5. (\E full, at : Follows(full, at))' <=> \E full, at : Follows(full, at)
    BY <2>3
  <2>6. StreamTraced' <=> StreamTraced
    BY <2>3 DEF StreamTraced
  <2>7. Decodes'
    BY <2>1, <2>4, <2>6 DEF CodecInv, Decodes, Agreement
  <2>8. Faithful'
    BY <2>1, <2>5 DEF CodecInv, Faithful
  <2> QED BY <2>2, <2>7, <2>8 DEF CodecInv
<1> QED
  BY <1>1, <1>2, <1>3, <1>4, EndWritten, ReadWritten, BlockDecoded, CutOffDecoded, ReturnDecoded,
     BlockStreamed, CutOffStreamed, ReturnStreamed DEF Next, Encoding, Decoding

(* What decode_streaming has passed on is what decode would. *)
LEMMA SinkIsPrefix == CodecInv => Len(sink) <= expected /\ SubSeq(out, 1, Len(sink)) = sink
<1> SUFFICES ASSUME CodecInv PROVE Len(sink) <= expected /\ SubSeq(out, 1, Len(sink)) = sink
  OBVIOUS
<1>1. /\ out \in Seq(Nat) /\ sink \in Seq(Nat) /\ expected \in Nat
      /\ Len(sink) \in Nat /\ Len(out) \in Nat
  BY DEF CodecInv, Written, Decodes
<1>2. /\ Len(sink) <= expected /\ Len(sink) <= Len(out)
      /\ \A k \in 1..Len(sink) : sink[k] = out[k]
  <2>1. CASE sink = <<>>
    BY <1>1, <2>1
  <2>2. CASE sink # <<>>
    <3>1. stage \in {"Stream", "End"}
      BY <2>2 DEF CodecInv, Written, Decodes
    <3>2. PICK last, at : last \in Nat /\ DecodeTrace(at, last) /\ SinkFits(at)
      BY <3>1 DEF CodecInv, Decodes, StreamTraced
    <3>3. /\ i \in DOMAIN at /\ Len(sink) = (IF at[i] < expected THEN at[i] ELSE expected)
          /\ \A k \in 1..Len(sink) : sink[k] = out[k]
      BY <3>2 DEF SinkFits
    <3>4. at[i] \in Nat /\ at[i] <= Len(out)
      BY <3>2, <3>3, TraceClimbs DEF DecodeTrace
    <3> QED BY <1>1, <3>2, <3>3, <3>4
  <2> QED BY <2>1, <2>2
<1>3. SubSeq(out, 1, Len(sink)) \in Seq(Nat) /\ Len(SubSeq(out, 1, Len(sink))) = Len(sink)
      /\ \A k \in 1..Len(sink) : SubSeq(out, 1, Len(sink))[k] = out[k]
  <2>1. Len(sink) \in 0..Len(out)
    BY <1>1, <1>2
  <2> QED BY <1>1, <2>1, Taken
<1>4. SubSeq(out, 1, Len(sink)) = sink
  BY <1>1, <1>2, <1>3, SeqEqual
<1> QED BY <1>2, <1>4

(* The trace of decode is the one decode_streaming has followed. *)
LEMMA CodecAgrees == CodecInv => DecodersAgree
BY SinkIsPrefix DEF CodecInv, Decodes, Agreement, DecodersAgree

(* The bytes of a whole stream are the tile; those of a part are fewer. *)
LEMMA CodecRoundTrips == CodecInv => RoundTrip
<1> SUFFICES ASSUME CodecInv PROVE RoundTrip
  OBVIOUS
<1>1. verdict # "None" => stage \in {"Stream", "End"}
  BY DEF CodecInv, Written, Decodes
<1>2. streamed # "None" => stage = "End"
  BY DEF CodecInv, Written, Decodes
<1>3. origin = "Cut" => stage \in Decoders
  BY DEF CodecInv, Written, Decodes, Decoders
<1>4. stage \in {"Stream", "End"} /\ origin = "Encoded" =>
        verdict = "Ok" /\ out = data /\ expected = Len(data)
  BY DEF CodecInv, Faithful, Decoders
<1>5. stage \in {"Stream", "End"} /\ origin = "Cut" => verdict # "Ok" /\ Len(out) <= expected
  BY DEF CodecInv, Faithful, Decoders
<1>6. stage = "End" => streamed = "OutputSink" \/ Agreement
  BY DEF CodecInv, Decodes
<1>7. /\ data \in Seq(Nat) /\ sink \in Seq(Nat) /\ out \in Seq(Nat)
      /\ expected \in Nat /\ Len(out) \in Nat
  BY DEF CodecInv, Written, Decodes
<1>8. ASSUME stage = "End", origin = "Encoded", streamed # "OutputSink"
      PROVE  streamed = "Ok" /\ sink = data
  <2>1. streamed = "Ok" /\ Len(sink) = Len(data)
    BY <1>4, <1>6, <1>8 DEF Agreement
  <2>2. SubSeq(data, 1, Len(data)) = sink
    BY <1>4, <1>8, <2>1, SinkIsPrefix
  <2>3. SubSeq(data, 1, Len(data)) = data
    BY <1>7
  <2> QED BY <2>1, <2>2, <2>3
<1>9. ASSUME origin = "Cut" PROVE verdict # "Ok" /\ streamed # "Ok"
  <2>1. verdict # "Ok"
    BY <1>1, <1>5, <1>9
  <2>2. ASSUME stage = "End" PROVE streamed # "Ok"
    <3>1. ~(Len(out) > expected)
      BY <1>5, <1>7, <1>9, <2>2
    <3> QED BY <1>6, <2>1, <2>2, <3>1 DEF Agreement
  <2> QED BY <1>2, <2>1, <2>2
<1>10. verdict # "None" /\ origin = "Encoded" => verdict = "Ok" /\ out = data
  BY <1>1, <1>4
<1> QED BY <1>8, <1>9, <1>10 DEF RoundTrip

----------------------------------------------------------------------------
(* The quantisers. *)

(* The two bits of a channel, by the interval it lies in. *)
LEMMA ChannelCases ==
  ASSUME NEW v \in Nat
  PROVE  /\ v <= 42 => ChannelTo2Bit(v) = 0
         /\ 42 < v /\ v <= 127 => ChannelTo2Bit(v) = 1
         /\ 127 < v /\ v <= 212 => ChannelTo2Bit(v) = 2
         /\ 212 < v => ChannelTo2Bit(v) = 3
<1>. DEFINE T == {t \in {42, 127, 212} : v > t}
<1>0. ChannelTo2Bit(v) = Cardinality(T)
  BY DEF ChannelTo2Bit
<1>a. IsFiniteSet({}) /\ Cardinality({}) = 0
  BY FS_EmptySet
<1>b. IsFiniteSet({42}) /\ Cardinality({42}) = 1
  BY FS_Singleton
<1>c. IsFiniteSet({42, 127}) /\ Cardinality({42, 127}) = 2
  <2>1. {42, 127} = {42} \cup {127} /\ 127 \notin {42}
    OBVIOUS
  <2> QED BY <1>b, <2>1, FS_AddElement
<1>d. Cardinality({42, 127, 212}) = 3
  <2>1. {42, 127, 212} = {42, 127} \cup {212} /\ 212 \notin {42, 127}
    OBVIOUS
  <2> QED BY <1>c, <2>1, FS_AddElement
<1>1. v <= 42 => T = {}
  OBVIOUS
<1>2. 42 < v /\ v <= 127 => T = {42}
  OBVIOUS
<1>3. 127 < v /\ v <= 212 => T = {42, 127}
  OBVIOUS
<1>4. 212 < v => T = {42, 127, 212}
  OBVIOUS
<1> HIDE DEF T
<1> QED BY <1>0, <1>a, <1>b, <1>c, <1>d, <1>1, <1>2, <1>3, <1>4

(* A colour has three channels, and each gets two bits. *)
LEMMA ChannelType ==
  ASSUME NEW v \in Nat PROVE ChannelTo2Bit(v) \in 0..3
BY ChannelCases

(* The level the two bits show is the nearest one. *)
LEMMA ChannelNearest ==
  ASSUME NEW v \in Nat
  PROVE  NearestLevel(v, 85 * ChannelTo2Bit(v))
<1>1. CASE v <= 42
  BY <1>1, ChannelCases DEF NearestLevel, Levels, Near
<1>2. CASE 42 < v /\ v <= 127
  BY <1>2, ChannelCases DEF NearestLevel, Levels, Near
<1>3. CASE 127 < v /\ v <= 212
  BY <1>3, ChannelCases DEF NearestLevel, Levels, Near
<1>4. CASE 212 < v
  BY <1>4, ChannelCases DEF NearestLevel, Levels, Near
<1> QED BY <1>1, <1>2, <1>3, <1>4

(* Quantising a shown level gives its two bits back. *)
LEMMA ChannelAgain ==
  ASSUME NEW b \in 0..3 PROVE ChannelTo2Bit(85 * b) = b
<1>1. 85 * b \in Nat
  OBVIOUS
<1>2. /\ ChannelTo2Bit(0) = 0 /\ ChannelTo2Bit(85) = 1
      /\ ChannelTo2Bit(170) = 2 /\ ChannelTo2Bit(255) = 3
  BY ChannelCases
<1>3. \/ b = 0 /\ 85 * b = 0
      \/ b = 1 /\ 85 * b = 85
      \/ b = 2 /\ 85 * b = 170
      \/ b = 3 /\ 85 * b = 255
  OBVIOUS
<1> QED BY <1>2, <1>3

(* The fields of an ABGR2222 byte can be read back from it. *)
LEMMA FieldsOfCode ==
  ASSUME NEW r \in 0..3, NEW g \in 0..3, NEW b \in 0..3
  PROVE  LET code == 192 + 16 * b + 4 * g + r
         IN code \in Nat /\ code % 4 = r /\ (code \div 4) % 4 = g /\ (code \div 16) % 4 = b
OBVIOUS

(* quantise_pixel shows every channel at its nearest level. *)
LEMMA PixelNearest ==
  ASSUME NEW c \in Colour PROVE NearestShown(c, QuantisePixel(c)) /\ QuantisePixel(c) \in Nat
<1>. DEFINE r == ChannelTo2Bit(c[1])
            g == ChannelTo2Bit(c[2])
            b == ChannelTo2Bit(c[3])
            code == QuantisePixel(c)
<1>1. c[1] \in Nat /\ c[2] \in Nat /\ c[3] \in Nat
  BY DEF Colour
<1>2. r \in 0..3 /\ g \in 0..3 /\ b \in 0..3
  BY <1>1, ChannelType
<1>3. code = 192 + 16 * b + 4 * g + r
  BY DEF QuantisePixel
<1>4. /\ NearestLevel(c[1], 85 * r) /\ NearestLevel(c[2], 85 * g) /\ NearestLevel(c[3], 85 * b)
  BY <1>1, ChannelNearest
<1>5. ChannelTo2Bit(85 * r) = r /\ ChannelTo2Bit(85 * g) = g /\ ChannelTo2Bit(85 * b) = b
  BY <1>2, ChannelAgain
<1> HIDE DEF r, g, b, code
<1>6. code \in Nat /\ code % 4 = r /\ (code \div 4) % 4 = g /\ (code \div 16) % 4 = b
  BY <1>2, <1>3, FieldsOfCode
<1>7. Shown(code) = <<85 * r, 85 * g, 85 * b>>
  BY <1>6 DEF Shown
<1>8. Shown(code)[1] = 85 * r /\ Shown(code)[2] = 85 * g /\ Shown(code)[3] = 85 * b
  BY <1>7
<1>9. QuantisePixel(Shown(code)) = code
  BY <1>3, <1>5, <1>8 DEF QuantisePixel
<1>10. \A ch \in 1..3 : NearestLevel(c[ch], Shown(code)[ch])
  <2>1. \A ch \in 1..3 : ch = 1 \/ ch = 2 \/ ch = 3
    OBVIOUS
  <2> QED BY <1>4, <1>8, <2>1
<1> QED BY <1>6, <1>9, <1>10 DEF NearestShown, code

(* The one pass of snap_pixel keeps the first of the nearest slots so far. *)
First(d, m, b) == b \in 1..m /\ \A j \in 1..m : d[b] <= d[j] /\ (j < b => d[b] < d[j])

(* Some slot is the first of the nearest. *)
LEMMA FirstExists ==
  ASSUME NEW m \in Nat \ {0}, NEW d, \A j \in 1..m : d[j] \in Nat PROVE \E b : First(d, m, b)
<1>. DEFINE V == {d[j] : j \in 1..m}
<1>1. V \subseteq Nat /\ V # {}
  <2>1. 1 \in 1..m
    OBVIOUS
  <2> QED BY <2>1
<1>2. PICK v \in V : \A w \in V : v <= w
  <2> HIDE DEF V
  <2> QED BY <1>1, Least
<1>. DEFINE B == {j \in 1..m : d[j] = v}
<1>3. B \subseteq Nat /\ B # {}
  BY <1>2
<1>4. PICK b \in B : \A j \in B : b <= j
  <2> HIDE DEF B
  <2> QED BY <1>3, Least
<1>5. b \in 1..m /\ d[b] = v
  BY <1>4
<1>6. ASSUME NEW j \in 1..m PROVE d[b] <= d[j] /\ (j < b => d[b] < d[j])
  <2>1. v <= d[j] /\ d[j] \in Nat /\ v \in Nat
    BY <1>2, <1>1
  <2>2. ASSUME j < b PROVE d[j] # v
    <3>1. ~(b <= j)
      BY <1>5, <2>2
    <3> QED BY <1>4, <3>1
  <2> QED BY <1>5, <2>1, <2>2
<1> QED BY <1>5, <1>6 DEF First

(* There is one first nearest slot. *)
LEMMA FirstUnique ==
  ASSUME NEW m \in Nat, NEW d, \A j \in 1..m : d[j] \in Nat, NEW a, NEW b,
         First(d, m, a), First(d, m, b)
  PROVE  a = b
<1>1. a \in 1..m /\ b \in 1..m /\ d[a] \in Nat /\ d[b] \in Nat /\ d[a] <= d[b] /\ d[b] <= d[a]
  BY DEF First
<1>2. (a < b => d[b] < d[a]) /\ (b < a => d[a] < d[b])
  BY <1>1 DEF First
<1> QED BY <1>1, <1>2

(* One more slot: it is the best so far only if it is strictly nearer. *)
LEMMA FirstNext ==
  ASSUME NEW m \in Nat \ {0}, NEW d, \A j \in 1..m : d[j] \in Nat, NEW p,
         m > 1, First(d, m - 1, p)
  PROVE  First(d, m, IF d[m] < d[p] THEN m ELSE p)
<1>1. p \in 1..(m - 1) /\ \A j \in 1..(m - 1) : d[p] <= d[j] /\ (j < p => d[p] < d[j])
  BY DEF First
<1>2. p \in 1..m /\ m \in 1..m /\ d[m] \in Nat /\ d[p] \in Nat
  BY <1>1
<1>3. CASE d[m] < d[p]
  <2>1. ASSUME NEW j \in 1..m PROVE d[m] <= d[j] /\ (j < m => d[m] < d[j])
    <3>1. CASE j = m
      BY <1>2, <3>1
    <3>2. CASE j # m
      <4>1. j \in 1..(m - 1) /\ d[j] \in Nat
        BY <3>2
      <4>2. d[p] <= d[j]
        BY <1>1, <4>1
      <4> QED BY <1>2, <1>3, <4>1, <4>2
    <3> QED BY <3>1, <3>2
  <2> QED BY <1>2, <1>3, <2>1 DEF First
<1>4. CASE ~(d[m] < d[p])
  <2>1. ASSUME NEW j \in 1..m PROVE d[p] <= d[j] /\ (j < p => d[p] < d[j])
    <3>1. CASE j = m
      BY <1>1, <1>2, <1>4, <3>1
    <3>2. CASE j # m
      BY <1>1, <3>2
    <3> QED BY <3>1, <3>2
  <2> QED BY <1>2, <1>4, <2>1 DEF First
<1> QED BY <1>3, <1>4

(* Squares are not negative. *)
LEMMA SquareType == ASSUME NEW a \in Int, NEW b \in Int PROVE Sq(a, b) \in Nat
<1>. DEFINE s == a - b
<1>1. s \in Int
  OBVIOUS
<1>2. Sq(a, b) = s * s
  BY DEF Sq
<1> HIDE DEF s
<1>3. s * s \in Int /\ s * s >= 0
  BY <1>1
<1> QED BY <1>2, <1>3

(* A distance between colours is a natural number. *)
LEMMA DistanceType ==
  ASSUME NEW c \in Colour, NEW e \in Colour PROVE Distance(c, e) \in Nat
<1>1. c[1] \in Int /\ c[2] \in Int /\ c[3] \in Int /\ e[1] \in Int /\ e[2] \in Int /\ e[3] \in Int
  BY DEF Colour
<1>2. Sq(c[1], e[1]) \in Nat /\ Sq(c[2], e[2]) \in Nat /\ Sq(c[3], e[3]) \in Nat
  BY <1>1, SquareType
<1> QED BY <1>2 DEF Distance

(* snap_pixel returns the code of the first of the nearest slots. *)
LEMMA SnapNearest ==
  ASSUME NEW slots \in Seq([rgb : Colour, code : 0..255]), slots # <<>>, NEW c \in Colour
  PROVE  NearestSlot(slots, c, SnapPixel(slots, c)) /\ SnapPixel(slots, c) \in 0..255
<1>0. /\ Len(slots) \in Nat \ {0}
      /\ \A k \in 1..Len(slots) : slots[k].rgb \in Colour /\ slots[k].code \in 0..255
  <2>1. Len(slots) \in Nat /\ Len(slots) # 0
    BY EmptySeq
  <2>2. \A k \in 1..Len(slots) : slots[k] \in [rgb : Colour, code : 0..255]
    BY ElementOfSeq
  <2> QED BY <2>1, <2>2
<1>. DEFINE n == Len(slots)
            d == [k \in 1..n |-> Distance(slots[k].rgb, c)]
            best[k \in 1..n] ==
              IF k = 1 \/ Distance(slots[k].rgb, c) < Distance(slots[best[k - 1]].rgb, c)
                THEN k ELSE best[k - 1]
            W(k) == CHOOSE b : First(d, k, b)
            g == [k \in 1..n |-> W(k)]
<1>1. SnapPixel(slots, c) = slots[best[n]].code
  BY DEF SnapPixel
<1>2. n \in Nat \ {0} /\ \A k \in 1..n : slots[k].rgb \in Colour /\ slots[k].code \in 0..255
  BY <1>0
<1>3. \A k \in 1..n : d[k] = Distance(slots[k].rgb, c) /\ d[k] \in Nat
  BY <1>2, DistanceType
<1>4. ASSUME NEW k \in 1..n PROVE First(d, k, g[k])
  <2>1. k \in Nat \ {0} /\ \A j \in 1..k : d[j] \in Nat
    BY <1>2, <1>3
  <2>2. \E b : First(d, k, b)
    <3> HIDE DEF d
    <3> QED BY <2>1, FirstExists
  <2> HIDE DEF d
  <2> QED BY <2>2
<1>5. g = [k \in 1..n |-> IF k = 1 \/ Distance(slots[k].rgb, c) < Distance(slots[g[k - 1]].rgb, c)
                            THEN k ELSE g[k - 1]]
  <2>1. ASSUME NEW k \in 1..n
        PROVE  g[k] = IF k = 1 \/ Distance(slots[k].rgb, c) < Distance(slots[g[k - 1]].rgb, c)
                        THEN k ELSE g[k - 1]
    <3>1. First(d, k, g[k]) /\ k \in Nat \ {0} /\ \A j \in 1..k : d[j] \in Nat
      <4> HIDE DEF d, g, n
      <4> QED BY <1>2, <1>3, <1>4
    <3>2. CASE k = 1
      <4> HIDE DEF d, g
      <4>1. g[k] = 1
        BY <3>1, <3>2 DEF First
      <4> QED BY <3>2, <4>1
    <3>3. CASE k # 1
      <4>1. k - 1 \in 1..n /\ k - 1 \in Nat /\ k > 1
        BY <1>2, <3>3
      <4>2. First(d, k - 1, g[k - 1])
        BY <1>4, <4>1
      <4> HIDE DEF d, g, best
      <4>3. First(d, k, IF d[k] < d[g[k - 1]] THEN k ELSE g[k - 1])
        BY <3>1, <4>1, <4>2, FirstNext
      <4>4. g[k] = IF d[k] < d[g[k - 1]] THEN k ELSE g[k - 1]
        BY <3>1, <4>3, FirstUnique
      <4>5. g[k - 1] \in 1..n
        BY <1>2, <4>1, <4>2 DEF First
      <4> QED BY <1>3, <3>3, <4>4, <4>5
    <3> QED BY <3>2, <3>3
  <2>2. g = [k \in 1..n |-> g[k]]
    <3> HIDE DEF W, n, d
    <3> QED OBVIOUS
  <2> HIDE DEF d, n, g, best
  <2> QED BY <2>1, <2>2
<1>6. best = [k \in 1..n |->
                IF k = 1 \/ Distance(slots[k].rgb, c) < Distance(slots[best[k - 1]].rgb, c)
                  THEN k ELSE best[k - 1]]
  <2> HIDE DEF d, n, g
  <2> QED BY <1>5
<1> HIDE DEF best, d, g
<1>7. ASSUME NEW k \in 1..n
      PROVE best[k] = IF k = 1 \/ Distance(slots[k].rgb, c) < Distance(slots[best[k - 1]].rgb, c)
                        THEN k ELSE best[k - 1]
  BY <1>6
<1>8. \A k \in 1..n : First(d, k, best[k])
  <2> SUFFICES ASSUME NEW w \in 1..n, ~First(d, w, best[w]) PROVE FALSE
    OBVIOUS
  <2>. DEFINE F == {k \in 1..n : ~First(d, k, best[k])}
  <2>1. F \subseteq Nat /\ F # {}
    BY <1>2
  <2>2. PICK k \in F : \A j \in F : k <= j
    <3> HIDE DEF F
    <3> QED BY <2>1, Least
  <2>3. k \in 1..n /\ k \in Nat \ {0} /\ ~First(d, k, best[k]) /\ \A j \in 1..k : d[j] \in Nat
    BY <1>2, <1>3, <2>2
  <2>4. CASE k = 1
    <3>1. best[k] = 1
      BY <1>7, <2>3, <2>4
    <3>2. First(d, 1, 1)
      BY <2>3, <2>4 DEF First
    <3> QED BY <2>3, <2>4, <3>1, <3>2
  <2>5. CASE k # 1
    <3>1. k - 1 \in 1..n /\ k - 1 \in Nat /\ k > 1 /\ ~(k <= k - 1)
      BY <1>2, <2>3, <2>5
    <3>2. First(d, k - 1, best[k - 1])
      BY <2>2, <3>1
    <3>3. First(d, k, IF d[k] < d[best[k - 1]] THEN k ELSE best[k - 1])
      BY <2>3, <3>1, <3>2, FirstNext
    <3>4. best[k - 1] \in 1..n
      BY <1>2, <3>1, <3>2 DEF First
    <3>5. best[k] = IF d[k] < d[best[k - 1]] THEN k ELSE best[k - 1]
      BY <1>3, <1>7, <2>3, <2>5, <3>4
    <3> QED BY <2>3, <3>3, <3>5
  <2> QED BY <2>4, <2>5
<1>9. First(d, n, best[n])
  BY <1>2, <1>8
<1>10. best[n] \in 1..n /\ \A j \in 1..n : d[best[n]] <= d[j] /\ (j < best[n] => d[best[n]] < d[j])
  BY <1>9 DEF First
<1>11. NearestSlot(slots, c, SnapPixel(slots, c))
  BY <1>1, <1>3, <1>10 DEF NearestSlot
<1>12. SnapPixel(slots, c) \in 0..255
  <2> HIDE DEF n
  <2> QED BY SMTT(30), <1>1, <1>2, <1>10
<1> QED BY <1>11, <1>12

(* A palette that is accepted has a slot. *)
LEMMA PaletteHasSlots ==
  ASSUME NEW q, q.format = "Palette", PaletteVerdict(q) = "Ok" PROVE q.slots # <<>>
<1> SUFFICES ASSUME q.slots = <<>> PROVE FALSE
  OBVIOUS
<1>1. q.slots = <<>> /\ q.format = "Palette"
  OBVIOUS
<1>2. PaletteVerdict(q) # "Ok"
  BY <1>1, Zenon DEF PaletteVerdict
<1> QED BY <1>2

(* The bytes of a pixel. *)
LEMMA PixelType ==
  ASSUME NEW q \in Quantisers, PaletteVerdict(q) = "Ok", NEW c \in Colour
  PROVE  /\ BytesPerPixel(q) \in {1, 2}
         /\ \A m \in 1..BytesPerPixel(q) : PixelBytes(q, c)[m] \in Nat
         /\ q.format = "Abgr2222" => BytesPerPixel(q) = 1 /\ PixelBytes(q, c)[1] = QuantisePixel(c)
         /\ q.format = "Palette" =>
              BytesPerPixel(q) = 1 /\ PixelBytes(q, c)[1] = SnapPixel(q.slots, c)
<1>1. BytesPerPixel(q) = IF q.format = "Rgb565" THEN 2 ELSE 1
  BY DEF BytesPerPixel
<1>2. CASE q.format = "Abgr2222"
  <2>1. PixelBytes(q, c) = <<QuantisePixel(c)>>
    BY <1>2 DEF PixelBytes
  <2> QED BY <1>1, <1>2, <2>1, PixelNearest
<1>3. CASE q.format = "Palette"
  <2>1. PixelBytes(q, c) = <<SnapPixel(q.slots, c)>>
    BY <1>3 DEF PixelBytes
  <2>2. SnapPixel(q.slots, c) \in Nat
    <3>1. q.slots \in Seq([rgb : Colour, code : 0..255]) /\ q.slots # <<>>
      BY <1>3, QuantisersAssumption, PaletteHasSlots
    <3>2. SnapPixel(q.slots, c) \in 0..255
      BY <3>1, SnapNearest
    <3> QED BY <3>2
  <2> QED BY <1>1, <1>3, <2>1, <2>2
<1>4. CASE q.format = "Rgb565"
  <2>1. PixelBytes(q, c) = <<QuantisePixelRgb565(c) % 256, QuantisePixelRgb565(c) \div 256>>
    BY <1>4 DEF PixelBytes
  <2>2. QuantisePixelRgb565(c) \in Nat
    <3>1. c[1] \in Nat /\ c[2] \in Nat /\ c[3] \in Nat
      BY DEF Colour
    <3> QED BY <3>1 DEF QuantisePixelRgb565
  <2>3. QuantisePixelRgb565(c) % 256 \in Nat /\ QuantisePixelRgb565(c) \div 256 \in Nat
    BY <2>2
  <2> QED BY <1>1, <1>4, <2>1, <2>3
<1> QED BY <1>2, <1>3, <1>4, QuantisersAssumption

(* The pixel that a byte of the buffer belongs to. *)
LEMMA PixelOf ==
  ASSUME NEW n \in Nat, NEW bpp \in {1, 2}, NEW k \in 1..(n * bpp)
  PROVE  /\ ((k - 1) \div bpp) + 1 \in 1..n /\ ((k - 1) % bpp) + 1 \in 1..bpp
         /\ bpp = 1 => ((k - 1) \div bpp) + 1 = k /\ ((k - 1) % bpp) + 1 = 1
<1>1. CASE bpp = 1
  <2>1. k \in 1..n /\ (k - 1) \div 1 = k - 1 /\ (k - 1) % 1 = 0
    BY <1>1
  <2> QED BY <1>1, <2>1
<1>2. CASE bpp = 2
  <2>1. k \in 1..(n * 2) /\ k - 1 \in Nat
    BY <1>2
  <2>2. (k - 1) \div 2 \in 0..(n - 1) /\ (k - 1) % 2 \in 0..1
    BY <2>1
  <2> QED BY <1>2, <2>2
<1> QED BY <1>1, <1>2

(* The buffer has a code for every pixel. *)
LEMMA QuantiseFits ==
  ASSUME NEW q \in Quantisers, PaletteVerdict(q) = "Ok", NEW rgb \in Seq(Colour)
  PROVE  LET buffer == QuantiseBuffer(q, rgb)
         IN /\ buffer \in Seq(Nat) /\ Len(buffer) = Len(rgb) * BytesPerPixel(q)
            /\ \A p \in 1..Len(rgb) :
                 /\ q.format = "Abgr2222" => buffer[p] = QuantisePixel(rgb[p])
                 /\ q.format = "Palette" => buffer[p] = SnapPixel(q.slots, rgb[p])
<1>. DEFINE bpp == BytesPerPixel(q)
            n == Len(rgb)
            byte(k) == PixelBytes(q, rgb[((k - 1) \div bpp) + 1])[((k - 1) % bpp) + 1]
            buffer == QuantiseBuffer(q, rgb)
<1>1. buffer = [k \in 1..(n * bpp) |-> byte(k)]
  BY DEF QuantiseBuffer
<1>2. bpp \in {1, 2}
  BY DEF BytesPerPixel
<1>3. n \in Nat /\ \A p \in 1..n : rgb[p] \in Colour
  BY ElementOfSeq
<1>4. ASSUME NEW k \in 1..(n * bpp) PROVE byte(k) \in Nat
  <2>1. ((k - 1) \div bpp) + 1 \in 1..n /\ ((k - 1) % bpp) + 1 \in 1..bpp
    <3> HIDE DEF bpp, n, byte, buffer
    <3> QED BY <1>2, <1>3, PixelOf
  <2>2. rgb[((k - 1) \div bpp) + 1] \in Colour
    <3> HIDE DEF bpp, buffer
    <3> QED BY <1>3, <2>1
  <2> QED BY <2>1, <2>2, PixelType
<1>5. ASSUME NEW p \in 1..n, bpp = 1 PROVE p \in 1..(n * bpp) /\ byte(p) = PixelBytes(q, rgb[p])[1]
  <2>1. p \in 1..(n * bpp)
    <3> HIDE DEF bpp, n, byte, buffer
    <3> QED BY <1>3, <1>5
  <2>2. ((p - 1) \div bpp) + 1 = p /\ ((p - 1) % bpp) + 1 = 1
    <3> HIDE DEF bpp, n, byte, buffer
    <3> QED BY <1>2, <1>3, <1>5, <2>1, PixelOf
  <2>3. byte(p) = PixelBytes(q, rgb[p])[1]
    <3> HIDE DEF bpp, n, buffer
    <3> QED BY <2>2
  <2> QED BY <2>1, <2>3
<1> HIDE DEF byte, buffer
<1>6. n * bpp \in Nat
  <2> HIDE DEF n, bpp
  <2> QED BY <1>2, <1>3
<1>7. buffer \in Seq(Nat) /\ Len(buffer) = n * bpp
  <2> HIDE DEF n, bpp
  <2> QED BY <1>1, <1>4, <1>6
<1>8. ASSUME NEW p \in 1..n
      PROVE  /\ q.format = "Abgr2222" => buffer[p] = QuantisePixel(rgb[p])
             /\ q.format = "Palette" => buffer[p] = SnapPixel(q.slots, rgb[p])
  <2>1. rgb[p] \in Colour
    BY <1>3
  <2>2. bpp = 1 => buffer[p] = PixelBytes(q, rgb[p])[1]
    BY <1>1, <1>5
  <2> HIDE DEF n
  <2> QED BY <2>1, <2>2, PixelType
<1> QED BY <1>7, <1>8 DEF n, bpp, buffer

----------------------------------------------------------------------------
(* A tile from picture to bytes and back. *)

(* Before a tile is encoded nothing has been written or decoded. *)
NothingEncoded ==
  /\ i = 0 /\ out = <<>> /\ sink = <<>> /\ verdict = "None" /\ streamed = "None"
  /\ encoded = <<>> /\ origin = "Encoded" /\ expected = 0 /\ data \in Seq(Nat)

(* The picture that is stored is the one the server sent, quantised. *)
PictureStored ==
  /\ quantiser \in Quantisers /\ PaletteVerdict(quantiser) = "Ok"
  /\ source.rgb \in Seq(Colour) /\ Len(source.rgb) = ExpectedDim * ExpectedDim
  /\ data = QuantiseBuffer(quantiser, source.rgb)

TileInv ==
  /\ refusal # "Panic" /\ Balance
  /\ \/ stage \in {"Image", "Refused", "Raw"} /\ NothingEncoded
     \/ CodecInv
  /\ stage = "Image" => source \in Sources /\ quantiser \in Quantisers
  /\ Quantised => PictureStored

(* The verdicts of the checks before the quantiser. *)
LEMMA VerdictsAreNoPanic ==
  ASSUME NEW q PROVE PaletteVerdict(q) # "Panic" /\ DecodeVerdict # "Panic"
<1>1. PaletteVerdict(q) # "Panic"
  BY Zenon DEF PaletteVerdict
<1>2. DecodeVerdict # "Panic"
  BY Zenon DEF DecodeVerdict
<1> QED BY <1>1, <1>2

(* Only a picture is decoded. *)
LEMMA OkIsImage == DecodeVerdict = "Ok" => source.kind # "Empty" /\ source.kind # "NotAnImage"
<1>1. source.kind = "Empty" => DecodeVerdict # "Ok"
  BY Zenon DEF DecodeVerdict
<1>2. source.kind = "NotAnImage" => DecodeVerdict # "Ok"
  BY Zenon DEF DecodeVerdict
<1> QED BY <1>1, <1>2

(* Nothing has been decoded, and encode has run on nothing. *)
LEMMA NothingBalances == stage # "Encode" /\ NothingEncoded => Balance
<1> SUFFICES ASSUME stage # "Encode", NothingEncoded PROVE Balance
  OBVIOUS
<1>1. data \in Seq(Nat) /\ encoded = <<>> /\ encoded \in Seq(Nat) /\ Len(data) \in Nat
  BY DEF NothingEncoded
<1>2. Budget(Len(data)) \in Nat
  BY <1>1, BudgetGrows
<1> QED BY <1>1, <1>2 DEF Balance

(* The same after a step. *)
LEMMA NothingBalancesNext == (stage # "Encode" /\ NothingEncoded)' => Balance'
BY NothingBalances, PTL

(* Nothing has been quantised, or a stream is there already. *)
LEMMA TileInit == CodecInit => TileInv
<1> SUFFICES ASSUME CodecInit PROVE TileInv
  OBVIOUS
<1>1. CASE Init /\ source = [kind |-> "Stored"] /\ refusal = "None"
  <2>1. stage # "Image" /\ source.kind = "Stored"
    BY <1>1 DEF Init
  <2> QED BY <1>1, <2>1, InitCodec, InitBalance DEF TileInv, Quantised
<1>2. CASE /\ NothingDecoded /\ stage = "Image" /\ data = <<>> /\ encoded = <<>>
           /\ origin = "Encoded" /\ expected = 0
           /\ source \in Sources /\ quantiser \in Quantisers /\ raw \in BOOLEAN
           /\ refusal = "None"
  <2>1. NothingEncoded
    BY <1>2 DEF NothingEncoded, NothingDecoded
  <2> QED BY <1>2, <2>1, NothingBalances DEF TileInv, Quantised
<1> QED BY <1>1, <1>2 DEF CodecInit

(* Encoding, the pack and decoding leave the tile itself alone. *)
LEMMA CodecKeepsTile == CodecInv /\ Next => data' = data /\ stage' # "Image"
<1>1. Next => data' = data
  BY DEF Next, Encoding, EmitRepeat, EmitLiteral, EndOfData, ReadBack, Decoding, DecodeBlock,
         DecodeCutOff, DecodeReturns, StreamBlock, SinkFails, StreamCutOff, StreamReturns,
         encoderVars
<1>2. CodecInv /\ Next => CodecInv'
  BY StepCodec
<1>3. CodecInv' => stage' # "Image"
  BY DEF CodecInv, Decodes
<1> QED BY <1>1, <1>2, <1>3

(* The codec keeps its invariants when it runs on the codes of a picture. *)
LEMMA CodecKeepsInv == TileInv /\ Codec => TileInv'
<1> SUFFICES ASSUME TileInv, Codec PROVE TileInv'
  OBVIOUS
<1>1. Next /\ UNCHANGED <<source, quantiser, raw, refusal>>
  BY DEF Codec, Next, tileVars
<1>2. stage \in {"Encode", "Stored", "Decode", "Stream"}
  BY <1>1 DEF Next, Encoding, EmitRepeat, EmitLiteral, EndOfData, ReadBack, Decoding, DecodeBlock,
              DecodeCutOff, DecodeReturns, StreamBlock, SinkFails, StreamCutOff, StreamReturns
<1>3. CodecInv /\ Balance
  BY <1>2 DEF TileInv
<1>4. CodecInv' /\ Balance' /\ data' = data /\ stage' # "Image"
  BY <1>1, <1>3, StepCodec, StepBalance, CodecKeepsTile
<1>5. Quantised' => Quantised
  BY <1>1, <1>2 DEF Quantised
<1>6. PictureStored => PictureStored'
  BY <1>1, <1>4 DEF PictureStored
<1>7. refusal' # "Panic"
  BY <1>1 DEF TileInv
<1> QED BY <1>4, <1>5, <1>6, <1>7 DEF TileInv

(* A tile that is refused leaves no trace. *)
LEMMA RefusedKeepsInv == TileInv /\ (PaletteRefused \/ ImageRefused) => TileInv'
<1> SUFFICES ASSUME TileInv, PaletteRefused \/ ImageRefused PROVE TileInv'
  OBVIOUS
<1>1. /\ stage = "Image" /\ stage' = "Refused"
      /\ UNCHANGED <<data, encoded, i, origin, expected, out, verdict, sink, streamed>>
  BY DEF PaletteRefused, ImageRefused, Refuse, encoderVars, decodeVars, streamVars
<1>2. refusal' # "Panic"
  BY VerdictsAreNoPanic DEF PaletteRefused, ImageRefused, Refuse
<1>3. NothingEncoded'
  BY <1>1 DEF TileInv, NothingEncoded, CodecInv, Decodes
<1> QED BY <1>1, <1>2, <1>3, NothingBalancesNext DEF TileInv, Quantised

(* encode starts on the codes with nothing written. *)
LEMMA EncodingBegins == (stage = "Encode" /\ NothingEncoded)' => CodecInv' /\ Balance'
<1>1. stage = "Encode" /\ NothingEncoded => CodecInv /\ Balance
  <2> SUFFICES ASSUME stage = "Encode", NothingEncoded PROVE CodecInv /\ Balance
    OBVIOUS
  <2>1. /\ i = 0 /\ out = <<>> /\ sink = <<>> /\ verdict = "None" /\ streamed = "None"
        /\ encoded = <<>> /\ origin = "Encoded" /\ expected = 0 /\ data \in Seq(Nat)
    BY DEF NothingEncoded
  <2>2. PICK at : Trace(at, encoded, data, 0) /\ at[0] = 0 /\ DOMAIN at = {0}
    BY NothingTraced
  <2>3. Encodes(encoded, i)
    BY <2>1, <2>2 DEF Encodes
  <2>4. i \in 0..Len(data) /\ Budget(0) \in Nat
    BY <2>1, BudgetGrows
  <2>5. CodecInv
    BY <2>1, <2>3, <2>4 DEF CodecInv, Written, Decodes, Faithful, Decoders
  <2>6. Balance
    BY <2>1, <2>4 DEF Balance
  <2> QED BY <2>5, <2>6
<1> QED BY <1>1, PTL

(* A picture of the right size fills the buffer of the quantiser. *)
LEMMA QuantiseKeepsInv == TileInv /\ Quantise => TileInv'
<1> SUFFICES ASSUME TileInv, Quantise PROVE TileInv'
  OBVIOUS
<1>1. /\ stage = "Image" /\ PaletteVerdict(quantiser) = "Ok"
      /\ DecodeVerdict = "Ok" /\ source.width = ExpectedDim /\ source.height = ExpectedDim
      /\ UNCHANGED <<encoded, i, origin, expected, out, verdict, sink, streamed, source, quantiser>>
  BY DEF Quantise, SizeMatches, decodeVars, streamVars, tileVars
<1>2. /\ source \in Sources /\ quantiser \in Quantisers /\ NothingEncoded /\ Balance
  BY <1>1 DEF TileInv, CodecInv, Decodes
<1>3. source.kind = "Image"
  BY <1>1, <1>2, OkIsImage, SourcesAssumption
<1>4. source.rgb \in Seq(Colour) /\ Len(source.rgb) = ExpectedDim * ExpectedDim
  BY <1>1, <1>2, <1>3, SourcesAssumption
<1>5. /\ data' = QuantiseBuffer(quantiser, source.rgb) /\ refusal' = refusal
      /\ stage' = IF raw THEN "Raw" ELSE "Encode"
  BY <1>4 DEF Quantise, QuantiserAsserts
<1>6. data' \in Seq(Nat)
  BY <1>1, <1>2, <1>4, <1>5, QuantiseFits
<1>7. PictureStored'
  BY <1>1, <1>2, <1>4, <1>5 DEF PictureStored
<1>8. refusal' # "Panic"
  BY <1>5 DEF TileInv
<1>9. NothingEncoded'
  BY <1>1, <1>2, <1>6 DEF NothingEncoded
<1>10. CASE raw
  <2>1. stage' = "Raw"
    BY <1>5, <1>10
  <2>2. Balance'
    BY <1>9, <2>1, NothingBalancesNext
  <2> QED BY <1>7, <1>8, <1>9, <2>1, <2>2 DEF TileInv
<1>11. CASE ~raw
  <2>1. stage' = "Encode"
    BY <1>5, <1>11
  <2>2. CodecInv' /\ Balance'
    BY <1>9, <2>1, EncodingBegins
  <2> QED BY <1>7, <1>8, <2>1, <2>2 DEF TileInv
<1> QED BY <1>10, <1>11

(* Every step keeps the invariant. *)
LEMMA TileStep == TileInv /\ [Step \/ Settled]_vars => TileInv'
<1> SUFFICES ASSUME TileInv, [Step \/ Settled]_vars PROVE TileInv'
  OBVIOUS
<1>1. CASE UNCHANGED vars
  <2>1. UNCHANGED <<codecVars, source, quantiser, raw, refusal>>
    BY <1>1 DEF vars, tileVars
  <2>2. Balance'
    BY <2>1, StepBalance DEF TileInv
  <2>3. CodecInv => CodecInv'
    BY <2>1, StepCodec
  <2>4. UNCHANGED <<stage, data, encoded, i, origin, expected, out, verdict, sink, streamed>>
    BY <2>1 DEF codecVars, encoderVars, decodeVars, streamVars
  <2>5. NothingEncoded => NothingEncoded'
    BY <2>4 DEF NothingEncoded
  <2>6. (Quantised' => Quantised) /\ (PictureStored => PictureStored')
    BY <2>1, <2>4 DEF Quantised, PictureStored
  <2> QED BY <2>1, <2>2, <2>3, <2>4, <2>5, <2>6 DEF TileInv
<1>2. CASE Settled
  BY <1>1, <1>2 DEF Settled
<1> QED
  BY <1>1, <1>2, CodecKeepsInv, RefusedKeepsInv, QuantiseKeepsInv DEF Step

(* What is stored of a picture is its quantised buffer, and the codec's own *)
(* invariants hold of it: the inductive invariant.                          *)
THEOREM TileAlways == CodecSpec => []TileInv
BY TileInit, TileStep, PTL DEF CodecSpec

(* No picture reaches the asserts of a quantiser with the wrong shape, and *)
(* a stored tile has the length that the header implies, for every         *)
(* declared tile size and every quantiser.                                 *)
THEOREM TileFits == CodecSpec => []TileFitsHeader
<1>1. TileInv => TileFitsHeader
  <2> SUFFICES ASSUME TileInv PROVE TileFitsHeader
    OBVIOUS
  <2>1. Quantised => Len(data) = ExpectedDim * ExpectedDim * BytesPerPixel(quantiser)
    BY QuantiseFits DEF TileInv, PictureStored
  <2> QED BY <2>1 DEF TileInv, TileFitsHeader
<1> QED BY <1>1, TileAlways, PTL

(* Every ABGR2222 code shows the nearest level in each channel and is its  *)
(* own quantisation; every palette code is that of the first nearest slot, *)
(* for every colour and every palette that Abgr2222Palette::new accepts.   *)
THEOREM NearestCodes == CodecSpec => []CodesAreNearest
<1>1. TileInv => CodesAreNearest
  <2> SUFFICES ASSUME TileInv, Quantised, NEW p \in 1..Len(source.rgb)
               PROVE  CASE quantiser.format = "Abgr2222" -> NearestShown(source.rgb[p], data[p])
                        [] quantiser.format = "Palette" ->
                             NearestSlot(quantiser.slots, source.rgb[p], data[p])
                        [] OTHER -> TRUE
    BY Zenon DEF CodesAreNearest
  <2>1. PictureStored
    BY DEF TileInv
  <2>2. source.rgb[p] \in Colour
    BY <2>1, ElementOfSeq DEF PictureStored
  <2>3. quantiser.format = "Abgr2222" => NearestShown(source.rgb[p], data[p])
    BY <2>1, <2>2, QuantiseFits, PixelNearest DEF PictureStored
  <2>4. ASSUME quantiser.format = "Palette"
        PROVE  NearestSlot(quantiser.slots, source.rgb[p], data[p])
    <3>1. /\ quantiser.slots \in Seq([rgb : Colour, code : 0..255]) /\ quantiser.slots # <<>>
      BY <2>1, <2>4, QuantisersAssumption, PaletteHasSlots DEF PictureStored
    <3>2. data[p] = SnapPixel(quantiser.slots, source.rgb[p])
      BY <2>1, <2>4, QuantiseFits DEF PictureStored
    <3> QED BY <2>2, <3>1, <3>2, SnapNearest
  <2>5. ~(quantiser.format = "Abgr2222" /\ quantiser.format = "Palette")
    OBVIOUS
  <2> QED BY <2>3, <2>4, <2>5, Zenon
<1> QED BY <1>1, TileAlways, PTL

(* Every tile comes back from encode and either decoder as it was, and no  *)
(* stream that has lost its end is taken for a whole one.                  *)
THEOREM TilesRoundTrip == CodecSpec => []RoundTrip
<1>1. NothingEncoded /\ stage # "End" => RoundTrip
  BY DEF NothingEncoded, RoundTrip
<1>2. TileInv => RoundTrip
  BY <1>1, CodecRoundTrips DEF TileInv
<1> QED BY <1>2, TileAlways, PTL

(* decode and decode_streaming tell the same of every stream, foreign ones *)
(* included, but for the one that decode_streaming clips; and what         *)
(* decode_streaming hands to its closure is a prefix of what decode        *)
(* returns, never longer than the tile.                                    *)
THEOREM DecodersAlwaysAgree == CodecSpec => []DecodersAgree
<1>1. NothingEncoded /\ stage # "End" => DecodersAgree
  BY DEF NothingEncoded, DecodersAgree
<1>2. TileInv => DecodersAgree
  BY <1>1, CodecAgrees DEF TileInv
<1> QED BY <1>2, TileAlways, PTL

(* The Vec that encode reserves is never outgrown: one byte more for every *)
(* MaxRun bytes of the tile, and one for the last block, whatever runs and *)
(* literals it is made of.                                                 *)
THEOREM ReservationHolds == CodecSpec => []EncodedFitsReservation
<1>1. TileInv => EncodedFitsReservation
  BY BalanceFits DEF TileInv
<1> QED BY <1>1, TileAlways, PTL
=============================================================================
