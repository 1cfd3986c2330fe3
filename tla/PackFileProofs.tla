--------------------------- MODULE PackFileProofs ---------------------------
(***************************************************************************)
(* Proofs about PackFile, for packs of any size and any bytes.             *)
(*                                                                         *)
(* Four results.  Damage within 32 consecutive bits of a sealed string     *)
(* never goes unnoticed.  A file the C++ validator accepts is opened by    *)
(* the core's reader, which finds each of its tiles.  What the core writes *)
(* of a pack, both programs read as it was given.  And a pack of a newer   *)
(* minor version opens with the same tiles.                                *)
(*                                                                         *)
(* The last two rest on Layout, which says where in a finished pack every  *)
(* field, entry, tile and section stands, and on lemmas that read each of  *)
(* them back; the invariant is FileInv, that a byte nobody altered is the  *)
(* one that was written.                                                   *)
(***************************************************************************)
EXTENDS PackFile, FiniteSums, SequenceTheorems

----------------------------------------------------------------------------
(* The checksum.  A state of the checksum is a set of bits, and absorbing a *)
(* byte is linear in state and byte: a burst of 32 bits reaches the end.   *)

(* Exclusive or. *)
LEMMA XorLaws ==
  /\ \A a, b : Xor(a, b) = Xor(b, a)
  /\ \A a : Xor(a, a) = {} /\ Xor(a, {}) = a /\ Xor({}, a) = a
  /\ \A a, b : Xor(a, b) = {} => a = b
  /\ \A a, b, c, d : Xor(Xor(a, b), Xor(c, d)) = Xor(Xor(a, c), Xor(b, d))
<1>1. ASSUME NEW a, NEW b, NEW x PROVE x \in Xor(a, b) <=> ~(x \in a <=> x \in b)
  BY DEF Xor
<1>2. \A a, b : Xor(a, b) = Xor(b, a)
  BY DEF Xor
<1>3. \A a : Xor(a, a) = {} /\ Xor(a, {}) = a /\ Xor({}, a) = a
  BY DEF Xor
<1>4. ASSUME NEW a, NEW b, Xor(a, b) = {} PROVE a = b
  <2>1. \A x : x \in a <=> x \in b
    BY <1>1, <1>4
  <2>. QED
    BY <2>1
<1>5. ASSUME NEW a, NEW b, NEW c, NEW d
      PROVE Xor(Xor(a, b), Xor(c, d)) = Xor(Xor(a, c), Xor(b, d))
  <2>1. ASSUME NEW x
        PROVE x \in Xor(Xor(a, b), Xor(c, d)) <=> x \in Xor(Xor(a, c), Xor(b, d))
    BY DEF Xor
  <2>. QED
    BY <2>1
<1>. QED
  BY <1>2, <1>3, <1>4, <1>5

(* A shift moves every bit of a word. *)
LEMMA ShiftIn ==
  ASSUME NEW c \in SUBSET Word, NEW n \in Nat, NEW x
  PROVE  x \in ShiftRight(c, n) <=> x \in Word /\ x + n \in c
BY DEF ShiftRight, Word

(* Exclusive or of words is a word, and shifts go through it. *)
LEMMA ShiftXor ==
  ASSUME NEW a \in SUBSET Word, NEW b \in SUBSET Word, NEW n \in Nat
  PROVE  /\ Xor(a, b) \in SUBSET Word /\ ShiftRight(a, n) \in SUBSET Word
         /\ ShiftRight(Xor(a, b), n) = Xor(ShiftRight(a, n), ShiftRight(b, n))
<1>1. Xor(a, b) \in SUBSET Word
  BY DEF Xor
<1>2. ShiftRight(a, n) \in SUBSET Word
  BY ShiftIn
<1>3. ASSUME NEW x
      PROVE x \in ShiftRight(Xor(a, b), n) <=> x \in Xor(ShiftRight(a, n), ShiftRight(b, n))
  <2>1. x \in ShiftRight(Xor(a, b), n) <=> x \in Word /\ x + n \in Xor(a, b)
    BY <1>1, ShiftIn
  <2>2. /\ x \in ShiftRight(a, n) <=> x \in Word /\ x + n \in a
        /\ x \in ShiftRight(b, n) <=> x \in Word /\ x + n \in b
    BY ShiftIn
  <2>. QED
    BY <2>1, <2>2 DEF Xor
<1>. QED
  BY <1>1, <1>2, <1>3

(* Two shifts are one. *)
LEMMA ShiftTwice ==
  ASSUME NEW c \in SUBSET Word, NEW n \in Nat, NEW m \in Nat
  PROVE  ShiftRight(ShiftRight(c, n), m) = ShiftRight(c, n + m)
<1>1. ShiftRight(c, n) \in SUBSET Word
  BY ShiftXor
<1>2. ASSUME NEW x
      PROVE x \in ShiftRight(ShiftRight(c, n), m) <=> x \in ShiftRight(c, n + m)
  <2>1. x \in ShiftRight(ShiftRight(c, n), m) <=> x \in Word /\ x + m \in ShiftRight(c, n)
    BY <1>1, ShiftIn
  <2>2. x \in ShiftRight(c, n + m) <=> x \in Word /\ x + (n + m) \in c
    BY ShiftIn
  <2>3. x + m \in ShiftRight(c, n) <=> x + m \in Word /\ (x + m) + n \in c
    BY ShiftIn
  <2>4. x \in Word /\ x + (n + m) \in c => x + m \in Word /\ (x + m) + n = x + (n + m)
    BY DEF Word
  <2>5. x \in Word => (x + m) + n = x + (n + m)
    BY DEF Word
  <2>. QED
    BY <2>1, <2>2, <2>3, <2>4, <2>5
<1>. QED
  BY <1>2

(* A step of the division is linear, and loses nothing: bit 31 of the      *)
(* polynomial tells that a one bit fell out.                               *)
LEMMA StepLinear ==
  ASSUME NEW a \in SUBSET Word, NEW b \in SUBSET Word
  PROVE  /\ DivisionStep(a) \in SUBSET Word
         /\ DivisionStep(Xor(a, b)) = Xor(DivisionStep(a), DivisionStep(b))
         /\ DivisionStep(a) = {} => a = {}
         /\ 0 \notin a => DivisionStep(a) = ShiftRight(a, 1)
<1>. DEFINE P(c) == IF 0 \in c THEN Polynomial ELSE {}
<1>1. Polynomial \in SUBSET Word /\ 31 \in Polynomial
  BY DEF Polynomial, Word
<1>2. \A c : P(c) \in SUBSET Word
  BY <1>1
<1>3. DivisionStep(a) \in SUBSET Word
  BY <1>2, ShiftXor DEF DivisionStep
<1>4. P(Xor(a, b)) = Xor(P(a), P(b))
  <2>1. 0 \in Xor(a, b) <=> ~(0 \in a <=> 0 \in b)
    BY DEF Xor
  <2>. QED
    BY <2>1, XorLaws
<1>5. \A c : DivisionStep(c) = Xor(ShiftRight(c, 1), P(c))
  BY DEF DivisionStep
<1>. HIDE DEF P
<1>6. DivisionStep(Xor(a, b)) = Xor(DivisionStep(a), DivisionStep(b))
  <2>1. ShiftRight(Xor(a, b), 1) = Xor(ShiftRight(a, 1), ShiftRight(b, 1))
    BY ShiftXor
  <2>2. DivisionStep(Xor(a, b)) = Xor(Xor(ShiftRight(a, 1), ShiftRight(b, 1)), Xor(P(a), P(b)))
    BY <1>4, <1>5, <2>1
  <2>. QED
    BY <1>5, <2>2, XorLaws
<1>7. ASSUME DivisionStep(a) = {} PROVE a = {}
  <2>1. ShiftRight(a, 1) = P(a)
    BY <1>5, <1>7, XorLaws
  <2>2. 31 \notin ShiftRight(a, 1)
    BY ShiftIn DEF Word
  <2>3. 0 \notin a
    BY <1>1, <2>1, <2>2 DEF P
  <2>4. ShiftRight(a, 1) = {}
    BY <2>1, <2>3 DEF P
  <2>5. ASSUME NEW x \in a PROVE FALSE
    <3>1. x \in Word /\ x # 0
      BY <2>3
    <3>2. x - 1 \in Word /\ (x - 1) + 1 = x
      BY <3>1 DEF Word
    <3>3. x - 1 \in ShiftRight(a, 1)
      BY <2>5, <3>2, ShiftIn
    <3>. QED
      BY <2>4, <3>3
  <2>. QED
    BY <2>5
<1>8. ASSUME 0 \notin a PROVE DivisionStep(a) = ShiftRight(a, 1)
  BY <1>5, <1>8, XorLaws DEF P
<1>. QED
  BY <1>3, <1>6, <1>7, <1>8

(* Eight steps at once. *)
Four(c) == DivisionStep(DivisionStep(DivisionStep(DivisionStep(c))))
Eight(c) == Four(Four(c))

(* Eight steps stay a word, are linear, and lose no bit set.               *)
LEMMA EightLinear ==
  ASSUME NEW a \in SUBSET Word, NEW b \in SUBSET Word
  PROVE  /\ Eight(a) \in SUBSET Word
         /\ Eight(Xor(a, b)) = Xor(Eight(a), Eight(b))
         /\ Eight(a) = {} => a = {}
<1>1. ASSUME NEW c \in SUBSET Word, NEW d \in SUBSET Word
      PROVE  /\ Four(c) \in SUBSET Word
             /\ Four(Xor(c, d)) = Xor(Four(c), Four(d))
             /\ Four(c) = {} => c = {}
  <2>. DEFINE D(x) == DivisionStep(x)
  <2>0. \A x, y \in SUBSET Word :
          D(x) \in SUBSET Word /\ D(Xor(x, y)) = Xor(D(x), D(y)) /\ (D(x) = {} => x = {})
    BY StepLinear
  <2>. HIDE DEF D
  <2>1. D(c) \in SUBSET Word /\ D(d) \in SUBSET Word
    BY <2>0
  <2>2. D(D(c)) \in SUBSET Word /\ D(D(d)) \in SUBSET Word
    BY <2>0, <2>1
  <2>3. D(D(D(c))) \in SUBSET Word /\ D(D(D(d))) \in SUBSET Word
    BY <2>0, <2>2
  <2>4. D(D(D(D(c)))) \in SUBSET Word
    BY <2>0, <2>3
  <2>5. D(Xor(c, d)) = Xor(D(c), D(d))
    BY <2>0
  <2>6. D(D(Xor(c, d))) = Xor(D(D(c)), D(D(d)))
    BY <2>0, <2>1, <2>5
  <2>7. D(D(D(Xor(c, d)))) = Xor(D(D(D(c))), D(D(D(d))))
    BY <2>0, <2>2, <2>6
  <2>8. D(D(D(D(Xor(c, d))))) = Xor(D(D(D(D(c)))), D(D(D(D(d)))))
    BY <2>0, <2>3, <2>7
  <2>9. D(D(D(D(c)))) = {} => c = {}
    BY <2>0, <2>1, <2>2, <2>3
  <2>. QED
    BY <2>4, <2>8, <2>9 DEF D, Four
<1>2. Four(a) \in SUBSET Word /\ Four(b) \in SUBSET Word
  BY <1>1
<1>3. Eight(a) \in SUBSET Word
  BY <1>1, <1>2 DEF Eight
<1>4. Four(Xor(a, b)) = Xor(Four(a), Four(b))
  BY <1>1
<1>5. Four(Xor(Four(a), Four(b))) = Xor(Four(Four(a)), Four(Four(b)))
  BY <1>1, <1>2
<1>6. Eight(Xor(a, b)) = Xor(Eight(a), Eight(b))
  BY <1>4, <1>5 DEF Eight
<1>7. Eight(a) = {} => a = {}
  BY <1>1, <1>2 DEF Eight
<1>. QED
  BY <1>3, <1>6, <1>7

(* The table entry of a byte is eight steps of the division. *)
LEMMA TableIs == ASSUME NEW b \in SUBSET Byte PROVE Table[b] = Eight(b)
<1>. DEFINE D(x) == DivisionStep(x)
            Step(f, k) == IF k = 0 THEN b ELSE D(f[k - 1])
            IsRun(f) == f = [k \in 0..8 |-> Step(f, k)]
            f == CHOOSE g : IsRun(g)
            g == [k \in 0..8 |->
                   IF k = 0 THEN b ELSE IF k = 1 THEN D(b) ELSE IF k = 2 THEN D(D(b))
                   ELSE IF k = 3 THEN D(D(D(b))) ELSE IF k = 4 THEN D(D(D(D(b))))
                   ELSE IF k = 5 THEN D(D(D(D(D(b))))) ELSE IF k = 6 THEN D(D(D(D(D(D(b))))))
                   ELSE IF k = 7 THEN D(D(D(D(D(D(D(b))))))) ELSE D(D(D(D(D(D(D(D(b))))))))]
<1>1. TableEntry(b) = f[8]
  BY Zenon DEF TableEntry
<1>2. Table[b] = f[8]
  BY <1>1 DEF Table
<1>. HIDE DEF D
<1>3. IsRun(g)
  <2>1. ASSUME NEW k \in 0..8 PROVE g[k] = Step(g, k)
    <3>1. k = 0 \/ k = 1 \/ k = 2 \/ k = 3 \/ k = 4 \/ k = 5 \/ k = 6 \/ k = 7 \/ k = 8
      OBVIOUS
    <3>2. k # 0 => k - 1 \in 0..8
      OBVIOUS
    <3>. QED
      BY <3>1, <3>2
  <2>2. g = [k \in 0..8 |-> g[k]]
    OBVIOUS
  <2>. HIDE DEF g, Step
  <2>. QED
    BY <2>1, <2>2
<1>. HIDE DEF g
<1>4. IsRun(f)
  <2>. HIDE DEF IsRun
  <2>. QED
    BY <1>3
<1>. HIDE DEF f
<1>5. /\ f[0] = b /\ f[1] = D(f[0]) /\ f[2] = D(f[1]) /\ f[3] = D(f[2]) /\ f[4] = D(f[3])
      /\ f[5] = D(f[4]) /\ f[6] = D(f[5]) /\ f[7] = D(f[6]) /\ f[8] = D(f[7])
  <2>1. ASSUME NEW k \in 0..8 PROVE f[k] = Step(f, k)
    BY <1>4
  <2>. HIDE DEF IsRun, Step
  <2>2. /\ f[0] = Step(f, 0) /\ f[1] = Step(f, 1) /\ f[2] = Step(f, 2) /\ f[3] = Step(f, 3)
        /\ f[4] = Step(f, 4) /\ f[5] = Step(f, 5) /\ f[6] = Step(f, 6) /\ f[7] = Step(f, 7)
        /\ f[8] = Step(f, 8)
    BY <2>1
  <2>. QED
    BY <2>2 DEF Step
<1>6. f[8] = D(D(D(D(D(D(D(D(b))))))))
  <2>. HIDE DEF IsRun, Step
  <2>. QED
    BY <1>5
<1>. QED
  BY <1>2, <1>6 DEF D, Eight, Four

(* Bits above the first eight only move. *)
LEMMA HighBitsMove ==
  ASSUME NEW c \in SUBSET Word, \A x \in c : x >= 8
  PROVE  Eight(c) = ShiftRight(c, 8)
<1>. DEFINE S(n) == ShiftRight(c, n)
<1>1. ASSUME NEW n \in 1..7
      PROVE S(n) \in SUBSET Word /\ DivisionStep(S(n)) = S(n + 1)
  <2>1. S(n) \in SUBSET Word
    BY ShiftXor
  <2>2. 0 \notin S(n)
    <3>1. 0 \in S(n) => 0 + n \in c
      BY ShiftIn
    <3>. QED
      BY <3>1
  <2>3. DivisionStep(S(n)) = ShiftRight(S(n), 1)
    BY <2>1, <2>2, StepLinear
  <2>. QED
    BY <2>1, <2>3, ShiftTwice
<1>2. DivisionStep(c) = S(1)
  <2>1. 0 \notin c
    OBVIOUS
  <2>. QED
    BY <2>1, StepLinear
<1>. HIDE DEF S
<1>3. /\ DivisionStep(S(1)) = S(2) /\ DivisionStep(S(2)) = S(3) /\ DivisionStep(S(3)) = S(4)
      /\ DivisionStep(S(4)) = S(5) /\ DivisionStep(S(5)) = S(6) /\ DivisionStep(S(6)) = S(7)
      /\ DivisionStep(S(7)) = S(8)
  <2>1. 1 + 1 = 2 /\ 2 + 1 = 3 /\ 3 + 1 = 4 /\ 4 + 1 = 5 /\ 5 + 1 = 6 /\ 6 + 1 = 7 /\ 7 + 1 = 8
    OBVIOUS
  <2>. QED
    BY <2>1, <1>1
<1>4. Eight(c) = S(8)
  BY <1>2, <1>3 DEF Eight, Four
<1>. QED
  BY <1>4 DEF S

(* A byte is absorbed into a word linearly; a zero byte is absorbed by     *)
(* eight steps, a byte equal to the low bits by a shift.                   *)
LEMMA AbsorbLinear ==
  ASSUME NEW a \in SUBSET Word, NEW b \in SUBSET Word, NEW x \in SUBSET Byte, NEW y \in SUBSET Byte
  PROVE  /\ Absorb(a, x) \in SUBSET Word
         /\ Absorb(Xor(a, b), Xor(x, y)) = Xor(Absorb(a, x), Absorb(b, y))
<1>1. Byte \in SUBSET Word
  BY DEF Byte, Word
<1>2. ASSUME NEW c \in SUBSET Byte, NEW d \in SUBSET Byte
      PROVE  /\ Table[c] \in SUBSET Word /\ Xor(c, d) \in SUBSET Byte
             /\ Table[Xor(c, d)] = Xor(Table[c], Table[d])
  <2>1. Xor(c, d) \in SUBSET Byte
    BY DEF Xor
  <2>2. /\ Table[c] = Eight(c) /\ Table[d] = Eight(d) /\ Table[Xor(c, d)] = Eight(Xor(c, d))
    BY <2>1, TableIs
  <2>3. c \in SUBSET Word /\ d \in SUBSET Word
    BY <1>1
  <2>. QED
    BY <2>1, <2>2, <2>3, EightLinear
<1>3. /\ a \cap Byte \in SUBSET Byte /\ b \cap Byte \in SUBSET Byte
      /\ Xor(a, b) \cap Byte = Xor(a \cap Byte, b \cap Byte)
  BY DEF Xor
<1>. DEFINE p == Xor(a \cap Byte, x)  q == Xor(b \cap Byte, y)
<1>4. p \in SUBSET Byte /\ q \in SUBSET Byte
  BY <1>2, <1>3
<1>5. Xor(Xor(a, b) \cap Byte, Xor(x, y)) = Xor(p, q)
  <2>. DEFINE u == a \cap Byte  v == b \cap Byte
  <2>1. Xor(a, b) \cap Byte = Xor(u, v)
    BY <1>3
  <2>. HIDE DEF u, v
  <2>2. Xor(Xor(u, v), Xor(x, y)) = Xor(Xor(u, x), Xor(v, y))
    BY XorLaws
  <2>. QED
    BY <2>1, <2>2 DEF u, v
<1>6. Absorb(a, x) = Xor(ShiftRight(a, 8), Table[p]) /\ Absorb(b, y) = Xor(ShiftRight(b, 8), Table[q])
  BY DEF Absorb
<1>7. Absorb(Xor(a, b), Xor(x, y)) = Xor(ShiftRight(Xor(a, b), 8), Table[Xor(p, q)])
  BY <1>5 DEF Absorb
<1>. HIDE DEF p, q
<1>8. ShiftRight(Xor(a, b), 8) = Xor(ShiftRight(a, 8), ShiftRight(b, 8))
  BY ShiftXor
<1>9. Table[Xor(p, q)] = Xor(Table[p], Table[q]) /\ Table[p] \in SUBSET Word
  BY <1>2, <1>4
<1>10. Absorb(Xor(a, b), Xor(x, y)) = Xor(Absorb(a, x), Absorb(b, y))
  BY <1>6, <1>7, <1>8, <1>9, XorLaws
<1>11. Absorb(a, x) \in SUBSET Word
  <2>1. ShiftRight(a, 8) \in SUBSET Word
    BY ShiftXor
  <2>2. Xor(ShiftRight(a, 8), Table[p]) \in SUBSET Word
    BY <2>1, <1>9 DEF Xor
  <2>. QED
    BY <1>6, <2>2
<1>. QED
  BY <1>10, <1>11

(* Absorbing a zero byte is eight steps; absorbing its own low byte leaves *)
(* the rest of the state.                                                  *)
LEMMA AbsorbZero ==
  ASSUME NEW c \in SUBSET Word
  PROVE  /\ Absorb(c, {}) = Eight(c) /\ (Absorb(c, {}) = {} => c = {})
         /\ Absorb(c, c \cap Byte) = ShiftRight(c, 8)
<1>. DEFINE low == c \cap Byte  high == c \ Byte
<1>1. low \in SUBSET Byte /\ low \in SUBSET Word /\ high \in SUBSET Word /\ c = Xor(low, high)
  BY DEF Xor
<1>2. \A x \in high : x >= 8
  BY DEF Byte, Word
<1>. HIDE DEF low, high
<1>3. Eight(c) = Xor(Eight(low), Eight(high))
  BY <1>1, EightLinear
<1>4. Eight(high) = ShiftRight(high, 8) /\ Eight(low) = Table[low]
  BY <1>1, <1>2, HighBitsMove, TableIs
<1>5. ShiftRight(high, 8) = ShiftRight(c, 8)
  <2>1. ASSUME NEW x PROVE x \in ShiftRight(high, 8) <=> x \in ShiftRight(c, 8)
    <3>1. /\ x \in ShiftRight(high, 8) <=> x \in Word /\ x + 8 \in high
          /\ x \in ShiftRight(c, 8) <=> x \in Word /\ x + 8 \in c
      BY <1>1, ShiftIn
    <3>2. x \in Word /\ x + 8 \in c => x + 8 \in high
      BY DEF high, Word, Byte
    <3>3. high \in SUBSET c
      BY DEF high
    <3>. QED
      BY <3>1, <3>2, <3>3
  <2>. QED
    BY <2>1
<1>6. Absorb(c, {}) = Xor(ShiftRight(c, 8), Table[low])
  BY XorLaws DEF Absorb, low
<1>7. Absorb(c, {}) = Eight(c)
  BY <1>3, <1>4, <1>5, <1>6, XorLaws
<1>8. Table[{}] = {}
  <2>1. {} \in SUBSET Byte /\ {} \in SUBSET Word
    OBVIOUS
  <2>2. Eight(Xor({}, {})) = Xor(Eight({}), Eight({}))
    BY <2>1, EightLinear
  <2>. QED
    BY <2>1, <2>2, XorLaws, TableIs
<1>9. Absorb(c, c \cap Byte) = ShiftRight(c, 8)
  <2>1. Absorb(c, low) = Xor(ShiftRight(c, 8), Table[Xor(low, low)])
    BY DEF Absorb, low
  <2>2. Xor(low, low) = {}
    BY XorLaws
  <2>3. Table[Xor(low, low)] = {}
    BY <1>8, <2>2
  <2>4. Xor(ShiftRight(c, 8), {}) = ShiftRight(c, 8)
    BY XorLaws
  <2>5. Absorb(c, low) = ShiftRight(c, 8)
    BY <2>1, <2>3, <2>4
  <2>. QED
    BY <2>5 DEF low
<1>. QED
  BY <1>7, <1>9, EightLinear

(* The accumulator over the first N bytes of d. *)
IsRun(f, c, d, N) ==
  /\ f \in [0..N -> SUBSET Word] /\ f[0] = c
  /\ \A k \in 1..N : f[k] = Absorb(f[k - 1], d[k])
AreBytes(d, N) == N \in Nat /\ \A k \in 1..N : d[k] \in SUBSET Byte

SameFrom(d, e, i, j) == \A k \in i..j : d[k] = e[k]

(* Every string of bytes has a run from every state.                       *)
LEMMA RunExists ==
  ASSUME NEW c \in SUBSET Word, NEW d, NEW N, AreBytes(d, N)
  PROVE  \E f : IsRun(f, c, d, N)
<1>. DEFINE Good == {n \in Nat : n <= N => \E f : IsRun(f, c, d, n)}
<1>0. N \in Nat
  BY DEF AreBytes
<1>1. 0 \in Good
  <2>1. IsRun([k \in 0..0 |-> c], c, d, 0)
    BY DEF IsRun
  <2>. QED
    BY <2>1
<1>2. ASSUME NEW n \in Nat, n \in Good PROVE n + 1 \in Good
  <2>. SUFFICES ASSUME n + 1 <= N PROVE \E f : IsRun(f, c, d, n + 1)
    OBVIOUS
  <2>1. PICK f : IsRun(f, c, d, n)
    BY <1>0, <1>2
  <2>. DEFINE g == [k \in 0..(n + 1) |-> IF k = n + 1 THEN Absorb(f[n], d[n + 1]) ELSE f[k]]
  <2>2. f \in [0..n -> SUBSET Word] /\ f[0] = c /\ \A k \in 1..n : f[k] = Absorb(f[k - 1], d[k])
    BY <2>1 DEF IsRun
  <2>3. d[n + 1] \in SUBSET Byte /\ f[n] \in SUBSET Word /\ {} \in SUBSET Byte
    BY <1>0, <2>2 DEF AreBytes
  <2>4. Absorb(f[n], d[n + 1]) \in SUBSET Word
    BY <2>3, AbsorbLinear
  <2>5. g \in [0..(n + 1) -> SUBSET Word] /\ g[0] = c
    BY <2>2, <2>4
  <2>6. ASSUME NEW k \in 1..(n + 1) PROVE g[k] = Absorb(g[k - 1], d[k])
    <3>1. CASE k = n + 1
      <4>1. g[k] = Absorb(f[n], d[n + 1]) /\ g[k - 1] = f[n]
        BY <3>1
      <4>. QED
        BY <3>1, <4>1
    <3>2. CASE k # n + 1
      <4>1. k \in 1..n /\ k - 1 \in 0..n /\ k - 1 # n + 1 /\ k \in 0..(n + 1)
        BY <3>2
      <4>2. g[k] = f[k] /\ g[k - 1] = f[k - 1]
        BY <4>1, <3>2
      <4>. QED
        BY <2>2, <4>1, <4>2
    <3>. QED
      BY <3>1, <3>2
  <2>. HIDE DEF g
  <2>7. IsRun(g, c, d, n + 1)
    BY <2>5, <2>6 DEF IsRun
  <2>. QED
    BY <2>7
<1>3. N \in Good
  <2>. HIDE DEF Good
  <2>. QED
    BY <1>0, <1>1, <1>2, SetInduction
<1>. QED
  BY <1>0, <1>3

(* Equal bytes, equal accumulators. *)
LEMMA SameRuns ==
  ASSUME NEW c, NEW d, NEW e, NEW f, NEW g, NEW N \in Nat, NEW M \in Nat,
         IsRun(f, c, d, N), IsRun(g, c, e, M),
         NEW m \in Nat, m <= N, m <= M, SameFrom(d, e, 1, m)
  PROVE  f[m] = g[m]
<1>. DEFINE Good == {n \in Nat : n <= m => f[n] = g[n]}
<1>1. 0 \in Good
  BY DEF IsRun
<1>2. ASSUME NEW n \in Nat, n \in Good PROVE n + 1 \in Good
  <2>. SUFFICES ASSUME n + 1 <= m PROVE f[n + 1] = g[n + 1]
    OBVIOUS
  <2>1. f[n] = g[n]
    BY <1>2
  <2>2. n + 1 \in 1..m /\ n + 1 \in 1..N /\ n + 1 \in 1..M /\ (n + 1) - 1 = n
    OBVIOUS
  <2>3. f[n + 1] = Absorb(f[n], d[n + 1]) /\ g[n + 1] = Absorb(g[n], e[n + 1])
    BY <2>2 DEF IsRun
  <2>. QED
    BY <2>1, <2>2, <2>3 DEF SameFrom
<1>. HIDE DEF Good
<1>3. Nat \subseteq Good
  BY <1>1, <1>2, SetInduction
<1>. QED
  BY <1>3 DEF Good

(* Accumulators that differ go on differing. *)
LEMMA DifferentRuns ==
  ASSUME NEW c, NEW d, NEW e, NEW f, NEW g, NEW N, AreBytes(d, N), AreBytes(e, N),
         IsRun(f, c, d, N), IsRun(g, c, e, N),
         NEW m \in 0..N, f[m] # g[m], SameFrom(d, e, m + 1, N)
  PROVE  f[N] # g[N]
<1>. DEFINE Good == {n \in Nat : m + n <= N => f[m + n] # g[m + n]}
<1>0. N \in Nat
  BY DEF AreBytes
<1>1. 0 \in Good
  BY <1>0
<1>2. ASSUME NEW n \in Nat, n \in Good PROVE n + 1 \in Good
  <2>. DEFINE k == m + (n + 1)
  <2>. SUFFICES ASSUME k <= N PROVE f[k] # g[k]
    OBVIOUS
  <2>1. k \in 1..N /\ k \in (m + 1)..N /\ k - 1 = m + n /\ m + n \in 0..N /\ m + n <= N
    BY <1>0
  <2>2. f[m + n] # g[m + n]
    BY <1>2, <2>1
  <2>. HIDE DEF k
  <2>. DEFINE p == f[m + n]  q == g[m + n]  x == d[k]
  <2>3. p \in SUBSET Word /\ q \in SUBSET Word /\ x \in SUBSET Byte /\ e[k] = x
    BY <2>1 DEF IsRun, AreBytes, SameFrom
  <2>4. f[k] = Absorb(p, x) /\ g[k] = Absorb(q, x)
    BY <2>1, <2>3 DEF IsRun
  <2>. HIDE DEF p, q, x
  <2>5. Xor(Absorb(p, x), Absorb(q, x)) = Absorb(Xor(p, q), Xor(x, x))
    BY <2>3, AbsorbLinear
  <2>6. Xor(p, q) # {} /\ Xor(x, x) = {}
    BY <2>2, XorLaws DEF p, q
  <2>7. Xor(p, q) \in SUBSET Word
    BY <2>3, ShiftXor
  <2>8. Absorb(Xor(p, q), {}) # {}
    BY <2>6, <2>7, AbsorbZero
  <2>. QED
    BY <2>4, <2>5, <2>6, <2>8, XorLaws
<1>. HIDE DEF Good
<1>3. Nat \subseteq Good
  BY <1>1, <1>2, SetInduction
<1>4. N - m \in Nat /\ m + (N - m) = N
  BY <1>0
<1>5. N - m \in Good
  BY <1>3, <1>4
<1>. QED
  BY <1>4, <1>5, <1>0 DEF Good

(* `update` is the last accumulator. *)
LEMMA UpdateRun ==
  ASSUME NEW c \in SUBSET Word, NEW d, AreBytes(d, Len(d))
  PROVE  \E f : IsRun(f, c, d, Len(d)) /\ Update(c, d) = f[Len(d)]
<1>. DEFINE N == Len(d)
            Step(f, k) == IF k = 0 THEN c ELSE Absorb(f[k - 1], d[k])
            Rec(f) == f = [k \in 0..N |-> Step(f, k)]
            a == CHOOSE f : Rec(f)
<1>0. N \in Nat
  BY DEF AreBytes
<1>1. Update(c, d) = a[N]
  BY Zenon DEF Update
<1>2. PICK f : IsRun(f, c, d, N)
  BY RunExists
<1>. HIDE DEF N
<1>3. Rec(f)
  <2>1. ASSUME NEW k \in 0..N PROVE f[k] = Step(f, k)
    <3>1. k = 0 \/ k \in 1..N
      BY <1>0
    <3>. QED
      BY <3>1, <1>0, <1>2 DEF IsRun
  <2>2. f = [k \in 0..N |-> f[k]]
    BY <1>2 DEF IsRun
  <2>. HIDE DEF Step
  <2>. QED
    BY <2>1, <2>2
<1>4. Rec(a)
  <2>. HIDE DEF Rec
  <2>. QED
    BY <1>3
<1>. HIDE DEF a
<1>5. a[0] = c /\ \A k \in 1..N : a[k] = Absorb(a[k - 1], d[k])
  <2>1. ASSUME NEW k \in 0..N PROVE a[k] = Step(a, k)
    BY <1>4
  <2>2. 0 \in 0..N /\ \A k \in 1..N : k \in 0..N /\ k # 0
    BY <1>0
  <2>3. a[0] = c
    BY <2>1, <2>2
  <2>4. ASSUME NEW k \in 1..N PROVE a[k] = Absorb(a[k - 1], d[k])
    <3>1. k \in 0..N /\ k # 0
      BY <2>2
    <3>2. a[k] = Step(a, k)
      BY <2>1, <3>1
    <3>. HIDE DEF Rec
    <3>. QED
      BY <3>1, <3>2
  <2>. HIDE DEF Rec
  <2>. QED
    BY <2>3, <2>4
<1>6. \A k \in 0..N : a[k] \in SUBSET Word
  <2>. DEFINE Good == {n \in Nat : n <= N => a[n] = f[n]}
  <2>. HIDE DEF Rec, Step
  <2>1. 0 \in Good
    BY <1>2, <1>5 DEF IsRun
  <2>2. ASSUME NEW n \in Nat, n \in Good PROVE n + 1 \in Good
    <3>. SUFFICES ASSUME n + 1 <= N PROVE a[n + 1] = f[n + 1]
      OBVIOUS
    <3>1. n + 1 \in 1..N /\ (n + 1) - 1 = n /\ a[n] = f[n]
      BY <1>0, <2>2
    <3>. QED
      BY <3>1, <1>2, <1>5 DEF IsRun
  <2>. HIDE DEF Good
  <2>3. Nat \subseteq Good
    BY <2>1, <2>2, SetInduction
  <2>4. ASSUME NEW k \in 0..N PROVE a[k] \in SUBSET Word
    <3>1. k \in Good
      BY <1>0, <2>3
    <3>2. a[k] = f[k]
      BY <1>0, <3>1 DEF Good
    <3>. QED
      BY <3>2, <1>2 DEF IsRun
  <2>. QED
    BY <2>4
<1>7. a = [k \in 0..N |-> a[k]]
  <2>1. a = [k \in 0..N |-> Step(a, k)]
    BY <1>4
  <2>. HIDE DEF Rec, Step
  <2>2. DOMAIN a = 0..N
    BY <2>1
  <2>. QED
    BY <2>1, <2>2
<1>8. IsRun(a, c, d, N)
  <2>. HIDE DEF Rec, Step
  <2>1. a \in [0..N -> SUBSET Word]
    BY <1>6, <1>7
  <2>. QED
    BY <2>1, <1>5 DEF IsRun
<1>. QED
  BY <1>1, <1>8 DEF N

(* Four bytes at once. *)
ThirtyTwo(c) == Eight(Eight(Eight(Eight(c))))

(* Thirty-two steps lose no bit set.                                       *)
LEMMA ThirtyTwoKeeps ==
  ASSUME NEW c \in SUBSET Word
  PROVE  ThirtyTwo(c) = {} => c = {}
<1>1. \A x \in SUBSET Word : Eight(x) \in SUBSET Word /\ (Eight(x) = {} => x = {})
  BY EightLinear
<1>2. /\ Eight(c) \in SUBSET Word /\ Eight(Eight(c)) \in SUBSET Word
      /\ Eight(Eight(Eight(c))) \in SUBSET Word
  BY <1>1
<1>. QED
  BY <1>1, <1>2, Zenon DEF ThirtyTwo

(* The bytes of a word are bytes. *)
LEMMA BytesOfWord ==
  ASSUME NEW w \in SUBSET Word, NEW k \in 1..4
  PROVE  /\ LittleEndian(w)[k] \in SUBSET Byte
         /\ LittleEndian(w)[k] = ShiftRight(w, 8 * (k - 1)) \cap Byte
BY DEF LittleEndian

(* Four bytes of d are those of the word w. *)
WordAt(d, n, w) == \A k \in 1..4 : d[n + k] = LittleEndian(w)[k]

(* Absorbing the bytes of a word takes the state that differs from it by   *)
(* x to 32 steps of x: the part that equals the word is shifted out.       *)
LEMMA AbsorbWord ==
  ASSUME NEW c \in SUBSET Word, NEW w \in SUBSET Word, NEW f, NEW d, NEW n \in Nat,
         NEW N \in Nat, n + 4 <= N, NEW a, IsRun(f, a, d, N), f[n] = c,
         WordAt(d, n, w)
  PROVE  f[n + 4] = ThirtyTwo(Xor(c, w))
<1>. DEFINE W(i) == ShiftRight(w, 8 * i)  D(i) == Xor(f[n + i], W(i))
<1>1. ASSUME NEW i \in 0..3
      PROVE  D(i) \in SUBSET Word /\ D(i + 1) = Eight(D(i))
  <2>1. n + i \in 0..N /\ n + (i + 1) \in 1..N /\ (n + (i + 1)) - 1 = n + i /\ 8 * i \in Nat
        /\ 8 * (i + 1) = 8 * i + 8 /\ i + 1 \in 1..4 /\ (i + 1) - 1 = i
    OBVIOUS
  <2>2. f[n + i] \in SUBSET Word /\ f[n + (i + 1)] = Absorb(f[n + i], d[n + (i + 1)])
    BY <2>1 DEF IsRun
  <2>3. W(i) \in SUBSET Word
    <3>1. \A m \in Nat : ShiftRight(w, m) \in SUBSET Word
      BY ShiftXor
    <3>. QED
      BY <2>1, <3>1
  <2>4. W(i + 1) = ShiftRight(W(i), 8)
    BY <2>1, ShiftTwice
  <2>5. d[n + (i + 1)] = W(i) \cap Byte
    BY <2>1, BytesOfWord DEF WordAt
  <2>. DEFINE p == f[n + i]  v == W(i)  x == v \cap Byte
  <2>6. Absorb(v, x) = ShiftRight(v, 8)
    BY <2>3, AbsorbZero
  <2>7. x \in SUBSET Byte /\ p \in SUBSET Word /\ v \in SUBSET Word
    BY <2>2, <2>3
  <2>. HIDE DEF p, v, x
  <2>8. Absorb(Xor(p, v), Xor(x, x)) = Xor(Absorb(p, x), Absorb(v, x))
    BY <2>7, AbsorbLinear
  <2>9. Xor(x, x) = {}
    BY XorLaws
  <2>10. Xor(p, v) \in SUBSET Word
    BY <2>7, ShiftXor
  <2>11. Absorb(Xor(p, v), {}) = Eight(Xor(p, v))
    BY <2>10, AbsorbZero
  <2>12. Xor(Absorb(p, x), ShiftRight(v, 8)) = Eight(Xor(p, v))
    BY <2>6, <2>8, <2>9, <2>11
  <2>13. f[n + (i + 1)] = Absorb(p, x) /\ W(i + 1) = ShiftRight(v, 8)
    BY <2>2, <2>4, <2>5 DEF p, v, x
  <2>14. D(i) = Xor(p, v)
    BY DEF p, v
  <2>15. D(i + 1) = Xor(Absorb(p, x), ShiftRight(v, 8))
    BY <2>13
  <2>. HIDE DEF D
  <2>. QED
    BY <2>10, <2>12, <2>14, <2>15
<1>2. D(0) = Xor(c, w)
  <2>1. W(0) = w
    <3>1. ASSUME NEW x PROVE x \in ShiftRight(w, 0) <=> x \in w
      <4>1. x \in ShiftRight(w, 0) <=> x \in Word /\ x + 0 \in w
        BY ShiftIn
      <4>2. x \in Word => x + 0 = x
        BY DEF Word
      <4>. QED
        BY <4>1, <4>2
    <3>. QED
      BY <3>1
  <2>. QED
    BY <2>1
<1>3. D(4) = f[n + 4]
  <2>1. W(4) = {}
    <3>1. ASSUME NEW x PROVE x \notin ShiftRight(w, 32)
      <4>1. x \in ShiftRight(w, 32) <=> x \in Word /\ x + 32 \in w
        BY ShiftIn
      <4>. QED
        BY <4>1 DEF Word
    <3>. QED
      BY <3>1
  <2>. QED
    BY <2>1, XorLaws
<1>. HIDE DEF D
<1>4. D(1) = Eight(D(0)) /\ D(2) = Eight(D(1)) /\ D(3) = Eight(D(2)) /\ D(4) = Eight(D(3))
  <2>1. 0 + 1 = 1 /\ 1 + 1 = 2 /\ 2 + 1 = 3 /\ 3 + 1 = 4
    OBVIOUS
  <2>. QED
    BY <1>1, <2>1
<1>. QED
  BY <1>2, <1>3, <1>4 DEF ThirtyTwo

(* A string followed by the complement of its accumulator ends the same    *)
(* way whatever the string.                                                *)
LEMMA SealedEnds ==
  ASSUME NEW f, NEW d, NEW n \in Nat, NEW N \in Nat, N = n + 4, IsRun(f, Word, d, N),
         WordAt(d, n, Word \ f[n])
  PROVE  f[n + 4] = ThirtyTwo(Word)
<1>1. f[n] \in SUBSET Word
  BY DEF IsRun
<1>. DEFINE w == Word \ f[n]
<1>2. w \in SUBSET Word /\ Xor(f[n], w) = Word
  BY <1>1 DEF Xor
<1>. HIDE DEF w
<1>3. WordAt(d, n, w) /\ n + 4 <= N
  BY DEF w
<1>4. f[n + 4] = ThirtyTwo(Xor(f[n], w))
  BY <1>1, <1>2, <1>3, AbsorbWord
<1>. QED
  BY <1>2, <1>4

(* Any four bytes are those of a word. *)
LEMMA WordOfBytes ==
  ASSUME NEW t, \A k \in 1..4 : t[k] \in SUBSET Byte
  PROVE  \E w \in SUBSET Word :
           /\ \A k \in 1..4 : t[k] = LittleEndian(w)[k]
           /\ w = {} => \A k \in 1..4 : t[k] = {}
<1>. DEFINE w == {x \in Word : \E k \in 1..4 : x - 8 * (k - 1) \in t[k]}
<1>1. w \in SUBSET Word
  OBVIOUS
<1>2. ASSUME NEW k \in 1..4 PROVE t[k] = LittleEndian(w)[k]
  <2>1. LittleEndian(w)[k] = ShiftRight(w, 8 * (k - 1)) \cap Byte
    BY <1>1, BytesOfWord
  <2>2. ASSUME NEW x PROVE x \in t[k] <=> x \in ShiftRight(w, 8 * (k - 1)) \cap Byte
    <3>. DEFINE y == x + 8 * (k - 1)
    <3>1. x \in ShiftRight(w, 8 * (k - 1)) <=> x \in Word /\ y \in w
      BY <1>1, ShiftIn
    <3>2. ASSUME x \in Byte, NEW j \in 1..4, j # k PROVE y - 8 * (j - 1) \notin Byte
      BY <3>2 DEF Byte
    <3>3. ASSUME x \in Byte PROVE y \in Word /\ y - 8 * (k - 1) = x /\ x \in Word
      BY <3>3 DEF Byte, Word
    <3>4. ASSUME x \in Byte PROVE y \in w <=> x \in t[k]
      <4>. HIDE DEF y
      <4>1. y \in w <=> \E j \in 1..4 : y - 8 * (j - 1) \in t[j]
        BY <3>3, <3>4
      <4>. HIDE DEF w
      <4>2. ASSUME NEW j \in 1..4, y - 8 * (j - 1) \in t[j] PROVE j = k
        <5>1. t[j] \in SUBSET Byte
          OBVIOUS
        <5>2. y - 8 * (j - 1) \in Byte
          BY <4>2, <5>1
        <5>. QED
          BY <3>2, <3>4, <5>2
      <4>. QED
        BY <3>3, <3>4, <4>1, <4>2
    <3>5. t[k] \in SUBSET Byte
      OBVIOUS
    <3>. HIDE DEF y, w
    <3>. QED
      BY <3>1, <3>3, <3>4, <3>5
  <2>. QED
    BY <2>1, <2>2
<1>. HIDE DEF w
<1>3. ASSUME w = {}, NEW k \in 1..4 PROVE t[k] = {}
  <2>1. ShiftRight(w, 8 * (k - 1)) = {}
    <3>1. \A x : x \in ShiftRight(w, 8 * (k - 1)) => x + 8 * (k - 1) \in w
      BY <1>1, ShiftIn
    <3>. QED
      BY <3>1, <1>3
  <2>. QED
    BY <2>1, <1>1, <1>2, BytesOfWord
<1>. QED
  BY <1>1, <1>2, <1>3

(* The damage is four bytes of flips, not all empty, inside the string. *)
IsBurst(b) ==
  /\ b.at \in 1..(Len(Sealed) - 3) /\ b.flips \in [1..4 -> Flips]
  /\ \E k \in 1..4 : b.flips[k] # {}
BurstInv == burst # NoBurst => IsBurst(burst)

(* The sealed string: the body, then the four bytes of its checksum. *)
LEMMA SealedBytes ==
  /\ Len(Body) \in Nat /\ Len(Sealed) = Len(Body) + 4 /\ DOMAIN Sealed = 1..(Len(Body) + 4)
  /\ AreBytes(Body, Len(Body)) /\ AreBytes(Sealed, Len(Body) + 4)
  /\ \A k \in 1..Len(Body) : Sealed[k] = Body[k]
  /\ \A k \in 1..4 : Sealed[Len(Body) + k] = LittleEndian(Checksum(Body))[k]
  /\ Checksum(Body) \in SUBSET Word
<1>1. Body \in Seq(SUBSET Byte) /\ Len(Body) \in Nat
  BY DamageAssumption
<1>2. Checksum(Body) \in SUBSET Word
  BY DEF Checksum
<1>. DEFINE c == Checksum(Body)  t == LittleEndian(c)  n == Len(Body)
<1>3. \A k \in 1..4 : t[k] \in SUBSET Byte
  BY <1>2, BytesOfWord
<1>4. t \in [1..4 -> SUBSET Byte]
  BY <1>3 DEF LittleEndian
<1>. HIDE DEF t
<1>5. t \in Seq(SUBSET Byte) /\ Len(t) = 4
  <2>1. t \in Seq(SUBSET Byte)
    BY <1>4, SeqDef
  <2>. QED
    BY <1>4, <2>1, LenProperties
<1>6. Sealed = Body \o t
  BY DEF Sealed, t
<1>7. /\ Len(Sealed) = n + 4 /\ Sealed \in Seq(SUBSET Byte)
      /\ \A k \in 1..n : Sealed[k] = Body[k]
      /\ \A k \in 1..4 : Sealed[n + k] = t[k]
  <2>. HIDE DEF n
  <2>1. n \in Nat /\ n = Len(Body)
    BY <1>1 DEF n
  <2>2. /\ Body \o t \in Seq(SUBSET Byte) /\ Len(Body \o t) = n + 4
        /\ \A k \in 1..(n + 4) : (Body \o t)[k] = IF k <= n THEN Body[k] ELSE t[k - n]
    <3>. DEFINE U == SUBSET Byte
    <3>1. Body \in Seq(U) /\ t \in Seq(U)
      BY <1>1, <1>5
    <3>. HIDE DEF U
    <3>2. /\ Body \o t \in Seq(U) /\ Len(Body \o t) = Len(Body) + Len(t)
          /\ \A k \in 1..(Len(Body) + Len(t)) :
               (Body \o t)[k] = IF k <= Len(Body) THEN Body[k] ELSE t[k - Len(Body)]
      BY <3>1, ConcatProperties
    <3>. QED
      BY <1>5, <2>1, <3>2 DEF U
  <2>3. /\ \A k \in 1..n : k \in 1..(n + 4) /\ k <= n
        /\ \A k \in 1..4 : n + k \in 1..(n + 4) /\ ~(n + k <= n) /\ (n + k) - n = k
    BY <2>1
  <2>. QED
    BY <1>6, <2>2, <2>3
<1>8. DOMAIN Sealed = 1..(n + 4) /\ \A k \in 1..(n + 4) : Sealed[k] \in SUBSET Byte
  BY <1>7
<1>9. \A k \in 1..n : Body[k] \in SUBSET Byte
  BY <1>1
<1>. QED
  BY <1>1, <1>2, <1>7, <1>8, <1>9 DEF AreBytes, t

(* A burst changes the end of the accumulator, which every sealed string   *)
(* has in common.                                                          *)
LEMMA BurstNoticed == IsBurst(burst) => BurstsAreNoticed
<1>. DEFINE n == Len(Body)  S == Sealed  D == Damaged  at == burst.at  t == burst.flips
            sub == SubSeq(D, 1, n)  tail == SubSeq(D, n + 1, Len(S))
<1>. SUFFICES ASSUME IsBurst(burst), LittleEndian(Checksum(sub)) = tail PROVE FALSE
  BY DEF BurstsAreNoticed
<1>1. /\ n \in Nat /\ Len(S) = n + 4 /\ DOMAIN S = 1..(n + 4)
      /\ AreBytes(Body, n) /\ AreBytes(S, n + 4)
      /\ \A k \in 1..n : S[k] = Body[k]
      /\ \A k \in 1..4 : S[n + k] = LittleEndian(Checksum(Body))[k]
  BY SealedBytes
<1>2. at \in 1..(n + 1) /\ t \in [1..4 -> SUBSET Byte] /\ \E k \in 1..4 : t[k] # {}
  BY <1>1, DamageAssumption DEF IsBurst
<1>3. D = [k \in 1..(n + 4) |-> IF k - at \in 0..3 THEN Xor(S[k], t[k - at + 1]) ELSE S[k]]
  BY <1>1 DEF Damaged
<1>. HIDE DEF D, S, n, at, t
<1>4. \A k \in 1..(n + 4) : S[k] \in SUBSET Byte /\ D[k] \in SUBSET Byte
  <2>1. ASSUME NEW k \in 1..(n + 4) PROVE S[k] \in SUBSET Byte /\ D[k] \in SUBSET Byte
    <3>1. S[k] \in SUBSET Byte
      BY <1>1 DEF AreBytes
    <3>2. CASE k - at \in 0..3
      <4>1. k - at + 1 \in 1..4 /\ t[k - at + 1] \in SUBSET Byte
        BY <1>2, <3>2
      <4>2. D[k] = Xor(S[k], t[k - at + 1])
        BY <1>3, <3>2
      <4>. QED
        BY <3>1, <4>1, <4>2 DEF Xor
    <3>3. CASE ~(k - at \in 0..3)
      BY <1>3, <3>1, <3>3
    <3>. QED
      BY <3>2, <3>3
  <2>. QED
    BY <2>1
<1>5. AreBytes(D, n + 4) /\ D \in Seq(SUBSET Byte) /\ Len(D) = n + 4
  <2>1. D \in [1..(n + 4) -> SUBSET Byte]
    BY <1>3, <1>4
  <2>. QED
    BY <1>1, <1>4, <2>1 DEF AreBytes
<1>6. /\ Len(sub) = n /\ \A k \in 1..n : sub[k] = D[k]
      /\ Len(tail) = 4 /\ \A k \in 1..4 : tail[k] = D[n + k]
  BY <1>1, <1>5
<1>. HIDE DEF sub, tail
<1>7. AreBytes(sub, Len(sub))
  BY <1>1, <1>4, <1>6 DEF AreBytes
<1>0. Word \in SUBSET Word
  OBVIOUS
<1>8. PICK f : IsRun(f, Word, S, n + 4)
  BY <1>0, <1>1, RunExists
<1>9. PICK g : IsRun(g, Word, D, n + 4)
  BY <1>0, <1>5, RunExists
<1>10. f[n + 4] = ThirtyTwo(Word)
  <2>1. PICK h : IsRun(h, Word, Body, n) /\ Update(Word, Body) = h[n]
    BY <1>0, <1>1, UpdateRun DEF n
  <2>2. n <= n /\ n <= n + 4 /\ n + 4 \in Nat
    BY <1>1
  <2>3. h[n] = f[n]
    <3>1. SameFrom(Body, S, 1, n)
      BY <1>1 DEF SameFrom
    <3>. QED
      BY <1>1, <1>8, <2>1, <2>2, <3>1, SameRuns
  <2>4. Checksum(Body) = Word \ f[n]
    BY <2>1, <2>3 DEF Checksum
  <2>5. WordAt(S, n, Word \ f[n])
    BY <1>1, <2>4 DEF WordAt
  <2>. DEFINE N == n + 4
  <2>6. N = n + 4 /\ N \in Nat
    BY <2>2
  <2>. HIDE DEF N
  <2>7. f[N] = ThirtyTwo(Word)
    <3>1. IsRun(f, Word, S, N)
      BY <1>8, <2>6
    <3>2. f[n + 4] = ThirtyTwo(Word)
      BY <1>1, <2>5, <2>6, <3>1, SealedEnds
    <3>. QED
      BY <3>2, <2>6
  <2>. QED
    BY <2>6, <2>7
<1>11. g[n + 4] = ThirtyTwo(Word)
  <2>1. PICK h : IsRun(h, Word, sub, n) /\ Update(Word, sub) = h[n]
    BY <1>0, <1>6, <1>7, UpdateRun
  <2>2. n <= n /\ n <= n + 4 /\ n + 4 \in Nat
    BY <1>1
  <2>3. h[n] = g[n]
    <3>1. SameFrom(sub, D, 1, n)
      BY <1>6 DEF SameFrom
    <3>. QED
      BY <1>1, <1>9, <2>1, <2>2, <3>1, SameRuns
  <2>4. Checksum(sub) = Word \ g[n]
    BY <2>1, <2>3 DEF Checksum
  <2>5. WordAt(D, n, Word \ g[n])
    BY <1>6, <2>4 DEF WordAt
  <2>. DEFINE N == n + 4
  <2>6. N = n + 4 /\ N \in Nat
    BY <2>2
  <2>. HIDE DEF N
  <2>7. f[N] = f[N] /\ IsRun(g, Word, D, N)
    BY <1>9, <2>6
  <2>8. g[n + 4] = ThirtyTwo(Word)
    BY <1>1, <2>5, <2>6, <2>7, SealedEnds
  <2>. QED
    BY <2>8
<1>. DEFINE m == at - 1
<1>12. /\ m \in Nat /\ m + 4 \in 0..(n + 4) /\ m + 4 <= n + 4 /\ m <= n + 4 /\ n + 4 \in Nat
       /\ \A k \in 1..4 : m + k \in 1..(n + 4) /\ (m + k) - at \in 0..3 /\ (m + k) - at + 1 = k
       /\ \A k \in 1..m : k \in 1..(n + 4) /\ ~(k - at \in 0..3)
       /\ \A k \in ((m + 4) + 1)..(n + 4) : k \in 1..(n + 4) /\ ~(k - at \in 0..3)
  BY <1>1, <1>2
<1>. HIDE DEF m
<1>13. f[m] = g[m]
  <2>1. SameFrom(S, D, 1, m)
    BY <1>3, <1>12 DEF SameFrom
  <2>. QED
    BY <1>8, <1>9, <1>12, <2>1, SameRuns
<1>14. f[m + 4] # g[m + 4]
  <2>1. PICK w \in SUBSET Word : /\ \A k \in 1..4 : t[k] = LittleEndian(w)[k]
                                 /\ w = {} => \A k \in 1..4 : t[k] = {}
    BY <1>2, WordOfBytes
  <2>2. w # {}
    BY <1>2, <2>1
  <2>. DEFINE s(k) == S[m + k]
  <2>3. PICK v \in SUBSET Word : \A k \in 1..4 : S[m + k] = LittleEndian(v)[k]
    <3>. DEFINE u == [k \in 1..4 |-> S[m + k]]
    <3>1. \A k \in 1..4 : u[k] \in SUBSET Byte
      BY <1>4, <1>12
    <3>2. \E v \in SUBSET Word : \A k \in 1..4 : u[k] = LittleEndian(v)[k]
      <4>. HIDE DEF u
      <4>. QED
        BY <3>1, WordOfBytes
    <3>. QED
      BY <3>2
  <2>4. Xor(v, w) \in SUBSET Word
    BY ShiftXor
  <2>5. \A k \in 1..4 : D[m + k] = LittleEndian(Xor(v, w))[k]
    <3>1. ASSUME NEW k \in 1..4 PROVE D[m + k] = LittleEndian(Xor(v, w))[k]
      <4>1. D[m + k] = Xor(S[m + k], t[k])
        BY <1>3, <1>12
      <4>2. /\ LittleEndian(v)[k] = ShiftRight(v, 8 * (k - 1)) \cap Byte
            /\ LittleEndian(w)[k] = ShiftRight(w, 8 * (k - 1)) \cap Byte
            /\ LittleEndian(Xor(v, w))[k] = ShiftRight(Xor(v, w), 8 * (k - 1)) \cap Byte
        BY <2>4, BytesOfWord
      <4>. DEFINE a == ShiftRight(v, 8 * (k - 1))  b == ShiftRight(w, 8 * (k - 1))
      <4>3. ShiftRight(Xor(v, w), 8 * (k - 1)) = Xor(a, b)
        <5>1. \A j \in Nat : ShiftRight(Xor(v, w), j) = Xor(ShiftRight(v, j), ShiftRight(w, j))
          BY ShiftXor
        <5>2. 8 * (k - 1) \in Nat
          OBVIOUS
        <5>. QED
          BY <5>1, <5>2
      <4>. HIDE DEF a, b
      <4>4. Xor(a \cap Byte, b \cap Byte) = Xor(a, b) \cap Byte
        BY DEF Xor
      <4>. QED
        BY <2>1, <2>3, <4>1, <4>2, <4>3, <4>4 DEF a, b
    <3>. QED
      BY <3>1
  <2>. DEFINE c == f[m]
  <2>6. c \in SUBSET Word /\ f[m] = c /\ g[m] = c
    BY SMTT(30), <1>8, <1>12, <1>13 DEF IsRun
  <2>7. f[m + 4] = ThirtyTwo(Xor(c, v))
    <3>1. WordAt(S, m, v)
      BY <2>3 DEF WordAt
    <3>. HIDE DEF c
    <3>. QED
      BY <1>8, <1>12, <2>6, <3>1, AbsorbWord
  <2>8. g[m + 4] = ThirtyTwo(Xor(c, Xor(v, w)))
    <3>. DEFINE x == Xor(v, w)
    <3>. HIDE DEF x, c
    <3>1. x \in SUBSET Word /\ WordAt(D, m, x)
      BY <2>4, <2>5 DEF x, WordAt
    <3>2. g[m + 4] = ThirtyTwo(Xor(c, x))
      BY <1>9, <1>12, <2>6, <3>1, AbsorbWord
    <3>. QED
      BY <3>2 DEF x
  <2>. HIDE DEF c
  <2>9. Xor(Xor(c, v), Xor(c, Xor(v, w))) = w
    <3>1. ASSUME NEW x PROVE x \in Xor(Xor(c, v), Xor(c, Xor(v, w))) <=> x \in w
      BY DEF Xor
    <3>. QED
      BY <3>1
  <2>. DEFINE p == Xor(c, v)  q == Xor(c, Xor(v, w))
  <2>10. p \in SUBSET Word /\ q \in SUBSET Word
    BY <2>4, <2>6, ShiftXor
  <2>11. Xor(p, q) = w
    BY <2>9
  <2>12. f[m + 4] = ThirtyTwo(p) /\ g[m + 4] = ThirtyTwo(q)
    BY <2>7, <2>8
  <2>. HIDE DEF p, q
  <2>13. ThirtyTwo(Xor(p, q)) = Xor(ThirtyTwo(p), ThirtyTwo(q))
    <3>. DEFINE E(x) == Eight(x)
    <3>1. \A x, y \in SUBSET Word : E(x) \in SUBSET Word /\ E(Xor(x, y)) = Xor(E(x), E(y))
      BY EightLinear
    <3>. HIDE DEF E
    <3>2. /\ E(p) \in SUBSET Word /\ E(q) \in SUBSET Word
          /\ E(Xor(p, q)) = Xor(E(p), E(q))
      BY <2>10, <3>1
    <3>3. /\ E(E(p)) \in SUBSET Word /\ E(E(q)) \in SUBSET Word
          /\ E(E(Xor(p, q))) = Xor(E(E(p)), E(E(q)))
      BY <3>1, <3>2
    <3>4. /\ E(E(E(p))) \in SUBSET Word /\ E(E(E(q))) \in SUBSET Word
          /\ E(E(E(Xor(p, q)))) = Xor(E(E(E(p))), E(E(E(q))))
      BY <3>1, <3>3
    <3>5. E(E(E(E(Xor(p, q))))) = Xor(E(E(E(E(p)))), E(E(E(E(q)))))
      BY <3>1, <3>4
    <3>. QED
      BY <3>5 DEF E, ThirtyTwo
  <2>14. ThirtyTwo(w) # {}
    BY <2>2, ThirtyTwoKeeps
  <2>15. Xor(ThirtyTwo(p), ThirtyTwo(q)) # {}
    BY <2>11, <2>13, <2>14
  <2>. QED
    BY <2>12, <2>15, XorLaws
<1>15. f[n + 4] # g[n + 4]
  <2>1. SameFrom(S, D, (m + 4) + 1, n + 4)
    <3>1. ASSUME NEW k \in ((m + 4) + 1)..(n + 4) PROVE S[k] = D[k]
      <4>1. k \in 1..(n + 4) /\ ~(k - at \in 0..3)
        BY <1>1, <1>2 DEF m
      <4>. QED
        BY <1>3, <4>1
    <3>. QED
      BY <3>1 DEF SameFrom
  <2>. QED
    BY <1>1, <1>5, <1>8, <1>9, <1>12, <1>14, <2>1, DifferentRuns
<1>. QED
  BY <1>10, <1>11, <1>15

(* Damage within 32 consecutive bits of a sealed string never goes         *)
(* unnoticed, whatever the string.                                         *)
THEOREM BurstsAreNoticedHolds == Spec => []BurstsAreNoticed
<1>1. Init => BurstInv
  BY DEF Init, BurstInv
<1>2. BurstInv /\ [Next]_vars => BurstInv'
  <2>. SUFFICES ASSUME BurstInv, [Next]_vars PROVE BurstInv'
    OBVIOUS
  <2>1. CASE Alter
    BY <2>1 DEF Alter, BurstInv
  <2>2. CASE Damage
    <3>1. PICK at \in 1..(Len(Sealed) - 3), flips \in [1..4 -> Flips] :
            (\E k \in 1..4 : flips[k] # {}) /\ burst' = [at |-> at, flips |-> flips]
      BY <2>2 DEF Damage
    <3>2. IsBurst([at |-> at, flips |-> flips])
      BY <3>1 DEF IsBurst
    <3>. QED
      BY <3>1, <3>2 DEF BurstInv
  <2>3. CASE UNCHANGED vars
    BY <2>3 DEF vars, BurstInv
  <2>. QED
    BY <2>1, <2>2, <2>3 DEF Next
<1>3. BurstInv => BurstsAreNoticed
  BY BurstNoticed DEF BurstInv, BurstsAreNoticed
<1>. QED
  BY <1>1, <1>2, <1>3, PTL DEF Spec

----------------------------------------------------------------------------
(* Lookup through a directory, and what an accepted file is to the reader. *)

(* Keys of n entries, strictly in index order. *)
AreKeys(key, n) == \A i \in 1..n : key[i].z \in Int /\ key[i].x \in Int /\ key[i].y \in Int
InOrder(key, n) == \A i, j \in 1..n : i < j => KeyBefore(key[i], key[j])
OfZoom(key, n, z) == {i \in 1..n : key[i].z = z}
InRow(here, n) ==
  \E lo, hi \in 1..n : lo <= hi /\ here = lo..hi /\ Cardinality(here) = hi - lo + 1

(* Keys of which each comes before the next are in order. *)
LEMMA NeighboursInOrder ==
  ASSUME NEW n \in Nat, NEW key, AreKeys(key, n),
         \A i \in 2..n : KeyBefore(key[i - 1], key[i])
  PROVE  InOrder(key, n)
<1>. DEFINE Good == {m \in Nat : m <= n => InOrder(key, m)}
<1>1. 0 \in Good
  BY DEF InOrder
<1>2. ASSUME NEW m \in Nat, m \in Good PROVE m + 1 \in Good
  <2>. SUFFICES ASSUME m + 1 <= n PROVE InOrder(key, m + 1)
    OBVIOUS
  <2>1. InOrder(key, m)
    BY <1>2
  <2>2. ASSUME NEW i \in 1..(m + 1), NEW j \in 1..(m + 1), i < j PROVE KeyBefore(key[i], key[j])
    <3>1. CASE j <= m
      BY <2>1, <2>2, <3>1 DEF InOrder
    <3>2. CASE j = m + 1 /\ i = m
      <4>1. j \in 2..n /\ j - 1 = i
        BY <3>2
      <4>. QED
        BY <4>1
    <3>3. CASE j = m + 1 /\ i < m
      <4>1. m \in 1..m /\ i \in 1..m /\ m + 1 \in 2..n /\ (m + 1) - 1 = m
        BY <2>2, <3>3
      <4>2. KeyBefore(key[i], key[m])
        BY <2>1, <3>3, <4>1 DEF InOrder
      <4>3. KeyBefore(key[m], key[m + 1])
        BY <4>1
      <4>4. i \in 1..n /\ m \in 1..n /\ m + 1 \in 1..n
        BY <4>1
      <4>. DEFINE a == key[i]  b == key[m]  c == key[m + 1]
      <4>5. /\ a.z \in Int /\ a.x \in Int /\ a.y \in Int
            /\ b.z \in Int /\ b.x \in Int /\ b.y \in Int
            /\ c.z \in Int /\ c.x \in Int /\ c.y \in Int
        BY <4>4 DEF AreKeys
      <4>6. KeyBefore(a, b) /\ KeyBefore(b, c)
        BY <4>2, <4>3
      <4>. HIDE DEF a, b, c
      <4>7. KeyBefore(a, c)
        BY <4>5, <4>6 DEF KeyBefore
      <4>. QED
        BY <3>3, <4>7 DEF a, c
    <3>. QED
      BY <2>2, <3>1, <3>2, <3>3
  <2>. QED
    BY <2>2 DEF InOrder
<1>. HIDE DEF Good
<1>3. n \in Good
  BY <1>1, <1>2, SetInduction
<1>. QED
  BY <1>3 DEF Good

(* The entries of a zoom level stand in a row. *)
LEMMA ZoomInRow ==
  ASSUME NEW n \in Nat, NEW key, AreKeys(key, n), InOrder(key, n), NEW z \in Int,
         OfZoom(key, n, z) # {}
  PROVE  InRow(OfZoom(key, n, z), n)
<1>. DEFINE here == OfZoom(key, n, z)
<1>1. here \subseteq 1..n /\ \A i \in 1..n : i \in here <=> key[i].z = z
  BY DEF OfZoom
<1>. HIDE DEF here
<1>2. PICK lo \in here : \A i \in here : lo <= i
  <2>1. here \in SUBSET Nat /\ here # {}
    BY <1>1 DEF here
  <2>. QED
    BY <2>1, NatMin
<1>3. PICK hi \in here : \A i \in here : i <= hi
  <2>. DEFINE back == {n - i : i \in here}
  <2>1. back \in SUBSET Nat /\ back # {}
    BY <1>1 DEF here
  <2>2. PICK b \in back : \A c \in back : b <= c
    BY <2>1, NatMin
  <2>3. PICK h \in here : b = n - h
    BY <2>2
  <2>4. ASSUME NEW i \in here PROVE i <= h
    <3>1. n - i \in back /\ i \in Int /\ h \in Int
      BY <1>1
    <3>. QED
      BY SMTT(30), <2>2, <2>3, <3>1
  <2>. QED
    BY <2>4
<1>4. lo \in 1..n /\ hi \in 1..n /\ lo <= hi /\ key[lo].z = z /\ key[hi].z = z
  BY <1>1, <1>2, <1>3
<1>5. ASSUME NEW i \in lo..hi PROVE key[i].z = z
  <2>1. i \in 1..n
    BY <1>4
  <2>2. lo = i \/ KeyBefore(key[lo], key[i])
    BY <1>4, <2>1 DEF InOrder
  <2>3. hi = i \/ KeyBefore(key[i], key[hi])
    BY <1>4, <2>1 DEF InOrder
  <2>4. key[i].z \in Int /\ key[lo].z \in Int /\ key[hi].z \in Int
    BY <1>4, <2>1 DEF AreKeys
  <2>. QED
    BY <1>4, <2>2, <2>3, <2>4 DEF KeyBefore
<1>6. here = lo..hi
  <2>1. ASSUME NEW i \in lo..hi PROVE i \in here
    BY <1>1, <1>4, <1>5
  <2>2. ASSUME NEW i \in here PROVE i \in lo..hi
    BY <1>1, <1>2, <1>3, <1>4
  <2>. QED
    BY <2>1, <2>2
<1>7. Cardinality(lo..hi) = hi - lo + 1
  BY <1>4, FS_Interval
<1>. QED
  BY <1>4, <1>6, <1>7 DEF here, InRow

(* What the reader's lookup needs of the entry that belongs to number i:    *)
(* the directory of each level starts at its first entry and counts them.   *)
DirectoryOf(h, key, n) ==
  \A z \in Zooms :
    LET here == OfZoom(key, n, z)
    IN /\ h.zooms[z].count = Cardinality(here)
       /\ here # {} => \E first \in here : /\ \A i \in here : first <= i
                                           /\ h.zooms[z].offset = HeaderSize + EntrySize * (first - 1)

(* n entries in order, and a directory that fits them. *)
KeysOf(entries, n) == [i \in 1..n |-> entries[i].key]
Indexed(h, entries, n) ==
  /\ entries = [i \in 1..n |-> entries[i]] /\ h.index_offset = HeaderSize
  /\ AreKeys(KeysOf(entries, n), n) /\ InOrder(KeysOf(entries, n), n)
  /\ DirectoryOf(h, KeysOf(entries, n), n)
  /\ \A i \in 1..n : entries[i].key.z \in Zooms

LookupIn(h, entries, wanted) ==
  Reader!Lookup([zoomDir |-> h.zooms, indexOffset |-> h.index_offset, entries |-> entries], wanted)
SameKey(a, b) == a.z = b.z /\ a.x = b.x /\ a.y = b.y

(* Through a directory that fits the index, the reader finds each entry.   *)
LEMMA LookupFinds ==
  ASSUME NEW n \in Nat, NEW h, NEW entries, Indexed(h, entries, n), NEW i \in 1..n,
         NEW wanted, SameKey(wanted, entries[i].key)
  PROVE  LookupIn(h, entries, wanted) = i
<1>. DEFINE key == KeysOf(entries, n)
<1>a. /\ entries = [j \in 1..n |-> entries[j]] /\ h.index_offset = HeaderSize
      /\ AreKeys(key, n) /\ InOrder(key, n) /\ DirectoryOf(h, key, n)
      /\ \A j \in 1..n : key[j].z \in Zooms /\ key[j] = entries[j].key
      /\ wanted.z = key[i].z /\ wanted.x = key[i].x /\ wanted.y = key[i].y
  BY DEF Indexed, KeysOf, SameKey
<1>. HIDE DEF key
<1>1. Len(entries) = n
  <2>. DEFINE S == {entries[j] : j \in 1..n}
  <2>1. entries \in [1..n -> S]
    BY <1>a
  <2>. HIDE DEF S
  <2>2. entries \in Seq(S)
    BY <2>1, SeqDef
  <2>. QED
    BY <2>1, <2>2, LenProperties
<1>. DEFINE z == key[i].z  here == OfZoom(key, n, z)
<1>2. z \in Zooms /\ z \in Int /\ z < 24 /\ i \in here
  <2>1. z \in Zooms
    BY <1>a
  <2>2. i \in here
    BY DEF OfZoom
  <2>. HIDE DEF z
  <2>. QED
    BY <2>1, <2>2 DEF Zooms
<1>3. PICK lo, hi \in 1..n : lo <= hi /\ here = lo..hi /\ Cardinality(here) = hi - lo + 1
  <2>1. here # {}
    BY <1>2
  <2>. HIDE DEF z
  <2>2. AreKeys(key, n) /\ InOrder(key, n) /\ n \in Nat
    BY <1>a
  <2>3. InRow(here, n)
    BY <1>2, <2>1, <2>2, ZoomInRow, Zenon
  <2>. QED
    BY <2>3 DEF InRow
<1>4. /\ h.zooms[z].count = hi - lo + 1
      /\ h.zooms[z].offset = HeaderSize + EntrySize * (lo - 1)
  <2>1. PICK first \in here : /\ \A j \in here : first <= j
                              /\ h.zooms[z].offset = HeaderSize + EntrySize * (first - 1)
    BY <1>2, <1>a DEF DirectoryOf
  <2>2. h.zooms[z].count = Cardinality(here)
    BY <1>2, <1>a DEF DirectoryOf
  <2>3. first = lo
    <3>. HIDE DEF here
    <3>1. lo \in here /\ first \in lo..hi
      BY <1>3, <2>1
    <3>2. first <= lo
      BY <2>1, <3>1
    <3>. QED
      BY <1>3, <3>1, <3>2
  <2>. QED
    BY <1>3, <2>1, <2>2, <2>3
<1>. DEFINE opened == [zoomDir |-> h.zooms, indexOffset |-> h.index_offset, entries |-> entries]
            dir == h.zooms[z]
            start == (dir.offset - HeaderSize) \div EntrySize
            end == start + dir.count
            hits == {j \in (start + 1)..end : entries[j].key.x = wanted.x /\ entries[j].key.y = wanted.y}
<1>5. start = lo - 1 /\ end = hi /\ dir.count # 0 /\ ~(dir.offset < HeaderSize)
  BY <1>3, <1>4 DEF HeaderSize, EntrySize
<1>6. hits = {i}
  <2>1. start + 1 = lo
    BY <1>3, <1>5
  <2>2. i \in lo..hi
    BY <1>2, <1>3
  <2>3. entries[i].key.x = wanted.x /\ entries[i].key.y = wanted.y
    BY <1>a
  <2>4. ASSUME NEW j \in lo..hi, entries[j].key.x = wanted.x, entries[j].key.y = wanted.y PROVE j = i
    <3>1. j \in 1..n /\ j \in here
      BY <1>3
    <3>2. key[j].z = z /\ key[j].x = key[i].x /\ key[j].y = key[i].y
      BY <1>a, <2>4, <3>1 DEF OfZoom
    <3>3. key[i].z \in Int /\ key[i].x \in Int /\ key[i].y \in Int
      BY <1>a DEF AreKeys
    <3>4. ~KeyBefore(key[i], key[j]) /\ ~KeyBefore(key[j], key[i])
      BY <3>2, <3>3 DEF KeyBefore
    <3>5. ~(i < j) /\ ~(j < i)
      BY <1>a, <3>1, <3>4 DEF InOrder
    <3>. QED
      BY <3>1, <3>5
  <2>. HIDE DEF start, end
  <2>. QED
    BY <1>5, <2>1, <2>2, <2>3, <2>4
<1>7. (CHOOSE j \in hits : TRUE) = i
  <2>1. (CHOOSE j \in {i} : TRUE) = i
    OBVIOUS
  <2>. QED
    BY <1>6, <2>1
<1>. DEFINE s2 == (opened.zoomDir[wanted.z].offset - opened.indexOffset) \div 20
            e2 == s2 + opened.zoomDir[wanted.z].count
            h2 == {j \in (s2 + 1)..e2 : opened.entries[j].key.x = wanted.x /\ opened.entries[j].key.y = wanted.y}
<1>8. s2 = start /\ e2 = end /\ h2 = hits
  BY <1>a DEF EntrySize
<1>9. Reader!Lookup(opened, wanted) =
        IF wanted.z >= 24 \/ opened.zoomDir[wanted.z].count = 0 THEN 0
        ELSE IF opened.zoomDir[wanted.z].offset < opened.indexOffset \/ e2 > Len(opened.entries)
               THEN -1
             ELSE IF h2 = {} THEN 0 ELSE CHOOSE j \in h2 : TRUE
  BY DEF Reader!Lookup, Reader!EntrySize, Reader!ZoomOffsetsCount
<1>10. /\ opened.zoomDir[wanted.z] = dir /\ opened.indexOffset = HeaderSize /\ Len(opened.entries) = n
       /\ wanted.z = z
  BY <1>1, <1>a
<1>. HIDE DEF opened, s2, e2, h2, start, end, hits, dir, z
<1>11. ~(wanted.z >= 24 \/ dir.count = 0) /\ ~(dir.offset < HeaderSize \/ e2 > n)
  BY <1>2, <1>3, <1>5, <1>8, <1>10
<1>12. Reader!Lookup(opened, wanted) = CHOOSE j \in h2 : TRUE
  BY <1>6, <1>8, <1>9, <1>10, <1>11
<1>. QED
  BY <1>7, <1>8, <1>12 DEF opened, LookupIn

(* What is read of a string of bytes are numbers. *)
LEMMA WordsRead ==
  ASSUME NEW f \in Seq(Octet), NEW at \in Nat, at + 4 <= Len(f)
  PROVE  Word4(f, at) \in 0..Beyond /\ Beyond \in Nat
<1>1. f[at + 1] \in Octet /\ f[at + 2] \in Octet /\ f[at + 3] \in Octet /\ f[at + 4] \in Octet
  <2>1. at + 1 \in 1..Len(f) /\ at + 2 \in 1..Len(f) /\ at + 3 \in 1..Len(f) /\ at + 4 \in 1..Len(f)
    OBVIOUS
  <2>. QED
    BY <2>1
<1>. DEFINE a == f[at + 1]  b == f[at + 2]  c == f[at + 3]  d == f[at + 4]
<1>2. Word4(f, at) = IF d >= Top THEN Beyond ELSE a + 256 * b + 65536 * c + 16777216 * d
  BY DEF Word4, Word2
<1>3. a \in 0..255 /\ b \in 0..255 /\ c \in 0..255 /\ d \in 0..255
  BY <1>1 DEF Octet
<1>. HIDE DEF a, b, c, d
<1>4. Top \in 1..256
  BY TopAssumption
<1>. QED
  BY <1>2, <1>3, <1>4 DEF Beyond

(* Rounding up to a multiple of four. *)
LEMMA AlignUps ==
  ASSUME NEW v \in Nat
  PROVE  AlignUp(v) \in Nat /\ v <= AlignUp(v) /\ AlignUp(v) <= v + 3 /\ AlignUp(v) % 4 = 0
BY DEF AlignUp

(* A number of four-byte rows aligned stays where it is, and carries over. *)
LEMMA AlignFrom ==
  ASSUME NEW v \in Nat, NEW w \in Nat, v % 4 = 0
  PROVE  AlignUp(v) = v /\ AlignUp(v + w) = v + AlignUp(w)
BY DEF AlignUp

(* A byte is a number. *)
LEMMA OctetsAreNumbers == ASSUME NEW o \in Octet PROVE o \in Int /\ o \in Nat
BY DEF Octet

(* The keys of an index are numbers if its entries lie in the file. *)
LEMMA KeysRead ==
  ASSUME NEW f \in Seq(Octet), NEW n \in Nat, HeaderSize + EntrySize * n <= Len(f),
         NEW i \in 1..n
  PROVE  LET e == Entry(f, HeaderSize + EntrySize * (i - 1))
         IN /\ e.key.z \in Int /\ e.key.x \in Int /\ e.key.y \in Int
            /\ e.offset \in Nat /\ e.length \in Nat
<1>. DEFINE at == HeaderSize + EntrySize * (i - 1)
<1>1. at \in Nat /\ at + 20 <= Len(f)
  BY DEF HeaderSize, EntrySize
<1>. HIDE DEF at
<1>2. Word4(f, at + 4) \in Nat /\ Word4(f, at + 8) \in Nat
  BY <1>1, WordsRead
<1>3. Word4(f, at + 12) \in Nat /\ Word4(f, at + 16) \in Nat
  BY <1>1, WordsRead
<1>4. Byte1(f, at) \in Int
  <2>1. at + 1 \in 1..Len(f)
    BY <1>1
  <2>2. f[at + 1] \in Octet
    BY <2>1
  <2>3. Byte1(f, at) \in Octet
    BY <2>2 DEF Byte1
  <2>. QED
    BY <2>3, OctetsAreNumbers
<1>. QED
  BY <1>2, <1>3, <1>4 DEF Entry, at

(* A file the validator accepts is opened, and every entry found. *)
LEMMA AcceptedIsRead ==
  ASSUME NEW f \in Seq(Octet), Accepts(f), Strict(f)
  PROVE  /\ Opens(f)
         /\ LET entries == Entries(f, Decode(f, ReaderLayout))
            IN \A i \in DOMAIN entries : Found(f, entries[i].key) = i
<1>. DEFINE h == Decode(f, ReaderLayout)  entries == Entries(f, h)  n == h.tile_count
            key == KeysOf(entries, n)
<1>1. ValidatorLayout = ReaderLayout
  BY DEF ValidatorLayout, ReaderLayout
<1>2. /\ Len(f) >= HeaderSize /\ HeaderValid(f, h)
      /\ EntriesValid(h, entries) /\ DirectoryValid(h, entries)
      /\ SectionsValid(f, h.extensions_offset)
  BY <1>1 DEF Accepts
<1>3. n \in Nat
  <2>1. n = Word4(f, 88)
    BY DEF Decode, ReaderLayout
  <2>. QED
    BY <1>2, <2>1, WordsRead DEF HeaderSize
<1>4. h.extensions_offset \in Nat
  <2>1. h.extensions_offset = Word4(f, 288)
    BY DEF Decode, ReaderLayout
  <2>. QED
    BY <1>2, <2>1, WordsRead DEF HeaderSize
<1>5. entries = [i \in 1..n |-> Entry(f, h.index_offset + EntrySize * (i - 1))]
  BY DEF Entries
<1>6. Strict(f) <=> /\ \A i \in DOMAIN entries : entries[i].flags = 0
                    /\ SectionsValid(f, h.extensions_offset) => SectionsRead(f, h.extensions_offset)
  BY DEF Strict
<1>7. Opens(f) <=>
        /\ Len(f) >= HeaderSize
        /\ HeaderReads(f, h)
        /\ h.index_offset = HeaderSize
        /\ h.index_offset + n * EntrySize <= Len(f) + CrcSize
        /\ \A i \in 1..n : EntryReads(f, entries[i])
        /\ h.extensions_offset <= CrcOffset(f)
        /\ SectionsRead(f, h.extensions_offset)
  BY DEF Opens
<1>8. \A k : Found(f, k) = LookupIn(h, entries, k)
  BY DEF Found, LookupIn
<1>. HIDE DEF h, n, entries
<1>9. /\ h.index_offset = HeaderSize /\ h.extensions_offset <= Len(f)
      /\ HeaderSize + EntrySize * n <= BlobStart(n) /\ BlobStart(n) <= h.extensions_offset
      /\ BlobStart(n) \in Nat
  <2>1. /\ h.index_offset = HeaderSize /\ h.extensions_offset >= BlobStart(n)
        /\ h.extensions_offset <= Len(f)
    BY <1>2 DEF HeaderValid, CrcOffset, n
  <2>. DEFINE v == HeaderSize + n * EntrySize
  <2>2. v \in Nat /\ HeaderSize + EntrySize * n = v
    BY <1>3 DEF HeaderSize, EntrySize
  <2>3. BlobStart(n) = AlignUp(v)
    BY DEF BlobStart
  <2>. HIDE DEF v
  <2>4. AlignUp(v) \in Nat /\ v <= AlignUp(v)
    BY <2>2, AlignUps
  <2>. QED
    BY <1>4, <2>1, <2>2, <2>3, <2>4
<1>10. HeaderReads(f, h)
  BY <1>2 DEF HeaderValid, HeaderReads, VersionSupported
<1>11. \A i \in 1..n : /\ entries[i] = Entry(f, HeaderSize + EntrySize * (i - 1))
                       /\ entries[i].key.z \in Int /\ entries[i].key.x \in Int
                       /\ entries[i].key.y \in Int
                       /\ entries[i].offset \in Nat /\ entries[i].length \in Nat
  <2>1. HeaderSize + EntrySize * n <= Len(f)
    <3>1. Len(f) \in Nat /\ HeaderSize + EntrySize * n \in Nat
      BY <1>3 DEF HeaderSize, EntrySize
    <3>. QED
      BY <1>4, <1>9, <3>1
  <2>2. ASSUME NEW i \in 1..n
        PROVE /\ entries[i] = Entry(f, HeaderSize + EntrySize * (i - 1))
              /\ entries[i].key.z \in Int /\ entries[i].key.x \in Int
              /\ entries[i].key.y \in Int
              /\ entries[i].offset \in Nat /\ entries[i].length \in Nat
    <3>1. entries[i] = Entry(f, HeaderSize + EntrySize * (i - 1))
      BY <1>5, <1>9
    <3>. DEFINE e == Entry(f, HeaderSize + EntrySize * (i - 1))
    <3>2. /\ e.key.z \in Int /\ e.key.x \in Int /\ e.key.y \in Int
          /\ e.offset \in Nat /\ e.length \in Nat
      BY <1>3, <2>1, KeysRead
    <3>. HIDE DEF e
    <3>. QED
      BY <3>1, <3>2 DEF e
  <2>. QED
    BY <2>2
<1>12. DOMAIN entries = 1..n /\ entries = [i \in 1..n |-> entries[i]]
  BY <1>5
<1>13. \A i \in 1..n : /\ i > 1 => KeyBefore(entries[i - 1].key, entries[i].key)
                       /\ entries[i].reserved = 0 /\ entries[i].compression = 0
                       /\ entries[i].key.z \in Zooms
                       /\ entries[i].offset + entries[i].length <= h.extensions_offset
  BY <1>2, <1>12 DEF EntriesValid
<1>14. \A i \in 1..n : EntryReads(f, entries[i])
  <2>1. ASSUME NEW i \in 1..n PROVE EntryReads(f, entries[i])
    <3>1. entries[i].flags = 0
      BY <1>6, <1>12
    <3>2. entries[i].offset + entries[i].length <= Len(f)
      BY <1>4, <1>9, <1>11, <1>13
    <3>. QED
      BY <1>13, <3>1, <3>2 DEF EntryReads, CrcOffset
  <2>. QED
    BY <2>1
<1>15. Opens(f)
  <2>1. h.index_offset + n * EntrySize <= Len(f) + CrcSize
    <3>1. Len(f) \in Nat
      OBVIOUS
    <3>2. n * EntrySize \in Nat /\ n * EntrySize = EntrySize * n /\ HeaderSize \in Nat
      BY <1>3 DEF HeaderSize, EntrySize
    <3>. QED
      BY <1>4, <1>9, <3>1, <3>2 DEF CrcSize
  <2>. QED
    BY <1>2, <1>6, <1>7, <1>9, <1>10, <1>14, <2>1 DEF CrcOffset
<1>16. \A i \in 1..n : key[i] = entries[i].key
  BY DEF KeysOf
<1>. HIDE DEF key
<1>17. AreKeys(key, n)
  BY <1>11, <1>16 DEF AreKeys
<1>18. InOrder(key, n)
  <2>1. ASSUME NEW i \in 2..n PROVE KeyBefore(key[i - 1], key[i])
    <3>1. i \in 1..n /\ i - 1 \in 1..n /\ i > 1
      BY <1>3
    <3>. QED
      BY <1>13, <1>16, <3>1
  <2>. QED
    BY <1>3, <1>17, <2>1, NeighboursInOrder
<1>19. DirectoryOf(h, key, n)
  <2>1. ASSUME NEW z \in Zooms
        PROVE  /\ h.zooms[z].count = Cardinality(OfZoom(key, n, z))
               /\ OfZoom(key, n, z) # {} =>
                    \E first \in OfZoom(key, n, z) :
                      /\ \A i \in OfZoom(key, n, z) : first <= i
                      /\ h.zooms[z].offset = HeaderSize + EntrySize * (first - 1)
    <3>. DEFINE here == OfZoom(key, n, z)
    <3>1. here = {i \in DOMAIN entries : entries[i].key.z = z}
      BY <1>12, <1>16 DEF OfZoom
    <3>2. /\ h.zooms[z].count = Cardinality(here)
          /\ h.zooms[z].offset =
               IF here = {} THEN 0
               ELSE h.index_offset + EntrySize * ((CHOOSE i \in here : \A j \in here : i <= j) - 1)
      BY <1>2, <3>1, Zenon DEF DirectoryValid
    <3>3. here \in SUBSET Nat
      BY <1>3 DEF OfZoom
    <3>. HIDE DEF here
    <3>4. ASSUME here # {}
          PROVE \E first \in here : /\ \A i \in here : first <= i
                                    /\ h.zooms[z].offset = HeaderSize + EntrySize * (first - 1)
      <4>. DEFINE first == CHOOSE i \in here : \A j \in here : i <= j
      <4>1. first \in here /\ \A j \in here : first <= j
        <5>1. \E i \in here : \A j \in here : i <= j
          BY <3>3, <3>4, NatMin
        <5>. QED
          BY <5>1
      <4>2. h.zooms[z].offset = HeaderSize + EntrySize * (first - 1)
        BY <1>9, <3>2, <3>4
      <4>. QED
        BY <4>1, <4>2
    <3>. QED
      BY <3>2, <3>4 DEF here
  <2>. QED
    BY <2>1 DEF DirectoryOf
<1>20. ASSUME NEW i \in DOMAIN entries PROVE Found(f, entries[i].key) = i
  <2>1. i \in 1..n /\ key[i] = entries[i].key
    BY <1>12, <1>16, <1>20
  <2>2. SameKey(entries[i].key, entries[i].key)
    BY DEF SameKey
  <2>3. Indexed(h, entries, n)
    BY <1>9, <1>12, <1>13, <1>17, <1>18, <1>19 DEF Indexed, key
  <2>. QED
    BY <1>3, <1>8, <2>1, <2>2, <2>3, LookupFinds
<1>. QED
  BY <1>15, <1>20 DEF h, entries

----------------------------------------------------------------------------
(* Where everything stands in a finished pack.                             *)

(* Two strings of bytes one after the other. *)
IsJoin(c, a, m, b, n) ==
  /\ c \in Seq(Octet) /\ Len(c) = m + n
  /\ \A k \in 1..m : c[k] = a[k]
  /\ \A k \in 1..n : c[m + k] = b[k]

(* What stands where in the two together. *)
LEMMA Joined ==
  ASSUME NEW a \in Seq(Octet), NEW b \in Seq(Octet), NEW m, m = Len(a), NEW n, n = Len(b)
  PROVE  IsJoin(a \o b, a, m, b, n)
<1>. DEFINE O == Octet  c == a \o b
<1>1. a \in Seq(O) /\ b \in Seq(O) /\ m \in Nat /\ n \in Nat
  OBVIOUS
<1>. HIDE DEF O
<1>2. /\ c \in Seq(O) /\ Len(c) = m + n
      /\ \A k \in 1..(m + n) : c[k] = IF k <= m THEN a[k] ELSE b[k - m]
  BY <1>1, ConcatProperties
<1>. HIDE DEF c
<1>3. ASSUME NEW k \in 1..m PROVE c[k] = a[k]
  BY <1>1, <1>2
<1>4. ASSUME NEW k \in 1..n PROVE c[m + k] = b[k]
  <2>1. m + k \in 1..(m + n) /\ ~(m + k <= m) /\ m + k - m = k
    BY <1>1
  <2>. QED
    BY <1>2, <2>1
<1>. QED
  BY <1>2, <1>3, <1>4 DEF IsJoin, O, c

(* A function on 1..n into the bytes is a string of n bytes. *)
LEMMA BytesOfFunction ==
  ASSUME NEW n \in Nat, NEW s \in [1..n -> Octet]
  PROVE  s \in Seq(Octet) /\ Len(s) = n
<1>. DEFINE O == Octet
<1>1. s \in [1..n -> O]
  OBVIOUS
<1>. HIDE DEF O
<1>2. s \in Seq(O)
  BY <1>1, SeqDef
<1>3. Len(s) = n
  BY <1>1, <1>2, LenProperties
<1>. QED
  BY <1>2, <1>3 DEF O

(* n zeros. *)
LEMMA ZerosAre ==
  ASSUME NEW n \in Nat
  PROVE  Zeros(n) \in Seq(Octet) /\ Len(Zeros(n)) = n /\ \A k \in 1..n : Zeros(n)[k] = 0
<1>1. 0 \in Octet
  BY DEF Octet
<1>2. Zeros(n) \in [1..n -> Octet] /\ \A k \in 1..n : Zeros(n)[k] = 0
  BY <1>1 DEF Zeros
<1>. QED
  BY <1>2, BytesOfFunction

(* Two and four bytes of a number. *)
IsLE(v) ==
  /\ LE(v, 2) \in Seq(Octet) /\ Len(LE(v, 2)) = 2
  /\ LE(v, 2)[1] = v % 256 /\ LE(v, 2)[2] = (v \div 256) % 256
  /\ LE(v, 4) \in Seq(Octet) /\ Len(LE(v, 4)) = 4
  /\ LE(v, 4)[1] = v % 256 /\ LE(v, 4)[2] = (v \div 256) % 256
  /\ LE(v, 4)[3] = (v \div 65536) % 256 /\ LE(v, 4)[4] = (v \div 16777216) % 256

(* The bytes of every number are so. *)
LEMMA LEBytes == ASSUME NEW v \in Int PROVE IsLE(v)
<1>. DEFINE d(k) == (v \div Places[k]) % 256
<1>1. /\ d(1) = v % 256 /\ d(2) = (v \div 256) % 256
      /\ d(3) = (v \div 65536) % 256 /\ d(4) = (v \div 16777216) % 256
  BY DEF Places
<1>2. d(1) \in Octet /\ d(2) \in Octet /\ d(3) \in Octet /\ d(4) \in Octet
  <2>. HIDE DEF d
  <2>. QED
    BY <1>1 DEF Octet
<1>3. LE(v, 2) = [k \in 1..2 |-> d(k)] /\ LE(v, 4) = [k \in 1..4 |-> d(k)]
  BY DEF LE
<1>. HIDE DEF d
<1>4. LE(v, 2) \in [1..2 -> Octet] /\ LE(v, 4) \in [1..4 -> Octet]
  BY <1>2, <1>3
<1>5. LE(v, 2) \in Seq(Octet) /\ Len(LE(v, 2)) = 2 /\ LE(v, 4) \in Seq(Octet) /\ Len(LE(v, 4)) = 4
  BY <1>4, BytesOfFunction
<1>. QED
  BY <1>1, <1>3, <1>5 DEF IsLE

(* Bytes padded with zeros to a multiple of four. *)
LEMMA PaddedBytes ==
  ASSUME NEW b \in Seq(Octet)
  PROVE  /\ Padded(b) \in Seq(Octet) /\ Len(Padded(b)) = AlignUp(Len(b))
         /\ AlignUp(Len(b)) \in Nat /\ Len(b) <= AlignUp(Len(b))
         /\ \A k \in 1..Len(b) : Padded(b)[k] = b[k]
         /\ \A k \in (Len(b) + 1)..AlignUp(Len(b)) : Padded(b)[k] = 0
<1>. DEFINE n == Len(b)  m == AlignUp(n)
<1>1. n \in Nat /\ m \in Nat /\ n <= m /\ m - n \in Nat
  <2>1. n \in Nat
    OBVIOUS
  <2>. HIDE DEF n
  <2>2. m \in Nat /\ n <= m
    BY <2>1, AlignUps
  <2>. QED
    BY <2>1, <2>2
<1>. DEFINE z == Zeros(m - n)
<1>2. Padded(b) = b \o z
  BY DEF Padded
<1>3. z \in Seq(Octet) /\ Len(z) = m - n /\ \A k \in 1..(m - n) : z[k] = 0
  BY <1>1, ZerosAre
<1>. HIDE DEF z, m, n
<1>4. IsJoin(b \o z, b, n, z, m - n)
  BY <1>3, Joined DEF n
<1>5. ASSUME NEW k \in (n + 1)..m PROVE Padded(b)[k] = 0
  <2>1. k - n \in 1..(m - n) /\ n + (k - n) = k
    BY <1>1
  <2>2. (b \o z)[n + (k - n)] = z[k - n]
    BY <1>4, <2>1 DEF IsJoin
  <2>. QED
    BY <1>2, <1>3, <2>1, <2>2
<1>6. Len(Padded(b)) = m
  BY <1>1, <1>2, <1>4 DEF IsJoin
<1>. QED
  BY <1>1, <1>2, <1>4, <1>5, <1>6 DEF IsJoin, n, m

(* A section: its tag, the length of its payload, the payload padded.      *)
LEMMA SectionBytes ==
  ASSUME NEW s \in Sections
  PROVE  LET n == Len(s.payload)
         IN /\ WriteSection(s) \in Seq(Octet) /\ n \in Nat
            /\ Len(WriteSection(s)) = 8 + AlignUp(n)
            /\ \A k \in 1..4 : WriteSection(s)[k] = s.tag[k] /\ WriteSection(s)[4 + k] = LE(n, 4)[k]
            /\ \A k \in 1..AlignUp(n) : WriteSection(s)[8 + k] = Padded(s.payload)[k]
<1>. DEFINE n == Len(s.payload)  a == s.tag  b == LE(n, 4)  c == Padded(s.payload)
<1>1. s.payload \in Seq(Octet) /\ n \in Nat
  BY DEF Sections
<1>2. a \in Seq(Octet) /\ Len(a) = 4
  <2>1. a \in [1..4 -> Octet]
    BY DEF Sections
  <2>. QED
    BY <2>1, BytesOfFunction
<1>3. b \in Seq(Octet) /\ Len(b) = 4
  <2>1. IsLE(n)
    BY <1>1, LEBytes
  <2>. HIDE DEF n
  <2>. QED
    BY <2>1 DEF IsLE
<1>4. c \in Seq(Octet) /\ Len(c) = AlignUp(n) /\ AlignUp(n) \in Nat
  BY <1>1, PaddedBytes
<1>5. WriteSection(s) = a \o b \o c
  BY DEF WriteSection
<1>. HIDE DEF a, b, c, n
<1>. DEFINE ab == a \o b
<1>6. IsJoin(a \o b, a, 4, b, 4)
  BY <1>2, <1>3, Joined
<1>. HIDE DEF ab
<1>7. ab \in Seq(Octet) /\ Len(ab) = 8 /\ \A k \in 1..4 : ab[k] = a[k] /\ ab[4 + k] = b[k]
  <2>1. IsJoin(ab, a, 4, b, 4)
    BY <1>6 DEF ab
  <2>2. /\ ab \in Seq(Octet) /\ Len(ab) = 4 + 4
        /\ \A k \in 1..4 : ab[k] = a[k]
        /\ \A k \in 1..4 : ab[4 + k] = b[k]
    BY <2>1 DEF IsJoin
  <2>. QED
    BY <2>2
<1>8. IsJoin(ab \o c, ab, 8, c, AlignUp(n))
  BY <1>4, <1>7, Joined
<1>9. WriteSection(s) = ab \o c
  BY <1>5 DEF ab
<1>10. \A k \in 1..4 : k \in 1..8 /\ 4 + k \in 1..8
  OBVIOUS
<1>11. /\ WriteSection(s) \in Seq(Octet) /\ Len(WriteSection(s)) = 8 + AlignUp(n)
       /\ \A k \in 1..4 : WriteSection(s)[k] = a[k] /\ WriteSection(s)[4 + k] = b[k]
       /\ \A k \in 1..AlignUp(n) : WriteSection(s)[8 + k] = c[k]
  BY <1>4, <1>7, <1>8, <1>9, <1>10 DEF IsJoin
<1>. QED
  BY <1>1, <1>11 DEF a, b, c, n

(* An index entry: 20 bytes, five fields of four. *)
EntryBytes(e, t, offset) ==
  /\ e \in Seq(Octet) /\ Len(e) = 20
  /\ e[1] = t.z /\ e[2] = t.compression /\ e[3] = 0 /\ e[4] = 0
  /\ \A k \in 1..4 : /\ e[4 + k] = LE(t.x, 4)[k] /\ e[8 + k] = LE(t.y, 4)[k]
                     /\ e[12 + k] = LE(offset, 4)[k] /\ e[16 + k] = LE(Len(t.bytes), 4)[k]

(* Every tile has such an entry. *)
LEMMA EntryWritten ==
  ASSUME NEW t \in Tiles, NEW offset \in Nat
  PROVE  EntryBytes(WriteEntry(t, offset), t, offset)
<1>. DEFINE n == Len(t.bytes)
            a == <<t.z, t.compression, 0, 0>>
            b == LE(t.x, 4)  c == LE(t.y, 4)  d == LE(offset, 4)  e == LE(n, 4)
<1>1. t.x \in Int /\ t.y \in Int /\ n \in Int /\ t.z \in Octet /\ t.compression \in Octet /\ 0 \in Octet
  <2>1. t.z \in Zooms /\ t.x \in U32 /\ t.y \in U32 /\ t.compression \in {0, 1} /\ t.bytes \in Seq(Octet)
    BY DEF Tiles
  <2>2. Beyond \in Int
    BY TopAssumption DEF Beyond
  <2>. QED
    BY <2>1, <2>2 DEF Zooms, U32, Octet
<1>2. a \in Seq(Octet) /\ Len(a) = 4
  BY <1>1
<1>3. b \in Seq(Octet) /\ Len(b) = 4 /\ c \in Seq(Octet) /\ Len(c) = 4
  <2>1. IsLE(t.x) /\ IsLE(t.y)
    BY <1>1, LEBytes
  <2>. QED
    BY <2>1 DEF IsLE
<1>4. d \in Seq(Octet) /\ Len(d) = 4 /\ e \in Seq(Octet) /\ Len(e) = 4
  <2>1. offset \in Int
    OBVIOUS
  <2>2. IsLE(offset) /\ IsLE(n)
    BY <1>1, <2>1, LEBytes
  <2>. HIDE DEF n
  <2>. QED
    BY <2>2 DEF IsLE
<1>5. WriteEntry(t, offset) = a \o b \o c \o d \o e
  BY DEF WriteEntry
<1>a. a[1] = t.z /\ a[2] = t.compression /\ a[3] = 0 /\ a[4] = 0
  OBVIOUS
<1>. HIDE DEF a, b, c, d, e
<1>. DEFINE ab == a \o b  abc == ab \o c  abcd == abc \o d  all == abcd \o e
<1>6. ab \in Seq(Octet) /\ Len(ab) = 8 /\ \A k \in 1..4 : ab[k] = a[k] /\ ab[4 + k] = b[k]
  <2>1. IsJoin(ab, a, 4, b, 4)
    BY <1>2, <1>3, Joined
  <2>. HIDE DEF ab
  <2>. QED
    BY <2>1 DEF IsJoin
<1>. HIDE DEF ab
<1>7. /\ abc \in Seq(Octet) /\ Len(abc) = 12 /\ \A k \in 1..4 : abc[8 + k] = c[k]
      /\ \A k \in 1..8 : abc[k] = ab[k]
  <2>1. IsJoin(abc, ab, 8, c, 4)
    BY <1>3, <1>6, Joined
  <2>. HIDE DEF abc
  <2>. QED
    BY <2>1 DEF IsJoin
<1>. HIDE DEF abc
<1>8. /\ abcd \in Seq(Octet) /\ Len(abcd) = 16 /\ \A k \in 1..4 : abcd[12 + k] = d[k]
      /\ \A k \in 1..12 : abcd[k] = abc[k]
  <2>1. IsJoin(abcd, abc, 12, d, 4)
    BY <1>4, <1>7, Joined
  <2>. HIDE DEF abcd
  <2>. QED
    BY <2>1 DEF IsJoin
<1>. HIDE DEF abcd
<1>9. /\ all \in Seq(Octet) /\ Len(all) = 20 /\ \A k \in 1..4 : all[16 + k] = e[k]
      /\ \A k \in 1..16 : all[k] = abcd[k]
  <2>1. IsJoin(all, abcd, 16, e, 4)
    BY <1>4, <1>8, Joined
  <2>. HIDE DEF all
  <2>. QED
    BY <2>1 DEF IsJoin
<1>10. WriteEntry(t, offset) = all
  BY <1>5 DEF ab, abc, abcd
<1>. HIDE DEF all
<1>11. \A k \in 1..4 : all[k] = a[k]
  <2>1. ASSUME NEW k \in 1..4 PROVE all[k] = a[k]
    <3>1. k \in 1..8 /\ k \in 1..12 /\ k \in 1..16
      OBVIOUS
    <3>. QED
      BY SMTT(30), <1>6, <1>7, <1>8, <1>9, <3>1
  <2>. QED
    BY <2>1
<1>12. \A k \in 1..4 : all[4 + k] = b[k] /\ all[8 + k] = c[k] /\ all[12 + k] = d[k]
  <2>1. ASSUME NEW k \in 1..4 PROVE all[4 + k] = b[k] /\ all[8 + k] = c[k] /\ all[12 + k] = d[k]
    <3>1. /\ 4 + k \in 1..8 /\ 4 + k \in 1..12 /\ 4 + k \in 1..16
          /\ 8 + k \in 1..12 /\ 8 + k \in 1..16 /\ 12 + k \in 1..16
      OBVIOUS
    <3>2. all[12 + k] = d[k]
      BY <1>8, <1>9, <3>1
    <3>3. all[8 + k] = c[k]
      BY SMTT(30), <1>7, <1>8, <1>9, <3>1
    <3>4. all[4 + k] = b[k]
      <4>1. all[4 + k] = abc[4 + k]
        BY <1>8, <1>9, <3>1
      <4>. QED
        BY <1>6, <1>7, <3>1, <4>1
    <3>. QED
      BY <3>2, <3>3, <3>4
  <2>. QED
    BY <2>1
<1>13. all[1] = t.z /\ all[2] = t.compression /\ all[3] = 0 /\ all[4] = 0
  BY <1>a, <1>11
<1>. QED
  BY <1>9, <1>10, <1>12, <1>13 DEF EntryBytes, b, c, d, e, n

(* Where each of n strings starts when they stand one after the other, and *)
(* a string in which they stand so.                                        *)
IsStarts(at, seqs, n) ==
  /\ at[1] = 0 /\ \A i \in 1..n : at[i] \in Nat /\ at[i + 1] = at[i] + Len(seqs[i])
HoldsAt(w, s, at) == /\ at + Len(s) <= Len(w)
                     /\ \A k \in 1..Len(s) : w[at + k] = s[k]
IsFlatAt(w, seqs, n, at) ==
  /\ w \in Seq(Octet) /\ Len(w) = at[n + 1] /\ \A i \in 1..n : HoldsAt(w, seqs[i], at[i])

(* What is appended leaves what stands before it where it is. *)
LEMMA HoldsStill ==
  ASSUME NEW w \in Seq(Octet), NEW b \in Seq(Octet), NEW s \in Seq(Octet), NEW at \in Nat,
         HoldsAt(w, s, at)
  PROVE  HoldsAt(w \o b, s, at)
<1>. DEFINE m == Len(w)  n == Len(b)  c == w \o b
<1>1. IsJoin(c, w, m, b, n) /\ m \in Nat /\ n \in Nat /\ Len(s) \in Nat
  BY Joined
<1>. HIDE DEF m, n, c
<1>2. at + Len(s) <= m /\ \A k \in 1..Len(s) : w[at + k] = s[k]
  BY DEF HoldsAt, m
<1>3. Len(c) = m + n /\ \A k \in 1..m : c[k] = w[k]
  BY <1>1 DEF IsJoin
<1>4. ASSUME NEW k \in 1..Len(s) PROVE c[at + k] = s[k]
  <2>1. at + k \in 1..m
    BY <1>1, <1>2
  <2>. QED
    BY <1>2, <1>3, <2>1
<1>5. at + Len(s) <= Len(c)
  BY <1>1, <1>2, <1>3
<1>. QED
  BY <1>4, <1>5 DEF HoldsAt, c

(* Flattening puts each string where the lengths before it say. *)
LEMMA FlatIndex ==
  ASSUME NEW seqs \in Seq(Seq(Octet)), NEW n, n = Len(seqs), NEW at, IsStarts(at, seqs, n)
  PROVE  IsFlatAt(FlattenSeq(seqs), seqs, n, at)
<1>1. n \in Nat /\ \A i \in 1..n : seqs[i] \in Seq(Octet)
  OBVIOUS
<1>2. CASE n = 0
  <2>1. FlattenSeq(seqs) = seqs
    BY <1>2 DEF FlattenSeq
  <2>2. seqs = <<>> /\ <<>> \in Seq(Octet) /\ Len(seqs) = 0
    BY <1>2, EmptySeq
  <2>. QED
    BY <1>2, <2>1, <2>2 DEF IsFlatAt, IsStarts
<1>3. CASE n # 0
  <2>1. PICK f \in [1..n -> Seq(Octet)] :
          /\ FlattenSeq(seqs) = f[n] /\ f[1] = seqs[1]
          /\ \A i \in 2..n : f[i] = f[i - 1] \o seqs[i]
    <3>1. Len(seqs) \in Nat \ {0} /\ \A i \in 1..Len(seqs) : seqs[i] \in Seq(Octet)
      BY <1>1, <1>3
    <3>2. \E f \in [1..Len(seqs) -> Seq(Octet)] :
             /\ FlattenSeq(seqs) = f[Len(seqs)]
             /\ f[1] = seqs[1]
             /\ \A i \in 2..Len(seqs) : f[i] = f[i - 1] \o seqs[i]
      BY <3>1, FlattenFrom, Zenon
    <3>. QED
      BY <3>2, Zenon
  <2>. DEFINE Good == {m \in Nat : m + 1 <= n => IsFlatAt(f[m + 1], seqs, m + 1, at)}
  <2>2. 0 \in Good
    <3>1. 1 \in 1..n
      BY <1>1, <1>3
    <3>2. at[1] = 0 /\ at[1 + 1] = at[1] + Len(seqs[1])
      BY <3>1 DEF IsStarts
    <3>3. f[1] = seqs[1] /\ f[1] \in Seq(Octet) /\ Len(f[1]) \in Nat
      BY <2>1, <3>1
    <3>4. HoldsAt(f[1], seqs[1], at[1])
      BY <3>2, <3>3 DEF HoldsAt
    <3>5. Len(f[1]) = at[1 + 1]
      BY <3>2, <3>3
    <3>6. IsFlatAt(f[1], seqs, 1, at)
      BY <3>3, <3>4, <3>5 DEF IsFlatAt
    <3>. QED
      BY <3>6
  <2>3. ASSUME NEW j \in Nat, j \in Good PROVE j + 1 \in Good
    <3>. DEFINE m == j + 1
    <3>1. m \in Nat /\ m >= 1 /\ j + 1 = m
      OBVIOUS
    <3>. SUFFICES ASSUME m + 1 <= n PROVE IsFlatAt(f[m + 1], seqs, m + 1, at)
      OBVIOUS
    <3>2. IsFlatAt(f[m], seqs, m, at)
      BY <1>1, <2>3
    <3>. HIDE DEF m
    <3>3. m + 1 \in 2..n /\ m \in 1..n /\ m + 1 \in 1..n /\ (m + 1) - 1 = m
      BY <1>1, <3>1
    <3>4. f[m + 1] = f[m] \o seqs[m + 1]
      BY <2>1, <3>3
    <3>. DEFINE b == seqs[m + 1]  w == f[m]
    <3>5. b \in Seq(Octet) /\ w \in Seq(Octet) /\ Len(b) \in Nat
      <4>1. b \in Seq(Octet) /\ w \in Seq(Octet)
        BY <1>1, <2>1, <3>3
      <4>. HIDE DEF b
      <4>. QED
        BY <4>1
    <3>6. /\ Len(w) = at[m + 1] /\ at[m + 1] \in Nat /\ at[(m + 1) + 1] = at[m + 1] + Len(b)
          /\ \A i \in 1..m : HoldsAt(w, seqs[i], at[i])
      BY <3>2, <3>3 DEF IsFlatAt, IsStarts
    <3>. HIDE DEF b, w
    <3>7. /\ w \o b \in Seq(Octet) /\ Len(w \o b) = Len(w) + Len(b)
          /\ \A k \in 1..Len(b) : (w \o b)[Len(w) + k] = b[k]
      BY <3>5, Joined DEF IsJoin
    <3>8. HoldsAt(w \o b, b, at[m + 1])
      BY <3>5, <3>6, <3>7 DEF HoldsAt
    <3>9. ASSUME NEW i \in 1..m PROVE HoldsAt(w \o b, seqs[i], at[i])
      <4>1. i \in 1..n /\ at[i] \in Nat /\ seqs[i] \in Seq(Octet)
        <5>1. i \in 1..n
          BY <3>1, <3>3
        <5>. QED
          BY <1>1, <5>1 DEF IsStarts
      <4>2. HoldsAt(w, seqs[i], at[i])
        BY <3>6
      <4>. QED
        BY <3>5, <4>1, <4>2, HoldsStill
    <3>10. ASSUME NEW i \in 1..(m + 1) PROVE HoldsAt(w \o b, seqs[i], at[i])
      <4>1. i \in 1..m \/ i = m + 1
        BY <3>1
      <4>. QED
        BY <3>8, <3>9, <4>1 DEF b
    <3>11. Len(w \o b) = at[(m + 1) + 1]
      BY <3>6, <3>7
    <3>12. IsFlatAt(w \o b, seqs, m + 1, at)
      BY <3>7, <3>10, <3>11 DEF IsFlatAt
    <3>. QED
      BY <3>4, <3>12 DEF w, b
  <2>. HIDE DEF Good
  <2>4. n - 1 \in Good
    <3>1. n - 1 \in Nat
      BY <1>1, <1>3
    <3>. QED
      BY <2>2, <2>3, <3>1, SetInduction
  <2>5. IsFlatAt(f[n], seqs, n, at)
    <3>1. (n - 1) + 1 = n /\ n <= n
      BY <1>1
    <3>. QED
      BY <2>4, <3>1 DEF Good
  <2>. QED
    BY <2>1, <2>5
<1>. QED
  BY <1>2, <1>3

----------------------------------------------------------------------------
(* Offsets counted up from the first, by a step that depends on the number *)
(* of the offset before.                                                   *)
Stepped(at, m, first, step) ==
  /\ at \in [1..(m + 1) -> Nat] /\ at[1] = first
  /\ \A j \in 1..m : at[j + 1] = step[j][at[j]]

(* There are such offsets. *)
LEMMA CountExists ==
  ASSUME NEW n \in Nat, NEW first \in Nat, NEW step \in [1..n -> [Nat -> Nat]]
  PROVE  \E at : Stepped(at, n, first, step)
<1>. DEFINE Good == {m \in Nat : m <= n => \E at : Stepped(at, m, first, step)}
<1>1. 0 \in Good
  <2>. DEFINE a == [j \in 1..1 |-> first]
  <2>1. a \in [1..(0 + 1) -> Nat] /\ a[1] = first
    OBVIOUS
  <2>. HIDE DEF a
  <2>2. Stepped(a, 0, first, step)
    BY <2>1 DEF Stepped
  <2>. QED
    BY <2>2
<1>2. ASSUME NEW m \in Nat, m \in Good PROVE m + 1 \in Good
  <2>. SUFFICES ASSUME m + 1 <= n PROVE \E at : Stepped(at, m + 1, first, step)
    OBVIOUS
  <2>1. PICK a : Stepped(a, m, first, step)
    BY <1>2
  <2>. DEFINE N == (m + 1) + 1
              c == [j \in 1..N |-> IF j = N THEN step[m + 1][a[m + 1]] ELSE a[j]]
  <2>2. N \in Nat /\ N = m + 2 /\ m + 1 \in 1..n /\ m + 1 \in 1..(m + 1)
    OBVIOUS
  <2>3. step[m + 1] \in [Nat -> Nat] /\ a[m + 1] \in Nat
    BY <2>1, <2>2 DEF Stepped
  <2>4. step[m + 1][a[m + 1]] \in Nat
    BY <2>3
  <2>. HIDE DEF N
  <2>5. \A j \in 1..N : j # N => j \in 1..(m + 1) /\ c[j] = a[j]
    BY <2>2
  <2>6. c \in [1..N -> Nat]
    <3>1. ASSUME NEW j \in 1..N PROVE c[j] \in Nat
      <4>1. CASE j = N
        BY <2>4, <4>1
      <4>2. CASE j # N
        BY <2>1, <2>5, <4>2 DEF Stepped
      <4>. QED
        BY <4>1, <4>2
    <3>2. c = [j \in 1..N |-> c[j]]
      OBVIOUS
    <3>. HIDE DEF c
    <3>. QED
      BY <3>1, <3>2
  <2>7. c[N] = step[m + 1][a[m + 1]]
    BY <2>2
  <2>. HIDE DEF c
  <2>8. c[1] = first
    <3>1. 1 \in 1..N /\ 1 # N
      BY <2>2
    <3>. QED
      BY <2>1, <2>5, <3>1 DEF Stepped
  <2>9. ASSUME NEW j \in 1..(m + 1) PROVE c[j + 1] = step[j][c[j]]
    <3>1. j \in 1..N /\ j # N /\ j + 1 \in 1..N
      BY <2>2
    <3>2. c[j] = a[j]
      BY <2>5, <3>1
    <3>3. CASE j = m + 1
      <4>1. j + 1 = N
        BY <2>2, <3>3
      <4>. QED
        BY <2>7, <3>2, <3>3, <4>1
    <3>4. CASE j # m + 1
      <4>1. j + 1 # N /\ j \in 1..m
        BY <2>2, <3>4
      <4>2. c[j + 1] = a[j + 1] /\ a[j + 1] = step[j][a[j]]
        BY <2>1, <2>5, <3>1, <4>1 DEF Stepped
      <4>. QED
        BY <3>2, <4>2
    <3>. QED
      BY <3>3, <3>4
  <2>10. Stepped(c, m + 1, first, step)
    BY <2>2, <2>6, <2>8, <2>9 DEF Stepped
  <2>. QED
    BY <2>10
<1>. HIDE DEF Good
<1>3. n \in Good
  BY <1>1, <1>2, SetInduction
<1>. QED
  BY <1>3 DEF Good

(* Offsets that are counted so as long as they are numbers are numbers.    *)
LEMMA CountSteps ==
  ASSUME NEW n \in Nat, NEW first \in Nat, NEW step \in [1..n -> [Nat -> Nat]],
         NEW at, at[1] = first,
         \A j \in 1..n : at[j] \in Nat => at[j + 1] = step[j][at[j]]
  PROVE  /\ \A j \in 1..n : at[j + 1] = step[j][at[j]]
         /\ \A j \in 1..(n + 1) : at[j] \in Nat
<1>. DEFINE Good == {m \in Nat : m + 1 <= n + 1 => at[m + 1] \in Nat}
<1>3. 0 \in Good
  OBVIOUS
<1>4. ASSUME NEW m \in Nat, m \in Good PROVE m + 1 \in Good
  <2>. SUFFICES ASSUME m + 1 <= n PROVE at[(m + 1) + 1] \in Nat
    OBVIOUS
  <2>1. m + 1 \in 1..n /\ at[m + 1] \in Nat
    BY <1>4
  <2>2. step[m + 1] \in [Nat -> Nat]
    BY <2>1
  <2>3. step[m + 1][at[m + 1]] \in Nat
    BY <2>1, <2>2
  <2>4. at[(m + 1) + 1] = step[m + 1][at[m + 1]]
    BY <2>1
  <2>. QED
    BY <2>3, <2>4
<1>. HIDE DEF Good
<1>5. ASSUME NEW j \in 1..(n + 1) PROVE at[j] \in Nat
  <2>1. j - 1 \in Nat /\ (j - 1) + 1 = j
    OBVIOUS
  <2>2. j - 1 \in Good
    BY <1>3, <1>4, <2>1, SetInduction
  <2>. QED
    BY <2>1, <2>2 DEF Good
<1>6. ASSUME NEW j \in 1..n PROVE at[j + 1] = step[j][at[j]]
  <2>1. j \in 1..(n + 1)
    OBVIOUS
  <2>. QED
    BY <1>5, <2>1
<1>. QED
  BY <1>5, <1>6

(* The tiles of a pack, and its sections. *)
LEMMA PackParts ==
  ASSUME NEW p, IsPack(p)
  PROVE  /\ p.tiles \in Seq(Tiles) /\ Len(p.tiles) \in Nat /\ DOMAIN p.tiles = 1..Len(p.tiles)
         /\ \A i \in 1..Len(p.tiles) : p.tiles[i] \in Tiles /\ p.tiles[i].bytes \in Seq(Octet)
         /\ p.sections \in Seq(Sections) /\ Len(p.sections) \in Nat
         /\ DOMAIN p.sections = 1..Len(p.sections)
         /\ \A i \in 1..Len(p.sections) : p.sections[i] \in Sections
<1>1. p.tiles \in Seq(Tiles) /\ p.sections \in Seq(Sections)
  BY Zenon DEF IsPack
<1>2. \A t \in Tiles : t.bytes \in Seq(Octet)
  BY DEF Tiles
<1>. DEFINE T == Tiles  S == Sections  ts == p.tiles  ss == p.sections
<1>. HIDE DEF T, S, ts, ss
<1>3. ts \in Seq(T) /\ ss \in Seq(S)
  BY <1>1 DEF T, S, ts, ss
<1>4. /\ Len(ts) \in Nat /\ DOMAIN ts = 1..Len(ts) /\ \A i \in 1..Len(ts) : ts[i] \in T
      /\ Len(ss) \in Nat /\ DOMAIN ss = 1..Len(ss) /\ \A i \in 1..Len(ss) : ss[i] \in S
  BY <1>3
<1>. QED
  BY <1>1, <1>2, <1>4 DEF T, S, ts, ss

(* Where the tiles start: each where the one before ends, padding included. *)
TilesStart(p) ==
  /\ TileOffset(p, 1) = BlobStart(Len(p.tiles))
  /\ \A i \in 1..Len(p.tiles) :
       TileOffset(p, i + 1) = TileOffset(p, i) + AlignUp(Len(p.tiles[i].bytes))
  /\ \A i \in 1..(Len(p.tiles) + 1) : TileOffset(p, i) \in Nat /\ TileOffset(p, i) % 4 = 0

(* The recursion that places the tiles places them so. *)
LEMMA TileOffsets == ASSUME NEW p, IsPack(p) PROVE TilesStart(p)
<1>. DEFINE n == Len(p.tiles)  first == BlobStart(n)  len(j) == Len(p.tiles[j].bytes)
            step == [j \in 1..n |-> [v \in Nat |-> AlignUp(v + len(j))]]
            Is(at) == at = [j \in 1..(n + 1) |->
                              IF j = 1 THEN first ELSE AlignUp(at[j - 1] + len(j - 1))]
            at == CHOOSE a : Is(a)
<1>1. n \in Nat /\ \A j \in 1..n : len(j) \in Nat
  <2>1. n \in Nat /\ \A j \in 1..n : p.tiles[j].bytes \in Seq(Octet)
    BY PackParts
  <2>2. \A s \in Seq(Octet) : Len(s) \in Nat
    OBVIOUS
  <2>. QED
    BY <2>1, <2>2
<1>2. \A i : TileOffset(p, i) = at[i]
  BY Zenon DEF TileOffset
<1>3. first \in Nat /\ first % 4 = 0
  <2>. DEFINE v == HeaderSize + n * EntrySize
  <2>1. v \in Nat
    BY <1>1 DEF HeaderSize, EntrySize
  <2>2. first = AlignUp(v)
    BY DEF BlobStart
  <2>. HIDE DEF v
  <2>. QED
    BY <2>1, <2>2, AlignUps
<1>. HIDE DEF first, n, len
<1>4. step \in [1..n -> [Nat -> Nat]]
  <2>1. ASSUME NEW j \in 1..n, NEW v \in Nat PROVE AlignUp(v + len(j)) \in Nat
    <3>1. v + len(j) \in Nat
      BY <1>1
    <3>. QED
      BY <3>1, AlignUps
  <2>. QED
    BY <2>1
<1>5. \A j \in 1..n, v \in Nat : step[j][v] = AlignUp(v + len(j))
  OBVIOUS
<1>. HIDE DEF step
<1>6. PICK a : Stepped(a, n, first, step)
  BY <1>1, <1>3, <1>4, CountExists
<1>7. Is(a)
  <2>1. a \in [1..(n + 1) -> Nat] /\ a[1] = first /\ \A j \in 1..n : a[j + 1] = step[j][a[j]]
    BY <1>6 DEF Stepped
  <2>2. ASSUME NEW j \in 1..(n + 1), j # 1 PROVE a[j] = AlignUp(a[j - 1] + len(j - 1))
    <3>1. j - 1 \in 1..n /\ j - 1 \in 1..(n + 1) /\ (j - 1) + 1 = j
      BY <1>1, <2>2
    <3>2. a[(j - 1) + 1] = step[j - 1][a[j - 1]] /\ a[j - 1] \in Nat
      BY <2>1, <3>1
    <3>. QED
      BY <1>5, <3>1, <3>2
  <2>. QED
    BY <2>1, <2>2
<1>8. Is(at)
  <2>. HIDE DEF Is
  <2>. QED
    BY <1>7
<1>. HIDE DEF at
<1>9. at[1] = first /\ \A j \in 1..n : at[j + 1] = AlignUp(at[j] + len(j))
  <2>1. 1 \in 1..(n + 1) /\ \A j \in 1..n : j + 1 \in 1..(n + 1) /\ j + 1 # 1 /\ (j + 1) - 1 = j
    BY <1>1
  <2>2. \A j \in 1..(n + 1) : at[j] = IF j = 1 THEN first ELSE AlignUp(at[j - 1] + len(j - 1))
    BY <1>8
  <2>3. ASSUME NEW j \in 1..n PROVE at[j + 1] = AlignUp(at[j] + len(j))
    <3>1. at[j + 1] = AlignUp(at[(j + 1) - 1] + len((j + 1) - 1))
      BY <2>1, <2>2
    <3>. QED
      BY <2>1, <3>1
  <2>. QED
    BY <2>1, <2>2, <2>3
<1>. HIDE DEF Is
<1>10. \A j \in 1..(n + 1) : at[j] \in Nat
  <2>1. \A j \in 1..n : at[j] \in Nat => at[j + 1] = step[j][at[j]]
    BY <1>5, <1>9
  <2>. QED
    BY ZenonT(30), <1>1, <1>3, <1>4, <1>9, <2>1, CountSteps
<1>11. ASSUME NEW j \in 1..(n + 1) PROVE at[j] % 4 = 0
  <2>1. CASE j = 1
    BY <1>3, <1>9, <2>1
  <2>2. CASE j # 1
    <3>1. j - 1 \in 1..n /\ j - 1 \in 1..(n + 1) /\ (j - 1) + 1 = j
      BY <1>1, <2>2
    <3>2. at[j] = AlignUp(at[j - 1] + len(j - 1)) /\ at[j - 1] + len(j - 1) \in Nat
      BY <1>1, <1>9, <1>10, <3>1
    <3>. QED
      BY <3>2, AlignUps
  <2>. QED
    BY <2>1, <2>2
<1>12. ASSUME NEW j \in 1..n PROVE at[j + 1] = at[j] + AlignUp(len(j))
  <2>1. at[j] \in Nat /\ at[j] % 4 = 0 /\ len(j) \in Nat
    BY <1>1, <1>10, <1>11
  <2>. QED
    BY <1>9, <2>1, AlignFrom
<1>. QED
  BY <1>2, <1>9, <1>10, <1>11, <1>12 DEF TilesStart, n, first, len

(* Where the sections start: the first after the tiles, each of the others *)
(* where the one before ends.                                              *)
SectionsStart(p) ==
  /\ SectionAt(p, 1) = TileOffset(p, Len(p.tiles) + 1)
  /\ \A i \in 1..Len(p.sections) :
       SectionAt(p, i + 1) = SectionAt(p, i) + Len(WriteSection(p.sections[i]))
  /\ \A i \in 1..(Len(p.sections) + 1) : SectionAt(p, i) \in Nat

(* The recursion that places the sections places them so. *)
LEMMA SectionOffsets == ASSUME NEW p, IsPack(p) PROVE SectionsStart(p)
<1>. DEFINE n == Len(p.sections)  first == TileOffset(p, Len(p.tiles) + 1)
            len(j) == Len(WriteSection(p.sections[j]))
            step == [j \in 1..n |-> [v \in Nat |-> v + len(j)]]
            Is(at) == at = [j \in 1..(n + 1) |-> IF j = 1 THEN Header(p).extensions_offset
                                                 ELSE at[j - 1] + len(j - 1)]
            at == CHOOSE a : Is(a)
<1>1. n \in Nat /\ \A j \in 1..n : len(j) \in Nat
  <2>1. n \in Nat /\ \A j \in 1..n : p.sections[j] \in Sections
    BY PackParts
  <2>2. \A s \in Sections : WriteSection(s) \in Seq(Octet)
    BY SectionBytes
  <2>3. \A s \in Seq(Octet) : Len(s) \in Nat
    OBVIOUS
  <2>. QED
    BY <2>1, <2>2, <2>3
<1>2. \A i : SectionAt(p, i) = at[i]
  BY Zenon DEF SectionAt
<1>0. Header(p).extensions_offset = first
  BY DEF Header
<1>3. first \in Nat
  <2>1. Len(p.tiles) \in Nat
    BY PackParts
  <2>2. Len(p.tiles) + 1 \in 1..(Len(p.tiles) + 1)
    BY <2>1
  <2>. QED
    BY <2>2, TileOffsets DEF TilesStart
<1>. HIDE DEF first, n, len
<1>4. step \in [1..n -> [Nat -> Nat]]
  BY <1>1
<1>5. \A j \in 1..n, v \in Nat : step[j][v] = v + len(j)
  OBVIOUS
<1>. HIDE DEF step
<1>6. PICK a : Stepped(a, n, first, step)
  BY <1>1, <1>3, <1>4, CountExists
<1>7. Is(a)
  <2>1. a \in [1..(n + 1) -> Nat] /\ a[1] = first /\ \A j \in 1..n : a[j + 1] = step[j][a[j]]
    BY <1>6 DEF Stepped
  <2>2. ASSUME NEW j \in 1..(n + 1), j # 1 PROVE a[j] = a[j - 1] + len(j - 1)
    <3>1. j - 1 \in 1..n /\ j - 1 \in 1..(n + 1) /\ (j - 1) + 1 = j
      BY <1>1, <2>2
    <3>2. a[(j - 1) + 1] = step[j - 1][a[j - 1]] /\ a[j - 1] \in Nat
      BY <2>1, <3>1
    <3>. QED
      BY <1>5, <3>1, <3>2
  <2>. QED
    BY <1>0, <2>1, <2>2
<1>8. Is(at)
  <2>. HIDE DEF Is
  <2>. QED
    BY <1>7
<1>. HIDE DEF at
<1>9. at[1] = first /\ \A j \in 1..n : at[j + 1] = at[j] + len(j)
  <2>1. 1 \in 1..(n + 1) /\ \A j \in 1..n : j + 1 \in 1..(n + 1) /\ j + 1 # 1 /\ (j + 1) - 1 = j
    BY <1>1
  <2>2. \A j \in 1..(n + 1) : at[j] = IF j = 1 THEN first ELSE at[j - 1] + len(j - 1)
    BY <1>0, <1>8
  <2>3. ASSUME NEW j \in 1..n PROVE at[j + 1] = at[j] + len(j)
    <3>1. at[j + 1] = at[(j + 1) - 1] + len((j + 1) - 1)
      BY <2>1, <2>2
    <3>. QED
      BY <2>1, <3>1
  <2>. QED
    BY <2>1, <2>2, <2>3
<1>. HIDE DEF Is
<1>10. \A j \in 1..(n + 1) : at[j] \in Nat
  <2>1. \A j \in 1..n : at[j] \in Nat => at[j + 1] = step[j][at[j]]
    BY <1>5, <1>9
  <2>. QED
    BY ZenonT(30), <1>1, <1>3, <1>4, <1>9, <2>1, CountSteps
<1>. QED
  BY <1>2, <1>9, <1>10 DEF SectionsStart, n, first, len

(* The tiles of a pack are in order of their keys. *)
LEMMA TilesInOrder ==
  ASSUME NEW p, IsPack(p)
  PROVE  /\ AreKeys(p.tiles, Len(p.tiles)) /\ InOrder(p.tiles, Len(p.tiles))
         /\ \A i \in 1..Len(p.tiles) : p.tiles[i].z \in Zooms
<1>1. /\ DOMAIN p.tiles = 1..Len(p.tiles) /\ \A i \in 1..Len(p.tiles) : p.tiles[i] \in Tiles
  BY PackParts
<1>2. \A t \in Tiles : t.z \in Zooms /\ t.x \in U32 /\ t.y \in U32
  BY DEF Tiles
<1>3. \A v \in U32 : v \in Int
  BY TopAssumption DEF U32, Beyond
<1>4. \A v \in Zooms : v \in Int
  BY DEF Zooms
<1>5. AreKeys(p.tiles, Len(p.tiles)) /\ \A i \in 1..Len(p.tiles) : p.tiles[i].z \in Zooms
  BY <1>1, <1>2, <1>3, <1>4 DEF AreKeys
<1>6. \A i, j \in DOMAIN p.tiles : i < j => KeyBefore(p.tiles[i], p.tiles[j])
  BY DEF IsPack
<1>. QED
  BY <1>1, <1>5, <1>6 DEF InOrder

(* The directory the writer fills in. *)
Directed(d, p) ==
  \A z \in Zooms :
    LET here == OfZoom(p.tiles, Len(p.tiles), z)
    IN /\ d[z] = [offset |-> d[z].offset, count |-> d[z].count]
       /\ d[z].count = Cardinality(here) /\ d[z].count \in 0..Len(p.tiles)
       /\ here = {} => d[z].offset = 0
       /\ here # {} => \E first \in here : /\ \A i \in here : first <= i
                                           /\ d[z].offset = HeaderSize + EntrySize * (first - 1)

(* It gives of each level the first entry and the number of entries. *)
LEMMA DirectoryWritten == ASSUME NEW p, IsPack(p) PROVE Directed(Directory(p), p)
<1>. DEFINE n == Len(p.tiles)  key == p.tiles  d == Directory(p)
<1>1. /\ n \in Nat /\ DOMAIN key = 1..n /\ AreKeys(key, n) /\ InOrder(key, n)
  BY PackParts, TilesInOrder
<1>. SUFFICES ASSUME NEW z \in Zooms
     PROVE LET here == OfZoom(key, n, z)
           IN /\ d[z] = [offset |-> d[z].offset, count |-> d[z].count]
              /\ d[z].count = Cardinality(here) /\ d[z].count \in 0..n
              /\ here = {} => d[z].offset = 0
              /\ here # {} => \E first \in here :
                                /\ \A i \in here : first <= i
                                /\ d[z].offset = HeaderSize + EntrySize * (first - 1)
  BY DEF Directed
<1>. DEFINE here == OfZoom(key, n, z)
<1>2. here = {i \in DOMAIN p.tiles : p.tiles[i].z = z} /\ here \subseteq 1..n
  BY <1>1 DEF OfZoom
<1>3. d[z] = IF here = {} THEN [offset |-> 0, count |-> 0]
             ELSE [offset |-> HeaderSize + EntrySize * ((CHOOSE i \in here : i - 1 \notin here) - 1),
                   count |-> Cardinality(here)]
  BY <1>2 DEF Directory
<1>. HIDE DEF d
<1>4. CASE here = {}
  <2>1. Cardinality({}) = 0
    BY FS_EmptySet
  <2>. QED
    BY <1>1, <1>3, <1>4, <2>1
<1>5. CASE here # {}
  <2>1. InRow(here, n)
    <3>1. z \in Int
      BY DEF Zooms
    <3>. HIDE DEF n, key
    <3>. QED
      BY <1>1, <1>5, <3>1, ZoomInRow
  <2>2. PICK lo, hi \in 1..n : lo <= hi /\ here = lo..hi /\ Cardinality(here) = hi - lo + 1
    BY <2>1 DEF InRow
  <2>. HIDE DEF here, n
  <2>. DEFINE first == CHOOSE i \in here : i - 1 \notin here
  <2>3. first = lo
    <3>1. lo \in here /\ lo - 1 \notin here /\ \A i \in here : i - 1 \notin here => i = lo
      BY <1>1, <2>2
    <3>. QED
      BY <3>1
  <2>4. \A i \in here : lo <= i
    BY <1>1, <2>2
  <2>5. lo \in here /\ Cardinality(here) \in 0..n
    BY <1>1, <2>2
  <2>. HIDE DEF first
  <2>6. d[z] = [offset |-> HeaderSize + EntrySize * (lo - 1), count |-> Cardinality(here)]
    BY <1>3, <1>5, <2>3 DEF first
  <2>7. d[z].offset = HeaderSize + EntrySize * (lo - 1) /\ d[z].count = Cardinality(here)
    BY <2>6
  <2>. QED
    BY <1>5, <2>4, <2>5, <2>6, <2>7 DEF here, n
<1>. QED
  BY <1>4, <1>5

(* What the fields of a header are. *)
HeaderTyped(h) ==
  /\ h.major \in Octet /\ h.minor \in Octet
  /\ h.pack_uuid \in [1..16 -> Octet] /\ h.supersedes \in [1..16 -> Octet]
  /\ h.parent \in [1..16 -> Octet] /\ h.build_timestamp \in [1..8 -> Octet]
  /\ h.pixel_format \in Octet /\ h.projection \in Octet /\ h.addressing \in Octet
  /\ h.axis \in Octet /\ h.zoom_min \in Octet /\ h.zoom_max \in Octet
  /\ h.tile_dim_px \in Int /\ h.tile_count \in Int /\ h.index_offset \in Int
  /\ h.extensions_offset \in Int
  /\ \A k \in 1..4 : h.bbox[k] \in Int
  /\ \A z \in Zooms : h.zooms[z].offset \in Int /\ h.zooms[z].count \in Int

(* A pack's header is one. *)
LEMMA HeaderIsTyped == ASSUME NEW p, IsPack(p) PROVE HeaderTyped(Header(p))
<1>. DEFINE h == Header(p)  n == Len(p.tiles)
<1>1. IsMetadata(p)
  BY DEF IsPack
<1>2. n \in Nat /\ TileOffset(p, n + 1) \in Int
  <2>1. n \in Nat
    BY PackParts
  <2>2. n + 1 \in 1..(n + 1)
    BY <2>1
  <2>3. TilesStart(p)
    BY TileOffsets
  <2>. HIDE DEF n
  <2>4. TileOffset(p, n + 1) \in Nat
    BY <2>2, <2>3 DEF TilesStart, n
  <2>. QED
    BY <2>1, <2>4
<1>3. \A z \in Zooms : Directory(p)[z].offset \in Int /\ Directory(p)[z].count \in Int
  <2>1. ASSUME NEW z \in Zooms PROVE Directory(p)[z].offset \in Int /\ Directory(p)[z].count \in Int
    <3>. DEFINE here == OfZoom(p.tiles, n, z)  count == Directory(p)[z].count
                offset == Directory(p)[z].offset
    <3>1. /\ count \in 0..n
          /\ here = {} => offset = 0
          /\ here # {} => \E first \in here : offset = HeaderSize + EntrySize * (first - 1)
      BY DirectoryWritten DEF Directed
    <3>2. here \subseteq 1..n
      BY DEF OfZoom
    <3>. HIDE DEF here, count, offset, n
    <3>3. here # {} => offset \in Int
      BY <1>2, <3>1, <3>2 DEF HeaderSize, EntrySize
    <3>4. count \in Int
      BY <1>2, <3>1
    <3>5. offset \in Int
      BY <3>1, <3>3
    <3>. QED
      BY <3>4, <3>5 DEF count, offset
  <2>. QED
    BY <2>1
<1>4. /\ h.major = 1 /\ h.minor = 0 /\ h.pack_uuid = p.uuid /\ h.supersedes = p.supersedes
      /\ h.parent = Zeros(16) /\ h.pixel_format = p.pixel /\ h.projection = p.projection
      /\ h.addressing = p.addressing /\ h.axis = p.axis /\ h.tile_dim_px = p.dim
      /\ h.zoom_min = p.zooms[1] /\ h.zoom_max = p.zooms[2] /\ h.bbox = p.bbox
      /\ h.build_timestamp = p.timestamp /\ h.tile_count = n /\ h.index_offset = HeaderSize
      /\ h.zooms = Directory(p) /\ h.extensions_offset = TileOffset(p, n + 1)
  BY DEF Header
<1>. HIDE DEF h, n
<1>5. h.major \in Octet /\ h.minor \in Octet
  BY <1>4 DEF Octet
<1>6. /\ h.pack_uuid \in [1..16 -> Octet] /\ h.supersedes \in [1..16 -> Octet]
      /\ h.build_timestamp \in [1..8 -> Octet]
  BY <1>1, <1>4 DEF IsMetadata
<1>7. h.parent \in [1..16 -> Octet]
  <2>1. 0 \in Octet
    BY DEF Octet
  <2>. QED
    BY <1>4, <2>1 DEF Zeros
<1>8. /\ h.pixel_format \in Octet /\ h.projection \in Octet /\ h.addressing \in Octet
      /\ h.axis \in Octet
  <2>1. /\ p.pixel \in {1, 2} /\ p.projection \in {1, 3}
        /\ p.addressing \in {1, 2} /\ p.axis \in {1, 2}
    BY <1>1 DEF IsMetadata
  <2>. QED
    BY <1>4, <2>1 DEF Octet
<1>9. h.zoom_min \in Octet /\ h.zoom_max \in Octet
  <2>1. p.zooms \in [1..2 -> Octet]
    BY <1>1 DEF IsMetadata
  <2>. QED
    BY <1>4, <2>1
<1>10. h.tile_dim_px \in Int
  <2>1. IsDim(p.dim)
    BY <1>1 DEF IsMetadata
  <2>2. p.dim \in Int
    BY <2>1 DEF IsDim
  <2>. QED
    BY <1>4, <2>2
<1>11. \A k \in 1..4 : h.bbox[k] \in Int
  <2>1. IsBbox(p.bbox)
    BY <1>1 DEF IsMetadata
  <2>2. p.bbox \in [1..4 -> Int]
    BY SMTT(30), <2>1 DEF IsBbox
  <2>. QED
    BY <1>4, <2>2
<1>12. h.tile_count \in Int /\ h.index_offset \in Int /\ h.extensions_offset \in Int
  BY <1>2, <1>4 DEF HeaderSize
<1>13. \A z \in Zooms : h.zooms[z].offset \in Int /\ h.zooms[z].count \in Int
  BY <1>3, <1>4
<1>. QED
  BY <1>5, <1>6, <1>7, <1>8, <1>9, <1>10, <1>11, <1>12, <1>13 DEF HeaderTyped, h

(* The zoom levels as numbers. *)
LEMMA ZoomRange == \A z : z \in Zooms <=> z \in Int /\ 0 <= z /\ z <= 23
BY DEF Zooms

(* The offsets at which a field of the header starts, how many bytes it    *)
(* has and which they are.                                                 *)
Starts ==
  {0, 4, 8, 24, 40, 56, 60, 62, 64, 68, 72, 76, 80, 88, 92, 288} \cup {96 + 8 * z : z \in Zooms}
FieldLen(a) ==
  IF a \in {8, 24, 40} THEN 16
  ELSE IF a \in {4, 60, 62} THEN 2
  ELSE IF a = 80 \/ (a >= 96 /\ a < 288) THEN 8
  ELSE 4
FieldBytes(h, a) ==
  IF a = 0 THEN Magic
  ELSE IF a = 4 THEN <<h.major, h.minor>>
  ELSE IF a = 8 THEN h.pack_uuid
  ELSE IF a = 24 THEN h.supersedes
  ELSE IF a = 40 THEN h.parent
  ELSE IF a = 56 THEN <<h.pixel_format, h.projection, h.addressing, h.axis>>
  ELSE IF a = 60 THEN LE(h.tile_dim_px, 2)
  ELSE IF a = 62 THEN <<h.zoom_min, h.zoom_max>>
  ELSE IF a = 80 THEN h.build_timestamp
  ELSE IF a = 88 THEN LE(h.tile_count, 4)
  ELSE IF a = 92 THEN LE(h.index_offset, 4)
  ELSE IF a = 288 THEN LE(h.extensions_offset, 4)
  ELSE IF a < 96 THEN LE(h.bbox[(a - 64) \div 4 + 1], 4)
  ELSE LE(h.zooms[(a - 96) \div 8].offset, 4) \o LE(h.zooms[(a - 96) \div 8].count, 4)

(* The field of a level is its slot of the directory. *)
LEMMA SlotBytes ==
  ASSUME NEW h, NEW a \in Int, a >= 96, a < 288
  PROVE  FieldBytes(h, a) = LE(h.zooms[(a - 96) \div 8].offset, 4) \o LE(h.zooms[(a - 96) \div 8].count, 4)
<1>1. /\ a # 0 /\ a # 4 /\ a # 8 /\ a # 24 /\ a # 40 /\ a # 56 /\ a # 60 /\ a # 62
      /\ a # 80 /\ a # 88 /\ a # 92 /\ a # 288 /\ ~(a < 96)
  OBVIOUS
<1>. QED
  BY SMTT(30), <1>1 DEF FieldBytes

(* The starts are numbers inside the header, and no two fields overlap.    *)
LEMMA StartsApart ==
  /\ \A a \in Starts : a \in Nat /\ FieldLen(a) \in Nat /\ a + FieldLen(a) <= HeaderSize
  /\ \A a, b \in Starts, c \in Int :
       a <= c /\ c < a + FieldLen(a) /\ b <= c /\ c < b + FieldLen(b) => a = b
<1>. DEFINE One(a) == a \in {0, 4, 8, 24, 40, 56, 60, 62, 64, 68, 72, 76, 80, 88, 92, 288}
            Row(a) == a \in Int /\ 96 <= a /\ a < 288 /\ (a - 96) % 8 = 0
<1>1. ASSUME NEW a \in Starts PROVE One(a) \/ Row(a)
  <2>1. ASSUME NEW z \in Zooms PROVE Row(96 + 8 * z)
    BY ZoomRange
  <2>2. One(a) \/ \E z \in Zooms : a = 96 + 8 * z
    BY DEF Starts
  <2>. HIDE DEF One, Row
  <2>. QED
    BY <2>1, <2>2
<1>2. \A a : Row(a) => FieldLen(a) = 8
  BY DEF FieldLen
<1>3. ASSUME NEW a, One(a)
      PROVE  /\ a \in Nat /\ FieldLen(a) \in Nat
             /\ a + FieldLen(a) <= 96 \/ (a = 288 /\ FieldLen(a) = 4)
  <2>1. a \in Nat
    BY <1>3
  <2>2. a = 288 \/ a <= 92
    BY <1>3
  <2>3. FieldLen(a) \in Nat
    BY <2>1 DEF FieldLen
  <2>4. a = 288 => FieldLen(a) = 4
    BY DEF FieldLen
  <2>5. a <= 92 => a + FieldLen(a) <= 96
    <3>1. CASE a \in {80, 88, 92}
      BY <3>1 DEF FieldLen
    <3>2. CASE a <= 76
      <4>1. FieldLen(a) <= 16
        BY <2>1, <3>2 DEF FieldLen
      <4>. QED
        BY <2>1, <2>3, <3>2, <4>1
    <3>3. a <= 92 => a \in {80, 88, 92} \/ a <= 76
      BY <1>3
    <3>. QED
      BY <3>1, <3>2, <3>3
  <2>6. a + FieldLen(a) <= 96 \/ (a = 288 /\ FieldLen(a) = 4)
    BY <2>2, <2>4, <2>5, Zenon
  <2>. QED
    BY <2>1, <2>3, <2>6
<1>4. ASSUME NEW a \in Starts PROVE a \in Nat /\ FieldLen(a) \in Nat /\ a + FieldLen(a) <= HeaderSize
  <2>1. CASE One(a)
    <3>. HIDE DEF One
    <3>. QED
      BY <1>3, <2>1 DEF HeaderSize
  <2>2. CASE Row(a)
    <3>1. FieldLen(a) = 8
      BY <1>2, <2>2
    <3>. QED
      BY <2>2, <3>1 DEF HeaderSize
  <2>. HIDE DEF One, Row
  <2>. QED
    BY <1>1, <2>1, <2>2
<1>5. ASSUME NEW a, NEW b, NEW c \in Int, One(a), One(b),
             a <= c, c < a + FieldLen(a), b <= c, c < b + FieldLen(b)
      PROVE  a = b
  BY <1>5 DEF FieldLen
<1>6. ASSUME NEW a, NEW b, NEW c \in Int, Row(a), Row(b),
             a <= c, c < a + FieldLen(a), b <= c, c < b + FieldLen(b)
      PROVE  a = b
  <2>1. FieldLen(a) = 8 /\ FieldLen(b) = 8
    BY <1>2, <1>6
  <2>. QED
    BY <1>6, <2>1
<1>7. ASSUME NEW a, NEW b, NEW c \in Int, One(a), Row(b),
             a <= c, c < a + FieldLen(a), b <= c, c < b + FieldLen(b)
      PROVE  FALSE
  <2>1. FieldLen(b) = 8
    BY <1>2, <1>7
  <2>2. /\ a \in Nat /\ FieldLen(a) \in Nat
        /\ a + FieldLen(a) <= 96 \/ (a = 288 /\ FieldLen(a) = 4)
    <3>. HIDE DEF One
    <3>. QED
      BY <1>3, <1>7
  <2>3. b \in Int /\ 96 <= b /\ b < 288 /\ (b - 96) % 8 = 0
    BY <1>7
  <2>. HIDE DEF One, Row
  <2>. QED
    BY <1>7, <2>1, <2>2, <2>3
<1>. HIDE DEF One, Row
<1>8. ASSUME NEW a \in Starts, NEW b \in Starts, NEW c \in Int,
             a <= c, c < a + FieldLen(a), b <= c, c < b + FieldLen(b)
      PROVE  a = b
  <2>1. (One(a) \/ Row(a)) /\ (One(b) \/ Row(b))
    BY <1>1
  <2>2. CASE One(a) /\ One(b)
    BY <1>5, <1>8, <2>2
  <2>3. CASE Row(a) /\ Row(b)
    BY <1>6, <1>8, <2>3
  <2>4. CASE One(a) /\ Row(b)
    BY <1>7, <1>8, <2>4
  <2>5. CASE Row(a) /\ One(b)
    BY <1>7, <1>8, <2>5
  <2>. QED
    BY <2>1, <2>2, <2>3, <2>4, <2>5
<1>. QED
  BY <1>4, <1>8

(* The fields of a header are one for each start. *)
LEMMA FieldsAreStarts ==
  ASSUME NEW h
  PROVE  HeaderFields(h) = {Field(a, FieldBytes(h, a)) : a \in Starts}
<1>. DEFINE F == {Field(a, FieldBytes(h, a)) : a \in Starts}
            A == {0, 4, 8, 24, 40, 56, 60, 62, 80, 88, 92, 288}
            B == {64, 68, 72, 76}
            C == {96 + 8 * z : z \in Zooms}
            of(S) == {Field(a, FieldBytes(h, a)) : a \in S}
<1>1. Starts = A \cup B \cup C
  BY DEF Starts
<1>2. F = of(A) \cup of(B) \cup of(C)
  <2>. HIDE DEF A, B, C
  <2>. QED
    BY <1>1
<1>3. of(A) = {Field(0, Magic), Field(4, <<h.major, h.minor>>), Field(8, h.pack_uuid),
               Field(24, h.supersedes), Field(40, h.parent),
               Field(56, <<h.pixel_format, h.projection, h.addressing, h.axis>>),
               Field(60, LE(h.tile_dim_px, 2)), Field(62, <<h.zoom_min, h.zoom_max>>),
               Field(80, h.build_timestamp), Field(88, LE(h.tile_count, 4)),
               Field(92, LE(h.index_offset, 4)), Field(288, LE(h.extensions_offset, 4))}
  <2>1. of(A) = {Field(0, FieldBytes(h, 0)), Field(4, FieldBytes(h, 4)), Field(8, FieldBytes(h, 8)),
                 Field(24, FieldBytes(h, 24)), Field(40, FieldBytes(h, 40)),
                 Field(56, FieldBytes(h, 56)), Field(60, FieldBytes(h, 60)),
                 Field(62, FieldBytes(h, 62)), Field(80, FieldBytes(h, 80)),
                 Field(88, FieldBytes(h, 88)), Field(92, FieldBytes(h, 92)),
                 Field(288, FieldBytes(h, 288))}
    OBVIOUS
  <2>2. /\ FieldBytes(h, 0) = Magic /\ FieldBytes(h, 4) = <<h.major, h.minor>>
        /\ FieldBytes(h, 8) = h.pack_uuid /\ FieldBytes(h, 24) = h.supersedes
        /\ FieldBytes(h, 40) = h.parent
        /\ FieldBytes(h, 56) = <<h.pixel_format, h.projection, h.addressing, h.axis>>
        /\ FieldBytes(h, 60) = LE(h.tile_dim_px, 2) /\ FieldBytes(h, 62) = <<h.zoom_min, h.zoom_max>>
        /\ FieldBytes(h, 80) = h.build_timestamp /\ FieldBytes(h, 88) = LE(h.tile_count, 4)
        /\ FieldBytes(h, 92) = LE(h.index_offset, 4)
        /\ FieldBytes(h, 288) = LE(h.extensions_offset, 4)
    BY DEF FieldBytes
  <2>. QED
    BY <2>1, <2>2
<1>4. of(B) = BboxFields(h)
  <2>1. ASSUME NEW k \in 1..4
        PROVE  /\ 64 + 4 * (k - 1) \in B
               /\ FieldBytes(h, 64 + 4 * (k - 1)) = LE(h.bbox[k], 4)
    <3>. DEFINE a == 64 + 4 * (k - 1)
    <3>1. a \in {64, 68, 72, 76} /\ (a - 64) \div 4 + 1 = k
      OBVIOUS
    <3>. HIDE DEF a
    <3>2. FieldBytes(h, a) = LE(h.bbox[(a - 64) \div 4 + 1], 4)
      BY <3>1 DEF FieldBytes
    <3>. QED
      BY <3>1, <3>2 DEF a
  <2>2. \A a \in B : \E k \in 1..4 : a = 64 + 4 * (k - 1)
    <3>1. 64 = 64 + 4 * (1 - 1) /\ 68 = 64 + 4 * (2 - 1) /\ 72 = 64 + 4 * (3 - 1) /\ 76 = 64 + 4 * (4 - 1)
      OBVIOUS
    <3>2. 1 \in 1..4 /\ 2 \in 1..4 /\ 3 \in 1..4 /\ 4 \in 1..4
      OBVIOUS
    <3>. QED
      BY <3>1, <3>2
  <2>. HIDE DEF B
  <2>3. BboxFields(h) = {Field(64 + 4 * (k - 1), LE(h.bbox[k], 4)) : k \in 1..4}
    BY DEF BboxFields
  <2>4. ASSUME NEW f \in of(B) PROVE f \in BboxFields(h)
    <3>1. PICK a \in B : f = Field(a, FieldBytes(h, a))
      OBVIOUS
    <3>2. PICK k \in 1..4 : a = 64 + 4 * (k - 1)
      BY <2>2
    <3>. QED
      BY <2>1, <2>3, <3>1, <3>2
  <2>5. ASSUME NEW f \in BboxFields(h) PROVE f \in of(B)
    <3>1. PICK k \in 1..4 : f = Field(64 + 4 * (k - 1), LE(h.bbox[k], 4))
      BY <2>3
    <3>. QED
      BY <2>1, <3>1
  <2>. QED
    BY <2>4, <2>5
<1>5. of(C) = {Field(96 + 8 * z, LE(h.zooms[z].offset, 4) \o LE(h.zooms[z].count, 4)) : z \in Zooms}
  <2>1. ASSUME NEW z \in Zooms, NEW a, a = 96 + 8 * z
        PROVE FieldBytes(h, a) = LE(h.zooms[z].offset, 4) \o LE(h.zooms[z].count, 4)
    <3>1. (a - 96) \div 8 = z /\ a \in Int /\ a >= 96 /\ a < 288
      BY <2>1, ZoomRange
    <3>2. FieldBytes(h, a) = LE(h.zooms[(a - 96) \div 8].offset, 4) \o LE(h.zooms[(a - 96) \div 8].count, 4)
      BY <3>1, SlotBytes, ZenonT(20)
    <3>. QED
      BY <3>1, <3>2
  <2>2. ASSUME NEW z \in Zooms
        PROVE FieldBytes(h, 96 + 8 * z) = LE(h.zooms[z].offset, 4) \o LE(h.zooms[z].count, 4)
    BY <2>1, Zenon
  <2>. QED
    BY <2>2
<1>6. HeaderFields(h) = of(A) \cup of(B) \cup of(C)
  <2>. HIDE DEF A, B, C
  <2>. QED
    BY <1>3, <1>4, <1>5 DEF HeaderFields
<1>. QED
  BY <1>2, <1>6

(* n bytes. *)
NBytes(b, n) == b \in Seq(Octet) /\ Len(b) = n

(* Each field has as many bytes as its place. *)
LEMMA FieldsFill ==
  ASSUME NEW h, HeaderTyped(h), NEW a \in Starts
  PROVE  NBytes(FieldBytes(h, a), FieldLen(a))
<1>1. /\ h.major \in Octet /\ h.minor \in Octet
      /\ h.pack_uuid \in [1..16 -> Octet] /\ h.supersedes \in [1..16 -> Octet]
      /\ h.parent \in [1..16 -> Octet] /\ h.build_timestamp \in [1..8 -> Octet]
      /\ h.pixel_format \in Octet /\ h.projection \in Octet /\ h.addressing \in Octet
      /\ h.axis \in Octet /\ h.zoom_min \in Octet /\ h.zoom_max \in Octet
      /\ h.tile_dim_px \in Int /\ h.tile_count \in Int /\ h.index_offset \in Int
      /\ h.extensions_offset \in Int
      /\ \A k \in 1..4 : h.bbox[k] \in Int
      /\ \A z \in Zooms : h.zooms[z].offset \in Int /\ h.zooms[z].count \in Int
  BY DEF HeaderTyped
<1>2. \A v \in Int : NBytes(LE(v, 2), 2) /\ NBytes(LE(v, 4), 4)
  <2>1. ASSUME NEW v \in Int PROVE NBytes(LE(v, 2), 2) /\ NBytes(LE(v, 4), 4)
    <3>1. IsLE(v)
      BY LEBytes
    <3>. QED
      BY <3>1 DEF IsLE, NBytes
  <2>. QED
    BY <2>1
<1>3. \A n \in Nat : \A s \in [1..n -> Octet] : NBytes(s, n)
  BY BytesOfFunction DEF NBytes
<1>4. \A s \in [1..16 -> Octet] : NBytes(s, 16)
  BY <1>3
<1>5. \A s \in [1..8 -> Octet] : NBytes(s, 8)
  BY <1>3
<1>6. \A u, v \in Octet : NBytes(<<u, v>>, 2)
  BY DEF NBytes
<1>7. \A u, v, w, x \in Octet : NBytes(<<u, v, w, x>>, 4)
  BY DEF NBytes
<1>8. NBytes(Magic, 4)
  <2>1. 82 \in Octet /\ 65 \in Octet /\ 87 \in Octet /\ 84 \in Octet
    BY DEF Octet
  <2>. QED
    BY <1>7, <2>1 DEF Magic
<1>9. \A b, c : NBytes(b, 4) /\ NBytes(c, 4) => NBytes(b \o c, 8)
  <2>1. ASSUME NEW b, NEW c, NBytes(b, 4), NBytes(c, 4) PROVE NBytes(b \o c, 8)
    <3>1. b \in Seq(Octet) /\ Len(b) = 4 /\ c \in Seq(Octet) /\ Len(c) = 4
      BY <2>1 DEF NBytes
    <3>2. IsJoin(b \o c, b, 4, c, 4)
      BY <3>1, Joined
    <3>. DEFINE bc == b \o c
    <3>. HIDE DEF bc
    <3>3. bc \in Seq(Octet) /\ Len(bc) = 4 + 4
      BY <3>2 DEF IsJoin, bc
    <3>4. NBytes(bc, 8)
      BY <3>3 DEF NBytes
    <3>. QED
      BY <3>4 DEF bc
  <2>. QED
    BY <2>1
<1>10. CASE a \in {0, 4, 8, 24, 40, 56, 60, 62, 80, 88, 92, 288}
  <2>1. CASE a = 0
    BY <1>8, <2>1 DEF FieldBytes, FieldLen
  <2>2. CASE a = 4
    BY <1>1, <1>6, <2>2 DEF FieldBytes, FieldLen
  <2>3. CASE a \in {8, 24, 40}
    BY <1>1, <1>4, <2>3 DEF FieldBytes, FieldLen
  <2>4. CASE a = 56
    <3>1. NBytes(<<h.pixel_format, h.projection, h.addressing, h.axis>>, 4)
      BY <1>1, <1>7
    <3>2. FieldBytes(h, a) = <<h.pixel_format, h.projection, h.addressing, h.axis>>
      BY <2>4 DEF FieldBytes
    <3>3. FieldLen(a) = 4
      BY <2>4 DEF FieldLen
    <3>. QED
      BY <3>1, <3>2, <3>3
  <2>5. CASE a = 60
    BY <1>1, <1>2, <2>5 DEF FieldBytes, FieldLen
  <2>6. CASE a = 62
    BY <1>1, <1>6, <2>6 DEF FieldBytes, FieldLen
  <2>7. CASE a = 80
    BY <1>1, <1>5, <2>7 DEF FieldBytes, FieldLen
  <2>8. CASE a \in {88, 92, 288}
    BY <1>1, <1>2, <2>8 DEF FieldBytes, FieldLen
  <2>. QED
    BY <1>10, <2>1, <2>2, <2>3, <2>4, <2>5, <2>6, <2>7, <2>8
<1>11. CASE a \in {64, 68, 72, 76}
  <2>1. (a - 64) \div 4 + 1 \in 1..4
    BY <1>11
  <2>2. FieldBytes(h, a) = LE(h.bbox[(a - 64) \div 4 + 1], 4) /\ FieldLen(a) = 4
    BY <1>11 DEF FieldBytes, FieldLen
  <2>. QED
    BY <1>1, <1>2, <2>1, <2>2
<1>12. CASE \E z \in Zooms : a = 96 + 8 * z
  <2>1. PICK z \in Zooms : a = 96 + 8 * z
    BY <1>12
  <2>2. (a - 96) \div 8 = z /\ a \in Int /\ a >= 96 /\ a < 288
    BY <2>1, ZoomRange
  <2>3. FieldLen(a) = 8
    BY <2>2 DEF FieldLen
  <2>4. FieldBytes(h, a) = LE(h.zooms[(a - 96) \div 8].offset, 4) \o LE(h.zooms[(a - 96) \div 8].count, 4)
    BY <2>2, SlotBytes, ZenonT(20)
  <2>. DEFINE b == LE(h.zooms[z].offset, 4)  c == LE(h.zooms[z].count, 4)
  <2>5. NBytes(b, 4) /\ NBytes(c, 4)
    BY <1>1, <1>2
  <2>6. FieldBytes(h, a) = b \o c
    BY <2>2, <2>4
  <2>. HIDE DEF b, c
  <2>. QED
    BY <1>9, <2>3, <2>5, <2>6
<1>. QED
  BY <1>10, <1>11, <1>12 DEF Starts

(* The header as bytes: every field at its place. *)
HasFields(w, h) ==
  \A a \in Starts : \A k \in 1..FieldLen(a) : a + k \in 1..HeaderSize /\ w[a + k] = FieldBytes(h, a)[k]

(* write_header puts each field at its place. *)
LEMMA HeaderWritten ==
  ASSUME NEW h, HeaderTyped(h)
  PROVE  NBytes(WriteHeader(h), HeaderSize) /\ HasFields(WriteHeader(h), h)
<1>. DEFINE F == HeaderFields(h)
            covering(c) == {f \in F : c \in f.at..(f.at + Len(f.bytes) - 1)}
            byte(k) == IF covering(k - 1) = {} THEN 0
                       ELSE LET f == CHOOSE g \in covering(k - 1) : TRUE IN f.bytes[k - f.at]
            w == WriteHeader(h)
<1>1. w = [k \in 1..HeaderSize |-> byte(k)]
  BY DEF WriteHeader
<1>2. F = {Field(a, FieldBytes(h, a)) : a \in Starts}
  BY FieldsAreStarts
<1>3. \A a \in Starts : /\ a \in Nat /\ FieldLen(a) \in Nat /\ a + FieldLen(a) <= HeaderSize
                        /\ FieldBytes(h, a) \in Seq(Octet) /\ Len(FieldBytes(h, a)) = FieldLen(a)
  BY StartsApart, FieldsFill DEF NBytes
<1>4. \A a : Field(a, FieldBytes(h, a)).at = a /\ Field(a, FieldBytes(h, a)).bytes = FieldBytes(h, a)
  BY DEF Field
<1>. HIDE DEF F
<1>5. \A f \in F : \E a \in Starts : f.at = a /\ f.bytes = FieldBytes(h, a) /\ f = Field(a, FieldBytes(h, a))
  BY <1>2, <1>4
<1>6. ASSUME NEW c \in Int, NEW f \in covering(c)
      PROVE  \E a \in Starts : /\ f = Field(a, FieldBytes(h, a)) /\ f.at = a
                               /\ f.bytes = FieldBytes(h, a)
                               /\ a <= c /\ c < a + FieldLen(a)
  <2>1. f \in F /\ c \in f.at..(f.at + Len(f.bytes) - 1)
    OBVIOUS
  <2>2. PICK a \in Starts : f.at = a /\ f.bytes = FieldBytes(h, a) /\ f = Field(a, FieldBytes(h, a))
    BY <1>5, <2>1
  <2>3. a \in Nat /\ Len(f.bytes) = FieldLen(a) /\ FieldLen(a) \in Nat
    BY <1>3, <2>2
  <2>4. a <= c /\ c < a + FieldLen(a)
    BY <2>1, <2>2, <2>3
  <2>. QED
    BY <2>2, <2>4
<1>7. ASSUME NEW a \in Starts, NEW k \in 1..FieldLen(a)
      PROVE  a + k \in 1..HeaderSize /\ byte(a + k) = FieldBytes(h, a)[k]
  <2>. DEFINE c == (a + k) - 1  f == Field(a, FieldBytes(h, a))
  <2>1. a \in Nat /\ FieldLen(a) \in Nat /\ a + FieldLen(a) <= HeaderSize
    BY <1>3
  <2>2. /\ c \in Int /\ a <= c /\ c < a + FieldLen(a)
        /\ a + k \in 1..HeaderSize /\ (a + k) - a = k
    BY <2>1 DEF HeaderSize
  <2>3. f \in F /\ f.at = a /\ f.bytes = FieldBytes(h, a) /\ Len(f.bytes) = FieldLen(a)
    BY <1>2, <1>3, <1>4
  <2>. HIDE DEF c, f
  <2>4. f \in covering(c)
    BY <2>1, <2>2, <2>3
  <2>5. ASSUME NEW g \in covering(c) PROVE g = f
    <3>1. PICK b \in Starts : g = Field(b, FieldBytes(h, b)) /\ b <= c /\ c < b + FieldLen(b)
      BY <1>6, <2>2
    <3>2. b = a
      BY <2>2, <3>1, StartsApart
    <3>. QED
      BY <3>1, <3>2 DEF f
  <2>. DEFINE S == covering(c)
  <2>6. S = {f}
    BY <2>4, <2>5
  <2>. HIDE DEF S
  <2>7. (CHOOSE g \in S : TRUE) = f
    BY <2>6
  <2>8. byte(a + k) = f.bytes[(a + k) - f.at]
    <3>1. byte(a + k) = IF S = {} THEN 0
                        ELSE (CHOOSE g \in S : TRUE).bytes[(a + k) - (CHOOSE g \in S : TRUE).at]
      BY DEF S, c
    <3>. HIDE DEF byte
    <3>. QED
      BY <2>6, <2>7, <3>1
  <2>. HIDE DEF byte
  <2>. QED
    BY <2>2, <2>3, <2>8
<1>8. ASSUME NEW k \in 1..HeaderSize PROVE byte(k) \in Octet
  <2>1. CASE covering(k - 1) = {}
    BY <2>1 DEF Octet
  <2>2. CASE covering(k - 1) # {}
    <3>. DEFINE S == covering(k - 1)  f == CHOOSE g \in S : TRUE
    <3>1. f \in S
      BY <2>2
    <3>2. k - 1 \in Int
      BY DEF HeaderSize
    <3>. HIDE DEF f
    <3>3. PICK a \in Starts : /\ f.at = a /\ f.bytes = FieldBytes(h, a)
                              /\ a <= k - 1 /\ k - 1 < a + FieldLen(a)
      BY <1>6, <3>1, <3>2
    <3>4. k - a \in 1..FieldLen(a)
      BY <1>3, <3>2, <3>3 DEF HeaderSize
    <3>5. f.bytes[k - f.at] \in Octet
      BY <1>3, <3>3, <3>4
    <3>6. byte(k) = f.bytes[k - f.at]
      BY <2>2 DEF f
    <3>. QED
      BY <3>5, <3>6
  <2>. QED
    BY <2>1, <2>2
<1>. HIDE DEF byte, w
<1>9. NBytes(w, HeaderSize)
  <2>1. w \in [1..HeaderSize -> Octet] /\ HeaderSize \in Nat
    BY <1>1, <1>8 DEF HeaderSize
  <2>. QED
    BY <2>1, BytesOfFunction DEF NBytes
<1>10. HasFields(w, h)
  BY <1>1, <1>7 DEF HasFields
<1>. QED
  BY <1>9, <1>10 DEF w

(* A function on 1..n into strings of bytes is a sequence of n of them. *)
LEMMA StringsOfFunction ==
  ASSUME NEW n \in Nat, NEW s \in [1..n -> Seq(Octet)]
  PROVE  s \in Seq(Seq(Octet)) /\ Len(s) = n
<1>. DEFINE O == Seq(Octet)
<1>1. s \in [1..n -> O]
  OBVIOUS
<1>. HIDE DEF O
<1>2. s \in Seq(O)
  BY <1>1, SeqDef
<1>3. Len(s) = n
  BY <1>1, <1>2, LenProperties
<1>. QED
  BY <1>2, <1>3 DEF O

(* Offsets that never fall stay above the first. *)
LEMMA NeverBelowFirst ==
  ASSUME NEW n \in Nat, NEW at, \A j \in 1..(n + 1) : at[j] \in Nat,
         \A j \in 1..n : at[j] <= at[j + 1]
  PROVE  \A j \in 1..(n + 1) : at[1] <= at[j]
<1>. DEFINE Good == {m \in Nat : m <= n => at[1] <= at[m + 1]}
<1>1. 0 \in Good
  <2>1. 1 \in 1..(n + 1)
    OBVIOUS
  <2>. QED
    BY <2>1
<1>2. ASSUME NEW m \in Nat, m \in Good PROVE m + 1 \in Good
  <2>. SUFFICES ASSUME m + 1 <= n PROVE at[1] <= at[(m + 1) + 1]
    OBVIOUS
  <2>1. /\ m + 1 \in 1..n /\ 1 \in 1..(n + 1) /\ m + 1 \in 1..(n + 1)
        /\ (m + 1) + 1 \in 1..(n + 1) /\ m <= n
    OBVIOUS
  <2>2. at[1] <= at[m + 1] /\ at[m + 1] <= at[(m + 1) + 1]
    BY <1>2, <2>1
  <2>3. at[1] \in Nat /\ at[m + 1] \in Nat /\ at[(m + 1) + 1] \in Nat
    BY <2>1
  <2>. QED
    BY <2>2, <2>3
<1>. HIDE DEF Good
<1>3. ASSUME NEW j \in 1..(n + 1) PROVE at[1] <= at[j]
  <2>1. j - 1 \in Nat /\ (j - 1) + 1 = j /\ j - 1 <= n
    OBVIOUS
  <2>2. j - 1 \in Good
    BY <1>1, <1>2, <2>1, SetInduction
  <2>. QED
    BY <2>1, <2>2 DEF Good
<1>. QED
  BY <1>3

(* What is put in front of a string moves what stands in it. *)
LEMMA HoldsBehind ==
  ASSUME NEW a \in Seq(Octet), NEW w \in Seq(Octet), NEW s \in Seq(Octet), NEW at \in Nat,
         NEW m, m = Len(a), HoldsAt(w, s, at)
  PROVE  HoldsAt(a \o w, s, m + at)
<1>. DEFINE n == Len(w)  c == a \o w
<1>1. IsJoin(c, a, m, w, n) /\ m \in Nat /\ n \in Nat /\ Len(s) \in Nat
  BY Joined
<1>. HIDE DEF n, c
<1>2. at + Len(s) <= n /\ \A k \in 1..Len(s) : w[at + k] = s[k]
  BY DEF HoldsAt, n
<1>3. Len(c) = m + n /\ \A k \in 1..n : c[m + k] = w[k]
  BY <1>1 DEF IsJoin
<1>4. ASSUME NEW k \in 1..Len(s) PROVE c[(m + at) + k] = s[k]
  <2>1. at + k \in 1..n
    BY <1>1, <1>2
  <2>3. m + (at + k) = (m + at) + k
    BY <1>1
  <2>2. c[m + (at + k)] = w[at + k]
    BY <1>3, <2>1
  <2>. QED
    BY <1>2, <2>1, <2>2, <2>3
<1>5. (m + at) + Len(s) <= Len(c)
  BY <1>1, <1>2, <1>3
<1>. QED
  BY <1>4, <1>5 DEF HoldsAt, c

(* The same for the last of several flattened strings, at their offsets in *)
(* the whole.                                                              *)
LEMMA FlatBehind ==
  ASSUME NEW a \in Seq(Octet), NEW n \in Nat, NEW seqs \in [1..n -> Seq(Octet)], NEW at,
         at[1] = Len(a), \A i \in 1..(n + 1) : at[i] \in Nat,
         \A i \in 1..n : at[i + 1] = at[i] + Len(seqs[i])
  PROVE  /\ FlattenSeq(seqs) \in Seq(Octet)
         /\ a \o FlattenSeq(seqs) \in Seq(Octet) /\ Len(a \o FlattenSeq(seqs)) = at[n + 1]
         /\ \A i \in 1..n : HoldsAt(a \o FlattenSeq(seqs), seqs[i], at[i])
<1>. DEFINE m == Len(a)  w == FlattenSeq(seqs)  rel == [i \in 1..(n + 1) |-> at[i] - m]
<1>1. m \in Nat /\ \A i \in 1..n : seqs[i] \in Seq(Octet) /\ Len(seqs[i]) \in Nat
  OBVIOUS
<1>2. seqs \in Seq(Seq(Octet)) /\ Len(seqs) = n
  BY StringsOfFunction
<1>. HIDE DEF m
<1>3. ASSUME NEW i \in 1..n PROVE at[i] <= at[i + 1]
  <2>1. i \in 1..(n + 1) /\ i + 1 \in 1..(n + 1)
    OBVIOUS
  <2>. QED
    BY SMTT(30), <1>1, <2>1
<1>4. \A i \in 1..(n + 1) : at[1] <= at[i]
  BY <1>3, NeverBelowFirst
<1>5. at[1] = m /\ \A i \in 1..(n + 1) : rel[i] = at[i] - m /\ rel[i] \in Nat
  BY <1>1, <1>4 DEF m
<1>. HIDE DEF rel
<1>6. IsStarts(rel, seqs, n)
  <2>1. rel[1] = 0
    <3>1. 1 \in 1..(n + 1)
      OBVIOUS
    <3>. QED
      BY <1>1, <1>5, <3>1
  <2>2. ASSUME NEW i \in 1..n PROVE rel[i] \in Nat /\ rel[i + 1] = rel[i] + Len(seqs[i])
    <3>1. i \in 1..(n + 1) /\ i + 1 \in 1..(n + 1)
      OBVIOUS
    <3>2. at[i] \in Nat /\ at[i + 1] = at[i] + Len(seqs[i]) /\ Len(seqs[i]) \in Nat
      BY <1>1, <3>1
    <3>3. /\ rel[i] = at[i] - m /\ rel[i] \in Nat
          /\ rel[i + 1] = at[i + 1] - m
      BY <1>5, <3>1
    <3>. QED
      BY <1>1, <3>2, <3>3
  <2>. QED
    BY <2>1, <2>2 DEF IsStarts
<1>7. IsFlatAt(w, seqs, n, rel)
  BY <1>2, <1>6, FlatIndex
<1>. HIDE DEF w
<1>8. w \in Seq(Octet) /\ Len(w) = rel[n + 1] /\ \A i \in 1..n : HoldsAt(w, seqs[i], rel[i])
  BY <1>7 DEF IsFlatAt
<1>9. a \o w \in Seq(Octet) /\ Len(a \o w) = at[n + 1]
  <2>1. IsJoin(a \o w, a, m, w, Len(w))
    BY <1>8, Joined DEF m
  <2>. DEFINE c == a \o w
  <2>. HIDE DEF c
  <2>2. c \in Seq(Octet) /\ Len(c) = m + Len(w)
    BY <2>1 DEF IsJoin, c
  <2>3. n + 1 \in 1..(n + 1)
    OBVIOUS
  <2>4. m + (at[n + 1] - m) = at[n + 1]
    BY <1>1, <2>3
  <2>. QED
    BY <1>5, <1>8, <2>2, <2>3, <2>4 DEF c
<1>10. ASSUME NEW i \in 1..n PROVE HoldsAt(a \o w, seqs[i], at[i])
  <2>1. i \in 1..(n + 1)
    OBVIOUS
  <2>2. rel[i] \in Nat /\ m + rel[i] = at[i]
    BY SMTT(30), <1>1, <1>5, <2>1
  <2>3. HoldsAt(a \o w, seqs[i], m + rel[i])
    BY <1>1, <1>8, <2>2, HoldsBehind DEF m
  <2>. QED
    BY <2>2, <2>3
<1>. QED
  BY <1>8, <1>9, <1>10 DEF w

(* What stands where in a finished pack. *)
IsLaidOut(w, p) ==
  LET n == Len(p.tiles)
      m == Len(p.sections)
  IN /\ w \in Seq(Octet) /\ Len(w) = SectionAt(p, m + 1)
     /\ HasFields(w, Header(p))
     /\ \A i \in 1..n :
          HoldsAt(w, WriteEntry(p.tiles[i], TileOffset(p, i)), HeaderSize + EntrySize * (i - 1))
     /\ \A i \in 1..n : HoldsAt(w, Padded(p.tiles[i].bytes), TileOffset(p, i))
     /\ \A j \in 1..m : HoldsAt(w, WriteSection(p.sections[j]), SectionAt(p, j))

(* The header, the index, the tiles and the sections one after the other.  *)
LEMMA Layout == ASSUME NEW p, IsPack(p) PROVE IsLaidOut(Written(p), p)
<1>. DEFINE n == Len(p.tiles)  m == Len(p.sections)
            es == [i \in 1..n |-> WriteEntry(p.tiles[i], TileOffset(p, i))]
            ts == [i \in 1..n |-> Padded(p.tiles[i].bytes)]
            ss == [j \in 1..m |-> WriteSection(p.sections[j])]
            H == WriteHeader(Header(p))
            Z == Zeros(BlobStart(n) - (HeaderSize + EntrySize * n))
            HE == H \o FlattenSeq(es)
            HEZ == HE \o Z
            HEZT == HEZ \o FlattenSeq(ts)
            W == HEZT \o FlattenSeq(ss)
<1>1. /\ n \in Nat /\ DOMAIN p.tiles = 1..n
      /\ \A i \in 1..n : p.tiles[i] \in Tiles /\ p.tiles[i].bytes \in Seq(Octet)
      /\ m \in Nat /\ DOMAIN p.sections = 1..m /\ \A j \in 1..m : p.sections[j] \in Sections
  BY PackParts
<1>2. Written(p) = W
  BY <1>1, Zenon DEF Written
<1>3. TilesStart(p) /\ SectionsStart(p)
  BY TileOffsets, SectionOffsets
<1>. HIDE DEF n, m
<1>4. /\ TileOffset(p, 1) = BlobStart(n)
      /\ \A i \in 1..n : TileOffset(p, i + 1) = TileOffset(p, i) + AlignUp(Len(p.tiles[i].bytes))
      /\ \A i \in 1..(n + 1) : TileOffset(p, i) \in Nat
  BY <1>3 DEF TilesStart, n
<1>5. /\ SectionAt(p, 1) = TileOffset(p, n + 1)
      /\ \A j \in 1..m : SectionAt(p, j + 1) = SectionAt(p, j) + Len(WriteSection(p.sections[j]))
      /\ \A j \in 1..(m + 1) : SectionAt(p, j) \in Nat
  BY <1>3 DEF SectionsStart, n, m
<1>6. \A i \in 1..n : /\ es[i] = WriteEntry(p.tiles[i], TileOffset(p, i))
                      /\ es[i] \in Seq(Octet) /\ Len(es[i]) = 20
  <2>1. ASSUME NEW i \in 1..n
        PROVE  /\ WriteEntry(p.tiles[i], TileOffset(p, i)) \in Seq(Octet)
               /\ Len(WriteEntry(p.tiles[i], TileOffset(p, i))) = 20
    <3>1. i \in 1..(n + 1) /\ p.tiles[i] \in Tiles
      BY <1>1
    <3>2. TileOffset(p, i) \in Nat
      BY <1>4, <3>1
    <3>3. EntryBytes(WriteEntry(p.tiles[i], TileOffset(p, i)), p.tiles[i], TileOffset(p, i))
      BY <3>1, <3>2, EntryWritten
    <3>. QED
      BY <3>3 DEF EntryBytes
  <2>. QED
    BY <2>1
<1>7. \A i \in 1..n : /\ ts[i] = Padded(p.tiles[i].bytes)
                      /\ ts[i] \in Seq(Octet) /\ Len(ts[i]) = AlignUp(Len(p.tiles[i].bytes))
  BY <1>1, PaddedBytes
<1>8. \A j \in 1..m : ss[j] = WriteSection(p.sections[j]) /\ ss[j] \in Seq(Octet)
  BY <1>1, SectionBytes
<1>9. es \in [1..n -> Seq(Octet)] /\ ts \in [1..n -> Seq(Octet)] /\ ss \in [1..m -> Seq(Octet)]
  <2>1. /\ es = [i \in 1..n |-> es[i]] /\ ts = [i \in 1..n |-> ts[i]] /\ ss = [j \in 1..m |-> ss[j]]
    OBVIOUS
  <2>. HIDE DEF es, ts, ss
  <2>. QED
    BY <1>6, <1>7, <1>8, <2>1
<1>. HIDE DEF es, ts, ss
<1>10. H \in Seq(Octet) /\ Len(H) = HeaderSize /\ HasFields(H, Header(p))
  BY HeaderIsTyped, HeaderWritten DEF NBytes
<1>. HIDE DEF H
<1>. DEFINE ea == [i \in 1..(n + 1) |-> HeaderSize + EntrySize * (i - 1)]
<1>11. /\ ea[1] = HeaderSize /\ ea[n + 1] = HeaderSize + EntrySize * n
       /\ \A i \in 1..(n + 1) : ea[i] \in Nat
       /\ \A i \in 1..n : ea[i] = HeaderSize + EntrySize * (i - 1) /\ ea[i + 1] = ea[i] + 20
  BY <1>1 DEF HeaderSize, EntrySize
<1>. HIDE DEF ea
<1>12. /\ FlattenSeq(es) \in Seq(Octet)
       /\ HE \in Seq(Octet) /\ Len(HE) = HeaderSize + EntrySize * n
       /\ \A i \in 1..n : HoldsAt(HE, es[i], ea[i])
  <2>1. \A i \in 1..n : ea[i + 1] = ea[i] + Len(es[i])
    BY <1>6, <1>11
  <2>2. ea[1] = Len(H) /\ \A i \in 1..(n + 1) : ea[i] \in Nat
    BY <1>10, <1>11
  <2>3. /\ FlattenSeq(es) \in Seq(Octet)
        /\ HE \in Seq(Octet) /\ Len(HE) = ea[n + 1]
        /\ \A i \in 1..n : HoldsAt(HE, es[i], ea[i])
    BY <1>1, <1>9, <1>10, <2>1, <2>2, FlatBehind
  <2>. HIDE DEF HE
  <2>. QED
    BY <1>11, <2>3
<1>13. HasFields(HE, Header(p))
  <2>1. IsJoin(HE, H, HeaderSize, FlattenSeq(es), Len(FlattenSeq(es)))
    BY <1>10, <1>12, Joined
  <2>2. \A k \in 1..HeaderSize : HE[k] = H[k]
    BY <2>1 DEF IsJoin
  <2>. HIDE DEF HE
  <2>. QED
    BY <1>10, <2>2 DEF HasFields
<1>. HIDE DEF HE
<1>14. /\ Z \in Seq(Octet) /\ HEZ \in Seq(Octet) /\ Len(HEZ) = BlobStart(n)
       /\ HeaderSize + EntrySize * n <= BlobStart(n) /\ BlobStart(n) \in Nat
       /\ HeaderSize + EntrySize * n \in Nat
  <2>. DEFINE v == HeaderSize + n * EntrySize  b == BlobStart(n)  u == HeaderSize + EntrySize * n
  <2>1. v \in Nat /\ u = v
    BY <1>1 DEF HeaderSize, EntrySize
  <2>2. b = AlignUp(v)
    BY DEF BlobStart
  <2>. HIDE DEF v, b, u
  <2>3. b \in Nat /\ u <= b /\ b - u \in Nat
    BY <2>1, <2>2, AlignUps
  <2>4. Z \in Seq(Octet) /\ Len(Z) = b - u
    BY <2>3, ZerosAre DEF b, u
  <2>. HIDE DEF Z
  <2>5. Len(HE) = u
    BY <1>12 DEF u
  <2>6. IsJoin(HEZ, HE, u, Z, b - u)
    BY <1>12, <2>4, <2>5, Joined
  <2>. HIDE DEF HEZ
  <2>7. HEZ \in Seq(Octet) /\ Len(HEZ) = b
    BY <2>1, <2>3, <2>6 DEF IsJoin
  <2>. QED
    BY <2>1, <2>3, <2>4, <2>7 DEF b, u
<1>. HIDE DEF Z
<1>15. HasFields(HEZ, Header(p)) /\ \A i \in 1..n : HoldsAt(HEZ, es[i], ea[i])
  <2>1. ASSUME NEW i \in 1..n PROVE HoldsAt(HEZ, es[i], ea[i])
    <3>1. ea[i] \in Nat /\ es[i] \in Seq(Octet) /\ HoldsAt(HE, es[i], ea[i])
      <4>1. i \in 1..(n + 1)
        BY <1>1
      <4>. QED
        BY <1>6, <1>11, <1>12, <4>1
    <3>. QED
      BY <1>12, <1>14, <3>1, HoldsStill
  <2>2. IsJoin(HEZ, HE, Len(HE), Z, Len(Z))
    BY <1>12, <1>14, Joined
  <2>3. \A k \in 1..HeaderSize : HEZ[k] = HE[k]
    <3>1. HeaderSize <= Len(HE) /\ HeaderSize \in Nat /\ Len(HE) \in Nat
      BY <1>1, <1>12 DEF HeaderSize, EntrySize
    <3>2. \A k \in 1..HeaderSize : k \in 1..Len(HE)
      BY <3>1
    <3>. QED
      BY <2>2, <3>2 DEF IsJoin
  <2>. HIDE DEF HEZ
  <2>4. HasFields(HEZ, Header(p))
    BY <1>13, <2>3 DEF HasFields
  <2>. QED
    BY <2>1, <2>4 DEF HEZ
<1>. HIDE DEF HEZ
<1>. DEFINE ta == [i \in 1..(n + 1) |-> TileOffset(p, i)]
<1>16. \A i \in 1..(n + 1) : ta[i] = TileOffset(p, i) /\ ta[i] \in Nat
  BY <1>4
<1>. HIDE DEF ta
<1>17. /\ FlattenSeq(ts) \in Seq(Octet)
       /\ HEZT \in Seq(Octet) /\ Len(HEZT) = TileOffset(p, n + 1)
       /\ \A i \in 1..n : HoldsAt(HEZT, ts[i], TileOffset(p, i))
  <2>0. 1 \in 1..(n + 1) /\ n + 1 \in 1..(n + 1) /\ \A i \in 1..n : i \in 1..(n + 1) /\ i + 1 \in 1..(n + 1)
    BY <1>1
  <2>1. ta[1] = Len(HEZ)
    BY <1>4, <1>14, <1>16, <2>0
  <2>2. \A i \in 1..n : ta[i + 1] = ta[i] + Len(ts[i])
    BY <1>4, <1>7, <1>16, <2>0
  <2>3. /\ FlattenSeq(ts) \in Seq(Octet)
        /\ HEZT \in Seq(Octet) /\ Len(HEZT) = ta[n + 1]
        /\ \A i \in 1..n : HoldsAt(HEZT, ts[i], ta[i])
    BY <1>1, <1>9, <1>14, <1>16, <2>1, <2>2, FlatBehind
  <2>. HIDE DEF HEZT
  <2>. QED
    BY <1>16, <2>0, <2>3
<1>18. BlobStart(n) <= TileOffset(p, n + 1)
  <2>0. 1 \in 1..(n + 1) /\ n + 1 \in 1..(n + 1) /\ \A i \in 1..n : i \in 1..(n + 1) /\ i + 1 \in 1..(n + 1)
    BY <1>1
  <2>1. ASSUME NEW i \in 1..n PROVE ta[i] <= ta[i + 1]
    <3>1. AlignUp(Len(p.tiles[i].bytes)) \in Nat
      BY <1>1, PaddedBytes
    <3>2. ta[i] \in Nat /\ ta[i + 1] = ta[i] + AlignUp(Len(p.tiles[i].bytes))
      BY <1>4, <1>16, <2>0
    <3>. QED
      BY <3>1, <3>2
  <2>2. \A i \in 1..(n + 1) : ta[1] <= ta[i]
    BY <1>1, <1>16, <2>1, NeverBelowFirst
  <2>. QED
    BY <1>4, <1>16, <2>0, <2>2
<1>19. HasFields(HEZT, Header(p)) /\ \A i \in 1..n : HoldsAt(HEZT, es[i], ea[i])
  <2>1. ASSUME NEW i \in 1..n PROVE HoldsAt(HEZT, es[i], ea[i])
    <3>1. ea[i] \in Nat /\ es[i] \in Seq(Octet) /\ HoldsAt(HEZ, es[i], ea[i])
      <4>1. i \in 1..(n + 1)
        BY <1>1
      <4>. QED
        BY <1>6, <1>11, <1>15, <4>1
    <3>. QED
      BY <1>14, <1>17, <3>1, HoldsStill
  <2>2. IsJoin(HEZT, HEZ, Len(HEZ), FlattenSeq(ts), Len(FlattenSeq(ts)))
    BY <1>14, <1>17, Joined
  <2>3. \A k \in 1..HeaderSize : HEZT[k] = HEZ[k]
    <3>1. HeaderSize <= Len(HEZ) /\ HeaderSize \in Nat /\ Len(HEZ) \in Nat
      BY <1>1, <1>14 DEF HeaderSize, EntrySize
    <3>2. \A k \in 1..HeaderSize : k \in 1..Len(HEZ)
      BY <3>1
    <3>. QED
      BY <2>2, <3>2 DEF IsJoin
  <2>. HIDE DEF HEZT
  <2>4. HasFields(HEZT, Header(p))
    BY <1>15, <2>3 DEF HasFields
  <2>. QED
    BY <2>1, <2>4 DEF HEZT
<1>. HIDE DEF HEZT
<1>. DEFINE sa == [j \in 1..(m + 1) |-> SectionAt(p, j)]
<1>20. \A j \in 1..(m + 1) : sa[j] = SectionAt(p, j) /\ sa[j] \in Nat
  BY <1>5
<1>. HIDE DEF sa
<1>21. /\ FlattenSeq(ss) \in Seq(Octet)
       /\ W \in Seq(Octet) /\ Len(W) = SectionAt(p, m + 1)
       /\ \A j \in 1..m : HoldsAt(W, ss[j], SectionAt(p, j))
  <2>0. 1 \in 1..(m + 1) /\ m + 1 \in 1..(m + 1) /\ \A j \in 1..m : j \in 1..(m + 1) /\ j + 1 \in 1..(m + 1)
    BY <1>1
  <2>1. sa[1] = Len(HEZT)
    BY <1>5, <1>17, <1>20, <2>0
  <2>2. \A j \in 1..m : sa[j + 1] = sa[j] + Len(ss[j])
    BY <1>5, <1>8, <1>20, <2>0
  <2>3. /\ FlattenSeq(ss) \in Seq(Octet)
        /\ W \in Seq(Octet) /\ Len(W) = sa[m + 1]
        /\ \A j \in 1..m : HoldsAt(W, ss[j], sa[j])
    BY <1>1, <1>9, <1>17, <1>20, <2>1, <2>2, FlatBehind
  <2>. HIDE DEF W
  <2>. QED
    BY <1>20, <2>0, <2>3
<1>22. /\ HasFields(W, Header(p)) /\ \A i \in 1..n : HoldsAt(W, es[i], ea[i])
       /\ \A i \in 1..n : HoldsAt(W, ts[i], TileOffset(p, i))
  <2>1. ASSUME NEW i \in 1..n PROVE HoldsAt(W, es[i], ea[i]) /\ HoldsAt(W, ts[i], TileOffset(p, i))
    <3>0. i \in 1..(n + 1)
      BY <1>1
    <3>1. ea[i] \in Nat /\ es[i] \in Seq(Octet) /\ HoldsAt(HEZT, es[i], ea[i])
      BY <1>6, <1>11, <1>19, <3>0
    <3>2. TileOffset(p, i) \in Nat /\ ts[i] \in Seq(Octet) /\ HoldsAt(HEZT, ts[i], TileOffset(p, i))
      BY <1>4, <1>7, <1>17, <3>0
    <3>3. HoldsAt(W, es[i], ea[i])
      BY <1>17, <1>21, <3>1, HoldsStill
    <3>4. HoldsAt(W, ts[i], TileOffset(p, i))
      BY <1>17, <1>21, <3>2, HoldsStill
    <3>. QED
      BY <3>3, <3>4
  <2>2. IsJoin(W, HEZT, Len(HEZT), FlattenSeq(ss), Len(FlattenSeq(ss)))
    BY <1>17, <1>21, Joined
  <2>3. \A k \in 1..HeaderSize : W[k] = HEZT[k]
    <3>1. HeaderSize <= Len(HEZT) /\ HeaderSize \in Nat /\ Len(HEZT) \in Nat
      <4>1. n + 1 \in 1..(n + 1)
        BY <1>1
      <4>2. TileOffset(p, n + 1) \in Nat
        BY <1>4, <4>1
      <4>. QED
        BY <1>1, <1>14, <1>17, <1>18, <4>2 DEF HeaderSize, EntrySize
    <3>2. \A k \in 1..HeaderSize : k \in 1..Len(HEZT)
      BY <3>1
    <3>. QED
      BY <2>2, <3>2 DEF IsJoin
  <2>. HIDE DEF W
  <2>4. HasFields(W, Header(p))
    BY <1>19, <2>3 DEF HasFields
  <2>. QED
    BY <2>1, <2>4 DEF W
<1>. HIDE DEF W
<1>23. \A i \in 1..n : HoldsAt(W, WriteEntry(p.tiles[i], TileOffset(p, i)), HeaderSize + EntrySize * (i - 1))
  BY <1>6, <1>11, <1>22
<1>24. \A i \in 1..n : HoldsAt(W, Padded(p.tiles[i].bytes), TileOffset(p, i))
  BY <1>7, <1>22
<1>25. \A j \in 1..m : HoldsAt(W, WriteSection(p.sections[j]), SectionAt(p, j))
  BY <1>8, <1>21
<1>26. IsLaidOut(W, p)
  BY <1>21, <1>22, <1>23, <1>24, <1>25 DEF IsLaidOut, n, m
<1>. QED
  BY <1>2, <1>26

----------------------------------------------------------------------------
(* Reading a pack back: every field and entry decodes to what was written. *)

(* Offsets that never fall from one to the next never fall. *)
LEMMA NeverFalls ==
  ASSUME NEW n \in Nat, NEW at, \A j \in 1..(n + 1) : at[j] \in Nat,
         \A j \in 1..n : at[j] <= at[j + 1],
         NEW i \in 1..(n + 1), NEW j \in 1..(n + 1), i <= j
  PROVE  at[i] <= at[j]
<1>. DEFINE Good == {d \in Nat : i + d <= n + 1 => at[i] <= at[i + d]}
<1>1. 0 \in Good
  BY DEF Good
<1>2. ASSUME NEW d \in Nat, d \in Good PROVE d + 1 \in Good
  <2>. SUFFICES ASSUME i + (d + 1) <= n + 1 PROVE at[i] <= at[i + (d + 1)]
    OBVIOUS
  <2>1. /\ i + d \in 1..n /\ i + d \in 1..(n + 1) /\ i + d <= n + 1
        /\ (i + d) + 1 = i + (d + 1) /\ i + (d + 1) \in 1..(n + 1)
    OBVIOUS
  <2>2. at[i] <= at[i + d] /\ at[i + d] <= at[(i + d) + 1]
    BY <1>2, <2>1
  <2>3. at[i] \in Nat /\ at[i + d] \in Nat /\ at[i + (d + 1)] \in Nat
    BY <2>1
  <2>. QED
    BY <2>1, <2>2, <2>3
<1>. HIDE DEF Good
<1>3. j - i \in Nat /\ i + (j - i) = j /\ j <= n + 1
  OBVIOUS
<1>4. j - i \in Good
  BY <1>1, <1>2, <1>3, SetInduction
<1>. QED
  BY <1>3, <1>4 DEF Good

(* The order of the parts of a pack. *)
InRank(p) ==
  LET n == Len(p.tiles)
      m == Len(p.sections)
  IN /\ HeaderSize + EntrySize * n <= BlobStart(n) /\ BlobStart(n) \in Nat
     /\ \A i \in 1..(n + 1) : BlobStart(n) <= TileOffset(p, i) /\ TileOffset(p, i) <= SectionAt(p, 1)
     /\ \A i, j \in 1..(m + 1) : i <= j => SectionAt(p, i) <= SectionAt(p, j)

(* Header, index, tiles and sections come in this order. *)
LEMMA PartsInRank == ASSUME NEW p, IsPack(p) PROVE InRank(p)
<1>. DEFINE n == Len(p.tiles)  m == Len(p.sections)
            ta == [i \in 1..(n + 1) |-> TileOffset(p, i)]
            sa == [j \in 1..(m + 1) |-> SectionAt(p, j)]
<1>1. /\ n \in Nat /\ \A i \in 1..n : p.tiles[i].bytes \in Seq(Octet)
      /\ m \in Nat /\ \A j \in 1..m : p.sections[j] \in Sections
  BY PackParts
<1>2. TilesStart(p) /\ SectionsStart(p)
  BY TileOffsets, SectionOffsets
<1>. HIDE DEF n, m
<1>3. HeaderSize + EntrySize * n <= BlobStart(n) /\ BlobStart(n) \in Nat
  <2>. DEFINE v == HeaderSize + n * EntrySize
  <2>1. v \in Nat /\ HeaderSize + EntrySize * n = v
    BY <1>1 DEF HeaderSize, EntrySize
  <2>2. BlobStart(n) = AlignUp(v)
    BY DEF BlobStart
  <2>. HIDE DEF v
  <2>. QED
    BY <2>1, <2>2, AlignUps
<1>4. /\ \A i \in 1..(n + 1) : ta[i] = TileOffset(p, i) /\ ta[i] \in Nat
      /\ \A j \in 1..(m + 1) : sa[j] = SectionAt(p, j) /\ sa[j] \in Nat
  BY <1>2 DEF TilesStart, SectionsStart, n, m
<1>5. /\ TileOffset(p, 1) = BlobStart(n) /\ SectionAt(p, 1) = TileOffset(p, n + 1)
      /\ \A i \in 1..n : TileOffset(p, i + 1) = TileOffset(p, i) + AlignUp(Len(p.tiles[i].bytes))
      /\ \A j \in 1..m : SectionAt(p, j + 1) = SectionAt(p, j) + Len(WriteSection(p.sections[j]))
  BY <1>2 DEF TilesStart, SectionsStart, n, m
<1>. HIDE DEF ta, sa
<1>6. /\ 1 \in 1..(n + 1) /\ n + 1 \in 1..(n + 1)
      /\ \A i \in 1..n : i \in 1..(n + 1) /\ i + 1 \in 1..(n + 1)
      /\ \A j \in 1..m : j \in 1..(m + 1) /\ j + 1 \in 1..(m + 1)
      /\ \A i \in 1..(n + 1) : 1 <= i /\ i <= n + 1
  BY <1>1
<1>7. ASSUME NEW i \in 1..n PROVE ta[i] <= ta[i + 1]
  <2>1. AlignUp(Len(p.tiles[i].bytes)) \in Nat
    BY <1>1, PaddedBytes
  <2>2. ta[i] \in Nat /\ ta[i + 1] = ta[i] + AlignUp(Len(p.tiles[i].bytes))
    BY <1>4, <1>5, <1>6
  <2>. QED
    BY <2>1, <2>2
<1>8. ASSUME NEW j \in 1..m PROVE sa[j] <= sa[j + 1]
  <2>1. Len(WriteSection(p.sections[j])) \in Nat
    <3>1. WriteSection(p.sections[j]) \in Seq(Octet)
      BY <1>1, SectionBytes
    <3>. QED
      BY <3>1
  <2>2. sa[j] \in Nat /\ sa[j + 1] = sa[j] + Len(WriteSection(p.sections[j]))
    BY <1>4, <1>5, <1>6
  <2>. QED
    BY <2>1, <2>2
<1>9. \A i, j \in 1..(n + 1) : i <= j => ta[i] <= ta[j]
  BY <1>1, <1>4, <1>7, NeverFalls
<1>10. \A i, j \in 1..(m + 1) : i <= j => sa[i] <= sa[j]
  BY <1>1, <1>4, <1>8, NeverFalls
<1>11. \A i \in 1..(n + 1) : BlobStart(n) <= TileOffset(p, i) /\ TileOffset(p, i) <= SectionAt(p, 1)
  <2>1. ASSUME NEW i \in 1..(n + 1)
        PROVE BlobStart(n) <= TileOffset(p, i) /\ TileOffset(p, i) <= SectionAt(p, 1)
    <3>1. ta[1] <= ta[i] /\ ta[i] <= ta[n + 1]
      BY <1>6, <1>9
    <3>. QED
      BY <1>4, <1>5, <1>6, <3>1
  <2>. QED
    BY <2>1
<1>12. \A i, j \in 1..(m + 1) : i <= j => SectionAt(p, i) <= SectionAt(p, j)
  BY <1>4, <1>10
<1>. QED
  BY <1>3, <1>11, <1>12 DEF InRank, n, m

(* A file that differs from a finished pack at most where a newer minor     *)
(* version may.                                                            *)
Agrees(f, p) ==
  /\ f \in Seq(Octet) /\ Len(f) = Len(Written(p))
  /\ \A k \in 1..Len(f) : k - 1 \notin OpenToChange(p) => f[k] = Written(p)[k]

(* What such a file still holds. *)
Keeps(f, p) ==
  LET n == Len(p.tiles)
      m == Len(p.sections)
  IN /\ f \in Seq(Octet) /\ Len(f) = SectionAt(p, m + 1)
     /\ \A a \in Starts : \A k \in 1..FieldLen(a) :
          (a + k) - 1 \notin 5..7 => f[a + k] = FieldBytes(Header(p), a)[k]
     /\ \A i \in 1..n :
          /\ HoldsAt(f, WriteEntry(p.tiles[i], TileOffset(p, i)), HeaderSize + EntrySize * (i - 1))
          /\ HoldsAt(f, Padded(p.tiles[i].bytes), TileOffset(p, i))
     /\ \A j \in 1..m : \A k \in 5..Len(WriteSection(p.sections[j])) :
          f[SectionAt(p, j) + k] = WriteSection(p.sections[j])[k]

(* Everything but the tags of the sections and three bytes of the header.  *)
LEMMA AgreeingKeeps == ASSUME NEW p, IsPack(p), NEW f, Agrees(f, p) PROVE Keeps(f, p)
<1>. DEFINE n == Len(p.tiles)  m == Len(p.sections)  W == Written(p)  first == SectionAt(p, 1)
<1>1. /\ n \in Nat /\ \A i \in 1..n : p.tiles[i] \in Tiles /\ p.tiles[i].bytes \in Seq(Octet)
      /\ m \in Nat /\ DOMAIN p.sections = 1..m /\ \A j \in 1..m : p.sections[j] \in Sections
  BY PackParts
<1>2. IsLaidOut(W, p)
  BY Layout
<1>3. f \in Seq(Octet) /\ Len(f) = Len(W) /\ \A k \in 1..Len(f) : k - 1 \notin OpenToChange(p) => f[k] = W[k]
  BY DEF Agrees
<1>. HIDE DEF n, m, W, first
<1>4. /\ W \in Seq(Octet) /\ Len(W) = SectionAt(p, m + 1) /\ HasFields(W, Header(p))
      /\ \A i \in 1..n :
           /\ HoldsAt(W, WriteEntry(p.tiles[i], TileOffset(p, i)), HeaderSize + EntrySize * (i - 1))
           /\ HoldsAt(W, Padded(p.tiles[i].bytes), TileOffset(p, i))
      /\ \A j \in 1..m : HoldsAt(W, WriteSection(p.sections[j]), SectionAt(p, j))
  BY <1>2 DEF IsLaidOut, n, m
<1>5. /\ HeaderSize + EntrySize * n <= BlobStart(n) /\ BlobStart(n) \in Nat
      /\ \A i \in 1..(n + 1) : BlobStart(n) <= TileOffset(p, i) /\ TileOffset(p, i) <= first
      /\ \A i, j \in 1..(m + 1) : i <= j => SectionAt(p, i) <= SectionAt(p, j)
  BY PartsInRank DEF InRank, n, m, first
<1>6. /\ \A j \in 1..(m + 1) : SectionAt(p, j) \in Nat
      /\ \A j \in 1..m : SectionAt(p, j + 1) = SectionAt(p, j) + Len(WriteSection(p.sections[j]))
  BY SectionOffsets DEF SectionsStart, m
<1>7. /\ \A i \in 1..(n + 1) : TileOffset(p, i) \in Nat
      /\ \A i \in 1..n : TileOffset(p, i + 1) = TileOffset(p, i) + AlignUp(Len(p.tiles[i].bytes))
  BY TileOffsets DEF TilesStart, n
<1>8. \A c : c \in OpenToChange(p) <=>
               c \in 5..7 \/ \E j \in 1..m : c \in SectionAt(p, j)..(SectionAt(p, j) + 3)
  BY <1>1 DEF OpenToChange
<1>9. /\ 1 \in 1..(m + 1) /\ m + 1 \in 1..(m + 1)
      /\ \A j \in 1..m : j \in 1..(m + 1) /\ j + 1 \in 1..(m + 1) /\ 1 <= j
      /\ \A i \in 1..n : i \in 1..(n + 1) /\ i + 1 \in 1..(n + 1)
  BY <1>1
<1>10. first \in Nat /\ first <= Len(f) /\ Len(f) \in Nat /\ BlobStart(n) <= first
  <2>1. 1 <= m + 1 /\ n + 1 \in 1..(n + 1)
    BY <1>1
  <2>2. first \in Nat /\ SectionAt(p, 1) <= SectionAt(p, m + 1) /\ SectionAt(p, m + 1) \in Nat
    BY <1>5, <1>6, <1>9, <2>1 DEF first
  <2>3. BlobStart(n) <= TileOffset(p, n + 1) /\ TileOffset(p, n + 1) <= first /\ TileOffset(p, n + 1) \in Nat
    BY <1>5, <1>7, <2>1
  <2>. QED
    BY <1>3, <1>4, <1>5, <2>2, <2>3 DEF first
<1>11. ASSUME NEW k \in 1..first, k - 1 \notin 5..7 PROVE f[k] = W[k]
  <2>1. ASSUME NEW j \in 1..m PROVE k - 1 \notin SectionAt(p, j)..(SectionAt(p, j) + 3)
    <3>1. first <= SectionAt(p, j) /\ SectionAt(p, j) \in Nat
      BY <1>5, <1>6, <1>9 DEF first
    <3>. QED
      BY <1>10, <3>1
  <2>2. k \in 1..Len(f)
    BY <1>10
  <2>3. k - 1 \notin OpenToChange(p)
    BY <1>8, <1>11, <2>1
  <2>. QED
    BY <1>3, <2>2, <2>3
<1>12. ASSUME NEW a \in Starts, NEW k \in 1..FieldLen(a), (a + k) - 1 \notin 5..7
       PROVE  f[a + k] = FieldBytes(Header(p), a)[k]
  <2>1. a + k \in 1..HeaderSize /\ W[a + k] = FieldBytes(Header(p), a)[k]
    BY <1>4 DEF HasFields
  <2>2. HeaderSize <= first
    BY <1>1, <1>5, <1>10 DEF HeaderSize, EntrySize
  <2>. DEFINE c == a + k
  <2>3. c \in 1..first
    <3>1. c \in 1..HeaderSize /\ HeaderSize \in Nat
      BY <2>1 DEF HeaderSize
    <3>. HIDE DEF c
    <3>. QED
      BY <1>10, <2>2, <3>1
  <2>. QED
    BY <1>11, <1>12, <2>1, <2>3
<1>13. ASSUME NEW s, Len(s) \in Nat, NEW at \in Nat, at > 7, at + Len(s) <= first, HoldsAt(W, s, at)
       PROVE  HoldsAt(f, s, at)
  <2>1. ASSUME NEW k \in 1..Len(s) PROVE f[at + k] = s[k]
    <3>1. at + k \in 1..first /\ (at + k) - 1 \notin 5..7
      BY <1>10, <1>13
    <3>2. W[at + k] = s[k]
      BY <1>13 DEF HoldsAt
    <3>. QED
      BY <1>11, <3>1, <3>2
  <2>2. at + Len(s) <= Len(f)
    BY <1>10, <1>13
  <2>. QED
    BY <2>1, <2>2 DEF HoldsAt
<1>14. ASSUME NEW i \in 1..n
       PROVE /\ HoldsAt(f, WriteEntry(p.tiles[i], TileOffset(p, i)), HeaderSize + EntrySize * (i - 1))
             /\ HoldsAt(f, Padded(p.tiles[i].bytes), TileOffset(p, i))
  <2>. DEFINE e == WriteEntry(p.tiles[i], TileOffset(p, i))  at == HeaderSize + EntrySize * (i - 1)
              b == Padded(p.tiles[i].bytes)
  <2>0. i \in 1..(n + 1) /\ i + 1 \in 1..(n + 1) /\ p.tiles[i] \in Tiles /\ p.tiles[i].bytes \in Seq(Octet)
    BY <1>1, <1>9
  <2>1. TileOffset(p, i) \in Nat /\ TileOffset(p, i + 1) \in Nat
    BY <1>7, <2>0
  <2>2. Len(e) = 20
    <3>1. EntryBytes(e, p.tiles[i], TileOffset(p, i))
      BY <2>0, <2>1, EntryWritten
    <3>. QED
      BY <3>1 DEF EntryBytes
  <2>3. at \in Nat /\ at > 7 /\ at + 20 <= first
    <3>1. HeaderSize + EntrySize * n <= first
      BY <1>1, <1>5, <1>10 DEF HeaderSize, EntrySize
    <3>. QED
      BY <1>1, <1>10, <3>1 DEF HeaderSize, EntrySize
  <2>4. Len(b) = AlignUp(Len(p.tiles[i].bytes)) /\ Len(b) \in Nat
    BY <2>0, PaddedBytes
  <2>5. TileOffset(p, i) > 7 /\ TileOffset(p, i) + Len(b) <= first
    <3>1. TileOffset(p, i) + Len(b) = TileOffset(p, i + 1) /\ TileOffset(p, i + 1) <= first
      BY <1>5, <1>7, <2>0, <2>4
    <3>2. BlobStart(n) <= TileOffset(p, i)
      BY <1>5, <2>0
    <3>3. HeaderSize <= BlobStart(n)
      BY <1>1, <1>5 DEF HeaderSize, EntrySize
    <3>. QED
      BY <1>5, <2>1, <3>1, <3>2, <3>3 DEF HeaderSize
  <2>6. HoldsAt(W, e, at) /\ HoldsAt(W, b, TileOffset(p, i))
    BY <1>4
  <2>. HIDE DEF e, at, b
  <2>7. HoldsAt(f, e, at)
    <3>1. Len(e) \in Nat /\ at + Len(e) <= first
      BY <2>2, <2>3
    <3>. QED
      BY <1>13, <2>3, <2>6, <3>1
  <2>8. HoldsAt(f, b, TileOffset(p, i))
    BY <1>13, <2>1, <2>4, <2>5, <2>6
  <2>. QED
    BY <2>7, <2>8 DEF e, at, b
<1>15. ASSUME NEW j \in 1..m, NEW k \in 5..Len(WriteSection(p.sections[j]))
       PROVE  f[SectionAt(p, j) + k] = WriteSection(p.sections[j])[k]
  <2>. DEFINE s == WriteSection(p.sections[j])  at == SectionAt(p, j)  l == Len(s)
  <2>1. /\ l \in Nat /\ at \in Nat /\ SectionAt(p, j + 1) = at + l
        /\ at + l <= Len(W) /\ \A i \in 1..l : W[at + i] = s[i]
    <3>1. s \in Seq(Octet)
      BY <1>1, SectionBytes
    <3>2. HoldsAt(W, s, at)
      BY <1>4
    <3>3. l \in Nat
      BY <3>1
    <3>. QED
      BY <1>6, <1>9, <3>2, <3>3 DEF HoldsAt
  <2>. HIDE DEF l
  <2>2. k \in 5..l
    BY DEF l
  <2>. HIDE DEF s, at
  <2>3. at + k \in 1..Len(f) /\ k \in 1..l
    BY <1>3, <2>1, <2>2
  <2>4. first <= at /\ HeaderSize <= first
    <3>1. first <= at
      BY <1>5, <1>9 DEF first, at
    <3>2. HeaderSize <= first
      BY <1>1, <1>5, <1>10 DEF HeaderSize, EntrySize
    <3>. QED
      BY <3>1, <3>2
  <2>5. (at + k) - 1 \notin 5..7
    BY <1>10, <2>1, <2>2, <2>4 DEF HeaderSize
  <2>6. ASSUME NEW i \in 1..m PROVE (at + k) - 1 \notin SectionAt(p, i)..(SectionAt(p, i) + 3)
    <3>0. SectionAt(p, i) \in Nat
      BY <1>6, <1>9
    <3>1. CASE i = j
      BY <2>1, <2>2, <3>1 DEF at
    <3>2. CASE i < j
      <4>1. i + 1 \in 1..(m + 1) /\ j \in 1..(m + 1) /\ i + 1 <= j
        BY <1>1, <3>2
      <4>2. SectionAt(p, i + 1) <= at
        BY <1>5, <4>1 DEF at
      <4>3. SectionAt(p, i + 1) = SectionAt(p, i) + Len(WriteSection(p.sections[i]))
        BY <1>6
      <4>4. Len(WriteSection(p.sections[i])) \in Nat /\ Len(WriteSection(p.sections[i])) >= 8
        <5>1. p.sections[i] \in Sections
          BY <1>1
        <5>. DEFINE c == Len(p.sections[i].payload)  z == Len(WriteSection(p.sections[i]))
        <5>2. c \in Nat /\ z = 8 + AlignUp(c)
          BY <5>1, SectionBytes
        <5>. HIDE DEF c, z
        <5>3. AlignUp(c) \in Nat
          BY <5>2, AlignUps
        <5>4. z \in Nat /\ z >= 8
          BY <5>2, <5>3
        <5>. QED
          BY <5>4 DEF z
      <4>. QED
        BY <2>1, <2>2, <3>0, <4>2, <4>3, <4>4
    <3>3. CASE i > j
      <4>1. i \in 1..(m + 1) /\ j + 1 \in 1..(m + 1) /\ j + 1 <= i
        BY <1>1, <3>3
      <4>2. SectionAt(p, j + 1) <= SectionAt(p, i)
        BY <1>5, <4>1
      <4>. QED
        BY <2>1, <2>2, <3>0, <4>2
    <3>. QED
      BY <3>1, <3>2, <3>3
  <2>7. (at + k) - 1 \notin OpenToChange(p)
    BY <1>8, <2>5, <2>6
  <2>8. f[at + k] = W[at + k]
    BY <1>3, <2>3, <2>7
  <2>. QED
    BY <2>1, <2>3, <2>8 DEF s, at
<1>. QED
  BY <1>3, <1>4, <1>12, <1>14, <1>15 DEF Keeps, n, m

(* The bytes of a number, little-endian, from an offset on.                *)
LEAt(f, at, v, n) == \A k \in 1..n : f[at + k] = LE(v, n)[k]

(* A number is the sum of its bytes. *)
LEMMA BytesSum ==
  ASSUME NEW v \in Int
  PROVE  v = (v % 256) + 256 * ((v \div 256) % 256) + 65536 * ((v \div 65536) % 256)
               + 16777216 * (v \div 16777216)
<1>. DEFINE a == v \div 256  b == a \div 256  c == b \div 256
<1>1. a \in Int /\ v = 256 * a + (v % 256) /\ v % 256 >= 0 /\ v % 256 <= 255 /\ v % 256 \in Int
  OBVIOUS
<1>2. b \in Int /\ a = 256 * b + (a % 256) /\ a % 256 >= 0 /\ a % 256 <= 255 /\ a % 256 \in Int
  <2>. HIDE DEF a
  <2>. QED
    BY <1>1
<1>3. c \in Int /\ b = 256 * c + (b % 256) /\ b % 256 >= 0 /\ b % 256 <= 255 /\ b % 256 \in Int
  <2>. HIDE DEF b
  <2>. QED
    BY <1>2
<1>. HIDE DEF a, b, c
<1>4. v \div 65536 = b
  BY <1>1, <1>2
<1>5. v \div 16777216 = c
  BY <1>1, <1>2, <1>3
<1>. QED
  BY <1>1, <1>2, <1>3, <1>4, <1>5 DEF a

(* A u32 of the pack read back from its four bytes. *)
LEMMA WordBack ==
  ASSUME NEW f, NEW at \in Nat, NEW v \in Nat, v < Beyond, LEAt(f, at, v, 4)
  PROVE  Word4(f, at) = v
<1>1. LEAt(f, at, v, 4) => \A k \in 1..4 : f[at + k] = LE(v, 4)[k]
  BY DEF LEAt
<1>2. /\ f[at + 1] = v % 256 /\ f[at + 2] = (v \div 256) % 256
      /\ f[at + 3] = (v \div 65536) % 256 /\ f[at + 4] = (v \div 16777216) % 256
  <2>1. /\ LE(v, 4)[1] = v % 256 /\ LE(v, 4)[2] = (v \div 256) % 256
        /\ LE(v, 4)[3] = (v \div 65536) % 256 /\ LE(v, 4)[4] = (v \div 16777216) % 256
    BY LEBytes DEF IsLE
  <2>. QED
    BY <1>1, <2>1
<1>3. Top \in Int /\ Top <= 256
  BY TopAssumption
<1>4. v \div 16777216 \in Nat /\ v \div 16777216 < Top
  BY <1>3 DEF Beyond
<1>5. (v \div 16777216) % 256 = v \div 16777216
  BY <1>3, <1>4
<1>6. v = (v % 256) + 256 * ((v \div 256) % 256) + 65536 * ((v \div 65536) % 256) + 16777216 * (v \div 16777216)
  BY BytesSum
<1>7. Word4(f, at) = IF f[at + 4] >= Top THEN Beyond
                     ELSE f[at + 1] + 256 * f[at + 2] + 65536 * f[at + 3] + 16777216 * f[at + 4]
  BY DEF Word4, Word2
<1>8. ~(f[at + 4] >= Top)
  BY <1>2, <1>3, <1>4, <1>5
<1>. QED
  BY <1>2, <1>5, <1>6, <1>7, <1>8

IsCorner(v) == v \div 16777216 \in -128..127   \* the top byte of an i32

(* An i32 of the pack read back. *)
LEMMA SignedBack ==
  ASSUME NEW f, NEW at \in Nat, NEW v \in Int, IsCorner(v), LEAt(f, at, v, 4)
  PROVE  Signed4(f, at) = v
<1>1. LEAt(f, at, v, 4) => \A k \in 1..4 : f[at + k] = LE(v, 4)[k]
  BY DEF LEAt
<1>2. /\ f[at + 1] = v % 256 /\ f[at + 2] = (v \div 256) % 256
      /\ f[at + 3] = (v \div 65536) % 256 /\ f[at + 4] = (v \div 16777216) % 256
  <2>1. /\ LE(v, 4)[1] = v % 256 /\ LE(v, 4)[2] = (v \div 256) % 256
        /\ LE(v, 4)[3] = (v \div 65536) % 256 /\ LE(v, 4)[4] = (v \div 16777216) % 256
    BY LEBytes DEF IsLE
  <2>. QED
    BY <1>1, <2>1
<1>3. v = (v % 256) + 256 * ((v \div 256) % 256) + 65536 * ((v \div 65536) % 256) + 16777216 * (v \div 16777216)
  BY SMTT(30), BytesSum
<1>. DEFINE q == v \div 16777216
<1>4. q \in Int /\ -128 <= q /\ q <= 127
  BY DEF IsCorner
<1>5. Signed4(f, at) = f[at + 1] + 256 * f[at + 2] + 65536 * f[at + 3]
                         + 16777216 * (IF f[at + 4] < 128 THEN f[at + 4] ELSE f[at + 4] - 256)
  BY DEF Signed4, Word2
<1>6. q = IF f[at + 4] < 128 THEN f[at + 4] ELSE f[at + 4] - 256
  <2>1. f[at + 4] = q % 256
    BY <1>2
  <2>. HIDE DEF q
  <2>. QED
    BY <1>4, <2>1
<1>. QED
  BY <1>2, <1>3, <1>5, <1>6

(* A u16 of the pack read back. *)
LEMMA HalfBack ==
  ASSUME NEW f, NEW at \in Nat, NEW v \in Nat, v < 65536, LEAt(f, at, v, 2)
  PROVE  Word2(f, at) = v
<1>1. LEAt(f, at, v, 2) => \A k \in 1..2 : f[at + k] = LE(v, 2)[k]
  BY DEF LEAt
<1>2. f[at + 1] = v % 256 /\ f[at + 2] = (v \div 256) % 256
  <2>1. LE(v, 2)[1] = v % 256 /\ LE(v, 2)[2] = (v \div 256) % 256
    BY LEBytes DEF IsLE
  <2>. QED
    BY <1>1, <2>1
<1>3. v = (v % 256) + 256 * ((v \div 256) % 256)
  OBVIOUS
<1>. QED
  BY <1>2, <1>3 DEF Word2

(* A string of n bytes stands at an offset.                                *)
StandsAt(f, at, b, n) == b = [k \in 1..n |-> b[k]] /\ \A k \in 1..n : f[at + k] = b[k]

(* A string of bytes read back. *)
LEMMA BytesBack ==
  ASSUME NEW f \in Seq(Octet), NEW at \in Nat, NEW n \in Nat, at + n <= Len(f),
         NEW b, StandsAt(f, at, b, n)
  PROVE  Bytes(f, at, n) = b
<1>0. b = [k \in 1..n |-> b[k]] /\ \A k \in 1..n : f[at + k] = b[k]
  BY DEF StandsAt
<1>1. SubSeq(f, at + 1, at + n) = [k \in 1..((at + n) - (at + 1) + 1) |-> f[k + (at + 1) - 1]]
  <2>1. at + 1 \in Int /\ at + n \in Int
    OBVIOUS
  <2>. QED
    BY <2>1
<1>2. (at + n) - (at + 1) + 1 = n /\ \A k \in 1..n : k + (at + 1) - 1 = at + k
  OBVIOUS
<1>3. SubSeq(f, at + 1, at + n) = [k \in 1..n |-> b[k]]
  <2>1. [k \in 1..((at + n) - (at + 1) + 1) |-> f[k + (at + 1) - 1]] = [k \in 1..n |-> f[k + (at + 1) - 1]]
    BY <1>2
  <2>2. \A k \in 1..n : f[k + (at + 1) - 1] = b[k]
    BY <1>0, <1>2
  <2>. QED
    BY <1>0, <1>1, <2>1, <2>2
<1>. QED
  BY <1>0, <1>3 DEF Bytes

(* A number a u32 field of the file can tell.                              *)
Fits(v) == v \in Nat /\ v < Beyond

(* The numbers of a pack's header fit their fields.                        *)
HeaderFits(h) ==
  /\ Fits(h.tile_count) /\ Fits(h.index_offset) /\ Fits(h.extensions_offset)
  /\ \A z \in Zooms : Fits(h.zooms[z].offset) /\ Fits(h.zooms[z].count)
  /\ h.tile_dim_px \in Nat /\ h.tile_dim_px < 65536
  /\ \A k \in 1..4 : h.bbox[k] \in Int /\ IsCorner(h.bbox[k])

(* The numbers of a pack's tiles and sections fit theirs.                  *)
TileFits(t, offset) ==
  /\ t.z \in Octet /\ t.compression \in Octet /\ Fits(t.x) /\ Fits(t.y)
  /\ Fits(offset) /\ Fits(Len(t.bytes)) /\ offset + Len(t.bytes) <= Beyond
PartsFit(p) ==
  /\ \A i \in 1..Len(p.tiles) : TileFits(p.tiles[i], TileOffset(p, i))
  /\ \A j \in 1..Len(p.sections) : Fits(Len(p.sections[j].payload))

(* Four i32 have the top byte of one. *)
LEMMA CornersFit ==
  ASSUME NEW b, IsBbox(b)
  PROVE  \A k \in 1..4 : b[k] \in Int /\ IsCorner(b[k])
<1>1. b \in [1..4 -> Int]
  BY SMT DEF IsBbox
<1>2. \A k \in 1..4 : IsCorner(b[k])
  BY SMT DEF IsBbox, IsCorner
<1>. QED
  BY <1>1, <1>2

(* The numbers of a pack fit because the whole pack does. *)
LEMMA PackFits == ASSUME NEW p, IsPack(p) PROVE HeaderFits(Header(p)) /\ PartsFit(p)
<1>. DEFINE n == Len(p.tiles)  m == Len(p.sections)  whole == SectionAt(p, m + 1)
            last == TileOffset(p, n + 1)  h == Header(p)
<1>1. /\ n \in Nat /\ \A i \in 1..n : p.tiles[i] \in Tiles /\ p.tiles[i].bytes \in Seq(Octet)
      /\ m \in Nat /\ \A j \in 1..m : p.sections[j] \in Sections
  BY PackParts
<1>2. whole < Beyond
  <2>1. IsLaidOut(Written(p), p)
    BY Layout
  <2>2. Len(Written(p)) = whole
    BY <2>1 DEF IsLaidOut
  <2>. QED
    BY <2>2 DEF IsPack
<1>3. TilesStart(p) /\ SectionsStart(p) /\ InRank(p)
  BY TileOffsets, SectionOffsets, PartsInRank
<1>4. /\ h.tile_count = n /\ h.index_offset = HeaderSize /\ h.extensions_offset = last
      /\ h.zooms = Directory(p) /\ h.tile_dim_px = p.dim /\ h.bbox = p.bbox
  BY DEF Header
<1>. HIDE DEF n, m, whole, last, h
<1>5. /\ \A i \in 1..(n + 1) : TileOffset(p, i) \in Nat
      /\ \A i \in 1..n : TileOffset(p, i + 1) = TileOffset(p, i) + AlignUp(Len(p.tiles[i].bytes))
  BY <1>3 DEF TilesStart, n
<1>6. /\ \A j \in 1..(m + 1) : SectionAt(p, j) \in Nat
      /\ \A j \in 1..m : SectionAt(p, j + 1) = SectionAt(p, j) + Len(WriteSection(p.sections[j]))
  BY <1>3 DEF SectionsStart, m
<1>7. /\ HeaderSize + EntrySize * n <= BlobStart(n) /\ BlobStart(n) \in Nat
      /\ \A i \in 1..(n + 1) : BlobStart(n) <= TileOffset(p, i) /\ TileOffset(p, i) <= SectionAt(p, 1)
      /\ \A i, j \in 1..(m + 1) : i <= j => SectionAt(p, i) <= SectionAt(p, j)
  BY <1>3 DEF InRank, n, m
<1>8. Top \in Nat /\ Beyond \in Nat
  BY TopAssumption DEF Beyond
<1>9. \A j \in 1..(m + 1) : SectionAt(p, j) <= whole /\ whole \in Nat
  <2>1. ASSUME NEW j \in 1..(m + 1) PROVE SectionAt(p, j) <= whole /\ whole \in Nat
    <3>1. m + 1 \in 1..(m + 1) /\ j <= m + 1
      BY <1>1
    <3>. QED
      BY <1>6, <1>7, <3>1 DEF whole
  <2>. QED
    BY <2>1
<1>10. \A i \in 1..(n + 1) : TileOffset(p, i) <= whole /\ Fits(TileOffset(p, i))
  <2>1. ASSUME NEW i \in 1..(n + 1) PROVE TileOffset(p, i) <= whole /\ Fits(TileOffset(p, i))
    <3>1. 1 \in 1..(m + 1)
      BY <1>1
    <3>2. TileOffset(p, i) <= whole
      BY <1>5, <1>6, <1>7, <1>9, <3>1
    <3>. QED
      BY <1>2, <1>5, <1>8, <1>9, <3>1, <3>2 DEF Fits
  <2>. QED
    BY <2>1
<1>11. HeaderSize + EntrySize * n < Beyond /\ Fits(n) /\ Fits(HeaderSize) /\ Fits(0)
  <2>1. n + 1 \in 1..(n + 1)
    BY <1>1
  <2>2. HeaderSize + EntrySize * n < Beyond
    <3>1. BlobStart(n) <= last /\ last \in Nat /\ last < Beyond
      BY <1>5, <1>7, <1>10, <2>1 DEF Fits, last
    <3>. QED
      BY <1>1, <1>7, <1>8, <3>1 DEF HeaderSize, EntrySize
  <2>. QED
    BY <1>1, <1>8, <2>2 DEF HeaderSize, EntrySize, Fits
<1>12. \A z \in Zooms : Fits(h.zooms[z].offset) /\ Fits(h.zooms[z].count)
  <2>1. ASSUME NEW z \in Zooms PROVE Fits(Directory(p)[z].offset) /\ Fits(Directory(p)[z].count)
    <3>. DEFINE here == OfZoom(p.tiles, n, z)  count == Directory(p)[z].count
                offset == Directory(p)[z].offset
    <3>1. /\ count \in 0..n
          /\ here = {} => offset = 0
          /\ here # {} => \E first \in here : offset = HeaderSize + EntrySize * (first - 1)
      BY DirectoryWritten DEF Directed, n
    <3>2. here \subseteq 1..n
      BY DEF OfZoom
    <3>. HIDE DEF here, count, offset
    <3>3. Fits(count)
      BY <1>1, <1>8, <1>11, <3>1 DEF Fits
    <3>4. ASSUME NEW first \in here, offset = HeaderSize + EntrySize * (first - 1) PROVE Fits(offset)
      BY <1>1, <1>8, <1>11, <3>2, <3>4 DEF Fits, HeaderSize, EntrySize
    <3>5. Fits(offset)
      BY <1>11, <3>1, <3>4
    <3>. QED
      BY <3>3, <3>5 DEF count, offset
  <2>. QED
    BY <1>4, <2>1
<1>13. HeaderFits(h)
  <2>1. Fits(h.tile_count) /\ Fits(h.index_offset) /\ Fits(h.extensions_offset)
    <3>1. n + 1 \in 1..(n + 1)
      BY <1>1
    <3>. QED
      BY <1>4, <1>10, <1>11, <3>1 DEF last
  <2>2. IsDim(p.dim) /\ IsBbox(p.bbox)
    BY DEF IsPack, IsMetadata
  <2>3. h.tile_dim_px \in Nat /\ h.tile_dim_px < 65536
    BY <1>4, <2>2 DEF IsDim
  <2>4. \A k \in 1..4 : h.bbox[k] \in Int /\ IsCorner(h.bbox[k])
    BY <1>4, <2>2, CornersFit
  <2>. QED
    BY <1>12, <2>1, <2>3, <2>4 DEF HeaderFits
<1>14. ASSUME NEW i \in 1..n PROVE TileFits(p.tiles[i], TileOffset(p, i))
  <2>. DEFINE t == p.tiles[i]  l == Len(t.bytes)
  <2>1. t \in Tiles /\ t.bytes \in Seq(Octet) /\ l \in Nat
    BY <1>1
  <2>2. t.z \in Octet /\ t.compression \in Octet
    <3>1. t.z \in Zooms /\ t.compression \in {0, 1}
      BY <2>1 DEF Tiles
    <3>2. t.z \in Int /\ 0 <= t.z /\ t.z <= 23
      BY <3>1, ZoomRange
    <3>. QED
      BY <3>1, <3>2 DEF Octet
  <2>3. Fits(t.x) /\ Fits(t.y)
    <3>1. t.x \in U32 /\ t.y \in U32
      BY <2>1 DEF Tiles
    <3>. QED
      BY <1>8, <3>1 DEF U32, Fits
  <2>. HIDE DEF t, l
  <2>4. i \in 1..(n + 1) /\ i + 1 \in 1..(n + 1)
    BY <1>1
  <2>5. AlignUp(l) \in Nat /\ l <= AlignUp(l)
    BY <2>1, AlignUps
  <2>6. TileOffset(p, i + 1) = TileOffset(p, i) + AlignUp(l)
    BY <1>5 DEF l, t
  <2>7. Fits(TileOffset(p, i)) /\ Fits(TileOffset(p, i + 1))
    BY <1>10, <2>4
  <2>8. Fits(l) /\ TileOffset(p, i) + l <= Beyond
    BY <1>8, <2>1, <2>5, <2>6, <2>7 DEF Fits
  <2>. QED
    BY <2>2, <2>3, <2>7, <2>8 DEF TileFits, l, t
<1>15. ASSUME NEW j \in 1..m PROVE Fits(Len(p.sections[j].payload))
  <2>. DEFINE l == Len(p.sections[j].payload)  s == Len(WriteSection(p.sections[j]))
  <2>1. l \in Nat /\ s = 8 + AlignUp(l)
    <3>1. p.sections[j] \in Sections
      BY <1>1
    <3>. QED
      BY <3>1, SectionBytes
  <2>2. SectionAt(p, j + 1) = SectionAt(p, j) + s
    BY <1>6
  <2>. HIDE DEF l, s
  <2>3. AlignUp(l) \in Nat /\ l <= AlignUp(l)
    BY <2>1, AlignUps
  <2>4. j \in 1..(m + 1) /\ j + 1 \in 1..(m + 1)
    BY <1>1
  <2>5. SectionAt(p, j) \in Nat /\ SectionAt(p, j + 1) <= whole /\ whole \in Nat
    BY <1>6, <1>9, <2>4
  <2>6. l < Beyond
    BY <1>2, <1>8, <2>1, <2>2, <2>3, <2>5
  <2>. QED
    BY <2>1, <2>6 DEF Fits, l
<1>. QED
  BY <1>13, <1>14, <1>15 DEF PartsFit, h, n, m

(* The bytes of a header's fields where the readers look for them; the     *)
(* minor version is left out.                                              *)
HeaderBytes(f, h) ==
  /\ \A k \in 1..4 : f[0 + k] = Magic[k]
  /\ f[5] = h.major
  /\ \A k \in 1..16 : f[8 + k] = h.pack_uuid[k]
  /\ \A k \in 1..16 : f[24 + k] = h.supersedes[k]
  /\ \A k \in 1..16 : f[40 + k] = h.parent[k]
  /\ f[57] = h.pixel_format /\ f[58] = h.projection /\ f[59] = h.addressing /\ f[60] = h.axis
  /\ LEAt(f, 60, h.tile_dim_px, 2)
  /\ f[63] = h.zoom_min /\ f[64] = h.zoom_max
  /\ \A j \in 1..4 : LEAt(f, 64 + 4 * (j - 1), h.bbox[j], 4)
  /\ \A k \in 1..8 : f[80 + k] = h.build_timestamp[k]
  /\ LEAt(f, 88, h.tile_count, 4) /\ LEAt(f, 92, h.index_offset, 4)
  /\ LEAt(f, 288, h.extensions_offset, 4)
  /\ \A z \in Zooms : /\ LEAt(f, 96 + 8 * z, h.zooms[z].offset, 4)
                      /\ LEAt(f, 96 + 8 * z + 4, h.zooms[z].count, 4)

(* The fields, one by one. *)
LEMMA FieldsStand ==
  ASSUME NEW p, IsPack(p), NEW f, Keeps(f, p)
  PROVE  HeaderBytes(f, Header(p))
<1>. DEFINE h == Header(p)
<1>1. HeaderTyped(h)
  BY HeaderIsTyped
<1>2. ASSUME NEW a \in Starts, NEW k \in 1..FieldLen(a), (a + k) - 1 \notin 5..7
      PROVE  f[a + k] = FieldBytes(h, a)[k]
  BY <1>2 DEF Keeps
<1>. HIDE DEF h
<1>3. \A a \in {0, 4, 8, 24, 40, 56, 60, 62, 64, 68, 72, 76, 80, 88, 92, 288} : a \in Starts
  BY DEF Starts
<1>4. \A a \in {0, 8, 24, 40, 56, 60, 62, 64, 68, 72, 76, 80, 88, 92, 288} :
        \A k \in 1..FieldLen(a) : f[a + k] = FieldBytes(h, a)[k]
  <2>1. ASSUME NEW a \in {0, 8, 24, 40, 56, 60, 62, 64, 68, 72, 76, 80, 88, 92, 288},
               NEW k \in 1..FieldLen(a)
        PROVE  f[a + k] = FieldBytes(h, a)[k]
    <3>1. a \in Starts
      BY <1>3
    <3>2. (a + k) - 1 \notin 5..7
      <4>1. CASE a = 0
        BY <4>1 DEF FieldLen
      <4>2. CASE a # 0
        <5>1. a \in Int /\ a >= 8 /\ k \in Int /\ k >= 1
          BY <2>1, <3>1, <4>2, StartsApart
        <5>. QED
          BY <5>1
      <4>. QED
        BY <4>1, <4>2
    <3>. QED
      BY <1>2, <3>1, <3>2
  <2>. QED
    BY <2>1
<1>5. \A k \in 1..4 : f[0 + k] = Magic[k]
  BY <1>4 DEF FieldLen, FieldBytes
<1>6. f[5] = h.major
  <2>1. 4 \in Starts /\ FieldLen(4) = 2 /\ FieldBytes(h, 4) = <<h.major, h.minor>>
    BY <1>3 DEF FieldLen, FieldBytes
  <2>2. 1 \in 1..FieldLen(4) /\ (4 + 1) - 1 \notin 5..7 /\ 4 + 1 = 5
    BY <2>1
  <2>3. f[4 + 1] = FieldBytes(h, 4)[1]
    BY <1>2, <2>1, <2>2
  <2>. QED
    BY <2>1, <2>2, <2>3
<1>7. \A k \in 1..16 : f[8 + k] = h.pack_uuid[k]
  <2>1. FieldLen(8) = 16 /\ FieldBytes(h, 8) = h.pack_uuid
    BY DEF FieldLen, FieldBytes
  <2>. QED
    BY <1>4, <2>1
<1>8. \A k \in 1..16 : f[24 + k] = h.supersedes[k]
  <2>1. FieldLen(24) = 16 /\ FieldBytes(h, 24) = h.supersedes
    BY DEF FieldLen, FieldBytes
  <2>. QED
    BY <1>4, <2>1
<1>9. \A k \in 1..16 : f[40 + k] = h.parent[k]
  <2>1. FieldLen(40) = 16 /\ FieldBytes(h, 40) = h.parent
    BY DEF FieldLen, FieldBytes
  <2>. QED
    BY <1>4, <2>1
<1>10. f[57] = h.pixel_format /\ f[58] = h.projection /\ f[59] = h.addressing /\ f[60] = h.axis
  <2>1. FieldLen(56) = 4 /\ FieldBytes(h, 56) = <<h.pixel_format, h.projection, h.addressing, h.axis>>
    BY DEF FieldLen, FieldBytes
  <2>2. \A k \in 1..4 : f[56 + k] = <<h.pixel_format, h.projection, h.addressing, h.axis>>[k]
    BY <1>4, <2>1
  <2>3. 56 + 1 = 57 /\ 56 + 2 = 58 /\ 56 + 3 = 59 /\ 56 + 4 = 60
    OBVIOUS
  <2>. QED
    BY <2>2, <2>3
<1>11. LEAt(f, 60, h.tile_dim_px, 2)
  <2>1. FieldLen(60) = 2 /\ FieldBytes(h, 60) = LE(h.tile_dim_px, 2)
    BY DEF FieldLen, FieldBytes
  <2>. QED
    BY <1>4, <2>1 DEF LEAt
<1>12. f[63] = h.zoom_min /\ f[64] = h.zoom_max
  <2>1. FieldLen(62) = 2 /\ FieldBytes(h, 62) = <<h.zoom_min, h.zoom_max>>
    BY DEF FieldLen, FieldBytes
  <2>2. \A k \in 1..2 : f[62 + k] = <<h.zoom_min, h.zoom_max>>[k]
    BY <1>4, <2>1
  <2>3. 62 + 1 = 63 /\ 62 + 2 = 64
    OBVIOUS
  <2>. QED
    BY <2>2, <2>3
<1>13. \A j \in 1..4 : LEAt(f, 64 + 4 * (j - 1), h.bbox[j], 4)
  <2>1. ASSUME NEW j \in 1..4 PROVE LEAt(f, 64 + 4 * (j - 1), h.bbox[j], 4)
    <3>. DEFINE a == 64 + 4 * (j - 1)
    <3>1. a \in {64, 68, 72, 76} /\ (a - 64) \div 4 + 1 = j
      OBVIOUS
    <3>. HIDE DEF a
    <3>2. FieldLen(a) = 4 /\ FieldBytes(h, a) = LE(h.bbox[(a - 64) \div 4 + 1], 4)
      BY <3>1 DEF FieldLen, FieldBytes
    <3>3. \A k \in 1..4 : f[a + k] = LE(h.bbox[j], 4)[k]
      BY <1>4, <3>1, <3>2
    <3>. QED
      BY <3>3 DEF LEAt, a
  <2>. QED
    BY <2>1
<1>14. \A k \in 1..8 : f[80 + k] = h.build_timestamp[k]
  <2>1. FieldLen(80) = 8 /\ FieldBytes(h, 80) = h.build_timestamp
    BY DEF FieldLen, FieldBytes
  <2>. QED
    BY <1>4, <2>1
<1>15. /\ LEAt(f, 88, h.tile_count, 4) /\ LEAt(f, 92, h.index_offset, 4)
       /\ LEAt(f, 288, h.extensions_offset, 4)
  <2>1. /\ FieldLen(88) = 4 /\ FieldBytes(h, 88) = LE(h.tile_count, 4)
        /\ FieldLen(92) = 4 /\ FieldBytes(h, 92) = LE(h.index_offset, 4)
        /\ FieldLen(288) = 4 /\ FieldBytes(h, 288) = LE(h.extensions_offset, 4)
    BY DEF FieldLen, FieldBytes
  <2>. QED
    BY <1>4, <2>1 DEF LEAt
<1>16. ASSUME NEW z \in Zooms
       PROVE  LEAt(f, 96 + 8 * z, h.zooms[z].offset, 4) /\ LEAt(f, 96 + 8 * z + 4, h.zooms[z].count, 4)
  <2>. DEFINE a == 96 + 8 * z  b == LE(h.zooms[z].offset, 4)  c == LE(h.zooms[z].count, 4)
  <2>1. a \in Starts
    BY DEF Starts
  <2>2. (a - 96) \div 8 = z /\ a \in Int /\ a >= 96 /\ a < 288
    BY ZoomRange
  <2>3. NBytes(b, 4) /\ NBytes(c, 4)
    <3>1. h.zooms[z].offset \in Int /\ h.zooms[z].count \in Int
      BY <1>1 DEF HeaderTyped
    <3>2. IsLE(h.zooms[z].offset) /\ IsLE(h.zooms[z].count)
      BY <3>1, LEBytes
    <3>. QED
      BY <3>2 DEF IsLE, NBytes
  <2>4. FieldBytes(h, a) = b \o c
    <3>. HIDE DEF a
    <3>1. FieldBytes(h, a) = LE(h.zooms[(a - 96) \div 8].offset, 4) \o LE(h.zooms[(a - 96) \div 8].count, 4)
      BY <2>2, SlotBytes
    <3>. QED
      BY <2>2, <3>1
  <2>5. FieldLen(a) = 8
    BY <2>2 DEF FieldLen
  <2>. HIDE DEF a, b, c
  <2>6. IsJoin(b \o c, b, 4, c, 4)
    BY <2>3, Joined DEF NBytes
  <2>7. ASSUME NEW k \in 1..8 PROVE f[a + k] = (b \o c)[k]
    <3>1. (a + k) - 1 \notin 5..7
      BY <2>2
    <3>. QED
      BY <1>2, <2>1, <2>4, <2>5, <3>1
  <2>8. ASSUME NEW k \in 1..4 PROVE f[a + k] = b[k] /\ f[(a + 4) + k] = c[k]
    <3>1. k \in 1..8 /\ 4 + k \in 1..8 /\ a + (4 + k) = (a + 4) + k
      BY <2>2
    <3>. QED
      BY <2>6, <2>7, <3>1 DEF IsJoin
  <2>9. LEAt(f, a, h.zooms[z].offset, 4) /\ LEAt(f, a + 4, h.zooms[z].count, 4)
    BY <2>8 DEF LEAt, b, c
  <2>. QED
    BY <2>9 DEF a
<1>. QED
  BY <1>5, <1>6, <1>7, <1>8, <1>10, <1>9, <1>11, <1>12, <1>13, <1>14, <1>15, <1>16 DEF HeaderBytes, h

(* The parts of a file that keeps a pack's layout lie within it.           *)
LEMMA KeptLength ==
  ASSUME NEW p, IsPack(p), NEW f, Keeps(f, p)
  PROVE  /\ f \in Seq(Octet) /\ Len(f) \in Nat /\ SectionAt(p, 1) \in Nat
         /\ HeaderSize + EntrySize * Len(p.tiles) <= SectionAt(p, 1) /\ SectionAt(p, 1) <= Len(f)
         /\ \A i \in 1..(Len(p.tiles) + 1) : TileOffset(p, i) \in Nat /\ TileOffset(p, i) <= SectionAt(p, 1)
<1>. DEFINE n == Len(p.tiles)  m == Len(p.sections)
<1>1. n \in Nat /\ m \in Nat
  BY PackParts
<1>2. f \in Seq(Octet) /\ Len(f) = SectionAt(p, m + 1)
  BY DEF Keeps
<1>3. TilesStart(p) /\ SectionsStart(p) /\ InRank(p)
  BY TileOffsets, SectionOffsets, PartsInRank
<1>. HIDE DEF n, m
<1>4. /\ \A i \in 1..(n + 1) : TileOffset(p, i) \in Nat
      /\ \A j \in 1..(m + 1) : SectionAt(p, j) \in Nat
  BY <1>3 DEF TilesStart, SectionsStart, n, m
<1>5. /\ HeaderSize + EntrySize * n <= BlobStart(n) /\ BlobStart(n) \in Nat
      /\ \A i \in 1..(n + 1) : BlobStart(n) <= TileOffset(p, i) /\ TileOffset(p, i) <= SectionAt(p, 1)
      /\ \A i, j \in 1..(m + 1) : i <= j => SectionAt(p, i) <= SectionAt(p, j)
  BY <1>3 DEF InRank, n, m
<1>6. /\ 1 \in 1..(n + 1) /\ 1 \in 1..(m + 1) /\ m + 1 \in 1..(m + 1) /\ 1 <= m + 1
      /\ HeaderSize + EntrySize * n \in Nat
  BY <1>1 DEF HeaderSize, EntrySize
<1>7. HeaderSize + EntrySize * n <= SectionAt(p, 1)
  <2>1. BlobStart(n) <= TileOffset(p, 1) /\ TileOffset(p, 1) <= SectionAt(p, 1)
    BY <1>5, <1>6
  <2>2. TileOffset(p, 1) \in Nat /\ SectionAt(p, 1) \in Nat
    BY <1>4, <1>6
  <2>. QED
    BY <1>5, <1>6, <2>1, <2>2
<1>8. SectionAt(p, 1) <= Len(f) /\ SectionAt(p, 1) \in Nat
  BY <1>2, <1>4, <1>5, <1>6
<1>. QED
  BY <1>2, <1>4, <1>5, <1>7, <1>8 DEF n

(* The header a reader takes from a file is the pack's, the minor version   *)
(* apart.                                                                  *)
HeaderTaken(h, g, minor) ==
  h = [major |-> 1, minor |-> minor, pack_uuid |-> g.pack_uuid, supersedes |-> g.supersedes,
       parent |-> g.parent, pixel_format |-> g.pixel_format, projection |-> g.projection,
       addressing |-> g.addressing, axis |-> g.axis, tile_dim_px |-> g.tile_dim_px,
       zoom_min |-> g.zoom_min, zoom_max |-> g.zoom_max, bbox |-> g.bbox,
       build_timestamp |-> g.build_timestamp, tile_count |-> g.tile_count,
       index_offset |-> g.index_offset, zooms |-> g.zooms,
       extensions_offset |-> g.extensions_offset]

(* read_header undoes write_header. *)
LEMMA HeaderDecoded ==
  ASSUME NEW p, IsPack(p), NEW f, Keeps(f, p)
  PROVE  Bytes(f, 0, 4) = Magic /\ HeaderTaken(Decode(f, ReaderLayout), Header(p), f[6])
<1>. DEFINE g == Header(p)
<1>1. HeaderTyped(g) /\ HeaderFits(g) /\ HeaderBytes(f, g)
  BY HeaderIsTyped, PackFits, FieldsStand
<1>2. f \in Seq(Octet) /\ Len(f) \in Nat /\ HeaderSize <= Len(f)
  <2>1. /\ f \in Seq(Octet) /\ Len(f) \in Nat /\ SectionAt(p, 1) \in Nat /\ Len(p.tiles) \in Nat
        /\ HeaderSize + EntrySize * Len(p.tiles) <= SectionAt(p, 1) /\ SectionAt(p, 1) <= Len(f)
    BY KeptLength, PackParts
  <2>. HIDE DEF g
  <2>. QED
    BY <2>1 DEF HeaderSize, EntrySize
<1>3. g.major = 1 /\ g.zooms = Directory(p) /\ g.bbox = p.bbox
  BY DEF Header
<1>. HIDE DEF g
<1>4. HeaderSize = 292
  BY DEF HeaderSize
<1>5. Bytes(f, 0, 4) = Magic
  <2>1. Magic = [k \in 1..4 |-> Magic[k]]
    BY DEF Magic
  <2>2. \A k \in 1..4 : f[0 + k] = Magic[k]
    BY <1>1 DEF HeaderBytes
  <2>3. StandsAt(f, 0, Magic, 4)
    BY <2>1, <2>2 DEF StandsAt
  <2>4. 0 + 4 <= Len(f)
    BY <1>2, <1>4
  <2>. QED
    BY <1>2, <2>3, <2>4, BytesBack
<1>6. /\ Bytes(f, 8, 16) = g.pack_uuid /\ Bytes(f, 24, 16) = g.supersedes
      /\ Bytes(f, 40, 16) = g.parent
  <2>1. /\ g.pack_uuid = [k \in 1..16 |-> g.pack_uuid[k]]
        /\ g.supersedes = [k \in 1..16 |-> g.supersedes[k]]
        /\ g.parent = [k \in 1..16 |-> g.parent[k]]
    BY <1>1 DEF HeaderTyped
  <2>2. /\ \A k \in 1..16 : f[8 + k] = g.pack_uuid[k]
        /\ \A k \in 1..16 : f[24 + k] = g.supersedes[k]
        /\ \A k \in 1..16 : f[40 + k] = g.parent[k]
    BY <1>1 DEF HeaderBytes
  <2>3. 8 + 16 <= Len(f) /\ 24 + 16 <= Len(f) /\ 40 + 16 <= Len(f)
    BY <1>2, <1>4
  <2>4. /\ StandsAt(f, 8, g.pack_uuid, 16) /\ StandsAt(f, 24, g.supersedes, 16)
        /\ StandsAt(f, 40, g.parent, 16)
    BY <2>1, <2>2 DEF StandsAt
  <2>. QED
    BY <1>2, <2>3, <2>4, BytesBack
<1>7. Bytes(f, 80, 8) = g.build_timestamp
  <2>1. g.build_timestamp = [k \in 1..8 |-> g.build_timestamp[k]]
    BY <1>1 DEF HeaderTyped
  <2>2. \A k \in 1..8 : f[80 + k] = g.build_timestamp[k]
    BY <1>1 DEF HeaderBytes
  <2>3. 80 + 8 <= Len(f)
    BY <1>2, <1>4
  <2>4. StandsAt(f, 80, g.build_timestamp, 8)
    BY <2>1, <2>2 DEF StandsAt
  <2>. QED
    BY <1>2, <2>3, <2>4, BytesBack
<1>8. /\ f[5] = 1 /\ f[57] = g.pixel_format /\ f[58] = g.projection /\ f[59] = g.addressing
      /\ f[60] = g.axis /\ f[63] = g.zoom_min /\ f[64] = g.zoom_max
  BY <1>1, <1>3 DEF HeaderBytes
<1>9. Word2(f, 60) = g.tile_dim_px
  <2>1. g.tile_dim_px \in Nat /\ g.tile_dim_px < 65536 /\ LEAt(f, 60, g.tile_dim_px, 2)
    BY <1>1 DEF HeaderFits, HeaderBytes
  <2>. QED
    BY <2>1, HalfBack
<1>10. /\ Word4(f, 88) = g.tile_count /\ Word4(f, 92) = g.index_offset
       /\ Word4(f, 288) = g.extensions_offset
  <2>1. Fits(g.tile_count) /\ Fits(g.index_offset) /\ Fits(g.extensions_offset)
    BY <1>1 DEF HeaderFits
  <2>2. /\ LEAt(f, 88, g.tile_count, 4) /\ LEAt(f, 92, g.index_offset, 4)
        /\ LEAt(f, 288, g.extensions_offset, 4)
    BY <1>1 DEF HeaderBytes
  <2>. QED
    BY <2>1, <2>2, WordBack DEF Fits
<1>11. [k \in 1..4 |-> Signed4(f, 64 + 4 * (k - 1))] = g.bbox
  <2>1. ASSUME NEW k \in 1..4 PROVE Signed4(f, 64 + 4 * (k - 1)) = g.bbox[k]
    <3>1. g.bbox[k] \in Int /\ IsCorner(g.bbox[k]) /\ LEAt(f, 64 + 4 * (k - 1), g.bbox[k], 4)
      BY <1>1 DEF HeaderFits, HeaderBytes
    <3>2. 64 + 4 * (k - 1) \in Nat
      OBVIOUS
    <3>. QED
      BY <3>1, <3>2, SignedBack
  <2>2. g.bbox \in [1..4 -> Int]
    <3>1. IsBbox(p.bbox)
      BY DEF IsPack, IsMetadata
    <3>. QED
      BY SMTT(30), <1>3, <3>1 DEF IsBbox
  <2>. QED
    BY <2>1, <2>2
<1>12. [z \in Zooms |-> [offset |-> Word4(f, 96 + 8 * z), count |-> Word4(f, 96 + 8 * z + 4)]] = g.zooms
  <2>1. ASSUME NEW z \in Zooms
        PROVE  [offset |-> Word4(f, 96 + 8 * z), count |-> Word4(f, 96 + 8 * z + 4)] = g.zooms[z]
    <3>1. /\ Fits(g.zooms[z].offset) /\ LEAt(f, 96 + 8 * z, g.zooms[z].offset, 4)
          /\ Fits(g.zooms[z].count) /\ LEAt(f, 96 + 8 * z + 4, g.zooms[z].count, 4)
      BY <1>1 DEF HeaderFits, HeaderBytes
    <3>2. 96 + 8 * z \in Nat /\ 96 + 8 * z + 4 \in Nat
      BY ZoomRange
    <3>3. Word4(f, 96 + 8 * z) = g.zooms[z].offset /\ Word4(f, 96 + 8 * z + 4) = g.zooms[z].count
      BY <3>1, <3>2, WordBack DEF Fits
    <3>4. g.zooms[z] = [offset |-> g.zooms[z].offset, count |-> g.zooms[z].count]
      BY <1>3, DirectoryWritten DEF Directed
    <3>. QED
      BY <3>3, <3>4
  <2>2. g.zooms = [z \in Zooms |-> g.zooms[z]]
    <3>1. Directory(p) = [z \in Zooms |-> Directory(p)[z]]
      BY DEF Directory
    <3>. QED
      BY <1>3, <3>1
  <2>. QED
    BY <2>1, <2>2
<1>13. Decode(f, ReaderLayout) =
         [major |-> f[5], minor |-> f[6], pack_uuid |-> Bytes(f, 8, 16),
          supersedes |-> Bytes(f, 24, 16), parent |-> Bytes(f, 40, 16), pixel_format |-> f[57],
          projection |-> f[58], addressing |-> f[59], axis |-> f[60], tile_dim_px |-> Word2(f, 60),
          zoom_min |-> f[63], zoom_max |-> f[64],
          bbox |-> [k \in 1..4 |-> Signed4(f, 64 + 4 * (k - 1))],
          build_timestamp |-> Bytes(f, 80, 8), tile_count |-> Word4(f, 88),
          index_offset |-> Word4(f, 92),
          zooms |-> [z \in Zooms |-> [offset |-> Word4(f, 96 + 8 * z),
                                      count |-> Word4(f, 96 + 8 * z + 4)]],
          extensions_offset |-> Word4(f, 288)]
  BY DEF Decode, ReaderLayout, Byte1
<1>14. HeaderTaken(Decode(f, ReaderLayout), g, f[6])
  BY <1>6, <1>7, <1>8, <1>9, <1>10, <1>11, <1>12, <1>13 DEF HeaderTaken
<1>. QED
  BY <1>5, <1>14 DEF g

(* An index entry says of a tile what the writer put there.                *)
EntryOf(e, t, offset) ==
  /\ e.key.z = t.z /\ e.key.x = t.x /\ e.key.y = t.y
  /\ e.compression = t.compression /\ e.flags = 0 /\ e.reserved = 0
  /\ e.offset = offset /\ e.length = Len(t.bytes)

(* read_index_entry undoes the writing of an entry. *)
LEMMA EntryDecoded ==
  ASSUME NEW f, NEW at \in Nat, NEW t \in Tiles, NEW offset \in Nat, TileFits(t, offset),
         HoldsAt(f, WriteEntry(t, offset), at)
  PROVE  EntryOf(Entry(f, at), t, offset)
<1>. DEFINE w == WriteEntry(t, offset)
<1>1. EntryBytes(w, t, offset)
  BY EntryWritten
<1>2. \A k \in 1..Len(w) : f[at + k] = w[k]
  BY DEF HoldsAt
<1>. HIDE DEF w
<1>3. /\ Len(w) = 20 /\ w[1] = t.z /\ w[2] = t.compression /\ w[3] = 0 /\ w[4] = 0
      /\ \A k \in 1..4 : /\ w[4 + k] = LE(t.x, 4)[k] /\ w[8 + k] = LE(t.y, 4)[k]
                         /\ w[12 + k] = LE(offset, 4)[k] /\ w[16 + k] = LE(Len(t.bytes), 4)[k]
  BY <1>1 DEF EntryBytes
<1>4. f[at + 1] = t.z /\ f[at + 2] = t.compression /\ f[at + 3] = 0 /\ f[at + 4] = 0
  <2>1. 1 \in 1..Len(w) /\ 2 \in 1..Len(w) /\ 3 \in 1..Len(w) /\ 4 \in 1..Len(w)
    <3>1. Len(w) = 20
      BY <1>3
    <3>. QED
      BY <3>1
  <2>2. f[at + 1] = w[1] /\ f[at + 2] = w[2] /\ f[at + 3] = w[3] /\ f[at + 4] = w[4]
    BY <1>2, <2>1
  <2>. QED
    BY <1>3, <2>2
<1>5. /\ LEAt(f, at + 4, t.x, 4) /\ LEAt(f, at + 8, t.y, 4)
      /\ LEAt(f, at + 12, offset, 4) /\ LEAt(f, at + 16, Len(t.bytes), 4)
  <2>1. ASSUME NEW k \in 1..4
        PROVE  /\ f[(at + 4) + k] = LE(t.x, 4)[k] /\ f[(at + 8) + k] = LE(t.y, 4)[k]
               /\ f[(at + 12) + k] = LE(offset, 4)[k]
               /\ f[(at + 16) + k] = LE(Len(t.bytes), 4)[k]
    <3>1. /\ 4 + k \in 1..Len(w) /\ 8 + k \in 1..Len(w) /\ 12 + k \in 1..Len(w) /\ 16 + k \in 1..Len(w)
          /\ at + (4 + k) = (at + 4) + k /\ at + (8 + k) = (at + 8) + k
          /\ at + (12 + k) = (at + 12) + k /\ at + (16 + k) = (at + 16) + k
      BY SMTT(30), <1>3
    <3>2. /\ f[at + (4 + k)] = w[4 + k] /\ f[at + (8 + k)] = w[8 + k]
          /\ f[at + (12 + k)] = w[12 + k] /\ f[at + (16 + k)] = w[16 + k]
      BY <1>2, <3>1
    <3>. QED
      BY <1>3, <3>1, <3>2
  <2>. QED
    BY <2>1 DEF LEAt
<1>6. Fits(t.x) /\ Fits(t.y) /\ Fits(offset) /\ Fits(Len(t.bytes))
  BY DEF TileFits
<1>7. /\ Word4(f, at + 4) = t.x /\ Word4(f, at + 8) = t.y
      /\ Word4(f, at + 12) = offset /\ Word4(f, at + 16) = Len(t.bytes)
  <2>1. at + 4 \in Nat /\ at + 8 \in Nat /\ at + 12 \in Nat /\ at + 16 \in Nat
    OBVIOUS
  <2>. QED
    BY <1>5, <1>6, <2>1, WordBack DEF Fits
<1>. DEFINE e == Entry(f, at)
<1>8. /\ e.key.z = f[at + 1] /\ e.key.x = Word4(f, at + 4) /\ e.key.y = Word4(f, at + 8)
      /\ e.compression = f[at + 2] /\ e.flags = f[at + 3] /\ e.reserved = f[at + 4]
      /\ e.offset = Word4(f, at + 12) /\ e.length = Word4(f, at + 16)
  <2>1. (at + 1) + 1 = at + 2 /\ (at + 2) + 1 = at + 3 /\ (at + 3) + 1 = at + 4
    OBVIOUS
  <2>. QED
    BY <2>1 DEF Entry, Byte1
<1>. HIDE DEF e
<1>9. EntryOf(e, t, offset)
  BY <1>4, <1>7, <1>8 DEF EntryOf
<1>. QED
  BY <1>9 DEF e

(* What a reader makes of the index of a pack.                              *)
IndexTaken(f, h, p) ==
  LET n == Len(p.tiles)
  IN /\ h.tile_count = n /\ h.index_offset = HeaderSize /\ h.zooms = Directory(p)
     /\ h.extensions_offset = SectionAt(p, 1)
     /\ Entries(f, h) = [i \in 1..n |-> Entries(f, h)[i]]
     /\ \A i \in 1..n : EntryOf(Entries(f, h)[i], p.tiles[i], TileOffset(p, i))

(* Every entry is what the writer made of the tile. *)
LEMMA IndexDecoded ==
  ASSUME NEW p, IsPack(p), NEW f, Keeps(f, p)
  PROVE  IndexTaken(f, Decode(f, ReaderLayout), p)
<1>. DEFINE n == Len(p.tiles)  h == Decode(f, ReaderLayout)  g == Header(p)
<1>1. HeaderTaken(h, g, f[6])
  BY HeaderDecoded
<1>2. /\ g.tile_count = n /\ g.index_offset = HeaderSize /\ g.zooms = Directory(p)
      /\ g.extensions_offset = TileOffset(p, n + 1)
  BY DEF Header
<1>3. SectionAt(p, 1) = TileOffset(p, n + 1)
  BY SectionOffsets DEF SectionsStart
<1>4. n \in Nat /\ \A i \in 1..n : p.tiles[i] \in Tiles
  BY PackParts
<1>5. \A i \in 1..n : HoldsAt(f, WriteEntry(p.tiles[i], TileOffset(p, i)), HeaderSize + EntrySize * (i - 1))
  BY DEF Keeps
<1>6. \A i \in 1..n : TileFits(p.tiles[i], TileOffset(p, i))
  BY PackFits DEF PartsFit
<1>7. \A i \in 1..(n + 1) : TileOffset(p, i) \in Nat
  BY TileOffsets DEF TilesStart
<1>. HIDE DEF n, h, g
<1>8. /\ h.tile_count = n /\ h.index_offset = HeaderSize /\ h.zooms = Directory(p)
      /\ h.extensions_offset = SectionAt(p, 1)
  BY <1>1, <1>2, <1>3 DEF HeaderTaken
<1>9. Entries(f, h) = [i \in 1..n |-> Entry(f, HeaderSize + EntrySize * (i - 1))]
  BY <1>8 DEF Entries
<1>10. ASSUME NEW i \in 1..n PROVE EntryOf(Entries(f, h)[i], p.tiles[i], TileOffset(p, i))
  <2>. DEFINE at == HeaderSize + EntrySize * (i - 1)
  <2>1. at \in Nat
    BY <1>4 DEF HeaderSize, EntrySize
  <2>2. i \in 1..(n + 1)
    BY <1>4
  <2>3. /\ p.tiles[i] \in Tiles /\ TileOffset(p, i) \in Nat
        /\ TileFits(p.tiles[i], TileOffset(p, i))
        /\ HoldsAt(f, WriteEntry(p.tiles[i], TileOffset(p, i)), at)
    BY <1>4, <1>5, <1>6, <1>7, <2>2
  <2>4. Entries(f, h)[i] = Entry(f, at)
    BY <1>9
  <2>. HIDE DEF at
  <2>. QED
    BY <2>1, <2>3, <2>4, EntryDecoded
<1>. QED
  BY <1>8, <1>9, <1>10 DEF IndexTaken, n, h

(* Every tile is found at its place in the index, and its bytes with it. *)
LEMMA TilesFound ==
  ASSUME NEW p, IsPack(p), NEW f, Keeps(f, p), NEW i \in DOMAIN p.tiles
  PROVE  Found(f, p.tiles[i]) = i /\ FoundBytes(f, i) = p.tiles[i].bytes
<1>. DEFINE n == Len(p.tiles)  h == Decode(f, ReaderLayout)  entries == Entries(f, h)
            key == KeysOf(entries, n)
<1>1. IndexTaken(f, h, p)
  BY IndexDecoded
<1>2. /\ n \in Nat /\ DOMAIN p.tiles = 1..n
      /\ \A j \in 1..n : p.tiles[j] \in Tiles /\ p.tiles[j].bytes \in Seq(Octet)
  BY PackParts
<1>3. AreKeys(p.tiles, n) /\ InOrder(p.tiles, n) /\ \A j \in 1..n : p.tiles[j].z \in Zooms
  BY TilesInOrder
<1>4. Directed(Directory(p), p)
  BY DirectoryWritten
<1>5. /\ f \in Seq(Octet) /\ Len(f) \in Nat
      /\ \A j \in 1..n : HoldsAt(f, Padded(p.tiles[j].bytes), TileOffset(p, j))
      /\ \A j \in 1..(n + 1) : TileOffset(p, j) \in Nat
  BY KeptLength DEF Keeps
<1>6. Found(f, p.tiles[i]) = LookupIn(h, entries, p.tiles[i])
  BY DEF Found, LookupIn
<1>7. FoundBytes(f, i) = Bytes(f, entries[i].offset, entries[i].length)
  BY DEF FoundBytes
<1>8. \A j \in 1..n : key[j] = entries[j].key
  BY DEF KeysOf
<1>. HIDE DEF n, h, entries, key
<1>9. /\ h.index_offset = HeaderSize /\ h.zooms = Directory(p)
      /\ entries = [j \in 1..n |-> entries[j]]
      /\ \A j \in 1..n : EntryOf(entries[j], p.tiles[j], TileOffset(p, j))
  BY <1>1 DEF IndexTaken, n, entries
<1>10. \A j \in 1..n : key[j].z = p.tiles[j].z /\ key[j].x = p.tiles[j].x /\ key[j].y = p.tiles[j].y
  BY <1>8, <1>9 DEF EntryOf
<1>11. AreKeys(key, n)
  BY <1>3, <1>10 DEF AreKeys
<1>12. InOrder(key, n)
  <2>1. ASSUME NEW j \in 1..n, NEW k \in 1..n, j < k PROVE KeyBefore(key[j], key[k])
    <3>1. KeyBefore(p.tiles[j], p.tiles[k])
      BY <1>3, <2>1 DEF InOrder
    <3>. QED
      BY <1>10, <3>1 DEF KeyBefore
  <2>. QED
    BY <2>1 DEF InOrder
<1>13. DirectoryOf(h, key, n)
  <2>1. ASSUME NEW z \in Zooms
        PROVE  /\ h.zooms[z].count = Cardinality(OfZoom(key, n, z))
               /\ OfZoom(key, n, z) # {} =>
                    \E first \in OfZoom(key, n, z) :
                      /\ \A j \in OfZoom(key, n, z) : first <= j
                      /\ h.zooms[z].offset = HeaderSize + EntrySize * (first - 1)
    <3>1. OfZoom(key, n, z) = OfZoom(p.tiles, n, z)
      BY <1>10 DEF OfZoom
    <3>. DEFINE here == OfZoom(p.tiles, n, z)  d == Directory(p)
    <3>2. /\ d[z].count = Cardinality(here)
          /\ here # {} => \E first \in here : /\ \A j \in here : first <= j
                                              /\ d[z].offset = HeaderSize + EntrySize * (first - 1)
      BY <1>4 DEF Directed, n
    <3>. HIDE DEF here, d
    <3>3. h.zooms = d /\ OfZoom(key, n, z) = here
      BY <1>9, <3>1 DEF here, d
    <3>. QED
      BY <3>2, <3>3
  <2>. QED
    BY <2>1 DEF DirectoryOf
<1>14. Indexed(h, entries, n)
  <2>1. \A j \in 1..n : entries[j].key.z \in Zooms
    BY <1>3, <1>9 DEF EntryOf
  <2>. QED
    BY <1>9, <1>11, <1>12, <1>13, <2>1 DEF Indexed, key
<1>15. i \in 1..n
  BY <1>2
<1>16. Found(f, p.tiles[i]) = i
  <2>1. SameKey(p.tiles[i], entries[i].key)
    BY <1>8, <1>10, <1>15 DEF SameKey
  <2>. QED
    BY <1>2, <1>6, <1>14, <1>15, <2>1, LookupFinds
<1>17. FoundBytes(f, i) = p.tiles[i].bytes
  <2>. DEFINE b == p.tiles[i].bytes  l == Len(b)  at == TileOffset(p, i)
  <2>1. entries[i].offset = at /\ entries[i].length = l
    BY <1>9, <1>15 DEF EntryOf
  <2>2. b \in Seq(Octet) /\ l \in Nat /\ HoldsAt(f, Padded(b), at)
    BY <1>2, <1>5, <1>15
  <2>3. at \in Nat
    <3>1. i \in 1..(n + 1)
      BY <1>2, <1>15
    <3>. QED
      BY <1>5, <3>1
  <2>4. b = [k \in 1..l |-> b[k]]
    BY <2>2
  <2>. HIDE DEF b, l, at
  <2>5. /\ Len(Padded(b)) = AlignUp(l) /\ AlignUp(l) \in Nat /\ l <= AlignUp(l)
        /\ \A k \in 1..l : Padded(b)[k] = b[k]
    BY <2>2, PaddedBytes DEF l
  <2>6. /\ at + Len(Padded(b)) <= Len(f)
        /\ \A k \in 1..Len(Padded(b)) : f[at + k] = Padded(b)[k]
    BY <2>2 DEF HoldsAt
  <2>7. StandsAt(f, at, b, l)
    <3>1. ASSUME NEW k \in 1..l PROVE f[at + k] = b[k]
      <4>1. k \in 1..Len(Padded(b))
        BY <2>2, <2>5
      <4>. QED
        BY <2>5, <2>6, <4>1
    <3>. QED
      BY <2>4, <3>1 DEF StandsAt
  <2>8. at + l <= Len(f)
    BY <1>5, <2>2, <2>3, <2>5, <2>6
  <2>9. Bytes(f, at, l) = b
    BY <1>5, <2>2, <2>3, <2>7, <2>8, BytesBack
  <2>. QED
    BY <1>7, <2>1, <2>9 DEF b
<1>. QED
  BY <1>16, <1>17

----------------------------------------------------------------------------
(* The walk over the sections, and what both programs say of a pack.       *)

(* The offsets from which a walk arrives at the end: it does at the end    *)
(* itself, and goes on from the offsets in On.                             *)
Arrives(Q, first, end, On, next) ==
  \A at \in first..end : at \in Q <=> at = end \/ (at \in On /\ next[at] \in Q)

(* A walk that only goes forward arrives from a set of offsets. *)
LEMMA WalkSet ==
  ASSUME NEW first \in Nat, NEW end \in Nat, first <= end, NEW On, NEW next,
         \A at \in On : next[at] \in Int /\ next[at] > at
  PROVE  \E Q : Arrives(Q, first, end, On, next) /\ Q \subseteq first..end
<1>. DEFINE Good == {d \in Nat : d <= end - first =>
                       \E Q : Arrives(Q, end - d, end, On, next) /\ Q \subseteq (end - d)..end}
<1>1. 0 \in Good
  <2>. DEFINE Q == {end}
  <2>1. ASSUME NEW at \in (end - 0)..end
        PROVE  at \in Q <=> at = end \/ (at \in On /\ next[at] \in Q)
    <3>1. at = end
      OBVIOUS
    <3>. QED
      BY <3>1
  <2>2. Arrives(Q, end - 0, end, On, next)
    BY <2>1 DEF Arrives
  <2>3. Q \subseteq (end - 0)..end
    OBVIOUS
  <2>. QED
    BY <2>2, <2>3
<1>2. ASSUME NEW d \in Nat, d \in Good PROVE d + 1 \in Good
  <2>. SUFFICES ASSUME d + 1 <= end - first
                PROVE  \E Q : /\ Arrives(Q, end - (d + 1), end, On, next)
                              /\ Q \subseteq (end - (d + 1))..end
    OBVIOUS
  <2>1. PICK Q : Arrives(Q, end - d, end, On, next) /\ Q \subseteq (end - d)..end
    BY <1>2
  <2>. DEFINE here == end - (d + 1)
              R == Q \cup {at \in {here} : at \in On /\ next[at] \in Q}
  <2>2. here \in Int /\ end - d = here + 1 /\ here < end
    OBVIOUS
  <2>. HIDE DEF here
  <2>3. ASSUME NEW at \in here..end
        PROVE  at \in R <=> at = end \/ (at \in On /\ next[at] \in R)
    <3>1. at \in On => (next[at] \in R <=> next[at] \in Q)
      <4>1. at \in On => next[at] # here
        BY <2>2
      <4>. QED
        BY <4>1
    <3>2. CASE at = here
      <4>1. at \notin Q /\ at # end
        BY <2>1, <2>2, <3>2
      <4>. QED
        BY <3>1, <3>2, <4>1
    <3>3. CASE at # here
      <4>1. at \in (end - d)..end
        BY <2>2, <3>3
      <4>2. at \in Q <=> at = end \/ (at \in On /\ next[at] \in Q)
        BY <2>1, <4>1 DEF Arrives
      <4>3. at \in R <=> at \in Q
        BY <3>3
      <4>. HIDE DEF R
      <4>. QED
        BY <3>1, <4>2, <4>3
    <3>. QED
      BY <3>2, <3>3
  <2>4. R \subseteq here..end
    <3>1. Q \subseteq here..end
      BY <2>1, <2>2
    <3>2. here \in here..end
      BY <2>2
    <3>. QED
      BY <3>1, <3>2
  <2>. HIDE DEF R
  <2>5. Arrives(R, here, end, On, next)
    BY <2>3 DEF Arrives
  <2>. QED
    BY <2>4, <2>5 DEF here
<1>. HIDE DEF Good
<1>3. end - first \in Nat /\ end - (end - first) = first
  OBVIOUS
<1>4. end - first \in Good
  BY <1>1, <1>2, <1>3, SetInduction
<1>. QED
  BY <1>3, <1>4 DEF Good

(* A walk from stop to stop arrives. *)
LEMMA WalkArrives ==
  ASSUME NEW first \in Nat, NEW end \in Nat, NEW On, NEW next, NEW Q,
         Arrives(Q, first, end, On, next),
         NEW m \in Nat, NEW at, at[m + 1] = end, \A j \in 1..(m + 1) : at[j] \in first..end,
         \A j \in 1..m : at[j] \in On /\ next[at[j]] = at[j + 1]
  PROVE  at[1] \in Q
<1>. DEFINE Good == {d \in Nat : d <= m => at[(m + 1) - d] \in Q}
<1>1. 0 \in Good
  <2>1. m + 1 \in 1..(m + 1) /\ (m + 1) - 0 = m + 1
    OBVIOUS
  <2>2. at[m + 1] \in first..end
    BY <2>1
  <2>. QED
    BY <2>1, <2>2 DEF Arrives
<1>2. ASSUME NEW d \in Nat, d \in Good PROVE d + 1 \in Good
  <2>. SUFFICES ASSUME d + 1 <= m PROVE at[(m + 1) - (d + 1)] \in Q
    OBVIOUS
  <2>. DEFINE j == (m + 1) - (d + 1)
  <2>1. j \in 1..m /\ j \in 1..(m + 1) /\ j + 1 = (m + 1) - d
    OBVIOUS
  <2>2. at[j + 1] \in Q
    BY <1>2, <2>1
  <2>. HIDE DEF j
  <2>3. at[j] \in first..end /\ at[j] \in On /\ next[at[j]] \in Q
    BY <2>1, <2>2
  <2>4. at[j] \in Q
    BY <2>3 DEF Arrives
  <2>. QED
    BY <2>4 DEF j
<1>. HIDE DEF Good
<1>3. m \in Good
  BY <1>1, <1>2, SetInduction
<1>4. (m + 1) - m = 1
  OBVIOUS
<1>. QED
  BY <1>3, <1>4 DEF Good

(* How the reader goes from one section to the next.                       *)
ReadOn(f) ==
  {at \in Nat :
     /\ at + SectionHeaderSize <= CrcOffset(f)
     /\ LET end == at + SectionHeaderSize + Word4(f, at + 4)
        IN /\ AlignUp(end - at) + at <= CrcOffset(f)
           /\ IsZero(Bytes(f, end, AlignUp(end - at) - (end - at)))}
ReadNext(f) ==
  [at \in Nat |-> at + AlignUp((at + SectionHeaderSize + Word4(f, at + 4)) - at)]

(* The reader accepts the sections exactly if this walk arrives. *)
LEMMA ReaderWalks ==
  ASSUME NEW f \in Seq(Octet), NEW start \in Nat, start <= Len(f)
  PROVE  \E Q : /\ Arrives(Q, start, Len(f), ReadOn(f), ReadNext(f))
                /\ SectionsRead(f, start) <=> start \in Q
<1>. DEFINE L == Len(f)  On == ReadOn(f)  next == ReadNext(f)
            Is(g) == g = [at \in start..CrcOffset(f) |->
                            \/ at = CrcOffset(f)
                            \/ /\ at + SectionHeaderSize <= CrcOffset(f)
                               /\ LET end == at + SectionHeaderSize + Word4(f, at + 4)
                                  IN /\ AlignUp(end - at) + at <= CrcOffset(f)
                                     /\ IsZero(Bytes(f, end, AlignUp(end - at) - (end - at)))
                                     /\ g[at + AlignUp(end - at)]]
            walk == CHOOSE g : Is(g)
<1>1. SectionsRead(f, start) <=> walk[start]
  BY Zenon DEF SectionsRead
<1>2. L \in Nat /\ CrcOffset(f) = L
  BY DEF CrcOffset
<1>3. ASSUME NEW at \in On PROVE next[at] \in Int /\ next[at] > at /\ next[at] <= L /\ at \in Nat
  <2>1. at \in Nat /\ at + 8 <= L
    BY <1>2, <1>3 DEF ReadOn, SectionHeaderSize
  <2>. DEFINE w == Word4(f, at + 4)  v == (at + 8 + w) - at
  <2>2. w \in Nat
    <3>1. at + 4 \in Nat /\ (at + 4) + 4 <= Len(f)
      BY <2>1
    <3>. QED
      BY <3>1, WordsRead
  <2>3. next[at] = at + AlignUp(v) /\ AlignUp(v) + at <= L
    BY <1>2, <1>3, <2>1 DEF ReadOn, ReadNext, SectionHeaderSize
  <2>. HIDE DEF w
  <2>4. v \in Nat /\ v >= 8
    BY <2>1, <2>2
  <2>. HIDE DEF v
  <2>5. AlignUp(v) \in Nat /\ v <= AlignUp(v)
    BY <2>4, AlignUps
  <2>. QED
    BY <2>1, <2>3, <2>4, <2>5
<1>. HIDE DEF L
<1>4. PICK Q : Arrives(Q, start, L, On, next) /\ Q \subseteq start..L
  <2>. HIDE DEF On, next
  <2>1. start <= L
    BY DEF L
  <2>. QED
    BY <1>2, <1>3, <2>1, WalkSet
<1>5. \A at \in start..L : at \in On <=>
         /\ at + SectionHeaderSize <= CrcOffset(f)
         /\ LET end == at + SectionHeaderSize + Word4(f, at + 4)
            IN /\ AlignUp(end - at) + at <= CrcOffset(f)
               /\ IsZero(Bytes(f, end, AlignUp(end - at) - (end - at)))
  <2>1. \A at \in start..L : at \in Nat
    BY <1>2
  <2>. QED
    BY <2>1, Zenon DEF ReadOn
<1>6. \A at \in start..L : next[at] = at + AlignUp((at + SectionHeaderSize + Word4(f, at + 4)) - at)
  BY <1>2 DEF ReadNext
<1>. DEFINE g == [at \in start..L |-> at \in Q]
            body(h, at) == \/ at = CrcOffset(f)
                           \/ /\ at + SectionHeaderSize <= CrcOffset(f)
                              /\ LET end == at + SectionHeaderSize + Word4(f, at + 4)
                                 IN /\ AlignUp(end - at) + at <= CrcOffset(f)
                                    /\ IsZero(Bytes(f, end, AlignUp(end - at) - (end - at)))
                                    /\ h[at + AlignUp(end - at)]
<1>7. \A h, at : at \in start..L => (body(h, at) <=> at = L \/ (at \in On /\ h[next[at]]))
  <2>1. ASSUME NEW h, NEW at, at \in start..L
        PROVE  body(h, at) <=> at = L \/ (at \in On /\ h[next[at]])
    <3>1. at \in On <=>
            /\ at + SectionHeaderSize <= CrcOffset(f)
            /\ LET end == at + SectionHeaderSize + Word4(f, at + 4)
               IN /\ AlignUp(end - at) + at <= CrcOffset(f)
                  /\ IsZero(Bytes(f, end, AlignUp(end - at) - (end - at)))
      BY <1>5, <2>1
    <3>2. next[at] = at + AlignUp((at + SectionHeaderSize + Word4(f, at + 4)) - at)
      BY <1>6, <2>1
    <3>. HIDE DEF On, next
    <3>. QED
      BY <1>2, <3>1, <3>2, Zenon
  <2>. QED
    BY <2>1
<1>8. \A h : Is(h) <=> h = [at \in start..L |-> body(h, at)]
  BY <1>2, Zenon
<1>. HIDE DEF body, On, next
<1>9. \A at \in start..L : body(g, at) <=> g[at]
  <2>1. ASSUME NEW at \in start..L PROVE body(g, at) <=> g[at]
    <3>1. body(g, at) <=> at = L \/ (at \in On /\ g[next[at]])
      BY <1>7
    <3>2. at \in Q <=> at = L \/ (at \in On /\ next[at] \in Q)
      BY <1>4 DEF Arrives
    <3>3. at \in On => next[at] \in start..L
      BY <1>2, <1>3
    <3>4. at \in On => (g[next[at]] <=> next[at] \in Q)
      BY <3>3
    <3>5. g[at] <=> at \in Q
      OBVIOUS
    <3>. HIDE DEF g
    <3>. QED
      BY <3>1, <3>2, <3>4, <3>5
  <2>. QED
    BY <2>1
<1>10. Is(g)
  <2>1. \A at \in start..L : g[at] = body(g, at)
    <3>1. \A at \in start..L : g[at] \in BOOLEAN
      OBVIOUS
    <3>2. \A at \in start..L : body(g, at) \in BOOLEAN
      BY Zenon DEF body
    <3>. HIDE DEF g
    <3>. QED
      BY <1>9, <3>1, <3>2, Zenon
  <2>2. g = [at \in start..L |-> g[at]]
    OBVIOUS
  <2>. HIDE DEF g
  <2>3. g = [at \in start..L |-> body(g, at)]
    BY <2>1, <2>2
  <2>. HIDE DEF Is
  <2>. QED
    BY <1>8, <2>3
<1>11. Is(walk)
  <2>. HIDE DEF Is
  <2>. QED
    BY <1>10
<1>. HIDE DEF walk, Is, g
<1>12. \A at \in start..L : walk[at] <=> at = L \/ (at \in On /\ walk[next[at]])
  <2>1. ASSUME NEW at \in start..L PROVE walk[at] <=> at = L \/ (at \in On /\ walk[next[at]])
    <3>1. walk = [a \in start..L |-> body(walk, a)]
      BY <1>8, <1>11
    <3>2. walk[at] = body(walk, at)
      BY <3>1
    <3>. QED
      BY <1>7, <3>2, Zenon
  <2>. QED
    BY <2>1
<1>. DEFINE R == {at \in start..L : walk[at]}
<1>13. ASSUME NEW at \in start..L PROVE at \in R <=> at = L \/ (at \in On /\ next[at] \in R)
  <2>1. at \in On => next[at] \in start..L
    BY <1>2, <1>3
  <2>2. at \in On => (next[at] \in R <=> walk[next[at]])
    BY <2>1, Zenon
  <2>3. at \in R <=> walk[at]
    BY Zenon
  <2>. HIDE DEF R
  <2>. QED
    BY <1>12, <2>2, <2>3, Zenon
<1>14. start \in R <=> walk[start]
  <2>1. start \in start..L
    BY <1>2 DEF L
  <2>. QED
    BY <2>1, Zenon
<1>. HIDE DEF R
<1>15. Arrives(R, start, L, On, next)
  BY <1>13 DEF Arrives
<1>. QED
  BY <1>1, <1>14, <1>15, Zenon DEF L, On, next

(* How the validator goes from one section to the next.                    *)
CheckOn(f) ==
  {at \in Nat : /\ at + SectionHeaderSize <= CrcOffset(f)
                /\ AlignUp(at + SectionHeaderSize + Word4(f, at + 4)) <= CrcOffset(f)}
CheckNext(f) == [at \in Nat |-> AlignUp(at + SectionHeaderSize + Word4(f, at + 4))]

(* The validator accepts the sections exactly if this walk arrives. *)
LEMMA ValidatorWalks ==
  ASSUME NEW f \in Seq(Octet), NEW start \in Nat, start <= Len(f)
  PROVE  \E Q : /\ Arrives(Q, start, Len(f), CheckOn(f), CheckNext(f))
                /\ SectionsValid(f, start) <=> start \in Q
<1>. DEFINE L == Len(f)  On == CheckOn(f)  next == CheckNext(f)
            Is(g) == g = [at \in start..CrcOffset(f) |->
                            \/ at = CrcOffset(f)
                            \/ /\ at + SectionHeaderSize <= CrcOffset(f)
                               /\ LET end == at + SectionHeaderSize + Word4(f, at + 4)
                                  IN AlignUp(end) <= CrcOffset(f) /\ g[AlignUp(end)]]
            walk == CHOOSE g : Is(g)
<1>1. SectionsValid(f, start) <=> walk[start]
  BY Zenon DEF SectionsValid
<1>2. L \in Nat /\ CrcOffset(f) = L
  BY DEF CrcOffset
<1>3. ASSUME NEW at \in On PROVE next[at] \in Int /\ next[at] > at /\ next[at] <= L /\ at \in Nat
  <2>1. at \in Nat /\ at + 8 <= L
    BY <1>2, <1>3 DEF CheckOn, SectionHeaderSize
  <2>. DEFINE w == Word4(f, at + 4)  v == at + 8 + w
  <2>2. w \in Nat
    <3>1. at + 4 \in Nat /\ (at + 4) + 4 <= Len(f)
      BY <2>1
    <3>. QED
      BY <3>1, WordsRead
  <2>3. next[at] = AlignUp(v) /\ AlignUp(v) <= L
    BY <1>2, <1>3, <2>1 DEF CheckOn, CheckNext, SectionHeaderSize
  <2>. HIDE DEF w
  <2>4. v \in Nat /\ v >= at + 8
    BY <2>1, <2>2
  <2>. HIDE DEF v
  <2>5. AlignUp(v) \in Nat /\ v <= AlignUp(v)
    BY <2>4, AlignUps
  <2>. QED
    BY <2>1, <2>3, <2>4, <2>5
<1>. HIDE DEF L
<1>4. PICK Q : Arrives(Q, start, L, On, next) /\ Q \subseteq start..L
  <2>. HIDE DEF On, next
  <2>1. start <= L
    BY DEF L
  <2>. QED
    BY <1>2, <1>3, <2>1, WalkSet
<1>5. \A at \in start..L : at \in On <=>
         /\ at + SectionHeaderSize <= CrcOffset(f)
         /\ AlignUp(at + SectionHeaderSize + Word4(f, at + 4)) <= CrcOffset(f)
  <2>1. \A at \in start..L : at \in Nat
    BY <1>2
  <2>. QED
    BY <2>1, Zenon DEF CheckOn
<1>6. \A at \in start..L : next[at] = AlignUp(at + SectionHeaderSize + Word4(f, at + 4))
  BY <1>2 DEF CheckNext
<1>. DEFINE g == [at \in start..L |-> at \in Q]
            body(h, at) == \/ at = CrcOffset(f)
                           \/ /\ at + SectionHeaderSize <= CrcOffset(f)
                              /\ LET end == at + SectionHeaderSize + Word4(f, at + 4)
                                 IN AlignUp(end) <= CrcOffset(f) /\ h[AlignUp(end)]
<1>7. \A h, at : at \in start..L => (body(h, at) <=> at = L \/ (at \in On /\ h[next[at]]))
  <2>1. ASSUME NEW h, NEW at, at \in start..L
        PROVE  body(h, at) <=> at = L \/ (at \in On /\ h[next[at]])
    <3>1. at \in On <=>
            /\ at + SectionHeaderSize <= CrcOffset(f)
            /\ AlignUp(at + SectionHeaderSize + Word4(f, at + 4)) <= CrcOffset(f)
      BY <1>5, <2>1
    <3>2. next[at] = AlignUp(at + SectionHeaderSize + Word4(f, at + 4))
      BY <1>6, <2>1
    <3>. HIDE DEF On, next
    <3>. QED
      BY <1>2, <3>1, <3>2, Zenon
  <2>. QED
    BY <2>1
<1>8. \A h : Is(h) <=> h = [at \in start..L |-> body(h, at)]
  BY <1>2, Zenon
<1>. HIDE DEF body, On, next
<1>9. \A at \in start..L : body(g, at) <=> g[at]
  <2>1. ASSUME NEW at \in start..L PROVE body(g, at) <=> g[at]
    <3>1. body(g, at) <=> at = L \/ (at \in On /\ g[next[at]])
      BY <1>7
    <3>2. at \in Q <=> at = L \/ (at \in On /\ next[at] \in Q)
      BY <1>4 DEF Arrives
    <3>3. at \in On => next[at] \in start..L
      BY <1>2, <1>3
    <3>4. at \in On => (g[next[at]] <=> next[at] \in Q)
      BY <3>3
    <3>5. g[at] <=> at \in Q
      OBVIOUS
    <3>. HIDE DEF g
    <3>. QED
      BY <3>1, <3>2, <3>4, <3>5
  <2>. QED
    BY <2>1
<1>10. Is(g)
  <2>1. \A at \in start..L : g[at] = body(g, at)
    <3>1. \A at \in start..L : g[at] \in BOOLEAN
      OBVIOUS
    <3>2. \A at \in start..L : body(g, at) \in BOOLEAN
      BY Zenon DEF body
    <3>. HIDE DEF g
    <3>. QED
      BY <1>9, <3>1, <3>2, Zenon
  <2>2. g = [at \in start..L |-> g[at]]
    OBVIOUS
  <2>. HIDE DEF g
  <2>3. g = [at \in start..L |-> body(g, at)]
    BY <2>1, <2>2
  <2>. HIDE DEF Is
  <2>. QED
    BY <1>8, <2>3
<1>11. Is(walk)
  <2>. HIDE DEF Is
  <2>. QED
    BY <1>10
<1>. HIDE DEF walk, Is, g
<1>12. \A at \in start..L : walk[at] <=> at = L \/ (at \in On /\ walk[next[at]])
  <2>1. ASSUME NEW at \in start..L PROVE walk[at] <=> at = L \/ (at \in On /\ walk[next[at]])
    <3>1. walk = [a \in start..L |-> body(walk, a)]
      BY <1>8, <1>11
    <3>2. walk[at] = body(walk, at)
      BY <3>1
    <3>. QED
      BY <1>7, <3>2, Zenon
  <2>. QED
    BY <2>1
<1>. DEFINE R == {at \in start..L : walk[at]}
<1>13. ASSUME NEW at \in start..L PROVE at \in R <=> at = L \/ (at \in On /\ next[at] \in R)
  <2>1. at \in On => next[at] \in start..L
    BY <1>2, <1>3
  <2>2. at \in On => (next[at] \in R <=> walk[next[at]])
    BY <2>1, Zenon
  <2>3. at \in R <=> walk[at]
    BY Zenon
  <2>. HIDE DEF R
  <2>. QED
    BY <1>12, <2>2, <2>3, Zenon
<1>14. start \in R <=> walk[start]
  <2>1. start \in start..L
    BY <1>2 DEF L
  <2>. QED
    BY <2>1, Zenon
<1>. HIDE DEF R
<1>15. Arrives(R, start, L, On, next)
  BY <1>13 DEF Arrives
<1>. QED
  BY <1>1, <1>14, <1>15, Zenon DEF L, On, next

(* Sections start on four-byte boundaries. *)
LEMMA SectionsAligned ==
  ASSUME NEW p, IsPack(p)
  PROVE  \A j \in 1..(Len(p.sections) + 1) : SectionAt(p, j) % 4 = 0
<1>. DEFINE n == Len(p.tiles)  m == Len(p.sections)
            Good == {d \in Nat : d <= m => SectionAt(p, d + 1) % 4 = 0}
<1>1. n \in Nat /\ m \in Nat /\ \A j \in 1..m : p.sections[j] \in Sections
  BY PackParts
<1>2. /\ SectionAt(p, 1) = TileOffset(p, n + 1)
      /\ \A j \in 1..m : SectionAt(p, j + 1) = SectionAt(p, j) + Len(WriteSection(p.sections[j]))
      /\ \A j \in 1..(m + 1) : SectionAt(p, j) \in Nat
  BY SectionOffsets DEF SectionsStart
<1>3. \A i \in 1..(n + 1) : TileOffset(p, i) % 4 = 0
  BY TileOffsets DEF TilesStart
<1>. HIDE DEF n, m
<1>4. 0 \in Good
  <2>1. n + 1 \in 1..(n + 1)
    BY <1>1
  <2>. QED
    BY <1>2, <1>3, <2>1
<1>5. ASSUME NEW d \in Nat, d \in Good PROVE d + 1 \in Good
  <2>. SUFFICES ASSUME d + 1 <= m PROVE SectionAt(p, (d + 1) + 1) % 4 = 0
    OBVIOUS
  <2>. DEFINE j == d + 1  l == Len(p.sections[j].payload)  s == Len(WriteSection(p.sections[j]))
              at == SectionAt(p, j)
  <2>1. j \in 1..m /\ j \in 1..(m + 1)
    BY <1>1
  <2>2. at % 4 = 0 /\ at \in Nat /\ SectionAt(p, j + 1) = at + s
    BY <1>1, <1>2, <1>5, <2>1
  <2>3. l \in Nat /\ s = 8 + AlignUp(l)
    <3>1. p.sections[j] \in Sections
      BY <1>1, <2>1
    <3>. QED
      BY <3>1, SectionBytes
  <2>. HIDE DEF j, l, s, at
  <2>4. AlignUp(l) \in Nat /\ AlignUp(l) % 4 = 0
    BY <2>3, AlignUps
  <2>5. (at + s) % 4 = 0
    <3>. DEFINE a == AlignUp(l)
    <3>. HIDE DEF a
    <3>1. a \in Nat /\ a % 4 = 0 /\ s = 8 + a
      BY <2>3, <2>4 DEF a
    <3>. QED
      BY <2>2, <3>1
  <2>. QED
    BY <2>2, <2>5 DEF j
<1>. HIDE DEF Good
<1>6. ASSUME NEW j \in 1..(m + 1) PROVE SectionAt(p, j) % 4 = 0
  <2>1. j - 1 \in Nat /\ j - 1 <= m /\ (j - 1) + 1 = j
    BY <1>1
  <2>2. j - 1 \in Good
    BY <1>4, <1>5, <2>1, SetInduction
  <2>. QED
    BY <2>1, <2>2 DEF Good
<1>. QED
  BY <1>6 DEF m

(* A section of a pack as both walks find it.                              *)
SectionTaken(f, at, next, l) ==
  /\ Word4(f, at + 4) = l /\ next = at + (8 + AlignUp(l)) /\ next <= Len(f)
  /\ IsZero(Bytes(f, at + 8 + l, AlignUp(l) - l))

(* Its length is read back, and its padding is zero. *)
LEMMA SectionDecoded ==
  ASSUME NEW p, IsPack(p), NEW f, Keeps(f, p), NEW j \in 1..Len(p.sections)
  PROVE  SectionTaken(f, SectionAt(p, j), SectionAt(p, j + 1), Len(p.sections[j].payload))
<1>. DEFINE m == Len(p.sections)  s == p.sections[j]  w == WriteSection(s)  l == Len(s.payload)
            at == SectionAt(p, j)  a == AlignUp(l)
<1>1. m \in Nat /\ s \in Sections
  BY PackParts
<1>2. /\ \A i \in 1..(m + 1) : SectionAt(p, i) \in Nat
      /\ SectionAt(p, j + 1) = at + Len(w)
  BY SectionOffsets DEF SectionsStart
<1>3. \A i, k \in 1..(m + 1) : i <= k => SectionAt(p, i) <= SectionAt(p, k)
  BY PartsInRank DEF InRank
<1>4. /\ f \in Seq(Octet) /\ Len(f) = SectionAt(p, m + 1)
      /\ \A k \in 5..Len(w) : f[at + k] = w[k]
  BY DEF Keeps
<1>5. /\ l \in Nat /\ Len(w) = 8 + a
      /\ \A k \in 1..4 : w[4 + k] = LE(l, 4)[k]
      /\ \A k \in 1..a : w[8 + k] = Padded(s.payload)[k]
  BY <1>1, SectionBytes
<1>6. \A k \in (l + 1)..a : Padded(s.payload)[k] = 0
  <2>1. s.payload \in Seq(Octet)
    BY <1>1 DEF Sections
  <2>. QED
    BY <2>1, PaddedBytes
<1>7. Fits(l)
  BY PackFits DEF PartsFit
<1>. HIDE DEF m, s, w, l, at
<1>8. a \in Nat /\ l <= a
  BY <1>5, AlignUps
<1>. HIDE DEF a
<1>9. at \in Nat /\ SectionAt(p, j + 1) \in Nat /\ SectionAt(p, j + 1) <= Len(f) /\ Len(f) \in Nat
  <2>1. j \in 1..m
    BY DEF m
  <2>2. j \in 1..(m + 1) /\ j + 1 \in 1..(m + 1) /\ m + 1 \in 1..(m + 1) /\ j + 1 <= m + 1
    BY <1>1, <2>1
  <2>. QED
    BY <1>2, <1>3, <1>4, <2>2 DEF at
<1>10. Word4(f, at + 4) = l
  <2>1. ASSUME NEW k \in 1..4 PROVE f[(at + 4) + k] = LE(l, 4)[k]
    <3>1. Len(w) = 8 + a /\ w[4 + k] = LE(l, 4)[k]
      BY <1>5
    <3>2. 4 + k \in 5..(8 + a) /\ at + (4 + k) = (at + 4) + k
      BY <1>8, <1>9
    <3>. QED
      BY <1>4, <3>1, <3>2
  <2>2. LEAt(f, at + 4, l, 4)
    BY <2>1 DEF LEAt
  <2>3. at + 4 \in Nat
    BY <1>9
  <2>. QED
    BY <1>7, <2>2, <2>3, WordBack DEF Fits
<1>11. IsZero(Bytes(f, at + 8 + l, a - l))
  <2>. DEFINE from == at + 8 + l  n == a - l
  <2>1. from \in Nat /\ n \in Nat /\ from + n <= Len(f)
    BY <1>2, <1>5, <1>8, <1>9
  <2>2. ASSUME NEW k \in 1..n PROVE f[from + k] = Zeros(n)[k]
    <3>1. 8 + (l + k) \in 5..Len(w) /\ at + (8 + (l + k)) = from + k /\ l + k \in 1..a /\ l + k \in (l + 1)..a
      BY <1>5, <1>8, <1>9, <2>1
    <3>2. f[from + k] = w[8 + (l + k)]
      BY <1>4, <3>1
    <3>3. w[8 + (l + k)] = 0
      BY <1>5, <1>6, <3>1
    <3>. QED
      BY <3>2, <3>3 DEF Zeros
  <2>. HIDE DEF from, n
  <2>3. Zeros(n) = [k \in 1..n |-> Zeros(n)[k]]
    BY DEF Zeros
  <2>4. Bytes(f, from, n) = Zeros(n)
    <3>1. StandsAt(f, from, Zeros(n), n)
      BY <2>2, <2>3 DEF StandsAt
    <3>. QED
      BY <1>4, <2>1, <3>1, BytesBack
  <2>5. IsZero(Zeros(n))
    BY DEF IsZero, Zeros
  <2>. QED
    BY <2>4, <2>5 DEF from, n
<1>12. SectionTaken(f, at, SectionAt(p, j + 1), l)
  BY <1>2, <1>5, <1>9, <1>10, <1>11 DEF SectionTaken, a
<1>. QED
  BY <1>12 DEF at, l, s

(* Both programs accept the sections of a pack. *)
LEMMA SectionsPass ==
  ASSUME NEW p, IsPack(p), NEW f, Keeps(f, p)
  PROVE  SectionsRead(f, SectionAt(p, 1)) /\ SectionsValid(f, SectionAt(p, 1))
<1>. DEFINE m == Len(p.sections)  at == [j \in 1..(m + 1) |-> SectionAt(p, j)]  first == SectionAt(p, 1)
<1>1. m \in Nat /\ \A j \in 1..m : p.sections[j] \in Sections
  BY PackParts
<1>2. \A j \in 1..(m + 1) : SectionAt(p, j) \in Nat /\ SectionAt(p, j) % 4 = 0
  BY SectionOffsets, SectionsAligned DEF SectionsStart
<1>3. \A i, k \in 1..(m + 1) : i <= k => SectionAt(p, i) <= SectionAt(p, k)
  BY PartsInRank DEF InRank
<1>4. f \in Seq(Octet) /\ Len(f) = SectionAt(p, m + 1)
  BY DEF Keeps
<1>5. \A j \in 1..m : SectionTaken(f, SectionAt(p, j), SectionAt(p, j + 1), Len(p.sections[j].payload))
  BY SectionDecoded
<1>. HIDE DEF m
<1>6. /\ \A j \in 1..(m + 1) : at[j] = SectionAt(p, j) /\ 1 <= j /\ j <= m + 1
      /\ \A j \in 1..m : j \in 1..(m + 1) /\ j + 1 \in 1..(m + 1)
      /\ 1 \in 1..(m + 1) /\ m + 1 \in 1..(m + 1)
  BY <1>1
<1>7. first \in Nat /\ first <= Len(f) /\ Len(f) \in Nat
  BY <1>2, <1>3, <1>4, <1>6
<1>8. at[m + 1] = Len(f) /\ at[1] = first /\ \A j \in 1..(m + 1) : at[j] \in first..Len(f)
  <2>1. \A j \in 1..(m + 1) : SectionAt(p, j) \in first..SectionAt(p, m + 1)
    BY <1>2, <1>3, <1>6
  <2>. QED
    BY <1>4, <1>6, <2>1
<1>. HIDE DEF at, first
<1>9. ASSUME NEW j \in 1..m
      PROVE  /\ at[j] \in ReadOn(f) /\ ReadNext(f)[at[j]] = at[j + 1]
             /\ at[j] \in CheckOn(f) /\ CheckNext(f)[at[j]] = at[j + 1]
  <2>. DEFINE l == Len(p.sections[j].payload)  a == at[j]
  <2>1. l \in Nat
    <3>1. p.sections[j] \in Sections
      BY <1>1
    <3>2. p.sections[j].payload \in Seq(Octet)
      BY <3>1 DEF Sections
    <3>. QED
      BY <3>2
  <2>2. SectionTaken(f, a, at[j + 1], l) /\ a \in Nat /\ a % 4 = 0
    BY <1>2, <1>5, <1>6
  <2>. HIDE DEF l, a
  <2>3. /\ Word4(f, a + 4) = l /\ at[j + 1] = a + (8 + AlignUp(l)) /\ at[j + 1] <= Len(f)
        /\ IsZero(Bytes(f, a + 8 + l, AlignUp(l) - l))
    BY <2>2 DEF SectionTaken
  <2>4. /\ AlignUp(l) \in Nat /\ AlignUp(8 + l) = 8 + AlignUp(l)
        /\ AlignUp(a + (8 + l)) = a + AlignUp(8 + l)
    <3>1. 8 \in Nat /\ 8 % 4 = 0 /\ 8 + l \in Nat
      BY <2>1
    <3>. QED
      BY <2>1, <2>2, <3>1, AlignUps, AlignFrom
  <2>. DEFINE end == a + SectionHeaderSize + l
  <2>5. /\ end = a + (8 + l) /\ end = a + 8 + l /\ end - a = 8 + l
        /\ a + SectionHeaderSize <= Len(f)
    <3>1. a \in Nat /\ AlignUp(l) \in Nat /\ a + (8 + AlignUp(l)) <= Len(f) /\ Len(f) \in Nat
      BY <1>7, <2>2, <2>3, <2>4
    <3>. QED
      BY <2>1, <3>1 DEF SectionHeaderSize
  <2>6. AlignUp(end) = at[j + 1]
    <3>. HIDE DEF end
    <3>1. end = a + (8 + l)
      BY <2>5
    <3>2. AlignUp(end) = a + (8 + AlignUp(l))
      BY <2>4, <3>1, Zenon
    <3>. QED
      BY <2>3, <3>2, Zenon
  <2>7. /\ AlignUp(end - a) + a = at[j + 1] /\ a + AlignUp(end - a) = at[j + 1]
        /\ AlignUp(end - a) - (end - a) = AlignUp(l) - l
    <3>1. AlignUp(end - a) = 8 + AlignUp(l)
      BY <2>4, <2>5
    <3>2. end - a = 8 + l
      BY <2>5
    <3>. HIDE DEF end
    <3>. QED
      BY SMTT(30), <2>1, <2>2, <2>3, <2>4, <3>1, <3>2
  <2>8. IsZero(Bytes(f, end, AlignUp(end - a) - (end - a)))
    BY <2>3, <2>5, <2>7
  <2>9. a \in CheckOn(f) /\ CheckNext(f)[a] = at[j + 1]
    BY <2>2, <2>3, <2>5, <2>6 DEF CheckOn, CheckNext, CrcOffset
  <2>10. a \in ReadOn(f) /\ ReadNext(f)[a] = at[j + 1]
    <3>1. ReadNext(f)[a] = a + AlignUp((a + SectionHeaderSize + Word4(f, a + 4)) - a)
      BY <2>2 DEF ReadNext
    <3>2. a \in ReadOn(f) <=>
            /\ a + SectionHeaderSize <= CrcOffset(f)
            /\ AlignUp(end - a) + a <= CrcOffset(f)
            /\ IsZero(Bytes(f, end, AlignUp(end - a) - (end - a)))
      BY <2>2, <2>3, Zenon DEF ReadOn
    <3>. QED
      BY <2>3, <2>5, <2>7, <2>8, <3>1, <3>2 DEF CrcOffset
  <2>. QED
    BY <2>9, <2>10 DEF a
<1>10. SectionsRead(f, first)
  <2>1. PICK Q : /\ Arrives(Q, first, Len(f), ReadOn(f), ReadNext(f))
                 /\ SectionsRead(f, first) <=> first \in Q
    BY <1>4, <1>7, ReaderWalks
  <2>2. at[1] \in Q
    <3>1. \A j \in 1..m : at[j] \in ReadOn(f) /\ ReadNext(f)[at[j]] = at[j + 1]
      BY <1>9
    <3>2. Arrives(Q, first, Len(f), ReadOn(f), ReadNext(f))
      BY <2>1
    <3>. QED
      BY SMTT(30), <1>1, <1>7, <1>8, <3>1, <3>2, WalkArrives
  <2>. QED
    BY <1>8, <2>1, <2>2
<1>11. SectionsValid(f, first)
  <2>1. PICK Q : /\ Arrives(Q, first, Len(f), CheckOn(f), CheckNext(f))
                 /\ SectionsValid(f, first) <=> first \in Q
    BY <1>4, <1>7, ValidatorWalks
  <2>2. at[1] \in Q
    <3>1. \A j \in 1..m : at[j] \in CheckOn(f) /\ CheckNext(f)[at[j]] = at[j + 1]
      BY <1>9
    <3>2. Arrives(Q, first, Len(f), CheckOn(f), CheckNext(f))
      BY <2>1
    <3>. QED
      BY SMTT(30), <1>1, <1>7, <1>8, <3>1, <3>2, WalkArrives
  <2>. QED
    BY <1>8, <2>1, <2>2
<1>. QED
  BY <1>10, <1>11 DEF first

(* The fields of a pack's header that a reader takes.                       *)
HeaderSays(h, p) ==
  /\ h.major = 1 /\ h.pack_uuid = p.uuid /\ h.parent = Zeros(16)
  /\ h.pixel_format = p.pixel /\ h.projection = p.projection
  /\ h.addressing = p.addressing /\ h.axis = p.axis /\ h.tile_dim_px = p.dim
  /\ h.zoom_min = p.zooms[1] /\ h.zoom_max = p.zooms[2] /\ h.bbox = p.bbox

(* A header taken from a file says what the pack says. *)
LEMMA HeaderSaid ==
  ASSUME NEW p, IsPack(p), NEW f, Keeps(f, p)
  PROVE  Bytes(f, 0, 4) = Magic /\ HeaderSays(Decode(f, ReaderLayout), p)
<1>. DEFINE h == Decode(f, ReaderLayout)  g == Header(p)
<1>1. Bytes(f, 0, 4) = Magic /\ HeaderTaken(h, g, f[6])
  BY HeaderDecoded
<1>2. /\ g.pack_uuid = p.uuid /\ g.parent = Zeros(16)
      /\ g.pixel_format = p.pixel /\ g.projection = p.projection
      /\ g.addressing = p.addressing /\ g.axis = p.axis /\ g.tile_dim_px = p.dim
      /\ g.zoom_min = p.zooms[1] /\ g.zoom_max = p.zooms[2] /\ g.bbox = p.bbox
  BY DEF Header
<1>. HIDE DEF h, g
<1>3. HeaderSays(h, p)
  BY <1>1, <1>2 DEF HeaderTaken, HeaderSays
<1>. QED
  BY <1>1, <1>3 DEF h

(* A file that keeps the layout of a pack is opened. *)
LEMMA KeptIsOpened == ASSUME NEW p, IsPack(p), NEW f, Keeps(f, p) PROVE Opens(f)
<1>. DEFINE n == Len(p.tiles)  h == Decode(f, ReaderLayout)  entries == Entries(f, h)
<1>1. /\ f \in Seq(Octet) /\ Len(f) \in Nat /\ SectionAt(p, 1) \in Nat
      /\ HeaderSize + EntrySize * n <= SectionAt(p, 1) /\ SectionAt(p, 1) <= Len(f)
      /\ \A i \in 1..(n + 1) : TileOffset(p, i) \in Nat /\ TileOffset(p, i) <= SectionAt(p, 1)
  BY KeptLength
<1>2. /\ n \in Nat /\ \A i \in 1..n : p.tiles[i] \in Tiles /\ p.tiles[i].bytes \in Seq(Octet)
  BY PackParts
<1>3. Bytes(f, 0, 4) = Magic /\ HeaderSays(h, p) /\ IndexTaken(f, h, p)
  BY HeaderSaid, IndexDecoded
<1>4. SectionsRead(f, SectionAt(p, 1))
  BY SectionsPass
<1>5. \A i \in 1..n : TileOffset(p, i + 1) = TileOffset(p, i) + AlignUp(Len(p.tiles[i].bytes))
  BY TileOffsets DEF TilesStart
<1>6. IsMetadata(p)
  BY DEF IsPack
<1>7. Opens(f) <=>
        /\ Len(f) >= HeaderSize
        /\ HeaderReads(f, h)
        /\ h.index_offset = HeaderSize
        /\ h.index_offset + h.tile_count * EntrySize <= Len(f) + CrcSize
        /\ \A i \in 1..h.tile_count : EntryReads(f, entries[i])
        /\ h.extensions_offset <= CrcOffset(f)
        /\ SectionsRead(f, h.extensions_offset)
  BY DEF Opens
<1>. HIDE DEF n, h, entries
<1>8. /\ h.tile_count = n /\ h.index_offset = HeaderSize /\ h.extensions_offset = SectionAt(p, 1)
      /\ \A i \in 1..n : EntryOf(entries[i], p.tiles[i], TileOffset(p, i))
  BY <1>3 DEF IndexTaken, n, entries
<1>9. HeaderReads(f, h)
  <2>1. /\ ~IsZero(p.uuid) /\ p.pixel \in {1, 2} /\ p.projection \in {1, 3}
        /\ p.addressing \in {1, 2} /\ p.axis \in {1, 2} /\ p.zooms[1] <= p.zooms[2]
        /\ IsDim(p.dim)
    BY <1>6 DEF IsMetadata
  <2>2. p.dim # 0
    BY <2>1 DEF IsDim
  <2>3. IsZero(Zeros(16))
    BY DEF IsZero, Zeros
  <2>. QED
    BY <1>3, <2>1, <2>2, <2>3 DEF HeaderSays, HeaderReads, VersionSupported
<1>10. ASSUME NEW i \in 1..n PROVE EntryReads(f, entries[i])
  <2>. DEFINE e == entries[i]  t == p.tiles[i]  l == Len(t.bytes)
  <2>1. /\ e.compression = t.compression /\ e.flags = 0 /\ e.reserved = 0
        /\ e.offset = TileOffset(p, i) /\ e.length = l
    BY <1>8 DEF EntryOf
  <2>2. t.compression \in {0, 1} /\ l \in Nat
    BY <1>2 DEF Tiles
  <2>3. i \in 1..(n + 1) /\ i + 1 \in 1..(n + 1)
    BY <1>2
  <2>4. TileOffset(p, i + 1) = TileOffset(p, i) + AlignUp(l)
    BY <1>5
  <2>. HIDE DEF e, t, l
  <2>5. AlignUp(l) \in Nat /\ l <= AlignUp(l)
    BY <2>2, AlignUps
  <2>6. e.offset + e.length <= Len(f)
    BY <1>1, <2>1, <2>2, <2>3, <2>4, <2>5
  <2>7. EntryReads(f, e)
    BY <2>1, <2>2, <2>6 DEF EntryReads, CrcOffset
  <2>. QED
    BY <2>7 DEF e
<1>11. h.index_offset + h.tile_count * EntrySize <= Len(f) + CrcSize /\ Len(f) >= HeaderSize
  <2>1. n * EntrySize \in Nat /\ n * EntrySize = EntrySize * n /\ HeaderSize \in Nat
    BY <1>2 DEF HeaderSize, EntrySize
  <2>. QED
    BY <1>1, <1>8, <2>1 DEF CrcSize
<1>. QED
  BY <1>1, <1>4, <1>7, <1>8, <1>9, <1>10, <1>11 DEF CrcOffset

(* The validator accepts it exactly if it knows what the pack uses. *)
LEMMA KeptIsAccepted == ASSUME NEW p, IsPack(p), NEW f, Keeps(f, p) PROVE Accepts(f) <=> Known(p)
<1>. DEFINE n == Len(p.tiles)  h == Decode(f, ReaderLayout)  entries == Entries(f, h)
<1>1. /\ f \in Seq(Octet) /\ Len(f) \in Nat /\ SectionAt(p, 1) \in Nat
      /\ HeaderSize + EntrySize * n <= SectionAt(p, 1) /\ SectionAt(p, 1) <= Len(f)
      /\ \A i \in 1..(n + 1) : TileOffset(p, i) \in Nat /\ TileOffset(p, i) <= SectionAt(p, 1)
  BY KeptLength
<1>2. /\ n \in Nat /\ \A i \in 1..n : p.tiles[i] \in Tiles /\ p.tiles[i].bytes \in Seq(Octet)
      /\ DOMAIN p.tiles = 1..n
  BY PackParts
<1>3. Bytes(f, 0, 4) = Magic /\ HeaderSays(h, p) /\ IndexTaken(f, h, p)
  BY HeaderSaid, IndexDecoded
<1>4. SectionsValid(f, SectionAt(p, 1))
  BY SectionsPass
<1>5. \A i \in 1..n : TileOffset(p, i + 1) = TileOffset(p, i) + AlignUp(Len(p.tiles[i].bytes))
  BY TileOffsets DEF TilesStart
<1>6. IsMetadata(p)
  BY DEF IsPack
<1>7. InOrder(p.tiles, n) /\ \A j \in 1..n : p.tiles[j].z \in Zooms
  BY TilesInOrder
<1>8. Directed(Directory(p), p)
  BY DirectoryWritten
<1>9. /\ BlobStart(n) \in Nat /\ SectionAt(p, 1) % 4 = 0
      /\ \A i \in 1..(n + 1) : BlobStart(n) <= TileOffset(p, i)
  <2>1. 1 \in 1..(Len(p.sections) + 1)
    BY PackParts
  <2>. QED
    BY <2>1, PartsInRank, SectionsAligned DEF InRank
<1>10. Accepts(f) <=>
         /\ Len(f) >= HeaderSize /\ HeaderValid(f, h)
         /\ EntriesValid(h, entries) /\ DirectoryValid(h, entries)
         /\ SectionsValid(f, h.extensions_offset)
  <2>1. ValidatorLayout = ReaderLayout
    BY DEF ValidatorLayout, ReaderLayout
  <2>. QED
    BY <2>1 DEF Accepts
<1>11. Known(p) <=> /\ p.pixel = 1 /\ p.addressing = 1 /\ BboxValid(p.bbox)
                    /\ \A i \in 1..n : p.tiles[i].compression = 0
  BY <1>2 DEF Known
<1>. HIDE DEF n, h, entries
<1>12. /\ h.tile_count = n /\ h.index_offset = HeaderSize /\ h.extensions_offset = SectionAt(p, 1)
       /\ h.zooms = Directory(p) /\ entries = [i \in 1..n |-> entries[i]]
       /\ \A i \in 1..n : EntryOf(entries[i], p.tiles[i], TileOffset(p, i))
  BY <1>3 DEF IndexTaken, n, entries
<1>13. Len(f) >= HeaderSize
  <2>1. EntrySize * n \in Nat /\ HeaderSize \in Nat
    BY <1>2 DEF HeaderSize, EntrySize
  <2>. QED
    BY <1>1, <2>1
<1>14. HeaderValid(f, h) <=> p.pixel = 1 /\ p.addressing = 1 /\ BboxValid(p.bbox)
  <2>1. /\ ~IsZero(p.uuid) /\ p.projection \in {1, 3} /\ p.axis \in {1, 2}
        /\ p.zooms[1] <= p.zooms[2] /\ IsDim(p.dim)
    BY <1>6 DEF IsMetadata
  <2>2. p.dim > 0
    BY <2>1 DEF IsDim
  <2>3. IsZero(Zeros(16))
    BY DEF IsZero, Zeros
  <2>4. SectionAt(p, 1) >= BlobStart(n)
    <3>1. n + 1 \in 1..(n + 1)
      BY <1>2
    <3>2. BlobStart(n) <= TileOffset(p, n + 1) /\ TileOffset(p, n + 1) <= SectionAt(p, 1)
      BY <1>1, <1>9, <3>1
    <3>. QED
      BY <1>1, <1>9, <3>1, <3>2
  <2>5. /\ h.major = 1 /\ h.pack_uuid = p.uuid /\ h.parent = Zeros(16)
        /\ h.pixel_format = p.pixel /\ h.projection = p.projection
        /\ h.addressing = p.addressing /\ h.axis = p.axis /\ h.tile_dim_px = p.dim
        /\ h.zoom_min = p.zooms[1] /\ h.zoom_max = p.zooms[2] /\ h.bbox = p.bbox
    BY <1>3 DEF HeaderSays
  <2>6. /\ h.index_offset = HeaderSize /\ h.extensions_offset >= BlobStart(h.tile_count)
        /\ h.extensions_offset % 4 = 0 /\ h.extensions_offset <= CrcOffset(f)
    BY <1>1, <1>9, <1>12, <2>4 DEF CrcOffset
  <2>. QED
    BY <1>3, <2>1, <2>2, <2>3, <2>5, <2>6 DEF HeaderValid
<1>15. EntriesValid(h, entries) <=> \A i \in 1..n : p.tiles[i].compression = 0
  <2>1. DOMAIN entries = 1..n
    BY <1>12
  <2>2. ASSUME NEW i \in 1..n
        PROVE  /\ i > 1 => KeyBefore(entries[i - 1].key, entries[i].key)
               /\ entries[i].reserved = 0 /\ entries[i].key.z \in Zooms
               /\ entries[i].offset >= BlobStart(h.tile_count)
               /\ entries[i].offset + entries[i].length <= h.extensions_offset
               /\ entries[i].compression = p.tiles[i].compression
    <3>. DEFINE e == entries[i]  t == p.tiles[i]  l == Len(t.bytes)
    <3>1. /\ e.key.z = t.z /\ e.key.x = t.x /\ e.key.y = t.y
          /\ e.compression = t.compression /\ e.reserved = 0
          /\ e.offset = TileOffset(p, i) /\ e.length = l
      BY <1>12 DEF EntryOf
    <3>2. l \in Nat
      BY <1>2
    <3>3. i \in 1..(n + 1) /\ i + 1 \in 1..(n + 1)
      BY <1>2
    <3>4. TileOffset(p, i + 1) = TileOffset(p, i) + AlignUp(l)
      BY <1>5
    <3>5. ASSUME i > 1 PROVE KeyBefore(entries[i - 1].key, e.key)
      <4>1. i - 1 \in 1..n /\ i - 1 < i
        BY <1>2, <3>5
      <4>2. KeyBefore(p.tiles[i - 1], t)
        BY <1>7, <4>1 DEF InOrder
      <4>3. /\ entries[i - 1].key.z = p.tiles[i - 1].z /\ entries[i - 1].key.x = p.tiles[i - 1].x
            /\ entries[i - 1].key.y = p.tiles[i - 1].y
        BY <1>12, <4>1 DEF EntryOf
      <4>. QED
        BY <3>1, <4>2, <4>3 DEF KeyBefore
    <3>6. e.key.z \in Zooms
      BY <1>7, <3>1
    <3>. HIDE DEF e, t, l
    <3>7. AlignUp(l) \in Nat /\ l <= AlignUp(l)
      BY <3>2, AlignUps
    <3>8. e.offset + e.length <= h.extensions_offset /\ e.offset >= BlobStart(h.tile_count)
      BY <1>1, <1>9, <1>12, <3>1, <3>2, <3>3, <3>4, <3>7
    <3>. QED
      BY <3>1, <3>5, <3>6, <3>8 DEF e, t
  <2>. QED
    BY <2>1, <2>2 DEF EntriesValid
<1>16. DirectoryValid(h, entries)
  <2>1. ASSUME NEW z \in Zooms
        PROVE  LET here == {i \in DOMAIN entries : entries[i].key.z = z}
               IN /\ h.zooms[z].count = Cardinality(here)
                  /\ h.zooms[z].offset =
                       IF here = {} THEN 0
                       ELSE h.index_offset + EntrySize * ((CHOOSE i \in here : \A j \in here : i <= j) - 1)
    <3>. DEFINE here == {i \in DOMAIN entries : entries[i].key.z = z}  d == Directory(p)
    <3>1. here = OfZoom(p.tiles, n, z)
      BY <1>12 DEF OfZoom, EntryOf
    <3>2. here \subseteq 1..n
      BY <1>12
    <3>3. /\ d[z].count = Cardinality(here)
          /\ here = {} => d[z].offset = 0
          /\ here # {} => \E first \in here : /\ \A i \in here : first <= i
                                              /\ d[z].offset = HeaderSize + EntrySize * (first - 1)
      BY <1>8, <3>1 DEF Directed, n
    <3>0. h.zooms = d /\ h.index_offset = HeaderSize
      BY <1>12
    <3>. HIDE DEF here, d
    <3>4. ASSUME here # {}
          PROVE  d[z].offset = HeaderSize + EntrySize * ((CHOOSE i \in here : \A j \in here : i <= j) - 1)
      <4>1. PICK first \in here : /\ \A i \in here : first <= i
                                  /\ d[z].offset = HeaderSize + EntrySize * (first - 1)
        BY <3>3, <3>4
      <4>. DEFINE c == CHOOSE i \in here : \A j \in here : i <= j
      <4>2. c \in here /\ \A j \in here : c <= j
        BY <4>1
      <4>. HIDE DEF c
      <4>3. c = first
        BY <1>2, <3>2, <4>1, <4>2
      <4>. QED
        BY <4>1, <4>3 DEF c
    <3>5. h.zooms[z].count = Cardinality(here)
      BY <3>0, <3>3
    <3>6. h.zooms[z].offset =
            IF here = {} THEN 0
            ELSE h.index_offset + EntrySize * ((CHOOSE i \in here : \A j \in here : i <= j) - 1)
      BY <3>0, <3>3, <3>4
    <3>. QED
      BY <3>5, <3>6 DEF here
  <2>. QED
    BY <2>1, Zenon DEF DirectoryValid
<1>. QED
  BY <1>4, <1>10, <1>11, <1>12, <1>13, <1>14, <1>15, <1>16

----------------------------------------------------------------------------
(* Bytes altered by another writer: what the state remembers of the pack.  *)

(* Outside the altered offsets the file is what was written.               *)
FileInv ==
  /\ pack \in Packs /\ file \in Seq(Octet) /\ Len(file) = Len(Written(pack))
  /\ \A k \in 1..Len(file) : k - 1 \notin altered => file[k] = Written(pack)[k]

(* Every step keeps the file so. *)
LEMMA FileInvHolds == Spec => []FileInv
<1>1. Init => FileInv
  <2>. SUFFICES ASSUME Init PROVE FileInv
    OBVIOUS
  <2>1. pack \in Packs /\ file = Written(pack)
    BY DEF Init
  <2>2. IsLaidOut(Written(pack), pack)
    <3>1. IsPack(pack)
      BY <2>1, PacksAssumption
    <3>. QED
      BY <3>1, Layout
  <2>3. Written(pack) \in Seq(Octet)
    BY <2>2 DEF IsLaidOut
  <2>. QED
    BY <2>1, <2>3 DEF FileInv
<1>2. FileInv /\ [Next]_vars => FileInv'
  <2>. SUFFICES ASSUME FileInv, [Next]_vars PROVE FileInv'
    OBVIOUS
  <2>1. CASE Alter
    <3>1. PICK at \in 0..(Len(file) - 1), v \in Values :
            file' = [file EXCEPT ![at + 1] = v] /\ altered' = altered \cup {at}
      BY <2>1 DEF Alter
    <3>2. pack' = pack /\ Written(pack)' = Written(pack)
      BY <2>1 DEF Alter
    <3>. DEFINE W == Written(pack)
    <3>3. /\ pack \in Packs /\ file \in Seq(Octet) /\ Len(file) = Len(W) /\ Len(file) \in Nat
          /\ \A k \in 1..Len(file) : k - 1 \notin altered => file[k] = W[k]
      BY DEF FileInv
    <3>4. v \in Octet
      BY <3>1, ValuesAssumption
    <3>. HIDE DEF W
    <3>5. file' \in Seq(Octet) /\ Len(file') = Len(file)
      BY <3>1, <3>3, <3>4
    <3>6. ASSUME NEW k \in 1..Len(file'), k - 1 \notin altered' PROVE file'[k] = W[k]
      <4>1. k \in 1..Len(file) /\ k - 1 \notin altered /\ k # at + 1
        BY <3>1, <3>5, <3>6
      <4>. QED
        BY <3>1, <3>3, <4>1
    <3>. QED
      BY <3>2, <3>3, <3>5, <3>6 DEF FileInv, W
  <2>2. CASE Damage
    <3>1. UNCHANGED <<pack, file, altered>>
      BY <2>2 DEF Damage
    <3>2. Written(pack)' = Written(pack)
      BY <3>1
    <3>. QED
      BY <3>1, <3>2 DEF FileInv
  <2>3. CASE UNCHANGED vars
    <3>1. UNCHANGED <<pack, file, altered>>
      BY <2>3 DEF vars
    <3>2. Written(pack)' = Written(pack)
      BY <3>1
    <3>. QED
      BY <3>1, <3>2 DEF FileInv
  <2>. QED
    BY <2>1, <2>2, <2>3 DEF Next
<1>. QED
  BY <1>1, <1>2, PTL DEF Spec

(* A file altered only where it may be agrees with its pack. *)
LEMMA AlteredKeeps ==
  FileInv /\ altered \subseteq OpenToChange(pack) => IsPack(pack) /\ Agrees(file, pack) /\ Keeps(file, pack)
<1>. SUFFICES ASSUME FileInv, altered \subseteq OpenToChange(pack)
              PROVE  IsPack(pack) /\ Agrees(file, pack) /\ Keeps(file, pack)
  OBVIOUS
<1>1. IsPack(pack)
  BY PacksAssumption DEF FileInv
<1>2. Agrees(file, pack)
  BY DEF FileInv, Agrees
<1>. QED
  BY <1>1, <1>2, AgreeingKeeps

(* Whatever bytes another writer puts where, a file the validator accepts   *)
(* is opened by the reader, and each of its tiles found.                   *)
THEOREM ValidatorVouchesHolds == Spec => []ValidatorVouches
<1>1. FileInv => ValidatorVouches
  <2>1. FileInv => file \in Seq(Octet)
    BY DEF FileInv
  <2>. QED
    BY <2>1, AcceptedIsRead DEF ValidatorVouches
<1>. QED
  BY <1>1, FileInvHolds, PTL

(* What the writer writes of any pack, both programs read as it was given,  *)
(* and the validator accepts it exactly if it knows what the pack uses.    *)
THEOREM WrittenPacksAgreeHolds == Spec => []WrittenPacksAgree
<1>1. FileInv => WrittenPacksAgree
  <2>. SUFFICES ASSUME FileInv, altered = {}
                PROVE  /\ Opens(file)
                       /\ Decode(file, ReaderLayout) = Header(pack)
                       /\ Decode(file, ValidatorLayout) = Header(pack)
                       /\ \A i \in DOMAIN pack.tiles :
                            /\ Found(file, pack.tiles[i]) = i
                            /\ FoundBytes(file, i) = pack.tiles[i].bytes
                       /\ Accepts(file) <=> Known(pack)
    BY DEF WrittenPacksAgree
  <2>1. IsPack(pack) /\ Keeps(file, pack)
    BY AlteredKeeps
  <2>2. Opens(file) /\ (Accepts(file) <=> Known(pack))
    BY <2>1, KeptIsOpened, KeptIsAccepted
  <2>3. \A i \in DOMAIN pack.tiles :
          Found(file, pack.tiles[i]) = i /\ FoundBytes(file, i) = pack.tiles[i].bytes
    BY <2>1, TilesFound
  <2>. DEFINE W == Written(pack)  h == Decode(file, ReaderLayout)
  <2>4. file[6] = 0
    <3>1. HasFields(W, Header(pack)) /\ W \in Seq(Octet)
      BY <2>1, Layout DEF IsLaidOut
    <3>2. 4 \in Starts /\ FieldLen(4) = 2 /\ FieldBytes(Header(pack), 4) = <<1, 0>>
      BY DEF Starts, FieldLen, FieldBytes, Header
    <3>3. W[4 + 2] = 0
      <4>1. 2 \in 1..FieldLen(4)
        BY <3>2
      <4>2. W[4 + 2] = FieldBytes(Header(pack), 4)[2]
        BY <3>1, <3>2, <4>1 DEF HasFields
      <4>. QED
        BY <3>2, <4>2
    <3>4. 4 + 2 = 6 /\ 6 \in 1..Len(file)
      <4>1. HeaderSize + EntrySize * Len(pack.tiles) <= Len(file) /\ Len(file) \in Nat
        <5>1. /\ Len(file) \in Nat /\ SectionAt(pack, 1) \in Nat /\ Len(pack.tiles) \in Nat
              /\ HeaderSize + EntrySize * Len(pack.tiles) <= SectionAt(pack, 1)
              /\ SectionAt(pack, 1) <= Len(file)
          BY <2>1, KeptLength, PackParts
        <5>. QED
          BY <5>1 DEF HeaderSize, EntrySize
      <4>2. Len(pack.tiles) \in Nat
        BY <2>1, PackParts
      <4>. QED
        BY <4>1, <4>2 DEF HeaderSize, EntrySize
    <3>5. file[6] = W[6]
      BY <3>4 DEF FileInv
    <3>. QED
      BY <3>3, <3>4, <3>5
  <2>5. h = Header(pack)
    <3>1. HeaderTaken(h, Header(pack), 0)
      BY <2>1, <2>4, HeaderDecoded
    <3>. HIDE DEF h
    <3>. QED
      BY <3>1 DEF HeaderTaken, Header
  <2>6. ValidatorLayout = ReaderLayout
    BY DEF ValidatorLayout, ReaderLayout
  <2>. QED
    BY <2>2, <2>3, <2>5, <2>6
<1>. QED
  BY <1>1, FileInvHolds, PTL

(* A pack of a newer minor version opens, and each of its tiles is found    *)
(* with its bytes, whatever stands where such a version may change it.     *)
THEOREM NewerMinorsOpenHolds == Spec => []NewerMinorsOpen
<1>1. FileInv => NewerMinorsOpen
  <2>1. ASSUME FileInv, altered \subseteq OpenToChange(pack)
        PROVE  /\ Opens(file)
               /\ \A i \in DOMAIN pack.tiles :
                    Found(file, pack.tiles[i]) = i /\ FoundBytes(file, i) = pack.tiles[i].bytes
    BY <2>1, AlteredKeeps, KeptIsOpened, TilesFound
  <2>. QED
    BY <2>1 DEF NewerMinorsOpen
<1>. QED
  BY <1>1, FileInvHolds, PTL
=============================================================================
