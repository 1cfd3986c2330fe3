--------------------------- MODULE WebBuildProofs ---------------------------
(***************************************************************************)
(* Proofs about WebBuild, for every set of requests, list of block sizes,  *)
(* budget, number of builds and Modulus.                                   *)
(*                                                                         *)
(* PageInv is what every step keeps about the page and the activations of  *)
(* the build handler; HandlerMoves says once what a step of the handler    *)
(* may be (it goes on, it leaves through `finally`, or it faults), and the *)
(* rest is proved from that.  BuildsStand adds where a build stands in its *)
(* region: the block it is at, the part of the column it holds, the tiles  *)
(* the builder has been fed and the counts so far.  Its lemmas are about   *)
(* one activation, as pure facts on a record.                              *)
(***************************************************************************)
EXTENDS WebBuild, FiniteSums, SequenceTheorems

----------------------------------------------------------------------------
(* Arithmetic. *)

(* Quotient and remainder. *)
LEMMA DivMod ==
  ASSUME NEW n \in Nat \ {0}, NEW k \in Nat
  PROVE  k \div n \in Nat /\ k % n \in 0..(n - 1) /\ k = n * (k \div n) + (k % n)
<1>1. k = n * (k \div n) + (k % n)
  OBVIOUS
<1>2. k % n \in 0..(n - 1)
  OBVIOUS
<1>3. k \div n \in Nat
  OBVIOUS
<1>. QED BY <1>1, <1>2, <1>3

(* The quotient of a number below w * n is below w. *)
LEMMA DivBound ==
  ASSUME NEW n \in Nat \ {0}, NEW w \in Nat, NEW k \in 0..(w * n - 1)
  PROVE  k \div n \in 0..(w - 1)
<1>1. k \in Nat /\ k < w * n
  OBVIOUS
<1>2. k \div n \in Nat /\ k % n \in 0..(n - 1) /\ k = n * (k \div n) + (k % n)
  BY <1>1, DivMod
<1>3. ASSUME k \div n >= w PROVE FALSE
  <2>1. n * (k \div n) >= n * w
    BY <1>2, <1>3
  <2>. QED BY <1>1, <1>2, <2>1
<1>. QED BY <1>2, <1>3

(* Division undoes multiplication. *)
LEMMA DivIs ==
  ASSUME NEW n \in Nat \ {0}, NEW q \in Nat, NEW r \in 0..(n - 1)
  PROVE  (q * n + r) \div n = q /\ (q * n + r) % n = r
OBVIOUS

(* Math.ceil(m / n), from the last multiple of n below m. *)
LEMMA Ceil ==
  ASSUME NEW n \in Nat \ {0}, NEW p \in Nat, NEW m \in Int, p * n < m, m <= p * n + n
  PROVE  CeilDiv(m, n) = p + 1
<1>1. m + n - 1 = (p + 1) * n + (m - p * n - 1)
  OBVIOUS
<1>2. m - p * n - 1 \in 0..(n - 1)
  OBVIOUS
<1>. QED
  BY <1>1, <1>2, DivIs DEF CeilDiv

----------------------------------------------------------------------------
(* The plan. *)

(* A set of block sizes has a largest. *)
LEMMA LargestSize ==
  ASSUME NEW S \in SUBSET Range(BlockSizes), S # {}
  PROVE  Max(S) \in S
<1>. DEFINE T == {i \in DOMAIN BlockSizes : BlockSizes[i] \in S}
<1>1. T \in SUBSET Nat /\ T # {}
  BY BlockSizesAssumption DEF Range
<1>2. PICK i \in T : \A j \in T : i <= j
  BY <1>1, NatMin
<1>3. \A y \in S : BlockSizes[i] >= y
  <2> SUFFICES ASSUME NEW y \in S PROVE BlockSizes[i] >= y
    OBVIOUS
  <2>1. PICK j \in T : y = BlockSizes[j]
    BY DEF Range
  <2>2. i <= j /\ i \in DOMAIN BlockSizes /\ j \in DOMAIN BlockSizes
    BY <1>2, <2>1
  <2>3. BlockSizes[i] \in Nat /\ BlockSizes[j] \in Nat /\ DOMAIN BlockSizes \subseteq Nat
    BY <2>2, BlockSizesAssumption
  <2>. QED
    BY <2>1, <2>2, <2>3, BlockSizesAssumption
<1>4. \E x \in S : \A y \in S : x >= y
  BY <1>2, <1>3
<1>. QED
  BY <1>4 DEF Max

(* The block a build uses is one of the block sizes. *)
LEMMA BlockIsASize ==
  ASSUME NEW r, NEW f
  PROVE  ChosenBlock(r, f) \in Range(BlockSizes) /\ ChosenBlock(r, f) \in Nat \ {0}
<1>1. Range(BlockSizes) \subseteq Nat \ {0} /\ BlockSizes[Len(BlockSizes)] \in Range(BlockSizes)
  BY BlockSizesAssumption DEF Range
<1>. DEFINE fitting == {n \in Range(BlockSizes) : Fits(r, f, n)}
<1>2. fitting # {} => Max(fitting) \in Range(BlockSizes)
  <2>. HIDE DEF Max
  <2>1. fitting \in SUBSET Range(BlockSizes)
    OBVIOUS
  <2>2. fitting # {} => Max(fitting) \in fitting
    BY <2>1, LargestSize
  <2>. QED
    BY <2>1, <2>2
<1>. QED
  BY <1>1, <1>2 DEF ChosenBlock

(* What the plan of an uncompressed pack depends on. *)
LEMMA UncompressedBlock ==
  ASSUME NEW r, ~r.packed, NEW f, NEW g
  PROVE  ChosenBlock(r, f) = ChosenBlock(r, g)
<1>1. PackBytes(r, f) = PackBytes(r, g)
  BY DEF PackBytes
<1>2. \A n : Fits(r, f, n) = Fits(r, g, n)
  BY <1>1 DEF Fits
<1>. QED
  BY <1>2 DEF ChosenBlock

----------------------------------------------------------------------------
(* Keys and their order. *)

Key == [z : Int, x : Int, y : Int]
Sorted(keys) == \A i, j \in DOMAIN keys : i < j => Precedes(keys[i], keys[j])

(* The order of the index is a strict order. *)
LEMMA PrecedesIsStrict ==
  /\ \A k \in Key : ~Precedes(k, k)
  /\ \A k, l, m \in Key : Precedes(k, l) /\ Precedes(l, m) => Precedes(k, m)
BY DEF Key, Precedes

(* What the builder checks, each key against the one before it, orders all  *)
(* the keys it has been fed.                                                *)
LEMMA OrderIsGlobal ==
  ASSUME NEW keys \in Seq(Key), InOrder(keys)
  PROVE  Sorted(keys)
<1>. DEFINE Good == {d \in Nat : \A i \in DOMAIN keys : i + d + 1 \in DOMAIN keys
                                   => Precedes(keys[i], keys[i + d + 1])}
<1>0. /\ Len(keys) \in Nat /\ DOMAIN keys = 1..Len(keys)
      /\ \A i \in 1..Len(keys) : keys[i] \in Key
  OBVIOUS
<1>1. 0 \in Good
  BY <1>0 DEF InOrder
<1>2. ASSUME NEW d \in Nat, d \in Good PROVE d + 1 \in Good
  <2> SUFFICES ASSUME NEW i \in DOMAIN keys, i + (d + 1) + 1 \in DOMAIN keys
               PROVE  Precedes(keys[i], keys[i + (d + 1) + 1])
    OBVIOUS
  <2>1. i + d + 1 \in 1..(Len(keys) - 1) /\ (i + d + 1) + 1 = i + (d + 1) + 1
    BY <1>0
  <2>2. Precedes(keys[i], keys[i + d + 1])
    BY <1>0, <1>2, <2>1
  <2>3. Precedes(keys[i + d + 1], keys[i + (d + 1) + 1])
    BY <2>1 DEF InOrder
  <2>. QED
    BY <1>0, <2>1, <2>2, <2>3, PrecedesIsStrict
<1>3. Nat \subseteq Good
  <2>. HIDE DEF Good
  <2>. QED
    BY <1>1, <1>2, SetInduction
<1> SUFFICES ASSUME NEW i \in DOMAIN keys, NEW j \in DOMAIN keys, i < j
             PROVE  Precedes(keys[i], keys[j])
  BY DEF Sorted
<1>4. j - i - 1 \in Good /\ i + (j - i - 1) + 1 = j
  BY <1>0, <1>3
<1>. QED
  BY <1>4

(* A number is its remainder under Modulus exactly when it lies below it;   *)
(* just below a multiple it is greater than just above.                     *)
LEMMA Wraps ==
  /\ \A m \in Int : m % Modulus \in 0..(Modulus - 1)
  /\ \A m \in 0..(Modulus - 1) : m % Modulus = m
  /\ (-1) % Modulus = Modulus - 1 /\ 0 % Modulus = 0
  /\ (Modulus - 1) % Modulus = Modulus - 1 /\ Modulus % Modulus = 0
<1>1. \A m \in Int : m % Modulus \in 0..(Modulus - 1)
  BY ModulusAssumption
<1>2. \A m \in 0..(Modulus - 1) : m % Modulus = m
  BY ModulusAssumption
<1>3. (-1) % Modulus = Modulus - 1
  BY ModulusAssumption
<1>4. Modulus % Modulus = 0
  BY ModulusAssumption
<1>5. 0 \in 0..(Modulus - 1) /\ Modulus - 1 \in 0..(Modulus - 1)
  BY ModulusAssumption
<1>6. 0 % Modulus = 0 /\ (Modulus - 1) % Modulus = Modulus - 1
  BY <1>2, <1>5
<1>. QED
  BY <1>1, <1>2, <1>3, <1>4, <1>6

(* As u32, a key keeps its level and has its coordinates reduced. *)
LEMMA U32Type == \A k \in Key : AsU32(k) \in Key /\ AsU32(k).z = k.z
                   /\ AsU32(k).x = k.x % Modulus /\ AsU32(k).y = k.y % Modulus
<1> SUFFICES ASSUME NEW k \in Key
             PROVE  /\ AsU32(k) \in Key /\ AsU32(k).z = k.z
                    /\ AsU32(k).x = k.x % Modulus /\ AsU32(k).y = k.y % Modulus
  OBVIOUS
<1>1. k.x % Modulus \in Int /\ k.y % Modulus \in Int
  BY Wraps DEF Key
<1>. QED
  BY <1>1 DEF Key, AsU32

(* The keys of w columns of n rows, as a set and column by column. *)
Rect(z, a, w, b, n) ==
  {[z |-> z, x |-> x, y |-> y] : x \in a..(a + w - 1), y \in b..(b + n - 1)}
Raster(z, a, w, b, n) ==
  [i \in 1..(w * n) |-> [z |-> z, x |-> a + ((i - 1) \div n), y |-> b + ((i - 1) % n)]]

(* They are these keys, each once, in the order of the index. *)
Traces(keys, z, a, w, b, n) ==
  /\ keys \in Seq(Key) /\ Len(keys) = w * n
  /\ Sorted(keys) /\ Range(keys) = Rect(z, a, w, b, n)

(* The sequence traces the set. *)
LEMMA RasterTraces ==
  ASSUME NEW z \in Int, NEW a \in Int, NEW w \in Nat, NEW b \in Int, NEW n \in Nat \ {0}
  PROVE  Traces(Raster(z, a, w, b, n), z, a, w, b, n)
<1>. DEFINE K == Raster(z, a, w, b, n)
            At(i) == [z |-> z, x |-> a + ((i - 1) \div n), y |-> b + ((i - 1) % n)]
            S == Rect(z, a, w, b, n)
<1>1. w * n \in Nat /\ DOMAIN K = 1..(w * n) /\ \A i \in 1..(w * n) : K[i] = At(i)
  BY DEF Raster
<1>2. \A i \in 1..(w * n) : /\ (i - 1) \div n \in 0..(w - 1) /\ (i - 1) % n \in 0..(n - 1)
                            /\ i - 1 = n * ((i - 1) \div n) + ((i - 1) % n)
  <2> SUFFICES ASSUME NEW i \in 1..(w * n)
               PROVE  /\ (i - 1) \div n \in 0..(w - 1) /\ (i - 1) % n \in 0..(n - 1)
                      /\ i - 1 = n * ((i - 1) \div n) + ((i - 1) % n)
    OBVIOUS
  <2>1. i - 1 \in 0..(w * n - 1) /\ i - 1 \in Nat
    BY <1>1
  <2>. QED
    BY <2>1, DivBound, DivMod
<1>3. \A i \in 1..(w * n) : At(i) \in Key /\ At(i) \in S
  BY <1>2 DEF Key, Rect
<1>4. K \in Seq(Key) /\ Len(K) = w * n
  BY <1>1, <1>3 DEF Raster
<1>5. Sorted(K)
  <2> SUFFICES ASSUME NEW i \in 1..(w * n), NEW j \in 1..(w * n), i < j
               PROVE  Precedes(At(i), At(j))
    BY <1>1 DEF Sorted
  <2>. DEFINE p == (i - 1) \div n
             q == (j - 1) \div n
             s == (i - 1) % n
             t == (j - 1) % n
  <2>1. /\ p \in Nat /\ q \in Nat /\ s \in 0..(n - 1) /\ t \in 0..(n - 1)
        /\ n * p + s < n * q + t
    BY <1>2
  <2>2. p < q \/ (p = q /\ s < t)
    <3>. HIDE DEF p, q, s, t
    <3>1. ASSUME p > q PROVE FALSE
      <4>1. n * p >= n * (q + 1)
        BY <2>1, <3>1
      <4>2. n * (q + 1) = n * q + n
        BY <2>1
      <4>. QED
        BY <2>1, <4>1, <4>2
    <3>2. ASSUME p = q PROVE s < t
      <4>1. n * p \in Int /\ n * q = n * p
        BY <2>1, <3>2
      <4>. QED
        BY <2>1, <4>1
    <3>3. p \in Nat /\ q \in Nat
      BY <2>1
    <3>. QED
      BY <3>1, <3>2, <3>3
  <2>. QED
    BY <2>1, <2>2 DEF Precedes
<1>6. ASSUME NEW k \in S PROVE \E i \in 1..(w * n) : K[i] = k
  <2>1. PICK x \in a..(a + w - 1), y \in b..(b + n - 1) : k = [z |-> z, x |-> x, y |-> y]
    BY DEF Rect
  <2>. DEFINE q == x - a
             t == y - b
             i == q * n + t + 1
  <2>2. q \in 0..(w - 1) /\ t \in 0..(n - 1)
    BY <2>1
  <2>3. i - 1 = q * n + t /\ (i - 1) \div n = q /\ (i - 1) % n = t
    <3>. HIDE DEF q, t
    <3>1. q * n + t \in Int /\ i - 1 = q * n + t
      BY <2>2
    <3>2. q \in Nat /\ t \in 0..(n - 1)
      BY <2>2
    <3>3. (q * n + t) \div n = q /\ (q * n + t) % n = t
      BY <3>2, DivIs
    <3>. QED
      BY <3>1, <3>3
  <2>4. i \in 1..(w * n)
    <3>. HIDE DEF q, t
    <3>1. q * n \in Nat /\ q * n <= (w - 1) * n /\ (w - 1) * n = w * n - n
      BY <2>2
    <3>. QED
      BY <2>2, <3>1
  <2>5. a + q = x /\ b + t = y
    BY <2>1
  <2>. HIDE DEF q, t, i
  <2>6. At(i) = k
    BY <2>1, <2>3, <2>5
  <2>. HIDE DEF At, K
  <2>. QED
    BY <1>1, <2>4, <2>6
<1>7. Range(K) = S
  <2>. HIDE DEF S, K, At
  <2>1. Range(K) \subseteq S
    BY <1>1, <1>3 DEF Range
  <2>2. S \subseteq Range(K)
    BY <1>1, <1>6 DEF Range
  <2>. QED
    BY <2>1, <2>2
<1>. QED
  BY <1>4, <1>5, <1>7 DEF Traces

(* Two sorted sequences, all of the one before all of the other. *)
LEMMA SortedConcat ==
  ASSUME NEW s \in Seq(Key), NEW t \in Seq(Key), Sorted(s), Sorted(t),
         \A k \in Range(s), l \in Range(t) : Precedes(k, l)
  PROVE  Sorted(s \o t)
<1> SUFFICES ASSUME NEW i \in DOMAIN (s \o t), NEW j \in DOMAIN (s \o t), i < j
             PROVE  Precedes((s \o t)[i], (s \o t)[j])
  BY DEF Sorted
<1>1. DOMAIN s = 1..Len(s) /\ DOMAIN t = 1..Len(t) /\ Len(s) \in Nat /\ Len(t) \in Nat
  OBVIOUS
<1>2. i \in 1..(Len(s) + Len(t)) /\ j \in 1..(Len(s) + Len(t))
  OBVIOUS
<1>3. CASE j <= Len(s)
  BY <1>1, <1>2, <1>3 DEF Sorted
<1>4. CASE i > Len(s)
  <2>1. i - Len(s) \in DOMAIN t /\ j - Len(s) \in DOMAIN t /\ i - Len(s) < j - Len(s)
    BY <1>1, <1>2, <1>4
  <2>2. (s \o t)[i] = t[i - Len(s)] /\ (s \o t)[j] = t[j - Len(s)]
    BY <1>1, <1>2, <1>4
  <2>. QED
    BY <2>1, <2>2 DEF Sorted
<1>5. CASE i <= Len(s) /\ j > Len(s)
  <2>1. i \in DOMAIN s /\ j - Len(s) \in DOMAIN t
    BY <1>1, <1>2, <1>5
  <2>2. (s \o t)[i] = s[i] /\ (s \o t)[j] = t[j - Len(s)]
    BY <1>1, <1>2, <1>5
  <2>. QED
    BY <2>1, <2>2 DEF Range
<1>. QED
  BY <1>1, <1>2, <1>3, <1>4, <1>5

(* The keys of two sequences, one after the other. *)
LEMMA RangeConcat ==
  ASSUME NEW s \in Seq(Key), NEW t \in Seq(Key)
  PROVE  Range(s \o t) = Range(s) \cup Range(t)
<1>1. ASSUME NEW i \in 1..Len(t) PROVE t[i] \in Range(s \o t)
  <2>1. i + Len(s) \in DOMAIN (s \o t) /\ (s \o t)[i + Len(s)] = t[i]
    OBVIOUS
  <2>. QED
    BY <2>1 DEF Range
<1>2. ASSUME NEW i \in 1..Len(s) PROVE s[i] \in Range(s \o t)
  BY DEF Range
<1>3. ASSUME NEW i \in DOMAIN (s \o t) PROVE (s \o t)[i] \in Range(s) \cup Range(t)
  BY DEF Range
<1>4. Range(s \o t) \subseteq Range(s) \cup Range(t)
  BY <1>3 DEF Range
<1>5. /\ \A k \in Range(s) : k \in Range(s \o t)
      /\ \A k \in Range(t) : k \in Range(s \o t)
  <2>1. \A k \in Range(s) : \E i \in 1..Len(s) : s[i] = k
    BY DEF Range
  <2>2. \A k \in Range(t) : \E i \in 1..Len(t) : t[i] = k
    BY DEF Range
  <2>. QED
    BY <1>1, <1>2, <2>1, <2>2
<1>. QED
  BY <1>4, <1>5

----------------------------------------------------------------------------
(* The page. *)

(* An activation of the build handler has these fields. *)
Fields == {"pc", "plan", "signal", "level", "bx", "by", "column", "fed", "renders", "outcome"}
IsActivation(c) == DOMAIN c = Fields

Activations == DOMAIN build = Builds /\ \A b \in Builds : IsActivation(build[b])

(* What the page plans is its reading of the fields, at some fraction; and *)
(* the button is enabled for an area only.                                 *)
Planned ==
  /\ fields \in Requests
  /\ \E f : plan = PlanFor(fields, f)
  /\ buildEnabled => fields.kind = "area"

(* Only an activation that has reached the renderer has a signal. *)
Signals ==
  /\ Nobody \notin aborted
  /\ \A b \in Builds : build[b].pc \in {"Unused", "Starting"} => build[b].signal = Nobody

(* A fault is for good, and without one it takes an activation in progress *)
(* for the page not to be in hand.                                         *)
Released ==
  /\ \A b \in Builds : build[b].outcome = "Faulted" => build[b].pc = "Ended"
  /\ \/ \E b \in Builds : build[b].outcome = "Faulted"
     \/ \E b \in Builds : Active(b)
     \/ PageIsReleased

PageInv == Activations /\ Planned /\ Signals /\ Released

(* What one activation does in a step of the handler, the others unchanged. *)
Moves(b, d) ==
  /\ b \in Builds /\ IsActivation(d)
  /\ build' = [build EXCEPT ![b] = d]

(* A step of the handler moves one activation to d. *)
LEMMA OneMoves ==
  ASSUME Activations, NEW b \in Builds, NEW d, Moves(b, d)
  PROVE  /\ Activations'
         /\ build'[b] = d
         /\ \A a \in Builds \ {b} : build'[a] = build[a]
BY DEF Activations, Moves

(* The `finally` clause, whatever the outcome. *)
LEMMA LeaveMoves ==
  ASSUME Activations, NEW b \in Builds, NEW o, Leave(b, o)
  PROVE  /\ Moves(b, build'[b])
         /\ build'[b].pc = "Ended" /\ build'[b].outcome = o
         /\ build'[b].signal = build[b].signal
<1>. DEFINE d == [build[b] EXCEPT !.pc = "Ended", !.outcome = o]
<1>1. IsActivation(d) /\ d.pc = "Ended" /\ d.outcome = o /\ d.signal = build[b].signal
  BY DEF Activations, IsActivation, Fields
<1>2. build' = [build EXCEPT ![b] = d]
  BY DEF Leave, Activations, IsActivation
<1>. QED
  BY <1>1, <1>2 DEF Moves, Activations

(* After the `finally` clause the page is in hand. *)
LEMMA LeaveReleases ==
  ASSUME NEW b, NEW o, Leave(b, o), UNCHANGED fraction
  PROVE  PageIsReleased'
BY DEF Leave, Refresh, PageIsReleased

(* Where an activation that goes on goes: from the load of the map, to the *)
(* next block of its column, to the next column or level, to the save.     *)
Loaded(c) ==
  [c EXCEPT !.pc = "Rendering", !.signal = abort, !.level = c.plan.request.first,
            !.bx = c.plan.request.extent[c.plan.request.first].x0,
            !.by = c.plan.request.extent[c.plan.request.first].y0]
NextBlock(c) ==
  [c EXCEPT !.column = @ \cup Cut(c), !.renders = @ + 1, !.by = @ + c.plan.block]
NextLevel(c) == IF LastOfLevel(c) THEN c.level + 1 ELSE c.level
NextColumn(c) ==
  [c EXCEPT !.column = {}, !.renders = @ + 1, !.fed = Fed(c), !.level = NextLevel(c),
            !.bx = IF LastOfLevel(c) THEN c.plan.request.extent[NextLevel(c)].x0
                                     ELSE @ + c.plan.block,
            !.by = c.plan.request.extent[NextLevel(c)].y0]
Finished(c) ==
  [c EXCEPT !.pc = "Saving", !.column = {}, !.renders = @ + 1, !.fed = Fed(c)]

GoesOn(c, d) ==
  \/ c.pc = "Starting" /\ d = Loaded(c)
  \/ /\ c.pc = "Rendering" /\ c.signal \notin aborted
     /\ \/ ~LastOfColumn(c) /\ d = NextBlock(c)
        \/ LastOfColumn(c) /\ ~LastOfRegion(c) /\ InOrder(Fed(c)) /\ d = NextColumn(c)
  \/ c.pc = "Rendering" /\ LastOfRegion(c) /\ InOrder(Fed(c)) /\ d = Finished(c)

Handler(b) ==
  \/ StartFails(b) \/ MapLoads(b) \/ Settles(b) \/ Saves(b) \/ SaveFails(b)

(* A step of the handler goes on, leaves through `finally`, or faults. *)
LEMMA HandlerMoves ==
  ASSUME Activations, NEW b \in Builds, Handler(b)
  PROVE  /\ Active(b) /\ aborted' = aborted
         /\ \/ GoesOn(build[b], build'[b]) /\ Moves(b, build'[b]) /\ UNCHANGED page
            \/ /\ \E o \in {"Failed", "Cancelled", "Rejected", "Saved"} : Leave(b, o)
               /\ UNCHANGED fraction
            \/ Fault(b) /\ UNCHANGED fraction
<1>. DEFINE c == build[b]
<1>1. b \in DOMAIN build /\ IsActivation(c)
  BY DEF Activations
<1>2. ASSUME NEW d, build' = [build EXCEPT ![b] = d], IsActivation(d)
      PROVE  build'[b] = d /\ Moves(b, build'[b])
  BY <1>1, <1>2 DEF Moves
<1>3. CASE StartFails(b)
  BY <1>3 DEF StartFails, Active
<1>4. CASE MapLoads(b)
  <2>1. IsActivation(Loaded(c))
    BY <1>1 DEF IsActivation, Loaded
  <2>2. abort # Nobody => GoOn(b, Loaded(c))
    BY <1>4 DEF MapLoads, Loaded
  <2>3. c.pc = "Starting" /\ aborted' = aborted /\ UNCHANGED fraction
    BY <1>4 DEF MapLoads
  <2>4. CASE abort = Nobody
    BY <1>4, <2>3, <2>4 DEF MapLoads, Active
  <2>5. CASE abort # Nobody
    BY <2>1, <2>2, <2>3, <2>5, <1>2 DEF GoOn, GoesOn, Active
  <2>. QED
    BY <2>4, <2>5
<1>5. CASE BlockSettles(b)
  <2>1. IsActivation(NextBlock(c)) /\ NextBlock(c).signal = c.signal
    BY <1>1 DEF IsActivation, NextBlock, Fields
  <2>2. c.pc = "Rendering" /\ ~LastOfColumn(c) /\ GoOn(b, NextBlock(c))
        /\ aborted' = aborted /\ UNCHANGED fraction
    BY <1>5 DEF BlockSettles, NextBlock
  <2>. QED
    BY <2>1, <2>2, <1>2 DEF GoOn, GoesOn, Active
<1>6. CASE ColumnSettles(b)
  <2>1. IsActivation(NextColumn(c)) /\ NextColumn(c).signal = c.signal
    BY <1>1 DEF IsActivation, NextColumn, Fields
  <2>2. /\ c.pc = "Rendering" /\ LastOfColumn(c) /\ ~LastOfRegion(c)
        /\ aborted' = aborted /\ UNCHANGED fraction
    BY <1>6 DEF ColumnSettles
  <2>3. ~InOrder(Fed(c)) => Leave(b, "Rejected")
    BY <1>6 DEF ColumnSettles
  <2>4. InOrder(Fed(c)) => GoOn(b, NextColumn(c))
    BY <1>6 DEF ColumnSettles, NextColumn, NextLevel
  <2>. QED
    BY <2>1, <2>2, <2>3, <2>4, <1>2 DEF GoOn, GoesOn, Active
<1>7. CASE RegionSettles(b)
  <2>1. IsActivation(Finished(c))
    BY <1>1 DEF IsActivation, Finished
  <2>2. c.pc = "Rendering" /\ LastOfRegion(c) /\ aborted' = aborted
    BY <1>7 DEF RegionSettles
  <2>3. ~InOrder(Fed(c)) => Leave(b, "Rejected") /\ UNCHANGED fraction
    BY <1>7 DEF RegionSettles
  <2>4. InOrder(Fed(c)) /\ c.level >= DirectoryLevels => Fault(b) /\ UNCHANGED fraction
    BY <1>7 DEF RegionSettles
  <2>5. InOrder(Fed(c)) /\ ~(c.level >= DirectoryLevels)
          => build' = [build EXCEPT ![b] = Finished(c)] /\ UNCHANGED page
    BY <1>7 DEF RegionSettles, Finished
  <2>. QED
    BY <2>1, <2>2, <2>3, <2>4, <2>5, <1>2 DEF GoesOn, Active
<1>8. CASE IdleTimesOut(b)
  BY <1>8 DEF IdleTimesOut, Active
<1>9. CASE Saves(b) \/ SaveFails(b)
  BY <1>9 DEF Saves, SaveFails, Active
<1>. QED
  BY <1>3, <1>4, <1>5, <1>6, <1>7, <1>8, <1>9 DEF Handler, Settles

(* The fields that a step which goes on leaves alone or sets. *)
LEMMA GoneOn ==
  ASSUME NEW c, IsActivation(c), NEW d, GoesOn(c, d)
  PROVE  /\ c.pc \in {"Starting", "Rendering"} /\ d.pc \in {"Rendering", "Saving"}
         /\ d.outcome = c.outcome /\ d.plan = c.plan
         /\ c.pc = "Rendering" => d.signal = c.signal
         /\ c.pc = "Rendering" /\ d.pc = "Rendering" => c.signal \notin aborted
<1>1. CASE d = Loaded(c) /\ c.pc = "Starting"
  BY <1>1 DEF IsActivation, Fields, Loaded
<1>2. CASE d = NextBlock(c) /\ c.pc = "Rendering" /\ c.signal \notin aborted
  BY <1>2 DEF IsActivation, Fields, NextBlock
<1>3. CASE d = NextColumn(c) /\ c.pc = "Rendering" /\ c.signal \notin aborted
  BY <1>3 DEF IsActivation, Fields, NextColumn
<1>4. CASE d = Finished(c) /\ c.pc = "Rendering"
  BY <1>4 DEF IsActivation, Fields, Finished
<1>. QED
  BY <1>1, <1>2, <1>3, <1>4 DEF GoesOn

(* A click on Build starts one activation, from the plan. *)
LEMMA Begun ==
  ASSUME Activations, NEW b \in Builds, ClickBuild(b)
  PROVE  /\ build[b].pc = "Unused" /\ Moves(b, build'[b])
         /\ build'[b].pc = "Starting" /\ build'[b].plan = plan
         /\ build'[b].signal = build[b].signal /\ build'[b].outcome = build[b].outcome
<1>. DEFINE c == build[b]
           d == [c EXCEPT !.pc = "Starting", !.plan = plan]
<1>1. /\ IsActivation(d) /\ d.pc = "Starting" /\ d.plan = plan
      /\ d.signal = c.signal /\ d.outcome = c.outcome
  BY DEF Activations, IsActivation, Fields
<1>2. build' = [build EXCEPT ![b] = d]
  BY DEF ClickBuild, Begin, Activations, IsActivation
<1>. QED
  BY <1>1, <1>2 DEF Moves, Activations, ClickBuild, Begin

(* Only an area has the verdict "ok". *)
LEMMA OkIsArea ==
  ASSUME NEW r \in Requests, NEW f, Verdict(r, f) = "ok"
  PROVE  r.kind = "area"
BY RequestsAssumption DEF Verdict

(* refresh() leaves a plan that is a reading of the fields. *)
LEMMA FreshPlan ==
  ASSUME NEW r \in Requests, Refresh(r)
  PROVE  Planned'
<1>1. fields' \in Requests /\ plan' = PlanFor(fields', fraction)
  BY DEF Refresh
<1>2. buildEnabled' => fields'.kind = "area"
  BY OkIsArea DEF Refresh
<1>. QED
  BY <1>1, <1>2 DEF Planned

(* The shape of a step: the user's, or one activation's. *)
LEMMA Steps ==
  ASSUME Next
  PROVE  \/ \E r \in Requests : Edit(r) \/ Drag(r)
         \/ ClickCancel
         \/ \E b \in Builds : ClickBuild(b)
         \/ \E b \in Builds : Handler(b)
BY DEF Next, Handler

(* The page loads in hand. *)
LEMMA PageStarts == Init => PageInv
<1> SUFFICES ASSUME Init PROVE PageInv
  OBVIOUS
<1>1. \A b \in Builds : build[b] = Unused
  BY DEF Init
<1>2. IsActivation(Unused) /\ Unused.pc = "Unused" /\ Unused.signal = Nobody
      /\ Unused.outcome = "None"
  BY DEF Unused, IsActivation, Fields
<1>3. Activations
  BY <1>1, <1>2 DEF Init, Activations
<1>4. Planned
  BY OkIsArea DEF Init, Planned
<1>5. Signals
  BY <1>1, <1>2 DEF Init, Signals
<1>6. Released
  BY <1>1, <1>2 DEF Init, Released, PageIsReleased
<1>. QED
  BY <1>3, <1>4, <1>5, <1>6 DEF PageInv

(* Each part of the invariant, over a step of the user and of the handler. *)
LEMMA PageSteps ==
  ASSUME PageInv, [Next]_vars
  PROVE  PageInv'
<1>. USE DEF PageInv
<1>0. CASE UNCHANGED vars
  BY <1>0 DEF vars, page, Activations, Planned, Signals, Released, PageIsReleased, Active
<1>1. ASSUME NEW r \in Requests, Edit(r) \/ Drag(r) PROVE PageInv'
  <2>1. Refresh(r) /\ UNCHANGED <<fraction, controlsOn, cancelShown, abort, aborted, build>>
    BY <1>1 DEF Edit, Drag
  <2>2. Activations' /\ Signals'
    BY <2>1 DEF Activations, Signals
  <2>3. Planned'
    BY <1>1, <2>1, FreshPlan
  <2>4. Released'
    BY <2>1 DEF Released, Active, PageIsReleased, Refresh
  <2>. QED
    BY <2>2, <2>3, <2>4
<1>2. CASE ClickCancel
  BY <1>2 DEF ClickCancel, page, Activations, Planned, Signals, Released, PageIsReleased, Active
<1>3. ASSUME NEW b \in Builds, ClickBuild(b) PROVE PageInv'
  <2>1. /\ build[b].pc = "Unused" /\ Moves(b, build'[b])
        /\ build'[b].pc = "Starting" /\ build'[b].plan = plan
        /\ build'[b].signal = build[b].signal /\ build'[b].outcome = build[b].outcome
    BY <1>3, Begun
  <2>2. Activations' /\ \A a \in Builds \ {b} : build'[a] = build[a]
    BY <2>1, OneMoves
  <2>3. UNCHANGED <<fields, plan, fraction, aborted>> /\ ~buildEnabled'
    BY <1>3 DEF ClickBuild, Begin
  <2>4. Planned'
    BY <2>3 DEF Planned
  <2>5. Signals'
    BY <2>1, <2>2, <2>3 DEF Signals
  <2>6. Released'
    BY <2>1, <2>2 DEF Released, Active
  <2>. QED
    BY <2>2, <2>4, <2>5, <2>6
<1>4. ASSUME NEW b \in Builds, GoesOn(build[b], build'[b]), Moves(b, build'[b]),
             UNCHANGED page, aborted' = aborted
      PROVE  PageInv'
  <2>1. Activations' /\ \A a \in Builds \ {b} : build'[a] = build[a]
    BY <1>4, OneMoves
  <2>2. /\ build[b].pc \in {"Starting", "Rendering"}
        /\ build'[b].pc \in {"Rendering", "Saving"} /\ build'[b].outcome = build[b].outcome
    BY <1>4, GoneOn DEF Activations
  <2>3. Planned'
    BY <1>4 DEF Planned, page
  <2>4. Signals'
    BY <1>4, <2>1, <2>2 DEF Signals
  <2>5. Released'
    BY <2>1, <2>2 DEF Released, Active
  <2>. QED
    BY <2>1, <2>3, <2>4, <2>5
<1>5. ASSUME NEW b \in Builds, NEW o \in {"Failed", "Cancelled", "Rejected", "Saved"},
             Leave(b, o), aborted' = aborted, UNCHANGED fraction
      PROVE  PageInv'
  <2>1. /\ Moves(b, build'[b]) /\ build'[b].pc = "Ended" /\ build'[b].outcome = o
        /\ build'[b].signal = build[b].signal
    BY <1>5, LeaveMoves
  <2>2. Activations' /\ \A a \in Builds \ {b} : build'[a] = build[a]
    BY <2>1, OneMoves
  <2>3. Refresh(fields)
    BY <1>5 DEF Leave
  <2>4. Planned'
    BY <2>3, FreshPlan DEF Planned
  <2>5. Signals'
    BY <1>5, <2>1, <2>2 DEF Signals
  <2>6. PageIsReleased'
    BY <1>5, LeaveReleases
  <2>7. Released'
    BY <2>1, <2>2, <2>6 DEF Released
  <2>. QED
    BY <2>2, <2>4, <2>5, <2>7
<1>6. ASSUME NEW b \in Builds, Fault(b), aborted' = aborted
      PROVE  PageInv'
  <2>. DEFINE d == [build[b] EXCEPT !.pc = "Ended", !.outcome = "Faulted"]
  <2>1. IsActivation(d) /\ d.pc = "Ended" /\ d.outcome = "Faulted"
    BY DEF Activations, IsActivation, Fields
  <2>2. build' = [build EXCEPT ![b] = d]
    BY <1>6 DEF Fault, Activations, IsActivation
  <2>3. Activations' /\ build'[b] = d /\ \A a \in Builds \ {b} : build'[a] = build[a]
    BY <2>1, <2>2, OneMoves DEF Moves
  <2>4. Planned'
    BY <1>6 DEF Planned, Fault, page
  <2>5. Signals'
    BY <1>6, <2>1, <2>3 DEF Signals
  <2>6. Released'
    BY <2>1, <2>3 DEF Released
  <2>. QED
    BY <2>3, <2>4, <2>5, <2>6
<1>7. ASSUME NEW b \in Builds, Handler(b) PROVE PageInv'
  BY <1>4, <1>5, <1>6, <1>7, HandlerMoves
<1>. QED
  BY <1>0, <1>1, <1>2, <1>3, <1>7, Steps

(* The page invariant holds of every behaviour of the page. *)
THEOREM PageAlways == Spec => []PageInv
BY PageStarts, PageSteps, PTL DEF Spec

(* WebBuild's ReleasedUnlessFault: whichever of the overlapping builds ends *)
(* first, and however it ends.                                              *)
THEOREM ReleasedAlways == Spec => []ReleasedUnlessFault
<1>1. PageInv => ReleasedUnlessFault
  BY DEF PageInv, Released, ReleasedUnlessFault, PageIsReleased
<1>. QED
  BY <1>1, PageAlways, PTL

(* WebBuild's UncompressedSamePack: the learned fraction never reaches the  *)
(* plan of an uncompressed pack.                                            *)
THEOREM UncompressedAlways == Spec => []UncompressedSamePack
<1>1. PageInv => UncompressedSamePack
  <2> SUFFICES ASSUME PageInv, plan.request.kind = "area", ~plan.request.packed
               PROVE  plan.block = ChosenBlock(plan.request, DefaultFraction)
    BY DEF UncompressedSamePack
  <2>1. PICK f : plan = PlanFor(fields, f)
    BY DEF PageInv, Planned
  <2>2. plan.request = fields /\ plan.block = ChosenBlock(plan.request, f)
    BY <2>1 DEF PlanFor
  <2>. QED
    BY <2>2, UncompressedBlock
<1>. QED
  BY <1>1, PageAlways, PTL

(* WebBuild's CancelStopsTheNextBlock: an activation whose signal is        *)
(* aborted takes no step to another block.                                  *)
THEOREM CancelAlways == Spec => CancelStopsTheNextBlock
<1>. DEFINE Stops == \A b \in Builds : build[b].signal \in aborted /\ build[b] # build'[b]
                                       => build'[b].pc # "Rendering"
<1>1. ASSUME PageInv, [Next]_vars PROVE Stops
  <2>0. CASE UNCHANGED vars
    BY <2>0 DEF vars
  <2>1. ASSUME NEW r \in Requests, Edit(r) \/ Drag(r) PROVE Stops
    BY <2>1 DEF Edit, Drag
  <2>2. CASE ClickCancel
    BY <2>2 DEF ClickCancel
  <2>3. ASSUME NEW b \in Builds, ClickBuild(b) PROVE Stops
    BY <1>1, <2>3, Begun, OneMoves DEF PageInv
  <2>4. ASSUME NEW b \in Builds, Handler(b) PROVE Stops
    <3>1. CASE GoesOn(build[b], build'[b]) /\ Moves(b, build'[b])
      <4>1. build[b].signal \in aborted => build'[b].pc # "Rendering"
        BY <1>1, <3>1, GoneOn DEF PageInv, Activations, Signals
      <4>. QED
        BY <1>1, <3>1, <4>1, OneMoves DEF PageInv
    <3>2. ASSUME NEW o, Leave(b, o) PROVE Stops
      BY <1>1, <3>2, LeaveMoves, OneMoves DEF PageInv
    <3>3. CASE Fault(b)
      <4>1. build'[b].pc = "Ended" /\ \A a \in Builds \ {b} : build'[a] = build[a]
        BY <1>1, <3>3 DEF Fault, PageInv, Activations, IsActivation, Fields
      <4>. QED
        BY <4>1
    <3>. QED
      BY <1>1, <2>4, <3>1, <3>2, <3>3, HandlerMoves DEF PageInv
  <2>. QED
    BY <1>1, <2>0, <2>1, <2>2, <2>3, <2>4, Steps
<1>. QED
  BY <1>1, PageAlways, PTL DEF Spec, CancelStopsTheNextBlock

----------------------------------------------------------------------------
(* Counting the levels of a region. *)

TileCounts(r) == [l \in Levels(r) |-> LevelTiles(r, l)]
RenderCounts(r, n) == [l \in Levels(r) |-> LevelRenders(r, n, l)]
Below(f, r, l) == SumFunctionOnSet(f, r.first..(l - 1))

(* A level of a region is a box of at least one tile. *)
LEMMA LevelShape ==
  ASSUME NEW r \in Requests, NEW l \in Levels(r)
  PROVE  /\ r.first \in Nat /\ r.last \in Nat /\ l \in Nat /\ r.first <= l /\ l <= r.last
         /\ r.extent[l] \in Extent
         /\ r.extent[l].x0 <= r.extent[l].x1 /\ r.extent[l].y0 <= r.extent[l].y1
         /\ Nx(r, l) \in Nat \ {0} /\ Ny(r, l) \in Nat \ {0} /\ LevelTiles(r, l) \in Nat
<1>1. /\ r.first \in Nat /\ r.last \in Nat /\ l \in Nat /\ r.first <= l /\ l <= r.last
      /\ r.extent[l] \in Extent
      /\ r.extent[l].x0 <= r.extent[l].x1 /\ r.extent[l].y0 <= r.extent[l].y1
  BY RequestsAssumption DEF Levels
<1>2. Nx(r, l) \in Nat \ {0} /\ Ny(r, l) \in Nat \ {0}
  BY <1>1 DEF Nx, Ny, Extent
<1>. QED
  BY <1>1, <1>2 DEF LevelTiles

(* What a level counts for. *)
LEMMA CountsType ==
  ASSUME NEW r \in Requests, NEW n \in Nat \ {0}
  PROVE  \A l \in Levels(r) : TileCounts(r)[l] \in Nat /\ RenderCounts(r, n)[l] \in Nat
<1>1. ASSUME NEW m \in Nat \ {0} PROVE CeilDiv(m, n) \in Nat
  BY DivMod DEF CeilDiv
<1>. QED
  BY <1>1, LevelShape DEF TileCounts, RenderCounts, LevelRenders

(* The sum over the levels below l, level by level. *)
LEMMA BelowFirst ==
  ASSUME NEW r \in Requests, NEW f
  PROVE  Below(f, r, r.first) = 0
<1>1. r.first..(r.first - 1) = {}
  BY RequestsAssumption
<1>. QED
  BY <1>1, SumEmpty DEF Below

(* One level more. *)
LEMMA BelowNext ==
  ASSUME NEW r \in Requests, NEW f, \A l \in Levels(r) : f[l] \in Nat, NEW l \in Levels(r)
  PROVE  Below(f, r, l) \in Nat /\ Below(f, r, l + 1) = Below(f, r, l) + f[l]
<1>1. r.first \in Int /\ l \in Int /\ r.first <= l /\ l <= r.last /\ r.last \in Int
  BY LevelShape
<1>. DEFINE S == r.first..l
            T == r.first..(l - 1)
<1>2. IsFiniteSet(S) /\ IsFiniteSet(T)
  BY <1>1, FS_Interval
<1>3. l \in S /\ S \ {l} = T /\ S \subseteq Levels(r) /\ T \subseteq Levels(r)
  BY <1>1 DEF Levels
<1>4. r.first..((l + 1) - 1) = S
  BY <1>1
<1>5. SumFunctionOnSet(f, S) = f[l] + SumFunctionOnSet(f, S \ {l})
  BY <1>2, <1>3, SumSplit
<1>6. SumFunctionOnSet(f, T) \in Nat
  BY <1>2, <1>3, SumType
<1>7. Below(f, r, l + 1) = SumFunctionOnSet(f, S) /\ Below(f, r, l) = SumFunctionOnSet(f, T)
  BY <1>4 DEF Below
<1>8. f[l] \in Nat /\ SumFunctionOnSet(f, S) = f[l] + SumFunctionOnSet(f, T)
  BY <1>3, <1>5
<1>. HIDE DEF S, T
<1>. QED
  BY <1>6, <1>7, <1>8

(* Above the last level, the sum over all of them. *)
LEMMA BelowLast ==
  ASSUME NEW r \in Requests, NEW f
  PROVE  Below(f, r, r.last + 1) = SumFunctionOnSet(f, Levels(r))
<1>1. r.first..((r.last + 1) - 1) = Levels(r)
  BY RequestsAssumption DEF Levels
<1>. QED
  BY <1>1 DEF Below

(* The totals of the page are such sums. *)
LEMMA Totals ==
  ASSUME NEW r \in Requests, NEW n
  PROVE  /\ Tiles(r) = Below(TileCounts(r), r, r.last + 1)
         /\ Renders(r, n) = Below(RenderCounts(r, n), r, r.last + 1)
BY BelowLast DEF Tiles, TileTotal, Renders, SumFunction, TileCounts, RenderCounts

----------------------------------------------------------------------------
(* An activation that renders. *)

(* It is at a block of its region. *)
Placed(c) ==
  /\ IsActivation(c)
  /\ c.plan.request \in Requests /\ c.plan.block \in Nat \ {0}
  /\ c.level \in Levels(c.plan.request)
  /\ c.bx \in ExtentOf(c).x0..ExtentOf(c).x1 /\ c.by \in ExtentOf(c).y0..ExtentOf(c).y1

(* It holds the blocks of its column above that one. *)
Cells(z, columns, rows) == {[z |-> z, x |-> x, y |-> y] : x \in columns, y \in rows}
Held(c) == c.column = Cells(c.level, c.bx..LastX(c), ExtentOf(c).y0..(c.by - 1))

(* The tiles of the levels and columns before it, or up to column x. *)
UpTo(c, x) ==
  {k \in RegionTiles(c.plan.request) : k.z < c.level \/ (k.z = c.level /\ k.x <= x)}

(* The builder has been fed these tiles, in order, and has accepted them. *)
Feeds(fed, tiles) ==
  /\ \E raw \in Seq(Key) : /\ Sorted(raw) /\ Range(raw) = tiles
                           /\ fed = [i \in 1..Len(raw) |-> AsU32(raw[i])]
  /\ InOrder(fed)

(* The tiles fed and the blocks rendered, as the page counts them. *)
Counted(c) ==
  LET r == c.plan.request
      n == c.plan.block
      e == ExtentOf(c)
  IN /\ Len(c.fed) = Below(TileCounts(r), r, c.level) + (c.bx - e.x0) * Ny(r, c.level)
     /\ \E p, q \in Nat :
          /\ c.bx = e.x0 + q * n /\ c.by = e.y0 + p * n
          /\ c.renders = Below(RenderCounts(r, n), r, c.level) + q * CeilDiv(Ny(r, c.level), n) + p

Underway(c) == Placed(c) /\ Held(c) /\ Feeds(c.fed, UpTo(c, c.bx - 1)) /\ Counted(c)

(* Where the block lies, and where it ends. *)
LEMMA Where ==
  ASSUME NEW c, Placed(c)
  PROVE  LET r == c.plan.request
             n == c.plan.block
             e == ExtentOf(c)
         IN /\ r \in Requests /\ c.level \in Levels(r) /\ c.level \in Nat
            /\ n \in Nat \ {0} /\ c.bx \in Int /\ c.by \in Int
            /\ e.x0 \in Int /\ e.x1 \in Int /\ e.y0 \in Int /\ e.y1 \in Int
            /\ e.x0 <= c.bx /\ c.bx <= e.x1 /\ e.y0 <= c.by /\ c.by <= e.y1
            /\ LastX(c) = IF LastOfLevel(c) THEN e.x1 ELSE c.bx + n - 1
            /\ LastY(c) = IF LastOfColumn(c) THEN e.y1 ELSE c.by + n - 1
            /\ LastX(c) \in c.bx..e.x1 /\ LastY(c) \in c.by..e.y1
            /\ Nx(r, c.level) = e.x1 - e.x0 + 1 /\ Ny(r, c.level) = e.y1 - e.y0 + 1
<1>. DEFINE r == c.plan.request
            n == c.plan.block
            e == ExtentOf(c)
<1>1. r \in Requests /\ c.level \in Levels(r) /\ n \in Nat \ {0}
  BY DEF Placed
<1>2. e \in Extent /\ e = r.extent[c.level] /\ c.level \in Nat
  BY <1>1, LevelShape DEF ExtentOf
<1>3. e.x0 \in Int /\ e.x1 \in Int /\ e.y0 \in Int /\ e.y1 \in Int
  BY <1>2 DEF Extent
<1>4. /\ c.bx \in Int /\ c.by \in Int
      /\ e.x0 <= c.bx /\ c.bx <= e.x1 /\ e.y0 <= c.by /\ c.by <= e.y1
  BY <1>3 DEF Placed
<1>5. /\ LastX(c) = IF LastOfLevel(c) THEN e.x1 ELSE c.bx + n - 1
      /\ LastX(c) \in c.bx..e.x1
  BY <1>1, <1>3, <1>4 DEF LastX, LastOfLevel, Least
<1>6. /\ LastY(c) = IF LastOfColumn(c) THEN e.y1 ELSE c.by + n - 1
      /\ LastY(c) \in c.by..e.y1
  BY <1>1, <1>3, <1>4 DEF LastY, LastOfColumn, Least
<1>7. Nx(r, c.level) = e.x1 - e.x0 + 1 /\ Ny(r, c.level) = e.y1 - e.y0 + 1
  BY DEF Nx, Ny, ExtentOf
<1>. QED
  BY <1>1, <1>2, <1>3, <1>4, <1>5, <1>6, <1>7

(* At the end of a column every tile of it has been cut: the whole of it is *)
(* emitted.                                                                 *)
LEMMA ColumnIsWhole ==
  ASSUME NEW c, Placed(c), Held(c), LastOfColumn(c)
  PROVE  Emitted(c) = Raster(c.level, c.bx, LastX(c) - c.bx + 1, ExtentOf(c).y0,
                             Ny(c.plan.request, c.level))
<1>. DEFINE e == ExtentOf(c)
            w == LastX(c) - c.bx + 1
            ny == Ny(c.plan.request, c.level)
            K == Raster(c.level, c.bx, w, e.y0, ny)
            there == {i \in DOMAIN K : K[i] \in c.column \cup Cut(c)}
<1>1. ColumnMajor(c) = K
  BY DEF ColumnMajor, Raster
<1>2. /\ c.level \in Int /\ c.bx \in Int /\ c.by \in Int /\ w \in Nat /\ ny \in Nat \ {0}
      /\ LastX(c) \in Int /\ e.y0 \in Int /\ e.y1 \in Int /\ e.y0 <= c.by
      /\ LastY(c) = e.y1 /\ c.bx + w - 1 = LastX(c) /\ e.y0 + ny - 1 = e.y1
  <2>1. /\ c.level \in Nat /\ c.bx \in Int /\ c.by \in Int
        /\ e.x1 \in Int /\ e.y0 \in Int /\ e.y1 \in Int /\ e.y0 <= c.by /\ c.by <= e.y1
        /\ LastX(c) \in c.bx..e.x1 /\ LastY(c) = e.y1 /\ ny = e.y1 - e.y0 + 1
    BY Where
  <2>. HIDE DEF e, ny
  <2>. QED
    BY <2>1
<1>3. /\ K \in Seq(Key) /\ Len(K) = w * ny /\ w * ny \in Nat
      /\ Range(K) = Rect(c.level, c.bx, w, e.y0, ny)
  <2>. HIDE DEF e, w, ny
  <2>1. c.level \in Int /\ c.bx \in Int /\ w \in Nat /\ e.y0 \in Int /\ ny \in Nat \ {0}
    BY <1>2
  <2>2. w * ny \in Nat
    BY <2>1
  <2>3. Traces(K, c.level, c.bx, w, e.y0, ny)
    BY <2>1, RasterTraces
  <2>. QED
    BY <2>2, <2>3 DEF Traces
<1>4. Range(K) \subseteq c.column \cup Cut(c)
  <2> SUFFICES ASSUME NEW x \in c.bx..LastX(c), NEW y \in e.y0..e.y1
               PROVE  [z |-> c.level, x |-> x, y |-> y] \in c.column \cup Cut(c)
    <3>1. /\ Range(K) = Rect(c.level, c.bx, w, e.y0, ny)
          /\ c.bx + w - 1 = LastX(c) /\ e.y0 + ny - 1 = e.y1
      BY <1>2, <1>3
    <3>. HIDE DEF e, w, ny, K
    <3>. QED
      BY <3>1 DEF Rect
  <2>. HIDE DEF e
  <2>1. y \in e.y0..(c.by - 1) \/ y \in c.by..LastY(c)
    BY <1>2
  <2>. QED
    BY <2>1 DEF Held, Cells, Cut, e
<1>. HIDE DEF K, w, ny
<1>5. DOMAIN K = 1..Len(K) /\ Len(K) \in Nat
  BY <1>3
<1>6. there = 1..Len(K)
  BY <1>4, <1>5 DEF Range
<1>7. ASSUME NEW i \in 0..Len(K) PROVE Cardinality(1..i) = i
  BY <1>5, FS_Interval
<1>8. ASSUME NEW i \in 1..Len(K) PROVE Cardinality(there \cap (1..i)) = i
  <2>1. there \cap (1..i) = 1..i /\ i \in 0..Len(K)
    BY <1>5, <1>6
  <2>. QED
    BY <1>7, <2>1
<1>9. ASSUME NEW m \in 1..Len(K)
      PROVE  (CHOOSE i \in there : Cardinality(there \cap (1..i)) = m) = m
  <2>. HIDE DEF there
  <2>. QED
    BY <1>6, <1>8
<1>10. Cardinality(there) = Len(K)
  <2>. HIDE DEF there
  <2>1. Len(K) \in 0..Len(K)
    BY <1>5
  <2>. QED
    BY <1>6, <1>7, <2>1
<1>11. Emitted(c) = [m \in 1..Cardinality(there) |->
                       K[CHOOSE i \in there : Cardinality(there \cap (1..i)) = m]]
  BY <1>1 DEF Emitted
<1>12. Emitted(c) = [m \in 1..Len(K) |-> K[m]]
  <2>. HIDE DEF there
  <2>. QED
    BY <1>9, <1>10, <1>11
<1>13. K = [m \in 1..Len(K) |-> K[m]]
  BY <1>3
<1>. QED
  BY <1>12, <1>13 DEF K, w, ny

(* A tile of a region is a key at one of its levels, inside its box there. *)
LEMMA InRegion ==
  ASSUME NEW r \in Requests, NEW k
  PROVE  k \in RegionTiles(r) <=>
           /\ k \in Key /\ k.z \in Levels(r)
           /\ k.x \in r.extent[k.z].x0..r.extent[k.z].x1
           /\ k.y \in r.extent[k.z].y0..r.extent[k.z].y1
<1>1. ASSUME k \in RegionTiles(r)
      PROVE  /\ k \in Key /\ k.z \in Levels(r)
             /\ k.x \in r.extent[k.z].x0..r.extent[k.z].x1
             /\ k.y \in r.extent[k.z].y0..r.extent[k.z].y1
  <2>1. PICK l \in Levels(r) :
          k \in {[z |-> l, x |-> x, y |-> y] : x \in r.extent[l].x0..r.extent[l].x1,
                                               y \in r.extent[l].y0..r.extent[l].y1}
    BY <1>1 DEF RegionTiles
  <2>2. PICK x \in r.extent[l].x0..r.extent[l].x1, y \in r.extent[l].y0..r.extent[l].y1 :
          k = [z |-> l, x |-> x, y |-> y]
    BY <2>1
  <2>3. l \in Int /\ x \in Int /\ y \in Int
    BY <2>2, LevelShape DEF Extent
  <2>. QED
    BY <2>2, <2>3 DEF Key
<1>2. ASSUME k \in Key, k.z \in Levels(r),
             k.x \in r.extent[k.z].x0..r.extent[k.z].x1,
             k.y \in r.extent[k.z].y0..r.extent[k.z].y1
      PROVE  k \in RegionTiles(r)
  <2>. DEFINE l == k.z
  <2>1. k = [z |-> l, x |-> k.x, y |-> k.y]
    BY <1>2 DEF Key
  <2>2. k \in {[z |-> l, x |-> x, y |-> y] : x \in r.extent[l].x0..r.extent[l].x1,
                                             y \in r.extent[l].y0..r.extent[l].y1}
    BY <1>2, <2>1
  <2>. QED
    BY <1>2, <2>2 DEF RegionTiles
<1>. QED
  BY <1>1, <1>2

(* A key is in a rectangle when its coordinates are. *)
LEMMA InRect ==
  ASSUME NEW z \in Int, NEW a \in Int, NEW w \in Int, NEW b \in Int, NEW n \in Int, NEW k
  PROVE  k \in Rect(z, a, w, b, n) <=>
           k \in Key /\ k.z = z /\ k.x \in a..(a + w - 1) /\ k.y \in b..(b + n - 1)
<1>1. ASSUME k \in Rect(z, a, w, b, n)
      PROVE  k \in Key /\ k.z = z /\ k.x \in a..(a + w - 1) /\ k.y \in b..(b + n - 1)
  BY <1>1 DEF Rect, Key
<1>2. ASSUME k \in Key, k.z = z, k.x \in a..(a + w - 1), k.y \in b..(b + n - 1)
      PROVE  k \in Rect(z, a, w, b, n)
  <2>1. k = [z |-> z, x |-> k.x, y |-> k.y]
    BY <1>2 DEF Key
  <2>. QED
    BY <1>2, <2>1 DEF Rect
<1>. QED
  BY <1>1, <1>2

(* A column emitted is a column done. *)
LEMMA ColumnFed ==
  ASSUME NEW c, Underway(c), LastOfColumn(c), InOrder(Fed(c))
  PROVE  /\ Feeds(Fed(c), UpTo(c, LastX(c)))
         /\ Len(Fed(c)) = Len(c.fed) + (LastX(c) - c.bx + 1) * Ny(c.plan.request, c.level)
<1>. DEFINE r == c.plan.request
            e == ExtentOf(c)
            w == LastX(c) - c.bx + 1
            ny == Ny(r, c.level)
            K == Emitted(c)
            box == Rect(c.level, c.bx, w, e.y0, ny)
<1>1. /\ r \in Requests /\ c.level \in Int /\ c.level \in Levels(r) /\ c.bx \in Int
      /\ LastX(c) \in c.bx..e.x1 /\ e.x1 \in Int /\ e.y0 \in Int /\ e.y1 \in Int
      /\ e.x0 \in Int /\ e.x0 <= c.bx /\ e.y0 <= e.y1 /\ ny = e.y1 - e.y0 + 1
      /\ e = r.extent[c.level]
  <2>1. Placed(c) /\ e = r.extent[c.level]
    BY DEF Underway, ExtentOf
  <2>. HIDE DEF r, e, ny
  <2>2. /\ r \in Requests /\ c.level \in Nat /\ c.level \in Levels(r) /\ c.bx \in Int
        /\ LastX(c) \in c.bx..e.x1 /\ e.x1 \in Int /\ e.y0 \in Int /\ e.y1 \in Int
        /\ e.x0 \in Int /\ e.x0 <= c.bx /\ c.by \in Int /\ e.y0 <= c.by /\ c.by <= e.y1
        /\ ny = e.y1 - e.y0 + 1
    BY <2>1, Where DEF r, e, ny
  <2>. QED
    BY <2>1, <2>2
<1>2. /\ w \in Nat \ {0} /\ ny \in Nat \ {0}
      /\ c.bx + w - 1 = LastX(c) /\ e.y0 + ny - 1 = e.y1
  <2>. HIDE DEF r, e
  <2>. QED
    BY <1>1
<1>3. Traces(K, c.level, c.bx, w, e.y0, ny)
  <2>1. K = Raster(c.level, c.bx, w, e.y0, ny)
    BY ColumnIsWhole DEF Underway
  <2>. HIDE DEF K, w, ny, e
  <2>. QED
    BY <1>1, <1>2, <2>1, RasterTraces, ZenonT(20)
<1>4. K \in Seq(Key) /\ Len(K) = w * ny /\ Sorted(K) /\ Range(K) = box
  BY <1>3 DEF Traces
<1>5. PICK raw \in Seq(Key) : /\ Sorted(raw) /\ Range(raw) = UpTo(c, c.bx - 1)
                              /\ c.fed = [i \in 1..Len(raw) |-> AsU32(raw[i])]
  BY DEF Underway, Feeds
<1>. DEFINE all == raw \o K
<1>. HIDE DEF K, w, ny, e, r, box
<1>c. K \in Seq(Key)
  BY <1>4
<1>6. all \in Seq(Key) /\ Len(all) = Len(raw) + Len(K) /\ Len(raw) \in Nat /\ Len(K) \in Nat
  BY <1>c
<1>. USE DEF box
<1>b. \A k : k \in box <=> /\ k \in Key /\ k.z = c.level /\ k.x \in c.bx..LastX(c)
                          /\ k.y \in e.y0..e.y1
  <2> SUFFICES ASSUME NEW k
               PROVE  k \in box <=> /\ k \in Key /\ k.z = c.level /\ k.x \in c.bx..LastX(c)
                                   /\ k.y \in e.y0..e.y1
    OBVIOUS
  <2>1. c.level \in Int /\ c.bx \in Int /\ w \in Int /\ e.y0 \in Int /\ ny \in Int
    BY <1>1, <1>2
  <2>2. k \in box <=> /\ k \in Key /\ k.z = c.level /\ k.x \in c.bx..(c.bx + w - 1)
                     /\ k.y \in e.y0..(e.y0 + ny - 1)
    BY <2>1, InRect, Zenon
  <2>. QED
    BY <1>2, <2>2
<1>. HIDE DEF box
<1>7. \A k \in box : k \in RegionTiles(r) /\ k.z = c.level /\ k.x >= c.bx /\ k.x <= LastX(c)
                     /\ k \in Key
  <2> SUFFICES ASSUME NEW k \in box
               PROVE  /\ k \in RegionTiles(r) /\ k.z = c.level /\ k.x >= c.bx
                      /\ k.x <= LastX(c) /\ k \in Key
    OBVIOUS
  <2>1. k \in Key /\ k.z = c.level /\ k.x \in c.bx..LastX(c) /\ k.y \in e.y0..e.y1
    BY <1>b
  <2>2. k.x >= c.bx /\ k.x <= LastX(c) /\ k.x \in e.x0..e.x1
    BY SMTT(30), <1>1, <2>1
  <2>. QED
    BY <1>1, <2>1, <2>2, InRegion
<1>8. \A k \in UpTo(c, LastX(c)) : k \in UpTo(c, c.bx - 1) \/ k \in box
  <2> SUFFICES ASSUME NEW k \in RegionTiles(r), k.z = c.level, k.x <= LastX(c), k.x > c.bx - 1
               PROVE  k \in box
    <3>1. \A k \in RegionTiles(r) : k.x \in Int
      BY <1>1, InRegion DEF Key
    <3>. QED
      BY <1>1, <3>1 DEF UpTo, r
  <2>1. k \in Key /\ k.y \in e.y0..e.y1
    BY <1>1, InRegion
  <2>2. k.x \in c.bx..LastX(c)
    BY <1>1, <2>1 DEF Key
  <2>. QED
    BY <1>b, <2>1, <2>2
<1>9. UpTo(c, c.bx - 1) \cup box = UpTo(c, LastX(c))
  <2>1. \A k \in UpTo(c, c.bx - 1) : k \in UpTo(c, LastX(c))
    <3>1. \A k \in RegionTiles(r) : k.x \in Int
      BY <1>1, InRegion DEF Key
    <3>. QED
      BY <1>1, <3>1 DEF UpTo, r
  <2>2. \A k \in box : k \in UpTo(c, LastX(c))
    BY <1>7 DEF UpTo, r
  <2>. QED
    BY <1>8, <2>1, <2>2
<1>10. Range(all) = UpTo(c, LastX(c))
  BY <1>4, <1>5, <1>9, RangeConcat
<1>11. Sorted(all)
  <2>1. ASSUME NEW k \in UpTo(c, c.bx - 1), NEW l \in box PROVE Precedes(k, l)
    <3>1. k \in RegionTiles(r) /\ (k.z < c.level \/ (k.z = c.level /\ k.x <= c.bx - 1))
      BY DEF UpTo, r
    <3>2. k \in Key /\ l \in Key /\ l.z = c.level /\ l.x >= c.bx
      BY <1>1, <1>7, <3>1, InRegion
    <3>3. k.x \in Int /\ l.x \in Int /\ k.z \in Int
      BY <3>2 DEF Key
    <3>4. c.level \in Int /\ c.bx \in Int
      BY <1>1
    <3>. QED
      BY <3>1, <3>2, <3>3, <3>4 DEF Precedes
  <2>. QED
    BY <1>4, <1>5, <2>1, SortedConcat
<1>12. Fed(c) = [i \in 1..Len(all) |-> AsU32(all[i])]
  <2>. DEFINE t == [i \in DOMAIN K |-> AsU32(K[i])]
  <2>1. DOMAIN K = 1..Len(K) /\ t \in Seq(Key) /\ Len(t) = Len(K)
    BY <1>4, U32Type
  <2>2. c.fed \in Seq(Key) /\ Len(c.fed) = Len(raw)
    BY <1>5, U32Type
  <2>3. Fed(c) = c.fed \o t
    BY DEF Fed, K
  <2>4. DOMAIN (c.fed \o t) = 1..Len(all) /\ Len(c.fed \o t) = Len(all)
    BY SMTT(30), <1>6, <2>1, <2>2
  <2>5. ASSUME NEW i \in 1..Len(all) PROVE (c.fed \o t)[i] = AsU32(all[i])
    <3>1. CASE i <= Len(raw)
      BY <1>5, <1>6, <2>1, <2>2, <3>1
    <3>2. CASE i > Len(raw)
      <4>1. i - Len(raw) \in 1..Len(K)
        BY <1>6, <3>2
      <4>2. (c.fed \o t)[i] = t[i - Len(raw)] /\ all[i] = K[i - Len(raw)]
        BY <1>4, <1>5, <1>6, <2>1, <2>2, <3>2
      <4>. QED
        BY <2>1, <4>1, <4>2
    <3>3. i <= Len(raw) \/ i > Len(raw)
      BY <1>6
    <3>. QED
      BY <3>1, <3>2, <3>3
  <2>6. c.fed \o t = [i \in 1..Len(all) |-> (c.fed \o t)[i]]
    <3>1. t \in Seq(Key) /\ c.fed \in Seq(Key) /\ DOMAIN (c.fed \o t) = 1..Len(all)
      BY <2>1, <2>2, <2>4
    <3>. HIDE DEF t, all
    <3>2. c.fed \o t \in Seq(Key)
      BY <3>1
    <3>3. \A q \in Seq(Key) : q = [i \in DOMAIN q |-> q[i]]
      OBVIOUS
    <3>. QED
      BY <3>1, <3>2, <3>3
  <2>. DEFINE u == c.fed \o t
  <2>7. Fed(c) = u /\ u = [i \in 1..Len(all) |-> u[i]]
        /\ \A i \in 1..Len(all) : u[i] = AsU32(all[i])
    BY <2>3, <2>5, <2>6, Zenon
  <2>. HIDE DEF t, all, u
  <2>. QED
    BY <2>7, ZenonT(20)
<1>13. Feeds(Fed(c), UpTo(c, LastX(c)))
  <2>. HIDE DEF all
  <2>. QED
    BY <1>6, <1>10, <1>11, <1>12 DEF Feeds
<1>14. Len(Fed(c)) = Len(raw) + w * ny /\ Len(c.fed) = Len(raw)
  <2>1. Len(c.fed) = Len(raw)
    BY <1>5, <1>6
  <2>2. Len(Fed(c)) = Len(all)
    <3>. HIDE DEF all
    <3>. QED
      BY <1>6, <1>12
  <2>. QED
    BY <1>4, <1>6, <2>1, <2>2
<1>. QED
  BY <1>13, <1>14 DEF w, ny, r

(* What an activation holds before it renders, and after. *)
Fresh(c) == c.column = {} /\ c.fed = <<>> /\ c.renders = 0
Ready(c) ==
  /\ Fresh(c)
  /\ c.plan.request \in Requests /\ c.plan.block \in Nat \ {0}
Whole(c) ==
  LET r == c.plan.request
  IN /\ r \in Requests
     /\ Feeds(c.fed, RegionTiles(r))
     /\ Len(c.fed) = Tiles(r) /\ c.renders = Renders(r, c.plan.block)

(* The fields a step sets, and the ones it keeps. *)
LEMMA LoadedFields ==
  ASSUME NEW c, IsActivation(c), NEW d, d = Loaded(c)
  PROVE  /\ IsActivation(d) /\ d.plan = c.plan /\ d.level = c.plan.request.first
         /\ d.bx = ExtentOf(d).x0 /\ d.by = ExtentOf(d).y0
         /\ d.column = c.column /\ d.fed = c.fed /\ d.renders = c.renders
BY DEF IsActivation, Fields, Loaded, ExtentOf

(* The same of the next block, *)
LEMMA NextBlockFields ==
  ASSUME NEW c, IsActivation(c), NEW d, d = NextBlock(c)
  PROVE  /\ IsActivation(d) /\ d.plan = c.plan /\ d.level = c.level /\ d.bx = c.bx
         /\ d.by = c.by + c.plan.block /\ d.column = c.column \cup Cut(c)
         /\ d.fed = c.fed /\ d.renders = c.renders + 1
BY DEF IsActivation, Fields, NextBlock

(* of the next column, *)
LEMMA NextColumnFields ==
  ASSUME NEW c, IsActivation(c), NEW d, d = NextColumn(c)
  PROVE  /\ IsActivation(d) /\ d.plan = c.plan
         /\ d.level = NextLevel(c) /\ d.by = ExtentOf(d).y0
         /\ d.bx = IF LastOfLevel(c) THEN ExtentOf(d).x0 ELSE c.bx + c.plan.block
         /\ d.column = {} /\ d.fed = Fed(c) /\ d.renders = c.renders + 1
BY DEF IsActivation, Fields, NextColumn, ExtentOf

(* and of the end. *)
LEMMA FinishedFields ==
  ASSUME NEW c, IsActivation(c), NEW d, d = Finished(c)
  PROVE  d.plan = c.plan /\ d.fed = Fed(c) /\ d.renders = c.renders + 1
BY DEF IsActivation, Fields, Finished

(* The map's load begins at the first block of the first level. *)
LEMMA LoadedUnderway ==
  ASSUME NEW c, IsActivation(c), Ready(c), NEW d, d = Loaded(c)
  PROVE  Underway(d)
<1>. DEFINE r == c.plan.request
            n == c.plan.block
            e == ExtentOf(d)
<1>1. /\ IsActivation(d) /\ d.plan = c.plan /\ d.level = r.first
      /\ d.bx = e.x0 /\ d.by = e.y0
      /\ d.column = {} /\ d.fed = <<>> /\ d.renders = 0
  BY LoadedFields DEF Ready, Fresh
<1>2. r \in Requests /\ n \in Nat \ {0} /\ r.first \in Levels(r)
  BY RequestsAssumption DEF Ready, Levels
<1>3. /\ e = r.extent[d.level] /\ e.x0 \in Int /\ e.x1 \in Int /\ e.y0 \in Int /\ e.y1 \in Int
      /\ e.x0 <= e.x1 /\ e.y0 <= e.y1 /\ r.first \in Nat /\ Ny(r, r.first) \in Nat \ {0}
  BY <1>1, <1>2, LevelShape DEF ExtentOf, Extent
<1>. HIDE DEF e
<1>4. e = ExtentOf(d) /\ d.plan.request = r /\ d.plan.block = n
  BY <1>1 DEF e
<1>. HIDE DEF r, n
<1>5. Placed(d)
  <2>1. d.bx \in e.x0..e.x1 /\ d.by \in e.y0..e.y1
    BY <1>1, <1>3
  <2>. QED
    BY <1>1, <1>2, <1>4, <2>1, Zenon DEF Placed
<1>6. Held(d)
  <2>1. e.y0..(d.by - 1) = {}
    <3>1. \A y \in Int : y..(y - 1) = {}
      OBVIOUS
    <3>. QED
      BY <1>1, <1>3, <3>1
  <2>2. Cells(d.level, d.bx..LastX(d), {}) = {}
    BY DEF Cells
  <2>. QED
    BY <1>1, <1>4, <2>1, <2>2, Zenon DEF Held
<1>7. Feeds(d.fed, UpTo(d, d.bx - 1))
  <2>1. UpTo(d, d.bx - 1) = {}
    <3> SUFFICES ASSUME NEW k \in RegionTiles(r), k.z < r.first \/ (k.z = r.first /\ k.x <= e.x0 - 1)
                 PROVE  FALSE
      BY <1>1, <1>4 DEF UpTo
    <3>1. k.z \in Levels(r) /\ k.x \in r.extent[k.z].x0..r.extent[k.z].x1
      BY <1>2, InRegion
    <3>2. k.z \in Int /\ k.z >= r.first
      BY <1>2, <3>1, LevelShape
    <3>3. k.z = r.first
      BY <1>3, <3>2
    <3>. QED
      BY <1>1, <1>3, <3>1, <3>3
  <2>2. <<>> \in Seq(Key) /\ Sorted(<<>>) /\ Range(<<>>) = {}
        /\ <<>> = [i \in 1..Len(<<>>) |-> AsU32(<<>>[i])]
    BY DEF Sorted, Range
  <2>3. InOrder(<<>>)
    BY DEF InOrder
  <2>. QED
    BY <1>1, <2>1, <2>2, <2>3 DEF Feeds
<1>8. Counted(d)
  <2>1. Below(TileCounts(r), r, r.first) = 0 /\ Below(RenderCounts(r, n), r, r.first) = 0
    BY <1>2, BelowFirst
  <2>2. CeilDiv(Ny(r, r.first), n) \in Int
    BY <1>2, <1>3 DEF CeilDiv
  <2>3. Len(d.fed) = Below(TileCounts(r), r, d.level) + (d.bx - e.x0) * Ny(r, d.level)
    <3>1. Len(d.fed) = 0 /\ d.bx - e.x0 = 0 /\ Ny(r, d.level) \in Nat
      BY <1>1, <1>3
    <3>2. Below(TileCounts(r), r, d.level) = 0
      BY <1>1, <2>1
    <3>. QED
      BY <3>1, <3>2
  <2>4. /\ 0 \in Nat /\ d.bx = e.x0 + 0 * n /\ d.by = e.y0 + 0 * n
        /\ d.renders = Below(RenderCounts(r, n), r, d.level) + 0 * CeilDiv(Ny(r, d.level), n) + 0
    <3>1. CeilDiv(Ny(r, d.level), n) \in Int /\ Below(RenderCounts(r, n), r, d.level) = 0
      BY <1>1, <2>1, <2>2
    <3>2. d.bx \in Int /\ d.by \in Int /\ d.bx = e.x0 /\ d.by = e.y0 /\ d.renders = 0
      BY <1>1, <1>3
    <3>. QED
      BY <1>2, <3>1, <3>2
  <2>. QED
    BY <1>1, <1>4, <2>3, <2>4 DEF Counted
<1>. QED
  BY <1>5, <1>6, <1>7, <1>8 DEF Underway

(* The next block of a column lies under the ones held. *)
LEMMA NextBlockUnderway ==
  ASSUME NEW c, Underway(c), ~LastOfColumn(c), NEW d, d = NextBlock(c)
  PROVE  Underway(d)
<1>. DEFINE r == c.plan.request
            n == c.plan.block
            e == ExtentOf(c)
<1>1. /\ IsActivation(d) /\ d.plan = c.plan /\ d.level = c.level /\ d.bx = c.bx
      /\ d.by = c.by + n /\ d.column = c.column \cup Cut(c)
      /\ d.fed = c.fed /\ d.renders = c.renders + 1
  BY NextBlockFields DEF Underway, Placed
<1>2. /\ r \in Requests /\ c.level \in Levels(r) /\ n \in Nat \ {0}
      /\ c.bx \in Int /\ c.by \in Int /\ e.y0 \in Int /\ e.y1 \in Int
      /\ c.bx \in e.x0..e.x1 /\ e.y0 <= c.by /\ c.by <= e.y1 /\ LastY(c) = c.by + n - 1
  BY Where DEF Underway, Placed
<1>3. ExtentOf(d) = e /\ LastX(d) = LastX(c)
  BY <1>1 DEF ExtentOf, LastX
<1>4. c.by + n <= e.y1
  BY <1>2 DEF LastOfColumn
<1>5. Placed(d)
  <2>. HIDE DEF e
  <2>. QED
    BY <1>1, <1>2, <1>3, <1>4 DEF Placed
<1>6. Held(d)
  <2>. HIDE DEF e, n
  <2>1. \A y : y \in e.y0..(c.by + n - 1) <=> y \in e.y0..(c.by - 1) \/ y \in c.by..(c.by + n - 1)
    BY <1>2
  <2>2. c.column = Cells(c.level, c.bx..LastX(c), e.y0..(c.by - 1))
    BY DEF Underway, Held, e
  <2>3. Cut(c) = Cells(c.level, c.bx..LastX(c), c.by..(c.by + n - 1))
    BY <1>2 DEF Cut, Cells
  <2>4. c.column \cup Cut(c) = Cells(c.level, c.bx..LastX(c), e.y0..(c.by + n - 1))
    BY <2>1, <2>2, <2>3 DEF Cells
  <2>a. /\ d.level = c.level /\ d.bx..LastX(d) = c.bx..LastX(c)
        /\ ExtentOf(d).y0..(d.by - 1) = e.y0..(c.by + n - 1)
    BY <1>1, <1>2, <1>3
  <2>5. d.column = Cells(d.level, d.bx..LastX(d), ExtentOf(d).y0..(d.by - 1))
    BY <1>1, <2>4, <2>a
  <2>. QED
    BY <2>5 DEF Held
<1>7. Feeds(d.fed, UpTo(d, d.bx - 1))
  BY <1>1 DEF Underway, UpTo
<1>8. Counted(d)
  <2>1. Len(d.fed) = Below(TileCounts(r), r, d.level) + (d.bx - e.x0) * Ny(r, d.level)
    BY <1>1 DEF Underway, Counted
  <2>2. PICK p \in Nat, q \in Nat :
          /\ c.bx = e.x0 + q * n /\ c.by = e.y0 + p * n
          /\ c.renders = Below(RenderCounts(r, n), r, c.level) + q * CeilDiv(Ny(r, c.level), n) + p
    BY DEF Underway, Counted
  <2>3. (p + 1) * n = p * n + n /\ p * n \in Int
    BY <1>2
  <2>4. d.by = e.y0 + (p + 1) * n
    BY <1>1, <1>2, <2>2, <2>3
  <2>5. /\ Below(RenderCounts(r, n), r, c.level) \in Nat
        /\ q * CeilDiv(Ny(r, c.level), n) \in Int
    <3>1. Ny(r, c.level) \in Nat \ {0}
      BY <1>2, LevelShape
    <3>2. CeilDiv(Ny(r, c.level), n) \in Int
      BY <1>2, <3>1 DEF CeilDiv
    <3>. QED
      BY <1>2, <3>2, CountsType, BelowNext
  <2>6. d.renders = Below(RenderCounts(r, n), r, d.level) + q * CeilDiv(Ny(r, d.level), n) + (p + 1)
    BY <1>1, <2>2, <2>5
  <2>. QED
    BY <1>1, <1>3, <2>1, <2>2, <2>4, <2>6 DEF Counted
<1>. QED
  BY <1>5, <1>6, <1>7, <1>8 DEF Underway

(* The numbers at the end of a column: its blocks complete a column of     *)
(* renders.                                                                *)
LEMMA ColumnCounted ==
  ASSUME NEW c, Underway(c), LastOfColumn(c), InOrder(Fed(c))
  PROVE  LET r == c.plan.request
             n == c.plan.block
             e == ExtentOf(c)
         IN /\ Len(Fed(c)) = Below(TileCounts(r), r, c.level)
                               + (LastX(c) + 1 - e.x0) * Ny(r, c.level)
            /\ \E q \in Nat :
                 /\ c.bx = e.x0 + q * n
                 /\ c.renders + 1 = Below(RenderCounts(r, n), r, c.level)
                                      + (q + 1) * CeilDiv(Ny(r, c.level), n)
<1>. DEFINE r == c.plan.request
            n == c.plan.block
            e == ExtentOf(c)
            ny == Ny(r, c.level)
            tiles == Below(TileCounts(r), r, c.level)
            renders == Below(RenderCounts(r, n), r, c.level)
<1>1. /\ r \in Requests /\ c.level \in Levels(r) /\ n \in Nat \ {0}
      /\ c.bx \in Int /\ c.by \in Int /\ e.x0 \in Int /\ e.y0 \in Int /\ e.y1 \in Int
      /\ e.y0 <= c.by /\ c.by <= e.y1 /\ ny = e.y1 - e.y0 + 1 /\ LastX(c) \in c.bx..e.x1
      /\ e.x1 \in Int
  BY Where DEF Underway
<1>2. c.by + n > e.y1
  BY DEF LastOfColumn
<1>3. tiles \in Nat /\ renders \in Nat
  BY <1>1, CountsType, BelowNext
<1>4. Len(c.fed) = tiles + (c.bx - e.x0) * ny
  BY DEF Underway, Counted
<1>5. PICK p \in Nat, q \in Nat : /\ c.bx = e.x0 + q * n /\ c.by = e.y0 + p * n
                                  /\ c.renders = renders + q * CeilDiv(ny, n) + p
  BY DEF Underway, Counted
<1>6. Len(Fed(c)) = Len(c.fed) + (LastX(c) - c.bx + 1) * ny
  BY ColumnFed
<1>. HIDE DEF r, n, e, ny, tiles, renders
<1>7. Len(Fed(c)) = tiles + (LastX(c) + 1 - e.x0) * ny
  <2>1. /\ c.bx - e.x0 \in Int /\ LastX(c) - c.bx + 1 \in Int /\ ny \in Int
        /\ LastX(c) + 1 - e.x0 = (c.bx - e.x0) + (LastX(c) - c.bx + 1)
    BY <1>1
  <2>2. (LastX(c) + 1 - e.x0) * ny = (c.bx - e.x0) * ny + (LastX(c) - c.bx + 1) * ny
    BY <2>1
  <2>. QED
    BY <1>3, <1>4, <1>6, <2>1, <2>2
<1>8. CeilDiv(ny, n) = p + 1
  <2>1. p * n < ny /\ ny <= p * n + n /\ ny \in Int
    BY <1>1, <1>2, <1>5
  <2>. QED
    BY <1>1, <2>1, Ceil
<1>9. c.renders + 1 = renders + (q + 1) * CeilDiv(ny, n)
  <2>1. (q + 1) * (p + 1) = q * (p + 1) + (p + 1) /\ q * (p + 1) \in Int
    OBVIOUS
  <2>. QED
    BY <1>3, <1>5, <1>8, <2>1
<1>. QED
  BY <1>5, <1>7, <1>9 DEF r, n, e, ny, tiles, renders

(* The end of a level completes its counts. *)
LEMMA LevelCounted ==
  ASSUME NEW c, Underway(c), LastOfColumn(c), LastOfLevel(c), InOrder(Fed(c))
  PROVE  LET r == c.plan.request
             n == c.plan.block
         IN /\ Len(Fed(c)) = Below(TileCounts(r), r, c.level + 1)
            /\ c.renders + 1 = Below(RenderCounts(r, n), r, c.level + 1)
<1>. DEFINE r == c.plan.request
            n == c.plan.block
            e == ExtentOf(c)
            ny == Ny(r, c.level)
            nx == Nx(r, c.level)
            tiles == Below(TileCounts(r), r, c.level)
            renders == Below(RenderCounts(r, n), r, c.level)
<1>1. /\ r \in Requests /\ c.level \in Levels(r) /\ n \in Nat \ {0}
      /\ c.bx \in Int /\ e.x0 \in Int /\ e.x1 \in Int
      /\ e.x0 <= c.bx /\ c.bx <= e.x1 /\ nx = e.x1 - e.x0 + 1 /\ LastX(c) = e.x1
  BY Where DEF Underway
<1>2. c.bx + n > e.x1
  BY DEF LastOfLevel
<1>3. Len(Fed(c)) = tiles + (LastX(c) + 1 - e.x0) * ny
  BY ColumnCounted
<1>4. PICK q \in Nat : /\ c.bx = e.x0 + q * n
                       /\ c.renders + 1 = renders + (q + 1) * CeilDiv(ny, n)
  BY ColumnCounted
<1>5. /\ Below(TileCounts(r), r, c.level + 1) = tiles + TileCounts(r)[c.level]
      /\ Below(RenderCounts(r, n), r, c.level + 1) = renders + RenderCounts(r, n)[c.level]
  BY <1>1, CountsType, BelowNext
<1>6. /\ TileCounts(r)[c.level] = nx * ny
      /\ RenderCounts(r, n)[c.level] = CeilDiv(nx, n) * CeilDiv(ny, n)
  BY <1>1 DEF TileCounts, RenderCounts, LevelTiles, LevelRenders
<1>. HIDE DEF r, n, e, ny, nx, tiles, renders
<1>7. CeilDiv(nx, n) = q + 1
  <2>1. q * n < nx /\ nx <= q * n + n /\ nx \in Int
    BY <1>1, <1>2, <1>4
  <2>. QED
    BY <1>1, <2>1, Ceil
<1>8. LastX(c) + 1 - e.x0 = nx
  BY <1>1
<1>. QED
  BY <1>3, <1>4, <1>5, <1>6, <1>7, <1>8 DEF r, n, tiles, renders

(* The next column lies to the right of this one, or at the left of the    *)
(* next level.                                                             *)
LEMMA NextColumnUnderway ==
  ASSUME NEW c, Underway(c), LastOfColumn(c), ~LastOfRegion(c), InOrder(Fed(c)),
         NEW d, d = NextColumn(c)
  PROVE  Underway(d)
<1>. DEFINE r == c.plan.request
            n == c.plan.block
            e == ExtentOf(c)
            f == ExtentOf(d)
<1>1. /\ IsActivation(d) /\ d.plan = c.plan
      /\ d.level = NextLevel(c) /\ d.by = f.y0
      /\ d.bx = IF LastOfLevel(c) THEN f.x0 ELSE c.bx + n
      /\ d.column = {} /\ d.fed = Fed(c) /\ d.renders = c.renders + 1
  BY NextColumnFields DEF Underway, Placed
<1>2. /\ r \in Requests /\ c.level \in Levels(r) /\ c.level \in Nat /\ n \in Nat \ {0}
      /\ c.bx \in Int /\ e.x0 \in Int /\ e.x1 \in Int
      /\ e.x0 <= c.bx /\ c.bx <= e.x1
      /\ LastX(c) = IF LastOfLevel(c) THEN e.x1 ELSE c.bx + n - 1
  BY Where DEF Underway
<1>3. LastOfLevel(c) => c.level + 1 \in Levels(r)
  BY <1>2, LevelShape DEF LastOfRegion, Levels
<1>4. d.level \in Levels(r)
  BY <1>1, <1>2, <1>3 DEF NextLevel
<1>5. /\ f = r.extent[d.level] /\ d.level \in Nat
      /\ f.x0 \in Int /\ f.x1 \in Int /\ f.y0 \in Int /\ f.y1 \in Int
      /\ f.x0 <= f.x1 /\ f.y0 <= f.y1 /\ Ny(r, d.level) \in Nat \ {0}
  BY <1>1, <1>2, <1>4, LevelShape DEF ExtentOf, Extent
<1>6. ~LastOfLevel(c) => d.level = c.level /\ f = e /\ c.bx + n <= e.x1
  BY <1>1, <1>2 DEF NextLevel, LastOfLevel, ExtentOf
<1>7. Placed(d)
  <2>1. d.bx \in f.x0..f.x1
    <3>. HIDE DEF e, f, n
    <3>. QED
      BY <1>1, <1>2, <1>5, <1>6
  <2>. QED
    BY SMTT(30), <1>1, <1>2, <1>4, <1>5, <2>1 DEF Placed
<1>8. Held(d)
  <2>1. f.y0..(d.by - 1) = {}
    BY <1>1, <1>5
  <2>2. Cells(d.level, d.bx..LastX(d), {}) = {}
    BY DEF Cells
  <2>. QED
    BY <1>1, <2>1, <2>2 DEF Held
<1>9. Feeds(d.fed, UpTo(d, d.bx - 1))
  <2>1. UpTo(d, d.bx - 1) = UpTo(c, LastX(c))
    <3>1. UpTo(d, d.bx - 1) = {k \in RegionTiles(r) : k.z < d.level \/ (k.z = d.level /\ k.x <= d.bx - 1)}
      BY <1>1 DEF UpTo
    <3>2. UpTo(c, LastX(c)) = {k \in RegionTiles(r) : k.z < c.level \/ (k.z = c.level /\ k.x <= LastX(c))}
      BY DEF UpTo
    <3>3. ASSUME NEW k \in RegionTiles(r)
          PROVE  (k.z < d.level \/ (k.z = d.level /\ k.x <= d.bx - 1))
                   <=> (k.z < c.level \/ (k.z = c.level /\ k.x <= LastX(c)))
      <4>1. /\ k \in Key /\ k.z \in Levels(r)
            /\ k.x \in r.extent[k.z].x0..r.extent[k.z].x1
        BY <1>2, InRegion
      <4>2. k.z \in Int /\ k.x \in Int
        BY <4>1 DEF Key
      <4>3. CASE ~LastOfLevel(c)
        <5>. HIDE DEF e, f, n
        <5>. QED
          BY <1>1, <1>2, <1>6, <4>2, <4>3
      <4>4. CASE LastOfLevel(c)
        <5>1. d.level = c.level + 1 /\ d.bx = f.x0 /\ LastX(c) = e.x1
          BY <1>1, <1>2, <4>4 DEF NextLevel
        <5>2. k.z = d.level => ~(k.x <= d.bx - 1)
          BY <1>5, <4>1, <4>2, <5>1
        <5>3. k.z = c.level => k.x <= LastX(c)
          BY <1>2, <4>1, <4>2, <5>1 DEF ExtentOf
        <5>. HIDE DEF e, f, n
        <5>. QED
          BY <1>2, <4>2, <5>1, <5>2, <5>3
      <4>. QED
        BY <4>3, <4>4
    <3>. QED
      BY <3>1, <3>2, <3>3
  <2>. QED
    BY <1>1, <2>1, ColumnFed
<1>10. Counted(d)
  <2>0. CeilDiv(Ny(r, d.level), n) \in Int
    BY <1>2, <1>5 DEF CeilDiv
  <2>1. CASE ~LastOfLevel(c)
    <3>1. Len(Fed(c)) = Below(TileCounts(r), r, c.level) + (LastX(c) + 1 - e.x0) * Ny(r, c.level)
      BY ColumnCounted
    <3>2. PICK q \in Nat : /\ c.bx = e.x0 + q * n
                           /\ c.renders + 1 = Below(RenderCounts(r, n), r, c.level)
                                                + (q + 1) * CeilDiv(Ny(r, c.level), n)
      BY ColumnCounted
    <3>. HIDE DEF e, f, n
    <3>3. d.bx = c.bx + n /\ LastX(c) + 1 - e.x0 = d.bx - e.x0
      BY <1>1, <1>2, <2>1
    <3>4. Len(d.fed) = Below(TileCounts(r), r, d.level) + (d.bx - f.x0) * Ny(r, d.level)
      BY <1>1, <1>6, <2>1, <3>1, <3>3
    <3>5. (q + 1) * n = q * n + n /\ q * n \in Int /\ q + 1 \in Nat
      BY <1>2
    <3>6. d.bx = f.x0 + (q + 1) * n
      BY <1>2, <1>6, <2>1, <3>2, <3>3, <3>5
    <3>7. 0 * n = 0 /\ d.by = f.y0 + 0 * n
      BY <1>1, <1>2, <1>5
    <3>8. Below(RenderCounts(r, n), r, c.level) \in Nat
      BY <1>2, CountsType, BelowNext
    <3>9. (q + 1) * CeilDiv(Ny(r, d.level), n) \in Int
      BY <2>0
    <3>10. d.renders = Below(RenderCounts(r, n), r, d.level)
                         + (q + 1) * CeilDiv(Ny(r, d.level), n) + 0
      BY <1>1, <1>6, <2>1, <3>2, <3>8, <3>9
    <3>. QED
      BY <1>1, <3>4, <3>5, <3>6, <3>7, <3>10 DEF Counted, f, n
  <2>2. CASE LastOfLevel(c)
    <3>1. d.level = c.level + 1 /\ d.bx = f.x0
      BY <1>1, <2>2 DEF NextLevel
    <3>2. /\ Len(Fed(c)) = Below(TileCounts(r), r, c.level + 1)
          /\ c.renders + 1 = Below(RenderCounts(r, n), r, c.level + 1)
      BY <2>2, LevelCounted
    <3>3. Below(TileCounts(r), r, d.level) \in Nat /\ Below(RenderCounts(r, n), r, d.level) \in Nat
      BY <1>2, <1>4, CountsType, BelowNext
    <3>. HIDE DEF e, f, n
    <3>4. /\ (d.bx - f.x0) * Ny(r, d.level) = 0 /\ 0 * CeilDiv(Ny(r, d.level), n) = 0
          /\ 0 * n = 0 /\ d.bx = f.x0 + 0 * n /\ d.by = f.y0 + 0 * n
      BY SMTT(30), <1>1, <1>2, <1>5, <2>0, <3>1
    <3>5. Len(d.fed) = Below(TileCounts(r), r, d.level) + (d.bx - f.x0) * Ny(r, d.level)
      BY <1>1, <3>1, <3>2, <3>3, <3>4
    <3>6. d.renders = Below(RenderCounts(r, n), r, d.level) + 0 * CeilDiv(Ny(r, d.level), n) + 0
      BY <1>1, <3>1, <3>2, <3>3, <3>4
    <3>. QED
      BY <1>1, <3>4, <3>5, <3>6 DEF Counted, f, n
  <2>. QED
    BY <2>1, <2>2
<1>. QED
  BY <1>7, <1>8, <1>9, <1>10 DEF Underway

(* The last block of the last column completes the region. *)
LEMMA FinishedWhole ==
  ASSUME NEW c, Underway(c), LastOfRegion(c), InOrder(Fed(c)), NEW d, d = Finished(c)
  PROVE  Whole(d)
<1>. DEFINE r == c.plan.request
            n == c.plan.block
<1>1. d.plan = c.plan /\ d.fed = Fed(c) /\ d.renders = c.renders + 1
  BY FinishedFields DEF Underway, Placed
<1>2. LastOfColumn(c) /\ LastOfLevel(c) /\ c.level = r.last
  BY DEF LastOfRegion
<1>3. r \in Requests /\ LastX(c) = ExtentOf(c).x1
  BY <1>2, Where DEF Underway
<1>4. UpTo(c, LastX(c)) = RegionTiles(r)
  <2> SUFFICES ASSUME NEW k \in RegionTiles(r)
               PROVE  k.z < c.level \/ (k.z = c.level /\ k.x <= LastX(c))
    BY DEF UpTo
  <2>1. /\ k \in Key /\ k.z \in Levels(r) /\ k.x \in r.extent[k.z].x0..r.extent[k.z].x1
    BY <1>3, InRegion
  <2>2. k.z \in Int /\ k.x \in Int /\ k.z <= c.level /\ c.level \in Int
    BY <1>2, <1>3, <2>1, LevelShape DEF Key
  <2>3. k.z = c.level => k.x <= LastX(c)
    <3>1. r.extent[k.z] \in Extent
      BY <1>3, <2>1, LevelShape
    <3>. QED
      BY <1>3, <2>1, <3>1 DEF ExtentOf, Extent
  <2>. QED
    BY <2>2, <2>3
<1>5. Feeds(d.fed, RegionTiles(r))
  BY <1>1, <1>2, <1>4, ColumnFed
<1>6. Len(d.fed) = Tiles(r) /\ d.renders = Renders(r, n)
  BY <1>1, <1>2, <1>3, LevelCounted, Totals
<1>. QED
  BY <1>1, <1>3, <1>5, <1>6 DEF Whole

(* Under wrapped numbers the builder would have refused a region that       *)
(* reaches into the world: its neighbours across the edge are out of order. *)
LEMMA NoneWraps ==
  ASSUME NEW r \in Requests, ReachesWorld(r), NEW fed, Feeds(fed, RegionTiles(r)),
         NEW k \in RegionTiles(r)
  PROVE  AsU32(k) = k
<1>1. PICK raw \in Seq(Key) : /\ Sorted(raw) /\ Range(raw) = RegionTiles(r)
                              /\ fed = [i \in 1..Len(raw) |-> AsU32(raw[i])]
  BY DEF Feeds
<1>2. Sorted(fed)
  <2>1. fed \in Seq(Key)
    BY <1>1, U32Type
  <2>. QED
    BY <2>1, OrderIsGlobal DEF Feeds
<1>3. ASSUME NEW a \in RegionTiles(r), NEW b \in RegionTiles(r), Precedes(a, b)
      PROVE  Precedes(AsU32(a), AsU32(b))
  <2>1. a \in Key /\ b \in Key
    BY InRegion
  <2>2. PICK i \in 1..Len(raw), j \in 1..Len(raw) : a = raw[i] /\ b = raw[j]
    BY <1>1 DEF Range
  <2>3. ~(j < i) /\ i # j
    BY <1>1, <1>3, <2>1, <2>2, PrecedesIsStrict DEF Sorted
  <2>4. i < j
    BY <2>2, <2>3
  <2>5. fed[i] = AsU32(a) /\ fed[j] = AsU32(b) /\ DOMAIN fed = 1..Len(raw)
    BY <1>1, <2>2
  <2>. QED
    BY <1>2, <2>4, <2>5 DEF Sorted
<1>. DEFINE l == k.z
            e == r.extent[l]
<1>4. /\ k \in Key /\ l \in Levels(r) /\ k.x \in e.x0..e.x1 /\ k.y \in e.y0..e.y1
  BY InRegion
<1>5. /\ l \in Int /\ e.x0 \in Int /\ e.x1 \in Int /\ e.y0 \in Int /\ e.y1 \in Int
      /\ k.x \in Int /\ k.y \in Int
      /\ e.x1 >= 0 /\ e.x0 < Modulus /\ e.y1 >= 0 /\ e.y0 < Modulus
  BY <1>4, LevelShape DEF Extent, Key, ReachesWorld
<1>. DEFINE At(x, y) == [z |-> l, x |-> x, y |-> y]
<1>. HIDE DEF e
<1>6. ASSUME NEW x \in e.x0..e.x1, NEW y \in e.y0..e.y1
      PROVE  At(x, y) \in RegionTiles(r) /\ AsU32(At(x, y)).z = l
             /\ AsU32(At(x, y)).x = x % Modulus /\ AsU32(At(x, y)).y = y % Modulus
  <2>1. At(x, y) \in Key /\ At(x, y).z = l /\ At(x, y).x = x /\ At(x, y).y = y
    BY <1>5 DEF Key
  <2>. HIDE DEF At, l
  <2>2. At(x, y) \in RegionTiles(r)
    BY <1>4, <2>1, InRegion DEF e
  <2>. QED
    BY <2>1, <2>2, U32Type
<1>7. ASSUME NEW m \in Int, NEW n \in Int, m % Modulus = Modulus - 1, n % Modulus = 0,
             n = m + 1, m \in e.x0..e.x1, n \in e.x0..e.x1
      PROVE  FALSE
  <2>1. e.y0 \in e.y0..e.y1
    BY <1>4, <1>5
  <2>2. /\ At(m, e.y0) \in RegionTiles(r) /\ At(n, e.y0) \in RegionTiles(r)
        /\ AsU32(At(m, e.y0)).z = l /\ AsU32(At(n, e.y0)).z = l
        /\ AsU32(At(m, e.y0)).x = Modulus - 1 /\ AsU32(At(n, e.y0)).x = 0
    BY <1>6, <1>7, <2>1
  <2>3. Precedes(At(m, e.y0), At(n, e.y0))
    BY <1>5, <1>7 DEF Precedes
  <2>4. Precedes(AsU32(At(m, e.y0)), AsU32(At(n, e.y0)))
    BY <1>3, <2>2, <2>3
  <2>. HIDE DEF At, l
  <2>. QED
    BY <1>5, <2>2, <2>4, ModulusAssumption DEF Precedes
<1>8. ASSUME NEW m \in Int, NEW n \in Int, m % Modulus = Modulus - 1, n % Modulus = 0,
             n = m + 1, m \in e.y0..e.y1, n \in e.y0..e.y1
      PROVE  FALSE
  <2>1. e.x0 \in e.x0..e.x1
    BY <1>4, <1>5
  <2>2. /\ At(e.x0, m) \in RegionTiles(r) /\ At(e.x0, n) \in RegionTiles(r)
        /\ AsU32(At(e.x0, m)).z = l /\ AsU32(At(e.x0, n)).z = l
        /\ AsU32(At(e.x0, m)).x = AsU32(At(e.x0, n)).x
        /\ AsU32(At(e.x0, m)).y = Modulus - 1 /\ AsU32(At(e.x0, n)).y = 0
        /\ AsU32(At(e.x0, n)).x \in Int
    BY <1>5, <1>6, <1>8, <2>1, Wraps
  <2>3. Precedes(At(e.x0, m), At(e.x0, n))
    BY <1>5, <1>8 DEF Precedes
  <2>4. Precedes(AsU32(At(e.x0, m)), AsU32(At(e.x0, n)))
    BY <1>3, <2>2, <2>3
  <2>. HIDE DEF At, l
  <2>. QED
    BY <1>5, <2>2, <2>4, ModulusAssumption DEF Precedes
<1>9. k.x \in 0..(Modulus - 1)
  <2>1. ~(k.x < 0)
    <3>1. k.x < 0 => -1 \in e.x0..e.x1 /\ 0 \in e.x0..e.x1
      BY <1>4, <1>5
    <3>. QED
      BY <1>7, <3>1, Wraps
  <2>2. ~(k.x >= Modulus)
    <3>1. k.x >= Modulus => Modulus - 1 \in e.x0..e.x1 /\ Modulus \in e.x0..e.x1
      BY <1>4, <1>5, ModulusAssumption
    <3>2. Modulus - 1 \in Int /\ Modulus \in Int /\ Modulus = (Modulus - 1) + 1
      BY ModulusAssumption
    <3>. QED
      BY <1>7, <3>1, <3>2, Wraps
  <2>. QED
    BY <1>5, <2>1, <2>2, ModulusAssumption
<1>10. k.y \in 0..(Modulus - 1)
  <2>1. ~(k.y < 0)
    <3>1. k.y < 0 => -1 \in e.y0..e.y1 /\ 0 \in e.y0..e.y1
      BY <1>4, <1>5
    <3>. QED
      BY <1>8, <3>1, Wraps
  <2>2. ~(k.y >= Modulus)
    <3>1. k.y >= Modulus => Modulus - 1 \in e.y0..e.y1 /\ Modulus \in e.y0..e.y1
      BY <1>4, <1>5, ModulusAssumption
    <3>2. Modulus - 1 \in Int /\ Modulus \in Int /\ Modulus = (Modulus - 1) + 1
      BY ModulusAssumption
    <3>. QED
      BY <1>8, <3>1, <3>2, Wraps
  <2>. QED
    BY <1>5, <2>1, <2>2, ModulusAssumption
<1>11. k.x % Modulus = k.x /\ k.y % Modulus = k.y
  BY <1>9, <1>10, Wraps
<1>. QED
  BY <1>4, <1>11 DEF AsU32, Key

(* What is saved is the region. *)
LEMMA WholeIsRegion ==
  ASSUME NEW c, Whole(c)
  PROVE  LET region == RegionTiles(c.plan.request)
         IN /\ Range(c.fed) = {AsU32(k) : k \in region}
            /\ ReachesWorld(c.plan.request) => Range(c.fed) = region
            /\ InOrder(c.fed)
            /\ Len(c.fed) = Tiles(c.plan.request)
            /\ c.renders = Renders(c.plan.request, c.plan.block)
<1>. DEFINE r == c.plan.request
            region == RegionTiles(r)
<1>1. /\ r \in Requests /\ Feeds(c.fed, region) /\ InOrder(c.fed)
      /\ Len(c.fed) = Tiles(r) /\ c.renders = Renders(r, c.plan.block)
  BY DEF Whole, Feeds
<1>2. PICK raw \in Seq(Key) : /\ Range(raw) = region
                              /\ c.fed = [i \in 1..Len(raw) |-> AsU32(raw[i])]
  BY <1>1 DEF Feeds
<1>3. Range(c.fed) = {AsU32(k) : k \in Range(raw)}
  BY <1>2 DEF Range
<1>4. ReachesWorld(r) => Range(c.fed) = region
  <2>1. ReachesWorld(r) => \A k \in region : AsU32(k) = k
    BY <1>1, NoneWraps
  <2>. HIDE DEF region
  <2>. QED
    BY ZenonT(30), <1>2, <1>3, <2>1
<1>. QED
  BY <1>1, <1>2, <1>3, <1>4

----------------------------------------------------------------------------
(* The builds. *)

(* Where every activation stands. *)
BuildsStand ==
  \A b \in Builds :
    /\ build[b].pc = "Unused" => Fresh(build[b])
    /\ build[b].pc = "Starting" => Ready(build[b])
    /\ build[b].pc = "Rendering" => Underway(build[b])
    /\ build[b].pc = "Saving" => Whole(build[b])

(* An activation that goes on keeps its standing. *)
LEMMA GoingOnStands ==
  ASSUME NEW c, IsActivation(c), NEW d, GoesOn(c, d),
         c.pc = "Starting" => Ready(c), c.pc = "Rendering" => Underway(c)
  PROVE  (d.pc = "Rendering" => Underway(d)) /\ (d.pc = "Saving" => Whole(d))
<1>1. CASE c.pc = "Starting" /\ d = Loaded(c)
  <2>1. d.pc = "Rendering"
    BY <1>1 DEF IsActivation, Fields, Loaded
  <2>. QED
    BY <1>1, <2>1, LoadedUnderway
<1>2. CASE c.pc = "Rendering" /\ ~LastOfColumn(c) /\ d = NextBlock(c)
  <2>1. d.pc = "Rendering"
    BY <1>2 DEF IsActivation, Fields, NextBlock
  <2>. QED
    BY <1>2, <2>1, NextBlockUnderway
<1>3. CASE c.pc = "Rendering" /\ LastOfColumn(c) /\ ~LastOfRegion(c) /\ InOrder(Fed(c))
           /\ d = NextColumn(c)
  <2>1. d.pc = "Rendering"
    BY <1>3 DEF IsActivation, Fields, NextColumn
  <2>. QED
    BY <1>3, <2>1, NextColumnUnderway
<1>4. CASE c.pc = "Rendering" /\ LastOfRegion(c) /\ InOrder(Fed(c)) /\ d = Finished(c)
  <2>1. d.pc = "Saving"
    BY <1>4 DEF IsActivation, Fields, Finished
  <2>. QED
    BY <1>4, <2>1, FinishedWhole
<1>. QED
  BY <1>1, <1>2, <1>3, <1>4 DEF GoesOn

(* No activation has begun. *)
LEMMA BuildsStart == Init => BuildsStand
<1> SUFFICES ASSUME Init PROVE BuildsStand
  OBVIOUS
<1>1. \A b \in Builds : build[b] = Unused
  BY DEF Init
<1>2. Unused.pc = "Unused" /\ Fresh(Unused)
  BY DEF Unused, Fresh
<1>. QED
  BY <1>1, <1>2 DEF BuildsStand

(* Every step of the page keeps every activation where it should stand. *)
LEMMA BuildsStep ==
  ASSUME PageInv, BuildsStand, [Next]_vars
  PROVE  BuildsStand'
<1>1. Activations /\ Planned
  BY DEF PageInv
<1>2. CASE build' = build
  BY <1>2 DEF BuildsStand
<1>3. ASSUME NEW b \in Builds, Moves(b, build'[b]),
             /\ build'[b].pc = "Unused" => Fresh(build'[b])
             /\ build'[b].pc = "Starting" => Ready(build'[b])
             /\ build'[b].pc = "Rendering" => Underway(build'[b])
             /\ build'[b].pc = "Saving" => Whole(build'[b])
      PROVE  BuildsStand'
  BY <1>1, <1>3, OneMoves DEF BuildsStand
<1>4. ASSUME NEW b \in Builds, ClickBuild(b) PROVE BuildsStand'
  <2>1. /\ build[b].pc = "Unused" /\ Moves(b, build'[b])
        /\ build'[b].pc = "Starting" /\ build'[b].plan = plan
    BY <1>1, <1>4, Begun
  <2>2. Fresh(build[b])
    BY <2>1 DEF BuildsStand
  <2>3. Fresh(build'[b])
    <3>1. IsActivation(build[b]) /\ build' = [build EXCEPT ![b].pc = "Starting", ![b].plan = plan]
      BY <1>1, <1>4 DEF Activations, ClickBuild, Begin
    <3>2. build'[b] = [build[b] EXCEPT !.pc = "Starting", !.plan = plan]
      BY <1>1, <3>1 DEF Activations, IsActivation
    <3>3. /\ build'[b].column = build[b].column /\ build'[b].fed = build[b].fed
          /\ build'[b].renders = build[b].renders
      BY <3>1, <3>2 DEF IsActivation, Fields
    <3>. QED
      BY <2>2, <3>3 DEF Fresh
  <2>4. plan.request \in Requests /\ plan.block \in Nat \ {0}
    <3>1. buildEnabled
      BY <1>4 DEF ClickBuild, Begin
    <3>2. PICK f : plan = PlanFor(fields, f)
      BY <1>1 DEF Planned
    <3>3. fields \in Requests /\ fields.kind = "area"
      BY <1>1, <3>1 DEF Planned
    <3>4. plan.request = fields /\ plan.block = ChosenBlock(fields, f)
      BY <3>2, <3>3 DEF PlanFor
    <3>. QED
      BY <3>3, <3>4, BlockIsASize
  <2>5. Ready(build'[b])
    BY <2>1, <2>3, <2>4 DEF Ready
  <2>. QED
    BY <1>3, <2>1, <2>5
<1>5. ASSUME NEW b \in Builds, Handler(b) PROVE BuildsStand'
  <2>1. CASE GoesOn(build[b], build'[b]) /\ Moves(b, build'[b])
    <3>1. IsActivation(build[b]) /\ (build[b].pc = "Starting" => Ready(build[b]))
          /\ (build[b].pc = "Rendering" => Underway(build[b]))
      BY <1>1 DEF Activations, BuildsStand
    <3>2. build'[b].pc \in {"Rendering", "Saving"}
      BY <2>1, <3>1, GoneOn
    <3>3. /\ build'[b].pc = "Rendering" => Underway(build'[b])
          /\ build'[b].pc = "Saving" => Whole(build'[b])
      BY <2>1, <3>1, GoingOnStands
    <3>. QED
      BY <1>3, <2>1, <3>2, <3>3
  <2>2. ASSUME NEW o, Leave(b, o) PROVE BuildsStand'
    <3>1. Moves(b, build'[b]) /\ build'[b].pc = "Ended"
      BY <1>1, <2>2, LeaveMoves
    <3>. QED
      BY <1>3, <3>1
  <2>3. CASE Fault(b)
    <3>1. build'[b].pc = "Ended" /\ \A a \in Builds \ {b} : build'[a] = build[a]
      BY <1>1, <2>3 DEF Fault, Activations, IsActivation, Fields
    <3>. QED
      BY <3>1 DEF BuildsStand
  <2>. QED
    BY <1>1, <1>5, <2>1, <2>2, <2>3, HandlerMoves
<1>6. CASE UNCHANGED vars
  BY <1>2, <1>6 DEF vars
<1>7. ASSUME NEW r \in Requests, Edit(r) \/ Drag(r) PROVE BuildsStand'
  BY <1>2, <1>7 DEF Edit, Drag
<1>8. CASE ClickCancel
  BY <1>2, <1>8 DEF ClickCancel
<1>. QED
  BY <1>4, <1>5, <1>6, <1>7, <1>8, Steps

(* WebBuild's PackIsRegion, for every region, every list of block sizes and *)
(* every interleaving of builds, edits, drags and cancels.                  *)
THEOREM RegionAlways == Spec => []PackIsRegion
<1>. DEFINE Stands == PageInv /\ BuildsStand
<1>1. Init => Stands
  BY PageStarts, BuildsStart
<1>2. Stands /\ [Next]_vars => Stands'
  BY PageSteps, BuildsStep
<1>3. Stands => PackIsRegion
  BY WholeIsRegion DEF BuildsStand, PackIsRegion
<1>. QED
  BY <1>1, <1>2, <1>3, PTL DEF Spec
=============================================================================
