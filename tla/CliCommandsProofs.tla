-------------------------- MODULE CliCommandsProofs --------------------------
(***************************************************************************)
(* Proofs about CliCommands.  The first part is about the tiles of a       *)
(* request: a box and a range of levels that the parsers accept give tiles *)
(* that the writer accepts.  The second is about the log of the commands:  *)
(* what each entry tells of its own request, whatever was asked before.    *)
(* Then follow the pack under --out, the names of packs and the order of   *)
(* the sources in a descriptor.                                            *)
(***************************************************************************)
EXTENDS CliCommands, FiniteSums, SequenceTheorems, FunctionTheorems

(* One tile at level 0, and twice as many along each side at the next.     *)
LEMMA SidesPositive == \A z \in 0..ZoomOffsetsCount : TilesPerSide[z] \in Nat \ {0}
<1>. DEFINE N == ZoomOffsetsCount
            Step(f, z) == IF z = 0 THEN 1 ELSE 2 * f[z - 1]
            Good == {n \in Nat : \E f \in [0..n -> Nat \ {0}] : \A z \in 0..n : f[z] = Step(f, z)}
<1>0. N \in Nat
  BY CountsAssumption
<1>1. 0 \in Good
  <2>. DEFINE one == [z \in 0..0 |-> 1]
  <2>1. one \in [0..0 -> Nat \ {0}] /\ \A z \in 0..0 : one[z] = Step(one, z)
    OBVIOUS
  <2>. HIDE DEF one, Step
  <2>. QED
    BY <2>1
<1>2. ASSUME NEW n \in Nat, n \in Good PROVE n + 1 \in Good
  <2>1. PICK f \in [0..n -> Nat \ {0}] : \A z \in 0..n : f[z] = Step(f, z)
    BY <1>2
  <2>. DEFINE g == [z \in 0..(n + 1) |-> Step(f, z)]
  <2>2. ASSUME NEW z \in 0..(n + 1) PROVE Step(f, z) \in Nat \ {0} /\ (z # 0 => g[z - 1] = f[z - 1])
    <3>1. CASE z = 0
      BY <3>1
    <3>2. CASE z # 0
      <4>1. z - 1 \in 0..n /\ z - 1 \in 0..(n + 1)
        BY <3>2
      <4>2. f[z - 1] \in Nat \ {0} /\ f[z - 1] = Step(f, z - 1)
        BY <4>1, <2>1
      <4>3. g[z - 1] = Step(f, z - 1)
        BY <4>1
      <4>4. 2 * f[z - 1] \in Nat \ {0}
        BY <4>2
      <4>. QED
        BY <3>2, <4>2, <4>3, <4>4
    <3>. QED
      BY <3>1, <3>2
  <2>3. g \in [0..(n + 1) -> Nat \ {0}]
    BY <2>2
  <2>4. \A z \in 0..(n + 1) : g[z] = Step(g, z)
    BY <2>2
  <2>. HIDE DEF g, Step
  <2>. QED
    BY <2>3, <2>4
<1>3. N \in Good
  <2>. HIDE DEF Good, N
  <2>. QED
    BY <1>0, <1>1, <1>2, SetInduction
<1>4. PICK f \in [0..N -> Nat \ {0}] : \A z \in 0..N : f[z] = Step(f, z)
  BY <1>3
<1>. DEFINE Is(h) == h = [z \in 0..N |-> Step(h, z)]
<1>5. Is(f)
  BY <1>4
<1>. DEFINE T == CHOOSE h : Is(h)
<1>6. TilesPerSide = T
  BY Zenon DEF TilesPerSide
<1>7. Is(T)
  <2>. HIDE DEF Is
  <2>. QED
    BY <1>5
<1>. HIDE DEF T
<1>8. DOMAIN T = 0..N /\ \A z \in 0..N : T[z] = Step(T, z)
  BY <1>7
<1>. DEFINE Typed == {n \in Nat : n \in 0..N => T[n] \in Nat \ {0}}
<1>9. 0 \in Typed
  BY <1>0, <1>8
<1>10. ASSUME NEW n \in Nat, n \in Typed PROVE n + 1 \in Typed
  <2>. SUFFICES ASSUME n + 1 \in 0..N PROVE T[n + 1] \in Nat \ {0}
    OBVIOUS
  <2>1. n \in 0..N /\ n + 1 # 0 /\ (n + 1) - 1 = n
    BY <1>0
  <2>2. T[n] \in Nat \ {0} /\ T[n + 1] = 2 * T[n]
    BY <1>8, <1>10, <2>1
  <2>. QED
    BY <2>2
<1>11. Nat \subseteq Typed
  <2>. HIDE DEF Typed
  <2>. QED
    BY <1>9, <1>10, SetInduction
<1>. QED
  BY <1>6, <1>11, <1>0

(* Division by a positive number is monotone.                              *)
LEMMA DivMono ==
  ASSUME NEW a \in Int, NEW b \in Int, a <= b, NEW w \in Nat \ {0}
  PROVE  a \div w <= b \div w
  BY SMT
(* Division with remainder. *)
LEMMA DivMod ==
  ASSUME NEW a \in Int, NEW w \in Nat \ {0}
  PROVE  a \div w \in Int /\ a % w \in 0..(w - 1) /\ a = w * (a \div w) + (a % w)
  BY SMT
(* Products with a natural number are monotone. *)
LEMMA TimesMono ==
  ASSUME NEW a \in Int, NEW b \in Int, a <= b, NEW w \in Nat
  PROVE  a * w <= b * w
  BY SMT

(* The column of a longitude is a number, and grows with it. *)
LEMMA ColumnMono ==
  ASSUME NEW a \in Int, NEW b \in Int, a <= b, NEW z \in 0..ZoomOffsetsCount
  PROVE  Column(a, z) \in Int /\ Column(b, z) \in Int /\ Column(a, z) <= Column(b, z)
<1>. DEFINE side == TilesPerSide[z]
            X(v) == (Clamp(v, HalfTurn) + HalfTurn) * side
            Q(v) == X(v) \div (2 * HalfTurn)
<1>1. side \in Nat \ {0} /\ HalfTurn \in Nat \ {0} /\ 2 * HalfTurn \in Nat \ {0}
  BY SidesPositive, ScaleAssumption
<1>2. /\ Clamp(a, HalfTurn) \in Int /\ Clamp(b, HalfTurn) \in Int
      /\ Clamp(a, HalfTurn) <= Clamp(b, HalfTurn)
  BY <1>1 DEF Clamp
<1>3. X(a) \in Int /\ X(b) \in Int /\ X(a) <= X(b)
  <2>. DEFINE u == Clamp(a, HalfTurn) + HalfTurn  v == Clamp(b, HalfTurn) + HalfTurn
  <2>1. u \in Int /\ v \in Int /\ u <= v
    BY <1>1, <1>2
  <2>. HIDE DEF u, v, side
  <2>2. u * side <= v * side /\ u * side \in Int /\ v * side \in Int
    BY <1>1, <2>1, TimesMono
  <2>. QED
    BY <2>2 DEF u, v
<1>4. Q(a) \in Int /\ Q(b) \in Int /\ Q(a) <= Q(b)
  <2>. DEFINE d == 2 * HalfTurn
  <2>. HIDE DEF X, d
  <2>1. d \in Nat \ {0}
    BY <1>1 DEF d
  <2>2. X(a) \div d <= X(b) \div d /\ X(a) \div d \in Int /\ X(b) \div d \in Int
    BY <1>3, <2>1, DivMono, DivMod
  <2>. QED
    BY <2>2 DEF d
<1>5. /\ Column(a, z) = IF Q(a) > side - 1 THEN side - 1 ELSE Q(a)
      /\ Column(b, z) = IF Q(b) > side - 1 THEN side - 1 ELSE Q(b)
  BY DEF Column
<1>. HIDE DEF Q, side
<1>. QED
  BY <1>1, <1>4, <1>5

(* The row of a latitude is a number, and falls as it grows. *)
LEMMA RowMono ==
  ASSUME NEW a \in Int, NEW b \in Int, a <= b, NEW z \in 0..(ZoomOffsetsCount - 1)
  PROVE  Row(a, z) \in Nat /\ Row(b, z) \in Nat /\ Row(b, z) <= Row(a, z)
<1>. DEFINE Above(v) == {e \in RowEdges[z] : Clamp(v, LatLimit) <= e}
<1>1. LatLimit \in Nat /\ RowEdges[z] \subseteq (-LatLimit)..LatLimit
  BY ScaleAssumption
<1>2. /\ Clamp(a, LatLimit) \in Int /\ Clamp(b, LatLimit) \in Int
      /\ Clamp(a, LatLimit) <= Clamp(b, LatLimit)
  BY <1>1 DEF Clamp
<1>3. IsFiniteSet(RowEdges[z]) /\ RowEdges[z] \subseteq Int
  <2>1. -LatLimit \in Int /\ LatLimit \in Int
    BY <1>1
  <2>2. IsFiniteSet((-LatLimit)..LatLimit)
    BY <2>1, FS_Interval
  <2>. QED
    BY <1>1, <2>2, FS_Subset
<1>4. Above(b) \subseteq Above(a) /\ Above(a) \subseteq RowEdges[z]
  BY <1>2, <1>3
<1>5. IsFiniteSet(Above(a)) /\ IsFiniteSet(Above(b))
  BY <1>3, <1>4, FS_Subset
<1>6. Cardinality(Above(a)) \in Nat /\ Cardinality(Above(b)) \in Nat
      /\ Cardinality(Above(b)) <= Cardinality(Above(a))
  BY <1>4, <1>5, FS_Subset, FS_CardinalityType
<1>7. Row(a, z) = Cardinality(Above(a)) /\ Row(b, z) = Cardinality(Above(b))
  BY DEF Row
<1>. QED
  BY <1>6, <1>7

----------------------------------------------------------------------------
(* The tiles of a region. *)

Corners(box) ==
  /\ \A k \in 1..4 : box[k] \in Int
  /\ box[1] < box[3] /\ box[2] < box[4]

(* The rows of a rectangle, one after the other. *)
Grid(z, west, north, width, height) ==
  [k \in 1..(width * height) |-> <<z, west + ((k - 1) % width), north + ((k - 1) \div width)>>]

(* A list of tiles of the levels Z, in which none comes twice. *)
TileSet == Nat \X Int \X Int
Once(T, Z) ==
  /\ T \in Seq(TileSet) /\ Len(T) \in Nat \ {0} /\ IsInjective(T)
  /\ \A k \in 1..Len(T) : T[k][1] \in Z

(* A product of positive numbers is positive. *)
LEMMA ProductPositive ==
  ASSUME NEW a \in Nat \ {0}, NEW b \in Nat \ {0} PROVE a * b \in Nat \ {0}
  BY SMT

(* No tile of a rectangle is listed twice. *)
LEMMA GridOnce ==
  ASSUME NEW z \in Nat, NEW west \in Int, NEW north \in Int,
         NEW width \in Nat \ {0}, NEW height \in Nat \ {0}
  PROVE  Once(Grid(z, west, north, width, height), {z})
<1>. DEFINE n == width * height
            G == Grid(z, west, north, width, height)
            At(k) == <<z, west + ((k - 1) % width), north + ((k - 1) \div width)>>
<1>1. n \in Nat \ {0}
  BY ProductPositive
<1>2. ASSUME NEW k \in 1..n
      PROVE  /\ (k - 1) \div width \in Int /\ (k - 1) % width \in Int
             /\ k - 1 = width * ((k - 1) \div width) + ((k - 1) % width)
  <2>. HIDE DEF n
  <2>1. k - 1 \in Int
    BY <1>1
  <2>2. ASSUME NEW a \in Int
        PROVE a \div width \in Int /\ a % width \in 0..(width - 1)
              /\ a = width * (a \div width) + (a % width)
    BY DivMod
  <2>. QED
    BY <2>1, <2>2
<1>3. ASSUME NEW k \in 1..n PROVE At(k) \in TileSet
  BY <1>2 DEF TileSet
<1>4. G = [k \in 1..n |-> At(k)]
  BY DEF Grid
<1>. HIDE DEF n, G
<1>5. G \in [1..n -> TileSet] /\ DOMAIN G = 1..n
  <2>. HIDE DEF At
  <2>. QED
    BY <1>3, <1>4
<1>6. G \in Seq(TileSet) /\ Len(G) = n
  BY <1>1, <1>5
<1>7. ASSUME NEW i \in 1..n, NEW j \in 1..n, G[i] = G[j] PROVE i = j
  <2>1. At(i) = At(j)
    BY <1>4, <1>7
  <2>2. /\ west + ((i - 1) % width) = west + ((j - 1) % width)
        /\ north + ((i - 1) \div width) = north + ((j - 1) \div width)
    BY <2>1
  <2>. DEFINE ri == (i - 1) % width  rj == (j - 1) % width
              qi == (i - 1) \div width  qj == (j - 1) \div width
  <2>3. ri \in Int /\ rj \in Int /\ qi \in Int /\ qj \in Int
        /\ i - 1 = width * qi + ri /\ j - 1 = width * qj + rj
    BY <1>2
  <2>4. west + ri = west + rj /\ north + qi = north + qj
    BY <2>2
  <2>. HIDE DEF ri, rj, qi, qj
  <2>5. ri = rj /\ qi = qj
    BY <2>3, <2>4
  <2>6. i - 1 = j - 1
    BY <2>3, <2>5
  <2>. QED
    BY <2>6, <1>1
<1>8. IsInjective(G)
  BY <1>5, <1>7 DEF IsInjective
<1>9. \A k \in 1..Len(G) : G[k][1] = z
  BY <1>4, <1>6
<1>. QED
  BY <1>1, <1>6, <1>8, <1>9 DEF G, Once

(* The range of a level, of which each box has at least one tile. *)
LEMMA RangeOnce ==
  ASSUME NEW box, Corners(box), NEW z \in 0..(ZoomOffsetsCount - 1)
  PROVE  Once(TileRangeForZoom(box, z), {z})
<1>. DEFINE west == Column(box[1], z)  north == Row(box[4], z)
            width == Column(box[3], z) - west + 1
            height == Row(box[2], z) - north + 1
<1>0. ZoomOffsetsCount \in Nat \ {0} /\ z \in 0..ZoomOffsetsCount /\ z \in Nat
  BY CountsAssumption
<1>1. /\ box[1] \in Int /\ box[2] \in Int /\ box[3] \in Int /\ box[4] \in Int
      /\ box[1] <= box[3] /\ box[2] <= box[4]
  BY DEF Corners
<1>2. west \in Int /\ width \in Nat \ {0}
  <2>1. /\ west \in Int /\ Column(box[3], z) \in Int /\ west <= Column(box[3], z)
    BY <1>0, <1>1, ColumnMono
  <2>. QED
    BY <2>1
<1>3. north \in Int /\ height \in Nat \ {0}
  <2>1. /\ north \in Nat /\ Row(box[2], z) \in Nat /\ north <= Row(box[2], z)
    BY <1>1, RowMono
  <2>. QED
    BY <2>1
<1>4. TileRangeForZoom(box, z) = Grid(z, west, north, width, height)
  BY DEF TileRangeForZoom, Grid
<1>. HIDE DEF west, north, width, height
<1>. QED
  BY <1>0, <1>2, <1>3, <1>4, GridOnce, Zenon

(* Lists of different levels may follow each other. *)
LEMMA OnceAppend ==
  ASSUME NEW S, NEW T, NEW Y, NEW Z, Once(S, Y), Once(T, Z), Y \cap Z = {}
  PROVE  Once(S \o T, Y \cup Z)
<1>. DEFINE m == Len(S)  n == Len(T)  C == S \o T
<1>1. S \in Seq(TileSet) /\ T \in Seq(TileSet) /\ m \in Nat \ {0} /\ n \in Nat \ {0}
  BY DEF Once
<1>2. C \in Seq(TileSet) /\ Len(C) = m + n
  BY <1>1
<1>3. /\ \A k \in 1..m : C[k] = S[k]
      /\ \A k \in (m + 1)..(m + n) : k - m \in 1..n /\ C[k] = T[k - m]
  BY <1>1
<1>4. /\ DOMAIN S = 1..m /\ DOMAIN T = 1..n /\ DOMAIN C = 1..(m + n)
  BY <1>1, <1>2
<1>. HIDE DEF m, n, C
<1>5. ASSUME NEW k \in 1..m PROVE C[k][1] \in Y
  BY <1>3 DEF Once, m
<1>6. ASSUME NEW k \in (m + 1)..(m + n) PROVE C[k][1] \in Z
  BY <1>3 DEF Once, n
<1>7. ASSUME NEW i \in 1..(m + n), NEW j \in 1..(m + n), C[i] = C[j] PROVE i = j
  <2>1. ASSUME NEW k \in 1..(m + n) PROVE k \in 1..m \/ k \in (m + 1)..(m + n)
    BY <1>1
  <2>2. CASE i \in 1..m /\ j \in 1..m
    BY <2>2, <1>3, <1>4, <1>7 DEF Once, IsInjective
  <2>3. CASE i \in (m + 1)..(m + n) /\ j \in (m + 1)..(m + n)
    <3>1. T[i - m] = T[j - m] /\ i - m \in 1..n /\ j - m \in 1..n
      BY <2>3, <1>3, <1>7
    <3>2. i - m = j - m
      BY <3>1, <1>4 DEF Once, IsInjective
    <3>. QED
      BY <3>2, <1>1
  <2>4. ~(C[i][1] \in Y /\ C[j][1] \in Z) /\ ~(C[i][1] \in Z /\ C[j][1] \in Y)
    BY <1>7
  <2>. QED
    BY <2>1, <2>2, <2>3, <2>4, <1>5, <1>6
<1>8. IsInjective(C)
  BY <1>4, <1>7 DEF IsInjective
<1>9. \A k \in 1..Len(C) : C[k][1] \in Y \cup Z
  <2>1. ASSUME NEW k \in 1..(m + n) PROVE k \in 1..m \/ k \in (m + 1)..(m + n)
    BY <1>1
  <2>. QED
    BY <1>2, <1>5, <1>6, <2>1
<1>. QED
  BY <1>1, <1>2, <1>8, <1>9 DEF Once, C

(* A parsed box is one, and has tiles at every parsed level. *)
UrlAccepted(r) == ParseBbox(r.bbox) /\ ParseZoom(r.zoom)

(* The tiles of an accepted box: those of one level after the other. *)
LEMMA UrlTilesOnce ==
  ASSUME NEW r, UrlAccepted(r)
  PROVE  Once(UrlTiles(r), r.zoom.min..r.zoom.max)
<1>. DEFINE low == r.zoom.min  n == r.zoom.max - low + 1  box == r.bbox.box
            F == [k \in 1..n |-> TileRangeForZoom(box, low + k - 1)]
<1>0. ZoomOffsetsCount \in Nat \ {0} /\ Pole \in Nat /\ HalfTurn \in Nat \ {0}
  BY CountsAssumption, ScaleAssumption
<1>1. /\ low \in 0..(ZoomOffsetsCount - 1) /\ r.zoom.max \in 0..(ZoomOffsetsCount - 1)
      /\ low <= r.zoom.max
  BY DEF UrlAccepted, ParseZoom
<1>2. Corners(box)
  <2>1. /\ {box[1], box[3]} \subseteq (-HalfTurn)..HalfTurn
        /\ {box[2], box[4]} \subseteq (-Pole)..Pole
        /\ box[1] < box[3] /\ box[2] < box[4]
    BY DEF UrlAccepted, ParseBbox
  <2>2. box[1] \in Int /\ box[2] \in Int /\ box[3] \in Int /\ box[4] \in Int
    BY <2>1, <1>0
  <2>. HIDE DEF box
  <2>3. ASSUME NEW k \in 1..4 PROVE box[k] \in Int
    <3>1. k = 1 \/ k = 2 \/ k = 3 \/ k = 4
      OBVIOUS
    <3>. QED
      BY <3>1, <2>2
  <2>. QED
    BY <2>1, <2>3 DEF Corners
<1>3. UrlTiles(r) = FlattenSeq(F)
  BY DEF UrlTiles
<1>4. n \in Nat \ {0} /\ \A k \in 1..n : low + k - 1 \in 0..(ZoomOffsetsCount - 1)
  BY <1>0, <1>1
<1>5. Len(F) = n /\ DOMAIN F = 1..n
  BY <1>4
<1>. HIDE DEF F, n, box, low
<1>6. ASSUME NEW k \in 1..n PROVE Once(F[k], {low + k - 1})
  <2>1. F[k] = TileRangeForZoom(box, low + k - 1)
    BY DEF F
  <2>. QED
    BY <2>1, <1>2, <1>4, RangeOnce
<1>7. \A k \in 1..Len(F) : F[k] \in Seq(TileSet)
  BY <1>5, <1>6 DEF Once
<1>8. PICK f \in [1..Len(F) -> Seq(TileSet)] :
        /\ FlattenSeq(F) = f[Len(F)]
        /\ f[1] = F[1]
        /\ \A i \in 2..Len(F) : f[i] = f[i - 1] \o F[i]
  BY <1>4, <1>5, <1>7, FlattenFrom
<1>. DEFINE Good == {i \in Nat : i + 1 \in 1..n => Once(f[i + 1], low..(low + i))}
<1>9. 0 \in Good
  <2>1. {low + 1 - 1} = low..(low + 0) /\ 1 \in 1..n
    BY <1>1, <1>4
  <2>2. Once(F[1], {low + 1 - 1})
    BY <2>1, <1>6, Zenon
  <2>3. Once(f[1], low..(low + 0))
    BY <2>1, <2>2, <1>8, Zenon
  <2>. QED
    BY <2>3
<1>10. ASSUME NEW i \in Nat, i \in Good PROVE i + 1 \in Good
  <2>. SUFFICES ASSUME (i + 1) + 1 \in 1..n PROVE Once(f[(i + 1) + 1], low..(low + (i + 1)))
    OBVIOUS
  <2>1. i + 1 \in 1..n /\ ((i + 1) + 1) - 1 = i + 1 /\ (i + 1) + 1 \in 2..n
    BY <1>4
  <2>2. Once(f[i + 1], low..(low + i))
    BY <2>1, <1>10
  <2>. DEFINE z == low + ((i + 1) + 1) - 1
  <2>3. Once(F[(i + 1) + 1], {z})
    BY <1>6
  <2>4. /\ (low..(low + i)) \cap {z} = {}
        /\ (low..(low + i)) \cup {z} = low..(low + (i + 1))
    BY <1>1
  <2>5. f[(i + 1) + 1] = f[i + 1] \o F[(i + 1) + 1]
    BY <1>8, <1>5, <2>1, Zenon
  <2>. HIDE DEF z, Good
  <2>6. Once(f[i + 1] \o F[(i + 1) + 1], (low..(low + i)) \cup {z})
    BY <2>2, <2>3, <2>4, OnceAppend
  <2>. QED
    BY <2>4, <2>5, <2>6
<1>11. Nat \subseteq Good
  <2>. HIDE DEF Good
  <2>. QED
    BY <1>9, <1>10, SetInduction
<1>12. n - 1 \in Nat /\ (n - 1) + 1 = n /\ n \in 1..n /\ low + (n - 1) = r.zoom.max
  BY <1>1, <1>4 DEF n, low
<1>13. Once(f[n], low..(low + (n - 1)))
  BY <1>11, <1>12
<1>. QED
  BY <1>3, <1>5, <1>8, <1>12, <1>13 DEF low

(* The fixture of the synthetic source is a square of tiles. *)
LEMMA FixtureOnce == Once(AllTileCoords, {FixtureZoom})
<1>1. /\ FixtureZoom \in Nat /\ FixtureZoom \in 0..ZoomOffsetsCount
      /\ TilesPerSide[FixtureZoom] \in Nat \ {0}
  BY SidesPositive, FixtureAssumption, CountsAssumption
<1>. DEFINE G == GridSide
<1>2. G \in Nat \ {0}
  BY <1>1 DEF GridSide
<1>. HIDE DEF G
<1>3. Once(Grid(FixtureZoom, 0, 0, G, G), {FixtureZoom})
  BY <1>1, <1>2, GridOnce
<1>4. \A k \in 1..(G * G) : (k - 1) % G = 0 + ((k - 1) % G) /\ (k - 1) \div G = 0 + ((k - 1) \div G)
  <2>. SUFFICES ASSUME NEW k \in 1..(G * G)
       PROVE (k - 1) % G = 0 + ((k - 1) % G) /\ (k - 1) \div G = 0 + ((k - 1) \div G)
    OBVIOUS
  <2>1. k - 1 \in Int
    BY <1>2
  <2>2. (k - 1) % G \in Int /\ (k - 1) \div G \in Int
    BY <2>1, <1>2, DivMod
  <2>. QED
    BY <2>2
<1>5. AllTileCoords = Grid(FixtureZoom, 0, 0, G, G)
  BY <1>4, Zenon DEF AllTileCoords, Grid, G
<1>. QED
  BY <1>3, <1>5

----------------------------------------------------------------------------
(* What a request that nothing refuses comes to. *)

Accepted(r) == ClapAccepts(r) /\ AuthParses(r) /\ Describable(r)
Levels(r) ==
  IF r.source.scheme = "synthetic" THEN {FixtureZoom} ELSE r.zoom.min..r.zoom.max

(* An accepted request is either synthetic, or has a box and levels. *)
LEMMA AcceptedCases ==
  ASSUME NEW r, Accepted(r)
  PROVE  \/ r.source.scheme = "synthetic"
         \/ r.source.scheme = "http" /\ r.source.scheme # "synthetic" /\ UrlAccepted(r)
<1>. SUFFICES ASSUME r.source.scheme # "synthetic"
     PROVE r.source.scheme = "http" /\ UrlAccepted(r)
  BY DEF Accepted, Describable
<1>1. r.source.scheme = "http" /\ r.bbox.given /\ r.zoom.given
  BY DEF Accepted, Describable, UrlRequestComplete
<1>. QED
  BY <1>1 DEF Accepted, ClapAccepts, UrlAccepted

(* Its tiles are in the levels of its descriptor, each listed once. *)
LEMMA TilesOnce ==
  ASSUME NEW r, Accepted(r)
  PROVE  /\ Once(TilesOf(r), Levels(r))
         /\ Levels(r) = DescriptorFor(r).zoom_range[1]..DescriptorFor(r).zoom_range[2]
         /\ DescriptorFor(r).zoom_range[1] <= DescriptorFor(r).zoom_range[2]
         /\ \A z \in Levels(r) : z < ZoomOffsetsCount
         /\ DescriptorFor(r).tile_dim_px > 0
<1>0. ZoomOffsetsCount \in Nat \ {0} /\ MinDim \in Nat \ {0}
  BY CountsAssumption
<1>1. CASE r.source.scheme = "synthetic"
  <2>1. FixtureZoom \in 0..(ZoomOffsetsCount - 1) /\ FixtureDim \in Nat \ {0}
    BY FixtureAssumption
  <2>2. /\ DescriptorFor(r).zoom_range = <<FixtureZoom, FixtureZoom>>
        /\ DescriptorFor(r).tile_dim_px = FixtureDim
    BY <1>1 DEF DescriptorFor, SyntheticDescriptor, Descriptor
  <2>3. TilesOf(r) = AllTileCoords /\ Levels(r) = {FixtureZoom}
    BY <1>1 DEF TilesOf, Levels
  <2>4. FixtureZoom..FixtureZoom = {FixtureZoom} /\ FixtureZoom < ZoomOffsetsCount
    BY <1>0, <2>1
  <2>. QED
    BY <2>1, <2>2, <2>3, <2>4, FixtureOnce
<1>2. CASE r.source.scheme # "synthetic"
  <2>1. UrlAccepted(r)
    BY <1>2, AcceptedCases
  <2>2. /\ DescriptorFor(r).zoom_range = <<r.zoom.min, r.zoom.max>>
        /\ DescriptorFor(r).tile_dim_px = r.dim
    BY <1>2 DEF DescriptorFor, UrlTemplateDescriptor, Descriptor
  <2>3. TilesOf(r) = UrlTiles(r) /\ Levels(r) = r.zoom.min..r.zoom.max
    BY <1>2 DEF TilesOf, Levels
  <2>4. /\ r.zoom.min \in 0..(ZoomOffsetsCount - 1) /\ r.zoom.max \in 0..(ZoomOffsetsCount - 1)
        /\ r.zoom.min <= r.zoom.max
    BY <2>1 DEF UrlAccepted, ParseZoom
  <2>5. r.dim \in MinDim..MaxDim
    BY DEF Accepted, ClapAccepts, ParseTileDim
  <2>6. \A z \in r.zoom.min..r.zoom.max : z < ZoomOffsetsCount
    BY <1>0, <2>4
  <2>7. r.dim > 0
    BY <1>0, <2>5, CountsAssumption
  <2>. QED
    BY <2>1, <2>2, <2>3, <2>4, <2>6, <2>7, UrlTilesOnce
<1>. QED
  BY <1>1, <1>2

(* A list in which nothing comes twice, as the writer looks at it. *)
LEMMA OnceMembers ==
  ASSUME NEW T, NEW Z, Once(T, Z)
  PROVE  IsInjective(T) /\ T # <<>> /\ \A t \in ToSet(T) : t[1] \in Z
<1>1. T \in Seq(TileSet) /\ Len(T) \in Nat \ {0} /\ DOMAIN T = 1..Len(T)
  BY DEF Once
<1>2. T # <<>>
  BY <1>1
<1>3. ASSUME NEW t \in ToSet(T) PROVE t[1] \in Z
  <2>1. PICK k \in 1..Len(T) : t = T[k]
    BY <1>1 DEF ToSet
  <2>. QED
    BY <2>1 DEF Once
<1>. QED
  BY <1>2, <1>3 DEF Once

(* So the writer takes the metadata and the tiles. *)
LEMMA NothingToRefuse ==
  ASSUME NEW r, Accepted(r), OverrideParses(r), fetched = TilesOf(r)
  PROVE  LET m == BuildMetadata(r, DescriptorFor(r)) IN MetadataValid(m) /\ TilesTaken(m)
<1>. DEFINE d == DescriptorFor(r)  m == BuildMetadata(r, d)
<1>1. m.dim = d.tile_dim_px /\ m.zooms = d.zoom_range
  BY DEF BuildMetadata
<1>2. /\ Once(fetched, Levels(r)) /\ Levels(r) = d.zoom_range[1]..d.zoom_range[2]
      /\ d.zoom_range[1] <= d.zoom_range[2] /\ d.tile_dim_px > 0
      /\ \A z \in Levels(r) : z < ZoomOffsetsCount
  BY TilesOnce
<1>3. m.uuid # <<"override", "AllZero">>
  <2>1. m.uuid = IF Given(r.uuid) THEN <<"override", r.uuid>> ELSE <<"v5", CanonicalDescriptor(d)>>
    BY DEF BuildMetadata, DerivePackUuid
  <2>2. r.uuid # "AllZero"
    BY DEF OverrideParses
  <2>3. \A u, c : u # "AllZero" => /\ <<"override", u>> # <<"override", "AllZero">>
                                 /\ <<"v5", c>> # <<"override", "AllZero">>
    OBVIOUS
  <2>. HIDE DEF m, d
  <2>. QED
    BY <2>1, <2>2, <2>3
<1>. HIDE DEF m, d
<1>4. IsInjective(fetched) /\ \A t \in ToSet(fetched) : t[1] \in Levels(r)
  BY <1>2, OnceMembers
<1>5. \A t \in ToSet(fetched) : t[1] \in m.zooms[1]..m.zooms[2] /\ t[1] < ZoomOffsetsCount
  BY <1>1, <1>2, <1>4
<1>6. MetadataValid(m)
  BY <1>1, <1>2, <1>3, Zenon DEF MetadataValid
<1>7. TilesTaken(m)
  BY <1>4, <1>5, Zenon DEF TilesTaken
<1>. QED
  BY <1>6, <1>7 DEF m, d

----------------------------------------------------------------------------
(* The log of the commands. *)

IsLog(h) == h \in Seq({h[k] : k \in DOMAIN h})

(* Appending leaves what was logged where it was. *)
Extends(g, h, e) ==
  /\ IsLog(g) /\ Len(h) \in Nat /\ DOMAIN h = 1..Len(h)
  /\ Len(g) = Len(h) + 1 /\ DOMAIN g = 1..(Len(h) + 1)
  /\ g[Len(h) + 1] = e
  /\ \A k \in DOMAIN h : g[k] = h[k]

(* A log that gets one more entry is a log. *)
LEMMA Logged == ASSUME NEW h, IsLog(h), NEW e PROVE Extends(Append(h, e), h, e)
<1>. DEFINE g == Append(h, e)
            S == {h[k] : k \in DOMAIN h}
<1>1. h \in Seq(S \cup {e})
  BY DEF IsLog
<1>. HIDE DEF S, g
<1>2. /\ Len(h) \in Nat /\ DOMAIN h = 1..Len(h)
      /\ Len(g) = Len(h) + 1 /\ DOMAIN g = 1..(Len(h) + 1)
      /\ g[Len(h) + 1] = e
      /\ \A k \in DOMAIN h : g[k] = h[k]
      /\ g \in Seq(S \cup {e})
  BY <1>1 DEF g
<1>. DEFINE R == {g[k] : k \in DOMAIN g}
<1>3. \A k \in 1..Len(g) : g[k] \in R
  BY <1>2
<1>. HIDE DEF R
<1>4. g \in Seq(R)
  <2>1. g \in [1..Len(g) -> S \cup {e}] /\ Len(g) \in Nat
    BY <1>2, LenProperties
  <2>2. g \in [1..Len(g) -> R]
    BY <1>3, <2>1
  <2>. QED
    BY <2>1, <2>2, SeqDef
<1>5. IsLog(g)
  BY <1>4 DEF IsLog, R
<1>. QED
  BY <1>2, <1>5 DEF Extends, g

(* What a pack of make is, given the request. *)
MadeFrom(r, a) ==
  /\ a.pack.header = BuildMetadata(r, DescriptorFor(r))
  /\ a.pack.tiles = ToSet(TilesOf(r))
  /\ Consistent(a.pack)
  /\ a.pack.date = 0 => a.warned \/ r.timestamp.given \/ r.source.scheme = "synthetic"
Debugged(r) ==
  IF r.bytes THEN CanonicalDescriptor(DescriptorFor(r)) ELSE DerivePackUuid(DescriptorFor(r))

(* The sizes a pack of make can have, and that it was refused or published *)
(* for one of them.                                                        *)
CanBeTooLarge(r) == \E offset \in OffsetsOf(r) : offset > U32Max
CanFit(r) == \E offset \in OffsetsOf(r) : offset <= U32Max
RightSize(h) ==
  /\ h.why # "Writer"
  /\ h.why = "PackTooLarge" => CanBeTooLarge(h.request)
  /\ h.why = "Published" => CanFit(h.request)

(* What a returned command tells, whatever else was asked. *)
RecordOK(h) ==
  /\ h.request.cmd = "make" => RightSize(h)
  /\ h.request.cmd = "make" /\ h.exit = 0 => Accepted(h.request) /\ MadeFrom(h.request, h.answer)
  /\ h.request.cmd = "debug" =>
       \/ h.exit # 0 /\ ~Accepted(h.request)
       \/ h.exit = 0 /\ Accepted(h.request) /\ h.answer = Debugged(h.request)
  /\ h.request.cmd = "library" =>
       /\ h.request.sources \in Libraries
       /\ h.answer = DerivePackUuid(LibraryDescriptor(h.request.sources))
RecordsOK == IsLog(history) /\ \A k \in DOMAIN history : RecordOK(history[k])

(* Where the running make is: the tiles it has and those it has yet to     *)
(* fetch are those of its request, in their order.                         *)
Running ==
  /\ step \in {"Idle", "Fetch", "Build"}
  /\ step # "Idle" =>
       /\ request.cmd = "make" /\ Accepted(request) /\ OverrideParses(request)
       /\ plan = [descriptor |-> DescriptorFor(request), todo |-> plan.todo]
       /\ fetched \in Seq(TileSet) /\ plan.todo \in Seq(TileSet)
       /\ fetched \o plan.todo = TilesOf(request)
  /\ step = "Build" => fetched = TilesOf(request)

LogInv == Running /\ RecordsOK

(* A command that returns leaves a true entry. *)
LEMMA ReturnKeeps ==
  ASSUME RecordsOK, NEW r, NEW exit, NEW why, NEW answer, Return(r, exit, why, answer),
         RecordOK([request |-> r, exit |-> exit, why |-> why, answer |-> answer])
  PROVE  LogInv'
<1>. DEFINE e == [request |-> r, exit |-> exit, why |-> why, answer |-> answer]
<1>1. history' = Append(history, e) /\ step' = "Idle"
  BY DEF Return
<1>2. RecordOK(e) /\ IsLog(history)
  BY DEF RecordsOK
<1>. HIDE DEF e
<1>3. /\ IsLog(history') /\ Len(history) \in Nat /\ DOMAIN history = 1..Len(history)
      /\ DOMAIN history' = 1..(Len(history) + 1) /\ history'[Len(history) + 1] = e
      /\ \A k \in DOMAIN history : history'[k] = history[k]
  <2>1. Extends(Append(history, e), history, e)
    BY <1>2, Logged
  <2>. QED
    BY <1>1, <2>1 DEF Extends
<1>4. ASSUME NEW k \in DOMAIN history' PROVE RecordOK(history'[k])
  <2>1. k \in DOMAIN history \/ k = Len(history) + 1
    BY <1>3
  <2>2. CASE k \in DOMAIN history
    BY <2>2, <1>3 DEF RecordsOK
  <2>3. CASE k = Len(history) + 1
    BY <2>3, <1>2, <1>3
  <2>. QED
    BY <2>1, <2>2, <2>3
<1>5. Running'
  BY <1>1 DEF Running
<1>. QED
  BY <1>3, <1>4, <1>5 DEF LogInv, RecordsOK

Excuses == {"Usage", "Arguments", "Cancelled", "UrlTemplate", "DecodeOrIo"}

(* Commands that only say why they were refused. *)
LEMMA RefusalOK ==
  ASSUME NEW r, NEW exit, NEW why \in Excuses, exit # 0,
         r.cmd = "make" \/ (r.cmd = "debug" /\ ~Accepted(r))
  PROVE  RecordOK([request |-> r, exit |-> exit, why |-> why, answer |-> <<>>])
<1>1. why # "Writer" /\ why # "PackTooLarge" /\ why # "Published"
  BY DEF Excuses
<1>2. RightSize([request |-> r, exit |-> exit, why |-> why, answer |-> <<>>])
  BY <1>1 DEF RightSize
<1>. QED
  BY <1>2 DEF RecordOK

(* Without a step of the make, nothing about it changes. *)
LEMMA RunningSame ==
  ASSUME Running, UNCHANGED <<step, request, plan, fetched>>
  PROVE  Running'
BY DEF Running

(* make starts with the tiles of its request. *)
LEMMA MakeKeeps == ASSUME LogInv, Make PROVE LogInv'
<1>1. PICK r \in Asked({"make"}) :
        /\ ClapAccepts(r) /\ AuthParses(r) /\ OverrideParses(r) /\ Describable(r)
        /\ request' = r
        /\ IF r.source.scheme = "synthetic"
             THEN /\ step' = "Build" /\ fetched' = AllTileCoords
                  /\ plan' = [descriptor |-> SyntheticDescriptor(r), todo |-> <<>>]
             ELSE /\ step' = "Fetch" /\ fetched' = <<>>
                  /\ plan' = [descriptor |-> UrlTemplateDescriptor(r), todo |-> UrlTiles(r)]
  BY DEF Make
<1>2. r.cmd = "make"
  BY DEF Asked
<1>3. Accepted(r) /\ OverrideParses(r)
  BY <1>1 DEF Accepted
<1>4. TilesOf(r) \in Seq(TileSet)
  BY <1>3, TilesOnce DEF Once
<1>5. ASSUME r.source.scheme = "synthetic" PROVE Running'
  <2>1. /\ step' = "Build" /\ fetched' = AllTileCoords /\ request' = r
        /\ plan' = [descriptor |-> SyntheticDescriptor(r), todo |-> <<>>] /\ plan'.todo = <<>>
    BY <1>1, <1>5
  <2>2. TilesOf(r) = AllTileCoords /\ DescriptorFor(r) = SyntheticDescriptor(r)
    BY <1>5 DEF TilesOf, DescriptorFor
  <2>3. AllTileCoords \in Seq(TileSet) /\ AllTileCoords \o <<>> = AllTileCoords
    BY <1>4, <2>2, ConcatEmptySeq
  <2>4. <<>> \in Seq(TileSet)
    OBVIOUS
  <2>. QED
    BY <1>2, <1>3, <2>1, <2>2, <2>3, <2>4 DEF Running
<1>6. ASSUME r.source.scheme # "synthetic" PROVE Running'
  <2>1. /\ step' = "Fetch" /\ fetched' = <<>> /\ request' = r
        /\ plan' = [descriptor |-> UrlTemplateDescriptor(r), todo |-> UrlTiles(r)]
        /\ plan'.todo = UrlTiles(r)
    BY <1>1, <1>6
  <2>2. TilesOf(r) = UrlTiles(r) /\ DescriptorFor(r) = UrlTemplateDescriptor(r)
    BY <1>6 DEF TilesOf, DescriptorFor
  <2>3. UrlTiles(r) \in Seq(TileSet) /\ <<>> \o UrlTiles(r) = UrlTiles(r)
    BY <1>4, <2>2, ConcatEmptySeq
  <2>4. <<>> \in Seq(TileSet)
    OBVIOUS
  <2>. QED
    BY <1>2, <1>3, <2>1, <2>2, <2>3, <2>4 DEF Running
<1>7. RecordsOK'
  <2>1. UNCHANGED history
    BY DEF Make
  <2>. QED
    BY <2>1 DEF LogInv, RecordsOK
<1>. QED
  BY <1>5, <1>6, <1>7 DEF LogInv

(* What is refused is said to be refused. *)
LEMMA RefusedKeeps == ASSUME LogInv, Refused PROVE LogInv'
<1>1. PICK r \in Asked({"make", "debug"}) :
        \/ ~ClapAccepts(r) /\ Return(r, 2, "Usage", <<>>)
        \/ /\ ClapAccepts(r)
           /\ \/ ~AuthParses(r)
              \/ r.cmd = "make" /\ ~(OverrideParses(r) /\ RateParses(r))
              \/ ~Describable(r)
           /\ Return(r, 1, "Arguments", <<>>)
  BY DEF Refused
<1>2. r.cmd = "make" \/ (r.cmd = "debug" /\ r.cmd # "make")
  BY DEF Asked
<1>3. r.cmd = "make" \/ (r.cmd = "debug" /\ ~Accepted(r))
  BY <1>1, <1>2 DEF Accepted
<1>4. PICK exit, why : exit # 0 /\ why \in Excuses /\ Return(r, exit, why, <<>>)
  <2>1. CASE Return(r, 2, "Usage", <<>>)
    <3>1. 2 # 0 /\ "Usage" \in Excuses
      BY DEF Excuses
    <3>. QED
      BY <2>1, <3>1
  <2>2. CASE Return(r, 1, "Arguments", <<>>)
    <3>1. 1 # 0 /\ "Arguments" \in Excuses
      BY DEF Excuses
    <3>. QED
      BY <2>2, <3>1
  <2>. QED
    BY <1>1, <2>1, <2>2
<1>5. RecordOK([request |-> r, exit |-> exit, why |-> why, answer |-> <<>>])
  BY <1>3, <1>4, RefusalOK
<1>6. RecordsOK
  BY DEF LogInv
<1>. QED
  BY <1>4, <1>5, <1>6, ReturnKeeps

(* The tile moves from what is to be fetched to what is. *)
LEMMA MoveHead ==
  ASSUME NEW S, NEW f \in Seq(S), NEW t \in Seq(S), t # <<>>
  PROVE  /\ Append(f, Head(t)) \in Seq(S) /\ Tail(t) \in Seq(S)
         /\ Append(f, Head(t)) \o Tail(t) = f \o t
<1>1. Head(t) \in S /\ Tail(t) \in Seq(S) /\ Len(t) \in Nat \ {0} /\ Len(Tail(t)) = Len(t) - 1
  OBVIOUS
<1>2. Append(f, Head(t)) \in Seq(S) /\ Len(Append(f, Head(t))) = Len(f) + 1 /\ Len(f) \in Nat
  BY <1>1
<1>. DEFINE a == Append(f, Head(t)) \o Tail(t)  b == f \o t
<1>3. a \in Seq(S) /\ b \in Seq(S) /\ Len(a) = Len(f) + Len(t) /\ Len(b) = Len(f) + Len(t)
  BY <1>1, <1>2
<1>4. ASSUME NEW i \in 1..Len(a) PROVE a[i] = b[i]
  <2>1. CASE i <= Len(f)
    BY <2>1, <1>1, <1>2, <1>3
  <2>2. CASE i = Len(f) + 1
    <3>1. a[i] = Head(t)
      BY <2>2, <1>1, <1>2, <1>3
    <3>2. b[i] = t[1]
      BY <2>2, <1>1, <1>2, <1>3
    <3>. QED
      BY <3>1, <3>2
  <2>3. CASE i > Len(f) + 1
    <3>1. a[i] = Tail(t)[i - (Len(f) + 1)]
      BY <2>3, <1>1, <1>2, <1>3
    <3>2. b[i] = t[i - Len(f)]
      BY <2>3, <1>1, <1>2, <1>3
    <3>3. Tail(t)[i - (Len(f) + 1)] = t[(i - (Len(f) + 1)) + 1]
      BY <2>3, <1>1, <1>2, <1>3
    <3>4. (i - (Len(f) + 1)) + 1 = i - Len(f)
      BY <1>2, <1>3
    <3>. QED
      BY <3>1, <3>2, <3>3, <3>4
  <2>. QED
    BY <2>1, <2>2, <2>3, <1>2, <1>3
<1>5. a = b
  <2>. HIDE DEF a, b
  <2>. QED
    BY <1>3, <1>4, SeqEqual
<1>. QED
  BY <1>1, <1>2, <1>5

(* A tile that is fetched goes from one list to the other. *)
LEMMA FetchKeeps == ASSUME LogInv, Fetch PROVE LogInv'
<1>1. /\ step = "Fetch" /\ plan.todo # <<>>
      /\ fetched' = Append(fetched, Head(plan.todo))
      /\ plan' = [plan EXCEPT !.todo = Tail(@)]
      /\ UNCHANGED <<step, request, out, history>>
  BY DEF Fetch
<1>2. /\ request.cmd = "make" /\ Accepted(request) /\ OverrideParses(request)
      /\ plan = [descriptor |-> DescriptorFor(request), todo |-> plan.todo]
      /\ fetched \in Seq(TileSet) /\ plan.todo \in Seq(TileSet)
      /\ fetched \o plan.todo = TilesOf(request)
  BY <1>1 DEF LogInv, Running
<1>. DEFINE todo == plan.todo
<1>3. /\ Append(fetched, Head(todo)) \in Seq(TileSet) /\ Tail(todo) \in Seq(TileSet)
      /\ Append(fetched, Head(todo)) \o Tail(todo) = fetched \o todo
  <2>1. todo \in Seq(TileSet) /\ todo # <<>>
    BY <1>1, <1>2
  <2>2. ASSUME NEW f \in Seq(TileSet), NEW t \in Seq(TileSet), t # <<>>
        PROVE  /\ Append(f, Head(t)) \in Seq(TileSet) /\ Tail(t) \in Seq(TileSet)
               /\ Append(f, Head(t)) \o Tail(t) = f \o t
    BY <2>2, MoveHead
  <2>. HIDE DEF todo
  <2>. QED
    BY <2>1, <1>2, <2>2
<1>4. fetched' = Append(fetched, Head(todo)) /\ plan'.todo = Tail(todo)
      /\ plan' = [descriptor |-> DescriptorFor(request), todo |-> Tail(todo)]
  <2>1. ASSUME NEW d, NEW t, NEW p, p = [descriptor |-> d, todo |-> t]
        PROVE  [p EXCEPT !.todo = Tail(p.todo)] = [descriptor |-> d, todo |-> Tail(t)]
    <3>1. ASSUME NEW u PROVE [p EXCEPT !.todo = u] = [descriptor |-> d, todo |-> u]
      BY <2>1
    <3>2. p.todo = t
      BY <2>1
    <3>. QED
      BY <3>1, <3>2, Zenon
  <2>2. plan' = [plan EXCEPT !.todo = Tail(plan.todo)]
    BY <1>1
  <2>3. plan = [descriptor |-> DescriptorFor(request), todo |-> todo]
    BY <1>2
  <2>. HIDE DEF todo
  <2>4. plan' = [descriptor |-> DescriptorFor(request), todo |-> Tail(todo)]
    BY <2>1, <2>2, <2>3
  <2>5. fetched' = Append(fetched, Head(todo))
    BY <1>1 DEF todo
  <2>. QED
    BY <2>4, <2>5
<1>5. fetched' \o plan'.todo = TilesOf(request')
      /\ fetched' \in Seq(TileSet) /\ plan'.todo \in Seq(TileSet)
      /\ plan' = [descriptor |-> DescriptorFor(request'), todo |-> plan'.todo]
  BY <1>1, <1>2, <1>3, <1>4
<1>6. Running'
  <2>1. step' = "Fetch" /\ request' = request
    BY <1>1
  <2>2. Accepted(request)' /\ OverrideParses(request)' /\ request'.cmd = "make"
    BY <1>2, <2>1
  <2>. QED
    BY <1>5, <2>1, <2>2 DEF Running
<1>7. RecordsOK'
  BY <1>1 DEF LogInv, RecordsOK
<1>. QED
  BY <1>6, <1>7 DEF LogInv

(* A prefetch that stops publishes nothing. *)
LEMMA FetchStopsKeeps == ASSUME LogInv, FetchStops PROVE LogInv'
<1>1. request.cmd = "make" /\ RecordsOK
  BY DEF LogInv, Running, FetchStops
<1>2. CASE Return(request, 130, "Cancelled", <<>>)
  <2>1. 130 # 0 /\ "Cancelled" \in Excuses
    BY DEF Excuses
  <2>2. RecordOK([request |-> request, exit |-> 130, why |-> "Cancelled", answer |-> <<>>])
    BY <1>1, <2>1, RefusalOK
  <2>. QED
    BY <1>1, <1>2, <2>2, ReturnKeeps
<1>3. CASE Return(request, 1, "UrlTemplate", <<>>)
  <2>1. 1 # 0 /\ "UrlTemplate" \in Excuses
    BY DEF Excuses
  <2>2. RecordOK([request |-> request, exit |-> 1, why |-> "UrlTemplate", answer |-> <<>>])
    BY <1>1, <2>1, RefusalOK
  <2>. QED
    BY <1>1, <1>3, <2>2, ReturnKeeps
<1>. QED
  BY <1>2, <1>3 DEF FetchStops

(* At the end of the prefetch all the tiles are there. *)
LEMMA EndOfFetchKeeps == ASSUME LogInv, EndOfFetch PROVE LogInv'
<1>1. /\ step = "Fetch" /\ plan.todo = <<>> /\ step' = "Build"
      /\ UNCHANGED <<request, plan, fetched, history>>
  BY DEF EndOfFetch
<1>2. Running
  BY DEF LogInv
<1>3. fetched \in Seq(TileSet) /\ fetched \o plan.todo = TilesOf(request)
  BY <1>1, <1>2 DEF Running
<1>4. fetched \o <<>> = fetched
  BY <1>3, ConcatEmptySeq
<1>5. fetched' = TilesOf(request)'
  BY <1>1, <1>3, <1>4
<1>6. Running'
  BY <1>1, <1>2, <1>5 DEF Running
<1>7. RecordsOK'
  BY <1>1 DEF LogInv, RecordsOK
<1>. QED
  BY <1>6, <1>7 DEF LogInv

(* The edge the pictures are decoded with is the one in the descriptor. *)
LEMMA DimExpected ==
  ASSUME Running, step = "Build"
  PROVE  ExpectedDim = DescriptorFor(request).tile_dim_px
<1>1. plan.descriptor = DescriptorFor(request)
  BY DEF Running
<1>2. CASE request.source.scheme = "synthetic"
  BY <1>2 DEF ExpectedDim, DescriptorFor, SyntheticDescriptor, Descriptor
<1>3. CASE request.source.scheme # "synthetic"
  BY <1>1, <1>3 DEF ExpectedDim
<1>. QED
  BY <1>2, <1>3

(* The pack that a build publishes is the one its request asked for. *)
LEMMA PackMade ==
  ASSUME Running, step = "Build"
  PROVE  MadeFrom(request, [pack |-> Pack, warned |-> Warned])
<1>1. /\ Accepted(request) /\ fetched = TilesOf(request)
      /\ plan.descriptor = DescriptorFor(request)
  BY DEF Running
<1>. DEFINE d == DescriptorFor(request)
<1>2. Pack.header = BuildMetadata(request, d) /\ Pack.tiles = ToSet(TilesOf(request))
  BY <1>1 DEF Pack
<1>3. Pack.length = RawTileLen(d.tile_dim_px, request.pixel)
  <2>1. ExpectedDim = d.tile_dim_px
    BY DimExpected
  <2>. QED
    BY <2>1 DEF Pack
<1>4. Pack.header.dim = d.tile_dim_px /\ Pack.header.pixel = request.pixel
  BY <1>2 DEF BuildMetadata
<1>5. Consistent(Pack)
  BY <1>3, <1>4 DEF Consistent
<1>6. ASSUME Pack.date = 0, ~request.timestamp.given, request.source.scheme # "synthetic"
      PROVE  Warned
  <2>1. newest = 0
    BY <1>6 DEF Pack
  <2>2. request.source.scheme = "http"
    BY <1>1, <1>6, AcceptedCases
  <2>3. fetched # <<>>
    <3>1. Once(TilesOf(request), Levels(request))
      BY <1>1, TilesOnce
    <3>. QED
      BY <3>1, <1>1, OnceMembers
  <2>. QED
    BY <1>6, <2>1, <2>2, <2>3 DEF Warned
<1>. HIDE DEF d
<1>7. \A a : a.pack = Pack /\ (a.warned <=> Warned) => MadeFrom(request, a)
  BY <1>2, <1>5, <1>6 DEF MadeFrom, d
<1>. DEFINE a == [pack |-> Pack, warned |-> Warned]
<1>8. a.pack = Pack /\ (a.warned <=> Warned)
  OBVIOUS
<1>. QED
  BY <1>7, <1>8

(* The pack published is the one asked for. *)
LEMMA BuildKeeps == ASSUME LogInv, Build PROVE LogInv'
<1>1. Running /\ RecordsOK /\ step = "Build"
  BY DEF LogInv, Build
<1>2. /\ request.cmd = "make" /\ Accepted(request) /\ OverrideParses(request)
      /\ fetched = TilesOf(request) /\ plan.descriptor = DescriptorFor(request)
  BY <1>1 DEF Running
<1>3. /\ MetadataValid(BuildMetadata(request, plan.descriptor))
      /\ TilesTaken(BuildMetadata(request, plan.descriptor))
  <2>1. /\ MetadataValid(BuildMetadata(request, DescriptorFor(request)))
        /\ TilesTaken(BuildMetadata(request, DescriptorFor(request)))
    BY <1>2, NothingToRefuse
  <2>. QED
    BY <1>2, <2>1
<1>4. \/ /\ CanFit(request)
         /\ Return(request, 0, "Published", [pack |-> Pack, warned |-> Warned])
      \/ CanBeTooLarge(request) /\ Return(request, 1, "PackTooLarge", <<>>)
      \/ Return(request, 130, "Cancelled", <<>>)
      \/ Return(request, 1, "DecodeOrIo", <<>>)
  <2>. DEFINE offsets == ExtensionsOffsets(Len(fetched), RawTileLen(ExpectedDim, request.pixel),
                                           request.compression)
  <2>1. \/ Return(request, 130, "Cancelled", <<>>)
        \/ Return(request, 1, "DecodeOrIo", <<>>)
        \/ \E offset \in offsets :
             IF offset > U32Max
               THEN Return(request, 1, "PackTooLarge", <<>>)
               ELSE Return(request, 0, "Published", [pack |-> Pack, warned |-> Warned])
    BY <1>3, Zenon DEF Build
  <2>2. offsets = OffsetsOf(request)
    <3>1. ExpectedDim = DescriptorFor(request).tile_dim_px
      BY <1>1, DimExpected
    <3>. QED
      BY <1>2, <3>1 DEF OffsetsOf
  <2>3. ASSUME NEW offset \in offsets, ~(offset > U32Max) PROVE offset <= U32Max
    <3>1. offset \in Int
      BY DEF ExtensionsOffsets
    <3>. QED
      BY <2>3, <3>1, SizesAssumption
  <2>. HIDE DEF offsets
  <2>. QED
    BY <2>1, <2>2, <2>3, Zenon DEF CanFit, CanBeTooLarge
<1>5. ASSUME CanFit(request),
             Return(request, 0, "Published", [pack |-> Pack, warned |-> Warned])
      PROVE  LogInv'
  <2>. DEFINE a == [pack |-> Pack, warned |-> Warned]
  <2>1. MadeFrom(request, a)
    BY <1>1, PackMade
  <2>2. Return(request, 0, "Published", a)
    BY <1>5
  <2>. HIDE DEF a
  <2>3. RightSize([request |-> request, exit |-> 0, why |-> "Published", answer |-> a])
    BY <1>5 DEF RightSize
  <2>4. RecordOK([request |-> request, exit |-> 0, why |-> "Published", answer |-> a])
    BY <1>2, <2>1, <2>3 DEF RecordOK
  <2>. QED
    BY <1>1, <2>2, <2>4, ReturnKeeps
<1>6. CASE Return(request, 130, "Cancelled", <<>>)
  <2>1. 130 # 0 /\ "Cancelled" \in Excuses
    BY DEF Excuses
  <2>2. RecordOK([request |-> request, exit |-> 130, why |-> "Cancelled", answer |-> <<>>])
    BY <1>2, <2>1, RefusalOK
  <2>. QED
    BY <1>1, <1>6, <2>2, ReturnKeeps
<1>7. CASE Return(request, 1, "DecodeOrIo", <<>>)
  <2>1. 1 # 0 /\ "DecodeOrIo" \in Excuses
    BY DEF Excuses
  <2>2. RecordOK([request |-> request, exit |-> 1, why |-> "DecodeOrIo", answer |-> <<>>])
    BY <1>2, <2>1, RefusalOK
  <2>. QED
    BY <1>1, <1>7, <2>2, ReturnKeeps
<1>8. ASSUME CanBeTooLarge(request), Return(request, 1, "PackTooLarge", <<>>) PROVE LogInv'
  <2>. DEFINE e == [request |-> request, exit |-> 1, why |-> "PackTooLarge", answer |-> <<>>]
  <2>1. RightSize(e)
    BY <1>8 DEF RightSize
  <2>2. RecordOK(e)
    BY <1>2, <2>1 DEF RecordOK
  <2>. QED
    BY <1>1, <1>8, <2>2, ReturnKeeps
<1>. QED
  BY <1>4, <1>5, <1>6, <1>7, <1>8

(* debug prints the descriptor that make would use. *)
LEMMA DebugKeeps == ASSUME LogInv, DebugUuid PROVE LogInv'
<1>1. PICK r \in Asked({"debug"}) :
        /\ ClapAccepts(r) /\ AuthParses(r) /\ Describable(r)
        /\ LET d == DescriptorFor(DebugOptions(r))
           IN Return(r, 0, "Printed", IF r.bytes THEN CanonicalDescriptor(d) ELSE DerivePackUuid(d))
  BY DEF DebugUuid
<1>2. r.cmd = "debug" /\ r.cmd # "make" /\ r.cmd # "library"
  BY DEF Asked
<1>3. Return(r, 0, "Printed", Debugged(r))
  BY <1>1 DEF Debugged, DebugOptions
<1>4. Accepted(r)
  BY <1>1 DEF Accepted
<1>5. RecordOK([request |-> r, exit |-> 0, why |-> "Printed", answer |-> Debugged(r)])
  BY <1>2, <1>4 DEF RecordOK
<1>6. RecordsOK
  BY DEF LogInv
<1>. QED
  BY <1>3, <1>5, <1>6, ReturnKeeps

Shown == [uuid |-> out.header.uuid, consistent |-> Consistent(out),
          date |-> out.date, tiles |-> Cardinality(out.tiles), sections |-> out.sections]

(* inspect and the library do not touch a make. *)
LEMMA InspectKeeps == ASSUME LogInv, Inspect PROVE LogInv'
<1>1. PICK r \in Asked({"inspect"}) :
        IF out = NoPack THEN Return(r, 1, "Io", <<>>) ELSE Return(r, 0, "Printed", Shown)
  BY DEF Inspect, Shown
<1>2. r.cmd = "inspect"
  BY DEF Asked
<1>3. ASSUME NEW exit, NEW why, NEW answer
      PROVE RecordOK([request |-> r, exit |-> exit, why |-> why, answer |-> answer])
  BY <1>2, <1>3 DEF RecordOK
<1>4. RecordsOK
  BY DEF LogInv
<1>5. CASE Return(r, 1, "Io", <<>>)
  BY <1>3, <1>4, <1>5, ReturnKeeps
<1>6. CASE Return(r, 0, "Printed", Shown)
  BY <1>3, <1>4, <1>6, ReturnKeeps
<1>. QED
  BY <1>1, <1>5, <1>6

Named(s) ==
  [request |-> [cmd |-> "library", sources |-> s], exit |-> 0, why |-> "Named",
   answer |-> DerivePackUuid(LibraryDescriptor(s))]

(* Two names are all that a linking program leaves in the log. *)
LEMMA LibraryLogs ==
  ASSUME Library
  PROVE  \E s, t \in Libraries : history' = <<Named(s), Named(t)>>
<1>1. PICK s \in Libraries, t \in Libraries :
        history' = [k \in 1..2 |->
         [request |-> [cmd |-> "library", sources |-> <<s, t>>[k]], exit |-> 0,
          why |-> "Named",
          answer |-> DerivePackUuid(LibraryDescriptor(<<s, t>>[k]))]]
  BY DEF Library
<1>2. history' = [k \in 1..2 |-> Named(<<s, t>>[k])]
  BY <1>1, Zenon DEF Named
<1>3. ASSUME NEW a, NEW b PROVE [k \in 1..2 |-> <<a, b>>[k]] = <<a, b>>
  OBVIOUS
<1>4. [k \in 1..2 |-> Named(<<s, t>>[k])] = <<Named(s), Named(t)>>
  <2>1. \A k \in 1..2 : k = 1 \/ k = 2
    OBVIOUS
  <2>2. <<s, t>>[1] = s /\ <<s, t>>[2] = t
    OBVIOUS
  <2>3. \A k \in 1..2 : Named(<<s, t>>[k]) = <<Named(s), Named(t)>>[k]
    BY <2>1, <2>2
  <2>. QED
    BY <2>3
<1>. QED
  BY <1>2, <1>4

(* The names a library derives are those of its own descriptors. *)
LEMMA LibraryKeeps == ASSUME LogInv, Library PROVE LogInv'
<1>1. PICK s \in Libraries, t \in Libraries : history' = <<Named(s), Named(t)>>
  BY LibraryLogs
<1>2. RecordOK(Named(s)) /\ RecordOK(Named(t))
  BY DEF RecordOK, Named
<1>3. /\ DOMAIN history' = 1..2 /\ history'[1] = Named(s) /\ history'[2] = Named(t)
      /\ history' \in Seq({Named(s), Named(t)})
  BY <1>1
<1>4. {history'[k] : k \in DOMAIN history'} = {Named(s), Named(t)}
  BY <1>3
<1>5. RecordsOK'
  <2>1. IsLog(history')
    BY <1>3, <1>4 DEF IsLog
  <2>2. ASSUME NEW k \in DOMAIN history' PROVE RecordOK(history'[k])
    <3>1. k = 1 \/ k = 2
      BY <1>3
    <3>. QED
      BY <3>1, <1>2, <1>3
  <2>. QED
    BY <2>1, <2>2 DEF RecordsOK
<1>6. Running'
  BY RunningSame DEF LogInv, Library
<1>. QED
  BY <1>5, <1>6 DEF LogInv

(* Nothing is logged at first. *)
LEMMA LogInvInit == Init => LogInv
<1>. SUFFICES ASSUME Init PROVE LogInv
  OBVIOUS
<1>1. IsLog(history)
  BY DEF Init, IsLog
<1>2. \A k \in DOMAIN history : FALSE
  BY DEF Init
<1>. QED
  BY <1>1, <1>2 DEF Init, LogInv, Running, RecordsOK

(* Every step keeps the log true. *)
LEMMA LogInvNext == LogInv /\ [Next]_vars => LogInv'
<1>. SUFFICES ASSUME LogInv, [Next]_vars PROVE LogInv'
  OBVIOUS
<1>1. CASE Make  BY <1>1, MakeKeeps
<1>2. CASE Refused  BY <1>2, RefusedKeeps
<1>3. CASE Fetch  BY <1>3, FetchKeeps
<1>4. CASE FetchStops  BY <1>4, FetchStopsKeeps
<1>5. CASE EndOfFetch  BY <1>5, EndOfFetchKeeps
<1>6. CASE Build  BY <1>6, BuildKeeps
<1>7. CASE DebugUuid  BY <1>7, DebugKeeps
<1>8. CASE Inspect  BY <1>8, InspectKeeps
<1>9. CASE Library  BY <1>9, LibraryKeeps
<1>10. CASE UNCHANGED vars
  <2>1. Running'
    BY <1>10, RunningSame DEF LogInv, vars
  <2>2. RecordsOK'
    BY <1>10 DEF LogInv, RecordsOK, vars
  <2>. QED
    BY <2>1, <2>2 DEF LogInv
<1>. QED
  BY <1>1, <1>2, <1>3, <1>4, <1>5, <1>6, <1>7, <1>8, <1>9, <1>10 DEF Next

(* What a request comes to, what the running make has of it, and what the  *)
(* returned commands told: the invariant the rest follows from.            *)
THEOREM LogHolds == Spec => []LogInv
  BY LogInvInit, LogInvNext, PTL DEF Spec

(* After its tiles were fetched, a pack is refused by the writer only where *)
(* one of its size can be too large, and published only where it can fit.  *)
THEOREM OnlySizeRefusedLateHolds == Spec => []OnlySizeRefusedLate
<1>1. LogInv => OnlySizeRefusedLate
  <2>. SUFFICES ASSUME LogInv, NEW k \in Returned("make") PROVE RightSize(history[k])
    BY Zenon DEF OnlySizeRefusedLate, RightSize, CanBeTooLarge, CanFit
  <2>1. k \in DOMAIN history /\ history[k].request.cmd = "make"
    BY DEF Returned
  <2>. QED
    BY <2>1 DEF LogInv, RecordsOK, RecordOK
<1>. QED
  BY <1>1, LogHolds, PTL

(* What is described alike is accepted and described alike. *)
LEMMA DescribedAlike ==
  ASSUME NEW r, NEW s, SameDescribed(r, s), Accepted(r), s.cmd = "debug"
  PROVE  Accepted(s) /\ DescriptorFor(s) = DescriptorFor(r)
<1>1. /\ s.source = r.source /\ s.bbox = r.bbox /\ s.zoom = r.zoom /\ s.dim = r.dim
      /\ s.headers = r.headers /\ s.query = r.query /\ s.pixel = r.pixel
  BY DEF SameDescribed
<1>2. ClapAccepts(s)
  <2>1. s.cmd # "make"
    OBVIOUS
  <2>. QED
    BY <1>1, <2>1, Zenon DEF Accepted, ClapAccepts
<1>3. AuthParses(s)
  BY <1>1, Zenon DEF Accepted, AuthParses
<1>4. Describable(s)
  BY <1>1, Zenon DEF Accepted, Describable, UrlRequestComplete
<1>5. SyntheticDescriptor(s) = SyntheticDescriptor(r)
  BY <1>1, Zenon DEF SyntheticDescriptor
<1>6. UrlTemplateDescriptor(s) = UrlTemplateDescriptor(r)
  BY <1>1, Zenon DEF UrlTemplateDescriptor, AuthKindsFromOptions
<1>. QED
  BY <1>1, <1>2, <1>3, <1>4, <1>5, <1>6, Zenon DEF Accepted, DescriptorFor

(* `debug uuid` prints the name, or the bytes, of the pack that make       *)
(* publishes, and refuses nothing that make builds.                        *)
THEOREM DebugPredictsMakeHolds == Spec => []DebugPredictsMake
<1>1. LogInv => DebugPredictsMake
  <2>. SUFFICES ASSUME LogInv, NEW k \in Published, NEW j \in Returned("debug"),
                       SameDescribed(history[k].request, history[j].request)
       PROVE /\ history[j].exit = 0
             /\ ~Given(history[k].request.uuid) =>
                  PackOf(k).header.uuid =
                    IF history[j].request.bytes THEN <<"v5", history[j].answer>>
                    ELSE history[j].answer
    BY DEF DebugPredictsMake
  <2>. DEFINE r == history[k].request  s == history[j].request
  <2>1. /\ k \in DOMAIN history /\ r.cmd = "make" /\ history[k].exit = 0
        /\ j \in DOMAIN history /\ s.cmd = "debug"
    BY DEF Published, Returned
  <2>2. RecordOK(history[k]) /\ RecordOK(history[j])
    BY <2>1 DEF LogInv, RecordsOK
  <2>3. Accepted(r) /\ MadeFrom(r, history[k].answer)
    BY <2>1, <2>2 DEF RecordOK
  <2>4. Accepted(s) /\ DescriptorFor(s) = DescriptorFor(r)
    BY <2>1, <2>3, DescribedAlike
  <2>5. history[j].exit = 0 /\ history[j].answer = Debugged(s)
    BY <2>1, <2>2, <2>4 DEF RecordOK
  <2>. DEFINE d == DescriptorFor(r)
  <2>6. PackOf(k).header = BuildMetadata(r, d)
    BY <2>3 DEF PackOf, MadeFrom
  <2>7. ~Given(r.uuid) => PackOf(k).header.uuid = DerivePackUuid(d)
    BY <2>6 DEF BuildMetadata
  <2>8. Debugged(s) = IF s.bytes THEN CanonicalDescriptor(d) ELSE DerivePackUuid(d)
    BY <2>4 DEF Debugged
  <2>9. DerivePackUuid(d) = <<"v5", CanonicalDescriptor(d)>>
    BY DEF DerivePackUuid
  <2>. HIDE DEF d
  <2>. QED
    BY <2>5, <2>7, <2>8, <2>9
<1>. QED
  BY <1>1, LogHolds, PTL

----------------------------------------------------------------------------
(* The pack under --out. *)

(* The packs and the inspections of a log, and the pack last in it.        *)
Packs(h) == {k \in DOMAIN h : h[k].request.cmd = "make" /\ h[k].exit = 0}
Sights(h) == {k \in DOMAIN h : h[k].request.cmd = "inspect" /\ h[k].exit = 0}
LastIn(h, o) ==
  \/ Packs(h) = {} /\ o = NoPack
  \/ \E k \in Packs(h) : (\A l \in Packs(h) : l <= k) /\ o = h[k].answer.pack
Agrees(h, j) ==
  /\ h[j].answer.consistent
  /\ \E k \in Packs(h) :
       /\ k < j /\ (\A l \in Packs(h) : l < j => l <= k)
       /\ h[k].answer.pack.header.uuid = h[j].answer.uuid
       /\ h[k].answer.pack.sections = h[j].answer.sections
       /\ h[j].answer.date = 0 =>
            \/ h[k].answer.warned \/ h[k].request.timestamp.given
            \/ h[k].request.source.scheme = "synthetic"

OutIsLast == LastIn(history, out)
SightsAgree == \A j \in Sights(history) : Agrees(history, j)

(* The property, in terms of the log. *)
LEMMA SightsAgreeSuffices == SightsAgree => InspectAgrees
<1>1. Published = Packs(history)
  BY DEF Published, Returned, Packs
<1>2. \A j \in Returned("inspect") : history[j].exit = 0 => j \in Sights(history)
  BY DEF Returned, Sights
<1>. QED
  BY <1>1, <1>2, Zenon DEF SightsAgree, InspectAgrees, Agrees, PackOf

(* An entry that joins the log is a pack or not; the others stay.          *)
LEMMA PacksJoin ==
  ASSUME NEW g, NEW h, NEW e, Extends(g, h, e)
  PROVE  /\ \A k \in Packs(h) : k \in Packs(g) /\ g[k] = h[k] /\ k \in 1..Len(h)
         /\ \A k \in Packs(g) : k \in Packs(h)
              \/ (k = Len(h) + 1 /\ e.request.cmd = "make" /\ e.exit = 0)
         /\ e.request.cmd = "make" /\ e.exit = 0 => Len(h) + 1 \in Packs(g)
<1>1. /\ Len(h) \in Nat /\ DOMAIN h = 1..Len(h) /\ DOMAIN g = 1..(Len(h) + 1)
      /\ g[Len(h) + 1] = e /\ \A k \in DOMAIN h : g[k] = h[k]
  BY DEF Extends
<1>2. ASSUME NEW k \in DOMAIN g PROVE k \in DOMAIN h \/ k = Len(h) + 1
  BY <1>1
<1>3. DOMAIN h \subseteq DOMAIN g /\ Len(h) + 1 \in DOMAIN g
  BY <1>1
<1>4. \A k \in Packs(h) : k \in Packs(g) /\ g[k] = h[k] /\ k \in 1..Len(h)
  BY <1>1, <1>3, Zenon DEF Packs
<1>5. ASSUME NEW k \in Packs(g)
      PROVE k \in Packs(h) \/ (k = Len(h) + 1 /\ e.request.cmd = "make" /\ e.exit = 0)
  BY <1>1, <1>2, Zenon DEF Packs
<1>6. e.request.cmd = "make" /\ e.exit = 0 => Len(h) + 1 \in Packs(g)
  BY <1>1, <1>3, Zenon DEF Packs
<1>. QED
  BY <1>4, <1>5, <1>6

(* What an inspection showed stays right: a later pack is later than it. *)
LEMMA AgreesStays ==
  ASSUME NEW g, NEW h, NEW e, Extends(g, h, e), NEW j \in DOMAIN h, Agrees(h, j)
  PROVE  Agrees(g, j)
<1>1. /\ Len(h) \in Nat /\ DOMAIN h = 1..Len(h) /\ \A k \in DOMAIN h : g[k] = h[k]
  BY DEF Extends
<1>2. PICK k \in Packs(h) :
        /\ k < j /\ (\A l \in Packs(h) : l < j => l <= k)
        /\ h[k].answer.pack.header.uuid = h[j].answer.uuid
        /\ h[k].answer.pack.sections = h[j].answer.sections
        /\ h[j].answer.date = 0 =>
             \/ h[k].answer.warned \/ h[k].request.timestamp.given
             \/ h[k].request.source.scheme = "synthetic"
  BY DEF Agrees
<1>3. k \in Packs(g) /\ g[k] = h[k] /\ g[j] = h[j] /\ h[j].answer.consistent
  BY <1>1, PacksJoin DEF Agrees
<1>4. ASSUME NEW l \in Packs(g), l < j PROVE l <= k
  <2>1. l # Len(h) + 1
    BY <1>1, <1>4
  <2>2. l \in Packs(h)
    BY <2>1, PacksJoin
  <2>. QED
    BY <2>2, <1>2, <1>4
<1>. QED
  BY <1>2, <1>3, <1>4, Zenon DEF Agrees

(* The pack under --out stays the last when no other is published, and     *)
(* when the one that is published is put there.                            *)
LEMMA LastStays ==
  ASSUME NEW g, NEW h, NEW e, Extends(g, h, e), NEW o, LastIn(h, o),
         ~(e.request.cmd = "make" /\ e.exit = 0)
  PROVE  LastIn(g, o)
<1>1. \A k \in Packs(g) : k \in Packs(h)
  BY PacksJoin
<1>2. \A k \in Packs(h) : k \in Packs(g) /\ g[k] = h[k]
  BY PacksJoin
<1>. QED
  BY <1>1, <1>2 DEF LastIn

(* A new pack is the last. *)
LEMMA LastPublished ==
  ASSUME NEW g, NEW h, NEW e, Extends(g, h, e), e.request.cmd = "make", e.exit = 0
  PROVE  LastIn(g, e.answer.pack)
<1>1. Len(h) \in Nat /\ Len(h) + 1 \in Packs(g) /\ g[Len(h) + 1] = e
  BY PacksJoin DEF Extends
<1>2. ASSUME NEW l \in Packs(g) PROVE l <= Len(h) + 1
  <2>1. l \in 1..Len(h) \/ l = Len(h) + 1
    BY PacksJoin
  <2>. QED
    BY <2>1, <1>1
<1>. QED
  BY <1>1, <1>2 DEF LastIn

(* An inspection of the last pack shows what its make said of it. *)
LEMMA LastSeen ==
  ASSUME NEW g, NEW h, NEW e, Extends(g, h, e), NEW o, LastIn(h, o), o # NoPack,
         \A k \in DOMAIN h : RecordOK(h[k]),
         ~(e.request.cmd = "make" /\ e.exit = 0),
         e.answer.consistent <=> Consistent(o),
         e.answer.uuid = o.header.uuid, e.answer.sections = o.sections, e.answer.date = o.date
  PROVE  Agrees(g, Len(h) + 1)
<1>1. PICK k \in Packs(h) : (\A l \in Packs(h) : l <= k) /\ o = h[k].answer.pack
  BY DEF LastIn
<1>2. /\ Len(h) \in Nat /\ g[Len(h) + 1] = e /\ k \in Packs(g) /\ g[k] = h[k] /\ k \in 1..Len(h)
  BY PacksJoin DEF Extends
<1>3. RecordOK(h[k]) /\ h[k].request.cmd = "make" /\ h[k].exit = 0
  BY DEF Packs
<1>4. MadeFrom(h[k].request, h[k].answer)
  BY <1>3 DEF RecordOK
<1>5. /\ Consistent(o)
      /\ o.date = 0 => \/ h[k].answer.warned \/ h[k].request.timestamp.given
                       \/ h[k].request.source.scheme = "synthetic"
  BY <1>1, <1>4, Zenon DEF MadeFrom
<1>6. k < Len(h) + 1
  BY <1>2
<1>7. \A l \in Packs(g) : l <= k
  BY <1>1, PacksJoin
<1>. QED
  BY <1>1, <1>2, <1>5, <1>6, <1>7, Zenon DEF Agrees

(* The inspections after a command returned. *)
LEMMA SightsStay ==
  ASSUME NEW g, NEW h, NEW e, Extends(g, h, e), \A j \in Sights(h) : Agrees(h, j),
         e.request.cmd = "inspect" /\ e.exit = 0 => Agrees(g, Len(h) + 1)
  PROVE  \A j \in Sights(g) : Agrees(g, j)
<1>. SUFFICES ASSUME NEW j \in Sights(g) PROVE Agrees(g, j)
  OBVIOUS
<1>1. /\ Len(h) \in Nat /\ DOMAIN h = 1..Len(h) /\ DOMAIN g = 1..(Len(h) + 1)
      /\ g[Len(h) + 1] = e /\ \A k \in DOMAIN h : g[k] = h[k]
  BY DEF Extends
<1>2. j \in DOMAIN h \/ j = Len(h) + 1
  BY <1>1 DEF Sights
<1>3. CASE j \in DOMAIN h
  <2>1. j \in Sights(h)
    BY <1>1, <1>3, Zenon DEF Sights
  <2>. QED
    BY <1>3, <2>1, AgreesStays
<1>4. CASE j = Len(h) + 1
  <2>1. e.request.cmd = "inspect" /\ e.exit = 0
    BY <1>1, <1>4, Zenon DEF Sights
  <2>. QED
    BY <1>4, <2>1
<1>. QED
  BY <1>2, <1>3, <1>4

OutOK == OutIsLast /\ SightsAgree
Entry(r, exit, why, answer) == [request |-> r, exit |-> exit, why |-> why, answer |-> answer]

(* A command that returns extends the log. *)
LEMMA ReturnExtends ==
  ASSUME RecordsOK, NEW r, NEW exit, NEW why, NEW answer, Return(r, exit, why, answer)
  PROVE  Extends(history', history, Entry(r, exit, why, answer))
<1>1. history' = Append(history, Entry(r, exit, why, answer)) /\ IsLog(history)
  BY DEF Return, RecordsOK, Entry
<1>2. Extends(Append(history, Entry(r, exit, why, answer)), history, Entry(r, exit, why, answer))
  BY <1>1, Logged
<1>. QED
  BY <1>1, <1>2

(* A command that is neither a published make nor a successful inspection  *)
(* changes nothing about them.                                             *)
LEMMA OtherReturn ==
  ASSUME RecordsOK, OutOK, NEW r, NEW exit, NEW why, NEW answer, Return(r, exit, why, answer),
         UNCHANGED out, exit # 0 \/ (r.cmd # "make" /\ r.cmd # "inspect")
  PROVE  OutOK'
<1>. DEFINE e == Entry(r, exit, why, answer)
<1>1. Extends(history', history, e)
  BY ReturnExtends
<1>2. e.request = r /\ e.exit = exit
  BY DEF Entry
<1>. HIDE DEF e
<1>3. ~(e.request.cmd = "make" /\ e.exit = 0) /\ ~(e.request.cmd = "inspect" /\ e.exit = 0)
  BY <1>2
<1>4. LastIn(history', out)
  BY <1>1, <1>3, LastStays DEF OutOK, OutIsLast
<1>5. \A j \in Sights(history') : Agrees(history', j)
  BY <1>1, <1>3, SightsStay DEF OutOK, SightsAgree
<1>6. LastIn(history', out')
  BY <1>4
<1>. QED
  BY <1>5, <1>6 DEF OutOK, OutIsLast, SightsAgree

(* A make that publishes: its pack is the last, and under --out. *)
LEMMA MakePublishes ==
  ASSUME RecordsOK, OutOK, NEW r, NEW why, r.cmd = "make", out' = Pack,
         Return(r, 0, why, [pack |-> Pack, warned |-> Warned])
  PROVE  OutOK'
<1>. DEFINE a == [pack |-> Pack, warned |-> Warned]
            e == Entry(r, 0, why, a)
<1>1. Extends(history', history, e)
  BY ReturnExtends
<1>2. e.request = r /\ e.exit = 0 /\ e.answer = a /\ a.pack = Pack
  BY DEF Entry
<1>. HIDE DEF e, a
<1>3. LastIn(history', Pack)
  BY <1>1, <1>2, LastPublished
<1>4. ~(e.request.cmd = "inspect" /\ e.exit = 0)
  BY <1>2
<1>5. \A j \in Sights(history') : Agrees(history', j)
  BY <1>1, <1>4, SightsStay DEF OutOK, SightsAgree
<1>6. LastIn(history', out')
  BY <1>3
<1>. QED
  BY <1>5, <1>6 DEF OutOK, OutIsLast, SightsAgree

(* An inspect shows what is under --out. *)
LEMMA InspectShows ==
  ASSUME RecordsOK, OutOK, NEW r, NEW why, r.cmd = "inspect", out # NoPack, UNCHANGED out,
         Return(r, 0, why, Shown)
  PROVE  OutOK'
<1>. DEFINE e == Entry(r, 0, why, Shown)
<1>1. Extends(history', history, e)
  BY ReturnExtends
<1>2. e.request = r /\ e.exit = 0 /\ e.answer = Shown
  BY DEF Entry
<1>3. /\ Shown.consistent <=> Consistent(out)
      /\ Shown.uuid = out.header.uuid /\ Shown.sections = out.sections /\ Shown.date = out.date
  BY DEF Shown
<1>. HIDE DEF e
<1>4. ~(e.request.cmd = "make" /\ e.exit = 0)
  BY <1>2
<1>5. LastIn(history, out) /\ \A k \in DOMAIN history : RecordOK(history[k])
  BY DEF OutOK, OutIsLast, RecordsOK
<1>6. LastIn(history', out)
  BY <1>1, <1>4, <1>5, LastStays
<1>7. Agrees(history', Len(history) + 1)
  BY <1>1, <1>2, <1>3, <1>4, <1>5, LastSeen
<1>8. \A j \in Sights(history') : Agrees(history', j)
  BY <1>1, <1>7, SightsStay DEF OutOK, SightsAgree
<1>9. LastIn(history', out')
  BY <1>6
<1>. QED
  BY <1>8, <1>9 DEF OutOK, OutIsLast, SightsAgree

(* Nothing logged, nothing written. *)
LEMMA OutSame == ASSUME OutOK, UNCHANGED <<out, history>> PROVE OutOK'
<1>1. LastIn(history', out') /\ \A j \in Sights(history') : Agrees(history', j)
  BY DEF OutOK, OutIsLast, SightsAgree
<1>. QED
  BY <1>1 DEF OutOK, OutIsLast, SightsAgree

(* Every step keeps the pack under --out the last one published. *)
LEMMA OutNext == LogInv /\ OutOK /\ [Next]_vars => OutOK'
<1>. SUFFICES ASSUME LogInv, OutOK, [Next]_vars PROVE OutOK'
  OBVIOUS
<1>0. RecordsOK /\ Running
  BY DEF LogInv
<1>1. CASE Make \/ Fetch \/ EndOfFetch \/ UNCHANGED vars
  BY <1>1, OutSame DEF Make, Fetch, EndOfFetch, vars
<1>2. CASE Refused
  <2>1. PICK r, exit, why : Return(r, exit, why, <<>>) /\ exit # 0 /\ UNCHANGED out
    <3>1. 2 # 0 /\ 1 # 0
      OBVIOUS
    <3>2. \E r : Return(r, 2, "Usage", <<>>) \/ Return(r, 1, "Arguments", <<>>)
      BY <1>2 DEF Refused
    <3>. QED
      BY <1>2, <3>1, <3>2 DEF Refused
  <2>. QED
    BY <1>0, <2>1, OtherReturn
<1>3. CASE FetchStops
  <2>1. PICK exit, why : Return(request, exit, why, <<>>) /\ exit # 0 /\ UNCHANGED out
    <3>1. 130 # 0 /\ 1 # 0
      OBVIOUS
    <3>. QED
      BY <1>3, <3>1, Zenon DEF FetchStops
  <2>. QED
    BY <1>0, <2>1, OtherReturn
<1>4. CASE Build
  <2>1. request.cmd = "make"
    BY <1>0, <1>4 DEF Running, Build
  <2>2. \/ out' = Pack /\ Return(request, 0, "Published", [pack |-> Pack, warned |-> Warned])
        \/ \E exit, why : Return(request, exit, why, <<>>) /\ exit # 0 /\ UNCHANGED out
    <3>1. 130 # 0 /\ 1 # 0
      OBVIOUS
    <3>. QED
      BY <1>4, <3>1, Zenon DEF Build
  <2>3. CASE out' = Pack /\ Return(request, 0, "Published", [pack |-> Pack, warned |-> Warned])
    BY <1>0, <2>1, <2>3, MakePublishes
  <2>4. CASE \E exit, why : Return(request, exit, why, <<>>) /\ exit # 0 /\ UNCHANGED out
    BY <1>0, <2>4, OtherReturn
  <2>. QED
    BY <2>2, <2>3, <2>4
<1>5. CASE DebugUuid
  <2>0. PICK r \in Asked({"debug"}) :
          \E answer : Return(r, 0, "Printed", answer) /\ UNCHANGED out
    BY <1>5, Zenon DEF DebugUuid
  <2>1. PICK answer : Return(r, 0, "Printed", answer) /\ UNCHANGED out
    BY <2>0
  <2>2. r.cmd # "make" /\ r.cmd # "inspect"
    BY DEF Asked
  <2>. QED
    BY <1>0, <2>1, <2>2, OtherReturn
<1>6. CASE Inspect
  <2>1. PICK r \in Asked({"inspect"}) :
          IF out = NoPack THEN Return(r, 1, "Io", <<>>) ELSE Return(r, 0, "Printed", Shown)
    BY <1>6 DEF Inspect, Shown
  <2>2. r.cmd = "inspect" /\ UNCHANGED out /\ 1 # 0
    BY <1>6 DEF Asked, Inspect
  <2>3. CASE out = NoPack
    BY <1>0, <2>1, <2>2, <2>3, OtherReturn
  <2>4. CASE out # NoPack
    BY <1>0, <2>1, <2>2, <2>4, InspectShows
  <2>. QED
    BY <2>3, <2>4
<1>7. CASE Library
  <2>1. PICK s \in Libraries, t \in Libraries : history' = <<Named(s), Named(t)>>
    BY <1>7, LibraryLogs
  <2>2. DOMAIN history' = 1..2 /\ history'[1] = Named(s) /\ history'[2] = Named(t)
    BY <2>1
  <2>3. \A k \in DOMAIN history' : history'[k].request.cmd = "library"
    BY <2>2 DEF Named
  <2>4. Packs(history') = {} /\ Sights(history') = {}
    BY <2>3 DEF Packs, Sights
  <2>5. out' = NoPack
    <3>1. history = <<>> /\ UNCHANGED out
      BY <1>7 DEF Library
    <3>2. Packs(history) = {}
      BY <3>1 DEF Packs
    <3>. QED
      BY <3>1, <3>2 DEF OutOK, OutIsLast, LastIn
  <2>6. LastIn(history', out')
    BY <2>4, <2>5 DEF LastIn
  <2>. QED
    BY <2>4, <2>6 DEF OutOK, OutIsLast, SightsAgree
<1>. QED
  BY <1>1, <1>2, <1>3, <1>4, <1>5, <1>6, <1>7 DEF Next

(* `inspect` shows the pack published last as its make described it, and   *)
(* never calls it inconsistent.                                            *)
THEOREM InspectAgreesHolds == Spec => []InspectAgrees
<1>1. Init => OutOK
  <2>. SUFFICES ASSUME Init PROVE OutOK
    OBVIOUS
  <2>1. history = <<>> /\ out = NoPack
    BY DEF Init
  <2>2. Packs(history) = {} /\ Sights(history) = {}
    BY <2>1 DEF Packs, Sights
  <2>. QED
    BY <2>1, <2>2 DEF OutOK, OutIsLast, SightsAgree, LastIn
<1>2. OutOK => InspectAgrees
  BY SightsAgreeSuffices DEF OutOK
<1>. QED
  BY <1>1, <1>2, OutNext, LogHolds, PTL DEF Spec

----------------------------------------------------------------------------
(* A single source is written as it is. *)
LEMMA WrittenAlone == ASSUME NEW s PROVE WriteSources(<<s>>) = <<WriteSource(s)>>
<1>. DEFINE L == <<s>>
<1>1. DOMAIN L = {1} /\ L[1] = s
  BY 1..1 = {1}
<1>. HIDE DEF L
<1>2. Earlier(L, 1) = {}
  BY <1>1 DEF Earlier
<1>3. Cardinality(Earlier(L, 1)) = 1 - 1
  BY <1>2, FS_EmptySet
<1>4. Nth(L, 1) = 1
  <2>1. \E i \in DOMAIN L : Cardinality(Earlier(L, i)) = 1 - 1
    BY <1>1, <1>3
  <2>2. Nth(L, 1) \in DOMAIN L
    BY <2>1, Zenon DEF Nth
  <2>. QED
    BY <2>2, <1>1
<1>5. WriteSources(L) = [k \in {1} |-> WriteSource(L[Nth(L, k)])]
  BY <1>1 DEF WriteSources
<1>6. WriteSources(L) = [k \in {1} |-> WriteSource(s)]
  BY <1>1, <1>4, <1>5
<1>7. <<WriteSource(s)>> = [k \in {1} |-> WriteSource(s)]
  BY 1..1 = {1}
<1>. QED
  BY <1>6, <1>7 DEF L

(* On the grid of microdegrees the conversion loses nothing. *)
LEMMA GridKeeps ==
  ASSUME NEW v \in Int, NEW w \in Int, v % FinePerMicro = 0, w % FinePerMicro = 0,
         DegToMicro(v) = DegToMicro(w)
  PROVE  v = w
<1>. DEFINE F == FinePerMicro
<1>1. F \in Nat \ {0}
  BY ScaleAssumption
<1>2. ASSUME NEW x \in Int, x % F = 0 PROVE DegToMicro(x) = x \div F
  <2>1. 2 * (x % F) = 0 /\ ~(0 > F) /\ ~(0 = F)
    BY <1>1, <1>2
  <2>2. x % FinePerMicro = 0
    BY <1>2
  <2>3. ~(2 * (x % FinePerMicro) > FinePerMicro) /\ ~(2 * (x % FinePerMicro) = FinePerMicro)
    BY <2>1
  <2>. QED
    BY <2>3 DEF DegToMicro
<1>3. v \div F = w \div F /\ v % F = 0 /\ w % F = 0
  BY <1>2
<1>. HIDE DEF F
<1>4. v = F * (v \div F) + (v % F) /\ w = F * (w \div F) + (w % F)
  BY <1>1, DivMod
<1>5. v \div F \in Int /\ w \div F \in Int
  BY <1>1
<1>. QED
  BY <1>1, <1>3, <1>4, <1>5

(* What a name tells of a descriptor with one source s. *)
Tells(n, s, b, p, d, y) ==
  /\ n[2].sources = <<WriteSource(s)>> /\ n[2].bbox = b /\ n[2].tile_dim_px = d
  /\ n[2].zoom_range = y /\ n[2].pixel_format = PixelFormatByte(p)

(* A derived name tells it. *)
LEMMA NameTells ==
  ASSUME NEW s, NEW b, NEW p, NEW d, NEW y
  PROVE  Tells(DerivePackUuid(Descriptor(<<s>>, b, p, d, y)), s, b, p, d, y)
<1>. DEFINE D(so) ==
  [affn |-> "null", bbox |-> b, format_version |-> <<1, 0>>,
   pixel_format |-> PixelFormatByte(p), projection |-> 1,
   quantiser_version |-> 1, sources |-> so,
   style_hash |-> "null", tile_addressing_scheme |-> 1, tile_axis_convention |-> 1,
   tile_dim_px |-> d, zoom_range |-> y]
<1>1. WriteSources(<<s>>) = <<WriteSource(s)>>
  BY WrittenAlone
<1>. DEFINE w == <<WriteSource(s)>>  n == DerivePackUuid(Descriptor(<<s>>, b, p, d, y))
<1>. HIDE DEF w
<1>2. Descriptor(<<s>>, b, p, d, y) = D(<<s>>) /\ D(<<s>>).sources = <<s>>
  BY DEF Descriptor, QuantiserVersionFor
<1>3. [D(<<s>>) EXCEPT !.sources = w] = D(w)
  OBVIOUS
<1>. HIDE DEF D
<1>4. n = <<"v5", D(w)>>
  BY <1>1, <1>2, <1>3 DEF DerivePackUuid, CanonicalDescriptor, w
<1>5. /\ D(w).sources = w /\ D(w).bbox = b /\ D(w).tile_dim_px = d /\ D(w).zoom_range = y
      /\ D(w).pixel_format = PixelFormatByte(p)
  BY DEF D
<1>. HIDE DEF n
<1>6. n[2] = D(w)
  BY <1>4
<1>. QED
  BY <1>5, <1>6 DEF n, w, Tells

(* What a derived name is made from. *)
DerivedName(r) == DerivePackUuid(DescriptorFor(r))

(* Of two accepted requests with one derived name, both are synthetic or   *)
(* both name the same template.                                            *)
LEMMA SameKind ==
  ASSUME NEW r, NEW s, Accepted(r), Accepted(s), DerivedName(r) = DerivedName(s)
  PROVE  /\ SameSource(r.source, s.source) /\ r.pixel = s.pixel
         /\ r.source.scheme # "synthetic" =>
              /\ ToMicro(r.bbox.box) = ToMicro(s.bbox.box)
              /\ r.zoom.min = s.zoom.min /\ r.zoom.max = s.zoom.max
         /\ DescriptorFor(r).bbox = DescriptorFor(s).bbox
         /\ DescriptorFor(r).tile_dim_px = DescriptorFor(s).tile_dim_px
         /\ DescriptorFor(r).zoom_range = DescriptorFor(s).zoom_range
<1>. DEFINE One(q) ==
              IF q.source.scheme = "synthetic" THEN Synthetic(1)
              ELSE Source("url", q.source.name, AuthKindsFromOptions(q), q.zoom.min, q.zoom.max)
            Box(q) == IF q.source.scheme = "synthetic" THEN WorldBboxMicro ELSE ToMicro(q.bbox.box)
            Edge(q) == IF q.source.scheme = "synthetic" THEN FixtureDim ELSE q.dim
            Range1(q) == IF q.source.scheme = "synthetic" THEN <<FixtureZoom, FixtureZoom>>
                         ELSE <<q.zoom.min, q.zoom.max>>
<1>1. ASSUME NEW q
      PROVE  /\ DescriptorFor(q) = Descriptor(<<One(q)>>, Box(q), q.pixel, Edge(q), Range1(q))
             /\ WriteSource(One(q)).kind =
                  IF q.source.scheme = "synthetic" THEN "synthetic" ELSE "url"
             /\ q.source.scheme # "synthetic" => WriteSource(One(q)).id = q.source.name
  BY DEF DescriptorFor, SyntheticDescriptor, UrlTemplateDescriptor, WriteSource, Synthetic, Source
<1>2. ASSUME NEW q
      PROVE  /\ DescriptorFor(q).bbox = Box(q) /\ DescriptorFor(q).tile_dim_px = Edge(q)
             /\ DescriptorFor(q).zoom_range = Range1(q)
  <2>. DEFINE o == One(q)  b == Box(q)  e == Edge(q)  z == Range1(q)
  <2>1. DescriptorFor(q) = Descriptor(<<o>>, b, q.pixel, e, z)
    BY <1>1
  <2>. HIDE DEF o, b, e, z
  <2>2. /\ DescriptorFor(q).bbox = b /\ DescriptorFor(q).tile_dim_px = e
        /\ DescriptorFor(q).zoom_range = z
    BY <2>1 DEF Descriptor
  <2>. QED
    BY <2>2 DEF b, e, z
<1>3. /\ (r.source.scheme = "synthetic" \/ (r.source.scheme = "http" /\ r.source.holes = {"z", "x", "y"}))
      /\ (s.source.scheme = "synthetic" \/ (s.source.scheme = "http" /\ s.source.holes = {"z", "x", "y"}))
      /\ r.pixel \in PixelFormats /\ s.pixel \in PixelFormats
  BY DEF Accepted, ClapAccepts, Describable, UrlRequestComplete
<1>. DEFINE ro == One(r)  rb == Box(r)  re == Edge(r)  rz == Range1(r)
            so == One(s)  sb == Box(s)  se == Edge(s)  sz == Range1(s)
<1>4. DerivePackUuid(Descriptor(<<ro>>, rb, r.pixel, re, rz))
        = DerivePackUuid(Descriptor(<<so>>, sb, s.pixel, se, sz))
  <2>1. DescriptorFor(r) = Descriptor(<<ro>>, rb, r.pixel, re, rz)
    BY <1>1
  <2>2. DescriptorFor(s) = Descriptor(<<so>>, sb, s.pixel, se, sz)
    BY <1>1
  <2>. HIDE DEF ro, rb, re, rz, so, sb, se, sz
  <2>. QED
    BY <2>1, <2>2 DEF DerivedName
<1>5. /\ WriteSource(ro) = WriteSource(so) /\ rb = sb /\ re = se /\ rz = sz
      /\ PixelFormatByte(r.pixel) = PixelFormatByte(s.pixel)
  <2>. HIDE DEF ro, rb, re, rz, so, sb, se, sz
  <2>. DEFINE rp == r.pixel  sp == s.pixel
              n == DerivePackUuid(Descriptor(<<ro>>, rb, rp, re, rz))
              m == DerivePackUuid(Descriptor(<<so>>, sb, sp, se, sz))
  <2>1. n = m
    BY <1>4
  <2>. HIDE DEF rp, sp
  <2>2. Tells(n, ro, rb, rp, re, rz)
    BY NameTells, Zenon
  <2>3. Tells(m, so, sb, sp, se, sz)
    BY NameTells, Zenon
  <2>. HIDE DEF n, m
  <2>4. /\ <<WriteSource(ro)>> = <<WriteSource(so)>> /\ rb = sb /\ re = se /\ rz = sz
        /\ PixelFormatByte(rp) = PixelFormatByte(sp)
    BY <2>1, <2>2, <2>3 DEF Tells
  <2>. QED
    BY <2>4 DEF rp, sp
<1>6. r.pixel = s.pixel
  BY <1>3, <1>5 DEF PixelFormats, PixelFormatByte
<1>7. /\ r.source.scheme = "synthetic" <=> s.source.scheme = "synthetic"
      /\ r.source.scheme # "synthetic" => r.source.name = s.source.name
  <2>1. WriteSource(ro).kind = IF r.source.scheme = "synthetic" THEN "synthetic" ELSE "url"
    BY <1>1
  <2>2. WriteSource(so).kind = IF s.source.scheme = "synthetic" THEN "synthetic" ELSE "url"
    BY <1>1
  <2>3. r.source.scheme # "synthetic" => WriteSource(ro).id = r.source.name
    BY <1>1
  <2>4. s.source.scheme # "synthetic" => WriteSource(so).id = s.source.name
    BY <1>1
  <2>. HIDE DEF ro, so
  <2>. QED
    BY <2>1, <2>2, <2>3, <2>4, <1>5
<1>8. SameSource(r.source, s.source)
  BY <1>3, <1>7 DEF SameSource
<1>9. ASSUME r.source.scheme # "synthetic"
      PROVE  /\ ToMicro(r.bbox.box) = ToMicro(s.bbox.box)
             /\ r.zoom.min = s.zoom.min /\ r.zoom.max = s.zoom.max
  <2>1. <<r.zoom.min, r.zoom.max>> = <<s.zoom.min, s.zoom.max>>
    BY <1>5, <1>7, <1>9
  <2>2. ToMicro(r.bbox.box) = ToMicro(s.bbox.box)
    BY <1>5, <1>7, <1>9
  <2>. QED
    BY <2>1, <2>2
<1>10. /\ DescriptorFor(r).bbox = DescriptorFor(s).bbox
       /\ DescriptorFor(r).tile_dim_px = DescriptorFor(s).tile_dim_px
       /\ DescriptorFor(r).zoom_range = DescriptorFor(s).zoom_range
  <2>1. /\ DescriptorFor(r).bbox = rb /\ DescriptorFor(r).tile_dim_px = re
        /\ DescriptorFor(r).zoom_range = rz
    BY <1>2
  <2>2. /\ DescriptorFor(s).bbox = sb /\ DescriptorFor(s).tile_dim_px = se
        /\ DescriptorFor(s).zoom_range = sz
    BY <1>2
  <2>. HIDE DEF rb, re, rz, sb, se, sz
  <2>. QED
    BY <2>1, <2>2, <1>5
<1>. QED
  BY <1>6, <1>8, <1>9, <1>10

(* On the grid, the tiles are the same too. *)
LEMMA SameTiles ==
  ASSUME NEW r, NEW s, Accepted(r), Accepted(s), DerivedName(r) = DerivedName(s),
         OnGrid(r), OnGrid(s)
  PROVE  TilesOf(r) = TilesOf(s)
<1>1. SameSource(r.source, s.source)
  BY SameKind
<1>2. r.source.scheme = s.source.scheme
  BY <1>1 DEF SameSource
<1>3. CASE r.source.scheme = "synthetic"
  BY <1>2, <1>3 DEF TilesOf
<1>4. CASE r.source.scheme # "synthetic"
  <2>. DEFINE b == r.bbox.box  c == s.bbox.box
  <2>1. /\ r.source.scheme = "http" /\ s.source.scheme = "http"
        /\ UrlAccepted(r) /\ UrlAccepted(s)
    BY <1>2, <1>4, AcceptedCases
  <2>2. \A k \in 1..4 : b[k] % FinePerMicro = 0 /\ c[k] % FinePerMicro = 0
    BY <2>1 DEF OnGrid
  <2>3. ASSUME NEW q, UrlAccepted(q), NEW k \in 1..4 PROVE q.bbox.box[k] \in Int
    <3>. DEFINE x == q.bbox.box
    <3>1. {x[1], x[3]} \subseteq (-HalfTurn)..HalfTurn /\ {x[2], x[4]} \subseteq (-Pole)..Pole
      BY <2>3 DEF UrlAccepted, ParseBbox
    <3>2. k = 1 \/ k = 2 \/ k = 3 \/ k = 4
      OBVIOUS
    <3>. HIDE DEF x
    <3>3. x[1] \in Int /\ x[2] \in Int /\ x[3] \in Int /\ x[4] \in Int
      BY <3>1, ScaleAssumption
    <3>4. x[k] \in Int
      BY <3>2, <3>3
    <3>. QED
      BY <3>4 DEF x
  <2>4. ToMicro(b) = ToMicro(c) /\ r.zoom.min = s.zoom.min /\ r.zoom.max = s.zoom.max
    BY <1>4, SameKind
  <2>5. \A k \in 1..4 : b[k] \in Int /\ c[k] \in Int
    BY <2>1, <2>3
  <2>6. TilesOf(r) = UrlTiles(r) /\ TilesOf(s) = UrlTiles(s)
    BY <1>2, <1>4 DEF TilesOf
  <2>7. ASSUME NEW B, NEW C, B[1] = C[1], B[2] = C[2], B[3] = C[3], B[4] = C[4], NEW z
        PROVE  TileRangeForZoom(B, z) = TileRangeForZoom(C, z)
    BY <2>7, Zenon DEF TileRangeForZoom
  <2>. HIDE DEF b, c
  <2>8. ASSUME NEW k \in 1..4 PROVE b[k] = c[k]
    <3>1. ToMicro(b)[k] = DegToMicro(b[k]) /\ ToMicro(c)[k] = DegToMicro(c[k])
      BY DEF ToMicro
    <3>2. DegToMicro(b[k]) = DegToMicro(c[k])
      BY <3>1, <2>4
    <3>. QED
      BY <3>2, <2>2, <2>5, GridKeeps
  <2>9. b[1] = c[1] /\ b[2] = c[2] /\ b[3] = c[3] /\ b[4] = c[4]
    BY <2>8
  <2>10. \A z : TileRangeForZoom(b, z) = TileRangeForZoom(c, z)
    BY <2>7, <2>9
  <2>11. UrlTiles(r) = UrlTiles(s)
    BY <2>4, <2>10, Zenon DEF UrlTiles, b, c
  <2>. QED
    BY <2>6, <2>11
<1>. QED
  BY <1>3, <1>4

(* A derived name tells packs apart whose boxes are on the grid of         *)
(* microdegrees: two published packs with one name have one header, the    *)
(* same tiles and the same source.                                         *)
THEOREM NameTellsGridPacksApartHolds == Spec => []NameTellsGridPacksApart
<1>1. LogInv => NameTellsGridPacksApart
  <2>. SUFFICES ASSUME LogInv, NEW k \in Published, NEW j \in Published,
                       Derived(k), Derived(j),
                       OnGrid(history[k].request), OnGrid(history[j].request),
                       PackOf(k).header.uuid = PackOf(j).header.uuid
       PROVE OneNameOnePack(k, j)
    BY DEF NameTellsGridPacksApart
  <2>. DEFINE r == history[k].request  s == history[j].request
              d == DescriptorFor(r)  e == DescriptorFor(s)
  <2>1. /\ k \in DOMAIN history /\ r.cmd = "make" /\ history[k].exit = 0
        /\ j \in DOMAIN history /\ s.cmd = "make" /\ history[j].exit = 0
    BY DEF Published, Returned
  <2>2. RecordOK(history[k]) /\ RecordOK(history[j])
    BY <2>1 DEF LogInv, RecordsOK
  <2>3. /\ Accepted(r) /\ MadeFrom(r, history[k].answer)
        /\ Accepted(s) /\ MadeFrom(s, history[j].answer)
    BY <2>1, <2>2 DEF RecordOK
  <2>4. /\ PackOf(k).header = BuildMetadata(r, d) /\ PackOf(k).tiles = ToSet(TilesOf(r))
        /\ PackOf(j).header = BuildMetadata(s, e) /\ PackOf(j).tiles = ToSet(TilesOf(s))
    BY <2>3 DEF PackOf, MadeFrom
  <2>5. ~Given(r.uuid) /\ ~Given(s.uuid)
    BY DEF Derived
  <2>. HIDE DEF d, e
  <2>6. /\ BuildMetadata(r, d) =
             [uuid |-> DerivePackUuid(d), pixel |-> r.pixel, dim |-> d.tile_dim_px,
              zooms |-> d.zoom_range, bbox |-> d.bbox]
        /\ BuildMetadata(s, e) =
             [uuid |-> DerivePackUuid(e), pixel |-> s.pixel, dim |-> e.tile_dim_px,
              zooms |-> e.zoom_range, bbox |-> e.bbox]
    BY <2>5, Zenon DEF BuildMetadata
  <2>7. DerivePackUuid(d) = DerivePackUuid(e)
    BY <2>4, <2>6
  <2>8. DerivedName(r) = DerivedName(s)
    BY <2>7 DEF DerivedName, d, e
  <2>9. /\ SameSource(r.source, s.source) /\ r.pixel = s.pixel
        /\ d.bbox = e.bbox /\ d.tile_dim_px = e.tile_dim_px /\ d.zoom_range = e.zoom_range
    BY <2>3, <2>8, SameKind DEF d, e
  <2>10. TilesOf(r) = TilesOf(s)
    BY <2>3, <2>8, SameTiles
  <2>11. BuildMetadata(r, d) = BuildMetadata(s, e)
    BY <2>6, <2>7, <2>9
  <2>. QED
    BY <2>4, <2>9, <2>10, <2>11 DEF OneNameOnePack
<1>. QED
  BY <1>1, LogHolds, PTL

----------------------------------------------------------------------------
(* The order of write_sources, among sources whose order does not hang on  *)
(* their auth kinds.                                                       *)
KindNo(x) == CHOOSE k \in DOMAIN Kinds : Kinds[k] = x.kind
Differ(x, y) ==
  \/ x.zoomMin # y.zoomMin \/ x.zoomMax # y.zoomMax \/ KindNo(x) # KindNo(y) \/ x.id # y.id
Ahead(x, y) ==
  \/ x.zoomMin < y.zoomMin
  \/ /\ x.zoomMin = y.zoomMin
     /\ \/ x.zoomMax < y.zoomMax
        \/ /\ x.zoomMax = y.zoomMax
           /\ KindNo(x) < KindNo(y) \/ (KindNo(x) = KindNo(y) /\ x.id < y.id)

(* A kind has a number, and the number tells it. *)
LEMMA KindNoOf ==
  ASSUME NEW x, x.kind \in ToSet(Kinds)
  PROVE  KindNo(x) \in 1..8 /\ Kinds[KindNo(x)] = x.kind
<1>1. DOMAIN Kinds = 1..8
  BY DEF Kinds
<1>2. \E k \in DOMAIN Kinds : Kinds[k] = x.kind
  BY DEF ToSet
<1>3. KindNo(x) \in DOMAIN Kinds /\ Kinds[KindNo(x)] = x.kind
  BY <1>2, Zenon DEF KindNo
<1>. QED
  BY <1>1, <1>3

(* The sort key starts with the zooms, the kind and the id. *)
LEMMA KeyOf ==
  ASSUME NEW x \in SourceRecords
  PROVE  /\ Len(SortKey(x)) \in Nat /\ Len(SortKey(x)) >= 4
         /\ SortKey(x)[1] = x.zoomMin /\ SortKey(x)[2] = x.zoomMax
         /\ SortKey(x)[3] = KindNo(x) /\ SortKey(x)[4] = x.id
         /\ x.zoomMin \in Nat /\ x.zoomMax \in Nat /\ KindNo(x) \in Nat /\ x.id \in Nat
<1>1. /\ x.zoomMin \in Nat /\ x.zoomMax \in Nat /\ x.id \in Nat /\ x.auth \in Seq({0, 1})
      /\ x.kind \in ToSet(Kinds)
  BY DEF SourceRecords
<1>2. KindNo(x) \in 1..8
  BY <1>1, KindNoOf
<1>. DEFINE k == KindNo(x)  p == <<x.zoomMin, x.zoomMax, k, x.id>>
<1>3. SortKey(x) = p \o x.auth
  BY DEF SortKey, KindNo
<1>. HIDE DEF k
<1>4. p \in Seq(Nat) /\ x.auth \in Seq(Nat) /\ Len(p) = 4
  BY <1>1, <1>2 DEF k
<1>5. /\ Len(p \o x.auth) = 4 + Len(x.auth) /\ Len(x.auth) \in Nat
      /\ \A j \in 1..4 : (p \o x.auth)[j] = p[j]
  BY <1>1, <1>4
<1>. QED
  BY <1>1, <1>2, <1>3, <1>5 DEF k

(* Where these differ, the auth kinds are never looked at. *)
LEMMA PrecedesAhead ==
  ASSUME NEW x \in SourceRecords, NEW y \in SourceRecords, Differ(x, y)
  PROVE  Precedes(x, y) <=> Ahead(x, y)
<1>. DEFINE p == SortKey(x)  q == SortKey(y)
<1>1. /\ Len(p) \in Nat /\ Len(p) >= 4 /\ Len(q) \in Nat /\ Len(q) >= 4
      /\ p[1] = x.zoomMin /\ p[2] = x.zoomMax /\ p[3] = KindNo(x) /\ p[4] = x.id
      /\ q[1] = y.zoomMin /\ q[2] = y.zoomMax /\ q[3] = KindNo(y) /\ q[4] = y.id
      /\ p[1] \in Nat /\ p[2] \in Nat /\ p[3] \in Nat /\ p[4] \in Nat
      /\ q[1] \in Nat /\ q[2] \in Nat /\ q[3] \in Nat /\ q[4] \in Nat
  BY KeyOf
<1>2. Precedes(x, y) <=> LexLess(p, q)
  BY DEF Precedes
<1>. HIDE DEF p, q
<1>. DEFINE At(k) == /\ \A j \in 1..(k - 1) : j <= Len(p) /\ p[j] = q[j]
                     /\ k > Len(p) \/ p[k] < q[k]
<1>3. LexLess(p, q) <=> \E k \in 1..Len(q) : At(k)
  BY DEF LexLess
<1>4. /\ At(1) <=> p[1] < q[1]
      /\ At(2) <=> p[1] = q[1] /\ p[2] < q[2]
      /\ At(3) <=> p[1] = q[1] /\ p[2] = q[2] /\ p[3] < q[3]
      /\ At(4) <=> p[1] = q[1] /\ p[2] = q[2] /\ p[3] = q[3] /\ p[4] < q[4]
  <2>1. 1..(1 - 1) = {} /\ 1..(2 - 1) = {1} /\ 1..(3 - 1) = {1, 2} /\ 1..(4 - 1) = {1, 2, 3}
    OBVIOUS
  <2>2. At(1) <=> p[1] < q[1]
    BY <1>1, <2>1
  <2>3. At(2) <=> p[1] = q[1] /\ p[2] < q[2]
    BY <1>1, <2>1
  <2>4. At(3) <=> p[1] = q[1] /\ p[2] = q[2] /\ p[3] < q[3]
    BY SMTT(30), <1>1, <2>1
  <2>5. At(4) <=> p[1] = q[1] /\ p[2] = q[2] /\ p[3] = q[3] /\ p[4] < q[4]
    BY <1>1, <2>1
  <2>. QED
    BY <2>2, <2>3, <2>4, <2>5
<1>5. ASSUME NEW k \in 1..Len(q), k > 4, At(k) PROVE FALSE
  <2>1. 1 \in 1..(k - 1) /\ 2 \in 1..(k - 1) /\ 3 \in 1..(k - 1) /\ 4 \in 1..(k - 1)
    BY <1>1, <1>5
  <2>2. p[1] = q[1] /\ p[2] = q[2] /\ p[3] = q[3] /\ p[4] = q[4]
    BY <1>5, <2>1
  <2>. QED
    BY <2>2, <1>1 DEF Differ
<1>6. ASSUME NEW k \in 1..Len(q) PROVE k = 1 \/ k = 2 \/ k = 3 \/ k = 4 \/ k > 4
  BY <1>1
<1>7. 1 \in 1..Len(q) /\ 2 \in 1..Len(q) /\ 3 \in 1..Len(q) /\ 4 \in 1..Len(q)
  BY <1>1
<1>. HIDE DEF At
<1>8. LexLess(p, q) <=> At(1) \/ At(2) \/ At(3) \/ At(4)
  BY <1>3, <1>5, <1>6, <1>7
<1>9. Ahead(x, y) <=> At(1) \/ At(2) \/ At(3) \/ At(4)
  BY <1>1, <1>4 DEF Ahead
<1>. QED
  BY <1>2, <1>8, <1>9

(* Of two that differ one is ahead; ahead is a strict order. *)
LEMMA AheadTotal ==
  ASSUME NEW x \in SourceRecords, NEW y \in SourceRecords, NEW z \in SourceRecords
  PROVE  /\ Differ(x, y) => Ahead(x, y) \/ Ahead(y, x)
         /\ ~(Ahead(x, y) /\ Ahead(y, x)) /\ ~Ahead(x, x)
         /\ Ahead(x, y) => Differ(x, y)
         /\ Ahead(x, y) /\ Ahead(y, z) => Ahead(x, z)
<1>1. ASSUME NEW s \in SourceRecords
      PROVE s.zoomMin \in Nat /\ s.zoomMax \in Nat /\ KindNo(s) \in Nat /\ s.id \in Nat
  BY KeyOf
<1>. QED
  BY <1>1 DEF Ahead, Differ

(* Untied sources differ in them. *)
LEMMA UntiedDiffer ==
  ASSUME NEW a \in Seq(SourceRecords), ~Tied(a), NEW i \in DOMAIN a, NEW j \in DOMAIN a, i # j
  PROVE  Differ(a[i], a[j])
<1>1. SUFFICES ASSUME ~Differ(a[i], a[j]) PROVE FALSE
  OBVIOUS
<1>. DEFINE x == a[i]  y == a[j]
<1>2. x \in SourceRecords /\ y \in SourceRecords
  BY DOMAIN a = 1..Len(a)
<1>3. KindNo(x) = KindNo(y) /\ x.id = y.id /\ x.zoomMin = y.zoomMin /\ x.zoomMax = y.zoomMax
  BY <1>1 DEF Differ
<1>4. x.kind \in ToSet(Kinds) /\ y.kind \in ToSet(Kinds)
  BY <1>2 DEF SourceRecords
<1>5. x.kind = y.kind
  BY <1>3, <1>4, KindNoOf
<1>6. ASSUME NEW s \in SourceRecords
      PROVE  [s EXCEPT !.auth = <<>>] =
        [kind |-> s.kind, id |-> s.id, auth |-> <<>>, zoomMin |-> s.zoomMin, zoomMax |-> s.zoomMax]
  <2>1. s \in [kind : ToSet(Kinds), id : Nat, auth : Seq({0, 1}), zoomMin : Nat, zoomMax : Nat]
    BY DEF SourceRecords
  <2>2. s = [kind |-> s.kind, id |-> s.id, auth |-> s.auth, zoomMin |-> s.zoomMin,
             zoomMax |-> s.zoomMax]
    BY <2>1
  <2>. DEFINE k == s.kind  o == s.id  u == s.auth  m == s.zoomMin  n == s.zoomMax
  <2>3. s = [kind |-> k, id |-> o, auth |-> u, zoomMin |-> m, zoomMax |-> n]
    BY <2>2
  <2>. HIDE DEF k, o, u, m, n
  <2>4. [s EXCEPT !.auth = <<>>] = [kind |-> k, id |-> o, auth |-> <<>>, zoomMin |-> m, zoomMax |-> n]
    BY <2>3
  <2>. QED
    BY <2>4 DEF k, o, m, n
<1>7. [x EXCEPT !.auth = <<>>] = [y EXCEPT !.auth = <<>>]
  <2>. HIDE DEF x, y
  <2>. QED
    BY <1>2, <1>3, <1>5, <1>6
<1>. QED
  BY <1>7 DEF Tied

(* A written source has the place of the source. *)
LEMMA WrittenOrder ==
  ASSUME NEW x \in SourceRecords, NEW y \in SourceRecords
  PROVE  /\ Ahead(WriteSource(x), WriteSource(y)) <=> Ahead(x, y)
         /\ WriteSource(x) = WriteSource(y) => ~Differ(x, y)
<1>1. ASSUME NEW s \in SourceRecords
      PROVE  /\ WriteSource(s).zoomMin = s.zoomMin /\ WriteSource(s).zoomMax = s.zoomMax
             /\ WriteSource(s).id = s.id /\ WriteSource(s).kind = s.kind
  BY DEF WriteSource, SourceRecords
<1>2. ASSUME NEW s \in SourceRecords PROVE KindNo(WriteSource(s)) = KindNo(s)
  BY <1>1, Zenon DEF KindNo
<1>3. Ahead(WriteSource(x), WriteSource(y)) <=> Ahead(x, y)
  BY <1>1, <1>2 DEF Ahead
<1>4. WriteSource(x) = WriteSource(y) => ~Differ(x, y)
  BY <1>1, <1>2 DEF Differ
<1>. QED
  BY <1>3, <1>4

(* So the earlier sources of an untied list are those ahead, stable or not. *)
LEMMA EarlierAhead ==
  ASSUME NEW a \in Seq(SourceRecords), ~Tied(a), NEW i \in DOMAIN a
  PROVE  Earlier(a, i) = {j \in DOMAIN a : Ahead(a[j], a[i])}
<1>1. \A j \in DOMAIN a : a[j] \in SourceRecords
  BY DOMAIN a = 1..Len(a)
<1>2. ASSUME NEW j \in DOMAIN a, j # i
      PROVE  /\ Precedes(a[j], a[i]) <=> Ahead(a[j], a[i])
             /\ Precedes(a[i], a[j]) <=> Ahead(a[i], a[j])
             /\ Ahead(a[j], a[i]) \/ Ahead(a[i], a[j])
  <2>1. Differ(a[j], a[i]) /\ Differ(a[i], a[j])
    BY <1>2, UntiedDiffer
  <2>. QED
    BY <1>1, <2>1, PrecedesAhead, AheadTotal
<1>3. ~Ahead(a[i], a[i])
  BY <1>1, AheadTotal
<1>4. ASSUME NEW j PROVE j \in Earlier(a, i) <=> j \in {q \in DOMAIN a : Ahead(a[q], a[i])}
  <2>1. CASE j \in DOMAIN a /\ j # i
    <3>1. ~(Ahead(a[j], a[i]) /\ Ahead(a[i], a[j]))
      BY <1>1, <2>1, AheadTotal
    <3>. QED
      BY <2>1, <3>1, <1>2 DEF Earlier
  <2>2. CASE ~(j \in DOMAIN a /\ j # i)
    BY <2>2, <1>3 DEF Earlier
  <2>. QED
    BY <2>1, <2>2
<1>. QED
  BY <1>4

(* How many members of a set of written sources come before one of them,   *)
(* and the list that has each member in its place.                         *)
Before(M, m) == {x \in M : Ahead(x, m)}
Ranked(W, M) ==
  /\ DOMAIN W = 1..Cardinality(M) /\ M = {W[k] : k \in DOMAIN W}
  /\ \A k \in DOMAIN W : Cardinality(Before(M, W[k])) = k - 1

(* There is one such list. *)
LEMMA RankedOnce ==
  ASSUME NEW W, NEW V, NEW M, Ranked(W, M), Ranked(V, M), IsFiniteSet(M)
  PROVE  \A k \in DOMAIN W : k \in DOMAIN V /\ W[k] = V[k]
<1>1. DOMAIN W = DOMAIN V /\ DOMAIN W = 1..Cardinality(M)
  BY DEF Ranked
<1>2. SUFFICES ASSUME NEW k \in DOMAIN W PROVE W[k] = V[k]
  BY <1>1
<1>3. W[k] \in M
  BY DEF Ranked
<1>4. PICK l \in DOMAIN V : V[l] = W[k]
  BY <1>3 DEF Ranked
<1>5. Cardinality(Before(M, W[k])) = k - 1 /\ Cardinality(Before(M, V[l])) = l - 1
  BY DEF Ranked
<1>6. Cardinality(M) \in Nat
  BY FS_CardinalityType
<1>7. k = l
  BY <1>1, <1>4, <1>5, <1>6
<1>. QED
  BY <1>4, <1>7

(* The earlier sources of a list are as many as the written ones before.   *)
LEMMA EarlierBefore ==
  ASSUME NEW a \in Seq(SourceRecords), ~Tied(a), NEW i \in DOMAIN a
  PROVE  /\ IsFiniteSet(Meaning(a)) /\ Cardinality(Meaning(a)) = Len(a)
         /\ Cardinality(Earlier(a, i)) = Cardinality(Before(Meaning(a), WriteSource(a[i])))
         /\ IsFiniteSet(Earlier(a, i))
<1>. DEFINE D == DOMAIN a  f == [j \in D |-> WriteSource(a[j])]  M == Meaning(a)
<1>1. Len(a) \in Nat /\ D = 1..Len(a) /\ \A j \in D : a[j] \in SourceRecords
  OBVIOUS
<1>2. IsFiniteSet(D) /\ Cardinality(D) = Len(a)
  <2>. DEFINE n == Len(a)
  <2>. HIDE DEF D, n
  <2>1. n \in Nat /\ D = 1..n
    BY <1>1 DEF n
  <2>2. IsFiniteSet(1..n) /\ Cardinality(1..n) = n
    BY <2>1, FS_Interval
  <2>. QED
    BY <2>1, <2>2 DEF n
<1>3. ASSUME NEW j \in D, NEW k \in D, WriteSource(a[j]) = WriteSource(a[k]) PROVE j = k
  BY <1>1, <1>3, WrittenOrder, UntiedDiffer
<1>4. f \in Bijection(D, M)
  <2>1. f \in [D -> M]
    BY DEF Meaning
  <2>2. \A j, k \in D : f[j] = f[k] => j = k
    BY <1>3
  <2>3. \A m \in M : \E j \in D : f[j] = m
    BY DEF Meaning
  <2>. HIDE DEF f, D, M
  <2>. QED
    BY <2>1, <2>2, <2>3, Fun_IsBij
<1>5. IsFiniteSet(M) /\ Cardinality(M) = Len(a)
  BY <1>2, <1>4, FS_Bijection DEF ExistsBijection
<1>. DEFINE E == Earlier(a, i)  B == Before(M, WriteSource(a[i]))
            g == [j \in E |-> WriteSource(a[j])]
<1>6. E = {j \in D : Ahead(a[j], a[i])} /\ E \in SUBSET D
  BY EarlierAhead
<1>7. IsFiniteSet(E)
  BY <1>2, <1>6, FS_Subset
<1>8. \A j \in D : Ahead(WriteSource(a[j]), WriteSource(a[i])) <=> Ahead(a[j], a[i])
  BY <1>1, WrittenOrder
<1>9. g \in Bijection(E, B)
  <2>. HIDE DEF D
  <2>1. ASSUME NEW j \in E PROVE WriteSource(a[j]) \in B
    <3>1. WriteSource(a[j]) \in M
      BY <1>6 DEF Meaning, D
    <3>. QED
      BY <3>1, <1>6, <1>8 DEF Before
  <2>2. ASSUME NEW m \in B PROVE \E j \in E : WriteSource(a[j]) = m
    <3>1. m \in M /\ Ahead(m, WriteSource(a[i]))
      BY DEF Before
    <3>2. PICK j \in D : m = WriteSource(a[j])
      BY <3>1 DEF Meaning, D
    <3>. QED
      BY <3>1, <3>2, <1>6, <1>8
  <2>. HIDE DEF E, B, M
  <2>3. g \in [E -> B]
    BY <2>1
  <2>4. \A j, k \in E : g[j] = g[k] => j = k
    BY <1>3, <1>6
  <2>5. \A m \in B : \E j \in E : g[j] = m
    BY <2>2
  <2>. HIDE DEF g
  <2>. QED
    BY <2>3, <2>4, <2>5, Fun_IsBij
<1>10. Cardinality(B) = Cardinality(E)
  <2>. HIDE DEF E, B, g
  <2>. QED
    BY <1>7, <1>9, FS_Bijection DEF ExistsBijection
<1>. QED
  BY <1>5, <1>7, <1>10

(* The number of earlier sources is the place of a source: one for each.   *)
LEMMA PlacesTaken ==
  ASSUME NEW a \in Seq(SourceRecords), ~Tied(a)
  PROVE  /\ \A i \in DOMAIN a : Cardinality(Earlier(a, i)) \in 0..(Len(a) - 1)
         /\ \A i, j \in DOMAIN a :
              Cardinality(Earlier(a, i)) = Cardinality(Earlier(a, j)) => i = j
         /\ \A k \in DOMAIN a : \E i \in DOMAIN a : Cardinality(Earlier(a, i)) = k - 1
<1>. DEFINE n == Len(a)  D == 1..n  c(i) == Cardinality(Earlier(a, i))
<1>1. n \in Nat /\ DOMAIN a = D /\ \A j \in D : a[j] \in SourceRecords
  OBVIOUS
<1>. HIDE DEF n
<1>2. IsFiniteSet(D) /\ Cardinality(D) = n
  BY <1>1, FS_Interval
<1>3. ASSUME NEW i \in D
      PROVE /\ IsFiniteSet(Earlier(a, i)) /\ Earlier(a, i) = {j \in D : Ahead(a[j], a[i])}
            /\ i \notin Earlier(a, i) /\ Earlier(a, i) \in SUBSET D /\ c(i) \in 0..(n - 1)
  <2>1. IsFiniteSet(Earlier(a, i)) /\ Earlier(a, i) = {j \in D : Ahead(a[j], a[i])}
    BY <1>1, EarlierAhead, EarlierBefore
  <2>2. i \notin Earlier(a, i)
    BY <1>1, <2>1, AheadTotal
  <2>3. Earlier(a, i) \in SUBSET D
    BY <2>1
  <2>4. c(i) \in Nat /\ c(i) <= n /\ (n = c(i) => D = Earlier(a, i))
    BY <1>2, <2>1, <2>3, FS_Subset, FS_CardinalityType
  <2>5. c(i) \in 0..(n - 1)
    BY <1>1, <2>2, <2>4
  <2>. QED
    BY <2>1, <2>2, <2>3, <2>5
<1>4. ASSUME NEW i \in D, NEW j \in D, Ahead(a[i], a[j]) PROVE c(i) < c(j)
  <2>1. Earlier(a, i) \in SUBSET Earlier(a, j)
    <3>1. ASSUME NEW k \in Earlier(a, i) PROVE k \in Earlier(a, j)
      <4>1. k \in D /\ Ahead(a[k], a[i])
        BY <1>3
      <4>2. Ahead(a[k], a[j])
        BY <1>1, <1>4, <4>1, AheadTotal
      <4>. QED
        BY <4>1, <4>2, <1>3
    <3>. QED
      BY <3>1
  <2>2. i \in Earlier(a, j) /\ i \notin Earlier(a, i)
    BY <1>3, <1>4
  <2>3. c(i) <= c(j) /\ c(j) # c(i)
    BY <1>3, <2>1, <2>2, FS_Subset
  <2>. QED
    BY <2>3, <1>3
<1>5. ASSUME NEW i \in D, NEW j \in D, c(i) = c(j) PROVE i = j
  <2>1. SUFFICES ASSUME i # j PROVE FALSE
    OBVIOUS
  <2>2. Ahead(a[i], a[j]) \/ Ahead(a[j], a[i])
    BY <1>1, <2>1, UntiedDiffer, AheadTotal
  <2>3. c(i) < c(j) \/ c(j) < c(i)
    BY <1>4, <2>2
  <2>4. c(i) \in Int /\ c(j) \in Int
    BY <1>3
  <2>. QED
    BY <1>5, <2>3, <2>4
<1>. DEFINE f == [i \in D |-> c(i)]  Z == 0..(n - 1)
<1>6. f \in Injection(D, Z)
  <2>1. f \in [D -> Z]
    BY <1>3
  <2>2. \A i, j \in D : f[i] = f[j] => i = j
    BY <1>5
  <2>. HIDE DEF f, D, Z
  <2>. QED
    BY <2>1, <2>2, Fun_IsInj
<1>7. IsFiniteSet(Z) /\ Cardinality(Z) = n
  <2>1. 0 \in Int /\ n - 1 \in Int /\ (IF 0 > n - 1 THEN 0 ELSE (n - 1) - 0 + 1) = n
    BY <1>1
  <2>. QED
    BY <2>1, FS_Interval
<1>8. f \in Surjection(D, Z)
  <2>. HIDE DEF f, D, Z
  <2>. QED
    BY <1>2, <1>6, <1>7, FS_Injection
<1>9. ASSUME NEW k \in D PROVE \E i \in D : c(i) = k - 1
  <2>1. k - 1 \in Z
    BY <1>1
  <2>2. \A z \in Z : \E i \in D : f[i] = z
    <3>. HIDE DEF f, Z, D
    <3>. QED
      BY <1>8 DEF Surjection
  <2>3. PICK i \in D : f[i] = k - 1
    BY <2>1, <2>2
  <2>. QED
    BY <2>3
<1>. QED
  BY <1>1, <1>3, <1>5, <1>9 DEF n

(* write_sources puts every source in its place. *)
LEMMA WrittenRanked ==
  ASSUME NEW a \in Seq(SourceRecords), ~Tied(a)
  PROVE  /\ Ranked(WriteSources(a), Meaning(a))
         /\ IsFiniteSet(Meaning(a)) /\ Cardinality(Meaning(a)) = Len(a)
<1>. DEFINE D == DOMAIN a  W == WriteSources(a)  M == Meaning(a)  n == Len(a)
<1>1. n \in Nat /\ D = 1..n
  OBVIOUS
<1>2. /\ \A i \in D : Cardinality(Earlier(a, i)) \in 0..(n - 1)
      /\ \A i, j \in D : Cardinality(Earlier(a, i)) = Cardinality(Earlier(a, j)) => i = j
      /\ \A k \in D : \E i \in D : Cardinality(Earlier(a, i)) = k - 1
  BY PlacesTaken
<1>3. \A i \in D : Cardinality(Earlier(a, i)) = Cardinality(Before(M, WriteSource(a[i])))
  BY EarlierBefore
<1>4. IsFiniteSet(M) /\ Cardinality(M) = n
  <2>1. CASE n = 0
    <3>1. M = {}
      BY <1>1, <2>1 DEF Meaning
    <3>. QED
      BY <2>1, <3>1, FS_EmptySet
  <2>2. CASE n # 0
    <3>1. 1 \in D
      BY <1>1, <2>2
    <3>. QED
      BY <3>1, EarlierBefore
  <2>. QED
    BY <2>1, <2>2
<1>5. ASSUME NEW k \in D
      PROVE Nth(a, k) \in D /\ Cardinality(Earlier(a, Nth(a, k))) = k - 1
  <2>1. \E i \in D : Cardinality(Earlier(a, i)) = k - 1
    BY <1>2
  <2>. QED
    BY <2>1, Zenon DEF Nth
<1>6. W = [k \in D |-> WriteSource(a[Nth(a, k)])]
  BY DEF WriteSources
<1>7. M = {WriteSource(a[i]) : i \in D}
  BY DEF Meaning
<1>. HIDE DEF D, W, M, n
<1>8. DOMAIN W = 1..Cardinality(M)
  BY <1>1, <1>4, <1>6
<1>9. ASSUME NEW k \in DOMAIN W PROVE W[k] \in M /\ Cardinality(Before(M, W[k])) = k - 1
  <2>1. k \in D /\ W[k] = WriteSource(a[Nth(a, k)])
    BY <1>6
  <2>. QED
    BY <2>1, <1>3, <1>5, <1>7
<1>10. ASSUME NEW m \in M PROVE \E k \in DOMAIN W : W[k] = m
  <2>1. PICK i \in D : m = WriteSource(a[i])
    BY <1>7
  <2>. DEFINE k == Cardinality(Earlier(a, i)) + 1
  <2>2. k \in D /\ Cardinality(Earlier(a, i)) = k - 1
    BY <1>1, <1>2
  <2>3. Nth(a, k) = i
    BY <1>2, <1>5, <2>2
  <2>. HIDE DEF k
  <2>. QED
    BY <1>6, <2>1, <2>2, <2>3
<1>11. M = {W[k] : k \in DOMAIN W}
  BY <1>9, <1>10
<1>12. Ranked(W, M)
  BY <1>8, <1>9, <1>11 DEF Ranked
<1>. QED
  BY <1>4, <1>12 DEF W, M, n

(* So the written list is determined by, and determines, the set.          *)
LEMMA WrittenIsMeaning ==
  ASSUME NEW a \in Seq(SourceRecords), NEW b \in Seq(SourceRecords), ~Tied(a), ~Tied(b)
  PROVE  WriteSources(a) = WriteSources(b) <=> Meaning(a) = Meaning(b)
<1>. DEFINE W == WriteSources(a)  V == WriteSources(b)  M == Meaning(a)  N == Meaning(b)
<1>1. Ranked(W, M) /\ Ranked(V, N) /\ IsFiniteSet(M)
  BY WrittenRanked
<1>2. W = [k \in DOMAIN W |-> W[k]] /\ V = [k \in DOMAIN V |-> V[k]]
  BY DEF WriteSources
<1>. HIDE DEF W, V, M, N
<1>3. ASSUME W = V PROVE M = N
  BY <1>1, <1>3 DEF Ranked
<1>4. ASSUME M = N PROVE W = V
  <2>1. Ranked(V, M)
    BY <1>1, <1>4
  <2>2. \A k \in DOMAIN W : k \in DOMAIN V /\ W[k] = V[k]
    BY <1>1, <2>1, RankedOnce
  <2>3. DOMAIN W = DOMAIN V
    BY <1>1, <2>1 DEF Ranked
  <2>4. [k \in DOMAIN W |-> W[k]] = [k \in DOMAIN V |-> V[k]]
    BY <2>2, <2>3
  <2>. QED
    BY <1>2, <2>4
<1>. QED
  BY <1>3, <1>4 DEF W, V, M, N

(* Descriptors that list the same sources, in any order and with the auth  *)
(* kinds repeated or reordered, have one name, and others have different   *)
(* names, unless two of the sources are tied.                              *)
THEOREM NamesAreCanonicalHolds == Spec => []NamesAreCanonical
<1>1. ASSUME NEW a, NEW b
      PROVE  DerivePackUuid(LibraryDescriptor(a)) = DerivePackUuid(LibraryDescriptor(b))
               <=> WriteSources(a) = WriteSources(b)
  <2>. DEFINE D(so) ==
         [affn |-> "null", bbox |-> WorldBboxMicro, format_version |-> <<1, 0>>,
          pixel_format |-> PixelFormatByte("Abgr2222"), projection |-> 1,
          quantiser_version |-> 1, sources |-> so,
          style_hash |-> "null", tile_addressing_scheme |-> 1, tile_axis_convention |-> 1,
          tile_dim_px |-> MinDim, zoom_range |-> <<0, 0>>]
  <2>1. \A s : LibraryDescriptor(s) = D(s) /\ D(s).sources = s
    BY DEF LibraryDescriptor, Descriptor, QuantiserVersionFor
  <2>2. \A s, w : [D(s) EXCEPT !.sources = w] = D(w)
    OBVIOUS
  <2>. HIDE DEF D
  <2>3. \A s : CanonicalDescriptor(LibraryDescriptor(s)) = D(WriteSources(s))
    BY <2>1, <2>2 DEF CanonicalDescriptor
  <2>4. D(WriteSources(a)) = D(WriteSources(b)) <=> WriteSources(a) = WriteSources(b)
    BY <2>1
  <2>5. \A v, w : <<"v5", v>> = <<"v5", w>> <=> v = w
    OBVIOUS
  <2>. QED
    BY <2>3, <2>4, <2>5 DEF DerivePackUuid
<1>2. LogInv => NamesAreCanonical
  <2>. SUFFICES ASSUME LogInv, NEW j \in Returned("library"), NEW k \in Returned("library"),
                       ~Tied(history[j].request.sources), ~Tied(history[k].request.sources)
       PROVE history[j].answer = history[k].answer
               <=> Meaning(history[j].request.sources) = Meaning(history[k].request.sources)
    BY DEF NamesAreCanonical
  <2>. DEFINE a == history[j].request.sources  b == history[k].request.sources
  <2>1. ASSUME NEW i \in Returned("library")
        PROVE  /\ history[i].request.sources \in Seq(SourceRecords)
               /\ history[i].answer = DerivePackUuid(LibraryDescriptor(history[i].request.sources))
    <3>1. i \in DOMAIN history /\ history[i].request.cmd = "library"
      BY DEF Returned
    <3>2. RecordOK(history[i])
      BY <3>1 DEF LogInv, RecordsOK
    <3>. QED
      BY <3>1, <3>2, LibrariesAssumption DEF RecordOK
  <2>2. /\ a \in Seq(SourceRecords) /\ b \in Seq(SourceRecords)
        /\ history[j].answer = DerivePackUuid(LibraryDescriptor(a))
        /\ history[k].answer = DerivePackUuid(LibraryDescriptor(b))
    BY <2>1
  <2>3. WriteSources(a) = WriteSources(b) <=> Meaning(a) = Meaning(b)
    BY <2>2, WrittenIsMeaning
  <2>. QED
    BY <1>1, <2>2, <2>3
<1>. QED
  BY <1>2, LogHolds, PTL
=============================================================================
