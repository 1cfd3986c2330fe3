----------------------------- MODULE RegionPlan -----------------------------
(***************************************************************************)
(* The arithmetic of the page: which tiles a request covers, and what      *)
(* www/src/estimate.js decides about building it.                          *)
(*                                                                         *)
(* A request is what the fields of the page say.  The bounding box appears *)
(* as the tile extent it has at each level; sizes count raw tile bytes;    *)
(* the learned RLE8 fraction is in thousandths.  The predicted time is     *)
(* left out: only the verdict "heavy" depends on it, which is advice and   *)
(* is merged with "ok" here.                                               *)
(***************************************************************************)
EXTENDS Integers, Sequences, FiniteSetsExt

CONSTANTS
  Requests,      \* what the fields may say; see RequestsAssumption
  BlockSizes,    \* BLOCK_SIZES, largest first
  ColumnBudget, ColumnCeiling, PackCeiling, TotalBudget, TotalCeiling

Extent == [x0 : Int, x1 : Int, y0 : Int, y1 : Int]

ASSUME BlockSizesAssumption ==
  /\ BlockSizes \in Seq(Nat \ {0}) /\ BlockSizes # <<>>
  /\ \A i, j \in DOMAIN BlockSizes : i < j => BlockSizes[i] > BlockSizes[j]
ASSUME RequestsAssumption ==
  \A r \in Requests :
    /\ r.kind \in {"area", "empty", "invalid"} /\ r.tile \in Nat \ {0} /\ r.packed \in BOOLEAN
    /\ r.first \in Nat /\ r.last \in Nat /\ r.first <= r.last
    /\ r.extent \in [r.first..r.last -> Extent]
    /\ \A l \in DOMAIN r.extent :
         r.extent[l].x0 <= r.extent[l].x1 /\ r.extent[l].y0 <= r.extent[l].y1

Least(a, b) == IF a <= b THEN a ELSE b
CeilDiv(a, b) == (a + b - 1) \div b

(* extent *)
Levels(r) == r.first..r.last
Nx(r, l) == r.extent[l].x1 - r.extent[l].x0 + 1
Ny(r, l) == r.extent[l].y1 - r.extent[l].y0 + 1

(* shape: Math.ceil(nx / blockN) * Math.ceil(ny / blockN) renders a level. *)
LevelTiles(r, l) == Nx(r, l) * Ny(r, l)
LevelRenders(r, n, l) == CeilDiv(Nx(r, l), n) * CeilDiv(Ny(r, l), n)
TileTotal == [r \in Requests |-> SumFunction([l \in Levels(r) |-> LevelTiles(r, l)])]
Tiles(r) == TileTotal[r]
Renders(r, n) == SumFunction([l \in Levels(r) |-> LevelRenders(r, n, l)])
ColumnBytes ==
  [r \in Requests, n \in Range(BlockSizes) |->
     Max({Least(n, Nx(r, l)) * Ny(r, l) * r.tile * 4 : l \in Levels(r)})]
Column(r, n) == ColumnBytes[r, n]

(* Mutant: a pack is charged the learned fraction whatever its compression. *)
PackBytesAlwaysPacked(r, fraction) == (Tiles(r) * r.tile * fraction + 500) \div 1000

(* An uncompressed pack is its raw size; Math.round. *)
PackBytes(r, fraction) ==
  (Tiles(r) * r.tile * (IF r.packed THEN fraction ELSE 1000) + 500) \div 1000

PeakTotal(column, pack) == 2 * column + 2 * pack

Fits(r, fraction, n) ==
  /\ Column(r, n) <= ColumnBudget
  /\ PeakTotal(Column(r, n), PackBytes(r, fraction)) <= TotalBudget

(* The largest block size that fits; the smallest if none does. *)
ChosenBlock(r, fraction) ==
  LET fitting == {n \in Range(BlockSizes) : Fits(r, fraction, n)}
  IN IF fitting = {} THEN BlockSizes[Len(BlockSizes)] ELSE Max(fitting)

Refused(r, fraction) ==
  LET column == Column(r, ChosenBlock(r, fraction))
      pack   == PackBytes(r, fraction)
  IN PeakTotal(column, pack) > TotalCeiling \/ column > ColumnCeiling \/ pack > PackCeiling

Verdict(r, fraction) ==
  IF r.kind # "area" THEN r.kind ELSE IF Refused(r, fraction) THEN "refuse" ELSE "ok"

(* recordBuild: only a compressed build teaches the fraction, half-weighted. *)
Learn(r, fraction, seen) == IF r.packed THEN (fraction + seen) \div 2 ELSE fraction

----------------------------------------------------------------------------
(* The tiles of a region, as the index of the pack lists them. *)
RegionTiles(r) ==
  UNION {{[z |-> l, x |-> x, y |-> y] : x \in r.extent[l].x0..r.extent[l].x1,
                                        y \in r.extent[l].y0..r.extent[l].y1} : l \in Levels(r)}
=============================================================================
