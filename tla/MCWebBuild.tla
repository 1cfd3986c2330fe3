----------------------------- MODULE MCWebBuild -----------------------------
(***************************************************************************)
(* Requests for WebBuild.  Sizes are in raw tiles.  A three-by-three level *)
(* under two-by-two blocks has partial columns and partial rows; with the  *)
(* budgets below its uncompressed build takes the smaller block, and its   *)
(* RLE8 build the larger one until the browser has learned a worse ratio.  *)
(***************************************************************************)
EXTENDS WebBuild

Box(a, b, c, d) == [x0 |-> a, x1 |-> b, y0 |-> c, y1 |-> d]
Ask(first, last, extent, packed) ==
  [kind |-> "area", first |-> first, last |-> last, extent |-> extent,
   tile |-> 1, packed |-> packed]

Ladder == [l \in 2..3 |-> IF l = 2 THEN Box(0, 1, 0, 1) ELSE Box(1, 3, 1, 3)]
LadderRaw == Ask(2, 3, Ladder, FALSE)
LadderPacked == Ask(2, 3, Ladder, TRUE)
SmallRaw == Ask(2, 2, [l \in {2} |-> Box(0, 2, 0, 1)], FALSE)
AcrossTheEdge == Ask(2, 2, [l \in {2} |-> Box(-1, 0, 1, 1)], FALSE)
WhollyWest == Ask(2, 2, [l \in {2} |-> Box(-2, -1, 0, 0)], FALSE)
NothingDrawn == [SmallRaw EXCEPT !.kind = "empty"]
TooTall == Ask(3, 3, [l \in {3} |-> Box(0, 1, 0, 7)], FALSE)
TooDeep == Ask(24, 24, [l \in {24} |-> Box(5, 5, 6, 6)], FALSE)

MCRequests == {LadderRaw, LadderPacked, AcrossTheEdge, WhollyWest, NothingDrawn, TooTall, TooDeep}
Shallow == MCRequests \ {TooDeep}
MCBlockSizes == <<2, 1>>
=============================================================================
