--------------------------- MODULE MCPackBuilder ---------------------------
(***************************************************************************)
(* An instance of PackBuilder for TLC: two colours, two pixels to a tile,  *)
(* keys at two levels, one of them written in the order a row-major loop   *)
(* would produce, and a level the directory has no slot for.               *)
(***************************************************************************)
EXTENDS PackBuilder

MCKeys == {[z |-> 2, x |-> 1, y |-> 3], [z |-> 2, x |-> 3, y |-> 0],
           [z |-> 5, x |-> 0, y |-> 0], [z |-> 24, x |-> 0, y |-> 0]}
MCBytes == [1..PixelsPerTile -> Colours]
MCByteLen == [b \in MCBytes |-> PixelsPerTile]
MCPayloadLen == [p \in Payloads |-> IF p = 1 THEN 3 ELSE U32Max + 1]
MCConfigs ==
  {[dim |-> 128, zmin |-> 2, zmax |-> 24, attr |-> 1],
   [dim |-> 128, zmin |-> 3, zmax |-> 5, attr |-> NoAttribution],
   [dim |-> 256, zmin |-> 2, zmax |-> 5, attr |-> 2],
   [dim |-> 0, zmin |-> 2, zmax |-> 24, attr |-> 1],
   [dim |-> 128, zmin |-> 5, zmax |-> 2, attr |-> 1]}
MCMetas == {[uuid |-> 1, parent |-> FALSE, dim |-> c.dim, zmin |-> c.zmin, zmax |-> c.zmax] :
              c \in MCConfigs}
MCDescriptors ==
  {[dim |-> 128, zmin |-> 2, zmax |-> 24, quantiser |-> Quantiser],
   [dim |-> 128, zmin |-> 3, zmax |-> 5, quantiser |-> Quantiser],
   [dim |-> 256, zmin |-> 2, zmax |-> 5, quantiser |-> Quantiser],
   [dim |-> 128, zmin |-> 2, zmax |-> 24, quantiser |-> 0]}
=============================================================================
