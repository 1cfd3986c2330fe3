-------------------------- MODULE MCRawtilesWriter --------------------------
(***************************************************************************)
(* Instances of RawtilesWriter and RawtilesPack for TLC.                   *)
(***************************************************************************)
EXTENDS RawtilesPack

CONSTANTS b0, b5, bBig

(* Two levels inside the pack's range, one above it, and the first level *)
(* the directory has no slot for.                                        *)
MCKeys == {[z |-> 2, x |-> 1, y |-> 3], [z |-> 2, x |-> 3, y |-> 0],
           [z |-> 5, x |-> 0, y |-> 0], [z |-> 24, x |-> 0, y |-> 0],
           [z |-> 30, x |-> 0, y |-> 0]}
MCBytes == {b0, b5, bBig}
MCByteLen == [b \in MCBytes |-> CASE b = b0 -> 0 [] b = b5 -> 5 [] b = bBig -> U32Max + 1]
MCTags == {1, 2}
MCPayloads == {0, 1, 2}
MCPayloadLen == [p \in MCPayloads |-> CASE p = 0 -> 0 [] p = 1 -> 3 [] p = 2 -> U32Max + 1]
GoodMeta == [uuid |-> 7, parent |-> FALSE, dim |-> 128, zmin |-> 2, zmax |-> 24]
MCMetas == {GoodMeta, [GoodMeta EXCEPT !.uuid = 0], [GoodMeta EXCEPT !.parent = TRUE],
            [GoodMeta EXCEPT !.dim = 0], [GoodMeta EXCEPT !.zmax = 1]}
=============================================================================
