----------------------------- MODULE MCPackFile -----------------------------
(***************************************************************************)
(* Instances of PackFile for TLC: five packs whose fields all have values  *)
(* of their own.                                                           *)
(***************************************************************************)
EXTENDS PackFile

Uuid(n) == [k \in 1..16 |-> n + k]
Tile(z, x, y, compression, bytes) ==
  [z |-> z, x |-> x, y |-> y, compression |-> compression, bytes |-> bytes]
Section(tag, payload) == [tag |-> tag, payload |-> payload]

Plain ==
  [uuid |-> Uuid(100), supersedes |-> Zeros(16), pixel |-> 1, projection |-> 1,
   addressing |-> 1, axis |-> 1, dim |-> 1, zooms |-> <<1, 2>>,
   bbox |-> <<-180000000, -85051129, 180000000, 85051128>>,
   timestamp |-> <<0, 241, 83, 101, 0, 0, 0, 0>>,
   tiles |-> <<Tile(1, 0, 1, 0, <<9>>), Tile(2, 1, 0, 0, <<7>>), Tile(2, 1, 2, 0, <<5>>)>>,
   sections |-> <<Section(<<65, 84, 84, 82>>, <<79, 83, 77>>)>>]
Empty == [Plain EXCEPT !.tiles = <<>>, !.sections = <<>>, !.axis = 2, !.supersedes = Uuid(200)]
Compressed ==
  [Plain EXCEPT !.pixel = 2, !.dim = 258, !.zooms = <<0, 23>>,
                !.tiles = <<Tile(0, 0, 0, 0, <<1, 2>>), Tile(23, 70000, 513, 1, <<3, 4, 5, 6, 8>>)>>,
                !.sections = <<Section(<<65, 84, 84, 82>>, <<>>), Section(<<110, 111, 116, 101>>, <<1, 2, 3, 4>>)>>]
Single == [Plain EXCEPT !.projection = 3, !.addressing = 2, !.bbox = <<-5, 6, 7, 8>>,
                        !.tiles = <<Tile(1, 0, 0, 0, <<1, 2, 3>>)>>, !.sections = <<>>]
Degenerate == [Plain EXCEPT !.bbox = <<2147483647, 0, -2147483647 - 1, 1>>, !.sections = <<>>]
MCPacks == {Plain, Empty, Compressed, Single, Degenerate}

(* Low bytes of the directory, of index entries and of the section length, *)
(* and what a newer minor version may change.                              *)
MCCrowded ==
  {5, 6, 56, 88, 104, 108, 112, 116, 288} \cup {292 + 20 * i + k : i \in 0..2, k \in {0, 2, 4, 8, 12, 16}}
    \cup {364, 365, 368, 371, 375}
MCBody == [k \in 1..9 |-> {b \in Byte : (k \div 2 ^ b) % 2 = 1} \cup {4, 5}]   \* "123456789"
MCFlips == {{}, {0}, {7}, {1, 4, 6}, Byte}
=============================================================================
