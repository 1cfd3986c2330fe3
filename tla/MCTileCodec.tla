----------------------------- MODULE MCTileCodec -----------------------------
(***************************************************************************)
(* Instances of TileCodec for TLC: 2x2 pictures in colours on both sides   *)
(* of every threshold, longer byte strings given to the encoder directly,  *)
(* and every short stream another writer could have left.                  *)
(***************************************************************************)
EXTENDS TileCodec

Grey(v) == <<v, v, v>>
Mixed == <<42, 43, 127>>
Bright == <<128, 212, 213>>
Pixels == {Grey(0), Grey(255), Mixed, Bright}

Picture(w, h, rgb) == [kind |-> "Image", width |-> w, height |-> h, rgb |-> rgb]
MCSources ==
  {[kind |-> "Empty"], [kind |-> "NotAnImage"], Picture(0, 2, <<>>),
   Picture(2, 1, <<Mixed, Mixed>>), Picture(1, 2, <<Mixed, Mixed>>)}
    \cup {Picture(2, 2, rgb) : rgb \in [1..4 -> Pixels]}

Slot(c, code) == [rgb |-> c, code |-> code]
Palette(slots) == [format |-> "Palette", slots |-> slots]
(* The third palette has two slots at the same distance from Grey(255). *)
MCQuantisers ==
  {[format |-> "Abgr2222", slots |-> <<>>], [format |-> "Rgb565", slots |-> <<>>],
   Palette(<<>>), Palette(<<Slot(Grey(0), 63)>>),
   Palette(<<Slot(Grey(0), 192), Slot(Grey(0), 255)>>),
   Palette(<<Slot(<<255, 255, 245>>, 255), Slot(<<255, 245, 255>>, 254),
             Slot(<<40, 40, 120>>, 255), Slot(Grey(200), 192)>>)}

Strings(alphabet, longest) == UNION {[1..n -> alphabet] : n \in 1..longest}
MCInputs == Strings({0, 5}, 10) \cup Strings({0, 1, 5}, 6)
(* Headers of one- and two-byte literals and of two- and three-byte runs. *)
MCStreams == Strings({0, 1, 5, 6}, 5)
=============================================================================
