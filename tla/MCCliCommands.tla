---------------------------- MODULE MCCliCommands ----------------------------
(***************************************************************************)
(* Instances of CliCommands for TLC: requests that differ from an ordinary *)
(* one in a single option, every command after every other that differs in *)
(* one more, and a look at the pack at the end.                            *)
(***************************************************************************)
EXTENDS CliCommands

Box(b) == [given |-> TRUE, parts |-> 4, numeric |-> TRUE, box |-> b]
Zooms(a, b) == [given |-> TRUE, numeric |-> TRUE, min |-> a, max |-> b]
Attribution(text) == [given |-> TRUE, text |-> text]
Http(name, holes) == [scheme |-> "http", name |-> name, holes |-> holes]

Ordinary ==
  [cmd |-> "make", source |-> Http(1, {"z", "x", "y"}), bbox |-> Box(<<-8, -4, 0, 4>>),
   zoom |-> Zooms(0, 1), dim |-> 8, headers |-> <<>>, query |-> <<>>, rate |-> "None",
   timestamp |-> [given |-> FALSE, seconds |-> 0], uuid |-> "None", attribution |-> [given |-> FALSE, text |-> <<>>],
   pixel |-> "Abgr2222", compression |-> "None", bytes |-> FALSE]
Demo == [Ordinary EXCEPT !.source = [scheme |-> "synthetic", name |-> 0, holes |-> {}]]

(* The second box has the same corners in microdegrees as the first and    *)
(* another tile column; the third and fourth have a corner on a tie.       *)
Boxes ==
  {Box(b) : b \in {<<-8, -4, 0, 4>>, <<-8, -4, -1, 4>>, <<-8, -4, 2, 4>>, <<-8, -4, 6, 4>>,
                   <<-8, -4, -4, 4>>, <<-16, -8, 16, 8>>, <<4, 0, 0, 4>>, <<0, 0, 20, 4>>}}
    \cup {[Ordinary.bbox EXCEPT !.given = FALSE], [Ordinary.bbox EXCEPT !.parts = 3],
          [Ordinary.bbox EXCEPT !.numeric = FALSE]}
ZoomRanges ==
  {Zooms(1, 1), Zooms(1, 0), Zooms(1, 3), Zooms(3, 3),
   [Ordinary.zoom EXCEPT !.given = FALSE], [Ordinary.zoom EXCEPT !.numeric = FALSE]}
Sources == {Demo.source, Http(2, {"z", "x", "y"}), Http(1, {"z", "x"}),
            [scheme |-> "mbtiles", name |-> 1, holes |-> {}]}

Changed(r) ==
  {r} \cup {[r EXCEPT !.bbox = b] : b \in Boxes} \cup {[r EXCEPT !.zoom = z] : z \in ZoomRanges}
    \cup {[r EXCEPT !.source = s] : s \in Sources} \cup {[r EXCEPT !.dim = d] : d \in {4, 6, 16, 32}}
    \cup {[r EXCEPT !.headers = h] : h \in {<<"Good">>, <<"Good", "NoColon">>}}
    \cup {[r EXCEPT !.query = q] : q \in {<<"Good">>, <<"NoKey">>}}
    \cup {[r EXCEPT !.pixel = p] : p \in {"Rgb565", "Unknown"}} \cup {[r EXCEPT !.bytes = TRUE]}
MakeChanged(r) ==
  Changed(r) \cup {[r EXCEPT !.uuid = u] : u \in {"Fixed", "AllZero", "Malformed"}}
    \cup {[r EXCEPT !.rate = "NotPositive"], [r EXCEPT !.compression = "Rle8"]}
    \cup {[r EXCEPT !.timestamp = [given |-> TRUE, seconds |-> t]] : t \in {0, 7}}
    \cup {[r EXCEPT !.attribution = Attribution(t)] :
            t \in {<<"Text", "Text">>, <<>>, <<"Text", "Lf">>}}

Firsts == MakeChanged(Ordinary) \cup MakeChanged(Demo)
Seconds(r) ==
  MakeChanged(r) \cup {[s EXCEPT !.cmd = "debug"] : s \in Changed(r)}
    \cup {[r EXCEPT !.cmd = "inspect"]}
MCRequests(earlier) ==
  CASE Len(earlier) = 0 -> Firsts
    [] Len(earlier) = 1 -> Seconds(earlier[1])
    [] OTHER -> {[r EXCEPT !.cmd = "inspect"] : r \in {Ordinary}}

Listed ==
  {Synthetic(1), Source("dir", 1, <<>>, 0, 1), Source("dir", 2, <<>>, 0, 1),
   Source("style", 1, <<>>, 0, 1), Source("url", 1, <<0, 1>>, 0, 1),
   Source("url", 1, <<1, 0, 1>>, 0, 1), Source("url", 2, <<0>>, 0, 1),
   Source("url", 1, <<0>>, 0, 0)}
MCLibraries ==
  {<<>>} \cup {<<a>> : a \in Listed} \cup {p \in Listed \X Listed : p[1] # p[2]}
    \cup {p \in Listed \X Listed \X Listed : IsInjective(p) /\ Synthetic(1) \in ToSet(p)}

MCRowEdges == (0 :> {}) @@ (1 :> {0}) @@ (2 :> {-5, 0, 5}) @@ (3 :> {-6, -5, -3, 0, 3, 5, 6})
=============================================================================
