---------------------------- MODULE MCUrlFetcher ----------------------------
(***************************************************************************)
(* Instances of UrlFetcher for TLC.  One tick is 250 ms: the unknown-host  *)
(* interval is one tick and the OSM interval two.  {x} is in the host of   *)
(* two templates, so that pacing one host must survive requests to the     *)
(* others, and an address leaves the loopback block in mid-region.         *)
(***************************************************************************)
EXTENDS UrlFetcher

Template(labels) == [labels |-> labels, unterminated |-> FALSE]
Osm == Template(<<"{x}", "tile", "openstreetmap", "org">>)
Numbered == Template(<<"127", "0", "0", "{x}">>)
Plain == Template(<<"localhost", "example">>)
Broken == [Plain EXCEPT !.unterminated = TRUE]

MCSettings ==
  [template : {Osm, Numbered, Plain, Broken}, interval : {NoOverride}]
    \cup [template : {Numbered}, interval : {2}]

MCCoords ==
  [k \in 1..4 |-> [z |-> 9, x |-> <<255, 256, 255, 256>>[k], y |-> <<7, 7, 8, 8>>[k]]]

Date(y, m, d, h) == [year |-> y, month |-> m, day |-> d, hour |-> h, minute |-> 59, second |-> 60]
MCStamps == {NoStamp, Date(2000, 2, 31, 0), Date(2000, 3, 1, 23), Date(1972, 12, 31, 9)}

MCRetryHeaders ==
  {[form |-> "none"], [form |-> "seconds", seconds |-> 0], [form |-> "seconds", seconds |-> 1],
   [form |-> "date", date |-> Date(2000, 2, 29, 0)], [form |-> "date", date |-> Date(2000, 3, 1, 23)]}
MCNow == ParseHttpDate(Date(2000, 3, 1, 23)) - 2

MCLocalHosts == {<<"127", "0", "0", "255">>}
MCOsmHosts == {<<n, "tile", "openstreetmap", "org">> : n \in {"255", "256"}}
=============================================================================
