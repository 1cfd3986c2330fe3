---------------------------- MODULE PackIdentity ----------------------------
(***************************************************************************)
(* The canonical descriptor of a pack and the UUIDv5 derived from it.  The *)
(* canonical form is a JSON text with sorted keys; here it is the record   *)
(* that text spells, which it determines and is determined by.  SHA-1 is   *)
(* taken to be injective.                                                  *)
(***************************************************************************)
EXTENDS Integers, SequencesExt, FiniteSets

(* Source, in declaration order, which the derived Ord follows. *)
Kinds == <<"dir", "geotiff", "mbtiles", "pbf", "pmtiles", "style", "synthetic", "url">>

(* A source: `id` is the content hash, the fixture version or the          *)
(* template; only a url source has auth kinds, as the caller listed them   *)
(* (0 is Header, 1 is Query).                                              *)
Source(kind, id, auth, zoomMin, zoomMax) ==
  [kind |-> kind, id |-> id, auth |-> auth, zoomMin |-> zoomMin, zoomMax |-> zoomMax]
Synthetic(version) == Source("synthetic", version, <<>>, 0, 0)
SourceRecords ==
  {s \in [kind : ToSet(Kinds), id : Nat, auth : Seq({0, 1}), zoomMin : Nat, zoomMax : Nat] :
     s.kind # "url" => s.auth = <<>>}

(* The comparison of write_sources: zoom range, variant, then the fields   *)
(* in declaration order; a Vec compares lexicographically.                 *)
SortKey(s) ==
  <<s.zoomMin, s.zoomMax, CHOOSE k \in DOMAIN Kinds : Kinds[k] = s.kind, s.id>> \o s.auth
LexLess(p, q) ==
  \E k \in 1..Len(q) :
    /\ \A j \in 1..(k - 1) : j <= Len(p) /\ p[j] = q[j]
    /\ k > Len(p) \/ p[k] < q[k]
Precedes(s, t) == LexLess(SortKey(s), SortKey(t))

(* write_auth_kinds sorts and deduplicates: what is written is the set. *)
WriteSource(s) == [s EXCEPT !.auth = ToSet(s.auth)]

(* The sort is stable: a source comes after the others that precede it,    *)
(* and after those listed before it that it does not precede.              *)
Earlier(sources, i) ==
  {j \in DOMAIN sources \ {i} :
     \/ Precedes(sources[j], sources[i])
     \/ j < i /\ ~Precedes(sources[i], sources[j])}
Nth(sources, k) == CHOOSE i \in DOMAIN sources : Cardinality(Earlier(sources, i)) = k - 1

(* Mutant: the order of the caller. *)
WriteSourcesAsListed(sources) == [k \in DOMAIN sources |-> WriteSource(sources[k])]

WriteSources(sources) == [k \in DOMAIN sources |-> WriteSource(sources[Nth(sources, k)])]

CanonicalDescriptor(d) == [d EXCEPT !.sources = WriteSources(d.sources)]

DerivePackUuid(d) == <<"v5", CanonicalDescriptor(d)>>
=============================================================================
