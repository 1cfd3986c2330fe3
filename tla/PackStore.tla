----------------------------- MODULE PackStore ------------------------------
(***************************************************************************)
(* What a pack promises, without a file format: tiles and extensions are   *)
(* collected, and if the pack is ever published it maps every collected    *)
(* key to the bytes collected for it, holds nothing else, and carries the  *)
(* extensions that were attached.                                          *)
(***************************************************************************)
EXTENDS Naturals, Bags

CONSTANTS TileKeys, ByteStrings, Attachments

VARIABLES
  phase,      \* "Collecting", "Sealed", "Published" or "Abandoned"
  collected,  \* the tiles, as a set of [key, bytes]
  attached,   \* the extensions, as a bag
  published   \* the packs published so far: none, or one [tiles, exts]

vars == <<phase, collected, attached, published>>

Init ==
  /\ phase = "Collecting" /\ collected = {} /\ attached = EmptyBag
  /\ published = {}

Add(k, b) ==
  /\ phase = "Collecting"
  /\ \A t \in collected : t.key # k
  /\ collected' = collected \cup {[key |-> k, bytes |-> b]}
  /\ UNCHANGED <<phase, attached, published>>

Attach(e) ==
  /\ phase = "Collecting"
  /\ attached' = attached (+) SetToBag({e})
  /\ UNCHANGED <<phase, collected, published>>

Seal ==
  /\ phase = "Collecting"
  /\ phase' = "Sealed"
  /\ UNCHANGED <<collected, attached, published>>

Publish ==
  /\ phase = "Sealed"
  /\ phase' = "Published"
  /\ published' = {[tiles |-> collected, exts |-> attached]}
  /\ UNCHANGED <<collected, attached>>

Abandon ==
  /\ phase \in {"Collecting", "Sealed"}
  /\ phase' = "Abandoned"
  /\ UNCHANGED <<collected, attached, published>>

Next ==
  \/ \E k \in TileKeys, b \in ByteStrings : Add(k, b)
  \/ \E e \in Attachments : Attach(e)
  \/ Seal \/ Publish \/ Abandon

Spec == Init /\ [][Next]_vars
=============================================================================
