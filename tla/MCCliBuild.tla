----------------------------- MODULE MCCliBuild -----------------------------
(***************************************************************************)
(* Instances of CliBuild for TLC: one invocation that fetches from a URL   *)
(* template and one that builds the synthetic pattern.                     *)
(***************************************************************************)
EXTENDS CliBuild

CONSTANTS url, synth

MCSource == [b \in Builds |-> IF b = url THEN "url" ELSE "synthetic"]
=============================================================================
