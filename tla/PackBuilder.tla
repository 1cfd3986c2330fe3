---------------------------- MODULE PackBuilder ----------------------------
(***************************************************************************)
(* The PackBuilder of slippypack-core, composed with the writer it drives. *)
(* Both front-ends promise the same pack for the same pixels; what carries *)
(* that promise is that the builder hashes the pixels in the order in      *)
(* which the finished index lists them.  `finish` consumes the builder and *)
(* makes the calls of RawtilesWriter one after the other.                  *)
(*                                                                         *)
(* A pixel is a colour and whether it is opaque; quantising and RLE8 are a *)
(* function of a tile's colours, so the encoded bytes of a tile are named  *)
(* by the colours they encode: Bytes is the set of tiles of colours.  The  *)
(* SHA-256 state is the stream it has absorbed.                            *)
(***************************************************************************)
EXTENDS RawtilesWriter

CONSTANTS
  Colours,        \* RGB888 values a pixel may have
  PixelsPerTile,  \* tile_dim_px squared
  Configs,        \* [dim, zmin, zmax, attr] callers may pass to `new`
  Descriptors,    \* [dim, zmin, zmax, quantiser] callers may pass to `finish`
  Quantiser,      \* pixel format and version of the builder's quantiser
  AttrTag         \* TAG_ATTR

ASSUME PixelsAssumption == PixelsPerTile \in Nat \ {0}
ASSUME EncodingAssumption == Bytes = [1..PixelsPerTile -> Colours]
ASSUME AttributionAssumption ==
  AttrTag \in Tags /\ \A c \in Configs : c.attr \in Payloads \cup {-1}

(* The metadata `finish` begins the pack with: the UUID is derived, never  *)
(* nil, and the pack never a child of another.                             *)
BuilderMeta(c) ==
  [uuid |-> 1, parent |-> FALSE, dim |-> c.dim, zmin |-> c.zmin, zmax |-> c.zmax]

ASSUME ConfigsAssumption == \A c \in Configs : BuilderMeta(c) \in Metas

NoAttribution == -1
NoKey == [z |-> -1, x |-> 0, y |-> 0]   \* previous_key: None, before every key

(* Buffers: RGB888 ones are colours, RGBA8888 ones pixels; either may have *)
(* the wrong size.                                                         *)
Pixel == [colour : Colours, opaque : BOOLEAN]
RgbBuffers == Bytes \cup {<<>>}
RgbaBuffers == [1..PixelsPerTile -> Pixel] \cup {<<>>}

VARIABLES
  phase,     \* New, Feeding, Finishing or Finished
  answer,    \* what the last call returned
  config,    \* the configuration, as given to `new`
  previous,  \* previous_key
  hashed,    \* the colours the hasher has absorbed
  held,      \* tiles: the accepted ones, encoded
  scratch,   \* rgb_scratch
  handed     \* tiles `finish` has handed to the writer

builderVars == <<phase, answer, config, previous, hashed, held, scratch, handed>>
allVars == <<vars, builderVars>>

NoConfig == [dim |-> 0, zmin |-> 0, zmax |-> 0, attr |-> NoAttribution]

BuilderInit ==
  /\ Init
  /\ phase = "New" /\ answer = "Ok" /\ config = NoConfig
  /\ previous = NoKey /\ hashed = <<>> /\ held = <<>> /\ scratch = <<>> /\ handed = 0

----------------------------------------------------------------------------
(* Feeding tiles. *)

New(c) ==
  /\ phase = "New"
  /\ answer' = IF c.dim = 0 THEN "InvalidTileDim"
               ELSE IF c.zmin > c.zmax THEN "InvalidZoomRange" ELSE "Ok"
  /\ IF answer' = "Ok" THEN phase' = "Feeding" /\ config' = c ELSE UNCHANGED <<phase, config>>
  /\ UNCHANGED <<previous, hashed, held, scratch, handed, vars>>

Follows(k) == KeyLess(previous, k)

RgbVerdict(k, rgb) ==
  IF Len(rgb) # PixelsPerTile THEN "TileSize"
  ELSE IF k.z < config.zmin \/ k.z > config.zmax THEN "ZoomOutOfRange"
  ELSE IF ~Follows(k) THEN "OutOfOrder"
  ELSE "Ok"

(* Mutants: the pixels are hashed (the conjunct on the length only keeps    *)
(* the mutant finite), or the key remembered, before the checks.           *)
AcceptRgbHashFirst(k, rgb) ==
  /\ answer' = RgbVerdict(k, rgb)
  /\ Len(hashed) < PixelsPerTile * MaxTiles
  /\ hashed' = hashed \o rgb
  /\ IF answer' = "Ok"
       THEN previous' = k /\ held' = Append(held, [key |-> k, bytes |-> rgb])
       ELSE UNCHANGED <<previous, held>>

AcceptRgbEagerly(k, rgb) ==
  /\ answer' = RgbVerdict(k, rgb)
  /\ previous' = k
  /\ IF answer' = "Ok"
       THEN /\ hashed' = hashed \o rgb
            /\ held' = Append(held, [key |-> k, bytes |-> rgb])
       ELSE UNCHANGED <<hashed, held>>

(* The body of add_tile_rgb888. *)
AcceptRgb(k, rgb) ==
  /\ answer' = RgbVerdict(k, rgb)
  /\ IF answer' = "Ok"
       THEN /\ previous' = k
            /\ hashed' = hashed \o rgb
            /\ held' = Append(held, [key |-> k, bytes |-> rgb])
       ELSE UNCHANGED <<previous, hashed, held>>

AddTileRgb888(k, rgb) ==
  /\ phase = "Feeding" /\ Len(held) < MaxTiles
  /\ AcceptRgb(k, rgb)
  /\ UNCHANGED <<phase, config, scratch, handed, vars>>

ScratchCleared == <<>>

(* The colours up to the first pixel that is not opaque. *)
OpaquePrefix(rgba) ==
  LET n == CHOOSE i \in 0..Len(rgba) :
             /\ \A j \in 1..i : rgba[j].opaque
             /\ i < Len(rgba) => ~rgba[i + 1].opaque
  IN [i \in 1..n |-> rgba[i].colour]

AddTileRgba8888(k, rgba) ==
  /\ phase = "Feeding" /\ Len(held) < MaxTiles
  /\ IF Len(rgba) # PixelsPerTile
       THEN answer' = "TileSize" /\ UNCHANGED <<scratch, previous, hashed, held>>
       ELSE /\ scratch' = ScratchCleared \o OpaquePrefix(rgba)
            /\ IF Len(OpaquePrefix(rgba)) < PixelsPerTile
                 THEN answer' = "NotOpaque" /\ UNCHANGED <<previous, hashed, held>>
                 ELSE AcceptRgb(k, scratch')
  /\ UNCHANGED <<phase, config, handed, vars>>

----------------------------------------------------------------------------
(* finish *)

FinishVerdict(d) ==
  IF held = <<>> THEN "Empty"
  ELSE IF \/ d.dim # config.dim
          \/ d.zmin # config.zmin \/ d.zmax # config.zmax
          \/ d.quantiser # Quantiser
         THEN "DescriptorMismatch"
  ELSE "Ok"

GiveUp == phase' = "Finished" /\ answer' = "Writer"

FinishRejects(d) ==
  /\ phase = "Feeding" /\ FinishVerdict(d) # "Ok"
  /\ phase' = "Finished" /\ answer' = FinishVerdict(d)
  /\ UNCHANGED <<config, previous, hashed, held, scratch, handed, vars>>

FinishBegins(d) ==
  /\ phase = "Feeding" /\ FinishVerdict(d) = "Ok"
  /\ BeginPack(BuilderMeta(config))
  /\ IF result' = "Ok" THEN phase' = "Attaching" /\ UNCHANGED answer ELSE GiveUp
  /\ UNCHANGED <<config, previous, hashed, held, scratch, handed>>

FinishAttaches ==
  /\ phase = "Attaching"
  /\ IF config.attr = NoAttribution
       THEN phase' = "Handing" /\ UNCHANGED <<answer, vars>>
       ELSE /\ AddExtension([tag |-> AttrTag, payload |-> config.attr])
            /\ IF result' = "Ok" THEN phase' = "Handing" /\ UNCHANGED answer ELSE GiveUp
  /\ UNCHANGED <<config, previous, hashed, held, scratch, handed>>

(* The tile that stands for an accepted one in the pack. *)
InlineTile(t) ==
  [key |-> t.key, content |-> [kind |-> "Inline", source |-> 0, bytes |-> t.bytes]]

FinishHandsTile ==
  /\ phase = "Handing" /\ handed < Len(held)
  /\ AddTileRef(InlineTile(held[handed + 1]))
  /\ IF result' = "Ok" THEN handed' = handed + 1 /\ UNCHANGED <<phase, answer>>
                       ELSE GiveUp /\ UNCHANGED handed
  /\ UNCHANGED <<config, previous, hashed, held, scratch>>

FinishFinalizes ==
  /\ phase = "Handing" /\ handed = Len(held)
  /\ Finalize
  /\ phase' = "Finalizing"
  /\ UNCHANGED <<answer, config, previous, hashed, held, scratch, handed>>

(* The output is a Vec and every tile is inline: no I/O error is possible. *)
FinalizeRuns ==
  /\ phase = "Finalizing"
  /\ \/ Plan \/ WriteHeader \/ WriteEntry \/ PadIndex \/ WriteTile \/ EndOfBlob
     \/ WriteExt \/ WriteCrc
  /\ UNCHANGED builderVars

FinishReturns ==
  /\ phase = "Finalizing" /\ pc \in {"Done", "Failed"}
  /\ phase' = "Finished"
  /\ answer' = IF pc = "Done" THEN "Ok" ELSE "Writer"
  /\ UNCHANGED <<config, previous, hashed, held, scratch, handed, vars>>

(* `finish` took the builder by value. *)
Gone == phase = "Finished" /\ UNCHANGED allVars

Feed ==
  \/ \E c \in Configs : New(c)
  \/ \E k \in Keys, rgb \in RgbBuffers : AddTileRgb888(k, rgb)
  \/ \E k \in Keys, rgba \in RgbaBuffers : AddTileRgba8888(k, rgba)
  \/ \E d \in Descriptors : FinishRejects(d) \/ FinishBegins(d)

Finish ==
  FinishAttaches \/ FinishHandsTile \/ FinishFinalizes \/ FinalizeRuns \/ FinishReturns

BuilderNext == Feed \/ Finish \/ Gone

BuilderSpec == BuilderInit /\ [][BuilderNext]_allVars /\ WF_allVars(Finish)

----------------------------------------------------------------------------
(* Properties *)

(* builder.rs, "Tile order is part of the contract": the content hash is   *)
(* taken over the tiles' pixels in the order in which the index of the     *)
(* finished pack lists them, all of them and nothing else, whichever       *)
(* entry point each tile came through and whatever calls were rejected in  *)
(* between.                                                                *)
HashFollowsIndex ==
  phase = "Finished" /\ answer = "Ok" =>
    /\ Len(hashed) = PixelsPerTile * Len(blob)
    /\ \A i \in 1..Len(blob) :
         blob[i].bytes = [p \in 1..PixelsPerTile |-> hashed[(i - 1) * PixelsPerTile + p]]

(* A rejected tile leaves the stream, the tiles and the order as they were, *)
(* so a caller may go on after an error.                                    *)
RejectionIsHarmless ==
  [][answer' # "Ok" => UNCHANGED <<previous, hashed, held>>]_allVars

(* `finish` returns. *)
FinishEnds == phase = "Attaching" ~> phase = "Finished"
=============================================================================
