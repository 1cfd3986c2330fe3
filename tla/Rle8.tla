-------------------------------- MODULE Rle8 --------------------------------
(***************************************************************************)
(* The run-length codec of slippypack-core: `encode`, one turn of its      *)
(* outer loop per step, and the two decoders, one block per step.  In      *)
(* between the stream lies in a pack, where it may lose its end; a stream  *)
(* may also come from another writer.                                      *)
(*                                                                         *)
(* A byte is a natural number.  The real MAX_RUN is 128, and one bit of    *)
(* the header selects the kind of block: with MaxRun in its place, headers *)
(* below MaxRun announce literals and the others repeats.                  *)
(***************************************************************************)
EXTENDS Integers, Sequences

CONSTANTS
  MaxRun,   \* MAX_RUN, scaled down for model checking
  Inputs,   \* byte strings of tiles
  Streams,  \* encoded streams in packs of other writers
  Lengths   \* expected_len, as the headers of those packs give it

(* Mutant: two equal bytes are enough for a repeat. *)
PairsRepeat == 2
RepeatThreshold == 3

ASSUME MaxRunAssumption == MaxRun \in Nat /\ MaxRun >= 3
ASSUME InputsAssumption == Inputs \subseteq Seq(Nat)
ASSUME StreamsAssumption == Streams \subseteq Seq(Nat) /\ Lengths \subseteq Nat \ {0}

VARIABLES
  stage,    \* the function that runs: Encode, Stored, Decode, Stream, End
  data,     \* the argument of encode
  i,        \* how much of its argument the running function has read
  encoded,  \* what encode has written; the argument of the decoders
  origin,   \* whether the stream is as encoded, was cut, or is foreign
  expected, \* expected_len
  out,      \* bytes decode has pushed
  verdict,  \* what decode returned
  sink,     \* bytes decode_streaming has passed to its closure
  streamed  \* what decode_streaming returned

encoderVars == <<data, encoded>>
decodeVars == <<out, verdict>>
streamVars == <<sink, streamed>>
codecVars == <<stage, encoderVars, i, origin, expected, decodeVars, streamVars>>

NothingDecoded ==
  /\ i = 0 /\ out = <<>> /\ sink = <<>> /\ verdict = "None" /\ streamed = "None"

Init ==
  /\ NothingDecoded
  /\ \/ /\ stage = "Encode" /\ data \in Inputs /\ encoded = <<>>
        /\ origin = "Encoded" /\ expected = 0
     \/ /\ stage = "Decode" /\ data = <<>> /\ encoded \in Streams
        /\ origin = "Foreign" /\ expected \in Lengths

----------------------------------------------------------------------------
(* encode. *)

(* The n bytes after position p exist and are equal. *)
IsRun(s, p, n) == p + n <= Len(s) /\ \A k \in 1..n : s[p + k] = s[p + 1]

RunLength(s, p) ==
  CHOOSE n \in 1..MaxRun : IsRun(s, p, n) /\ (n = MaxRun \/ ~IsRun(s, p, n + 1))

LiteralStops(s, p, e) ==
  e = Len(s) \/ e - p >= MaxRun \/ IsRun(s, e, RepeatThreshold)
LiteralEnd(s, p) ==
  CHOOSE e \in (p + 1)..Len(s) :
    LiteralStops(s, p, e) /\ \A f \in (p + 1)..(e - 1) : ~LiteralStops(s, p, f)

EmitRepeat ==
  /\ stage = "Encode" /\ i < Len(data) /\ RunLength(data, i) >= RepeatThreshold
  /\ encoded' = encoded \o <<MaxRun + RunLength(data, i) - 1, data[i + 1]>>
  /\ i' = i + RunLength(data, i)
  /\ UNCHANGED <<stage, data, origin, expected, decodeVars, streamVars>>

EmitLiteral ==
  /\ stage = "Encode" /\ i < Len(data) /\ RunLength(data, i) < RepeatThreshold
  /\ i' = LiteralEnd(data, i)
  /\ encoded' = encoded \o <<i' - i - 1>> \o SubSeq(data, i + 1, i')
  /\ UNCHANGED <<stage, data, origin, expected, decodeVars, streamVars>>

EndOfData ==
  /\ stage = "Encode" /\ i = Len(data)
  /\ stage' = "Stored" /\ i' = 0
  /\ expected' = Len(data)
  /\ UNCHANGED <<encoderVars, origin, decodeVars, streamVars>>

(* The tile is read back from a pack, whole or cut short. *)
ReadBack ==
  /\ stage = "Stored"
  /\ stage' = "Decode"
  /\ \E n \in 0..Len(encoded) :
       /\ encoded' = SubSeq(encoded, 1, n)
       /\ origin' = IF n < Len(encoded) THEN "Cut" ELSE origin
  /\ UNCHANGED <<data, i, expected, decodeVars, streamVars>>

----------------------------------------------------------------------------
(* The decoders.  A block starts at position p of the stream. *)

IsLiteral(p) == encoded[p + 1] < MaxRun
BlockLen(p) == (encoded[p + 1] % MaxRun) + 1
BlockEnd(p) == IF IsLiteral(p) THEN p + 1 + BlockLen(p) ELSE p + 2
BlockBytes(p) ==
  IF IsLiteral(p) THEN SubSeq(encoded, p + 2, BlockEnd(p))
  ELSE [k \in 1..BlockLen(p) |-> encoded[p + 2]]

(* decode stops after the block that reaches expected_len. *)
MoreToDecode == i < Len(encoded) /\ (i = 0 \/ Len(out) < expected)

Decoded(result) == verdict' = result /\ stage' = "Stream" /\ i' = 0

(* Mutant: a short tile is let through. *)
ShortIsFine(n) == n <= expected
ExactLength(n) == n = expected

DecodeBlock ==
  /\ stage = "Decode" /\ MoreToDecode /\ BlockEnd(i) <= Len(encoded)
  /\ out' = out \o BlockBytes(i)
  /\ i' = BlockEnd(i)
  /\ UNCHANGED <<stage, encoderVars, origin, expected, verdict, streamVars>>

DecodeCutOff ==
  /\ stage = "Decode" /\ MoreToDecode /\ BlockEnd(i) > Len(encoded)
  /\ Decoded("UnexpectedEnd")
  /\ UNCHANGED <<encoderVars, origin, expected, out, streamVars>>

DecodeReturns ==
  /\ stage = "Decode" /\ ~MoreToDecode
  /\ Decoded(IF ExactLength(Len(out)) THEN "Ok" ELSE "OutputLengthMismatch")
  /\ UNCHANGED <<encoderVars, origin, expected, out, streamVars>>

MoreToStream == i < Len(encoded) /\ Len(sink) < expected

(* Mutant: the last block is not clipped. *)
WholeBlock(p) == BlockLen(p)
ToWrite(p) ==
  IF expected - Len(sink) < BlockLen(p) THEN expected - Len(sink) ELSE BlockLen(p)

Streamed(result) == streamed' = result /\ stage' = "End"

StreamBlock ==
  /\ stage = "Stream" /\ MoreToStream /\ BlockEnd(i) <= Len(encoded)
  /\ sink' = sink \o SubSeq(BlockBytes(i), 1, ToWrite(i))
  /\ i' = BlockEnd(i)
  /\ UNCHANGED <<stage, encoderVars, origin, expected, decodeVars, streamed>>

(* The caller's closure refuses the slice. *)
SinkFails ==
  /\ stage = "Stream" /\ MoreToStream /\ BlockEnd(i) <= Len(encoded)
  /\ Streamed("OutputSink")
  /\ UNCHANGED <<encoderVars, i, origin, expected, decodeVars, sink>>

StreamCutOff ==
  /\ stage = "Stream" /\ MoreToStream /\ BlockEnd(i) > Len(encoded)
  /\ Streamed("UnexpectedEnd")
  /\ UNCHANGED <<encoderVars, i, origin, expected, decodeVars, sink>>

StreamReturns ==
  /\ stage = "Stream" /\ ~MoreToStream
  /\ Streamed(IF ExactLength(Len(sink)) THEN "Ok" ELSE "OutputLengthMismatch")
  /\ UNCHANGED <<encoderVars, i, origin, expected, decodeVars, sink>>

Encoding == EmitRepeat \/ EmitLiteral \/ EndOfData
Decoding ==
  \/ DecodeBlock \/ DecodeCutOff \/ DecodeReturns
  \/ StreamBlock \/ SinkFails \/ StreamCutOff \/ StreamReturns

Next == Encoding \/ ReadBack \/ Decoding

Spec == Init /\ [][Next]_codecVars
----------------------------------------------------------------------------
(* Properties *)

(* What was encoded and read back whole is decoded by both decoders to the *)
(* bytes that went in ("deterministic and lossless", encode); a tile that  *)
(* lost its end is refused by both, wherever the cut.                      *)
RoundTrip ==
  /\ verdict # "None" /\ origin = "Encoded" => verdict = "Ok" /\ out = data
  /\ stage = "End" /\ origin = "Encoded" /\ streamed # "OutputSink" =>
       streamed = "Ok" /\ sink = data
  /\ origin = "Cut" => verdict # "Ok" /\ streamed # "Ok"

(* The vector `encode` reserves is never outgrown: one header for every    *)
(* MaxRun bytes, whatever mixture of runs and literals the tile holds.     *)
EncodedFitsReservation ==
  origin = "Encoded" => Len(encoded) <= Len(data) + (Len(data) \div MaxRun) + 1

(* The two decoders agree on every stream, another writer's included,      *)
(* except on one that goes past the end of the tile: there `decode`        *)
(* reports a mismatch and `decode_streaming` clips.  Neither hands out     *)
(* bytes that the other would not.                                         *)
DecodersAgree ==
  /\ Len(sink) <= expected
  /\ SubSeq(out, 1, Len(sink)) = sink
  /\ stage = "End" /\ streamed # "OutputSink" =>
       \/ streamed = verdict
       \/ streamed = "Ok" /\ verdict = "OutputLengthMismatch" /\ Len(out) > expected
=============================================================================
