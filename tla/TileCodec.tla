------------------------------ MODULE TileCodec ------------------------------
(***************************************************************************)
(* What one tile goes through on its way into a pack: the image bytes are  *)
(* decoded to RGB888, its size is compared with the declared one, a        *)
(* quantiser maps every pixel to its code, and the codes are stored as     *)
(* they are or run-length encoded (Rle8, which also reads them back).      *)
(*                                                                         *)
(* A colour is <<r, g, b>>.  The image decoder is a library; what it       *)
(* returns for the bytes of a tile is given with the tile.                 *)
(***************************************************************************)
EXTENDS Rle8, FiniteSets

CONSTANTS
  Sources,      \* what tile servers send
  Quantisers,   \* the quantisers callers ask for
  ExpectedDim   \* tile_dim_px of the pack

Colour == [1..3 -> 0..255]

(* Either bytes the image library rejects, or a decoded picture. *)
ASSUME SourcesAssumption ==
  \A s \in Sources :
    /\ s.kind \in {"Empty", "NotAnImage", "Image"}
    /\ s.kind = "Image" =>
         s.width \in Nat /\ s.rgb \in Seq(Colour) /\ Len(s.rgb) = s.width * s.height
ASSUME QuantisersAssumption ==
  \A q \in Quantisers :
    /\ q.format \in {"Abgr2222", "Rgb565", "Palette"}
    /\ q.format = "Palette" => q.slots \in Seq([rgb : Colour, code : 0..255])

VARIABLES
  source,    \* the bytes of the tile being added
  quantiser, \* [format, slots]
  raw,       \* Compression::None: the codes are stored as they are
  refusal    \* why the tile or the palette was refused

tileVars == <<source, quantiser, raw>>
vars == <<codecVars, tileVars, refusal>>

----------------------------------------------------------------------------
(* The quantisers. *)

ChannelTo2Bit(v) == Cardinality({t \in {42, 127, 212} : v > t})

(* AABBGGRR, always opaque. *)
QuantisePixel(c) ==
  192 + 16 * ChannelTo2Bit(c[3]) + 4 * ChannelTo2Bit(c[2]) + ChannelTo2Bit(c[1])

(* RRRRRGGGGGGBBBBB. *)
QuantisePixelRgb565(c) ==
  2048 * (c[1] \div 8) + 32 * (c[2] \div 4) + (c[3] \div 8)

Sq(a, b) == (a - b) * (a - b)
Distance(c, d) == Sq(c[1], d[1]) + Sq(c[2], d[2]) + Sq(c[3], d[3])

(* Mutant: a tie goes to the later slot. *)
SnapLatest(slots, c) ==
  LET best[k \in 1..Len(slots)] ==
        IF k = 1 \/ Distance(slots[k].rgb, c) <= Distance(slots[best[k - 1]].rgb, c)
          THEN k ELSE best[k - 1]
  IN slots[best[Len(slots)]].code

(* Abgr2222Palette::snap_pixel: one pass that keeps the best slot so far. *)
SnapPixel(slots, c) ==
  LET best[k \in 1..Len(slots)] ==
        IF k = 1 \/ Distance(slots[k].rgb, c) < Distance(slots[best[k - 1]].rgb, c)
          THEN k ELSE best[k - 1]
  IN slots[best[Len(slots)]].code

BytesPerPixel(q) == IF q.format = "Rgb565" THEN 2 ELSE 1

(* quantiser_version: one number space for every mapping. *)
QuantiserVersion(q) == IF q.format = "Palette" THEN 3 ELSE 1
PixelFormatByte(q) == IF q.format = "Rgb565" THEN 2 ELSE 1

(* The bytes of one pixel: RGB565 is stored little-endian. *)
PixelBytes(q, c) ==
  CASE q.format = "Abgr2222" -> <<QuantisePixel(c)>>
    [] q.format = "Palette" -> <<SnapPixel(q.slots, c)>>
    [] q.format = "Rgb565" -> <<QuantisePixelRgb565(c) % 256, QuantisePixelRgb565(c) \div 256>>

QuantiseBuffer(q, rgb) ==
  LET bpp == BytesPerPixel(q)
  IN [k \in 1..(Len(rgb) * bpp) |->
        PixelBytes(q, rgb[((k - 1) \div bpp) + 1])[((k - 1) % bpp) + 1]]

(* Abgr2222Palette::new. *)
PaletteVerdict(q) ==
  CASE q.format # "Palette" -> "Ok"
    [] q.slots = <<>> -> "Empty"
    [] \E k \in 1..Len(q.slots) : q.slots[k].code < 192 -> "NotOpaque"
    [] \E j, k \in 1..Len(q.slots) : j < k /\ q.slots[j].rgb = q.slots[k].rgb ->
         "DuplicateColour"
    [] OTHER -> "Ok"

----------------------------------------------------------------------------
CodecInit ==
  \/ /\ NothingDecoded /\ stage = "Image" /\ data = <<>> /\ encoded = <<>>
     /\ origin = "Encoded" /\ expected = 0
     /\ source \in Sources /\ quantiser \in Quantisers /\ raw \in BOOLEAN
     /\ refusal = "None"
  \/ /\ Init
     /\ source = [kind |-> "Stored"] /\ quantiser = [format |-> "None"] /\ raw = FALSE
     /\ refusal = "None"

Refuse(why) == refusal' = why /\ stage' = "Refused"

(* The quantiser is made before the first tile is touched. *)
PaletteRefused ==
  /\ stage = "Image" /\ PaletteVerdict(quantiser) # "Ok"
  /\ Refuse(PaletteVerdict(quantiser))
  /\ UNCHANGED <<encoderVars, i, origin, expected, decodeVars, streamVars, tileVars>>

(* decode_rgb888 *)
DecodeVerdict ==
  CASE source.kind = "Empty" -> "EmptyInput"
    [] source.kind = "NotAnImage" -> "DecodeFailed"
    [] source.width = 0 \/ source.height = 0 -> "ZeroDimension"
    [] OTHER -> "Ok"

(* Mutant: only the width is compared. *)
WidthOnly == source.width = ExpectedDim
SizeMatches == source.width = ExpectedDim /\ source.height = ExpectedDim

ImageRefused ==
  /\ stage = "Image" /\ PaletteVerdict(quantiser) = "Ok"
  /\ \/ DecodeVerdict # "Ok" /\ Refuse(DecodeVerdict)
     \/ DecodeVerdict = "Ok" /\ ~SizeMatches /\ Refuse("UnexpectedTileDimensions")
  /\ UNCHANGED <<encoderVars, i, origin, expected, decodeVars, streamVars, tileVars>>

(* The buffer for the codes has room for ExpectedDim x ExpectedDim pixels; *)
(* the quantisers assert that this is what the picture fills.              *)
QuantiserAsserts == Len(source.rgb) = ExpectedDim * ExpectedDim

Quantise ==
  /\ stage = "Image" /\ PaletteVerdict(quantiser) = "Ok"
  /\ DecodeVerdict = "Ok" /\ SizeMatches
  /\ IF QuantiserAsserts
       THEN /\ data' = QuantiseBuffer(quantiser, source.rgb)
            /\ stage' = IF raw THEN "Raw" ELSE "Encode"
            /\ UNCHANGED refusal
       ELSE Refuse("Panic") /\ UNCHANGED data
  /\ UNCHANGED <<encoded, i, origin, expected, decodeVars, streamVars, tileVars>>

(* The tile is in the pack, or not; nothing more is done with it. *)
Settled ==
  /\ stage \in {"Refused", "Raw", "End"}
  /\ UNCHANGED vars

Codec == (Encoding \/ ReadBack \/ Decoding) /\ UNCHANGED <<tileVars, refusal>>
Step == PaletteRefused \/ ImageRefused \/ Quantise \/ Codec
CodecSpec == CodecInit /\ [][Step \/ Settled]_vars

----------------------------------------------------------------------------
(* Properties *)

Quantised == source.kind = "Image" /\ stage \notin {"Image", "Refused"}

Levels == {0, 85, 170, 255}
Near(v, level) == IF v < level THEN level - v ELSE v - level
NearestLevel(v, level) == \A l \in Levels : Near(v, level) <= Near(v, l)

(* The levels an ABGR2222 byte displays. *)
Shown(code) == <<85 * (code % 4), 85 * ((code \div 4) % 4), 85 * ((code \div 16) % 4)>>

(* An ABGR2222 code shows, in each channel, the displayed level nearest to *)
(* the input, and quantising the shown picture again changes nothing (the  *)
(* table above quantise_pixel).  A palette pixel gets a declared code:     *)
(* that of the nearest slot, and of the lowest-numbered one when several   *)
(* are as near (the determinism note on Abgr2222Palette).                  *)
NearestShown(c, code) ==
  /\ \A ch \in 1..3 : NearestLevel(c[ch], Shown(code)[ch])
  /\ QuantisePixel(Shown(code)) = code
NearestSlot(slots, c, code) ==
  LET d(k) == Distance(slots[k].rgb, c)
  IN \E k \in 1..Len(slots) :
       /\ code = slots[k].code
       /\ \A j \in 1..Len(slots) : d(k) <= d(j) /\ (j < k => d(k) < d(j))
CodesAreNearest ==
  Quantised => \A p \in 1..Len(source.rgb) :
    CASE quantiser.format = "Abgr2222" -> NearestShown(source.rgb[p], data[p])
      [] quantiser.format = "Palette" -> NearestSlot(quantiser.slots, source.rgb[p], data[p])
      [] OTHER -> TRUE

(* The asserts of the quantisers are never reached by a tile of the wrong  *)
(* shape, and a tile that is stored has the length the header implies.     *)
TileFitsHeader ==
  /\ refusal # "Panic"
  /\ Quantised => Len(data) = ExpectedDim * ExpectedDim * BytesPerPixel(quantiser)
=============================================================================
