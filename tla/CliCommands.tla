----------------------------- MODULE CliCommands -----------------------------
(***************************************************************************)
(* The commands of the `slippypack` binary, invoked one after the other:   *)
(* from the arguments to the pack, its name and what is printed about it.  *)
(* `make` prefetches its tiles one by one; how its file reaches the disk   *)
(* is CliBuild's subject, and the bytes of a tile are TileCodec's.  Other  *)
(* programs link the core library and derive names for descriptors of      *)
(* their own.                                                              *)
(*                                                                         *)
(* Degrees are integers: FinePerMicro of them make a microdegree, and the  *)
(* world is scaled down.  A text is represented by what its parser tells   *)
(* apart.                                                                  *)
(***************************************************************************)
EXTENDS PackIdentity

CONSTANTS
  Requests(_),       \* what the user may ask next, given what was asked before
  Libraries,         \* source lists of programs that link the library
  MaxCommands,       \* how often the user asks
  FinePerMicro, HalfTurn, Pole, \* 10^-6, 180 and 90 degrees
  LatLimit,          \* Mercator::LAT_LIMIT_DEG
  RowEdges,          \* zoom -> the latitudes between two rows of tiles
  MinDim, MaxDim,    \* 32 and 1024
  ZoomOffsetsCount,  \* 24
  FixtureDim,        \* synthetic::TILE_DIM_PX
  FixtureZoom,       \* synthetic::ZOOM
  Dates,             \* Last-Modified values; 0 stands for none
  U32Max,            \* the largest offset a pack can hold
  MaxRun             \* rle8::MAX_RUN

ASSUME ScaleAssumption ==
  /\ FinePerMicro \in Nat \ {0} /\ HalfTurn \in Nat \ {0}
  /\ Pole \in Nat /\ LatLimit \in Nat
  /\ 0..(ZoomOffsetsCount - 1) \subseteq DOMAIN RowEdges
  /\ \A z \in DOMAIN RowEdges : RowEdges[z] \subseteq (-LatLimit)..LatLimit
ASSUME CountsAssumption ==
  /\ MinDim \in Nat \ {0} /\ MaxDim \in Nat /\ MinDim <= MaxDim
  /\ ZoomOffsetsCount \in Nat \ {0} /\ MaxCommands \in Nat
ASSUME SizesAssumption == U32Max \in Nat /\ MaxRun \in Nat \ {0}
ASSUME FixtureAssumption ==
  FixtureDim \in Nat \ {0} /\ FixtureZoom \in 0..(ZoomOffsetsCount - 1)
ASSUME LibrariesAssumption == Libraries \subseteq Seq(SourceRecords)

VARIABLES
  step,     \* Idle, or where the running make is: Fetch, Build
  request,  \* its arguments
  plan,     \* its descriptor and the tiles it has yet to fetch
  fetched,  \* the tiles it has, in the order it got them
  newest,   \* max_last_modified
  out,      \* the pack under --out, or NoPack
  history   \* the commands that have returned

vars == <<step, request, plan, fetched, newest, out, history>>

NoPack == [uuid |-> <<>>]
NoPlan == [descriptor |-> <<>>, todo |-> <<>>]

----------------------------------------------------------------------------
(* The value parsers of the command line; clap calls them all before main  *)
(* runs, and exits with 2 when one refuses.                                *)

ParseBbox(b) ==
  /\ b.parts = 4 /\ b.numeric
  /\ {b.box[1], b.box[3]} \subseteq (-HalfTurn)..HalfTurn
  /\ {b.box[2], b.box[4]} \subseteq (-Pole)..Pole
  /\ b.box[1] < b.box[3] /\ b.box[2] < b.box[4]

(* Mutant: the level after the last. *)
ParseZoomOneMore(z) ==
  z.numeric /\ {z.min, z.max} \subseteq 0..ZoomOffsetsCount /\ z.min <= z.max

ParseZoom(z) ==
  z.numeric /\ {z.min, z.max} \subseteq 0..(ZoomOffsetsCount - 1) /\ z.min <= z.max

PowersOfTwo == {2 ^ k : k \in 0..15}
ParseTileDim(d) == d \in MinDim..MaxDim /\ d \in PowersOfTwo

(* validate_attribution_string: the first offending character decides. *)
Forbidden == {"Lf", "Cr", "LineBreak", "Control"}
ParseAttribution(text) == text # <<>> /\ ToSet(text) \cap Forbidden = {}

PixelFormats == {"Abgr2222", "Rgb565"}

Given(option) == option # "None"

ClapAccepts(r) ==
  /\ r.bbox.given => ParseBbox(r.bbox)
  /\ r.zoom.given => ParseZoom(r.zoom)
  /\ ParseTileDim(r.dim) /\ r.pixel \in PixelFormats
  /\ r.cmd = "make" /\ r.attribution.given => ParseAttribution(r.attribution.text)

(* What run_make and run_debug_uuid_cli convert before they go on. *)
AuthParses(r) == ToSet(r.headers) \cup ToSet(r.query) \subseteq {"Good"}
OverrideParses(r) == r.uuid \notin {"Malformed", "AllZero"}
RateParses(r) == r.rate # "NotPositive"

----------------------------------------------------------------------------
(* Descriptors. *)

(* banker's rounding *)
DegToMicro(v) ==
  LET low == v \div FinePerMicro
      twice == 2 * (v % FinePerMicro)
  IN IF twice > FinePerMicro \/ (twice = FinePerMicro /\ low % 2 = 1) THEN low + 1 ELSE low
ToMicro(box) == [k \in 1..4 |-> DegToMicro(box[k])]

WorldBboxMicro ==
  <<DegToMicro(-HalfTurn), DegToMicro(-LatLimit), DegToMicro(HalfTurn), DegToMicro(LatLimit)>>

PixelFormatByte(f) == IF f = "Rgb565" THEN 2 ELSE 1
QuantiserVersionFor(f) == 1

Descriptor(sources, bbox, format, dim, zooms) ==
  [affn |-> "null", bbox |-> bbox, format_version |-> <<1, 0>>,
   pixel_format |-> PixelFormatByte(format), projection |-> 1,
   quantiser_version |-> QuantiserVersionFor(format), sources |-> sources,
   style_hash |-> "null", tile_addressing_scheme |-> 1, tile_axis_convention |-> 1,
   tile_dim_px |-> dim, zoom_range |-> zooms]

SyntheticDescriptor(r) ==
  Descriptor(<<Synthetic(1)>>, WorldBboxMicro, r.pixel, FixtureDim,
             <<FixtureZoom, FixtureZoom>>)

AuthKindsFromOptions(r) ==
  (IF r.headers # <<>> THEN <<0>> ELSE <<>>) \o (IF r.query # <<>> THEN <<1>> ELSE <<>>)

(* Mutant: the box of the synthetic source, as pasted. *)
UrlTemplateDescriptorWorld(r) ==
  Descriptor(<<Source("url", r.source.name, AuthKindsFromOptions(r), r.zoom.min, r.zoom.max)>>,
             WorldBboxMicro, r.pixel, r.dim, <<r.zoom.min, r.zoom.max>>)

UrlTemplateDescriptor(r) ==
  Descriptor(<<Source("url", r.source.name, AuthKindsFromOptions(r), r.zoom.min, r.zoom.max)>>,
             ToMicro(r.bbox.box), r.pixel, r.dim, <<r.zoom.min, r.zoom.max>>)

(* UrlTemplate::parse, --bbox and --zoom; make looks at --bbox first, and  *)
(* debug uuid at the template.                                             *)
UrlRequestComplete(r) ==
  r.source.holes = {"z", "x", "y"} /\ r.bbox.given /\ r.zoom.given

DescriptorFor(r) ==
  IF r.source.scheme = "synthetic" THEN SyntheticDescriptor(r) ELSE UrlTemplateDescriptor(r)
Describable(r) ==
  \/ r.source.scheme = "synthetic"
  \/ r.source.scheme = "http" /\ UrlRequestComplete(r)

----------------------------------------------------------------------------
(* Tiles. *)

(* 2^z; up to one level more than there are. *)
TilesPerSide[z \in 0..ZoomOffsetsCount] == IF z = 0 THEN 1 ELSE 2 * TilesPerSide[z - 1]

Clamp(v, limit) == IF v > limit THEN limit ELSE IF v < -limit THEN -limit ELSE v
Column(lon, z) ==
  LET x == ((Clamp(lon, HalfTurn) + HalfTurn) * TilesPerSide[z]) \div (2 * HalfTurn)
  IN IF x > TilesPerSide[z] - 1 THEN TilesPerSide[z] - 1 ELSE x
Row(lat, z) == Cardinality({e \in RowEdges[z] : Clamp(lat, LatLimit) <= e})

(* tile_range_for_zoom: row by row, from the north-west corner. *)
TileRangeForZoom(box, z) ==
  LET west == Column(box[1], z)  north == Row(box[4], z)
      width == Column(box[3], z) - west + 1
      height == Row(box[2], z) - north + 1
  IN [k \in 1..(width * height) |->
        <<z, west + ((k - 1) % width), north + ((k - 1) \div width)>>]

UrlTiles(r) ==
  FlattenSeq([k \in 1..(r.zoom.max - r.zoom.min + 1) |->
                TileRangeForZoom(r.bbox.box, r.zoom.min + k - 1)])

GridSide == TilesPerSide[FixtureZoom]
AllTileCoords ==
  [k \in 1..(GridSide * GridSide) |->
     <<FixtureZoom, (k - 1) % GridSide, (k - 1) \div GridSide>>]

BytesPerPixel(f) == IF f = "Rgb565" THEN 2 ELSE 1
RawTileLen(dim, f) == dim * dim * BytesPerPixel(f)

----------------------------------------------------------------------------
(* Commands. *)

Init ==
  /\ step = "Idle" /\ request = <<>> /\ plan = NoPlan /\ fetched = <<>> /\ newest = 0
  /\ out = NoPack /\ history = <<>>

(* Every option is given or left out, so a request names all of them. *)
Asked(cmds) ==
  {r \in Requests([k \in DOMAIN history |-> history[k].request]) : r.cmd \in cmds}
Ready == step = "Idle" /\ Len(history) < MaxCommands

(* A command returns: exit code, why, and what it printed or published. *)
Return(r, exit, why, answer) ==
  /\ history' = Append(history, [request |-> r, exit |-> exit, why |-> why,
                                 answer |-> answer])
  /\ step' = "Idle" /\ request' = <<>> /\ plan' = NoPlan /\ fetched' = <<>> /\ newest' = 0

Make ==
  /\ Ready
  /\ \E r \in Asked({"make"}) :
       /\ ClapAccepts(r)
       /\ AuthParses(r) /\ OverrideParses(r) /\ RateParses(r) /\ Describable(r)
       /\ request' = r
       /\ IF r.source.scheme = "synthetic"
            THEN /\ step' = "Build" /\ fetched' = AllTileCoords
                 /\ plan' = [descriptor |-> SyntheticDescriptor(r), todo |-> <<>>]
            ELSE /\ step' = "Fetch" /\ fetched' = <<>>
                 /\ plan' = [descriptor |-> UrlTemplateDescriptor(r), todo |-> UrlTiles(r)]
  /\ UNCHANGED <<newest, out, history>>

(* Everything that is refused before the first request is sent. *)
Refused ==
  /\ Ready
  /\ \E r \in Asked({"make", "debug"}) :
       \/ ~ClapAccepts(r) /\ Return(r, 2, "Usage", <<>>)
       \/ /\ ClapAccepts(r)
          /\ \/ ~AuthParses(r)
             \/ r.cmd = "make" /\ ~(OverrideParses(r) /\ RateParses(r))
             \/ ~Describable(r)
          /\ Return(r, 1, "Arguments", <<>>)
  /\ UNCHANGED out

(* One turn of the prefetch loop. *)
Fetch ==
  /\ step = "Fetch" /\ plan.todo # <<>>
  /\ fetched' = Append(fetched, Head(plan.todo))
  /\ plan' = [plan EXCEPT !.todo = Tail(@)]
  /\ \E date \in Dates : newest' = IF date > newest THEN date ELSE newest
  /\ UNCHANGED <<step, request, out, history>>

FetchStops ==
  /\ step = "Fetch" /\ plan.todo # <<>>
  /\ \/ Return(request, 130, "Cancelled", <<>>)
     \/ Return(request, 1, "UrlTemplate", <<>>)
  /\ UNCHANGED out

EndOfFetch ==
  /\ step = "Fetch" /\ plan.todo = <<>>
  /\ step' = "Build"
  /\ UNCHANGED <<request, plan, fetched, newest, out, history>>

(* missing_last_modified_warning; the synthetic path never warns. *)
Warned ==
  /\ request.source.scheme = "http"
  /\ ~request.timestamp.given /\ fetched # <<>> /\ newest = 0

(* Mutant: the edge the user asked for, not the one of the source. *)
BuildMetadataAsAsked(r, d) ==
  [uuid |-> IF Given(r.uuid) THEN <<"override", r.uuid>> ELSE DerivePackUuid(d),
   pixel |-> r.pixel, dim |-> r.dim, zooms |-> d.zoom_range, bbox |-> d.bbox]

BuildMetadata(r, d) ==
  [uuid |-> IF Given(r.uuid) THEN <<"override", r.uuid>> ELSE DerivePackUuid(d),
   pixel |-> r.pixel, dim |-> d.tile_dim_px, zooms |-> d.zoom_range, bbox |-> d.bbox]

(* validate_metadata; no pack of the command line has a parent. *)
MetadataValid(meta) ==
  /\ meta.uuid # <<"override", "AllZero">>
  /\ meta.dim > 0 /\ meta.zooms[1] <= meta.zooms[2]

(* add_tile_ref takes every tile.  A tile too long for a u32 makes the     *)
(* pack too large as well, which is left to finalize here.                 *)
TilesTaken(meta) ==
  /\ IsInjective(fetched)
  /\ \A t \in ToSet(fetched) :
       t[1] \in meta.zooms[1]..meta.zooms[2] /\ t[1] < ZoomOffsetsCount

(* The edge the pictures are decoded with. *)
ExpectedDim ==
  IF request.source.scheme = "synthetic" THEN FixtureDim ELSE plan.descriptor.tile_dim_px

Pack ==
  [header |-> BuildMetadata(request, plan.descriptor),
   date |-> IF request.timestamp.given THEN request.timestamp.seconds ELSE newest,
   tiles |-> ToSet(fetched), compression |-> request.compression,
   length |-> RawTileLen(ExpectedDim, request.pixel),
   sections |-> IF request.attribution.given THEN request.attribution.text ELSE <<>>]

(* How long a tile can be once it is encoded: RLE8 writes two bytes for a *)
(* run of up to MaxRun, and a header before up to MaxRun literal bytes.    *)
Runs(raw) == (raw + MaxRun - 1) \div MaxRun
LeastTileLen(raw, compression) == IF compression = "Rle8" THEN 2 * Runs(raw) ELSE raw
MostTileLen(raw, compression) == IF compression = "Rle8" THEN raw + Runs(raw) ELSE raw

HeaderSize == 292        \* HEADER_BASE_SIZE
EntrySize  == 20         \* INDEX_ENTRY_SIZE
AlignUp(v) == 4 * ((v + 3) \div 4)
BlobStart(count) == AlignUp(HeaderSize + count * EntrySize)

(* Where finalize's plan can place the extensions of a pack of `count`     *)
(* tiles; the pictures decide when the tiles are run-length coded.  This   *)
(* is the largest number finalize narrows to a u32: the others (tile       *)
(* count, index and directory offsets, offsets of tiles) are below it.     *)
ExtensionsOffsets(count, raw, compression) ==
  LET least == BlobStart(count) + count * AlignUp(LeastTileLen(raw, compression))
      most == BlobStart(count) + count * AlignUp(MostTileLen(raw, compression))
  IN {offset \in least..most : offset % 4 = 0}

(* run_build.  Every tile is decoded; a picture of another size, a file    *)
(* system that refuses, a SIGINT, a pack that is too large: the pack under *)
(* --out stays.                                                            *)
Build ==
  /\ step = "Build"
  /\ LET meta == BuildMetadata(request, plan.descriptor)
         raw == RawTileLen(ExpectedDim, request.pixel)
     IN IF MetadataValid(meta)
          THEN \/ Return(request, 130, "Cancelled", <<>>) /\ UNCHANGED out
               \/ Return(request, 1, "DecodeOrIo", <<>>) /\ UNCHANGED out
               \/ IF TilesTaken(meta)
                    THEN \E offset \in ExtensionsOffsets(Len(fetched), raw, request.compression) :
                           IF offset > U32Max
                             THEN Return(request, 1, "PackTooLarge", <<>>) /\ UNCHANGED out
                             ELSE /\ out' = Pack
                                  /\ Return(request, 0, "Published",
                                            [pack |-> Pack, warned |-> Warned])
                    ELSE Return(request, 1, "Writer", <<>>) /\ UNCHANGED out
          ELSE Return(request, 1, "Writer", <<>>) /\ UNCHANGED out

(* run_debug_uuid. Mutant: --tile-dim does not reach the descriptor. *)
DebugOptionsDefaultDim(r) == [r EXCEPT !.dim = MaxDim]
DebugOptions(r) == r

DebugUuid ==
  /\ Ready
  /\ \E r \in Asked({"debug"}) :
       /\ ClapAccepts(r) /\ AuthParses(r) /\ Describable(r)
       /\ LET d == DescriptorFor(DebugOptions(r))
          IN Return(r, 0, "Printed", IF r.bytes THEN CanonicalDescriptor(d) ELSE DerivePackUuid(d))
  /\ UNCHANGED out

(* run_inspect on the pack under --out. *)
Consistent(pack) ==
  pack.compression = "None" => pack.length = RawTileLen(pack.header.dim, pack.header.pixel)

Inspect ==
  /\ Ready
  /\ \E r \in Asked({"inspect"}) :
       IF out = NoPack THEN Return(r, 1, "Io", <<>>)
          ELSE Return(r, 0, "Printed",
                 [uuid |-> out.header.uuid, consistent |-> Consistent(out),
                  date |-> out.date, tiles |-> Cardinality(out.tiles), sections |-> out.sections])
  /\ UNCHANGED out

(* A program that links the core library names descriptors of its own. *)
LibraryDescriptor(sources) ==
  Descriptor(sources, WorldBboxMicro, "Abgr2222", MinDim, <<0, 0>>)
Library ==
  /\ step = "Idle" /\ history = <<>>
  /\ \E s, t \in Libraries :
       history' = [k \in 1..2 |->
         [request |-> [cmd |-> "library", sources |-> <<s, t>>[k]], exit |-> 0,
          why |-> "Named",
          answer |-> DerivePackUuid(LibraryDescriptor(<<s, t>>[k]))]]
  /\ UNCHANGED <<step, request, plan, fetched, newest, out>>

Next ==
  \/ Make \/ Refused \/ Fetch \/ FetchStops \/ EndOfFetch \/ Build
  \/ DebugUuid \/ Inspect \/ Library

Spec == Init /\ [][Next]_vars
----------------------------------------------------------------------------
(* Properties *)

Returned(cmd) == {k \in DOMAIN history : history[k].request.cmd = cmd}
Published == {k \in Returned("make") : history[k].exit = 0}
PackOf(k) == history[k].answer.pack
SameDescribed(r, s) ==
  \A field \in {"source", "bbox", "zoom", "dim", "headers", "query", "pixel"} :
    r[field] = s[field]

(* `debug uuid` predicts `make`: asked about the same source, box, zooms,  *)
(* auth options, format and edge it prints the name, or the bytes, of the  *)
(* pack that make publishes without --pack-uuid, and it refuses nothing    *)
(* that make builds (the two derive the descriptor on separate paths).     *)
DebugPredictsMake ==
  \A k \in Published, j \in Returned("debug") :
    SameDescribed(history[k].request, history[j].request) =>
      /\ history[j].exit = 0
      /\ ~Given(history[k].request.uuid) =>
           PackOf(k).header.uuid =
             IF history[j].request.bytes THEN <<"v5", history[j].answer>>
             ELSE history[j].answer

Derived(k) == ~Given(history[k].request.uuid)
OnGrid(r) ==
  r.source.scheme = "http" => \A k \in 1..4 : r.bbox.box[k] % FinePerMicro = 0

(* A derived name tells packs apart: two published packs with one name     *)
(* have the same header, its build_timestamp excepted (Pack.date, which is *)
(* not part of a pack's identity), and hold the same tiles of the same     *)
(* source, whatever their compression, attribution, rate and credentials.  *)
SameSource(s, t) ==
  /\ s.scheme = t.scheme
  /\ s.scheme = "http" => s.name = t.name /\ s.holes = t.holes
OneNameOnePack(k, j) ==
  /\ PackOf(k).header = PackOf(j).header
  /\ PackOf(k).tiles = PackOf(j).tiles
  /\ SameSource(history[k].request.source, history[j].request.source)
NameTellsPacksApart ==
  \A k, j \in Published :
    /\ Derived(k) /\ Derived(j)
    /\ PackOf(k).header.uuid = PackOf(j).header.uuid
    => OneNameOnePack(k, j)

(* The same for boxes whose corners are whole microdegrees: there the name *)
(* does tell them apart.                                                   *)
NameTellsGridPacksApart ==
  \A k, j \in Published :
    /\ Derived(k) /\ Derived(j) /\ OnGrid(history[k].request) /\ OnGrid(history[j].request)
    /\ PackOf(k).header.uuid = PackOf(j).header.uuid
    => OneNameOnePack(k, j)

(* What the parsers let through and the servers delivered is refused by    *)
(* the writer for its size only, and only where a pack of that many tiles  *)
(* can be too large; and no pack is published that had to be.  There is    *)
(* one possible offset when a pack is not compressed, so its arguments     *)
(* decide: it is refused after every prefetch or after none.               *)
TilesOf(r) == IF r.source.scheme = "synthetic" THEN AllTileCoords ELSE UrlTiles(r)
OffsetsOf(r) ==
  ExtensionsOffsets(Len(TilesOf(r)), RawTileLen(DescriptorFor(r).tile_dim_px, r.pixel),
                    r.compression)
OnlySizeRefusedLate ==
  \A k \in Returned("make") :
    LET r == history[k].request
        why == history[k].why
    IN /\ why # "Writer"
       /\ why = "PackTooLarge" => \E offset \in OffsetsOf(r) : offset > U32Max
       /\ why = "Published" => \E offset \in OffsetsOf(r) : offset <= U32Max

(* `inspect` never calls a pack of `make` INCONSISTENT, and shows the name *)
(* and the attribution of the pack published last; when it shows date 0,   *)
(* make had said so, unless the user set it or no server was asked.        *)
InspectAgrees ==
  \A j \in Returned("inspect") :
    history[j].exit = 0 =>
      /\ history[j].answer.consistent
      /\ \E k \in Published :
           /\ k < j /\ (\A l \in Published : l < j => l <= k)
           /\ PackOf(k).header.uuid = history[j].answer.uuid
           /\ PackOf(k).sections = history[j].answer.sections
           /\ history[j].answer.date = 0 =>
                \/ history[k].answer.warned \/ history[k].request.timestamp.given
                \/ history[k].request.source.scheme = "synthetic"

(* "Order doesn't matter" (PackDescriptor::sources): descriptors that list *)
(* the same sources in another order, with the auth kinds repeated or      *)
(* reordered, have one name, and others have different names; except that  *)
(* a source listed twice is written twice, and two url sources with one    *)
(* template and zoom range are ordered by their auth kinds as listed.      *)
Meaning(sources) == {WriteSource(sources[k]) : k \in DOMAIN sources}
Tied(sources) ==
  \E j, k \in DOMAIN sources :
    /\ j # k
    /\ [sources[j] EXCEPT !.auth = <<>>] = [sources[k] EXCEPT !.auth = <<>>]
NamesAreCanonical ==
  \A j, k \in Returned("library") :
    LET a == history[j].request.sources
        b == history[k].request.sources
    IN ~Tied(a) /\ ~Tied(b) =>
         (history[j].answer = history[k].answer <=> Meaning(a) = Meaning(b))
=============================================================================
