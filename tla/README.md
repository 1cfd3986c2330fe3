# A TLA+ model of slippypack

slippypack cuts a region of a slippy map into one `.rawtiles` file that a watch
can draw from. A core library (`crates/slippypack-core`) quantises, compresses
and lays out tiles; two front-ends feed it: a command line (`slippypack make`,
`crates/slippypack-cli`) that fetches tiles over HTTP, and a web page (`www/`,
`crates/slippypack-web`) that renders them in the browser. This directory holds
TLA+ specifications of the parts where order, failure and concurrency decide
whether the result is right, TLC configurations that check them, and TLAPS
proofs about the writer and its reader, the bytes of the format, the builder, the make
pipeline, the command line, the fetcher, the codecs and the page. Every invariant and
every action property that a passing run checks is also a theorem.

## Inventory

| Component | State it keeps | Operations | Talks to | What makes it correct |
|---|---|---|---|---|
| Pack writer (`format/rawtiles_writer.rs`) | metadata, tiles and extensions collected so far, keys seen; in `finalize` a cursor, offsets, zoom directory | `begin_pack`, `register_byte_source`, `add_extension`, `add_tile_ref`, `finalize` | an output sink and byte sources, both of which can fail | the planned offsets are where the bytes land; directory and index agree; limits are checked before output; the file depends on the inputs alone |
| Pack reader (`format/reader.rs`) | the borrowed file and its parsed header | `open`, `tile_bytes`, extension walk | the writer, through the file | accepts what the writer finishes; a lookup returns the bytes added for that key |
| Header, index, extension codecs (`format/*.rs`) | none | encode, decode | writer, reader | sizes and offsets agree on both sides |
| Pack builder (`builder.rs`) | previous key, running hash, encoded tiles, two scratch buffers | `add_tile_rgb888`, `add_tile_rgba8888`, `finish` | writer, quantiser, RLE8, identity | tiles arrive in ascending key order, so the content hash names the pack; a rejected call changes nothing |
| Make pipeline (`slippypack-cli/src/build.rs`) | cancel flag, fetched tiles, partial file | `make`, SIGINT | fetcher, writer, file system | `<out>` is always a whole pack; errors and cancels leave nothing behind |
| URL fetcher and rate limiter (`sources/url_template.rs`, `sources/rate_limit.rs`) | `last_seen` per host, newest Last-Modified | `fetch` | HTTP servers, the clock | hosts are paced; a 429 is retried once; the timestamp is that of the tiles in the pack |
| Web page (`www/index.html`) | `plan`, `abort`, which controls are enabled | Build, Cancel, edits, drags on the picker | renderer, WASM builder | one build at a time, of the plan on display; the page recovers from every ending |
| Renderer (`www/src/render.js`) | canvas size, current block column | `renderRegion` | MapLibre, builder | every tile of the region once, in ascending key order, with its own pixels |
| Build estimate (`www/src/estimate.js`) | learned rates in localStorage | `estimate`, `recordBuild` | page | an uncompressed plan does not depend on earlier builds |
| Identity (`identity.rs`) | none | `canonical_descriptor_bytes`, `derive_pack_uuid` | builder, command line | the name does not depend on the order things were listed in, and tells packs apart |
| RLE8 (`format/rle8.rs`) | none | `encode`, `decode`, `decode_streaming` | builder, CLI, readers of packs | round trip; the reservation is never outgrown; two decoders, one language |
| Quantisers (`quantise.rs`), decoding (`decode.rs`) | a palette | one code per pixel | builder, CLI | the nearest code, ties broken one way; no picture of another size |
| Command line (`main.rs`, `debug.rs`, `inspect.rs`, `attribution.rs`) | none | parse the options; `make`, `debug uuid`, `inspect` | make pipeline, reader | commands agree about a pack; only a pack that is too large is refused after the prefetch |
| Projection (`projection/mercator.rs`) | none | degrees to tiles | command line | the tile range covers the box |
| C++ validator (`spec-validator-cpp`) | none | check a file | packs | agrees with the Rust reader |
| WASM source stubs | none | none | none | empty crates |

The hard behaviours: `finalize` plans in memory and streams later, with failure
points in between; `make` is killed, interrupted, or run twice over the same
output; the fetcher sleeps, retries and races a SIGINT; the page is an
event-driven program whose handlers interleave at every `await`; and the format
is implemented three times, by a writer, a reader and a validator that never meet
in one test for most files.

## Modules

| Module | Models | State and actions against the code |
|---|---|---|
| `RawtilesWriter` | `rawtiles_writer.rs` with the sizes of `header.rs`, `tile_index.rs`, `extensions.rs` | `meta`, `keysSeen`, `tiles`, `exts`, `sources` are `BuildingState` and `byte_sources`; `cursor`, `offsets`, `extOffset`, `zoomDir` the locals of `finalize`; `pos`, `crc`, `entries`, `blob`, `sections` what the output has accepted. One action per trait call; one action per turn of each loop of `finalize` (`Plan`, `WriteHeader`, `WriteEntry`, `PadIndex`, `WriteTile`, `EndOfBlob`, `WriteExt`, `WriteCrc`), and an I/O failure wherever the code writes or reads a source |
| `PackReader` | `reader.rs` | operators: `Open` with its checks in the code's order, `Lookup` and `TileBytes` with the directory and the outcomes a binary search can have, a panic included |
| `PackStore` | nothing in the code: the promise | collect tiles and extensions, then publish exactly those or abandon |
| `RawtilesPack` | writer and reader composed | maps the writer's state, read back through the reader, onto `PackStore`; states the layout as a function of what was collected |
| `RawtilesWriterProofs` | | the theorems about `RawtilesWriter`, `RawtilesPack` and `PackBuilder`, each on top of the one before |
| `PackFileProofs`, `CliBuildProofs`, `CliCommandsProofs`, `UrlFetcherProofs`, `TileCodecProofs`, `WebBuildProofs` | | the theorems about the module each is named for; `TileCodecProofs` is about `Rle8` too, `PackFileProofs` about `Crc32`, `CliCommandsProofs` about `PackIdentity` |
| `FiniteSums` | | induction over sets of naturals, and lemmas about `SumFunctionOnSet`, for the proofs that add things up |
| `Crc32` | `crc.rs` | words and bytes as sets of bit positions; the table, `Update`, `Checksum` |
| `PackFile` | `header.rs`, `tile_index.rs`, `extensions.rs`, `reader.rs` and `validator.cpp`, on bytes | `Written` lays a pack out byte by byte; `Opens` and `Found` are the Rust reader, `Accepts` the C++ validator, each with its own layout table; `Alter` is another writer under a correct checksum, `Damage` a burst of flipped bits |
| `Rle8` | `rle8.rs` | `encode` and both decoders, one block per step, with the tile possibly cut short in between or written by someone else |
| `TileCodec` | `decode.rs`, `quantise.rs`, `add_decoded_tile`; `EXTENDS Rle8` | one tile from the bytes a server sent to codes and back; palettes with their constructor |
| `PackIdentity` | `identity.rs` | operators: the canonical order of sources and auth kinds, the name |
| `CliCommands` | `main.rs`, `debug.rs`, `inspect.rs`, `attribution.rs`, the descriptors and metadata of `build.rs`, `mercator.rs`; `EXTENDS PackIdentity` | a history of commands over one `--out`; each command is refused, prints, or runs its prefetch tile by tile and publishes |
| `PackBuilder` | `builder.rs`, `EXTENDS RawtilesWriter` | its own variables are the builder's fields; `New`, `AddTileRgb888`, `AddTileRgba8888`; `finish` is a sequence of the writer's own actions, so each of its fallible calls is a step |
| `CliBuild` | `build.rs`, `main.rs` | one `pc` per invocation of `make`; files are inodes, `link` the two paths, `synced` and `diskLink` what a power loss would keep; `PartialFile::drop` and `commit` are actions; kill, SIGINT, power loss are the environment |
| `HttpTexts` | `url_template.rs`, `rate_limit.rs` | operators: the host of a URL, loopback and OSM matchers, HTTP dates, Retry-After |
| `UrlFetcher` | `url_template.rs`, `rate_limit.rs`; `EXTENDS HttpTexts` | the prefetch loop, one request at a time; Instants are ages in ticks; ghosts record what a server sees (`quiet`), whether a 429 occurred, and the dates of the tiles kept |
| `RegionPlan` | `estimate.js`, the extents of `tiles.js`, `countTiles` | operators: tiles, renders and column of a request, the block size chosen, the verdict |
| `WebBuild` | `index.html`, `render.js`, `region.js`, the WASM binding; `EXTENDS RegionPlan` | `plan`, `abort` and the enabled or hidden state of the controls are the page's; `build[b]` is one activation of the click handler, with the plan it took by value, the signal it read and the position of the block loop; an action is what runs between two awaits |

`MC...` modules give the constants their values. Operators introduced by a
comment "Mutant" are deliberately wrong variants of the definition that follows
them: they are used nowhere, and replacing the definition by its mutant must make
the property it is listed with in `PROJECT.json` fail. They show that each
property depends on the code it talks about.

## What the runs check

| Run | Bounds | Shows |
|---|---|---|
| `writer` (`RawtilesWriter.cfg`) | 3 tiles of 5 keys (two of one level, levels 24 and 30), empty, 5-byte and oversized tiles, 2 extensions, `U32Max` 365 | index entries point at the bytes they describe; tiles do not overlap; the directory selects exactly each level; every limit is decided before the first byte is written; the layout is a function of what was collected, computed independently from sets; `finalize` returns; writer and reader implement `PackStore` |
| `damaged` (`PackFile.cfg`) | 5 packs, any byte replaced by one of 6 values, any two in the directory, the index or the section headers, bursts over 4 bytes | the reader and the validator decode what the writer encoded; the validator accepts no file in which a lookup panics or misses a tile; a newer minor version opens; a burst never passes the checksum |
| `builder` (`PackBuilder.cfg`) | 2 colours, 2 pixels a tile, 4 keys, 3 tiles, 5 configurations | the content hash lists the pixels of the tiles in index order, whatever was rejected in between; `finish` ends |
| `make` (`Make.cfg`) | 2 invocations of one `--out`, 2 tiles, 2 chunks | cleanup, cancellation and its liveness with any interleaving; as long as the two do not overlap, `<out>` is always whole and changes only on success, across kills and power losses |
| `fetcher` (`UrlFetcher.cfg`) | 4 tiles, 4 templates, two with `{x}` in the host, 5 Retry-After headers, 4 dates | pacing per host until a first 429, by what the host really is; the timestamp, by a calendar that adds up years and months; at most one more tile after SIGINT; termination |
| `page` (`Page.cfg`) | 2 builds, at once if a drag re-enables Build, 6 requests | each build feeds its own region in index order, whole; a cancelled build starts no other block; the page is released however a build ends, unless the `finally` clause faults; an uncompressed plan does not depend on earlier builds; the timer of each wait ends the rendering |
| `codec` (`TileCodec.cfg`) | `MAX_RUN` 4; 2x2 pictures in 4 colours, 6 quantisers; strings of 2 symbols to length 10 and of 3 to length 6; every foreign stream to length 5 | codes are nearest; round trip; the reservation; the decoders agree; every cut is noticed |
| `commands` (`CliCommands.cfg`) | 3 commands; each differs from an ordinary request in one or two options | `debug uuid` predicts `make`; a name stands for one pack when its box lies on whole microdegrees; the writer refuses only for size after the prefetch, and packs on both sides of the limit and exactly at it occur; `inspect` agrees with what was published; names do not depend on the order of sources |
| `concurrent_builds`, `drag_during_build`, `finish_fails`, `same_name` | as above | see Divergences |

Why the bounds are enough. In the writer every decision looks at one element and
its predecessor (an offset, a level change, a padding) or at a total against
`U32Max`: three tiles give a level with two tiles and a level change, lengths 0
and 5 give both paddings, and `U32Max` is set so that every one of the narrowing
checks is met on both sides. The theorems below do not depend on these bounds. In
`CliBuild` no action looks at more than one other invocation, two chunks make a
file that is neither empty nor whole, and two tiles put a poll between tiles.
`UrlFetcher` returns to a host after visiting others; `Long` is the largest
interval, and ages beyond it make no difference to `compute_delay`. `PackFile`
has fields that all differ, so that two exchanged ones cannot look alike, and
levels, tiles and sections of each count from none to several; two altered bytes
are enough to move a tile in the index and its directory slot together. `Top` is 4: a
word whose highest byte is 4 or more is read as one value beyond every file (TLC's
integers have 32 bits); with `Top` 256, which the theorems include, a word is the exact
u32. In the codec a block is decided by the next `MAX_RUN` bytes, and ten symbols are two
blocks and a half of every kind; `MAX_RUN` 4 instead of 128 keeps the property
that a run of two is not worth a block. A rounding or a parser looks at one
option, so two changed options show what one command does to another; `U32Max` is
1120 there, the very offset of three uncompressed tiles of edge 16, with packs that fit
or not on either side, and run-length coded ones that the pictures decide. `WebBuild`
uses blocks of two and one under a three-by-three level: partial columns, partial
rows and a change of level; budgets are scaled so that a request lies on each
side of each of them. `Modulus` stands for 2^32 and only matters for a box that
leaves the world.

Fairness. `RawtilesWriter` and `PackBuilder` are sequential code: weak fairness on
the steps of a `finalize` or `finish` that has begun. `CliBuild`: weak fairness of
an invocation's own steps, but not of a fetch, since the HTTP agent has no
timeout. `UrlFetcher`: the thread runs and the clock ticks; the server owes
nothing, and `PrefetchEnds` assumes separately that it answers. `WebBuild`: only
the 60-second timer of `idle()`; neither the map's `load` event, nor the save
dialog, nor the user is fair.

`Rle8`, `TileCodec`, `PackFile` and `CliCommands` state no liveness.

Deadlock is checked in every run but three. In `PackFile.cfg` a file is altered
`MaxAltered` times and then left alone, and in `CliCommands.cfg` and
`SameName.cfg` a user who has given `MaxCommands` commands stops. Elsewhere, where
a program ends, the model stutters explicitly or the environment still has a step.

## What is proved

Each theorem holds for every value of the constants, under the assumptions named in
its module, which TLC evaluates in the runs. Most give a constant its type. The
others: `MaxRun` is at least 3 (at least 1 where only lengths matter), block sizes are listed in descending order and
extents are not inverted, no pacing interval is longer than `Long`, `Modulus` is at
least 2 (it is 2^32), there is one empty byte string and no byte string is one of the
reader's error values (`ByteStringsAssumption`), pictures and palettes have 8-bit
channels, the fields of a date are integers (`StampsAssumption`), and the metadata of
a builder is metadata the writer can be given (`ConfigsAssumption`). In `PackFile`,
what is written is a pack the writer can be handed (`PacksAssumption`): metadata of the
types of `PackMetadata` that `validate_metadata` let through, tiles in index order, and
a file that is addressed by u32. Tiles, sections, payloads and their number are
otherwise free. In `CliCommands`, each level has a table of row edges within the
latitude limit, the sizes are not zero, and a library lists sources of the types of
`Source`.

### Writer, reader and builder

`RawtilesWriterProofs`:

- `Typed`: `TypeOK` is invariant.
- `PlanMatchesStream`: an index entry's offset and length are where its tile's
  bytes are in the output (`IndexPointsAtTiles`).
- `TilesDoNotOverlap`: tile extents are disjoint and lie between the index and the
  extension area (`ExtentsDisjoint`).
- `LimitsCheckedFirst`: once a byte is written only I/O can fail
  (`LateFailuresAreIo`).
- `DirectoryIsRight`: each slot of the directory selects exactly its level
  (`DirectorySelectsLevels`).

None of the last four is inductive: they relate the planning loop to output loops
that run after it. The inductive invariant `LayoutInv` is built in layers. `Progress`
says how far each loop has come (the lengths of `offsets`, `entries`, `blob`,
`sections` against `next` at each stage). `Planned`, proved from it, says that
`offsets[i]` is the aligned end of tile `i - 1`, that `cursor` is where the next
tile would go, and that the limits hold. `Written`, proved from both, says that
`pos` is the planned offset of the next element of the loop in progress, so that
what is written there is what was planned. Each layer has a step lemma with one
case per action, and a lemma for the actions that leave the layer's variables
alone. `Directory` adds that between two runs of the directory loop the slots select
exactly the tiles passed so far, and that a level ends where a run ends; that sorted
tiles never return to an earlier level is the lemma `LevelsAscend`.

`PackStoreImplemented`: the refinement `ImplementsPackStore`. The
mapping reads the output back through the reader, so the step that publishes needs
the reader's answers on the finished file: `StoreInv` adds to the above that the
sections tile the extension area in order (`Sectioned`) and what `add_tile_ref`
guarantees of the tiles taken (`Taken`). From it, `open` succeeds, every lookup finds
its own entry in the slice its level selects, and the walk over the sections, a
recursive function of the position, returns the extensions that were added: by
induction over how many sections are still to come. `LayoutAlwaysCanonical`
(`LayoutIsCanonical`): the layout as sums over the set of collected tiles; by induction
over the tiles in index order, the next offset is the start of the blob and the padded
bytes so far (`FirstAddUp`), and likewise for the sections.

The builder. Every step of it is a step of its writer or leaves the
writer alone, so `LayoutInv` and `StoreInv` hold of the builder's writer too.
`BuilderInv` adds the link between the two: `Accepted` says that the hashed stream is
the accepted tiles one after the other, in strictly ascending key order, and
`InWriter` that the writer holds those tiles in that order, handed over so far or all
of them. That the sort of `finalize` moves nothing is `IncreasingIsIdentity`, an
induction over positions.

- `HashIsOfTheIndex` (`HashFollowsIndex`), `RejectionAlwaysHarmless`
  (`RejectionIsHarmless`), `BuilderPacksPointAtTiles` (`IndexPointsAtTiles` of the
  builder's packs).
- `BuilderImplementsPackStore`, and `BuilderPackReadsBack`: what a reader gets out of a
  pack that `finish` returned is what the builder accepted.

### The bytes of the format

`PackFileProofs`, for packs of any size:

- `WrittenPacksAgreeHolds` (`WrittenPacksAgree`) and `NewerMinorsOpenHolds`
  (`NewerMinorsOpen`). The invariant is `FileInv`: the file has its length and, outside
  the offsets that another writer altered, the bytes that were written. The rest is
  about one pack. `Layout` says where in the finished file each field, entry, tile and
  section stands: the fields do not overlap (`StartsApart`), each written sequence
  begins where the ones before it end (`FlatIndex`), and the recursive `TileOffset` is
  the running sum that the writer computes (`TileOffsets`). From where a thing stands it
  is read back: `HeaderDecoded` by both layout tables, `IndexDecoded`, `TilesFound`
  through the directory, and `SectionsPass`, which takes the walk of either program over
  the sections from one to the next and to the end (`WalkArrives`). All of it is shown
  of any file that agrees with the written one outside `OpenToChange` (`AgreeingKeeps`),
  so a pack of a newer minor version is the same argument.
- `ValidatorVouchesHolds` (`ValidatorVouches`), from `AcceptedIsRead`, which is about any
  sequence of bytes: where the index is in strict order and the directory counts each
  level, the slice the directory selects for a key is one in which that key is found
  (`LookupFinds`).
- `BurstsAreNoticedHolds` (`BurstsAreNoticed`). A state of the checksum is a set of bits;
  absorbing a byte is linear over exclusive or (`AbsorbLinear`), and the table holds what
  eight division steps give (`TableIs`). Two strings that differ within four bytes reach
  states that differ after these four, since absorbing four bytes is 32 division steps
  on the state with the bytes put in, and such a step loses nothing (`ThirtyTwoKeeps`);
  from there on equal bytes keep the states apart (`DifferentRuns`). A string with its own
  checksum behind it always leaves the accumulator in one and the same state
  (`SealedEnds`), so damage that still passed would have to end there too.

### Make pipeline

`CliBuildProofs`, for any number of invocations, tiles and chunks:

- `OutWholeAlways` (`OutIsWholeAlone`), `SuccessPublishes` (`OkMeansPublished`) and
  `OnlySuccessChangesOut` (`OutChangesOnSuccess`): what is at `<out>`, for
  invocations that do not overlap.
- `NoPartialLeft` (`PartialCleanedUp`): overlapping ones included.
- `SigintHonoured` (`CancelHonoured`): by `Doomed`, a state that no step leaves.

"`<out>` is whole" is not inductive: a truncation or a write goes to an inode, and
one must know that it is not the inode at `<out>`, now or after a power loss. The
invariant `Alone` says so: one invocation runs; the one that writes has the inode
that the partial path names (`WriterHasPartial`) and has filled its first cells; the
partial path and `<out>` never name one inode, on disk or in memory (`PathsApart`);
and what either `<out>` names is whole and synced (`OutFinished`).

### Command line

`CliCommandsProofs`, for any scale of degrees, row edges, requests and number of
commands:

- `LogHolds`. Each property compares what two commands told, and none of them is
  inductive: while a make runs, one must know what it will tell. `LogInv` says where the
  running make is (`Running`: its descriptor, and that the tiles it has and those still
  to come are its request's) and that each entry of the history is what its own request
  comes to (`RecordOK`), whatever came before.
- `OnlySizeRefusedLateHolds` (`OnlySizeRefusedLate`). Accepted levels are levels of the
  directory, and the tiles of a box are each listed once (`TilesOnce`): columns and rows
  do not fall from one corner to the other, because flooring and clamping are monotone.
  A box whose corners are the wrong way round is refused by the parser, and so is a nil
  `--pack-uuid`. So `begin_pack` and `add_tile_ref` take everything, and what is left is
  `finalize`'s limit. Where the extensions of a pack begin follows from the number of
  tiles, the edge, the pixel format and, under RLE8, from the pictures
  (`ExtensionsOffsets`, which takes every length between the shortest and the longest
  encoding): `PackTooLarge` is returned only where one of these places is
  beyond a u32, and a pack is published only where one is not.
- `DebugPredictsMakeHolds` (`DebugPredictsMake`): both derive one descriptor from what
  they share.
- `NameTellsGridPacksApartHolds` (`NameTellsGridPacksApart`): the name tells the
  descriptor, and on the grid the descriptor tells the box (`GridKeeps`).
- `InspectAgreesHolds` (`InspectAgrees`) adds `OutOK`: what is under `--out` is the pack of
  the last successful make.
- `NamesAreCanonicalHolds` (`NamesAreCanonical`). Untied sources are ordered strictly and
  totally (`AheadTotal`), so the position of each after the sort is the number of those
  ahead of it, which depends on the set alone (`WrittenRanked`), and the set can be read
  off the sorted list (`WrittenIsMeaning`). SHA-1 is taken to be injective, as said
  below.

### Fetcher

`UrlFetcherProofs`:

- `CancelBound` (`CancelWithinOneTile`).
- `PolicySpacing` (`SpacedUnlessThrottled`) under the hypothesis `MatchersAgree` that
  `is_loopback` and `is_osm_host` know which hosts are which; the run `fetcher` checks
  the property, and so the matchers, on hosts made to mislead them. The invariant
  `Pace` says that the age of `last_seen` is at most the real silence of a host and
  that, with the sleep that is left, it makes up the interval.
- `TimestampIsAlwaysNewest` (`TimestampIsNewest`). The loop's part is the invariant
  `Newest`: the timestamp is the newest of the dates counted so far, those of the tiles
  kept and of the response whose body is still being read. The calendar's part is
  `CivilDays`: `days_from_civil` counts the days that the years since 1970 and the
  months before add up to, in any year. Both sides are brought to 365 days a year and
  `LeapDays`, the sum by induction over the years (`YearsClosed`), the eras of 400
  years by division (`ErasClosed`).

### Codecs

`TileCodecProofs`, about `CodecSpec`, the specification the run `codec` checks. The
inductive invariant is `TileInv`.

- `ReservationHolds` (`EncodedFitsReservation`). A literal can cost a byte more than
  its share, so the bound is not inductive; `Balance` allows that debt only at the end
  of the data or where a run of three starts, which the repeat block that follows pays
  back. That `encode` finds such runs, and a literal's end, rests on the lemma `Least`.
- `TilesRoundTrip` (`RoundTrip`) and `DecodersAlwaysAgree` (`DecodersAgree`), for every
  byte string, every stream and every length. A `Trace` is what a reader that takes a
  stream block by block would record: where it stops and how much it has decoded
  there. The encoder keeps one of what it has written (`Written`), `decode` makes one
  of what it reads, `decode_streaming` follows it (`Decodes`), and on a stream of the
  encoder the two are the same as far as they go (`Faithful`); a stream that lost its
  end stops short of the last stop.
- `NearestCodes` (`CodesAreNearest`): `snap_pixel`, a fold over the slots, keeps the
  first of the nearest slots seen; by induction over the slots.
- `TileFits` (`TileFitsHeader`).

### Page

`WebBuildProofs`, for any regions, block sizes, number of builds and interleaving:

- `ReleasedAlways` (`ReleasedUnlessFault`), `UncompressedAlways`
  (`UncompressedSamePack`) and `CancelAlways` (`CancelStopsTheNextBlock`), from
  `PageInv`: what each activation holds, which plan it took and where that came from,
  which signals can be aborted, and that the page stays held while an activation
  that took it is active.
- `RegionAlways` (`PackIsRegion`). `BuildsStand` says where each build stands in its
  region: the tiles fed are those of the columns passed, the part of the current
  column that is rendered, and the counts so far. Its lemmas are about one activation,
  as facts on a record: the tiles of a column emitted row by row are the next stretch
  of the region in index order. That the counts add up to `Tiles` and `Renders` is
  arithmetic over `FiniteSums`.

### What is only model-checked

Liveness: `FinalizeReturns`, `FinishEnds`, `CancelEnds`, `PrefetchEnds`,
`RenderingEnds`. Fairness and `ENABLED` are out of the prover's reach. And that the host
matchers know the hosts made to mislead them (`MatchersAgree`), which is about the
values of constants.

The library's induction rules take an operator as a parameter, which the provers
cannot instantiate. Where a proof above goes by induction it is over a set of
naturals (`SetInduction` in `FiniteSums`, or a least element), with the recursive
function or fold defined by its equation.

## Divergences between code and documentation

Runs that end in a violation, each quoting the line it contradicts
(`PROJECT.json`, findings):

- `concurrent_builds`: two `make` with one `--out` share `<out>.partial`; one
  publishes the inode the other has truncated and keeps writing.
- `drag_during_build`: the picker accepts a shift-drag during a build, replaces
  the readout and enables Build again.
- `finish_fails`: when `finish()` throws (a level from 24 on is refused only
  there), the `finally` clause frees a builder that is gone, faults, and leaves
  the page frozen.
- `same_name`: the descriptor has the box in microdegrees, the tile range is cut
  from the box in degrees; two boxes that round alike but lie on two sides of a
  tile edge give two packs with one derived `pack_uuid`.

Also seen while modelling, without a run of their own:

- a pack can finish larger than `u32::MAX`, because the end of the extension area
  is not narrowed (`rawtiles_writer.rs:288`);
- whether a pack fits into 4 GiB is known to `make` before the first request when it is
  not compressed, but only `finalize` looks, after the whole prefetch (`build.rs:689`): a
  box of 65,517 raw tiles of 256 by 256 is fetched and then refused, every time;
- extensions are emitted sorted, not "in declared order" (`writer_trait.rs:196`);
- `open` never looks at the zoom directory, and `tile_bytes` slices with it: a
  file with a good checksum and a bad directory makes a lookup panic, which is why
  `ValidatorVouches` speaks of files the validator accepts;
- the validator takes RLE8 tiles and pixel format 2 for errors, and non-zero flags
  of an entry for a warning only; the reader does the opposite in all three
  (`Known` and `Strict` in `PackFile` name these);
- `decode` refuses a stream whose last block goes past the tile and
  `decode_streaming` clips it, so `DecodersAgree` makes that one exception;
- two url sources with one template and zoom range are ordered by their auth kinds
  as listed (`Tied` in `CliCommands`), though the descriptor says order does not
  matter;
- `parse_http_date` accepts 31 February and takes it for 2 or 3 March;
- `make` and `debug uuid` validate in different orders, so one wrong command line
  can give two messages; and `make` builds its descriptor without
  `descriptor_for`, which `DECISIONS.md` calls the single source of truth;
- a SIGINT between the last poll and the rename is ignored (`PLAN.md:642`), which
  is why `CancelHonoured` speaks of polls still to come; a leftover partial file is
  overwritten (`PLAN.md:631`);
- the retry of a 429 bypasses the rate limiter, which is why
  `SpacedUnlessThrottled` ends at the first 429;
- a cancel during the last block of a page build has no effect (`render.js:67`),
  which is why `CancelStopsTheNextBlock` speaks of further blocks only; and the
  block size of an RLE8 build depends on the ratio learned from earlier builds
  (`estimate.js:177`), which is why `UncompressedSamePack` is about uncompressed
  ones;
- nothing on the page keeps a box in the world: coordinates reach the builder as
  `u32`, so a box that lies wholly west of 180 W is built under wrapped numbers
  (`slippypack-web/src/lib.rs:178`), which is why `PackIsRegion` promises the region's
  own numbers only for a box that reaches into the world;
- the page rounds microdegrees half away from zero, the command line half to even.

## Not modelled

The spelling of the canonical JSON and the hashing behind the UUID (SHA-1 is taken
to be injective); the latitude formula of the projection, which is floating point:
the tile rows are a table of edges; PNG and JPEG decoding (third-party); credentials
beyond whether they parse; the wording of messages and of `inspect`. On the page:
canvas geometry and what two maps sharing one element would draw, the status line
and the progress bar, and times. The WASM binding's palette checks run before any
state exists. The two stub crates are empty.

## Plan

1. Models: the palette arguments of the WASM binding; a second rounding for the
   page in `CliCommands`, so that names of packs from both front-ends are compared.
2. Composition: `CliBuild`'s chunks as a refinement of the writer's output steps.
