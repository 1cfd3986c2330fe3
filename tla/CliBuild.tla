------------------------------ MODULE CliBuild ------------------------------
(***************************************************************************)
(* `slippypack make`: the process that fetches or synthesises tiles, hands *)
(* them to a RawtilesWriter, and publishes the pack by writing             *)
(* `<out>.partial`, syncing it and renaming it over `<out>`.  The model    *)
(* has the invocations that share one --out, their SIGINT flag, and the    *)
(* file system under them.                                                 *)
(*                                                                         *)
(* The pack is abstracted to Chunks write_all calls: finalize writes the   *)
(* same chunks in the same order each time (RawtilesWriter), so a whole    *)
(* pack of a build is that many cells written by it.  The file system is   *)
(* POSIX: open with truncate keeps the inode a path already names, writes  *)
(* go to the inode, rename and unlink change paths.  What a power loss     *)
(* keeps is what was synced, and the paths as they were last flushed.      *)
(***************************************************************************)
EXTENDS Integers, Sequences, FiniteSets

CONSTANTS
  Builds,     \* invocations of `slippypack make` with the same --out
  Source,     \* "synthetic" or "url", for each of them
  Previous,   \* stands for whoever wrote the pack found at <out>
  TileCount,  \* tiles in each build
  Chunks,     \* write_all calls in one finalize
  MaxRunning  \* bound: invocations running at the same time

ASSUME BuildsAssumption ==
  /\ Source \in [Builds -> {"synthetic", "url"}]
  /\ Previous \notin Builds
ASSUME SizesAssumption ==
  TileCount \in Nat \ {0} /\ Chunks \in Nat \ {0} /\ MaxRunning \in Nat

Hole == "hole"                       \* a cell the file was extended over
NoFile == 0
Paths == {"partial", "out"}

VARIABLES
  pc,       \* where each invocation is
  exit,     \* what it returned, or will return after cleanup
  cancel,   \* the AtomicBool its SIGINT handler sets
  tile,     \* tiles the current loop has handled
  file,     \* the inode its output is open on
  written,  \* chunks finalize has written
  link,     \* the inode each path names
  content,  \* the cells of each inode
  diskLink, \* link as last flushed to the disk
  synced,   \* the inodes whose cells are on the disk
  lapsed,   \* a kill, a power loss or a failed unlink has happened
  overlapped \* two invocations have run at the same time

processVars == <<pc, exit, cancel, tile, file, written>>
diskVars == <<diskLink, synced>>
history == <<lapsed, overlapped>>
fsVars == <<link, content, diskVars, history>>
vars == <<processVars, fsVars>>

Whole(w) == [i \in 1..Chunks |-> w]

Init ==
  /\ pc = [b \in Builds |-> "Idle"] /\ exit = [b \in Builds |-> "None"]
  /\ cancel = [b \in Builds |-> FALSE]
  /\ tile = [b \in Builds |-> 0] /\ written = [b \in Builds |-> 0]
  /\ file = [b \in Builds |-> NoFile]
  /\ \E found \in {NoFile, 1} : link = [partial |-> NoFile, out |-> found]
  /\ content = <<Whole(Previous)>>
  /\ diskLink = link /\ synced = {1}
  /\ lapsed = FALSE /\ overlapped = FALSE

Running(b) == pc[b] \notin {"Idle", "Exited", "Killed"}

----------------------------------------------------------------------------
(* The build loops. *)

Go(b, place) == pc' = [pc EXCEPT ![b] = place]

(* Return without a PartialFile in scope. *)
Return(b, r) == Go(b, "Exited") /\ exit' = [exit EXCEPT ![b] = r]

(* Return through PartialFile::drop. *)
Bail(b, r) == Go(b, "Drop") /\ exit' = [exit EXCEPT ![b] = r]

Start(b) ==
  /\ pc[b] = "Idle" /\ Cardinality({c \in Builds : Running(c)}) < MaxRunning
  /\ Go(b, IF Source[b] = "url" THEN "Fetch" ELSE "Begin")
  /\ overlapped' = (overlapped \/ \E c \in Builds : Running(c))
  /\ UNCHANGED <<exit, cancel, tile, file, written, link, content, diskVars, lapsed>>

Sigint(b) ==
  /\ Running(b) /\ ~cancel[b]
  /\ cancel' = [cancel EXCEPT ![b] = TRUE]
  /\ UNCHANGED <<pc, exit, tile, file, written, fsVars>>

(* Mutant: the token is never looked at. *)
NeverCancelled(b) == FALSE
Cancelled(b) == cancel[b]

(* Mutant: a cancelled prefetch goes on to the next tile. *)
PollFetchContinues(b) ==
  /\ pc[b] = "Fetch" /\ tile[b] < TileCount
  /\ IF Cancelled(b) THEN UNCHANGED pc ELSE Go(b, "Fetching")
  /\ UNCHANGED <<exit, cancel, tile, file, written, fsVars>>

(* build_url_template: poll, then fetch, for every tile of the region. *)
PollFetch(b) ==
  /\ pc[b] = "Fetch" /\ tile[b] < TileCount
  /\ IF Cancelled(b) THEN Return(b, "Cancelled") ELSE Go(b, "Fetching") /\ UNCHANGED exit
  /\ UNCHANGED <<cancel, tile, file, written, fsVars>>

Fetched(b) ==
  /\ pc[b] = "Fetching"
  /\ tile' = [tile EXCEPT ![b] = @ + 1]
  /\ Go(b, "Fetch")
  /\ UNCHANGED <<exit, cancel, file, written, fsVars>>

FetchFails(b) ==
  /\ pc[b] = "Fetching"
  /\ Return(b, "Error")
  /\ UNCHANGED <<cancel, tile, file, written, fsVars>>

EndOfFetch(b) ==
  /\ pc[b] = "Fetch" /\ tile[b] = TileCount
  /\ Go(b, "Begin")
  /\ tile' = [tile EXCEPT ![b] = 0]
  /\ UNCHANGED <<exit, cancel, file, written, fsVars>>

(* run_build: the guard comes to life, then begin_pack. *)
Begin(b) ==
  /\ pc[b] = "Begin"
  /\ Go(b, "Populate")
  /\ UNCHANGED <<exit, cancel, tile, file, written, fsVars>>

BeginFails(b) ==
  /\ pc[b] = "Begin"
  /\ Bail(b, "Error")
  /\ UNCHANGED <<cancel, tile, file, written, fsVars>>

(* One turn of the populate loop: poll, decode, quantise, add_tile_ref. *)
AddTile(b) ==
  /\ pc[b] = "Populate" /\ tile[b] < TileCount
  /\ IF Cancelled(b)
       THEN Bail(b, "Cancelled") /\ UNCHANGED tile
       ELSE tile' = [tile EXCEPT ![b] = @ + 1] /\ UNCHANGED <<pc, exit>>
  /\ UNCHANGED <<cancel, file, written, fsVars>>

AddTileFails(b) ==
  /\ pc[b] = "Populate" /\ tile[b] < TileCount /\ ~Cancelled(b)
  /\ Bail(b, "Error")
  /\ UNCHANGED <<cancel, tile, file, written, fsVars>>

----------------------------------------------------------------------------
(* The output file. *)

(* Mutant: the build writes to <out> itself. *)
OutItself == "out"
PartialPath == "partial"   \* partial_path_for(out)

(* open with write, create and truncate. *)
OpenPartial(b) ==
  /\ pc[b] = "Populate" /\ tile[b] = TileCount
  /\ LET i == IF link[PartialPath] = NoFile THEN Len(content) + 1 ELSE link[PartialPath]
     IN /\ content' = [j \in 1..Len(content) \cup {i} |->
                         IF j = i THEN <<>> ELSE content[j]]
        /\ link' = [link EXCEPT ![PartialPath] = i]
        /\ file' = [file EXCEPT ![b] = i]
        /\ synced' = synced \ {i}
  /\ Go(b, "Write")
  /\ UNCHANGED <<exit, cancel, tile, written, diskLink, history>>

OpenFails(b) ==
  /\ pc[b] = "Populate" /\ tile[b] = TileCount
  /\ Bail(b, "Error")
  /\ UNCHANGED <<cancel, tile, file, written, fsVars>>

(* File cells s after cell k was written by b. *)
PutAt(s, k, b) ==
  [i \in 1..(IF k > Len(s) THEN k ELSE Len(s)) |->
     IF i = k THEN b ELSE IF i <= Len(s) THEN s[i] ELSE Hole]

ChunksLeft(b) == written[b] < Chunks

WriteChunk(b) ==
  /\ pc[b] = "Write" /\ ChunksLeft(b)
  /\ content' = [content EXCEPT ![file[b]] = PutAt(@, written[b] + 1, b)]
  /\ written' = [written EXCEPT ![b] = @ + 1]
  /\ synced' = synced \ {file[b]}
  /\ UNCHANGED <<pc, exit, cancel, tile, file, link, diskLink, history>>

(* Mutant: no sync_all before the rename. *)
SkipSync(b) ==
  /\ pc[b] = "Write" /\ ~ChunksLeft(b)
  /\ Go(b, "Rename")
  /\ UNCHANGED <<exit, cancel, tile, file, written, fsVars>>

SyncAll(b) ==
  /\ pc[b] = "Write" /\ ~ChunksLeft(b)
  /\ synced' = synced \cup {file[b]}
  /\ Go(b, "Rename")
  /\ UNCHANGED <<exit, cancel, tile, file, written, link, content, diskLink, history>>

WriteOrSyncFails(b) ==
  /\ pc[b] = "Write"
  /\ Bail(b, "Error")
  /\ UNCHANGED <<cancel, tile, file, written, fsVars>>

(* PartialFile::commit; rename needs the partial path to name something. *)
Commit(b) ==
  /\ pc[b] = "Rename" /\ link[PartialPath] # NoFile
  /\ link' = [p \in Paths |-> IF p = "out" THEN link[PartialPath] ELSE NoFile]
  /\ Return(b, "Ok")
  /\ UNCHANGED <<cancel, tile, file, written, content, diskVars, history>>

(* Mutant: the error of rename is dropped. *)
CommitErrorIgnored(b) ==
  /\ pc[b] = "Rename"
  /\ Return(b, "Ok")
  /\ UNCHANGED <<cancel, tile, file, written, fsVars>>

CommitFails(b) ==
  /\ pc[b] = "Rename"
  /\ Bail(b, "Error")
  /\ UNCHANGED <<cancel, tile, file, written, fsVars>>

(* Mutant: the guard leaves the file behind. *)
DropKeepsFile(b) ==
  /\ pc[b] = "Drop"
  /\ Go(b, "Exited")
  /\ UNCHANGED <<exit, cancel, tile, file, written, fsVars>>

(* PartialFile::drop, not committed: remove_file, whose result is ignored. *)
Drop(b) ==
  /\ pc[b] = "Drop"
  /\ Go(b, "Exited")
  /\ link' = [link EXCEPT ![PartialPath] = NoFile]
  /\ UNCHANGED <<exit, cancel, tile, file, written, content, diskVars, history>>

DropFails(b) ==
  /\ pc[b] = "Drop"
  /\ Go(b, "Exited")
  /\ lapsed' = TRUE /\ UNCHANGED overlapped
  /\ UNCHANGED <<exit, cancel, tile, file, written, link, content, diskVars>>

----------------------------------------------------------------------------
(* The environment. *)

(* SIGKILL, or a panic in a release build (panic = "abort"): no drop runs. *)
Kill(b) ==
  /\ Running(b)
  /\ Go(b, "Killed")
  /\ lapsed' = TRUE /\ UNCHANGED overlapped
  /\ UNCHANGED <<exit, cancel, tile, file, written, link, content, diskVars>>

FlushLinks ==
  /\ diskLink' = link
  /\ UNCHANGED <<processVars, link, content, synced, history>>

(* Inodes that were not synced may come back empty. *)
PowerLoss ==
  /\ pc' = [b \in Builds |-> IF Running(b) THEN "Killed" ELSE pc[b]]
  /\ link' = diskLink
  /\ \E kept \in SUBSET (DOMAIN content \ synced) :
       content' = [i \in DOMAIN content |->
                     IF i \in synced \cup kept THEN content[i] ELSE <<>>]
  /\ synced' = DOMAIN content
  /\ lapsed' = TRUE /\ UNCHANGED overlapped
  /\ UNCHANGED <<exit, cancel, tile, file, written, diskLink>>

(* What a running invocation does by itself.  A fetch is not among these:  *)
(* the HTTP agent has no timeout, so nothing obliges it to return.         *)
Step(b) ==
  \/ PollFetch(b) \/ EndOfFetch(b)
  \/ Begin(b) \/ BeginFails(b) \/ AddTile(b) \/ AddTileFails(b)
  \/ OpenPartial(b) \/ OpenFails(b)
  \/ WriteChunk(b) \/ SyncAll(b) \/ WriteOrSyncFails(b)
  \/ Commit(b) \/ CommitFails(b) \/ Drop(b) \/ DropFails(b)

Next ==
  \/ \E b \in Builds :
       Start(b) \/ Step(b) \/ Fetched(b) \/ FetchFails(b) \/ Sigint(b) \/ Kill(b)
  \/ FlushLinks \/ PowerLoss

Spec == Init /\ [][Next]_vars /\ \A b \in Builds : WF_vars(Step(b))

----------------------------------------------------------------------------
(* Properties *)

Out == IF link.out = NoFile THEN <<>> ELSE content[link.out]

(* Whatever happens, a kill or a power loss at any instant included, <out> *)
(* is absent, the pack that was there before, or one whole pack.           *)
OutIsWhole == link.out # NoFile => \E w \in Builds \cup {Previous} : Out = Whole(w)

(* That is so for invocations that run one after the other. *)
OutIsWholeAlone == ~overlapped => OutIsWhole

(* A build that returns success has its own whole pack at <out>. *)
OkMeansPublished ==
  [][\A b \in Builds : ~overlapped /\ exit[b] # "Ok" /\ exit'[b] = "Ok" => Out' = Whole(b)]_vars

(* What <out> shows changes only in the step in which a build succeeds, or *)
(* when a power loss takes back a rename that had not reached the disk: no *)
(* failed, cancelled or running build is ever visible there.               *)
OutChangesOnSuccess ==
  [][~overlapped /\ Out' # Out =>
       PowerLoss \/ \E b \in Builds : exit[b] # "Ok" /\ exit'[b] = "Ok"]_vars

(* Once every invocation has returned, <out>.partial is gone, unless one   *)
(* was killed, or its unlink failed: every error path runs the cleanup.    *)
PartialCleanedUp ==
  ~lapsed /\ (\A b \in Builds : ~Running(b)) => link.partial = NoFile

(* A SIGINT that arrives while a poll is still to come is never lost: the  *)
(* build does not succeed afterwards.                                      *)
PollAhead(b) ==
  pc[b] \in {"Fetch", "Fetching", "Begin"} \/ (pc[b] = "Populate" /\ tile[b] < TileCount)
CancelHonoured ==
  \A b \in Builds : [](cancel[b] /\ PollAhead(b) => [](exit[b] # "Ok"))

(* A SIGINT ends the invocation, except while a fetch does not return. *)
CancelEnds ==
  \A b \in Builds : cancel[b] /\ pc[b] # "Fetching" ~> ~Running(b)
=============================================================================
