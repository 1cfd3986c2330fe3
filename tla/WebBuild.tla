------------------------------ MODULE WebBuild ------------------------------
(***************************************************************************)
(* The page: www/index.html, its build handler, the renderer of            *)
(* www/src/render.js it awaits, the picker's drag (www/src/region.js) and  *)
(* the WASM builder they feed.  JavaScript between two awaits is one       *)
(* action; clicks, edits and drags fall between them.                      *)
(*                                                                         *)
(* Abstracted: pixels (a tile is its key; what two maps in the one #map    *)
(* element would draw is not modelled), the status line, the time a build  *)
(* takes (whether it was long enough to learn from is a choice).           *)
(***************************************************************************)
EXTENDS RegionPlan, FiniteSets

CONSTANTS
  MaxBuilds,        \* bound: clicks on Build
  PickerUsed,       \* whether the user drags on the picker during a build
  FractionsSeen,    \* RLE8 fractions real packs come out at
  DefaultFraction,  \* DEFAULT_RATES.packedFraction
  Modulus,          \* 2^32: what a tile coordinate is reduced by into WASM
  DirectoryLevels   \* levels the header has room for, 24

ASSUME ModulusAssumption == Modulus \in Nat /\ Modulus >= 2

Builds == 1..MaxBuilds
Nobody == 0

VARIABLES
  fields,        \* what the fields say
  plan,          \* `plan`: the last refresh's reading of them
  fraction,      \* rates.packedFraction, in local storage
  buildEnabled,  \* ~$('build').disabled
  controlsOn,    \* whether controls() are enabled
  cancelShown,   \* ~$('cancel').hidden
  abort,         \* the AbortController `abort` holds: a build's, or Nobody
  aborted,       \* controllers that have been aborted
  build          \* the activations of the build handler

page == <<fields, plan, buildEnabled, controlsOn, cancelShown, abort>>
vars == <<page, fraction, aborted, build>>

PlanFor(r, f) == [request |-> r,
                  block |-> IF r.kind = "area" THEN ChosenBlock(r, f) ELSE 0]
Unused == [pc |-> "Unused", plan |-> PlanFor(CHOOSE r \in Requests : r.kind = "empty", 0),
           signal |-> Nobody, level |-> 0, bx |-> 0, by |-> 0,
           column |-> {}, fed |-> <<>>, renders |-> 0, outcome |-> "None"]
Active(b) == build[b].pc \in {"Starting", "Rendering", "Saving"}

(* refresh(), after the fields have come to say r. *)
Refresh(r) ==
  /\ fields' = r
  /\ plan' = PlanFor(r, fraction)
  /\ buildEnabled' = (Verdict(r, fraction) = "ok")

Init ==
  /\ fields \in Requests
  /\ fraction = DefaultFraction
  /\ plan = PlanFor(fields, fraction) /\ buildEnabled = (Verdict(fields, fraction) = "ok")
  /\ controlsOn = TRUE /\ cancelShown = FALSE
  /\ abort = Nobody /\ aborted = {}
  /\ build = [b \in Builds |-> Unused]

----------------------------------------------------------------------------
(* The user *)

(* Typing in a field, choosing an option, a preset. *)
Edit(r) ==
  /\ controlsOn
  /\ Refresh(r)
  /\ UNCHANGED <<fraction, controlsOn, cancelShown, abort, aborted, build>>

(* A shift-drag on the picker; it moves the box and nothing else. *)
Drag(r) ==
  /\ PickerUsed \/ \A b \in Builds : ~Active(b)
  /\ [fields EXCEPT !.extent = r.extent, !.kind = r.kind] = r
  /\ Refresh(r)
  /\ UNCHANGED <<fraction, controlsOn, cancelShown, abort, aborted, build>>

Begin(b) ==
  /\ buildEnabled
  /\ build[b].pc = "Unused" /\ \A a \in 1..(b - 1) : build[a].pc # "Unused"
  /\ build' = [build EXCEPT ![b].pc = "Starting", ![b].plan = plan]
  /\ abort' = b /\ cancelShown' = TRUE
  /\ UNCHANGED <<fields, plan, fraction, aborted>>

ClickBuild(b) == Begin(b) /\ buildEnabled' = FALSE /\ controlsOn' = FALSE

ClickCancel ==
  /\ cancelShown
  /\ aborted' = aborted \cup ({abort} \ {Nobody})
  /\ UNCHANGED <<page, fraction, build>>

----------------------------------------------------------------------------
(* The build handler *)

(* Mutant: the controller is left behind. *)
LeaveAbortKept(b, outcome) ==
  /\ build' = [build EXCEPT ![b].pc = "Ended", ![b].outcome = outcome]
  /\ controlsOn' = TRUE /\ cancelShown' = FALSE
  /\ Refresh(fields) /\ UNCHANGED abort

(* The `finally` clause, when freeing the builder is right. *)
Leave(b, outcome) ==
  /\ build' = [build EXCEPT ![b].pc = "Ended", ![b].outcome = outcome]
  /\ abort' = Nobody /\ controlsOn' = TRUE /\ cancelShown' = FALSE
  /\ Refresh(fields)

(* `finally` when finish() has consumed the builder and failed: free()     *)
(* faults, and the rest of the clause does not run.                        *)
Fault(b) ==
  /\ build' = [build EXCEPT ![b].pc = "Ended", ![b].outcome = "Faulted"]
  /\ UNCHANGED page

(* Mutant: the renderer looks at the signal only when it starts. *)
GoOnRegardless(b, next) == build' = [build EXCEPT ![b] = next] /\ UNCHANGED page

(* checkAborted() before a block. *)
GoOn(b, next) ==
  IF next.signal \in aborted THEN Leave(b, "Cancelled")
  ELSE build' = [build EXCEPT ![b] = next] /\ UNCHANGED page

(* wasmReady rejects, or the map cannot be made. *)
StartFails(b) ==
  /\ build[b].pc = "Starting"
  /\ Leave(b, "Failed")
  /\ UNCHANGED <<fraction, aborted>>

(* The map's `load`: the builder is made and renderRegion begins.          *)
(* `abort.signal` is read only now, and throws when `abort` is null.       *)
MapLoads(b) ==
  LET r == build[b].plan.request
  IN /\ build[b].pc = "Starting"
     /\ IF abort = Nobody THEN Leave(b, "Failed")
        ELSE GoOn(b, [build[b] EXCEPT !.pc = "Rendering", !.signal = abort, !.level = r.first,
                                      !.bx = r.extent[r.first].x0, !.by = r.extent[r.first].y0])
     /\ UNCHANGED <<fraction, aborted>>

(* Mutant: the wait has no timer. *)
NeverTimesOut(b) == FALSE

(* 60 s without an idle map. *)
IdleTimesOut(b) ==
  /\ build[b].pc = "Rendering"
  /\ Leave(b, "Failed")
  /\ UNCHANGED <<fraction, aborted>>

----------------------------------------------------------------------------
(* renderRegion, from one `idle` to the next.  c is an active build. *)

ExtentOf(c) == c.plan.request.extent[c.level]

LastX(c) == c.bx + Least(c.plan.block, ExtentOf(c).x1 - c.bx + 1) - 1
LastY(c) == c.by + Least(c.plan.block, ExtentOf(c).y1 - c.by + 1) - 1
Cut(c) == {[z |-> c.level, x |-> x, y |-> y] : x \in c.bx..LastX(c), y \in c.by..LastY(c)}

LastOfColumn(c) == c.by + c.plan.block > ExtentOf(c).y1
LastOfLevel(c)  == c.bx + c.plan.block > ExtentOf(c).x1
LastOfRegion(c) == LastOfColumn(c) /\ LastOfLevel(c) /\ c.level = c.plan.request.last

(* x is the major axis; only tiles that have been cut are emitted. *)
ColumnMajor(c) ==
  LET ny == Ny(c.plan.request, c.level)
  IN [i \in 1..((LastX(c) - c.bx + 1) * ny) |->
        [z |-> c.level, x |-> c.bx + (i - 1) \div ny, y |-> ExtentOf(c).y0 + ((i - 1) % ny)]]

(* Mutant: only the last block of the column is emitted. *)
EmittedLastBlock(c) == SelectSeq(ColumnMajor(c), LAMBDA k : k \in Cut(c))

Emitted(c) ==
  LET keys == ColumnMajor(c)
      there == {i \in DOMAIN keys : keys[i] \in c.column \cup Cut(c)}
  IN [n \in 1..Cardinality(there) |->
        keys[CHOOSE i \in there : Cardinality(there \cap (1..i)) = n]]

(* What the builder sees: the coordinates as u32, in ascending order only. *)
AsU32(k) == [k EXCEPT !.x = @ % Modulus, !.y = @ % Modulus]
Precedes(k, l) ==
  \/ k.z < l.z
  \/ k.z = l.z /\ k.x < l.x
  \/ k.z = l.z /\ k.x = l.x /\ k.y < l.y
Fed(c) == c.fed \o [i \in DOMAIN Emitted(c) |-> AsU32(Emitted(c)[i])]
InOrder(keys) == \A i \in 1..(Len(keys) - 1) : Precedes(keys[i], keys[i + 1])

BlockSettles(b) ==
  LET c == build[b]
  IN /\ c.pc = "Rendering" /\ ~LastOfColumn(c)
     /\ GoOn(b, [c EXCEPT !.column = @ \cup Cut(c), !.renders = @ + 1, !.by = @ + c.plan.block])
     /\ UNCHANGED <<fraction, aborted>>

(* The end of a block-column: emit it, then its right-hand neighbour, or   *)
(* the first column of the next level.                                     *)
ColumnSettles(b) ==
  LET c == build[b]
      level == IF LastOfLevel(c) THEN c.level + 1 ELSE c.level
      next  == c.plan.request.extent[level]
  IN /\ c.pc = "Rendering" /\ LastOfColumn(c) /\ ~LastOfRegion(c)
     /\ IF ~InOrder(Fed(c)) THEN Leave(b, "Rejected")
        ELSE GoOn(b, [c EXCEPT !.column = {}, !.renders = @ + 1, !.fed = Fed(c), !.level = level,
                               !.bx = IF LastOfLevel(c) THEN next.x0 ELSE @ + c.plan.block,
                               !.by = next.y0])
     /\ UNCHANGED <<fraction, aborted>>

(* The last block: emit, finish() the builder, learn from the build, and   *)
(* ask where to save.  Nothing here looks at the signal.                   *)
RegionSettles(b) ==
  LET c == build[b]
      done == [c EXCEPT !.pc = "Saving", !.column = {}, !.renders = @ + 1, !.fed = Fed(c)]
  IN /\ c.pc = "Rendering" /\ LastOfRegion(c)
     /\ CASE ~InOrder(Fed(c)) -> Leave(b, "Rejected") /\ UNCHANGED fraction
          [] InOrder(Fed(c)) /\ c.level >= DirectoryLevels -> Fault(b) /\ UNCHANGED fraction
          [] OTHER -> /\ build' = [build EXCEPT ![b] = done]
                      /\ \/ UNCHANGED fraction
                         \/ \E seen \in FractionsSeen :
                              fraction' = Learn(c.plan.request, fraction, seen)
                      /\ UNCHANGED page
     /\ UNCHANGED aborted

Saves(b) ==
  /\ build[b].pc = "Saving"
  /\ Leave(b, "Saved")
  /\ UNCHANGED <<fraction, aborted>>

(* The dialog is dismissed, or writing fails. *)
SaveFails(b) ==
  /\ build[b].pc = "Saving"
  /\ Leave(b, "Failed")
  /\ UNCHANGED <<fraction, aborted>>

Settles(b) == BlockSettles(b) \/ ColumnSettles(b) \/ RegionSettles(b) \/ IdleTimesOut(b)

Next ==
  \/ \E r \in Requests : Edit(r) \/ Drag(r)
  \/ ClickCancel
  \/ \E b \in Builds : \/ ClickBuild(b) \/ StartFails(b) \/ MapLoads(b)
                       \/ Settles(b) \/ Saves(b) \/ SaveFails(b)

(* All the code guarantees about a wait for an idle map is its timer.  The *)
(* user, the map and the network owe the page nothing.                     *)
Spec == Init /\ [][Next]_vars /\ \A b \in Builds : WF_vars(IdleTimesOut(b))

----------------------------------------------------------------------------
(* Properties *)

(* render.js: whatever the block size, the tiles that reach the builder    *)
(* are the region's, each once, in the order of the pack's index; and the  *)
(* counts the page showed before the build were the right ones.  Nothing   *)
(* keeps the box in the world: a coordinate reaches the builder as a u32,  *)
(* so a box that lies wholly west of 180 W is built under other numbers.   *)
(* One that reaches into the world is never built under wrong ones.        *)
ReachesWorld(r) ==
  \A l \in Levels(r) :
    LET e == r.extent[l] IN e.x1 >= 0 /\ e.x0 < Modulus /\ e.y1 >= 0 /\ e.y0 < Modulus
PackIsRegion ==
  \A b \in Builds : build[b].pc = "Saving" =>
    LET c == build[b]
        region == RegionTiles(c.plan.request)
    IN /\ Range(c.fed) = {AsU32(k) : k \in region}
       /\ ReachesWorld(c.plan.request) => Range(c.fed) = region
       /\ InOrder(c.fed)
       /\ Len(c.fed) = Tiles(c.plan.request)
       /\ c.renders = Renders(c.plan.request, c.plan.block)

(* A build whose signal is aborted renders the block it is waiting for and *)
(* begins no other.                                                        *)
CancelStopsTheNextBlock ==
  [][\A b \in Builds :
       build[b].signal \in aborted /\ build[b] # build'[b] => build'[b].pc # "Rendering"]_vars

(* When no build runs the page is back in hand: the fields can be edited,  *)
(* nothing is left to cancel, and Build can be pressed exactly when the    *)
(* request can be built.                                                   *)
PageIsReleased ==
  (\A b \in Builds : ~Active(b)) =>
    /\ controlsOn /\ ~cancelShown /\ abort = Nobody
    /\ buildEnabled = (Verdict(fields, fraction) = "ok")

(* That is so unless finish() has failed after it consumed the builder: a  *)
(* cancelled, refused, timed-out or saved build releases the page, and so  *)
(* do two that overlap, whichever ends first.                              *)
ReleasedUnlessFault ==
  (\A b \in Builds : build[b].outcome # "Faulted") => PageIsReleased

(* index.html, on controls(): what the page says about the pack is what is *)
(* being built.                                                            *)
ReadoutMatchesBuild == \A b \in Builds : Active(b) => plan = build[b].plan

(* estimate.js: "Same inputs, same pack": the block size, which changes    *)
(* the pixels, is a function of the request.  For a pack that is not       *)
(* compressed it is: the page plans it as a browser that has never built   *)
(* anything would.                                                         *)
UncompressedSamePack ==
  plan.request.kind = "area" /\ ~plan.request.packed =>
    plan.block = ChosenBlock(plan.request, DefaultFraction)

(* Rendering ends, whether or not the map ever goes idle. *)
RenderingEnds == \A b \in Builds : build[b].pc = "Rendering" ~> build[b].pc \in {"Saving", "Ended"}
=============================================================================
