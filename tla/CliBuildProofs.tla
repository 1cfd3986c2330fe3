--------------------------- MODULE CliBuildProofs ---------------------------
(***************************************************************************)
(* Proofs about CliBuild, for every set of invocations, every number of    *)
(* tiles and chunks, and every history of signals, failures, kills and     *)
(* power losses.                                                           *)
(*                                                                         *)
(* Typed and Paced hold of any interleaving.  Alone adds what the disk and *)
(* the paths look like while no two invocations have overlapped: the inode *)
(* at <out> is whole and synced, and no writer has it open.                *)
(***************************************************************************)
EXTENDS CliBuild, TLAPS

Places == {"Idle", "Fetch", "Fetching", "Begin", "Populate", "Write", "Rename",
           "Drop", "Exited", "Killed"}
Results == {"None", "Ok", "Error", "Cancelled"}
Cells == Builds \cup {Previous, Hole}

Typed ==
  /\ pc \in [Builds -> Places] /\ exit \in [Builds -> Results]
  /\ cancel \in [Builds -> BOOLEAN]
  /\ tile \in [Builds -> Nat] /\ written \in [Builds -> Nat]
  /\ content \in Seq(Seq(Cells))
  /\ file \in [Builds -> 0..Len(content)]
  /\ link \in [Paths -> 0..Len(content)] /\ diskLink \in [Paths -> 0..Len(content)]
  /\ synced \subseteq 0..Len(content)
  /\ lapsed \in BOOLEAN /\ overlapped \in BOOLEAN

(* How far an invocation can be at each place. *)
Paced ==
  \A b \in Builds :
    /\ pc[b] \in {"Idle", "Fetch", "Fetching", "Begin", "Populate"} => written[b] = 0
    /\ pc[b] \in {"Idle", "Begin"} => tile[b] = 0
    /\ pc[b] \notin {"Drop", "Exited", "Killed"} => exit[b] = "None"
    /\ pc[b] = "Drop" => exit[b] # "Ok"

(* Somebody answers for the partial file. *)
PartialOwned ==
  ~lapsed /\ link["partial"] # NoFile =>
    \E b \in Builds : pc[b] \in {"Write", "Rename", "Drop"}

(* Inode p is a whole pack and safe from a power loss. *)
Finished(p) == p \in synced /\ \E w \in Builds \cup {Previous} : content[p] = Whole(w)

OneRuns == \A b, c \in Builds : Running(b) /\ Running(c) => b = c

WriterHasPartial ==
  \A b \in Builds :
    /\ pc[b] \in {"Write", "Rename"} => file[b] = link["partial"] /\ file[b] # NoFile
    /\ pc[b] = "Write" =>
         written[b] \in 0..Chunks /\ content[file[b]] = [i \in 1..written[b] |-> b]
    /\ pc[b] = "Rename" => content[file[b]] = Whole(b) /\ file[b] \in synced

OutFinished == \A p \in {link["out"], diskLink["out"]} : p # NoFile => Finished(p)

PathsApart ==
  /\ link["partial"] # NoFile => link["partial"] \notin {link["out"], diskLink["out"]}
  /\ diskLink["partial"] # NoFile => diskLink["partial"] # diskLink["out"]

Alone == ~overlapped => OneRuns /\ WriterHasPartial /\ OutFinished /\ PathsApart

----------------------------------------------------------------------------
(* An assignment to a cell keeps a sequence's type and length; outside its *)
(* domain it is void.                                                      *)
LEMMA AssignedCell ==
  ASSUME NEW S, NEW s \in Seq(S), NEW i \in 0..Len(s), NEW e, i # 0 => e \in S
  PROVE  [s EXCEPT ![i] = e] \in Seq(S) /\ Len([s EXCEPT ![i] = e]) = Len(s)
<1>1. CASE i # 0
  BY <1>1
<1>2. CASE i = 0
  <2>1. DOMAIN s = 1..Len(s) /\ 0 \notin 1..Len(s)
    OBVIOUS
  <2>2. s = [j \in DOMAIN s |-> s[j]]
    OBVIOUS
  <2>3. [s EXCEPT ![i] = e] = s
    BY <1>2, <2>1, <2>2, Zenon
  <2>. QED
    BY <2>3
<1>. QED
  BY <1>1, <1>2

(* Every variable keeps its type, whatever the invocations do to each      *)
(* other's files.                                                          *)
LEMMA InitTyped == Init => Typed
<1> SUFFICES ASSUME Init PROVE Typed
  OBVIOUS
<1>. USE DEF Init, NoFile, Paths
<1>1. Whole(Previous) \in Seq(Cells)
  BY SizesAssumption DEF Whole, Cells
<1>2. content \in Seq(Seq(Cells)) /\ Len(content) = 1
  BY <1>1
<1>3. link \in [Paths -> 0..Len(content)] /\ diskLink \in [Paths -> 0..Len(content)]
  BY <1>2
<1>4. pc \in [Builds -> Places] /\ exit \in [Builds -> Results]
  BY DEF Places, Results
<1>5. /\ tile \in [Builds -> Nat] /\ written \in [Builds -> Nat]
      /\ file \in [Builds -> 0..Len(content)]
  BY <1>2
<1>6. cancel \in [Builds -> BOOLEAN]
  OBVIOUS
<1>7. synced \subseteq 0..Len(content)
  BY <1>2
<1>8. lapsed \in BOOLEAN /\ overlapped \in BOOLEAN
  OBVIOUS
<1>. QED
  BY <1>2, <1>3, <1>4, <1>5, <1>6, <1>7, <1>8 DEF Typed

(* Every step keeps the types. *)
LEMMA StepTyped == Typed /\ [Next]_vars => Typed'
<1> SUFFICES ASSUME Typed, [Next]_vars PROVE Typed'
  OBVIOUS
<1>. USE DEF Typed, Go, Return, Bail, processVars, fsVars, diskVars, history, NoFile, Paths
<1>1. ASSUME NEW b \in Builds, Start(b) PROVE Typed'
  BY <1>1 DEF Start, Places, Running
<1>2. ASSUME NEW b \in Builds, PollFetch(b) PROVE Typed'
  <2>1. CASE Cancelled(b)
    BY <1>2, <2>1 DEF PollFetch, Places, Results
  <2>2. CASE ~Cancelled(b)
    BY <1>2, <2>2 DEF PollFetch, Places
  <2>. QED
    BY <2>1, <2>2
<1>3. ASSUME NEW b \in Builds, EndOfFetch(b) \/ Begin(b) \/ Fetched(b) PROVE Typed'
  <2>1. CASE EndOfFetch(b)
    BY <2>1 DEF EndOfFetch, Places
  <2>2. CASE Begin(b)
    BY <2>2 DEF Begin, Places
  <2>3. CASE Fetched(b)
    BY <2>3 DEF Fetched, Places
  <2>. QED
    BY <1>3, <2>1, <2>2, <2>3
<1>4. ASSUME NEW b \in Builds, BeginFails(b) \/ AddTileFails(b) \/ OpenFails(b)
                 \/ WriteOrSyncFails(b) \/ CommitFails(b) \/ FetchFails(b)
      PROVE  Typed'
  BY <1>4 DEF BeginFails, AddTileFails, OpenFails, WriteOrSyncFails, CommitFails,
              FetchFails, Places, Results
<1>5. ASSUME NEW b \in Builds, AddTile(b) PROVE Typed'
  <2>1. CASE Cancelled(b)
    BY <1>5, <2>1 DEF AddTile, Places, Results
  <2>2. CASE ~Cancelled(b)
    <3>1. tile' = [tile EXCEPT ![b] = @ + 1]
      BY <1>5, <2>2 DEF AddTile
    <3>2. tile' \in [Builds -> Nat]
      BY <3>1
    <3>3. UNCHANGED <<pc, exit, cancel, written, file, fsVars>>
      BY <1>5, <2>2 DEF AddTile
    <3>. QED
      BY <3>2, <3>3
  <2>. QED
    BY <2>1, <2>2
<1>6. ASSUME NEW b \in Builds, OpenPartial(b) PROVE Typed'
  <2>. DEFINE i == IF link["partial"] = NoFile THEN Len(content) + 1 ELSE link["partial"]
              n == IF link["partial"] = NoFile THEN Len(content) + 1 ELSE Len(content)
  <2>1. i \in Nat /\ n \in Nat /\ 1..Len(content) \cup {i} = 1..n /\ i \in 1..n
    OBVIOUS
  <2>2. content' = [j \in 1..n |-> IF j = i THEN <<>> ELSE content[j]]
    BY <1>6, <2>1 DEF OpenPartial, PartialPath
  <2>3. \A j \in 1..n : (IF j = i THEN <<>> ELSE content[j]) \in Seq(Cells)
    BY <2>1
  <2>4. content' \in Seq(Seq(Cells)) /\ Len(content') = n
    BY <2>1, <2>2, <2>3
  <2>5. link' \in [Paths -> 0..n] /\ diskLink' \in [Paths -> 0..n]
    <3>1. link' = [link EXCEPT !["partial"] = i] /\ diskLink' = diskLink
      BY <1>6 DEF OpenPartial, PartialPath
    <3>2. 0..Len(content) \subseteq 0..n /\ i \in 0..n
      OBVIOUS
    <3>. QED
      BY <3>1, <3>2
  <2>6. synced' \subseteq 0..n /\ file' \in [Builds -> 0..n]
    <3>1. file' = [file EXCEPT ![b] = i] /\ synced' \subseteq synced
      BY <1>6 DEF OpenPartial, PartialPath
    <3>2. 0..Len(content) \subseteq 0..n /\ i \in 0..n
      OBVIOUS
    <3>. QED
      BY <3>1, <3>2
  <2>. QED
    BY <1>6, <2>4, <2>5, <2>6 DEF OpenPartial, Places
<1>7. ASSUME NEW b \in Builds, WriteChunk(b) PROVE Typed'
  <2>. DEFINE k == written[b] + 1
  <2>1. k \in Nat
    OBVIOUS
  <2>2. ASSUME NEW s \in Seq(Cells) PROVE PutAt(s, k, b) \in Seq(Cells)
    <3>. DEFINE n == IF k > Len(s) THEN k ELSE Len(s)
    <3>1. n \in Nat /\ b \in Cells /\ Hole \in Cells
      BY <2>1 DEF Cells
    <3>. DEFINE e(i) == IF i = k THEN b ELSE IF i <= Len(s) THEN s[i] ELSE Hole
    <3>2. \A i \in 1..n : e(i) \in Cells
      BY <2>1, <3>1
    <3>3. PutAt(s, k, b) = [i \in 1..n |-> e(i)]
      BY DEF PutAt
    <3>. HIDE DEF n, e
    <3>. QED
      BY <3>1, <3>2, <3>3
  <2>3. content' = [content EXCEPT ![file[b]] = PutAt(@, k, b)]
    BY <1>7 DEF WriteChunk
  <2>4. content' \in Seq(Seq(Cells)) /\ Len(content') = Len(content)
    <3>1. file[b] # 0 => content[file[b]] \in Seq(Cells)
      OBVIOUS
    <3>2. file[b] # 0 => PutAt(content[file[b]], k, b) \in Seq(Cells)
      BY <2>2, <3>1
    <3>. QED
      BY <2>3, <3>2, AssignedCell
  <2>. QED
    <3>1. written' = [written EXCEPT ![b] = @ + 1] /\ synced' \subseteq synced
      BY <1>7 DEF WriteChunk
    <3>2. written' \in [Builds -> Nat] /\ synced' \subseteq 0..Len(content')
      BY <2>4, <3>1
    <3>3. UNCHANGED <<pc, exit, cancel, tile, file, link, diskLink, lapsed, overlapped>>
      BY <1>7 DEF WriteChunk
    <3>. QED
      BY <2>4, <3>2, <3>3
<1>8. ASSUME NEW b \in Builds, SyncAll(b) PROVE Typed'
  BY <1>8 DEF SyncAll, Places
<1>9. ASSUME NEW b \in Builds, Commit(b) PROVE Typed'
  BY <1>9 DEF Commit, PartialPath, Places, Results
<1>10. ASSUME NEW b \in Builds, Drop(b) \/ DropFails(b) PROVE Typed'
  <2>1. CASE Drop(b)
    BY <2>1 DEF Drop, PartialPath, Places
  <2>2. CASE DropFails(b)
    BY <2>2 DEF DropFails, Places
  <2>. QED
    BY <1>10, <2>1, <2>2
<1>11. ASSUME NEW b \in Builds, Sigint(b) \/ Kill(b) PROVE Typed'
  BY <1>11 DEF Sigint, Kill, Places
<1>12. CASE FlushLinks
  BY <1>12 DEF FlushLinks
<1>13. CASE PowerLoss
  <2>1. content' \in Seq(Seq(Cells)) /\ Len(content') = Len(content)
    <3>1. PICK kept \in SUBSET (DOMAIN content \ synced) :
            content' = [i \in DOMAIN content |->
                          IF i \in synced \cup kept THEN content[i] ELSE <<>>]
      BY <1>13 DEF PowerLoss
    <3>2. DOMAIN content = 1..Len(content)
      OBVIOUS
    <3>. QED
      BY <3>1, <3>2
  <2>2. synced' = 1..Len(content')
    BY <1>13, <2>1 DEF PowerLoss
  <2>3. pc' \in [Builds -> Places]
    BY <1>13 DEF PowerLoss, Places
  <2>. QED
    BY <1>13, <2>1, <2>2, <2>3 DEF PowerLoss
<1>14. CASE UNCHANGED vars
  BY <1>14 DEF vars
<1>. QED
  BY <1>1, <1>2, <1>3, <1>4, <1>5, <1>6, <1>7, <1>8, <1>9, <1>10, <1>11, <1>12, <1>13,
     <1>14 DEF Next, Step

(* What a place says of an invocation stays true when the others move. *)
LEMMA StepPaced == Typed /\ Paced /\ [Next]_vars => Paced'
<1> SUFFICES ASSUME Typed, Paced, [Next]_vars PROVE Paced'
  OBVIOUS
<1>. USE DEF Typed, Paced, Go, Return, Bail, Places
<1>1. ASSUME NEW b \in Builds, Start(b) \/ Fetched(b) \/ Sigint(b) \/ Kill(b) PROVE Paced'
  <2>1. CASE Start(b)
    BY <2>1 DEF Start
  <2>2. CASE Fetched(b)
    BY <2>2 DEF Fetched
  <2>3. CASE Sigint(b)
    BY <2>3 DEF Sigint
  <2>4. CASE Kill(b)
    BY <2>4 DEF Kill
  <2>. QED
    BY <1>1, <2>1, <2>2, <2>3, <2>4
<1>2. ASSUME NEW b \in Builds, BeginFails(b) \/ AddTileFails(b) \/ OpenFails(b)
                 \/ WriteOrSyncFails(b) \/ CommitFails(b) \/ FetchFails(b)
      PROVE  Paced'
  BY <1>2 DEF BeginFails, AddTileFails, OpenFails, WriteOrSyncFails, CommitFails, FetchFails
<1>3. ASSUME NEW b \in Builds, PollFetch(b) \/ EndOfFetch(b) \/ Begin(b) PROVE Paced'
  <2>1. CASE PollFetch(b)
    <3>1. CASE Cancelled(b)
      BY <2>1, <3>1 DEF PollFetch
    <3>2. CASE ~Cancelled(b)
      BY <2>1, <3>2 DEF PollFetch
    <3>. QED
      BY <3>1, <3>2
  <2>2. CASE EndOfFetch(b)
    BY <2>2 DEF EndOfFetch
  <2>3. CASE Begin(b)
    BY <2>3 DEF Begin
  <2>. QED
    BY <1>3, <2>1, <2>2, <2>3
<1>4. ASSUME NEW b \in Builds, AddTile(b) PROVE Paced'
  <2>1. CASE Cancelled(b)
    BY <1>4, <2>1 DEF AddTile
  <2>2. CASE ~Cancelled(b)
    <3>1. /\ tile' = [tile EXCEPT ![b] = @ + 1] /\ pc[b] = "Populate"
          /\ UNCHANGED <<pc, exit, written>>
      BY <1>4, <2>2 DEF AddTile
    <3>. QED
      BY <3>1
  <2>. QED
    BY <2>1, <2>2
<1>5. ASSUME NEW b \in Builds, OpenPartial(b) \/ WriteChunk(b) \/ SyncAll(b) PROVE Paced'
  <2>1. CASE OpenPartial(b)
    BY <2>1 DEF OpenPartial
  <2>2. CASE WriteChunk(b)
    <3>1. written' = [written EXCEPT ![b] = @ + 1] /\ pc[b] = "Write" /\ UNCHANGED <<pc, exit, tile>>
      BY <2>2 DEF WriteChunk
    <3>. QED
      BY <3>1
  <2>3. CASE SyncAll(b)
    BY <2>3 DEF SyncAll
  <2>. QED
    BY <1>5, <2>1, <2>2, <2>3
<1>6. ASSUME NEW b \in Builds, Commit(b) \/ Drop(b) \/ DropFails(b) PROVE Paced'
  <2>1. CASE Commit(b)
    BY <2>1 DEF Commit
  <2>2. CASE Drop(b) \/ DropFails(b)
    BY <2>2 DEF Drop, DropFails
  <2>. QED
    BY <1>6, <2>1, <2>2
<1>7. CASE FlushLinks
  BY <1>7 DEF FlushLinks, processVars
<1>8. CASE PowerLoss
  <2>1. \A b \in Builds : pc'[b] = (IF Running(b) THEN "Killed" ELSE pc[b])
    BY <1>8 DEF PowerLoss
  <2>2. UNCHANGED <<exit, tile, written>>
    BY <1>8 DEF PowerLoss
  <2>. QED
    BY <2>1, <2>2 DEF Running
<1>9. CASE UNCHANGED vars
  BY <1>9 DEF vars, processVars
<1>. QED
  BY <1>1, <1>2, <1>3, <1>4, <1>5, <1>6, <1>7, <1>8, <1>9 DEF Next, Step

(* The partial file exists only while somebody will rename or remove it:   *)
(* a step leaves an owner one unless it takes the path away.               *)
LEMMA StepOwned == Typed /\ PartialOwned /\ [Next]_vars => PartialOwned'
<1>. DEFINE Owns(b) == pc[b] \in {"Write", "Rename", "Drop"}
            Kept == UNCHANGED <<link, lapsed>> /\ \A c \in Builds : Owns(c) => Owns(c)'
<1> SUFFICES ASSUME Typed, PartialOwned, [Next]_vars, ~lapsed', link'["partial"] # NoFile
             PROVE  \E b \in Builds : Owns(b)'
  BY DEF PartialOwned
<1>. USE DEF Typed, Go, Return, Bail, Places, Paths, fsVars, history
<1>1. ASSUME NEW b \in Builds, Start(b) \/ Fetched(b) \/ Sigint(b) \/ EndOfFetch(b) \/ Begin(b)
      PROVE  Kept
  BY <1>1 DEF Start, Fetched, Sigint, EndOfFetch, Begin
<1>2. ASSUME NEW b \in Builds, BeginFails(b) \/ AddTileFails(b) \/ OpenFails(b)
                 \/ WriteOrSyncFails(b) \/ CommitFails(b) \/ FetchFails(b)
      PROVE  Kept
  BY <1>2 DEF BeginFails, AddTileFails, OpenFails, WriteOrSyncFails, CommitFails, FetchFails
<1>3. ASSUME NEW b \in Builds, PollFetch(b) \/ AddTile(b) PROVE Kept
  BY <1>3 DEF PollFetch, AddTile
<1>4. ASSUME NEW b \in Builds, OpenPartial(b) PROVE Owns(b)'
  BY <1>4 DEF OpenPartial
<1>5. ASSUME NEW b \in Builds, WriteChunk(b) \/ SyncAll(b) PROVE Kept
  BY <1>5 DEF WriteChunk, SyncAll
<1>6. ASSUME NEW b \in Builds, Commit(b) \/ Drop(b) \/ DropFails(b) \/ Kill(b) PROVE FALSE
  BY <1>6 DEF Commit, Drop, DropFails, Kill, PartialPath
<1>7. CASE FlushLinks
  BY <1>7 DEF FlushLinks, processVars, PartialOwned
<1>8. CASE PowerLoss
  BY <1>8 DEF PowerLoss
<1>9. CASE UNCHANGED vars
  BY <1>9 DEF vars, processVars, PartialOwned
<1>10. Kept => \E b \in Builds : Owns(b)'
  BY DEF PartialOwned
<1>. QED
  BY <1>1, <1>2, <1>3, <1>4, <1>5, <1>6, <1>7, <1>8, <1>9, <1>10 DEF Next, Step

(* Writing the chunks in order fills a file that was empty. *)
LEMMA NextChunk ==
  ASSUME NEW b, NEW n \in Nat
  PROVE  PutAt([i \in 1..n |-> b], n + 1, b) = [i \in 1..(n + 1) |-> b]
<1>. DEFINE s == [i \in 1..n |-> b]
<1>1. Len(s) = n /\ \A i \in 1..n : s[i] = b
  OBVIOUS
<1>. HIDE DEF s
<1>2. PutAt(s, n + 1, b) =
        [i \in 1..(n + 1) |-> IF i = n + 1 THEN b ELSE IF i <= n THEN s[i] ELSE Hole]
  BY <1>1 DEF PutAt
<1>3. \A i \in 1..(n + 1) : (IF i = n + 1 THEN b ELSE IF i <= n THEN s[i] ELSE Hole) = b
  BY <1>1
<1>4. PutAt(s, n + 1, b) = [i \in 1..(n + 1) |-> b]
  BY <1>2, <1>3
<1>. QED
  BY <1>4 DEF s

(* Once two invocations have overlapped, they have for good. *)
LEMMA OverlapStays == overlapped /\ [Next]_vars => overlapped'
<1> SUFFICES ASSUME overlapped, [Next]_vars PROVE overlapped'
  OBVIOUS
<1>. USE DEF fsVars, history
<1>1. ASSUME NEW b \in Builds, Start(b) \/ Fetched(b) \/ FetchFails(b) \/ Sigint(b) \/ Kill(b)
      PROVE  overlapped'
  BY <1>1 DEF Start, Fetched, FetchFails, Sigint, Kill
<1>2. ASSUME NEW b \in Builds, PollFetch(b) \/ EndOfFetch(b) \/ Begin(b) \/ BeginFails(b)
                 \/ AddTile(b) \/ AddTileFails(b) \/ OpenFails(b)
      PROVE  overlapped'
  BY <1>2 DEF PollFetch, EndOfFetch, Begin, BeginFails, AddTile, AddTileFails, OpenFails
<1>3. ASSUME NEW b \in Builds, OpenPartial(b) \/ WriteChunk(b) \/ SyncAll(b)
                 \/ WriteOrSyncFails(b) \/ Commit(b) \/ CommitFails(b) \/ Drop(b) \/ DropFails(b)
      PROVE  overlapped'
  BY <1>3 DEF OpenPartial, WriteChunk, SyncAll, WriteOrSyncFails, Commit, CommitFails, Drop,
              DropFails
<1>4. CASE FlushLinks \/ PowerLoss \/ UNCHANGED vars
  BY <1>4 DEF FlushLinks, PowerLoss, vars
<1>. QED
  BY <1>1, <1>2, <1>3, <1>4 DEF Next, Step

(* The steps that leave the disk alone and bring nobody nearer to it. *)
Aside ==
  /\ UNCHANGED <<link, content, diskLink, synced, file, written>>
  /\ \A c \in Builds :
       /\ Running(c)' => Running(c)
       /\ pc'[c] \in {"Write", "Rename"} => pc'[c] = pc[c]

(* While nobody overlaps, a step keeps the partial file the writer's own   *)
(* and the inode at <out> out of its reach.                                *)
LEMMA StepAlone == Typed /\ Paced /\ Alone /\ [Next]_vars => Alone'
<1>. DEFINE Shape == OneRuns /\ WriterHasPartial /\ OutFinished /\ PathsApart
<1> SUFFICES ASSUME Typed, Paced, Shape, [Next]_vars, ~overlapped, ~overlapped'
             PROVE  Shape'
  BY OverlapStays DEF Alone, Typed
<1>. USE DEF Paths, NoFile
<1>a. ASSUME Aside PROVE Shape'
  BY <1>a DEF Aside, OneRuns, WriterHasPartial, OutFinished, PathsApart, Finished
<1>1. ASSUME NEW b \in Builds, Start(b) PROVE Shape'
  <2>1. \A c \in Builds : ~Running(c)
    BY <1>1 DEF Start
  <2>2. /\ UNCHANGED <<link, content, diskLink, synced, file, written>>
        /\ pc'[b] \notin {"Write", "Rename"}
        /\ \A c \in Builds : c # b => pc'[c] = pc[c]
    BY <1>1 DEF Start, Go, Typed, diskVars
  <2>3. \A c \in Builds : (Running(c)' => c = b) /\ pc'[c] \notin {"Write", "Rename"}
    BY <2>1, <2>2 DEF Running
  <2>. QED
    BY <2>2, <2>3 DEF OneRuns, WriterHasPartial, OutFinished, PathsApart, Finished
<1>2. ASSUME NEW b \in Builds, Fetched(b) \/ Sigint(b) \/ EndOfFetch(b) \/ Begin(b)
      PROVE  Aside
  BY <1>2 DEF Fetched, Sigint, EndOfFetch, Begin, Aside, Running, Typed, Go, fsVars, diskVars
<1>3. ASSUME NEW b \in Builds, BeginFails(b) \/ AddTileFails(b) \/ OpenFails(b)
                 \/ WriteOrSyncFails(b) \/ CommitFails(b) \/ FetchFails(b)
      PROVE  Aside
  BY <1>3 DEF BeginFails, AddTileFails, OpenFails, WriteOrSyncFails, CommitFails, FetchFails,
              Aside, Running, Typed, Bail, Return, Go, fsVars, diskVars
<1>4. ASSUME NEW b \in Builds, PollFetch(b) \/ AddTile(b) PROVE Aside
  BY <1>4 DEF PollFetch, AddTile, Aside, Running, Typed, Bail, Return, Go, fsVars, diskVars
<1>5. ASSUME NEW b \in Builds, Kill(b) \/ DropFails(b) PROVE Aside
  BY <1>5 DEF Kill, DropFails, Aside, Running, Typed, Go, diskVars
<1>6. ASSUME NEW b \in Builds, OpenPartial(b) PROVE Shape'
  <2>. DEFINE i == IF link["partial"] = NoFile THEN Len(content) + 1 ELSE link["partial"]
  <2>1. pc[b] = "Populate" /\ Running(b)
    BY <1>6 DEF OpenPartial, Running
  <2>2. \A c \in Builds : c # b => ~Running(c) /\ pc[c] \notin {"Write", "Rename"}
    BY <2>1 DEF OneRuns, Running
  <2>3. \A c \in Builds : pc'[c] = IF c = b THEN "Write" ELSE pc[c]
    BY <1>6 DEF OpenPartial, Go, Typed
  <2>4. /\ \A p \in 0..Len(content) : p # i /\ p # 0 => content'[p] = content[p]
        /\ content'[i] = <<>>
    BY <1>6 DEF OpenPartial, PartialPath, Typed
  <2>5. /\ link'["partial"] = i /\ link'["out"] = link["out"] /\ diskLink' = diskLink
        /\ file'[b] = i /\ synced' = synced \ {i} /\ written'[b] = 0 /\ i # 0
    BY <1>6, <2>1 DEF OpenPartial, PartialPath, Typed, Paced
  <2>6. i \notin {link["out"], diskLink["out"]}
    BY DEF Typed, PathsApart
  <2>7. OneRuns'
    BY <2>2, <2>3 DEF OneRuns, Running
  <2>8. WriterHasPartial'
    <3>1. content'[i] = [x \in 1..0 |-> b]
      BY <2>4
    <3>. QED
      BY <2>2, <2>3, <2>5, <3>1, SizesAssumption DEF WriterHasPartial
  <2>9. OutFinished'
    <3>. SUFFICES ASSUME NEW p \in {link["out"], diskLink["out"]}, p # 0 PROVE Finished(p)'
      BY <2>5 DEF OutFinished
    <3>1. p # i /\ p \in 0..Len(content) /\ Finished(p)
      BY <2>6 DEF OutFinished, Typed
    <3>2. content'[p] = content[p] /\ p \in synced'
      BY <2>4, <2>5, <3>1 DEF Finished
    <3>. QED
      BY <3>1, <3>2 DEF Finished
  <2>. QED
    BY <2>5, <2>6, <2>7, <2>8, <2>9 DEF PathsApart
<1>7. ASSUME NEW b \in Builds, WriteChunk(b) PROVE Shape'
  <2>. DEFINE f == link["partial"]
              n == written[b]
  <2>1. /\ pc[b] = "Write" /\ Running(b) /\ file[b] = f /\ f # 0 /\ n \in 0..Chunks /\ n < Chunks
        /\ content[f] = [x \in 1..n |-> b]
    BY <1>7 DEF WriteChunk, ChunksLeft, Running, WriterHasPartial
  <2>2. \A c \in Builds : c # b => ~Running(c) /\ pc[c] \notin {"Write", "Rename"}
    BY <2>1 DEF OneRuns, Running
  <2>3. /\ content' = [content EXCEPT ![f] = PutAt(@, n + 1, b)]
        /\ written'[b] = n + 1 /\ synced' = synced \ {f}
        /\ UNCHANGED <<pc, file, link, diskLink>>
    BY <1>7, <2>1 DEF WriteChunk, Typed
  <2>4. f \in DOMAIN content
    BY <2>1 DEF Typed
  <2>5. content'[f] = [x \in 1..(n + 1) |-> b]
    BY <2>1, <2>3, <2>4, NextChunk
  <2>6. WriterHasPartial'
    <3>1. n + 1 \in 0..Chunks
      BY <2>1, SizesAssumption
    <3>2. content'[file'[b]] = [x \in 1..written'[b] |-> b]
      BY <2>1, <2>3, <2>5
    <3>3. written'[b] \in 0..Chunks /\ pc'[b] = "Write" /\ file'[b] = link'["partial"] /\ file'[b] # 0
      BY <2>1, <2>3, <3>1
    <3>4. \A c \in Builds : c # b => pc'[c] \notin {"Write", "Rename"}
      BY <2>2, <2>3
    <3>. QED
      BY <3>2, <3>3, <3>4 DEF WriterHasPartial
  <2>7. OutFinished'
    <3>. SUFFICES ASSUME NEW p \in {link["out"], diskLink["out"]}, p # 0 PROVE Finished(p)'
      BY <2>3 DEF OutFinished
    <3>1. p # f /\ Finished(p)
      BY <2>1 DEF OutFinished, PathsApart
    <3>2. content'[p] = content[p] /\ p \in synced'
      BY <2>3, <3>1 DEF Finished
    <3>. QED
      BY <3>1, <3>2 DEF Finished
  <2>. QED
    BY <2>3, <2>6, <2>7 DEF OneRuns, Running, PathsApart
<1>8. ASSUME NEW b \in Builds, SyncAll(b) PROVE Shape'
  <2>1. pc[b] = "Write" /\ Running(b) /\ written[b] = Chunks /\ content[file[b]] = Whole(b)
    <3>1. pc[b] = "Write" /\ ~(written[b] < Chunks)
      BY <1>8 DEF SyncAll, ChunksLeft
    <3>2. written[b] \in 0..Chunks /\ content[file[b]] = [i \in 1..written[b] |-> b]
      BY <3>1 DEF WriterHasPartial
    <3>3. written[b] = Chunks
      BY <3>1, <3>2, SizesAssumption
    <3>. QED
      BY <3>1, <3>2, <3>3 DEF Running, Whole
  <2>2. \A c \in Builds : c # b => ~Running(c) /\ pc[c] \notin {"Write", "Rename"}
    BY <2>1 DEF OneRuns, Running
  <2>3. \A c \in Builds : pc'[c] = IF c = b THEN "Rename" ELSE pc[c]
    BY <1>8 DEF SyncAll, Go, Typed
  <2>4. synced' = synced \cup {file[b]} /\ UNCHANGED <<file, written, link, content, diskLink>>
    BY <1>8 DEF SyncAll
  <2>5. OneRuns' /\ OutFinished' /\ PathsApart'
    BY <2>2, <2>3, <2>4 DEF OneRuns, Running, OutFinished, Finished, PathsApart
  <2>6. WriterHasPartial'
    BY <2>1, <2>2, <2>3, <2>4 DEF WriterHasPartial
  <2>. QED
    BY <2>5, <2>6
<1>9. ASSUME NEW b \in Builds, Commit(b) PROVE Shape'
  <2>. DEFINE f == link["partial"]
  <2>1. /\ pc[b] = "Rename" /\ Running(b) /\ f # 0
        /\ f = file[b] /\ content[f] = Whole(b) /\ f \in synced
    BY <1>9 DEF Commit, Running, WriterHasPartial, PartialPath
  <2>2. \A c \in Builds : ~Running(c)' /\ pc'[c] \notin {"Write", "Rename"}
    BY <1>9, <2>1 DEF Commit, Return, Go, Typed, OneRuns, Running
  <2>3. /\ link'["out"] = f /\ link'["partial"] = 0
        /\ UNCHANGED <<content, diskLink, synced>>
    BY <1>9 DEF Commit, PartialPath, diskVars
  <2>4. OutFinished' /\ PathsApart'
    BY <2>1, <2>3 DEF OutFinished, Finished, PathsApart
  <2>. QED
    BY <2>2, <2>4 DEF OneRuns, WriterHasPartial
<1>10. ASSUME NEW b \in Builds, Drop(b) PROVE Shape'
  <2>1. pc[b] = "Drop" /\ Running(b)
    BY <1>10 DEF Drop, Running
  <2>2. \A c \in Builds : ~Running(c)' /\ pc'[c] \notin {"Write", "Rename"}
    BY <1>10, <2>1 DEF Drop, Go, Typed, OneRuns, Running
  <2>3. link'["out"] = link["out"] /\ link'["partial"] = 0 /\ UNCHANGED <<content, diskLink, synced>>
    BY <1>10 DEF Drop, PartialPath, Typed, diskVars
  <2>4. OutFinished' /\ PathsApart'
    BY <2>3 DEF OutFinished, Finished, PathsApart
  <2>. QED
    BY <2>2, <2>4 DEF OneRuns, WriterHasPartial
<1>11. CASE FlushLinks
  BY <1>11 DEF FlushLinks, processVars, OneRuns, Running, WriterHasPartial, OutFinished,
               PathsApart, Finished
<1>12. CASE PowerLoss
  <2>1. \A c \in Builds : ~Running(c)' /\ pc'[c] \notin {"Write", "Rename"}
    BY <1>12 DEF PowerLoss, Running
  <2>2. link' = diskLink /\ diskLink' = diskLink /\ synced' = DOMAIN content
    BY <1>12 DEF PowerLoss
  <2>3. \A p \in DOMAIN content : p \in synced => content'[p] = content[p]
    BY <1>12 DEF PowerLoss
  <2>4. OutFinished'
    <3>. SUFFICES ASSUME diskLink["out"] # 0 PROVE Finished(diskLink["out"])'
      BY <2>2 DEF OutFinished
    <3>1. Finished(diskLink["out"]) /\ diskLink["out"] \in DOMAIN content
      BY DEF OutFinished, Typed
    <3>. QED
      BY <2>2, <2>3, <3>1 DEF Finished
  <2>. QED
    BY <2>1, <2>2, <2>4 DEF OneRuns, WriterHasPartial, PathsApart
<1>13. CASE UNCHANGED vars
  BY <1>13, <1>a DEF vars, processVars, fsVars, diskVars, Aside, Running
<1>. QED
  BY <1>a, <1>1, <1>2, <1>3, <1>4, <1>5, <1>6, <1>7, <1>8, <1>9, <1>10, <1>11, <1>12, <1>13
     DEF Next, Step

----------------------------------------------------------------------------
(* The inductive invariant. *)
IInv == Typed /\ Paced /\ PartialOwned /\ Alone

(* It holds before anything has run. *)
LEMMA InitIInv == Init => IInv
<1> SUFFICES ASSUME Init PROVE Paced /\ PartialOwned /\ Alone
  BY InitTyped DEF IInv
<1>1. Paced
  BY DEF Init, Paced
<1>2. PartialOwned
  BY DEF Init, PartialOwned
<1>3. OneRuns /\ WriterHasPartial
  BY DEF Init, OneRuns, WriterHasPartial, Running
<1>4. OutFinished
  BY DEF Init, OutFinished, Finished, NoFile
<1>5. PathsApart
  BY DEF Init, PathsApart
<1>. QED
  BY <1>1, <1>2, <1>3, <1>4, <1>5 DEF Alone

(* Every step keeps it. *)
LEMMA StepIInv == IInv /\ [Next]_vars => IInv'
BY StepTyped, StepPaced, StepOwned, StepAlone DEF IInv

(* What the invariant says holds in every state of every behaviour. *)
THEOREM Invariant == Spec => []IInv
BY InitIInv, StepIInv, PTL DEF Spec

(* However many invocations there are, and whatever signals, kills, I/O    *)
(* failures and power losses come, <out> is absent, what it was before, or *)
(* one whole pack, as long as no two invocations have run at once.         *)
THEOREM OutWholeAlways == Spec => []OutIsWholeAlone
<1>1. IInv => OutIsWholeAlone
  BY DEF IInv, Alone, OutFinished, Finished, OutIsWholeAlone, OutIsWhole, Out, NoFile
<1>. QED
  BY <1>1, Invariant, PTL

(* Every way out of `make` cleans up: with no kill and no failed unlink,   *)
(* no <out>.partial is left once every invocation has returned, even when  *)
(* they overlapped.                                                        *)
THEOREM NoPartialLeft == Spec => []PartialCleanedUp
<1>1. IInv => PartialCleanedUp
  BY DEF IInv, PartialOwned, PartialCleanedUp, Running
<1>. QED
  BY <1>1, Invariant, PTL

(* Only a commit makes an exit status Ok. *)
LEMMA OkIsCommit ==
  ASSUME IInv, [Next]_vars, NEW b \in Builds, exit[b] # "Ok", exit'[b] = "Ok"
  PROVE  Commit(b)
<1>. USE DEF IInv, Typed, Return, Bail, fsVars
<1>1. ASSUME NEW c \in Builds, Start(c) \/ Fetched(c) \/ Sigint(c) \/ Kill(c) \/ EndOfFetch(c)
                 \/ Begin(c) \/ OpenPartial(c) \/ WriteChunk(c) \/ SyncAll(c)
                 \/ Drop(c) \/ DropFails(c)
      PROVE  FALSE
  BY <1>1 DEF Start, Fetched, Sigint, Kill, EndOfFetch, Begin, OpenPartial, WriteChunk,
              SyncAll, Drop, DropFails
<1>2. ASSUME NEW c \in Builds, BeginFails(c) \/ AddTileFails(c) \/ OpenFails(c)
                 \/ WriteOrSyncFails(c) \/ CommitFails(c) \/ FetchFails(c)
      PROVE  FALSE
  BY <1>2 DEF BeginFails, AddTileFails, OpenFails, WriteOrSyncFails, CommitFails, FetchFails
<1>3. ASSUME NEW c \in Builds, PollFetch(c) \/ AddTile(c) PROVE FALSE
  BY <1>3 DEF PollFetch, AddTile
<1>4. ASSUME NEW c \in Builds, Commit(c) PROVE c = b
  BY <1>4 DEF Commit
<1>5. CASE FlushLinks \/ PowerLoss \/ UNCHANGED vars
  BY <1>5 DEF FlushLinks, PowerLoss, vars, processVars
<1>. QED
  BY <1>1, <1>2, <1>3, <1>4, <1>5 DEF Next, Step

(* After the commit of b, alone, <out> shows its pack. *)
LEMMA CommitPublishes ==
  ASSUME IInv, ~overlapped, NEW b \in Builds, Commit(b)
  PROVE  Out' = Whole(b) /\ exit[b] # "Ok" /\ exit'[b] = "Ok"
<1>1. /\ pc[b] = "Rename" /\ link["partial"] # NoFile /\ link'["out"] = link["partial"]
      /\ content' = content /\ exit'[b] = "Ok"
  BY DEF Commit, PartialPath, Paths, Return, IInv, Typed
<1>2. content[link["partial"]] = Whole(b) /\ exit[b] = "None"
  BY <1>1 DEF IInv, Alone, WriterHasPartial, Paced
<1>. QED
  BY <1>1, <1>2 DEF Out

(* Exit status 0 means that the pack of this very invocation is at <out>,  *)
(* and whole.                                                              *)
THEOREM SuccessPublishes == Spec => OkMeansPublished
<1>1. IInv /\ [Next]_vars =>
        \A b \in Builds : ~overlapped /\ exit[b] # "Ok" /\ exit'[b] = "Ok" => Out' = Whole(b)
  BY OkIsCommit, CommitPublishes
<1>2. IInv /\ [Next]_vars =>
        [\A b \in Builds : ~overlapped /\ exit[b] # "Ok" /\ exit'[b] = "Ok" => Out' = Whole(b)]_vars
  BY <1>1
<1>. QED
  BY <1>2, Invariant, PTL DEF Spec, OkMeansPublished

(* What <out> shows changes at a success, or when a power loss takes back  *)
(* a rename: writes, truncations and removals go to another inode.         *)
THEOREM OnlySuccessChangesOut == Spec => OutChangesOnSuccess
<1>1. ASSUME IInv, [Next]_vars, ~overlapped, Out' # Out, ~PowerLoss
      PROVE  \E b \in Builds : exit[b] # "Ok" /\ exit'[b] = "Ok"
  <2>. DEFINE Kept == UNCHANGED <<link, content>>
  <2>1. Kept => FALSE
    BY <1>1 DEF Out
  <2>2. WriterHasPartial /\ PathsApart /\ Typed
    BY <1>1 DEF IInv, Alone
  <2>. USE DEF fsVars
  <2>3. ASSUME NEW b \in Builds, Start(b) \/ Fetched(b) \/ Sigint(b) \/ Kill(b) \/ EndOfFetch(b)
                   \/ Begin(b) \/ PollFetch(b) \/ AddTile(b) \/ SyncAll(b) \/ DropFails(b)
        PROVE  Kept
    BY <2>3 DEF Start, Fetched, Sigint, Kill, EndOfFetch, Begin, PollFetch, AddTile, SyncAll,
                DropFails
  <2>4. ASSUME NEW b \in Builds, BeginFails(b) \/ AddTileFails(b) \/ OpenFails(b)
                   \/ WriteOrSyncFails(b) \/ CommitFails(b) \/ FetchFails(b)
        PROVE  Kept
    BY <2>4 DEF BeginFails, AddTileFails, OpenFails, WriteOrSyncFails, CommitFails, FetchFails
  <2>5. ASSUME NEW b \in Builds, OpenPartial(b) PROVE Out' = Out
    <3>. DEFINE i == IF link["partial"] = NoFile THEN Len(content) + 1 ELSE link["partial"]
    <3>1. /\ link' = [link EXCEPT !["partial"] = i]
          /\ content' = [j \in 1..Len(content) \cup {i} |-> IF j = i THEN <<>> ELSE content[j]]
      BY <2>5 DEF OpenPartial, PartialPath
    <3>2. link'["out"] = link["out"] /\ link["out"] \in 0..Len(content) /\ link["out"] # i
      BY <2>2, <3>1 DEF PathsApart, Typed, Paths, NoFile
    <3>3. link["out"] # 0 => content'[link["out"]] = content[link["out"]]
      BY <3>1, <3>2
    <3>. QED
      BY <3>2, <3>3 DEF Out, NoFile
  <2>6. ASSUME NEW b \in Builds, WriteChunk(b) PROVE Out' = Out
    <3>1. link' = link /\ file[b] # link["out"]
      BY <2>2, <2>6 DEF WriteChunk, WriterHasPartial, PathsApart
    <3>2. content'[link["out"]] = content[link["out"]]
      BY <2>6, <3>1 DEF WriteChunk
    <3>. QED
      BY <3>1, <3>2 DEF Out
  <2>7. ASSUME NEW b \in Builds, Commit(b) PROVE exit[b] # "Ok" /\ exit'[b] = "Ok"
    BY <1>1, <2>7, CommitPublishes
  <2>8. ASSUME NEW b \in Builds, Drop(b) PROVE Out' = Out
    BY <2>2, <2>8 DEF Drop, PartialPath, Typed, Paths, Out
  <2>9. CASE FlushLinks \/ UNCHANGED vars
    BY <2>1, <2>9 DEF FlushLinks, vars
  <2>. QED
    BY <1>1, <2>1, <2>3, <2>4, <2>5, <2>6, <2>7, <2>8, <2>9 DEF Next, Step
<1>2. IInv /\ [Next]_vars =>
        [~overlapped /\ Out' # Out =>
           PowerLoss \/ \E b \in Builds : exit[b] # "Ok" /\ exit'[b] = "Ok"]_vars
  BY <1>1
<1>. QED
  BY <1>2, Invariant, PTL DEF Spec, OutChangesOnSuccess

(* A build that has been told to stop with a poll ahead of it, or that has *)
(* ended without success.                                                  *)
Doomed(b) ==
  /\ exit[b] # "Ok"
  /\ (cancel[b] /\ PollAhead(b)) \/ pc[b] \in {"Drop", "Exited", "Killed"}

(* Such a build stays so: no way leads from a poll with the token set to a *)
(* commit.                                                                 *)
LEMMA StaysDoomed ==
  ASSUME IInv, [Next]_vars, NEW b \in Builds, Doomed(b)
  PROVE  Doomed(b)'
<1>. USE DEF IInv, Typed, Return, Bail, Go, Doomed, PollAhead, fsVars
<1>1. ASSUME NEW c \in Builds, Start(c) \/ Kill(c) \/ Fetched(c) \/ EndOfFetch(c)
      PROVE  Doomed(b)'
  BY <1>1, SizesAssumption DEF Start, Kill, Fetched, EndOfFetch
<1>2. ASSUME NEW c \in Builds, Sigint(c) PROVE Doomed(b)'
  BY <1>2 DEF Sigint
<1>3. ASSUME NEW c \in Builds, Begin(c) PROVE Doomed(b)'
  BY <1>3, SizesAssumption DEF Begin, Paced
<1>4. ASSUME NEW c \in Builds, BeginFails(c) \/ AddTileFails(c) \/ OpenFails(c)
                 \/ WriteOrSyncFails(c) \/ CommitFails(c) \/ FetchFails(c)
      PROVE  Doomed(b)'
  BY <1>4 DEF BeginFails, AddTileFails, OpenFails, WriteOrSyncFails, CommitFails, FetchFails
<1>5. ASSUME NEW c \in Builds, PollFetch(c) \/ AddTile(c) PROVE Doomed(b)'
  BY <1>5 DEF PollFetch, AddTile, Cancelled
<1>6. ASSUME NEW c \in Builds, OpenPartial(c) \/ WriteChunk(c) \/ SyncAll(c) PROVE Doomed(b)'
  BY <1>6 DEF OpenPartial, WriteChunk, SyncAll
<1>7. ASSUME NEW c \in Builds, Commit(c) \/ Drop(c) \/ DropFails(c) PROVE Doomed(b)'
  BY <1>7 DEF Commit, Drop, DropFails
<1>8. CASE FlushLinks \/ UNCHANGED vars
  BY <1>8 DEF FlushLinks, vars, processVars
<1>9. CASE PowerLoss
  BY <1>9 DEF PowerLoss
<1>. QED
  BY <1>1, <1>2, <1>3, <1>4, <1>5, <1>6, <1>7, <1>8, <1>9 DEF Next, Step

(* No SIGINT is lost while a poll is still to come: the build that got it  *)
(* never reports success, whatever else fails on its way out.              *)
THEOREM SigintHonoured == Spec => CancelHonoured
<1> SUFFICES ASSUME NEW b \in Builds
             PROVE  Spec => [](cancel[b] /\ PollAhead(b) => [](exit[b] # "Ok"))
  BY DEF CancelHonoured
<1>1. IInv => (cancel[b] /\ PollAhead(b) => Doomed(b))
  BY DEF Doomed, IInv, Paced, PollAhead
<1>2. IInv /\ [Next]_vars /\ Doomed(b) => Doomed(b)'
  BY StaysDoomed
<1>3. Doomed(b) => exit[b] # "Ok"
  BY DEF Doomed
<1>. QED
  BY <1>1, <1>2, <1>3, Invariant, PTL DEF Spec
=============================================================================
