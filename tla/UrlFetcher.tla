----------------------------- MODULE UrlFetcher -----------------------------
(***************************************************************************)
(* The prefetch loop of `build_url_template`, with the UrlFetcher and the  *)
(* HostRateLimiter it drives: pacing per host, one retry of a 429 after    *)
(* its Retry-After, and the newest Last-Modified, which becomes the pack's *)
(* build_timestamp.  Everything runs in one thread that sleeps; the server *)
(* and the clock are the environment.                                      *)
(*                                                                         *)
(* Time passes in ticks.  An Instant is kept as its age, capped at Long: a *)
(* host never seen before and one seen Long ago are the same to            *)
(* compute_delay.                                                          *)
(***************************************************************************)
EXTENDS HttpTexts

CONSTANTS
  Settings,    \* pairs of a --source template and a --rate-per-sec interval
  NoOverride,  \* the interval of a run without --rate-per-sec
  OsmInterval, \* ticks between requests at RatePerSec::OSM
  OtherInterval, \* and at RatePerSec::UNKNOWN_DEFAULT
  Coords,      \* the tiles of the region, in the order of the loop
  Stamps,      \* Last-Modified values the server may send
  RetryHeaders, \* Retry-After values it may send
  Now,         \* the system clock when one arrives, in seconds
  Fallback,    \* 5 s
  TicksPerSecond,
  LocalHosts, OsmHosts, \* which hosts really are this machine, or OSM's
  Long         \* ages are not told apart beyond this many ticks

TileCount == Len(Coords)
HostOf(template, c) == ExtractHost(UrlFor(template, c))
Hosts == {HostOf(s.template, Coords[k]) : s \in Settings, k \in DOMAIN Coords}

(* The fields of a date are numbers, whatever their size. *)
ASSUME StampsAssumption ==
  Stamps \subseteq
    [month : Int, day : Int, year : Int, hour : Int, minute : Int, second : Int]
ASSUME CoordsAssumption == Coords \in Seq([z : Nat, x : Nat, y : Nat])
ASSUME SettingsAssumption ==
  /\ \A s \in Settings : s.interval \in 0..Long \cup {NoOverride}
  /\ OsmInterval \in 0..Long /\ OtherInterval \in 0..Long /\ Long \in Nat
  /\ LocalHosts \subseteq Hosts /\ OsmHosts \subseteq Hosts

VARIABLES
  setting,   \* the template and the rate override of this run
  pc,        \* where the loop is
  tile,      \* tiles fetched so far
  attempt,   \* requests made for the current tile
  sleep,     \* ticks the current thread::sleep still has to last
  age,       \* age of last_seen, per host
  cancel,    \* the cancel token
  newest,    \* max_last_modified
  stamp,     \* Last-Modified of the response being read
  quiet,     \* ghost: ticks since a host last received a request
  throttled, \* ghost: a 429 has been received
  kept,      \* ghost: the dates of the tiles that will be in the pack
  sigintAt   \* ghost: the value of tile when cancel was set

ghosts == <<quiet, throttled, kept, sigintAt>>
vars == <<setting, pc, tile, attempt, sleep, age, cancel, newest, stamp, ghosts>>

Ended == pc \in {"Done", "Failed", "Cancelled"}
Host == HostOf(setting.template, Coords[tile + 1])

(* rate_for, as the interval: the override wins, loopback is not paced. *)
Interval(h) ==
  CASE setting.interval # NoOverride -> setting.interval
    [] setting.interval = NoOverride /\ IsLoopback(h) -> 0
    [] setting.interval = NoOverride /\ ~IsLoopback(h) /\ IsOsmHost(h) -> OsmInterval
    [] OTHER -> OtherInterval

NoStamp == [month |-> NotANumber, day |-> 0, year |-> 0, hour |-> 0, minute |-> 0, second |-> 0]

Init ==
  /\ setting \in Settings
  /\ pc = "Loop" /\ tile = 0 /\ attempt = 0 /\ sleep = 0
  /\ age = [h \in Hosts |-> Long] /\ quiet = [h \in Hosts |-> Long]
  /\ cancel = FALSE /\ sigintAt = 0
  /\ newest = 0 /\ stamp = NoStamp /\ kept = {} /\ throttled = FALSE

(* compute_delay; a URL without a host is not paced. *)
Delay(h) == IF h = NoHost \/ age[h] >= Interval(h) THEN 0 ELSE Interval(h) - age[h]

(* Mutant: the token is read only before the first tile. *)
PollOnce == cancel /\ tile = 0
Poll == cancel

(* One turn of the loop: check_cancel, then acquire computes its delay. *)
NextTile ==
  /\ pc = "Loop" /\ tile < TileCount
  /\ IF Poll
       THEN pc' = "Cancelled" /\ UNCHANGED <<attempt, sleep>>
       ELSE pc' = "Pacing" /\ attempt' = 1 /\ sleep' = Delay(Host)
  /\ UNCHANGED <<setting, tile, age, cancel, newest, stamp, ghosts>>

EndOfTiles ==
  /\ pc = "Loop" /\ tile = TileCount
  /\ pc' = "Done"
  /\ UNCHANGED <<setting, tile, attempt, sleep, age, cancel, newest, stamp, ghosts>>

Sent == quiet' = [quiet EXCEPT ![Host] = 0]

(* acquire wakes up and records the request that is issued now. *)
Issue ==
  /\ pc = "Pacing" /\ sleep = 0
  /\ age' = [age EXCEPT ![Host] = 0]
  /\ Sent
  /\ pc' = "Waiting"
  /\ UNCHANGED <<setting, tile, attempt, sleep, cancel, newest, stamp, throttled, kept, sigintAt>>

(* A first 429: sleep for its Retry-After, whatever it is. *)
Throttle ==
  /\ pc = "Waiting" /\ attempt = 1
  /\ \E header \in RetryHeaders :
       sleep' = RetryAfter(header, Now, Fallback) * TicksPerSecond
  /\ pc' = "Backoff" /\ throttled' = TRUE
  /\ UNCHANGED <<setting, tile, attempt, age, cancel, newest, stamp, quiet, kept, sigintAt>>

(* Mutant: a 429 is retried as often as it comes. *)
RetryForever ==
  /\ pc = "Backoff" /\ sleep = 0
  /\ Sent
  /\ pc' = "Waiting"
  /\ UNCHANGED <<setting, tile, attempt, sleep, age, cancel, newest, stamp, throttled, kept, sigintAt>>

(* The retry goes straight to issue_request, past the limiter. *)
Retry ==
  /\ pc = "Backoff" /\ sleep = 0
  /\ Sent
  /\ pc' = "Waiting" /\ attempt' = 2
  /\ UNCHANGED <<setting, tile, sleep, age, cancel, newest, stamp, throttled, kept, sigintAt>>

Newer(d) == IF ParseHttpDate(d) > newest THEN ParseHttpDate(d) ELSE newest

(* A 2xx status: its Last-Modified counts before the body is read. *)
Success ==
  /\ pc = "Waiting"
  /\ stamp' \in Stamps
  /\ newest' = Newer(stamp')
  /\ pc' = "Body"
  /\ UNCHANGED <<setting, tile, attempt, sleep, age, cancel, ghosts>>

BodyRead ==
  /\ pc = "Body"
  /\ tile' = tile + 1
  /\ kept' = kept \cup {stamp}
  /\ pc' = "Loop"
  /\ UNCHANGED <<setting, attempt, sleep, age, cancel, newest, stamp, quiet, throttled, sigintAt>>

(* Transport error, a status that is neither 2xx nor a first 429, or a body *)
(* that breaks off.                                                         *)
FetchFails ==
  /\ pc \in {"Waiting", "Body"}
  /\ pc' = "Failed"
  /\ UNCHANGED <<setting, tile, attempt, sleep, age, cancel, newest, stamp, ghosts>>

Sigint ==
  /\ ~Ended /\ ~cancel
  /\ cancel' = TRUE /\ sigintAt' = tile
  /\ UNCHANGED <<setting, pc, tile, attempt, sleep, age, newest, stamp, quiet, throttled, kept>>

Older(t) == IF t < Long THEN t + 1 ELSE Long

Tick ==
  /\ ~Ended
  /\ sleep' = IF sleep > 0 THEN sleep - 1 ELSE 0
  /\ age' = [h \in Hosts |-> Older(age[h])]
  /\ quiet' = [h \in Hosts |-> Older(quiet[h])]
  /\ UNCHANGED <<setting, pc, tile, attempt, cancel, newest, stamp, throttled, kept, sigintAt>>

Finished == Ended /\ UNCHANGED vars

Local == NextTile \/ EndOfTiles \/ Issue \/ Retry
Server == Throttle \/ Success \/ BodyRead \/ FetchFails

Next == Local \/ Server \/ Sigint \/ Tick \/ Finished

(* The thread runs when it can and time passes; the server owes nothing. *)
Spec == Init /\ [][Next]_vars /\ WF_vars(Local) /\ WF_vars(Tick)

----------------------------------------------------------------------------
(* Properties *)

(* As long as no server has answered 429, every request a host receives    *)
(* comes at least the policy's interval after the one before, whatever     *)
(* other hosts were asked in between and however late the sleeps return.   *)
(* Which host is which is taken from the world, not from the matchers.     *)
Policy(h) ==
  CASE setting.interval # NoOverride -> setting.interval
    [] setting.interval = NoOverride /\ h \in LocalHosts -> 0
    [] setting.interval = NoOverride /\ h \in OsmHosts -> OsmInterval
    [] OTHER -> OtherInterval
SpacedUnlessThrottled ==
  [][~throttled /\ (Issue \/ Retry) /\ Host # NoHost => quiet[Host] >= Policy(Host)]_vars

(* The seconds since 1970, counted year by year and month by month; a day  *)
(* past the end of its month falls into the next one.                      *)
LeapYear(y) == y % 4 = 0 /\ (y % 100 # 0 \/ y % 400 = 0)
YearDays(y) == IF LeapYear(y) THEN 366 ELSE 365
MonthDays(y, m) ==
  IF m = 2 THEN (IF LeapYear(y) THEN 29 ELSE 28) ELSE IF m \in {4, 6, 9, 11} THEN 30 ELSE 31
DaysBeforeYear(y) == SumFunctionOnSet([k \in Nat |-> YearDays(k)], 1970..(y - 1))
DaysBeforeMonth(y, m) == SumFunctionOnSet([k \in Nat |-> MonthDays(y, k)], 1..(m - 1))
SecondsSince1970(d) ==
  (DaysBeforeYear(d.year) + DaysBeforeMonth(d.year, d.month) + d.day - 1) * 86400
    + d.hour * 3600 + d.minute * 60 + d.second

(* The timestamp of the pack is the newest date among the tiles that are   *)
(* in it, 0 if none has one it can read; a response that failed does not   *)
(* count, and the calendar is the civil one.                               *)
TimestampIsNewest ==
  pc = "Done" =>
    LET dated == {SecondsSince1970(d) : d \in {k \in kept : InRange(k)}}
    IN newest \in dated \cup {0} /\ \A d \in dated : d <= newest

(* DECISIONS.md C-017: after a SIGINT at most one more tile is fetched. *)
CancelWithinOneTile == cancel => tile <= sigintAt + 1

(* A 429 costs one retry: if every request is answered in the end, the     *)
(* prefetch ends, however often the server says to wait.                   *)
PrefetchEnds == []<>(pc \notin {"Waiting", "Body"}) => <>Ended
=============================================================================
