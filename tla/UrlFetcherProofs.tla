-------------------------- MODULE UrlFetcherProofs --------------------------
(***************************************************************************)
(* Proofs about UrlFetcher, for every region, every set of templates and   *)
(* rates, every server and every moment of a SIGINT.                       *)
(*                                                                         *)
(* CancelNoted follows the loop from the tile at which the token was set.  *)
(* Pace is what makes the rate limiter right: the age of last_seen never   *)
(* exceeds the real silence of the host until a 429, and what is left of   *)
(* the sleep makes up for the rest of the interval.                        *)
(*                                                                         *)
(* Newest carries the timestamp through a response that is being read and  *)
(* may still fail.  That its seconds are the calendar's is arithmetic: the *)
(* eras of days_from_civil and the sums over years and months both come to *)
(* 365 days a year and the leap days so far, by induction over the years.  *)
(***************************************************************************)
EXTENDS UrlFetcher, FiniteSums

Fetching == {"Pacing", "Waiting", "Backoff", "Body"}

Typed ==
  /\ setting \in Settings
  /\ pc \in {"Loop", "Done", "Failed", "Cancelled"} \cup Fetching
  /\ tile \in 0..TileCount /\ sigintAt \in Nat
  /\ cancel \in BOOLEAN /\ throttled \in BOOLEAN
  /\ pc \in Fetching => tile < TileCount
  /\ age \in [Hosts -> 0..Long] /\ quiet \in [Hosts -> 0..Long]

CancelNoted ==
  cancel => \/ tile = sigintAt
            \/ tile = sigintAt + 1 /\ pc \in {"Loop", "Cancelled", "Done"}

Pace ==
  /\ pc = "Backoff" => throttled
  /\ ~throttled => \A h \in Hosts : age[h] <= quiet[h]
  /\ pc = "Pacing" => sleep \in Nat /\ (Host # NoHost => age[Host] + sleep >= Interval(Host))

(* The matchers of rate_for tell these hosts apart as the world does. *)
MatchersAgree ==
  \A h \in Hosts \ {NoHost} :
    /\ IsLoopback(h) <=> h \in LocalHosts
    /\ ~IsLoopback(h) => (IsOsmHost(h) <=> h \in OsmHosts)

----------------------------------------------------------------------------
(* rate_for gives an interval that the ages can tell. *)
LEMMA IntervalRange ==
  ASSUME setting \in Settings, NEW h PROVE Interval(h) \in 0..Long
BY SettingsAssumption DEF Interval

(* Where the matchers are right, the rate is the policy's. *)
LEMMA IntervalIsPolicy ==
  ASSUME MatchersAgree, setting \in Settings, NEW h \in Hosts \ {NoHost}
  PROVE  Interval(h) = Policy(h)
BY DEF MatchersAgree, Interval, Policy

(* The host of the next tile is one of the region's hosts. *)
LEMMA HostInHosts ==
  ASSUME setting \in Settings, tile \in 0..TileCount, tile < TileCount
  PROVE  Host \in Hosts
BY CoordsAssumption DEF Host, Hosts, TileCount

(* The loop starts with no token set and every host long silent. *)
LEMMA InitTyped == Init => Typed /\ CancelNoted /\ Pace
<1> SUFFICES ASSUME Init PROVE Typed /\ CancelNoted /\ Pace
  OBVIOUS
<1>1. age \in [Hosts -> 0..Long] /\ quiet \in [Hosts -> 0..Long] /\ age = quiet
  BY SettingsAssumption DEF Init
<1>2. TileCount \in Nat
  BY CoordsAssumption DEF TileCount
<1>3. Typed /\ CancelNoted
  <2>1. setting \in Settings /\ pc = "Loop" /\ tile = 0 /\ sigintAt = 0 /\ ~cancel /\ ~throttled
    BY DEF Init
  <2>2. cancel \in BOOLEAN /\ throttled \in BOOLEAN
    BY DEF Init
  <2>3. tile \in 0..TileCount
    BY <1>2, <2>1
  <2>. QED
    BY <1>1, <2>1, <2>2, <2>3 DEF Typed, CancelNoted, Fetching
<1>4. Pace
  BY <1>1, SettingsAssumption DEF Init, Pace
<1>. QED
  BY <1>3, <1>4

(* What stays the same, the host and its rate with it, while a tile lasts. *)
LEMMA SameHost ==
  ASSUME UNCHANGED <<setting, tile>>
  PROVE  Host' = Host /\ \A h : Interval(h)' = Interval(h)
BY DEF Host, Interval

(* Every step keeps the types. *)
LEMMA StepTyped == Typed /\ [Next]_vars => Typed'
<1> SUFFICES ASSUME Typed, [Next]_vars PROVE Typed'
  OBVIOUS
<1>. USE CoordsAssumption, SettingsAssumption DEF Typed, Fetching, TileCount, ghosts
<1>1. CASE NextTile
  BY <1>1 DEF NextTile
<1>2. CASE EndOfTiles
  BY <1>2 DEF EndOfTiles
<1>3. CASE Issue
  BY <1>3, HostInHosts DEF Issue, Sent
<1>4. CASE Retry
  BY <1>4, HostInHosts DEF Retry, Sent
<1>5. CASE Throttle
  BY <1>5 DEF Throttle
<1>6. CASE Success
  BY <1>6 DEF Success
<1>7. CASE BodyRead
  BY <1>7 DEF BodyRead
<1>8. CASE FetchFails
  BY <1>8 DEF FetchFails
<1>9. CASE Sigint
  BY <1>9 DEF Sigint
<1>10. CASE Tick
  BY <1>10 DEF Tick, Older
<1>11. CASE Finished \/ UNCHANGED vars
  BY <1>11 DEF Finished, vars
<1>. QED
  BY <1>1, <1>2, <1>3, <1>4, <1>5, <1>6, <1>7, <1>8, <1>9, <1>10, <1>11
     DEF Next, Local, Server

(* After the token is set the loop finishes the tile it is at, and polls.  *)
LEMMA StepCancelNoted == Typed /\ CancelNoted /\ [Next]_vars => CancelNoted'
<1> SUFFICES ASSUME Typed, CancelNoted, [Next]_vars PROVE CancelNoted'
  OBVIOUS
<1>. USE DEF Typed, CancelNoted, Fetching, ghosts
<1>1. CASE NextTile \/ EndOfTiles
  BY <1>1 DEF NextTile, EndOfTiles, Poll
<1>2. CASE Issue \/ Retry \/ Throttle \/ Success \/ FetchFails
  BY <1>2 DEF Issue, Retry, Throttle, Success, FetchFails
<1>3. CASE BodyRead
  BY <1>3 DEF BodyRead
<1>4. CASE Sigint
  BY <1>4 DEF Sigint
<1>5. CASE Tick
  BY <1>5 DEF Tick
<1>6. CASE Finished \/ UNCHANGED vars
  BY <1>6 DEF Finished, vars
<1>. QED
  BY <1>1, <1>2, <1>3, <1>4, <1>5, <1>6 DEF Next, Local, Server

(* The sleep and the age of last_seen add up to the interval at every      *)
(* tick, also where the age has reached its cap.                           *)
LEMMA StepPace == Typed /\ Pace /\ [Next]_vars => Pace'
<1> SUFFICES ASSUME Typed, Pace, [Next]_vars PROVE Pace'
  OBVIOUS
<1>. USE DEF Typed, Pace, Fetching, ghosts
<1>1. CASE NextTile
  <2>1. CASE Poll
    BY <1>1, <2>1 DEF NextTile
  <2>2. CASE ~Poll
    <3>1. /\ pc' = "Pacing" /\ sleep' = Delay(Host)
          /\ UNCHANGED <<setting, tile, age, quiet, throttled>>
      BY <1>1, <2>2 DEF NextTile
    <3>2. Host \in Hosts /\ Interval(Host) \in 0..Long /\ age[Host] \in 0..Long
      BY <1>1, HostInHosts, IntervalRange DEF NextTile
    <3>3. Delay(Host) \in Nat /\ (Host # NoHost => age[Host] + Delay(Host) >= Interval(Host))
      BY <3>2, SettingsAssumption DEF Delay
    <3>4. Host' = Host /\ Interval(Host)' = Interval(Host)
      BY <3>1, SameHost
    <3>. QED
      BY <3>1, <3>3, <3>4
  <2>. QED
    BY <2>1, <2>2
<1>2. CASE EndOfTiles \/ Throttle \/ Success \/ BodyRead \/ FetchFails
  BY <1>2 DEF EndOfTiles, Throttle, Success, BodyRead, FetchFails
<1>3. CASE Issue
  BY <1>3, HostInHosts, SettingsAssumption DEF Issue, Sent
<1>4. CASE Retry
  BY <1>4 DEF Retry
<1>5. CASE Sigint
  BY <1>5 DEF Sigint, Host, Interval
<1>6. CASE Tick
  <2>1. UNCHANGED <<setting, pc, tile, throttled>> /\ sleep' = IF sleep > 0 THEN sleep - 1 ELSE 0
    BY <1>6 DEF Tick
  <2>2. \A h \in Hosts : age'[h] = Older(age[h]) /\ quiet'[h] = Older(quiet[h])
    BY <1>6 DEF Tick
  <2>3. ~throttled => \A h \in Hosts : age'[h] <= quiet'[h]
    BY <2>2, SettingsAssumption DEF Older
  <2>4. ASSUME pc = "Pacing", Host # NoHost
        PROVE  age'[Host] + sleep' >= Interval(Host)
    <3>1. Host \in Hosts /\ Interval(Host) \in 0..Long /\ age[Host] \in 0..Long
      BY <2>4, HostInHosts, IntervalRange
    <3>. QED
      BY <2>1, <2>2, <2>4, <3>1, SettingsAssumption DEF Older
  <2>5. Host' = Host /\ Interval(Host)' = Interval(Host)
    BY <2>1, SameHost
  <2>. QED
    BY <2>1, <2>3, <2>4, <2>5
<1>7. CASE Finished \/ UNCHANGED vars
  BY <1>7 DEF Finished, vars, Host, Interval
<1>. QED
  BY <1>1, <1>2, <1>3, <1>4, <1>5, <1>6, <1>7 DEF Next, Local, Server

(* The inductive invariant holds in every state of every behaviour. *)
THEOREM Invariant == Spec => [](Typed /\ CancelNoted /\ Pace)
BY InitTyped, StepTyped, StepCancelNoted, StepPace, PTL DEF Spec

(* After a SIGINT at most one more tile is fetched, for any region and any *)
(* server, however often it answers 429.                                   *)
THEOREM CancelBound == Spec => []CancelWithinOneTile
<1>1. Typed /\ CancelNoted => CancelWithinOneTile
  BY DEF Typed, CancelNoted, CancelWithinOneTile
<1>. QED
  BY <1>1, Invariant, PTL

(* Until a server has answered 429, no host gets two requests closer than  *)
(* its policy allows, provided the matchers know which hosts are local and *)
(* which are OSM's: requests to the other hosts, and sleeps that overrun,  *)
(* cannot break the spacing.                                               *)
THEOREM PolicySpacing == MatchersAgree => (Spec => SpacedUnlessThrottled)
<1> SUFFICES ASSUME MatchersAgree PROVE Spec => SpacedUnlessThrottled
  OBVIOUS
<1>1. Typed /\ Pace /\ ~throttled /\ (Issue \/ Retry) /\ Host # NoHost
        => quiet[Host] >= Policy(Host)
  <2> SUFFICES ASSUME Typed, Pace, ~throttled, Issue \/ Retry, Host # NoHost
               PROVE  quiet[Host] >= Policy(Host)
    OBVIOUS
  <2>1. pc = "Pacing" /\ sleep = 0
    BY DEF Issue, Retry, Pace
  <2>2. Host \in Hosts
    BY <2>1, HostInHosts DEF Typed, Fetching
  <2>3. Interval(Host) \in 0..Long /\ Interval(Host) = Policy(Host)
    BY <2>2, IntervalRange, IntervalIsPolicy DEF Typed
  <2>4. age[Host] \in 0..Long /\ quiet[Host] \in 0..Long
    BY <2>2 DEF Typed
  <2>. QED
    BY <2>1, <2>2, <2>3, <2>4, SettingsAssumption DEF Pace
<1>2. Typed /\ Pace =>
        [~throttled /\ (Issue \/ Retry) /\ Host # NoHost => quiet[Host] >= Policy(Host)]_vars
  BY <1>1
<1>. QED
  BY <1>2, Invariant, PTL DEF SpacedUnlessThrottled

----------------------------------------------------------------------------
(* The calendar *)

(* A sum over 1..n, or over any interval, grows by its last value. *)
LEMMA SumLast ==
  ASSUME NEW a \in Nat, NEW b \in Nat, a <= b, NEW f, \A k \in Nat : f[k] \in Nat
  PROVE  SumFunctionOnSet(f, a..b) = f[b] + SumFunctionOnSet(f, a..(b - 1))
<1>1. IsFiniteSet(a..b) /\ b \in a..b /\ (a..b) \ {b} = a..(b - 1)
  BY FS_Interval
<1>2. \A k \in a..b : f[k] \in Nat
  OBVIOUS
<1>3. SumFunctionOnSet(f, a..b) = f[b] + SumFunctionOnSet(f, (a..b) \ {b})
  BY <1>1, <1>2, SumSplit
<1> QED BY <1>1, <1>3

(* The multiples of k up to n, counted by division. *)
LEMMA Multiples ==
  ASSUME NEW n \in Nat, n > 0
  PROVE  /\ n \div 4 = ((n - 1) \div 4) + IF n % 4 = 0 THEN 1 ELSE 0
         /\ n \div 100 = ((n - 1) \div 100) + IF n % 100 = 0 THEN 1 ELSE 0
         /\ n \div 400 = ((n - 1) \div 400) + IF n % 400 = 0 THEN 1 ELSE 0
<1>1. n \div 4 = ((n - 1) \div 4) + IF n % 4 = 0 THEN 1 ELSE 0
  OBVIOUS
<1>2. n \div 100 = ((n - 1) \div 100) + IF n % 100 = 0 THEN 1 ELSE 0
  OBVIOUS
<1>3. n \div 400 = ((n - 1) \div 400) + IF n % 400 = 0 THEN 1 ELSE 0
  OBVIOUS
<1> QED BY <1>1, <1>2, <1>3

(* A multiple of 400 is one of 100, and a multiple of 100 one of 4. *)
LEMMA Divides ==
  ASSUME NEW n \in Nat PROVE (n % 400 = 0 => n % 100 = 0) /\ (n % 100 = 0 => n % 4 = 0)
OBVIOUS

(* Leap days up to the end of year n. *)
LeapDays(n) == (n \div 4) - (n \div 100) + (n \div 400)

(* A year adds a leap day when it is a leap year. *)
LEMMA OneMoreYear ==
  ASSUME NEW n \in Nat, n > 0
  PROVE  LeapDays(n) = LeapDays(n - 1) + IF LeapYear(n) THEN 1 ELSE 0
<1>1. /\ (n - 1) \div 4 \in Int /\ (n - 1) \div 100 \in Int /\ (n - 1) \div 400 \in Int
  OBVIOUS
<1>2. (n % 400 = 0 => n % 100 = 0) /\ (n % 100 = 0 => n % 4 = 0)
  BY Divides
<1> QED BY <1>1, <1>2, Multiples DEF LeapDays, LeapYear

(* The years in closed form. *)
LEMMA YearsClosed ==
  ASSUME NEW y \in Nat, y >= 1970
  PROVE  DaysBeforeYear(y) = 365 * (y - 1970) + LeapDays(y - 1) - 477
<1>. DEFINE f == [k \in Nat |-> YearDays(k)]
            T == {n \in Nat : DaysBeforeYear(1970 + n) = 365 * n + LeapDays(1969 + n) - 477}
<1>0. \A k \in Nat : f[k] \in Nat /\ f[k] = IF LeapYear(k) THEN 366 ELSE 365
  BY DEF YearDays
<1>1. 0 \in T
  <2>1. 1970..(1970 + 0 - 1) = {}
    OBVIOUS
  <2>2. DaysBeforeYear(1970 + 0) = 0
    BY <2>1, SumEmpty DEF DaysBeforeYear
  <2>3. LeapDays(1969 + 0) = 477
    BY DEF LeapDays
  <2> QED BY <2>2, <2>3
<1>2. ASSUME NEW n \in Nat, n \in T PROVE n + 1 \in T
  <2>1. DaysBeforeYear(1970 + (n + 1)) = f[1970 + n] + DaysBeforeYear(1970 + n)
    <3>1. /\ 1970 + (n + 1) - 1 = 1970 + n /\ 1970 + n \in Nat /\ 1970 \in Nat /\ 1970 <= 1970 + n
      OBVIOUS
    <3>2. SumFunctionOnSet(f, 1970..(1970 + n)) = f[1970 + n] + SumFunctionOnSet(f, 1970..(1970 + n - 1))
      <4> HIDE DEF f
      <4> QED BY <1>0, <3>1, SumLast
    <3> QED BY <3>1, <3>2 DEF DaysBeforeYear
  <2>2. f[1970 + n] = IF LeapYear(1970 + n) THEN 366 ELSE 365
    BY <1>0
  <2>3. LeapDays(1970 + n) = LeapDays(1969 + n) + IF LeapYear(1970 + n) THEN 1 ELSE 0
    <3>1. 1970 + n \in Nat /\ 1970 + n > 0 /\ 1970 + n - 1 = 1969 + n
      OBVIOUS
    <3> QED BY <3>1, OneMoreYear
  <2>4. LeapDays(1969 + n) \in Int /\ 1969 + (n + 1) = 1970 + n
    BY DEF LeapDays
  <2>5. DaysBeforeYear(1970 + n) = 365 * n + LeapDays(1969 + n) - 477
    BY <1>2
  <2> HIDE DEF f
  <2>6. DaysBeforeYear(1970 + (n + 1)) = 365 * (n + 1) + LeapDays(1969 + (n + 1)) - 477
    BY <2>1, <2>2, <2>3, <2>4, <2>5
  <2> QED BY <2>6
<1>3. Nat \subseteq T
  <2> HIDE DEF T
  <2> QED BY <1>1, <1>2, SetInduction
<1>4. y - 1970 \in Nat /\ 1970 + (y - 1970) = y /\ 1969 + (y - 1970) = y - 1
  OBVIOUS
<1>5. y - 1970 \in T
  BY <1>3, <1>4
<1> QED BY <1>4, <1>5

(* The months in closed form. *)
LEMMA MonthsClosed ==
  ASSUME NEW y \in Nat, NEW m \in 1..12
  PROVE  DaysBeforeMonth(y, m) =
           IF m <= 2 THEN 31 * (m - 1)
           ELSE ((153 * (m - 3) + 2) \div 5) + 59 + IF LeapYear(y) THEN 1 ELSE 0
<1>. DEFINE f == [k \in Nat |-> MonthDays(y, k)]
            leap == IF LeapYear(y) THEN 1 ELSE 0
            D(n) == DaysBeforeMonth(y, n)
<1>0. \A k \in Nat : f[k] \in Nat /\ f[k] = MonthDays(y, k)
  BY DEF MonthDays
<1>1. D(1) = 0
  <2>1. 1..(1 - 1) = {}
    OBVIOUS
  <2> QED BY <2>1, SumEmpty DEF DaysBeforeMonth
<1>2. ASSUME NEW n \in 1..11 PROVE D(n + 1) = MonthDays(y, n) + D(n)
  <2>1. n + 1 - 1 = n /\ n \in Nat /\ 1 \in Nat /\ 1 <= n
    OBVIOUS
  <2>2. SumFunctionOnSet(f, 1..n) = f[n] + SumFunctionOnSet(f, 1..(n - 1))
    <3> HIDE DEF f
    <3> QED BY <1>0, <2>1, SumLast
  <2> QED BY <1>0, <2>1, <2>2 DEF DaysBeforeMonth
<1>3. /\ MonthDays(y, 1) = 31 /\ MonthDays(y, 2) = 28 + leap /\ MonthDays(y, 3) = 31
      /\ MonthDays(y, 4) = 30 /\ MonthDays(y, 5) = 31 /\ MonthDays(y, 6) = 30
      /\ MonthDays(y, 7) = 31 /\ MonthDays(y, 8) = 31 /\ MonthDays(y, 9) = 30
      /\ MonthDays(y, 10) = 31 /\ MonthDays(y, 11) = 30
  BY DEF MonthDays
<1>4. leap \in {0, 1}
  OBVIOUS
<1> HIDE DEF leap, D, f
<1>5. D(2) = 31 + D(1) /\ D(3) = 28 + leap + D(2) /\ D(4) = 31 + D(3) /\ D(5) = 30 + D(4)
  <2>1. D(1 + 1) = 31 + D(1) /\ D(2 + 1) = 28 + leap + D(2)
    BY <1>2, <1>3
  <2>2. D(3 + 1) = 31 + D(3) /\ D(4 + 1) = 30 + D(4)
    BY <1>2, <1>3
  <2> QED BY <2>1, <2>2
<1>6. D(6) = 31 + D(5) /\ D(7) = 30 + D(6) /\ D(8) = 31 + D(7) /\ D(9) = 31 + D(8)
  <2>1. D(5 + 1) = 31 + D(5) /\ D(6 + 1) = 30 + D(6)
    BY <1>2, <1>3
  <2>2. D(7 + 1) = 31 + D(7) /\ D(8 + 1) = 31 + D(8)
    BY <1>2, <1>3
  <2> QED BY <2>1, <2>2
<1>7. D(10) = 30 + D(9) /\ D(11) = 31 + D(10) /\ D(12) = 30 + D(11)
  <2>1. D(9 + 1) = 30 + D(9) /\ D(10 + 1) = 31 + D(10) /\ D(11 + 1) = 30 + D(11)
    BY <1>2, <1>3
  <2> QED BY <2>1
<1>8. /\ D(1) = 0 /\ D(2) = 31 /\ D(3) = 59 + leap /\ D(4) = 90 + leap /\ D(5) = 120 + leap
      /\ D(6) = 151 + leap /\ D(7) = 181 + leap /\ D(8) = 212 + leap /\ D(9) = 243 + leap
      /\ D(10) = 273 + leap /\ D(11) = 304 + leap /\ D(12) = 334 + leap
  BY <1>1, <1>4, <1>5, <1>6, <1>7
<1>9. m \in {1, 2, 3, 4, 5, 6, 7, 8, 9, 10, 11, 12}
  OBVIOUS
<1>10. D(m) = IF m <= 2 THEN 31 * (m - 1) ELSE ((153 * (m - 3) + 2) \div 5) + 59 + leap
  BY <1>4, <1>8, <1>9
<1> QED BY <1>10 DEF D, leap

(* The days of the whole years before, as days_from_civil counts them. *)
EraDays(y) ==
  (y \div 400) * 146097
    + ((y - (y \div 400) * 400) * 365 + (y - (y \div 400) * 400) \div 4
         - (y - (y \div 400) * 400) \div 100)

(* The eras of 400 years come to the same as leap days counted one by one. *)
LEMMA ErasClosed ==
  ASSUME NEW y \in Nat
  PROVE  EraDays(y) = 365 * y + LeapDays(y)
<1>. DEFINE era == y \div 400
            yoe == y - era * 400
<1>1. era \in Nat /\ yoe \in Nat /\ yoe = y - era * 400 /\ y = era * 400 + yoe
  OBVIOUS
<1>2. era = y \div 400
  OBVIOUS
<1> HIDE DEF era, yoe
<1>3. y \div 4 = era * 100 + (yoe \div 4) /\ y \div 100 = era * 4 + (yoe \div 100)
  <2>1. (era * 400 + yoe) \div 4 = era * 100 + (yoe \div 4)
    BY <1>1
  <2>2. (era * 400 + yoe) \div 100 = era * 4 + (yoe \div 100)
    BY <1>1
  <2> QED BY <1>1, <2>1, <2>2
<1>4. yoe \div 4 \in Int /\ yoe \div 100 \in Int
  BY <1>1
<1>5. era * 146097 + (yoe * 365 + yoe \div 4 - yoe \div 100) = 365 * y + LeapDays(y)
  BY <1>1, <1>2, <1>3, <1>4 DEF LeapDays
<1>6. EraDays(y) = era * 146097 + (yoe * 365 + yoe \div 4 - yoe \div 100)
  BY DEF EraDays, era, yoe
<1> QED BY <1>5, <1>6

(* days_from_civil counts the days since 1970, for every day it is given.  *)
LEMMA CivilDays ==
  ASSUME NEW y \in Nat, y >= 1970, NEW m \in 1..12, NEW d \in 1..31
  PROVE  DaysFromCivil(y, m, d) = DaysBeforeYear(y) + DaysBeforeMonth(y, m) + d - 1
<1>. DEFINE b == IF m <= 2 THEN y - 1 ELSE y
            doy == (153 * (m + (IF m > 2 THEN -3 ELSE 9)) + 2) \div 5 + d - 1
<1>1. b \in Nat
  OBVIOUS
<1>2. DaysFromCivil(y, m, d) = 365 * b + LeapDays(b) + doy - 719468
  <2>. DEFINE p == (b \div 400) * 146097
              q == (b - (b \div 400) * 400) * 365 + (b - (b \div 400) * 400) \div 4
                     - (b - (b \div 400) * 400) \div 100
  <2>1. DaysFromCivil(y, m, d) = p + (q + doy) - 719468
    BY DEF DaysFromCivil
  <2>2. EraDays(b) = p + q
    <3> HIDE DEF b
    <3> QED BY DEF EraDays
  <2>3. doy \in Int
    OBVIOUS
  <2>4. p \in Int /\ q \in Int
    <3> HIDE DEF b, doy
    <3> QED BY <1>1
  <2> HIDE DEF p, q, b, doy
  <2>5. EraDays(b) = 365 * b + LeapDays(b)
    BY <1>1, ErasClosed
  <2>6. DaysFromCivil(y, m, d) = EraDays(b) + doy - 719468
    BY <2>1, <2>2, <2>3, <2>4
  <2> QED BY <2>5, <2>6
<1>3. DaysBeforeYear(y) = 365 * (y - 1970) + LeapDays(y - 1) - 477
  BY YearsClosed
<1>4. DaysBeforeMonth(y, m) =
        IF m <= 2 THEN 31 * (m - 1)
        ELSE ((153 * (m - 3) + 2) \div 5) + 59 + IF LeapYear(y) THEN 1 ELSE 0
  BY MonthsClosed
<1>5. LeapDays(y) = LeapDays(y - 1) + IF LeapYear(y) THEN 1 ELSE 0
  BY OneMoreYear
<1>6. LeapDays(y) \in Int /\ LeapDays(y - 1) \in Int
  BY DEF LeapDays
<1>7. CASE m <= 2
  <2>1. b = y - 1 /\ doy = ((153 * (m + 9) + 2) \div 5) + d - 1
    BY <1>7
  <2>2. m = 1 \/ m = 2
    BY <1>7
  <2>3. (m = 1 => (153 * (m + 9) + 2) \div 5 = 306) /\ (m = 2 => (153 * (m + 9) + 2) \div 5 = 337)
    OBVIOUS
  <2> HIDE DEF b, doy
  <2> QED BY <1>2, <1>3, <1>4, <1>6, <1>7, <2>1, <2>2, <2>3
<1>8. CASE m > 2
  <2>1. b = y /\ doy = ((153 * (m - 3) + 2) \div 5) + d - 1
    <3>1. b = y
      BY <1>8
    <3>2. m + (IF m > 2 THEN -3 ELSE 9) = m - 3
      BY <1>8
    <3> QED BY <3>1, <3>2
  <2>2. (153 * (m - 3) + 2) \div 5 \in Int
    OBVIOUS
  <2>. DEFINE q == (153 * (m - 3) + 2) \div 5
              leap == IF LeapYear(y) THEN 1 ELSE 0
  <2>3. /\ DaysBeforeMonth(y, m) = q + 59 + leap /\ doy = q + d - 1 /\ q \in Int /\ leap \in Int
        /\ LeapDays(y) = LeapDays(y - 1) + leap
        /\ DaysFromCivil(y, m, d) = 365 * y + LeapDays(y) + doy - 719468
    BY <1>2, <1>4, <1>5, <1>8, <2>1, <2>2
  <2> HIDE DEF b, doy, q, leap
  <2> QED BY <1>3, <1>6, <2>3
<1> QED BY <1>7, <1>8

(* The days before a year, and before a month of it, are natural numbers. *)
LEMMA SumsAreNatural ==
  ASSUME NEW y \in Nat, NEW m \in 1..12
  PROVE  DaysBeforeYear(y) \in Nat /\ DaysBeforeMonth(y, m) \in Nat
<1>. DEFINE f == [k \in Nat |-> YearDays(k)]
            e == [k \in Nat |-> MonthDays(y, k)]
<1>1. (\A k \in Nat : f[k] \in Nat) /\ (\A k \in Nat : e[k] \in Nat)
  BY DEF YearDays, MonthDays
<1>2. /\ IsFiniteSet(1970..(y - 1)) /\ IsFiniteSet(1..(m - 1))
      /\ 1970..(y - 1) \subseteq Nat /\ 1..(m - 1) \subseteq Nat
  BY FS_Interval
<1>3. SumFunctionOnSet(f, 1970..(y - 1)) \in Nat /\ SumFunctionOnSet(e, 1..(m - 1)) \in Nat
  <2> HIDE DEF f, e
  <2> QED BY <1>1, <1>2, SumType
<1> QED BY <1>3 DEF DaysBeforeYear, DaysBeforeMonth

(* A date that is read is read as the calendar has it. *)
LEMMA DateIsCivil ==
  ASSUME NEW d \in [month : Int, day : Int, year : Int, hour : Int, minute : Int, second : Int]
  PROVE  IF InRange(d) THEN ParseHttpDate(d) = SecondsSince1970(d) /\ ParseHttpDate(d) \in Nat
         ELSE ParseHttpDate(d) = Nothing
<1>1. CASE InRange(d)
  <2>1. /\ d.year \in Nat /\ d.year >= 1970 /\ d.month \in 1..12 /\ d.day \in 1..31
        /\ d.hour \in Nat /\ d.minute \in Nat /\ d.second \in Nat
    BY <1>1 DEF InRange
  <2>2. DaysFromCivil(d.year, d.month, d.day)
          = DaysBeforeYear(d.year) + DaysBeforeMonth(d.year, d.month) + d.day - 1
    BY <2>1, CivilDays
  <2>3. ParseHttpDate(d) = SecondsSince1970(d)
    BY <1>1, <2>2 DEF ParseHttpDate, SecondsSince1970
  <2>4. SecondsSince1970(d) \in Nat
    <3>0. ASSUME NEW y \in Nat, NEW m \in 1..12
          PROVE  DaysBeforeYear(y) \in Nat /\ DaysBeforeMonth(y, m) \in Nat
      BY SumsAreNatural
    <3>. DEFINE a == DaysBeforeYear(d.year)
                b == DaysBeforeMonth(d.year, d.month)
    <3>1. a \in Nat /\ b \in Nat
      <4>1. d.year \in Nat /\ d.month \in 1..12
        BY <2>1
      <4>2. DaysBeforeYear(d.year) \in Nat
        BY <3>0, <4>1
      <4>3. DaysBeforeMonth(d.year, d.month) \in Nat
        BY <3>0, <4>1
      <4> QED BY <4>2, <4>3
    <3>2. SecondsSince1970(d)
            = (a + b + d.day - 1) * 86400 + d.hour * 3600 + d.minute * 60 + d.second
      BY DEF SecondsSince1970
    <3>. DEFINE n == a + b + d.day - 1
    <3>3. n \in Nat
      <4> HIDE DEF a, b
      <4> QED BY <2>1, <3>1
    <3> HIDE DEF a, b
    <3>4. SecondsSince1970(d) = n * 86400 + d.hour * 3600 + d.minute * 60 + d.second
      BY <3>2
    <3> HIDE DEF n
    <3> QED BY <2>1, <3>3, <3>4
  <2> QED BY <1>1, <2>3, <2>4
<1>2. CASE ~InRange(d)
  BY <1>2 DEF ParseHttpDate
<1> QED BY <1>1, <1>2

----------------------------------------------------------------------------
(* The timestamp *)

(* The responses whose date has been counted. *)
Seen == kept \cup (IF pc = "Body" THEN {stamp} ELSE {})
Dated(S) == {ParseHttpDate(d) : d \in {k \in S : InRange(k)}}

Newest ==
  /\ Seen \subseteq Stamps
  /\ pc # "Failed" =>
       /\ newest \in Nat
       /\ newest \in Dated(Seen) \cup {0}
       /\ \A d \in Seen : ParseHttpDate(d) <= newest

(* What a date is read as, if it can be read. *)
LEMMA StampIsRead ==
  ASSUME NEW d \in Stamps
  PROVE  IF InRange(d) THEN ParseHttpDate(d) = SecondsSince1970(d) /\ ParseHttpDate(d) \in Nat
         ELSE ParseHttpDate(d) = -1
BY StampsAssumption, DateIsCivil DEF Nothing

(* Nothing has been read at the start. *)
LEMMA InitNewest == Init => Newest
<1> SUFFICES ASSUME Init PROVE Newest
  OBVIOUS
<1>1. pc = "Loop" /\ newest = 0 /\ kept = {}
  BY DEF Init
<1>2. Seen = {}
  BY <1>1 DEF Seen
<1> QED BY <1>1, <1>2 DEF Newest

(* A step that leaves the counted responses and the timestamp alone. *)
LEMMA NewestStays ==
  ASSUME Newest, pc # "Failed", Seen' = Seen, newest' = newest
  PROVE  Newest'
<1>1. newest \in Nat /\ newest \in Dated(Seen) \cup {0} /\ \A d \in Seen : ParseHttpDate(d) <= newest
  BY DEF Newest
<1>2. Dated(Seen)' = Dated(Seen')
  BY DEF Dated
<1>3. Seen \subseteq Stamps
  BY DEF Newest
<1> QED BY <1>1, <1>2, <1>3 DEF Newest

(* Success counts the date it reads; a response whose body then breaks off *)
(* ends the loop with Failed, where no timestamp is promised.              *)
LEMMA StepNewest == Newest /\ [Next]_vars => Newest'
<1> SUFFICES ASSUME Newest, [Next]_vars PROVE Newest'
  OBVIOUS
<1>1. CASE Success
  <2>1. /\ pc = "Waiting" /\ pc' = "Body" /\ stamp' \in Stamps /\ kept' = kept
        /\ newest' = Newer(stamp')
    BY <1>1 DEF Success, ghosts
  <2>2. Seen = kept /\ Seen' = kept \cup {stamp'}
    BY <2>1 DEF Seen
  <2>3. /\ newest \in Nat /\ newest \in Dated(kept) \cup {0}
        /\ \A d \in kept : ParseHttpDate(d) <= newest
        /\ kept \subseteq Stamps
    BY <2>1, <2>2 DEF Newest
  <2>. DEFINE t == ParseHttpDate(stamp')
  <2>4. IF InRange(stamp') THEN t \in Nat ELSE t = -1
    BY <2>1, StampIsRead
  <2>5. \A d \in kept : ParseHttpDate(d) \in Int
    BY <2>3, StampIsRead
  <2>6. newest' = IF t > newest THEN t ELSE newest
    BY <2>1 DEF Newer
  <2>7. Dated(kept) \subseteq Dated(Seen') /\ (InRange(stamp') => t \in Dated(Seen'))
    BY <2>2 DEF Dated
  <2>8. newest' \in Nat /\ newest <= newest' /\ t <= newest' /\ newest' \in Dated(Seen') \cup {0}
    <3> HIDE DEF t
    <3> QED BY <2>3, <2>4, <2>6, <2>7
  <2>9. \A d \in Seen' : ParseHttpDate(d) <= newest'
    BY <2>2, <2>3, <2>5, <2>8
  <2>10. Dated(Seen)' = Dated(Seen')
    BY DEF Dated
  <2> QED BY <2>1, <2>2, <2>3, <2>8, <2>9, <2>10 DEF Newest
<1>2. CASE BodyRead
  <2>1. pc = "Body" /\ pc' = "Loop" /\ kept' = kept \cup {stamp} /\ newest' = newest
    BY <1>2 DEF BodyRead
  <2>2. Seen' = Seen
    BY <2>1 DEF Seen
  <2> QED BY <2>1, <2>2, NewestStays
<1>3. CASE FetchFails
  <2>1. pc' = "Failed" /\ kept' = kept /\ stamp' = stamp
    BY <1>3 DEF FetchFails, ghosts
  <2>2. Seen' \subseteq Seen
    BY <2>1 DEF Seen
  <2> QED BY <2>1, <2>2 DEF Newest
<1>4. CASE NextTile \/ EndOfTiles \/ Issue \/ Retry \/ Throttle
  <2>1. /\ pc \notin {"Body", "Failed"} /\ pc' \notin {"Body", "Failed"}
        /\ kept' = kept /\ newest' = newest
    BY <1>4 DEF NextTile, EndOfTiles, Issue, Retry, Throttle, ghosts
  <2>2. Seen' = Seen
    BY <2>1 DEF Seen
  <2> QED BY <2>1, <2>2, NewestStays
<1>5. CASE Sigint \/ Tick
  <2>1. pc # "Failed" /\ UNCHANGED <<pc, kept, stamp, newest>>
    BY <1>5 DEF Sigint, Tick, Ended
  <2>2. Seen' = Seen
    BY <2>1 DEF Seen
  <2> QED BY <2>1, <2>2, NewestStays
<1>6. CASE Finished \/ UNCHANGED vars
  BY <1>6 DEF Finished, vars, ghosts, Newest, Seen, Dated
<1> QED BY <1>1, <1>2, <1>3, <1>4, <1>5, <1>6 DEF Next, Local, Server

(* When the loop is done, the dates counted are those of the tiles kept. *)
LEMMA NewestIsTimestamp == Newest => TimestampIsNewest
<1> SUFFICES ASSUME Newest, pc = "Done" PROVE TimestampIsNewest
  BY DEF TimestampIsNewest
<1>1. Seen = kept
  BY DEF Seen
<1>2. kept \subseteq Stamps
  BY <1>1 DEF Newest
<1>3. \A d \in kept : InRange(d) => ParseHttpDate(d) = SecondsSince1970(d)
  BY <1>2, StampIsRead
<1>4. {SecondsSince1970(d) : d \in {k \in kept : InRange(k)}} = Dated(kept)
  BY <1>3 DEF Dated
<1>5. newest \in Dated(kept) \cup {0} /\ \A d \in Dated(kept) : d <= newest
  BY <1>1 DEF Newest, Dated
<1> QED BY <1>4, <1>5 DEF TimestampIsNewest

(* The build_timestamp of the pack is the newest Last-Modified among its   *)
(* tiles, as the civil calendar counts seconds, for any region, any answers *)
(* of the server and any years: a failed response never counts.            *)
THEOREM TimestampIsAlwaysNewest == Spec => []TimestampIsNewest
BY InitNewest, StepNewest, NewestIsTimestamp, PTL DEF Spec
=============================================================================
