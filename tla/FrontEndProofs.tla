--------------------------- MODULE FrontEndProofs -------------------------
(***************************************************************************)
(* Proofs about the front ends: the housekeeper, the IMAP session, the        *)
(* ManageSieve session, and the three together.                              *)
(***************************************************************************)
EXTENDS MCFrontEnds, PositionsProofs

-----------------------------------------------------------------------------
(* The housekeeper, for any schedule, start and number of purges.             *)

KeeperSpec == KeeperInit /\ [][KeeperNext]_keeperVars

\* What it has parsed, when it was asleep last, and that it wakes on the hour.
KeeperInv ==
  /\ cron \in Schedules
  /\ cron.day \in 1 .. 7 \cup {Daily} =>
       /\ clock \in Nat /\ began \in Nat /\ before \in Nat /\ purged \in Nat /\ purges \in Nat
       /\ keeper # "refused" => Parses(cron)
       /\ purged <= clock /\ clock <= purged + MaxLate
       /\ purges = 0 => clock = began /\ purged = began
       /\ purges # 0 => purged % 24 = cron.hour
  /\ PurgesInTime

\* Hours and days.
LEMMA DayAndHour ==
  ASSUME NEW t \in Nat
  PROVE  /\ Date(t) \in Nat /\ t % 24 \in 0 .. 23 /\ t = 24 * Date(t) + (t % 24)
         /\ Weekday(t) \in 1 .. 7 /\ \E w \in Nat : Date(t) = 7 * w + Weekday(t) - 1
<1>1. Date(t) \in Nat /\ t % 24 \in 0 .. 23 /\ t = 24 * Date(t) + (t % 24)
  BY DEF Date
<1>2. ASSUME NEW d \in Nat PROVE d % 7 \in 0 .. 6 /\ d \div 7 \in Nat /\ d = 7 * (d \div 7) + (d % 7)
  OBVIOUS
<1>3. Weekday(t) \in 1 .. 7 /\ Date(t) = 7 * (Date(t) \div 7) + Weekday(t) - 1 /\ Date(t) \div 7 \in Nat
  BY <1>1, <1>2 DEF Weekday
<1> QED
  BY <1>1, <1>3

\* The day and the hour that a time is put together from.
LEMMA DayOf ==
  ASSUME NEW t \in Nat, NEW d \in Nat, NEW h \in 0 .. 23, t = 24 * d + h
  PROVE  Date(t) = d /\ t % 24 = h
BY DEF Date

\* The day of the week of the n-th day of a week.
LEMMA WeekdayOf ==
  ASSUME NEW t \in Nat, NEW w \in Nat, NEW n \in 1 .. 7, Date(t) = 7 * w + n - 1
  PROVE  Weekday(t) = n
BY DEF Weekday

\* It starts with a schedule that parses, or not at all.
LEMMA KeeperFirst == KeeperInit => KeeperInv
<1> SUFFICES ASSUME KeeperInit PROVE KeeperInv
  OBVIOUS
<1>1. clock \in Nat /\ began = clock /\ before = clock /\ purged = clock /\ purges = 0 /\ cron \in Schedules
  BY HousekeeperAssumption DEF KeeperInit
<1>2. keeper # "panicked" /\ (keeper # "refused" => Parses(cron))
  BY DEF KeeperInit
<1>3. MaxLate \in Nat
  BY HousekeeperAssumption
<1>4. purged <= clock /\ clock <= purged + MaxLate
  BY <1>1, <1>3
<1>5. purged - before = 0
  BY <1>1
<1>6. PurgesInTime
  BY <1>1, <1>2, <1>5 DEF PurgesInTime
<1> QED
  BY <1>1, <1>2, <1>4, <1>6 DEF KeeperInv

\* When it wakes next: in the future, on the hour, and a week has seven days.
LEMMA NextTime ==
  ASSUME KeeperInv, keeper = "runs", cron.day \in 1 .. 7 \cup {Daily}
  PROVE  /\ TimeOfNext \in Nat /\ TimeOfNext >= clock /\ TimeOfNext % 24 = cron.hour
         /\ \/ Date(TimeOfNext) = Date(clock) /\ TimeOfNext - clock <= 23
            \/ /\ cron.day # Daily /\ Weekday(TimeOfNext) = cron.day /\ 24 * Date(clock) + cron.hour < clock
               /\ TimeOfNext = 24 * Date(clock) + cron.hour + 24 * (7 - Weekday(clock) + cron.day)
            \/ /\ cron.day = Daily /\ 24 * Date(clock) + cron.hour < clock
               /\ TimeOfNext = 24 * Date(clock) + cron.hour + 24
<1>1. cron.hour \in 0 .. 23 /\ clock \in Nat
  BY DEF KeeperInv, Parses
<1>2. /\ Date(clock) \in Nat /\ clock % 24 \in 0 .. 23 /\ clock = 24 * Date(clock) + (clock % 24)
      /\ Weekday(clock) \in 1 .. 7
  BY <1>1, DayAndHour
<1>3. PICK w \in Nat : Date(clock) = 7 * w + Weekday(clock) - 1
  BY <1>1, DayAndHour
<1> DEFINE today == 24 * Date(clock) + cron.hour
<1>4. today \in Nat /\ Date(today) = Date(clock) /\ today % 24 = cron.hour
  <2>1. today \in Nat
    BY <1>1, <1>2
  <2>2. today = 24 * Date(clock) + cron.hour
    OBVIOUS
  <2> HIDE DEF today
  <2> QED
    BY <1>1, <1>2, <2>1, <2>2, DayOf
<1>5. CASE ~(today < clock)
  <2>1. TimeOfNext = today
    BY <1>5 DEF TimeOfNext
  <2>2. today - clock <= 23 /\ today >= clock
    BY <1>1, <1>2, <1>5
  <2> QED
    BY <1>4, <2>1, <2>2
<1>6. CASE today < clock /\ cron.day = Daily
  <2>1. TimeOfNext = 24 * (Date(clock) + 1) + cron.hour /\ TimeOfNext = 24 * Date(clock) + cron.hour + 24
    BY <1>1, <1>2, <1>6 DEF TimeOfNext, DaysAhead
  <2>2. TimeOfNext >= clock
    BY <1>1, <1>2, <2>1
  <2>3. Date(clock) + 1 \in Nat
    BY <1>2
  <2>4. TimeOfNext % 24 = cron.hour
    <3>1. TimeOfNext \in Nat
      BY <1>1, <1>2, <2>1
    <3> QED
      BY <1>1, <2>1, <2>3, <3>1, DayOf
  <2> QED
    BY <1>1, <1>2, <1>6, <2>1, <2>2, <2>4
<1>7. CASE today < clock /\ cron.day # Daily
  <2> DEFINE d == Date(clock) + 7 - Weekday(clock) + cron.day
  <2>0. cron.day \in 1 .. 7
    BY <1>7
  <2>1. TimeOfNext = 24 * Date(clock) + cron.hour + 24 * (7 - Weekday(clock) + cron.day)
    BY <1>7 DEF TimeOfNext, DaysAhead
  <2>2. d \in Nat /\ d = 7 * (w + 1) + cron.day - 1 /\ TimeOfNext = 24 * d + cron.hour
    <3>1. d \in Nat
      BY <1>2, <2>0
    <3>2. d = 7 * (w + 1) + cron.day - 1
      <4>1. ASSUME NEW u \in Nat, NEW a \in Nat, NEW b \in 1 .. 7, NEW c \in 1 .. 7, a = 7 * u + b - 1
            PROVE  a + 7 - b + c = 7 * (u + 1) + c - 1
        BY <4>1
      <4> QED
        BY <1>2, <1>3, <2>0, <4>1
    <3>3. TimeOfNext = 24 * d + cron.hour
      BY <1>1, <1>2, <2>0, <2>1
    <3> QED
      BY <3>1, <3>2, <3>3
  <2>3. d >= Date(clock) + 1
    BY <1>2, <2>0
  <2>4. TimeOfNext >= clock /\ TimeOfNext \in Nat
    BY <1>1, <1>2, <2>2, <2>3
  <2> HIDE DEF d
  <2>5. Date(TimeOfNext) = d /\ TimeOfNext % 24 = cron.hour
    BY <1>1, <2>2, DayOf
  <2>6. w + 1 \in Nat
    OBVIOUS
  <2>7. Weekday(TimeOfNext) = cron.day
    BY <2>0, <2>2, <2>4, <2>5, <2>6, WeekdayOf
  <2> QED
    BY <1>7, <2>1, <2>4, <2>5, <2>7
<1> QED
  BY <1>5, <1>6, <1>7

\* It never wakes in the past, and a purge that ends on the day it began on leaves the
\* next one where it belongs.
LEMMA KeeperStep ==
  ASSUME KeeperInv, [KeeperNext]_keeperVars, MaxLate <= 16 PROVE KeeperInv'
<1>1. CASE \E late \in 0 .. MaxLate : Purge(late)
  <2>1. PICK late \in 0 .. MaxLate : Purge(late)
    BY <1>1
  <2>2. /\ keeper = "runs" /\ TimeOfNext >= clock /\ purges' = purges + 1 /\ before' = purged
        /\ purged' = TimeOfNext /\ clock' = TimeOfNext + late /\ UNCHANGED <<cron, keeper, began>>
    BY <2>1 DEF Purge
  <2> SUFFICES ASSUME cron.day \in 1 .. 7 \cup {Daily} PROVE KeeperInv'
    BY <2>2 DEF KeeperInv, PurgesInTime
  <2>3. /\ cron.hour \in 0 .. 23 /\ clock \in Nat /\ began \in Nat /\ purged \in Nat /\ purges \in Nat /\ MaxLate \in Nat
        /\ cron.day # Daily => cron.hour <= 7
    BY <2>2, HousekeeperAssumption DEF KeeperInv, Parses
  <2>4. TimeOfNext \in Nat /\ TimeOfNext % 24 = cron.hour
    BY <2>2, NextTime
  <2>5. purges' \in Nat /\ purges' # 0 /\ clock' \in Nat /\ purged' <= clock' /\ clock' <= purged' + MaxLate
    BY <2>2, <2>3, <2>4
  <2>6. /\ Date(clock) \in Nat /\ clock % 24 \in 0 .. 23 /\ clock = 24 * Date(clock) + (clock % 24)
        /\ Date(purged) \in Nat /\ purged % 24 \in 0 .. 23 /\ purged = 24 * Date(purged) + (purged % 24)
        /\ Weekday(clock) \in 1 .. 7
    BY <2>3, DayAndHour
  <2>7. purges # 0 => purged % 24 = cron.hour /\ purged <= clock /\ clock <= purged + 16
    BY <2>3 DEF KeeperInv
  <2>8. purges = 0 => clock = began /\ purged = began
    BY DEF KeeperInv
  <2>9. CASE cron.day = Daily
    <3>1. TimeOfNext - purged <= 24
      BY <2>2, <2>3, <2>4, <2>6, <2>7, <2>8, <2>9, NextTime
    <3> QED
      BY <2>2, <2>3, <2>4, <2>5, <2>9, <3>1 DEF KeeperInv, PurgesInTime
  <2>10. CASE cron.day # Daily
    <3>1. Date(clock) = Date(purged)
      BY <2>3, <2>6, <2>7, <2>8, <2>10
    <3>2. Weekday(purged) = cron.day \/ Date(purged) = Date(began)
      BY <2>10 DEF KeeperInv, PurgesInTime
    <3>3. Weekday(TimeOfNext) = cron.day \/ Date(TimeOfNext) = Date(began)
      BY <2>2, <2>10, <3>1, <3>2, NextTime DEF Weekday
    <3>4. TimeOfNext - purged <= 24 * (IF Date(purged) = Date(began) THEN 13 ELSE 7)
      <4>1. CASE Date(TimeOfNext) = Date(clock) /\ TimeOfNext - clock <= 23
        BY <2>2, <2>3, <2>4, <2>6, <2>7, <2>8, <2>10, <3>1, <4>1
      <4>2. CASE /\ 24 * Date(clock) + cron.hour < clock
                 /\ TimeOfNext = 24 * Date(clock) + cron.hour + 24 * (7 - Weekday(clock) + cron.day)
        <5>1. Weekday(clock) = cron.day \/ Date(purged) = Date(began)
          BY <3>1, <3>2 DEF Weekday
        <5>2. 24 * Date(clock) + cron.hour - purged <= 0
          BY <2>3, <2>6, <2>7, <2>8, <3>1, <4>2
        <5>3. cron.day \in 1 .. 7
          BY <2>10
        <5>4. TimeOfNext - purged <= 24 * (7 - Weekday(clock) + cron.day)
          BY <2>3, <2>6, <4>2, <5>2, <5>3
        <5>5. 7 - Weekday(clock) + cron.day <= (IF Date(purged) = Date(began) THEN 13 ELSE 7)
          BY <2>6, <5>1, <5>3
        <5> DEFINE n == 7 - Weekday(clock) + cron.day
                   m == IF Date(purged) = Date(began) THEN 13 ELSE 7
        <5>6. n \in Int /\ m \in Int /\ n <= m /\ TimeOfNext - purged \in Int /\ TimeOfNext - purged <= 24 * n
          BY <2>3, <2>4, <2>6, <5>3, <5>4, <5>5
        <5> HIDE DEF n, m
        <5>7. TimeOfNext - purged <= 24 * m
          BY <5>6
        <5> QED
          BY <5>7 DEF m
      <4> QED
        BY <2>2, <2>10, <4>1, <4>2, NextTime
    <3> QED
      BY <2>2, <2>3, <2>4, <2>5, <2>10, <3>3, <3>4 DEF KeeperInv, PurgesInTime
  <2> QED
    BY <2>9, <2>10
<1>2. CASE KeeperPanics
  BY <1>2, NextTime DEF KeeperInv, KeeperPanics, PurgesInTime, Parses
<1>3. CASE KeeperExits
  BY <1>3 DEF KeeperInv, KeeperExits, PurgesInTime
<1>4. CASE UNCHANGED keeperVars
  BY <1>4 DEF KeeperInv, keeperVars, PurgesInTime, Parses
<1> QED
  BY <1>1, <1>2, <1>3, <1>4 DEF KeeperNext

\* Of any schedule that parses and whenever the server is started, no purge is later than
\* the schedule says and the task does not panic, as long as a purge does not run past
\* midnight: the hour of a weekly schedule is at most 7.
THEOREM PurgesInTimeAlways ==
  ASSUME MaxLate <= 16 PROVE KeeperSpec => []PurgesInTime
<1>1. KeeperInv /\ [KeeperNext]_keeperVars => KeeperInv'
  BY KeeperStep
<1>2. KeeperInv => PurgesInTime
  BY DEF KeeperInv
<1> QED
  BY KeeperFirst, <1>1, <1>2, PTL DEF KeeperSpec

-----------------------------------------------------------------------------
(* The IMAP session, for any commands, bounds and size of the channel.         *)

Cmds == Commands \cup {"Challenge"}
Events == [kind : EventKinds, tag : Nat, by : {"session", "task"}]
TaskRecords == [cmd : Cmds, tags : Seq(Nat)]

\* What TypeOK leaves open: the members of the channel, of the batch and of the tasks.
ImapTyped ==
  /\ TypeOK
  /\ chan \in Seq(Events)
  /\ requests \in Seq([tag : 1..received, cmd : Cmds])
  /\ tasks \subseteq TaskRecords
  /\ \A t \in tasks : \A i \in DOMAIN t.tags : t.tags[i] \in 1..received
  /\ awaiting <= received /\ idle <= received /\ panicked <= received
  /\ batch \in Nat /\ tries \in Nat
  /\ phase # "running" => requests = <<>>

\* A read is a sequence of requests whose tags ascend; the one that waited comes first.
LEMMA LinesAscend ==
  ASSUME ImapTyped, NEW n \in Nat, NEW cmds \in [1..n -> Commands], received + n <= MaxRequests
  PROVE  /\ Lines(cmds) \in Seq([tag : 1..(received + n), cmd : Cmds])
         /\ \A i, j \in DOMAIN Lines(cmds) : i < j => Lines(cmds)[i].tag < Lines(cmds)[j].tag
         /\ \A i \in DOMAIN Lines(cmds) : Lines(cmds)[i].tag = awaiting \/ Lines(cmds)[i].tag > received
         /\ \A i \in DOMAIN Lines(cmds) : Lines(cmds)[i].tag # 0
<1> DEFINE R == [tag : 1..(received + n), cmd : Cmds]
           new == [i \in 1..n |-> Request(received + i, cmds[i])]
<1>1. received \in Nat /\ awaiting \in Nat /\ awaiting <= received /\ DOMAIN cmds = 1..n
  BY SessionBounds DEF ImapTyped, TypeOK
<1>2. new \in Seq(R) /\ Len(new) = n /\ \A i \in 1..n : new[i].tag = received + i
  <2>1. \A i \in 1..n : new[i] = [tag |-> received + i, cmd |-> cmds[i]]
    BY DEF Request
  <2>2. \A i \in 1..n : received + i \in 1..(received + n) /\ cmds[i] \in Cmds
    BY <1>1 DEF Cmds
  <2>3. \A i \in 1..n : new[i] \in R /\ new[i].tag = received + i
    <3> HIDE DEF new
    <3> TAKE i \in 1..n
    <3>1. new[i] = [tag |-> received + i, cmd |-> cmds[i]] /\ received + i \in 1..(received + n) /\ cmds[i] \in Cmds
      BY <2>1, <2>2
    <3>2. [tag |-> received + i, cmd |-> cmds[i]] \in R
      BY <3>1
    <3> QED
      BY <3>1, <3>2
  <2>4. DOMAIN new = 1..n /\ new = [i \in 1..n |-> new[i]]
    OBVIOUS
  <2> HIDE DEF new, R
  <2>5. new \in [1..n -> R]
    BY <2>3, <2>4
  <2> QED
    BY <2>3, <2>5
<1>3. CASE awaiting = 0
  <2>1. Lines(cmds) = <<>> \o new
    BY <1>1, <1>3 DEF Lines
  <2>2. Lines(cmds) = new
    BY <1>2, <2>1
  <2> HIDE DEF new
  <2> QED
    BY <1>1, <1>2, <2>2
<1>4. CASE awaiting # 0
  <2> DEFINE first == Request(awaiting, "Challenge")
  <2>1. first \in R /\ first.tag = awaiting
    BY <1>1, <1>4 DEF Request, Cmds
  <2>2. Lines(cmds) = <<first>> \o new
    BY <1>1, <1>4 DEF Lines
  <2> HIDE DEF new, first
  <2>3. Lines(cmds) \in Seq(R) /\ Len(Lines(cmds)) = n + 1
    BY <1>2, <2>1, <2>2
  <2>4. Lines(cmds)[1].tag = awaiting /\ \A i \in 2..(n + 1) : Lines(cmds)[i].tag = received + (i - 1)
    BY <1>2, <2>1, <2>2
  <2>5. DOMAIN Lines(cmds) = 1..(n + 1)
    BY <2>3
  <2>6. \A i \in DOMAIN Lines(cmds) : i = 1 \/ i \in 2..(n + 1)
    BY <2>5
  <2> HIDE DEF R
  <2>7. \A i, j \in DOMAIN Lines(cmds) : i < j => Lines(cmds)[i].tag < Lines(cmds)[j].tag
    BY <1>1, <2>4, <2>5, <2>6
  <2>8. \A i \in DOMAIN Lines(cmds) : Lines(cmds)[i].tag # 0 /\ (Lines(cmds)[i].tag = awaiting \/ Lines(cmds)[i].tag > received)
    BY <1>1, <1>4, <2>4, <2>5, <2>6
  <2> QED
    BY <2>3, <2>7, <2>8 DEF R
<1> QED
  BY <1>3, <1>4

\* The lines up to one that the receiver refuses.
LEMMA ParsedPrefix ==
  ASSUME NEW R, NEW s \in Seq(R)
  PROVE  \E n \in 0..Len(s) : /\ Parsed(s) \in Seq(R) /\ Len(Parsed(s)) = n
                              /\ \A i \in 1..n : Parsed(s)[i] = s[i]
<1> DEFINE bad == {i \in DOMAIN s : s[i].cmd = "Bad"}
           f == CHOOSE i \in bad : \A j \in bad : i <= j
<1>1. CASE bad = {}
  BY <1>1 DEF Parsed
<1>2. CASE bad # {}
  <2>1. bad \in SUBSET Nat /\ bad \subseteq 1..Len(s)
    OBVIOUS
  <2>2. f \in bad
    BY <1>2, <2>1, LeastNat
  <2>3. Parsed(s) = SubSeq(s, 1, f)
    BY <1>2 DEF Parsed
  <2>4. f \in 1..Len(s)
    BY <2>1, <2>2
  <2> HIDE DEF f
  <2> QED
    BY <2>3, <2>4
<1> QED
  BY <1>1, <1>2

\* A group is a run of requests at the beginning of the batch.
LEMMA GroupBounds ==
  ASSUME NEW R, requests \in Seq(R), requests # <<>>
  PROVE  Group \in 1..Len(requests)
<1> DEFINE ends == {n \in 1..Len(requests) : n < Len(requests) => requests[n + 1].cmd # requests[1].cmd}
<1>1. Len(requests) \in ends /\ ends \in SUBSET Nat
  OBVIOUS
<1>2. PICK n \in ends : \A y \in ends : n <= y
  BY <1>1, LeastNat
<1>3. ASSUME NEW i \in 1..n PROVE requests[i].cmd = requests[1].cmd
  <2>1. CASE i = 1
    BY <2>1
  <2>2. CASE i # 1
    <3>1. i - 1 \in 1..Len(requests) /\ i - 1 < n /\ i - 1 < Len(requests) /\ (i - 1) + 1 = i
      BY <1>2, <2>2
    <3>2. i - 1 \notin ends
      BY <1>2, <3>1
    <3> QED
      BY <3>1, <3>2
  <2> QED
    BY <2>1, <2>2
<1>4. n \in 1..Len(requests) /\ (n < Len(requests) => requests[n + 1].cmd # requests[1].cmd)
  BY <1>2
<1> QED
  BY <1>3, <1>4 DEF Group

\* The requests of a read that run, and those that are refused.
Ran(cmds) ==
  LET parsed == Parsed(Lines(cmds)) IN Picked(parsed, {i \in DOMAIN parsed : IsAllowed(parsed[i].cmd)})
Turned(cmds) ==
  LET parsed == Parsed(Lines(cmds)) IN Picked(parsed, {i \in DOMAIN parsed : ~IsAllowed(parsed[i].cmd)})

Ascending(list) == \A i, j \in DOMAIN list : i < j => list[i].tag < list[j].tag

\* Both have tags that ascend, new ones or the one that waited, and share none.
LEMMA ReadSplits ==
  ASSUME ImapTyped, NEW n \in Nat, NEW cmds \in [1..n -> Commands], received + n <= MaxRequests
  PROVE  /\ Ran(cmds) \in Seq([tag : 1..(received + n), cmd : Cmds]) /\ Ascending(Ran(cmds))
         /\ Turned(cmds) \in Seq([tag : 1..(received + n), cmd : Cmds]) /\ Ascending(Turned(cmds))
         /\ \A i \in DOMAIN Ran(cmds) :
              /\ Ran(cmds)[i].tag = awaiting \/ Ran(cmds)[i].tag > received
              /\ Ran(cmds)[i].tag >= Lines(cmds)[1].tag /\ IsAllowed(Ran(cmds)[i].cmd)
         /\ \A i \in DOMAIN Turned(cmds) : Turned(cmds)[i].tag = awaiting \/ Turned(cmds)[i].tag > received
         /\ \A i \in DOMAIN Ran(cmds), j \in DOMAIN Turned(cmds) : Ran(cmds)[i].tag # Turned(cmds)[j].tag
<1> DEFINE R == [tag : 1..(received + n), cmd : Cmds]
           lines == Lines(cmds)
           parsed == Parsed(lines)
           S == {i \in DOMAIN parsed : IsAllowed(parsed[i].cmd)}
           U == {i \in DOMAIN parsed : ~IsAllowed(parsed[i].cmd)}
<1>1. /\ lines \in Seq(R) /\ Ascending(lines)
      /\ \A i \in DOMAIN lines : lines[i].tag = awaiting \/ lines[i].tag > received
  BY LinesAscend DEF Ascending
<1> HIDE DEF lines, R
<1>2. PICK m \in 0..Len(lines) : parsed \in Seq(R) /\ Len(parsed) = m /\ \A i \in 1..m : parsed[i] = lines[i]
  BY <1>1, ParsedPrefix
<1> HIDE DEF parsed
<1>3. /\ DOMAIN parsed = 1..m /\ DOMAIN lines = 1..Len(lines) /\ 1..m \subseteq DOMAIN lines
      /\ S \subseteq 1..m /\ U \subseteq 1..m /\ S \cap U = {}
  BY <1>1, <1>2
<1>4. Ran(cmds) = Picked(parsed, S) /\ Turned(cmds) = Picked(parsed, U)
  BY DEF Ran, Turned, parsed, lines
<1> HIDE DEF S, U
<1>5. ASSUME NEW V \in SUBSET (1..m)
      PROVE  /\ Picked(parsed, V) \in Seq(R) /\ DOMAIN Picked(parsed, V) = 1..Cardinality(V)
             /\ Ascending(Picked(parsed, V))
             /\ \A i \in DOMAIN Picked(parsed, V) : \E k \in V : Picked(parsed, V)[i] = lines[k]
  <2>1. V \in SUBSET (DOMAIN parsed)
    BY <1>3
  <2>2. /\ Cardinality(V) \in Nat /\ Picked(parsed, V) \in Seq(R) /\ Len(Picked(parsed, V)) = Cardinality(V)
        /\ InOrder(Picked(parsed, V), parsed, V)
    <3>1. parsed \in Seq(R)
      BY <1>2
    <3> QED
      BY <2>1, <3>1, PickedFrom
  <2>3. PICK at \in [1..Cardinality(V) -> V] :
              /\ \A i \in 1..Cardinality(V) : Picked(parsed, V)[i] = parsed[at[i]]
              /\ \A i, j \in 1..Cardinality(V) : i < j => at[i] < at[j]
    BY <2>2 DEF InOrder
  <2>4. DOMAIN Picked(parsed, V) = 1..Cardinality(V)
    BY <2>2
  <2>5. \A i \in 1..Cardinality(V) : at[i] \in V /\ at[i] \in 1..m /\ Picked(parsed, V)[i] = lines[at[i]]
    BY <1>2, <1>3, <2>3
  <2>6. Ascending(Picked(parsed, V))
    BY <1>1, <1>3, <2>3, <2>4, <2>5 DEF Ascending
  <2> QED
    BY <2>2, <2>4, <2>5, <2>6
<1>6a. \A k \in 1..m : lines[k].tag \in Nat
  <2>1. \A k \in 1..m : lines[k] \in R
    BY <1>1, <1>3
  <2>2. received + n \in Nat
    BY SessionBounds DEF ImapTyped, TypeOK
  <2>3. \A x \in R : x.tag \in Nat
    BY <2>2 DEF R
  <2> QED
    BY <2>1, <2>3
<1>6b. \A k, l \in 1..m : k < l => lines[k].tag < lines[l].tag
  BY <1>1, <1>3 DEF Ascending
<1>6. \A k, l \in 1..m : lines[k].tag = lines[l].tag => k = l
  <2> HIDE DEF lines
  <2> SUFFICES ASSUME NEW k \in 1..m, NEW l \in 1..m, lines[k].tag = lines[l].tag, k # l
               PROVE  FALSE
    OBVIOUS
  <2>1. k < l \/ l < k
    OBVIOUS
  <2>2. lines[k].tag \in Nat /\ lines[l].tag \in Nat
    BY <1>6a
  <2>3. lines[k].tag < lines[l].tag \/ lines[l].tag < lines[k].tag
    BY <1>6b, <2>1
  <2> QED
    BY <2>2, <2>3
<1>7. \A k \in 1..m : lines[k].tag >= lines[1].tag
  <2>1. \A k \in 1..m : (k = 1 \/ 1 < k) /\ 1 \in 1..m
    BY <1>2
  <2> QED
    BY <1>1, <1>3, <1>6a, <2>1 DEF Ascending
<1>8. \A i \in DOMAIN Ran(cmds) : \E k \in 1..m : Ran(cmds)[i] = lines[k] /\ k \in S /\ IsAllowed(lines[k].cmd)
  <2>1. S \in SUBSET (1..m) /\ \A k \in S : IsAllowed(lines[k].cmd)
    BY <1>2, <1>3 DEF S
  <2>2. \A i \in DOMAIN Ran(cmds) : \E k \in S : Ran(cmds)[i] = lines[k]
    BY <1>4, <1>5, <2>1
  <2> QED
    BY <2>1, <2>2
<1>9. \A i \in DOMAIN Turned(cmds) : \E k \in 1..m : Turned(cmds)[i] = lines[k] /\ k \in U
  BY <1>3, <1>4, <1>5
<1>10. \A i \in DOMAIN Ran(cmds), j \in DOMAIN Turned(cmds) : Ran(cmds)[i].tag # Turned(cmds)[j].tag
  BY <1>3, <1>6, <1>8, <1>9
<1>11. /\ Ran(cmds) \in Seq(R) /\ Ascending(Ran(cmds)) /\ Turned(cmds) \in Seq(R) /\ Ascending(Turned(cmds))
  <2>1. S \in SUBSET (1..m) /\ U \in SUBSET (1..m)
    BY <1>3
  <2>2. Picked(parsed, S) \in Seq(R) /\ Ascending(Picked(parsed, S))
    BY <1>5, <2>1
  <2>3. Picked(parsed, U) \in Seq(R) /\ Ascending(Picked(parsed, U))
    BY <1>5, <2>1
  <2> QED
    BY <1>4, <2>2, <2>3
<1>12. /\ \A i \in DOMAIN Ran(cmds) :
              /\ Ran(cmds)[i].tag = awaiting \/ Ran(cmds)[i].tag > received
              /\ Ran(cmds)[i].tag >= lines[1].tag /\ IsAllowed(Ran(cmds)[i].cmd)
       /\ \A i \in DOMAIN Turned(cmds) : Turned(cmds)[i].tag = awaiting \/ Turned(cmds)[i].tag > received
  BY <1>1, <1>3, <1>7, <1>8, <1>9
<1> QED
  BY <1>10, <1>11, <1>12 DEF R, lines

\* What a step that ends the connection does to what is still to be answered.
Ended ==
  /\ Drop
  /\ \/ UNCHANGED chan
     \/ Send(<<Bytes(0, "session")>>)
     \/ requests # <<>> /\ Send(<<Bytes(Tag, "session")>>)
     \/ requests # <<>> /\ Send(<<Bytes(Tag, "session"), Bytes(0, "session")>>)
  /\ panicked' = panicked \/ (requests # <<>> /\ panicked' = Tag)
  /\ tries' \in {tries, tries + 1}
  /\ UNCHANGED <<state, failures, isSelect, isTls, enabled, received, batch, tasks, stream, written>>

\* The steps after which the connection is closed.
LEMMA EndedBy ==
  ASSUME \/ GreetFails \/ Hangup \/ Bye \/ Panic \/ Broken \/ HandleLogout \/ RejectedForGood \/ RejectedPanic
         \/ UpgradeFails \/ \E b \in BOOLEAN : AcceptedInVain(b)
  PROVE  Ended
<1>1. CASE GreetFails \/ Hangup \/ UpgradeFails
  BY <1>1 DEF GreetFails, Hangup, UpgradeFails, Ended, writerVars
<1>2. CASE Bye
  BY <1>2 DEF Bye, Ended
<1>3. CASE Panic \/ Broken
  BY <1>3 DEF Panic, Broken, Runs, Ended, writerVars
<1>4. CASE HandleLogout \/ RejectedForGood \/ RejectedPanic
  BY <1>4 DEF HandleLogout, RejectedForGood, RejectedPanic, Runs, Ended
<1>5. CASE \E b \in BOOLEAN : AcceptedInVain(b)
  BY <1>5 DEF AcceptedInVain, Runs, Ended
<1> QED
  BY <1>1, <1>2, <1>3, <1>4, <1>5

\* The handlers that answer themselves.
RepliedTo ==
  /\ phase = "running" /\ requests # <<>> /\ Answered(Tag)
  /\ state' \in States /\ failures' \in 0..MaxFailures /\ isSelect' \in BOOLEAN
  /\ enabled' \subseteq {"CondStore", "QResync"} /\ tries' \in {0, tries, tries + 1}

Replying ==
  \/ Malformed \/ HandleCapability \/ HandleNoop \/ HandleNamespace \/ HandleListRights \/ HandleExpunge
  \/ HandleEnable \/ HandleSelect \/ HandleUnselect \/ HandleClose \/ HandleUnauthenticate
  \/ IdleRefused \/ BadChallenge \/ Accepted \/ Rejected

\* What the handlers that answer themselves have in common.
LEMMA RepliedBy ==
  ASSUME TypeOK, Replying PROVE RepliedTo
<1>1. MaxFailures \in Nat
  BY SessionBounds
<1> USE DEF Runs, RepliedTo, TypeOK, States
<1>2. CASE Malformed \/ IdleRefused \/ BadChallenge
  BY <1>2 DEF Malformed, IdleRefused, BadChallenge
<1>3. CASE HandleCapability \/ HandleNoop \/ HandleNamespace \/ HandleListRights \/ HandleExpunge
  BY <1>3 DEF HandleCapability, HandleNoop, HandleNamespace, HandleListRights, HandleExpunge, Inline
<1>4. CASE HandleEnable
  BY <1>4 DEF HandleEnable
<1>5. CASE HandleSelect
  BY <1>5 DEF HandleSelect
<1>6. CASE HandleUnselect \/ HandleClose
  BY <1>6 DEF HandleUnselect, HandleClose, Leave
<1>7. CASE HandleUnauthenticate
  <2>1. 0 \in 0..MaxFailures
    BY <1>1
  <2> QED
    BY <1>7, <2>1 DEF HandleUnauthenticate
<1>9. CASE Accepted
  BY <1>9 DEF Accepted
<1>8. CASE Rejected
  BY <1>1, <1>8 DEF Rejected
<1> QED
  BY <1>2, <1>3, <1>4, <1>5, <1>6, <1>7, <1>8, <1>9 DEF Replying

\* The channel keeps to its size and carries events only.
LEMMA SendTyped ==
  ASSUME chan \in Seq(Events), NEW es \in Seq(Events), Send(es)
  PROVE  /\ chan' \in Seq(Events) /\ Len(chan') <= Buffer
         /\ \A i \in DOMAIN chan' : chan'[i].kind \in EventKinds
<1>1. chan' = chan \o es /\ Len(chan') = Len(chan) + Len(es)
  BY DEF Send
<1>2. chan' \in Seq(Events) /\ Len(chan') <= Buffer
  BY <1>1 DEF Send
<1>3. \A i \in DOMAIN chan' : chan'[i] \in Events
  BY <1>2
<1> QED
  BY <1>2, <1>3 DEF Events

\* What the session and its tasks send is well formed.
LEMMA EventsTyped ==
  ASSUME NEW tag \in Nat, NEW by \in {"session", "task"}, NEW k \in EventKinds
  PROVE  /\ <<Bytes(tag, by)>> \in Seq(Events) /\ <<Bytes(tag, by), Bytes(0, by)>> \in Seq(Events)
         /\ <<Event(k, tag, by)>> \in Seq(Events) /\ <<Bytes(tag, by), Event(k, 0, by)>> \in Seq(Events)
<1>1. Bytes(tag, by) \in Events /\ Bytes(0, by) \in Events /\ Event(k, tag, by) \in Events /\ Event(k, 0, by) \in Events
  BY DEF Bytes, Event, Events, EventKinds
<1> QED
  BY <1>1

\* The request that runs next.
LEMMA HeadTyped ==
  ASSUME ImapTyped, requests # <<>>
  PROVE  /\ Tag \in 1..received /\ Head(requests).cmd \in Cmds /\ received \in Nat /\ received <= MaxRequests
         /\ Tag \in 0..MaxRequests /\ Tag \in Nat /\ Head(requests) = requests[1] /\ 1 \in DOMAIN requests
         /\ Tail(requests) \in Seq([tag : 1..received, cmd : Cmds]) /\ Len(Tail(requests)) = Len(requests) - 1
         /\ \A i \in 1..(Len(requests) - 1) : Tail(requests)[i] = requests[i + 1]
<1> DEFINE R == [tag : 1..received, cmd : Cmds]
<1>1. requests \in Seq(R) /\ received \in 0..MaxRequests /\ MaxRequests \in Nat
  BY SessionBounds DEF ImapTyped, TypeOK
<1>2. \A x \in R : x.tag \in 1..received /\ x.cmd \in Cmds
  OBVIOUS
<1> HIDE DEF R
<1>3. Head(requests) \in R /\ Head(requests) = requests[1] /\ 1 \in DOMAIN requests
  BY <1>1
<1>4. /\ Tail(requests) \in Seq(R) /\ Len(Tail(requests)) = Len(requests) - 1
      /\ \A i \in 1..(Len(requests) - 1) : Tail(requests)[i] = requests[i + 1]
  BY <1>1
<1>5. Tag \in 1..received /\ Head(requests).cmd \in Cmds
  BY <1>2, <1>3 DEF Tag
<1> QED
  BY <1>1, <1>3, <1>4, <1>5 DEF R

\* A session that was just accepted is typed.
LEMMA ImapTypedFirst == Init => ImapTyped
<1> SUFFICES ASSUME Init PROVE ImapTyped
  OBVIOUS
<1>1. MaxFailures \in Nat /\ MaxRequests \in Nat /\ Buffer \in Nat
  BY SessionBounds, BufferAssumption
<1>2. chan \in Seq(Events) /\ requests \in Seq([tag : 1..received, cmd : Cmds])
  BY DEF Init, WriterInit
<1>3. WriterTypeOK
  BY <1>1 DEF Init, WriterInit, WriterTypeOK, Streams
<1>4. 0 \in 0..MaxRequests /\ 0 \in 0..MaxFailures
  BY <1>1
<1>5. \A i \in DOMAIN requests : requests[i].tag \in Tags
  BY DEF Init
<1>6. TypeOK
  BY <1>3, <1>4, <1>5 DEF Init, TypeOK, States, Phases
<1> QED
  BY <1>2, <1>6 DEF Init, WriterInit, ImapTyped

\* The events that a step adds are well formed, and the rest of the writer is as it was.
ChanTyped == /\ chan' \in Seq(Events) /\ Len(chan') <= Buffer
             /\ \A i \in DOMAIN chan' : chan'[i].kind \in EventKinds
             /\ UNCHANGED <<stream, written>>

\* The writer keeps its types when only the channel changes.
LEMMA WriterKept ==
  ASSUME ImapTyped, ChanTyped PROVE WriterTypeOK'
BY DEF ImapTyped, TypeOK, WriterTypeOK, ChanTyped

\* So does the channel, whatever a session or a task sends.
LEMMA SaysTyped ==
  ASSUME ImapTyped, UNCHANGED <<stream, written>>,
         \/ UNCHANGED chan
         \/ \E tag \in Nat, by \in {"session", "task"}, k \in EventKinds :
              \/ Send(<<Bytes(tag, by)>>) \/ Send(<<Bytes(tag, by), Bytes(0, by)>>) \/ Send(<<Event(k, tag, by)>>)
  PROVE  ChanTyped
<1>1. chan \in Seq(Events)
  BY DEF ImapTyped
<1>2. CASE UNCHANGED chan
  BY <1>2 DEF ImapTyped, TypeOK, WriterTypeOK, ChanTyped
<1>3. ASSUME NEW tag \in Nat, NEW by \in {"session", "task"}, NEW k \in EventKinds,
             \/ Send(<<Bytes(tag, by)>>) \/ Send(<<Bytes(tag, by), Bytes(0, by)>>) \/ Send(<<Event(k, tag, by)>>)
      PROVE  ChanTyped
  <2>1. CASE Send(<<Bytes(tag, by)>>)
    BY <1>1, <2>1, EventsTyped, SendTyped DEF ChanTyped
  <2>2. CASE Send(<<Bytes(tag, by), Bytes(0, by)>>)
    BY <1>1, <2>2, EventsTyped, SendTyped DEF ChanTyped
  <2>3. CASE Send(<<Event(k, tag, by)>>)
    BY <1>1, <2>3, EventsTyped, SendTyped DEF ChanTyped
  <2> QED
    BY <1>3, <2>1, <2>2, <2>3
<1> QED
  BY <1>2, <1>3

\* The tags of a batch.
LEMMA BatchTags ==
  ASSUME NEW n \in Nat, n <= MaxRequests, NEW list \in Seq([tag : 1..n, cmd : Cmds])
  PROVE  \A i \in DOMAIN list : list[i].tag \in Tags /\ list[i].tag \in 1..n
<1> DEFINE R == [tag : 1..n, cmd : Cmds]
<1>1. \A x \in R : x.tag \in 1..n
  OBVIOUS
<1>2. \A i \in DOMAIN list : list[i] \in R
  <2>1. list \in Seq(R)
    OBVIOUS
  <2> HIDE DEF R
  <2> QED
    BY <2>1
<1> HIDE DEF R
<1>3. 1..n \subseteq Tags
  BY SessionBounds DEF Tags
<1> QED
  BY <1>1, <1>2, <1>3

\* The end of the connection keeps the types.
LEMMA EndedTyped == ASSUME ImapTyped, Ended PROVE ImapTyped'
<1>0. 0 \in Nat /\ "session" \in {"session", "task"} /\ "bytes" \in EventKinds
  BY DEF EventKinds
<1>1. ChanTyped
  <2>1. requests # <<>> => Tag \in Nat
    BY HeadTyped
  <2> QED
    BY <1>0, <2>1, SaysTyped DEF Ended
<1>2. WriterTypeOK'
  BY <1>1, WriterKept
<1>3. received \in Nat /\ received <= MaxRequests /\ MaxRequests \in Nat
  BY SessionBounds DEF ImapTyped, TypeOK
<1>4. panicked' \in 0..MaxRequests /\ panicked' <= received
  BY <1>3, HeadTyped DEF Ended, ImapTyped, TypeOK
<1>5. requests' \in Seq([tag : 1..received, cmd : Cmds]) /\ requests' = <<>> /\ phase' \in Phases
  BY DEF Ended, Drop, Phases
<1>6. TypeOK'
  BY <1>2, <1>3, <1>4, <1>5 DEF Ended, Drop, ImapTyped, TypeOK
<1> QED
  BY <1>1, <1>3, <1>4, <1>5, <1>6 DEF Ended, Drop, ImapTyped, ChanTyped

\* So does a handler that answers.
LEMMA RepliedTyped == ASSUME ImapTyped, RepliedTo PROVE ImapTyped'
<1>0. "session" \in {"session", "task"} /\ "bytes" \in EventKinds
  BY DEF EventKinds
<1>1. ChanTyped
  <2>1. Tag \in Nat
    BY HeadTyped DEF RepliedTo
  <2> QED
    BY <1>0, <2>1, SaysTyped DEF RepliedTo, Answered
<1>2. WriterTypeOK'
  BY <1>1, WriterKept
<1>3. received \in Nat /\ received <= MaxRequests /\ MaxRequests \in Nat
  BY SessionBounds DEF ImapTyped, TypeOK
<1>4. requests' \in Seq([tag : 1..received, cmd : Cmds])
  BY HeadTyped DEF RepliedTo, Answered
<1>5. \A i \in DOMAIN requests' : requests'[i].tag \in Tags
  BY <1>3, <1>4, BatchTags
<1>6. TypeOK'
  BY <1>2, <1>5 DEF RepliedTo, Answered, ImapTyped, TypeOK
<1> QED
  BY <1>1, <1>4, <1>6 DEF RepliedTo, Answered, ImapTyped, ChanTyped

\* A step of the session that is neither its end nor an answer of its own.
LEMMA SessionTyped ==
  ASSUME ImapTyped,
         \/ Greet \/ HandleSpawned \/ HandleGrouped \/ HandleIdle \/ AskChallenge
         \/ HandleStartTls \/ AskStream \/ GetStream \/ HandshakeDone \/ EndBatch
  PROVE  ImapTyped'
<1>0. /\ 0 \in Nat /\ "session" \in {"session", "task"} /\ "bytes" \in EventKinds /\ "upgrade" \in EventKinds
      /\ "tls" \in EventKinds /\ "stream" \in EventKinds
  BY DEF EventKinds
<1>1. received \in Nat /\ received <= MaxRequests /\ MaxRequests \in Nat
  BY SessionBounds DEF ImapTyped, TypeOK
<1>2. ASSUME ChanTyped, UNCHANGED <<state, failures, isSelect, enabled, received, batch, panicked, tries>>,
             phase' \in Phases, isTls' \in BOOLEAN,
             requests' \in Seq([tag : 1..received, cmd : Cmds]), phase' # "running" => requests' = <<>>,
             awaiting' \in 0..received, idle' \in 0..received, tasks' \subseteq TaskRecords,
             \A t \in tasks' : t.tags # <<>> /\ \A i \in DOMAIN t.tags : t.tags[i] \in 1..received
      PROVE  ImapTyped'
  <2>1. WriterTypeOK'
    BY <1>2, WriterKept
  <2>2. \A i \in DOMAIN requests' : requests'[i].tag \in Tags
    BY <1>1, <1>2, BatchTags
  <2>3. awaiting' \in 0..MaxRequests /\ idle' \in 0..MaxRequests /\ awaiting' <= received /\ idle' <= received
    BY <1>1, <1>2
  <2>4. TypeOK'
    BY <1>2, <2>1, <2>2, <2>3 DEF ImapTyped, TypeOK
  <2> QED
    BY <1>2, <2>3, <2>4 DEF ImapTyped, ChanTyped
<1>3. /\ requests \in Seq([tag : 1..received, cmd : Cmds]) /\ awaiting \in 0..received /\ idle \in 0..received
      /\ isTls \in BOOLEAN /\ phase \in Phases /\ tasks \subseteq TaskRecords
      /\ \A t \in tasks : t.tags # <<>> /\ \A i \in DOMAIN t.tags : t.tags[i] \in 1..received
  BY <1>1 DEF ImapTyped, TypeOK
<1>4. CASE Greet
  <2>1. ChanTyped
    <3>1. \E k \in EventKinds : Send(<<Event(k, 0, "session")>>)
      BY <1>0, <1>4 DEF Greet
    <3> QED
      BY <1>0, <1>4, <3>1, SaysTyped DEF Greet
  <2>2. phase' \in Phases /\ requests' = <<>>
    BY <1>4 DEF Greet, Phases, ImapTyped
  <2> QED
    BY <1>2, <1>3, <1>4, <2>1, <2>2 DEF Greet
<1>5. CASE HandleStartTls \/ AskStream \/ GetStream \/ HandshakeDone \/ EndBatch
  <2>1. ChanTyped
    <3>1. CASE HandleStartTls
      BY <1>0, <3>1, SaysTyped, HeadTyped DEF HandleStartTls, Runs
    <3>2. CASE AskStream
      BY <1>0, <3>2, SaysTyped DEF AskStream
    <3>3. CASE HandshakeDone
      BY <1>0, <3>3, SaysTyped DEF HandshakeDone
    <3>4. CASE GetStream \/ EndBatch
      BY <3>4, SaysTyped DEF GetStream, EndBatch, writerVars
    <3> QED
      BY <1>5, <3>1, <3>2, <3>3, <3>4
  <2>2. phase' \in Phases /\ requests' = <<>> /\ requests' \in Seq([tag : 1..received, cmd : Cmds]) /\ isTls' \in BOOLEAN
    <3>1. phase' \in Phases /\ isTls' \in BOOLEAN
      BY <1>3, <1>5 DEF HandleStartTls, AskStream, GetStream, HandshakeDone, EndBatch, Phases
    <3>2. requests' = <<>>
      BY <1>5 DEF HandleStartTls, AskStream, GetStream, HandshakeDone, EndBatch, ImapTyped
    <3> QED
      BY <3>1, <3>2
  <2> QED
    BY <1>2, <1>3, <1>5, <2>1, <2>2 DEF HandleStartTls, AskStream, GetStream, HandshakeDone, EndBatch
<1>6. CASE HandleSpawned \/ HandleIdle \/ AskChallenge
  <2>1. requests # <<>> /\ phase = "running" /\ requests' = Tail(requests) /\ phase' = phase
    BY <1>6 DEF HandleSpawned, HandleIdle, AskChallenge, Runs
  <2>2. ChanTyped
    <3>1. CASE HandleSpawned
      BY <3>1, SaysTyped DEF HandleSpawned, writerVars
    <3>2. CASE HandleIdle \/ AskChallenge
      BY <1>0, <3>2, SaysTyped DEF HandleIdle, AskChallenge
    <3> QED
      BY <1>6, <3>1, <3>2
  <2>3. Tag \in 1..received /\ Tag \in 0..received /\ Head(requests).cmd \in Cmds /\ requests' \in Seq([tag : 1..received, cmd : Cmds])
    BY <1>1, <2>1, HeadTyped
  <2>4. ASSUME NEW c \in Cmds
        PROVE  /\ [cmd |-> c, tags |-> <<Tag>>] \in TaskRecords /\ <<Tag>> # <<>>
               /\ \A i \in DOMAIN <<Tag>> : <<Tag>>[i] \in 1..received
    BY <1>1, <2>3 DEF TaskRecords
  <2>5. /\ tasks' \subseteq TaskRecords
        /\ \A t \in tasks' : t.tags # <<>> /\ \A i \in DOMAIN t.tags : t.tags[i] \in 1..received
    <3>1. CASE HandleSpawned
      <4> DEFINE new == [cmd |-> Head(requests).cmd, tags |-> <<Tag>>]
      <4>1. new \in TaskRecords /\ new.tags = <<Tag>>
        BY <2>3, <2>4
      <4>2. tasks' = tasks \cup {new}
        BY <3>1 DEF HandleSpawned
      <4>3. <<Tag>> # <<>> /\ \A i \in DOMAIN <<Tag>> : <<Tag>>[i] \in 1..received
        BY <2>3, <2>4
      <4> HIDE DEF new
      <4> QED
        BY <1>3, <4>1, <4>2, <4>3
    <3>2. CASE HandleIdle
      <4>1. "Idle" \in Cmds
        BY <2>3, <3>2 DEF HandleIdle, Runs
      <4> QED
        BY <1>3, <2>4, <3>2, <4>1 DEF HandleIdle
    <3>3. CASE AskChallenge
      BY <1>3, <3>3 DEF AskChallenge
    <3> QED
      BY <1>6, <3>1, <3>2, <3>3
  <2> QED
    BY <1>2, <1>3, <1>6, <2>1, <2>2, <2>3, <2>5 DEF HandleSpawned, HandleIdle, AskChallenge
<1>7. CASE HandleGrouped
  <2>1. requests # <<>> /\ phase = "running" /\ phase' = phase
    BY <1>7 DEF HandleGrouped, Runs
  <2>2. ChanTyped
    BY <1>7, SaysTyped DEF HandleGrouped, writerVars
  <2>3. Group \in 1..Len(requests) /\ Len(requests) \in Nat
    BY <1>3, <2>1, GroupBounds
  <2>4. requests' \in Seq([tag : 1..received, cmd : Cmds])
    <3> DEFINE R == [tag : 1..received, cmd : Cmds]
    <3>1. requests \in Seq(R) /\ requests' = SubSeq(requests, Group + 1, Len(requests))
      BY <1>3, <1>7 DEF HandleGrouped
    <3> HIDE DEF R
    <3>2. requests' \in Seq(R)
      BY <2>3, <3>1
    <3> QED
      BY <3>2 DEF R
  <2> DEFINE tags == [i \in 1..Group |-> requests[i].tag]
             new == [cmd |-> Head(requests).cmd, tags |-> tags]
  <2>5. \A i \in 1..Group : requests[i].tag \in 1..received /\ requests[i].tag \in Nat
    <3>1. 1..Group \subseteq DOMAIN requests
      BY <1>3, <2>3
    <3>2. \A i \in DOMAIN requests : requests[i].tag \in 1..received
      BY <1>1, <1>3, BatchTags
    <3> QED
      BY <1>1, <3>1, <3>2
  <2>6. tags \in Seq(Nat) /\ tags # <<>> /\ \A i \in DOMAIN tags : tags[i] \in 1..received
    BY <2>3, <2>5
  <2>7. new \in TaskRecords /\ new.tags = tags
    <3> HIDE DEF tags
    <3> QED
      BY <2>1, <2>6, HeadTyped DEF TaskRecords
  <2>8. tasks' = tasks \cup {new}
    BY <1>7 DEF HandleGrouped
  <2> HIDE DEF tags, new
  <2> QED
    BY <1>2, <1>3, <1>7, <2>1, <2>2, <2>4, <2>6, <2>7, <2>8 DEF HandleGrouped
<1> QED
  BY <1>4, <1>5, <1>6, <1>7

Refusals(cmds) == [i \in DOMAIN Turned(cmds) |-> Bytes(Turned(cmds)[i].tag, "session")]

\* The answers to the requests that are refused.
LEMMA RefusalsTyped ==
  ASSUME ImapTyped, NEW n \in Nat, NEW cmds \in [1..n -> Commands], received + n <= MaxRequests
  PROVE  /\ Refusals(cmds) \in Seq(Events) /\ DOMAIN Refusals(cmds) = DOMAIN Turned(cmds)
         /\ \A i \in DOMAIN Turned(cmds) : Refusals(cmds)[i].tag = Turned(cmds)[i].tag
<1>1. received + n \in Nat
  BY SessionBounds DEF ImapTyped, TypeOK
<1>2. Turned(cmds) \in Seq([tag : 1..(received + n), cmd : Cmds])
  BY ReadSplits
<1>3. \A i \in DOMAIN Turned(cmds) : Turned(cmds)[i].tag \in Nat
  BY <1>1, <1>2, BatchTags
<1>4. \A i \in DOMAIN Turned(cmds) :
        Refusals(cmds)[i] = [kind |-> "bytes", tag |-> Turned(cmds)[i].tag, by |-> "session"]
  BY DEF Refusals, Bytes, Event
<1>5. \A i \in DOMAIN Turned(cmds) : Refusals(cmds)[i] \in Events /\ Refusals(cmds)[i].tag = Turned(cmds)[i].tag
  <2> TAKE i \in DOMAIN Turned(cmds)
  <2>1. Turned(cmds)[i].tag \in Nat
    BY <1>3
  <2>2. [kind |-> "bytes", tag |-> Turned(cmds)[i].tag, by |-> "session"] \in Events
    BY <2>1 DEF Events, EventKinds
  <2> QED
    BY <1>4, <2>2
<1>6. Len(Turned(cmds)) \in Nat /\ DOMAIN Turned(cmds) = 1..Len(Turned(cmds))
  BY <1>2
<1>7. DOMAIN Refusals(cmds) = DOMAIN Turned(cmds)
  BY DEF Refusals
<1>8. Refusals(cmds) \in [1..Len(Turned(cmds)) -> Events]
  BY <1>5, <1>6 DEF Refusals
<1> QED
  BY <1>5, <1>6, <1>7, <1>8

\* What Read does, in the terms above.
LEMMA ReadIs ==
  ASSUME NEW n \in Nat, NEW cmds \in [1..n -> Commands], Read(cmds)
  PROVE  /\ phase = "reading" /\ idle = 0 /\ received + n <= MaxRequests /\ received' = received + n
         /\ batch' = Lines(cmds)[1].tag /\ awaiting' = 0
         /\ \/ phase' = "running" /\ requests' = Ran(cmds) /\ (UNCHANGED chan \/ Send(Refusals(cmds)))
            \/ phase' = "closed" /\ UNCHANGED <<requests, chan>>
         /\ UNCHANGED <<state, failures, isSelect, isTls, enabled, tasks, panicked, tries, stream, written, idle>>
<1>1. Len(cmds) = n
  OBVIOUS
<1>2. \/ phase' = "running" /\ requests' = Ran(cmds) /\ UNCHANGED idle /\ (UNCHANGED chan \/ Send(Refusals(cmds)))
      \/ phase' = "closed" /\ UNCHANGED <<requests, idle, chan>>
  BY Zenon DEF Read, Ran, Turned, Refusals
<1> QED
  BY <1>1, <1>2 DEF Read

\* So does a read.
LEMMA ReadTyped ==
  ASSUME ImapTyped, NEW n \in Nat, NEW cmds \in [1..n -> Commands], Read(cmds)
  PROVE  ImapTyped'
<1> DEFINE R == [tag : 1..received', cmd : Cmds]
<1>1. /\ received \in Nat /\ n \in Nat /\ received' = received + n /\ received' \in Nat
      /\ received' <= MaxRequests /\ MaxRequests \in Nat /\ received <= received'
  <2>1. received \in Nat
    BY DEF ImapTyped, TypeOK
  <2>2. MaxRequests \in Nat
    BY SessionBounds
  <2>3. received' = received + n /\ received + n <= MaxRequests
    BY ReadIs
  <2> QED
    BY <2>1, <2>2, <2>3
<1>2. chan' \in Seq(Events) /\ Len(chan') <= Buffer /\ \A i \in DOMAIN chan' : chan'[i].kind \in EventKinds
  <2>1. CASE UNCHANGED chan
    BY <2>1 DEF ImapTyped, TypeOK, WriterTypeOK
  <2>2. CASE Send(Refusals(cmds))
    BY <1>1, <2>2, ReadIs, RefusalsTyped, SendTyped DEF ImapTyped
  <2> QED
    BY <2>1, <2>2, ReadIs
<1>3. WriterTypeOK'
  BY <1>2, ReadIs DEF ImapTyped, TypeOK, WriterTypeOK
<1>4. requests' \in Seq(R) /\ (phase' # "running" => requests' = <<>>)
  <2>1. CASE requests' = Ran(cmds) /\ phase' = "running"
    BY <1>1, <2>1, ReadIs, ReadSplits
  <2>2. CASE UNCHANGED requests
    <3>1. requests = <<>>
      BY ReadIs DEF ImapTyped
    <3> QED
      BY <2>2, <3>1
  <2> QED
    BY <2>1, <2>2, ReadIs
<1>5. \A i \in DOMAIN requests' : requests'[i].tag \in Tags
  BY <1>1, <1>4, BatchTags
<1>6. batch' \in Nat
  <2>1. Lines(cmds) \in Seq([tag : 1..received', cmd : Cmds])
    BY <1>1, ReadIs, LinesAscend
  <2>2. Lines(cmds) # <<>>
    BY DEF Read
  <2>3. 1 \in DOMAIN Lines(cmds)
    <3> HIDE DEF R
    <3> QED
      BY <2>1, <2>2
  <2>4. Lines(cmds)[1].tag \in 1..received'
    BY <1>1, <2>1, <2>3, BatchTags
  <2> QED
    BY <1>1, <2>4, ReadIs
<1>7. phase' \in Phases
  BY ReadIs DEF Phases
<1>8. 1..received \subseteq 1..received'
  BY <1>1
<1>9. idle' \in 0..MaxRequests /\ awaiting' \in 0..MaxRequests /\ received' \in 0..MaxRequests /\ panicked' \in 0..MaxRequests
  BY <1>1, ReadIs DEF ImapTyped, TypeOK
<1>10. TypeOK'
  BY <1>3, <1>5, <1>7, <1>9, ReadIs DEF ImapTyped, TypeOK
<1>11. awaiting' <= received' /\ idle' <= received' /\ panicked' <= received'
  <2>1. awaiting' = 0 /\ idle' = 0 /\ panicked' = panicked
    BY ReadIs
  <2>2. panicked \in 0..MaxRequests /\ panicked <= received
    BY DEF ImapTyped, TypeOK
  <2> QED
    BY <1>1, <2>1, <2>2
<1>12. /\ tasks' \subseteq TaskRecords /\ tries' \in Nat
       /\ \A t \in tasks' : \A i \in DOMAIN t.tags : t.tags[i] \in 1..received'
  BY <1>8, ReadIs DEF ImapTyped
<1> QED
  BY <1>2, <1>4, <1>6, <1>10, <1>11, <1>12 DEF ImapTyped

\* So does a read while idling.
LEMMA ReadIdleTyped ==
  ASSUME ImapTyped, NEW done \in BOOLEAN, NEW more \in 0..1, ReadIdle(done, more)
  PROVE  ImapTyped'
<1>1. /\ received \in Nat /\ received' = received + more /\ received' \in 0..MaxRequests /\ MaxRequests \in Nat
      /\ received <= received' /\ UNCHANGED <<chan, stream, written>>
  BY SessionBounds DEF ReadIdle, ImapTyped, TypeOK, writerVars
<1>2. 1..received \subseteq 1..received'
  BY <1>1
<1>3. WriterTypeOK' /\ requests' = <<>> /\ requests' \in Seq([tag : 1..received', cmd : Cmds])
  BY <1>1 DEF ReadIdle, ImapTyped, TypeOK, WriterTypeOK
<1>4. idle' \in 0..MaxRequests /\ idle' <= received' /\ awaiting' <= received' /\ panicked' <= received'
  <2>1. idle \in 0..MaxRequests /\ awaiting \in 0..MaxRequests /\ panicked \in 0..MaxRequests /\ 0 \in 0..MaxRequests
    BY <1>1 DEF ImapTyped, TypeOK
  <2>2. idle <= received /\ awaiting <= received /\ panicked <= received
    BY DEF ImapTyped
  <2>3. idle' \in {0, idle} /\ awaiting' = awaiting /\ panicked' = panicked
    BY DEF ReadIdle
  <2> QED
    BY <1>1, <2>1, <2>2, <2>3
<1>5. TypeOK'
  BY <1>1, <1>3, <1>4 DEF ReadIdle, ImapTyped, TypeOK
<1> QED
  BY <1>1, <1>2, <1>3, <1>4, <1>5 DEF ReadIdle, ImapTyped

\* The first and the rest of a sequence.
LEMMA TailOf ==
  ASSUME NEW R, NEW s \in Seq(R), s # <<>>
  PROVE  /\ Head(s) = s[1] /\ 1 \in DOMAIN s /\ Len(s) \in Nat /\ Len(s) >= 1
         /\ Tail(s) \in Seq(R) /\ Len(Tail(s)) = Len(s) - 1 /\ DOMAIN Tail(s) = 1..(Len(s) - 1)
         /\ \A i \in 1..(Len(s) - 1) : Tail(s)[i] = s[i + 1] /\ i + 1 \in DOMAIN s
         /\ Len(s) # 1 => Tail(s) # <<>>
<1>1. Head(s) = s[1] /\ 1 \in DOMAIN s /\ Len(s) \in Nat /\ Len(s) >= 1
  OBVIOUS
<1>2. Tail(s) \in Seq(R) /\ Len(Tail(s)) = Len(s) - 1
  OBVIOUS
<1>3. DOMAIN Tail(s) = 1..(Len(s) - 1)
  BY <1>2
<1>4. \A i \in 1..(Len(s) - 1) : Tail(s)[i] = s[i + 1] /\ i + 1 \in DOMAIN s
  OBVIOUS
<1>5. Len(s) # 1 => Tail(s) # <<>>
  BY <1>1, <1>2
<1> QED
  BY <1>1, <1>2, <1>3, <1>4, <1>5

\* So does the answer of a task.
LEMMA TaskTyped ==
  ASSUME ImapTyped, NEW t \in tasks, TaskDone(t) \/ IdleDone(t)
  PROVE  ImapTyped'
<1>0. "task" \in {"session", "task"} /\ "bytes" \in EventKinds
  BY DEF EventKinds
<1>1. /\ t \in TaskRecords /\ t.tags \in Seq(Nat) /\ t.tags # <<>>
      /\ \A i \in DOMAIN t.tags : t.tags[i] \in 1..received
  BY DEF ImapTyped, TypeOK, TaskRecords
<1>2. Head(t.tags) \in Nat
  BY <1>1
<1>3. ChanTyped
  <2>1. UNCHANGED chan \/ Send(<<Bytes(Head(t.tags), "task")>>)
    BY DEF TaskDone, IdleDone
  <2> QED
    BY <1>0, <1>2, <2>1, SaysTyped DEF TaskDone, IdleDone
<1>4. WriterTypeOK'
  BY <1>3, WriterKept
<1>5. ASSUME NEW u \in tasks'
      PROVE  u \in TaskRecords /\ u.tags # <<>> /\ \A i \in DOMAIN u.tags : u.tags[i] \in 1..received
  <2>1. CASE u \in tasks
    BY <2>1 DEF ImapTyped, TypeOK
  <2>2. CASE u \notin tasks
    <3>1. Len(t.tags) # 1 /\ u = [t EXCEPT !.tags = Tail(@)]
      BY <2>2, <1>5 DEF TaskDone, IdleDone
    <3>2. u.tags = Tail(t.tags) /\ u = [cmd |-> t.cmd, tags |-> Tail(t.tags)] /\ t.cmd \in Cmds
      BY <1>1, <3>1 DEF TaskRecords
    <3>3. Tail(t.tags) \in Seq(Nat) /\ Tail(t.tags) # <<>> /\ \A i \in DOMAIN Tail(t.tags) : Tail(t.tags)[i] \in 1..received
      BY <1>1, <3>1, TailOf
    <3> QED
      BY <3>2, <3>3 DEF TaskRecords
  <2> QED
    BY <2>1, <2>2
<1>6. TypeOK'
  BY <1>4, <1>5 DEF TaskDone, IdleDone, ImapTyped, TypeOK
<1> QED
  BY <1>3, <1>5, <1>6 DEF TaskDone, IdleDone, ImapTyped, ChanTyped

\* The writer takes from the channel, and writes answers to requests that were read.
LEMMA WriterTyped ==
  ASSUME chan \in Seq(Events), Len(chan) <= Buffer, stream \in Streams,
         (\E b \in BOOLEAN : WriterStep(b)) \/ WriterFails
  PROVE  /\ chan' \in Seq(Events) /\ Len(chan') <= Buffer /\ stream' \in Streams
         /\ \A i \in DOMAIN chan' : chan'[i].kind \in EventKinds
         /\ \/ written' = written
            \/ chan # <<>> /\ written' = written \cup ({Head(chan).tag} \ {0})
         /\ chan' \in {chan, <<>>} \/ (chan # <<>> /\ chan' = Tail(chan))
<1>1. chan' \in {chan, <<>>} \/ (chan # <<>> /\ chan' = Tail(chan))
  BY DEF WriterStep, WriterTakes, WriterWrites, WriterSwitches, WriterEnds, WriterFails
<1>2. /\ \/ written' = written
         \/ chan # <<>> /\ written' = written \cup ({Head(chan).tag} \ {0})
      /\ stream' \in Streams
  BY DEF WriterStep, WriterTakes, WriterWrites, WriterSwitches, WriterEnds, WriterFails, Took, Streams
<1>3. chan' \in Seq(Events) /\ Len(chan') <= Buffer
  <2>1. CASE chan' = <<>>
    BY <2>1, BufferAssumption
  <2>2. CASE chan # <<>> /\ chan' = Tail(chan)
    <3>1. Tail(chan) \in Seq(Events) /\ Len(Tail(chan)) = Len(chan) - 1 /\ Len(chan) \in Nat
      BY <2>2
    <3> QED
      BY <2>2, <3>1, BufferAssumption
  <2> QED
    BY <1>1, <2>1, <2>2
<1>4. \A i \in DOMAIN chan' : chan'[i] \in Events
  BY <1>3
<1> QED
  BY <1>1, <1>2, <1>3, <1>4 DEF Events

\* So does a step of the writer.
LEMMA WritesTyped == ASSUME ImapTyped, Writes \/ Loses PROVE ImapTyped'
<1>1. /\ chan \in Seq(Events) /\ Len(chan) <= Buffer /\ stream \in Streams /\ written \subseteq Nat
      /\ (\E b \in BOOLEAN : WriterStep(b)) \/ WriterFails
  BY DEF ImapTyped, TypeOK, WriterTypeOK, Writes, Loses, Senders
<1>2. chan # <<>> => Head(chan).tag \in Nat
  <2>1. chan # <<>> => Head(chan) \in Events
    BY <1>1
  <2> QED
    BY <2>1 DEF Events
<1>3. WriterTypeOK' /\ chan' \in Seq(Events)
  BY <1>1, <1>2, WriterTyped DEF WriterTypeOK
<1>4. TypeOK'
  BY <1>3 DEF Writes, Loses, session, ImapTyped, TypeOK
<1> QED
  BY <1>3, <1>4 DEF Writes, Loses, session, ImapTyped

\* Every step of an IMAP session keeps its types.
LEMMA ImapTypedStep == ASSUME ImapTyped, [Next]_imapVars PROVE ImapTyped'
<1>1. CASE UNCHANGED imapVars
  BY <1>1 DEF imapVars, session, writerVars, ImapTyped, TypeOK, WriterTypeOK
<1>2. CASE Environment
  <2>1. ASSUME NEW n \in 0..MaxBatch, NEW cmds \in [1..n -> Commands], Read(cmds) PROVE ImapTyped'
    <3>1. n \in Nat
      BY SessionBounds
    <3> QED
      BY <2>1, <3>1, ReadTyped
  <2>2. ASSUME NEW done \in BOOLEAN, NEW more \in 0..1, ReadIdle(done, more) PROVE ImapTyped'
    BY <2>2, ReadIdleTyped
  <2> QED
    BY <1>2, <2>1, <2>2, SessionTyped, EndedBy, EndedTyped DEF Environment
<1>3. CASE Handle
  <2>1. TypeOK
    BY DEF ImapTyped
  <2> QED
    BY <1>3, <2>1, SessionTyped, EndedBy, EndedTyped, RepliedBy, RepliedTyped DEF Handle, Replying
<1>4. CASE \E t \in tasks : TaskDone(t) \/ IdleDone(t)
  BY <1>4, TaskTyped
<1>5. CASE Writes \/ Loses
  BY <1>5, WritesTyped
<1> QED
  BY <1>1, <1>2, <1>3, <1>4, <1>5 DEF Next

-----------------------------------------------------------------------------
(* AnsweredOnce: who is still to answer a request.                             *)

\* A request waits in the batch, in a task or for its challenge.
Open(x) ==
  \/ \E i \in DOMAIN requests : requests[i].tag = x
  \/ \E t \in tasks : \E i \in DOMAIN t.tags : t.tags[i] = x
  \/ x = awaiting /\ x # 0

\* It waits in one place only.
OpenInv ==
  /\ Ascending(requests)
  /\ \A t \in tasks : \A i, j \in DOMAIN t.tags : t.tags[i] = t.tags[j] => i = j
  /\ \A t, u \in tasks : \A i \in DOMAIN t.tags, j \in DOMAIN u.tags : t.tags[i] = u.tags[j] => t = u
  /\ \A t \in tasks : \A i \in DOMAIN t.tags, k \in DOMAIN requests : t.tags[i] # requests[k].tag
  /\ awaiting # 0 => /\ \A k \in DOMAIN requests : requests[k].tag # awaiting
                     /\ \A t \in tasks : \A i \in DOMAIN t.tags : t.tags[i] # awaiting

\* An answer that was sent or written is the only one, and nobody is to answer again.
SentInv ==
  /\ \A i, j \in DOMAIN chan : chan[i].tag = chan[j].tag /\ chan[i].tag # 0 => i = j
  /\ \A x \in Nat \ {0} : (\E i \in DOMAIN chan : chan[i].tag = x) => ~Open(x) /\ x \notin written /\ x <= received
  /\ \A x \in Nat \ {0} : x \in written => ~Open(x) /\ x <= received
  /\ 0 \notin written

\* The tags of the batch.
LEMMA RequestTags ==
  ASSUME ImapTyped
  PROVE  /\ received \in Nat /\ received <= MaxRequests
         /\ \A i \in DOMAIN requests : requests[i].tag \in 1..received /\ requests[i].tag \in Nat /\ requests[i].tag # 0
<1>1. received \in Nat /\ received <= MaxRequests /\ requests \in Seq([tag : 1..received, cmd : Cmds])
  BY SessionBounds DEF ImapTyped, TypeOK
<1>2. \A i \in DOMAIN requests : requests[i].tag \in 1..received
  BY <1>1, BatchTags
<1> QED
  BY <1>1, <1>2

\* What is open was read.
LEMMA OpenRead ==
  ASSUME ImapTyped, NEW x, Open(x) PROVE x \in 1..received
<1>1. received \in Nat
  BY RequestTags
<1>2. \A i \in DOMAIN requests : requests[i].tag \in 1..received
  BY RequestTags
<1>3. awaiting # 0 => awaiting \in 1..received
  BY <1>1 DEF ImapTyped, TypeOK
<1> QED
  BY <1>2, <1>3 DEF Open, ImapTyped

\* A step that sends the answers es keeps the answers apart, when es are answers to what
\* was open or is new and no longer is.
LEMMA SentStep ==
  ASSUME ImapTyped, SentInv, received' \in Nat, received <= received', written' = written,
         NEW es \in Seq(Events), chan' = chan \o es,
         \A i, j \in DOMAIN es : es[i].tag = es[j].tag /\ es[i].tag # 0 => i = j,
         \A x \in Nat \ {0} : (\E i \in DOMAIN es : es[i].tag = x) =>
           (Open(x) \/ x > received) /\ x <= received' /\ ~Open(x)',
         \A x \in Nat \ {0} : Open(x)' => Open(x) \/ x > received
  PROVE  SentInv'
<1>1. /\ chan \in Seq(Events) /\ chan' \in Seq(Events) /\ Len(chan') = Len(chan) + Len(es)
      /\ received \in Nat /\ written \subseteq Nat
  BY DEF ImapTyped, TypeOK, WriterTypeOK
<1>2. /\ DOMAIN chan = 1..Len(chan) /\ DOMAIN es = 1..Len(es) /\ DOMAIN chan' = 1..(Len(chan) + Len(es))
      /\ Len(chan) \in Nat /\ Len(es) \in Nat
  BY <1>1
<1>3. /\ \A i \in DOMAIN chan : chan'[i] = chan[i]
      /\ \A i \in DOMAIN chan' : i \notin DOMAIN chan => i - Len(chan) \in DOMAIN es /\ chan'[i] = es[i - Len(chan)]
  BY <1>1, <1>2
<1>4. \A e \in Events : e.tag \in Nat
  BY DEF Events
<1>5. (\A i \in DOMAIN chan : chan[i].tag \in Nat) /\ (\A i \in DOMAIN es : es[i].tag \in Nat)
  BY <1>1, <1>4
<1>7. \A i \in DOMAIN chan, k \in DOMAIN es : es[k].tag # 0 => chan[i].tag # es[k].tag
  <2> SUFFICES ASSUME NEW i \in DOMAIN chan, NEW k \in DOMAIN es, NEW x \in Nat \ {0},
                      x = es[k].tag, x = chan[i].tag
               PROVE  FALSE
    BY <1>5
  <2>1. Open(x) \/ x > received
    OBVIOUS
  <2>2. ~Open(x) /\ x <= received
    BY DEF SentInv
  <2> QED
    BY <1>1, <2>1, <2>2
<1>8. \A i, j \in DOMAIN chan' : chan'[i].tag = chan'[j].tag /\ chan'[i].tag # 0 => i = j
  <2> SUFFICES ASSUME NEW i \in DOMAIN chan', NEW j \in DOMAIN chan', chan'[i].tag = chan'[j].tag, chan'[i].tag # 0
               PROVE  i = j
    OBVIOUS
  <2>1. CASE i \in DOMAIN chan /\ j \in DOMAIN chan
    BY <1>3, <2>1 DEF SentInv
  <2>2. CASE i \notin DOMAIN chan /\ j \notin DOMAIN chan
    <3>1. /\ i - Len(chan) \in DOMAIN es /\ chan'[i] = es[i - Len(chan)]
          /\ j - Len(chan) \in DOMAIN es /\ chan'[j] = es[j - Len(chan)]
      BY <1>3, <2>2
    <3>2. i - Len(chan) = j - Len(chan) /\ i \in Nat /\ j \in Nat
      BY <1>2, <3>1
    <3> QED
      BY <1>2, <3>2
  <2>3. CASE i \in DOMAIN chan /\ j \notin DOMAIN chan
    BY <1>3, <1>7, <2>3
  <2>4. CASE i \notin DOMAIN chan /\ j \in DOMAIN chan
    BY <1>3, <1>7, <2>4
  <2> QED
    BY <2>1, <2>2, <2>3, <2>4
<1>9. ASSUME NEW x \in Nat \ {0}, NEW i \in DOMAIN chan', chan'[i].tag = x
      PROVE  ~Open(x)' /\ x \notin written' /\ x <= received'
  <2>1. CASE i \in DOMAIN chan
    <3>1. ~Open(x) /\ x \notin written /\ x <= received
      BY <1>3, <1>9, <2>1 DEF SentInv
    <3> QED
      BY <1>1, <3>1
  <2>2. CASE i \notin DOMAIN chan
    <3>1. \E k \in DOMAIN es : es[k].tag = x
      BY <1>3, <1>9, <2>2
    <3>2. (Open(x) \/ x > received) /\ x <= received' /\ ~Open(x)'
      BY <3>1
    <3>3. x \notin written
      BY <1>1, <3>2 DEF SentInv
    <3> QED
      BY <3>2, <3>3
  <2> QED
    BY <2>1, <2>2
<1>10. ASSUME NEW x \in Nat \ {0}, x \in written' PROVE ~Open(x)' /\ x <= received'
  <2>1. ~Open(x) /\ x <= received
    BY <1>10 DEF SentInv
  <2> QED
    BY <1>1, <2>1
<1>11. 0 \notin written'
  BY DEF SentInv
<1> QED
  BY <1>8, <1>9, <1>10, <1>11 DEF SentInv

\* A step that sends nothing.
LEMMA SilentStep ==
  ASSUME ImapTyped, SentInv, received' \in Nat, received <= received', written' = written, chan' = chan,
         \A x \in Nat \ {0} : Open(x)' => Open(x) \/ x > received
  PROVE  SentInv'
<1>1. received \in Nat
  BY RequestTags
<1>2. \A x \in Nat \ {0} : x <= received /\ ~Open(x) => x <= received' /\ ~Open(x)'
  BY <1>1
<1> QED
  BY <1>2 DEF SentInv

\* The batch loses its first request, or all of them.
LEMMA PopOpen ==
  ASSUME ImapTyped, OpenInv, tasks' = tasks, awaiting' \in {0, awaiting},
         requests' = <<>> \/ (requests # <<>> /\ requests' = Tail(requests)),
         NEW x
  PROVE  OpenInv' /\ (Open(x)' => Open(x)) /\ (requests # <<>> /\ x = Tag => ~Open(x)')
<1>1. CASE requests' = <<>>
  <2>1. OpenInv' /\ (Open(x)' => Open(x))
    BY <1>1 DEF OpenInv, Open, Ascending
  <2>2. ASSUME requests # <<>>, x = Tag PROVE ~Open(x)'
    <3>1. 1 \in DOMAIN requests /\ x = requests[1].tag
      BY <2>2, HeadTyped DEF Tag
    <3> QED
      BY <1>1, <3>1 DEF OpenInv, Open
  <2> QED
    BY <2>1, <2>2
<1>2. CASE requests # <<>> /\ requests' = Tail(requests)
  <2>1. /\ Tag = requests[1].tag /\ 1 \in DOMAIN requests /\ DOMAIN requests' = 1..(Len(requests) - 1) /\ Len(requests) \in Nat
        /\ \A i \in DOMAIN requests' : i + 1 \in DOMAIN requests /\ requests'[i] = requests[i + 1] /\ i \in Nat /\ 1 < i + 1
    BY <1>2, TailOf DEF Tag, ImapTyped
  <2>2. \A i, j \in DOMAIN requests' : i < j => i + 1 < j + 1
    BY <2>1
  <2>3. Ascending(requests)'
    BY <2>1, <2>2 DEF OpenInv, Ascending
  <2>4. \A k \in DOMAIN requests' : \E i \in DOMAIN requests : i # 1 /\ requests'[k] = requests[i]
    BY <2>1
  <2>5. OpenInv' /\ (Open(x)' => Open(x))
    BY <2>3, <2>4 DEF OpenInv, Open
  <2>6. ASSUME x = Tag PROVE ~Open(x)'
    <3>1. \A k \in DOMAIN requests' : requests'[k].tag # x
      <4>1. \A i \in DOMAIN requests : requests[i].tag \in Nat
        BY RequestTags
      <4> QED
        BY <2>1, <2>6, <4>1 DEF OpenInv, Ascending
    <3> QED
      BY <2>1, <2>6, <3>1 DEF OpenInv, Open
  <2> QED
    BY <2>5, <2>6
<1> QED
  BY <1>1, <1>2

\* A task takes over the first n requests of the batch.
LEMMA SpawnOpen ==
  ASSUME ImapTyped, OpenInv, NEW n \in 1..Len(requests), NEW new, tasks' = tasks \cup {new}, awaiting' = awaiting,
         DOMAIN new.tags = 1..n, \A i \in 1..n : new.tags[i] = requests[i].tag,
         requests' = SubSeq(requests, n + 1, Len(requests)), NEW x
  PROVE  OpenInv' /\ (Open(x)' => Open(x))
<1>1. requests \in Seq([tag : 1..received, cmd : Cmds]) /\ Len(requests) \in Nat /\ DOMAIN requests = 1..Len(requests)
  BY DEF ImapTyped
<1>2. /\ DOMAIN requests' = 1..(Len(requests) - n)
      /\ \A i \in DOMAIN requests' : i + n \in DOMAIN requests /\ requests'[i] = requests[i + n] /\ i \in Nat /\ n < i + n
  <2> DEFINE R == [tag : 1..received, cmd : Cmds]
  <2>1. requests \in Seq(R)
    BY <1>1
  <2> HIDE DEF R
  <2>2. Len(requests') = Len(requests) - n /\ requests' \in Seq(R)
    BY <2>1
  <2>3. DOMAIN requests' = 1..(Len(requests) - n)
    BY <2>2
  <2>4. \A i \in 1..(Len(requests) - n) : requests'[i] = requests[i + n] /\ i + n \in DOMAIN requests /\ n < i + n
    BY <1>1, <2>1
  <2> QED
    BY <2>3, <2>4
<1>3. \A i \in DOMAIN requests : requests[i].tag \in Nat
  BY RequestTags
<1>4. \A i, j \in DOMAIN requests : requests[i].tag = requests[j].tag => i = j
  <2>1. \A i, j \in DOMAIN requests : i = j \/ i < j \/ j < i
    BY <1>1
  <2> QED
    BY <1>3, <2>1 DEF OpenInv, Ascending
<1>5. Ascending(requests)'
  <2>1. \A i, j \in DOMAIN requests' : i < j => i + n < j + n
    BY <1>2
  <2> QED
    BY <1>2, <2>1 DEF OpenInv, Ascending
<1>6. \A i \in 1..n : i \in DOMAIN requests /\ i <= n
  BY <1>1
<1>7. \A k \in DOMAIN requests' : \E i \in DOMAIN requests : ~(i <= n) /\ requests'[k] = requests[i]
  BY <1>2
<1>8. \A i \in DOMAIN new.tags : \E k \in DOMAIN requests : k = i /\ k <= n /\ new.tags[i] = requests[k].tag
  BY <1>6
<1>9. \A t \in tasks : \A i \in DOMAIN t.tags, j \in DOMAIN new.tags : t.tags[i] # new.tags[j]
  BY <1>8 DEF OpenInv
<1>10. \A i, j \in DOMAIN new.tags : new.tags[i] = new.tags[j] => i = j
  BY <1>4, <1>8
<1>11. \A i \in DOMAIN new.tags, k \in DOMAIN requests' : new.tags[i] # requests'[k].tag
  BY <1>4, <1>7, <1>8
<1>12. awaiting # 0 => \A i \in DOMAIN new.tags : new.tags[i] # awaiting
  BY <1>8 DEF OpenInv
<1>13. OpenInv'
  <2>1. \A t \in tasks' : \A i, j \in DOMAIN t.tags : t.tags[i] = t.tags[j] => i = j
    BY <1>10 DEF OpenInv
  <2>2. \A t, u \in tasks' : \A i \in DOMAIN t.tags, j \in DOMAIN u.tags : t.tags[i] = u.tags[j] => t = u
    BY <1>9 DEF OpenInv
  <2>3. \A t \in tasks' : \A i \in DOMAIN t.tags, k \in DOMAIN requests' : t.tags[i] # requests'[k].tag
    <3> TAKE t \in tasks'
    <3> TAKE i \in DOMAIN t.tags, k \in DOMAIN requests'
    <3>1. CASE t = new
      BY <1>11, <3>1
    <3>2. CASE t \in tasks
      BY <1>7, <3>2 DEF OpenInv
    <3> QED
      BY <3>1, <3>2
  <2>4. awaiting' # 0 => /\ \A k \in DOMAIN requests' : requests'[k].tag # awaiting'
                        /\ \A t \in tasks' : \A i \in DOMAIN t.tags : t.tags[i] # awaiting'
    BY <1>7, <1>12 DEF OpenInv
  <2> QED
    BY <1>5, <2>1, <2>2, <2>3, <2>4 DEF OpenInv
<1>14. ASSUME Open(x)' PROVE Open(x)
  <2>1. CASE \E i \in DOMAIN requests' : requests'[i].tag = x
    BY <1>7, <2>1 DEF Open
  <2>2. CASE \E t \in tasks' : \E i \in DOMAIN t.tags : t.tags[i] = x
    BY <1>8, <2>2 DEF Open
  <2>3. CASE x = awaiting' /\ x # 0
    BY <2>3 DEF Open
  <2> QED
    BY <1>14, <2>1, <2>2, <2>3 DEF Open
<1> QED
  BY <1>13, <1>14

\* AUTHENTICATE waits for its challenge.
LEMMA AskOpen ==
  ASSUME ImapTyped, OpenInv, requests # <<>>, tasks' = tasks, awaiting' = Tag, requests' = Tail(requests), NEW x
  PROVE  OpenInv' /\ (Open(x)' => Open(x))
<1>1. /\ Tag = requests[1].tag /\ 1 \in DOMAIN requests /\ DOMAIN requests' = 1..(Len(requests) - 1) /\ Len(requests) \in Nat
      /\ \A i \in DOMAIN requests' : i + 1 \in DOMAIN requests /\ requests'[i] = requests[i + 1] /\ i \in Nat /\ 1 < i + 1
  BY TailOf DEF Tag, ImapTyped
<1>2. \A i, j \in DOMAIN requests' : i < j => i + 1 < j + 1
  BY <1>1
<1>3. Ascending(requests)'
  BY <1>1, <1>2 DEF OpenInv, Ascending
<1>4. \A k \in DOMAIN requests' : \E i \in DOMAIN requests : 1 < i /\ requests'[k] = requests[i]
  BY <1>1
<1>5. \A i \in DOMAIN requests : 1 < i => requests[1].tag < requests[i].tag
  BY <1>1 DEF OpenInv, Ascending
<1>6. \A k \in DOMAIN requests' : requests'[k].tag # Tag
  <2>1. \A i \in DOMAIN requests : requests[i].tag \in Nat
    BY RequestTags
  <2> QED
    BY <1>1, <1>4, <1>5, <2>1
<1>7. \A t \in tasks : \A i \in DOMAIN t.tags : t.tags[i] # Tag
  BY <1>1 DEF OpenInv
<1>8. \A t \in tasks : \A i \in DOMAIN t.tags, k \in DOMAIN requests' : t.tags[i] # requests'[k].tag
  BY <1>4 DEF OpenInv
<1>9. OpenInv'
  BY <1>3, <1>6, <1>7, <1>8 DEF OpenInv
<1>10. Open(x)' => Open(x)
  BY <1>1, <1>4 DEF Open
<1> QED
  BY <1>9, <1>10

\* A task answers the first of its requests.
LEMMA TaskOpen ==
  ASSUME ImapTyped, OpenInv, NEW t \in tasks, TaskDone(t) \/ IdleDone(t), NEW x
  PROVE  OpenInv' /\ (Open(x)' => Open(x)) /\ (x = Head(t.tags) => Open(x) /\ ~Open(x)')
<1>1. t \in TaskRecords /\ t.tags \in Seq(Nat) /\ t.tags # <<>>
  BY DEF ImapTyped, TypeOK, TaskRecords
<1>2. /\ Head(t.tags) = t.tags[1] /\ 1 \in DOMAIN t.tags /\ DOMAIN Tail(t.tags) = 1..(Len(t.tags) - 1) /\ Len(t.tags) \in Nat
      /\ \A i \in DOMAIN Tail(t.tags) : Tail(t.tags)[i] = t.tags[i + 1] /\ i + 1 \in DOMAIN t.tags /\ i + 1 # 1 /\ i \in Nat
  BY <1>1, TailOf
<1> DEFINE rest == [t EXCEPT !.tags = Tail(@)]
<1>3. rest.tags = Tail(t.tags)
  BY <1>1 DEF TaskRecords
<1>4. UNCHANGED <<requests, awaiting>> /\ \A u \in tasks' : (u \in tasks /\ u # t) \/ u = rest
  BY DEF TaskDone, IdleDone
<1> HIDE DEF rest
<1>5. \A i \in DOMAIN rest.tags : \E k \in DOMAIN t.tags : k = i + 1 /\ k # 1 /\ rest.tags[i] = t.tags[k]
  BY <1>2, <1>3
<1>6. \A i, j \in DOMAIN rest.tags : rest.tags[i] = rest.tags[j] => i = j
  <2> TAKE i \in DOMAIN rest.tags, j \in DOMAIN rest.tags
  <2> HAVE rest.tags[i] = rest.tags[j]
  <2>1. i + 1 \in DOMAIN t.tags /\ j + 1 \in DOMAIN t.tags /\ t.tags[i + 1] = t.tags[j + 1] /\ i \in Nat /\ j \in Nat
    BY <1>2, <1>3
  <2>2. i + 1 = j + 1
    BY <2>1 DEF OpenInv
  <2> QED
    BY <2>1, <2>2
<1>7. \A u \in tasks \ {t} : \A i \in DOMAIN rest.tags, j \in DOMAIN u.tags : rest.tags[i] # u.tags[j]
  BY <1>5 DEF OpenInv
<1>8. OpenInv'
  <2>1. \A u \in tasks' : \A i, j \in DOMAIN u.tags : u.tags[i] = u.tags[j] => i = j
    BY <1>4, <1>6 DEF OpenInv
  <2>2. \A u, v \in tasks' : \A i \in DOMAIN u.tags, j \in DOMAIN v.tags : u.tags[i] = v.tags[j] => u = v
    BY <1>4, <1>7 DEF OpenInv
  <2>3. \A u \in tasks' : \A i \in DOMAIN u.tags, k \in DOMAIN requests : u.tags[i] # requests[k].tag
    BY <1>4, <1>5 DEF OpenInv
  <2>4. awaiting # 0 => \A u \in tasks' : \A i \in DOMAIN u.tags : u.tags[i] # awaiting
    BY <1>4, <1>5 DEF OpenInv
  <2> QED
    BY <1>4, <2>1, <2>2, <2>3, <2>4 DEF OpenInv
<1>9. Open(x)' => Open(x)
  <2>1. ASSUME NEW u \in tasks', NEW i \in DOMAIN u.tags, u.tags[i] = x PROVE Open(x)
    BY <1>4, <1>5, <2>1 DEF Open
  <2> QED
    BY <1>4, <2>1 DEF Open
<1>10. x = Head(t.tags) => Open(x)
  BY <1>2 DEF Open
<1>11. ASSUME x = Head(t.tags), Open(x)' PROVE FALSE
  <2>1. x = t.tags[1] /\ 1 \in DOMAIN t.tags
    BY <1>2, <1>11
  <2>2. \A i \in DOMAIN requests : requests[i].tag # x
    BY <2>1 DEF OpenInv
  <2>3. ~(x = awaiting /\ x # 0)
    BY <2>1 DEF OpenInv
  <2>4. PICK u \in tasks' : \E i \in DOMAIN u.tags : u.tags[i] = x
    BY <1>4, <1>11, <2>2, <2>3 DEF Open
  <2>5. CASE u \in tasks /\ u # t
    BY <2>1, <2>4, <2>5 DEF OpenInv
  <2>6. CASE u = rest
    BY <1>5, <2>1, <2>4, <2>6 DEF OpenInv
  <2> QED
    BY <1>4, <2>5, <2>6
<1> QED
  BY <1>8, <1>9, <1>10, <1>11

\* A read opens requests that are new, and goes on with the one that waited.
LEMMA ReadOpen ==
  ASSUME ImapTyped, OpenInv, SentInv, NEW n \in Nat, NEW cmds \in [1..n -> Commands], Read(cmds)
  PROVE  OpenInv' /\ SentInv'
<1> DEFINE ran == Ran(cmds)
           turned == Turned(cmds)
<1>1. /\ received \in Nat /\ received' = received + n /\ received' \in Nat /\ received <= received' /\ received' <= MaxRequests
      /\ tasks' = tasks /\ awaiting' = 0 /\ written' = written /\ requests = <<>> /\ received + n <= MaxRequests
  BY ReadIs, RequestTags DEF ImapTyped
<1>2. /\ Ascending(ran) /\ Ascending(turned)
      /\ \A i \in DOMAIN ran : ran[i].tag = awaiting \/ ran[i].tag > received
      /\ \A i \in DOMAIN turned : turned[i].tag = awaiting \/ turned[i].tag > received
      /\ \A i \in DOMAIN ran, j \in DOMAIN turned : ran[i].tag # turned[j].tag
  BY <1>1, ReadSplits
<1>3. /\ \A i \in DOMAIN ran : ran[i].tag \in 1..received'
      /\ \A i \in DOMAIN turned : turned[i].tag \in 1..received'
  BY <1>1, ReadSplits, BatchTags
<1>4. Refusals(cmds) \in Seq(Events) /\ DOMAIN Refusals(cmds) = DOMAIN turned /\ \A i \in DOMAIN turned : Refusals(cmds)[i].tag = turned[i].tag
  BY <1>1, RefusalsTyped
<1>5. \/ requests' = ran /\ (UNCHANGED chan \/ chan' = chan \o Refusals(cmds))
      \/ requests' = <<>> /\ UNCHANGED chan
  BY <1>1, ReadIs DEF Send
<1>6. turned \in Seq([tag : 1..(received + n), cmd : Cmds])
  BY <1>1, ReadSplits
<1> HIDE DEF ran, turned
<1>7. \A t \in tasks : \A i \in DOMAIN t.tags, k \in DOMAIN ran : t.tags[i] # ran[k].tag
  <2> TAKE t \in tasks
  <2> TAKE i \in DOMAIN t.tags, k \in DOMAIN ran
  <2>1. t.tags[i] \in 1..received
    BY DEF ImapTyped
  <2>2. CASE ran[k].tag = awaiting
    <3>1. awaiting # 0
      BY <1>1, <1>3, <2>2
    <3> QED
      BY <2>2, <3>1 DEF OpenInv
  <2>3. CASE ran[k].tag > received
    BY <1>1, <1>3, <2>1, <2>3
  <2> QED
    BY <1>2, <2>2, <2>3
<1>8. OpenInv'
  <2>1. CASE requests' = ran
    BY <1>1, <1>2, <1>7, <2>1 DEF OpenInv
  <2>2. CASE requests' = <<>>
    BY <1>1, <2>2 DEF OpenInv, Ascending
  <2> QED
    BY <1>5, <2>1, <2>2
<1>9. ASSUME NEW x \in Nat \ {0}, Open(x)' PROVE Open(x) \/ x > received
  <2>1. CASE \E i \in DOMAIN requests' : requests'[i].tag = x
    BY <1>2, <1>5, <2>1 DEF Open
  <2>2. CASE \E t \in tasks' : \E i \in DOMAIN t.tags : t.tags[i] = x
    BY <1>1, <2>2 DEF Open
  <2> QED
    BY <1>1, <1>9, <2>1, <2>2 DEF Open
<1>10. SentInv'
  <2>1. CASE UNCHANGED chan
    BY <1>1, <1>9, <2>1, SilentStep
  <2>2. CASE requests' = ran /\ chan' = chan \o Refusals(cmds)
    <3>1. \A i, j \in DOMAIN turned : turned[i].tag = turned[j].tag => i = j
      <4>1. \A i, j \in DOMAIN turned : i = j \/ i < j \/ j < i
        BY <1>6
      <4>2. \A i \in DOMAIN turned : turned[i].tag \in Nat
        BY <1>1, <1>3
      <4> QED
        BY <1>2, <4>1, <4>2 DEF Ascending
    <3>2. ASSUME NEW x \in Nat \ {0}, NEW i \in DOMAIN turned, turned[i].tag = x
          PROVE  (Open(x) \/ x > received) /\ x <= received' /\ ~Open(x)'
      <4>1. x = awaiting \/ x > received
        BY <1>2, <3>2
      <4>2. Open(x) \/ x > received
        BY <4>1 DEF Open
      <4>3. x <= received'
        BY <1>1, <1>3, <3>2
      <4>4. \A k \in DOMAIN requests' : requests'[k].tag # x
        BY <1>2, <2>2, <3>2
      <4>5. \A t \in tasks' : \A k \in DOMAIN t.tags : t.tags[k] # x
        <5>1. \A t \in tasks : \A k \in DOMAIN t.tags : t.tags[k] \in 1..received
          BY DEF ImapTyped
        <5> QED
          BY <1>1, <4>1, <5>1 DEF OpenInv
      <4>6. ~(x = awaiting' /\ x # 0)
        BY <1>1
      <4>7. ~Open(x)'
        BY <4>4, <4>5, <4>6 DEF Open
      <4> QED
        BY <4>2, <4>3, <4>7
    <3>3. \A i, j \in DOMAIN Refusals(cmds) : Refusals(cmds)[i].tag = Refusals(cmds)[j].tag /\ Refusals(cmds)[i].tag # 0 => i = j
      BY <1>4, <3>1
    <3>4. \A x \in Nat \ {0} : (\E i \in DOMAIN Refusals(cmds) : Refusals(cmds)[i].tag = x) =>
             (Open(x) \/ x > received) /\ x <= received' /\ ~Open(x)'
      BY <1>4, <3>2
    <3> QED
      BY <1>1, <1>4, <1>9, <2>2, <3>3, <3>4, SentStep
  <2> QED
    BY <1>5, <2>1, <2>2
<1> QED
  BY <1>8, <1>10

\* A step that sends at most one answer, to what was open, and opens nothing.
LEMMA SaysOne ==
  ASSUME ImapTyped, SentInv, UNCHANGED <<received, written>>, NEW y \in Nat, NEW by \in {"session", "task"}, NEW k \in EventKinds,
         \/ UNCHANGED chan \/ Send(<<Bytes(y, by)>>) \/ Send(<<Bytes(y, by), Bytes(0, by)>>) \/ Send(<<Event(k, y, by)>>),
         y # 0 => Open(y) /\ ~Open(y)',
         \A x \in Nat \ {0} : Open(x)' => Open(x)
  PROVE  SentInv'
<1>1. received \in Nat /\ received' \in Nat /\ received <= received'
  BY RequestTags
<1>2. ASSUME NEW es \in Seq(Events), chan' = chan \o es,
             \A i \in DOMAIN es : (i = 1 /\ es[i].tag = y) \/ es[i].tag = 0
      PROVE  SentInv'
  <2>1. \A i, j \in DOMAIN es : es[i].tag = es[j].tag /\ es[i].tag # 0 => i = j
    BY <1>2
  <2>2. \A x \in Nat \ {0} : (\E i \in DOMAIN es : es[i].tag = x) =>
           (Open(x) \/ x > received) /\ x <= received' /\ ~Open(x)'
    <3> SUFFICES ASSUME NEW x \in Nat \ {0}, NEW i \in DOMAIN es, es[i].tag = x
                 PROVE  Open(x) /\ x <= received' /\ ~Open(x)'
      OBVIOUS
    <3>1. x = y /\ y # 0
      BY <1>2
    <3>2. Open(x) /\ ~Open(x)'
      BY <3>1
    <3>3. x \in 1..received
      BY <3>2, OpenRead
    <3> QED
      BY <1>1, <3>2, <3>3
  <2> QED
    BY <1>1, <1>2, <2>1, <2>2, SentStep
<1>3. CASE UNCHANGED chan
  BY <1>1, <1>3, SilentStep
<1>4. CASE Send(<<Bytes(y, by)>>) \/ Send(<<Bytes(y, by), Bytes(0, by)>>) \/ Send(<<Event(k, y, by)>>)
  <2>1. PICK es \in {<<Bytes(y, by)>>, <<Bytes(y, by), Bytes(0, by)>>, <<Event(k, y, by)>>} : Send(es)
    BY <1>4
  <2>2. es \in Seq(Events)
    BY EventsTyped
  <2>3. Bytes(y, by).tag = y /\ Bytes(0, by).tag = 0 /\ Event(k, y, by).tag = y
    BY DEF Bytes, Event
  <2>4. \A i \in DOMAIN es : (i = 1 /\ es[i].tag = y) \/ es[i].tag = 0
    BY <2>3
  <2> QED
    BY <1>2, <2>1, <2>2, <2>4 DEF Send
<1> QED
  BY <1>3, <1>4

\* The writer moves an answer from the channel to the client, or loses it.
LEMMA WriterSent ==
  ASSUME ImapTyped, SentInv, UNCHANGED session, (\E b \in BOOLEAN : WriterStep(b)) \/ WriterFails
  PROVE  SentInv'
<1>1. /\ chan \in Seq(Events) /\ Len(chan) <= Buffer /\ stream \in Streams /\ written \subseteq Nat
  BY DEF ImapTyped, TypeOK, WriterTypeOK
<1>2. /\ \/ written' = written
         \/ chan # <<>> /\ written' = written \cup ({Head(chan).tag} \ {0})
      /\ chan' \in {chan, <<>>} \/ (chan # <<>> /\ chan' = Tail(chan))
  BY <1>1, WriterTyped
<1>3. \A x : Open(x)' <=> Open(x)
  BY DEF Open, session
<1>4. received' = received /\ received \in Nat
  BY RequestTags DEF session
<1>5. \A e \in Events : e.tag \in Nat
  BY DEF Events
<1>6. CASE written' = written /\ chan' = chan
  BY <1>3, <1>4, <1>6 DEF SentInv
<1>7. CASE written' = written /\ chan' = <<>>
  BY <1>3, <1>4, <1>7 DEF SentInv
<1>8. CASE chan # <<>> /\ chan' = Tail(chan) /\ written' \in {written, written \cup ({Head(chan).tag} \ {0})}
  <2>1. /\ Head(chan) = chan[1] /\ 1 \in DOMAIN chan /\ Len(chan) \in Nat /\ DOMAIN chan' = 1..(Len(chan) - 1)
        /\ \A i \in 1..(Len(chan) - 1) : chan'[i] = chan[i + 1] /\ i + 1 \in DOMAIN chan
    BY <1>1, <1>8, TailOf
  <2>2. \A i \in DOMAIN chan' : i \in Nat /\ i # 0 /\ i + 1 # 1 /\ i + 1 \in DOMAIN chan /\ chan'[i] = chan[i + 1]
    BY <2>1
  <2>3. \A i, j \in DOMAIN chan' : chan'[i].tag = chan'[j].tag /\ chan'[i].tag # 0 => i = j
    <3> SUFFICES ASSUME NEW i \in DOMAIN chan', NEW j \in DOMAIN chan', chan'[i].tag = chan'[j].tag, chan'[i].tag # 0
                 PROVE  i = j
      OBVIOUS
    <3>1. i + 1 = j + 1
      BY <2>2 DEF SentInv
    <3> QED
      BY <2>2, <3>1
  <2>4. \A i \in DOMAIN chan' : chan'[i].tag # 0 => chan'[i].tag # chan[1].tag
    BY <2>1, <2>2 DEF SentInv
  <2>5. ASSUME NEW x \in Nat \ {0}, NEW i \in DOMAIN chan', chan'[i].tag = x
        PROVE  ~Open(x)' /\ x \notin written' /\ x <= received'
    <3>1. ~Open(x) /\ x \notin written /\ x <= received
      BY <2>2, <2>5 DEF SentInv
    <3>2. x # chan[1].tag
      BY <2>4, <2>5
    <3> QED
      BY <1>3, <1>4, <1>8, <2>1, <3>1, <3>2
  <2>6. ASSUME NEW x \in Nat \ {0}, x \in written' PROVE ~Open(x)' /\ x <= received'
    <3>1. x \in written \/ x = chan[1].tag
      BY <1>8, <2>1, <2>6
    <3>2. ~Open(x) /\ x <= received
      BY <2>1, <3>1 DEF SentInv
    <3> QED
      BY <1>3, <1>4, <3>2
  <2>7. 0 \notin written'
    BY <1>8 DEF SentInv
  <2> QED
    BY <2>3, <2>5, <2>6, <2>7 DEF SentInv
<1>9. written' = written \/ chan' = Tail(chan)
  BY DEF WriterStep, WriterTakes, WriterWrites, WriterSwitches, WriterEnds, WriterFails
<1> QED
  BY <1>2, <1>6, <1>7, <1>8, <1>9

\* Every step keeps a request open in one place, and closed once it is answered.
LEMMA AnsweredStep ==
  ASSUME ImapTyped, OpenInv, SentInv, [Next]_imapVars
  PROVE  OpenInv' /\ SentInv'
<1>0. /\ 0 \in Nat /\ "session" \in {"session", "task"} /\ "task" \in {"session", "task"}
      /\ "bytes" \in EventKinds /\ "upgrade" \in EventKinds /\ "tls" \in EventKinds /\ "stream" \in EventKinds
  BY DEF EventKinds
<1>1. ASSUME requests # <<>> PROVE Tag \in Nat /\ Tag # 0 /\ \A x : x = Tag => Open(x)
  BY <1>1, HeadTyped, RequestTags DEF Open, Tag
<1>2. ASSUME UNCHANGED <<requests, tasks, awaiting, received, written>>,
             UNCHANGED chan \/ \E k \in EventKinds : Send(<<Event(k, 0, "session")>>)
      PROVE  OpenInv' /\ SentInv'
  <2>1. OpenInv' /\ \A x : Open(x)' => Open(x)
    BY <1>2 DEF OpenInv, Open
  <2> QED
    BY <1>0, <1>2, <2>1, SaysOne
<1>3. ASSUME Ended PROVE OpenInv' /\ SentInv'
  <2>1. requests' = <<>> /\ awaiting' = 0 /\ UNCHANGED <<tasks, received, written>>
    BY <1>3 DEF Ended, Drop
  <2>2. OpenInv' /\ \A x : (Open(x)' => Open(x)) /\ (requests # <<>> /\ x = Tag => ~Open(x)')
    BY <2>1, PopOpen
  <2>3. CASE UNCHANGED chan \/ Send(<<Bytes(0, "session")>>)
    BY <1>0, <2>1, <2>2, <2>3, SaysOne
  <2>4. CASE requests # <<>> /\ (Send(<<Bytes(Tag, "session")>>) \/ Send(<<Bytes(Tag, "session"), Bytes(0, "session")>>))
    <3>1. PICK y \in Nat : y = Tag
      BY <1>1, <2>4
    <3>2. Open(y) /\ ~Open(y)' /\ (Send(<<Bytes(y, "session")>>) \/ Send(<<Bytes(y, "session"), Bytes(0, "session")>>))
      BY <1>1, <2>2, <2>4, <3>1
    <3> QED
      BY <1>0, <2>1, <2>2, <3>2, SaysOne
  <2> QED
    BY <1>3, <2>2, <2>3, <2>4 DEF Ended
<1>4. ASSUME requests # <<>>, Send(<<Bytes(Tag, "session")>>), UNCHANGED <<tasks, awaiting, received, written>>,
             requests' \in {<<>>, Tail(requests)}
      PROVE  OpenInv' /\ SentInv'
  <2>1. awaiting' \in {0, awaiting} /\ tasks' = tasks /\ (requests' = <<>> \/ requests' = Tail(requests))
    BY <1>4
  <2>2. OpenInv' /\ \A x : (Open(x)' => Open(x)) /\ (requests # <<>> /\ x = Tag => ~Open(x)')
    BY <1>4, <2>1, PopOpen
  <2>3. PICK y \in Nat : y = Tag
    BY <1>1, <1>4
  <2>4. Open(y) /\ ~Open(y)' /\ Send(<<Bytes(y, "session")>>)
    BY <1>1, <1>4, <2>2, <2>3
  <2> QED
    BY <1>0, <1>4, <2>2, <2>4, SaysOne
<1>5. CASE HandleSpawned \/ HandleIdle
  <2>1. PICK c : tasks' = tasks \cup {[cmd |-> c, tags |-> <<Tag>>]}
    BY <1>5 DEF HandleSpawned, HandleIdle
  <2> DEFINE new == [cmd |-> c, tags |-> <<Tag>>]
  <2>2. /\ requests # <<>> /\ requests' = Tail(requests) /\ UNCHANGED <<awaiting, received, written>>
        /\ UNCHANGED chan \/ Send(<<Bytes(0, "session")>>)
    BY <1>5 DEF HandleSpawned, HandleIdle, Runs, writerVars
  <2>3. new.tags = <<Tag>> /\ DOMAIN new.tags = 1..1 /\ new.tags[1] = requests[1].tag /\ tasks' = tasks \cup {new}
    BY <2>1, <2>2, HeadTyped DEF Tag
  <2>4. 1 \in 1..Len(requests) /\ requests' = SubSeq(requests, 1 + 1, Len(requests))
    <3> DEFINE R == [tag : 1..received, cmd : Cmds]
    <3>1. requests \in Seq(R)
      BY DEF ImapTyped
    <3> HIDE DEF R
    <3> QED
      BY <2>2, <3>1
  <2>5. \A i \in 1..1 : new.tags[i] = requests[i].tag
    BY <2>3
  <2> HIDE DEF new
  <2>6. OpenInv' /\ \A x : Open(x)' => Open(x)
    BY <2>2, <2>3, <2>4, <2>5, SpawnOpen
  <2> QED
    BY <1>0, <2>2, <2>6, SaysOne
<1>6. CASE HandleGrouped
  <2> DEFINE new == [cmd |-> Head(requests).cmd, tags |-> [i \in 1..Group |-> requests[i].tag]]
  <2>1. /\ requests # <<>> /\ requests' = SubSeq(requests, Group + 1, Len(requests)) /\ tasks' = tasks \cup {new}
        /\ UNCHANGED <<awaiting, received, written, chan>>
    BY <1>6 DEF HandleGrouped, Runs, writerVars
  <2>2. DOMAIN new.tags = 1..Group /\ \A i \in 1..Group : new.tags[i] = requests[i].tag
    OBVIOUS
  <2>3. Group \in 1..Len(requests)
    BY <2>1, GroupBounds DEF ImapTyped
  <2> HIDE DEF new
  <2>4. OpenInv' /\ \A x : Open(x)' => Open(x)
    BY <2>1, <2>2, <2>3, SpawnOpen
  <2> QED
    BY <1>0, <2>1, <2>4, SaysOne
<1>7. CASE AskChallenge
  <2>1. /\ requests # <<>> /\ tasks' = tasks /\ awaiting' = Tag /\ requests' = Tail(requests)
        /\ UNCHANGED <<received, written>> /\ Send(<<Bytes(0, "session")>>)
    BY <1>7 DEF AskChallenge, Runs
  <2>2. OpenInv' /\ \A x : Open(x)' => Open(x)
    BY <2>1, AskOpen
  <2> QED
    BY <1>0, <2>1, <2>2, SaysOne
<1>8. ASSUME NEW t \in tasks, TaskDone(t) \/ IdleDone(t) PROVE OpenInv' /\ SentInv'
  <2>1. /\ UNCHANGED chan \/ Send(<<Bytes(Head(t.tags), "task")>>)
        /\ UNCHANGED <<received, written>>
    BY <1>8 DEF TaskDone, IdleDone
  <2>2. OpenInv' /\ \A x : (Open(x)' => Open(x)) /\ (x = Head(t.tags) => Open(x) /\ ~Open(x)')
    BY <1>8, TaskOpen
  <2>3. t.tags \in Seq(Nat) /\ t.tags # <<>>
    BY DEF ImapTyped, TypeOK, TaskRecords
  <2>4. PICK y \in Nat : y = Head(t.tags)
    BY <2>3
  <2> QED
    BY <1>0, <2>1, <2>2, <2>4, SaysOne
<1>9. ASSUME NEW done \in BOOLEAN, NEW more \in 0..1, ReadIdle(done, more) PROVE OpenInv' /\ SentInv'
  <2>1. UNCHANGED <<requests, tasks, awaiting, written, chan>> /\ received' = received + more
    BY <1>9 DEF ReadIdle, writerVars
  <2>2. OpenInv' /\ \A x : Open(x)' => Open(x)
    BY <2>1 DEF OpenInv, Open
  <2>3. received' \in Nat /\ received <= received'
    BY <2>1, RequestTags
  <2> QED
    BY <2>1, <2>2, <2>3, SilentStep
<1>10. CASE Environment
  <2>1. ASSUME NEW n \in 0..MaxBatch, NEW cmds \in [1..n -> Commands], Read(cmds) PROVE OpenInv' /\ SentInv'
    <3>1. n \in Nat
      BY SessionBounds
    <3> QED
      BY <2>1, <3>1, ReadOpen
  <2>2. CASE Greet
    <3>1. \E k \in EventKinds : Send(<<Event(k, 0, "session")>>)
      BY <1>0, <2>2 DEF Greet
    <3> QED
      BY <1>2, <2>2, <3>1 DEF Greet
  <2> QED
    BY <1>3, <1>9, <1>10, <2>1, <2>2, EndedBy DEF Environment
<1>11. CASE Handle
  <2>1. CASE Replying
    <3>1. RepliedTo
      BY <2>1, RepliedBy DEF ImapTyped
    <3> QED
      BY <1>4, <3>1 DEF RepliedTo, Answered
  <2>2. CASE HandleStartTls
    BY <1>4, <2>2 DEF HandleStartTls, Runs
  <2>3. CASE AskStream \/ GetStream \/ HandshakeDone \/ EndBatch
    BY <1>0, <1>2, <2>3 DEF AskStream, GetStream, HandshakeDone, EndBatch, writerVars
  <2> QED
    BY <1>3, <1>5, <1>6, <1>7, <1>11, <2>1, <2>2, <2>3, EndedBy DEF Handle, Replying
<1>12. CASE Writes \/ Loses
  <2>1. UNCHANGED session /\ ((\E b \in BOOLEAN : WriterStep(b)) \/ WriterFails)
    BY <1>12 DEF Writes, Loses, Senders
  <2>2. OpenInv'
    BY <2>1 DEF session, OpenInv, Ascending
  <2> QED
    BY <2>1, <2>2, WriterSent
<1>13. CASE UNCHANGED imapVars
  BY <1>2, <1>13 DEF imapVars, session, writerVars
<1> QED
  BY <1>8, <1>10, <1>11, <1>12, <1>13 DEF Next

(***************************************************************************)
(* No request is answered twice, by the session and a task it spawned or by *)
(* two tasks (ingest, group_requests, write_bytes): for any commands, size  *)
(* of the channel and number of requests.  A request is waited for in one   *)
(* place of the session at most, and in none once an answer was sent.       *)
(***************************************************************************)
THEOREM AnsweredOnceAlways == Spec => []AnsweredOnce
<1>1. Init => OpenInv /\ SentInv
  BY DEF Init, WriterInit, OpenInv, SentInv, Ascending
<1>2. ImapTyped /\ SentInv => AnsweredOnce
  <2> SUFFICES ASSUME ImapTyped, SentInv, NEW tag \in Tags
               PROVE  Cardinality(InChan(tag)) <= (IF tag \in written THEN 0 ELSE 1)
    BY DEF AnsweredOnce
  <2>1. tag \in Nat \ {0}
    BY SessionBounds DEF Tags
  <2>2. CASE InChan(tag) = {}
    <3>1. Cardinality(InChan(tag)) = 0
      BY <2>2, FS_EmptySet
    <3> QED
      BY <3>1
  <2>3. CASE InChan(tag) # {}
    <3>1. PICK i \in DOMAIN chan : chan[i].tag = tag
      BY <2>3 DEF InChan
    <3>2. tag \notin written
      BY <2>1, <3>1 DEF SentInv
    <3>3. InChan(tag) = {i}
      BY <2>1, <3>1 DEF InChan, SentInv
    <3>4. Cardinality(InChan(tag)) = 1
      BY <3>3, FS_Singleton
    <3> QED
      BY <3>2, <3>4
  <2> QED
    BY <2>2, <2>3
<1> QED
  BY <1>1, <1>2, ImapTypedFirst, ImapTypedStep, AnsweredStep, PTL DEF Spec

-----------------------------------------------------------------------------
(* The state that handlers meet.                                              *)

HasCmd(cmds) == \E i \in DOMAIN requests : requests[i].cmd \in cmds

\* The first request of a read still meets the state it was checked against.  A batch
\* that forgets the failures holds no attempt, and there are none to forget.
StateInv ==
  /\ panicked # 0 => phase = "closed" /\ panicked > batch
  /\ \A i \in DOMAIN requests :
       requests[i].tag >= batch /\ (requests[i].tag = batch => IsAllowed(requests[i].cmd))
  /\ state # "NotAuthenticated" => tries = 0
  /\ HasCmd({"Unauthenticate"}) => tries = 0 /\ ~HasCmd(Credentials)
  /\ tries <= failures \/ (tries = failures + 1 /\ phase = "closed")

\* What passes the check does not run into unreachable!().
LEMMA AllowedReachable ==
  ASSUME NEW c, IsAllowed(c)
  PROVE  (c \in WithState \cup Selecting => Reachable(c)) /\ (c \in Credentials => state = "NotAuthenticated")
<1>1. c \in WithState => state # "NotAuthenticated"
  BY DEF IsAllowed, AnyState, WithState, Selecting, Writing
<1>2. c \in Selecting => state = "Selected"
  BY DEF IsAllowed, AnyState, WithState, Selecting, Writing
<1>3. c \in Credentials => state = "NotAuthenticated"
  BY DEF IsAllowed, AnyState, WithState, Selecting, Writing, Credentials
<1>4. c \in WithState \cup Selecting => Reachable(c)
  <2>1. ~(c \in WithState /\ c \in Selecting)
    BY DEF WithState, Selecting, Writing
  <2>2. c = "Unselect" => c \in Selecting
    BY DEF Selecting
  <2> QED
    BY <1>1, <1>2, <2>1, <2>2 DEF Reachable
<1> QED
  BY <1>3, <1>4

\* The batch after its first request was run: what is left has later tags.
LEMMA LaterLeft ==
  ASSUME ImapTyped, OpenInv, StateInv, requests # <<>>, batch' = batch,
         NEW n \in 1..Len(requests), requests' = SubSeq(requests, n + 1, Len(requests)) \/ requests' = <<>> \/ (n = 1 /\ requests' = Tail(requests))
  PROVE  /\ \A i \in DOMAIN requests' : requests'[i].tag >= batch' /\ requests'[i].tag # batch'
         /\ \A i \in DOMAIN requests' : \E k \in DOMAIN requests : requests'[i] = requests[k]
<1>1. requests \in Seq([tag : 1..received, cmd : Cmds]) /\ Len(requests) \in Nat /\ DOMAIN requests = 1..Len(requests) /\ batch \in Nat
  BY DEF ImapTyped
<1>2. \A i \in DOMAIN requests' : \E k \in DOMAIN requests : 1 < k /\ requests'[i] = requests[k]
  <2>1. CASE requests' = <<>>
    BY <2>1
  <2>2. CASE requests' = SubSeq(requests, n + 1, Len(requests))
    <3> DEFINE R == [tag : 1..received, cmd : Cmds]
    <3>1. requests \in Seq(R)
      BY <1>1
    <3> HIDE DEF R
    <3>2. Len(requests') = Len(requests) - n /\ requests' \in Seq(R)
      BY <2>2, <3>1
    <3>3. DOMAIN requests' = 1..(Len(requests) - n)
      BY <3>2
    <3>4. \A i \in 1..(Len(requests) - n) : requests'[i] = requests[i + n] /\ i + n \in DOMAIN requests /\ 1 < i + n
      BY <1>1, <2>2, <3>1
    <3> QED
      BY <3>3, <3>4
  <2>3. CASE requests' = Tail(requests)
    BY <1>1, <2>3, TailOf
  <2> QED
    BY <2>1, <2>2, <2>3
<1>3. \A k \in DOMAIN requests : 1 < k => requests[1].tag < requests[k].tag
  BY HeadTyped DEF OpenInv, Ascending
<1>4. 1 \in DOMAIN requests /\ requests[1].tag >= batch /\ \A k \in DOMAIN requests : requests[k].tag \in Nat
  BY <1>1, RequestTags DEF StateInv
<1>5. \A k \in DOMAIN requests : 1 < k => requests[k].tag >= batch /\ requests[k].tag # batch
  BY <1>1, <1>3, <1>4, SMTT(30)
<1> QED
  BY <1>2, <1>5

\* Every step keeps what handlers take for granted of the first request of a read.
LEMMA StateStep ==
  ASSUME ImapTyped, OpenInv, StateInv, [Next]_imapVars
  PROVE  StateInv'
<1>1. /\ failures \in Nat /\ tries \in Nat /\ batch \in Nat
      /\ \A i \in DOMAIN requests : requests[i].tag \in Nat
  BY SessionBounds, RequestTags DEF ImapTyped, TypeOK
<1>2. ASSUME requests # <<>>
      PROVE  /\ 1 \in DOMAIN requests /\ Head(requests) = requests[1] /\ Tag \in Nat /\ Tag >= batch
             /\ Tag = batch => IsAllowed(Head(requests).cmd)
             /\ phase = "running" /\ panicked = 0 /\ tries <= failures
  <2>1. phase = "running"
    BY <1>2 DEF ImapTyped
  <2> QED
    BY <1>1, <1>2, <2>1, HeadTyped DEF StateInv, Tag
<1>3. ASSUME requests' = <<>>, UNCHANGED <<state, failures, tries, panicked>>,
             panicked # 0 => phase' = "closed" /\ batch' = batch,
             phase = "closed" => phase' = "closed"
      PROVE  StateInv'
  BY <1>3 DEF StateInv, HasCmd
<1>4. ASSUME requests # <<>>, NEW n \in 1..Len(requests),
             requests' = SubSeq(requests, n + 1, Len(requests)) \/ (n = 1 /\ requests' = Tail(requests)),
             UNCHANGED <<batch, panicked, phase>>, state' # "NotAuthenticated" => tries' = 0,
             HasCmd({"Unauthenticate"}) => tries' = 0, tries' <= failures'
      PROVE  StateInv'
  <2>1. /\ \A i \in DOMAIN requests' : requests'[i].tag >= batch' /\ requests'[i].tag # batch'
        /\ \A i \in DOMAIN requests' : \E k \in DOMAIN requests : requests'[i] = requests[k]
    BY <1>4, LaterLeft
  <2>2. \A S : HasCmd(S)' => HasCmd(S)
    BY <2>1 DEF HasCmd
  <2>3. HasCmd({"Unauthenticate"})' => HasCmd({"Unauthenticate"}) /\ tries' = 0 /\ ~HasCmd(Credentials)'
    BY <1>4, <2>1 DEF HasCmd, StateInv, Credentials
  <2> QED
    BY <1>2, <1>4, <2>1, <2>3 DEF StateInv
<1>5. ASSUME requests # <<>> PROVE 1 \in 1..Len(requests) /\ Len(requests) \in Nat
  <2>1. requests \in Seq([tag : 1..received, cmd : Cmds])
    BY DEF ImapTyped
  <2> QED
    BY <1>5, <2>1, TailOf
<1>6. CASE \/ GreetFails \/ Hangup \/ Bye \/ Panic \/ Broken \/ HandleLogout \/ RejectedForGood \/ RejectedPanic
           \/ UpgradeFails \/ \E b \in BOOLEAN : AcceptedInVain(b)
  <2>1. Ended
    BY <1>6, EndedBy
  <2>2. requests' = <<>> /\ phase' = "closed" /\ UNCHANGED <<state, failures, batch>>
    BY <2>1 DEF Ended, Drop
  <2>3. panicked' # 0 => panicked' > batch
    <3>1. CASE Panic \/ RejectedPanic
      <4>1. requests # <<>> /\ panicked' = Tag /\ ~IsAllowed(Head(requests).cmd)
        BY <3>1, AllowedReachable DEF Panic, RejectedPanic, Runs
      <4> QED
        BY <1>1, <1>2, <4>1
    <3>2. CASE ~(Panic \/ RejectedPanic)
      <4>1. panicked' = panicked
        BY <1>6, <3>2 DEF GreetFails, Hangup, Bye, Broken, HandleLogout, RejectedForGood, UpgradeFails, AcceptedInVain
      <4> QED
        BY <4>1 DEF StateInv
    <3> QED
      BY <3>1, <3>2
  <2>4. /\ state' # "NotAuthenticated" => tries' = 0
        /\ tries' <= failures' \/ tries' = failures' + 1
    <3>1. CASE RejectedForGood
      <4>1. requests # <<>> /\ state = "NotAuthenticated" /\ tries' = tries + 1
        BY <3>1 DEF RejectedForGood, Runs
      <4> QED
        BY <1>1, <1>2, <2>2, <4>1
    <3>2. CASE ~RejectedForGood
      <4>1. tries' = tries
        BY <1>6, <3>2 DEF GreetFails, Hangup, Bye, Panic, Broken, HandleLogout, RejectedPanic, UpgradeFails, AcceptedInVain
      <4> QED
        BY <2>2, <4>1 DEF StateInv
    <3> QED
      BY <3>1, <3>2
  <2> QED
    BY <2>2, <2>3, <2>4 DEF StateInv, HasCmd
<1>7. CASE Replying
  <2>1. /\ requests # <<>> /\ requests' = Tail(requests) /\ UNCHANGED <<batch, panicked, phase>>
    BY <1>7, RepliedBy DEF ImapTyped, RepliedTo, Answered
  <2>2. /\ tries <= failures /\ (state # "NotAuthenticated" => tries = 0) /\ (HasCmd({"Unauthenticate"}) => tries = 0 /\ ~HasCmd(Credentials))
        /\ \A S : Head(requests).cmd \in S => HasCmd(S)
    BY <1>2, <2>1 DEF StateInv, HasCmd
  <2>3. CASE Malformed \/ IdleRefused \/ BadChallenge \/ HandleEnable
    <3>1. UNCHANGED <<state, failures, tries>>
      BY <2>3 DEF Malformed, IdleRefused, BadChallenge, HandleEnable
    <3> QED
      BY <1>4, <1>5, <2>1, <2>2, <3>1
  <2>4. CASE HandleCapability \/ HandleNoop \/ HandleNamespace \/ HandleListRights \/ HandleExpunge
    <3>1. UNCHANGED <<state, failures, tries>>
      BY <2>4 DEF HandleCapability, HandleNoop, HandleNamespace, HandleListRights, HandleExpunge, Inline
    <3> QED
      BY <1>4, <1>5, <2>1, <2>2, <3>1
  <2>5. CASE HandleSelect
    <3>1. UNCHANGED <<failures, tries>> /\ state # "NotAuthenticated"
      BY <2>5 DEF HandleSelect, Runs, Reachable, WithState
    <3> QED
      BY <1>4, <1>5, <2>1, <2>2, <3>1
  <2>6. CASE HandleUnselect \/ HandleClose
    <3>1. UNCHANGED <<failures, tries>> /\ state # "NotAuthenticated"
      BY <2>6 DEF HandleUnselect, HandleClose, Leave, Reachable, Selecting
    <3> QED
      BY <1>4, <1>5, <2>1, <2>2, <3>1
  <2>7. CASE HandleUnauthenticate
    <3>1. failures' = 0 /\ tries' = tries /\ state' = "NotAuthenticated" /\ Head(requests).cmd \in {"Unauthenticate"}
      BY <2>7 DEF HandleUnauthenticate, Runs
    <3> QED
      BY <1>4, <1>5, <2>1, <2>2, <3>1
  <2>8. CASE Accepted
    <3>1. tries' = 0 /\ failures' = failures
      BY <2>8 DEF Accepted
    <3> QED
      BY <1>1, <1>4, <1>5, <2>1, <3>1
  <2>9. CASE Rejected
    <3>1. tries' = tries + 1 /\ failures' = failures + 1 /\ state' = "NotAuthenticated" /\ Head(requests).cmd \in Credentials
      BY <2>9 DEF Rejected, Runs
    <3>2. ~HasCmd({"Unauthenticate"}) /\ tries' <= failures'
      BY <1>1, <2>2, <3>1
    <3> QED
      BY <1>4, <1>5, <2>1, <3>1, <3>2
  <2> QED
    BY <1>7, <2>3, <2>4, <2>5, <2>6, <2>7, <2>8, <2>9 DEF Replying
<1>8. CASE HandleSpawned \/ HandleIdle \/ AskChallenge
  <2>1. requests # <<>> /\ requests' = Tail(requests) /\ UNCHANGED <<batch, panicked, phase, state, failures, tries>>
    BY <1>8 DEF HandleSpawned, HandleIdle, AskChallenge, Runs
  <2>2. tries <= failures /\ (state # "NotAuthenticated" => tries = 0) /\ (HasCmd({"Unauthenticate"}) => tries = 0)
    BY <1>2, <2>1 DEF StateInv
  <2> QED
    BY <1>4, <1>5, <2>1, <2>2
<1>9. CASE HandleGrouped
  <2>1. requests # <<>> /\ requests' = SubSeq(requests, Group + 1, Len(requests)) /\ UNCHANGED <<batch, panicked, phase, state, failures, tries>>
    BY <1>9 DEF HandleGrouped, Runs
  <2>2. tries <= failures /\ (state # "NotAuthenticated" => tries = 0) /\ (HasCmd({"Unauthenticate"}) => tries = 0)
    BY <1>2, <2>1 DEF StateInv
  <2>3. Group \in 1..Len(requests)
    BY <2>1, GroupBounds DEF ImapTyped
  <2> QED
    BY <1>4, <2>1, <2>2, <2>3
<1>10. CASE HandleStartTls \/ AskStream \/ GetStream \/ HandshakeDone \/ EndBatch \/ Greet \/ \E done \in BOOLEAN, more \in 0..1 : ReadIdle(done, more)
  <2>1. requests' = <<>> /\ phase # "closed" /\ UNCHANGED <<state, failures, tries, panicked>>
    BY <1>10 DEF HandleStartTls, Runs, AskStream, GetStream, HandshakeDone, EndBatch, Greet, ReadIdle, ImapTyped
  <2> QED
    BY <1>3, <2>1 DEF StateInv
<1>11. ASSUME NEW n \in 0..MaxBatch, NEW cmds \in [1..n -> Commands], Read(cmds) PROVE StateInv'
  <2>1. n \in Nat
    BY SessionBounds
  <2>2. /\ phase = "reading" /\ batch' = Lines(cmds)[1].tag /\ UNCHANGED <<state, failures, tries, panicked, isSelect, isTls>>
        /\ received + n <= MaxRequests
        /\ (phase' = "running" /\ requests' = Ran(cmds)) \/ (phase' = "closed" /\ UNCHANGED requests)
    BY <1>11, <2>1, ReadIs
  <2>3. requests = <<>> /\ panicked = 0 /\ tries <= failures
    BY <2>2 DEF ImapTyped, StateInv
  <2>4. CASE phase' = "closed" /\ UNCHANGED requests
    BY <1>3, <2>2, <2>3, <2>4
  <2>5. CASE requests' = Ran(cmds)
    <3>1. \A i \in DOMAIN requests' : requests'[i].tag >= batch' /\ IsAllowed(requests'[i].cmd)
      BY <2>1, <2>2, <2>5, ReadSplits
    <3>2. \A c : IsAllowed(c) => IsAllowed(c)'
      BY <2>2 DEF IsAllowed
    <3>3. IsAllowed("Unauthenticate") => state # "NotAuthenticated"
      BY DEF IsAllowed, AnyState, Selecting, Writing
    <3>4. \A c \in Credentials : IsAllowed(c) => state = "NotAuthenticated"
      BY AllowedReachable
    <3>5. HasCmd({"Unauthenticate"})' => state # "NotAuthenticated"
      BY <3>1, <3>3 DEF HasCmd
    <3>6. HasCmd(Credentials)' => state = "NotAuthenticated"
      BY <3>1, <3>4 DEF HasCmd, Credentials
    <3>7. state # "NotAuthenticated" => tries = 0
      BY DEF StateInv
    <3>8. \A i \in DOMAIN requests' : IsAllowed(requests[i].cmd)'
      <4> TAKE i \in DOMAIN requests'
      <4>1. PICK c : c = requests'[i].cmd
        OBVIOUS
      <4>2. IsAllowed(c)'
        BY <3>1, <3>2, <4>1
      <4> QED
        BY <4>1, <4>2 DEF IsAllowed
    <3> QED
      BY <2>2, <2>3, <3>1, <3>5, <3>6, <3>7, <3>8 DEF StateInv
  <2> QED
    BY <2>2, <2>4, <2>5
<1>12. CASE (\E t \in tasks : TaskDone(t) \/ IdleDone(t)) \/ Writes \/ Loses \/ UNCHANGED imapVars
  <2>1. UNCHANGED <<phase, state, failures, isSelect, isTls, requests, batch, panicked, tries>>
    BY <1>12 DEF TaskDone, IdleDone, Writes, Loses, imapVars, session
  <2> QED
    BY <2>1 DEF StateInv, HasCmd, IsAllowed
<1> QED
  BY <1>6, <1>7, <1>8, <1>9, <1>10, <1>11, <1>12 DEF Next, Environment, Handle, Replying

-----------------------------------------------------------------------------
(* UpgradeThenTls: what either session has in the channel around an upgrade.   *)

Mine == {i \in DOMAIN chan : chan[i].by = "session"}
Ups  == {i \in DOMAIN chan : chan[i].kind = "upgrade"}
AskedAt == Ups \cup (IF stream = "lent" THEN {0} ELSE {})

\* No stream is asked for; or TLS has followed; or nothing has.
Clear == Ups = {} /\ stream # "lent"
Past  == Ups = {} /\ (stream = "lent" => Mine # {})
Behind == \A p \in AskedAt, i \in Mine : i <= p

\* The first event of the session after the request for the stream is TLS.
Orderly ==
  /\ Ups \subseteq Mine
  /\ \A p \in AskedAt, i \in Mine : p < i /\ (\A j \in Mine : p < j => i <= j) => chan[i].kind = "tls"

\* Orderly says what UpgradeThenTls says, and that sessions alone ask for the stream.
LEMMA OrderlyUpgrade == Orderly => UpgradeThenTls
<1> SUFFICES ASSUME Orderly PROVE UpgradeThenTls
  OBVIOUS
<1>1. {i \in Mine : chan[i].kind = "upgrade"} = Ups
  BY DEF Orderly, Mine, Ups
<1> QED
  BY <1>1 DEF Orderly, UpgradeThenTls, AskedAt, Mine

\* What is in the channel after es were sent.
LEMMA SentMine ==
  ASSUME chan \in Seq(Events), NEW es \in Seq(Events), chan' = chan \o es, stream' = stream
  PROVE  /\ \A i \in DOMAIN chan : i \in DOMAIN chan' /\ chan'[i] = chan[i] /\ i \in Nat /\ 1 <= i /\ i <= Len(chan)
         /\ \A i \in DOMAIN chan' : i \in DOMAIN chan \/ (i > Len(chan) /\ i \in Nat /\ \E k \in DOMAIN es : i = Len(chan) + k /\ chan'[i] = es[k])
         /\ \A k \in DOMAIN es : Len(chan) + k \in DOMAIN chan' /\ chan'[Len(chan) + k] = es[k] /\ k \in Nat /\ 1 <= k
         /\ Len(chan) \in Nat
<1>1. DOMAIN chan = 1..Len(chan) /\ DOMAIN es = 1..Len(es) /\ Len(chan) \in Nat /\ Len(es) \in Nat
  OBVIOUS
<1>2. DOMAIN chan' = 1..(Len(chan) + Len(es))
  BY <1>1
<1>3. \A i \in 1..(Len(chan) + Len(es)) : chan'[i] = IF i <= Len(chan) THEN chan[i] ELSE es[i - Len(chan)]
  BY <1>1
<1>4. ASSUME NEW i \in DOMAIN chan', i \notin DOMAIN chan
      PROVE  i > Len(chan) /\ i \in Nat /\ \E k \in DOMAIN es : i = Len(chan) + k /\ chan'[i] = es[k]
  <2>1. i \in Nat /\ i > Len(chan) /\ i - Len(chan) \in DOMAIN es /\ i = Len(chan) + (i - Len(chan))
    BY <1>1, <1>2, <1>4
  <2>2. chan'[i] = es[i - Len(chan)]
    BY <1>1, <1>2, <1>3, <2>1
  <2> QED
    BY <2>1, <2>2
<1>5. ASSUME NEW k \in DOMAIN es
      PROVE  Len(chan) + k \in DOMAIN chan' /\ chan'[Len(chan) + k] = es[k] /\ k \in Nat /\ 1 <= k
  <2>1. k \in Nat /\ 1 <= k /\ Len(chan) + k \in 1..(Len(chan) + Len(es)) /\ ~(Len(chan) + k <= Len(chan)) /\ (Len(chan) + k) - Len(chan) = k
    BY <1>1
  <2> QED
    BY <1>2, <1>3, <2>1
<1>6. \A i \in DOMAIN chan : i \in DOMAIN chan' /\ chan'[i] = chan[i] /\ i \in Nat /\ 1 <= i /\ i <= Len(chan)
  BY <1>1, <1>2, <1>3
<1> QED
  BY <1>1, <1>4, <1>5, <1>6

\* A session sends when none is asked for, or when TLS went first.
LEMMA SendPast ==
  ASSUME chan \in Seq(Events), Orderly, Past, NEW es \in Seq(Events), chan' = chan \o es, stream' = stream,
         \A k \in DOMAIN es : es[k].kind # "upgrade"
  PROVE  Orderly' /\ Past' /\ (Clear => Clear')
<1>1. Mine \subseteq Mine' /\ \A i \in Mine' : i \in Mine \/ i > Len(chan)
  BY SentMine DEF Mine
<1>2. Ups' = {}
  BY SentMine DEF Ups, Past
<1>3. Past' /\ (Clear => Clear')
  BY <1>1, <1>2 DEF Past, Clear
<1>4. ASSUME NEW i \in Mine', 0 < i, stream = "lent", \A j \in Mine' : 0 < j => i <= j PROVE chan'[i].kind = "tls"
  <2>1. PICK m \in Mine : TRUE
    BY <1>4 DEF Past
  <2>2. m \in Nat /\ 0 < m /\ m <= Len(chan) /\ Len(chan) \in Nat
    BY SentMine DEF Mine
  <2>3. i <= m
    BY <1>1, <1>4, <2>2
  <2>4. i \in Mine
    <3>1. i \in Nat
      BY SentMine DEF Mine
    <3> QED
      BY <1>1, <2>2, <2>3, <3>1
  <2>5. chan[i].kind = "tls"
    BY <1>1, <1>4, <2>4 DEF Orderly, AskedAt
  <2> QED
    BY <2>4, <2>5, SentMine DEF Mine
<1>5. AskedAt' = IF stream = "lent" THEN {0} ELSE {}
  BY <1>2 DEF AskedAt
<1> QED
  BY <1>2, <1>3, <1>4, <1>5 DEF Orderly

\* A task sends, whatever the session is at.
LEMMA SendTask ==
  ASSUME chan \in Seq(Events), Orderly, NEW es \in Seq(Events), chan' = chan \o es, stream' = stream,
         \A k \in DOMAIN es : es[k].kind # "upgrade" /\ es[k].by # "session"
  PROVE  Orderly' /\ Mine' = Mine /\ Ups' = Ups /\ AskedAt' = AskedAt
<1>1. Mine' = Mine
  BY SentMine DEF Mine
<1>2. Ups' = Ups
  BY SentMine DEF Ups
<1>3. AskedAt' = AskedAt
  BY <1>2 DEF AskedAt
<1>4. \A i \in Mine : chan'[i] = chan[i]
  BY SentMine DEF Mine
<1> QED
  BY <1>1, <1>2, <1>3, <1>4 DEF Orderly

\* After the handshake TLS goes first.
LEMMA SendTls ==
  ASSUME chan \in Seq(Events), Orderly, Behind, Ups = {}, NEW es \in Seq(Events), chan' = chan \o es, stream' = stream,
         1 \in DOMAIN es, es[1].kind = "tls", es[1].by = "session", \A k \in DOMAIN es : es[k].kind # "upgrade"
  PROVE  Orderly' /\ Past'
<1>1. Ups' = {}
  BY SentMine DEF Ups
<1>2. AskedAt' = (IF stream = "lent" THEN {0} ELSE {}) /\ AskedAt = AskedAt'
  BY <1>1 DEF AskedAt
<1> DEFINE f == Len(chan) + 1
<1>3. f \in Mine' /\ chan'[f].kind = "tls" /\ f \in Nat /\ 0 < f /\ Len(chan) \in Nat
  BY SentMine DEF Mine
<1>4. Past'
  BY <1>1, <1>3 DEF Past
<1>5. ASSUME NEW i \in Mine', 0 < i, stream = "lent", \A j \in Mine' : 0 < j => i <= j PROVE chan'[i].kind = "tls"
  <2>1. i <= f
    BY <1>3, <1>5
  <2>2. i \notin DOMAIN chan
    <3>1. i \in DOMAIN chan => i \in Mine
      BY SentMine DEF Mine
    <3>2. i \in Mine => i <= 0
      BY <1>2, <1>5 DEF Behind, AskedAt
    <3>3. i \in Nat
      BY SentMine DEF Mine
    <3> QED
      BY <1>5, <3>1, <3>2, <3>3
  <2>3. i > Len(chan) /\ i \in Nat
    BY <2>2, SentMine DEF Mine
  <2>4. i = f
    BY <1>3, <2>1, <2>3
  <2> QED
    BY <1>3, <2>4
<1> HIDE DEF f
<1> QED
  BY <1>1, <1>2, <1>4, <1>5 DEF Orderly

\* The request for the stream is the last thing that is sent.
LEMMA SendUpgrade ==
  ASSUME chan \in Seq(Events), Orderly, Clear, NEW es \in Seq(Events), chan' = chan \o es, stream' = stream,
         \A k \in DOMAIN es : es[k].kind = "upgrade" <=> k = Len(es), \A k \in DOMAIN es : es[k].by = "session"
  PROVE  Orderly' /\ Behind'
<1>1. \A p \in AskedAt' : p = Len(chan) + Len(es)
  BY SentMine DEF AskedAt, Ups, Clear
<1>2. \A i \in DOMAIN chan' : i <= Len(chan) + Len(es)
  <2>1. DOMAIN chan' = 1..(Len(chan) + Len(es))
    OBVIOUS
  <2> QED
    BY <2>1
<1>3. Behind'
  BY <1>1, <1>2 DEF Behind, Mine
<1>4. Ups' \subseteq Mine'
  <2>1. \A i \in Ups' : i \notin DOMAIN chan
    BY SentMine DEF Ups, Clear
  <2> QED
    BY <2>1, SentMine DEF Ups, Mine
<1>5. \A p \in AskedAt', i \in Mine' : ~(p < i)
  <2>1. \A p \in AskedAt', i \in Mine' : p \in Nat /\ i \in Nat
    BY <1>1, SentMine DEF Mine
  <2> QED
    BY <1>3, <2>1 DEF Behind
<1> QED
  BY <1>3, <1>4, <1>5 DEF Orderly

\* The writer takes the first event: what is behind it moves up by one.
LEMMA TakenMine ==
  ASSUME chan \in Seq(Events), chan # <<>>, chan' = Tail(chan)
  PROVE  /\ \A i \in DOMAIN chan' : i \in Nat /\ i + 1 \in DOMAIN chan /\ chan'[i] = chan[i + 1]
         /\ \A i \in DOMAIN chan : i \in Nat /\ 1 <= i /\ (i # 1 => i - 1 \in DOMAIN chan' /\ chan'[i - 1] = chan[i])
         /\ Head(chan) = chan[1] /\ 1 \in DOMAIN chan
<1>1. Len(chan) \in Nat /\ DOMAIN chan = 1..Len(chan) /\ Len(chan) # 0
  OBVIOUS
<1>2. chan' \in Seq(Events) /\ Len(chan') = Len(chan) - 1 /\ \A i \in 1..(Len(chan) - 1) : chan'[i] = chan[i + 1]
  OBVIOUS
<1>3. DOMAIN chan' = 1..(Len(chan) - 1)
  BY <1>1, <1>2
<1>4. ASSUME NEW i \in DOMAIN chan, i # 1 PROVE i - 1 \in DOMAIN chan' /\ chan'[i - 1] = chan[i]
  <2>1. i - 1 \in 1..(Len(chan) - 1) /\ (i - 1) + 1 = i
    BY <1>1, <1>4
  <2> QED
    BY <1>2, <1>3, <2>1
<1> QED
  BY <1>1, <1>2, <1>3, <1>4

\* The writer keeps what the session sent around the upgrade in order: the stream that
\* it hands out stands for the request that was at the head of the channel.
LEMMA WriterOrderly ==
  ASSUME chan \in Seq(Events), Orderly, NEW b \in BOOLEAN, WriterStep(b) \/ WriterFails
  PROVE  Orderly' /\ (Past => Past') /\ (Clear => Clear') /\ (Behind => Behind') /\ (Ups = {} => Ups' = {})
<1>1. CASE WriterEnds(b) \/ WriterFails
  <2>1. chan' = <<>> /\ stream' = "ended"
    BY <1>1 DEF WriterEnds, WriterFails
  <2> QED
    BY <2>1 DEF Orderly, Past, Clear, Behind, Ups, Mine, AskedAt
<1>2. CASE WriterTakes \/ WriterWrites \/ WriterSwitches
  <2>1. chan # <<>> /\ chan' = Tail(chan)
    BY <1>2 DEF WriterTakes, WriterWrites, WriterSwitches
  <2>2. stream' = "lent" => Head(chan).kind = "upgrade"
    BY <1>2 DEF WriterTakes, WriterWrites, WriterSwitches, Took
  <2>3. \A p \in Ups' : p \in Nat /\ p + 1 \in Ups
    BY <2>1, TakenMine DEF Ups
  <2>4. stream' = "lent" => 1 \in Ups
    BY <2>1, <2>2, TakenMine DEF Ups
  <2>5. \A p \in AskedAt' : p \in Nat /\ p + 1 \in AskedAt
    BY <2>3, <2>4 DEF AskedAt
  <2>6. \A i \in Mine' : i \in Nat /\ i + 1 \in Mine
    BY <2>1, TakenMine DEF Mine
  <2>7. \A i \in Mine : i \in Nat /\ (i # 1 => i - 1 \in Mine')
    BY <2>1, TakenMine DEF Mine
  <2>8. Behind => Behind'
    BY <2>5, <2>6 DEF Behind
  <2>9. Ups' \subseteq Mine'
    <3> SUFFICES ASSUME NEW i \in Ups' PROVE i \in Mine'
      OBVIOUS
    <3>1. i \in Nat /\ i + 1 \in Mine /\ i \in DOMAIN chan' /\ i + 1 # 1 /\ (i + 1) - 1 = i
      BY <2>1, <2>3, TakenMine DEF Orderly, Ups
    <3> QED
      BY <2>7, <3>1
  <2>10. ASSUME NEW p \in AskedAt', NEW i \in Mine', p < i, \A j \in Mine' : p < j => i <= j PROVE chan'[i].kind = "tls"
    <3>1. p \in Nat /\ i \in Nat /\ p + 1 \in AskedAt /\ i + 1 \in Mine /\ p + 1 < i + 1
      BY <2>5, <2>6, <2>10
    <3>2. \A j \in Mine : p + 1 < j => i + 1 <= j
      <4> SUFFICES ASSUME NEW j \in Mine, p + 1 < j PROVE i + 1 <= j
        OBVIOUS
      <4>1. j \in Nat /\ j # 1 /\ p < j - 1
        BY <2>7, <3>1
      <4>2. i <= j - 1
        BY <2>7, <2>10, <4>1
      <4> QED
        BY <3>1, <4>1, <4>2
    <3>3. chan[i + 1].kind = "tls"
      BY <3>1, <3>2 DEF Orderly
    <3> QED
      BY <2>1, <3>3, TakenMine DEF Mine
  <2>11. Orderly'
    BY <2>9, <2>10 DEF Orderly
  <2> QED
    BY <2>3, <2>4, <2>8, <2>11 DEF Past, Clear
<1> QED
  BY <1>1, <1>2 DEF WriterStep

\* Where an IMAP session stands to the upgrade, in each of its phases.
UpInv ==
  /\ Orderly
  /\ phase \in {"accept", "upgrade"} => Clear
  /\ phase \in {"reading", "running"} => Past /\ (~isTls => Clear)
  /\ phase \in {"lending", "handshake"} => Behind
  /\ phase = "handshake" => Ups = {}
  /\ phase \in {"upgrade", "lending", "handshake"} \/ HasCmd({"StartTls"}) => ~isTls

\* The channel and the stream as they were.
LEMMA QuietUp ==
  ASSUME UNCHANGED <<chan, stream>>
  PROVE  (Orderly => Orderly') /\ (Past => Past') /\ (Clear => Clear') /\ (Behind => Behind') /\ Ups' = Ups
BY DEF Orderly, Past, Clear, Behind, Ups, Mine, AskedAt

\* Answers of a session, or none.
LEMMA SaysPast ==
  ASSUME chan \in Seq(Events), Orderly, Past, stream' = stream,
         \/ UNCHANGED chan
         \/ \E tag \in Nat : \/ Send(<<Bytes(tag, "session")>>)
                             \/ Send(<<Bytes(tag, "session"), Bytes(0, "session")>>)
                             \/ Send(<<Event("stream", tag, "session")>>) \/ Send(<<Event("tls", tag, "session")>>)
                             \/ Send(<<Event("stream", tag, "session"), Bytes(0, "session")>>)
  PROVE  Orderly' /\ Past' /\ (Clear => Clear')
<1>1. CASE UNCHANGED chan
  BY <1>1, QuietUp
<1>2. ASSUME NEW tag \in Nat, NEW es, es \in Seq(Events), Send(es), \A k \in DOMAIN es : es[k].kind # "upgrade"
      PROVE  Orderly' /\ Past' /\ (Clear => Clear')
  BY <1>2, SendPast DEF Send
<1>3. ASSUME NEW tag \in Nat, NEW k \in {"bytes", "stream", "tls"}
      PROVE  /\ <<Event(k, tag, "session")>> \in Seq(Events) /\ <<Event(k, tag, "session"), Bytes(0, "session")>> \in Seq(Events)
             /\ \A i \in DOMAIN <<Event(k, tag, "session")>> : <<Event(k, tag, "session")>>[i].kind # "upgrade"
             /\ \A i \in DOMAIN <<Event(k, tag, "session"), Bytes(0, "session")>> :
                  <<Event(k, tag, "session"), Bytes(0, "session")>>[i].kind # "upgrade"
  BY <1>3 DEF Event, Bytes, Events, EventKinds
<1>4. ASSUME NEW tag \in Nat, NEW k \in {"bytes", "stream", "tls"},
             Send(<<Event(k, tag, "session")>>) \/ Send(<<Event(k, tag, "session"), Bytes(0, "session")>>)
      PROVE  Orderly' /\ Past' /\ (Clear => Clear')
  BY <1>2, <1>3, <1>4
<1>5. ASSUME NEW tag \in Nat PROVE Bytes(tag, "session") = Event("bytes", tag, "session")
  BY DEF Bytes
<1> QED
  BY <1>1, <1>4, <1>5

\* In every step of an IMAP session.
LEMMA UpStep ==
  ASSUME ImapTyped, UpInv, [Next]_imapVars
  PROVE  UpInv'
<1>1. chan \in Seq(Events) /\ 0 \in Nat
  BY DEF ImapTyped
<1>2. ASSUME requests # <<>> PROVE phase = "running" /\ Tag \in Nat
  BY <1>2, HeadTyped DEF ImapTyped
<1>3. ASSUME requests' = <<>> PROVE ~HasCmd({"StartTls"})'
  BY <1>3 DEF HasCmd
<1>4. CASE \/ GreetFails \/ Hangup \/ Bye \/ Panic \/ Broken \/ HandleLogout \/ RejectedForGood \/ RejectedPanic
           \/ UpgradeFails \/ \E b \in BOOLEAN : AcceptedInVain(b)
  <2>1. phase' = "closed" /\ requests' = <<>> /\ stream' = stream
    BY <1>4, EndedBy DEF Ended, Drop
  <2>2. \/ UNCHANGED chan
        \/ phase \in {"reading", "running"} /\ \E tag \in Nat :
             Send(<<Bytes(tag, "session")>>) \/ Send(<<Bytes(tag, "session"), Bytes(0, "session")>>)
    <3>1. CASE GreetFails \/ Hangup \/ UpgradeFails \/ Panic \/ Broken
      BY <3>1 DEF GreetFails, Hangup, UpgradeFails, Panic, Broken, writerVars
    <3>2. CASE Bye
      BY <1>1, <3>2 DEF Bye
    <3>3. CASE HandleLogout \/ RejectedForGood \/ RejectedPanic
      BY <1>2, <3>3 DEF HandleLogout, RejectedForGood, RejectedPanic, Runs
    <3>4. CASE \E b \in BOOLEAN : AcceptedInVain(b)
      BY <1>2, <3>4 DEF AcceptedInVain, Runs
    <3> QED
      BY <1>4, <3>1, <3>2, <3>3, <3>4
  <2>3. Orderly'
    BY <1>1, <2>1, <2>2, SaysPast, QuietUp DEF UpInv
  <2> QED
    BY <1>3, <2>1, <2>3 DEF UpInv
<1>5. ASSUME requests # <<>>, UNCHANGED <<isTls, stream, phase>>,
             UNCHANGED chan \/ (\E tag \in Nat : Send(<<Bytes(tag, "session")>>)),
             \A i \in DOMAIN requests' : \E k \in DOMAIN requests : requests'[i] = requests[k]
      PROVE  UpInv'
  <2>1. phase = "running" /\ Orderly /\ Past /\ (~isTls => Clear) /\ (HasCmd({"StartTls"}) => ~isTls)
    BY <1>2, <1>5 DEF UpInv
  <2>2. Orderly' /\ Past' /\ (Clear => Clear')
    BY <1>1, <1>5, <2>1, SaysPast
  <2>3. HasCmd({"StartTls"})' => HasCmd({"StartTls"})
    BY <1>5 DEF HasCmd
  <2> QED
    BY <1>5, <2>1, <2>2, <2>3 DEF UpInv
<1>6. ASSUME requests # <<>>
      PROVE  \A i \in DOMAIN Tail(requests) : \E k \in DOMAIN requests : Tail(requests)[i] = requests[k]
  <2>1. requests \in Seq([tag : 1..received, cmd : Cmds])
    BY DEF ImapTyped
  <2> QED
    BY <1>6, <2>1, TailOf
<1>7. CASE Replying
  <2>1. /\ requests # <<>> /\ requests' = Tail(requests) /\ UNCHANGED <<isTls, stream, phase>> /\ Send(<<Bytes(Tag, "session")>>)
    BY <1>7, RepliedBy DEF ImapTyped, RepliedTo, Answered
  <2> QED
    BY <1>2, <1>5, <1>6, <2>1
<1>8. CASE HandleSpawned \/ HandleIdle \/ AskChallenge
  <2>1. /\ requests # <<>> /\ requests' = Tail(requests) /\ UNCHANGED <<isTls, stream, phase>>
        /\ UNCHANGED chan \/ Send(<<Bytes(0, "session")>>)
    BY <1>8 DEF HandleSpawned, HandleIdle, AskChallenge, Runs, writerVars
  <2> QED
    BY <1>1, <1>5, <1>6, <2>1
<1>9. CASE HandleGrouped
  <2>1. /\ requests # <<>> /\ requests' = SubSeq(requests, Group + 1, Len(requests)) /\ UNCHANGED <<isTls, stream, phase, chan>>
    BY <1>9 DEF HandleGrouped, Runs, writerVars
  <2>2. PICK g \in 1..Len(requests) : g = Group
    BY <2>1, GroupBounds DEF ImapTyped
  <2>3. \A i \in DOMAIN requests' : \E k \in DOMAIN requests : requests'[i] = requests[k]
    <3> DEFINE R == [tag : 1..received, cmd : Cmds]
    <3>1. requests \in Seq(R) /\ requests' = SubSeq(requests, g + 1, Len(requests))
      BY <2>1, <2>2 DEF ImapTyped
    <3> HIDE DEF R
    <3>2. Len(requests') = Len(requests) - g /\ requests' \in Seq(R)
      BY <3>1
    <3>3. DOMAIN requests' = 1..(Len(requests) - g)
      BY <3>2
    <3>4. \A i \in 1..(Len(requests) - g) : requests'[i] = requests[i + g] /\ i + g \in DOMAIN requests
      BY <3>1
    <3> QED
      BY <3>3, <3>4
  <2> QED
    BY <1>5, <2>1, <2>3
<1>10. CASE Greet
  <2>1. /\ phase = "accept" /\ phase' = "reading" /\ UNCHANGED <<stream, isTls, requests>> /\ requests = <<>>
        /\ Send(<<Event("tls", 0, "session")>>) \/ Send(<<Event("stream", 0, "session")>>)
    BY <1>10 DEF Greet, ImapTyped
  <2>2. Orderly /\ Clear /\ Past
    BY <2>1 DEF UpInv, Past, Clear
  <2>3. Orderly' /\ Past' /\ Clear'
    BY <1>1, <2>1, <2>2, SaysPast
  <2> QED
    BY <1>3, <2>1, <2>3 DEF UpInv
<1>11. CASE HandleStartTls
  <2>1. /\ phase = "running" /\ phase' = "upgrade" /\ UNCHANGED <<stream, isTls>> /\ requests' = <<>>
        /\ Send(<<Bytes(Tag, "session")>>) /\ HasCmd({"StartTls"}) /\ Tag \in Nat
    BY <1>11, <1>2, HeadTyped DEF HandleStartTls, Runs, HasCmd
  <2>2. Orderly /\ Clear /\ Past /\ ~isTls
    BY <2>1 DEF UpInv
  <2>3. Orderly' /\ Clear'
    BY <1>1, <2>1, <2>2, SaysPast
  <2> QED
    BY <1>3, <2>1, <2>2, <2>3 DEF UpInv
<1>12. CASE AskStream
  <2> DEFINE es == <<Event("upgrade", 0, "session")>>
  <2>1. /\ phase = "upgrade" /\ phase' = "lending" /\ UNCHANGED <<stream, isTls, requests>> /\ requests = <<>>
        /\ chan' = chan \o es
    BY <1>12 DEF AskStream, ImapTyped, Send
  <2>2. Orderly /\ Clear /\ ~isTls
    BY <2>1 DEF UpInv
  <2>3. es \in Seq(Events) /\ Len(es) = 1 /\ \A k \in DOMAIN es : es[k].kind = "upgrade" /\ k = 1 /\ es[k].by = "session"
    BY DEF Event, Events, EventKinds
  <2> HIDE DEF es
  <2>4. Orderly' /\ Behind'
    BY <1>1, <2>1, <2>2, <2>3, SendUpgrade
  <2> QED
    BY <1>3, <2>1, <2>2, <2>4 DEF UpInv
<1>13. CASE GetStream
  <2>1. /\ phase = "lending" /\ phase' = "handshake" /\ UNCHANGED <<stream, chan, isTls, requests>> /\ Ups = {}
    BY <1>13 DEF GetStream, writerVars, Ups
  <2> QED
    BY <2>1, QuietUp DEF UpInv, HasCmd
<1>14. CASE HandshakeDone
  <2> DEFINE es == <<Event("tls", 0, "session")>>
  <2>1. /\ phase = "handshake" /\ phase' = "reading" /\ UNCHANGED <<stream, requests>> /\ requests = <<>> /\ isTls'
        /\ chan' = chan \o es
    BY <1>14 DEF HandshakeDone, ImapTyped, Send
  <2>2. es \in Seq(Events) /\ 1 \in DOMAIN es /\ \A k \in DOMAIN es : es[k].kind = "tls" /\ es[k].by = "session"
    BY DEF Event, Events, EventKinds
  <2> HIDE DEF es
  <2>3. Orderly' /\ Past'
    BY <1>1, <2>1, <2>2, SendTls DEF UpInv
  <2> QED
    BY <1>3, <2>1, <2>3 DEF UpInv
<1>15. CASE EndBatch \/ \E done \in BOOLEAN, more \in 0..1 : ReadIdle(done, more)
  <2>1. phase \in {"reading", "running"} /\ phase' \in {"reading", "running"} /\ UNCHANGED <<chan, stream, requests, isTls>>
    BY <1>15 DEF EndBatch, ReadIdle, writerVars
  <2> QED
    BY <2>1, QuietUp DEF UpInv, HasCmd
<1>16. ASSUME NEW n \in 0..MaxBatch, NEW cmds \in [1..n -> Commands], Read(cmds) PROVE UpInv'
  <2>1. n \in Nat
    BY SessionBounds
  <2>2. /\ phase = "reading" /\ UNCHANGED <<isTls, stream, state, isSelect>> /\ received + n <= MaxRequests
        /\ \/ phase' = "running" /\ requests' = Ran(cmds) /\ (UNCHANGED chan \/ Send(Refusals(cmds)))
           \/ phase' = "closed" /\ UNCHANGED <<requests, chan>>
    BY <1>16, <2>1, ReadIs
  <2>3. Orderly /\ Past /\ (~isTls => Clear) /\ requests = <<>>
    BY <2>2 DEF UpInv, ImapTyped
  <2>4. CASE phase' = "closed" /\ UNCHANGED <<requests, chan>>
    BY <1>3, <2>2, <2>3, <2>4, QuietUp DEF UpInv
  <2>5. CASE phase' = "running" /\ requests' = Ran(cmds) /\ (UNCHANGED chan \/ Send(Refusals(cmds)))
    <3>1. Refusals(cmds) \in Seq(Events)
      BY <2>1, <2>2, RefusalsTyped
    <3>2. \A k \in DOMAIN Refusals(cmds) : Refusals(cmds)[k].kind # "upgrade"
      BY DEF Refusals, Bytes, Event
    <3>3. Orderly' /\ Past' /\ (Clear => Clear')
      BY <1>1, <2>2, <2>3, <2>5, <3>1, <3>2, SendPast, QuietUp DEF Send
    <3>4. \A i \in DOMAIN requests' : IsAllowed(requests'[i].cmd)
      BY <2>1, <2>2, <2>5, ReadSplits
    <3>5. IsAllowed("StartTls") => ~isTls
      BY DEF IsAllowed, AnyState, WithState, Selecting, Writing
    <3>6. HasCmd({"StartTls"})' => ~isTls
      BY <3>4, <3>5 DEF HasCmd
    <3> QED
      BY <2>2, <2>3, <2>5, <3>3, <3>6 DEF UpInv
  <2> QED
    BY <2>2, <2>4, <2>5
<1>17. ASSUME NEW t \in tasks, TaskDone(t) \/ IdleDone(t) PROVE UpInv'
  <2>1. UNCHANGED <<phase, isTls, requests, stream>> /\ (UNCHANGED chan \/ Send(<<Bytes(Head(t.tags), "task")>>))
    BY <1>17 DEF TaskDone, IdleDone
  <2>2. CASE UNCHANGED chan
    BY <2>1, <2>2, QuietUp DEF UpInv, HasCmd
  <2>3. CASE Send(<<Bytes(Head(t.tags), "task")>>)
    <3> DEFINE es == <<Bytes(Head(t.tags), "task")>>
    <3>1. Head(t.tags) \in Nat
      <4>1. t.tags \in Seq(Nat) /\ t.tags # <<>>
        BY DEF ImapTyped, TypeOK, TaskRecords
      <4> QED
        BY <4>1
    <3>2. es \in Seq(Events) /\ \A k \in DOMAIN es : es[k].kind # "upgrade" /\ es[k].by # "session"
      BY <3>1 DEF Bytes, Event, Events, EventKinds
    <3>3. chan' = chan \o es
      BY <2>3 DEF Send
    <3> HIDE DEF es
    <3>4. Orderly' /\ Mine' = Mine /\ Ups' = Ups /\ AskedAt' = AskedAt
      BY <1>1, <2>1, <3>2, <3>3, SendTask DEF UpInv
    <3> QED
      BY <2>1, <3>4 DEF UpInv, HasCmd, Past, Clear, Behind
  <2> QED
    BY <2>1, <2>2, <2>3
<1>18. CASE Writes \/ Loses
  <2>1. PICK b \in BOOLEAN : WriterStep(b) \/ WriterFails
    BY <1>18 DEF Writes, Loses, Senders
  <2>2. UNCHANGED <<phase, isTls, requests>>
    BY <1>18 DEF Writes, Loses, session
  <2>3. Orderly' /\ (Past => Past') /\ (Clear => Clear') /\ (Behind => Behind') /\ (Ups = {} => Ups' = {})
    BY <1>1, <2>1, WriterOrderly DEF UpInv
  <2> QED
    BY <2>2, <2>3 DEF UpInv, HasCmd
<1>19. CASE UNCHANGED imapVars
  BY <1>19, QuietUp DEF UpInv, HasCmd, imapVars, session, writerVars
<1> QED
  BY <1>4, <1>7, <1>8, <1>9, <1>10, <1>11, <1>12, <1>13, <1>14, <1>15, <1>16, <1>17, <1>18, <1>19
     DEF Next, Environment, Handle, Replying

-----------------------------------------------------------------------------
(* The ManageSieve session, for any scripts, names, commands and bounds.       *)

AnyName == Names \cup {NoName}
SieveReqs(n) == [tag : 1..n, cmd : SieveCommands \cup {"Challenge"}, name : AnyName, new : AnyName]

\* What SieveTypeOK leaves open.
SieveTyped ==
  /\ SieveTypeOK
  /\ chan \in Seq(Events)
  /\ queue \in Seq(SieveReqs(count))
  /\ resumed <= count /\ crashed <= count
  /\ group \in Nat /\ others \in Nat /\ replies \in Seq(Nat)
  /\ link # "running" => queue = <<>>

\* A read: the challenge that AUTHENTICATE waits for, then new requests; which run, and which do not.
SLines(cmds) ==
  (IF resumed # 0 THEN <<SieveRequest(resumed, "Challenge", NoName, NoName)>> ELSE <<>>)
    \o [i \in DOMAIN cmds |-> SieveRequest(count + i, cmds[i][1], cmds[i][2], cmds[i][3])]
SRuns(cmds)    == Picked(SLines(cmds), {i \in DOMAIN SLines(cmds) : SieveAllows(SLines(cmds)[i].cmd)})
SRefuses(cmds) == Picked(SLines(cmds), {i \in DOMAIN SLines(cmds) : ~SieveAllows(SLines(cmds)[i].cmd)})

\* The lines are requests whose tags ascend.
LEMMA SLinesAscend ==
  ASSUME SieveTyped, NEW n \in Nat, NEW cmds \in [1..n -> SieveLines]
  PROVE  /\ SLines(cmds) \in Seq(SieveReqs(count + n)) /\ Ascending(SLines(cmds))
         /\ \A i \in DOMAIN SLines(cmds) :
              SLines(cmds)[i].tag > count \/ (resumed # 0 /\ SLines(cmds)[i].tag = resumed)
<1> DEFINE R == SieveReqs(count + n)
           new == [i \in 1..n |-> SieveRequest(count + i, cmds[i][1], cmds[i][2], cmds[i][3])]
<1>1. count \in Nat /\ resumed \in Nat /\ resumed <= count /\ DOMAIN cmds = 1..n
  BY SieveAssumption DEF SieveTyped, SieveTypeOK
<1>2. new \in Seq(R) /\ Len(new) = n /\ \A i \in 1..n : new[i].tag = count + i
  <2>1. \A i \in 1..n : new[i] = [tag |-> count + i, cmd |-> cmds[i][1], name |-> cmds[i][2], new |-> cmds[i][3]]
    BY DEF SieveRequest
  <2>2. \A i \in 1..n : count + i \in 1..(count + n) /\ cmds[i][1] \in SieveCommands /\ cmds[i][2] \in AnyName /\ cmds[i][3] \in AnyName
    <3> TAKE i \in 1..n
    <3>1. cmds[i] \in SieveCommands \X AnyName \X AnyName
      BY DEF SieveLines, AnyName
    <3> QED
      BY <1>1, <3>1
  <2>3. \A i \in 1..n : new[i] \in R /\ new[i].tag = count + i
    <3> HIDE DEF new
    <3> TAKE i \in 1..n
    <3>1. [tag |-> count + i, cmd |-> cmds[i][1], name |-> cmds[i][2], new |-> cmds[i][3]] \in R
      BY <2>2 DEF SieveReqs
    <3> QED
      BY <2>1, <3>1
  <2>4. DOMAIN new = 1..n /\ new = [i \in 1..n |-> new[i]]
    OBVIOUS
  <2> HIDE DEF new, R
  <2>5. new \in [1..n -> R]
    BY <2>3, <2>4
  <2> QED
    BY <2>3, <2>5
<1>3. CASE resumed = 0
  <2>1. SLines(cmds) = <<>> \o new
    BY <1>1, <1>3 DEF SLines
  <2> HIDE DEF new, R
  <2>2. SLines(cmds) = new
    BY <1>2, <2>1
  <2>3. DOMAIN new = 1..n
    BY <1>2
  <2> QED
    BY <1>1, <1>2, <2>2, <2>3 DEF Ascending, R
<1>4. CASE resumed # 0
  <2> DEFINE first == SieveRequest(resumed, "Challenge", NoName, NoName)
  <2>1. first \in R /\ first.tag = resumed
    BY <1>1, <1>4 DEF SieveRequest, SieveReqs, AnyName
  <2>2. SLines(cmds) = <<first>> \o new
    BY <1>1, <1>4 DEF SLines
  <2> HIDE DEF new, first, R
  <2>3. SLines(cmds) \in Seq(R) /\ Len(SLines(cmds)) = n + 1
    BY <1>2, <2>1, <2>2
  <2>4. SLines(cmds)[1].tag = resumed /\ \A i \in 2..(n + 1) : SLines(cmds)[i].tag = count + (i - 1)
    BY <1>2, <2>1, <2>2
  <2>5. DOMAIN SLines(cmds) = 1..(n + 1)
    BY <2>3
  <2>6. \A i \in DOMAIN SLines(cmds) : i = 1 \/ i \in 2..(n + 1)
    BY <2>5
  <2>7. Ascending(SLines(cmds))
    BY <1>1, <2>4, <2>5, <2>6 DEF Ascending
  <2>8. \A i \in DOMAIN SLines(cmds) : SLines(cmds)[i].tag > count \/ SLines(cmds)[i].tag = resumed
    BY <1>1, <1>4, <2>4, <2>5, <2>6
  <2> QED
    BY <1>4, <2>3, <2>7, <2>8 DEF R
<1> QED
  BY <1>3, <1>4

\* The members of an ascending sequence at some of its positions ascend.
LEMMA PickedAscend ==
  ASSUME NEW R, NEW lines \in Seq(R), Ascending(lines), NEW V \in SUBSET (DOMAIN lines)
  PROVE  /\ Picked(lines, V) \in Seq(R) /\ Ascending(Picked(lines, V))
         /\ \A i \in DOMAIN Picked(lines, V) : \E k \in V : Picked(lines, V)[i] = lines[k]
<1>1. /\ Cardinality(V) \in Nat /\ Picked(lines, V) \in Seq(R) /\ Len(Picked(lines, V)) = Cardinality(V)
      /\ InOrder(Picked(lines, V), lines, V)
  BY PickedFrom
<1>2. PICK at \in [1..Cardinality(V) -> V] :
            /\ \A i \in 1..Cardinality(V) : Picked(lines, V)[i] = lines[at[i]]
            /\ \A i, j \in 1..Cardinality(V) : i < j => at[i] < at[j]
  BY <1>1 DEF InOrder
<1>3. DOMAIN Picked(lines, V) = 1..Cardinality(V)
  BY <1>1
<1>4. \A i \in 1..Cardinality(V) : at[i] \in V /\ at[i] \in DOMAIN lines
  BY <1>2
<1> QED
  BY <1>1, <1>2, <1>3, <1>4 DEF Ascending

\* A read is split into what runs and what is refused; all but its first line are pipelined.
LEMMA SReadSplits ==
  ASSUME SieveTyped, NEW n \in Nat, NEW cmds \in [1..n -> SieveLines], SLines(cmds) # <<>>
  PROVE  /\ SRuns(cmds) \in Seq(SieveReqs(count + n)) /\ Ascending(SRuns(cmds))
         /\ SRefuses(cmds) \in Seq(SieveReqs(count + n)) /\ Ascending(SRefuses(cmds))
         /\ \A i \in DOMAIN SRuns(cmds) : \E k \in DOMAIN SLines(cmds) : SRuns(cmds)[i] = SLines(cmds)[k] /\ SieveAllows(SLines(cmds)[k].cmd)
         /\ \A i \in DOMAIN SRefuses(cmds) : \E k \in DOMAIN SLines(cmds) : SRefuses(cmds)[i] = SLines(cmds)[k]
         /\ SLines(cmds)[1].tag \in 1..(count + n)
         /\ \A k \in DOMAIN SLines(cmds) : SLines(cmds)[k].tag \in 1..(count + n)
         /\ \A k \in DOMAIN SLines(cmds) :
              SLines(cmds)[k].tag = SLines(cmds)[1].tag
              \/ (SLines(cmds)[k].tag > SLines(cmds)[1].tag /\ SLines(cmds)[k].tag \in {SLines(cmds)[i].tag : i \in 2..Len(SLines(cmds))})
<1> DEFINE R == SieveReqs(count + n)
           lines == SLines(cmds)
           S == {i \in DOMAIN lines : SieveAllows(lines[i].cmd)}
           U == {i \in DOMAIN lines : ~SieveAllows(lines[i].cmd)}
<1>1. lines \in Seq(R) /\ Ascending(lines) /\ lines # <<>>
  BY SLinesAscend
<1>2. \A x \in R : x.tag \in 1..(count + n)
  BY DEF SieveReqs
<1>3. SRuns(cmds) = Picked(lines, S) /\ SRefuses(cmds) = Picked(lines, U)
  BY DEF SRuns, SRefuses
<1> HIDE DEF lines, R
<1>4. S \in SUBSET (DOMAIN lines) /\ U \in SUBSET (DOMAIN lines) /\ \A k \in S : SieveAllows(lines[k].cmd)
  OBVIOUS
<1> HIDE DEF S, U
<1>5. /\ SRuns(cmds) \in Seq(R) /\ Ascending(SRuns(cmds))
      /\ \A i \in DOMAIN SRuns(cmds) : \E k \in S : SRuns(cmds)[i] = lines[k]
  BY <1>1, <1>3, <1>4, PickedAscend
<1>6. /\ SRefuses(cmds) \in Seq(R) /\ Ascending(SRefuses(cmds))
      /\ \A i \in DOMAIN SRefuses(cmds) : \E k \in U : SRefuses(cmds)[i] = lines[k]
  BY <1>1, <1>3, <1>4, PickedAscend
<1>7. /\ DOMAIN lines = 1..Len(lines) /\ Len(lines) \in Nat /\ 1 \in DOMAIN lines
      /\ \A k \in DOMAIN lines : lines[k] \in R
  BY <1>1
<1>8. \A k \in DOMAIN lines : lines[k].tag \in 1..(count + n)
  BY <1>2, <1>7
<1>9. \A k \in DOMAIN lines : lines[k].tag = lines[1].tag
              \/ (lines[k].tag > lines[1].tag /\ lines[k].tag \in {lines[i].tag : i \in 2..Len(lines)})
  <2> SUFFICES ASSUME NEW k \in DOMAIN lines, k # 1
               PROVE  lines[k].tag > lines[1].tag /\ lines[k].tag \in {lines[i].tag : i \in 2..Len(lines)}
    OBVIOUS
  <2>1. k \in 2..Len(lines) /\ 1 < k
    BY <1>7
  <2>2. lines[1].tag < lines[k].tag /\ lines[1].tag \in Int /\ lines[k].tag \in Int
    BY <1>1, <1>7, <1>8, <2>1 DEF Ascending
  <2> QED
    BY <2>1, <2>2
<1> QED
  BY <1>4, <1>5, <1>6, <1>7, <1>8, <1>9 DEF R, lines

\* What SieveRead does, in the terms above.
STags(cmds) == [i \in DOMAIN SRefuses(cmds) |-> SRefuses(cmds)[i].tag]
SAnswers(cmds) == [i \in DOMAIN SRefuses(cmds) |-> Bytes(SRefuses(cmds)[i].tag, "session")]

\* A read of a ManageSieve session, spelled out.
LEMMA SReadIs ==
  ASSUME NEW n \in Nat, NEW cmds \in [1..n -> SieveLines], SieveRead(cmds)
  PROVE  /\ link = "reading" /\ SLines(cmds) # <<>> /\ count + n <= MaxSieve /\ count' = count + n
         /\ group' = SLines(cmds)[1].tag /\ resumed' = 0 /\ queue' = SRuns(cmds) /\ link' = "running"
         /\ piped' = piped \cup {SLines(cmds)[i].tag : i \in 2..Len(SLines(cmds))}
         /\ replies' = replies \o STags(cmds) /\ Send(SAnswers(cmds))
         /\ bore' = IF queue' = <<>> THEN {} ELSE Called(Head(queue').name)
         /\ UNCHANGED <<client, attempts, secure, found, server, crashed, stream, written>>
<1>1. Len(cmds) = n
  OBVIOUS
<1>2. /\ link = "reading" /\ SLines(cmds) # <<>> /\ count + Len(cmds) <= MaxSieve /\ count' = count + Len(cmds)
      /\ group' = SLines(cmds)[1].tag /\ resumed' = 0 /\ queue' = SRuns(cmds) /\ link' = "running"
      /\ piped' = piped \cup {SLines(cmds)[i].tag : i \in 2..Len(SLines(cmds))}
      /\ replies' = replies \o STags(cmds) /\ Send(SAnswers(cmds))
      /\ bore' = IF queue' = <<>> THEN {} ELSE Called(Head(queue').name)
      /\ UNCHANGED <<client, attempts, secure, found, server, crashed, stream, written>>
  BY Zenon DEF SieveRead, SLines, SRuns, SRefuses, STags, SAnswers
<1> QED
  BY <1>1, <1>2

\* The answers to the requests that are refused.
LEMMA SAnswersTyped ==
  ASSUME SieveTyped, NEW n \in Nat, NEW cmds \in [1..n -> SieveLines], SLines(cmds) # <<>>
  PROVE  /\ SAnswers(cmds) \in Seq(Events) /\ STags(cmds) \in Seq(Nat) /\ Len(STags(cmds)) = Len(SRefuses(cmds))
         /\ \A k \in DOMAIN SAnswers(cmds) : SAnswers(cmds)[k].kind # "upgrade"
         /\ \A i \in DOMAIN SRefuses(cmds) : STags(cmds)[i] = SRefuses(cmds)[i].tag
<1>1. count + n \in Nat
  BY SieveAssumption DEF SieveTyped, SieveTypeOK
<1>2. SRefuses(cmds) \in Seq(SieveReqs(count + n)) /\ Len(SRefuses(cmds)) \in Nat
  BY SReadSplits
<1>3. \A i \in DOMAIN SRefuses(cmds) : SRefuses(cmds)[i].tag \in Nat
  <2> TAKE i \in DOMAIN SRefuses(cmds)
  <2>1. SRefuses(cmds)[i].tag \in 1..(count + n)
    BY SReadSplits
  <2> QED
    BY <1>1, <2>1
<1>4. \A i \in DOMAIN SRefuses(cmds) : SAnswers(cmds)[i] = [kind |-> "bytes", tag |-> SRefuses(cmds)[i].tag, by |-> "session"]
  BY DEF SAnswers, Bytes, Event
<1>5. \A i \in DOMAIN SRefuses(cmds) : SAnswers(cmds)[i] \in Events
  <2> TAKE i \in DOMAIN SRefuses(cmds)
  <2>1. [kind |-> "bytes", tag |-> SRefuses(cmds)[i].tag, by |-> "session"] \in Events
    BY <1>3 DEF Events, EventKinds
  <2> QED
    BY <1>4, <2>1
<1>6. DOMAIN SRefuses(cmds) = 1..Len(SRefuses(cmds))
  BY <1>2
<1>7. SAnswers(cmds) \in [1..Len(SRefuses(cmds)) -> Events]
  BY <1>5, <1>6 DEF SAnswers
<1>8. STags(cmds) \in [1..Len(SRefuses(cmds)) -> Nat]
  BY <1>3, <1>6 DEF STags
<1>9. SAnswers(cmds) \in Seq(Events) /\ STags(cmds) \in Seq(Nat) /\ Len(STags(cmds)) = Len(SRefuses(cmds))
  BY <1>2, <1>7, <1>8, SMTT(30)
<1>10. DOMAIN SAnswers(cmds) = DOMAIN SRefuses(cmds)
  BY DEF SAnswers
<1> QED
  BY <1>4, <1>9, <1>10 DEF STags

\* The handlers that answer and let the next request run.
SieveReplied ==
  /\ link = "running" /\ queue # <<>> /\ Replied
  /\ UNCHANGED <<resumed, others>>
  /\ client' \in BOOLEAN /\ attempts' \in 0..MaxAttempts
  /\ scripts' \in [Scripts -> AnyName] /\ active' \subseteq Scripts

SieveReplying ==
  \/ SieveRefused \/ SieveCapability \/ SieveNoop \/ HaveSpace \/ ListScripts \/ CheckScript
  \/ PutScript \/ GetScript \/ SetActive \/ Deactivate \/ DeleteScript \/ RenameScript
  \/ SieveAccepted \/ SieveBadChallenge \/ SieveRejected \/ SieveUnauthenticate

\* What the handlers that answer have in common.
LEMMA SieveRepliedBy ==
  ASSUME SieveTyped, SieveReplying
  PROVE  SieveReplied
<1>1. /\ client \in BOOLEAN /\ attempts \in 0..MaxAttempts /\ MaxAttempts \in Nat /\ active \subseteq Scripts
      /\ scripts \in [Scripts -> AnyName] /\ found \subseteq Scripts
  BY SieveAssumption DEF SieveTyped, SieveTypeOK, AnyName
<1>2. ASSUME queue # <<>> PROVE Asked.name \in AnyName /\ Asked.new \in AnyName
  <2>1. Asked \in SieveReqs(count)
    BY <1>2 DEF SieveTyped, Asked
  <2> QED
    BY <2>1 DEF SieveReqs
<1>3. ASSUME UNCHANGED <<client, attempts, resumed, server>>, Replied, link = "running", queue # <<>> PROVE SieveReplied
  BY <1>1, <1>3 DEF SieveReplied, server
<1>4. CASE SieveRefused \/ SieveBadChallenge
  BY <1>3, <1>4 DEF SieveRefused, SieveBadChallenge, Turn
<1>5. CASE SieveCapability \/ SieveNoop \/ HaveSpace \/ ListScripts \/ CheckScript
  BY <1>3, <1>5 DEF SieveCapability, SieveNoop, HaveSpace, ListScripts, CheckScript, Unchanging, Turn
<1>6. CASE PutScript
  BY <1>1, <1>2, <1>6 DEF PutScript, Turn, Named, SieveReplied
<1>7. CASE GetScript \/ SetActive
  BY <1>1, <1>7 DEF GetScript, SetActive, OnFound, Turn, SieveReplied
<1>8. CASE Deactivate
  BY <1>1, <1>8 DEF Deactivate, Turn, SieveReplied
<1>9. CASE DeleteScript
  BY <1>1, <1>9 DEF DeleteScript, OnFound, Turn, Named, SieveReplied, AnyName
<1>10. CASE RenameScript
  BY <1>1, <1>2, <1>10 DEF RenameScript, OnFound, Turn, Named, SieveReplied
<1>11. CASE SieveAccepted
  BY <1>1, <1>11 DEF SieveAccepted, Turn, SieveReplied, server
<1>13. CASE SieveUnauthenticate
  <2>1. 0 \in 0..MaxAttempts
    BY <1>1
  <2> QED
    BY <1>1, <1>13, <2>1 DEF SieveUnauthenticate, Turn, SieveReplied, server
<1>12. CASE SieveRejected
  BY <1>1, <1>12 DEF SieveRejected, Turn, SieveReplied, server
<1> QED
  BY <1>4, <1>5, <1>6, <1>7, <1>8, <1>9, <1>10, <1>11, <1>12, <1>13 DEF SieveReplying

\* The steps that end the connection.
SieveClosed ==
  /\ Close
  /\ UNCHANGED chan \/ (link \in {"reading", "running"} /\ \E tag \in 0..count : Send(<<Bytes(tag, "session")>>))
  /\ crashed' \in 0..count
  /\ UNCHANGED <<client, attempts, secure, count, group, found, server, bore, replies, piped, stream, written>>

\* The steps after which the connection is closed.
LEMMA SieveClosedBy ==
  ASSUME SieveTyped, SievePanic \/ SieveBye \/ SieveEnds
  PROVE  SieveClosed
<1>1. count \in Nat /\ crashed \in 0..count
  BY SieveAssumption DEF SieveTyped, SieveTypeOK
<1>2. ASSUME queue # <<>> PROVE Asked.tag \in 0..count
  <2>1. Asked \in SieveReqs(count)
    BY <1>2 DEF SieveTyped, Asked
  <2> QED
    BY <1>1, <2>1 DEF SieveReqs
<1>3. CASE SievePanic
  BY <1>1, <1>2, <1>3 DEF SievePanic, Turn, SieveClosed, writerVars
<1>4. CASE SieveBye
  BY <1>1, <1>2, <1>4 DEF SieveBye, Turn, SieveClosed
<1>5. CASE SieveEnds
  BY <1>1, <1>5 DEF SieveEnds, SieveClosed
<1> QED
  BY <1>3, <1>4, <1>5

\* The request that runs next.
LEMMA QueueHead ==
  ASSUME SieveTyped, queue # <<>>
  PROVE  /\ Asked = queue[1] /\ 1 \in DOMAIN queue /\ Asked.tag \in 1..count /\ Asked.name \in AnyName /\ count \in Nat
         /\ Asked.tag \in Nat
         /\ Tail(queue) \in Seq(SieveReqs(count)) /\ link = "running"
         /\ \A i \in DOMAIN Tail(queue) : i \in Nat /\ i + 1 \in DOMAIN queue /\ Tail(queue)[i] = queue[i + 1] /\ 1 < i + 1
<1>1. queue \in Seq(SieveReqs(count)) /\ count \in Nat
  BY SieveAssumption DEF SieveTyped, SieveTypeOK
<1>2. Asked \in SieveReqs(count) /\ Asked = queue[1] /\ 1 \in DOMAIN queue
  BY <1>1 DEF Asked
<1>3. Asked.tag \in 1..count /\ Asked.name \in AnyName
  BY <1>2 DEF SieveReqs
<1>4. Tail(queue) \in Seq(SieveReqs(count)) /\ DOMAIN Tail(queue) = 1..(Len(queue) - 1) /\ Len(queue) \in Nat
      /\ \A i \in 1..(Len(queue) - 1) : Tail(queue)[i] = queue[i + 1] /\ i + 1 \in DOMAIN queue
  BY <1>1, TailOf
<1> QED
  BY <1>1, <1>2, <1>3, <1>4 DEF SieveTyped

\* What a session sends, or nothing.
LEMMA SieveSays ==
  ASSUME SieveTyped, UNCHANGED <<stream, written>>, UNCHANGED chan \/ \E es \in Seq(Events) : Send(es)
  PROVE  WriterTypeOK' /\ chan' \in Seq(Events)
<1>1. WriterTypeOK /\ chan \in Seq(Events)
  BY DEF SieveTyped, SieveTypeOK
<1>2. CASE UNCHANGED chan
  BY <1>1, <1>2 DEF WriterTypeOK
<1>3. CASE \E es \in Seq(Events) : Send(es)
  BY <1>1, <1>3, SendTyped DEF WriterTypeOK
<1> QED
  BY <1>2, <1>3

\* A session that was just accepted is typed.
LEMMA SieveTypedFirst == SieveInit => SieveTyped
<1> SUFFICES ASSUME SieveInit PROVE SieveTyped
  OBVIOUS
<1>1. {MaxAttempts, MaxSieve} \subseteq Nat /\ Buffer \in Nat
  BY SieveAssumption, BufferAssumption
<1>2. chan \in Seq(Events) /\ queue \in Seq(SieveReqs(count)) /\ replies \in Seq(Nat)
  BY DEF SieveInit, WriterInit
<1>3. WriterTypeOK
  BY <1>1 DEF SieveInit, WriterInit, WriterTypeOK, Streams
<1>4. 0 \in 0..MaxSieve /\ 0 \in 0..MaxAttempts
  BY <1>1
<1>5. SieveTypeOK
  BY <1>3, <1>4 DEF SieveInit, SieveTypeOK, Links
<1> QED
  BY <1>2, <1>5 DEF SieveInit, SieveTyped

\* Every step of a ManageSieve session keeps its types.
LEMMA SieveTypedStep == ASSUME SieveTyped, [SieveNext]_sieveVars PROVE SieveTyped'
<1>1. /\ count \in Nat /\ MaxSieve \in Nat /\ count <= MaxSieve /\ resumed \in 0..count /\ crashed \in 0..count
      /\ 0 \in 0..MaxSieve /\ \A x \in 0..count : x \in 0..MaxSieve /\ x <= count
      /\ MaxAttempts \in Nat /\ Len(chan) \in Nat
      /\ replies \in Seq(Nat) /\ chan \in Seq(Events)
  BY SieveAssumption DEF SieveTyped, SieveTypeOK
<1>2. ASSUME NEW tag \in Nat, NEW k \in EventKinds
      PROVE  /\ <<Bytes(tag, "session")>> \in Seq(Events) /\ <<Bytes(tag, "session"), Event(k, 0, "session")>> \in Seq(Events)
             /\ <<Event(k, tag, "session"), Bytes(0, "session")>> \in Seq(Events)
  <2>1. Bytes(tag, "session") \in Events /\ Event(k, 0, "session") \in Events /\ Event(k, tag, "session") \in Events /\ Bytes(0, "session") \in Events
    BY DEF Bytes, Event, Events, EventKinds
  <2> QED
    BY <2>1
<1>3. CASE SievePanic \/ SieveBye \/ SieveEnds
  <2>1. SieveClosed
    BY <1>3, SieveClosedBy
  <2>2. UNCHANGED chan \/ \E es \in Seq(Events) : Send(es)
    <3>1. \A tag \in 0..count : <<Bytes(tag, "session")>> \in Seq(Events)
      BY <1>1, <1>2 DEF EventKinds
    <3> QED
      BY <2>1, <3>1 DEF SieveClosed
  <2>3. WriterTypeOK' /\ chan' \in Seq(Events)
    BY <2>1, <2>2, SieveSays DEF SieveClosed
  <2>4. link' = "closed" /\ queue' = <<>> /\ resumed' = 0 /\ crashed' \in 0..count /\ queue' \in Seq(SieveReqs(count'))
        /\ UNCHANGED <<client, attempts, secure, count, group, found, server, bore, replies, piped>>
    BY <2>1 DEF SieveClosed, Close
  <2>5. SieveTypeOK'
    BY <1>1, <2>3, <2>4 DEF SieveTyped, SieveTypeOK, server, Links
  <2> QED
    BY <1>1, <2>3, <2>4, <2>5 DEF SieveTyped, server
<1>4. CASE SieveReplying
  <2>1. SieveReplied
    BY <1>4, SieveRepliedBy
  <2>2. /\ queue # <<>> /\ Send(<<Bytes(Asked.tag, "session")>>) /\ replies' = Append(replies, Asked.tag) /\ queue' = Tail(queue) /\ found' = {}
        /\ bore' \subseteq Scripts /\ client' \in BOOLEAN /\ attempts' \in 0..MaxAttempts
        /\ scripts' \in [Scripts -> AnyName] /\ active' \subseteq Scripts
        /\ UNCHANGED <<resumed, others, link, secure, count, group, crashed, stream, written>> /\ link = "running"
    BY <2>1 DEF SieveReplied, Replied
  <2>3. Asked.tag \in Nat /\ queue' \in Seq(SieveReqs(count'))
    BY <2>2, QueueHead
  <2>4. WriterTypeOK' /\ chan' \in Seq(Events)
    BY <1>2, <2>2, <2>3, SieveSays DEF EventKinds
  <2>5. replies' \in Seq(Nat)
    BY <1>1, <2>2, <2>3
  <2>6. SieveTypeOK'
    BY <2>2, <2>4 DEF SieveTyped, SieveTypeOK, AnyName
  <2> QED
    BY <2>2, <2>3, <2>4, <2>5, <2>6 DEF SieveTyped
<1>5. CASE GetScriptId
  <2>1. /\ found' \subseteq Scripts
        /\ UNCHANGED <<link, client, attempts, secure, resumed, queue, count, group, server, bore, replies, piped, crashed, writerVars>>
    BY <1>5 DEF GetScriptId, Called
  <2> QED
    BY <2>1 DEF SieveTyped, SieveTypeOK, WriterTypeOK, server, writerVars
<1>6. CASE SieveAskChallenge
  <2>1. /\ queue # <<>> /\ Send(<<Bytes(0, "session")>>) /\ resumed' = Asked.tag /\ queue' = Tail(queue) /\ bore' \subseteq Scripts
        /\ UNCHANGED <<link, client, attempts, secure, count, group, found, server, replies, piped, crashed, stream, written>>
    BY <1>6 DEF SieveAskChallenge, Turn, Called
  <2>2. Asked.tag \in 0..count /\ queue' \in Seq(SieveReqs(count')) /\ link = "running"
    BY <2>1, QueueHead
  <2>3. WriterTypeOK' /\ chan' \in Seq(Events)
    BY <1>2, <2>1, SieveSays DEF EventKinds
  <2>4. SieveTypeOK'
    BY <1>1, <2>1, <2>2, <2>3 DEF SieveTyped, SieveTypeOK, server
  <2> QED
    BY <1>1, <2>1, <2>2, <2>3, <2>4 DEF SieveTyped, server
<1>7. CASE SieveStartTls
  <2>1. /\ queue # <<>> /\ Send(<<Bytes(Asked.tag, "session"), Event("upgrade", 0, "session")>>) /\ replies' = Append(replies, Asked.tag)
        /\ link' = "lending" /\ queue' = <<>>
        /\ UNCHANGED <<client, attempts, secure, resumed, count, group, found, server, bore, piped, crashed, stream, written>>
    BY <1>7 DEF SieveStartTls, Turn
  <2>2. Asked.tag \in Nat /\ replies' \in Seq(Nat) /\ queue' \in Seq(SieveReqs(count'))
    BY <1>1, <2>1, QueueHead
  <2>3. WriterTypeOK' /\ chan' \in Seq(Events)
    BY <1>2, <2>1, <2>2, SieveSays DEF EventKinds
  <2>4. SieveTypeOK'
    BY <1>1, <2>1, <2>3 DEF SieveTyped, SieveTypeOK, server, Links
  <2> QED
    BY <2>1, <2>2, <2>3, <2>4 DEF SieveTyped, server
<1>8. CASE SieveGetStream \/ SieveEndBatch
  <2>1. /\ link' \in {"handshake", "reading"} /\ queue = <<>>
        /\ UNCHANGED <<client, attempts, secure, resumed, queue, count, group, found, server, bore, replies, piped, crashed, writerVars>>
    BY <1>8 DEF SieveGetStream, SieveEndBatch, SieveTyped
  <2> QED
    BY <2>1 DEF SieveTyped, SieveTypeOK, WriterTypeOK, server, writerVars, Links
<1>9. CASE SieveGreet
  <2>1. /\ \E k \in {"stream", "tls"} : Send(<<Event(k, 0, "session"), Bytes(0, "session")>>)
        /\ secure' \in BOOLEAN /\ link' = "reading" /\ queue = <<>>
        /\ UNCHANGED <<client, attempts, resumed, queue, count, group, found, server, bore, replies, piped, crashed, stream, written>>
    BY <1>9 DEF SieveGreet, SieveTyped
  <2>2. WriterTypeOK' /\ chan' \in Seq(Events)
    BY <1>2, <2>1, SieveSays DEF EventKinds
  <2> QED
    BY <2>1, <2>2 DEF SieveTyped, SieveTypeOK, server, Links
<1>10. CASE ByOthers
  <2>1. /\ scripts' \in [Scripts -> AnyName] /\ active' \subseteq Scripts /\ others' = others + 1
        /\ UNCHANGED <<link, client, attempts, secure, resumed, queue, count, group, found, replies, piped, crashed, writerVars>>
    BY <1>10 DEF ByOthers, Named, SieveTyped, SieveTypeOK, AnyName
  <2>2. bore' \subseteq Scripts
    BY <1>10 DEF ByOthers, SieveTyped, SieveTypeOK
  <2> QED
    BY <2>1, <2>2 DEF SieveTyped, SieveTypeOK, WriterTypeOK, writerVars, AnyName
<1>11. ASSUME NEW n \in 0..MaxPipelined, NEW cmds \in [1..n -> SieveLines], SieveRead(cmds) PROVE SieveTyped'
  <2>1. n \in Nat
    BY SieveAssumption
  <2>2. /\ SLines(cmds) # <<>> /\ count + n <= MaxSieve /\ count' = count + n
        /\ group' = SLines(cmds)[1].tag /\ resumed' = 0 /\ queue' = SRuns(cmds) /\ link' = "running"
        /\ replies' = replies \o STags(cmds) /\ Send(SAnswers(cmds))
        /\ bore' \subseteq Scripts
        /\ UNCHANGED <<client, attempts, secure, found, server, crashed, stream, written>>
    BY <1>11, <2>1, SReadIs DEF Called
  <2>3. SAnswers(cmds) \in Seq(Events) /\ STags(cmds) \in Seq(Nat)
    BY <2>1, <2>2, SAnswersTyped
  <2>4. queue' \in Seq(SieveReqs(count')) /\ group' \in 1..(count + n)
    BY <2>1, <2>2, SReadSplits
  <2>5. WriterTypeOK' /\ chan' \in Seq(Events)
    BY <2>2, <2>3, SieveSays
  <2>6. replies' \in Seq(Nat) /\ group' \in Nat /\ count' \in 0..MaxSieve /\ 0 <= count' /\ crashed' <= count'
    BY <1>1, <2>1, <2>2, <2>3, <2>4
  <2>7. SieveTypeOK'
    BY <1>1, <2>2, <2>5, <2>6 DEF SieveTyped, SieveTypeOK, server, Links
  <2> QED
    BY <1>1, <2>2, <2>4, <2>5, <2>6, <2>7 DEF SieveTyped, server
<1>12. CASE (WriterStep(link # "closed") \/ WriterFails) /\ UNCHANGED sieve
  <2>1. /\ chan' \in Seq(Events) /\ Len(chan') <= Buffer /\ stream' \in Streams
        /\ \A i \in DOMAIN chan' : chan'[i].kind \in EventKinds
        /\ written' = written \/ (chan # <<>> /\ written' = written \cup ({Head(chan).tag} \ {0}))
    BY <1>12, WriterTyped DEF SieveTyped, SieveTypeOK, WriterTypeOK
  <2>2. chan # <<>> => Head(chan).tag \in Nat
    <3>1. chan # <<>> => Head(chan) \in Events
      BY <1>1
    <3> QED
      BY <3>1 DEF Events
  <2>3. WriterTypeOK'
    BY <2>1, <2>2 DEF SieveTyped, SieveTypeOK, WriterTypeOK
  <2> QED
    BY <1>12, <2>1, <2>3 DEF sieve, server, SieveTyped, SieveTypeOK
<1>13. CASE UNCHANGED sieveVars
  BY <1>13 DEF sieveVars, sieve, server, writerVars, SieveTyped, SieveTypeOK, WriterTypeOK
<1> QED
  BY <1>3, <1>4, <1>5, <1>6, <1>7, <1>8, <1>9, <1>10, <1>11, <1>12, <1>13 DEF SieveNext, SieveHandles, SieveReplying

\* What keeps answers in order: a request that was answered before an earlier one that
\* still waits, in the batch or for its challenge, was read behind another one.
OrderInv ==
  /\ Ascending(queue)
  /\ \A i \in DOMAIN replies : replies[i] <= count
  /\ \A k \in DOMAIN queue : queue[k].tag >= group /\ (queue[k].tag # group => queue[k].tag \in piped)
  /\ \A i \in DOMAIN replies, k \in DOMAIN queue : replies[i] > queue[k].tag => replies[i] \in piped
  /\ \A i \in DOMAIN replies : resumed # 0 /\ replies[i] > resumed => replies[i] \in piped
  /\ \A k \in DOMAIN queue : resumed # 0 /\ queue[k].tag > resumed => queue[k].tag \in piped
  /\ RepliesInOrder

\* The tags of the batch, of the history of answers and of the request that waits.
LEMMA SieveTags ==
  ASSUME SieveTyped
  PROVE  /\ count \in Nat /\ group \in Nat /\ resumed \in Nat /\ resumed <= count
         /\ \A k \in DOMAIN queue : k \in Nat /\ queue[k].tag \in Nat /\ queue[k].tag <= count /\ queue[k].tag # 0
         /\ DOMAIN replies = 1..Len(replies) /\ Len(replies) \in Nat /\ \A i \in DOMAIN replies : replies[i] \in Nat
<1>1. /\ count \in Nat /\ group \in Nat /\ resumed \in Nat /\ resumed <= count /\ queue \in Seq(SieveReqs(count)) /\ replies \in Seq(Nat)
  BY SieveAssumption DEF SieveTyped, SieveTypeOK
<1>2. \A k \in DOMAIN queue : k \in Nat /\ queue[k] \in SieveReqs(count)
  BY <1>1
<1>3. \A x \in SieveReqs(count) : x.tag \in 1..count
  BY DEF SieveReqs
<1> QED
  BY <1>1, <1>2, <1>3

\* The batch after its first request.
LEMMA QueueNext ==
  ASSUME SieveTyped, OrderInv, queue # <<>>
  PROVE  /\ \A k \in DOMAIN Tail(queue) : \E m \in DOMAIN queue : Tail(queue)[k] = queue[m] /\ queue[m].tag > Asked.tag /\ queue[m].tag \in piped
         /\ Ascending(Tail(queue))
<1>1. /\ Asked = queue[1] /\ 1 \in DOMAIN queue
      /\ \A i \in DOMAIN Tail(queue) : i \in Nat /\ i + 1 \in DOMAIN queue /\ Tail(queue)[i] = queue[i + 1] /\ 1 < i + 1
  BY QueueHead
<1>2. \A m \in DOMAIN queue : 1 < m => queue[m].tag > Asked.tag
  BY <1>1, SieveTags DEF OrderInv, Ascending
<1>3. \A m \in DOMAIN queue : queue[m].tag > Asked.tag => queue[m].tag \in piped
  BY <1>1, SieveTags DEF OrderInv
<1>4. Ascending(Tail(queue))
  BY <1>1 DEF OrderInv, Ascending
<1> QED
  BY <1>1, <1>2, <1>3, <1>4

\* Every step keeps answers in the order of the requests.
LEMMA OrderStep ==
  ASSUME SieveTyped, OrderInv, [SieveNext]_sieveVars
  PROVE  OrderInv'
<1>1. ASSUME queue' = <<>>, UNCHANGED <<replies, piped, count>>, resumed' \in {0, resumed} PROVE OrderInv'
  BY <1>1 DEF OrderInv, Ascending, RepliesInOrder
<1>2. ASSUME UNCHANGED <<queue, replies, piped, count, group, resumed>> PROVE OrderInv'
  BY <1>2 DEF OrderInv, Ascending, RepliesInOrder
<1>3. ASSUME queue # <<>>, replies' = Append(replies, Asked.tag), queue' \in {Tail(queue), <<>>}, UNCHANGED <<piped, count, group, resumed>>
      PROVE  OrderInv'
  <2>1. Asked = queue[1] /\ 1 \in DOMAIN queue /\ Asked.tag \in Nat /\ Asked.tag <= count
    BY <1>3, QueueHead, SieveTags
  <2>2. /\ \A i \in DOMAIN replies' : i \in Nat /\ ((i \in DOMAIN replies /\ replies'[i] = replies[i]) \/ (i = Len(replies) + 1 /\ replies'[i] = Asked.tag))
        /\ \A i \in DOMAIN replies : i <= Len(replies) /\ Len(replies) \in Nat
    <3>1. replies \in Seq(Nat)
      BY DEF SieveTyped
    <3>2. PICK x \in Nat : x = Asked.tag
      BY <2>1
    <3>3. replies' = Append(replies, x)
      BY <1>3, <3>2
    <3>4. /\ Len(replies) \in Nat /\ DOMAIN replies = 1..Len(replies) /\ replies' \in Seq(Nat) /\ Len(replies') = Len(replies) + 1
          /\ replies'[Len(replies) + 1] = x /\ \A i \in 1..Len(replies) : replies'[i] = replies[i]
      BY <3>1, <3>3
    <3>5. DOMAIN replies' = 1..(Len(replies) + 1)
      BY <3>4
    <3>6. ASSUME NEW i \in DOMAIN replies'
          PROVE  i \in Nat /\ ((i \in DOMAIN replies /\ replies'[i] = replies[i]) \/ (i = Len(replies) + 1 /\ replies'[i] = Asked.tag))
      <4>1. i \in Nat /\ (i \in 1..Len(replies) \/ i = Len(replies) + 1)
        BY <3>4, <3>5
      <4> QED
        BY <3>2, <3>4, <4>1
    <3> QED
      BY <3>4, <3>6
  <2>3. /\ \A k \in DOMAIN queue' : \E m \in DOMAIN queue : queue'[k] = queue[m] /\ queue[m].tag > Asked.tag /\ queue[m].tag \in piped
        /\ Ascending(queue')
    <3>1. CASE queue' = <<>>
      BY <3>1 DEF Ascending
    <3>2. CASE queue' = Tail(queue)
      BY <1>3, <3>2, QueueNext
    <3> QED
      BY <1>3, <3>1, <3>2
  <2>4. \A i \in DOMAIN replies : replies[i] > Asked.tag => replies[i] \in piped
    BY <2>1 DEF OrderInv
  <2>5. resumed # 0 /\ Asked.tag > resumed => Asked.tag \in piped
    BY <2>1 DEF OrderInv
  <2>6. RepliesInOrder'
    <3> SUFFICES ASSUME NEW i \in DOMAIN replies', NEW j \in DOMAIN replies', i < j, replies'[i] > replies'[j] PROVE replies'[i] \in piped
      BY <1>3 DEF RepliesInOrder
    <3>1. i \in DOMAIN replies /\ replies'[i] = replies[i]
      BY <2>2
    <3>2. CASE j \in DOMAIN replies /\ replies'[j] = replies[j]
      BY <3>1, <3>2 DEF OrderInv, RepliesInOrder
    <3>3. CASE replies'[j] = Asked.tag
      BY <2>4, <3>1, <3>3
    <3> QED
      BY <2>2, <3>2, <3>3
  <2>7. \A i \in DOMAIN replies' : replies'[i] <= count /\ (resumed # 0 /\ replies'[i] > resumed => replies'[i] \in piped)
    BY <2>1, <2>2, <2>5 DEF OrderInv
  <2>8. \A i \in DOMAIN replies', k \in DOMAIN queue' : replies'[i] > queue'[k].tag => replies'[i] \in piped
    <3> SUFFICES ASSUME NEW i \in DOMAIN replies', NEW k \in DOMAIN queue', replies'[i] > queue'[k].tag PROVE replies'[i] \in piped
      OBVIOUS
    <3>1. PICK m \in DOMAIN queue : queue'[k] = queue[m] /\ queue[m].tag > Asked.tag
      BY <2>3
    <3>2. queue[m].tag \in Nat
      BY SieveTags
    <3> QED
      BY <2>1, <2>2, <3>1, <3>2 DEF OrderInv
  <2>9. \A k \in DOMAIN queue' : queue'[k].tag >= group /\ queue'[k].tag \in piped
    BY <2>3 DEF OrderInv
  <2> QED
    BY <1>3, <2>3, <2>6, <2>7, <2>8, <2>9 DEF OrderInv
<1>4. CASE SievePanic \/ SieveBye \/ SieveEnds
  BY <1>1, <1>4, SieveClosedBy DEF SieveClosed, Close
<1>5. CASE SieveReplying
  BY <1>3, <1>5, SieveRepliedBy DEF SieveReplied, Replied
<1>6. CASE SieveStartTls
  BY <1>3, <1>6 DEF SieveStartTls, Turn
<1>7. CASE SieveAskChallenge
  <2>1. /\ queue # <<>> /\ resumed' = Asked.tag /\ queue' = Tail(queue) /\ UNCHANGED <<count, group, replies, piped>>
    BY <1>7 DEF SieveAskChallenge, Turn
  <2>2. Asked = queue[1] /\ 1 \in DOMAIN queue
    BY <2>1, QueueHead
  <2>3. /\ \A k \in DOMAIN queue' : \E m \in DOMAIN queue : queue'[k] = queue[m] /\ queue[m].tag > Asked.tag /\ queue[m].tag \in piped
        /\ Ascending(queue')
    BY <2>1, QueueNext
  <2>4. \A i \in DOMAIN replies : replies[i] > Asked.tag => replies[i] \in piped
    BY <2>2 DEF OrderInv
  <2> QED
    BY <2>1, <2>3, <2>4 DEF OrderInv, Ascending, RepliesInOrder
<1>8. ASSUME NEW n \in 0..MaxPipelined, NEW cmds \in [1..n -> SieveLines], SieveRead(cmds) PROVE OrderInv'
  <2>1. n \in Nat
    BY SieveAssumption
  <2> DEFINE lines == SLines(cmds)
             runs == SRuns(cmds)
             no == SRefuses(cmds)
  <2>2. /\ lines # <<>> /\ count' = count + n
        /\ group' = lines[1].tag /\ resumed' = 0 /\ queue' = runs
        /\ piped' = piped \cup {lines[i].tag : i \in 2..Len(lines)}
        /\ replies' = replies \o STags(cmds)
    BY <1>8, <2>1, SReadIs
  <2>3. /\ Ascending(runs) /\ Ascending(no)
        /\ \A i \in DOMAIN runs : \E k \in DOMAIN lines : runs[i] = lines[k]
        /\ no \in Seq(SieveReqs(count + n)) /\ \A i \in DOMAIN no : \E k \in DOMAIN lines : no[i] = lines[k]
        /\ \A k \in DOMAIN lines : lines[k].tag \in 1..(count + n)
        /\ \A k \in DOMAIN lines : lines[k].tag = lines[1].tag \/ (lines[k].tag > lines[1].tag /\ lines[k].tag \in {lines[i].tag : i \in 2..Len(lines)})
        /\ lines[1].tag \in 1..(count + n)
    BY <2>1, <2>2, SReadSplits
  <2>4. \A k \in DOMAIN lines : lines[k].tag > count \/ (resumed # 0 /\ lines[k].tag = resumed)
    BY <2>1, SLinesAscend
  <2>5. STags(cmds) \in Seq(Nat) /\ Len(STags(cmds)) = Len(no) /\ \A i \in DOMAIN no : STags(cmds)[i] = no[i].tag
    BY <2>1, <2>2, SAnswersTyped
  <2> HIDE DEF lines, runs, no
  <2>6. \A k \in DOMAIN lines : lines[k].tag \in Nat /\ lines[k].tag <= count + n /\ lines[k].tag >= group' /\ (lines[k].tag # group' => lines[k].tag \in piped')
    <3>1. \A k \in DOMAIN lines : lines[k].tag # group' => lines[k].tag \in piped'
      BY <2>2, <2>3
    <3> QED
      BY <2>1, <2>2, <2>3, <3>1, SieveTags, SMTT(30)
  <2>7. \A i \in DOMAIN replies, k \in DOMAIN lines : replies[i] > lines[k].tag => replies[i] \in piped
    <3> SUFFICES ASSUME NEW i \in DOMAIN replies, NEW k \in DOMAIN lines, replies[i] > lines[k].tag PROVE replies[i] \in piped
      OBVIOUS
    <3>1. replies[i] \in Nat /\ replies[i] <= count /\ lines[k].tag \in Nat /\ count \in Nat
      BY <2>6, SieveTags DEF OrderInv
    <3>2. resumed # 0 /\ lines[k].tag = resumed
      BY <2>4, <3>1
    <3> QED
      BY <3>2 DEF OrderInv
  <2>8. \A i \in DOMAIN replies' :
          /\ i \in Nat
          /\ \/ i \in DOMAIN replies /\ replies'[i] = replies[i] /\ i <= Len(replies)
             \/ i > Len(replies) /\ i - Len(replies) \in DOMAIN no /\ replies'[i] = no[i - Len(replies)].tag
    <3>1. replies \in Seq(Nat) /\ Len(no) \in Nat /\ DOMAIN no = 1..Len(no)
      BY <2>3 DEF SieveTyped
    <3>2. /\ DOMAIN replies' = 1..(Len(replies) + Len(no)) /\ Len(replies) \in Nat /\ DOMAIN replies = 1..Len(replies)
          /\ \A i \in 1..(Len(replies) + Len(no)) : replies'[i] = IF i <= Len(replies) THEN replies[i] ELSE STags(cmds)[i - Len(replies)]
      <4>1. PICK t \in Seq(Nat) : t = STags(cmds)
        BY <2>5
      <4>2. replies' = replies \o t /\ Len(t) = Len(no)
        BY <2>2, <2>5, <4>1
      <4>3. /\ replies' \in Seq(Nat) /\ Len(replies') = Len(replies) + Len(t) /\ Len(replies) \in Nat /\ DOMAIN replies = 1..Len(replies)
            /\ \A i \in 1..(Len(replies) + Len(t)) : replies'[i] = IF i <= Len(replies) THEN replies[i] ELSE t[i - Len(replies)]
        <5>1. replies \in Seq(Nat) /\ t \in Seq(Nat) /\ replies' = replies \o t
          BY <3>1, <4>1, <4>2
        <5> QED
          BY ONLY <5>1
      <4>4. DOMAIN replies' = 1..(Len(replies) + Len(no))
        BY <4>2, <4>3
      <4> QED
        BY <4>1, <4>2, <4>3, <4>4
    <3> TAKE i \in DOMAIN replies'
    <3>3. CASE i <= Len(replies)
      BY <3>2, <3>3
    <3>4. CASE ~(i <= Len(replies))
      <4>1. i \in Nat /\ i > Len(replies) /\ i - Len(replies) \in DOMAIN no
        BY <3>1, <3>2, <3>4
      <4> QED
        BY <2>5, <3>2, <3>4, <4>1
    <3> QED
      BY <3>3, <3>4
  <2>9. \A i \in DOMAIN no : \E k \in DOMAIN lines : no[i] = lines[k]
    BY <2>3
  <2>10. RepliesInOrder'
    <3> SUFFICES ASSUME NEW i \in DOMAIN replies', NEW j \in DOMAIN replies', i < j, replies'[i] > replies'[j] PROVE replies'[i] \in piped'
      BY DEF RepliesInOrder
    <3>1. Len(replies) \in Nat /\ i \in Nat /\ j \in Nat /\ piped \subseteq piped'
      BY <2>2, <2>8, SieveTags
    <3>2. CASE i \in DOMAIN replies /\ replies'[i] = replies[i] /\ j \in DOMAIN replies /\ replies'[j] = replies[j]
      BY <3>1, <3>2 DEF OrderInv, RepliesInOrder
    <3>3. CASE i \in DOMAIN replies /\ replies'[i] = replies[i] /\ j - Len(replies) \in DOMAIN no /\ replies'[j] = no[j - Len(replies)].tag
      BY <2>7, <2>9, <3>1, <3>3
    <3>4. ~(i > Len(replies) /\ i - Len(replies) \in DOMAIN no /\ replies'[i] = no[i - Len(replies)].tag)
      <4> SUFFICES ASSUME i > Len(replies), i - Len(replies) \in DOMAIN no, replies'[i] = no[i - Len(replies)].tag PROVE FALSE
        OBVIOUS
      <4>1. j - Len(replies) \in DOMAIN no /\ replies'[j] = no[j - Len(replies)].tag
        BY <2>8, <3>1
      <4>2. i - Len(replies) < j - Len(replies)
        BY <3>1
      <4>3. replies'[i] < replies'[j]
        BY <2>3, <4>1, <4>2 DEF Ascending
      <4>4. replies'[i] \in Nat /\ replies'[j] \in Nat
        BY <2>6, <2>9, <4>1
      <4> QED
        BY <4>3, <4>4
    <3> QED
      BY <2>8, <3>1, <3>2, <3>3, <3>4
  <2>11. \A i \in DOMAIN replies' : replies'[i] <= count'
    <3> TAKE i \in DOMAIN replies'
    <3>1. CASE i \in DOMAIN replies /\ replies'[i] = replies[i]
      <4>1. replies[i] <= count /\ replies[i] \in Nat /\ count \in Nat
        BY <3>1, SieveTags DEF OrderInv
      <4> QED
        BY <2>1, <2>2, <3>1, <4>1
    <3>2. CASE \E k \in DOMAIN lines : replies'[i] = lines[k].tag
      BY <2>2, <2>6, <3>2
    <3> QED
      BY <2>8, <2>9, <3>1, <3>2
  <2>12. \A i \in DOMAIN replies', k \in DOMAIN queue' : replies'[i] > queue'[k].tag => replies'[i] \in piped'
    <3> SUFFICES ASSUME NEW i \in DOMAIN replies', NEW k \in DOMAIN queue', replies'[i] > queue'[k].tag PROVE replies'[i] \in piped'
      OBVIOUS
    <3>1. PICK m \in DOMAIN lines : queue'[k] = lines[m]
      BY <2>2, <2>3
    <3>2. CASE i \in DOMAIN replies /\ replies'[i] = replies[i]
      BY <2>2, <2>7, <3>1, <3>2
    <3>3. ASSUME NEW l \in DOMAIN lines, replies'[i] = lines[l].tag PROVE replies'[i] \in piped'
      <4>1. lines[l].tag \in Nat /\ lines[m].tag \in Nat /\ lines[m].tag >= group' /\ (lines[l].tag # group' => lines[l].tag \in piped') /\ group' \in Nat
        BY <2>2, <2>6, <3>1, SieveTags
      <4> QED
        BY <3>1, <3>3, <4>1
    <3> QED
      BY <2>8, <2>9, <3>2, <3>3
  <2>13. \A k \in DOMAIN queue' : queue'[k].tag >= group' /\ (queue'[k].tag # group' => queue'[k].tag \in piped')
    BY <2>2, <2>3, <2>6
  <2> QED
    BY <2>2, <2>3, <2>10, <2>11, <2>12, <2>13 DEF OrderInv
<1>9. CASE \/ GetScriptId \/ SieveGetStream \/ SieveEndBatch \/ SieveGreet \/ ByOthers
           \/ ((WriterStep(link # "closed") \/ WriterFails) /\ UNCHANGED sieve) \/ UNCHANGED sieveVars
  BY <1>2, <1>9 DEF GetScriptId, SieveGetStream, SieveEndBatch, SieveGreet, ByOthers, sieve, sieveVars
<1> QED
  BY <1>4, <1>5, <1>6, <1>7, <1>8, <1>9 DEF SieveNext, SieveHandles, SieveReplying

(***************************************************************************)
(* Answers of ManageSieve carry no tag (managesieve/client.rs ingest): for   *)
(* any requests, they come in the order of the requests, but for those that  *)
(* were read behind another one.                                             *)
(***************************************************************************)
THEOREM RepliesInOrderAlways == SieveSpec => []RepliesInOrder
<1>1. SieveInit => OrderInv
  BY DEF SieveInit, OrderInv, Ascending, RepliesInOrder
<1>2. OrderInv => RepliesInOrder
  BY DEF OrderInv
<1> QED
  BY <1>1, <1>2, SieveTypedFirst, SieveTypedStep, OrderStep, PTL DEF SieveSpec

\* The id that a handler has found is one of those that had the name it was asked for, and
\* is forgotten with the request.
NameInv ==
  /\ found \subseteq bore
  /\ queue # <<>> => \A s \in Scripts : scripts[s] = Head(queue).name => s \in bore
  /\ found = {} \/ link = "closed" \/ (queue # <<>> /\ Head(queue).cmd \in OnScript)

\* Every step keeps the id with the name, and changes no script but one that had the name.
LEMMA NameStep ==
  ASSUME SieveTyped, NameInv, [SieveNext]_sieveVars
  PROVE  /\ NameInv'
         /\ \A s \in Scripts : others' = others /\ scripts[s] # NoName /\ scripts'[s] # scripts[s] => s \in bore
<1>1. others \in Nat /\ scripts \in [Scripts -> AnyName]
  BY DEF SieveTyped, SieveTypeOK, AnyName
<1>2. ASSUME scripts' = scripts
      PROVE  \A s \in Scripts : others' = others /\ scripts[s] # NoName /\ scripts'[s] # scripts[s] => s \in bore
  BY <1>2
<1>3. CASE SievePanic \/ SieveBye \/ SieveEnds
  <2>1. link' = "closed" /\ queue' = <<>> /\ UNCHANGED <<found, bore, scripts>>
    BY <1>3, SieveClosedBy DEF SieveClosed, Close, server
  <2> QED
    BY <1>2, <2>1 DEF NameInv
<1>4. CASE SieveReplying
  <2>1. /\ found' = {}
        /\ bore' = IF queue' = <<>> THEN {} ELSE {s \in Scripts : scripts'[s] = Head(queue').name}
    BY <1>4, SieveRepliedBy DEF SieveReplied, Replied
  <2>2. NameInv'
    BY <2>1 DEF NameInv
  <2>3. \A s \in Scripts : scripts[s] # NoName /\ scripts'[s] # scripts[s] => s \in found
    <3>1. CASE SieveRefused \/ SieveCapability \/ SieveNoop \/ HaveSpace \/ ListScripts \/ CheckScript
      <4>1. scripts' = scripts
        BY <3>1 DEF SieveRefused, SieveCapability, SieveNoop, HaveSpace, ListScripts, CheckScript, Unchanging, server
      <4> QED
        BY <4>1
    <3>2. CASE GetScript \/ SetActive \/ Deactivate \/ SieveAccepted \/ SieveBadChallenge \/ SieveRejected \/ SieveUnauthenticate
      <4>1. scripts' = scripts
        BY <3>2 DEF GetScript, SetActive, Deactivate, SieveAccepted, SieveBadChallenge, SieveRejected, SieveUnauthenticate, server
      <4> QED
        BY <4>1
    <3>3. CASE PutScript
      <4>1. PICK t \in Scripts : scripts[t] = NoName /\ scripts' = [scripts EXCEPT ![t] = Asked.name]
        BY <3>3 DEF PutScript, Named
      <4> QED
        BY <1>1, <4>1
    <3>4. CASE DeleteScript
      <4>1. PICK t \in found : scripts' = [scripts EXCEPT ![t] = NoName]
        BY <3>4 DEF DeleteScript, Named
      <4> QED
        BY <1>1, <4>1
    <3>5. CASE RenameScript
      <4>1. PICK t \in found : scripts' = [scripts EXCEPT ![t] = Asked.new]
        BY <3>5 DEF RenameScript, Named
      <4> QED
        BY <1>1, <4>1
    <3> QED
      BY <1>4, <3>1, <3>2, <3>3, <3>4, <3>5 DEF SieveReplying
  <2> QED
    BY <2>2, <2>3 DEF NameInv
<1>5. CASE GetScriptId
  <2>1. /\ queue # <<>> /\ Head(queue).cmd \in OnScript /\ found' = {s \in Scripts : scripts[s] = Head(queue).name}
        /\ UNCHANGED <<queue, scripts, bore>>
    BY <1>5 DEF GetScriptId, Turn, Called, Asked, server
  <2> QED
    BY <1>2, <2>1 DEF NameInv
<1>6. CASE SieveAskChallenge
  <2>1. /\ link = "running" /\ Head(queue).cmd = "Authenticate" /\ UNCHANGED <<found, scripts>>
        /\ bore' = IF queue' = <<>> THEN {} ELSE {s \in Scripts : scripts[s] = Head(queue').name}
    BY <1>6 DEF SieveAskChallenge, Turn, Called, server
  <2>2. found = {}
    BY <2>1 DEF NameInv, OnScript
  <2> QED
    BY <1>2, <2>1, <2>2 DEF NameInv
<1>7. CASE SieveStartTls
  <2>1. /\ link = "running" /\ Head(queue).cmd = "StartTls" /\ queue' = <<>> /\ UNCHANGED <<found, scripts, bore>>
    BY <1>7 DEF SieveStartTls, Turn, server
  <2>2. found = {}
    BY <2>1 DEF NameInv, OnScript
  <2> QED
    BY <1>2, <2>1, <2>2 DEF NameInv
<1>8. CASE SieveGetStream \/ SieveEndBatch \/ SieveGreet
  <2>1. queue = <<>> /\ link # "closed" /\ UNCHANGED <<queue, found, scripts, bore>>
    BY <1>8 DEF SieveGetStream, SieveEndBatch, SieveGreet, SieveTyped, server
  <2> QED
    BY <1>2, <2>1 DEF NameInv
<1>9. CASE ByOthers
  <2>1. /\ others' = others + 1 /\ UNCHANGED <<link, queue, found>>
        /\ bore' = IF queue # <<>> THEN bore \cup {s \in Scripts : scripts'[s] = Head(queue).name} ELSE bore
    BY <1>9 DEF ByOthers
  <2> QED
    BY <1>1, <2>1 DEF NameInv
<1>10. ASSUME NEW n \in 0..MaxPipelined, NEW cmds \in [1..n -> SieveLines], SieveRead(cmds)
       PROVE  NameInv' /\ scripts' = scripts
  <2>1. n \in Nat
    BY SieveAssumption
  <2>2. /\ link = "reading" /\ UNCHANGED <<found, scripts>>
        /\ bore' = IF queue' = <<>> THEN {} ELSE {s \in Scripts : scripts[s] = Head(queue').name}
    BY <1>10, <2>1, SReadIs DEF Called, server
  <2>3. found = {}
    BY <2>2 DEF NameInv, SieveTyped
  <2> QED
    BY <2>2, <2>3 DEF NameInv
<1>11. CASE ((WriterStep(link # "closed") \/ WriterFails) /\ UNCHANGED sieve) \/ UNCHANGED sieveVars
  <2>1. UNCHANGED <<link, queue, found, scripts, bore>>
    BY <1>11 DEF sieve, sieveVars, server
  <2> QED
    BY <1>2, <2>1 DEF NameInv
<1> QED
  BY <1>2, <1>3, <1>4, <1>5, <1>6, <1>7, <1>8, <1>9, <1>10, <1>11 DEF SieveNext, SieveHandles, SieveReplying

(***************************************************************************)
(* SETACTIVE, DELETESCRIPT and RENAMESCRIPT (managesieve/) act on an id that *)
(* get_script_id looked up in an earlier request: however other clients      *)
(* rename, destroy and create scripts in between, the script they touch has  *)
(* had the name since the command began.                                     *)
(***************************************************************************)
THEOREM ActsOnNamedAlways == SieveSpec => ActsOnNamed
<1>1. SieveInit => NameInv
  BY DEF SieveInit, NameInv
<1> QED
  BY <1>1, SieveTypedFirst, SieveTypedStep, NameStep, PTL DEF SieveSpec, ActsOnNamed

\* A request that no other precedes in its read still meets the client it was checked with.
SieveState ==
  /\ crashed # 0 => link = "closed" /\ crashed > group
  /\ \A k \in DOMAIN queue : queue[k].tag = group => SieveAllows(queue[k].cmd)
  /\ \A k \in DOMAIN queue : queue[k].cmd = "StartTls" => ~secure

\* Every step keeps what the first request of a read was checked against.
LEMMA SieveStateStep ==
  ASSUME SieveTyped, OrderInv, SieveState, [SieveNext]_sieveVars
  PROVE  SieveState'
<1>1. ASSUME queue' = <<>>, UNCHANGED <<crashed, group>>, link' = "closed" \/ link # "closed" PROVE SieveState'
  BY <1>1 DEF SieveState
<1>2. ASSUME queue # <<>>, queue' = Tail(queue), UNCHANGED <<crashed, group, link, secure>> PROVE SieveState'
  <2>1. \A k \in DOMAIN queue' : \E m \in DOMAIN queue : queue'[k] = queue[m] /\ queue[m].tag > Asked.tag
    BY <1>2, QueueNext
  <2>2. Asked.tag >= group /\ Asked.tag \in Nat /\ group \in Nat
    BY <1>2, QueueHead, SieveTags DEF OrderInv
  <2>3. \A k \in DOMAIN queue' : queue'[k].tag # group
    BY <2>1, <2>2, SieveTags
  <2>4. \A k \in DOMAIN queue' : queue'[k].cmd = "StartTls" => ~secure
    BY <2>1 DEF SieveState
  <2> QED
    BY <1>2, <2>3, <2>4 DEF SieveState
<1>3. CASE SieveBye \/ SieveEnds
  BY <1>1, <1>3 DEF SieveBye, SieveEnds, Close
<1>4. CASE SievePanic
  <2>1. queue # <<>> /\ Head(queue).cmd \in WithClient /\ ~client /\ crashed' = Asked.tag /\ link' = "closed" /\ queue' = <<>> /\ group' = group
    BY <1>4 DEF SievePanic, Turn, Close
  <2>2. ~SieveAllows(Head(queue).cmd)
    BY <2>1 DEF SieveAllows, WithClient, OnScript
  <2>3. Asked.tag # group /\ Asked.tag >= group /\ Asked.tag \in Nat /\ group \in Nat
    BY <2>1, <2>2, QueueHead, SieveTags DEF OrderInv, SieveState, Asked
  <2> QED
    BY <2>1, <2>3 DEF SieveState
<1>5. CASE SieveReplying
  BY <1>2, <1>5, SieveRepliedBy DEF SieveReplied, Replied
<1>6. CASE SieveAskChallenge
  BY <1>2, <1>6 DEF SieveAskChallenge, Turn
<1>7. CASE SieveStartTls \/ SieveGetStream \/ SieveEndBatch \/ SieveGreet
  <2>1. queue' = <<>> /\ UNCHANGED <<crashed, group>> /\ link # "closed"
    BY <1>7 DEF SieveStartTls, Turn, SieveGetStream, SieveEndBatch, SieveGreet, SieveTyped
  <2> QED
    BY <1>1, <2>1
<1>8. CASE \/ GetScriptId \/ ByOthers
           \/ ((WriterStep(link # "closed") \/ WriterFails) /\ UNCHANGED sieve) \/ UNCHANGED sieveVars
  <2>1. UNCHANGED <<link, client, secure, queue, group, crashed>>
    BY <1>8 DEF GetScriptId, ByOthers, sieve, sieveVars
  <2> QED
    BY <2>1 DEF SieveState, SieveAllows
<1>9. ASSUME NEW n \in 0..MaxPipelined, NEW cmds \in [1..n -> SieveLines], SieveRead(cmds) PROVE SieveState'
  <2>1. n \in Nat
    BY SieveAssumption
  <2>2. link = "reading" /\ SLines(cmds) # <<>> /\ queue' = SRuns(cmds) /\ UNCHANGED <<client, secure, crashed>>
    BY <1>9, <2>1, SReadIs
  <2>3. crashed' = 0
    BY <2>2 DEF SieveState
  <2>4. \A k \in DOMAIN queue' : SieveAllows(queue'[k].cmd)
    BY <2>1, <2>2, SReadSplits
  <2>5. SieveAllows("StartTls") => ~secure
    BY DEF SieveAllows, Verified, WithClient, OnScript
  <2>6. \A c : SieveAllows(c) => SieveAllows(c)'
    BY <2>2 DEF SieveAllows
  <2>7. \A k \in DOMAIN queue' : SieveAllows(queue[k].cmd)'
    <3> TAKE k \in DOMAIN queue'
    <3>1. PICK c : c = queue'[k].cmd
      OBVIOUS
    <3>2. SieveAllows(c)'
      BY <2>4, <2>6, <3>1
    <3> QED
      BY <3>1, <3>2 DEF SieveAllows
  <2> QED
    BY <2>2, <2>3, <2>4, <2>5, <2>7 DEF SieveState
<1> QED
  BY <1>3, <1>4, <1>5, <1>6, <1>7, <1>8, <1>9 DEF SieveNext, SieveHandles, SieveReplying

\* Where a ManageSieve session stands to the upgrade.
SieveUpInv ==
  /\ Orderly
  /\ link = "accept" => Clear
  /\ link \in {"reading", "running"} => Past /\ (~secure => Clear)
  /\ link \in {"lending", "handshake"} => Behind
  /\ link = "handshake" => Ups = {}

\* Every step keeps the upgrade in order.
LEMMA SieveUpStep ==
  ASSUME SieveTyped, SieveState, SieveUpInv, [SieveNext]_sieveVars
  PROVE  SieveUpInv'
<1>1. chan \in Seq(Events) /\ 0 \in Nat /\ count \in Nat
  BY SieveAssumption DEF SieveTyped, SieveTypeOK
<1>2. ASSUME link \in {"reading", "running"}, link' \in {"reading", "running", "closed"}, UNCHANGED <<stream, secure>>,
             UNCHANGED chan \/ (\E tag \in Nat : Send(<<Bytes(tag, "session")>>))
      PROVE  SieveUpInv'
  <2>1. Orderly' /\ Past' /\ (Clear => Clear')
    BY <1>1, <1>2, SaysPast DEF SieveUpInv
  <2> QED
    BY <1>2, <2>1 DEF SieveUpInv
<1>3. ASSUME UNCHANGED <<chan, stream>>, link' \in {link, "closed"}, secure' = secure PROVE SieveUpInv'
  BY <1>3, QuietUp DEF SieveUpInv
<1>4. CASE SievePanic \/ SieveBye \/ SieveEnds
  <2>1. /\ link' = "closed" /\ UNCHANGED <<stream, secure>>
        /\ UNCHANGED chan \/ (link \in {"reading", "running"} /\ \E tag \in 0..count : Send(<<Bytes(tag, "session")>>))
    BY <1>4, SieveClosedBy DEF SieveClosed, Close
  <2> QED
    BY <1>1, <1>2, <1>3, <2>1
<1>5. CASE SieveReplying
  <2>1. /\ link = "running" /\ queue # <<>> /\ UNCHANGED <<stream, secure, link>> /\ Send(<<Bytes(Asked.tag, "session")>>)
    BY <1>5, SieveRepliedBy DEF SieveReplied, Replied
  <2> QED
    BY <1>2, <2>1, QueueHead
<1>6. CASE SieveAskChallenge
  BY <1>1, <1>2, <1>6 DEF SieveAskChallenge, Turn
<1>7. CASE SieveStartTls
  <2>1. /\ link = "running" /\ queue # <<>> /\ Head(queue).cmd = "StartTls" /\ link' = "lending" /\ UNCHANGED <<stream, secure>>
        /\ chan' = chan \o <<Bytes(Asked.tag, "session"), Event("upgrade", 0, "session")>>
    BY <1>7 DEF SieveStartTls, Turn, Send
  <2>2. ~secure /\ Asked.tag \in Nat
    BY <2>1, QueueHead DEF SieveState, Asked
  <2>3. Orderly /\ Clear
    BY <2>1, <2>2 DEF SieveUpInv
  <2>4. PICK x \in Nat : x = Asked.tag
    BY <2>2
  <2> DEFINE es == <<Bytes(x, "session"), Event("upgrade", 0, "session")>>
  <2>5. /\ es \in Seq(Events) /\ Len(es) = 2 /\ \A k \in DOMAIN es : (es[k].kind = "upgrade" <=> k = 2)
        /\ \A k \in DOMAIN es : es[k].by = "session"
    BY DEF Bytes, Event, Events, EventKinds
  <2>6. chan' = chan \o es
    BY <2>1, <2>4
  <2> HIDE DEF es
  <2>7. Orderly' /\ Behind'
    BY <1>1, <2>1, <2>3, <2>5, <2>6, SendUpgrade
  <2> QED
    BY <2>1, <2>7 DEF SieveUpInv
<1>8. CASE SieveGetStream
  <2>1. link = "lending" /\ stream = "lent" /\ link' = "handshake" /\ UNCHANGED <<chan, stream, secure>>
    BY <1>8 DEF SieveGetStream, writerVars
  <2>2. Ups = {}
    <3>1. 0 \in AskedAt /\ \A i \in Ups : i \in Mine /\ i \in Nat /\ i >= 1
      BY <1>1, <2>1 DEF SieveUpInv, Orderly, AskedAt, Ups
    <3>2. \A i \in Mine : i <= 0
      BY <2>1, <3>1 DEF SieveUpInv, Behind
    <3> QED
      BY <3>1, <3>2
  <2> QED
    BY <2>1, <2>2, QuietUp DEF SieveUpInv
<1>9. CASE SieveEndBatch
  BY <1>2, <1>9 DEF SieveEndBatch, writerVars
<1>10. CASE SieveGreet /\ link = "accept"
  <2>1. /\ Send(<<Event("stream", 0, "session"), Bytes(0, "session")>>) /\ stream' = stream /\ link' = "reading"
    BY <1>10 DEF SieveGreet
  <2>2. Orderly /\ Clear /\ Past
    BY <1>10 DEF SieveUpInv, Clear, Past
  <2>3. Orderly' /\ Past' /\ Clear'
    BY <1>1, <2>1, <2>2, SaysPast
  <2> QED
    BY <2>1, <2>3 DEF SieveUpInv
<1>11. CASE SieveGreet /\ link = "handshake"
  <2> DEFINE es == <<Event("tls", 0, "session"), Bytes(0, "session")>>
  <2>1. /\ chan' = chan \o es /\ stream' = stream /\ link' = "reading" /\ secure'
    BY <1>11 DEF SieveGreet, Send
  <2>2. /\ es \in Seq(Events) /\ 1 \in DOMAIN es /\ es[1].kind = "tls" /\ es[1].by = "session"
        /\ \A k \in DOMAIN es : es[k].kind # "upgrade"
    BY DEF Event, Bytes, Events, EventKinds
  <2> HIDE DEF es
  <2>3. Orderly' /\ Past'
    BY <1>1, <1>11, <2>1, <2>2, SendTls DEF SieveUpInv
  <2> QED
    BY <2>1, <2>3 DEF SieveUpInv
<1>12. ASSUME NEW n \in 0..MaxPipelined, NEW cmds \in [1..n -> SieveLines], SieveRead(cmds) PROVE SieveUpInv'
  <2>1. n \in Nat
    BY SieveAssumption
  <2>2. link = "reading" /\ SLines(cmds) # <<>> /\ link' = "running" /\ UNCHANGED <<secure, stream>> /\ chan' = chan \o SAnswers(cmds)
    BY <1>12, <2>1, SReadIs DEF Send
  <2>3. SAnswers(cmds) \in Seq(Events) /\ \A k \in DOMAIN SAnswers(cmds) : SAnswers(cmds)[k].kind # "upgrade"
    BY <2>1, <2>2, SAnswersTyped
  <2>4. Orderly' /\ Past' /\ (Clear => Clear')
    BY <1>1, <2>2, <2>3, SendPast DEF SieveUpInv
  <2> QED
    BY <2>2, <2>4 DEF SieveUpInv
<1>13. CASE (WriterStep(link # "closed") \/ WriterFails) /\ UNCHANGED sieve
  <2>1. PICK b \in BOOLEAN : WriterStep(b) \/ WriterFails
    BY <1>13
  <2>2. Orderly' /\ (Past => Past') /\ (Clear => Clear') /\ (Behind => Behind') /\ (Ups = {} => Ups' = {})
    BY <1>1, <2>1, WriterOrderly DEF SieveUpInv
  <2> QED
    BY <1>13, <2>2 DEF SieveUpInv, sieve
<1>14. CASE GetScriptId \/ ByOthers \/ UNCHANGED sieveVars
  <2>1. UNCHANGED <<chan, stream, link, secure>>
    BY <1>14 DEF GetScriptId, ByOthers, sieveVars, sieve, writerVars
  <2> QED
    BY <1>3, <2>1
<1>15. SieveGreet => link \in {"accept", "handshake"}
  BY DEF SieveGreet
<1> QED
  BY <1>4, <1>5, <1>6, <1>7, <1>8, <1>9, <1>10, <1>11, <1>12, <1>13, <1>14, <1>15 DEF SieveNext, SieveHandles, SieveReplying

-----------------------------------------------------------------------------
(* The front ends together: a connection is of one kind.                      *)

\* The session that runs keeps its invariants, the other one is as it was created.
FrontInv ==
  /\ port \in {"imap", "sieve", "none"}
  /\ TypeOK /\ SieveTypeOK
  /\ port = "imap" => ImapTyped /\ OpenInv /\ SentInv /\ StateInv /\ UpInv /\ crashed = 0
  /\ port = "sieve" => SieveTyped /\ OrderInv /\ SieveState /\ SieveUpInv /\ panicked = 0 /\ tries = 0
  /\ port = "none" => chan = <<>> /\ stream = "none" /\ panicked = 0 /\ tries = 0 /\ crashed = 0

\* What is spawned satisfies the invariants of all front ends.
LEMMA FrontFirst == MCInit => FrontInv
<1> SUFFICES ASSUME MCInit PROVE FrontInv
  OBVIOUS
<1>1. ImapTyped /\ SieveTyped /\ Init /\ SieveInit /\ port \in {"imap", "sieve", "none"}
  BY ImapTypedFirst, SieveTypedFirst DEF MCInit
<1>2. OpenInv /\ SentInv /\ StateInv
  BY <1>1 DEF Init, WriterInit, OpenInv, SentInv, Ascending, StateInv, HasCmd
<1>3. Orderly /\ Clear
  BY <1>1 DEF Init, WriterInit, Orderly, Clear, Mine, Ups, AskedAt
<1>4. UpInv
  BY <1>1, <1>3 DEF Init, UpInv, HasCmd
<1>5. OrderInv /\ SieveState
  BY <1>1 DEF SieveInit, OrderInv, SieveState, Ascending, RepliesInOrder
<1>6. SieveUpInv
  BY <1>1, <1>3 DEF SieveInit, SieveUpInv
<1>7. chan = <<>> /\ stream = "none" /\ panicked = 0 /\ tries = 0 /\ crashed = 0
  BY <1>1 DEF Init, SieveInit, WriterInit
<1> QED
  BY <1>1, <1>2, <1>4, <1>5, <1>6, <1>7 DEF FrontInv, ImapTyped, SieveTyped

\* Every step of a front end keeps them.
LEMMA FrontStep == ASSUME FrontInv, [MCNext]_MCvars PROVE FrontInv'
<1>1. CASE port = "imap" /\ Next /\ UNCHANGED <<port, sieve, keeperVars>>
  <2>1. ImapTyped' /\ OpenInv' /\ SentInv' /\ StateInv' /\ UpInv'
    BY <1>1, ImapTypedStep, AnsweredStep, StateStep, UpStep DEF FrontInv
  <2>2. TypeOK' /\ WriterTypeOK'
    BY <2>1 DEF ImapTyped, TypeOK
  <2>3. UNCHANGED <<link, client, attempts, secure, resumed, count, crashed, found, bore, scripts, active>>
    BY <1>1 DEF sieve, server
  <2>4. SieveTypeOK'
    BY <2>2, <2>3 DEF FrontInv, SieveTypeOK
  <2> QED
    BY <1>1, <2>1, <2>2, <2>3, <2>4 DEF FrontInv
<1>2. CASE port = "sieve" /\ SieveNext /\ UNCHANGED <<port, session, keeperVars>>
  <2>1. SieveTyped' /\ OrderInv' /\ SieveState' /\ SieveUpInv'
    BY <1>2, SieveTypedStep, OrderStep, SieveStateStep, SieveUpStep DEF FrontInv
  <2>2. SieveTypeOK' /\ WriterTypeOK'
    BY <2>1 DEF SieveTyped, SieveTypeOK
  <2>3. /\ UNCHANGED <<phase, state, failures, isSelect, isTls, enabled, idle, awaiting, requests, received, tasks>>
        /\ UNCHANGED <<panicked, tries>>
    BY <1>2 DEF session
  <2>4. TypeOK'
    BY <2>2, <2>3 DEF FrontInv, TypeOK
  <2> QED
    BY <1>2, <2>1, <2>2, <2>3, <2>4 DEF FrontInv
<1>3. CASE UNCHANGED <<port, imapVars, sieve>>
  <2>1. /\ port' = port
        /\ UNCHANGED <<phase, state, failures, isSelect, isTls, enabled, idle, awaiting, requests, received, batch, tasks, panicked, tries>>
        /\ UNCHANGED <<link, client, attempts, secure, resumed, queue, count, group, found, scripts, active, others, bore, replies, piped, crashed>>
        /\ UNCHANGED <<chan, stream, written>>
    BY <1>3 DEF imapVars, session, writerVars, sieve, server
  <2>2. imapVars' = imapVars /\ sieveVars' = sieveVars
    BY <1>3 DEF imapVars, sieveVars
  <2>3. TypeOK' /\ SieveTypeOK'
    BY <2>1 DEF FrontInv, TypeOK, SieveTypeOK, WriterTypeOK
  <2>4. port = "imap" => (ImapTyped /\ OpenInv /\ SentInv /\ StateInv /\ UpInv)'
    BY <2>2, ImapTypedStep, AnsweredStep, StateStep, UpStep DEF FrontInv
  <2>5. port = "sieve" => (SieveTyped /\ OrderInv /\ SieveState /\ SieveUpInv)'
    BY <2>2, SieveTypedStep, OrderStep, SieveStateStep, SieveUpStep DEF FrontInv
  <2> QED
    BY <2>1, <2>3, <2>4, <2>5 DEF FrontInv
<1> QED
  BY <1>1, <1>2, <1>3 DEF MCNext, MCvars

(***************************************************************************)
(* The types of both sessions, and that a connection survives MaxFailures   *)
(* failed attempts to authenticate in a row and no more (auth_failures,     *)
(* authenticate.rs), however they are spread over LOGIN, AUTHENTICATE and   *)
(* batches: UNAUTHENTICATE forgets failures only when there are none.       *)
(***************************************************************************)
THEOREM TypesAlways == MCSpec => []TypesOK
<1>1. FrontInv => TypesOK
  <2> SUFFICES ASSUME FrontInv PROVE FailuresBounded
    BY DEF FrontInv, TypesOK
  <2>1. failures \in 0..MaxFailures /\ MaxFailures \in Nat
    BY SessionBounds DEF FrontInv, TypeOK
  <2>2. CASE port = "imap"
    <3>1. tries \in Nat /\ (tries <= failures \/ (tries = failures + 1 /\ phase = "closed"))
      BY <2>2 DEF FrontInv, StateInv, ImapTyped
    <3> QED
      BY <2>1, <3>1 DEF FailuresBounded
  <2>3. CASE port # "imap"
    BY <2>1, <2>3 DEF FrontInv, FailuresBounded
  <2> QED
    BY <2>2, <2>3
<1> QED
  BY <1>1, FrontFirst, FrontStep, PTL DEF MCSpec

(***************************************************************************)
(* No unreachable!() or unwrap of the front ends is reached but by requests *)
(* read behind another one (State::*_data, ManageSieve's client(), the      *)
(* writer's Event::Stream arms): the first request of a read meets the      *)
(* state it was checked against, and after the session has asked for the    *)
(* stream the first event it sends is TLS.                                  *)
(***************************************************************************)
THEOREM PanicsAlways == MCSpec => []PanicsOnlyPipelined
<1>1. FrontInv => PanicsOnlyPipelined
  <2> SUFFICES ASSUME FrontInv PROVE PanicsOnlyPipelined
    OBVIOUS
  <2>1. CASE port = "imap"
    BY <2>1, OrderlyUpgrade DEF FrontInv, PanicsOnlyPipelined, StateInv, UpInv, ImapPanicsOnlyPipelined, SievePanicsOnlyPipelined
  <2>2. CASE port = "sieve"
    BY <2>2, OrderlyUpgrade DEF FrontInv, PanicsOnlyPipelined, SieveState, SieveUpInv, ImapPanicsOnlyPipelined, SievePanicsOnlyPipelined
  <2>3. CASE port = "none"
    <3>1. UpgradeThenTls
      BY <2>3 DEF FrontInv, UpgradeThenTls
    <3> QED
      BY <2>3, <3>1 DEF FrontInv, PanicsOnlyPipelined, ImapPanicsOnlyPipelined, SievePanicsOnlyPipelined
  <2> QED
    BY <2>1, <2>2, <2>3 DEF FrontInv
<1> QED
  BY <1>1, FrontFirst, FrontStep, PTL DEF MCSpec

=============================================================================
