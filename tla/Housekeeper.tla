---------------------------- MODULE Housekeeper ----------------------------
(***************************************************************************)
(* The task that purges the cache, src/core/housekeeper.rs: it computes     *)
(* from the local time how long to sleep, and ends with the server.  What   *)
(* it runs, purge_deleted_ids, is in UidCache.  Time is counted in hours    *)
(* from the beginning of a Monday; clock changes are left out.              *)
(***************************************************************************)
EXTENDS Integers

CONSTANTS
  Schedules,   \* values of cache-purge-every: an hour, and a day of the week or Daily
  StartTimes,  \* when the server is started
  MaxPurges,   \* bound: purges in the life of the server
  MaxLate      \* bound: hours a purge takes; 0 when the timer fires on the hour

Daily == -1

ASSUME HousekeeperAssumption ==
  /\ \A s \in Schedules : s.hour \in Nat /\ s.day \in Nat \cup {Daily}
  /\ StartTimes \subseteq Nat /\ MaxPurges \in Nat /\ MaxLate \in 0 .. 23

VARIABLES
  cron,    \* SimpleCron
  clock,   \* the local time
  keeper,  \* how the task is
  began, before, purged, purges   \* history: start of the server, last two purges, their number

keeperVars == <<cron, clock, keeper, began, before, purged, purges>>

-----------------------------------------------------------------------------
\* SimpleCron::parse; the range of the day is checked of the hour.
Parses(s) == s.hour \in 0 .. 23 /\ (s.day = Daily \/ s.hour \in 1 .. 7)

KeeperInit ==
  /\ cron \in Schedules /\ clock \in StartTimes
  /\ keeper = IF Parses(cron) THEN "runs" ELSE "refused"
  /\ began = clock /\ before = clock /\ purged = clock /\ purges = 0

Date(t)    == t \div 24
Weekday(t) == (Date(t) % 7) + 1   \* number_from_monday

\* Mutant: the days until the one that is asked for, of this week.
DaysAhead_ThisWeek == IF cron.day = Daily THEN 1 ELSE cron.day - Weekday(clock)

DaysAhead == IF cron.day = Daily THEN 1 ELSE 7 - Weekday(clock) + cron.day

\* SimpleCron::time_to_next: today, whatever the day of the week is, if the hour is to come.
TimeOfNext ==
  LET today == 24 * Date(clock) + cron.hour
  IN IF today < clock THEN today + 24 * DaysAhead ELSE today

Purge(late) ==
  /\ keeper = "runs" /\ TimeOfNext >= clock
  /\ purges < MaxPurges /\ purges' = purges + 1
  /\ before' = purged /\ purged' = TimeOfNext
  /\ clock' = TimeOfNext + late
  /\ UNCHANGED <<cron, keeper, began>>

\* A duration that is negative does not unwrap.
KeeperPanics ==
  /\ keeper = "runs" /\ TimeOfNext < clock
  /\ keeper' = "panicked"
  /\ UNCHANGED <<cron, clock, began, before, purged, purges>>

\* The server shuts down while the task sleeps.
KeeperExits ==
  /\ keeper = "runs" /\ TimeOfNext >= clock
  /\ keeper' = "exited"
  /\ UNCHANGED <<cron, clock, began, before, purged, purges>>

KeeperNext == (\E late \in 0 .. MaxLate : Purge(late)) \/ KeeperPanics \/ KeeperExits

-----------------------------------------------------------------------------
\* With a day from Monday to Sunday, or every day, the task lives and purges in time: from
\* one day to the next, or from week to week on the day that was asked for.  Only the day
\* on which the server was started may be another one, and then the purge after it may be
\* thirteen days away.
PurgesInTime ==
  cron.day \in 1 .. 7 \cup {Daily} =>
    /\ keeper # "panicked"
    /\ purged - before <= 24 * (IF cron.day = Daily THEN 1 ELSE IF Date(before) = Date(began) THEN 13 ELSE 7)
    /\ Weekday(purged) = cron.day \/ cron.day = Daily \/ Date(purged) = Date(began)
=============================================================================
