----------------------------- MODULE StreakDays -----------------------------
(***************************************************************************)
(* The streak of one user who practises from several devices.  A device    *)
(* stamps an attempt with the local date of its zone when it builds the    *)
(* request; an old client sends no date.  The stamp is used when the       *)
(* attempt is applied: after the way to the server, the earlier items of   *)
(* its batch and the wait for a connection and for the users row, so two   *)
(* devices can overtake one another.  The users-row lock serialises the    *)
(* transactions, not the stamps (AttemptTx): UpdateStreak is one step, the *)
(* stamp another, earlier one.                                             *)
(***************************************************************************)
EXTENDS StreakRules, FiniteSets

CONSTANTS
  DayLength,   \* ticks of the clock in a day
  Zones,       \* offsets, in ticks, of the time zones the devices are in
  OldClients,  \* TRUE if some client sends no local date
  MaxDelay,    \* bound: ticks from the stamp of an attempt to its application
  Horizon      \* bound of the clock

ASSUME DaysAssumption ==
  /\ DayLength \in Nat \ {0}
  /\ Zones \subseteq -DayLength..DayLength
  /\ OldClients \in BOOLEAN
  /\ MaxDelay \in Nat
  /\ Horizon \in Nat

VARIABLES
  clock,     \* UTC time of the server, in ticks
  streak,    \* the row of table streaks
  credited,  \* history: the days attempts were credited to
  inOrder,   \* history: no attempt was credited to a day before the last one's
  calendars  \* history: the zones in which each attempt was credited to the
             \* day that it was there when it was applied

vars == <<clock, streak, credited, inOrder, calendars>>

UtcToday == clock \div DayLength
LocalDay(tick, zone) == (tick + zone) \div DayLength

\* The dates on the attempts that may be applied now: each was stamped when
\* its request was built, up to MaxDelay ticks ago.
SentDays ==
  {LocalDay(stamped, z) : stamped \in {t \in 0..clock : clock - t <= MaxDelay}, z \in Zones}
  \cup (IF OldClients THEN {BadDay} ELSE {})

TypeOK ==
  /\ clock \in Nat
  /\ streak \in StreakRecord
  /\ credited \in SUBSET Int
  /\ inOrder \in BOOLEAN
  /\ calendars \subseteq Zones

Init ==
  /\ clock = DayLength
  /\ streak = NoStreak
  /\ credited = {}
  /\ inOrder = TRUE
  /\ calendars = Zones

Tick ==
  /\ clock < Horizon
  /\ clock' = clock + 1
  /\ UNCHANGED <<streak, credited, inOrder, calendars>>

\* UpdateStreak, called by every accepted attempt, practice or not.
Practise(localDay) ==
  LET today == ResolveToday(localDay, UtcToday)
  IN  /\ streak' = NextStreak(streak, today)
      /\ credited' = credited \cup {today}
      /\ inOrder' = (inOrder /\ (streak.lastDay # NoDay => streak.lastDay <= today))
      /\ calendars' = {z \in calendars : LocalDay(clock, z) = today}
      /\ UNCHANGED clock

Next == Tick \/ \E d \in SentDays : Practise(d)

Spec == Init /\ [][Next]_vars
-----------------------------------------------------------------------------
\* Days lo..hi were all credited.
Run(lo, hi) == lo..hi \subseteq credited

\* The streak never claims a day the user did not practise on, however the
\* devices' dates jump: the current_len days up to last_day were all credited,
\* and some run of longest_len credited days exists (streak_service.go:43-80).
NeverOverstated ==
  streak.lastDay # NoDay =>
    /\ Run(streak.lastDay - streak.currentLen + 1, streak.lastDay)
    /\ \E hi \in credited : Run(hi - streak.longestLen + 1, hi)
    /\ streak.currentLen \in 1..streak.longestLen

\* The streak is exactly the run of credited days that ends with the last one,
\* and longest_len the longest run (the rule at streak_service.go:3-6), for any
\* zones and clients, as long as no attempt was credited to a day before the
\* last one's: one that was makes the run start again in the middle.
StreakIsRun ==
  inOrder /\ streak.lastDay # NoDay =>
    /\ \A d \in credited : d <= streak.lastDay
    /\ streak.lastDay - streak.currentLen \notin credited
    /\ \A hi \in credited : ~ Run(hi - streak.longestLen, hi)

\* streak_service.go:6 says a streak is reset after a gap of a day or more: a
\* step that resets it must find the day before the credited one unpractised.
ResetOnlyAfterGap ==
  [][ (streak'.currentLen < streak.currentLen)
        => streak'.lastDay - 1 \notin credited ]_vars

\* A streak is reset without a gap only for a user whose credited days no one
\* calendar explains: as long as there is a zone where every attempt was
\* credited to the day on which it was applied, a reset follows a gap.  The
\* exception are attempts of several zones, of a client without a date, and
\* those that reach UpdateStreak after midnight of the day they were stamped on.
ResetNeedsGapInCalendar ==
  [][ calendars' # {} /\ (streak'.currentLen < streak.currentLen)
        => streak'.lastDay - 1 \notin credited ]_vars
=============================================================================
