---------------------------- MODULE StreakRules -----------------------------
(***************************************************************************)
(* The day arithmetic of internal/service/streak_service.go.  A day is the *)
(* number of a calendar date; dates travel as text, and a text that is no  *)
(* date is BadDay.                                                         *)
(***************************************************************************)
EXTENDS Integers

CONSTANTS
  NoDay,   \* Streak.LastDay == nil: nothing credited yet
  BadDay   \* a localDay that is empty or does not parse

ASSUME DayAssumption == NoDay \notin Int /\ BadDay \notin Int

\* domain.Streak without its key.
StreakRecord == [currentLen : Nat, longestLen : Nat, lastDay : Int \cup {NoDay}]

NoStreak == [currentLen |-> 0, longestLen |-> 0, lastDay |-> NoDay]

\* Mutant of ResolveToday: the client's date is taken as it comes.
ResolveTodayTrusting(localDay, utcToday) == localDay

\* resolveToday: the client's date if it is within a day of the server's.
ResolveToday(localDay, utcToday) ==
  IF localDay \in (utcToday - 1)..(utcToday + 1) THEN localDay ELSE utcToday

\* Mutant of IsNextDay: off by one.
IsNextDaySkipping(prev, today) == today - prev = 2

\* isNextDay
IsNextDay(prev, today) == today - prev = 1

\* Mutant of NextStreak: a day counts on whatever the gap before it was.
NextStreakIgnoringGaps(streak, today) ==
  IF streak.lastDay = today THEN streak
  ELSE [currentLen |-> streak.currentLen + 1,
        longestLen |-> IF streak.currentLen >= streak.longestLen
                         THEN streak.currentLen + 1 ELSE streak.longestLen,
        lastDay    |-> today]

\* Mutant of NextStreak: the same day counts again.
NextStreakSameDay(streak, today) ==
  IF streak.lastDay # NoDay /\ today - streak.lastDay \in 0..1
    THEN [streak EXCEPT !.currentLen = @ + 1, !.lastDay = today]
    ELSE [streak EXCEPT !.currentLen = 1, !.lastDay = today]

\* The switch of UpdateStreak: the streak after one more attempt on "today".
NextStreak(streak, today) ==
  IF streak.lastDay = NoDay THEN
    [currentLen |-> 1, longestLen |-> 1, lastDay |-> today]
  ELSE IF streak.lastDay = today THEN
    streak
  ELSE IF IsNextDay(streak.lastDay, today) THEN
    [currentLen |-> streak.currentLen + 1,
     longestLen |-> IF streak.currentLen + 1 > streak.longestLen
                      THEN streak.currentLen + 1 ELSE streak.longestLen,
     lastDay    |-> today]
  ELSE
    [currentLen |-> 1, longestLen |-> streak.longestLen, lastDay |-> today]
=============================================================================
