------------------------- MODULE StreakDays_proofs --------------------------
(***************************************************************************)
(* Proofs about StreakDays, for any time zones, clients without a date and *)
(* delays on the way: the streak never claims a day that was not           *)
(* practised, is exact until an attempt is credited to a day before the    *)
(* last one's, and is lost only by a gap as long as one calendar explains  *)
(* the days.                                                               *)
(***************************************************************************)
EXTENDS StreakDays, Rules_proofs

\* The server's date is a date.
LEMMA UtcTodayIsDay ==
  ASSUME TypeOK
  PROVE  UtcToday \in Int
  BY DaysAssumption DEF TypeOK, UtcToday

\* Type correctness of the streak.
THEOREM StreakTypeOK == Spec => []TypeOK
<1>1. Init => TypeOK
  BY DaysAssumption DEF Init, TypeOK, NoStreak, StreakRecord
<1>2. TypeOK /\ [Next]_vars => TypeOK'
  <2> SUFFICES ASSUME TypeOK, [Next]_vars PROVE TypeOK'
    OBVIOUS
  <2>1. CASE Tick
    BY <2>1 DEF Tick, TypeOK
  <2>2. ASSUME NEW d \in SentDays, Practise(d) PROVE TypeOK'
    <3>1. /\ streak' = NextStreak(streak, ResolveToday(d, UtcToday))
          /\ credited' = credited \cup {ResolveToday(d, UtcToday)}
          /\ clock' = clock /\ calendars' \subseteq calendars
      BY <2>2 DEF Practise
    <3>2. inOrder' \in BOOLEAN
      BY <2>2, Zenon DEF Practise
    <3> QED BY <3>1, <3>2, UtcTodayIsDay, ResolveTodayIsDay, NextStreakType DEF TypeOK
  <2>3. CASE UNCHANGED vars
    BY <2>3 DEF vars, TypeOK
  <2> QED BY <2>1, <2>2, <2>3 DEF Next
<1> QED BY <1>1, <1>2, PTL DEF Spec

\* The streak never claims a day the user did not practise on, whatever dates
\* the devices send and in whatever order (UpdateStreak, streak_service.go).
THEOREM StreakNeverOverstated == Spec => []NeverOverstated
<1>1. NeverOverstated <=> Backed(streak, credited)
  BY DEF NeverOverstated, Backed, Run
<1>2. Init => Backed(streak, credited)
  BY DEF Init, NoStreak, Backed
<1>3. TypeOK /\ Backed(streak, credited) /\ [Next]_vars => Backed(streak, credited)'
  <2> SUFFICES ASSUME TypeOK, Backed(streak, credited), [Next]_vars
               PROVE  Backed(streak, credited)'
    OBVIOUS
  <2>1. CASE Tick
    BY <2>1 DEF Tick, Backed
  <2>2. ASSUME NEW d \in SentDays, Practise(d) PROVE Backed(streak, credited)'
    <3> DEFINE today == ResolveToday(d, UtcToday)
    <3>1. today \in Int
      BY UtcTodayIsDay, ResolveTodayIsDay
    <3>2. streak' = NextStreak(streak, today) /\ credited' = credited \cup {today}
      BY <2>2 DEF Practise
    <3>3. Backed(NextStreak(streak, today), credited \cup {today})
      BY <3>1, NextStreakBacked DEF TypeOK
    <3> HIDE DEF today
    <3>4. Backed(streak', credited')
      BY <3>2, <3>3
    <3> QED BY <3>4 DEF Backed
  <2>3. CASE UNCHANGED vars
    BY <2>3 DEF vars, Backed
  <2> QED BY <2>1, <2>2, <2>3 DEF Next
<1> QED BY <1>1, <1>2, <1>3, StreakTypeOK, PTL DEF Spec
-----------------------------------------------------------------------------
\* A quotient in terms of products.
LEMMA DivRange ==
  ASSUME NEW a \in Int, NEW b \in Nat \ {0}
  PROVE  /\ a \div b \in Int /\ (a \div b) * b \in Int
         /\ (a \div b) * b <= a /\ a < (a \div b) * b + b
  BY SMT

\* Products keep an order.
LEMMA TimesKeepsOrder ==
  ASSUME NEW p \in Int, NEW q \in Int, NEW b \in Nat \ {0}, q + 1 <= p
  PROVE  p * b >= q * b + b
  BY SMT

\* A larger number has no smaller quotient.
LEMMA DivMonotone ==
  ASSUME NEW a \in Int, NEW c \in Int, a <= c, NEW b \in Nat \ {0}
  PROVE  a \div b <= c \div b
<1> DEFINE p == a \div b
           q == c \div b
<1>1. p \in Int /\ p * b \in Int /\ p * b <= a
  BY DivRange
<1>2. q \in Int /\ q * b \in Int /\ c < q * b + b
  BY DivRange
<1> HIDE DEF p, q
<1> SUFFICES ASSUME q + 1 <= p PROVE FALSE
  BY <1>1, <1>2 DEF p, q
<1>3. p * b >= q * b + b
  BY <1>1, <1>2, TimesKeepsOrder
<1> QED BY <1>1, <1>2, <1>3

\* A zone's date does not go back.
LEMMA DaysGoOn ==
  ASSUME NEW t \in Nat, NEW u \in Nat, t <= u, NEW z \in Zones
  PROVE  LocalDay(t, z) \in Int /\ LocalDay(u, z) \in Int /\ LocalDay(t, z) <= LocalDay(u, z)
<1>1. z \in Int /\ DayLength \in Nat \ {0}
  BY DaysAssumption
<1>2. t + z \in Int /\ u + z \in Int /\ t + z <= u + z
  BY <1>1
<1>3. (t + z) \div DayLength <= (u + z) \div DayLength
  BY <1>1, <1>2, DivMonotone
<1>4. (t + z) \div DayLength \in Int /\ (u + z) \div DayLength \in Int
  BY <1>1, <1>2, DivRange
<1> QED BY <1>3, <1>4 DEF LocalDay

\* Days in order make the row exact; and in a zone that explains the credited
\* days, none of them lies in the future, which keeps them in order.
CalendarInv ==
  /\ inOrder => Exact(streak, credited)
  /\ calendars # {} => inOrder
  /\ \A z \in calendars : \A d \in credited : d <= LocalDay(clock, z)

\* The start, before any day.
LEMMA CalendarInit == Init => CalendarInv
BY DEF Init, CalendarInv, Exact, NoStreak

\* A step keeps the invariant, and resets an exact streak only after a gap.
LEMMA CalendarStep ==
  ASSUME TypeOK, CalendarInv, [Next]_vars
  PROVE  /\ CalendarInv'
         /\ calendars' # {} /\ streak'.currentLen < streak.currentLen =>
              streak'.lastDay - 1 \notin credited
<1>1. CASE Tick \/ UNCHANGED vars
  <2>1. /\ streak' = streak /\ credited' = credited /\ inOrder' = inOrder
        /\ calendars' = calendars
    BY <1>1 DEF Tick, vars
  <2>2. clock \in Nat /\ clock' \in Nat /\ clock <= clock'
    BY <1>1 DEF Tick, vars, TypeOK
  <2>3. \A z \in calendars : \A d \in credited : d <= LocalDay(clock', z)
    <3> SUFFICES ASSUME NEW z \in calendars, NEW d \in credited PROVE d <= LocalDay(clock', z)
      OBVIOUS
    <3>1. z \in Zones /\ d \in Int /\ d <= LocalDay(clock, z)
      BY DEF TypeOK, CalendarInv
    <3>2. /\ LocalDay(clock, z) \in Int /\ LocalDay(clock', z) \in Int
          /\ LocalDay(clock, z) <= LocalDay(clock', z)
      BY <2>2, <3>1, DaysGoOn
    <3> QED BY <3>1, <3>2
  <2>4. streak.currentLen \in Nat
    BY DEF TypeOK, StreakRecord
  <2>5. CalendarInv'
    BY <2>1, <2>3 DEF CalendarInv, Exact
  <2> QED BY <2>1, <2>4, <2>5
<1>2. ASSUME NEW sent \in SentDays, Practise(sent)
      PROVE  /\ CalendarInv'
             /\ calendars' # {} /\ streak'.currentLen < streak.currentLen =>
                  streak'.lastDay - 1 \notin credited
  <2>1. PICK today : today = ResolveToday(sent, UtcToday)
    OBVIOUS
  <2>2. today \in Int
    BY <2>1, UtcTodayIsDay, ResolveTodayIsDay
  <2>3. /\ streak' = NextStreak(streak, today) /\ credited' = credited \cup {today}
        /\ inOrder' = (inOrder /\ (streak.lastDay # NoDay => streak.lastDay <= today))
        /\ calendars' = {z \in calendars : LocalDay(clock, z) = today}
        /\ clock' = clock
    BY <1>2, <2>1 DEF Practise
  <2>4. ASSUME inOrder'
        PROVE  /\ Exact(streak', credited')
               /\ streak'.currentLen < streak.currentLen => streak'.lastDay - 1 \notin credited
    <3>1. inOrder /\ (streak.lastDay # NoDay => streak.lastDay <= today)
      BY <2>3, <2>4, Zenon
    <3>2. Exact(streak, credited) /\ credited \in SUBSET Int /\ streak \in StreakRecord
      BY <3>1 DEF CalendarInv, TypeOK
    <3>3. \A d \in credited : d <= today
      <4>1. CASE streak.lastDay = NoDay
        BY <3>2, <4>1 DEF Exact
      <4>2. CASE streak.lastDay # NoDay
        <5>1. streak.lastDay \in credited /\ \A d \in credited : d <= streak.lastDay
          BY <3>2, <4>2 DEF Exact
        <5>2. streak.lastDay \in Int /\ streak.lastDay <= today
          BY <3>1, <3>2, <4>2, <5>1
        <5> QED BY <2>2, <3>2, <5>1, <5>2
      <4> QED BY <4>1, <4>2
    <3>4. /\ Exact(NextStreak(streak, today), credited \cup {today})
          /\ NextStreak(streak, today).lastDay = today
          /\ NextStreak(streak, today).currentLen < streak.currentLen => today - 1 \notin credited
      BY <2>2, <3>2, <3>3, NextStreakExact
    <3> QED BY <2>3, <3>4, Zenon
  <2>5. ASSUME NEW z \in calendars'
        PROVE  z \in calendars /\ LocalDay(clock, z) = today
    BY <2>3, <2>5
  <2>6. calendars' # {} => inOrder'
    <3> SUFFICES ASSUME NEW z \in calendars' PROVE inOrder'
      OBVIOUS
    <3>1. z \in calendars /\ LocalDay(clock, z) = today
      BY <2>5
    <3>2. inOrder /\ Exact(streak, credited) /\ \A d \in credited : d <= today
      BY <3>1 DEF CalendarInv
    <3>3. streak.lastDay # NoDay => streak.lastDay <= today
      BY <3>2 DEF Exact
    <3> QED BY <2>3, <3>2, <3>3, Zenon
  <2>7. \A z \in calendars' : \A d \in credited' : d <= LocalDay(clock', z)
    BY <2>2, <2>3, <2>5 DEF CalendarInv
  <2>8. CalendarInv'
    BY <2>4, <2>6, <2>7, Zenon DEF CalendarInv, Exact
  <2> QED BY <2>4, <2>6, <2>8
<1> QED BY <1>1, <1>2 DEF Next

\* The streak is exactly the run of days practised (streak_service.go:3-6)
\* until an attempt is credited to a day before the last one's.
THEOREM StreakIsRunInOrder == Spec => []StreakIsRun
<1>1. CalendarInv => StreakIsRun
  BY DEF CalendarInv, Exact, StreakIsRun, Run
<1> QED BY <1>1, CalendarInit, CalendarStep, StreakTypeOK, PTL DEF Spec

\* A streak is reset only after a gap (streak_service.go:6), as long as every
\* attempt was credited to the day on which it was applied in some one zone.
THEOREM StreakResetNeedsGap == Spec => ResetNeedsGapInCalendar
<1>1. TypeOK /\ CalendarInv /\ [Next]_vars =>
        [calendars' # {} /\ streak'.currentLen < streak.currentLen =>
           streak'.lastDay - 1 \notin credited]_vars
  BY CalendarStep
<1> QED BY <1>1, CalendarInit, CalendarStep, StreakTypeOK, PTL DEF Spec, ResetNeedsGapInCalendar
=============================================================================
