---------------------------- MODULE AttemptRules ----------------------------
(***************************************************************************)
(* What one attempt does to a user's rows: the pure part of submitLocked   *)
(* (internal/service/attempt_service.go).  AttemptStore applies it in one  *)
(* step, AttemptTx statement by statement.                                 *)
(***************************************************************************)
EXTENDS LivesRules, StreakRules, Sequences

CONSTANTS
  Items,      \* course_items.id: one place of one verse in one course
  VerseOf,    \* course_items.verse_id, as a function of the item
  DayLength,  \* ticks of the clock in a day
  Gone        \* the account has been deleted

\* domain.Grade.  A progress row that does not exist reads as "none" too.
Grades == {"green", "yellow", "red", "none"}

ASSUME ItemsAssumption ==
  /\ DOMAIN VerseOf = Items
  /\ DayLength \in Nat \ {0}

\* A submitted attempt: "practice" is IsPracticeMode(mode), "grade" is what
\* GradeRecall makes of the tokens against the verse.
Submission ==
  [item : Items, practice : BOOLEAN, grade : Grades, localDay : Int \cup {BadDay}]

\* A row of table attempts; the day it was credited to is history.
AttemptRow == [item : Items, practice : BOOLEAN, grade : Grades, day : Int]

\* One user's rows of users (the lives), streaks, progress and attempts.
AccountRecord ==
  [lives    : LivesRecord,
   streak   : StreakRecord,
   progress : [Items -> Grades],
   attempts : Seq(AttemptRow)]

\* A user who has just signed up.
NewAccount(now) ==
  [lives    |-> FullLives(now),
   streak   |-> NoStreak,
   progress |-> [i \in Items |-> "none"],
   attempts |-> <<>>]

UtcDay(now) == now \div DayLength

\* cleared: the server's grade is green.
Cleared(sub) == sub.grade = "green"

\* Mutant of Accepted: an attempt without a life left is taken.
AcceptedAtZero(sub, lives) == sub.practice \/ lives.count >= 0

\* Practice is taken whatever lives are left (lines 93-95, 102).
Accepted(sub, lives) == sub.practice \/ lives.count > 0

\* Whether the attempt costs a life (line 162).
Charged(sub) == ~ Cleared(sub) /\ ~ sub.practice

\* Mutant of Siblings: progress goes to the submitted item only.
SiblingsNone(item) == {item}

\* ListSiblingCourseItemIDs: every item with the same verse, itself included.
Siblings(item) == {j \in Items : VerseOf[j] = VerseOf[item]}

\* The UpsertProgress calls: a graded attempt overwrites the row of every
\* sibling, a practised one writes none.
FanOut(progress, sub) ==
  [i \in Items |->
     IF ~ sub.practice /\ i \in Siblings(sub.item) THEN sub.grade ELSE progress[i]]

RowOf(sub, today) ==
  [item |-> sub.item, practice |-> sub.practice, grade |-> sub.grade, day |-> today]
=============================================================================
