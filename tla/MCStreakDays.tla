---------------------------- MODULE MCStreakDays ----------------------------
(* StreakDays for TLC: the zones, which a .cfg cannot write as negatives.  *)
EXTENDS StreakDays

\* A user who stays nine hours east of UTC (a third of a day, rounded up).
OneZone == {1}

\* A traveller: west of UTC, UTC and east of it.
ManyZones == {-2, 0, 1, 3}
=============================================================================
