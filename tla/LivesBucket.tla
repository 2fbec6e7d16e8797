---------------------------- MODULE LivesBucket -----------------------------
(***************************************************************************)
(* What the lives promise a player, told the way a cron job would do it:   *)
(* a bucket of at most MaxLives lives.  While it is not full a timer runs, *)
(* one life drops in every RefillTTL ticks, and the timer does not care    *)
(* how often the player looks at the bucket or takes from it.  The server  *)
(* has no such job (lives_service.go, lines 4-7); LivesClock shows that    *)
(* settling on read gives the same behaviour.                              *)
(***************************************************************************)
EXTENDS Integers

CONSTANTS MaxLives, RefillTTL

VARIABLES
  count,    \* lives in the bucket
  waited    \* ticks since the timer was last started, 0 while full

vars == <<count, waited>>

Init == count = MaxLives /\ waited = 0

\* Time passes over a full bucket: nothing to do.
TickFull == count = MaxLives /\ UNCHANGED vars

\* The timer runs on.
TickWait ==
  /\ count < MaxLives
  /\ waited + 1 < RefillTTL
  /\ waited' = waited + 1
  /\ UNCHANGED count

\* The timer rings: one life more, and the timer starts again.
TickRefill ==
  /\ count < MaxLives
  /\ waited + 1 = RefillTTL
  /\ count' = count + 1
  /\ waited' = 0

Take ==
  /\ count > 0
  /\ count' = count - 1
  /\ UNCHANGED waited

Next == TickFull \/ TickWait \/ TickRefill \/ Take

Spec == Init /\ [][Next]_vars
=============================================================================
