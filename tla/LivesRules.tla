----------------------------- MODULE LivesRules -----------------------------
(***************************************************************************)
(* The lives (hearts) arithmetic of internal/service/lives_service.go.     *)
(*                                                                         *)
(* A user's lives are stored as a count and the instant from which the     *)
(* next refill is measured.  Nothing refills them in the background:       *)
(* whoever reads the pair settles it against the current time.  Instants   *)
(* are whole ticks of the server clock.                                    *)
(***************************************************************************)
EXTENDS Integers

CONSTANTS
  MaxLives,   \* a full set of lives (5 in the code)
  RefillTTL,  \* ticks until one life is refilled (30 minutes in the code)
  Second      \* ticks in the second to which answers are rounded

ASSUME LivesAssumption ==
  /\ MaxLives \in Nat \ {0}
  /\ RefillTTL \in Nat \ {0}
  /\ Second \in Nat \ {0}

\* domain.Lives: what users.lives and users.lives_updated_at hold.
LivesRecord == [count : 0..MaxLives, updatedAt : Nat]

\* A full set, whose refill clock starts now.
FullLives(now) == [count |-> MaxLives, updatedAt |-> now]

\* Whole refill intervals since the stored instant.
RefillCount(stored, now) == (now - stored.updatedAt) \div RefillTTL

\* Mutant of SettleLives: a full set keeps its old clock (the bug that the
\* comment at lines 26-29 tells of).
SettleKeepsOldClock(stored, now) ==
  LET refillCount == RefillCount(stored, now)
      newCount    == stored.count + refillCount
  IN  IF stored.count >= MaxLives THEN [stored EXCEPT !.count = MaxLives]
      ELSE IF refillCount <= 0    THEN stored
      ELSE IF newCount >= MaxLives THEN FullLives(now)
      ELSE [count     |-> newCount,
            updatedAt |-> stored.updatedAt + refillCount * RefillTTL]

\* Mutant of SettleLives: a refill forgets the remainder of the next interval.
SettleForgetsRemainder(stored, now) ==
  LET newCount == stored.count + RefillCount(stored, now)
  IN  IF stored.count >= MaxLives \/ newCount >= MaxLives THEN FullLives(now)
      ELSE IF RefillCount(stored, now) <= 0 THEN stored
      ELSE [count |-> newCount, updatedAt |-> now]

\* SettleLives: the stored pair with the refills of the elapsed time applied.
\* The remainder of an unfinished interval is kept, except at a full set.
SettleLives(stored, now) ==
  LET refillCount == RefillCount(stored, now)
      newCount    == stored.count + refillCount
  IN  IF stored.count >= MaxLives THEN FullLives(now)
      ELSE IF refillCount <= 0    THEN stored
      ELSE IF newCount >= MaxLives THEN FullLives(now)
      ELSE [count     |-> newCount,
            updatedAt |-> stored.updatedAt + refillCount * RefillTTL]

\* lives.Count--, on a settled pair.
SpendLife(lives) == [lives EXCEPT !.count = @ - 1]

\* Mutant of NextRefillSec: the time already waited is not taken off.
NextRefillWhole(lives, now) ==
  IF lives.count < MaxLives THEN RefillTTL \div Second ELSE 0

\* nextRefillSec of the lives answer: whole seconds (of Second ticks, rounded
\* down) until the next life; 0 at a full set or when a refill is already due.
NextRefillSec(lives, now) ==
  LET remaining == RefillTTL - (now - lives.updatedAt)
  IN  IF lives.count < MaxLives /\ remaining > 0 THEN remaining \div Second ELSE 0
=============================================================================
