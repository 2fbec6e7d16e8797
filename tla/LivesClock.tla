----------------------------- MODULE LivesClock -----------------------------
(***************************************************************************)
(* The lives of one user: a stored pair, the server clock, and the three   *)
(* things that touch them.                                                 *)
(*   Consume     - ConsumeLife and the last step of submitLocked: settle   *)
(*                 under the users-row lock, take one, store.              *)
(*   ReadLives,  - GetMyLives: settle a copy at one instant and compute    *)
(*   AnswerLives   the countdown at a later one; nothing is stored.        *)
(*   Tick        - time passes.                                            *)
(* The lock that makes Consume one step is modelled in AttemptTx.          *)
(***************************************************************************)
EXTENDS LivesRules, Sequences

CONSTANTS
  Horizon,  \* bound of the clock, for model checking
  Nothing   \* no read under way, no answer given yet

\* "seen" is history: how many lives had been taken when the row was read.
ReadRecord   == [lives : LivesRecord, seen : Nat]
AnswerRecord == [count : 0..MaxLives, sec : Nat, at : Nat, seen : Nat]

ASSUME ClockAssumption ==
  /\ Horizon \in Nat
  /\ Nothing \notin ReadRecord
  /\ Nothing \notin AnswerRecord

VARIABLES
  now,      \* time.Now() of the server
  stored,   \* users.lives, users.lives_updated_at
  reading,  \* the settled copy a GetMyLives holds, or Nothing
  answer,   \* the last answer to GetMyLives, or Nothing
  spentAt   \* history: the instants at which a life was taken, oldest first

vars == <<now, stored, reading, answer, spentAt>>

\* What any reader of the row would compute from it now.
Settled == SettleLives(stored, now)

TypeOK ==
  /\ now \in Nat
  /\ stored \in LivesRecord
  /\ reading \in ReadRecord \cup {Nothing}
  /\ answer \in AnswerRecord \cup {Nothing}
  /\ spentAt \in Seq(Nat)

Init ==
  /\ now = 0
  /\ stored = FullLives(0)
  /\ reading = Nothing
  /\ answer = Nothing
  /\ spentAt = <<>>

Tick ==
  /\ now < Horizon
  /\ now' = now + 1
  /\ UNCHANGED <<stored, reading, answer, spentAt>>

\* Mutant of Consume: the check of the remaining lives is left out.
ConsumeUnchecked ==
  /\ stored' = SpendLife(Settled)
  /\ spentAt' = Append(spentAt, now)
  /\ UNCHANGED <<now, reading, answer>>

\* A refused consume (no lives left) writes nothing and is not a step.
Consume ==
  /\ Settled.count > 0
  /\ stored' = SpendLife(Settled)
  /\ spentAt' = Append(spentAt, now)
  /\ UNCHANGED <<now, reading, answer>>

ReadLives ==
  /\ reading = Nothing
  /\ reading' = [lives |-> Settled, seen |-> Len(spentAt)]
  /\ UNCHANGED <<now, stored, answer, spentAt>>

AnswerLives ==
  /\ reading # Nothing
  /\ answer' = [count |-> reading.lives.count,
                sec   |-> NextRefillSec(reading.lives, now),
                at    |-> now,
                seen  |-> reading.seen]
  /\ reading' = Nothing
  /\ UNCHANGED <<now, stored, spentAt>>

Next == Tick \/ Consume \/ ReadLives \/ AnswerLives

Spec == Init /\ [][Next]_vars
-----------------------------------------------------------------------------
\* No player can spend faster than the bucket allows: in any stretch of time,
\* from the i-th to the j-th life taken, at most a full set plus what refilled
\* meanwhile.  The comment in SettleLives (lives_service.go:26-29) tells of
\* the bug that breaks this: taking a life from a full set whose clock is old.
NoOverspend ==
  \A i, j \in DOMAIN spentAt : i <= j =>
    j - i + 1 <= MaxLives + (spentAt[j] - spentAt[i]) \div RefillTTL

\* Until the player spends again, the countdown of the last answer
\* (lives_handler.go:26-32) is true to the second: the next life never shows
\* before it has run out, and is there at most a second after it has.
CountdownTrue ==
  (answer # Nothing /\ answer.count < MaxLives /\ answer.seen = Len(spentAt)) =>
    /\ now < answer.at + answer.sec * Second => Settled.count = answer.count
    /\ now >= answer.at + (answer.sec + 1) * Second => Settled.count > answer.count

\* The row together with the clock behaves as the bucket with a timer: this
\* is the claim of lives_service.go:4-7, that settling on read keeps the state
\* exact without a background job.
Bucket == INSTANCE LivesBucket WITH
  count  <- Settled.count,
  waited <- IF Settled.count = MaxLives THEN 0 ELSE now - Settled.updatedAt

RefinesBucket == Bucket!Spec
=============================================================================
