---------------------------- MODULE AttemptStore ----------------------------
(***************************************************************************)
(* What the server promises of a user's progress: every submitted attempt, *)
(* every consumed life and the deletion of the account take effect in one  *)
(* step, or not at all (the header of attempt_service.go, lines 10-12).    *)
(* The instant a request read from the clock may lie before the instant it *)
(* takes effect, never before the last change of the lives.                *)
(***************************************************************************)
EXTENDS AttemptRules

CONSTANTS
  Users,        \* users.id
  Submissions   \* the attempts that clients submit

ASSUME SubmissionsAssumption == Submissions \subseteq Submission

VARIABLES
  clock,    \* the server's clock
  account,  \* the rows of each user
  spentAt   \* history: when each user's lives were taken, oldest first

vars == <<clock, account, spentAt>>

Init ==
  /\ clock = 0
  /\ account = [u \in Users |-> NewAccount(0)]
  /\ spentAt = [u \in Users |-> <<>>]

Tick == clock' = clock + 1 /\ UNCHANGED <<account, spentAt>>

\* The instants that a request which takes effect now may have read.
ReadAt(u) == account[u].lives.updatedAt..clock

\* An accepted attempt whose lives are settled at t1 and whose day is taken at
\* t2.
SubmitAt(u, sub, t1, t2) ==
  LET lives == SettleLives(account[u].lives, t1)
      today == ResolveToday(sub.localDay, UtcDay(t2))
  IN  /\ Accepted(sub, lives)
      /\ account' = [account EXCEPT
           ![u] = [lives    |-> IF Charged(sub) THEN SpendLife(lives) ELSE @.lives,
                   streak   |-> NextStreak(@.streak, today),
                   progress |-> FanOut(@.progress, sub),
                   attempts |-> Append(@.attempts, RowOf(sub, today))]]
      /\ spentAt' = [spentAt EXCEPT ![u] = IF Charged(sub) THEN Append(@, t1) ELSE @]
      /\ UNCHANGED clock

Submit(u, sub) ==
  /\ account[u] # Gone
  /\ \E t1, t2 \in ReadAt(u) : t1 <= t2 /\ SubmitAt(u, sub, t1, t2)

\* ConsumeLife with a life left at t1; without one it changes nothing.
ConsumeAt(u, t1) ==
  LET lives == SettleLives(account[u].lives, t1)
  IN  /\ lives.count > 0
      /\ account' = [account EXCEPT ![u].lives = SpendLife(lives)]
      /\ spentAt' = [spentAt EXCEPT ![u] = Append(@, t1)]
      /\ UNCHANGED clock

Consume(u) ==
  /\ account[u] # Gone
  /\ \E t1 \in ReadAt(u) : ConsumeAt(u, t1)

\* DeleteUser: the row goes, and with it every row that references it.
DeleteAccount(u) ==
  /\ account[u] # Gone
  /\ account' = [account EXCEPT ![u] = Gone]
  /\ UNCHANGED <<clock, spentAt>>

Next ==
  \/ Tick
  \/ \E u \in Users : Consume(u) \/ DeleteAccount(u) \/ \E sub \in Submissions : Submit(u, sub)

Spec == Init /\ [][Next]_vars
=============================================================================
