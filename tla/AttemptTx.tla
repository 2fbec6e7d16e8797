----------------------------- MODULE AttemptTx ------------------------------
(***************************************************************************)
(* The transactions of internal/service/attempt_service.go as Postgres     *)
(* runs them.  Requests of all users are served concurrently.  A submit or *)
(* a consume takes a connection from the pool, begins a transaction, locks *)
(* the users row (SELECT ... FOR UPDATE), works through its statements and *)
(* commits; what it wrote is visible to the others from then on, and gone  *)
(* if any statement fails.  DeleteUser is a single statement that needs    *)
(* the same row lock.                                                      *)
(*                                                                         *)
(* Phases of a request:                                                    *)
(*   idle -> waiting -> begun -> locked -> recorded -> counted -> done     *)
(***************************************************************************)
EXTENDS AttemptRules, FiniteSets

CONSTANTS
  Users,        \* users.id
  Submissions,  \* the attempts that clients submit
  Requests,     \* identities of HTTP requests, each used once
  PoolSize,     \* connections of the pool (MaxConns)
  Nothing,      \* no operation, no lock holder, no value written yet
  Horizon       \* bound of the clock, for model checking

ASSUME TxAssumption ==
  /\ Submissions \subseteq Submission
  /\ PoolSize \in Nat \ {0}
  /\ Horizon \in Nat
  /\ IsFiniteSet(Requests) /\ Nothing \notin Requests

VARIABLES
  clock,    \* the server's clock
  account,  \* committed rows of each user
  spentAt,  \* history: when each user's lives were taken, oldest first
  lock,     \* the request that holds the lock of each users row
  phase,    \* how far each request is
  op,       \* what each request asks for
  settled,  \* "lives" of submitLocked: the settled pair, and when it was settled
  wrote,    \* the streak row a transaction has upserted, and its day
  reply     \* what each request was answered

txVars == <<lock, phase, op, settled, wrote, reply>>
vars   == <<clock, account, spentAt, txVars>>

Operation ==
  [kind : {"submit"}, user : Users, sub : Submissions]
    \cup [kind : {"consume", "delete"}, user : Users, sub : {Nothing}]

InTx     == {"locked", "recorded", "counted"}
OnConn   == {"begun"} \cup InTx
Phases   == {"idle", "waiting", "done"} \cup OnConn
Replies  == {"ok", "no_lives", "not_found", "error"}

SettledRecord == [lives : LivesRecord, at : Nat]
StreakWrite   == [row : StreakRecord, day : Int]

TypeOK ==
  /\ clock \in Nat
  /\ account \in [Users -> AccountRecord \cup {Gone}]
  /\ spentAt \in [Users -> Seq(Nat)]
  /\ lock \in [Users -> Requests \cup {Nothing}]
  /\ phase \in [Requests -> Phases]
  /\ op \in [Requests -> Operation \cup {Nothing}]
  /\ settled \in [Requests -> SettledRecord \cup {Nothing}]
  /\ wrote \in [Requests -> StreakWrite \cup {Nothing}]
  /\ reply \in [Requests -> Replies \cup {Nothing}]

Init ==
  /\ clock = 0
  /\ account = [u \in Users |-> NewAccount(0)]
  /\ spentAt = [u \in Users |-> <<>>]
  /\ lock = [u \in Users |-> Nothing]
  /\ phase = [r \in Requests |-> "idle"]
  /\ op = [r \in Requests |-> Nothing]
  /\ settled = [r \in Requests |-> Nothing]
  /\ wrote = [r \in Requests |-> Nothing]
  /\ reply = [r \in Requests |-> Nothing]

UserOf(r) == op[r].user
Row(r) == account[UserOf(r)]
RowExists(r) == Row(r) # Gone
RowFree(r) == lock[UserOf(r)] = Nothing

\* SettleLives of the row just read, at the current time.
LivesNow(r) == SettleLives(Row(r).lives, clock)

\* The checks on the settled lives (lines 102 and 247).
EnoughLives(r) ==
  IF op[r].kind = "submit" THEN Accepted(op[r].sub, LivesNow(r)) ELSE LivesNow(r).count > 0

\* The request is answered; its transaction, its connection and its lock, if
\* it held one, are given back.
Finish(r, answer) ==
  /\ phase' = [phase EXCEPT ![r] = "done"]
  /\ reply' = [reply EXCEPT ![r] = answer]
  /\ lock' = [u \in Users |-> IF lock[u] = r THEN Nothing ELSE lock[u]]
-----------------------------------------------------------------------------
Tick ==
  /\ clock < Horizon
  /\ clock' = clock + 1
  /\ UNCHANGED <<account, spentAt, txVars>>

\* A request arrives.
Arrive(r, o) ==
  /\ phase[r] = "idle"
  /\ phase' = [phase EXCEPT ![r] = "waiting"]
  /\ op' = [op EXCEPT ![r] = o]
  /\ UNCHANGED <<clock, account, spentAt, lock, settled, wrote, reply>>

\* pool.Begin: a connection is free.
Begin(r) ==
  /\ phase[r] = "waiting"
  /\ Cardinality({q \in Requests : phase[q] \in OnConn}) < PoolSize
  /\ phase' = [phase EXCEPT ![r] = "begun"]
  /\ UNCHANGED <<clock, account, spentAt, lock, op, settled, wrote, reply>>

\* GetLivesForUpdate finds no row: the account was deleted while waiting.
RowMissing(r) ==
  /\ phase[r] = "begun" /\ op[r].kind # "delete"
  /\ RowFree(r) /\ ~ RowExists(r)
  /\ Finish(r, "not_found")
  /\ UNCHANGED <<clock, account, spentAt, op, settled, wrote>>

\* A graded attempt without lives is refused before anything is written.
RefuseAttempt(r) ==
  /\ phase[r] = "begun" /\ op[r].kind = "submit"
  /\ RowFree(r) /\ RowExists(r)
  /\ ~ EnoughLives(r)
  /\ Finish(r, "no_lives")
  /\ UNCHANGED <<clock, account, spentAt, op, settled, wrote>>

\* ConsumeLife without lives answers with the empty bucket and writes nothing.
ConsumeNone(r) ==
  /\ phase[r] = "begun" /\ op[r].kind = "consume"
  /\ RowFree(r) /\ RowExists(r)
  /\ ~ EnoughLives(r)
  /\ Finish(r, "ok")
  /\ UNCHANGED <<clock, account, spentAt, op, settled, wrote>>

\* Mutant of LockRow: the lives are read without FOR UPDATE.
ReadRowUnlocked(r) ==
  /\ phase[r] = "begun" /\ op[r].kind # "delete"
  /\ RowExists(r)
  /\ EnoughLives(r)
  /\ lock' = [lock EXCEPT ![UserOf(r)] = r]
  /\ phase' = [phase EXCEPT ![r] = "locked"]
  /\ settled' = [settled EXCEPT ![r] = [lives |-> LivesNow(r), at |-> clock]]
  /\ UNCHANGED <<clock, account, spentAt, op, wrote, reply>>

\* Mutant of LockRow: the transaction takes a second connection of the pool,
\* as its statements would with repositories that are not bound to it.
LockRowOnSecondConnection(r) ==
  /\ phase[r] = "begun" /\ op[r].kind # "delete"
  /\ Cardinality({q \in Requests : phase[q] \in OnConn}) < PoolSize
  /\ RowFree(r) /\ RowExists(r)
  /\ EnoughLives(r)
  /\ lock' = [lock EXCEPT ![UserOf(r)] = r]
  /\ phase' = [phase EXCEPT ![r] = "locked"]
  /\ settled' = [settled EXCEPT ![r] = [lives |-> LivesNow(r), at |-> clock]]
  /\ UNCHANGED <<clock, account, spentAt, op, wrote, reply>>

\* GetLivesForUpdate gets the row, SettleLives settles it, and there are lives
\* enough: the transaction goes on and nobody else's can.
LockRow(r) ==
  /\ phase[r] = "begun" /\ op[r].kind # "delete"
  /\ RowFree(r) /\ RowExists(r)
  /\ EnoughLives(r)
  /\ lock' = [lock EXCEPT ![UserOf(r)] = r]
  /\ phase' = [phase EXCEPT ![r] = "locked"]
  /\ settled' = [settled EXCEPT ![r] = [lives |-> LivesNow(r), at |-> clock]]
  /\ UNCHANGED <<clock, account, spentAt, op, wrote, reply>>

\* Grading, InsertAttempt and the UpsertProgress calls: rows that nobody sees
\* before the commit, and that Commit computes from the submission.
Record(r) ==
  /\ phase[r] = "locked" /\ op[r].kind = "submit"
  /\ phase' = [phase EXCEPT ![r] = "recorded"]
  /\ UNCHANGED <<clock, account, spentAt, lock, op, settled, wrote, reply>>

\* UpdateStreak: reads the committed streak, writes the next one.
CountDay(r) ==
  /\ phase[r] = "recorded"
  /\ LET today == ResolveToday(op[r].sub.localDay, UtcDay(clock))
     IN  wrote' = [wrote EXCEPT ![r] =
           [row |-> NextStreak(Row(r).streak, today), day |-> today]]
  /\ phase' = [phase EXCEPT ![r] = "counted"]
  /\ UNCHANGED <<clock, account, spentAt, lock, op, settled, reply>>

\* Whether the operation takes a life.
Spends(r) == op[r].kind = "consume" \/ Charged(op[r].sub)

\* The lives after the last statement: UpdateLives, if a life is taken.
LivesWritten(r) == IF Spends(r) THEN SpendLife(settled[r].lives) ELSE Row(r).lives

\* Mutant of Publish: a submit's streak row is lost.
PublishWithoutStreak(r) ==
  /\ account' = [account EXCEPT ![UserOf(r)] =
       IF op[r].kind = "consume" THEN [Row(r) EXCEPT !.lives = LivesWritten(r)]
       ELSE [lives    |-> LivesWritten(r),
             streak   |-> Row(r).streak,
             progress |-> FanOut(Row(r).progress, op[r].sub),
             attempts |-> Append(Row(r).attempts, RowOf(op[r].sub, wrote[r].day))]]
  /\ spentAt' = [spentAt EXCEPT ![UserOf(r)] = IF Spends(r) THEN Append(@, settled[r].at) ELSE @]

\* All that the transaction wrote becomes visible.
Publish(r) ==
  /\ account' = [account EXCEPT ![UserOf(r)] =
       IF op[r].kind = "consume" THEN [Row(r) EXCEPT !.lives = LivesWritten(r)]
       ELSE [lives    |-> LivesWritten(r),
             streak   |-> wrote[r].row,
             progress |-> FanOut(Row(r).progress, op[r].sub),
             attempts |-> Append(Row(r).attempts, RowOf(op[r].sub, wrote[r].day))]]
  /\ spentAt' = [spentAt EXCEPT ![UserOf(r)] = IF Spends(r) THEN Append(@, settled[r].at) ELSE @]

\* The transaction is complete: a consume after the check, a submit after its
\* streak.
Complete(r) ==
  \/ phase[r] = "locked" /\ op[r].kind = "consume"
  \/ phase[r] = "counted"

Commit(r) ==
  /\ Complete(r)
  /\ Publish(r)
  /\ Finish(r, "ok")
  /\ UNCHANGED <<clock, op, settled, wrote>>

\* The commit takes effect, but the connection is lost before Commit returns.
CommitUnacknowledged(r) ==
  /\ Complete(r)
  /\ Publish(r)
  /\ Finish(r, "error")
  /\ UNCHANGED <<clock, op, settled, wrote>>

\* A statement fails, the context is cancelled or the server dies: Postgres
\* rolls the transaction back.
Fail(r) ==
  /\ phase[r] \in {"waiting"} \cup OnConn
  /\ Finish(r, "error")
  /\ UNCHANGED <<clock, account, spentAt, op, settled, wrote>>

\* DeleteUser waits for the row lock, and takes the row and all that
\* references it; a row that is gone already is no error.
DeleteAccount(r) ==
  /\ phase[r] = "begun" /\ op[r].kind = "delete"
  /\ RowFree(r)
  /\ account' = [account EXCEPT ![UserOf(r)] = Gone]
  /\ Finish(r, "ok")
  /\ UNCHANGED <<clock, spentAt, op, settled, wrote>>

\* Every request has been answered: the model has nothing left to do.
Quiescent == (\A r \in Requests : phase[r] = "done") /\ UNCHANGED vars

\* The steps that the server and the database take of themselves.
Serve(r) ==
  \/ Begin(r)
  \/ RowMissing(r)
  \/ RefuseAttempt(r)
  \/ ConsumeNone(r)
  \/ LockRow(r)
  \/ Record(r)
  \/ CountDay(r)
  \/ Commit(r)
  \/ DeleteAccount(r)

Next ==
  \/ Tick
  \/ \E r \in Requests :
       \/ \E o \in Operation : Arrive(r, o)
       \/ Serve(r)
       \/ CommitUnacknowledged(r)
       \/ Fail(r)
  \/ Quiescent

Spec == Init /\ [][Next]_vars

\* The server goes on with every request it has.  Connections and row locks
\* are granted in the order of asking, and a request is used once, so a
\* weakly fair grant is enough.  Nothing makes clients send, or calls fail.
FairSpec == Spec /\ \A r \in Requests : WF_vars(Serve(r))
-----------------------------------------------------------------------------
\* Each transaction stands on rows that nobody has changed since it read them,
\* so no update is lost: what it settled and counted is what it would settle
\* and count from the committed rows (comment at lines 160-161).
SnapshotCurrent ==
  \A r \in Requests : phase[r] \in InTx =>
    /\ lock[UserOf(r)] = r
    /\ RowExists(r)
    /\ settled[r].lives = SettleLives(Row(r).lives, settled[r].at)
    /\ phase[r] = "counted" =>
         wrote[r].row = NextStreak(Row(r).streak, wrote[r].day)

\* Concurrent requests never take more lives than the bucket can have held:
\* the double spending that the header (lines 10-12) says the lock prevents.
NoOverspend ==
  \A u \in Users : \A i, j \in DOMAIN spentAt[u] : i <= j =>
    j - i + 1 <= MaxLives + (spentAt[u][j] - spentAt[u][i]) \div RefillTTL

\* Which of the attempts are graded attempts on the verse of an item.
GradedOn(rows, item) ==
  {k \in DOMAIN rows : ~ rows[k].practice /\ VerseOf[rows[k].item] = VerseOf[item]}

\* The progress of an item is the grade of the last graded attempt on its
\* verse, in whatever course that was (lines 129-133), whoever raced whom.
ProgressFollowsAttempts ==
  \A u \in Users : account[u] # Gone =>
    \A i \in Items :
      LET rows   == account[u].attempts
          graded == GradedOn(rows, i)
      IN  IF graded = {} THEN account[u].progress[i] = "none"
          ELSE \E last \in graded :
                 /\ \A k \in graded : k <= last
                 /\ account[u].progress[i] = rows[last].grade

\* Every day a streak counts has an attempt to show for it, and an attempt on
\* record has been counted: the last one set last_day.
StreakBacked ==
  \A u \in Users : account[u] # Gone =>
    LET streak == account[u].streak
        rows   == account[u].attempts
    IN  IF rows = <<>> THEN streak = NoStreak
        ELSE /\ streak.lastDay = rows[Len(rows)].day
             /\ (streak.lastDay - streak.currentLen + 1)..streak.lastDay
                  \subseteq {rows[k].day : k \in DOMAIN rows}

\* Every request that arrives is answered: nobody waits for ever for a
\* connection or for the row, however small the pool.
Answered == \A r \in Requests : phase[r] = "waiting" ~> phase[r] = "done"

\* The transactions implement the one-step operations of AttemptStore.
Store == INSTANCE AttemptStore
RefinesStore == Store!Spec
=============================================================================
