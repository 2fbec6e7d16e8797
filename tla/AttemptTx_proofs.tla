-------------------------- MODULE AttemptTx_proofs --------------------------
(***************************************************************************)
(* Proofs about AttemptTx, for any users, requests, submissions, pool and  *)
(* lives constants: the row lock makes every transaction stand on current  *)
(* rows, and so the transactions implement the one-step operations of      *)
(* AttemptStore.                                                           *)
(*                                                                         *)
(* SnapshotCurrent is not inductive as it stands.  TxInv adds what each    *)
(* request has established on its way (Held), and that no stored refill    *)
(* clock lies in the future.                                               *)
(***************************************************************************)
EXTENDS AttemptTx, Rules_proofs, FiniteSetTheorems

\* A request knows its operation from the moment it arrives.
OpKnown == \A r \in Requests : phase[r] # "idle" => op[r] \in Operation

\* The refill clock of a stored row never lies in the future.
NoFutureClock == \A u \in Users : account[u] # Gone => account[u].lives.updatedAt <= clock

\* What a transaction that is past LockRow may rely on.
Held(r) ==
  /\ lock[UserOf(r)] = r
  /\ RowExists(r)
  /\ op[r].kind # "delete"
  /\ settled[r] \in SettledRecord
  /\ Row(r).lives.updatedAt <= settled[r].at
  /\ settled[r].at <= clock
  /\ settled[r].lives = SettleLives(Row(r).lives, settled[r].at)
  /\ IF op[r].kind = "submit" THEN Accepted(op[r].sub, settled[r].lives)
                              ELSE settled[r].lives.count > 0
  /\ phase[r] \in {"recorded", "counted"} => op[r].kind = "submit"
  /\ phase[r] = "counted" =>
       /\ wrote[r] \in StreakWrite
       /\ wrote[r].row = NextStreak(Row(r).streak, wrote[r].day)
       /\ \E t \in Nat : /\ settled[r].at <= t /\ t <= clock
                         /\ wrote[r].day = ResolveToday(op[r].sub.localDay, UtcDay(t))

TxInv ==
  /\ TypeOK
  /\ OpKnown
  /\ NoFutureClock
  /\ \A r \in Requests : phase[r] \in InTx => Held(r)
-----------------------------------------------------------------------------
(* Types of the parts.                                                      *)

\* An operation says what it is.
LEMMA OperationFields ==
  ASSUME NEW o \in Operation
  PROVE  /\ o.user \in Users
         /\ o.kind \in {"submit", "consume", "delete"}
         /\ o.kind = "submit" => o.sub \in Submissions /\ o.sub \in Submission
  BY TxAssumption DEF Operation

\* The fields of a submission.
LEMMA SubmissionFields ==
  ASSUME NEW sub \in Submission
  PROVE  /\ sub.item \in Items /\ sub.practice \in BOOLEAN /\ sub.grade \in Grades
         /\ sub.localDay \in Int \cup {BadDay}
  BY DEF Submission

\* The rows of an account.
LEMMA AccountFields ==
  ASSUME NEW row \in AccountRecord
  PROVE  /\ row.lives \in LivesRecord /\ row.streak \in StreakRecord
         /\ row.progress \in [Items -> Grades] /\ row.attempts \in Seq(AttemptRow)
  BY DEF AccountRecord

\* An instant lies on a day.
LEMMA UtcDayType ==
  ASSUME NEW now \in Nat
  PROVE  UtcDay(now) \in Int
  BY ItemsAssumption DEF UtcDay

\* A new account is one.
LEMMA NewAccountType == NewAccount(0) \in AccountRecord
<1>1. FullLives(0) \in LivesRecord
  BY LivesAssumption DEF FullLives, LivesRecord
<1>2. NoStreak \in StreakRecord
  BY DEF NoStreak, StreakRecord
<1>3. [i \in Items |-> "none"] \in [Items -> Grades]
  BY DEF Grades
<1>4. <<>> \in Seq(AttemptRow)
  OBVIOUS
<1> QED BY <1>1, <1>2, <1>3, <1>4 DEF NewAccount, AccountRecord

\* Progress stays a grade for each item.
LEMMA FanOutType ==
  ASSUME NEW progress \in [Items -> Grades], NEW sub \in Submission
  PROVE  FanOut(progress, sub) \in [Items -> Grades]
  BY SubmissionFields DEF FanOut

\* An attempt leaves a row of table attempts.
LEMMA RowOfType ==
  ASSUME NEW sub \in Submission, NEW today \in Int
  PROVE  RowOf(sub, today) \in AttemptRow
  BY SubmissionFields DEF RowOf, AttemptRow

\* The rows of a user after an accepted attempt are rows.
LEMMA SubmittedType ==
  ASSUME NEW row \in AccountRecord, NEW sub \in Submission, NEW today \in Int,
         NEW lives \in LivesRecord, NEW streak \in StreakRecord
  PROVE  [lives |-> lives, streak |-> streak, progress |-> FanOut(row.progress, sub),
          attempts |-> Append(row.attempts, RowOf(sub, today))] \in AccountRecord
<1>1. FanOut(row.progress, sub) \in [Items -> Grades]
  BY FanOutType, AccountFields
<1>2. RowOf(sub, today) \in AttemptRow
  BY RowOfType
<1>3. Append(row.attempts, RowOf(sub, today)) \in Seq(AttemptRow)
  BY <1>2, AccountFields
<1> QED BY <1>1, <1>3 DEF AccountRecord
-----------------------------------------------------------------------------
(* The steps that several actions share.                                   *)

\* Finish gives back the lock of r and touches no other request.
LEMMA FinishEffect ==
  ASSUME TypeOK, NEW r \in Requests, NEW answer \in Replies, Finish(r, answer)
  PROVE  /\ phase' \in [Requests -> Phases] /\ reply' \in [Requests -> Replies \cup {Nothing}]
         /\ lock' \in [Users -> Requests \cup {Nothing}]
         /\ phase'[r] = "done"
         /\ \A q \in Requests \ {r} : phase'[q] = phase[q]
         /\ \A u \in Users : lock[u] # r => lock'[u] = lock[u]
  BY TxAssumption DEF TypeOK, Finish, Phases

\* What a transaction holds stays while nobody touches its user's row, its own
\* variables, or the clock, save to move it on.
LEMMA HeldFrame ==
  ASSUME TypeOK, NEW r \in Requests, Held(r),
         phase'[r] = phase[r], op'[r] = op[r],
         settled'[r] = settled[r], wrote'[r] = wrote[r],
         lock'[UserOf(r)] = lock[UserOf(r)], account'[UserOf(r)] = account[UserOf(r)],
         clock' \in Nat, clock <= clock'
  PROVE  Held(r)'
<1>1. UserOf(r)' = UserOf(r)
  BY DEF UserOf
<1>2. settled[r].at \in Nat /\ clock \in Nat
  BY DEF Held, SettledRecord, TypeOK
<1>3. settled'[r].at <= clock'
  BY <1>2 DEF Held
<1>4. (RowExists(r))' /\ account'[UserOf(r)].lives.updatedAt <= settled'[r].at
  BY <1>1 DEF Held, RowExists, Row
<1>5. phase'[r] = "counted" =>
        \E t \in Nat : /\ settled'[r].at <= t /\ t <= clock'
                       /\ wrote'[r].day = ResolveToday(op'[r].sub.localDay, UtcDay(t))
  BY <1>2 DEF Held
<1> QED BY <1>1, <1>3, <1>4, <1>5 DEF Held, Row

\* A transaction other than r keeps what it holds when r finishes: r has not
\* got its lock.
LEMMA OthersHeld ==
  ASSUME TxInv, NEW r \in Requests, NEW answer \in Replies, Finish(r, answer),
         UNCHANGED <<clock, op, settled, wrote>>,
         \A u \in Users : lock[u] \notin {r, Nothing} => account'[u] = account[u]
  PROVE  \A q \in Requests : phase'[q] \in InTx => Held(q)'
<1> SUFFICES ASSUME NEW q \in Requests, phase'[q] \in InTx PROVE Held(q)'
  OBVIOUS
<1> USE DEF TxInv
<1>1. q # r
  BY FinishEffect DEF InTx
<1>2. phase'[q] = phase[q]
  BY <1>1, FinishEffect
<1>3. Held(q) /\ lock[UserOf(q)] = q
  BY <1>2 DEF Held
<1>4. UserOf(q) \in Users
  BY <1>2, OperationFields DEF OpKnown, UserOf, InTx
<1>5. lock'[UserOf(q)] = lock[UserOf(q)]
  BY <1>1, <1>3, <1>4, FinishEffect
<1>6. account'[UserOf(q)] = account[UserOf(q)]
  BY <1>1, <1>3, <1>4, TxAssumption
<1>7. clock' \in Nat /\ clock <= clock'
  BY DEF TypeOK
<1> QED BY <1>2, <1>3, <1>5, <1>6, <1>7, HeldFrame

\* A request that ends without writing keeps the invariant.
LEMMA FinishKeepsInv ==
  ASSUME TxInv, NEW r \in Requests, NEW answer \in Replies, phase[r] # "idle",
         Finish(r, answer), UNCHANGED <<clock, account, spentAt, op, settled, wrote>>
  PROVE  TxInv'
<1>1. TypeOK'
  BY FinishEffect DEF TypeOK, TxInv
<1>2. OpKnown'
  BY FinishEffect DEF OpKnown, TxInv
<1>3. NoFutureClock'
  BY DEF NoFutureClock, TxInv
<1>4. \A q \in Requests : phase'[q] \in InTx => Held(q)'
  BY OthersHeld
<1> QED BY <1>1, <1>2, <1>3, <1>4 DEF TxInv

\* What a complete transaction publishes is rows, of its own user only, with a
\* refill clock that is not in the future.
LEMMA PublishEffect ==
  ASSUME TxInv, NEW r \in Requests, Complete(r), Publish(r)
  PROVE  /\ account' \in [Users -> AccountRecord \cup {Gone}]
         /\ spentAt' \in [Users -> Seq(Nat)]
         /\ \A u \in Users \ {UserOf(r)} : account'[u] = account[u]
         /\ account'[UserOf(r)].lives.updatedAt <= clock
<1> DEFINE u == UserOf(r)
           old == account[u]
           lives == LivesWritten(r)
<1>1. phase[r] \in InTx /\ Held(r) /\ TypeOK
  BY DEF Complete, InTx, TxInv
<1>2. op[r] \in Operation /\ u \in Users
  BY <1>1, OperationFields DEF TxInv, OpKnown, InTx, UserOf
<1>3. old \in AccountRecord /\ old.lives \in LivesRecord
  BY <1>1, <1>2, AccountFields DEF TypeOK, Held, RowExists, Row
<1>4. settled[r].lives \in LivesRecord /\ settled[r].at \in Nat /\ settled[r].at <= clock /\ clock \in Nat
  BY <1>1 DEF Held, SettledRecord, TypeOK
<1>5. settled[r].lives.updatedAt <= settled[r].at /\ old.lives.updatedAt <= settled[r].at
  BY <1>1, <1>3, <1>4, SettleClock DEF Held, Row
<1>6. Spends(r) => settled[r].lives.count > 0
  BY <1>1, <1>2, OperationFields DEF Held, Spends, Charged, Accepted
<1>7. lives \in LivesRecord /\ lives.updatedAt <= settled[r].at
  BY <1>3, <1>4, <1>5, <1>6, SpendType DEF LivesWritten, Row
<1>8. lives.updatedAt <= clock
  <2>1. lives.updatedAt \in Nat
    BY <1>7 DEF LivesRecord
  <2> QED BY <2>1, <1>4, <1>7
<1>9. account'[u] \in AccountRecord /\ account'[u].lives = lives
  <2>1. CASE op[r].kind = "consume"
    <3>1. account' = [account EXCEPT ![u] = [old EXCEPT !.lives = lives]]
      BY <2>1, Zenon DEF Publish, Row
    <3>2. account'[u] = [old EXCEPT !.lives = lives]
      BY <1>1, <1>2, <3>1, Zenon DEF TypeOK
    <3> HIDE DEF lives, old
    <3> QED BY <3>2, <1>3, <1>7 DEF AccountRecord
  <2>2. CASE op[r].kind # "consume"
    <3>1. op[r].kind = "submit" /\ phase[r] = "counted"
      BY <1>1, <2>2 DEF Complete, Held
    <3>2. wrote[r].row \in StreakRecord /\ wrote[r].day \in Int
      BY <1>1, <3>1 DEF Held, StreakWrite
    <3>3. op[r].sub \in Submission
      BY <1>2, <3>1, OperationFields
    <3>4. account'[u] = [lives |-> lives, streak |-> wrote[r].row,
                         progress |-> FanOut(old.progress, op[r].sub),
                         attempts |-> Append(old.attempts, RowOf(op[r].sub, wrote[r].day))]
      BY <1>1, <1>2, <2>2 DEF Publish, Row, TypeOK
    <3> HIDE DEF lives, old
    <3> QED BY <3>2, <3>3, <3>4, <1>3, <1>7, SubmittedType
  <2> QED BY <2>1, <2>2
<1> HIDE DEF lives
<1>10. spentAt' \in [Users -> Seq(Nat)]
  BY <1>1, <1>2, <1>4 DEF Publish, TypeOK
<1>11. \A v \in Users \ {u} : account'[v] = account[v]
  BY <1>1, <1>2 DEF Publish, TypeOK
<1>12. account' \in [Users -> AccountRecord \cup {Gone}]
  BY <1>1, <1>2, <1>9 DEF Publish, TypeOK
<1> QED BY <1>8, <1>9, <1>10, <1>11, <1>12
-----------------------------------------------------------------------------
(* The invariant.                                                          *)

\* A fresh database: everybody has signed up at instant 0, nobody has asked.
LEMMA InitTxInv == Init => TxInv
<1> SUFFICES ASSUME Init PROVE TxInv
  OBVIOUS
<1>1. TypeOK
  <2>1. account \in [Users -> AccountRecord \cup {Gone}]
    BY NewAccountType DEF Init
  <2>2. spentAt \in [Users -> Seq(Nat)]
    BY DEF Init
  <2> QED BY <2>1, <2>2 DEF Init, TypeOK, Phases
<1>2. OpKnown /\ \A r \in Requests : phase[r] \in InTx => Held(r)
  BY DEF Init, OpKnown, InTx
<1>3. NoFutureClock
  BY DEF Init, NoFutureClock, NewAccount, FullLives
<1> QED BY <1>1, <1>2, <1>3 DEF TxInv

\* A step of one request that leaves the rows and the locks alone.
LEMMA QuietStep ==
  ASSUME TxInv, NEW r \in Requests, TypeOK', OpKnown', Held(r)' \/ phase'[r] \notin InTx,
         \A q \in Requests \ {r} :
           /\ phase'[q] = phase[q] /\ op'[q] = op[q]
           /\ settled'[q] = settled[q] /\ wrote'[q] = wrote[q],
         UNCHANGED <<clock, account, lock>>
  PROVE  TxInv'
<1>1. NoFutureClock'
  BY DEF TxInv, NoFutureClock
<1>2. ASSUME NEW q \in Requests, phase'[q] \in InTx PROVE Held(q)'
  <2>1. CASE q = r
    BY <1>2, <2>1
  <2>2. CASE q # r
    <3>1. Held(q) /\ clock \in Nat /\ clock' \in Nat /\ clock <= clock'
      BY <1>2, <2>2 DEF TxInv, TypeOK
    <3> QED BY <2>2, <3>1, HeldFrame DEF TxInv
  <2> QED BY <2>1, <2>2
<1> QED BY <1>1, <1>2 DEF TxInv

\* LockRow establishes what the rest of the transaction relies on.
LEMMA LockRowKeepsInv ==
  ASSUME TxInv, NEW r \in Requests, LockRow(r)
  PROVE  TxInv'
<1> DEFINE u == UserOf(r)
<1>1. TypeOK /\ clock \in Nat /\ phase[r] = "begun" /\ op[r] \in Operation /\ u \in Users
  BY OperationFields DEF TxInv, TypeOK, LockRow, OpKnown, UserOf
<1>2. account[u] \in AccountRecord /\ Row(r).lives \in LivesRecord
  BY <1>1, AccountFields DEF TypeOK, LockRow, RowExists, Row
<1>3. LivesNow(r) \in LivesRecord
  BY <1>1, <1>2, SettleType DEF LivesNow
<1>4. settled'[r] = [lives |-> LivesNow(r), at |-> clock] /\ phase'[r] = "locked" /\ lock'[u] = r
  BY <1>1 DEF LockRow, TypeOK
<1>5. TypeOK'
  BY <1>1, <1>3 DEF LockRow, TypeOK, SettledRecord, Phases, OnConn, InTx
<1>6. OpKnown'
  BY <1>1 DEF LockRow, OpKnown, TxInv, TypeOK
<1>7. NoFutureClock'
  BY DEF LockRow, NoFutureClock, TxInv
<1>8. Held(r)'
  <2>1. Row(r).lives.updatedAt <= clock
    BY <1>1 DEF TxInv, NoFutureClock, LockRow, RowExists, Row
  <2>2. settled'[r] \in SettledRecord /\ settled'[r].lives = LivesNow(r) /\ settled'[r].at = clock
    BY <1>1, <1>3, <1>4 DEF SettledRecord
  <2>3. op[r].kind \in {"submit", "consume"}
    BY <1>1, OperationFields DEF LockRow
  <2> QED BY <1>1, <1>4, <2>1, <2>2, <2>3
          DEF LockRow, Held, RowExists, Row, UserOf, LivesNow, EnoughLives
<1>9. ASSUME NEW q \in Requests \ {r}, phase'[q] \in InTx PROVE Held(q)'
  <2>1. Held(q) /\ phase'[q] = phase[q] /\ settled'[q] = settled[q]
    BY <1>1, <1>9 DEF LockRow, TxInv, TypeOK
  <2>2. UserOf(q) # u
    BY <2>1, TxAssumption DEF LockRow, RowFree, Held
  <2>3. UserOf(q) \in Users
    BY <1>9, <2>1, OperationFields DEF TxInv, OpKnown, UserOf, InTx
  <2>4. lock'[UserOf(q)] = lock[UserOf(q)] /\ account' = account /\ clock' = clock
    BY <1>1, <2>2, <2>3 DEF LockRow, TypeOK
  <2> QED BY <1>1, <2>1, <2>4, HeldFrame DEF LockRow
<1> QED BY <1>5, <1>6, <1>7, <1>8, <1>9 DEF TxInv

\* CountDay reads the streak that Commit will overwrite.
LEMMA CountDayKeepsInv ==
  ASSUME TxInv, NEW r \in Requests, CountDay(r)
  PROVE  TxInv'
<1> DEFINE today == ResolveToday(op[r].sub.localDay, UtcDay(clock))
           write == [row |-> NextStreak(Row(r).streak, today), day |-> today]
<1>1. TypeOK /\ clock \in Nat /\ phase[r] = "recorded" /\ Held(r) /\ op[r] \in Operation /\ UserOf(r) \in Users
  BY OperationFields DEF TxInv, TypeOK, CountDay, OpKnown, UserOf, InTx
<1>2. Row(r).streak \in StreakRecord
  BY <1>1, AccountFields DEF TypeOK, Held, RowExists, Row
<1>3. today \in Int
  BY <1>1, UtcDayType, ResolveTodayIsDay
<1>4. write \in StreakWrite
  <2> HIDE DEF today
  <2> QED BY <1>2, <1>3, NextStreakType DEF StreakWrite
<1>5. wrote' = [wrote EXCEPT ![r] = write] /\ wrote'[r] = write /\ phase' = [phase EXCEPT ![r] = "counted"] /\ phase'[r] = "counted"
  BY <1>1 DEF CountDay, TypeOK
<1>6. TypeOK'
  <2> HIDE DEF write
  <2> QED BY <1>1, <1>4, <1>5 DEF CountDay, TypeOK, Phases, OnConn, InTx
<1>7. OpKnown'
  BY <1>1 DEF CountDay, OpKnown, TxInv, TypeOK
<1>8. Held(r)'
  <2>1. settled[r].at \in Nat /\ settled[r].at <= clock
    BY <1>1 DEF Held, SettledRecord
  <2>2. wrote'[r] \in StreakWrite /\ wrote'[r].row = NextStreak(Row(r).streak, wrote'[r].day) /\ wrote'[r].day = today
    <3> HIDE DEF today
    <3> QED BY <1>4, <1>5
  <2>3. \E t \in Nat : /\ settled[r].at <= t /\ t <= clock
                       /\ wrote'[r].day = ResolveToday(op[r].sub.localDay, UtcDay(t))
    BY <1>1, <2>1, <2>2
  <2> HIDE DEF today, write
  <2> QED BY <1>1, <1>5, <2>2, <2>3 DEF CountDay, Held, RowExists, Row, UserOf
<1>9. \A q \in Requests \ {r} : phase'[q] = phase[q] /\ wrote'[q] = wrote[q]
  <2> HIDE DEF write
  <2> QED BY <1>1, <1>5 DEF TypeOK
<1> QED BY <1>6, <1>7, <1>8, <1>9, QuietStep DEF CountDay

\* Publishing and finishing: Commit, with or without an answer.
LEMMA PublishKeepsInv ==
  ASSUME TxInv, NEW r \in Requests, NEW answer \in Replies,
         Complete(r), Publish(r), Finish(r, answer), UNCHANGED <<clock, op, settled, wrote>>
  PROVE  TxInv'
<1>1. phase[r] \in InTx /\ Held(r) /\ TypeOK
  BY DEF Complete, InTx, TxInv
<1>2. TypeOK'
  BY <1>1, FinishEffect, PublishEffect DEF TypeOK
<1>3. OpKnown'
  BY <1>1, FinishEffect DEF OpKnown, TxInv, InTx
<1>4. NoFutureClock'
  BY <1>1, PublishEffect DEF NoFutureClock, TxInv
<1>5. \A u \in Users : lock[u] \notin {r, Nothing} => account'[u] = account[u]
  BY <1>1, PublishEffect DEF Held
<1>6. \A q \in Requests : phase'[q] \in InTx => Held(q)'
  BY <1>5, OthersHeld
<1> QED BY <1>2, <1>3, <1>4, <1>6 DEF TxInv

\* DeleteUser takes only a row that nobody has locked.
LEMMA DeleteKeepsInv ==
  ASSUME TxInv, NEW r \in Requests, DeleteAccount(r)
  PROVE  TxInv'
<1>1. TypeOK /\ phase[r] = "begun" /\ op[r] \in Operation /\ UserOf(r) \in Users
  BY OperationFields DEF TxInv, DeleteAccount, OpKnown, UserOf
<1>2. account' = [account EXCEPT ![UserOf(r)] = Gone] /\ "ok" \in Replies /\ Finish(r, "ok")
  BY DEF DeleteAccount, Replies
<1>3. TypeOK'
  BY <1>1, <1>2, FinishEffect DEF TypeOK, DeleteAccount
<1>4. OpKnown'
  BY <1>1, <1>2, FinishEffect DEF OpKnown, TxInv, DeleteAccount
<1>5. NoFutureClock'
  BY <1>1, <1>2 DEF NoFutureClock, TxInv, DeleteAccount, TypeOK
<1>6. \A u \in Users : lock[u] \notin {r, Nothing} => account'[u] = account[u]
  BY <1>1, <1>2 DEF DeleteAccount, RowFree, TypeOK
<1>7. \A q \in Requests : phase'[q] \in InTx => Held(q)'
  BY <1>2, <1>6, OthersHeld DEF DeleteAccount
<1> QED BY <1>3, <1>4, <1>5, <1>7 DEF TxInv

\* Every step keeps the invariant.
LEMMA StepTxInv == TxInv /\ [Next]_vars => TxInv'
<1> SUFFICES ASSUME TxInv, [Next]_vars PROVE TxInv'
  OBVIOUS
<1>0. TypeOK /\ clock \in Nat
  BY DEF TxInv, TypeOK
<1>1. CASE Tick
  <2>1. clock' \in Nat /\ clock <= clock'
    BY <1>0, <1>1 DEF Tick
  <2>2. TypeOK' /\ OpKnown'
    BY <1>1, <2>1 DEF Tick, txVars, TxInv, TypeOK, OpKnown
  <2>3. NoFutureClock'
    <3> SUFFICES ASSUME NEW u \in Users, account[u] # Gone PROVE account[u].lives.updatedAt <= clock'
      BY <1>1 DEF Tick, NoFutureClock
    <3>1. account[u].lives.updatedAt \in Nat
      BY <1>0, AccountFields DEF TypeOK, LivesRecord
    <3> QED BY <1>0, <2>1, <3>1 DEF TxInv, NoFutureClock
  <2>4. \A q \in Requests : phase'[q] \in InTx => Held(q)'
    BY <1>0, <1>1, <2>1, HeldFrame DEF Tick, txVars, TxInv
  <2> QED BY <2>2, <2>3, <2>4 DEF TxInv
<1>2. ASSUME NEW r \in Requests, NEW o \in Operation, Arrive(r, o) PROVE TxInv'
  <2>1. TypeOK' /\ OpKnown'
    BY <1>0, <1>2 DEF Arrive, TxInv, TypeOK, OpKnown, Phases
  <2>2. phase'[r] \notin InTx
    BY <1>0, <1>2 DEF Arrive, TypeOK, InTx
  <2> QED BY <1>0, <1>2, <2>1, <2>2, QuietStep DEF Arrive, TypeOK
<1>3. ASSUME NEW r \in Requests, Begin(r) PROVE TxInv'
  <2>1. TypeOK' /\ OpKnown'
    BY <1>0, <1>3 DEF Begin, TxInv, TypeOK, OpKnown, Phases, OnConn
  <2>2. phase'[r] \notin InTx
    BY <1>0, <1>3 DEF Begin, TypeOK, InTx
  <2> QED BY <1>0, <1>3, <2>1, <2>2, QuietStep DEF Begin, TypeOK
<1>4. ASSUME NEW r \in Requests, RowMissing(r) \/ RefuseAttempt(r) \/ ConsumeNone(r) PROVE TxInv'
  BY <1>4, FinishKeepsInv DEF RowMissing, RefuseAttempt, ConsumeNone, Replies
<1>5. ASSUME NEW r \in Requests, LockRow(r) PROVE TxInv'
  BY <1>5, LockRowKeepsInv
<1>6. ASSUME NEW r \in Requests, Record(r) PROVE TxInv'
  <2>1. TypeOK' /\ OpKnown'
    BY <1>0, <1>6 DEF Record, TxInv, TypeOK, OpKnown, Phases, OnConn, InTx
  <2>2. Held(r) /\ op[r].kind = "submit" /\ phase'[r] = "recorded"
    BY <1>0, <1>6 DEF Record, TxInv, InTx, TypeOK
  <2>3. Held(r)'
    BY <1>6, <2>2 DEF Record, Held, UserOf, RowExists, Row
  <2> QED BY <1>0, <1>6, <2>1, <2>3, QuietStep DEF Record, TypeOK
<1>7. ASSUME NEW r \in Requests, CountDay(r) PROVE TxInv'
  BY <1>7, CountDayKeepsInv
<1>8. ASSUME NEW r \in Requests, Commit(r) \/ CommitUnacknowledged(r) PROVE TxInv'
  BY <1>8, PublishKeepsInv DEF Commit, CommitUnacknowledged, Replies
<1>9. ASSUME NEW r \in Requests, Fail(r) PROVE TxInv'
  BY <1>9, FinishKeepsInv DEF Fail, Replies, OnConn, InTx
<1>10. ASSUME NEW r \in Requests, DeleteAccount(r) PROVE TxInv'
  BY <1>10, DeleteKeepsInv
<1>11. CASE UNCHANGED vars
  BY <1>0, <1>11, HeldFrame DEF vars, txVars, TxInv, TypeOK, OpKnown, NoFutureClock
<1>12. CASE Quiescent
  BY <1>11, <1>12 DEF Quiescent
<1> QED BY <1>1, <1>2, <1>3, <1>4, <1>5, <1>6, <1>7, <1>8, <1>9, <1>10, <1>11, <1>12 DEF Next, Serve

\* The inductive invariant holds throughout.
THEOREM TxInvariant == Spec => []TxInv
  BY InitTxInv, StepTxInv, PTL DEF Spec

\* Type correctness of the transactions.
THEOREM TxTypeOK == Spec => []TypeOK
<1>1. TxInv => TypeOK
  BY DEF TxInv
<1> QED BY <1>1, TxInvariant, PTL

\* No update is lost, for any number of users and requests: a transaction that
\* has read the lives and the streak still finds them as it read them when it
\* commits (GetLivesForUpdate, attempt_service.go:97 and 160-161).
THEOREM TxSnapshotCurrent == Spec => []SnapshotCurrent
<1>1. TxInv => SnapshotCurrent
  BY DEF TxInv, Held, SnapshotCurrent
<1> QED BY <1>1, TxInvariant, PTL
-----------------------------------------------------------------------------
(* The pace of spending under concurrency.                                 *)

\* Lives taken are paid for, user by user, as in LivesClock.
PaceTx ==
  \A u \in Users :
    /\ Paced(spentAt[u])
    /\ account[u] # Gone => Credit(account[u].lives, spentAt[u])

\* Publishing keeps the pace: the life was settled and taken from the row that
\* is overwritten.
LEMMA PublishKeepsPace ==
  ASSUME TxInv, PaceTx, NEW r \in Requests, Complete(r), Publish(r)
  PROVE  PaceTx'
<1> DEFINE u == UserOf(r)
           row == account[u].lives
           t == settled[r].at
           times == spentAt[u]
<1>1. phase[r] \in InTx /\ Held(r) /\ TypeOK
  BY DEF Complete, InTx, TxInv
<1>2. op[r] \in Operation /\ u \in Users
  BY <1>1, OperationFields DEF TxInv, OpKnown, InTx, UserOf
<1>3. account[u] # Gone /\ account[u] \in AccountRecord /\ row \in LivesRecord
  BY <1>1, <1>2, AccountFields DEF TypeOK, Held, RowExists, Row
<1>4. t \in Nat /\ row.updatedAt <= t /\ times \in Seq(Nat)
  BY <1>1, <1>2 DEF Held, SettledRecord, TypeOK, Row
<1>5. settled[r].lives = SettleLives(row, t)
  BY <1>1 DEF Held, Row
<1>6. Paced(times) /\ Credit(row, times)
  BY <1>2, <1>3 DEF PaceTx
<1>7. \A v \in Users \ {u} : account'[v] = account[v] /\ spentAt'[v] = spentAt[v]
  BY <1>1, <1>2 DEF Publish, TypeOK
<1>8. account'[u].lives = LivesWritten(r)
  <2>1. CASE op[r].kind = "consume"
    <3>1. account'[u] = [account[u] EXCEPT !.lives = LivesWritten(r)]
      BY <1>1, <1>2, <2>1 DEF Publish, TypeOK, Row
    <3> QED BY <1>3, <3>1 DEF AccountRecord
  <2>2. CASE op[r].kind # "consume"
    BY <1>1, <1>2, <2>2 DEF Publish, TypeOK
  <2> QED BY <2>1, <2>2
<1>9. Paced(spentAt'[u]) /\ Credit(account'[u].lives, spentAt'[u])
  <2>1. CASE Spends(r)
    <3>1. SettleLives(row, t).count > 0
      BY <1>1, <1>2, <1>5, <2>1, OperationFields DEF Held, Spends, Charged, Accepted
    <3>2. spentAt'[u] = Append(times, t) /\ account'[u].lives = SpendLife(SettleLives(row, t))
      BY <1>1, <1>2, <1>5, <1>8, <2>1 DEF Publish, LivesWritten, TypeOK
    <3>3. Paced(Append(times, t)) /\ Credit(SpendLife(SettleLives(row, t)), Append(times, t))
      BY <1>3, <1>4, <1>6, <3>1, SpendKeepsPace, SpendKeepsCredit
    <3> QED BY <3>2, <3>3
  <2>2. CASE ~ Spends(r)
    <3>1. spentAt'[u] = times /\ account'[u].lives = row
      BY <1>1, <1>2, <1>8, <2>2 DEF Publish, LivesWritten, TypeOK, Row
    <3> QED BY <1>6, <3>1
  <2> QED BY <2>1, <2>2
<1> HIDE DEF u
<1>10. \A v \in Users : Paced(spentAt'[v]) /\ (account'[v] # Gone => Credit(account'[v].lives, spentAt'[v]))
  BY <1>7, <1>9 DEF PaceTx
<1> QED BY <1>10 DEF PaceTx, Paced, Credit

\* Every step keeps the pace.
LEMMA StepPaceTx == TxInv /\ PaceTx /\ [Next]_vars => PaceTx'
<1> SUFFICES ASSUME TxInv, PaceTx, [Next]_vars PROVE PaceTx'
  OBVIOUS
<1>1. ASSUME UNCHANGED <<account, spentAt>> PROVE PaceTx'
  BY <1>1 DEF PaceTx, Paced, Credit
<1>2. ASSUME NEW r \in Requests, Complete(r), Publish(r) PROVE PaceTx'
  BY <1>2, PublishKeepsPace
<1>3. ASSUME NEW r \in Requests, DeleteAccount(r) PROVE PaceTx'
  <2>1. UserOf(r) \in Users /\ account \in [Users -> AccountRecord \cup {Gone}]
    BY <1>3, OperationFields DEF TxInv, DeleteAccount, OpKnown, UserOf, TypeOK
  <2>2. account' = [account EXCEPT ![UserOf(r)] = Gone] /\ spentAt' = spentAt
    BY <1>3 DEF DeleteAccount
  <2> QED BY <2>1, <2>2 DEF PaceTx, Paced, Credit
<1>4. ASSUME NEW r \in Requests, NEW o \in Operation, Arrive(r, o) PROVE PaceTx'
  BY <1>1, <1>4 DEF Arrive
<1>5. ASSUME NEW r \in Requests,
             Begin(r) \/ RowMissing(r) \/ RefuseAttempt(r) \/ ConsumeNone(r) \/ LockRow(r)
               \/ Record(r) \/ CountDay(r) \/ Fail(r)
      PROVE  PaceTx'
  BY <1>1, <1>5 DEF Begin, RowMissing, RefuseAttempt, ConsumeNone, LockRow, Record, CountDay, Fail
<1>6. CASE Tick \/ UNCHANGED vars
  BY <1>1, <1>6 DEF Tick, vars
<1> QED BY <1>2, <1>3, <1>4, <1>5, <1>6 DEF Next, Serve, Commit, CommitUnacknowledged, Quiescent

\* Concurrent requests never take more lives than the bucket can have held,
\* however many there are and however they interleave (attempt_service.go:10-12).
THEOREM TxNoOverspend == Spec => []NoOverspend
<1>1. Init => PaceTx
  BY DEF Init, PaceTx, Paced, Credit
<1>2. PaceTx => NoOverspend
  BY DEF PaceTx, Paced, NoOverspend
<1> QED BY <1>1, <1>2, StepPaceTx, TxInvariant, PTL DEF Spec
-----------------------------------------------------------------------------
(* The streak and the attempts on record.                                  *)

\* The steps that touch the rows of a user: a commit and a deletion.
LEMMA AccountSteps ==
  ASSUME TxInv, [Next]_vars
  PROVE  \/ account' = account
         \/ \E r \in Requests : Complete(r) /\ Publish(r)
         \/ \E r \in Requests : /\ UserOf(r) \in Users
                                /\ account' = [account EXCEPT ![UserOf(r)] = Gone]
<1>1. ASSUME NEW r \in Requests, DeleteAccount(r)
      PROVE  UserOf(r) \in Users /\ account' = [account EXCEPT ![UserOf(r)] = Gone]
  BY <1>1, OperationFields DEF TxInv, DeleteAccount, OpKnown, UserOf
<1>2. ASSUME NEW r \in Requests, NEW o \in Operation, Arrive(r, o) PROVE account' = account
  BY <1>2 DEF Arrive
<1>3. ASSUME NEW r \in Requests,
             Begin(r) \/ RowMissing(r) \/ RefuseAttempt(r) \/ ConsumeNone(r) \/ LockRow(r)
               \/ Record(r) \/ CountDay(r) \/ Fail(r)
      PROVE  account' = account
  BY <1>3 DEF Begin, RowMissing, RefuseAttempt, ConsumeNone, LockRow, Record, CountDay, Fail
<1>4. ASSUME Tick \/ UNCHANGED vars PROVE account' = account
  BY <1>4 DEF Tick, vars
<1>5. account' = account \/ (\E r \in Requests : Complete(r) /\ Publish(r)) \/ \E r \in Requests : DeleteAccount(r)
  BY <1>2, <1>3, <1>4 DEF Next, Serve, Commit, CommitUnacknowledged, Quiescent
<1> QED BY <1>1, <1>5

\* StreakBacked for any streak and any attempts.
BackedBy(streak, rows) ==
  IF rows = <<>> THEN streak = NoStreak
  ELSE /\ streak.lastDay = rows[Len(rows)].day
       /\ (streak.lastDay - streak.currentLen + 1)..streak.lastDay
            \subseteq {rows[k].day : k \in DOMAIN rows}

\* An attempt more, counted by UpdateStreak, leaves the streak backed.
LEMMA CountKeepsBacked ==
  ASSUME NEW streak \in StreakRecord, NEW rows \in Seq(AttemptRow),
         NEW row \in AttemptRow, BackedBy(streak, rows)
  PROVE  BackedBy(NextStreak(streak, row.day), Append(rows, row))
<1> DEFINE next == NextStreak(streak, row.day)
           more == Append(rows, row)
           days == {rows[k].day : k \in DOMAIN rows}
<1>1. row.day \in Int
  BY DEF AttemptRow
<1>2. streak.lastDay # NoDay =>
        (streak.lastDay - streak.currentLen + 1)..streak.lastDay \subseteq days
  BY DEF BackedBy, NoStreak
<1>3. /\ next.lastDay = row.day
      /\ (row.day - next.currentLen + 1)..row.day \subseteq days \cup {row.day}
  <2> HIDE DEF days
  <2> QED BY <1>1, <1>2, NextStreakRun
<1>4. more # <<>> /\ more[Len(more)] = row
  OBVIOUS
<1>5. days \cup {row.day} \subseteq {more[k].day : k \in DOMAIN more}
  <2>1. \A k \in DOMAIN rows : k \in DOMAIN more /\ more[k] = rows[k]
    OBVIOUS
  <2>2. Len(more) \in DOMAIN more
    OBVIOUS
  <2> HIDE DEF more
  <2> QED BY <1>4, <2>1, <2>2
<1> HIDE DEF next, more, days
<1>6. BackedBy(next, more)
  BY <1>3, <1>4, <1>5 DEF BackedBy
<1> QED BY <1>6 DEF next, more

\* Publishing keeps the streak backed: an attempt and its streak become visible
\* together.
LEMMA PublishKeepsBacked ==
  ASSUME TxInv, StreakBacked, NEW r \in Requests, Complete(r), Publish(r)
  PROVE  StreakBacked'
<1> DEFINE u == UserOf(r)
           old == account[u]
<1>1. phase[r] \in InTx /\ Held(r) /\ TypeOK
  BY DEF Complete, InTx, TxInv
<1>2. op[r] \in Operation /\ u \in Users
  BY <1>1, OperationFields DEF TxInv, OpKnown, InTx, UserOf
<1>3. old # Gone /\ old \in AccountRecord /\ old.streak \in StreakRecord /\ old.attempts \in Seq(AttemptRow)
  BY <1>1, <1>2, AccountFields DEF TypeOK, Held, RowExists, Row
<1>4. BackedBy(old.streak, old.attempts)
  BY <1>2, <1>3 DEF StreakBacked, BackedBy
<1>5. \A v \in Users \ {u} : account'[v] = account[v]
  BY <1>1, <1>2 DEF Publish, TypeOK
<1>6. BackedBy(account'[u].streak, account'[u].attempts)
  <2>1. CASE op[r].kind = "consume"
    <3>1. account'[u] = [old EXCEPT !.lives = LivesWritten(r)]
      BY <1>1, <1>2, <2>1 DEF Publish, TypeOK, Row
    <3>2. account'[u].streak = old.streak /\ account'[u].attempts = old.attempts
      BY <1>3, <3>1 DEF AccountRecord
    <3> QED BY <1>4, <3>2
  <2>2. CASE op[r].kind # "consume"
    <3> DEFINE row == RowOf(op[r].sub, wrote[r].day)
    <3>1. op[r].kind = "submit" /\ phase[r] = "counted"
      BY <1>1, <2>2 DEF Complete, Held
    <3>2. wrote[r].row = NextStreak(old.streak, wrote[r].day) /\ wrote[r].day \in Int
      BY <1>1, <3>1 DEF Held, StreakWrite, Row
    <3>3. row \in AttemptRow /\ row.day = wrote[r].day
      BY <1>2, <3>1, <3>2, OperationFields, RowOfType DEF RowOf
    <3>4. account'[u].streak = wrote[r].row /\ account'[u].attempts = Append(old.attempts, row)
      BY <1>1, <1>2, <2>2 DEF Publish, TypeOK, Row
    <3> HIDE DEF row, old
    <3>5. BackedBy(NextStreak(old.streak, row.day), Append(old.attempts, row))
      BY <1>3, <1>4, <3>3, CountKeepsBacked
    <3> QED BY <3>2, <3>3, <3>4, <3>5
  <2> QED BY <2>1, <2>2
<1> HIDE DEF u
<1>7. \A v \in Users : account'[v] # Gone => BackedBy(account'[v].streak, account'[v].attempts)
  BY <1>5, <1>6 DEF StreakBacked, BackedBy
<1> QED BY <1>7 DEF StreakBacked, BackedBy

\* Every day a streak counts has an attempt to show for it, and the last attempt
\* set last_day, whatever transactions run, fail or are cut off (UpdateStreak
\* inside submitLocked, attempt_service.go:118-158).
THEOREM TxStreakBacked == Spec => []StreakBacked
<1>1. Init => StreakBacked
  BY DEF Init, StreakBacked, NewAccount
<1>2. TxInv /\ StreakBacked /\ [Next]_vars => StreakBacked'
  <2> SUFFICES ASSUME TxInv, StreakBacked, [Next]_vars PROVE StreakBacked'
    OBVIOUS
  <2>1. CASE account' = account
    BY <2>1 DEF StreakBacked
  <2>2. ASSUME NEW r \in Requests, Complete(r), Publish(r) PROVE StreakBacked'
    BY <2>2, PublishKeepsBacked
  <2>3. ASSUME NEW r \in Requests, UserOf(r) \in Users, account' = [account EXCEPT ![UserOf(r)] = Gone]
        PROVE  StreakBacked'
    BY <2>3 DEF StreakBacked, TxInv, TypeOK
  <2> QED BY <2>1, <2>2, <2>3, AccountSteps
<1> QED BY <1>1, <1>2, TxInvariant, PTL DEF Spec
-----------------------------------------------------------------------------
(* The progress and the attempts on record.                                *)

\* ProgressFollowsAttempts for any progress and any attempts.
FollowedBy(progress, rows) ==
  \A i \in Items :
    LET graded == GradedOn(rows, i)
    IN  IF graded = {} THEN progress[i] = "none"
        ELSE \E last \in graded :
               /\ \A k \in graded : k <= last
               /\ progress[i] = rows[last].grade

\* An attempt more, fanned out to the siblings of its item, is followed.
LEMMA FanOutFollows ==
  ASSUME NEW progress \in [Items -> Grades], NEW rows \in Seq(AttemptRow),
         NEW sub \in Submission, NEW today \in Int, FollowedBy(progress, rows)
  PROVE  FollowedBy(FanOut(progress, sub), Append(rows, RowOf(sub, today)))
<1> DEFINE row  == RowOf(sub, today)
           more == Append(rows, row)
           len  == Len(rows)
<1>1. row \in AttemptRow /\ row.practice = sub.practice /\ row.item = sub.item /\ row.grade = sub.grade
  BY RowOfType DEF RowOf
<1>2. /\ len \in Nat /\ DOMAIN rows = 1..len /\ DOMAIN more = 1..len + 1
      /\ more[len + 1] = row /\ \A k \in 1..len : more[k] = rows[k]
  <2> HIDE DEF row
  <2> QED BY <1>1
<1> HIDE DEF row, more, len
<1> SUFFICES ASSUME NEW i \in Items
             PROVE  LET graded == GradedOn(more, i)
                    IN  IF graded = {} THEN FanOut(progress, sub)[i] = "none"
                        ELSE \E last \in graded :
                               /\ \A k \in graded : k <= last
                               /\ FanOut(progress, sub)[i] = more[last].grade
  BY DEF FollowedBy, more, row
<1> DEFINE hit == ~ sub.practice /\ VerseOf[sub.item] = VerseOf[i]
<1>3. GradedOn(more, i) = GradedOn(rows, i) \cup (IF hit THEN {len + 1} ELSE {})
  BY <1>1, <1>2 DEF GradedOn
<1>4. CASE hit
  <2>1. FanOut(progress, sub)[i] = sub.grade
    BY <1>4 DEF FanOut, Siblings
  <2>2. len + 1 \in GradedOn(more, i) /\ \A k \in GradedOn(more, i) : k <= len + 1
    BY <1>2, <1>3, <1>4 DEF GradedOn
  <2> QED BY <1>1, <1>2, <2>1, <2>2
<1>5. CASE ~ hit
  <2>1. FanOut(progress, sub)[i] = progress[i]
    BY <1>5, SubmissionFields DEF FanOut, Siblings
  <2>2. GradedOn(more, i) = GradedOn(rows, i)
    BY <1>3, <1>5
  <2>3. \A k \in GradedOn(rows, i) : more[k].grade = rows[k].grade
    BY <1>2 DEF GradedOn
  <2> QED BY <2>1, <2>2, <2>3 DEF FollowedBy
<1> QED BY <1>4, <1>5

\* Publishing keeps the progress: an attempt and its fan-out become visible
\* together, on top of the rows that the transaction read.
LEMMA PublishKeepsFollowed ==
  ASSUME TxInv, ProgressFollowsAttempts, NEW r \in Requests, Complete(r), Publish(r)
  PROVE  ProgressFollowsAttempts'
<1> DEFINE u == UserOf(r)
           old == account[u]
<1>1. phase[r] \in InTx /\ Held(r) /\ TypeOK
  BY DEF Complete, InTx, TxInv
<1>2. op[r] \in Operation /\ u \in Users
  BY <1>1, OperationFields DEF TxInv, OpKnown, InTx, UserOf
<1>3. old # Gone /\ old \in AccountRecord /\ old.progress \in [Items -> Grades] /\ old.attempts \in Seq(AttemptRow)
  BY <1>1, <1>2, AccountFields DEF TypeOK, Held, RowExists, Row
<1>4. FollowedBy(old.progress, old.attempts)
  BY <1>2, <1>3 DEF ProgressFollowsAttempts, FollowedBy
<1>5. \A v \in Users \ {u} : account'[v] = account[v]
  BY <1>1, <1>2 DEF Publish, TypeOK
<1>6. FollowedBy(account'[u].progress, account'[u].attempts)
  <2>1. CASE op[r].kind = "consume"
    <3>1. account'[u] = [old EXCEPT !.lives = LivesWritten(r)]
      BY <1>1, <1>2, <2>1 DEF Publish, TypeOK, Row
    <3>2. account'[u].progress = old.progress /\ account'[u].attempts = old.attempts
      BY <1>3, <3>1 DEF AccountRecord
    <3> QED BY <1>4, <3>2
  <2>2. CASE op[r].kind # "consume"
    <3>1. op[r].kind = "submit" /\ phase[r] = "counted"
      BY <1>1, <2>2 DEF Complete, Held
    <3>2. wrote[r].day \in Int /\ op[r].sub \in Submission
      BY <1>1, <1>2, <3>1, OperationFields DEF Held, StreakWrite
    <3>3. /\ account'[u].progress = FanOut(old.progress, op[r].sub)
          /\ account'[u].attempts = Append(old.attempts, RowOf(op[r].sub, wrote[r].day))
      BY <1>1, <1>2, <2>2 DEF Publish, TypeOK, Row
    <3> HIDE DEF old
    <3> QED BY <1>3, <1>4, <3>2, <3>3, FanOutFollows
  <2> QED BY <2>1, <2>2
<1> HIDE DEF u
<1>7. \A v \in Users : account'[v] # Gone => FollowedBy(account'[v].progress, account'[v].attempts)
  BY <1>5, <1>6 DEF ProgressFollowsAttempts, FollowedBy
<1> QED BY <1>7 DEF ProgressFollowsAttempts, FollowedBy

\* The progress of an item is the grade of the last graded attempt on its verse
\* in any course, whatever transactions run side by side, fail or are cut off
\* (the fan-out of submitLocked, attempt_service.go:129-144).
THEOREM TxProgressFollowsAttempts == Spec => []ProgressFollowsAttempts
<1>1. Init => ProgressFollowsAttempts
  BY DEF Init, ProgressFollowsAttempts, GradedOn, NewAccount
<1>2. TxInv /\ ProgressFollowsAttempts /\ [Next]_vars => ProgressFollowsAttempts'
  <2> SUFFICES ASSUME TxInv, ProgressFollowsAttempts, [Next]_vars PROVE ProgressFollowsAttempts'
    OBVIOUS
  <2>1. CASE account' = account
    BY <2>1 DEF ProgressFollowsAttempts
  <2>2. ASSUME NEW r \in Requests, Complete(r), Publish(r) PROVE ProgressFollowsAttempts'
    BY <2>2, PublishKeepsFollowed
  <2>3. ASSUME NEW r \in Requests, UserOf(r) \in Users, account' = [account EXCEPT ![UserOf(r)] = Gone]
        PROVE  ProgressFollowsAttempts'
    BY <2>3 DEF ProgressFollowsAttempts, TxInv, TypeOK
  <2> QED BY <2>1, <2>2, <2>3, AccountSteps
<1> QED BY <1>1, <1>2, TxInvariant, PTL DEF Spec
-----------------------------------------------------------------------------
(* Refinement.  AttemptStore comes with its own copy of the rules, under   *)
(* the prefix Store!: they are the same operators.                         *)

\* The lives rules of both modules agree.
LEMMA SameLives ==
  /\ \A stored, now : Store!SettleLives(stored, now) = SettleLives(stored, now)
  /\ \A lives : Store!SpendLife(lives) = SpendLife(lives)
  BY DEF Store!SettleLives, SettleLives, Store!RefillCount, RefillCount,
         Store!FullLives, FullLives, Store!SpendLife, SpendLife

\* The streak rules of both modules agree.
LEMMA SameStreak ==
  /\ \A streak, today : Store!NextStreak(streak, today) = NextStreak(streak, today)
  /\ \A localDay, today : Store!ResolveToday(localDay, today) = ResolveToday(localDay, today)
  /\ \A now : Store!UtcDay(now) = UtcDay(now)
  BY DEF Store!NextStreak, NextStreak, Store!IsNextDay, IsNextDay,
         Store!ResolveToday, ResolveToday, Store!UtcDay, UtcDay

\* The attempt rules of both modules agree.
LEMMA SameAttempt ==
  /\ \A sub, lives : Store!Accepted(sub, lives) <=> Accepted(sub, lives)
  /\ \A sub : Store!Charged(sub) <=> Charged(sub)
  /\ \A progress, sub : Store!FanOut(progress, sub) = FanOut(progress, sub)
  /\ \A sub, today : Store!RowOf(sub, today) = RowOf(sub, today)
  /\ \A now : Store!NewAccount(now) = NewAccount(now)
  BY DEF Store!Accepted, Accepted, Store!Charged, Charged, Store!Cleared, Cleared,
         Store!FanOut, FanOut, Store!Siblings, Siblings, Store!RowOf, RowOf,
         Store!NewAccount, NewAccount, Store!FullLives, FullLives, Store!NoStreak, NoStreak

\* A transaction that publishes takes effect as one Submit or one Consume, at
\* the instants at which it settled the lives and counted the day.
LEMMA PublishIsOneStep ==
  ASSUME TxInv, NEW r \in Requests, Complete(r), Publish(r), UNCHANGED clock
  PROVE  Store!Next
<1> DEFINE u == UserOf(r)
           t1 == settled[r].at
<1>1. phase[r] \in InTx /\ Held(r) /\ TypeOK
  BY DEF Complete, InTx, TxInv
<1>2. op[r] \in Operation /\ u \in Users
  BY <1>1, OperationFields DEF TxInv, OpKnown, InTx, UserOf
<1>3. account[u] # Gone /\ account[u] \in AccountRecord /\ account[u].lives \in LivesRecord
  BY <1>1, <1>2, AccountFields DEF TypeOK, Held, RowExists, Row
<1>4. account[u].lives.updatedAt \in Nat /\ clock \in Nat /\ t1 \in Nat
  BY <1>1, <1>3 DEF LivesRecord, Held, SettledRecord, TypeOK
<1>5. t1 \in Store!ReadAt(u)
  BY <1>1, <1>4 DEF Held, Store!ReadAt, Row
<1>6. settled[r].lives = SettleLives(account[u].lives, t1)
  BY <1>1 DEF Held, Row
<1>7. CASE op[r].kind = "consume"
  <2>1. Store!ConsumeAt(u, t1)
    <3>1. settled[r].lives.count > 0
      BY <1>1, <1>7 DEF Held
    <3>2. account' = [account EXCEPT ![u].lives = SpendLife(settled[r].lives)]
      BY <1>7 DEF Publish, LivesWritten, Spends, Row
    <3>3. spentAt' = [spentAt EXCEPT ![u] = Append(@, t1)]
      BY <1>7 DEF Publish, Spends
    <3> QED BY <1>6, <3>1, <3>2, <3>3, SameLives DEF Store!ConsumeAt
  <2>2. Store!Consume(u)
    BY <1>3, <1>5, <2>1 DEF Store!Consume
  <2> QED BY <1>2, <2>2 DEF Store!Next
<1>8. CASE op[r].kind # "consume"
  <2> DEFINE sub == op[r].sub
  <2>1. op[r].kind = "submit" /\ phase[r] = "counted" /\ sub \in Submissions
    BY <1>1, <1>2, <1>8, OperationFields DEF Complete, Held
  <2>2. PICK t2 \in Nat : /\ t1 <= t2 /\ t2 <= clock
                          /\ wrote[r].day = ResolveToday(sub.localDay, UtcDay(t2))
    BY <1>1, <2>1 DEF Held
  <2>3. t2 \in Store!ReadAt(u)
    BY <1>1, <1>4, <2>2 DEF Held, Store!ReadAt, Row
  <2>4. Store!SubmitAt(u, sub, t1, t2)
    <3>1. Accepted(sub, settled[r].lives)
      BY <1>1, <2>1 DEF Held
    <3>2. Spends(r) <=> Charged(sub)
      BY <2>1 DEF Spends
    <3>3. wrote[r].row = NextStreak(account[u].streak, wrote[r].day)
      BY <1>1, <2>1 DEF Held, Row
    <3>4. account' = [account EXCEPT ![u] =
             [lives    |-> IF Charged(sub) THEN SpendLife(settled[r].lives) ELSE account[u].lives,
              streak   |-> wrote[r].row,
              progress |-> FanOut(account[u].progress, sub),
              attempts |-> Append(account[u].attempts, RowOf(sub, wrote[r].day))]]
      BY <1>8, <3>2 DEF Publish, LivesWritten, Row
    <3>5. spentAt' = [spentAt EXCEPT ![u] = IF Charged(sub) THEN Append(@, t1) ELSE @]
      BY <3>2 DEF Publish
    <3> QED BY <1>6, <2>2, <3>1, <3>3, <3>4, <3>5, SameLives, SameStreak, SameAttempt
            DEF Store!SubmitAt
  <2>5. Store!Submit(u, sub)
    BY <1>3, <1>5, <2>2, <2>3, <2>4 DEF Store!Submit
  <2> QED BY <1>2, <2>1, <2>5 DEF Store!Next
<1> QED BY <1>7, <1>8

\* A deletion takes the row away in one step, or finds it gone.
LEMMA DeleteIsOneStep ==
  ASSUME TxInv, NEW r \in Requests, DeleteAccount(r)
  PROVE  [Store!Next]_(Store!vars)
<1>1. UserOf(r) \in Users /\ account \in [Users -> AccountRecord \cup {Gone}]
  BY OperationFields DEF TxInv, DeleteAccount, OpKnown, UserOf, TypeOK
<1>2. CASE account[UserOf(r)] = Gone
  BY <1>1, <1>2 DEF DeleteAccount, Store!vars
<1>3. CASE account[UserOf(r)] # Gone
  BY <1>1, <1>3 DEF DeleteAccount, Store!DeleteAccount, Store!Next
<1> QED BY <1>2, <1>3

\* The transactions of attempt_service.go implement the one-step operations of
\* AttemptStore: every submitted attempt, consumed life and deletion takes
\* effect as a whole or not at all, whatever else runs at the same time.
THEOREM TxRefinesStore == Spec => RefinesStore
<1>1. Init => Store!Init
  BY SameAttempt DEF Init, Store!Init
<1>2. TxInv /\ [Next]_vars => [Store!Next]_(Store!vars)
  <2> SUFFICES ASSUME TxInv, [Next]_vars PROVE [Store!Next]_(Store!vars)
    OBVIOUS
  <2>1. CASE Tick
    BY <2>1 DEF Tick, Store!Next, Store!Tick
  <2>2. ASSUME NEW r \in Requests, Complete(r), Publish(r), UNCHANGED clock
        PROVE  Store!Next
    BY <2>2, PublishIsOneStep
  <2>3. ASSUME NEW r \in Requests, DeleteAccount(r) PROVE [Store!Next]_(Store!vars)
    BY <2>3, DeleteIsOneStep
  <2>4. ASSUME NEW r \in Requests, NEW o \in Operation, Arrive(r, o)
        PROVE  UNCHANGED Store!vars
    BY <2>4 DEF Arrive, Store!vars
  <2>5. ASSUME NEW r \in Requests,
               Begin(r) \/ RowMissing(r) \/ RefuseAttempt(r) \/ ConsumeNone(r) \/ LockRow(r)
                 \/ Record(r) \/ CountDay(r) \/ Fail(r)
        PROVE  UNCHANGED Store!vars
    BY <2>5 DEF Begin, RowMissing, RefuseAttempt, ConsumeNone, LockRow, Record, CountDay,
                Fail, Store!vars
  <2>6. CASE UNCHANGED vars
    BY <2>6 DEF vars, Store!vars
  <2> QED BY <2>1, <2>2, <2>3, <2>4, <2>5, <2>6
          DEF Next, Serve, Commit, CommitUnacknowledged, Quiescent
<1> QED BY <1>1, <1>2, TxInvariant, PTL DEF Spec, RefinesStore, Store!Spec
-----------------------------------------------------------------------------
(* Nobody is stuck: the part of Answered that does not rest on fairness.   *)

\* All connections of the pool are in use.
PoolUsedUp == Cardinality({q \in Requests : phase[q] \in OnConn}) >= PoolSize

\* A request that needs nothing that another one has: what the guards of the
\* actions in Serve(r) come to.
GoesOn(r) ==
  \/ phase[r] = "waiting" /\ ~ PoolUsedUp
  \/ phase[r] = "begun" /\ RowFree(r)
  \/ phase[r] \in InTx

\* Who waits for a row waits for a request that goes on, and who waits for a
\* connection waits while such a request has one.
NobodyStuck ==
  \A r \in Requests :
    /\ phase[r] = "begun" /\ ~ RowFree(r) => GoesOn(lock[UserOf(r)])
    /\ phase[r] = "waiting" /\ PoolUsedUp =>
         \E q \in Requests : phase[q] \in OnConn /\ GoesOn(q)

\* Only a request inside its transaction has a lock.
LocksInTx == \A u \in Users : lock[u] # Nothing => phase[lock[u]] \in InTx

\* Whoever ends a request gives its lock back.
LEMMA FinishKeepsLocks ==
  ASSUME TxInv, LocksInTx, NEW r \in Requests, NEW answer, Finish(r, answer)
  PROVE  LocksInTx'
<1> SUFFICES ASSUME NEW u \in Users, lock'[u] # Nothing PROVE phase'[lock'[u]] \in InTx
  BY DEF LocksInTx
<1>1. lock[u] # r /\ lock'[u] = lock[u] /\ lock[u] \in Requests
  BY DEF Finish, TxInv, TypeOK
<1>2. phase'[lock[u]] = phase[lock[u]]
  BY <1>1 DEF Finish, TxInv, TypeOK
<1> QED BY <1>1, <1>2 DEF LocksInTx

\* Every step keeps the locks where they belong.
LEMMA StepLocks == TxInv /\ LocksInTx /\ [Next]_vars => LocksInTx'
<1> SUFFICES ASSUME TxInv, LocksInTx, [Next]_vars PROVE LocksInTx'
  OBVIOUS
<1>0. TypeOK
  BY DEF TxInv
<1>1. ASSUME NEW r \in Requests,
             \/ RowMissing(r) \/ RefuseAttempt(r) \/ ConsumeNone(r) \/ Commit(r)
             \/ CommitUnacknowledged(r) \/ Fail(r) \/ DeleteAccount(r)
      PROVE  LocksInTx'
  BY <1>1, FinishKeepsLocks
     DEF RowMissing, RefuseAttempt, ConsumeNone, Commit, CommitUnacknowledged, Fail, DeleteAccount
<1>2. ASSUME NEW r \in Requests, LockRow(r) PROVE LocksInTx'
  <2>1. phase'[r] \in InTx /\ \A q \in Requests \ {r} : phase'[q] = phase[q]
    BY <1>0, <1>2 DEF LockRow, TypeOK, InTx
  <2>2. \A u \in Users : lock'[u] = r \/ lock'[u] = lock[u]
    BY <1>0, <1>2 DEF LockRow, TypeOK
  <2> QED BY <1>0, <2>1, <2>2 DEF LocksInTx, TypeOK
<1>3. ASSUME NEW r \in Requests, Record(r) \/ CountDay(r) PROVE LocksInTx'
  <2>1. lock' = lock /\ phase'[r] \in InTx /\ \A q \in Requests \ {r} : phase'[q] = phase[q]
    BY <1>0, <1>3 DEF Record, CountDay, TypeOK, InTx
  <2> QED BY <1>0, <2>1 DEF LocksInTx, TypeOK
<1>4. ASSUME NEW r \in Requests, Begin(r) \/ \E o \in Operation : Arrive(r, o) PROVE LocksInTx'
  <2>1. lock' = lock /\ phase[r] \notin InTx /\ \A q \in Requests \ {r} : phase'[q] = phase[q]
    BY <1>0, <1>4 DEF Begin, Arrive, TypeOK, InTx
  <2> QED BY <1>0, <2>1 DEF LocksInTx, TypeOK
<1>5. CASE UNCHANGED <<lock, phase>>
  BY <1>5 DEF LocksInTx
<1> QED BY <1>1, <1>2, <1>3, <1>4, <1>5 DEF Next, Serve, Quiescent, Tick, vars, txVars

\* A transaction on its way needs no second connection and no second lock
\* (inTx, attempt_service.go:46-62, binds all repositories to the one it has):
\* however small the pool and however many want one row, whoever waits does so
\* for a request that can go on.
THEOREM TxNobodyStuck == Spec => []NobodyStuck
<1>1. Init => LocksInTx
  BY DEF Init, LocksInTx
<1>2. TxInv /\ LocksInTx => NobodyStuck
  <2> SUFFICES ASSUME TxInv, LocksInTx, NEW r \in Requests
               PROVE  /\ phase[r] = "begun" /\ ~ RowFree(r) => GoesOn(lock[UserOf(r)])
                      /\ phase[r] = "waiting" /\ PoolUsedUp =>
                           \E q \in Requests : phase[q] \in OnConn /\ GoesOn(q)
    BY DEF NobodyStuck
  <2>1. ASSUME NEW q \in Requests, phase[q] = "begun", ~ RowFree(q)
        PROVE  /\ lock[UserOf(q)] \in Requests /\ GoesOn(lock[UserOf(q)])
               /\ phase[lock[UserOf(q)]] \in OnConn
    <3>1. UserOf(q) \in Users
      BY <2>1, OperationFields DEF TxInv, OpKnown, UserOf
    <3>2. lock[UserOf(q)] \in Requests /\ phase[lock[UserOf(q)]] \in InTx
      BY <2>1, <3>1 DEF RowFree, LocksInTx, TxInv, TypeOK
    <3> QED BY <3>2 DEF GoesOn, OnConn
  <2>2. ASSUME PoolUsedUp PROVE \E q \in Requests : phase[q] \in OnConn /\ GoesOn(q)
    <3>1. {q \in Requests : phase[q] \in OnConn} # {}
      BY <2>2, FS_EmptySet, TxAssumption DEF PoolUsedUp, TxAssumption
    <3>2. PICK q \in Requests : phase[q] \in OnConn
      BY <3>1
    <3>3. CASE phase[q] = "begun" /\ ~ RowFree(q)
      BY <2>1, <3>3
    <3>4. CASE ~ (phase[q] = "begun" /\ ~ RowFree(q))
      BY <3>2, <3>4 DEF GoesOn, OnConn
    <3> QED BY <3>3, <3>4
  <2> QED BY <2>1, <2>2
<1> QED BY <1>1, <1>2, StepLocks, InitTxInv, StepTxInv, PTL DEF Spec
=============================================================================
