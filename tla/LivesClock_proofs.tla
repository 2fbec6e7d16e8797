------------------------- MODULE LivesClock_proofs --------------------------
(***************************************************************************)
(* Proofs about LivesClock, for any size of the set, refill interval and   *)
(* horizon: nobody spends faster than lives refill, and settling on read   *)
(* cannot be told from a bucket that a timer refills.                      *)
(*                                                                         *)
(* NoOverspend looks at the past only and is not inductive.  PaceInv adds  *)
(* Credit: the lives taken since any earlier one and the lives left over   *)
(* are paid for up to the stored instant, which is not in the future.      *)
(***************************************************************************)
EXTENDS LivesClock, Rules_proofs

\* A stored pair and a history of spending that NoOverspend can build on.
PaceInv ==
  /\ TypeOK
  /\ stored.updatedAt <= now
  /\ Credit(stored, spentAt)
  /\ Paced(spentAt)

\* The countdown is a whole number of seconds.
LEMMA NextRefillSecType ==
  ASSUME NEW lives \in LivesRecord, NEW t \in Nat
  PROVE  NextRefillSec(lives, t) \in Nat
<1> DEFINE remaining == RefillTTL - (t - lives.updatedAt)
<1>1. remaining \in Int /\ Second \in Nat \ {0}
  BY LivesAssumption DEF LivesRecord
<1> HIDE DEF remaining
<1>2. ASSUME remaining > 0 PROVE remaining \div Second \in Nat
  <2>1. 0 <= remaining \div Second
    <3>1. 0 * Second <= remaining
      BY <1>1, <1>2
    <3> QED BY <1>1, <3>1, DivAtLeast
  <2> QED BY <1>1, <2>1, DivBounds
<1> QED BY <1>2 DEF NextRefillSec, remaining

\* A new user has a full set and has taken none.
LEMMA InitPace == Init => PaceInv
<1> SUFFICES ASSUME Init PROVE PaceInv
  OBVIOUS
<1>1. FullLives(0) \in LivesRecord /\ FullLives(0).updatedAt = 0
  BY LivesAssumption DEF FullLives, LivesRecord
<1>2. TypeOK
  BY <1>1 DEF Init, TypeOK
<1> QED BY <1>1, <1>2 DEF Init, PaceInv, Credit, Paced

\* Every step keeps the pace.
LEMMA StepPace == PaceInv /\ [Next]_vars => PaceInv'
<1> SUFFICES ASSUME PaceInv, [Next]_vars PROVE PaceInv'
  OBVIOUS
<1>0. /\ now \in Nat /\ stored \in LivesRecord /\ spentAt \in Seq(Nat)
      /\ stored.updatedAt \in Nat /\ Settled \in LivesRecord
  BY SettleType DEF PaceInv, TypeOK, LivesRecord, Settled
<1>1. CASE Tick
  BY <1>0, <1>1 DEF Tick, PaceInv, TypeOK, Credit, Paced
<1>2. CASE Consume
  <2>1. stored' = SpendLife(Settled) /\ spentAt' = Append(spentAt, now) /\ now' = now
    BY <1>2 DEF Consume
  <2>2. stored' \in LivesRecord /\ stored'.updatedAt <= now
    BY <1>0, <1>2, <2>1, SpendType, SettleClock DEF Consume, Settled, PaceInv
  <2>3. Credit(SpendLife(Settled), Append(spentAt, now))
    BY <1>0, <1>2, SpendKeepsCredit DEF Consume, Settled, PaceInv
  <2>4. Paced(Append(spentAt, now))
    BY <1>0, <1>2, SpendKeepsPace DEF Consume, Settled, PaceInv
  <2>5. Credit(stored, spentAt)' /\ Paced(spentAt)'
    BY <2>1, <2>3, <2>4 DEF Credit, Paced
  <2>6. TypeOK'
    BY <1>0, <1>2, <2>1, <2>2 DEF Consume, PaceInv, TypeOK
  <2> QED BY <2>1, <2>2, <2>5, <2>6 DEF PaceInv
<1>3. CASE ReadLives
  <2>1. Len(spentAt) \in Nat
    BY <1>0
  <2>2. reading' \in ReadRecord
    BY <1>0, <1>3, <2>1 DEF ReadLives, ReadRecord
  <2> QED BY <1>3, <2>2 DEF ReadLives, PaceInv, TypeOK, Credit, Paced
<1>4. CASE AnswerLives
  <2>1. reading \in ReadRecord
    BY <1>4 DEF AnswerLives, PaceInv, TypeOK
  <2>2. reading.lives \in LivesRecord /\ reading.seen \in Nat /\ reading.lives.count \in 0..MaxLives
    BY <2>1 DEF ReadRecord, LivesRecord
  <2>3. NextRefillSec(reading.lives, now) \in Nat
    BY <1>0, <2>2, NextRefillSecType
  <2>4. answer' \in AnswerRecord
    BY <1>0, <1>4, <2>2, <2>3 DEF AnswerLives, AnswerRecord
  <2> QED BY <1>4, <2>4 DEF AnswerLives, PaceInv, TypeOK, Credit, Paced
<1>5. CASE UNCHANGED vars
  BY <1>5 DEF vars, PaceInv, TypeOK, Credit, Paced
<1> QED BY <1>1, <1>2, <1>3, <1>4, <1>5 DEF Next

\* The inductive invariant holds throughout.
THEOREM PaceInvariant == Spec => []PaceInv
  BY InitPace, StepPace, PTL DEF Spec

\* Type correctness of the lives.
THEOREM LivesTypeOK == Spec => []TypeOK
<1>1. PaceInv => TypeOK
  BY DEF PaceInv
<1> QED BY <1>1, PaceInvariant, PTL

\* In any stretch of time a player takes at most a full set of lives plus what
\* refilled meanwhile, for any set size and interval (SettleLives,
\* lives_service.go:25-50).
THEOREM LivesNoOverspend == Spec => []NoOverspend
<1>1. PaceInv => NoOverspend
  BY DEF PaceInv, Paced, NoOverspend
<1> QED BY <1>1, PaceInvariant, PTL
-----------------------------------------------------------------------------
(* Refinement of the bucket.                                               *)

\* How long the timer of the bucket has run, for a settled pair.
Waited(lives, t) == IF lives.count = MaxLives THEN 0 ELSE t - lives.updatedAt

\* No negative number of intervals fits into a stretch of time.
LEMMA DivNatural ==
  ASSUME NEW a \in Nat, NEW b \in Nat \ {0}
  PROVE  a \div b \in Nat
  BY SMT

\* One tick more completes an interval, or it does not.
LEMMA DivStep ==
  ASSUME NEW a \in Int, NEW b \in Nat \ {0}
  PROVE  \/ (a + 1) \div b = a \div b /\ a - (a \div b) * b + 1 < b
         \/ (a + 1) \div b = a \div b + 1 /\ a - (a \div b) * b + 1 = b
  BY SMT

\* A tick changes what the row settles to as a tick changes the bucket.
LEMMA SettleStep ==
  ASSUME NEW row \in LivesRecord, NEW t \in Nat, row.updatedAt <= t
  PROVE  LET old == SettleLives(row, t)
             new == SettleLives(row, t + 1)
         IN  \/ /\ old.count = MaxLives /\ new.count = MaxLives
             \/ /\ old.count < MaxLives
                /\ Waited(old, t) + 1 < RefillTTL
                /\ new.count = old.count /\ Waited(new, t + 1) = Waited(old, t) + 1
             \/ /\ old.count < MaxLives
                /\ Waited(old, t) + 1 = RefillTTL
                /\ new.count = old.count + 1 /\ Waited(new, t + 1) = 0
<1> DEFINE k == RefillCount(row, t)
           l == RefillCount(row, t + 1)
           gain == k * RefillTTL
           more == l * RefillTTL
           a == t - row.updatedAt
<1>1. /\ row.count \in Nat /\ row.count <= MaxLives /\ row.updatedAt \in Nat
      /\ MaxLives \in Nat \ {0} /\ RefillTTL \in Nat \ {0} /\ t + 1 \in Nat
  BY LivesAssumption DEF LivesRecord
<1>2. k \in Int /\ gain \in Int /\ gain <= a /\ a - gain < RefillTTL /\ a \in Nat
  BY <1>1, RefillBounds
<1>3. l \in Int
  BY <1>1, RefillBounds
<1>4. k >= 0
  <2>1. a \div RefillTTL \in Nat
    BY <1>1, <1>2, DivNatural
  <2> QED BY <2>1 DEF RefillCount
<1>5. \/ l = k /\ more = gain /\ a - gain + 1 < RefillTTL
      \/ l = k + 1 /\ more = gain + RefillTTL /\ a - gain + 1 = RefillTTL
  <2>1. (t + 1) - row.updatedAt = a + 1
    BY <1>1
  <2>2. k = a \div RefillTTL /\ l = (a + 1) \div RefillTTL
    BY <2>1 DEF RefillCount
  <2>3. (k + 1) * RefillTTL = gain + RefillTTL
    <3> HIDE DEF k
    <3>1. (k + 1) * RefillTTL = k * RefillTTL + 1 * RefillTTL
      BY <1>1, <1>2, Products
    <3> QED BY <1>1, <3>1
  <2>4. \/ l = k /\ a - (a \div RefillTTL) * RefillTTL + 1 < RefillTTL
        \/ l = k + 1 /\ a - (a \div RefillTTL) * RefillTTL + 1 = RefillTTL
    <3>1. a \in Int /\ RefillTTL \in Nat \ {0}
      BY <1>1, <1>2
    <3> HIDE DEF a, k, l
    <3>2. \/ (a + 1) \div RefillTTL = a \div RefillTTL
             /\ a - (a \div RefillTTL) * RefillTTL + 1 < RefillTTL
          \/ (a + 1) \div RefillTTL = a \div RefillTTL + 1
             /\ a - (a \div RefillTTL) * RefillTTL + 1 = RefillTTL
      BY <3>1, DivStep
    <3> QED BY <2>2, <3>2, Zenon
  <2>5. gain = (a \div RefillTTL) * RefillTTL
    BY <2>2
  <2>6. /\ l = k => more = gain
        /\ l = k + 1 => more = gain + RefillTTL
    <3> HIDE DEF k, l
    <3> QED BY <2>3
  <2> HIDE DEF a, k, l, gain, more
  <2> QED BY <2>4, <2>5, <2>6
<1> DEFINE Mid(n, g) == [count |-> row.count + n, updatedAt |-> row.updatedAt + g]
<1>6. k = 0 => gain = 0
  BY <1>1
<1>7. /\ row.count + k >= MaxLives => SettleLives(row, t) = FullLives(t)
      /\ row.count + k < MaxLives =>
           SettleLives(row, t).count = row.count + k /\ SettleLives(row, t).updatedAt = row.updatedAt + gain
  <2>1. row.count + k >= MaxLives => SettleLives(row, t) = FullLives(t)
    BY <1>1, <1>2, <1>4 DEF SettleLives
  <2>2. ASSUME row.count + k < MaxLives, k = 0
        PROVE  SettleLives(row, t) = row
    BY <1>1, <2>2 DEF SettleLives
  <2>3. ASSUME row.count + k < MaxLives, k > 0
        PROVE  SettleLives(row, t) = Mid(k, gain)
    BY <1>1, <1>2, <2>3 DEF SettleLives
  <2> HIDE DEF k, gain
  <2> QED BY <1>1, <1>2, <1>4, <1>6, <2>1, <2>2, <2>3
<1>8. l >= 0 /\ (l = 0 => more = 0)
  <2>1. l = 0 => more = 0
    BY <1>1
  <2> HIDE DEF k, l, gain, more
  <2> QED BY <1>2, <1>4, <1>5, <2>1
<1>9. /\ row.count + l >= MaxLives => SettleLives(row, t + 1) = FullLives(t + 1)
      /\ row.count + l < MaxLives =>
           SettleLives(row, t + 1).count = row.count + l /\ SettleLives(row, t + 1).updatedAt = row.updatedAt + more
  <2>1. row.count + l >= MaxLives => SettleLives(row, t + 1) = FullLives(t + 1)
    BY <1>1, <1>3, <1>8 DEF SettleLives
  <2>2. ASSUME row.count + l < MaxLives, l = 0
        PROVE  SettleLives(row, t + 1) = row
    BY <1>1, <2>2 DEF SettleLives
  <2>3. ASSUME row.count + l < MaxLives, l > 0
        PROVE  SettleLives(row, t + 1) = Mid(l, more)
    BY <1>1, <1>3, <2>3 DEF SettleLives
  <2> HIDE DEF l, more
  <2> QED BY <1>1, <1>3, <1>8, <2>1, <2>2, <2>3
<1>10. /\ FullLives(t).count = MaxLives /\ FullLives(t).updatedAt = t
       /\ FullLives(t + 1).count = MaxLives /\ FullLives(t + 1).updatedAt = t + 1
  BY DEF FullLives
<1> HIDE DEF k, l, gain, more
<1>11. CASE row.count + k >= MaxLives
  <2>1. row.count + l >= MaxLives
    BY <1>1, <1>2, <1>5, <1>11
  <2> QED BY <1>7, <1>9, <1>10, <1>11, <2>1
<1>12. CASE row.count + k < MaxLives /\ l = k
  <2>1. /\ SettleLives(row, t).count = row.count + k
        /\ SettleLives(row, t).updatedAt = row.updatedAt + gain
    BY <1>7, <1>12
  <2>2. /\ SettleLives(row, t + 1).count = row.count + k
        /\ SettleLives(row, t + 1).updatedAt = row.updatedAt + gain
    BY <1>1, <1>2, <1>5, <1>9, <1>12
  <2>3. (t - (row.updatedAt + gain)) + 1 < RefillTTL
    BY <1>1, <1>2, <1>5, <1>12
  <2>4. (t + 1) - (row.updatedAt + gain) = (t - (row.updatedAt + gain)) + 1
    BY <1>1, <1>2
  <2> QED BY <1>1, <1>2, <1>12, <2>1, <2>2, <2>3, <2>4 DEF Waited
<1>13. CASE row.count + k < MaxLives /\ l = k + 1 /\ row.count + l < MaxLives
  BY <1>1, <1>2, <1>5, <1>7, <1>9, <1>13 DEF Waited
<1>14. CASE row.count + k < MaxLives /\ l = k + 1 /\ row.count + l >= MaxLives
  BY <1>1, <1>2, <1>5, <1>7, <1>9, <1>10, <1>14 DEF Waited
<1> QED BY <1>1, <1>2, <1>5, <1>11, <1>12, <1>13, <1>14

\* A pair from which a life was just taken settles to itself.
LEMMA SettleSpent ==
  ASSUME NEW row \in LivesRecord, NEW t \in Nat, row.updatedAt <= t,
         SettleLives(row, t).count > 0
  PROVE  LET spent == SpendLife(SettleLives(row, t))
         IN  SettleLives(spent, t) = spent
<1> DEFINE lives == SettleLives(row, t)
           spent == SpendLife(lives)
           k == RefillCount(spent, t)
           gain == k * RefillTTL
<1>1. lives \in LivesRecord /\ spent \in LivesRecord /\ spent.updatedAt = lives.updatedAt
  BY SettleType, SpendType
<1>2. IF lives.count = MaxLives THEN lives.updatedAt = t ELSE t - lives.updatedAt < RefillTTL
  BY SettleFresh
<1>3. lives.updatedAt <= t
  BY SettleClock
<1>4. spent.count < MaxLives
  BY <1>1, LivesAssumption DEF SpendLife, LivesRecord
<1>5. /\ spent.updatedAt \in Nat /\ spent.count \in Nat
      /\ MaxLives \in Nat /\ RefillTTL \in Nat \ {0}
  BY <1>1, LivesAssumption DEF LivesRecord
<1>6. k \in Int /\ gain \in Int /\ gain <= t - spent.updatedAt
  BY <1>1, RefillBounds
<1> HIDE DEF lives, spent
<1>7. t - spent.updatedAt < RefillTTL
  BY <1>1, <1>2, <1>5
<1>8. k <= 0
  <2> HIDE DEF k
  <2> SUFFICES ASSUME k >= 1 PROVE FALSE
    BY <1>6
  <2>1. 1 * RefillTTL <= gain
    BY <1>5, <1>6, Products
  <2> HIDE DEF gain
  <2> QED BY <1>5, <1>6, <1>7, <2>1
<1>9. SettleLives(spent, t) = spent
  BY <1>4, <1>5, <1>8 DEF SettleLives
<1> QED BY <1>9 DEF lives, spent

\* The row with the clock implements the bucket with the timer: settling on
\* read is as good as a refill job (lives_service.go:4-7).
THEOREM LivesRefineBucket == Spec => RefinesBucket
<1>1. Init => Bucket!Init
  <2> SUFFICES ASSUME Init PROVE Bucket!Init
    OBVIOUS
  <2>1. stored = FullLives(0) /\ now = 0 /\ stored.count = MaxLives
    BY DEF Init, FullLives
  <2>2. Settled = FullLives(0)
    BY <2>1, LivesAssumption DEF Settled, SettleLives
  <2> QED BY <2>2 DEF Bucket!Init, FullLives
<1>2. PaceInv /\ [Next]_vars => [Bucket!Next]_(Bucket!vars)
  <2> SUFFICES ASSUME PaceInv, [Next]_vars PROVE [Bucket!Next]_(Bucket!vars)
    OBVIOUS
  <2> DEFINE waited == Waited(Settled, now)
  <2>0. /\ now \in Nat /\ stored \in LivesRecord /\ stored.updatedAt <= now
        /\ Settled \in LivesRecord /\ MaxLives \in Nat \ {0} /\ RefillTTL \in Nat \ {0}
    BY SettleType, LivesAssumption DEF PaceInv, TypeOK, Settled
  <2>1. CASE Tick
    <3>1. Settled' = SettleLives(stored, now + 1) /\ now' = now + 1
      BY <2>1 DEF Tick, Settled
    <3>2. \/ /\ Settled.count = MaxLives /\ Settled'.count = MaxLives
          \/ /\ Settled.count < MaxLives /\ Waited(Settled, now) + 1 < RefillTTL
             /\ Settled'.count = Settled.count
             /\ Waited(Settled', now + 1) = Waited(Settled, now) + 1
          \/ /\ Settled.count < MaxLives /\ Waited(Settled, now) + 1 = RefillTTL
             /\ Settled'.count = Settled.count + 1 /\ Waited(Settled', now + 1) = 0
      BY <2>0, <3>1, SettleStep DEF Settled
    <3> QED BY <3>1, <3>2 DEF Waited, Bucket!Next, Bucket!TickFull, Bucket!TickWait,
                              Bucket!TickRefill, Bucket!vars
  <2>2. CASE Consume
    <3>1. Settled.count > 0 /\ now' = now /\ stored' = SpendLife(Settled)
      BY <2>2 DEF Consume
    <3>2. Settled' = SpendLife(Settled)
      BY <2>0, <3>1, SettleSpent DEF Settled
    <3>3. /\ Settled'.count = Settled.count - 1 /\ Settled'.updatedAt = Settled.updatedAt
          /\ Settled.count \in Nat /\ Settled.count <= MaxLives
      BY <2>0, <3>2 DEF SpendLife, LivesRecord
    <3>4. Settled.count = MaxLives => Settled.updatedAt = now
      BY <2>0, SettleFresh DEF Settled
    <3> QED BY <2>0, <3>1, <3>3, <3>4 DEF Bucket!Next, Bucket!Take
  <2>3. CASE ReadLives \/ AnswerLives \/ UNCHANGED vars
    BY <2>3 DEF ReadLives, AnswerLives, vars, Bucket!vars, Settled
  <2> QED BY <2>1, <2>2, <2>3 DEF Next
<1> QED BY <1>1, <1>2, PaceInvariant, PTL DEF Spec, RefinesBucket, Bucket!Spec
-----------------------------------------------------------------------------
(* The countdown.                                                          *)

\* The instant at which the n-th life of a row that nobody takes from is there.
ClockOf(row, n) == row.updatedAt + (n - row.count) * RefillTTL

\* A row settles to its lives at some instant and to the clock of the last.
LEMMA SettleOnTrack ==
  ASSUME NEW row \in LivesRecord, NEW t \in Nat, row.updatedAt <= t,
         SettleLives(row, t).count < MaxLives
  PROVE  LET next == SettleLives(row, t)
         IN  /\ row.count <= next.count
             /\ next.updatedAt = ClockOf(row, next.count)
             /\ next.updatedAt <= t
<1> DEFINE k == RefillCount(row, t)
           gain == k * RefillTTL
<1>1. /\ row.count \in Nat /\ row.count <= MaxLives /\ row.updatedAt \in Nat
      /\ MaxLives \in Nat \ {0} /\ RefillTTL \in Nat \ {0}
  BY LivesAssumption DEF LivesRecord
<1>2. k \in Int /\ gain \in Int /\ gain <= t - row.updatedAt
  BY <1>1, RefillBounds
<1>3. 0 * RefillTTL = 0
  BY <1>1
<1>4. CASE k <= 0
  <2>1. SettleLives(row, t) = row
    BY <1>1, <1>4 DEF SettleLives, FullLives
  <2>2. row.count - row.count = 0
    BY <1>1
  <2> QED BY <1>1, <1>3, <2>1, <2>2 DEF ClockOf
<1>5. CASE k > 0
  <2>1. SettleLives(row, t) = [count |-> row.count + k, updatedAt |-> row.updatedAt + gain]
    <3>1. /\ row.count < MaxLives
          /\ row.count + k < MaxLives
      <4>1. row.count >= MaxLives \/ row.count + k >= MaxLives
              => SettleLives(row, t) = FullLives(t)
        BY <1>1, <1>2, <1>5 DEF SettleLives
      <4>2. FullLives(t).count = MaxLives
        BY DEF FullLives
      <4> HIDE DEF k
      <4> QED BY <1>1, <1>2, <4>1, <4>2
    <3> QED BY <1>1, <1>2, <1>5, <3>1 DEF SettleLives
  <2> HIDE DEF k
  <2>2. (row.count + k) - row.count = k
    BY <1>1, <1>2
  <2> QED BY <1>1, <1>2, <1>5, <2>1, <2>2 DEF ClockOf
<1> QED BY <1>2, <1>4, <1>5

\* A row settles to n lives in the interval after the n-th is there, and to
\* more from the end of that interval.
LEMMA SettleAt ==
  ASSUME NEW row \in LivesRecord, NEW t \in Nat, row.updatedAt <= t,
         NEW n \in Nat, row.count <= n, n < MaxLives, ClockOf(row, n) <= t
  PROVE  /\ t < ClockOf(row, n) + RefillTTL => SettleLives(row, t).count = n
         /\ t >= ClockOf(row, n) + RefillTTL => SettleLives(row, t).count > n
<1> DEFINE k == RefillCount(row, t)
           gain == k * RefillTTL
           j == n - row.count
           due == j * RefillTTL
           more == (j + 1) * RefillTTL
           next == (k + 1) * RefillTTL
<1>1. /\ row.count \in Nat /\ row.count <= MaxLives /\ row.updatedAt \in Nat
      /\ MaxLives \in Nat \ {0} /\ RefillTTL \in Nat \ {0}
  BY LivesAssumption DEF LivesRecord
<1>2. /\ k \in Int /\ gain \in Int /\ gain <= t - row.updatedAt
      /\ (t - row.updatedAt) - gain < RefillTTL
  BY <1>1, RefillBounds
<1>3. j \in Nat
  BY <1>1
<1>4. due \in Int /\ ClockOf(row, n) = row.updatedAt + due
  BY <1>1, <1>3, Products DEF ClockOf
<1>5. more = due + RefillTTL /\ next = gain + RefillTTL
  <2> HIDE DEF j, k
  <2>1. more = j * RefillTTL + 1 * RefillTTL
    BY <1>1, <1>3, Products
  <2>2. next = k * RefillTTL + 1 * RefillTTL
    BY <1>1, <1>2, Products
  <2>3. 1 * RefillTTL = RefillTTL
    BY <1>1
  <2> QED BY <2>1, <2>2, <2>3
<1>6. /\ k + 1 <= j => next <= due
      /\ j + 1 <= k => more <= gain
      /\ k + 1 <= j + 1 => next <= more
  <2> HIDE DEF j, k
  <2> QED BY <1>1, <1>2, <1>3, Products
<1>7. k >= j
  <2> HIDE DEF j, k, gain, due, more, next
  <2> QED BY <1>1, <1>2, <1>3, <1>4, <1>5, <1>6
<1>8. n = row.count + j
  BY <1>1
<1>9. ASSUME k = j PROVE SettleLives(row, t).count = n
  BY <1>1, <1>3, <1>8, <1>9 DEF SettleLives
<1>10. ASSUME k > j PROVE SettleLives(row, t).count > n
  <2>1. k > 0
    BY <1>2, <1>3, <1>10
  <2>2. \/ SettleLives(row, t) = FullLives(t)
        \/ SettleLives(row, t) = [count |-> row.count + k, updatedAt |-> row.updatedAt + gain]
    BY <1>1, <1>2, <2>1 DEF SettleLives
  <2>3. SettleLives(row, t).count \in {MaxLives, row.count + k}
    <3> HIDE DEF k, gain
    <3> QED BY <2>2 DEF FullLives
  <2> HIDE DEF j, k
  <2> QED BY <1>1, <1>2, <1>3, <1>8, <1>10, <2>3
<1> HIDE DEF j, k, gain, due, more, next
<1>11. ASSUME t < ClockOf(row, n) + RefillTTL PROVE k = j
  BY <1>1, <1>2, <1>3, <1>4, <1>5, <1>6, <1>7, <1>11
<1>12. ASSUME t >= ClockOf(row, n) + RefillTTL PROVE k > j
  BY <1>1, <1>2, <1>3, <1>4, <1>5, <1>6, <1>7, <1>12
<1> QED BY <1>9, <1>10, <1>11, <1>12

\* The countdown rounds the wait down to a second.
LEMMA CountdownBounds ==
  ASSUME NEW lives \in LivesRecord, NEW t \in Nat, lives.count < MaxLives
  PROVE  LET sec == NextRefillSec(lives, t)
         IN  /\ t + sec * Second <= lives.updatedAt + RefillTTL \/ sec = 0
             /\ lives.updatedAt + RefillTTL <= t + (sec + 1) * Second
<1> DEFINE left == RefillTTL - (t - lives.updatedAt)
           sec  == NextRefillSec(lives, t)
<1>1. left \in Int /\ Second \in Nat \ {0} /\ lives.updatedAt \in Nat /\ RefillTTL \in Nat
  BY LivesAssumption DEF LivesRecord
<1>2. left = (lives.updatedAt + RefillTTL) - t
  BY <1>1
<1>3. sec \in Nat
  BY NextRefillSecType
<1>4. sec = IF left > 0 THEN left \div Second ELSE 0
  BY DEF NextRefillSec
<1> HIDE DEF left, sec
<1>5. (sec + 1) * Second = sec * Second + Second /\ sec * Second \in Int
  <2>1. (sec + 1) * Second = sec * Second + 1 * Second
    BY <1>1, <1>3, Products
  <2>2. sec * Second \in Int /\ 1 * Second = Second
    BY <1>1, <1>3, Products
  <2> QED BY <2>1, <2>2
<1>6. CASE left > 0
  <2>1. sec = left \div Second
    BY <1>4, <1>6
  <2>2. sec * Second <= left /\ left - sec * Second < Second
    BY <1>1, <2>1, DivBounds, DivRest
  <2> DEFINE part == sec * Second
             more == (sec + 1) * Second
  <2>3. t + part <= lives.updatedAt + RefillTTL /\ lives.updatedAt + RefillTTL <= t + more
    <3>1. part \in Int /\ more = part + Second /\ part <= left /\ left - part < Second
      BY <1>5, <2>2
    <3> HIDE DEF part, more
    <3> QED BY <1>1, <1>2, <3>1
  <2> QED BY <2>3 DEF sec
<1>7. CASE left <= 0
  <2>1. sec = 0
    BY <1>1, <1>4, <1>7
  <2>2. (sec + 1) * Second = Second
    BY <1>1, <2>1
  <2> DEFINE more == (sec + 1) * Second
  <2>3. lives.updatedAt + RefillTTL <= t + more
    <3>1. more = Second
      BY <2>2
    <3> HIDE DEF more
    <3> QED BY <1>1, <1>2, <1>7, <3>1
  <2> QED BY <2>1, <2>3 DEF sec
<1> QED BY <1>1, <1>6, <1>7

\* What a reader or an answer found out is still to be had from the row, if no
\* life was taken since.
CountdownInv ==
  /\ reading # Nothing =>
       /\ reading.seen <= Len(spentAt)
       /\ reading.seen = Len(spentAt) /\ reading.lives.count < MaxLives =>
            /\ stored.count <= reading.lives.count
            /\ reading.lives.updatedAt = ClockOf(stored, reading.lives.count)
            /\ reading.lives.updatedAt <= now
  /\ answer # Nothing =>
       /\ answer.seen <= Len(spentAt)
       /\ answer.seen = Len(spentAt) /\ answer.count < MaxLives =>
            /\ stored.count <= answer.count
            /\ ClockOf(stored, answer.count) \in Nat
            /\ ClockOf(stored, answer.count) <= answer.at /\ answer.at <= now
            /\ answer.sec = NextRefillSec([count     |-> answer.count,
                                           updatedAt |-> ClockOf(stored, answer.count)],
                                          answer.at)

\* Reading, answering, spending and waiting keep to it.
LEMMA StepCountdown ==
  ASSUME PaceInv, CountdownInv, [Next]_vars
  PROVE  CountdownInv'
<1>0. /\ now \in Nat /\ stored \in LivesRecord /\ spentAt \in Seq(Nat) /\ Len(spentAt) \in Nat
      /\ stored.updatedAt <= now
      /\ reading \in ReadRecord \cup {Nothing} /\ answer \in AnswerRecord \cup {Nothing}
  BY DEF PaceInv, TypeOK
<1>1. CASE Tick
  <2>1. /\ now' = now + 1 /\ stored' = stored /\ spentAt' = spentAt
        /\ reading' = reading /\ answer' = answer
    BY <1>1 DEF Tick
  <2>2. reading # Nothing => reading.lives.updatedAt \in Nat
    BY <1>0 DEF ReadRecord, LivesRecord
  <2>3. answer # Nothing => answer.at \in Nat
    BY <1>0 DEF AnswerRecord
  <2> QED BY <1>0, <2>1, <2>2, <2>3 DEF CountdownInv
<1>2. CASE Consume
  <2>1. Len(spentAt') = Len(spentAt) + 1 /\ reading' = reading /\ answer' = answer
    BY <1>0, <1>2 DEF Consume
  <2>2. /\ reading # Nothing => reading.seen \in Nat
        /\ answer # Nothing => answer.seen \in Nat
    BY <1>0 DEF ReadRecord, AnswerRecord
  <2> QED BY <1>0, <2>1, <2>2 DEF CountdownInv
<1>3. CASE ReadLives
  <2>1. /\ reading' = [lives |-> Settled, seen |-> Len(spentAt)]
        /\ now' = now /\ stored' = stored /\ spentAt' = spentAt /\ answer' = answer
    BY <1>3 DEF ReadLives
  <2>2. Settled.count < MaxLives =>
          /\ stored.count <= Settled.count
          /\ Settled.updatedAt = ClockOf(stored, Settled.count)
          /\ Settled.updatedAt <= now
    BY <1>0, SettleOnTrack DEF Settled
  <2>3. /\ reading'.seen = Len(spentAt)
        /\ reading'.lives = Settled
    BY <2>1
  <2> QED BY <1>0, <2>1, <2>2, <2>3 DEF CountdownInv
<1>4. CASE AnswerLives
  <2>1. /\ reading # Nothing /\ reading' = Nothing
        /\ answer' = [count |-> reading.lives.count,
                      sec   |-> NextRefillSec(reading.lives, now),
                      at    |-> now,
                      seen  |-> reading.seen]
        /\ now' = now /\ stored' = stored /\ spentAt' = spentAt
    BY <1>4 DEF AnswerLives
  <2>2. reading.lives \in LivesRecord
    BY <1>0, <2>1 DEF ReadRecord
  <2>3. ASSUME reading.seen = Len(spentAt), reading.lives.count < MaxLives
        PROVE  /\ stored.count <= reading.lives.count
               /\ ClockOf(stored, reading.lives.count) \in Nat
               /\ ClockOf(stored, reading.lives.count) <= now
               /\ reading.lives = [count     |-> reading.lives.count,
                                   updatedAt |-> ClockOf(stored, reading.lives.count)]
    BY <2>1, <2>2, <2>3 DEF CountdownInv, LivesRecord
  <2>4. reading.seen <= Len(spentAt)
    BY <2>1 DEF CountdownInv
  <2>5. /\ answer'.count = reading.lives.count /\ answer'.at = now
        /\ answer'.seen = reading.seen /\ answer'.sec = NextRefillSec(reading.lives, now)
    BY <2>1
  <2> QED BY <1>0, <2>1, <2>3, <2>4, <2>5 DEF CountdownInv
<1>5. CASE UNCHANGED vars
  BY <1>5 DEF vars, CountdownInv
<1> QED BY <1>1, <1>2, <1>3, <1>4, <1>5 DEF Next

\* The countdown of the last answer stays true, for any set size, interval and
\* rounding (GetMyLives, lives_handler.go:13-40).
THEOREM LivesCountdownTrue == Spec => []CountdownTrue
<1>1. Init => CountdownInv
  BY DEF Init, CountdownInv
<1>2. PaceInv /\ CountdownInv => CountdownTrue
  <2> SUFFICES ASSUME PaceInv, CountdownInv, answer # Nothing, answer.count < MaxLives,
                      answer.seen = Len(spentAt)
               PROVE  /\ now < answer.at + answer.sec * Second => Settled.count = answer.count
                      /\ now >= answer.at + (answer.sec + 1) * Second => Settled.count > answer.count
    BY DEF CountdownTrue
  <2> DEFINE clock == ClockOf(stored, answer.count)
             lives == [count |-> answer.count, updatedAt |-> clock]
             until == answer.sec * Second
             past  == (answer.sec + 1) * Second
  <2>1. /\ now \in Nat /\ stored \in LivesRecord /\ stored.updatedAt <= now
        /\ answer \in AnswerRecord
    BY DEF PaceInv, TypeOK
  <2>2. /\ answer.count \in 0..MaxLives /\ answer.at \in Nat /\ answer.sec \in Nat
        /\ MaxLives \in Nat /\ RefillTTL \in Nat /\ Second \in Nat
    BY <2>1, LivesAssumption DEF AnswerRecord
  <2>3. /\ stored.count <= answer.count /\ clock \in Nat /\ clock <= answer.at /\ answer.at <= now
        /\ answer.sec = NextRefillSec(lives, answer.at)
    BY DEF CountdownInv
  <2>4. lives \in LivesRecord /\ lives.count = answer.count /\ lives.updatedAt = clock
    BY <2>2, <2>3 DEF LivesRecord
  <2> HIDE DEF lives, clock
  <2>5. /\ answer.at + until <= clock + RefillTTL \/ answer.sec = 0
        /\ clock + RefillTTL <= answer.at + past
    BY <2>2, <2>3, <2>4, CountdownBounds
  <2>6. answer.sec = 0 => until = 0
    BY <2>2
  <2>7. until \in Int /\ past \in Int
    BY <2>2, Products
  <2>8. /\ now < clock + RefillTTL => Settled.count = answer.count
        /\ now >= clock + RefillTTL => Settled.count > answer.count
    <3>1. clock <= now
      BY <2>2, <2>3, <2>1
    <3> QED BY <2>1, <2>2, <2>3, <3>1, SettleAt DEF Settled, clock
  <2> HIDE DEF until, past
  <2>9. now < answer.at + until => now < clock + RefillTTL
    BY <2>1, <2>2, <2>3, <2>5, <2>6, <2>7
  <2>10. now >= answer.at + past => now >= clock + RefillTTL
    BY <2>1, <2>2, <2>3, <2>5, <2>7
  <2> QED BY <2>8, <2>9, <2>10 DEF until, past
<1> QED BY <1>1, <1>2, StepCountdown, PaceInvariant, PTL DEF Spec
=============================================================================
