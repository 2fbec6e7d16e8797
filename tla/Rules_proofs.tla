---------------------------- MODULE Rules_proofs ----------------------------
(***************************************************************************)
(* Lemmas about the two sets of rules that AttemptRules puts together: the *)
(* arithmetic of the lives (LivesRules) and of the days (StreakRules).     *)
(* Those about lives rest on LivesAssumption alone, those about days on    *)
(* DayAssumption alone.                                                    *)
(***************************************************************************)
EXTENDS LivesRules, StreakRules, Sequences, TLAPS

\* Whole intervals fit into the time they are counted in.
LEMMA DivBounds ==
  ASSUME NEW a \in Int, NEW b \in Nat \ {0}
  PROVE  a \div b \in Int /\ (a \div b) * b <= a
  BY SMT

\* SettleLives returns a pair that can be stored.
LEMMA SettleType ==
  ASSUME NEW stored \in LivesRecord, NEW now \in Nat
  PROVE  SettleLives(stored, now) \in LivesRecord
<1> DEFINE refills == RefillCount(stored, now)
<1>1. refills \in Int
  BY LivesAssumption, DivBounds DEF RefillCount, LivesRecord
<1>2. stored.count \in 0..MaxLives /\ stored.updatedAt \in Nat /\ MaxLives \in Nat /\ RefillTTL \in Nat
  BY LivesAssumption DEF LivesRecord
<1>3. FullLives(now) \in LivesRecord
  BY <1>2 DEF FullLives, LivesRecord
<1> HIDE DEF refills
<1>4. ASSUME refills > 0, stored.count + refills < MaxLives
      PROVE  [count |-> stored.count + refills, updatedAt |-> stored.updatedAt + refills * RefillTTL] \in LivesRecord
  <2>1. refills * RefillTTL \in Nat
    BY <1>1, <1>2, <1>4
  <2>2. stored.count + refills \in 0..MaxLives /\ stored.updatedAt + refills * RefillTTL \in Nat
    BY <1>1, <1>2, <1>4, <2>1
  <2> QED BY <2>2 DEF LivesRecord
<1> USE DEF refills
<1> QED BY <1>1, <1>2, <1>3, <1>4 DEF SettleLives

\* SettleLives keeps the refill clock at or before the present.
LEMMA SettleClock ==
  ASSUME NEW stored \in LivesRecord, NEW now \in Nat, stored.updatedAt <= now
  PROVE  SettleLives(stored, now).updatedAt <= now
<1> DEFINE refills == RefillCount(stored, now)
<1>1. stored.updatedAt \in Nat
  BY DEF LivesRecord
<1>2. refills \in Int /\ refills * RefillTTL <= now - stored.updatedAt
  <2> DEFINE a == now - stored.updatedAt
  <2>1. a \in Int /\ RefillTTL \in Nat \ {0}
    BY <1>1, LivesAssumption
  <2>2. refills = a \div RefillTTL
    BY DEF RefillCount
  <2> HIDE DEF a, refills
  <2>3. refills \in Int /\ refills * RefillTTL <= a
    BY <2>1, <2>2, DivBounds
  <2> QED BY <2>3 DEF a
<1>3. refills * RefillTTL \in Int
  BY <1>2, LivesAssumption
<1>4. stored.updatedAt + refills * RefillTTL <= now
  BY <1>1, <1>2, <1>3
<1> QED BY <1>4 DEF SettleLives, FullLives

\* Taking a life that is there keeps the pair storable, and its clock.
LEMMA SpendType ==
  ASSUME NEW lives \in LivesRecord, lives.count > 0
  PROVE  /\ SpendLife(lives) \in LivesRecord
         /\ SpendLife(lives).updatedAt = lives.updatedAt
  BY LivesAssumption DEF SpendLife, LivesRecord
-----------------------------------------------------------------------------
(* The pace of spending.  "times" are the instants at which lives were     *)
(* taken, oldest first, and "stored" is the pair that is left.             *)

\* Never more than a full set and what refilled meanwhile: NoOverspend.
Paced(times) ==
  \A i, j \in DOMAIN times : i <= j =>
    j - i + 1 <= MaxLives + (times[j] - times[i]) \div RefillTTL

\* Lives taken since times[i], and those left over, were in the full set or
\* have refilled up to the stored instant.  The product stands for a division.
Credit(stored, times) ==
  \A i \in DOMAIN times :
    (Len(times) - i + 1 + stored.count - MaxLives) * RefillTTL <= stored.updatedAt - times[i]

\* A quotient is at least x if the dividend is at least x divisors.
LEMMA DivAtLeast ==
  ASSUME NEW x \in Int, NEW a \in Int, NEW b \in Nat \ {0}, x * b <= a
  PROVE  x <= a \div b
  BY SMT

\* What is left of an interval is shorter than an interval.
LEMMA DivRest ==
  ASSUME NEW a \in Int, NEW b \in Nat \ {0}
  PROVE  a - (a \div b) * b < b
  BY SMT

\* Products distribute over sums, and keep an order.
LEMMA Products ==
  ASSUME NEW a \in Int, NEW b \in Int, NEW c \in Nat
  PROVE  /\ (a + b) * c = a * c + b * c
         /\ a * c \in Int
         /\ a <= b => a * c <= b * c
  BY SMT

\* A credit at instant u of count lives is one at instant v of k more, if the
\* intervals of these have passed in between.
LEMMA CreditAfterGain ==
  ASSUME NEW x \in Int, NEW count \in Int, NEW k \in Int, NEW full \in Int, NEW c \in Nat,
         NEW t \in Int, NEW u \in Int, NEW v \in Int,
         (x + count - full) * c <= u - t, k * c <= v - u
  PROVE  (x + (count + k) - full) * c <= v - t
<1> DEFINE p == x + count - full
           pc == p * c
           kc == k * c
<1>1. p \in Int /\ x + (count + k) - full = p + k
  OBVIOUS
<1> HIDE DEF p
<1>2. (p + k) * c = p * c + k * c /\ p * c \in Int /\ k * c \in Int
  BY <1>1, Products
<1>3. p * c <= u - t
  BY DEF p
<1> HIDE DEF pc, kc
<1>4. pc + kc <= v - t
  <2>1. pc \in Int /\ kc \in Int
    BY <1>2 DEF pc, kc
  <2>2. pc <= u - t /\ kc <= v - u
    BY <1>3 DEF pc, kc
  <2> QED BY <2>1, <2>2
<1>5. (x + (count + k) - full) * c = (p + k) * c
  BY <1>1, Zenon
<1>6. (x + (count + k) - full) * c = pc + kc
  BY <1>2, <1>5, Zenon DEF pc, kc
<1> QED BY <1>4, <1>6, Zenon

\* The refills counted are those of the whole intervals since the stored
\* instant.
LEMMA RefillBounds ==
  ASSUME NEW stored \in LivesRecord, NEW now \in Nat
  PROVE  /\ RefillCount(stored, now) \in Int
         /\ RefillCount(stored, now) * RefillTTL \in Int
         /\ RefillCount(stored, now) * RefillTTL <= now - stored.updatedAt
         /\ (now - stored.updatedAt) - RefillCount(stored, now) * RefillTTL < RefillTTL
<1> DEFINE a == now - stored.updatedAt
<1>1. a \in Int /\ RefillTTL \in Nat \ {0}
  BY LivesAssumption DEF LivesRecord
<1>2. RefillCount(stored, now) = a \div RefillTTL
  BY DEF RefillCount
<1> HIDE DEF a
<1>3. a \div RefillTTL \in Int /\ (a \div RefillTTL) * RefillTTL <= a
  BY <1>1, DivBounds
<1>4. a - (a \div RefillTTL) * RefillTTL < RefillTTL
  BY <1>1, DivRest
<1>5. (a \div RefillTTL) * RefillTTL \in Int
  BY <1>1, <1>3, Products
<1> QED BY <1>2, <1>3, <1>4, <1>5 DEF a

\* Settling gains no credit that time has not earned.
LEMMA SettleKeepsCredit ==
  ASSUME NEW stored \in LivesRecord, NEW now \in Nat, stored.updatedAt <= now,
         NEW times \in Seq(Nat), Credit(stored, times)
  PROVE  Credit(SettleLives(stored, now), times)
<1> DEFINE next == SettleLives(stored, now)
           k == RefillCount(stored, now)
           gain == k * RefillTTL
<1>1. /\ stored.count \in Int /\ stored.updatedAt \in Nat
      /\ MaxLives \in Nat /\ RefillTTL \in Nat
  BY LivesAssumption DEF LivesRecord
<1>2. k \in Int /\ gain \in Int /\ gain <= now - stored.updatedAt
  BY RefillBounds
<1>3. stored.count <= MaxLives
  BY LivesAssumption DEF LivesRecord
<1> SUFFICES ASSUME NEW i \in DOMAIN times
             PROVE  (Len(times) - i + 1 + next.count - MaxLives) * RefillTTL
                      <= next.updatedAt - times[i]
  BY DEF Credit
<1> DEFINE x == Len(times) - i + 1
<1>4. x \in Int /\ times[i] \in Nat
  OBVIOUS
<1>5. (x + stored.count - MaxLives) * RefillTTL <= stored.updatedAt - times[i]
  BY DEF Credit
<1>6. \/ next = stored
      \/ next = FullLives(now) /\ (stored.count >= MaxLives \/ stored.count + k >= MaxLives)
      \/ next = [count |-> stored.count + k, updatedAt |-> stored.updatedAt + gain]
  BY DEF SettleLives
<1> SUFFICES (x + next.count - MaxLives) * RefillTTL <= next.updatedAt - times[i]
  OBVIOUS
<1> HIDE DEF x, next, k
<1> HIDE DEF gain
<1>7. ASSUME NEW room \in Int, NEW v \in Nat, room * RefillTTL <= v - stored.updatedAt,
             next.count = stored.count + room, next.updatedAt = v
      PROVE  (x + next.count - MaxLives) * RefillTTL <= next.updatedAt - times[i]
  <2>1. /\ MaxLives \in Int /\ stored.count \in Int /\ x \in Int /\ RefillTTL \in Nat
        /\ stored.updatedAt \in Int /\ times[i] \in Int /\ v \in Int
    BY <1>1, <1>4
  <2>2. (x + (stored.count + room) - MaxLives) * RefillTTL <= v - times[i]
    BY <1>5, <1>7, <2>1, CreditAfterGain, Zenon
  <2> QED BY <1>7, <2>2, Zenon
<1>8. ASSUME next = FullLives(now), stored.count >= MaxLives \/ stored.count + k >= MaxLives
      PROVE  (x + next.count - MaxLives) * RefillTTL <= next.updatedAt - times[i]
  <2> DEFINE room  == MaxLives - stored.count
             short == room * RefillTTL
  <2>1. next.count = stored.count + room /\ next.updatedAt = now /\ room \in Int
    BY <1>1, <1>8 DEF FullLives
  <2>2. short <= now - stored.updatedAt
    <3>1. CASE stored.count >= MaxLives
      <4>1. room = 0
        BY <1>1, <1>3, <3>1
      <4> HIDE DEF room
      <4>2. short = 0
        BY <1>1, <4>1
      <4> HIDE DEF short
      <4> QED BY <1>1, <4>2
    <3>2. CASE stored.count + k >= MaxLives
      <4>1. room \in Int /\ room <= k
        <5>1. \A a, b, c \in Int : a + b >= c => c - a <= b
          OBVIOUS
        <5>2. stored.count \in Int /\ k \in Int /\ MaxLives \in Int
          BY <1>1, <1>2
        <5> QED BY <2>1, <3>2, <5>1, <5>2
      <4> HIDE DEF room
      <4>2. short <= gain /\ short \in Int
        BY <1>1, <1>2, <4>1, Products DEF gain
      <4> HIDE DEF short
      <4> QED BY <1>1, <1>2, <4>2
    <3> QED BY <1>8, <3>1, <3>2
  <2> HIDE DEF room
  <2> QED BY <1>7, <2>1, <2>2
<1>10. ASSUME next = [count |-> stored.count + k, updatedAt |-> stored.updatedAt + gain]
       PROVE  (x + next.count - MaxLives) * RefillTTL <= next.updatedAt - times[i]
  <2>1. next.count = stored.count + k /\ next.updatedAt = stored.updatedAt + gain
    BY <1>10
  <2>2. next.updatedAt \in Nat
    BY SettleType DEF next, LivesRecord
  <2>3. gain <= next.updatedAt - stored.updatedAt
    BY <1>1, <1>2, <2>1
  <2> QED BY <1>2, <1>7, <2>1, <2>2, <2>3 DEF gain
<1>9. CASE next = stored
  BY <1>5, <1>9
<1> QED BY <1>6, <1>8, <1>9, <1>10

\* After settling, less than an interval has passed since the stored instant,
\* or the set is full and its clock has just been set.
LEMMA SettleFresh ==
  ASSUME NEW stored \in LivesRecord, NEW now \in Nat
  PROVE  LET next == SettleLives(stored, now)
         IN  IF next.count = MaxLives THEN next.updatedAt = now
                                      ELSE now - next.updatedAt < RefillTTL
<1> DEFINE k == RefillCount(stored, now)
           gain == k * RefillTTL
<1>1. /\ stored.count \in Int /\ stored.updatedAt \in Nat
      /\ MaxLives \in Nat \ {0} /\ RefillTTL \in Nat \ {0}
  BY LivesAssumption DEF LivesRecord
<1>2. k \in Int /\ gain \in Int /\ (now - stored.updatedAt) - gain < RefillTTL
  BY RefillBounds
<1>3. ASSUME k <= 0 PROVE now - stored.updatedAt < RefillTTL
  <2> HIDE DEF k
  <2>1. gain <= 0
    <3>1. gain <= 0 * RefillTTL
      BY <1>1, <1>2, <1>3, Products
    <3> QED BY <1>1, <3>1
  <2> HIDE DEF gain
  <2> QED BY <1>1, <1>2, <2>1
<1>4. now - (stored.updatedAt + gain) < RefillTTL
  <2> HIDE DEF gain
  <2> QED BY <1>1, <1>2
<1>5. CASE stored.count >= MaxLives \/ (k > 0 /\ stored.count + k >= MaxLives)
  <2>1. SettleLives(stored, now) = FullLives(now)
    BY <1>1, <1>2, <1>5 DEF SettleLives
  <2> QED BY <2>1 DEF FullLives
<1>6. CASE stored.count < MaxLives /\ k <= 0
  <2>1. SettleLives(stored, now) = stored
    BY <1>1, <1>6 DEF SettleLives
  <2> QED BY <1>1, <1>3, <1>6, <2>1
<1>7. CASE stored.count < MaxLives /\ k > 0 /\ stored.count + k < MaxLives
  <2>1. SettleLives(stored, now) = [count |-> stored.count + k, updatedAt |-> stored.updatedAt + gain]
    BY <1>1, <1>2, <1>7 DEF SettleLives
  <2> HIDE DEF k, gain
  <2> QED BY <1>1, <1>2, <1>4, <1>7, <2>1
<1> HIDE DEF k
<1> QED BY <1>1, <1>2, <1>5, <1>6, <1>7

\* Taking a life pays for it out of the credit.
LEMMA SpendKeepsCredit ==
  ASSUME NEW stored \in LivesRecord, NEW now \in Nat, stored.updatedAt <= now,
         NEW times \in Seq(Nat), Credit(stored, times),
         SettleLives(stored, now).count > 0
  PROVE  Credit(SpendLife(SettleLives(stored, now)), Append(times, now))
<1> DEFINE lives == SettleLives(stored, now)
           left  == SpendLife(lives)
           more  == Append(times, now)
<1>1. lives \in LivesRecord /\ Credit(lives, times)
  BY SettleType, SettleKeepsCredit
<1>2. /\ lives.count \in Nat /\ lives.count <= MaxLives /\ lives.updatedAt \in Nat
      /\ MaxLives \in Nat \ {0} /\ RefillTTL \in Nat \ {0}
  BY <1>1, LivesAssumption DEF LivesRecord
<1>3. IF lives.count = MaxLives THEN lives.updatedAt = now ELSE now - lives.updatedAt < RefillTTL
  BY SettleFresh
<1> SUFFICES ASSUME NEW i \in DOMAIN more
             PROVE  (Len(more) - i + 1 + left.count - MaxLives) * RefillTTL
                      <= left.updatedAt - more[i]
  BY DEF Credit
<1> HIDE DEF lives
<1>4. left.count = lives.count - 1 /\ left.updatedAt = lives.updatedAt
  BY <1>1 DEF SpendLife, LivesRecord
<1>5. Len(more) = Len(times) + 1 /\ Len(times) \in Nat
  OBVIOUS
<1>8. /\ i \in 1..(Len(times) + 1) /\ DOMAIN times = 1..Len(times)
      /\ i \in DOMAIN times => more[i] = times[i]
      /\ i = Len(times) + 1 => more[i] = now
  OBVIOUS
<1> HIDE DEF more, left
<1>6. CASE i \in DOMAIN times
  <2>1. more[i] = times[i] /\ i \in Int
    BY <1>6, <1>8
  <2>2. Len(more) - i + 1 + left.count - MaxLives = Len(times) - i + 1 + lives.count - MaxLives
    <3> DEFINE n == Len(times)
               c == lives.count
    <3>1. n \in Nat /\ c \in Nat /\ Len(more) = n + 1 /\ left.count = c - 1
      BY <1>2, <1>4, <1>5
    <3> HIDE DEF n, c
    <3>2. (n + 1) - i + 1 + (c - 1) - MaxLives = n - i + 1 + c - MaxLives
      BY <1>2, <2>1, <3>1
    <3> QED BY <3>1, <3>2 DEF n, c
  <2>3. (Len(times) - i + 1 + lives.count - MaxLives) * RefillTTL <= lives.updatedAt - times[i]
    BY <1>1, <1>6 DEF Credit
  <2> QED BY <1>4, <2>1, <2>2, <2>3
<1>7. CASE i \notin DOMAIN times
  <2>1. i = Len(more) /\ more[i] = now
    BY <1>5, <1>7, <1>8
  <2>2. Len(more) - i + 1 + left.count - MaxLives = lives.count - MaxLives
    BY <1>2, <1>4, <1>5, <2>1
  <2>3. (lives.count - MaxLives) * RefillTTL <= lives.updatedAt - now
    <3>1. CASE lives.count = MaxLives
      <4>1. lives.count - MaxLives = 0
        BY <1>2, <3>1
      <4> QED BY <1>2, <1>3, <3>1, <4>1
    <3>2. CASE lives.count # MaxLives
      <4>1. lives.count - MaxLives \in Int /\ lives.count - MaxLives <= -1
        BY <1>2, <3>2
      <4> DEFINE m == lives.count - MaxLives
                 p == m * RefillTTL
      <4> HIDE DEF m
      <4>2. p <= (-1) * RefillTTL
        <5>1. m \in Int /\ -1 \in Int /\ m <= -1
          BY <4>1 DEF m
        <5> QED BY <1>2, <5>1, Products
      <4>3. p \in Int
        BY <1>2, <4>1, Products DEF m
      <4> USE DEF m
      <4> HIDE DEF p
      <4>4. p \in Int /\ p <= -RefillTTL
        BY <1>2, <4>2, <4>3
      <4>5. p <= lives.updatedAt - now
        BY <1>2, <1>3, <3>2, <4>4
      <4> QED BY <4>5 DEF p
    <3> QED BY <3>1, <3>2
  <2> QED BY <1>4, <2>1, <2>2, <2>3
<1> QED BY <1>6, <1>7

\* What has been paid for is paced: each life taken was in the full set or had
\* refilled by then.
LEMMA SpendKeepsPace ==
  ASSUME NEW stored \in LivesRecord, NEW now \in Nat, stored.updatedAt <= now,
         NEW times \in Seq(Nat), Credit(stored, times), Paced(times),
         SettleLives(stored, now).count > 0
  PROVE  Paced(Append(times, now))
<1> DEFINE lives == SettleLives(stored, now)
           left  == SpendLife(lives)
           more  == Append(times, now)
<1>1. Credit(left, more)
  BY SpendKeepsCredit
<1>2. lives \in LivesRecord /\ lives.updatedAt <= now
  BY SettleType, SettleClock
<1>3. left.count \in Nat /\ left.updatedAt \in Nat /\ left.updatedAt <= now
  BY <1>2, SpendType DEF LivesRecord
<1> HIDE DEF lives, left
<1>4. MaxLives \in Nat /\ RefillTTL \in Nat \ {0}
  BY LivesAssumption
<1>5. more \in Seq(Nat) /\ Len(more) = Len(times) + 1 /\ Len(times) \in Nat
  OBVIOUS
<1> SUFFICES ASSUME NEW i \in DOMAIN more, NEW j \in DOMAIN more, i <= j
             PROVE  j - i + 1 <= MaxLives + (more[j] - more[i]) \div RefillTTL
  BY DEF Paced
<1>6. CASE j \in DOMAIN times
  <2>1. i \in DOMAIN times /\ more[i] = times[i] /\ more[j] = times[j]
    BY <1>5, <1>6
  <2> QED BY <1>6, <2>1 DEF Paced
<1>7. CASE j \notin DOMAIN times
  <2>1. j = Len(more) /\ more[j] = now /\ i \in Int /\ more[i] \in Nat
    BY <1>5, <1>7
  <2> DEFINE x == j - i + 1 - MaxLives
             full == (Len(more) - i + 1 + left.count - MaxLives) * RefillTTL
  <2>2. full <= left.updatedAt - more[i]
    BY <1>1 DEF Credit
  <2>3. x \in Int /\ Len(more) - i + 1 + left.count - MaxLives \in Int
        /\ x <= Len(more) - i + 1 + left.count - MaxLives
    BY <1>3, <1>4, <1>5, <2>1
  <2>4. x * RefillTTL <= full /\ x * RefillTTL \in Int /\ full \in Int
    BY <1>4, <2>3, Products
  <2> DEFINE p == x * RefillTTL
  <2> HIDE DEF full, p
  <2>5. p <= full /\ p \in Int /\ full \in Int
    BY <2>4 DEF p
  <2>6. p <= more[j] - more[i]
    <3>1. full <= left.updatedAt - more[i] /\ left.updatedAt <= more[j]
      BY <1>3, <2>1, <2>2
    <3> QED BY <1>3, <2>1, <2>5, <3>1
  <2> HIDE DEF x
  <2>7. x <= (more[j] - more[i]) \div RefillTTL
    <3> DEFINE a == more[j] - more[i]
    <3>1. a \in Int /\ x \in Int /\ x * RefillTTL <= a
      BY <1>3, <2>1, <2>3, <2>6 DEF p
    <3> HIDE DEF a
    <3>2. x <= a \div RefillTTL
      BY <1>4, <3>1, DivAtLeast
    <3> QED BY <3>2 DEF a
  <2>8. (more[j] - more[i]) \div RefillTTL \in Int
    BY <1>4, <2>1, DivBounds
  <2> QED BY <1>4, <2>1, <2>7, <2>8 DEF x
<1> QED BY <1>6, <1>7
-----------------------------------------------------------------------------
(* The streak: what a day that is credited makes of the row.               *)

\* Whatever date a client sends, the date credited is a date.
LEMMA ResolveTodayIsDay ==
  ASSUME NEW localDay, NEW utcToday \in Int
  PROVE  ResolveToday(localDay, utcToday) \in Int
  BY DEF ResolveToday

\* UpdateStreak keeps the row's type.
LEMMA NextStreakType ==
  ASSUME NEW row \in StreakRecord, NEW today \in Int
  PROVE  NextStreak(row, today) \in StreakRecord
<1> USE DEF StreakRecord
<1>1. CASE row.lastDay = NoDay
  BY <1>1 DEF NextStreak
<1>2. CASE row.lastDay = today
  BY <1>2, DayAssumption DEF NextStreak
<1>3. CASE row.lastDay \notin {NoDay, today} /\ IsNextDay(row.lastDay, today)
  <2> DEFINE longest == IF row.currentLen + 1 > row.longestLen
                          THEN row.currentLen + 1 ELSE row.longestLen
  <2>1. row.currentLen + 1 \in Nat /\ longest \in Nat
    OBVIOUS
  <2>2. NextStreak(row, today) =
          [currentLen |-> row.currentLen + 1, longestLen |-> longest, lastDay |-> today]
    BY <1>3 DEF NextStreak
  <2> HIDE DEF longest
  <2> QED BY <2>1, <2>2
<1>4. CASE row.lastDay \notin {NoDay, today} /\ ~ IsNextDay(row.lastDay, today)
  BY <1>4 DEF NextStreak
<1> QED BY <1>1, <1>2, <1>3, <1>4

\* NeverOverstated for any row and any set of days.
Backed(row, days) ==
  row.lastDay # NoDay =>
    /\ (row.lastDay - row.currentLen + 1)..row.lastDay \subseteq days
    /\ \E hi \in days : (hi - row.longestLen + 1)..hi \subseteq days
    /\ row.currentLen \in 1..row.longestLen

\* UpdateStreak claims no day but the one just credited and those the row
\* claimed before.
LEMMA NextStreakBacked ==
  ASSUME NEW row \in StreakRecord, NEW today \in Int, NEW days \in SUBSET Int,
         Backed(row, days)
  PROVE  Backed(NextStreak(row, today), days \cup {today})
<1> DEFINE next == NextStreak(row, today)
           more == days \cup {today}
<1>1. CASE row.lastDay = NoDay
  <2>1. next = [currentLen |-> 1, longestLen |-> 1, lastDay |-> today]
    BY <1>1 DEF NextStreak
  <2> QED BY <2>1 DEF Backed
<1>2. CASE row.lastDay = today
  <2>1. next = row
    BY <1>2, DayAssumption DEF NextStreak
  <2> QED BY <1>2, <2>1 DEF Backed, StreakRecord
<1>3. CASE row.lastDay \notin {NoDay, today} /\ IsNextDay(row.lastDay, today)
  <2>1. next = [currentLen |-> row.currentLen + 1,
                longestLen |-> IF row.currentLen + 1 > row.longestLen
                                 THEN row.currentLen + 1 ELSE row.longestLen,
                lastDay    |-> today]
    BY <1>3 DEF NextStreak
  <2>2. row.lastDay \in Int /\ row.currentLen \in Nat /\ row.longestLen \in Nat
    BY <1>3 DEF StreakRecord
  <2>3. (today - next.currentLen + 1)..today \subseteq more
    BY <1>3, <2>1, <2>2 DEF Backed, IsNextDay
  <2>4. \E hi \in more : (hi - next.longestLen + 1)..hi \subseteq more
    <3>1. CASE row.currentLen + 1 > row.longestLen
      BY <2>1, <2>3, <3>1
    <3>2. CASE ~ (row.currentLen + 1 > row.longestLen)
      BY <1>3, <2>1, <3>2 DEF Backed
    <3> QED BY <3>1, <3>2
  <2>5. next.currentLen \in 1..next.longestLen
    BY <1>3, <2>1, <2>2 DEF Backed
  <2> QED BY <2>1, <2>3, <2>4, <2>5 DEF Backed
<1>4. CASE row.lastDay \notin {NoDay, today} /\ ~ IsNextDay(row.lastDay, today)
  <2>2. next.currentLen = 1 /\ next.longestLen = row.longestLen /\ next.lastDay = today
    BY <1>4 DEF NextStreak
  <2>3. row.currentLen \in Nat /\ row.longestLen \in Nat
    BY DEF StreakRecord
  <2> QED BY <1>4, <2>2, <2>3 DEF Backed
<1> QED BY <1>1, <1>2, <1>3, <1>4

\* UpdateStreak sets last_day to the day credited, and the current run stays
\* within the days credited.
LEMMA NextStreakRun ==
  ASSUME NEW row \in StreakRecord, NEW today \in Int, NEW days,
         row.lastDay # NoDay => (row.lastDay - row.currentLen + 1)..row.lastDay \subseteq days
  PROVE  LET next == NextStreak(row, today)
         IN  /\ next.lastDay = today
             /\ (today - next.currentLen + 1)..today \subseteq days \cup {today}
<1> DEFINE next == NextStreak(row, today)
<1>1. row.currentLen \in Nat
  BY DEF StreakRecord
<1>2. CASE row.lastDay = NoDay
  BY <1>2 DEF NextStreak
<1>3. CASE row.lastDay = today
  BY <1>3, DayAssumption DEF NextStreak
<1>4. CASE row.lastDay \notin {NoDay, today} /\ IsNextDay(row.lastDay, today)
  <2>1. next.lastDay = today /\ next.currentLen = row.currentLen + 1
    BY <1>4 DEF NextStreak
  <2>2. row.lastDay \in Int /\ today - row.lastDay = 1
    BY <1>4 DEF StreakRecord, IsNextDay
  <2> QED BY <1>1, <1>4, <2>1, <2>2
<1>5. CASE row.lastDay \notin {NoDay, today} /\ ~ IsNextDay(row.lastDay, today)
  BY <1>5 DEF NextStreak
<1> QED BY <1>2, <1>3, <1>4, <1>5
-----------------------------------------------------------------------------
\* The row is the run of days that ends with the last one, and no run is longer
\* than longest_len.
Exact(row, days) ==
  IF row.lastDay = NoDay THEN days = {}
  ELSE /\ row.lastDay \in days
       /\ \A d \in days : d <= row.lastDay
       /\ row.lastDay - row.currentLen \notin days
       /\ \A hi \in days : ~ (hi - row.longestLen)..hi \subseteq days
       /\ row.currentLen \in 1..row.longestLen

\* If days never go back, UpdateStreak counts a day on exactly when it follows
\* the last one, and starts again only after a gap.
LEMMA NextStreakExact ==
  ASSUME NEW row \in StreakRecord, NEW today \in Int, NEW days \in SUBSET Int,
         Exact(row, days), \A d \in days : d <= today
  PROVE  /\ Exact(NextStreak(row, today), days \cup {today})
         /\ NextStreak(row, today).lastDay = today
         /\ NextStreak(row, today).currentLen < row.currentLen => today - 1 \notin days
<1> DEFINE next == NextStreak(row, today)
           more == days \cup {today}
<1>0. row.currentLen \in Nat /\ row.longestLen \in Nat
  BY DEF StreakRecord
<1>1. CASE row.lastDay = NoDay
  <2>1. next = [currentLen |-> 1, longestLen |-> 1, lastDay |-> today]
    BY <1>1 DEF NextStreak
  <2>2. days = {}
    BY <1>1 DEF Exact
  <2>3. today # NoDay /\ today - 1 # today /\ today - 1 \in (today - 1)..today
    BY DayAssumption
  <2>4. /\ next.lastDay = today /\ next.currentLen = 1 /\ next.longestLen = 1
        /\ more = {today}
    BY <2>1, <2>2
  <2> HIDE DEF next, more
  <2>5. today - next.currentLen \notin more /\ next.currentLen \in 1..next.longestLen
    BY <2>3, <2>4
  <2>6. \A hi \in more : ~ (hi - next.longestLen)..hi \subseteq more
    BY <2>3, <2>4
  <2>7. today \in more /\ \A d \in more : d <= today
    BY <2>4
  <2>8. Exact(next, more)
    BY <2>3, <2>4, <2>5, <2>6, <2>7 DEF Exact
  <2> QED BY <2>2, <2>4, <2>8 DEF next, more
<1>2. CASE row.lastDay = today
  <2>1. next = row
    BY <1>2, DayAssumption DEF NextStreak
  <2>2. more = days
    BY <1>2, DayAssumption DEF Exact
  <2> QED BY <1>0, <1>2, <2>1, <2>2
\* What the two remaining cases have in common: a run that does not reach today
\* is a run of the days before.
<1>3. ASSUME row.lastDay \notin {NoDay, today}, NEW longest \in Nat, row.longestLen <= longest,
             NEW hi \in days
      PROVE  ~ (hi - longest)..hi \subseteq more
  <2> SUFFICES ASSUME (hi - longest)..hi \subseteq more PROVE FALSE
    OBVIOUS
  <2>1. hi \in Int /\ hi <= row.lastDay /\ row.lastDay \in Int /\ row.lastDay < today
    BY <1>3 DEF Exact, StreakRecord
  <2>2. (hi - row.longestLen)..hi \subseteq (hi - longest)..hi
    BY <1>0, <1>3, <2>1
  <2>3. today \notin (hi - longest)..hi
    BY <2>1
  <2>4. (hi - row.longestLen)..hi \subseteq days
    BY <2>2, <2>3
  <2> QED BY <1>3, <2>4 DEF Exact
<1>4. CASE row.lastDay \notin {NoDay, today} /\ IsNextDay(row.lastDay, today)
  <2> DEFINE longest == IF row.currentLen + 1 > row.longestLen
                          THEN row.currentLen + 1 ELSE row.longestLen
  <2>1. next = [currentLen |-> row.currentLen + 1, longestLen |-> longest, lastDay |-> today]
    BY <1>4 DEF NextStreak
  <2>2. longest \in Nat /\ row.longestLen <= longest /\ row.currentLen + 1 \in 1..longest
    BY <1>0
  <2>3. row.lastDay \in Int /\ today = row.lastDay + 1
    BY <1>4 DEF IsNextDay, StreakRecord
  <2> HIDE DEF longest
  <2>4. today - (row.currentLen + 1) = row.lastDay - row.currentLen
    BY <1>0, <2>3
  <2>5. today - (row.currentLen + 1) \notin more
    <3>1. row.lastDay - row.currentLen \notin days
      BY <1>4 DEF Exact
    <3>2. row.lastDay - row.currentLen # today
      BY <1>0, <2>3
    <3> QED BY <2>4, <3>1, <3>2
  <2>6. ~ (today - longest)..today \subseteq more
    <3>1. today - (row.currentLen + 1) \in (today - longest)..today
      BY <1>0, <2>2
    <3> QED BY <2>5, <3>1
  <2>7. \A hi \in more : ~ (hi - longest)..hi \subseteq more
    BY <1>3, <1>4, <2>2, <2>6
  <2>8. today \in more /\ \A d \in more : d <= today
    OBVIOUS
  <2> HIDE DEF more
  <2>9. Exact(next, more)
    BY <2>1, <2>2, <2>5, <2>7, <2>8, DayAssumption DEF Exact
  <2>10. ~ next.currentLen < row.currentLen
    BY <1>0, <2>1
  <2> QED BY <2>1, <2>9, <2>10 DEF more
<1>5. CASE row.lastDay \notin {NoDay, today} /\ ~ IsNextDay(row.lastDay, today)
  <2>1. next = [currentLen |-> 1, longestLen |-> row.longestLen, lastDay |-> today]
    BY <1>5 DEF NextStreak
  <2>2. row.lastDay \in Int /\ row.lastDay < today - 1 /\ 1 \in 1..row.longestLen
    BY <1>0, <1>5 DEF IsNextDay, StreakRecord, Exact
  <2>3. today - 1 \notin more /\ today - 1 \notin days
    BY <1>5, <2>2 DEF Exact
  <2>4. ~ (today - row.longestLen)..today \subseteq more
    <3>1. today - 1 \in (today - row.longestLen)..today
      BY <1>0, <2>2
    <3> QED BY <2>3, <3>1
  <2>5. \A hi \in more : ~ (hi - row.longestLen)..hi \subseteq more
    BY <1>0, <1>3, <1>5, <2>4
  <2>6. today \in more /\ \A d \in more : d <= today
    OBVIOUS
  <2> HIDE DEF more
  <2>7. Exact(next, more)
    BY <2>1, <2>2, <2>3, <2>5, <2>6, DayAssumption DEF Exact
  <2> QED BY <2>1, <2>3, <2>7 DEF more
<1> QED BY <1>1, <1>2, <1>4, <1>5
=============================================================================
