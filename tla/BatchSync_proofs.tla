-------------------------- MODULE BatchSync_proofs --------------------------
(***************************************************************************)
(* Proofs about BatchSync: what holds for any number of attempts, uploads  *)
(* and failures, and for batches of any size.                              *)
(*                                                                         *)
(* An attempt is followed by its client_seq: in the queue, in the part of  *)
(* a batch that is still to be done (Left), in its results (Settled), and  *)
(* among those applied.                                                    *)
(***************************************************************************)
EXTENDS BatchSync, Rules_proofs, FiniteSetTheorems

Left(b)    == {batch[b].items[k].seq : k \in DOMAIN batch[b].items}
Settled(b) == {batch[b].results[k].seq : k \in DOMAIN batch[b].results}

\* The oldest first.
Ordered(s) == \A j, k \in DOMAIN s : j < k => s[j].seq < s[k].seq

\* The device.
ClientOK ==
  /\ Ordered(queue)
  /\ InQueue \subseteq 1..made
  /\ awaiting # Nothing => batch[awaiting].state = "running"

\* A batch: it is worked off from the oldest on, and what it says of an
\* attempt is true.
BatchOK(b) ==
  /\ Ordered(batch[b].items)
  /\ Left(b) \cup Settled(b) \subseteq 1..made
  /\ \A x \in Settled(b), y \in Left(b) : x < y
  /\ batch[b].state = "idle" => Left(b) = {} /\ Settled(b) = {}
  /\ batch[b].state = "closed" => Left(b) = {}
  /\ SeqsWith(b, "ok") \subseteq ToSet(applied)
  /\ errors = 0 => SeqsWith(b, "error") = {}
  /\ ~ batch[b].noLives => SeqsWith(b, "skipped_no_lives") = {}

\* The upload that is waited for carries the oldest attempts of the queue; one
\* that was delivered has left none of those it accepted there.
Carried(b) ==
  /\ batch[b].state = "closed" => SeqsWith(b, "ok") \cap InQueue = {}
  /\ awaiting = b =>
       /\ Left(b) \cup Settled(b) \subseteq InQueue
       /\ \A x \in InQueue, y \in Left(b) : x <= y => x \in Left(b) \cup Settled(b)

\* No attempt was accepted by two uploads that were delivered.
DeliveredOnce ==
  \A b, c \in Batches :
    /\ batch[b].state = "closed" /\ batch[c].state = "closed"
    /\ SeqsWith(b, "ok") \cap SeqsWith(c, "ok") # {}
    => b = c

\* The uploads in which an attempt may have been applied.
TriedIn(seq) == {b \in Batches : seq \in SeqsWith(b, "ok") \cup SeqsWith(b, "error")}

\* Each of them applied it once at most.
Counted == \A seq \in 1..MaxQueued : TimesApplied(seq) <= Cardinality(TriedIn(seq))

\* Nothing went wrong so far.
Quiet == (\A b \in Batches : batch[b].state = "running" => awaiting = b) /\ errors = 0

\* Then every attempt that is still to be applied is newer than all that were.
InOrder ==
  Quiet =>
    /\ \A j, k \in DOMAIN applied : j < k => applied[j] <= applied[k]
    /\ \A x \in ToSet(applied), y \in InQueue :
         x < y \/ (awaiting # Nothing /\ y \in SeqsWith(awaiting, "ok"))

Inv ==
  /\ TypeOK
  /\ clock \in Nat /\ DOMAIN account = Users
  /\ ToSet(applied) \subseteq 1..made
  /\ IsFiniteSet({b \in Batches : batch[b].state # "idle"})
  /\ ClientOK
  /\ \A b \in Batches : BatchOK(b) /\ Carried(b)
  /\ DeliveredOnce
-----------------------------------------------------------------------------
(* Steps of the server on one item.                                        *)

\* The item at hand gets its status and is applied or not.
ItemStep(b, status, nl, applies) ==
  /\ HasItem(b)
  /\ batch' = AfterItem(b, status, nl)
  /\ status \in Statuses
  /\ applies => ~ batch[b].noLives /\ status \in {"ok", "error"}
  /\ status = "ok" => applies
  /\ status = "skipped_no_lives" => nl
  /\ ~ nl => ~ batch[b].noLives
  /\ applied' = IF applies THEN Append(applied, Item(b).seq) ELSE applied
  /\ errors' \in 0..MaxErrors /\ errors' >= errors
  /\ status = "error" => errors' > 0
  /\ UNCHANGED clientVars

\* The five outcomes of the loop body are such steps.
LEMMA ItemSteps ==
  ASSUME TypeOK, NEW b \in Batches,
         \/ ApplyItem(b) \/ RefuseItem(b) \/ SkipItem(b) \/ FailItem(b) \/ ApplyItemUnacknowledged(b)
  PROVE  \E status \in Statuses : \E nl, applies \in BOOLEAN : ItemStep(b, status, nl, applies)
<1>1. errors \in 0..MaxErrors /\ MaxErrors \in Nat
  BY BatchAssumption DEF TypeOK
<1>2. CASE ApplyItem(b)
  <2>1. ItemStep(b, "ok", FALSE, TRUE)
    BY <1>1, <1>2 DEF ApplyItem, ItemStep, Statuses
  <2> QED BY <2>1 DEF Statuses
<1>3. CASE RefuseItem(b)
  <2>1. ItemStep(b, "skipped_no_lives", TRUE, FALSE)
    BY <1>1, <1>3 DEF RefuseItem, ItemStep, Statuses
  <2> QED BY <2>1 DEF Statuses
<1>4. CASE SkipItem(b)
  <2>1. ItemStep(b, "skipped_no_lives", TRUE, FALSE)
    BY <1>1, <1>4 DEF SkipItem, ItemStep, Statuses
  <2> QED BY <2>1 DEF Statuses
<1>5. CASE FailItem(b)
  <2>1. ItemStep(b, "error", FALSE, FALSE)
    BY <1>1, <1>5 DEF FailItem, ItemStep, Statuses
  <2> QED BY <2>1 DEF Statuses
<1>6. CASE ApplyItemUnacknowledged(b)
  <2>1. ItemStep(b, "error", FALSE, TRUE)
    BY <1>1, <1>6 DEF ApplyItemUnacknowledged, ItemStep, Statuses
  <2> QED BY <2>1 DEF Statuses
<1> QED BY <1>2, <1>3, <1>4, <1>5, <1>6

\* What the step makes of the batch.
LEMMA ItemBatch ==
  ASSUME TypeOK, NEW b \in Batches, NEW status, NEW nl \in BOOLEAN, NEW applies,
         ItemStep(b, status, nl, applies)
  PROVE  LET result == [seq |-> Item(b).seq, status |-> status, practice |-> Item(b).sub.practice]
         IN  /\ Item(b) = batch[b].items[1] /\ Item(b) \in Entry /\ Len(batch[b].items) > 0
             /\ result \in Result
             /\ batch'[b] = [state |-> "running", items |-> Tail(batch[b].items), noLives |-> nl,
                            results |-> Append(batch[b].results, result)]
             /\ batch'[b].state = "running" /\ batch'[b].noLives = nl
             /\ batch' \in [Batches -> BatchRecord]
             /\ \A c \in Batches \ {b} : batch'[c] = batch[c]
<1> DEFINE result == [seq |-> Item(b).seq, status |-> status, practice |-> Item(b).sub.practice]
           after  == [state |-> "running", items |-> Tail(batch[b].items), noLives |-> nl,
                      results |-> Append(batch[b].results, result)]
<1>1. batch[b] \in BatchRecord /\ batch[b].items # <<>> /\ batch[b].state = "running"
  BY DEF TypeOK, ItemStep, HasItem
<1>2. batch[b].items \in Seq(Entry) /\ batch[b].results \in Seq(Result)
  BY <1>1 DEF BatchRecord
<1>3. Item(b) = batch[b].items[1] /\ Item(b) \in Entry /\ Len(batch[b].items) > 0
  BY <1>1, <1>2 DEF Item
<1>4. Item(b).sub \in Submission
  BY <1>3, SubmissionsAssumption DEF Entry
<1>5. result \in Result
  <2>1. Item(b).sub.practice \in BOOLEAN
    BY <1>4 DEF Submission
  <2>2. Item(b).seq \in 1..MaxQueued
    BY <1>3 DEF Entry
  <2> QED BY <2>1, <2>2 DEF Result, ItemStep
<1>6. Tail(batch[b].items) \in Seq(Entry) /\ Append(batch[b].results, result) \in Seq(Result)
  BY <1>1, <1>2, <1>5
<1>7. after \in BatchRecord
  BY <1>6 DEF BatchRecord
<1>8. batch' = [batch EXCEPT ![b] = after]
  <2>1. batch' = [batch EXCEPT ![b].items = Tail(batch[b].items), ![b].noLives = nl,
                               ![b].results = Append(batch[b].results, result)]
    BY DEF ItemStep, AfterItem
  <2>2. batch[b] = [state |-> "running", items |-> batch[b].items, noLives |-> batch[b].noLives,
                    results |-> batch[b].results]
    BY <1>1 DEF BatchRecord
  <2> QED BY <2>1, <2>2 DEF TypeOK
<1> HIDE DEF result, after
<1>9. /\ batch'[b] = after /\ batch' \in [Batches -> BatchRecord]
      /\ \A c \in Batches \ {b} : batch'[c] = batch[c]
  BY <1>7, <1>8 DEF TypeOK
<1>10. after.state = "running" /\ after.noLives = nl
  BY DEF after
<1> QED BY <1>3, <1>5, <1>9, <1>10 DEF result, after

\* What is left of a sequence without its first element.
LEMMA TailHolds ==
  ASSUME NEW S, NEW s \in Seq(S), Len(s) > 0
  PROVE  /\ \A k \in DOMAIN Tail(s) : k + 1 \in DOMAIN s /\ Tail(s)[k] = s[k + 1] /\ 1 < k + 1
         /\ \A k \in DOMAIN s : k = 1 \/ (k - 1 \in DOMAIN Tail(s) /\ Tail(s)[k - 1] = s[k])
         /\ \A j, k \in DOMAIN Tail(s) : j < k => j + 1 < k + 1
<1>1. Len(s) \in Nat /\ DOMAIN s = 1..Len(s) /\ DOMAIN Tail(s) = 1..(Len(s) - 1)
  OBVIOUS
<1>2. \A k \in 1..(Len(s) - 1) : Tail(s)[k] = s[k + 1]
  OBVIOUS
<1> QED BY <1>1, <1>2

\* What was done of a batch, and what is left of it.
LEMMA ItemSeqs ==
  ASSUME TypeOK, NEW b \in Batches, NEW status, NEW nl \in BOOLEAN, NEW applies,
         ItemStep(b, status, nl, applies), BatchOK(b)
  PROVE  LET x == Item(b).seq
         IN  /\ x \in Left(b) /\ x \notin Left(b)' /\ Left(b) = Left(b)' \cup {x}
             /\ \A y \in Left(b) : x <= y
             /\ Ordered(batch[b].items)'
             /\ Settled(b)' = Settled(b) \cup {x} /\ x \notin Settled(b)
             /\ SeqsWith(b, status)' = SeqsWith(b, status) \cup {x}
             /\ \A other \in Statuses \ {status} : SeqsWith(b, other)' = SeqsWith(b, other)
<1> DEFINE x == Item(b).seq
           result == [seq |-> x, status |-> status, practice |-> Item(b).sub.practice]
           items == batch[b].items
           results == batch[b].results
<1>1. /\ Item(b) = items[1] /\ Len(items) > 0
      /\ batch'[b].items = Tail(items) /\ batch'[b].results = Append(results, result)
  <2>1. /\ Item(b) = items[1] /\ Len(items) > 0
        /\ batch'[b] = [state |-> "running", items |-> Tail(items), noLives |-> nl,
                        results |-> Append(results, result)]
    BY ItemBatch
  <2> HIDE DEF items, results, result
  <2> QED BY <2>1
<1>2. items \in Seq(Entry) /\ results \in Seq(Result)
  BY DEF TypeOK, BatchRecord
<1>3. Ordered(items)
  BY DEF BatchOK
<1>4. \A k \in DOMAIN items : items[k].seq \in Nat
  <2>1. \A k \in DOMAIN items : items[k] \in Entry
    BY <1>2
  <2>2. 1..MaxQueued \subseteq Nat
    BY BatchAssumption DEF BatchAssumption
  <2> QED BY <2>1, <2>2 DEF Entry
<1> HIDE DEF items, results
<1>5. \A k \in DOMAIN Tail(items) : k + 1 \in DOMAIN items /\ Tail(items)[k] = items[k + 1] /\ 1 < k + 1
  BY <1>1, <1>2, TailHolds
<1>6. \A k \in DOMAIN items : k = 1 \/ (k - 1 \in DOMAIN Tail(items) /\ Tail(items)[k - 1] = items[k])
  BY <1>1, <1>2, TailHolds
<1>7. /\ Left(b) = {items[k].seq : k \in DOMAIN items}
      /\ Left(b)' = {Tail(items)[k].seq : k \in DOMAIN Tail(items)}
  BY <1>1 DEF Left, items
<1>8. Ordered(Tail(items))
  <2>1. \A j, k \in DOMAIN Tail(items) : j < k => j + 1 < k + 1
    BY <1>1, <1>2, TailHolds
  <2> QED BY <1>3, <1>5, <2>1 DEF Ordered
<1>9. x = items[1].seq /\ 1 \in DOMAIN items
  BY <1>1, <1>2
<1>10. \A k \in DOMAIN Tail(items) : x < Tail(items)[k].seq
  BY <1>3, <1>5, <1>9 DEF Ordered
<1>11. x \in Nat
  BY <1>4, <1>9
<1>12. Left(b) = Left(b)' \cup {x}
  <2>1. x \in Left(b)
    BY <1>7, <1>9
  <2>2. \A k \in DOMAIN items : items[k].seq \in Left(b)' \cup {x}
    BY <1>6, <1>7, <1>9
  <2>3. \A k \in DOMAIN Tail(items) : Tail(items)[k].seq \in Left(b)
    BY <1>5, <1>7
  <2> QED BY <1>7, <2>1, <2>2, <2>3
<1>13. x \notin Left(b)' /\ \A y \in Left(b) : x <= y
  <2>1. \A y \in Left(b)' : x < y
    BY <1>7, <1>10
  <2>2. \A y \in Left(b)' : y \in Nat
    BY <1>4, <1>7, <1>12
  <2> QED BY <1>11, <1>12, <2>1, <2>2
<1>14. /\ DOMAIN Append(results, result) = DOMAIN results \cup {Len(results) + 1}
       /\ \A k \in DOMAIN results : Append(results, result)[k] = results[k]
       /\ Append(results, result)[Len(results) + 1] = result
       /\ Len(results) + 1 \notin DOMAIN results
  BY <1>2
<1>15. /\ Settled(b) = {results[k].seq : k \in DOMAIN results}
       /\ Settled(b)' = {Append(results, result)[k].seq : k \in DOMAIN Append(results, result)}
  BY <1>1 DEF Settled, results
<1>16. Settled(b)' = Settled(b) \cup {x}
  BY <1>14, <1>15
<1>17. ASSUME NEW s
       PROVE  /\ SeqsWith(b, s) = {results[k].seq : k \in {j \in DOMAIN results : results[j].status = s}}
              /\ SeqsWith(b, s)' = {Append(results, result)[k].seq :
                   k \in {j \in DOMAIN Append(results, result) : Append(results, result)[j].status = s}}
  BY <1>1 DEF SeqsWith, results
<1>18. SeqsWith(b, status)' = SeqsWith(b, status) \cup {x}
  BY <1>14, <1>17
<1>19. ASSUME NEW s, s # status PROVE SeqsWith(b, s)' = SeqsWith(b, s)
  <2>1. {j \in DOMAIN Append(results, result) : Append(results, result)[j].status = s}
          = {j \in DOMAIN results : results[j].status = s}
    BY <1>14, <1>19
  <2>2. \A k \in {j \in DOMAIN results : results[j].status = s} :
          Append(results, result)[k].seq = results[k].seq
    BY <1>14
  <2>3. {Append(results, result)[k].seq : k \in {j \in DOMAIN results : results[j].status = s}}
          = {results[k].seq : k \in {j \in DOMAIN results : results[j].status = s}}
    BY <2>2
  <2> QED BY <1>17, <2>1, <2>3
<1>20. x \notin Settled(b)
  <2>1. \A y \in Settled(b) : y < x
    BY <1>12 DEF BatchOK
  <2> QED BY <1>11, <2>1
<1>21. Ordered(batch[b].items)'
  BY <1>1, <1>8 DEF Ordered
<1> QED BY <1>12, <1>13, <1>16, <1>18, <1>19, <1>20, <1>21
\* A batch that the step leaves alone.
LEMMA SameBatch ==
  ASSUME NEW c, batch'[c].items = batch[c].items, batch'[c].results = batch[c].results
  PROVE  /\ Left(c)' = Left(c) /\ Settled(c)' = Settled(c)
         /\ \A status : SeqsWith(c, status)' = SeqsWith(c, status)
         /\ Ordered(batch[c].items)' = Ordered(batch[c].items)
BY DEF Left, Settled, SeqsWith, Ordered

\* A result has a status.
LEMMA SettledSplit ==
  ASSUME TypeOK, NEW b \in Batches
  PROVE  Settled(b) = SeqsWith(b, "ok") \cup SeqsWith(b, "error") \cup SeqsWith(b, "skipped_no_lives")
<1>1. batch[b].results \in Seq(Result)
  BY DEF TypeOK, BatchRecord
<1>2. \A k \in DOMAIN batch[b].results : batch[b].results[k].status \in Statuses
  <2>1. \A k \in DOMAIN batch[b].results : batch[b].results[k] \in Result
    BY <1>1
  <2> QED BY <2>1 DEF Result
<1> QED BY <1>2 DEF Settled, SeqsWith, Statuses

\* What a sequence holds after an element is appended.
LEMMA AppendHolds ==
  ASSUME NEW S, NEW s \in Seq(S), NEW e
  PROVE  /\ ToSet(Append(s, e)) = ToSet(s) \cup {e}
         /\ DOMAIN Append(s, e) = DOMAIN s \cup {Len(s) + 1} /\ Len(s) + 1 \notin DOMAIN s
         /\ \A k \in DOMAIN s : Append(s, e)[k] = s[k] /\ k < Len(s) + 1
         /\ Append(s, e)[Len(s) + 1] = e
         /\ \A k \in DOMAIN s : k \in Nat
<1>1. /\ DOMAIN Append(s, e) = DOMAIN s \cup {Len(s) + 1} /\ Len(s) + 1 \notin DOMAIN s
      /\ \A k \in DOMAIN s : Append(s, e)[k] = s[k] /\ k < Len(s) + 1
      /\ Append(s, e)[Len(s) + 1] = e
      /\ \A k \in DOMAIN s : k \in Nat
  OBVIOUS
<1>2. ToSet(Append(s, e)) = ToSet(s) \cup {e}
  BY <1>1 DEF ToSet
<1> QED BY <1>1, <1>2

\* The seqs of a batch are numbers.
LEMMA SeqsAreNumbers ==
  ASSUME Inv, NEW b \in Batches
  PROVE  \A x \in Left(b) \cup Settled(b) : x \in 1..made /\ x \in Nat
BY DEF Inv, TypeOK, BatchOK

\* The step of an item keeps what is said of its batch.
LEMMA ItemBatchOK ==
  ASSUME Inv, NEW b \in Batches, NEW status, NEW nl \in BOOLEAN, NEW applies,
         ItemStep(b, status, nl, applies)
  PROVE  BatchOK(b)'
<1> DEFINE x == Item(b).seq
<1>0. TypeOK /\ BatchOK(b) /\ made' = made
  BY DEF Inv, ItemStep, clientVars
<1>1. /\ x \in Left(b) /\ x \notin Left(b)' /\ Left(b) = Left(b)' \cup {x}
      /\ \A y \in Left(b) : x <= y
      /\ Ordered(batch[b].items)'
      /\ Settled(b)' = Settled(b) \cup {x} /\ x \notin Settled(b)
      /\ SeqsWith(b, status)' = SeqsWith(b, status) \cup {x}
      /\ \A other \in Statuses \ {status} : SeqsWith(b, other)' = SeqsWith(b, other)
  BY <1>0, ItemSeqs
<1>2. batch'[b].state = "running" /\ batch'[b].noLives = nl
  BY <1>0, ItemBatch
<1>3. \A y \in Left(b) \cup Settled(b) : y \in 1..made /\ y \in Nat
  BY SeqsAreNumbers
<1> HIDE DEF x
<1>4. \A y \in Settled(b)', z \in Left(b)' : y < z
  <2>1. \A z \in Left(b)' : z # x /\ x <= z /\ z \in Nat /\ x \in Nat
    BY <1>1, <1>3
  <2>2. \A y \in Settled(b), z \in Left(b)' : y < z
    BY <1>0, <1>1 DEF BatchOK
  <2> QED BY <1>1, <2>1, <2>2
<1>5. ToSet(applied) \subseteq ToSet(applied)' /\ (status = "ok" => x \in ToSet(applied)')
  BY <1>0, AppendHolds DEF ItemStep, TypeOK, x
<1>6. (SeqsWith(b, "ok") \subseteq ToSet(applied))'
  <2>1. CASE status = "ok"
    BY <1>0, <1>1, <1>5, <2>1 DEF BatchOK
  <2>2. CASE status # "ok"
    BY <1>0, <1>1, <1>5, <2>2 DEF BatchOK, Statuses
  <2> QED BY <2>1, <2>2
<1>7. (errors = 0 => SeqsWith(b, "error") = {})'
  <2>1. errors' = 0 => errors = 0 /\ status # "error"
    BY <1>0, BatchAssumption DEF BatchAssumption, ItemStep, TypeOK
  <2> QED BY <1>0, <1>1, <2>1 DEF BatchOK, Statuses
<1>8. (~ batch[b].noLives => SeqsWith(b, "skipped_no_lives") = {})'
  <2>1. ~ nl => status # "skipped_no_lives" /\ ~ batch[b].noLives
    BY DEF ItemStep
  <2> QED BY <1>0, <1>1, <1>2, <2>1 DEF BatchOK, Statuses
<1>9. (Left(b) \cup Settled(b))' \subseteq 1..made'
  BY <1>0, <1>1, <1>3
<1> QED BY <1>1, <1>2, <1>4, <1>6, <1>7, <1>8, <1>9 DEF BatchOK

\* The queue is not touched, so what the uploads say of it stays.
LEMMA ItemKeeps ==
  ASSUME Inv, NEW b \in Batches, NEW status, NEW nl \in BOOLEAN, NEW applies,
         ItemStep(b, status, nl, applies)
  PROVE  /\ ToSet(applied)' \subseteq 1..made' /\ ClientOK' /\ DeliveredOnce'
         /\ IsFiniteSet({c \in Batches : batch[c].state # "idle"})'
         /\ \A c \in Batches : BatchOK(c)' /\ Carried(c)'
<1> DEFINE x == Item(b).seq
<1>0. /\ TypeOK /\ BatchOK(b) /\ Carried(b) /\ made' = made /\ queue' = queue /\ awaiting' = awaiting
      /\ InQueue' = InQueue
  BY DEF Inv, ItemStep, clientVars, InQueue
<1>1. /\ x \in Left(b) /\ Left(b) = Left(b)' \cup {x} /\ Settled(b)' = Settled(b) \cup {x}
  BY <1>0, ItemSeqs
<1>2. /\ batch'[b].state = "running" /\ batch[b].state = "running"
      /\ \A c \in Batches \ {b} : batch'[c] = batch[c]
  <2>1. batch[b].state = "running"
    BY DEF ItemStep, HasItem
  <2> QED BY <1>0, <2>1, ItemBatch
<1>3. \A y \in Left(b) \cup Settled(b) : y \in 1..made
  BY SeqsAreNumbers
<1>4. applied \in Seq(1..MaxQueued) /\ applied' \in {applied, Append(applied, x)}
  BY <1>0 DEF TypeOK, ItemStep
<1>5. ToSet(applied) \subseteq ToSet(applied)' /\ ToSet(applied)' \subseteq ToSet(applied) \cup {x}
  <2>1. ToSet(applied)' = ToSet(applied')
    BY DEF ToSet
  <2>2. ToSet(Append(applied, x)) = ToSet(applied) \cup {x}
    BY <1>4, AppendHolds
  <2> QED BY <1>4, <2>1, <2>2
<1> HIDE DEF x
<1>6. ASSUME NEW c \in Batches \ {b}
      PROVE  /\ Left(c)' = Left(c) /\ Settled(c)' = Settled(c) /\ batch'[c] = batch[c]
             /\ \A s : SeqsWith(c, s)' = SeqsWith(c, s)
             /\ Ordered(batch[c].items)' = Ordered(batch[c].items)
  BY <1>2, SameBatch
<1>7. ASSUME NEW c \in Batches \ {b} PROVE BatchOK(c)' /\ Carried(c)'
  <2>1. BatchOK(c) /\ Carried(c)
    BY DEF Inv
  <2>2. errors' = 0 => errors = 0
    BY <1>0, BatchAssumption DEF BatchAssumption, ItemStep, TypeOK
  <2>3. BatchOK(c)'
    BY <1>0, <1>5, <1>6, <2>1, <2>2 DEF BatchOK
  <2>4. Carried(c)'
    BY <1>0, <1>6, <2>1 DEF Carried
  <2> QED BY <2>3, <2>4
<1>8. BatchOK(b)' /\ Carried(b)'
  <2>1. BatchOK(b)'
    BY ItemBatchOK
  <2>2. Carried(b)'
    BY <1>0, <1>1, <1>2 DEF Carried
  <2> QED BY <2>1, <2>2
<1>9. ToSet(applied)' \subseteq 1..made'
  BY <1>0, <1>1, <1>3, <1>5 DEF Inv
<1>10. ClientOK'
  <2>1. awaiting # Nothing => awaiting \in Batches
    BY <1>0 DEF TypeOK
  <2>2. awaiting # Nothing => batch'[awaiting].state = "running"
    BY <1>2, <2>1 DEF Inv, ClientOK
  <2>3. (Ordered(queue) /\ InQueue \subseteq 1..made)'
    BY <1>0 DEF Inv, ClientOK, Ordered
  <2> QED BY <1>0, <2>2, <2>3 DEF ClientOK
<1>11. DeliveredOnce'
  BY <1>2, <1>6 DEF Inv, DeliveredOnce
<1>12. {c \in Batches : batch'[c].state # "idle"} = {c \in Batches : batch[c].state # "idle"}
  BY <1>2
<1>13. IsFiniteSet({c \in Batches : batch[c].state # "idle"})'
  BY <1>12 DEF Inv
<1> QED BY <1>7, <1>8, <1>9, <1>10, <1>11, <1>13
-----------------------------------------------------------------------------
(* Steps of the client.                                                    *)

\* The part of the invariant that is not about types.
Kept ==
  /\ ToSet(applied) \subseteq 1..made /\ ClientOK /\ DeliveredOnce
  /\ IsFiniteSet({b \in Batches : batch[b].state # "idle"})
  /\ \A b \in Batches : BatchOK(b) /\ Carried(b)

\* Ordered entries are told apart by their seq.
LEMMA OrderedApart ==
  ASSUME NEW s \in Seq(Entry), Ordered(s), NEW j \in DOMAIN s, NEW k \in DOMAIN s,
         s[j].seq <= s[k].seq
  PROVE  j <= k
<1>1. s[j] \in Entry /\ s[k] \in Entry /\ j \in Int /\ k \in Int
  OBVIOUS
<1>2. s[j].seq \in Int /\ s[k].seq \in Int
  BY <1>1, BatchAssumption DEF Entry, BatchAssumption
<1>3. k < j => s[k].seq < s[j].seq
  BY DEF Ordered
<1> QED BY <1>1, <1>2, <1>3

\* A set of entries, oldest first, is a sequence of all of them.
LEMMA OldestFirstHolds ==
  ASSUME NEW S \in SUBSET Entry, IsFiniteSet(S), NEW q \in OldestFirst(S)
  PROVE  q \in Seq(S) /\ Ordered(q) /\ ToSet(q) = S
<1> DEFINE n == Cardinality(S)
<1>1. n \in Nat /\ q \in [1..n -> S] /\ DOMAIN q = 1..n
  BY FS_CardinalityType DEF OldestFirst
<1>2. Ordered(q)
  BY DEF OldestFirst, Ordered
<1>3. q \in Seq(S)
  BY <1>1
<1>4. q \in Injection(1..n, S)
  <2>1. \A j, k \in 1..n : j < k => q[j] # q[k]
    <3>1. SUFFICES ASSUME NEW j \in 1..n, NEW k \in 1..n, j < k, q[j] = q[k] PROVE FALSE
      OBVIOUS
    <3>2. q[j].seq < q[k].seq /\ q[j] \in Entry
      BY <1>1, <1>2, <3>1 DEF Ordered
    <3>3. q[j].seq \in Int
      BY <3>2, BatchAssumption DEF Entry, BatchAssumption
    <3> QED BY <3>1, <3>2, <3>3
  <2>2. \A j, k \in 1..n : q[j] = q[k] => j = k
    BY <1>1, <2>1
  <2> QED BY <1>1, <2>2 DEF Injection, IsInjective
<1>5. Cardinality(1..n) = n
  BY <1>1, FS_Interval
<1>6. q \in Surjection(1..n, S)
  <2> HIDE DEF n
  <2>1. Cardinality(1..n) = Cardinality(S)
    BY <1>5 DEF n
  <2> QED BY <1>4, <2>1, FS_Injection
<1>7. ToSet(q) = S
  BY <1>1, <1>6 DEF Surjection, ToSet
<1> QED BY <1>2, <1>3, <1>7

\* A new attempt is the youngest of all.
LEMMA EnqueueKeeps ==
  ASSUME Inv, NEW sub \in Submissions, Enqueue(sub)
  PROVE  TypeOK' /\ Kept' /\ InQueue' = InQueue \cup {made + 1}
<1> DEFINE entry == [seq |-> made + 1, sub |-> sub]
<1>1. /\ made \in 0..MaxQueued /\ made < MaxQueued /\ made' = made + 1
      /\ queue \in Seq(Entry) /\ queue' = Append(queue, entry)
      /\ UNCHANGED <<account, batch, awaiting, applied, errors>>
  BY DEF Inv, TypeOK, Enqueue, vars
<1>2. entry \in Entry
  BY <1>1, BatchAssumption DEF Entry, BatchAssumption
<1>3. TypeOK'
  <2>1. queue' \in Seq(Entry) /\ made' \in 0..MaxQueued
    BY <1>1, <1>2, BatchAssumption DEF BatchAssumption
  <2> QED BY <1>1, <2>1 DEF Inv, TypeOK
<1>4. /\ DOMAIN Append(queue, entry) = DOMAIN queue \cup {Len(queue) + 1}
      /\ \A k \in DOMAIN queue : Append(queue, entry)[k] = queue[k] /\ k < Len(queue) + 1
      /\ Append(queue, entry)[Len(queue) + 1] = entry
      /\ \A k \in DOMAIN queue : k \in Nat
      /\ Len(queue) \in Nat
  BY <1>1, AppendHolds
<1>5. entry.seq = made + 1
  OBVIOUS
<1> HIDE DEF entry
<1>6. InQueue' = InQueue \cup {made + 1}
  BY <1>1, <1>4, <1>5 DEF InQueue
<1>7. InQueue \subseteq 1..made /\ Ordered(queue)
  BY DEF Inv, ClientOK
<1>8. \A k \in DOMAIN queue : queue[k].seq < made + 1
  <2>1. \A y \in 1..made : y < made + 1
    BY <1>1
  <2> QED BY <1>7, <2>1 DEF InQueue
<1>9. Ordered(queue)'
  <2>1. ASSUME NEW j \in DOMAIN Append(queue, entry), NEW k \in DOMAIN Append(queue, entry), j < k
        PROVE  Append(queue, entry)[j].seq < Append(queue, entry)[k].seq
    <3>1. j \in DOMAIN queue
      BY <1>4, <2>1
    <3>2. CASE k \in DOMAIN queue
      BY <1>4, <1>7, <2>1, <3>1, <3>2 DEF Ordered
    <3>3. CASE k = Len(queue) + 1
      BY <1>4, <1>5, <1>8, <3>1, <3>3
    <3> QED BY <1>4, <3>2, <3>3
  <2> QED BY <1>1, <2>1 DEF Ordered
<1>10. /\ 1..made \subseteq 1..made' /\ made + 1 \in 1..made'
       /\ \A y \in 1..made : y # made + 1 /\ ~ made + 1 <= y
  BY <1>1
<1>11. ClientOK'
  BY <1>1, <1>6, <1>7, <1>9, <1>10 DEF Inv, ClientOK
<1>12. ASSUME NEW b \in Batches PROVE BatchOK(b)' /\ Carried(b)'
  <2>1. /\ Left(b)' = Left(b) /\ Settled(b)' = Settled(b)
        /\ \A s : SeqsWith(b, s)' = SeqsWith(b, s)
        /\ Ordered(batch[b].items)' = Ordered(batch[b].items)
    BY <1>1, SameBatch
  <2>2. BatchOK(b) /\ Carried(b)
    BY DEF Inv
  <2>3. BatchOK(b)'
    BY <1>1, <1>10, <2>1, <2>2 DEF BatchOK, ToSet
  <2>4. SeqsWith(b, "ok") \subseteq 1..made /\ Left(b) \subseteq 1..made
    BY <2>2, SettledSplit DEF BatchOK, Inv
  <2>5. Carried(b)'
    BY <1>1, <1>6, <1>10, <2>1, <2>2, <2>4 DEF Carried
  <2> QED BY <2>3, <2>5
<1>13. DeliveredOnce'
  BY <1>1, SameBatch DEF Inv, DeliveredOnce
<1>14. (ToSet(applied) \subseteq 1..made)' /\ IsFiniteSet({b \in Batches : batch[b].state # "idle"})'
  BY <1>1, <1>10 DEF Inv, ToSet
<1> QED BY <1>3, <1>6, <1>11, <1>12, <1>13, <1>14 DEF Kept

\* Giving up only ends the wait.
LEMMA GiveUpKeeps ==
  ASSUME Inv, GiveUp
  PROVE  TypeOK' /\ Kept' /\ InQueue' = InQueue
<1>1. awaiting' = Nothing /\ UNCHANGED <<account, queue, made, batch, applied, errors>>
  BY DEF GiveUp, vars
<1>2. TypeOK' /\ ClientOK'
  BY <1>1 DEF Inv, TypeOK, ClientOK, Ordered, InQueue
<1>3. ASSUME NEW b \in Batches PROVE BatchOK(b)' /\ Carried(b)'
  <2>1. /\ Left(b)' = Left(b) /\ Settled(b)' = Settled(b)
        /\ \A s : SeqsWith(b, s)' = SeqsWith(b, s)
        /\ Ordered(batch[b].items)' = Ordered(batch[b].items)
    BY <1>1, SameBatch
  <2>2. BatchOK(b)'
    BY <1>1, <2>1 DEF Inv, BatchOK, ToSet
  <2>3. awaiting' # b
    BY <1>1, BatchAssumption DEF BatchAssumption
  <2>4. Carried(b)'
    BY <1>1, <2>1, <2>3 DEF Inv, Carried, InQueue
  <2> QED BY <2>2, <2>4
<1>4. DeliveredOnce'
  BY <1>1, SameBatch DEF Inv, DeliveredOnce
<1>5. (ToSet(applied) \subseteq 1..made)' /\ IsFiniteSet({b \in Batches : batch[b].state # "idle"})'
  BY <1>1 DEF Inv, ToSet
<1> QED BY <1>1, <1>2, <1>3, <1>4, <1>5 DEF Kept, InQueue
\* An upload takes the front of the queue.
LEMMA UploadTakes ==
  ASSUME Inv, NEW b \in Batches, Upload(b)
  PROVE  /\ batch' \in [Batches -> BatchRecord] /\ batch[b].state = "idle"
         /\ batch'[b].state = "running" /\ ~ batch'[b].noLives /\ batch'[b].results = <<>>
         /\ \A c \in Batches \ {b} : batch'[c] = batch[c]
         /\ Ordered(batch[b].items)' /\ Left(b)' \subseteq InQueue
         /\ \A x \in InQueue, y \in Left(b)' : x <= y => x \in Left(b)'
<1> DEFINE n     == IF Len(queue) < MaxBatch THEN Len(queue) ELSE MaxBatch
           items == SubSeq(queue, 1, n)
           after == [state |-> "running", items |-> items, noLives |-> FALSE, results |-> <<>>]
<1>1. queue \in Seq(Entry) /\ batch \in [Batches -> BatchRecord] /\ Ordered(queue)
  BY DEF Inv, TypeOK, ClientOK
<1>2. n \in Nat /\ n <= Len(queue) /\ Len(queue) \in Nat
  BY <1>1, BatchAssumption DEF BatchAssumption
<1>3. batch' = [batch EXCEPT ![b] = after] /\ batch[b].state = "idle"
  BY DEF Upload
<1> HIDE DEF n
<1>4. /\ items \in Seq(Entry) /\ DOMAIN items = 1..n /\ DOMAIN queue = 1..Len(queue)
      /\ \A k \in 1..n : items[k] = queue[k] /\ k \in DOMAIN queue
  BY <1>1, <1>2
<1> HIDE DEF items
<1>5. after \in BatchRecord
  BY <1>4 DEF BatchRecord
<1>6. after.items = items /\ after.state = "running" /\ ~ after.noLives /\ after.results = <<>>
  OBVIOUS
<1> HIDE DEF after
<1>7. /\ batch' \in [Batches -> BatchRecord] /\ batch'[b] = after
      /\ \A c \in Batches \ {b} : batch'[c] = batch[c]
  BY <1>1, <1>3, <1>5
<1>8. Left(b)' = {queue[k].seq : k \in 1..n}
  BY <1>4, <1>6, <1>7 DEF Left
<1>9. Ordered(batch[b].items)'
  BY <1>1, <1>4, <1>6, <1>7 DEF Ordered
<1>10. Left(b)' \subseteq InQueue
  BY <1>4, <1>8 DEF InQueue
<1>11. ASSUME NEW x \in InQueue, NEW y \in Left(b)', x <= y PROVE x \in Left(b)'
  <2>1. PICK j \in DOMAIN queue : x = queue[j].seq
    BY DEF InQueue
  <2>2. PICK k \in 1..n : y = queue[k].seq
    BY <1>8
  <2>3. k \in DOMAIN queue
    BY <1>4
  <2>4. j <= k
    BY <1>1, <1>11, <2>1, <2>2, <2>3, OrderedApart
  <2>5. j \in 1..n
    BY <1>2, <1>4, <2>4
  <2> QED BY <1>8, <2>1, <2>5
<1> QED BY <1>3, <1>6, <1>7, <1>9, <1>10, <1>11

\* Sending a batch keeps the invariant and the queue.
LEMMA UploadKeeps ==
  ASSUME Inv, NEW b \in Batches, Upload(b)
  PROVE  TypeOK' /\ Kept' /\ InQueue' = InQueue
<1>1. /\ awaiting' = b /\ awaiting = Nothing
      /\ UNCHANGED <<account, queue, made, applied, errors>>
  BY DEF Upload, vars
<1>2. /\ batch' \in [Batches -> BatchRecord] /\ batch[b].state = "idle"
      /\ batch'[b].state = "running" /\ ~ batch'[b].noLives /\ batch'[b].results = <<>>
      /\ \A c \in Batches \ {b} : batch'[c] = batch[c]
      /\ Ordered(batch[b].items)' /\ Left(b)' \subseteq InQueue
      /\ \A x \in InQueue, y \in Left(b)' : x <= y => x \in Left(b)'
  BY UploadTakes
<1>3. InQueue' = InQueue /\ InQueue \subseteq 1..made
  BY <1>1 DEF Inv, ClientOK, InQueue
<1>4. TypeOK'
  BY <1>1, <1>2 DEF Inv, TypeOK
<1>5. ClientOK'
  BY <1>1, <1>2, <1>3 DEF Inv, ClientOK, Ordered
<1>6. Settled(b)' = {} /\ \A s : SeqsWith(b, s)' = {}
  BY <1>2 DEF Settled, SeqsWith
<1>7. BatchOK(b)' /\ Carried(b)'
  <2>1. BatchOK(b)'
    BY <1>1, <1>2, <1>3, <1>6 DEF BatchOK
  <2>2. Carried(b)'
    BY <1>2, <1>3, <1>6 DEF Carried
  <2> QED BY <2>1, <2>2
<1>8. ASSUME NEW c \in Batches \ {b} PROVE BatchOK(c)' /\ Carried(c)'
  <2>1. /\ Left(c)' = Left(c) /\ Settled(c)' = Settled(c) /\ batch'[c] = batch[c]
        /\ \A s : SeqsWith(c, s)' = SeqsWith(c, s)
        /\ Ordered(batch[c].items)' = Ordered(batch[c].items)
    BY <1>2, SameBatch
  <2>2. BatchOK(c)'
    BY <1>1, <2>1 DEF Inv, BatchOK, ToSet
  <2>3. Carried(c)'
    BY <1>1, <1>3, <2>1 DEF Inv, Carried
  <2> QED BY <2>2, <2>3
<1>9. DeliveredOnce'
  <2>1. ASSUME NEW c \in Batches, batch'[c].state = "closed"
        PROVE  batch[c].state = "closed" /\ SeqsWith(c, "ok")' = SeqsWith(c, "ok")
    BY <1>2, <2>1, SameBatch
  <2> QED BY <2>1 DEF Inv, DeliveredOnce
<1>10. {c \in Batches : batch'[c].state # "idle"} = {c \in Batches : batch[c].state # "idle"} \cup {b}
  BY <1>2
<1>11. IsFiniteSet({c \in Batches : batch[c].state # "idle"})'
  BY <1>10, FS_AddElement DEF Inv
<1>12. (ToSet(applied) \subseteq 1..made)'
  BY <1>1 DEF Inv, ToSet
<1> QED BY <1>3, <1>4, <1>5, <1>7, <1>8, <1>9, <1>11, <1>12 DEF Kept

\* The answer takes the accepted attempts out of the queue, and no others.
LEMMA DeliverDrops ==
  ASSUME Inv, NEW b \in Batches, Deliver(b)
  PROVE  queue' \in Seq(Entry) /\ Ordered(queue)' /\ InQueue' = InQueue \ SeqsWith(b, "ok")
<1> DEFINE S == {e \in ToSet(queue) : e.seq \notin SeqsWith(b, "ok")}
<1>1. queue \in Seq(Entry) /\ queue' \in OldestFirst(S)
  BY DEF Inv, TypeOK, Deliver
<1>2. S \in SUBSET Entry
  BY <1>1 DEF ToSet
<1>3. IsFiniteSet(S)
  <2>1. IsFiniteSet(DOMAIN queue)
    BY <1>1, FS_Interval
  <2>2. queue \in Surjection(DOMAIN queue, ToSet(queue))
    BY <1>1 DEF Surjection, ToSet
  <2>3. IsFiniteSet(ToSet(queue))
    BY <2>1, <2>2, FS_Surjection
  <2> QED BY <2>3, FS_Subset
<1> HIDE DEF S
<1>4. queue' \in Seq(S) /\ Ordered(queue') /\ ToSet(queue') = S
  BY <1>1, <1>2, <1>3, OldestFirstHolds
<1>5. queue' \in Seq(Entry)
  BY <1>2, <1>4
<1>6. InQueue = {e.seq : e \in ToSet(queue)} /\ InQueue' = {e.seq : e \in ToSet(queue')}
  BY DEF InQueue, ToSet
<1>7. {e.seq : e \in S} = {e.seq : e \in ToSet(queue)} \ SeqsWith(b, "ok")
  BY DEF S
<1> QED BY <1>4, <1>5, <1>6, <1>7 DEF Ordered

\* So does an answer that arrives, but for what it takes from the queue.
LEMMA DeliverKeeps ==
  ASSUME Inv, NEW b \in Batches, Deliver(b)
  PROVE  TypeOK' /\ Kept'
<1>1. /\ awaiting' = Nothing /\ awaiting = b /\ batch[b].state = "running" /\ batch[b].items = <<>>
      /\ batch' = [batch EXCEPT ![b].state = "closed"]
      /\ UNCHANGED <<account, made, applied, errors>>
  BY DEF Deliver, vars
<1>2. queue' \in Seq(Entry) /\ Ordered(queue)' /\ InQueue' = InQueue \ SeqsWith(b, "ok")
  BY DeliverDrops
<1>3. batch \in [Batches -> BatchRecord]
  BY DEF Inv, TypeOK
<1>4. /\ batch' \in [Batches -> BatchRecord] /\ batch'[b].state = "closed"
      /\ batch'[b].items = batch[b].items /\ batch'[b].results = batch[b].results
      /\ batch'[b].noLives = batch[b].noLives
      /\ \A c \in Batches \ {b} : batch'[c] = batch[c]
  <2>1. batch[b] \in BatchRecord
    BY <1>3
  <2> QED BY <1>1, <1>3, <2>1 DEF BatchRecord
<1>5. TypeOK'
  BY <1>1, <1>2, <1>4 DEF Inv, TypeOK
<1>6. ClientOK'
  BY <1>1, <1>2 DEF Inv, ClientOK
<1>7. ASSUME NEW c \in Batches
      PROVE  /\ Left(c)' = Left(c) /\ Settled(c)' = Settled(c)
             /\ \A s : SeqsWith(c, s)' = SeqsWith(c, s)
             /\ Ordered(batch[c].items)' = Ordered(batch[c].items)
  BY <1>4, SameBatch
<1>8. ASSUME NEW c \in Batches PROVE BatchOK(c)'
  <2>1. BatchOK(c) /\ batch'[c].noLives = batch[c].noLives
    BY <1>4 DEF Inv
  <2>2. batch'[c].state \in {"idle", "closed"} => Left(c) = {}
    <3>1. Left(b) = {}
      BY <1>1 DEF Left
    <3>2. c # b => batch'[c] = batch[c]
      BY <1>4
    <3> QED BY <2>1, <3>1, <3>2 DEF BatchOK
  <2>3. batch'[c].state = "idle" => Settled(c) = {}
    BY <1>1, <1>4, <2>1 DEF BatchOK
  <2> QED BY <1>1, <1>7, <2>1, <2>2, <2>3 DEF BatchOK, ToSet
<1>9. ASSUME NEW c \in Batches PROVE Carried(c)'
  <2>1. awaiting' # c
    BY <1>1, BatchAssumption DEF BatchAssumption
  <2>2. batch'[c].state = "closed" => SeqsWith(c, "ok") \cap InQueue' = {}
    BY <1>2, <1>4 DEF Inv, Carried
  <2> QED BY <1>7, <2>1, <2>2 DEF Carried
<1>10. DeliveredOnce'
  <2>1. SeqsWith(b, "ok") \subseteq InQueue
    BY <1>1, SettledSplit DEF Inv, Carried
  <2>2. ASSUME NEW c \in Batches \ {b}, batch'[c].state = "closed"
        PROVE  batch[c].state = "closed" /\ SeqsWith(c, "ok") \cap SeqsWith(b, "ok") = {}
    BY <1>4, <2>1, <2>2 DEF Inv, Carried
  <2> QED BY <1>7, <2>2 DEF Inv, DeliveredOnce
<1>11. {c \in Batches : batch'[c].state # "idle"} = {c \in Batches : batch[c].state # "idle"}
  BY <1>1, <1>4
<1>12. (ToSet(applied) \subseteq 1..made)' /\ IsFiniteSet({c \in Batches : batch[c].state # "idle"})'
  BY <1>1, <1>11 DEF Inv, ToSet
<1> QED BY <1>5, <1>6, <1>8, <1>9, <1>10, <1>12 DEF Kept
-----------------------------------------------------------------------------
(* Steps of the store, and all steps together.                             *)

\* An attempt leaves the user's rows typed.
LEMMA SubmitTyped ==
  ASSUME Inv, NEW sub \in Submissions, SubmitAt(Player, sub, clock, clock)
  PROVE  account[Player]' \in AccountRecord /\ DOMAIN account' = Users /\ clock' = clock
<1> DEFINE row   == account[Player]
           lives == SettleLives(row.lives, clock)
           today == ResolveToday(sub.localDay, UtcDay(clock))
           after == [lives    |-> IF Charged(sub) THEN SpendLife(lives) ELSE row.lives,
                     streak   |-> NextStreak(row.streak, today),
                     progress |-> FanOut(row.progress, sub),
                     attempts |-> Append(row.attempts, RowOf(sub, today))]
<1>1. row \in AccountRecord /\ clock \in Nat /\ DOMAIN account = Users /\ Player \in Users
  BY BatchAssumption DEF Inv, TypeOK, BatchAssumption
<1>2. sub \in Submission
  BY SubmissionsAssumption DEF SubmissionsAssumption
<1>3. /\ Accepted(sub, lives) /\ clock' = clock
      /\ account' = [account EXCEPT ![Player] = after]
  BY DEF SubmitAt
<1>4. lives \in LivesRecord
  BY <1>1, SettleType DEF AccountRecord
<1>5. Charged(sub) => SpendLife(lives) \in LivesRecord
  <2>1. Charged(sub) => lives.count > 0
    BY <1>3 DEF Charged, Accepted
  <2> QED BY <1>4, <2>1, SpendType
<1>6. today \in Int
  <2>1. UtcDay(clock) \in Int
    BY <1>1, ItemsAssumption DEF UtcDay, ItemsAssumption
  <2> QED BY <2>1, ResolveTodayIsDay
<1>7. NextStreak(row.streak, today) \in StreakRecord
  BY <1>1, <1>6, NextStreakType DEF AccountRecord
<1>8. FanOut(row.progress, sub) \in [Items -> Grades]
  BY <1>1, <1>2 DEF FanOut, AccountRecord, Submission
<1>9. RowOf(sub, today) \in AttemptRow
  BY <1>2, <1>6 DEF RowOf, AttemptRow, Submission
<1>10. row.attempts \in Seq(AttemptRow) /\ row.lives \in LivesRecord
  BY <1>1 DEF AccountRecord
<1> HIDE DEF row, lives, today
<1>11. after \in AccountRecord
  BY <1>5, <1>7, <1>8, <1>9, <1>10 DEF AccountRecord
<1> HIDE DEF after
<1> QED BY <1>1, <1>3, <1>11

\* So does a life consumed elsewhere.
LEMMA ConsumeTyped ==
  ASSUME Inv, ConsumeAt(Player, clock)
  PROVE  account[Player]' \in AccountRecord /\ DOMAIN account' = Users /\ clock' = clock
<1> DEFINE row  == account[Player]
           rest == SpendLife(SettleLives(row.lives, clock))
<1>1. row \in AccountRecord /\ clock \in Nat /\ DOMAIN account = Users /\ Player \in Users
  BY BatchAssumption DEF Inv, TypeOK, BatchAssumption
<1>2. /\ clock' = clock /\ SettleLives(row.lives, clock).count > 0
      /\ account' = [account EXCEPT ![Player].lives = rest]
  BY DEF ConsumeAt
<1>3. rest \in LivesRecord
  BY <1>1, <1>2, SettleType, SpendType DEF AccountRecord
<1> HIDE DEF rest
<1>4. [row EXCEPT !.lives = rest] \in AccountRecord
  BY <1>1, <1>3 DEF AccountRecord
<1>5. account'[Player] = [row EXCEPT !.lives = rest] /\ DOMAIN account' = Users
  BY <1>1, <1>2
<1> QED BY <1>2, <1>4, <1>5

\* A step that leaves the queue and the batches alone.
LEMMA OthersKeep ==
  ASSUME Inv, UNCHANGED batchVars
  PROVE  Kept' /\ InQueue' = InQueue
<1>1. UNCHANGED <<queue, made, awaiting, batch, applied, errors>>
  BY DEF batchVars, clientVars
<1>2. /\ \A b : Left(b)' = Left(b) /\ Settled(b)' = Settled(b)
      /\ \A b, s : SeqsWith(b, s)' = SeqsWith(b, s)
      /\ \A b : Ordered(batch[b].items)' = Ordered(batch[b].items)
      /\ InQueue' = InQueue /\ ToSet(applied)' = ToSet(applied)
  BY <1>1 DEF Left, Settled, SeqsWith, Ordered, InQueue, ToSet
<1>3. ClientOK'
  BY <1>1, <1>2 DEF Inv, ClientOK, Ordered
<1>4. ASSUME NEW b \in Batches PROVE BatchOK(b)' /\ Carried(b)'
  BY <1>1, <1>2 DEF Inv, BatchOK, Carried
<1>5. DeliveredOnce'
  BY <1>1, <1>2 DEF Inv, DeliveredOnce
<1>6. IsFiniteSet({b \in Batches : batch[b].state # "idle"})'
  BY <1>1 DEF Inv
<1>7. (ToSet(applied) \subseteq 1..made)'
  BY <1>1, <1>2 DEF Inv
<1> QED BY <1>2, <1>3, <1>4, <1>5, <1>6, <1>7 DEF Kept

\* BatchNext by the parts of it that the proofs tell apart.
LEMMA NextSplit ==
  ASSUME Inv, [BatchNext]_allVars
  PROVE  \/ UNCHANGED batchVars
         \/ \E sub \in Submissions : Enqueue(sub)
         \/ GiveUp
         \/ \E b \in Batches :
              \/ Upload(b) \/ Deliver(b)
              \/ \E status \in Statuses : \E nl, applies \in BOOLEAN : ItemStep(b, status, nl, applies)
<1>1. TypeOK
  BY DEF Inv
<1> QED BY <1>1, ItemSteps DEF BatchNext, Pass, ConsumeElsewhere, allVars

\* The rows of the player stay typed.
LEMMA StoreStep ==
  ASSUME Inv, [BatchNext]_allVars
  PROVE  account[Player]' \in AccountRecord /\ DOMAIN account' = Users /\ clock' \in Nat
<1>1. account[Player] \in AccountRecord /\ DOMAIN account = Users /\ clock \in Nat
  BY DEF Inv, TypeOK
<1>2. CASE Pass
  BY <1>1, <1>2 DEF Pass, Tick
<1>3. CASE ConsumeElsewhere
  BY <1>1, <1>3, ConsumeTyped DEF ConsumeElsewhere
<1>4. ASSUME NEW b \in Batches, ApplyItem(b) \/ ApplyItemUnacknowledged(b)
      PROVE  account[Player]' \in AccountRecord /\ DOMAIN account' = Users /\ clock' \in Nat
  <2>1. HasItem(b) /\ SubmitAt(Player, Item(b).sub, clock, clock)
    BY <1>4 DEF ApplyItem, ApplyItemUnacknowledged
  <2>2. Item(b) \in Entry
    BY <2>1 DEF HasItem, Item, Inv, TypeOK, BatchRecord
  <2>3. Item(b).sub \in Submissions
    BY <2>2 DEF Entry
  <2> QED BY <1>1, <2>1, <2>3, SubmitTyped
<1>5. CASE UNCHANGED vars
  BY <1>1, <1>5 DEF vars
<1>6. UNCHANGED vars \/ Pass \/ ConsumeElsewhere
        \/ \E b \in Batches : ApplyItem(b) \/ ApplyItemUnacknowledged(b)
  BY DEF BatchNext, Enqueue, GiveUp, Upload, RefuseItem, SkipItem, FailItem, Deliver, allVars
<1> QED BY <1>2, <1>3, <1>4, <1>5, <1>6

\* Inv is inductive.
LEMMA InvStep == Inv /\ [BatchNext]_allVars => Inv'
<1> SUFFICES ASSUME Inv, [BatchNext]_allVars PROVE Inv'
  OBVIOUS
<1>1. account[Player]' \in AccountRecord /\ DOMAIN account' = Users /\ clock' \in Nat
  BY StoreStep
<1>2. CASE UNCHANGED batchVars
  <2>1. TypeOK'
    BY <1>1, <1>2 DEF Inv, TypeOK, batchVars, clientVars
  <2> QED BY <1>1, <1>2, <2>1, OthersKeep DEF Inv, Kept
<1>3. ASSUME NEW sub \in Submissions, Enqueue(sub) PROVE Inv'
  BY <1>1, <1>3, EnqueueKeeps DEF Inv, Kept
<1>4. CASE GiveUp
  BY <1>1, <1>4, GiveUpKeeps DEF Inv, Kept
<1>5. ASSUME NEW b \in Batches, Upload(b) \/ Deliver(b) PROVE Inv'
  BY <1>1, <1>5, UploadKeeps, DeliverKeeps DEF Inv, Kept
<1>6. ASSUME NEW b \in Batches, NEW status \in Statuses, NEW nl \in BOOLEAN, NEW applies \in BOOLEAN,
             ItemStep(b, status, nl, applies)
      PROVE  Inv'
  <2>1. TypeOK
    BY DEF Inv
  <2>2. batch' \in [Batches -> BatchRecord] /\ Item(b) \in Entry
    BY <1>6, <2>1, ItemBatch
  <2>3. applied' \in Seq(1..MaxQueued) /\ errors' \in 0..MaxErrors
    <3>1. Item(b).seq \in 1..MaxQueued
      BY <2>2 DEF Entry
    <3>2. applied \in Seq(1..MaxQueued)
      BY <2>1 DEF TypeOK
    <3>3. applied' \in {applied, Append(applied, Item(b).seq)} /\ errors' \in 0..MaxErrors
      BY <1>6 DEF ItemStep
    <3>4. Append(applied, Item(b).seq) \in Seq(1..MaxQueued)
      BY <3>1, <3>2
    <3> QED BY <3>2, <3>3, <3>4
  <2>4. TypeOK'
    BY <1>1, <1>6, <2>1, <2>2, <2>3 DEF TypeOK, ItemStep, clientVars
  <2>5. /\ ToSet(applied)' \subseteq 1..made' /\ ClientOK' /\ DeliveredOnce'
        /\ IsFiniteSet({c \in Batches : batch[c].state # "idle"})'
        /\ \A c \in Batches : BatchOK(c)' /\ Carried(c)'
    BY <1>6, ItemKeeps
  <2> QED BY <1>1, <2>4, <2>5 DEF Inv
<1> QED BY <1>2, <1>3, <1>4, <1>5, <1>6, NextSplit

\* It holds at the start.
LEMMA InitInv == BatchInit => Inv
<1> SUFFICES ASSUME BatchInit PROVE Inv
  OBVIOUS
<1>1. /\ queue = <<>> /\ made = 0 /\ awaiting = Nothing /\ applied = <<>> /\ errors = 0
      /\ clock = 0 /\ account = [u \in Users |-> NewAccount(0)]
      /\ batch = [b \in Batches |->
           [state |-> "idle", items |-> <<>>, noLives |-> FALSE, results |-> <<>>]]
  BY DEF BatchInit, Init
<1>2. NewAccount(0) \in AccountRecord
  <2>1. FullLives(0) \in LivesRecord /\ NoStreak \in StreakRecord
    BY LivesAssumption DEF FullLives, LivesRecord, NoStreak, StreakRecord
  <2> QED BY <2>1 DEF NewAccount, AccountRecord, Grades
<1>3. TypeOK
  <2>1. batch \in [Batches -> BatchRecord]
    BY <1>1 DEF BatchRecord
  <2> QED BY <1>1, <1>2, <2>1, BatchAssumption DEF TypeOK, BatchAssumption
<1>4. /\ \A b \in Batches : Left(b) = {} /\ Settled(b) = {}
      /\ \A b \in Batches : \A s : SeqsWith(b, s) = {}
      /\ \A b \in Batches : Ordered(batch[b].items)
      /\ InQueue = {} /\ ToSet(applied) = {} /\ Ordered(queue)
  BY <1>1 DEF Left, Settled, SeqsWith, Ordered, InQueue, ToSet
<1>5. \A b \in Batches : batch[b].state = "idle"
  BY <1>1
<1>6. {b \in Batches : batch[b].state # "idle"} = {}
  BY <1>5
<1>7. IsFiniteSet({b \in Batches : batch[b].state # "idle"})
  BY <1>6, FS_EmptySet
<1>8. \A b \in Batches : BatchOK(b) /\ Carried(b)
  BY <1>1, <1>4, <1>5, BatchAssumption DEF BatchOK, Carried, BatchAssumption
<1>9. DeliveredOnce /\ ClientOK
  BY <1>1, <1>4, <1>5 DEF DeliveredOnce, ClientOK
<1> QED BY <1>1, <1>3, <1>4, <1>7, <1>8, <1>9 DEF Inv

\* Inv holds in every state.
LEMMA BatchInv == BatchSpec => []Inv
BY InitInv, InvStep, PTL DEF BatchSpec

\* Type correctness of queue, uploads and the player's rows.
THEOREM BatchTypeOK == BatchSpec => []TypeOK
<1>1. Inv => TypeOK
  BY DEF Inv
<1> QED BY <1>1, BatchInv, PTL
-----------------------------------------------------------------------------
(* No attempt is lost.                                                     *)

\* An attempt is in the queue or among those applied.
Saved == \A seq \in 1..made : seq \in InQueue \/ seq \in ToSet(applied)

\* What was applied stays applied.
LEMMA ItemApplied ==
  ASSUME Inv, NEW b \in Batches, NEW status, NEW nl \in BOOLEAN, NEW applies,
         ItemStep(b, status, nl, applies)
  PROVE  /\ InQueue' = InQueue /\ made' = made
         /\ ToSet(applied)' = IF applies THEN ToSet(applied) \cup {Item(b).seq} ELSE ToSet(applied)
<1>1. applied \in Seq(1..MaxQueued)
  BY DEF Inv, TypeOK
<1>2. ToSet(applied)' = ToSet(applied')
  BY DEF ToSet
<1>3. ToSet(Append(applied, Item(b).seq)) = ToSet(applied) \cup {Item(b).seq}
  BY <1>1, AppendHolds
<1> QED BY <1>2, <1>3 DEF ItemStep, clientVars, InQueue

\* Only an answer takes attempts from the queue, and it takes those applied.
LEMMA SavedStep == Inv /\ Saved /\ [BatchNext]_allVars => Saved'
<1> SUFFICES ASSUME Inv, Saved, [BatchNext]_allVars PROVE Saved'
  OBVIOUS
<1>0. made \in Nat
  BY DEF Inv, TypeOK
<1>1. CASE UNCHANGED batchVars
  BY <1>1, OthersKeep DEF Saved, batchVars, clientVars, ToSet
<1>2. ASSUME NEW sub \in Submissions, Enqueue(sub) PROVE Saved'
  <2>1. InQueue' = InQueue \cup {made + 1}
    BY <1>2, EnqueueKeeps
  <2>2. made' = made + 1 /\ ToSet(applied)' = ToSet(applied)
    BY <1>2 DEF Enqueue, ToSet
  <2> QED BY <1>0, <2>1, <2>2 DEF Saved
<1>3. CASE GiveUp
  <2>1. made' = made /\ ToSet(applied)' = ToSet(applied)
    BY <1>3 DEF GiveUp, ToSet
  <2> QED BY <1>3, <2>1, GiveUpKeeps DEF Saved
<1>4. ASSUME NEW b \in Batches, Upload(b) PROVE Saved'
  <2>1. made' = made /\ ToSet(applied)' = ToSet(applied)
    BY <1>4 DEF Upload, ToSet
  <2> QED BY <1>4, <2>1, UploadKeeps DEF Saved
<1>5. ASSUME NEW b \in Batches, Deliver(b) PROVE Saved'
  <2>1. made' = made /\ ToSet(applied)' = ToSet(applied)
    BY <1>5 DEF Deliver, ToSet
  <2>2. SeqsWith(b, "ok") \subseteq ToSet(applied)
    BY DEF Inv, BatchOK
  <2> QED BY <1>5, <2>1, <2>2, DeliverDrops DEF Saved
<1>6. ASSUME NEW b \in Batches, NEW status \in Statuses, NEW nl \in BOOLEAN, NEW applies \in BOOLEAN,
             ItemStep(b, status, nl, applies)
      PROVE  Saved'
  BY <1>6, ItemApplied DEF Saved
<1> QED BY <1>1, <1>2, <1>3, <1>4, <1>5, <1>6, NextSplit

\* The positions at which an attempt was applied.
Places(seq) == {k \in DOMAIN applied : applied[k] = seq}

\* Their number is that of the times it was applied.
LEMMA PlacesFinite ==
  ASSUME TypeOK, NEW seq
  PROVE  IsFiniteSet(Places(seq)) /\ TimesApplied(seq) = Cardinality(Places(seq)) /\ TimesApplied(seq) \in Nat
<1>1. applied \in Seq(1..MaxQueued)
  BY DEF TypeOK
<1>2. IsFiniteSet(DOMAIN applied)
  BY <1>1, FS_Interval
<1>3. IsFiniteSet(Places(seq))
  BY <1>2, FS_Subset DEF Places
<1> QED BY <1>3, FS_CardinalityType DEF TimesApplied, Places

\* An attempt stays in the queue until a batch has applied it
\* (attempt_service.go:192-193, 228).
THEOREM BatchNothingLost == BatchSpec => []NothingLost
<1>1. BatchInit => Saved
  BY DEF BatchInit, Saved
<1>2. Inv /\ Saved => NothingLost
  <2> SUFFICES ASSUME Inv, Saved, NEW seq \in 1..made, seq \in ToSet(applied) PROVE TimesApplied(seq) > 0
    BY DEF Saved, NothingLost
  <2>1. Places(seq) # {}
    BY DEF ToSet, Places
  <2>2. IsFiniteSet(Places(seq)) /\ TimesApplied(seq) = Cardinality(Places(seq)) /\ TimesApplied(seq) \in Nat
    BY PlacesFinite DEF Inv
  <2> QED BY <2>1, <2>2, FS_EmptySet
<1> QED BY <1>1, <1>2, SavedStep, BatchInv, PTL DEF BatchSpec
-----------------------------------------------------------------------------
(* Applied twice only when the client could not know.                      *)

\* An upload may have applied an attempt only after it was sent.
LEMMA TriedInFinite ==
  ASSUME Inv, NEW seq
  PROVE  IsFiniteSet(TriedIn(seq)) /\ Cardinality(TriedIn(seq)) \in Nat
<1>1. ASSUME NEW b \in TriedIn(seq) PROVE batch[b].state # "idle"
  <2>1. b \in Batches /\ seq \in Settled(b)
    BY SettledSplit DEF TriedIn, Inv
  <2> QED BY <2>1 DEF Inv, BatchOK
<1>2. TriedIn(seq) \subseteq {b \in Batches : batch[b].state # "idle"}
  BY <1>1 DEF TriedIn
<1>3. IsFiniteSet(TriedIn(seq))
  BY <1>2, FS_Subset DEF Inv
<1> QED BY <1>3, FS_CardinalityType

\* The client and the clock change no result.
LEMMA SameTries ==
  ASSUME Inv,
         \/ UNCHANGED batchVars \/ GiveUp
         \/ \E sub \in Submissions : Enqueue(sub)
         \/ \E b \in Batches : Upload(b) \/ Deliver(b)
  PROVE  /\ applied' = applied /\ errors' = errors
         /\ \A c \in Batches : \A s : SeqsWith(c, s)' = SeqsWith(c, s)
<1>1. CASE UNCHANGED batchVars \/ GiveUp \/ \E sub \in Submissions : Enqueue(sub)
  BY <1>1, SameBatch DEF batchVars, clientVars, GiveUp, Enqueue
<1>2. ASSUME NEW b \in Batches, Upload(b)
      PROVE  /\ applied' = applied /\ errors' = errors
             /\ \A c \in Batches : \A s : SeqsWith(c, s)' = SeqsWith(c, s)
  <2>1. /\ batch[b].state = "idle" /\ batch'[b].results = <<>>
        /\ \A c \in Batches \ {b} : batch'[c] = batch[c]
    BY <1>2, UploadTakes
  <2>2. Settled(b) = {}
    BY <2>1 DEF Inv, BatchOK
  <2>3. \A s : SeqsWith(b, s) = {} /\ SeqsWith(b, s)' = {}
    <3>1. \A s : SeqsWith(b, s) \subseteq Settled(b)
      BY DEF Settled, SeqsWith
    <3>2. DOMAIN batch'[b].results = {}
      BY <2>1
    <3>3. \A s : SeqsWith(b, s)' = {}
      BY <3>2 DEF SeqsWith
    <3> QED BY <2>2, <3>1, <3>3
  <2>4. ASSUME NEW c \in Batches PROVE \A s : SeqsWith(c, s)' = SeqsWith(c, s)
    BY <2>1, <2>3, SameBatch
  <2> QED BY <1>2, <2>4 DEF Upload
<1>3. ASSUME NEW b \in Batches, Deliver(b)
      PROVE  /\ applied' = applied /\ errors' = errors
             /\ \A c \in Batches : \A s : SeqsWith(c, s)' = SeqsWith(c, s)
  <2>1. \A c \in Batches : batch'[c].items = batch[c].items /\ batch'[c].results = batch[c].results
    BY <1>3 DEF Deliver, Inv, TypeOK, BatchRecord
  <2> QED BY <1>3, <2>1, SameBatch DEF Deliver
<1> QED BY <1>1, <1>2, <1>3

\* The step that applies an attempt adds its upload to those that tried it.
LEMMA CountedStep == Inv /\ Counted /\ [BatchNext]_allVars => Counted'
<1> SUFFICES ASSUME Inv, Counted, [BatchNext]_allVars, NEW y \in 1..MaxQueued
             PROVE  TimesApplied(y)' <= Cardinality(TriedIn(y)')
  BY DEF Counted
<1>0. TimesApplied(y) <= Cardinality(TriedIn(y)) /\ TypeOK
  BY DEF Counted, Inv
<1>1. CASE \/ UNCHANGED batchVars \/ GiveUp
           \/ \E sub \in Submissions : Enqueue(sub)
           \/ \E b \in Batches : Upload(b) \/ Deliver(b)
  <2>1. TimesApplied(y)' = TimesApplied(y) /\ TriedIn(y)' = TriedIn(y)
    BY <1>1, SameTries DEF TimesApplied, TriedIn
  <2> QED BY <1>0, <2>1
<1>2. ASSUME NEW b \in Batches, NEW status \in Statuses, NEW nl \in BOOLEAN, NEW applies \in BOOLEAN,
             ItemStep(b, status, nl, applies)
      PROVE  TimesApplied(y)' <= Cardinality(TriedIn(y)')
  <2> DEFINE x == Item(b).seq
  <2>1. /\ Settled(b)' = Settled(b) \cup {x} /\ x \notin Settled(b)
        /\ SeqsWith(b, status)' = SeqsWith(b, status) \cup {x}
        /\ \A other \in Statuses \ {status} : SeqsWith(b, other)' = SeqsWith(b, other)
    BY <1>0, <1>2, ItemSeqs DEF Inv
  <2>2. \A c \in Batches \ {b} : \A s : SeqsWith(c, s)' = SeqsWith(c, s)
    BY <1>0, <1>2, ItemBatch, SameBatch
  <2> HIDE DEF x
  <2>3. TriedIn(y) \subseteq TriedIn(y)'
    BY <2>1, <2>2 DEF TriedIn, Statuses
  <2>4. IsFiniteSet(TriedIn(y)) /\ Cardinality(TriedIn(y)) \in Nat
    BY TriedInFinite
  <2>5. TriedIn(y)' \subseteq TriedIn(y) \cup {b}
    BY <2>2 DEF TriedIn
  <2>6. /\ IsFiniteSet(TriedIn(y)') /\ Cardinality(TriedIn(y)') \in Nat
        /\ Cardinality(TriedIn(y)) <= Cardinality(TriedIn(y)')
    <3>1. IsFiniteSet(TriedIn(y)')
      BY <2>4, <2>5, FS_AddElement, FS_Subset
    <3> QED BY <2>3, <3>1, FS_Subset, FS_CardinalityType
  <2>7. TimesApplied(y) \in Nat
    BY <1>0, PlacesFinite
  <2>8. CASE ~ applies \/ y # x
    <3>1. applied \in Seq(1..MaxQueued) /\ applied' = IF applies THEN Append(applied, x) ELSE applied
      BY <1>0, <1>2 DEF TypeOK, ItemStep, x
    <3>2. Places(y)' = Places(y)
      BY <2>8, <3>1, AppendHolds DEF Places
    <3>3. TimesApplied(y)' = TimesApplied(y)
      BY <3>2 DEF TimesApplied, Places
    <3> QED BY <1>0, <2>4, <2>6, <2>7, <3>3
  <2>9. CASE applies /\ y = x
    <3>1. applied \in Seq(1..MaxQueued) /\ applied' = Append(applied, y)
      BY <1>0, <1>2, <2>9 DEF TypeOK, ItemStep, x
    <3>2. Places(y)' = Places(y) \cup {Len(applied) + 1} /\ Len(applied) + 1 \notin Places(y)
      <4>1. /\ DOMAIN applied' = DOMAIN applied \cup {Len(applied) + 1}
            /\ Len(applied) + 1 \notin DOMAIN applied
            /\ \A k \in DOMAIN applied : applied'[k] = applied[k]
            /\ applied'[Len(applied) + 1] = y
        BY <3>1, AppendHolds
      <4> QED BY <4>1 DEF Places
    <3>3. TimesApplied(y)' = Cardinality(Places(y)')
      BY DEF TimesApplied, Places
    <3>4. TimesApplied(y)' = TimesApplied(y) + 1
      <4>1. IsFiniteSet(Places(y)) /\ TimesApplied(y) = Cardinality(Places(y))
        BY <1>0, PlacesFinite
      <4>2. Cardinality(Places(y) \cup {Len(applied) + 1}) = Cardinality(Places(y)) + 1
        BY <3>2, <4>1, FS_AddElement
      <4> QED BY <3>2, <3>3, <4>1, <4>2
    <3>5. b \notin TriedIn(y)
      BY <1>0, <2>1, <2>9, SettledSplit DEF TriedIn
    <3>6. b \in TriedIn(y)'
      <4>1. status \in {"ok", "error"} /\ y \in SeqsWith(b, status)'
        BY <1>2, <2>1, <2>9 DEF ItemStep
      <4> QED BY <4>1 DEF TriedIn
    <3>7. TriedIn(y)' = TriedIn(y) \cup {b}
      BY <2>3, <2>5, <3>6
    <3>8. Cardinality(TriedIn(y)') = Cardinality(TriedIn(y)) + 1
      BY <2>4, <3>5, <3>7, FS_AddElement
    <3> QED BY <1>0, <2>4, <2>7, <3>4, <3>8
  <2> QED BY <2>8, <2>9
<1> QED BY <1>1, <1>2, NextSplit

\* An attempt is applied once, and once more for each upload of it that the
\* client heard nothing of or was told had failed (attempt_service.go:218-226).
THEOREM BatchDuplicateOnlyIfUnknown == BatchSpec => []DuplicateOnlyIfUnknown
<1>1. BatchInit => Counted
  <2> SUFFICES ASSUME BatchInit, NEW seq \in 1..MaxQueued
               PROVE  TimesApplied(seq) <= Cardinality(TriedIn(seq))
    BY DEF Counted
  <2>1. Inv /\ applied = <<>>
    BY InitInv DEF BatchInit
  <2>2. Places(seq) = {}
    BY <2>1 DEF Places
  <2>3. TimesApplied(seq) = 0
    BY <2>2, FS_EmptySet DEF TimesApplied, Places
  <2> QED BY <2>1, <2>3, TriedInFinite
<1>2. Inv /\ Counted => DuplicateOnlyIfUnknown
  <2> SUFFICES ASSUME Inv, Counted, NEW seq \in 1..made
               PROVE  TimesApplied(seq) <= 1 + Cardinality(UnseenUploads(seq) \cup FailedUploads(seq))
    BY DEF DuplicateOnlyIfUnknown
  <2> DEFINE unknown == UnseenUploads(seq) \cup FailedUploads(seq)
             known   == {b \in Batches : seq \in SeqsWith(b, "ok") /\ ~ GivenUp(b)}
  <2>1. TypeOK /\ seq \in 1..MaxQueued
    BY BatchAssumption DEF Inv, TypeOK, BatchAssumption
  <2>2. TimesApplied(seq) <= Cardinality(TriedIn(seq)) /\ TimesApplied(seq) \in Nat
    BY <2>1, PlacesFinite DEF Counted
  <2>3. TriedIn(seq) \subseteq unknown \cup known
    BY DEF TriedIn, UnseenUploads, FailedUploads, Statuses
  <2>4. ASSUME NEW b \in known
        PROVE  /\ seq \in Settled(b) /\ b \in Batches
               /\ (batch[b].state = "closed" /\ seq \notin InQueue) \/ (awaiting = b /\ seq \in InQueue)
    <3>1. seq \in Settled(b) /\ b \in Batches
      BY <2>1, SettledSplit
    <3>2. batch[b].state \in {"closed", "running"}
      BY <2>1, <3>1 DEF Inv, BatchOK, TypeOK, BatchRecord
    <3> QED BY <3>1, <3>2 DEF GivenUp, Inv, Carried
  <2>5. \A b, c \in known : b = c
    <3> SUFFICES ASSUME NEW b \in known, NEW c \in known PROVE b = c
      OBVIOUS
    <3>1. CASE seq \in InQueue
      BY <2>4, <3>1
    <3>2. CASE seq \notin InQueue
      BY <2>4, <3>2 DEF Inv, DeliveredOnce
    <3> QED BY <3>1, <3>2
  <2>6. IsFiniteSet(unknown)
    <3>1. ASSUME NEW b \in unknown PROVE b \in Batches /\ batch[b].state # "idle"
      <4>1. b \in Batches /\ seq \in Settled(b)
        BY <2>1, SettledSplit DEF UnseenUploads, FailedUploads, Statuses
      <4> QED BY <4>1 DEF Inv, BatchOK
    <3>2. unknown \subseteq {b \in Batches : batch[b].state # "idle"}
      BY <3>1
    <3> HIDE DEF unknown
    <3> QED BY <3>2, FS_Subset DEF Inv
  <2> HIDE DEF unknown, known
  <2>7. Cardinality(unknown) \in Nat
    BY <2>6, FS_CardinalityType
  <2>8. Cardinality(TriedIn(seq)) <= Cardinality(unknown) + 1
    <3>1. CASE known = {}
      <4>1. Cardinality(TriedIn(seq)) <= Cardinality(unknown)
        BY <2>3, <2>6, <3>1, FS_Subset
      <4> QED BY <2>7, <4>1, TriedInFinite
    <3>2. ASSUME NEW b \in known PROVE Cardinality(TriedIn(seq)) <= Cardinality(unknown) + 1
      <4>1. TriedIn(seq) \subseteq unknown \cup {b}
        BY <2>3, <2>5, <3>2
      <4>2. /\ IsFiniteSet(unknown \cup {b})
            /\ Cardinality(unknown \cup {b}) \in {Cardinality(unknown), Cardinality(unknown) + 1}
        BY <2>6, FS_AddElement
      <4>3. Cardinality(TriedIn(seq)) <= Cardinality(unknown \cup {b})
        BY <4>1, <4>2, FS_Subset
      <4> QED BY <2>7, <4>2, <4>3, TriedInFinite
    <3> QED BY <3>1, <3>2
  <2>9. TimesApplied(seq) <= 1 + Cardinality(unknown)
    BY <2>2, <2>7, <2>8, TriedInFinite
  <2> QED BY <2>9 DEF unknown
<1> QED BY <1>1, <1>2, CountedStep, BatchInv, PTL DEF BatchSpec
-----------------------------------------------------------------------------
(* Applied in the order in which they were made.                           *)

Sorted == \A j, k \in DOMAIN applied : j < k => applied[j] <= applied[k]
Newer  == \A x \in ToSet(applied), y \in InQueue :
            x < y \/ (awaiting # Nothing /\ y \in SeqsWith(awaiting, "ok"))

\* A step that gives no item its status.
LEMMA InOrderOther ==
  ASSUME Inv, InOrder, Quiet',
         \/ UNCHANGED batchVars \/ GiveUp
         \/ \E sub \in Submissions : Enqueue(sub)
         \/ \E b \in Batches : Upload(b) \/ Deliver(b)
  PROVE  Sorted' /\ Newer'
<1>1. applied' = applied /\ errors' = errors /\ \A c \in Batches : \A s : SeqsWith(c, s)' = SeqsWith(c, s)
  BY SameTries
<1>2. /\ ToSet(applied)' = ToSet(applied)
      /\ Sorted => Sorted'
      /\ \A x \in ToSet(applied) : x \in 1..made
  BY <1>1 DEF Sorted, ToSet, Inv
<1>3. InOrder /\ Quiet => Sorted /\ Newer
  BY DEF InOrder, Sorted, Newer
<1>4. /\ errors' = 0 /\ made \in Nat /\ Nothing \notin Batches
      /\ awaiting \in Batches \cup {Nothing}
      /\ awaiting # Nothing => batch[awaiting].state = "running"
      /\ \A c \in Batches : batch'[c].state = "running" => awaiting' = c
  BY BatchAssumption DEF Quiet, Inv, TypeOK, ClientOK, BatchAssumption
<1>5. CASE UNCHANGED batchVars
  <2>1. Quiet /\ awaiting' = awaiting /\ InQueue' = InQueue
    BY <1>1, <1>4, <1>5 DEF Quiet, batchVars, clientVars, InQueue
  <2> QED BY <1>1, <1>2, <1>3, <1>4, <2>1 DEF Newer
<1>6. CASE GiveUp
  <2>1. awaiting # Nothing /\ awaiting' = Nothing /\ batch' = batch
    BY <1>6 DEF GiveUp
  <2> QED BY <1>4, <2>1
<1>7. ASSUME NEW sub \in Submissions, Enqueue(sub) PROVE Sorted' /\ Newer'
  <2>1. InQueue' = InQueue \cup {made + 1}
    BY <1>7, EnqueueKeeps
  <2>2. awaiting' = awaiting /\ batch' = batch
    BY <1>7 DEF Enqueue
  <2>3. Quiet
    BY <1>1, <1>4, <2>2 DEF Quiet
  <2>4. \A x \in ToSet(applied) : x < made + 1
    BY <1>2, <1>4
  <2> QED BY <1>1, <1>2, <1>3, <1>4, <2>1, <2>2, <2>3, <2>4 DEF Newer
<1>8. ASSUME NEW b \in Batches, Upload(b) PROVE Sorted' /\ Newer'
  <2>1. awaiting = Nothing /\ awaiting' = b
    BY <1>8 DEF Upload
  <2>2. InQueue' = InQueue
    BY <1>8, UploadKeeps
  <2>3. batch[b].state = "idle" /\ \A c \in Batches \ {b} : batch'[c] = batch[c]
    BY <1>8, UploadTakes
  <2>4. Quiet
    BY <1>1, <1>4, <2>1, <2>3 DEF Quiet
  <2> QED BY <1>2, <1>3, <2>1, <2>2, <2>4 DEF Newer
<1>9. ASSUME NEW b \in Batches, Deliver(b) PROVE Sorted' /\ Newer'
  <2>1. awaiting = b /\ awaiting' = Nothing /\ \A c \in Batches \ {b} : batch'[c] = batch[c]
    BY <1>9 DEF Deliver, Inv, TypeOK
  <2>2. InQueue' = InQueue \ SeqsWith(b, "ok")
    BY <1>9, DeliverDrops
  <2>3. Quiet
    BY <1>1, <1>4, <2>1 DEF Quiet
  <2> QED BY <1>2, <1>3, <2>1, <2>2, <2>3 DEF Newer
<1> QED BY <1>5, <1>6, <1>7, <1>8, <1>9

\* The loop body: what it applies is newer than all that was applied, and no
\* attempt before it in the queue was passed over.
LEMMA InOrderItem ==
  ASSUME Inv, InOrder, Quiet',
         NEW b \in Batches, NEW status, NEW nl \in BOOLEAN, NEW applies \in BOOLEAN,
         ItemStep(b, status, nl, applies)
  PROVE  Sorted' /\ Newer'
<1> DEFINE x == Item(b).seq
<1>1. TypeOK /\ BatchOK(b) /\ Carried(b)
  BY DEF Inv
<1>2. /\ x \in Left(b) /\ Left(b) = Left(b)' \cup {x}
      /\ \A y \in Left(b) : x <= y
      /\ x \notin Settled(b)
      /\ SeqsWith(b, status)' = SeqsWith(b, status) \cup {x}
      /\ \A other \in Statuses \ {status} : SeqsWith(b, other)' = SeqsWith(b, other)
  BY <1>1, ItemSeqs
<1>3. /\ InQueue' = InQueue
      /\ ToSet(applied)' = IF applies THEN ToSet(applied) \cup {x} ELSE ToSet(applied)
  BY ItemApplied
<1>4. /\ awaiting' = awaiting /\ errors' = 0 /\ errors' >= errors
      /\ status \in Statuses /\ (status = "error" => errors' > 0)
      /\ (applies => status \in {"ok", "error"} /\ ~ batch[b].noLives)
      /\ (status = "ok" => applies)
      /\ batch[b].state = "running"
      /\ applied' = IF applies THEN Append(applied, x) ELSE applied
  BY DEF Quiet, ItemStep, HasItem, clientVars
<1>5. batch'[b].state = "running" /\ \A c \in Batches \ {b} : batch'[c] = batch[c]
  BY <1>1, ItemBatch
<1>6. errors = 0
  <2>1. errors \in Nat
    BY <1>1, BatchAssumption DEF TypeOK, BatchAssumption
  <2> QED BY <1>4, <2>1
<1>7. Quiet /\ awaiting = b /\ awaiting # Nothing
  BY <1>4, <1>5, <1>6, BatchAssumption DEF Quiet, BatchAssumption
<1>8. Sorted /\ Newer
  BY <1>7 DEF InOrder, Sorted, Newer
<1>9. /\ SeqsWith(b, "ok") \subseteq SeqsWith(b, "ok")'
      /\ Settled(b) = SeqsWith(b, "ok") \cup SeqsWith(b, "error") \cup SeqsWith(b, "skipped_no_lives")
  BY <1>1, <1>2, SettledSplit DEF Statuses
<1>10. /\ Left(b) \cup Settled(b) \subseteq InQueue
       /\ \A z \in InQueue, y \in Left(b) : z <= y => z \in Left(b) \cup Settled(b)
  BY <1>1, <1>7 DEF Carried
<1>11. \A y \in InQueue : y \in Nat
  BY DEF Inv, ClientOK, TypeOK
<1>12. awaiting' # Nothing /\ awaiting' = b
  BY <1>4, <1>7
<1>13. SeqsWith(awaiting, "ok")' = SeqsWith(b, "ok")'
  BY <1>12 DEF SeqsWith
<1> HIDE DEF x
<1>14. CASE ~ applies
  <2>1. applied' = applied /\ ToSet(applied)' = ToSet(applied)
    BY <1>3, <1>4, <1>14
  <2>2. Sorted'
    BY <1>8, <2>1 DEF Sorted
  <2>3. Newer'
    BY <1>3, <1>7, <1>8, <1>9, <1>12, <1>13, <2>1 DEF Newer
  <2> QED BY <2>2, <2>3
<1>15. CASE applies
  <2>1. status = "ok" /\ x \in SeqsWith(b, "ok")'
    BY <1>2, <1>4, <1>15
  <2>2. \A a \in ToSet(applied) : a < x
    BY <1>2, <1>7, <1>8, <1>9, <1>10 DEF Newer
  <2>3. \A y \in InQueue : x < y \/ y \in SeqsWith(b, "ok")'
    <3> SUFFICES ASSUME NEW y \in InQueue, ~ (x < y) PROVE y \in SeqsWith(b, "ok")'
      OBVIOUS
    <3>1. x \in Nat /\ y \in Nat
      BY <1>2, <1>10, <1>11
    <3>2. y <= x
      BY <3>1
    <3>3. CASE y \in Left(b)
      <4>1. x <= y
        BY <1>2, <3>3
      <4>2. y = x
        BY <3>1, <3>2, <4>1
      <4> QED BY <2>1, <4>2
    <3>4. CASE y \in Settled(b)
      <4>1. SeqsWith(b, "error") = {} /\ SeqsWith(b, "skipped_no_lives") = {}
        BY <1>1, <1>4, <1>6, <1>15 DEF BatchOK
      <4> QED BY <1>9, <3>4, <4>1
    <3> QED BY <1>2, <1>10, <3>2, <3>3, <3>4
  <2>4. Newer'
    <3>1. ToSet(applied)' = ToSet(applied) \cup {x}
      BY <1>3, <1>15
    <3>2. \A a \in ToSet(applied), y \in InQueue : a < y \/ y \in SeqsWith(b, "ok")'
      BY <1>7, <1>8, <1>9 DEF Newer
    <3>3. \A a \in ToSet(applied)', y \in InQueue : a < y \/ y \in SeqsWith(b, "ok")'
      BY <2>3, <3>1, <3>2
    <3> QED BY <1>3, <1>12, <1>13, <3>3 DEF Newer
  <2>5. Sorted'
    <3>1. applied \in Seq(1..MaxQueued) /\ applied' = Append(applied, x)
      BY <1>1, <1>4, <1>15 DEF TypeOK
    <3>2. /\ DOMAIN applied' = DOMAIN applied \cup {Len(applied) + 1}
          /\ \A k \in DOMAIN applied : applied'[k] = applied[k] /\ k < Len(applied) + 1
          /\ applied'[Len(applied) + 1] = x
          /\ \A k \in DOMAIN applied : k \in Nat
      BY <3>1, AppendHolds
    <3>3. \A k \in DOMAIN applied : applied[k] < x /\ applied[k] \in Nat /\ x \in Nat
      <4>1. \A k \in DOMAIN applied : applied[k] \in ToSet(applied)
        BY DEF ToSet
      <4>2. \A a \in ToSet(applied) : a \in Nat
        BY <1>1 DEF Inv, TypeOK
      <4> QED BY <1>2, <1>10, <1>11, <2>2, <4>1, <4>2
    <3>4. Len(applied) \in Nat
      BY <3>1
    <3> SUFFICES ASSUME NEW j \in DOMAIN applied', NEW k \in DOMAIN applied', j < k
                 PROVE  applied'[j] <= applied'[k]
      BY DEF Sorted
    <3>5. j \in DOMAIN applied
      BY <3>2, <3>4
    <3>6. CASE k \in DOMAIN applied
      BY <1>8, <3>2, <3>5, <3>6 DEF Sorted
    <3>7. CASE k = Len(applied) + 1
      BY <3>2, <3>3, <3>5, <3>7
    <3> QED BY <3>2, <3>6, <3>7
  <2> QED BY <2>4, <2>5
<1> QED BY <1>14, <1>15

\* As long as every upload is waited for and no item fails, attempts are applied
\* in the order in which they were made (attempt_service.go:192-193, 214-217).
THEOREM BatchAppliedInOrder == BatchSpec => []AppliedInOrder
<1>1. BatchInit => InOrder
  <2> SUFFICES ASSUME BatchInit PROVE InOrder
    OBVIOUS
  <2>1. DOMAIN applied = {}
    BY DEF BatchInit
  <2>2. ToSet(applied) = {}
    BY <2>1 DEF ToSet
  <2> QED BY <2>1, <2>2 DEF InOrder
<1>2. Inv /\ InOrder /\ [BatchNext]_allVars => InOrder'
  <2> SUFFICES ASSUME Inv, InOrder, [BatchNext]_allVars, Quiet' PROVE Sorted' /\ Newer'
    BY DEF InOrder, Sorted, Newer
  <2>1. CASE \/ UNCHANGED batchVars \/ GiveUp
             \/ \E sub \in Submissions : Enqueue(sub)
             \/ \E b \in Batches : Upload(b) \/ Deliver(b)
    BY <2>1, InOrderOther
  <2>2. ASSUME NEW b \in Batches, NEW status \in Statuses, NEW nl \in BOOLEAN, NEW applies \in BOOLEAN,
               ItemStep(b, status, nl, applies)
        PROVE  Sorted' /\ Newer'
    BY <2>2, InOrderItem
  <2> QED BY <2>1, <2>2, NextSplit
<1>3. InOrder => AppliedInOrder
  BY DEF InOrder, Quiet, AppliedInOrder
<1> QED BY <1>1, <1>2, <1>3, BatchInv, PTL DEF BatchSpec
=============================================================================
