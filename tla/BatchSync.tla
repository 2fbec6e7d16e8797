----------------------------- MODULE BatchSync ------------------------------
(***************************************************************************)
(* The offline queue of a client and SubmitAttemptsBatch, which works it   *)
(* off (attempt_service.go:192-231).  The client keeps attempts it made    *)
(* offline in a queue, uploads the oldest of them in one request, and      *)
(* reads from the answer which to drop and which to keep for another try.  *)
(* The server takes the items of a batch one by one, each in a transaction *)
(* of its own - one step of AttemptStore - so other requests come between. *)
(* A client that gives up waiting uploads the same attempts again, while   *)
(* the server may still be at work on the first batch.                     *)
(*                                                                         *)
(* The client is not part of the repository: Enqueue, Upload, GiveUp and   *)
(* Deliver follow what the comments of the batch code say it does.         *)
(***************************************************************************)
EXTENDS AttemptStore, SequencesExt

CONSTANTS
  Player,    \* the user whose queue this is
  Batches,   \* identities of upload requests, each used once
  MaxBatch,  \* attempts in one upload (maxBatchSize)
  MaxQueued, \* bound: attempts made offline
  MaxErrors, \* bound: items that fail for a reason of their own
  Horizon,   \* bound of the clock
  Nothing    \* no upload is being waited for

ASSUME BatchAssumption ==
  /\ Player \in Users
  /\ MaxBatch \in Nat \ {0}
  /\ MaxQueued \in Nat /\ MaxErrors \in Nat /\ Horizon \in Nat
  /\ Nothing \notin Batches

VARIABLES
  queue,    \* attempts on the device, oldest first: [seq, sub]
  made,     \* how many attempts were made, the last client_seq given
  batch,    \* what the server holds of each upload
  awaiting, \* the upload the client waits for, or Nothing
  applied,  \* history: client_seq of the items the server applied, in order
  errors    \* history: how many items failed for a reason of their own

clientVars == <<queue, made, awaiting>>
batchVars  == <<clientVars, batch, applied, errors>>
allVars    == <<vars, batchVars>>

Statuses == {"ok", "skipped_no_lives", "error"}
Entry    == [seq : 1..MaxQueued, sub : Submissions]
Result   == [seq : 1..MaxQueued, status : Statuses, practice : BOOLEAN]
BatchRecord ==
  [state : {"idle", "running", "closed"}, items : Seq(Entry), noLives : BOOLEAN,
   results : Seq(Result)]

TypeOK ==
  /\ account[Player] \in AccountRecord
  /\ queue \in Seq(Entry)
  /\ made \in 0..MaxQueued
  /\ batch \in [Batches -> BatchRecord]
  /\ awaiting \in Batches \cup {Nothing}
  /\ applied \in Seq(1..MaxQueued)
  /\ errors \in 0..MaxErrors

BatchInit ==
  /\ Init
  /\ queue = <<>>
  /\ made = 0
  /\ batch = [b \in Batches |->
       [state |-> "idle", items |-> <<>>, noLives |-> FALSE, results |-> <<>>]]
  /\ awaiting = Nothing
  /\ applied = <<>>
  /\ errors = 0
-----------------------------------------------------------------------------
\* The client (external).

Enqueue(sub) ==
  /\ made < MaxQueued
  /\ made' = made + 1
  /\ queue' = Append(queue, [seq |-> made + 1, sub |-> sub])
  /\ UNCHANGED <<vars, batch, awaiting, applied, errors>>

\* An upload carries the oldest attempts, at most MaxBatch of them: the server
\* refuses an empty or a larger one.
Upload(b) ==
  /\ awaiting = Nothing /\ queue # <<>> /\ batch[b].state = "idle"
  /\ batch' = [batch EXCEPT ![b] =
       [state   |-> "running",
        items   |-> SubSeq(queue, 1, IF Len(queue) < MaxBatch THEN Len(queue) ELSE MaxBatch),
        noLives |-> FALSE,
        results |-> <<>>]]
  /\ awaiting' = b
  /\ UNCHANGED <<vars, queue, made, applied, errors>>

\* The answer does not come in time, or is lost.
GiveUp ==
  /\ awaiting # Nothing
  /\ awaiting' = Nothing
  /\ UNCHANGED <<vars, queue, made, batch, applied, errors>>

\* The attempts that an upload was answered for with a status.
SeqsWith(b, status) ==
  {batch[b].results[k].seq :
     k \in {j \in DOMAIN batch[b].results : batch[b].results[j].status = status}}

\* The queue that holds a set of entries.
OldestFirst(entries) ==
  {q \in [1..Cardinality(entries) -> entries] :
     \A j, k \in DOMAIN q : j < k => q[j].seq < q[k].seq}

\* The answer arrives: accepted attempts leave the queue, skipped and failed
\* ones stay for another upload.
Deliver(b) ==
  /\ awaiting = b /\ batch[b].state = "running" /\ batch[b].items = <<>>
  /\ queue' \in OldestFirst({e \in ToSet(queue) : e.seq \notin SeqsWith(b, "ok")})
  /\ batch' = [batch EXCEPT ![b].state = "closed"]
  /\ awaiting' = Nothing
  /\ UNCHANGED <<vars, made, applied, errors>>
-----------------------------------------------------------------------------
\* The server: the loop of SubmitAttemptsBatch over the items of a batch.

HasItem(b) == batch[b].state = "running" /\ batch[b].items # <<>>
Item(b)    == Head(batch[b].items)

\* The results after the item at hand has got its status.
AfterItem(b, status, noLives) ==
  [batch EXCEPT ![b].items   = Tail(@),
                ![b].noLives = noLives,
                ![b].results = Append(@, [seq |-> Item(b).seq, status |-> status,
                                          practice |-> Item(b).sub.practice])]

\* Mutant of ApplyItem: an item that was accepted is reported as failed.
ApplyItemAsError(b) ==
  /\ HasItem(b) /\ ~ batch[b].noLives
  /\ SubmitAt(Player, Item(b).sub, clock, clock)
  /\ batch' = AfterItem(b, "skipped_no_lives", FALSE)
  /\ applied' = Append(applied, Item(b).seq)
  /\ UNCHANGED <<clientVars, errors>>

\* SubmitAttempt accepts the item.
ApplyItem(b) ==
  /\ HasItem(b) /\ ~ batch[b].noLives
  /\ SubmitAt(Player, Item(b).sub, clock, clock)
  /\ batch' = AfterItem(b, "ok", FALSE)
  /\ applied' = Append(applied, Item(b).seq)
  /\ UNCHANGED <<clientVars, errors>>

\* Mutant of RefuseItem: a refused item is answered like an accepted one.
RefuseItemAsOk(b) ==
  /\ HasItem(b) /\ ~ batch[b].noLives
  /\ ~ Accepted(Item(b).sub, SettleLives(account[Player].lives, clock))
  /\ batch' = AfterItem(b, "ok", TRUE)
  /\ UNCHANGED <<vars, clientVars, applied, errors>>

\* SubmitAttempt answers ErrNoLives: this item and all later ones are skipped.
RefuseItem(b) ==
  /\ HasItem(b) /\ ~ batch[b].noLives
  /\ ~ Accepted(Item(b).sub, SettleLives(account[Player].lives, clock))
  /\ batch' = AfterItem(b, "skipped_no_lives", TRUE)
  /\ UNCHANGED <<vars, clientVars, applied, errors>>

\* Mutant of SkipItem: later items are tried although one was refused.
SkipItemNever(b) ==
  /\ HasItem(b) /\ batch[b].noLives
  /\ batch' = [batch EXCEPT ![b].noLives = FALSE]
  /\ UNCHANGED <<vars, clientVars, applied, errors>>

\* An item after the refused one is skipped, whatever its mode.
SkipItem(b) ==
  /\ HasItem(b) /\ batch[b].noLives
  /\ batch' = AfterItem(b, "skipped_no_lives", TRUE)
  /\ UNCHANGED <<vars, clientVars, applied, errors>>

\* Any other error concerns this item alone.
FailItem(b) ==
  /\ HasItem(b) /\ ~ batch[b].noLives
  /\ errors < MaxErrors
  /\ errors' = errors + 1
  /\ batch' = AfterItem(b, "error", FALSE)
  /\ UNCHANGED <<vars, clientVars, applied>>

\* The item was accepted, but its commit was not acknowledged (AttemptTx,
\* CommitUnacknowledged): it is reported as failed all the same.
ApplyItemUnacknowledged(b) ==
  /\ HasItem(b) /\ ~ batch[b].noLives
  /\ errors < MaxErrors
  /\ errors' = errors + 1
  /\ SubmitAt(Player, Item(b).sub, clock, clock)
  /\ batch' = AfterItem(b, "error", FALSE)
  /\ applied' = Append(applied, Item(b).seq)
  /\ UNCHANGED clientVars

\* The player loses a life on another device.
ConsumeElsewhere == ConsumeAt(Player, clock) /\ UNCHANGED batchVars

Pass == clock < Horizon /\ Tick /\ UNCHANGED batchVars

BatchNext ==
  \/ Pass
  \/ ConsumeElsewhere
  \/ \E sub \in Submissions : Enqueue(sub)
  \/ GiveUp
  \/ \E b \in Batches :
       \/ Upload(b)
       \/ ApplyItem(b)
       \/ RefuseItem(b)
       \/ SkipItem(b)
       \/ FailItem(b)
       \/ ApplyItemUnacknowledged(b)
       \/ Deliver(b)

BatchSpec == BatchInit /\ [][BatchNext]_allVars
-----------------------------------------------------------------------------
InQueue == {queue[k].seq : k \in DOMAIN queue}
TimesApplied(seq) == Cardinality({k \in DOMAIN applied : applied[k] = seq})

\* Uploads of an attempt whose answer the client never saw ...
GivenUp(b) == batch[b].state = "running" /\ awaiting # b
UnseenUploads(seq) ==
  {b \in Batches : GivenUp(b) /\ \E status \in Statuses : seq \in SeqsWith(b, status)}
\* ... and those it was told had failed.
FailedUploads(seq) == {b \in Batches : seq \in SeqsWith(b, "error")}

\* No attempt made offline is lost: it is in the queue until it was applied.
NothingLost == \A seq \in 1..made : seq \in InQueue \/ TimesApplied(seq) > 0

\* An attempt is applied twice only if the client never saw an answer for it or
\* was told that it failed: the server does not recognise a client_seq it has
\* seen (attempt_dto.go:27 has it for matching only), but "ok" and
\* "skipped_no_lives" can be relied on.
DuplicateOnlyIfUnknown ==
  \A seq \in 1..made :
    TimesApplied(seq) <= 1 + Cardinality(UnseenUploads(seq) \cup FailedUploads(seq))

\* While no upload was given up and no item failed, the server applies attempts
\* in the order they were made ("in order", lines 192-193): a refusal stops the
\* rest of the batch, so that no later attempt overtakes the refused one.
AppliedInOrder ==
  (\A b \in Batches : batch[b].state = "running" => awaiting = b) /\ errors = 0 =>
    \A j, k \in DOMAIN applied : j < k => applied[j] <= applied[k]

\* attempt_service.go:93-95: practice has nothing to do with lives and is taken
\* even without any, or reading records would never be synchronised.
PracticeNeverSkipped ==
  \A b \in Batches : \A k \in DOMAIN batch[b].results :
    batch[b].results[k].practice => batch[b].results[k].status # "skipped_no_lives"
=============================================================================
