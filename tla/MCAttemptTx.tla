---------------------------- MODULE MCAttemptTx -----------------------------
(* AttemptTx for TLC: two items share a verse, a third has its own.        *)
EXTENDS AttemptTx, TLC

MCItems == {"psalm", "psalm_in_topic", "john"}
MCVerseOf == [i \in MCItems |-> IF i = "john" THEN "john" ELSE "psalm"]

\* One submission of each kind that the code tells apart: failed and cleared,
\* on one place of a verse and on another, practised, with a good date, with
\* the date of another zone and with none.
MCSubmissions ==
  {[item |-> "psalm",          practice |-> FALSE, grade |-> "red",   localDay |-> 1],
   [item |-> "psalm_in_topic", practice |-> FALSE, grade |-> "green", localDay |-> BadDay],
   [item |-> "john",           practice |-> TRUE,  grade |-> "none",  localDay |-> 2]}

Symmetry == Permutations(Requests)
=============================================================================
