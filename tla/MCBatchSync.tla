---------------------------- MODULE MCBatchSync -----------------------------
(* BatchSync for TLC: one verse in two places.                             *)
EXTENDS BatchSync

MCItems == {"psalm", "psalm_in_topic"}
MCVerseOf == [i \in MCItems |-> "psalm"]
MCSubmissions ==
  {[item |-> "psalm",          practice |-> FALSE, grade |-> "red",   localDay |-> 0],
   [item |-> "psalm_in_topic", practice |-> FALSE, grade |-> "green", localDay |-> 0],
   [item |-> "psalm",          practice |-> TRUE,  grade |-> "green", localDay |-> BadDay]}
=============================================================================
