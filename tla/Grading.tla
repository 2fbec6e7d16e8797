------------------------------- MODULE Grading -------------------------------
(***************************************************************************)
(* How the server grades a recital (internal/service/grading.go): the text *)
(* of the verse is normalised to tokens and compared with the tokens the   *)
(* client sends by the length of a longest common subsequence.             *)
(*                                                                         *)
(* A text is a sequence of pieces: words, and the marks between them       *)
(* (spaces, punctuation).  GradeRecall is translated with its table;       *)
(* ShareGrade says without one what the grade is to mean.                  *)
(***************************************************************************)
EXTENDS Integers, SequencesExt, FiniteSetsExt

CONSTANTS
  Words,  \* runs of letters and digits, in upper or lower case
  Lower   \* strings.ToLower, as a function of the word

ASSUME LowerAssumption == DOMAIN Lower = Words /\ Range(Lower) \subseteq Words

\* Normalize: the words of a text in lower case, without the marks.
Normalize(text) ==
  LET fields[n \in 0..Len(text)] ==
        IF n = 0 THEN <<>>
        ELSE IF text[n] \in Words THEN Append(fields[n - 1], Lower[text[n]])
        ELSE fields[n - 1]
  IN  fields[Len(text)]

\* Mutant of NextRow: the cell to the left is read after it was overwritten
\* (no prev), so that one recited word may match twice.
NextRowNoPrev(dp, word, attempt) ==
  LET row[j \in 0..Len(attempt)] ==
        IF j = 0 THEN 0
        ELSE LET left == row[j - 1]
             IN  IF word = attempt[j] THEN left + 1 ELSE IF dp[j] < left THEN left ELSE dp[j]
  IN  row

\* The inner loop of lcsLength: the row of one word of the answer from the row
\* before it, whose cell j counts with the first j recited words.
NextRow(dp, word, attempt) ==
  LET row[j \in 0..Len(attempt)] ==
        IF j = 0 THEN 0
        ELSE LET left == row[j - 1]
             IN  IF word = attempt[j] THEN dp[j - 1] + 1
                 ELSE IF dp[j] < left THEN left ELSE dp[j]
  IN  row

lcsLength(answer, attempt) ==
  LET dp[i \in 0..Len(answer)] ==
        IF i = 0 THEN [j \in 0..Len(attempt) |-> 0]
        ELSE NextRow(dp[i - 1], answer[i], attempt)
  IN  dp[Len(answer)][Len(attempt)]

\* GradeRecall: green for the whole verse, yellow from one half of it.
GradeRecall(answer, attempt) ==
  LET lcs == lcsLength(answer, attempt)
  IN  IF Len(answer) = 0 THEN "none"
      ELSE IF lcs >= Len(answer) THEN "green"
      ELSE IF 2 * lcs >= Len(answer) THEN "yellow"
      ELSE "red"
-----------------------------------------------------------------------------
(* The reference definition: the most words of the verse that can be       *)
(* paired with equal recited words so that both keep their order.          *)
Pairings(answer, attempt) ==
  LET equal == {p \in (DOMAIN answer) \X (DOMAIN attempt) : answer[p[1]] = attempt[p[2]]}
  IN  {chain \in SUBSET equal :
         \A p, q \in chain : p = q \/ (p[1] < q[1] /\ p[2] < q[2])
                                   \/ (q[1] < p[1] /\ q[2] < p[2])}

ShareGrade(answer, attempt) ==
  LET paired == Max({Cardinality(chain) : chain \in Pairings(answer, attempt)})
  IN  IF answer = <<>> THEN "none"
      ELSE IF paired = Len(answer) THEN "green"
      ELSE IF 2 * paired >= Len(answer) THEN "yellow"
      ELSE "red"
=============================================================================
