----------------------------- MODULE MCLearning ------------------------------
(* Learning for TLC.  One verse stands in several courses; the second       *)
(* release edits the warm-up, the prophecies and the texts, and moves a     *)
(* commentary from its Korean to its English file.                          *)
EXTENDS Learning

MCVerses == {"gen1", "gen2", "isa1"}
MCPlace ==
  [v \in MCVerses |->
     CASE v = "gen1" -> [book |-> 1, chapter |-> 1, verse |-> 1]
       [] v = "gen2" -> [book |-> 1, chapter |-> 1, verse |-> 2]
       [] v = "isa1" -> [book |-> 23, chapter |-> 1, verse |-> 1]]

MCWords == {"In", "in", "the", "And", "and"}
MCLower == [w \in MCWords |-> IF w = "In" THEN "in" ELSE IF w = "And" THEN "and" ELSE w]
MCText ==
  [v \in MCVerses |->
     CASE v = "gen1" -> <<"In", " ", "the", ", ", "in">>
       [] v = "gen2" -> <<"And", " ", "the">>
       [] v = "isa1" -> <<"the", " ", "in">>]
\* Two recitals, of all of the first verse and of a word said twice, and one
\* practice.
MCRecitals ==
  {[mode |-> "type",    tokens |-> <<"in", "the", "in">>],
   [mode |-> "type",    tokens |-> <<"in", "in">>],
   [mode |-> "reading", tokens |-> <<"in", "the", "in">>]}

\* The sequence of lists that the scripts had over time.
MCLists ==
  <<[titles |-> "t1", topics |-> "t1", english |-> None,
     courses |-> <<[slug |-> "beginnings", category |-> "foundations",
                    hidden |-> FALSE, verses |-> <<"gen1">>]>>,
     warmup  |-> <<<<"gen1">>>>,
     books   |-> <<[slug |-> "book-01", category |-> "ot", num |-> 1]>>,
     messiah |-> <<<<"isa1">>>>,
     commentary |-> [s \in {"beginnings"} |-> [ko |-> "c", en |-> None]]],
    [titles |-> "t2", topics |-> "t2", english |-> "e2",
     courses |-> <<[slug |-> "beginnings", category |-> "foundations",
                    hidden |-> TRUE, verses |-> <<"gen1">>]>>,
     warmup  |-> <<<<"gen2">>>>,
     books   |-> <<[slug |-> "book-01", category |-> "ot", num |-> 1]>>,
     messiah |-> <<<<"gen2">>>>,
     commentary |-> [s \in {"beginnings"} |-> [ko |-> None, en |-> "c"]]]>>

\* The first book has two chapters, whose list may break off between them.
MCChaptersPlace ==
  [v \in MCVerses |->
     CASE v = "gen1" -> [book |-> 1, chapter |-> 1, verse |-> 1]
       [] v = "gen2" -> [book |-> 1, chapter |-> 2, verse |-> 1]
       [] v = "isa1" -> [book |-> 23, chapter |-> 1, verse |-> 1]]

\* A book of two chapters and nothing else.
MCBookPlace ==
  [v \in MCVerses |->
     CASE v = "gen1" -> [book |-> 1, chapter |-> 1, verse |-> 1]
       [] v = "gen2" -> [book |-> 1, chapter |-> 1, verse |-> 2]
       [] v = "isa1" -> [book |-> 1, chapter |-> 2, verse |-> 1]]
MCBookLists ==
  <<[titles |-> "t1", topics |-> "t1", english |-> None, courses |-> <<>>, warmup |-> <<>>,
     books |-> <<[slug |-> "book-01", category |-> "ot", num |-> 1]>>, messiah |-> <<>>,
     commentary |-> <<>>]>>
=============================================================================
