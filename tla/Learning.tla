------------------------------ MODULE Learning -------------------------------
(***************************************************************************)
(* Learners over the catalogue while it is seeded: attempts and the        *)
(* progress they leave, favourites, and the answers put together from      *)
(* several statements without a transaction (pg_attempt.go, GetResume;     *)
(* attempt_service.go, GetStats and GetProgress).                          *)
(*                                                                         *)
(* An attempt is a transaction at READ COMMITTED that locks the users row  *)
(* and nothing of the catalogue: it reads the verse of its item, later the *)
(* copies of the verse that the item then has, and the seeding may commit  *)
(* in between.  What it wrote is seen when it commits; lives and streaks   *)
(* are in AttemptTx.  created_at is the start of the transaction and the   *)
(* id is drawn under the row lock, so that the attempts of a user are kept *)
(* in the order of created_at and a new one may be put before attempts     *)
(* that overtook it.                                                       *)
(***************************************************************************)
EXTENDS Catalog

CONSTANTS
  Users,     \* users.id
  Recitals,  \* what learners send: a domain.Mode and the tokens
  MaxOps     \* bound: requests of all learners

ASSUME LearningAssumption ==
  /\ \A x \in Recitals : /\ x.mode \in {"drag", "type", "hard", "dictation", "reading"}
                        /\ x.tokens \in Seq(STRING)
  /\ MaxOps \in Nat

VARIABLES
  attempts,   \* table attempts, by user, in the order of created_at
  progress,   \* table progress, by user: the grade by course item
  favorites,  \* table item_favorites, by user
  underway,   \* the attempt that holds the users row of a user
  request,    \* the read that is under way for a user, or its answer
  ops         \* how many requests learners have made

learnerVars == <<attempts, progress, favorites, underway, request, ops>>
vars == <<courses, sections, items, nextItem, script, runs, seeded, moved,
          attempts, progress, favorites, underway, request, ops>>

IsPracticeMode(mode) == mode \in {"dictation", "reading"}

Idle == [kind |-> "idle"]

Init ==
  /\ CatalogInit
  /\ attempts = [u \in Users |-> <<>>]
  /\ progress = [u \in Users |-> <<>>]
  /\ favorites = [u \in Users |-> {}]
  /\ underway = [u \in Users |-> Idle]
  /\ request = [u \in Users |-> Idle]
  /\ ops = 0

\* Counts a request of a learner against the bound.
Request == ops < MaxOps /\ ops' = ops + 1

\* Figures read so far no longer belong to one state of the tables once
\* something is written: such an answer is not followed further.
Disturbed(asks) ==
  [u \in Users |-> IF asks[u].kind \in {"stats", "progress"} THEN [kind |-> "torn"] ELSE asks[u]]
-----------------------------------------------------------------------------
(* Writes.                                                                 *)

\* Mutant of Siblings: the copies in other courses are forgotten.
SiblingsNone(i) == {i}

\* ListSiblingCourseItemIDs: every course item of the same verse.
Siblings(i) == {j \in DOMAIN items : items[j].verse = items[i].verse}

\* UpsertProgress of one grade for a set of course items.
UpsertProgress(rows, ids, grade) ==
  [j \in DOMAIN rows \cup ids |-> IF j \in ids THEN grade ELSE rows[j]]

\* submitLocked: the lock, then the verse and the text that the item has now.
StartAttempt(u, i, x) ==
  /\ Request
  /\ underway[u] = Idle
  /\ i \in DOMAIN items
  /\ LET verse == items[i].verse
     IN  underway' = [underway EXCEPT ![u] =
           [kind |-> "graded", item |-> i, verse |-> verse, recital |-> x,
            grade |-> GradeRecall(Normalize(Text[verse]), x.tokens)]]
  /\ UNCHANGED <<catalogVars, attempts, progress, favorites, request>>

\* InsertAttempt and ListSiblingCourseItemIDs: the copies of the verse that the
\* item has by now.  Practice is not progress.  "copied" is that verse.
ListSiblings(u) ==
  /\ underway[u].kind = "graded"
  /\ LET try == underway[u]
         practice == IsPracticeMode(try.recital.mode)
     IN  underway' = [underway EXCEPT ![u] =
           [kind   |-> "spread",
            row    |-> [id |-> Len(attempts[u]) + 1, item |-> try.item, verse |-> try.verse,
                        recital |-> try.recital, grade |-> try.grade,
                        copied |-> IF practice THEN None ELSE items[try.item].verse],
            copies |-> IF practice THEN {} ELSE Siblings(try.item)]]
  /\ UNCHANGED <<catalogVars, attempts, progress, favorites, request, ops>>

\* UpsertProgress for each copy, and the commit.
CommitAttempt(u) ==
  /\ underway[u].kind = "spread"
  /\ LET row == underway[u].row
     IN  /\ \E k \in 1..Len(attempts[u]) + 1 :
              attempts' = [attempts EXCEPT ![u] = InsertAt(@, k, row)]
         /\ progress' = [progress EXCEPT ![u] = UpsertProgress(@, underway[u].copies, row.grade)]
  /\ underway' = [underway EXCEPT ![u] = Idle]
  /\ request' = Disturbed(request)
  /\ UNCHANGED <<catalogVars, favorites, ops>>

\* A statement fails, or the connection is lost: the transaction is undone.
FailAttempt(u) ==
  /\ underway[u] # Idle
  /\ underway' = [underway EXCEPT ![u] = Idle]
  /\ UNCHANGED <<catalogVars, attempts, progress, favorites, request, ops>>

\* INSERT ... ON CONFLICT DO NOTHING; an item that does not exist is refused.
AddFavorite(u, i) ==
  /\ Request
  /\ i \in DOMAIN items
  /\ favorites' = [favorites EXCEPT ![u] = @ \cup {i}]
  /\ UNCHANGED <<catalogVars, attempts, progress, underway, request>>

RemoveFavorite(u, i) ==
  /\ Request
  /\ i \in favorites[u]
  /\ favorites' = [favorites EXCEPT ![u] = @ \ {i}]
  /\ UNCHANGED <<catalogVars, attempts, progress, underway, request>>

\* A statement of the seeding meets the rows of learners.
Seed ==
  /\ \/ SeedStatement /\ request' = Disturbed(request)
     \/ (PassChapter \/ CrashSeed \/ \E r \in Releases : StartSeed(r)) /\ UNCHANGED request
  /\ UNCHANGED <<attempts, progress, favorites, underway, ops>>

\* load_kjv: the cascade empties every table that references course_items.
\* TRUNCATE locks them against all others: it waits for an attempt that has
\* read course_items, and an attempt that comes later waits for it.
Reload ==
  /\ TruncateItems
  /\ \A u \in Users : underway[u] = Idle
  /\ attempts' = [u \in Users |-> <<>>]
  /\ progress' = [u \in Users |-> <<>>]
  /\ favorites' = [u \in Users |-> {}]
  /\ request' = Disturbed(request)
  /\ UNCHANGED <<underway, ops>>
-----------------------------------------------------------------------------
(* Resume: two statements.                                                 *)

\* COALESCE(p.cleared, false)
Cleared(u, i) == i \in DOMAIN progress[u] /\ progress[u][i] = "green"

\* Mutant of Uncleared: without COALESCE an item never tried is not offered.
UnclearedTried(u, slug) ==
  {i \in DOMAIN items : items[i].course = slug /\ i \in DOMAIN progress[u] /\ ~ Cleared(u, i)}

Uncleared(u, slug) == {i \in DOMAIN items : items[i].course = slug /\ ~ Cleared(u, i)}

\* The attempts that GetLastAttempt ranks: those in courses not hidden.
Ranked(u) == {k \in DOMAIN attempts[u] : items[attempts[u][k].item].course \in Visible}

Answer(i) == [kind |-> "target", item |-> i]

\* GetLastAttempt: an item not cleared is the answer.
GetLastAttempt(u) ==
  /\ request[u] = Idle
  /\ Request
  /\ request' = [request EXCEPT ![u] =
       IF Ranked(u) = {} THEN Answer(None)
       ELSE LET last == attempts[u][Max(Ranked(u))].item
            IN  IF Cleared(u, last)
                THEN [kind |-> "resume", item |-> last,
                      course |-> items[last].course, ord |-> items[last].ord]
                ELSE Answer(last)]
  /\ UNCHANGED <<catalogVars, attempts, progress, favorites, underway>>

\* ORDER BY (ci.ord < $3), ci.ord LIMIT 1: ties in any order.
FirstFrom(open, ord) ==
  LET after == {i \in open : items[i].ord >= ord}
      pool  == IF after = {} THEN open ELSE after
  IN  {i \in pool : \A j \in pool : items[i].ord <= items[j].ord}

\* GetNextUnclearedItem; the course is complete without one.
GetNextUnclearedItem(u) ==
  /\ request[u].kind = "resume"
  /\ LET open == Uncleared(u, request[u].course)
     IN  \E i \in IF open = {} THEN {request[u].item} ELSE FirstFrom(open, request[u].ord) :
           request' = [request EXCEPT ![u] = Answer(i)]
  /\ UNCHANGED <<catalogVars, attempts, progress, favorites, underway, ops>>
-----------------------------------------------------------------------------
(* The dashboard and the progress page: a statement for each figure.       *)
ClearedItems(u) == {i \in DOMAIN progress[u] : Cleared(u, i)}

\* Mutant of TotalCleared: every copy of a verse counts.
TotalClearedRows(u) == Cardinality(ClearedItems(u))

\* COUNT(DISTINCT ci.verse_id)
TotalCleared(u) == Cardinality({items[i].verse : i \in ClearedItems(u)})

\* Cleared and all items of a group of course items.
Count(u, group) ==
  [cleared |-> Cardinality(group \cap ClearedItems(u)), total |-> Cardinality(group)]

ItemsOfCourse(s) == {i \in DOMAIN items : items[i].course = s}

CourseProgress(u) == [s \in {items[i].course : i \in DOMAIN items} |-> Count(u, ItemsOfCourse(s))]

CategoryProgress(u) ==
  [c \in {courses[items[i].course].category : i \in DOMAIN items} |->
     Count(u, {i \in DOMAIN items : courses[items[i].course].category = c})]

GradeDistribution(u) ==
  [g \in {"green", "yellow", "red"} |->
     Cardinality({i \in DOMAIN progress[u] : progress[u][i] = g})]

VersesOfBook(b, ids) == {v \in {items[i].verse : i \in ids} : Place[v].book = b}

BookProgress(u) ==
  [b \in {Place[items[i].verse].book : i \in DOMAIN items} |->
     [cleared |-> Cardinality(VersesOfBook(b, ClearedItems(u))),
      total   |-> Cardinality(VersesOfBook(b, DOMAIN items))]]

\* GetStats reads the total, the categories, the grades and the books.
StartStats(u) ==
  /\ request[u] = Idle
  /\ Request
  /\ request' = [request EXCEPT ![u] = [kind |-> "stats", figures |-> <<TotalCleared(u)>>]]
  /\ UNCHANGED <<catalogVars, attempts, progress, favorites, underway>>

NextFigure(u) ==
  /\ request[u].kind = "stats"
  /\ LET got  == request[u].figures
         next == IF Len(got) = 1 THEN CategoryProgress(u)
                 ELSE IF Len(got) = 2 THEN GradeDistribution(u) ELSE BookProgress(u)
     IN  request' = [request EXCEPT ![u] =
           IF Len(got) < 3 THEN [@ EXCEPT !.figures = Append(got, next)]
           ELSE [kind |-> "dashboard", total |-> got[1], categories |-> got[2],
                 grades |-> got[3], books |-> next]]
  /\ UNCHANGED <<catalogVars, attempts, progress, favorites, underway, ops>>

\* GetProgress reads the courses, then the rows.
StartProgress(u) ==
  /\ request[u] = Idle
  /\ Request
  /\ request' = [request EXCEPT ![u] = [kind |-> "progress", courses |-> CourseProgress(u)]]
  /\ UNCHANGED <<catalogVars, attempts, progress, favorites, underway>>

ListUserProgress(u) ==
  /\ request[u].kind = "progress"
  /\ request' = [request EXCEPT ![u] =
       [kind |-> "page", courses |-> @.courses, rows |-> progress[u]]]
  /\ UNCHANGED <<catalogVars, attempts, progress, favorites, underway, ops>>

\* The learner has the answer.
Deliver(u) ==
  /\ request[u].kind \in {"target", "dashboard", "page", "torn"}
  /\ request' = [request EXCEPT ![u] = Idle]
  /\ UNCHANGED <<catalogVars, attempts, progress, favorites, underway, ops>>

Next ==
  \/ Seed \/ Reload
  \/ \E u \in Users :
       \/ \E i \in DOMAIN items :
            \/ \E x \in Recitals : StartAttempt(u, i, x)
            \/ AddFavorite(u, i) \/ RemoveFavorite(u, i)
       \/ ListSiblings(u) \/ CommitAttempt(u) \/ FailAttempt(u)
       \/ GetLastAttempt(u) \/ GetNextUnclearedItem(u)
       \/ StartStats(u) \/ NextFigure(u)
       \/ StartProgress(u) \/ ListUserProgress(u)
       \/ Deliver(u)

Spec == Init /\ [][Next]_vars
-----------------------------------------------------------------------------
(* The type invariant, with the references between the tables: what a      *)
(* learner's row refers to is in course_items, and what an item refers to  *)
(* is in courses and course_sections.                                      *)
ItemRecord ==
  [course : DOMAIN courses, section : Nat \cup {None}, ord : Nat,
   verse : Verses, topic : STRING, topicEn : STRING \cup {None}]

AttemptRecord ==
  [id : Nat \ {0}, item : DOMAIN items, verse : Verses, recital : Recitals,
   grade : {"green", "yellow", "red", "none"}, copied : Verses \cup {None}]

TypeOK ==
  /\ \A s \in DOMAIN courses : courses[s].hidden \in BOOLEAN
  /\ \A k \in DOMAIN sections : k[1] \in DOMAIN courses
  /\ DOMAIN items \subseteq 1..nextItem - 1
  /\ \A i \in DOMAIN items :
       /\ items[i] \in ItemRecord
       /\ items[i].section # None => <<items[i].course, items[i].section>> \in DOMAIN sections
  /\ moved \subseteq DOMAIN items
  /\ \A u \in Users :
       /\ \A k \in DOMAIN attempts[u] : attempts[u][k] \in AttemptRecord
       /\ DOMAIN progress[u] \subseteq DOMAIN items
       /\ favorites[u] \subseteq DOMAIN items
       /\ underway[u].kind = "graded" => underway[u].item \in DOMAIN items
       /\ underway[u].kind = "spread" =>
            underway[u].row \in AttemptRecord /\ underway[u].copies \subseteq DOMAIN items

\* What a release is to seed, said without its statements: the verses of the
\* courses, the slots of the warm-up and of the prophecies, the books.
CourseItems(rel) ==
  UNION {{ItemRow(rel.courses[c].slug, None, k, rel.courses[c].verses[k], rel.topics, rel.english) :
            k \in DOMAIN rel.courses[c].verses} : c \in DOMAIN rel.courses}

SlotItems(rel, slug, secs) ==
  UNION {{ItemRow(slug, s, k, secs[s][k], rel.topics, rel.english) : k \in DOMAIN secs[s]} :
            s \in DOMAIN secs}

BookItems(rel) ==
  UNION {{ItemRow(b.slug, Place[v].chapter, Place[v].verse, v, v, None) :
            v \in {w \in Verses : Place[w].book = b.num}} : b \in Range(rel.books)}

ListedItems(rel) ==
  CourseItems(rel) \cup SlotItems(rel, "warmup", rel.warmup)
  \cup SlotItems(rel, MessiahSlug, rel.messiah) \cup BookItems(rel)

\* Running the seeding script again is safe (the header of seed_courses): a
\* run that reaches its end leaves each listed item once, exactly as on an
\* empty database, whatever crashed runs and reloads came before.  After a
\* run of an older release the old rows remain, but every verse listed for a
\* course, a book or the warm-up is where the list has it.  Excepted are the
\* books whose list of chapters broke off in that run: nothing is amiss in
\* them either, but a run that read the list to its end must bring the rest.
SeedConverges ==
  Finished =>
    LET rows   == {items[i] : i \in DOMAIN items}
        listed == ListedItems(Release)
        due    == {row \in listed : row.course \notin script.cut}
    IN  /\ Cardinality(DOMAIN items) = Cardinality(rows)
        /\ seeded = {script.release} => due \subseteq rows /\ rows \subseteq listed
        /\ \A row \in due : row.course # MessiahSlug =>
             \E old \in rows : /\ old.course = row.course /\ old.verse = row.verse
                               /\ old.section = row.section
                               /\ old.section # None => old.ord = row.ord

\* The grade that each recital of each verse deserves.
Deserved == [v \in Verses |-> [x \in Recitals |-> ShareGrade(Normalize(Text[v]), x.tokens)]]

\* The attempts of a learner whose grade went to the copies of a verse.
Tries(u, v) == {a \in Range(attempts[u]) : a.copied = v}

\* A progress row is the grade of the last attempt that was copied to the verse
\* its item stands for now.  Excepted are items that an edited warm-up list
\* gave another verse: they keep the progress of the old one.
ProgressFollowsLast ==
  \A u \in Users : \A i \in DOMAIN progress[u] \ moved :
    \E last \in Tries(u, items[i].verse) :
      /\ \A a \in Tries(u, items[i].verse) : a.id <= last.id
      /\ progress[u][i] = last.grade

\* A progress row tells how the learner did on the verse it stands for the
\* last time it was recited in any course: the fan-out to copies
\* (attempt_service.go, step 4) and the seeding that adds and moves copies
\* meanwhile never leave a row behind, or one that nobody earned; and every
\* attempt has the grade that ShareGrade defines.  The exception that the code
\* leaves: an attempt on an item that is itself given another verse may be
\* copied to the verse it was not made on.
ProgressFollowsVerse ==
  /\ ProgressFollowsLast
  /\ \A u \in Users : \A a \in Range(attempts[u]) :
       /\ a.grade = Deserved[a.verse][a.recital]
       /\ IF IsPracticeMode(a.recital.mode) THEN a.copied = None
          ELSE a.copied = a.verse \/ a.item \in moved

\* A commentary text that only changes its language column.
CommentaryMoved ==
  \E s \in DOMAIN courses :
    /\ courses'[s].commentary # courses[s].commentary
    /\ ConcatWs(<<courses'[s].commentary, courses'[s].commentaryEn>>)
         = ConcatWs(<<courses[s].commentary, courses[s].commentaryEn>>)

\* No change of what the app downloads goes unnoticed by the digest it
\* compares at its start (the comment of GetCoursesContentDigest).  Excepted
\* is a commentary that moves between its two columns: concat_ws leaves the
\* NULL out, and the digest stays the same.
DigestCoversContent ==
  [][<<courses, sections, items>>' # <<courses, sections, items>> =>
       Content' = Content \/ ContentDigest' # ContentDigest \/ CommentaryMoved]_vars

\* Resume offers an item not cleared as long as the last course has one when
\* the answer is made, and the last item itself only when there is none
\* (pg_attempt.go, lines 188-190 and 221).
ResumeSound ==
  [][\A u \in Users :
       request[u].kind = "resume" /\ request'[u].kind = "target" =>
         LET i == request'[u].item
             course == ItemsOfCourse(request[u].course)
         IN  IF \A j \in course : Cleared(u, j) THEN i = request[u].item
             ELSE i \in course /\ ~ Cleared(u, i)]_request

\* The figures of one answer agree unless something was written between its
\* statements: the verses of the books add up to the total, which counts a
\* verse once however many courses have it; the categories, and on the other
\* page the courses, add up to the green rows.
FiguresAgree ==
  \A u \in Users :
    LET a == request[u]
        Sum(f) == SumFunction([x \in DOMAIN f |-> f[x].cleared])
    IN  /\ a.kind = "dashboard" =>
             /\ Sum(a.books) = a.total
             /\ Sum(a.categories) = a.grades["green"]
             /\ a.total <= a.grades["green"]
        /\ a.kind = "page" =>
             Sum(a.courses) = Cardinality({i \in DOMAIN a.rows : a.rows[i] = "green"})

\* The place of an item in its course: its section, then its ord.
Reading(i) == <<IF items[i].section = None THEN 0 ELSE items[i].section, items[i].ord>>
ReadBefore(i, j) ==
  LET a == Reading(i) b == Reading(j) IN a[1] < b[1] \/ (a[1] = b[1] /\ a[2] < b[2])

\* "Only when it is completed, go on to the next verse of the same course that
\* is not" (pg_attempt.go, lines 188-190): the first such verse after the last
\* one in the order of the course, or from its beginning if there is none.
\* In a course with sections the query compares ord alone, which starts again
\* in every section.
ResumeGoesOn ==
  [][\A u \in Users :
       request[u].kind = "resume" /\ request'[u].kind = "target" =>
         LET last  == request[u].item
             open  == Uncleared(u, request[u].course)
             after == {i \in open : ReadBefore(last, i)}
             pool  == IF after = {} THEN open ELSE after
         IN  pool # {} => \A i \in pool : ~ ReadBefore(i, request'[u].item)]_request
=============================================================================
