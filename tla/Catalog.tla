------------------------------- MODULE Catalog -------------------------------
(***************************************************************************)
(* The catalogue of courses: the scripts that fill it while the server     *)
(* runs (scripts/seed_courses, scripts/load_kjv) and the queries that      *)
(* serve it (course_service.go, pg_course.go).                             *)
(*                                                                         *)
(* seed_courses has no transaction: every statement commits by itself.  A  *)
(* failure ends the script where it is (log.Fatal), except one: an error   *)
(* while the chapters of a book are listed ends the list, not the script.  *)
(* The operator runs it again, perhaps in a later release with other       *)
(* lists.  Texts are kept as values: a release has one edition of its      *)
(* titles, of its topics and of its English translations.                  *)
(***************************************************************************)
EXTENDS Grading

CONSTANTS
  Verses,      \* bible_verses.id; load_kjv gives the same ids each time
  Place,       \* book, chapter and number of a verse
  Text,        \* bible_verses.text, as a sequence of pieces
  Lists,       \* the releases of seed_courses, in order: what each is to seed
  None,        \* NULL
  MaxRuns      \* bound: how often the operator runs one of the scripts

Releases == DOMAIN Lists

\* The Go types of the lists, with the editions of the release's texts.
CourseList == [slug : STRING, category : STRING, hidden : BOOLEAN, verses : Seq(Verses)]
BookList == [slug : STRING, category : STRING, num : Nat]

ASSUME CatalogAssumption ==
  /\ Verses \subseteq STRING /\ IsFiniteSet(Verses)
  /\ DOMAIN Place = Verses
  /\ \A v \in Verses : Place[v] \in [book : Nat, chapter : Nat, verse : Nat]
  /\ DOMAIN Text = Verses
  /\ \A v \in Verses : Text[v] \in Seq(STRING)
  /\ 1 \in Releases
  /\ \A r \in Releases :
       /\ Lists[r].titles \in STRING /\ Lists[r].topics \in STRING
       /\ Lists[r].english \in STRING \cup {None}
       /\ Lists[r].courses \in Seq(CourseList)
       /\ \A k \in DOMAIN Lists[r].courses : IsInjective(Lists[r].courses[k].verses)
       /\ Lists[r].warmup \in Seq(Seq(Verses))
       /\ Lists[r].books \in Seq(BookList)
       /\ Lists[r].messiah \in Seq(Seq(Verses))
       /\ IsFiniteSet(DOMAIN Lists[r].commentary)
  /\ MaxRuns \in Nat

\* NULL is no value: no number and no string, these literals among them.
ASSUME NullAssumption ==
  None \notin Nat \cup STRING \cup {"c", "s", "i", "warmup", "messiah", "messiah-prophecy"}

\* The keys: UNIQUE (book, chapter, verse) of bible_verses, one course for each
\* slug in a release, and one book; the slug of a book has its number in it.
ASSUME KeysAssumption ==
  /\ \A v, w \in Verses : Place[v] = Place[w] => v = w
  /\ \A r \in Releases : \A c, d \in DOMAIN Lists[r].courses :
       Lists[r].courses[c].slug = Lists[r].courses[d].slug => c = d
  /\ \A r \in Releases : \A b, d \in DOMAIN Lists[r].books :
       Lists[r].books[b].slug = Lists[r].books[d].slug => b = d
  /\ \A r \in Releases : \A b \in Range(Lists[r].books) :
       /\ b.slug \notin {"warmup", "messiah-prophecy"}
       /\ \A s \in Releases : \A d \in Range(Lists[s].books) :
            b.slug = d.slug => b.num = d.num

VARIABLES
  courses,   \* table courses, by slug
  sections,  \* table course_sections, by course and ord
  items,     \* table course_items, by id
  nextItem,  \* the sequence of course_items.id
  script,    \* seed_courses: the release, the next statement, the commentary
             \* done, the books whose list of chapters broke off
  runs,      \* how often the operator has run one of the scripts
  seeded,    \* history: the releases that were ever started
  moved      \* history: items whose verse an edited warm-up list changed

catalogVars ==
  <<courses, sections, items, nextItem, script, runs, seeded, moved>>

\* A row is a record: the row with key k of table t is v.
With(t, k, v) == [x \in DOMAIN t \cup {k} |-> IF x = k THEN v ELSE t[x]]
-----------------------------------------------------------------------------
(* The statements of a run, in order.  hidden = None: the INSERT does not  *)
(* name the column.  A verse is looked up and inserted in one step: the    *)
(* scripts do not run together, so the lookup cannot change in between.    *)
MessiahSlug == "messiah-prophecy"

InsertCourse(co) ==
  <<[op |-> "course", slug |-> co.slug, category |-> co.category, hidden |-> co.hidden]>>
  \o [k \in DOMAIN co.verses |->
        [op |-> "item", slug |-> co.slug, ord |-> k, verse |-> co.verses[k]]]

InsertSections(slug, op, secs) ==
  FlattenSeq([s \in DOMAIN secs |->
    <<[op |-> "section", slug |-> slug, ord |-> s]>>
    \o [k \in DOMAIN secs[s] |->
          [op |-> op, slug |-> slug, section |-> s, ord |-> k, verse |-> secs[s][k]]]])

InsertCourseWithSections(secs) ==
  <<[op |-> "course", slug |-> "warmup", category |-> "warmup", hidden |-> None]>>
  \o InsertSections("warmup", "warmup item", secs)

VersesIn(num, ch) == {v \in Verses : Place[v].book = num /\ Place[v].chapter = ch}

\* SELECT DISTINCT chapter ... ORDER BY chapter
ChaptersOf(num) ==
  LET found == {Place[v].chapter : v \in {w \in Verses : Place[w].book = num}}
  IN  [k \in 1..Cardinality(found) |->
         CHOOSE ch \in found : Cardinality({c \in found : c <= ch}) = k]

SeedBook(b) ==
  LET chapters == ChaptersOf(b.num)
  IN  <<[op |-> "course", slug |-> b.slug, category |-> b.category, hidden |-> None]>>
      \o FlattenSeq([k \in DOMAIN chapters |->
           <<[op |-> "section", slug |-> b.slug, ord |-> chapters[k]],
             [op |-> "chapter", slug |-> b.slug, num |-> b.num, section |-> chapters[k]]>>])

SeedMessiahProphecy(secs) ==
  <<[op |-> "course", slug |-> MessiahSlug, category |-> "messiah", hidden |-> None]>>
  \o InsertSections(MessiahSlug, "messiah item", secs)

\* One UPDATE for each course with a commentary, in the order of a Go map.
SeedCommentary(commentary) ==
  [k \in 1..Cardinality(DOMAIN commentary) |-> [op |-> "commentary"]]

Program(rel) ==
  FlattenSeq([k \in DOMAIN rel.courses |-> InsertCourse(rel.courses[k])])
  \o InsertCourseWithSections(rel.warmup)
  \o FlattenSeq([k \in DOMAIN rel.books |-> SeedBook(rel.books[k])])
  \o SeedMessiahProphecy(rel.messiah)
  \o SeedCommentary(rel.commentary)

Programs == [r \in Releases |-> Program(Lists[r])]
-----------------------------------------------------------------------------
Release == Lists[script.release]
Statement == Programs[script.release][script.at]
Running == script.at \in DOMAIN Programs[script.release]
Finished == script.at = Len(Programs[script.release]) + 1

\* The next statement of a running script is of the kind op.
Executes(op) == Running /\ Statement.op = op
Advance == script' = [script EXCEPT !.at = @ + 1]

\* The rows of course_items that an INSERT conflicts with: by verse in a
\* course without sections, by ord within a section (the partial indexes of
\* migration 6).
SameVerse(slug, v) ==
  {i \in DOMAIN items : /\ items[i].course = slug /\ items[i].section = None
                        /\ items[i].verse = v}
SameSlot(slug, section, ord) ==
  {i \in DOMAIN items : /\ items[i].course = slug /\ items[i].section = section
                        /\ items[i].ord = ord}

\* INSERT ... ON CONFLICT: a new row, or every conflicting row updated.  The
\* sequence moves on either way.
InsertOrUpdate(hit, row, Updated(_)) ==
  /\ items' = IF hit = {} THEN With(items, nextItem, row)
              ELSE [i \in DOMAIN items |-> IF i \in hit THEN Updated(items[i]) ELSE items[i]]
  /\ nextItem' = nextItem + 1

ItemRow(slug, section, ord, v, topic, topicEn) ==
  [course |-> slug, section |-> section, ord |-> ord, verse |-> v,
   topic |-> topic, topicEn |-> topicEn]

CatalogInit ==
  /\ courses = <<>>
  /\ sections = <<>>
  /\ items = <<>>
  /\ nextItem = 1
  /\ script = [release |-> 1, at |-> 0, told |-> {}, cut |-> {}]
  /\ runs = 0
  /\ seeded = {}
  /\ moved = {}

\* The operator starts the script of this release or of a later one.
StartSeed(r) ==
  /\ ~ Running
  /\ runs < MaxRuns
  /\ r >= script.release
  /\ script' = [release |-> r, at |-> 1, told |-> {}, cut |-> {}]
  /\ runs' = runs + 1
  /\ seeded' = seeded \cup {r}
  /\ UNCHANGED <<courses, sections, items, nextItem, moved>>

\* log.Fatal, a lost connection or the operator ends the script.
CrashSeed ==
  /\ Running
  /\ script' = [script EXCEPT !.at = 0]
  /\ UNCHANGED <<courses, sections, items, nextItem, runs, seeded, moved>>

\* Mutant of HiddenAfter: EXCLUDED.hidden is written by every upsert.
HiddenAlways(old, named) == named

\* Only insertCourse names the column; the others leave it, or its default.
HiddenAfter(old, named) == IF named = None THEN old ELSE named

\* The upsert of a course: title, title_en and category are written in any
\* case, hidden only by the statement that names it, the commentary never.
UpsertCourse ==
  /\ Executes("course")
  /\ LET slug == Statement.slug
         old  == IF slug \in DOMAIN courses THEN courses[slug]
                 ELSE [title |-> None, titleEn |-> None, category |-> "topic",
                       hidden |-> FALSE, commentary |-> None, commentaryEn |-> None]
     IN  courses' = With(courses, slug,
           [old EXCEPT !.title = Release.titles, !.titleEn = Release.english,
                       !.category = Statement.category,
                       !.hidden = HiddenAfter(@, Statement.hidden)])
  /\ Advance
  /\ UNCHANGED <<sections, items, nextItem, runs, seeded, moved>>

UpsertSection ==
  /\ Executes("section")
  /\ Statement.slug \notin script.cut
  /\ sections' = With(sections, <<Statement.slug, Statement.ord>>,
                      [title |-> Release.titles, titleEn |-> Release.english])
  /\ Advance
  /\ UNCHANGED <<courses, items, nextItem, runs, seeded, moved>>

\* A verse of a course without sections; an existing row keeps its ord and topic.
InsertItem ==
  /\ Executes("item")
  /\ LET st == Statement
     IN  InsertOrUpdate(SameVerse(st.slug, st.verse),
           ItemRow(st.slug, None, st.ord, st.verse, Release.topics, Release.english),
           LAMBDA row : [row EXCEPT !.topicEn = Release.english])
  /\ Advance
  /\ UNCHANGED <<courses, sections, runs, seeded, moved>>

\* Mutant of WarmupUpdate: an edited list leaves the verse that was there.
WarmupUpdateTexts(row, verse) ==
  [row EXCEPT !.topic = Release.topics, !.topicEn = Release.english]

\* DO UPDATE SET verse_id = ..., topic = ..., topic_en = ...
WarmupUpdate(row, verse) ==
  [row EXCEPT !.verse = verse, !.topic = Release.topics, !.topicEn = Release.english]

\* A slot of a warm-up section; an existing row gets the listed verse, and the
\* progress that learners made on the slot stays with it.
InsertWarmupItem ==
  /\ Executes("warmup item")
  /\ LET st == Statement
         hit == SameSlot(st.slug, st.section, st.ord)
     IN  /\ InsertOrUpdate(hit,
              ItemRow(st.slug, st.section, st.ord, st.verse, Release.topics, Release.english),
              LAMBDA row : WarmupUpdate(row, st.verse))
         /\ moved' = moved \cup {i \in hit : items[i].verse # st.verse}
  /\ Advance
  /\ UNCHANGED <<courses, sections, runs, seeded>>

\* DO UPDATE SET topic_en = EXCLUDED.topic_en: the listed verse is not written.
InsertMessiahItem ==
  /\ Executes("messiah item")
  /\ LET st == Statement
     IN  InsertOrUpdate(SameSlot(st.slug, st.section, st.ord),
           ItemRow(st.slug, st.section, st.ord, st.verse, Release.topics, Release.english),
           LAMBDA row : [row EXCEPT !.topicEn = Release.english])
  /\ Advance
  /\ UNCHANGED <<courses, sections, runs, seeded, moved>>

\* INSERT ... SELECT of a chapter, in the order of the table; a slot that is
\* taken is left alone (DO NOTHING), its id is skipped all the same.
InsertChapter ==
  /\ Executes("chapter")
  /\ Statement.slug \notin script.cut
  /\ LET st == Statement
         chapter == VersesIn(st.num, st.section)
         IdOf(v) == nextItem + Cardinality({w \in chapter : Place[w].verse < Place[v].verse})
         new == {v \in chapter : SameSlot(st.slug, st.section, Place[v].verse) = {}}
         VerseAt(i) == CHOOSE v \in new : IdOf(v) = i
     IN  /\ items' = [i \in DOMAIN items \cup {IdOf(v) : v \in new} |->
                        IF i \in DOMAIN items THEN items[i]
                        ELSE ItemRow(st.slug, st.section, Place[VerseAt(i)].verse,
                                     VerseAt(i), VerseAt(i), None)]
         /\ nextItem' = nextItem + Cardinality(chapter)
  /\ Advance
  /\ UNCHANGED <<courses, sections, runs, seeded, moved>>

\* chapterRows.Err() is not read after the loop over the chapters: an error, or
\* a lost connection, while the rows come in ends the list before some chapter.
\* The script has nothing of that chapter and of the later ones, and goes on.
PassChapter ==
  /\ \/ /\ Executes("section")
        /\ \E b \in Range(Release.books) : b.slug = Statement.slug
     \/ /\ Executes("chapter")
        /\ Statement.slug \in script.cut
  /\ script' = [script EXCEPT !.at = @ + 1, !.cut = @ \cup {Statement.slug}]
  /\ UNCHANGED <<courses, sections, items, nextItem, runs, seeded, moved>>

\* A course that is not there yet is only warned about.
UpdateCommentary(slug) ==
  /\ Executes("commentary")
  /\ slug \in DOMAIN Release.commentary \ script.told
  /\ courses' = IF slug \in DOMAIN courses
                THEN [courses EXCEPT ![slug].commentary = Release.commentary[slug].ko,
                                     ![slug].commentaryEn = Release.commentary[slug].en]
                ELSE courses
  /\ script' = [script EXCEPT !.at = @ + 1, !.told = @ \cup {slug}]
  /\ UNCHANGED <<sections, items, nextItem, runs, seeded, moved>>

SeedStatement ==
  \/ UpsertCourse \/ UpsertSection
  \/ InsertItem \/ InsertWarmupItem \/ InsertMessiahItem \/ InsertChapter
  \/ \E slug \in DOMAIN Release.commentary : UpdateCommentary(slug)

\* load_kjv: TRUNCATE bible_verses RESTART IDENTITY CASCADE and COPY in one
\* transaction.  The cascade empties course_items, not courses or sections.
TruncateItems ==
  /\ ~ Running
  /\ runs < MaxRuns
  /\ items' = <<>>
  /\ nextItem' = 1
  /\ moved' = {}
  /\ script' = [script EXCEPT !.at = 0]
  /\ runs' = runs + 1
  /\ UNCHANGED <<courses, sections, seeded>>
-----------------------------------------------------------------------------
(* What the server reads.                                                  *)
Visible == {s \in DOMAIN courses : ~ courses[s].hidden}

\* The texts of a response; hidden is not in it.
CourseResponse(s) ==
  [slug |-> s, title |-> courses[s].title, titleEn |-> courses[s].titleEn,
   category |-> courses[s].category]

ListCourses == {CourseResponse(s) : s \in Visible}

ItemResponse(i) == [id |-> i, row |-> items[i], text |-> Text[items[i].verse]]

ListSectionsByCourse(s) == {k \in DOMAIN sections : k[1] = s}

ListItemsBySection(k) ==
  {ItemResponse(i) : i \in {j \in DOMAIN items : items[j].course = k[1] /\ items[j].section = k[2]}}

ListCourseItemsWithVerse(s) ==
  {ItemResponse(i) : i \in {j \in DOMAIN items : items[j].course = s}}

\* GetSection answers for the sections of a hidden course too.
SectionDetail(k) == [key |-> k, title |-> sections[k].title, titleEn |-> sections[k].titleEn,
                     items |-> ListItemsBySection(k)]

\* A course with sections is served by section, else by item.
CourseDetail(s) ==
  [course       |-> CourseResponse(s),
   commentary   |-> courses[s].commentary,
   commentaryEn |-> courses[s].commentaryEn,
   sections     |-> {SectionDetail(k) : k \in ListSectionsByCourse(s)},
   items        |-> IF ListSectionsByCourse(s) = {} THEN ListCourseItemsWithVerse(s) ELSE {}]

\* All that an installed app downloads.
Content ==
  [list     |-> ListCourses,
   details  |-> {CourseDetail(s) : s \in Visible},
   sections |-> {SectionDetail(k) : k \in DOMAIN sections}]

\* concat_ws leaves NULLs out.
ConcatWs(fields) ==
  FlattenSeq([k \in DOMAIN fields |-> IF fields[k] = None THEN <<>> ELSE <<fields[k]>>])

\* Mutant of ItemDigest: ids and places only, without the texts.
ItemDigestPlaces(i) ==
  ConcatWs(<<"i", i, items[i].course, items[i].section, items[i].ord>>)

ItemDigest(i) ==
  ConcatWs(<<"i", i, items[i].course, items[i].section, items[i].ord,
             items[i].topic, items[i].topicEn, items[i].verse>>)

\* theme and ord, which no upsert changes, are left out.
CourseDigest(s) ==
  ConcatWs(<<"c", s, courses[s].title, courses[s].titleEn, courses[s].category,
             courses[s].commentary, courses[s].commentaryEn>>)

SectionDigest(k) == ConcatWs(<<"s", k[1], k[2], sections[k].title, sections[k].titleEn>>)

\* GetCoursesContentDigest: md5 of the rows' digests, taken to be injective.
ContentDigest ==
  {CourseDigest(s) : s \in Visible} \cup {SectionDigest(k) : k \in DOMAIN sections}
    \cup {ItemDigest(i) : i \in DOMAIN items}
=============================================================================
