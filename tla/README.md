# Verse: a TLA+ specification of the server's learning core

Verse is a Bible-memorizing app. A player submits attempts at verses; the
server grades them again, keeps progress, a daily streak and a stock of lives,
and takes attempts that were made offline in batches. This directory specifies
the part of it in which requests, clocks and failures meet: `verse-backend`, a
Go service over PostgreSQL. All paths below are relative to `src/`.

Contents: [1 the system](#1-the-system), [2 modules](#2-modules),
[3 runs](#3-runs), [4 fairness](#4-fairness), [5 findings](#5-findings),
[6 proofs](#6-proofs), [7 what is only model-checked](#7-only-model-checked),
[8 what is not modelled](#8-not-modelled), [9 plan](#9-plan).

## 1 The system

The service keeps no state in memory between requests. Every request is a
goroutine that talks to Postgres through one connection pool
(`internal/repository/postgres.go`, 25 connections); everything that can go
wrong between requests therefore goes wrong in rows.

| component | state | operations | interacts with |
|---|---|---|---|
| **Lives** `service/lives_service.go`, `handler/lives_handler.go` | `users.lives`, `users.lives_updated_at` | settle on read; consume one; answer with a countdown | attempts (a failed one costs a life), the server clock |
| **Streak** `service/streak_service.go` | `streaks(current_len, longest_len, last_day)` | `UpdateStreak` on every accepted attempt | attempts; the date a device sends |
| **Attempts** `service/attempt_service.go`, `repository/pg_attempt.go` | `attempts`, `progress` | submit (one transaction), read progress and statistics | lives, streak, courses (siblings of a verse), grading |
| **Batch upload** `AttemptService.SubmitAttemptsBatch` | none of its own; the queue is on the device | submit up to 200 queued attempts, one transaction each | attempts; the mobile client |
| **Account deletion** `AuthService.DeleteAccount` | the `users` row and all rows that reference it | one cascading `DELETE` | everything that holds the row's lock |
| **Authentication codes** `service/auth_service.go:60-248` | `auth_codes`, `users.email`, `users.password_hash` | request, confirm, count failed tries | mailer, clock of the server and of the database |
| **Accounts** `service/auth_service.go:256-446`, `apple_auth.go` | `users` | sign-up, login, Google and Apple first login, display name, preferences | identity providers |
| **Resume, progress, statistics** `pg_attempt.go`, `db/queries/resume.sql`, `stats.sql` | reads only, several statements to an answer | which verse to go on with; the dashboard; the progress page | `attempts.created_at`, the start of a transaction; the catalogue |
| **Favorites** `pg_course.go`, `favorites_handler.go` | `item_favorites` | add, remove, list | course items |
| **Grading** `service/grading.go` | none, a pure function | tokens against a verse (longest common subsequence) to a colour | attempts |
| **Catalogue** `course_service.go`, `pg_course.go`, `scripts/seed_courses`, `scripts/load_kjv` | `courses`, `course_sections`, `course_items`, `bible_verses` | read, with a digest of all content; seeded and reloaded by scripts | attempts, progress and favourites refer to items |
| **Web client** `verse-web-next/` | token, session, the memorize loop | posts attempts, reads lives, asynchronously | all of the above over HTTP |
| **Start, routing, mailer** `cmd/api/main.go`, `handler/router.go`, `mailer/` | none | wiring, HTTP | |

What is hard, and what each component must guarantee:

- **Lives.** No job refills them: the stored pair (count, instant) is settled
  by whoever reads it. A full set must not carry an old clock, a partial refill
  must keep the remainder of the interval, and the answer to the client is
  computed at a later instant than the one it was settled at. *Promise:* the
  pair behaves as a bucket that a timer refills; nobody spends faster than it
  refills; the countdown is true.
- **Streak.** The credited day comes from the client's calendar, within a day
  of the server's, or from the server's if the client sends none. It is stamped
  when a request is built and used much later, so that days may come in any
  order, even from devices of one zone. *Promise:* the streak never claims a day
  without practice; it is the exact run of days as long as they come in order; it
  is lost without a gap only when no one calendar explains the credited days.
- **Attempts.** Several devices of one user submit at once; each transaction
  runs eight or more statements, any of which can fail, and the acknowledgement
  of the commit may be lost; the account may be deleted meanwhile; connections
  are few. *Promise:* an attempt takes effect in one step or not at all, no
  update is lost, no life pays twice, progress is the grade of the last graded
  attempt on the verse in whatever course, and every request is answered.
- **Batch upload.** The batch is not one transaction, the server does not
  recognise a `client_seq` it has seen, and the client may give up and upload
  again. *Promise:* no attempt is lost, none is applied twice unless the client
  could not know its fate, a refused attempt is not overtaken.
- **Authentication codes.** Requests run without a transaction: counters are
  read, compared and incremented in separate statements, an address is checked
  long before it is stored, a mail may fail after the code was stored, a
  confirmation may take effect and then fail. *Promise:* an address counts as
  verified only for whoever received its code, for one account, and is never
  lost; codes that were used or superseded stay dead; no count is lost.
- **Accounts.** A first login looks the identity up, finds nothing, and inserts
  later; two may do so at once, and a username may be taken meanwhile. The
  cooldown of a name is checked in one statement and stamped in another. A
  token outlives its account. *Promise:* an identity has one account; a token
  opens its owner's account or none; a first login gives up only if another one
  has just made the account; a name changes once in a cooldown, but for
  requests that were checked at once; a device that says nothing of the theme
  does not undo another's choice.
- **Catalogue.** `seed_courses` writes some thousands of rows without a
  transaction while the server runs: it may stop anywhere and is run again,
  perhaps as a later release with edited lists, and it updates rows that
  learners already refer to. An error while the chapters of a book are listed
  goes unnoticed. `load_kjv` empties the items under them. Apps keep
  what they downloaded until the digest changes. *Promise:* a run that reaches
  its end leaves every listed item once, whatever crashed before, but for chapters
  whose list it did not read to the end; no change of the content escapes the
  digest.
- **Resume, progress, favourites.** Answers are put together from several
  statements, and so is an attempt: it reads the verse of its item, and later the
  copies of the verse that the item then has, while the catalogue is seeded.
  Attempts are ordered by the start of their transactions, which
  may overtake one another; a verse stands in several courses, and progress on
  it is copied to each. *Promise:* what a progress row says is how the verse of
  its item was last recited; resume offers an item that is still open as long
  as the course has one; the figures of one answer agree unless something was
  written in between.
- **Grading.** One row of the table of the longest common subsequence is
  overwritten in place. *Promise:* the grade is the share of the verse's words
  that were recited in order.

PROJECT.json lists all of these at the line where they bite ("hazards"),
each with the properties that would catch it or the reason why none does yet.

## 2 Modules

```
LivesRules   StreakRules          pure rules: what the code computes
     \          /
     AttemptRules                 what one attempt does to a user's rows
      /        \
AttemptStore   AttemptTx          one-step promise  <=refines=  transactions
      |
  BatchSync                       the offline queue over AttemptStore

LivesClock  (LivesRules)  refines  LivesBucket
StreakDays  (StreakRules)
AuthCodes   Accounts              on their own: they share only the users row

Grading -- Catalog -- Learning    grades; the catalogue and its scripts;
                                  learners over the catalogue
```

`MC<module>` gives a module its instance for TLC, `<module>_proofs` holds its
theorems.

| module | models | correspondence |
|---|---|---|
| `LivesRules` | `lives_service.go`, the countdown of `lives_handler.go` | `SettleLives`, `SpendLife`, `NextRefillSec` are the functions; an instant is a whole number of ticks; `LivesRecord` is `domain.Lives` |
| `LivesBucket` | the abstract promise: a bucket and a timer | what `lives_service.go:4-7` says a background job would do |
| `LivesClock` | the life of one such row | `Consume` = settle, check, decrement, store under the row lock; `ReadLives` and `AnswerLives` are the two halves of `GetMyLives`, between which time may pass; `Tick` is time |
| `StreakRules` | `resolveToday`, `isNextDay`, the switch of `UpdateStreak` | days are integers; a text that is no date is `BadDay`; `LastDay == nil` is `NoDay` |
| `StreakDays` | a user's devices, each with a calendar of its zone | `SentDays`: the dates stamped up to `MaxDelay` ticks ago in some zone, or none; `Practise(d)` = `UpdateStreak` with such a date, in any order |
| `AttemptRules` | the pure part of `submitLocked` | `Accepted` (lines 92-104), `FanOut` (129-153), `Charged` (162) |
| `AttemptStore` | the promise: submit, consume, delete in one step | `Submit(u, sub)` takes the settled lives and the day at two instants that lie between the last change of the row and now |
| `AttemptTx` | `inTx`, `SubmitAttempt`, `ConsumeLife`, `DeleteUser` as Postgres runs them | see below |
| `BatchSync` | `SubmitAttemptsBatch` and its client | one action per outcome of the loop body; each accepted item is one `SubmitAt` of `AttemptStore` |
| `AuthCodes` | `auth_service.go:81-240` with its queries, the handlers and the mail service | one action per statement; see below |
| `Accounts` | `auth_service.go:256-446`, `apple_auth.go`, the `users` queries and the handlers that call them | one action per statement; see below |
| `Grading` | `grading.go` | `Normalize`, `lcsLength` with its rows, `GradeRecall`; `ShareGrade` is the reference definition without a table; its theorem is in `Learning_proofs` |
| `Catalog` | `seed_courses`, `load_kjv`, the reads of `course_service.go`, the content digest | `Program` is the sequence of statements of a release, one action per kind of statement; see below |
| `Learning` | learners over `Catalog`: attempts with their fan-out, favourites, `GetResume`, `GetStats`, `GetProgress` | one action per statement of an answer, and per statement of an attempt that reads the catalogue; see below |

**AttemptTx.** A request goes through *idle, waiting* (for a connection),
*begun, locked* (holds the `users` row), *recorded, counted, done*. `LockRow`
is `GetLivesForUpdate` with `SettleLives` and the check that there are lives
enough; `RefuseAttempt`, `ConsumeNone` and `RowMissing` are its other outcomes.
`Record` stands for the statements between the check and the streak: what they
write is a function of the submission and is invisible to others until the
commit, so `Publish` computes it there. `CountDay` is `UpdateStreak`, which
reads the *committed* streak row, at its own instant (midnight may pass since
the lives were settled). `Commit` publishes everything at once;
`CommitUnacknowledged` does so too, but the caller sees an error; `Fail`, in
any phase, rolls back. `account` holds committed rows only: a transaction reads
nothing that it wrote itself. `DeleteAccount` is a single statement that waits
for the row lock like any writer.

**AuthCodes.** A request goes *arrived, found* (its user is known), then
*counted, cleared, stamped, stored* (a code), or *matched/mismatched, applied*
(a confirmation), or *matched* (a change of password), then *done*. Each arrow
is one statement that takes effect by itself, and `Fail` may follow any of
them; what was done stays done. `held` is the row a request read or inserted
and goes on using while others change the table; `expiry` is the instant
computed before the insert. `mail` is what reached a mailbox: whoever types a
code has it from there, or makes it up. Errors that the code does not look at
are alternatives of their own: `EmailFree` for a failed query, `LoseTry` for a
failed increment, `FindNobody`'s answer for a failed look-up.

**Accounts.** A sign-up goes *arrived, registered* (the row is there, the
address given with it is not), *done*; a social login *arrived, missing* (no
account has the identity; it stays there from try to try), *done*; a profile
request *arrived, allowed* (the cooldown has been checked), *named* (the name is
changed, the theme is not), *done*. `CreateSocial` and `SocialTaken` are the
insert that the unique keys let through or refuse; the sequence of `users.id`
advances in both. The two providers differ only in the username made up
without an address. Deletion removes the row; a token for it stays in
circulation (`Tokens`), so that any later step may find the account gone.
`renames` (when a name was changed) and `overlapped` (two checks of one name
before either change) are history.

**Catalog.** `Lists` is what the releases of `seed_courses` say, in order; a run
of one of them executes `Program` statement by statement, each committed by
itself. `CrashSeed` ends a run between two statements, `StartSeed` runs the same
release or a later one from the beginning. `PassChapter` is the one error that
ends nothing: the loop over the chapters of a book (`seed_books.go:33-41`) does
not read `chapterRows.Err()`, so the list may break off before any chapter, the
run has nothing of the later ones (`script.cut` notes the book) and goes on. The
upserts differ in what they
write on conflict, and the actions say so: a course keeps `hidden` where the
statement does not name it and never loses its commentary, an item of a plain
course is found by its verse and keeps its place, a slot of a warm-up section
gets the listed verse, a slot of the prophecy course keeps the verse it has, a
chapter leaves taken slots alone. The sequence of ids moves on whether a row is
inserted or not. `TruncateItems` is `load_kjv`, whose cascade empties the items
and starts their ids again. `Content` is all that an app downloads,
`ContentDigest` what it compares; md5 is taken to be injective. `moved` (items
that an edited warm-up list gave another verse) and `seeded` are history.

**StreakDays.** The row lock makes `UpdateStreak` one step, as `AttemptTx`
shows; it orders the transactions and not the stamps. A date is stamped by
`localDayString()` when the request is built and used at the end of its way: a
slow network, earlier items of a batch, a wait for a connection and for the row.
`SentDays` therefore holds what any device may have stamped in the last
`MaxDelay` ticks, so that attempts may overtake one another across midnight.
`credited`, `inOrder` (no attempt was credited to a day before the last one's)
and `calendars` (the zones in which each attempt was credited to the day that it
was there when it was applied) are history.

**Learning.** An attempt is a transaction that locks the learner's row and
nothing of the catalogue. `AttemptTx` shows its statements against one another,
over a fixed catalogue; here those that read the catalogue are steps of their
own, between which the scripts go on: `StartAttempt` reads the verse and the
text and grades (lines 97-115), `ListSiblings` inserts the attempt and lists the
copies of the verse that the item has *by then* (118-142; READ COMMITTED),
`CommitAttempt` writes the progress of these copies and makes all of it visible,
`FailAttempt` undoes it. `underway` is the transaction that has a learner's row. The
`copied` of an attempt, a history, is the verse whose copies got its grade; it
differs from its `verse` only if the item was moved in between. `Reload` waits
for attempts under way, as `TRUNCATE` waits for their table locks.
`created_at` is the start of a transaction, but the row is written when it
holds the lock: `CommitAttempt` therefore puts the row anywhere among the
user's attempts, which are kept in the order of `created_at`, while the ids
tell the order in which attempts took effect. `Siblings` is the fan-out to the
copies of a verse in other courses. `GetLastAttempt` and `GetNextUnclearedItem`
are the two statements of `GetResume`, `StartStats`/`NextFigure` the four of
`GetStats`, `StartProgress`/`ListUserProgress` the two of `GetProgress`; writes
of the same learner's other requests and of the scripts come in between. An
answer whose figures were read on both sides of a write is called `torn` and
not followed further: nothing promises that it adds up.

Rows are kept per user as one record. `AttemptTx` and `AttemptStore` do not
keep `attempts.created_at`, which nothing in them reads. Their rows of
`attempts` carry the credited day as history. `spentAt` (when lives were taken)
is history too.

## 3 Runs

| run | instance | shows |
|---|---|---|
| `lives_clock` | 2 lives, refill 4 ticks, 2 ticks per displayed second, 13 ticks | type, `NoOverspend`, `CountdownTrue`, refinement of `LivesBucket` |
| `streak_travel` | days of 3 ticks; four zones from west to a full day east, old clients, attempts up to 7 ticks late (over two days); 18 ticks (6 days) | type, `NeverOverstated`, `StreakIsRun`, `ResetNeedsGapInCalendar` |
| `streak_gap` | one zone, every date sent, attempts up to one tick late | **violates** `ResetOnlyAfterGap` (section 5) |
| `attempt_tx` | one user, 3 requests, 2 connections, 1 life, two items of one verse and one of another, 4 ticks (2 days) | type, `SnapshotCurrent`, `NoOverspend`, `ProgressFollowsAttempts`, `StreakBacked` |
| `attempt_refines` | one user, 3 requests, 2 connections, 2 instants, all interleavings, no symmetry | `AttemptTx` implements `AttemptStore`; `Answered` under fairness |
| `batch_sync` | 3 attempts, 2 uploads of at most 2, one failing item, 2 ticks | type, `NothingLost`, `DuplicateOnlyIfUnknown`, `AppliedInOrder` |
| `batch_practice` | the same | **violates** `PracticeNeverSkipped` (section 5) |
| `auth_codes` | two users (one without a password), three addresses, 3 requests and a code already mailed; codes last 1 tick, counted for 2, 3 instants; 2 codes per window, 1 wrong try | type, `EmailProven`, `VerifiedEmailUnique`, `TriesCounted`, `RateKept`, `VerifiedEmailKept`, `SocialStaysPasswordless`, `SupersededStaysDead`, `SpentStaysDead` |
| `accounts` | an account with a password, one of Google, an Apple identity with none; 3 requests; 2 tries, cooldown 2 of 3 instants | type, `OneAccountPerIdentity`, `TokenStaysWithOwner`, `RenamedRarely`, `ConflictOnlyIfRaced`, `UnmentionedThemeKept` |
| `learning` | one user; three verses, one of them in a plain course, the warm-up and a book; two releases, the second with another warm-up, other prophecies and other texts; 2 runs of scripts, 2 requests | type and references, `ProgressFollowsVerse`, `FiguresAgree`, `ResumeSound` |
| `seeding` | the same lists, the first book with two chapters; 3 runs of scripts, no requests | `SeedConverges`, `DigestCoversContent` |
| `resume_next` | a book of two chapters | **violates** `ResumeGoesOn` (section 5) |

*Why these bounds are enough.* Lives: the rule distinguishes none, one and
several intervals elapsed, with the set empty, partly full and full; 13 ticks
are three intervals and a remainder, so a full set with an old clock, a partial
refill with a remainder and an overflow of two refills all occur. Streak: the
switch looks at one pair of days; 6 days hold a run, a gap, and a second run
that is longer or shorter than the first. Dates that are up to 7 ticks late lie
on both sides of the server's window of a day. Transactions: every hazard is
about two transactions of one user; the third request waits for a connection or
for the row, and can be the deletion. With one life, two charged attempts
already collide; the refill within the horizon gives the cases with a life
back. That several users do not disturb one another is left to the proofs of
section 6, which hold for all values. Batch: a batch of two has an item before
and one after a refusal; the third attempt is queued meanwhile; two uploads
make one repetition. Codes: a race is between two requests (two confirmations
of one address by two accounts, two wrong tries, a confirmation and a new
code); the third makes the mail that one of them needs, or checks afterwards
that a code stays dead. A limit of one wrong try and two codes is reached
within three requests; a code expires before it ceases to count, as in the
program (10 minutes, one hour). Accounts: two first logins of one identity, or
one and a sign-up that takes its username, and a third request that deletes, or
comes back with the token. Two tries are enough to tell a taken username (the
second, with a random suffix, succeeds) from a taken identity (no try can); the
code's five add nothing. Learning: a hazard is about one write of a script or
of a learner between two statements of another, so two runs (a crash and its
repetition, a release and the next, a seeding and a reload) and two requests
(an attempt and an answer, or two attempts) make each of them happen at every
statement of the lists, those of an attempt included. Seeding needs no learner,
since the scripts read nothing of theirs, but a third run: one that crashes or
whose list of chapters breaks off, a repetition, and a reload or another
release before, between or after them. The lists have each kind of statement, a
conflict of each kind with and without a change, a course that becomes hidden,
a commentary that changes its language and a verse with copies. The recitals
are the whole verse, a word said twice (which a table with the wrong cell would
count twice) and a practice. Learners share only the catalogue, so one is
enough. Deadlock is checked in the `attempt_*`, `auth_codes` and `accounts`
runs, whose only end is `Quiescent`; the other models stop at their bound of
the clock, of the queue or of the requests, which is no property of the
program.

Requests are symmetric in the safety runs (`Symmetry`), not in
`attempt_refines`, whose liveness it would make unsound.

Every property of a passing run has a *mutant* in PROJECT.json: a definition
of the model changed as a plausible bug would change the code (the lock left
out, the clock of a full set kept, siblings forgotten, a second connection
taken inside a transaction...), under which the same run fails.

## 4 Fairness

Only `Answered` (run `attempt_refines`) needs any: `WF_vars(Serve(r))` for each
request, where `Serve` is what the server and the database do of themselves. It
stands for: the Go scheduler runs every goroutine; `pgxpool` serves those who
wait for a connection in the order of asking; Postgres queues those who wait
for a row lock; statements return. A request is used once, so nobody can be
overtaken for ever and weak fairness suffices: while some request waits for the
row, the holder can go on or is finished. No fairness is put on arrivals, on
time, on `Fail` or on a lost acknowledgement. The mutant that takes a second
connection inside the transaction shows that the claim has content: the pool
runs dry with everybody waiting, which is what binding the repositories to the
transaction (`attempt_service.go:53-57`) prevents.

## 5 Findings

1. **A streak can be reset without a gap** (`streak_gap`). The header of
   `streak_service.go` says that a streak is reset after a gap of a day or
   more. The last case of the switch is also reached when the credited day is
   *before* `last_day`. One zone and clients that send their date are enough: a
   request is stamped before midnight, another device's after midnight
   overtakes it on the way, in a batch or in the wait for the row, and the
   first is then applied with the earlier day, which `resolveToday` accepts.
   The streak becomes 1 and `last_day` goes back: all days before are lost.
   Without any delay it happens to a device east of UTC that practises on its
   tomorrow, followed by a client that sends no date or a device further west.
   What does hold, in any zones and with any delays (`streak_travel`, proved):
   without a gap a streak is reset only if there is no zone in which each
   attempt was credited to the day on which it was applied
   (`ResetNeedsGapInCalendar`), and it is the run of days as long as no day is
   credited after a later one (`StreakIsRun`).
2. **Practice attempts are skipped for lack of lives** (`batch_practice`).
   `attempt_service.go:93-95` says practice has nothing to do with lives. In a
   batch, every item after the first refused one is answered
   `skipped_no_lives` without a look at its mode (lines 206-209). The item stays
   in the queue and a later upload takes it, so nothing is lost
   (`NothingLost` holds); it is late.
3. **Resume does not go on in a course with sections** (`resume_next`).
   `pg_attempt.go:188-190` says that after a completed verse the next one of the
   same course that is not completed follows. `GetNextUnclearedItem` compares
   and orders by `ord`, which starts again in every section. In a book,
   after 1:1 it offers 2:1: the first verses of all chapters have the `ord` of
   the last one and come before 1:2, the next verse of the book.
   The item offered is always one of the course that is still open
   (`ResumeSound`, proved).

Two more that the models show, and that the properties name as their exceptions:

- *A seeding run can report success with chapters missing.* `seed_books.go:10`
  says that all verses of the 66 books are seeded. After the loop over
  `chapterRows` its `Err()` is not read, so a lost connection ends the list
  like its last row (`PassChapter`). `SeedConverges` excepts the books whose list
  broke off in the run that has just ended, and asks that a run which reads the
  list to its end brings the rest.
- *A grade can go to a verse that was not recited.* An attempt reads the verse of
  its item at `attempt_service.go:107` and the copies to write at line 136. If an
  edited warm-up list gives the item another verse in between
  (`seed_courses/main.go:279-284`), the grade of the old verse is written to all
  copies of the new one, in other courses too. `ProgressFollowsVerse` says that
  this happens only to an attempt whose own item was moved.

Also met while reading: `lives_service.go:2` says one life in 20 minutes and at
most 10; the constants say 30 minutes and 5 (as migration 000019 does). The
models take both as parameters. `auth_dto.go:12` says that a code is sent right
after a sign-up that gives an address; the handler only stores the address,
unverified (`auth_handler.go:28-30`), as `SetPendingEmail` does. A profile
request with a new name and an unknown theme changes the name and is then
refused (`UpdateDisplayName`, `RefuseTheme`); repeated with a theme that is
known, it is refused for the cooldown.

Of the catalogue: `concat_ws` leaves NULLs out, so a commentary that moves from
`.ko.md` to `.en.md` unchanged keeps its digest, and installed apps do not see
it (`CommentaryMoved` excepts this from `DigestCoversContent`). The header of
`seed_courses` says that existing rows are left alone (`ON CONFLICT DO
NOTHING`); most statements update them. `dto/course_dto.go:50-52` describes the
digest as one of id, slug, ord and category; it also covers the texts, and must.
An edited warm-up list gives an item another verse and leaves it the learners'
progress on the old one (`moved`, excepted from `ProgressFollowsLast`); an edited
list of prophecies keeps the old verse under the new English topic. `load_kjv` run
again deletes all attempts, progress and favourites with the items and hands
their ids out anew; what an app does with ids it has kept is outside the models.

## 6 Proofs

All theorems are in `*_proofs` modules and hold for every value of the
constants that the named assumptions admit (`LivesAssumption`,
`ClockAssumption`, `DayAssumption`, `DaysAssumption`, `ItemsAssumption`,
`TxAssumption`, `AccountsAssumption`, `CodesAssumption`, `LowerAssumption`,
`CatalogAssumption`, `KeysAssumption`, `NullAssumption`, `LearningAssumption`,
`SubmissionsAssumption`, `BatchAssumption`, which TLC evaluates in the runs).
They are independent of the bounds of clocks, runs and requests.

**LivesClock.** `LivesTypeOK`, `LivesNoOverspend`, `LivesCountdownTrue`,
`LivesRefineBucket`.
`NoOverspend` speaks of pairs of instants and is not inductive: nothing in it
tells how many lives are left *now*. The invariant `PaceInv` adds for each
life taken a *credit*: the lives in the settled bucket, plus those taken since,
never exceed a full set plus the refills since (`Credit`, `Paced`, with the
refill clock's remainder counted). The lemmas of `Rules_proofs`, which ask no more
of the constants than `LivesAssumption` here and `DayAssumption` below, show that
settling keeps the credit at every instant, that a fresh full set restores it
and that taking a life moves it from the bucket to the history; division by an
arbitrary `RefillTTL` is reduced to its defining inequalities (`DivBounds`,
`DivAtLeast`). The refinement needs only that settling twice is settling once
(`SettleStep`) and that the timer's reading moves by one per tick.
For the countdown, `CountdownInv` ties the answer to the row it was computed
from: the pair that was settled is on the same track of refills as the stored
one (`SettleOnTrack`, `SettleAt`), and `CountdownBounds` bounds what rounding
to displayed seconds can take away.

**StreakDays.** `StreakTypeOK`, `StreakNeverOverstated`, `StreakIsRunInOrder`,
`StreakResetNeedsGap`, for any zones, clients and delays. `NeverOverstated` is
inductive as it stands with the type invariant; the argument is in
`Rules_proofs` (`NextStreakRun`: the run behind the next streak is the old run
and one day, or one day). The other two rest on `CalendarInv`. As long as days
come in order the row is exact (`Exact`): a day credited in order is the last
one, the next, or later with a gap before it. As long as some zone explains
every credited day, the days did come in order, for none lies after the present
date of that zone, which never goes back (`LocalDay` is monotone in the tick);
a reset is then the case of a gap.

**AttemptTx.** `TxTypeOK`, `TxSnapshotCurrent`, `TxNoOverspend`,
`TxProgressFollowsAttempts`, `TxStreakBacked`, `TxNobodyStuck`,
`TxRefinesStore`. The inductive invariant `TxInv` has four parts beside the
properties: `TypeOK`; `OpKnown`, a request that has arrived knows what it asks
for; `NoFutureClock`, no stored or settled instant lies in the future; and
`Held`, the heart: a request inside its transaction holds the lock of the row,
the row exists and the pair it settled is still the settling of that row.
`Held` is what excludes a lost update: no other request can be past its lock,
so nobody else's commit or delete can change the row. With it, `NoOverspend`
follows from the credit lemmas of the lives, and `StreakBacked` from
`NextStreakBacked`. `ProgressFollowsAttempts` is inductive by itself: a commit
puts one attempt last in the table and one grade on every item of its verse, so
either both the last graded attempt at a verse and the progress on it are new,
or neither is. `NobodyStuck` is what `Answered` needs beside fairness: a
request that waits for the row waits for one that is past all waiting, and
while the pool is used up such a request has one of its connections. It rests
on the converse of `Held`, `LocksInTx`: only a request inside its transaction
has a lock, for whoever ends one gives it back. The refinement maps variables
of the same name: each commit is the one step of `AttemptStore` at the two
instants the transaction read, the delete is its delete, and everything else is
a stutter or a tick.

**Accounts.** `AccountsTypeOK`, `AccountsOneAccountPerIdentity`,
`AccountsTokenStaysWithOwner`, `AccountsRenamedRarely`. `TypeOK` is inductive
with `Control`: what a request has found out by its phase, and that the
sequence is past every id given. Identities rest on `Kept`: no step changes the
username or the identity of a row, and a new row has an id that nobody has a
token for. `Owned` adds to `TokenStaysWithOwner` that the account of a sign-up
under way is its own, for the token comes later than the row. For the cooldown,
`Rare` says that the stamp of a row is the end of its history, and that, as
long as no two checks have overlapped, a request that was allowed to change a
name still may. Each action either changes no stamp (`RareKept`) or is the check
or the change itself. The two properties of steps are proved too:
`AccountsUnmentionedThemeKept` from the types, and `AccountsConflictOnlyIfRaced`
from `Fresh`, that nobody has a username with the suffix of a request that still
runs. The last try has such a suffix, so that only the identity's key can refuse
it; `AccountsAssumption` asks that the initial usernames have none of the
suffixes to be drawn.

**AuthCodes.** All nine properties of its run. The invariant `Inv` is
`TypeOK`, `Control` and `Rows`. `Control` says what a request knows and which
row it holds by its phase. `Rows` says that an id belongs to one letter for
ever: over the rows of the table, the mail and the rows that requests go on
using after others changed or deleted them, equal ids mean the same user,
purpose, address and expiry (`Letters`). That is what makes a comparison with a
held row as good as one with the table. Each property then has an invariant of
its own: `Proven` (a matched code was in a letter to the address it names),
`Passworded` (a reset code belongs to an account with a password), `Dead` (the
rows of a confirmation that ended well are gone, and ids only grow), `Wrong`
(the requests answered *unauthorized* with a row in hand are its counter) and
`Rate` (among requests that did not overlap at most one has counted and not yet
inserted, and the count left room for it). `CodesAssumption` asks of the initial
codes what the code itself would have made sure of.

**BatchSync.** All four invariants of its run: `BatchTypeOK`,
`BatchNothingLost`, `BatchDuplicateOnlyIfUnknown`, `BatchAppliedInOrder`, for
any number of attempts, uploads and failures and batches of any size. The
outcomes of the loop body are one kind of step (`ItemStep`), which moves the first item
of a batch from what is left (`Left`) to what has its result (`Settled`). The
invariant `Inv` is `TypeOK` with four parts: `ClientOK`, the queue is sorted and
the upload waited for is running; `BatchOK`, a batch is worked off from the
oldest on and an *ok* in its results is true; `Carried`, the upload waited for
carries the oldest attempts of the queue with no gap, and a delivered one has
taken those it accepted; `DeliveredOnce`, no attempt was accepted by two
uploads that were delivered. `NothingLost` follows because only a delivery
drops attempts, and only those with an *ok*. For duplicates, `Counted` says that
each upload applies an attempt at most once; of the uploads that may have
applied it, all but one were given up or reported it as failed, by `Carried` and
`DeliveredOnce`. For the order, `InOrder` strengthens it to what is still in the
queue: unless it has its *ok* in the upload waited for, it is newer than all that
was applied. It is the gap-free `Carried`, and the refusal that stops a batch,
that let the loop body keep it.

**Grading.** `GradeRecallIsShareGrade`: the table of `lcsLength`, filled row by
row, gives the grade that `ShareGrade` defines without one, by the longest chain
of pairs of equal words. `Normalize` and the two loops of `lcsLength` are
recursive functions. A function defined in a `LET` by recursion is a `CHOOSE`;
`RecursionExists` shows that there is one to choose, so that its equation may be
used. The invariant of the loops is that a cell holds the length of the longest
chain between the prefixes it stands for (`Longest`): `LongestMatch` and
`LongestSkip` are the two cases of the assignment to a cell, `NextRowCells` and
`LcsLengthLongest` the inner and the outer loop.

**Learning.** All six properties of its two runs: `LearningTypeOK`,
`LearningProgressFollowsVerse`, `LearningFiguresAgree`, `LearningSeedConverges`,
`LearningResumeSound`, `LearningDigestCoversContent`. They rest on
`LearningTablesOK`, an invariant of three parts.

- `Inv`: item ids are below the sequence, learners' rows refer to items,
  attempts are numbered up to their count, and `ProgressFollowsLast`. The steps
  of the script are used through one fact only, `Grows`: items are added with a
  new id, and an item keeps its verse or is in `moved`. `InsertAtRange` tells
  what inserting a row among the attempts does to their set. Progress survives a
  new copy of a verse because the copy starts without a row, and survives an
  attempt because the fan-out reaches every row of the verse that the item had
  when its copies were listed. Between that and the commit the scripts may go on:
  `UnderwayOK` says that the listed copies are all rows of the verse that a
  progress row can have by then, and those that have left it are in `moved`.
- `CatalogOK`: no item is without its course or its section. The scripts rely on
  the order of their statements for that, and the invariant says so: `Executed`,
  the courses and sections of the statements before the next one are there,
  whatever crashed or was reloaded before. That this is enough is a fact about
  the sequence of statements alone, `ProgramSequel`: every statement of every
  release finds its course and its section among those before it. `Program` is
  put together by flattening, a recursion over sequences (`FlattenUnfolds`),
  hence the lemmas `FlattenClosed` and `FlattenHolds`.
- `AttemptsOK`: every attempt, stored or under way, has the grade it deserves, and
  was copied to the verse it was made on unless its item is in `moved`. This is
  where `GradeRecallIsShareGrade` is used; `NormalizeWords` supplies its
  hypothesis.

`FiguresAgree` has an invariant of its own on top, `RequestsOK`: the figures
that a request has read so far are those of the tables as they are now, for any
write in between made it `torn`. At the last statement it remains that
the figures of one state of the tables agree, which is counting: `SumOfParts` (a
set cut into finitely many parts has the sum of their sizes), for the items by
course and by category (`GroupsAddUp`) and for the verses by book
(`BooksAddUp`).

`SeedConverges` speaks of a script that has reached its end; the invariant
`SeededOK` says how far one has come that has not. `Keyed`: no two items have
one key (`Key`: course and verse, or in a course with sections the place), which
is what the partial indexes enforce. `Present`: the rows of the statements already
executed are there, in the warm-up with the verse listed; the rows of
a book in `cut` are excepted, and passing over a chapter (`Passed`) is the step
that puts it there. `ListedOnly`: as long as one
release was ever started, every item is one it lists, column for column.
`BookPlaces`: an item in a section of a book is of the verse of its place,
whichever release put it there. `Started`: the release at work is among those
started. The statements enter through one fact, `Merges`: no row is lost, those
with the keys of a statement's rows are merged with them, the missing ones are
added, each once. One run is then a matter of sets: `ProgramProvides`
turns the flattened program of a release into its set of statements that
write items, and `ProgramRows` shows that their rows are what `ListedItems`
says without a program. Crash and restart need no argument beyond the
invariant: a restart forgets which statements were executed, and keeps the rest.

`DigestCoversContent` is an action property. What has to be shown of
`concat_ws`, which leaves NULLs out, is when two rows with the same digest are
the same row. `WsDetermines`: lists of fields whose NULLs are at the same
places, but for one place perhaps, have different digests when they differ at
all (the lengths tell whether the one place is NULL). It applies to items, of
which only `topic_en` may be NULL and `section` does not change in a step, and
to sections. A course has three columns that may be NULL; but a statement
writes its titles or its commentary, never both (`CoursesStep`), and then
`CourseDetermined` leaves only the commentary that moves between its columns,
the exception in the property and a finding of section 5. `NamesOK`, invariant with
`TablesOK`, says which columns are never NULL, and `DigestsCover` that equal
digests of the tables pair their rows by key.

The induction theorems of the library take an operator as parameter, which
the installed provers cannot instantiate. Where a proof needs an induction it
goes over a set: the indices at which the claim holds (`IntervalInduction`),
or the least one at which it does not (`LeastElement`).

`CatalogAssumption` and `LearningAssumption` ask of the constants what the Go
types and the schema grant: the lists of a release are sequences of records with
fields of their types, a verse has one place (three numbers) and one text, there
is a first release, and no course lists a verse twice. `KeysAssumption` is what
`SeedConverges` needs of keys: `UNIQUE (book, chapter, verse)` of `bible_verses`,
one entry for each slug among the plain courses of a release, and a book's slug,
`book-NN-name`, which stands for one number in every release. `NullAssumption` says that
NULL is no value.

## 7 Only model-checked

- `Answered`: liveness under fairness, and `ENABLED`, are beyond this prover. Its
  safety half, `TxNobodyStuck`, is proved.
- The three runs that end in a violation are counterexamples of one instance.

No module reached by a theorem has a `RECURSIVE` operator, for which the SMT
backend is not available.

## 8 Not modelled

- *Time* is one clock that never goes back. Two servers with different clocks,
  or a clock set back, are outside.
- *In `AttemptTx`*, the catalogue is fixed and the grade is an input of a
  submission, any grade being possible; siblings that appear later, items whose
  verse changes during an attempt, and grading itself, are in `Learning`, where
  in turn an attempt has only the statements that read the catalogue, and lives
  and streak are left out.
- *Order of a batch*: `AppliedInOrder` presupposes that no item fails. One that
  failed is applied by a later upload, after newer attempts.
- *Of the catalogue*: the parsing of the lists and of the Bible's files;
  `split_segments` and `seed_glossary`, stubs that do nothing yet; single
  verses, chapters and the glossary, each one read of a table that the server
  never writes. `theme` and `ord` of a course, which no upsert changes, are left
  out. Two scripts do not run at once.
- *Single reads*: the list of favourites and the reading list
  (`ListReadingProgress`) are one statement each.
- *Isolation*: Postgres runs at READ COMMITTED; the models use no more of it
  than row locks, visibility at commit, and rollback.
- *Codes*: two codes of six digits are taken to differ, and `created_at` to grow
  with the id. An account is not deleted while one of its requests runs.
  `SetPendingEmail`, the address given at sign-up, is in `Accounts`. What
  the model shows and nothing in the repository promises otherwise: when the
  mail with a new code fails, the code of the earlier letter no longer works;
  and a confirmation deletes the rows that the hourly limit counts.
- *Accounts*: two random suffixes are taken to differ, as they nearly always do;
  an address is told apart by its local part, and characters that
  `usernameFromEmail` drops are not in it. `language` is kept like `theme`.
  Malformed requests, profanity and the length of passwords are refused before
  any statement and left out.
- *Logging, JSON and routing* are presentation.
- Password hashing, token signatures and the identity providers' protocols are
  cryptography and external.
- `repository/sqlc` is generated from `db/queries`; the statements that the
  models execute are mapped to it, its row types and scanning are not.
- The static pages and components of the web client.

## 9 Plan

Done: lives, streaks, transactions, the offline batch, codes, accounts, the
catalogue with its scripts, grading, favourites, resume and the pages of
figures; proofs for all of these. What is left, in order of
importance:

1. `MemorizeClient`, `WebSession`: the web client's asynchronous attempts and
   lives, answers out of order, a logout meanwhile; composed with `AttemptStore`.
2. A second clock in `AttemptTx`: two servers, or one set back.
