----------------------------- MODULE AuthCodes ------------------------------
(***************************************************************************)
(* Mailed codes (internal/service/auth_service.go:60-240): registering a   *)
(* recovery address, resetting a forgotten password with it, and changing  *)
(* a password.  None of these requests runs in a transaction: each of its  *)
(* statements takes effect by itself, the statements of other requests and *)
(* failures come between, and what was done before a failure stays.        *)
(*                                                                         *)
(* The code of a row is told apart by its id: two codes of six digits are  *)
(* taken to differ.  created_at grows with the id, both being given by     *)
(* the insert.                                                             *)
(***************************************************************************)
EXTENDS Naturals, FiniteSets

CONSTANTS
  Users,        \* users.id
  Emails,       \* addresses, trimmed and in lower case
  Passwords,    \* passwords that are long enough
  NoPassword,   \* password_hash of an account made by Google or Apple: ''
  Requests,     \* identities of HTTP requests, each used once
  Asked,        \* the operations that clients ask for, but for the code typed
  InitialUsers, \* the users rows at the start
  InitialCodes, \* the auth_codes rows at the start, all of them mailed
  CodeTTL,      \* ticks a code is valid (authCodeTTL)
  RateWindow,   \* ticks in which codes are counted (an hour)
  MaxPerWindow, \* authCodeMaxPerHour
  MaxAttempts,  \* authCodeMaxAttempts
  Horizon,      \* bound of the clock, for model checking
  Nothing       \* no request, user, row or answer yet

Purposes == {"verify_email", "reset_password"}

UserRecord ==
  [email : Emails, verified : BOOLEAN, password : Passwords \cup {NoPassword}]

CodeRow ==
  [id : Nat, user : Users, purpose : Purposes, email : Emails,
   attempts : Nat, expiresAt : Nat, createdAt : Nat]

\* A mail with a code.
Letter == [id : Nat, user : Users, purpose : Purposes, email : Emails]
LetterOf(c) == [id |-> c.id, user |-> c.user, purpose |-> c.purpose, email |-> c.email]

\* The requests of the handlers; "code" and the identity are chosen on arrival.
Operation ==
  [kind : {"request"}, purpose : {"verify_email"}, user : Users, email : Emails]
    \cup [kind : {"request"}, purpose : {"reset_password"}, email : Emails]
    \cup [kind : {"confirm"}, purpose : {"verify_email"}, user : Users]
    \cup [kind : {"confirm"}, purpose : {"reset_password"}, email : Emails, new : Passwords]
    \cup [kind : {"change"}, user : Users, current : Passwords, new : Passwords]

Replies == {"ok", "unauthorized", "rate_limited", "conflict", "no_password", "error"}

ASSUME CodesAssumption ==
  /\ NoPassword \notin Passwords
  /\ Asked \subseteq Operation
  /\ InitialUsers \in [Users -> UserRecord]
  /\ \A u, v \in Users :
       /\ InitialUsers[u].verified /\ InitialUsers[v].verified
       /\ InitialUsers[u].email = InitialUsers[v].email
       => u = v
  /\ InitialCodes \subseteq CodeRow /\ IsFiniteSet(InitialCodes)
  /\ \A c \in InitialCodes :
       /\ c.id \in 1..Cardinality(InitialCodes)
       /\ c.createdAt = 0 /\ c.expiresAt = CodeTTL /\ c.attempts = 0
  /\ \A c, d \in InitialCodes : c.id = d.id => c = d
  /\ \A c \in InitialCodes :
       c.purpose = "reset_password" => InitialUsers[c.user].password # NoPassword
  /\ \A u \in Users, p \in Purposes :
       Cardinality({c \in InitialCodes : c.user = u /\ c.purpose = p}) <= MaxPerWindow
  /\ Nothing \notin CodeRow /\ Nothing \notin Replies
  /\ {CodeTTL, RateWindow, MaxPerWindow, MaxAttempts} \subseteq Nat \ {0}
  /\ Horizon \in Nat
  /\ IsFiniteSet(Requests)

VARIABLES
  clock,      \* the time, of server and database alike
  user,       \* table users
  codes,      \* table auth_codes
  issued,     \* the last auth_codes.id given
  mail,       \* external: the codes that reached a mailbox
  phase,      \* how far each request is
  op,         \* what each request asks for
  typed,      \* the code a confirm request carries; 0 is none that was sent
  who,        \* the user a request acts for
  expiry,     \* the expiry computed for a code not inserted yet
  held,       \* the auth_codes row a request has inserted or read
  reply,      \* what each request was answered
  overlapped  \* history: a request counted codes while another was issuing one

tables   == <<user, codes, issued>>
requests == <<phase, op, typed, who, expiry, held, reply>>
vars     == <<clock, tables, mail, requests, overlapped>>

Phases ==
  {"idle", "arrived", "found", "counted", "cleared", "stamped", "stored",
   "mismatched", "matched", "applied", "done"}

TypeOK ==
  /\ clock \in Nat
  /\ user \in [Users -> UserRecord]
  /\ codes \subseteq CodeRow
  /\ issued \in Nat
  /\ mail \subseteq Letter
  /\ phase \in [Requests -> Phases]
  /\ op \in [Requests -> Operation \cup {Nothing}]
  /\ typed \in [Requests -> Nat]
  /\ who \in [Requests -> Users \cup {Nothing}]
  /\ expiry \in [Requests -> Nat \cup {Nothing}]
  /\ held \in [Requests -> CodeRow \cup {Nothing}]
  /\ reply \in [Requests -> Replies \cup {Nothing}]
  /\ overlapped \in BOOLEAN

Init ==
  /\ clock = 0
  /\ user = InitialUsers
  /\ codes = InitialCodes
  /\ issued = Cardinality(InitialCodes)
  /\ mail = {LetterOf(c) : c \in InitialCodes}
  /\ phase = [r \in Requests |-> "idle"]
  /\ op = [r \in Requests |-> Nothing]
  /\ typed = [r \in Requests |-> 0]
  /\ who = [r \in Requests |-> Nothing]
  /\ expiry = [r \in Requests |-> Nothing]
  /\ held = [r \in Requests |-> Nothing]
  /\ reply = [r \in Requests |-> Nothing]
  /\ overlapped = FALSE

\* GetUserByVerifiedEmail
Owners(email) == {u \in Users : user[u].verified /\ user[u].email = email}

CodesOf(u, purpose) == {c \in codes : c.user = u /\ c.purpose = purpose}

\* Mutant of Recent: codes that have expired are not counted.
RecentUnexpired(u, purpose) == {c \in CodesOf(u, purpose) : c.expiresAt > clock}

\* CountRecentAuthCodes
Recent(u, purpose) == {c \in CodesOf(u, purpose) : c.createdAt + RateWindow > clock}

\* Mutant of Latest: ORDER BY is missing.
LatestUnordered(u, purpose) == {c \in CodesOf(u, purpose) : c.expiresAt > clock}

\* GetLatestAuthCode: the newest row that has not expired, if there is one.
Latest(u, purpose) ==
  LET valid == {c \in CodesOf(u, purpose) : c.expiresAt > clock}
  IN  {c \in valid : \A d \in valid : d.id <= c.id}

Goto(r, p) == phase' = [phase EXCEPT ![r] = p] /\ UNCHANGED reply
Answer(r, a) ==
  /\ phase' = [phase EXCEPT ![r] = "done"]
  /\ reply' = [reply EXCEPT ![r] = a]

At(r, kind, p) == phase[r] = p /\ op[r].kind = kind

\* Whoever asks for a reset code is told nothing but "accepted": neither that
\* there is no such account nor that anything failed (handler, line 245).
Quiet(r) == op[r].kind = "request" /\ op[r].purpose = "reset_password"
-----------------------------------------------------------------------------
Tick ==
  /\ clock < Horizon
  /\ clock' = clock + 1
  /\ UNCHANGED <<tables, mail, requests, overlapped>>

\* A request arrives.  Whoever types a code has it from a letter, or makes it up.
Arrive(r, o, code) ==
  /\ phase[r] = "idle"
  /\ op' = [op EXCEPT ![r] = o]
  /\ typed' = [typed EXCEPT ![r] = code]
  /\ IF "user" \in DOMAIN o
       THEN Goto(r, "found") /\ who' = [who EXCEPT ![r] = o.user]
       ELSE Goto(r, "arrived") /\ UNCHANGED who
  /\ UNCHANGED <<clock, tables, mail, expiry, held, overlapped>>

\* Mutant of FindUser: an account without a password gets a reset code.
FindUserWithoutPassword(r) ==
  /\ phase[r] = "arrived"
  /\ \E u \in Owners(op[r].email) : who' = [who EXCEPT ![r] = u]
  /\ Goto(r, "found")
  /\ UNCHANGED <<clock, tables, mail, op, typed, expiry, held, overlapped>>

\* The address of a reset belongs to a user who has a password, or who
\* confirms a code.
FindUser(r) ==
  /\ phase[r] = "arrived"
  /\ \E u \in Owners(op[r].email) :
       /\ op[r].kind = "request" => user[u].password # NoPassword
       /\ who' = [who EXCEPT ![r] = u]
  /\ Goto(r, "found")
  /\ UNCHANGED <<clock, tables, mail, op, typed, expiry, held, overlapped>>

\* The address of a reset belongs to nobody, or to an account without a
\* password.
FindNobody(r) ==
  /\ phase[r] = "arrived"
  /\ \A u \in Owners(op[r].email) : op[r].kind = "request" /\ user[u].password = NoPassword
  /\ Answer(r, IF Quiet(r) THEN "ok" ELSE "unauthorized")
  /\ UNCHANGED <<clock, tables, mail, op, typed, who, expiry, held, overlapped>>
-----------------------------------------------------------------------------
(* Requests for a code.                                                     *)

\* Another request for a code of this kind is between its count and its insert.
Issuing(r) ==
  \E q \in Requests \ {r} :
    /\ phase[q] \in {"counted", "cleared", "stamped"}
    /\ who[q] = who[r] /\ op[q].purpose = op[r].purpose

CountCodes(r) ==
  /\ At(r, "request", "found")
  /\ Cardinality(Recent(who[r], op[r].purpose)) < MaxPerWindow
  /\ Goto(r, "counted")
  /\ overlapped' = (overlapped \/ Issuing(r))
  /\ UNCHANGED <<clock, tables, mail, op, typed, who, expiry, held>>

RateLimited(r) ==
  /\ At(r, "request", "found")
  /\ Cardinality(Recent(who[r], op[r].purpose)) >= MaxPerWindow
  /\ Answer(r, IF Quiet(r) THEN "ok" ELSE "rate_limited")
  /\ UNCHANGED <<clock, tables, mail, op, typed, who, expiry, held, overlapped>>

\* Somebody else has verified the address already.
EmailTaken(r) ==
  /\ At(r, "request", "counted") /\ op[r].purpose = "verify_email"
  /\ Owners(op[r].email) \ {who[r]} # {}
  /\ Answer(r, "conflict")
  /\ UNCHANGED <<clock, tables, mail, op, typed, who, expiry, held, overlapped>>

\* Nobody has, or the query fails, which is not looked at (line 94).
EmailFree(r) ==
  /\ At(r, "request", "counted") /\ op[r].purpose = "verify_email"
  /\ Goto(r, "cleared")
  /\ UNCHANGED <<clock, tables, mail, op, typed, who, expiry, held, overlapped>>

\* time.Now().Add(authCodeTTL), before the insert is sent.
StampExpiry(r) ==
  /\ \/ At(r, "request", "cleared")
     \/ At(r, "request", "counted") /\ op[r].purpose = "reset_password"
  /\ expiry' = [expiry EXCEPT ![r] = clock + CodeTTL]
  /\ Goto(r, "stamped")
  /\ UNCHANGED <<clock, tables, mail, op, typed, who, held, overlapped>>

\* The row that CreateAuthCode inserts.
NewCode(r) ==
  [id |-> issued + 1, user |-> who[r], purpose |-> op[r].purpose, email |-> op[r].email,
   attempts |-> 0, expiresAt |-> expiry[r], createdAt |-> clock]

\* Mutant of StoreCode: the address is stored with the account, unverified, when
\* the code is made.
StoreCodeAndEmail(r) ==
  /\ At(r, "request", "stamped")
  /\ codes' = codes \cup {NewCode(r)}
  /\ issued' = issued + 1
  /\ held' = [held EXCEPT ![r] = NewCode(r)]
  /\ Goto(r, "stored")
  /\ user' = [user EXCEPT ![who[r]].email = op[r].email, ![who[r]].verified = FALSE]
  /\ UNCHANGED <<clock, mail, op, typed, who, expiry, overlapped>>

\* Mutant of StoreCode: the row has no expiry.
StoreCodeForEver(r) ==
  /\ At(r, "request", "stamped")
  /\ codes' = codes \cup {[NewCode(r) EXCEPT !.expiresAt = Nothing]}
  /\ issued' = issued + 1
  /\ held' = [held EXCEPT ![r] = NewCode(r)]
  /\ Goto(r, "stored")
  /\ UNCHANGED <<clock, user, mail, op, typed, who, expiry, overlapped>>

StoreCode(r) ==
  /\ At(r, "request", "stamped")
  /\ codes' = codes \cup {NewCode(r)}
  /\ issued' = issued + 1
  /\ held' = [held EXCEPT ![r] = NewCode(r)]
  /\ Goto(r, "stored")
  /\ UNCHANGED <<clock, user, mail, op, typed, who, expiry, overlapped>>

SendMail(r) ==
  /\ At(r, "request", "stored")
  /\ mail' = mail \cup {LetterOf(held[r])}
  /\ Answer(r, "ok")
  /\ UNCHANGED <<clock, tables, op, typed, who, expiry, held, overlapped>>

\* The mail service answers an error or not in time; the letter may have gone
\* out all the same.
SendFails(r) ==
  /\ At(r, "request", "stored")
  /\ mail' \in {mail, mail \cup {LetterOf(held[r])}}
  /\ Answer(r, IF Quiet(r) THEN "ok" ELSE "error")
  /\ UNCHANGED <<clock, tables, op, typed, who, expiry, held, overlapped>>
-----------------------------------------------------------------------------
(* verifyCode, and what follows it.                                         *)

NoCode(r) ==
  /\ At(r, "confirm", "found")
  /\ Latest(who[r], op[r].purpose) = {}
  /\ Answer(r, "unauthorized")
  /\ UNCHANGED <<clock, tables, mail, op, typed, who, expiry, held, overlapped>>

TooManyTries(r) ==
  /\ At(r, "confirm", "found")
  /\ \E c \in Latest(who[r], op[r].purpose) : c.attempts >= MaxAttempts
  /\ Answer(r, "rate_limited")
  /\ UNCHANGED <<clock, tables, mail, op, typed, who, expiry, held, overlapped>>

CompareCode(r) ==
  /\ At(r, "confirm", "found")
  /\ \E c \in Latest(who[r], op[r].purpose) :
       /\ c.attempts < MaxAttempts
       /\ held' = [held EXCEPT ![r] = c]
       /\ Goto(r, IF c.id = typed[r] THEN "matched" ELSE "mismatched")
  /\ UNCHANGED <<clock, tables, mail, op, typed, who, expiry, overlapped>>

\* Mutant of CountTry: the counter that was read is written back plus one.
CountTryAsRead(r) ==
  /\ phase[r] = "mismatched"
  /\ codes' = {IF c.id = held[r].id THEN [c EXCEPT !.attempts = held[r].attempts + 1] ELSE c :
               c \in codes}
  /\ Answer(r, "unauthorized")
  /\ UNCHANGED <<clock, user, issued, mail, op, typed, who, expiry, held, overlapped>>

\* IncrementAuthCodeAttempts
CountTry(r) ==
  /\ phase[r] = "mismatched"
  /\ codes' = {IF c.id = held[r].id THEN [c EXCEPT !.attempts = @ + 1] ELSE c : c \in codes}
  /\ Answer(r, "unauthorized")
  /\ UNCHANGED <<clock, user, issued, mail, op, typed, who, expiry, held, overlapped>>

\* ... fails, which is not looked at.
LoseTry(r) ==
  /\ phase[r] = "mismatched"
  /\ held' = [held EXCEPT ![r] = Nothing]
  /\ Answer(r, "unauthorized")
  /\ UNCHANGED <<clock, tables, mail, op, typed, who, expiry, overlapped>>

\* Mutant of SetEmailVerified: no unique index on verified addresses.
SetEmailVerifiedAnyway(r) ==
  /\ At(r, "confirm", "matched") /\ op[r].purpose = "verify_email"
  /\ user' = [user EXCEPT ![who[r]].email = held[r].email, ![who[r]].verified = TRUE]
  /\ Goto(r, "applied")
  /\ UNCHANGED <<clock, codes, issued, mail, op, typed, who, expiry, held, overlapped>>

\* Mutant of SetEmailVerified: the address of the newest code is taken.
SetNewestEmailVerified(r) ==
  /\ At(r, "confirm", "matched") /\ op[r].purpose = "verify_email"
  /\ \E c \in Latest(who[r], "verify_email") :
       /\ Owners(c.email) \subseteq {who[r]}
       /\ user' = [user EXCEPT ![who[r]].email = c.email, ![who[r]].verified = TRUE]
  /\ Goto(r, "applied")
  /\ UNCHANGED <<clock, codes, issued, mail, op, typed, who, expiry, held, overlapped>>

\* SetUserEmailVerified: the address of the row that was read.
SetEmailVerified(r) ==
  /\ At(r, "confirm", "matched") /\ op[r].purpose = "verify_email"
  /\ Owners(held[r].email) \subseteq {who[r]}
  /\ user' = [user EXCEPT ![who[r]].email = held[r].email, ![who[r]].verified = TRUE]
  /\ Goto(r, "applied")
  /\ UNCHANGED <<clock, codes, issued, mail, op, typed, who, expiry, held, overlapped>>

\* The unique index on verified addresses refuses it.
EmailNotUnique(r) ==
  /\ At(r, "confirm", "matched") /\ op[r].purpose = "verify_email"
  /\ ~ Owners(held[r].email) \subseteq {who[r]}
  /\ Answer(r, "conflict")
  /\ UNCHANGED <<clock, tables, mail, op, typed, who, expiry, held, overlapped>>

ResetPassword(r) ==
  /\ At(r, "confirm", "matched") /\ op[r].purpose = "reset_password"
  /\ user' = [user EXCEPT ![who[r]].password = op[r].new]
  /\ Goto(r, "applied")
  /\ UNCHANGED <<clock, codes, issued, mail, op, typed, who, expiry, held, overlapped>>

\* Mutant of DeleteCodes: only the expired ones are deleted.
DeleteExpiredCodes(r) ==
  /\ At(r, "confirm", "applied")
  /\ codes' = codes \ {c \in CodesOf(who[r], op[r].purpose) : c.expiresAt <= clock}
  /\ Answer(r, "ok")
  /\ UNCHANGED <<clock, user, issued, mail, op, typed, who, expiry, held, overlapped>>

\* The answer of the database may be lost, here and below: done, but an error.
DeleteCodes(r) ==
  /\ At(r, "confirm", "applied")
  /\ codes' = codes \ CodesOf(who[r], op[r].purpose)
  /\ \E a \in {"ok", "error"} : Answer(r, a)
  /\ UNCHANGED <<clock, user, issued, mail, op, typed, who, expiry, held, overlapped>>
-----------------------------------------------------------------------------
(* ChangePassword.                                                          *)

RefuseChange(r) ==
  /\ At(r, "change", "found")
  /\ user[who[r]].password # op[r].current
  /\ Answer(r, IF user[who[r]].password = NoPassword THEN "no_password" ELSE "unauthorized")
  /\ UNCHANGED <<clock, tables, mail, op, typed, who, expiry, held, overlapped>>

CheckPassword(r) ==
  /\ At(r, "change", "found")
  /\ user[who[r]].password = op[r].current
  /\ Goto(r, "matched")
  /\ UNCHANGED <<clock, tables, mail, op, typed, who, expiry, held, overlapped>>

ChangePassword(r) ==
  /\ At(r, "change", "matched")
  /\ user' = [user EXCEPT ![who[r]].password = op[r].new]
  /\ \E a \in {"ok", "error"} : Answer(r, a)
  /\ UNCHANGED <<clock, codes, issued, mail, op, typed, who, expiry, held, overlapped>>

\* A statement whose error is looked at fails: what was done before it stays.
\* A reset that cannot look its user up answers as if there were none (155).
Fail(r) ==
  /\ phase[r] \notin {"idle", "stored", "mismatched", "done"}
  /\ Answer(r, IF Quiet(r) THEN "ok" ELSE IF phase[r] = "arrived" THEN "unauthorized" ELSE "error")
  /\ UNCHANGED <<clock, tables, mail, op, typed, who, expiry, held, overlapped>>

Quiescent == (\A r \in Requests : phase[r] = "done") /\ UNCHANGED vars

Typed(o) == IF o.kind = "confirm" THEN {0} \cup {m.id : m \in mail} ELSE {0}

Next ==
  \/ Tick
  \/ \E r \in Requests :
       \/ \E o \in Asked : \E code \in Typed(o) : Arrive(r, o, code)
       \/ FindUser(r) \/ FindNobody(r)
       \/ CountCodes(r) \/ RateLimited(r) \/ EmailTaken(r) \/ EmailFree(r)
       \/ StampExpiry(r) \/ StoreCode(r) \/ SendMail(r) \/ SendFails(r)
       \/ NoCode(r) \/ TooManyTries(r) \/ CompareCode(r) \/ CountTry(r) \/ LoseTry(r)
       \/ SetEmailVerified(r) \/ EmailNotUnique(r) \/ ResetPassword(r) \/ DeleteCodes(r)
       \/ RefuseChange(r) \/ CheckPassword(r) \/ ChangePassword(r)
       \/ Fail(r)
  \/ Quiescent

Spec == Init /\ [][Next]_vars
-----------------------------------------------------------------------------
\* An address counts as verified only for a user who typed a code that was
\* mailed to that very address for that purpose, however many addresses were
\* asked for meanwhile (lines 103-105, 115).
EmailProven ==
  \A u \in Users : user[u].verified =>
    \/ InitialUsers[u].verified /\ user[u].email = InitialUsers[u].email
    \/ \E r \in Requests, m \in mail :
         /\ m.id = typed[r] /\ who[r] = u /\ op[r].kind = "confirm"
         /\ m.user = u /\ m.purpose = "verify_email" /\ m.email = user[u].email

\* No two accounts have verified one address, although the check at lines
\* 92-96 is made long before the address is stored.
VerifiedEmailUnique ==
  \A u, v \in Users :
    user[u].verified /\ user[v].verified /\ user[u].email = user[v].email => u = v

\* A verified address is never lost to a failed mail or a mistyped address: it
\* is only ever replaced by another verified one (lines 103-105).
VerifiedEmailKept == [][\A u \in Users : user[u].verified => user'[u].verified]_vars

\* An account without a password never gets one through a code (lines 136-138)
\* or a change (lines 183-185).
SocialStaysPasswordless ==
  [][\A u \in Users : user[u].password = NoPassword => user'[u].password = NoPassword]_vars

\* A code stops working for good when a newer one was asked for after it was
\* stored, even when the newer one has expired first ("the latest code", 223).
SupersededStaysDead ==
  [][\A r \in Requests : At(r, "confirm", "found") /\ phase'[r] = "matched" =>
       \A c \in CodesOf(who[r], op[r].purpose) :
         c.id > held'[r].id => c.expiresAt < held'[r].createdAt + CodeTTL]_vars

\* A code confirms once ("single-use", migration 000017): after a confirmation
\* that was answered with success it does not match again.  A confirmation that
\* failed half-way, or one under way at the same time, may still use it.
SpentStaysDead ==
  [][\A r \in Requests : At(r, "confirm", "found") /\ phase'[r] = "matched" =>
       ~ \E q \in Requests :
           /\ phase[q] = "done" /\ op[q].kind = "confirm" /\ reply[q] = "ok"
           /\ typed[q] = typed[r]]_vars

\* No wrong try goes uncounted, however many are made at once, unless the
\* database refused to count it (line 236).
TriesCounted ==
  \A c \in codes :
    c.attempts = Cardinality({r \in Requests :
      reply[r] = "unauthorized" /\ held[r] # Nothing /\ held[r].id = c.id})

\* Unless requests for a code overlapped, no account has more codes on record
\* in a window than it may (line 197).
RateKept ==
  overlapped \/ \A u \in Users, p \in Purposes :
    Cardinality({c \in CodesOf(u, p) : clock < c.createdAt + RateWindow}) <= MaxPerWindow
=============================================================================
