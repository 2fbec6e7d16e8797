------------------------------ MODULE Accounts ------------------------------
(***************************************************************************)
(* Accounts (internal/service/auth_service.go:256-446, apple_auth.go):     *)
(* sign-up, login with a password, login with Google or Apple, which makes *)
(* an account at the first time, profile and deletion.  As in AuthCodes,   *)
(* no request runs in a transaction: every action is one statement, and    *)
(* those of other requests come between.                                   *)
(*                                                                         *)
(* Two random suffixes of a username are taken to differ.  An address is   *)
(* told apart by its local part, from which the username is made.          *)
(***************************************************************************)
EXTENDS Integers, Sequences

CONSTANTS
  Names,       \* usernames asked for, and local parts of addresses
  Subs,        \* the identities Google and Apple vouch for (their "sub")
  AppleSubs,   \* those of Apple
  NoSub,       \* google_sub and apple_sub of an account that signed up here
  NoEmail,     \* no address
  Themes,      \* values of theme; the first of a new account is DefaultTheme
  DefaultTheme,
  Unset,       \* a field that a profile request leaves out
  Requests,    \* identities of HTTP requests, each used once
  Asked,       \* the operations that clients ask for, but for whose token
  InitialAccounts, \* the users rows at the start, by users.id
  MaxTries,    \* how often an insert is tried (5)
  Cooldown,    \* displayNameChangeCooldown, in ticks
  Horizon,     \* bound of the clock, for model checking
  Nothing      \* no request, account or answer yet

\* A username as asked for, made from an address, or made up for an Apple account
\* without one; and one with a random suffix of a request's n-th try.
BaseNames == {<<n>> : n \in Names \cup {"user"}} \cup {<<"apple", r>> : r \in Requests}
Suffixed(b, r, n) == b \o <<r, n>>
Usernames == BaseNames \cup {Suffixed(b, r, n) : b \in BaseNames, r \in Requests, n \in 1..MaxTries}

\* language is kept like theme and left out, and so are names and passwords.
Account ==
  [username : Usernames, sub : Subs \cup {NoSub}, email : Names \cup {NoEmail},
   renamedAt : Int, theme : Themes]

Never == -1  \* display_name_updated_at IS NULL

Operation ==
  [kind : {"signup"}, name : Names, email : Names \cup {NoEmail}]
    \cup [kind : {"login"}, name : Names, right : BOOLEAN]
    \cup [kind : {"social"}, sub : Subs, email : Names \cup {NoEmail}]
    \cup [kind : {"profile"}, rename : BOOLEAN, theme : Themes \cup {"invalid", Unset}]
    \cup [kind : {"delete"}]

ASSUME AccountsAssumption ==
  /\ NoSub \notin Subs /\ NoEmail \notin Names /\ AppleSubs \subseteq Subs
  /\ DefaultTheme \in Themes /\ {"invalid", Unset} \cap Themes = {} /\ Unset # "invalid"
  /\ Nothing \notin Nat
  /\ Asked \subseteq Operation
  /\ InitialAccounts \in Seq(Account)
  /\ \A i \in DOMAIN InitialAccounts : InitialAccounts[i].renamedAt = Never
  /\ \A i, j \in DOMAIN InitialAccounts :
       \/ InitialAccounts[i].username = InitialAccounts[j].username
       \/ InitialAccounts[i].sub = InitialAccounts[j].sub /\ InitialAccounts[i].sub # NoSub
       => i = j
  \* the suffixes that requests draw are new
  /\ \A i \in DOMAIN InitialAccounts, b \in BaseNames, r \in Requests, n \in 1..MaxTries :
       InitialAccounts[i].username # Suffixed(b, r, n)
  /\ MaxTries \in Nat /\ MaxTries >= 2
  /\ Cooldown \in Nat \ {0} /\ Horizon \in Nat

VARIABLES
  clock,      \* the time, of server and database alike
  accounts,   \* table users, by id
  lastId,     \* the last value of the sequence of users.id
  phase,      \* how far each request is
  op,         \* what each request asks for
  user,       \* the account that the token of a request, or its sign-up, names
  tries,      \* how often a first login has tried to insert
  reply,      \* what each request was answered
  token,      \* the account named by the token in the answer
  renames,    \* history: when the name of each account was changed
  overlapped  \* history: two changes of one name were allowed at once

requests == <<phase, op, user, tries, reply, token>>
vars     == <<clock, accounts, lastId, requests, renames, overlapped>>

Phases == {"idle", "arrived", "registered", "missing", "allowed", "named", "done"}
Replies ==
  {"ok", "unauthorized", "conflict", "rate_limited", "not_found", "invalid", "error"}

TypeOK ==
  /\ clock \in Nat /\ lastId \in Nat
  /\ DOMAIN accounts \subseteq 1..lastId
  /\ accounts \in [DOMAIN accounts -> Account]
  /\ phase \in [Requests -> Phases]
  /\ op \in [Requests -> Operation \cup {Nothing}]
  /\ user \in [Requests -> 1..lastId \cup {Nothing}]
  /\ tries \in [Requests -> 0..MaxTries]
  /\ reply \in [Requests -> Replies \cup {Nothing}]
  /\ token \in [Requests -> 1..lastId \cup {Nothing}]
  /\ DOMAIN renames = 1..lastId
  /\ \A id \in 1..lastId : renames[id] \in Seq(Nat)
  /\ overlapped \in BOOLEAN

Ids == DOMAIN accounts

Init ==
  /\ clock = 0
  /\ accounts = InitialAccounts
  /\ lastId = Len(InitialAccounts)
  /\ phase = [r \in Requests |-> "idle"]
  /\ op = [r \in Requests |-> Nothing]
  /\ user = [r \in Requests |-> Nothing]
  /\ tries = [r \in Requests |-> 0]
  /\ reply = [r \in Requests |-> Nothing]
  /\ token = [r \in Requests |-> Nothing]
  /\ renames = [id \in DOMAIN InitialAccounts |-> <<>>]
  /\ overlapped = FALSE

At(r, kind, p) == phase[r] = p /\ op[r].kind = kind
Goto(r, p) == phase' = [phase EXCEPT ![r] = p] /\ UNCHANGED <<reply, token>>
Answer(r, a) ==
  /\ phase' = [phase EXCEPT ![r] = "done"]
  /\ reply' = [reply EXCEPT ![r] = a]
  /\ UNCHANGED token
\* The request is answered with a token, or that answer or the token fails.
Welcome(r, id) ==
  \/ /\ phase' = [phase EXCEPT ![r] = "done"]
     /\ reply' = [reply EXCEPT ![r] = "ok"]
     /\ token' = [token EXCEPT ![r] = id]
  \/ Answer(r, "error")

\* The tokens that clients hold.  Deleting an account does not revoke them.
Tokens == ({token[r] : r \in Requests} \ {Nothing}) \cup DOMAIN InitialAccounts

UsernameTaken(n) == \E id \in Ids : accounts[id].username = n
SubTaken(s) == \E id \in Ids : accounts[id].sub = s

NextId == lastId + 1

\* INSERT INTO users; the sequence advances even if the insert is refused.
Insert(row) ==
  /\ accounts' = [id \in Ids \cup {NextId} |-> IF id = NextId THEN row ELSE accounts[id]]
  /\ lastId' = lastId + 1
  /\ renames' = [id \in 1..lastId + 1 |-> IF id > lastId THEN <<>> ELSE renames[id]]
InsertRefused ==
  /\ lastId' = lastId + 1
  /\ renames' = [id \in 1..lastId + 1 |-> IF id > lastId THEN <<>> ELSE renames[id]]
  /\ UNCHANGED accounts
NewAccount(n, s, e) ==
  [username |-> n, sub |-> s, email |-> e, renamedAt |-> Never, theme |-> DefaultTheme]
-----------------------------------------------------------------------------
Tick ==
  /\ clock < Horizon
  /\ clock' = clock + 1
  /\ UNCHANGED <<accounts, lastId, requests, renames, overlapped>>

\* A request arrives; profile and deletion carry a token (RequireAuth).
Arrive(r, o) ==
  /\ phase[r] = "idle"
  /\ op' = [op EXCEPT ![r] = o]
  /\ IF o.kind \in {"profile", "delete"}
       THEN \E id \in Tokens : user' = [user EXCEPT ![r] = id]
       ELSE UNCHANGED user
  /\ Goto(r, "arrived")
  /\ UNCHANGED <<clock, accounts, lastId, tries, renames, overlapped>>

SignUp(r) ==
  /\ At(r, "signup", "arrived")
  /\ ~ UsernameTaken(<<op[r].name>>)
  /\ Insert(NewAccount(<<op[r].name>>, NoSub, NoEmail))
  /\ user' = [user EXCEPT ![r] = NextId]
  /\ IF op[r].email # NoEmail
       THEN Goto(r, "registered") \/ Answer(r, "error")
       ELSE Welcome(r, NextId)
  /\ UNCHANGED <<clock, op, tries, overlapped>>

SignUpTaken(r) ==
  /\ At(r, "signup", "arrived")
  /\ UsernameTaken(<<op[r].name>>)
  /\ InsertRefused
  /\ Answer(r, "conflict")
  /\ UNCHANGED <<clock, op, user, tries, overlapped>>

\* SetPendingEmail, whose failure is not looked at (auth_handler.go:30).
SetPendingEmail(r) ==
  /\ At(r, "signup", "registered")
  /\ \/ user[r] \in Ids /\ accounts' = [accounts EXCEPT ![user[r]].email = op[r].email]
     \/ UNCHANGED accounts
  /\ Welcome(r, user[r])
  /\ UNCHANGED <<clock, lastId, op, user, tries, renames, overlapped>>

\* An account made by Google or Apple has no password that is right.
Login(r) ==
  /\ At(r, "login", "arrived")
  /\ \E id \in Ids :
       /\ accounts[id].username = <<op[r].name>> /\ accounts[id].sub = NoSub /\ op[r].right
       /\ Welcome(r, id)
  /\ UNCHANGED <<clock, accounts, lastId, op, user, tries, renames, overlapped>>

RefuseLogin(r) ==
  /\ At(r, "login", "arrived")
  /\ \A id \in Ids :
       accounts[id].username = <<op[r].name>> => accounts[id].sub # NoSub \/ ~ op[r].right
  /\ Answer(r, "unauthorized")
  /\ UNCHANGED <<clock, accounts, lastId, op, user, tries, renames, overlapped>>

\* Mutant of SocialLogin: the account is looked up by the address.
SocialLoginByEmail(r) ==
  /\ At(r, "social", "arrived")
  /\ \E id \in Ids : accounts[id].email = op[r].email /\ Welcome(r, id)
  /\ UNCHANGED <<clock, accounts, lastId, op, user, tries, renames, overlapped>>

SocialLogin(r) ==
  /\ At(r, "social", "arrived")
  /\ \E id \in Ids : accounts[id].sub = op[r].sub /\ Welcome(r, id)
  /\ UNCHANGED <<clock, accounts, lastId, op, user, tries, renames, overlapped>>

SocialMissing(r) ==
  /\ At(r, "social", "arrived")
  /\ ~ SubTaken(op[r].sub)
  /\ Goto(r, "missing")
  /\ UNCHANGED <<clock, accounts, lastId, op, user, tries, renames, overlapped>>

\* usernameFromEmail, and what Apple does without an address.
Base(r) ==
  IF op[r].email # NoEmail THEN <<op[r].email>>
  ELSE IF op[r].sub \in AppleSubs THEN <<"apple", r>> ELSE <<"user">>

\* Mutant of Candidate: no suffix on the later tries.
CandidateAgain(r) == Base(r)

\* The username of the next try.
Candidate(r) == IF tries[r] = 0 THEN Base(r) ELSE Suffixed(Base(r), r, tries[r])

\* Mutant of CreateSocial: google_sub has no unique key.
CreateSocialAnyway(r) ==
  /\ phase[r] = "missing"
  /\ ~ UsernameTaken(Candidate(r))
  /\ Insert(NewAccount(Candidate(r), op[r].sub, op[r].email))
  /\ Welcome(r, NextId)
  /\ UNCHANGED <<clock, op, user, tries, overlapped>>

CreateSocial(r) ==
  /\ phase[r] = "missing"
  /\ ~ UsernameTaken(Candidate(r)) /\ ~ SubTaken(op[r].sub)
  /\ Insert(NewAccount(Candidate(r), op[r].sub, op[r].email))
  /\ Welcome(r, NextId)
  /\ UNCHANGED <<clock, op, user, tries, overlapped>>

\* Mutant of SocialTaken: one try too many.
SocialTakenOnceMore(r) ==
  /\ phase[r] = "missing"
  /\ UsernameTaken(Candidate(r)) \/ SubTaken(op[r].sub)
  /\ InsertRefused
  /\ tries' = [tries EXCEPT ![r] = @ + 1]
  /\ IF tries[r] > MaxTries THEN Answer(r, "conflict") ELSE Goto(r, "missing")
  /\ UNCHANGED <<clock, op, user, overlapped>>

\* A unique key refuses the row: the username's, or that of the identity, which
\* the code does not tell apart (lines 367-371).
SocialTaken(r) ==
  /\ phase[r] = "missing"
  /\ UsernameTaken(Candidate(r)) \/ SubTaken(op[r].sub)
  /\ InsertRefused
  /\ tries' = [tries EXCEPT ![r] = @ + 1]
  /\ IF tries[r] + 1 = MaxTries THEN Answer(r, "conflict") ELSE Goto(r, "missing")
  /\ UNCHANGED <<clock, op, user, overlapped>>
-----------------------------------------------------------------------------
(* UpdateProfile: the name first, then the theme.                           *)

\* Another request of the same user has been allowed to change the name.
Renaming(r) == \E q \in Requests \ {r} : phase[q] = "allowed" /\ user[q] = user[r]

CheckCooldown(r) ==
  /\ At(r, "profile", "arrived") /\ op[r].rename
  /\ user[r] \in Ids
  /\ LET at == accounts[user[r]].renamedAt IN at = Never \/ clock - at >= Cooldown
  /\ Goto(r, "allowed")
  /\ overlapped' = (overlapped \/ Renaming(r))
  /\ UNCHANGED <<clock, accounts, lastId, op, user, tries, renames>>

RenamedTooSoon(r) ==
  /\ At(r, "profile", "arrived") /\ op[r].rename
  /\ user[r] \in Ids
  /\ accounts[user[r]].renamedAt # Never /\ clock - accounts[user[r]].renamedAt < Cooldown
  /\ Answer(r, "rate_limited")
  /\ UNCHANGED <<clock, accounts, lastId, op, user, tries, renames, overlapped>>

\* Mutant of UpdateDisplayName: display_name_updated_at is left as it was once set.
UpdateDisplayNameOnly(r) ==
  /\ phase[r] = "allowed" /\ user[r] \in Ids
  /\ accounts' = [accounts EXCEPT ![user[r]].renamedAt = IF @ = Never THEN clock ELSE @]
  /\ renames' = [renames EXCEPT ![user[r]] = Append(@, clock)]
  /\ IF op[r].theme = Unset
       THEN \E a \in {"ok", "error"} : Answer(r, a)
       ELSE Goto(r, "named") \/ Answer(r, "error")
  /\ UNCHANGED <<clock, lastId, op, user, tries, overlapped>>

UpdateDisplayName(r) ==
  /\ phase[r] = "allowed" /\ user[r] \in Ids
  /\ accounts' = [accounts EXCEPT ![user[r]].renamedAt = clock]
  /\ renames' = [renames EXCEPT ![user[r]] = Append(@, clock)]
  /\ IF op[r].theme = Unset
       THEN \E a \in {"ok", "error"} : Answer(r, a)
       ELSE Goto(r, "named") \/ Answer(r, "error")
  /\ UNCHANGED <<clock, lastId, op, user, tries, overlapped>>

Styling(r) == phase[r] = "named" \/ (At(r, "profile", "arrived") /\ ~ op[r].rename)

\* Mutant of Preferred: a field that is left out gets its default.
PreferredOrDefault(old, new) == IF new = Unset THEN DefaultTheme ELSE new

\* COALESCE(new, old)
Preferred(old, new) == IF new = Unset THEN old ELSE new

\* The language alone is the case of a theme that is left out.
UpdateThemeLanguage(r) ==
  /\ Styling(r) /\ op[r].theme # "invalid" /\ user[r] \in Ids
  /\ accounts' = [accounts EXCEPT ![user[r]].theme = Preferred(@, op[r].theme)]
  /\ \E a \in {"ok", "error"} : Answer(r, a)
  /\ UNCHANGED <<clock, lastId, op, user, tries, renames, overlapped>>

\* An unknown theme is refused after the name has been changed.
RefuseTheme(r) ==
  /\ Styling(r) /\ op[r].theme = "invalid"
  /\ Answer(r, "invalid")
  /\ UNCHANGED <<clock, accounts, lastId, op, user, tries, renames, overlapped>>

\* The account has been deleted.
ProfileMissing(r) ==
  /\ \/ At(r, "profile", "arrived") /\ op[r].rename
     \/ phase[r] = "allowed"
     \/ Styling(r) /\ op[r].theme # "invalid"
  /\ user[r] \notin Ids
  /\ Answer(r, "not_found")
  /\ UNCHANGED <<clock, accounts, lastId, op, user, tries, renames, overlapped>>

DeleteUser(r) ==
  /\ At(r, "delete", "arrived")
  /\ accounts' = [id \in Ids \ {user[r]} |-> accounts[id]]
  /\ \E a \in {"ok", "error"} : Answer(r, a)
  /\ UNCHANGED <<clock, lastId, op, user, tries, renames, overlapped>>

\* A statement fails, other than by a unique key.
Fail(r) ==
  /\ phase[r] \notin {"idle", "registered", "done"}
  /\ Answer(r, "error")
  /\ UNCHANGED <<clock, accounts, lastId, op, user, tries, renames, overlapped>>

Quiescent == (\A r \in Requests : phase[r] = "done") /\ UNCHANGED vars

Next ==
  \/ Tick
  \/ \E r \in Requests :
       \/ \E o \in Asked : Arrive(r, o)
       \/ SignUp(r) \/ SignUpTaken(r) \/ SetPendingEmail(r) \/ Login(r) \/ RefuseLogin(r)
       \/ SocialLogin(r) \/ SocialMissing(r) \/ CreateSocial(r) \/ SocialTaken(r)
       \/ CheckCooldown(r) \/ RenamedTooSoon(r) \/ UpdateDisplayName(r)
       \/ UpdateThemeLanguage(r) \/ RefuseTheme(r) \/ ProfileMissing(r)
       \/ DeleteUser(r) \/ Fail(r)
  \/ Quiescent

Spec == Init /\ [][Next]_vars
-----------------------------------------------------------------------------
\* However many first logins of one identity run at once, it has one account
\* (lines 339-371, migrations 000015 and 000016).
OneAccountPerIdentity ==
  \A i, j \in Ids : accounts[i].sub = accounts[j].sub /\ accounts[i].sub # NoSub => i = j

\* A token opens the account of whoever got it, or none: not that of somebody
\* who has the same address (line 317) or who came after a deletion.
Owns(id, o) ==
  IF o.kind = "social" THEN accounts[id].sub = o.sub ELSE accounts[id].username = <<o.name>>
TokenStaysWithOwner ==
  /\ \A r \in Requests : token[r] \in Ids => Owns(token[r], op[r])
  /\ \A id \in Ids \cap DOMAIN InitialAccounts :
       /\ accounts[id].username = InitialAccounts[id].username
       /\ accounts[id].sub = InitialAccounts[id].sub

\* A first login is refused as a conflict only if another login has just made
\* the account, so that trying again will open it; a username that is taken
\* refuses nobody (lines 352-371).
ConflictOnlyIfRaced ==
  [][\A r \in Requests :
       At(r, "social", "missing") /\ phase'[r] = "done" /\ reply'[r] = "conflict" =>
         SubTaken(op[r].sub)]_vars

\* A name is changed once in a cooldown, unless two changes were allowed before
\* either was made (lines 430-434).
RenamedRarely ==
  overlapped \/ \A id \in DOMAIN renames : \A i \in 2..Len(renames[id]) :
    renames[id][i] - renames[id][i - 1] >= Cooldown

\* A request that says nothing of the theme never changes it, whatever other
\* devices set meanwhile ("partial update", line 437).
UnmentionedThemeKept ==
  [][\A id \in Ids \cap DOMAIN accounts' : accounts'[id].theme # accounts[id].theme =>
       \E r \in Requests :
         /\ phase[r] # "done" /\ phase'[r] = "done" /\ user[r] = id
         /\ op[r].kind = "profile" /\ op[r].theme = accounts'[id].theme]_vars
=============================================================================
