-------------------------- MODULE Accounts_proofs ---------------------------
(***************************************************************************)
(* Proofs about Accounts: what holds for any number of requests, accounts  *)
(* and identities.                                                         *)
(***************************************************************************)
EXTENDS Accounts, TLAPS

\* What a request that has got so far knows.
Knows(r) ==
  /\ phase[r] # "idle" => op[r] \in Operation
  /\ phase[r] # "done" => token[r] = Nothing
  /\ phase[r] = "registered" => op[r].kind = "signup" /\ user[r] \in 1..lastId
  /\ phase[r] = "missing" => op[r].kind = "social" /\ tries[r] < MaxTries
  /\ phase[r] = "arrived" =>
       /\ tries[r] = 0
       /\ op[r].kind \in {"profile", "delete"} => user[r] \in 1..lastId
  /\ phase[r] \in {"allowed", "named"} => op[r].kind = "profile" /\ user[r] \in 1..lastId

Control ==
  /\ Len(InitialAccounts) <= lastId
  /\ \A r \in Requests : phase[r] = "idle" => tries[r] = 0
  /\ \A r \in Requests : Knows(r)

\* The username of a try is one of Usernames.
LEMMA CandidateTyped ==
  ASSUME NEW r \in Requests, op[r] \in Operation, op[r].kind = "social",
         tries[r] \in 0..MaxTries, tries[r] < MaxTries
  PROVE  Candidate(r) \in Usernames
<1>1. op[r].email \in Names \cup {NoEmail}
  BY DEF Operation
<1>2. Base(r) \in BaseNames
  BY <1>1 DEF Base, BaseNames
<1>3. CASE tries[r] = 0
  BY <1>2, <1>3 DEF Candidate, Usernames
<1>4. CASE tries[r] # 0
  <2>1. tries[r] \in 1..MaxTries
    BY <1>4, AccountsAssumption DEF AccountsAssumption
  <2> QED BY <1>2, <1>4, <2>1 DEF Candidate, Usernames
<1> QED BY <1>3, <1>4

\* The start is typed, and no request knows anything yet.
LEMMA InitControl == Init => TypeOK /\ Control
<1> SUFFICES ASSUME Init PROVE TypeOK /\ Control
  OBVIOUS
<1>1. InitialAccounts \in Seq(Account) /\ MaxTries \in Nat /\ lastId = Len(InitialAccounts)
  BY AccountsAssumption DEF AccountsAssumption, Init
<1>2. DOMAIN InitialAccounts = 1..lastId /\ lastId \in Nat
  BY <1>1
<1>3. accounts \in [DOMAIN accounts -> Account]
  BY <1>1 DEF Init
<1>4. TypeOK
  <2>1. clock \in Nat /\ lastId \in Nat /\ overlapped \in BOOLEAN
    BY <1>2 DEF Init
  <2>2. DOMAIN accounts \subseteq 1..lastId
    BY <1>2 DEF Init
  <2>3. DOMAIN renames = 1..lastId /\ \A id \in 1..lastId : renames[id] \in Seq(Nat)
    BY <1>2 DEF Init
  <2>4. /\ phase \in [Requests -> Phases]
        /\ op \in [Requests -> Operation \cup {Nothing}]
        /\ user \in [Requests -> 1..lastId \cup {Nothing}]
        /\ reply \in [Requests -> Replies \cup {Nothing}]
        /\ token \in [Requests -> 1..lastId \cup {Nothing}]
        /\ tries \in [Requests -> 0..MaxTries]
    BY <1>1 DEF Init, Phases
  <2> QED BY <1>3, <2>1, <2>2, <2>3, <2>4 DEF TypeOK
<1>5. Control
  BY <1>1 DEF Init, Control, Knows
<1> QED BY <1>4, <1>5

\* A candidate makes an account of the right type.
LEMMA InsertTyped ==
  ASSUME TypeOK, NEW row \in Account, Insert(row)
  PROVE  /\ lastId' = lastId + 1 /\ DOMAIN accounts' = Ids \cup {NextId}
         /\ NextId \notin Ids /\ NextId \in 1..lastId'
         /\ accounts'[NextId] = row
         /\ \A id \in Ids : accounts'[id] = accounts[id]
         /\ accounts' \in [DOMAIN accounts' -> Account]
         /\ DOMAIN accounts' \subseteq 1..lastId' /\ lastId' \in Nat
         /\ DOMAIN renames' = 1..lastId' /\ \A id \in 1..lastId' : renames'[id] \in Seq(Nat)
         /\ renames'[NextId] = <<>> /\ \A id \in 1..lastId : renames'[id] = renames[id]
BY DEF TypeOK, Insert, NextId, Ids

\* A refused insert only spends an id.
LEMMA RefusedTyped ==
  ASSUME TypeOK, InsertRefused
  PROVE  /\ lastId' = lastId + 1 /\ lastId' \in Nat /\ accounts' = accounts
         /\ DOMAIN accounts' \subseteq 1..lastId'
         /\ DOMAIN renames' = 1..lastId' /\ \A id \in 1..lastId' : renames'[id] \in Seq(Nat)
         /\ \A id \in 1..lastId : renames'[id] = renames[id]
BY DEF TypeOK, InsertRefused

\* TypeOK by tables and by requests.
TablesOK ==
  /\ clock \in Nat /\ lastId \in Nat
  /\ DOMAIN accounts \subseteq 1..lastId
  /\ accounts \in [DOMAIN accounts -> Account]
  /\ DOMAIN renames = 1..lastId
  /\ \A id \in 1..lastId : renames[id] \in Seq(Nat)
  /\ overlapped \in BOOLEAN

RequestsOK ==
  /\ phase \in [Requests -> Phases]
  /\ op \in [Requests -> Operation \cup {Nothing}]
  /\ user \in [Requests -> 1..lastId \cup {Nothing}]
  /\ tries \in [Requests -> 0..MaxTries]
  /\ reply \in [Requests -> Replies \cup {Nothing}]
  /\ token \in [Requests -> 1..lastId \cup {Nothing}]

\* The two halves are TypeOK.
LEMMA TypeParts == TypeOK <=> TablesOK /\ RequestsOK
BY DEF TypeOK, TablesOK, RequestsOK

\* More ids have been given: what was an id still is one.
LEMMA Widen ==
  ASSUME TablesOK, RequestsOK, lastId' = lastId + 1
  PROVE  /\ user \in [Requests -> 1..lastId' \cup {Nothing}]
         /\ token \in [Requests -> 1..lastId' \cup {Nothing}]
BY DEF TablesOK, RequestsOK

\* An answer, with a token or without, is of the right type.
LEMMA AnswerTyped ==
  ASSUME RequestsOK, NEW r \in Requests, NEW id \in 1..lastId',
         token \in [Requests -> 1..lastId' \cup {Nothing}],
         NEW a \in Replies, Answer(r, a) \/ Welcome(r, id)
  PROVE  /\ phase' \in [Requests -> Phases]
         /\ reply' \in [Requests -> Replies \cup {Nothing}]
         /\ token' \in [Requests -> 1..lastId' \cup {Nothing}]
BY DEF RequestsOK, Answer, Welcome, Phases, Replies

\* Changing one field of a row keeps its type.
LEMMA RowTyped ==
  ASSUME TablesOK, NEW id \in Ids
  PROVE  /\ \A e \in Names \cup {NoEmail} : [accounts EXCEPT ![id].email = e] \in [Ids -> Account]
         /\ \A t \in Nat : [accounts EXCEPT ![id].renamedAt = t] \in [Ids -> Account]
         /\ \A t \in Themes : [accounts EXCEPT ![id].theme = t] \in [Ids -> Account]
<1>1. accounts \in [Ids -> Account] /\ accounts[id] \in Account
  BY DEF TablesOK, Ids
<1>2. \A e \in Names \cup {NoEmail} : [accounts[id] EXCEPT !.email = e] \in Account
  BY <1>1 DEF Account
<1>3. \A t \in Nat : [accounts[id] EXCEPT !.renamedAt = t] \in Account
  BY <1>1 DEF Account
<1>4. \A t \in Themes : [accounts[id] EXCEPT !.theme = t] \in Account
  BY <1>1 DEF Account
<1> QED BY <1>1, <1>2, <1>3, <1>4

\* Every step keeps the types, and what a request must know by its phase.
LEMMA TypeStep == TypeOK /\ Control /\ [Next]_vars => TypeOK' /\ Control'
<1> SUFFICES ASSUME TypeOK, Control, [Next]_vars
             PROVE  TablesOK' /\ RequestsOK' /\ Control'
  BY TypeParts DEF TypeOK, TablesOK, RequestsOK
<1>0. /\ Nothing \notin Nat /\ MaxTries \in Nat /\ MaxTries >= 2 /\ Asked \subseteq Operation
      /\ InitialAccounts \in Seq(Account) /\ DefaultTheme \in Themes
      /\ TablesOK /\ RequestsOK
  BY AccountsAssumption, TypeParts DEF AccountsAssumption
<1> USE <1>0 DEF Goto, Answer, At
<1>1. CASE Tick
  BY <1>1 DEF Tick, requests, TablesOK, RequestsOK, Control, Knows
<1>2. ASSUME NEW r \in Requests, NEW o \in Asked, Arrive(r, o)
      PROVE  TablesOK' /\ RequestsOK' /\ Control'
  <2>1. TablesOK'
    BY <1>2 DEF Arrive, TablesOK
  <2>2. Tokens \subseteq 1..lastId
    <3>1. DOMAIN InitialAccounts = 1..Len(InitialAccounts) /\ Len(InitialAccounts) \in Nat
      OBVIOUS
    <3> QED BY <3>1 DEF Tokens, RequestsOK, TablesOK, Control
  <2>3. /\ user' \in [Requests -> 1..lastId \cup {Nothing}]
        /\ \A q \in Requests \ {r} : user'[q] = user[q]
        /\ o.kind \in {"profile", "delete"} => user'[r] \in 1..lastId
    BY <1>2, <2>2 DEF Arrive, RequestsOK
  <2>4. RequestsOK'
    BY <1>2, <2>3 DEF Arrive, RequestsOK, Phases
  <2>5. Control'
    BY <1>2, <2>3 DEF Arrive, RequestsOK, Control, Knows
  <2> QED BY <2>1, <2>4, <2>5
<1>3. ASSUME NEW r \in Requests, SignUp(r) PROVE TablesOK' /\ RequestsOK' /\ Control'
  <2>1. op[r] \in Operation /\ op[r].name \in Names
    BY <1>3 DEF SignUp, Control, Knows, Operation
  <2>2. NewAccount(<<op[r].name>>, NoSub, NoEmail) \in Account
    BY <2>1 DEF NewAccount, Account, Usernames, BaseNames, Never
  <2>3. Insert(NewAccount(<<op[r].name>>, NoSub, NoEmail))
    BY <1>3 DEF SignUp
  <2>4. TablesOK' /\ lastId' = lastId + 1 /\ NextId \in 1..lastId'
    BY <1>3, <2>2, <2>3, InsertTyped DEF SignUp, TablesOK
  <2>5. RequestsOK'
    <3>1. user' \in [Requests -> 1..lastId' \cup {Nothing}]
      BY <1>3, <2>4, Widen DEF SignUp, RequestsOK
    <3>2. CASE Goto(r, "registered")
      BY <1>3, <2>4, <3>1, <3>2, Widen DEF SignUp, RequestsOK, Phases
    <3>3. CASE Answer(r, "error") \/ Welcome(r, NextId)
      BY <1>3, <2>4, <3>1, <3>3, Widen, AnswerTyped DEF SignUp, RequestsOK, Replies
    <3> QED BY <1>3, <3>2, <3>3 DEF SignUp
  <2>6. Control'
    BY <1>3, <2>1, <2>4 DEF SignUp, Welcome, RequestsOK, TablesOK, Control, Knows
  <2> QED BY <2>4, <2>5, <2>6
<1>4. ASSUME NEW r \in Requests, SignUpTaken(r) PROVE TablesOK' /\ RequestsOK' /\ Control'
  <2>1. TablesOK' /\ lastId' = lastId + 1
    BY <1>4, RefusedTyped DEF SignUpTaken, TablesOK
  <2>2. RequestsOK'
    BY <1>4, <2>1 DEF SignUpTaken, RequestsOK, TablesOK, Phases, Replies
  <2>3. Control'
    BY <1>4, <2>1 DEF SignUpTaken, RequestsOK, TablesOK, Control, Knows
  <2> QED BY <2>1, <2>2, <2>3
<1>5. ASSUME NEW r \in Requests, CreateSocial(r) PROVE TablesOK' /\ RequestsOK' /\ Control'
  <2>1. /\ op[r] \in Operation /\ op[r].kind = "social"
        /\ tries[r] \in 0..MaxTries /\ tries[r] < MaxTries
    BY <1>5 DEF CreateSocial, Control, Knows, RequestsOK, Phases
  <2>2. op[r].sub \in Subs /\ op[r].email \in Names \cup {NoEmail}
    BY <2>1 DEF Operation
  <2>3. NewAccount(Candidate(r), op[r].sub, op[r].email) \in Account
    BY <2>1, <2>2, CandidateTyped DEF NewAccount, Account, Never
  <2>4. Insert(NewAccount(Candidate(r), op[r].sub, op[r].email))
    BY <1>5 DEF CreateSocial
  <2>5. TablesOK' /\ lastId' = lastId + 1 /\ NextId \in 1..lastId'
    BY <1>5, <2>3, <2>4, InsertTyped DEF CreateSocial, TablesOK
  <2>6. RequestsOK'
    BY <1>5, <2>5, Widen, AnswerTyped DEF CreateSocial, RequestsOK, Replies
  <2>7. Control'
    BY <1>5, <2>1, <2>5 DEF CreateSocial, Welcome, RequestsOK, TablesOK, Control, Knows
  <2> QED BY <2>5, <2>6, <2>7
<1>6. ASSUME NEW r \in Requests, SocialTaken(r) PROVE TablesOK' /\ RequestsOK' /\ Control'
  <2>1. TablesOK' /\ lastId' = lastId + 1
    BY <1>6, RefusedTyped DEF SocialTaken, TablesOK
  <2>2. op[r] \in Operation /\ tries[r] \in 0..MaxTries /\ tries[r] < MaxTries
    BY <1>6 DEF SocialTaken, Control, Knows, RequestsOK
  <2>3. RequestsOK'
    <3>1. tries' \in [Requests -> 0..MaxTries]
      BY <1>6, <2>2 DEF SocialTaken, RequestsOK
    <3> QED BY <1>6, <2>1, <3>1, Widen DEF SocialTaken, RequestsOK, Phases, Replies
  <2>4. Control'
    BY <1>6, <2>1, <2>2 DEF SocialTaken, RequestsOK, TablesOK, Control, Knows
  <2> QED BY <2>1, <2>3, <2>4
<1>7. ASSUME NEW r \in Requests, SetPendingEmail(r) PROVE TablesOK' /\ RequestsOK' /\ Control'
  <2>0. /\ op[r] \in Operation /\ op[r].email \in Names \cup {NoEmail} /\ user[r] \in 1..lastId
        /\ op[r].kind = "signup"
    BY <1>7 DEF SetPendingEmail, Control, Knows, Operation
  <2>1. TablesOK'
    <3>1. accounts' = accounts \/ accounts' \in [Ids -> Account]
      <4>1. CASE user[r] \in Ids /\ accounts' = [accounts EXCEPT ![user[r]].email = op[r].email]
        <5>1. op[r].email \in Names \cup {NoEmail}
          BY <2>0
        <5>2. [accounts EXCEPT ![user[r]].email = op[r].email] \in [Ids -> Account]
          BY <4>1, <5>1, RowTyped
        <5> QED BY <4>1, <5>2
      <4> QED BY <1>7, <4>1 DEF SetPendingEmail
    <3> QED BY <1>7, <3>1 DEF SetPendingEmail, TablesOK, Ids
  <2>2. RequestsOK'
    BY <1>7, <2>0, AnswerTyped DEF SetPendingEmail, RequestsOK, Replies
  <2>3. Control'
    BY <1>7, <2>0 DEF SetPendingEmail, Welcome, RequestsOK, TablesOK, Control, Knows, Styling
  <2> QED BY <2>1, <2>2, <2>3
<1>8. ASSUME NEW r \in Requests, Login(r) PROVE TablesOK' /\ RequestsOK' /\ Control'
  <2>1. TablesOK'
    BY <1>8 DEF Login, TablesOK
  <2>2. RequestsOK'
    <3>1. PICK id \in Ids : Welcome(r, id)
      BY <1>8 DEF Login
    <3>2. id \in 1..lastId'
      BY <1>8, <3>1 DEF Login, TablesOK, Ids
    <3> QED BY <1>8, <3>1, <3>2, AnswerTyped DEF Login, RequestsOK, Replies
  <2>3. Control'
    BY <1>8 DEF Login, Welcome, RequestsOK, TablesOK, Control, Knows, Styling
  <2> QED BY <2>1, <2>2, <2>3
<1>9. ASSUME NEW r \in Requests, SocialLogin(r) PROVE TablesOK' /\ RequestsOK' /\ Control'
  <2>1. TablesOK'
    BY <1>9 DEF SocialLogin, TablesOK
  <2>2. RequestsOK'
    <3>1. PICK id \in Ids : Welcome(r, id)
      BY <1>9 DEF SocialLogin
    <3>2. id \in 1..lastId'
      BY <1>9, <3>1 DEF SocialLogin, TablesOK, Ids
    <3> QED BY <1>9, <3>1, <3>2, AnswerTyped DEF SocialLogin, RequestsOK, Replies
  <2>3. Control'
    BY <1>9 DEF SocialLogin, Welcome, RequestsOK, TablesOK, Control, Knows, Styling
  <2> QED BY <2>1, <2>2, <2>3
<1>10. ASSUME NEW r \in Requests, UpdateDisplayName(r) PROVE TablesOK' /\ RequestsOK' /\ Control'
  <2>1. TablesOK'
    <3>1. renames' = [renames EXCEPT ![user[r]] = Append(@, clock)] /\ user[r] \in Ids
      BY <1>10 DEF UpdateDisplayName
    <3>2. DOMAIN renames' = 1..lastId /\ \A id \in 1..lastId : renames'[id] \in Seq(Nat)
      BY <3>1 DEF TablesOK, Ids
    <3> QED BY <1>10, <3>1, <3>2, RowTyped DEF UpdateDisplayName, TablesOK, Ids
  <2>2. RequestsOK'
    BY <1>10 DEF UpdateDisplayName, RequestsOK, Phases, Replies
  <2>3. /\ lastId' = lastId /\ op' = op /\ user' = user /\ tries' = tries /\ token' = token
        /\ phase[r] = "allowed" /\ \E p \in {"done", "named"} : phase' = [phase EXCEPT ![r] = p]
    BY <1>10 DEF UpdateDisplayName
  <2>4. Control'
    BY <2>3 DEF RequestsOK, Control, Knows
  <2> QED BY <2>1, <2>2, <2>4
<1>11. ASSUME NEW r \in Requests, UpdateThemeLanguage(r) PROVE TablesOK' /\ RequestsOK' /\ Control'
  <2>0. op[r] \in Operation /\ user[r] \in 1..lastId /\ op[r].theme \in Themes \cup {Unset}
    BY <1>11 DEF UpdateThemeLanguage, Styling, Control, Knows, Operation
  <2>1. TablesOK'
    <3>1. user[r] \in Ids /\ Preferred(accounts[user[r]].theme, op[r].theme) \in Themes
      BY <1>11, <2>0 DEF UpdateThemeLanguage, Preferred, TablesOK, Ids, Account
    <3> QED BY <1>11, <3>1, RowTyped DEF UpdateThemeLanguage, TablesOK, Ids
  <2>2. RequestsOK'
    BY <1>11, <2>0 DEF UpdateThemeLanguage, Welcome, RequestsOK, TablesOK, Ids, Phases, Replies
  <2>3. Control'
    BY <1>11, <2>0 DEF UpdateThemeLanguage, Welcome, RequestsOK, TablesOK, Control, Knows, Styling
  <2> QED BY <2>1, <2>2, <2>3
<1>12. ASSUME NEW r \in Requests, RefuseTheme(r) PROVE TablesOK' /\ RequestsOK' /\ Control'
  <2>1. TablesOK'
    BY <1>12 DEF RefuseTheme, TablesOK
  <2>2. RequestsOK'
    BY <1>12 DEF RefuseTheme, Welcome, RequestsOK, TablesOK, Ids, Phases, Replies
  <2>3. Control'
    BY <1>12 DEF RefuseTheme, Welcome, RequestsOK, TablesOK, Control, Knows, Styling
  <2> QED BY <2>1, <2>2, <2>3
<1>13. ASSUME NEW r \in Requests, ProfileMissing(r) PROVE TablesOK' /\ RequestsOK' /\ Control'
  <2>1. TablesOK'
    BY <1>13 DEF ProfileMissing, TablesOK
  <2>2. RequestsOK'
    BY <1>13 DEF ProfileMissing, Welcome, RequestsOK, TablesOK, Ids, Phases, Replies
  <2>3. Control'
    BY <1>13 DEF ProfileMissing, Welcome, RequestsOK, TablesOK, Control, Knows, Styling
  <2> QED BY <2>1, <2>2, <2>3
<1>14. ASSUME NEW r \in Requests, RefuseLogin(r) PROVE TablesOK' /\ RequestsOK' /\ Control'
  BY <1>14 DEF RefuseLogin, Ids, TablesOK, RequestsOK, Control, Knows, Phases, Replies
<1>15. ASSUME NEW r \in Requests, SocialMissing(r) PROVE TablesOK' /\ RequestsOK' /\ Control'
  BY <1>15 DEF SocialMissing, Ids, TablesOK, RequestsOK, Control, Knows, Phases, Replies
<1>16. ASSUME NEW r \in Requests, CheckCooldown(r) PROVE TablesOK' /\ RequestsOK' /\ Control'
  BY <1>16 DEF CheckCooldown, Ids, TablesOK, RequestsOK, Control, Knows, Phases, Replies
<1>17. ASSUME NEW r \in Requests, RenamedTooSoon(r) PROVE TablesOK' /\ RequestsOK' /\ Control'
  BY <1>17 DEF RenamedTooSoon, Ids, TablesOK, RequestsOK, Control, Knows, Phases, Replies
<1>18. ASSUME NEW r \in Requests, DeleteUser(r) PROVE TablesOK' /\ RequestsOK' /\ Control'
  BY <1>18 DEF DeleteUser, Ids, TablesOK, RequestsOK, Control, Knows, Phases, Replies
<1>19. ASSUME NEW r \in Requests, Fail(r) PROVE TablesOK' /\ RequestsOK' /\ Control'
  BY <1>19 DEF Fail, Ids, TablesOK, RequestsOK, Control, Knows, Phases, Replies
<1>20. CASE UNCHANGED vars
  BY <1>20 DEF vars, requests, TablesOK, RequestsOK, Control, Knows
<1> QED BY <1>1, <1>2, <1>3, <1>4, <1>5, <1>6, <1>7, <1>8, <1>9, <1>10, <1>11, <1>12, <1>13, <1>14, <1>15, <1>16, <1>17, <1>18, <1>19, <1>20 DEF Next, Quiescent

\* Rows, requests and histories keep their types for any number of requests and any
\* operations asked for: no statement of auth_service.go:256-446 acts on an unknown account.
THEOREM AccountsTypeOK == Spec => []TypeOK
<1>1. Spec => [](TypeOK /\ Control)
  BY InitControl, TypeStep, PTL DEF Spec
<1> QED BY <1>1, PTL

-----------------------------------------------------------------------------
\* What a step does to the identities of accounts: they never change, and the
\* only new account is the next one of the sequence.
Kept ==
  /\ \A id \in DOMAIN accounts' : id \in DOMAIN accounts \/ id = NextId
  /\ \A id \in DOMAIN accounts' \cap DOMAIN accounts :
       /\ accounts'[id].username = accounts[id].username
       /\ accounts'[id].sub = accounts[id].sub

\* TokenStaysWithOwner, and who the account of a sign-up under way belongs to.
Owned ==
  /\ TokenStaysWithOwner
  /\ \A r \in Requests : phase[r] = "registered" /\ user[r] \in Ids =>
       accounts[user[r]].username = <<op[r].name>>

\* Updating a field other than the username and the identity keeps both.
LEMMA FieldKept ==
  ASSUME TypeOK, NEW id \in Ids, NEW e,
         \/ accounts' = [accounts EXCEPT ![id].email = e]
         \/ accounts' = [accounts EXCEPT ![id].renamedAt = e]
         \/ accounts' = [accounts EXCEPT ![id].theme = e]
  PROVE  Kept
<1>1. accounts \in [Ids -> Account] /\ accounts[id] \in Account
  BY DEF TypeOK, Ids
<1>2. DOMAIN accounts' = Ids /\ \A j \in Ids \ {id} : accounts'[j] = accounts[j]
  BY <1>1
<1>3. accounts'[id].username = accounts[id].username /\ accounts'[id].sub = accounts[id].sub
  BY <1>1 DEF Account
<1> QED BY <1>2, <1>3 DEF Kept, Ids

\* A step of one request keeps Owned if that request gets no foreign token.
LEMMA OwnedKept ==
  ASSUME TypeOK, Control, Owned, Kept, lastId' \in Nat, lastId <= lastId', NEW r \in Requests,
         \A q \in Requests \ {r} :
           /\ phase'[q] = phase[q] /\ op'[q] = op[q]
           /\ user'[q] = user[q] /\ token'[q] = token[q],
         token'[r] \in Ids' => Owns(token[r], op[r])',
         phase'[r] = "registered" /\ user'[r] \in Ids' =>
           accounts'[user'[r]].username = <<op'[r].name>>
  PROVE  Owned'
<1>1. Nothing \notin Nat /\ InitialAccounts \in Seq(Account)
  BY AccountsAssumption DEF AccountsAssumption
<1>2. ASSUME NEW q \in Requests, token'[q] \in Ids' PROVE Owns(token[q], op[q])'
  <2>1. CASE q = r
    BY <1>2, <2>1
  <2>2. CASE q # r
    <3>1. token[q] \in 1..lastId \cup {Nothing} /\ token'[q] = token[q] /\ op'[q] = op[q]
      BY <2>2 DEF TypeOK
    <3>2. token[q] # NextId
      BY <1>1, <3>1 DEF TypeOK, NextId
    <3>3. token[q] \in Ids
      BY <1>2, <3>1, <3>2 DEF Kept, Ids
    <3> QED BY <1>2, <3>1, <3>3 DEF Owned, TokenStaysWithOwner, Owns, Kept, Ids
  <2> QED BY <2>1, <2>2
<1>3. ASSUME NEW id \in DOMAIN accounts' \cap DOMAIN InitialAccounts
      PROVE  /\ accounts'[id].username = InitialAccounts[id].username
             /\ accounts'[id].sub = InitialAccounts[id].sub
  <2>1. id \in 1..Len(InitialAccounts) /\ Len(InitialAccounts) \in Nat
    BY <1>1, <1>3
  <2>2. id # NextId
    BY <2>1 DEF Control, TypeOK, NextId
  <2> QED BY <1>3, <2>2 DEF Kept, Owned, TokenStaysWithOwner, Ids
<1>4. ASSUME NEW q \in Requests, phase'[q] = "registered", user'[q] \in Ids'
      PROVE  accounts'[user'[q]].username = <<op'[q].name>>
  <2>1. CASE q = r
    BY <1>4, <2>1
  <2>2. CASE q # r
    <3>1. user[q] \in 1..lastId
      BY <1>4, <2>2 DEF Control, Knows
    <3>2. user[q] # NextId
      BY <3>1 DEF TypeOK, NextId
    <3> QED BY <1>4, <2>2, <3>2 DEF Kept, Owned, Ids
  <2> QED BY <2>1, <2>2
<1> QED BY <1>2, <1>3, <1>4 DEF Owned, TokenStaysWithOwner, Ids

\* Every step keeps Owned, and one account per identity.
LEMMA OwnedStep ==
  TypeOK /\ Control /\ Owned /\ OneAccountPerIdentity /\ [Next]_vars
    => Owned' /\ OneAccountPerIdentity'
<1> SUFFICES ASSUME TypeOK, Control, Owned, OneAccountPerIdentity, [Next]_vars
             PROVE  Owned' /\ OneAccountPerIdentity'
  OBVIOUS
<1>0. TypeOK' /\ DefaultTheme \in Themes /\ lastId \in Nat /\ lastId' \in Nat /\ Nothing \notin Nat
      /\ \A r \in Requests : phase[r] # "done" => token[r] = Nothing
  BY TypeStep, AccountsAssumption DEF TypeOK, AccountsAssumption, Control, Knows
<1> USE <1>0 DEF At
<1>a. ASSUME Kept, DOMAIN accounts' \subseteq DOMAIN accounts PROVE OneAccountPerIdentity'
  BY <1>a DEF Kept, OneAccountPerIdentity, Ids
<1>1. CASE Tick \/ UNCHANGED vars
  <2>1. UNCHANGED <<accounts, requests>>
    BY <1>1 DEF Tick, vars
  <2> QED BY <2>1 DEF requests, Owned, TokenStaysWithOwner, Owns, OneAccountPerIdentity, Ids
<1>2. ASSUME NEW r \in Requests, NEW o \in Asked, Arrive(r, o)
      PROVE  Owned' /\ OneAccountPerIdentity'
  <2>1. Kept /\ accounts' = accounts /\ lastId' = lastId
    BY <1>2 DEF Arrive, Kept
  <2>2. /\ phase'[r] = "arrived" /\ token'[r] = Nothing
        /\ \A q \in Requests \ {r} :
             /\ phase'[q] = phase[q] /\ op'[q] = op[q]
             /\ user'[q] = user[q] /\ token'[q] = token[q]
    BY <1>2 DEF Arrive, Goto, TypeOK
  <2>3. Nothing \notin Ids'
    BY <2>1 DEF TypeOK, Ids
  <2> QED BY <1>a, <2>1, <2>2, <2>3, OwnedKept
<1>3. ASSUME NEW r \in Requests, SignUp(r) PROVE Owned' /\ OneAccountPerIdentity'
  <2> DEFINE row == NewAccount(<<op[r].name>>, NoSub, NoEmail)
  <2>1. op[r] \in Operation /\ op[r].kind = "signup" /\ op[r].name \in Names
    BY <1>3 DEF SignUp, Control, Knows, Operation
  <2>2. row \in Account
    BY <2>1 DEF NewAccount, Account, Usernames, BaseNames, Never
  <2>3. /\ DOMAIN accounts' = Ids \cup {NextId} /\ NextId \notin Ids
        /\ accounts'[NextId] = row /\ \A id \in Ids : accounts'[id] = accounts[id]
        /\ lastId' = lastId + 1
    BY <1>3, <2>2, InsertTyped DEF SignUp
  <2>4. Kept
    BY <2>3 DEF Kept, Ids
  <2>5. row.username = <<op[r].name>> /\ row.sub = NoSub
    BY DEF NewAccount
  <2> HIDE DEF row
  <2>6. OneAccountPerIdentity'
    BY <2>3, <2>5 DEF OneAccountPerIdentity, Ids
  <2>7. /\ user'[r] = NextId /\ op' = op /\ token'[r] \in {Nothing, NextId}
        /\ \A q \in Requests \ {r} :
             phase'[q] = phase[q] /\ user'[q] = user[q] /\ token'[q] = token[q]
    BY <1>3 DEF SignUp, Goto, Welcome, Answer, TypeOK
  <2>8. Nothing \notin Ids'
    BY DEF TypeOK, Ids
  <2>9. accounts'[NextId].username = <<op'[r].name>>
    BY <2>3, <2>5, <2>7
  <2>10. token'[r] \in Ids' => Owns(token[r], op[r])'
    BY <2>1, <2>7, <2>8, <2>9 DEF Owns
  <2> QED BY <2>3, <2>4, <2>6, <2>7, <2>9, <2>10, OwnedKept
<1>4. ASSUME NEW r \in Requests, CreateSocial(r) PROVE Owned' /\ OneAccountPerIdentity'
  <2> DEFINE row == NewAccount(Candidate(r), op[r].sub, op[r].email)
  <2>1. /\ op[r] \in Operation /\ op[r].kind = "social"
        /\ tries[r] \in 0..MaxTries /\ tries[r] < MaxTries
    BY <1>4 DEF CreateSocial, Control, Knows, TypeOK
  <2>2. row \in Account
    BY <2>1, CandidateTyped DEF NewAccount, Account, Never, Operation
  <2>3. /\ DOMAIN accounts' = Ids \cup {NextId} /\ NextId \notin Ids
        /\ accounts'[NextId] = row /\ \A id \in Ids : accounts'[id] = accounts[id]
        /\ lastId' = lastId + 1
    BY <1>4, <2>2, InsertTyped DEF CreateSocial
  <2>4. Kept
    BY <2>3 DEF Kept, Ids
  <2>5. row.sub = op[r].sub
    BY DEF NewAccount
  <2> HIDE DEF row
  <2>6. OneAccountPerIdentity'
    BY <1>4, <2>3, <2>5 DEF CreateSocial, SubTaken, OneAccountPerIdentity, Ids
  <2>7. /\ phase'[r] = "done" /\ op' = op /\ user' = user /\ token'[r] \in {Nothing, NextId}
        /\ \A q \in Requests \ {r} : phase'[q] = phase[q] /\ token'[q] = token[q]
    BY <1>4 DEF CreateSocial, Welcome, Answer, TypeOK
  <2>8. Nothing \notin Ids'
    BY DEF TypeOK, Ids
  <2>9. token'[r] \in Ids' => Owns(token[r], op[r])'
    BY <2>1, <2>3, <2>5, <2>7, <2>8 DEF Owns
  <2> QED BY <2>3, <2>4, <2>6, <2>7, <2>9, OwnedKept
<1>5. ASSUME NEW r \in Requests, SignUpTaken(r) \/ SocialTaken(r)
      PROVE  Owned' /\ OneAccountPerIdentity'
  <2>1. Kept /\ accounts' = accounts /\ lastId' = lastId + 1
    BY <1>5, RefusedTyped DEF SignUpTaken, SocialTaken, Kept
  <2>2. /\ phase'[r] # "registered" /\ op' = op /\ user' = user /\ token' = token
        /\ token[r] = Nothing /\ \A q \in Requests \ {r} : phase'[q] = phase[q]
    BY <1>5 DEF SignUpTaken, SocialTaken, Goto, Answer, TypeOK
  <2>3. Nothing \notin Ids'
    BY DEF TypeOK, Ids
  <2> QED BY <1>a, <2>1, <2>2, <2>3, OwnedKept
<1>6. ASSUME NEW r \in Requests, Login(r) \/ SocialLogin(r)
      PROVE  Owned' /\ OneAccountPerIdentity'
  <2>1. Kept /\ accounts' = accounts /\ lastId' = lastId
    BY <1>6 DEF Login, SocialLogin, Kept
  <2>2. PICK id \in Ids : Welcome(r, id) /\ Owns(id, op[r])
    BY <1>6 DEF Login, SocialLogin, Owns
  <2>3. /\ phase'[r] = "done" /\ op' = op /\ user' = user /\ token'[r] \in {Nothing, id}
        /\ \A q \in Requests \ {r} : phase'[q] = phase[q] /\ token'[q] = token[q]
    BY <1>6, <2>2 DEF Login, SocialLogin, Welcome, Answer, TypeOK
  <2>4. Nothing \notin Ids'
    BY DEF TypeOK, Ids
  <2>5. token'[r] \in Ids' => Owns(token[r], op[r])'
    BY <2>1, <2>2, <2>3, <2>4 DEF Owns
  <2> QED BY <1>a, <2>1, <2>3, <2>5, OwnedKept
<1>7. ASSUME NEW r \in Requests, SetPendingEmail(r) PROVE Owned' /\ OneAccountPerIdentity'
  <2>1. Kept /\ DOMAIN accounts' = DOMAIN accounts /\ lastId' = lastId
    <3>1. CASE accounts' = accounts
      BY <1>7, <3>1 DEF SetPendingEmail, Kept
    <3>2. CASE user[r] \in Ids /\ accounts' = [accounts EXCEPT ![user[r]].email = op[r].email]
      BY <1>7, <3>2, FieldKept DEF SetPendingEmail
    <3> QED BY <1>7, <3>1, <3>2 DEF SetPendingEmail
  <2>2. /\ phase'[r] = "done" /\ op' = op /\ user' = user /\ token'[r] \in {Nothing, user[r]}
        /\ \A q \in Requests \ {r} : phase'[q] = phase[q] /\ token'[q] = token[q]
    BY <1>7 DEF SetPendingEmail, Welcome, Answer, TypeOK
  <2>3. Nothing \notin Ids'
    BY DEF TypeOK, Ids
  <2>4. token'[r] \in Ids' => Owns(token[r], op[r])'
    BY <1>7, <2>1, <2>2, <2>3 DEF SetPendingEmail, Owned, Owns, Kept, Ids
  <2> QED BY <1>a, <2>1, <2>2, <2>4, OwnedKept
<1>8. ASSUME NEW r \in Requests, Kept, DOMAIN accounts' \subseteq DOMAIN accounts, lastId' = lastId,
             op' = op, user' = user, token' = token, phase[r] \notin {"registered", "done"},
             phase' = [phase EXCEPT ![r] = phase'[r]], phase'[r] # "registered"
      PROVE  Owned' /\ OneAccountPerIdentity'
  <2>1. token'[r] = Nothing /\ Nothing \notin Ids'
    BY <1>8 DEF TypeOK, Ids
  <2>2. \A q \in Requests \ {r} : phase'[q] = phase[q]
    BY <1>8 DEF TypeOK
  <2> QED BY <1>a, <1>8, <2>1, <2>2, OwnedKept
<1>9. ASSUME NEW r \in Requests, RefuseLogin(r) PROVE Owned' /\ OneAccountPerIdentity'
  <2>1. Kept /\ DOMAIN accounts' \subseteq DOMAIN accounts
    BY <1>9 DEF RefuseLogin, Kept
  <2>2. /\ lastId' = lastId /\ op' = op /\ user' = user /\ token' = token
        /\ phase[r] \notin {"registered", "done"} /\ phase'[r] # "registered"
        /\ phase' = [phase EXCEPT ![r] = phase'[r]]
    BY <1>9 DEF RefuseLogin, Styling, Goto, Answer, TypeOK
  <2> QED BY <1>8, <2>1, <2>2
<1>10. ASSUME NEW r \in Requests, SocialMissing(r) PROVE Owned' /\ OneAccountPerIdentity'
  <2>1. Kept /\ DOMAIN accounts' \subseteq DOMAIN accounts
    BY <1>10 DEF SocialMissing, Kept
  <2>2. /\ lastId' = lastId /\ op' = op /\ user' = user /\ token' = token
        /\ phase[r] \notin {"registered", "done"} /\ phase'[r] # "registered"
        /\ phase' = [phase EXCEPT ![r] = phase'[r]]
    BY <1>10 DEF SocialMissing, Styling, Goto, Answer, TypeOK
  <2> QED BY <1>8, <2>1, <2>2
<1>11. ASSUME NEW r \in Requests, CheckCooldown(r) PROVE Owned' /\ OneAccountPerIdentity'
  <2>1. Kept /\ DOMAIN accounts' \subseteq DOMAIN accounts
    BY <1>11 DEF CheckCooldown, Kept
  <2>2. /\ lastId' = lastId /\ op' = op /\ user' = user /\ token' = token
        /\ phase[r] \notin {"registered", "done"} /\ phase'[r] # "registered"
        /\ phase' = [phase EXCEPT ![r] = phase'[r]]
    BY <1>11 DEF CheckCooldown, Styling, Goto, Answer, TypeOK
  <2> QED BY <1>8, <2>1, <2>2
<1>12. ASSUME NEW r \in Requests, RenamedTooSoon(r) PROVE Owned' /\ OneAccountPerIdentity'
  <2>1. Kept /\ DOMAIN accounts' \subseteq DOMAIN accounts
    BY <1>12 DEF RenamedTooSoon, Kept
  <2>2. /\ lastId' = lastId /\ op' = op /\ user' = user /\ token' = token
        /\ phase[r] \notin {"registered", "done"} /\ phase'[r] # "registered"
        /\ phase' = [phase EXCEPT ![r] = phase'[r]]
    BY <1>12 DEF RenamedTooSoon, Styling, Goto, Answer, TypeOK
  <2> QED BY <1>8, <2>1, <2>2
<1>13. ASSUME NEW r \in Requests, RefuseTheme(r) PROVE Owned' /\ OneAccountPerIdentity'
  <2>1. Kept /\ DOMAIN accounts' \subseteq DOMAIN accounts
    BY <1>13 DEF RefuseTheme, Kept
  <2>2. /\ lastId' = lastId /\ op' = op /\ user' = user /\ token' = token
        /\ phase[r] \notin {"registered", "done"} /\ phase'[r] # "registered"
        /\ phase' = [phase EXCEPT ![r] = phase'[r]]
    BY <1>13 DEF RefuseTheme, Styling, Goto, Answer, TypeOK
  <2> QED BY <1>8, <2>1, <2>2
<1>14. ASSUME NEW r \in Requests, ProfileMissing(r) PROVE Owned' /\ OneAccountPerIdentity'
  <2>1. Kept /\ DOMAIN accounts' \subseteq DOMAIN accounts
    BY <1>14 DEF ProfileMissing, Kept
  <2>2. /\ lastId' = lastId /\ op' = op /\ user' = user /\ token' = token
        /\ phase[r] \notin {"registered", "done"} /\ phase'[r] # "registered"
        /\ phase' = [phase EXCEPT ![r] = phase'[r]]
    BY <1>14 DEF ProfileMissing, Styling, Goto, Answer, TypeOK
  <2> QED BY <1>8, <2>1, <2>2
<1>15. ASSUME NEW r \in Requests, Fail(r) PROVE Owned' /\ OneAccountPerIdentity'
  <2>1. Kept /\ DOMAIN accounts' \subseteq DOMAIN accounts
    BY <1>15 DEF Fail, Kept
  <2>2. /\ lastId' = lastId /\ op' = op /\ user' = user /\ token' = token
        /\ phase[r] \notin {"registered", "done"} /\ phase'[r] # "registered"
        /\ phase' = [phase EXCEPT ![r] = phase'[r]]
    BY <1>15 DEF Fail, Styling, Goto, Answer, TypeOK
  <2> QED BY <1>8, <2>1, <2>2
<1>16. ASSUME NEW r \in Requests, UpdateDisplayName(r) PROVE Owned' /\ OneAccountPerIdentity'
  <2>1. Kept /\ DOMAIN accounts' \subseteq DOMAIN accounts
    BY <1>16, FieldKept DEF UpdateDisplayName
  <2>2. /\ lastId' = lastId /\ op' = op /\ user' = user /\ token' = token
        /\ phase[r] \notin {"registered", "done"} /\ phase'[r] # "registered"
        /\ phase' = [phase EXCEPT ![r] = phase'[r]]
    BY <1>16 DEF UpdateDisplayName, Styling, Goto, Answer, TypeOK
  <2> QED BY <1>8, <2>1, <2>2
<1>17. ASSUME NEW r \in Requests, UpdateThemeLanguage(r) PROVE Owned' /\ OneAccountPerIdentity'
  <2>1. Kept /\ DOMAIN accounts' \subseteq DOMAIN accounts
    BY <1>17, FieldKept DEF UpdateThemeLanguage
  <2>2. /\ lastId' = lastId /\ op' = op /\ user' = user /\ token' = token
        /\ phase[r] \notin {"registered", "done"} /\ phase'[r] # "registered"
        /\ phase' = [phase EXCEPT ![r] = phase'[r]]
    BY <1>17 DEF UpdateThemeLanguage, Styling, Goto, Answer, TypeOK
  <2> QED BY <1>8, <2>1, <2>2
<1>18. ASSUME NEW r \in Requests, DeleteUser(r) PROVE Owned' /\ OneAccountPerIdentity'
  <2>1. Kept /\ DOMAIN accounts' \subseteq DOMAIN accounts
    BY <1>18 DEF DeleteUser, Kept, Ids
  <2>2. /\ lastId' = lastId /\ op' = op /\ user' = user /\ token' = token
        /\ phase[r] \notin {"registered", "done"} /\ phase'[r] # "registered"
        /\ phase' = [phase EXCEPT ![r] = phase'[r]]
    BY <1>18 DEF DeleteUser, Styling, Goto, Answer, TypeOK
  <2> QED BY <1>8, <2>1, <2>2
<1> QED BY <1>1, <1>2, <1>3, <1>4, <1>5, <1>6, <1>7, <1>9, <1>10, <1>11, <1>12, <1>13, <1>14, <1>15, <1>16, <1>17, <1>18 DEF Next, Quiescent

\* Nobody holds a token at the start but for the first accounts.
LEMMA InitOwned == Init => Owned /\ OneAccountPerIdentity
<1> SUFFICES ASSUME Init PROVE Owned /\ OneAccountPerIdentity
  OBVIOUS
<1>1. InitialAccounts \in Seq(Account) /\ Nothing \notin Nat
  BY AccountsAssumption DEF AccountsAssumption
<1>2. Nothing \notin Ids
  BY <1>1 DEF Init, Ids
<1>3. Owned
  BY <1>2 DEF Init, Owned, TokenStaysWithOwner, Ids
<1>4. OneAccountPerIdentity
  BY AccountsAssumption DEF AccountsAssumption, Init, OneAccountPerIdentity, Ids
<1> QED BY <1>3, <1>4

\* A token opens the account of whoever got it, or none, whatever requests run at
\* once: logins look identities up by their key (line 317) and ids are never reused.
THEOREM AccountsTokenStaysWithOwner == Spec => []TokenStaysWithOwner
<1>1. Spec => [](TypeOK /\ Control /\ Owned /\ OneAccountPerIdentity)
  BY InitControl, InitOwned, TypeStep, OwnedStep, PTL DEF Spec
<1>2. Owned => TokenStaysWithOwner
  BY DEF Owned
<1> QED BY <1>1, <1>2, PTL

\* One identity has one account, however many first logins run at once: the unique
\* key of google_sub and apple_sub decides (lines 339-371).
THEOREM AccountsOneAccountPerIdentity == Spec => []OneAccountPerIdentity
<1>1. Spec => [](TypeOK /\ Control /\ Owned /\ OneAccountPerIdentity)
  BY InitControl, InitOwned, TypeStep, OwnedStep, PTL DEF Spec
<1> QED BY <1>1, PTL

-----------------------------------------------------------------------------
\* RenamedRarely, and why: the stamp of a row is the last entry of the history,
\* and a request that has been allowed to change a name still may, for no other
\* request of that account has been allowed meanwhile.
Cooled(id) ==
  accounts[id].renamedAt = Never \/ clock - accounts[id].renamedAt >= Cooldown

Rare ==
  /\ RenamedRarely
  /\ \A id \in Ids :
       IF renames[id] = <<>> THEN accounts[id].renamedAt = Never
       ELSE accounts[id].renamedAt = renames[id][Len(renames[id])]
  /\ ~ overlapped =>
       /\ \A r \in Requests : phase[r] = "allowed" /\ user[r] \in Ids => Cooled(user[r])
       /\ \A q, r \in Requests :
            phase[q] = "allowed" /\ phase[r] = "allowed" /\ user[q] = user[r] => q = r

\* What a step does that changes no name and allows no change.
Unstamped ==
  /\ clock <= clock' /\ overlapped' = overlapped
  /\ \A id \in DOMAIN accounts' :
       \/ id \in DOMAIN accounts /\ accounts'[id].renamedAt = accounts[id].renamedAt
       \/ id = NextId /\ accounts'[id].renamedAt = Never /\ renames'[id] = <<>>
  /\ \A id \in 1..lastId : renames'[id] = renames[id]
  /\ \A id \in DOMAIN renames' : id \in 1..lastId \/ renames'[id] = <<>>

\* A step that changes no name and lets nobody change one keeps Rare.
LEMMA RareKept ==
  ASSUME TypeOK, TypeOK', Control, Rare, Unstamped,
         \A r \in Requests : phase'[r] = "allowed" => phase[r] = "allowed" /\ user'[r] = user[r]
  PROVE  Rare'
<1>0. /\ lastId \in Nat /\ Cooldown \in Nat /\ clock \in Nat /\ clock' \in Nat
      /\ Ids \subseteq 1..lastId /\ DOMAIN renames = 1..lastId
      /\ \A id \in Ids : accounts[id].renamedAt \in Int
  BY AccountsAssumption DEF AccountsAssumption, TypeOK, Ids, Account
<1>1. RenamedRarely'
  BY <1>0 DEF Rare, RenamedRarely, Unstamped
<1>2. ASSUME NEW id \in DOMAIN accounts'
      PROVE  IF renames'[id] = <<>> THEN accounts'[id].renamedAt = Never
             ELSE accounts'[id].renamedAt = renames'[id][Len(renames'[id])]
  BY <1>0 DEF Rare, Unstamped, Ids
<1>3. ASSUME ~ overlapped', NEW r \in Requests, phase'[r] = "allowed", user'[r] \in DOMAIN accounts'
      PROVE  Cooled(user[r])'
  <2>1. phase[r] = "allowed" /\ user'[r] = user[r] /\ user[r] \in 1..lastId /\ ~ overlapped
    BY <1>3 DEF Control, Knows, Unstamped
  <2>2. user[r] \in Ids /\ accounts'[user[r]].renamedAt = accounts[user[r]].renamedAt
    BY <1>0, <1>3, <2>1 DEF Unstamped, NextId, Ids
  <2>3. Cooled(user[r])
    BY <2>1, <2>2 DEF Rare
  <2> QED BY <1>0, <2>1, <2>2, <2>3 DEF Cooled, Unstamped
<1>4. ASSUME ~ overlapped', NEW q \in Requests, NEW r \in Requests,
             phase'[q] = "allowed", phase'[r] = "allowed", user'[q] = user'[r]
      PROVE  q = r
  BY <1>4 DEF Rare, Unstamped
<1> QED BY <1>1, <1>2, <1>3, <1>4 DEF Rare, Ids

\* Every step keeps Rare.
LEMMA RareStep == TypeOK /\ Control /\ Rare /\ [Next]_vars => Rare'
<1> SUFFICES ASSUME TypeOK, Control, Rare, [Next]_vars PROVE Rare'
  OBVIOUS
<1>0. TypeOK' /\ Control' /\ lastId \in Nat /\ clock \in Nat /\ DefaultTheme \in Themes
      /\ Cooldown \in Nat /\ accounts \in [Ids -> Account] /\ Ids \subseteq 1..lastId
  BY TypeStep, AccountsAssumption DEF TypeOK, AccountsAssumption, Ids
<1> USE <1>0 DEF At
<1>1. CASE Tick \/ UNCHANGED vars
  <2>1. Unstamped /\ phase' = phase /\ user' = user
    BY <1>1 DEF Tick, vars, requests, Unstamped, TypeOK
  <2> QED BY <2>1, RareKept
<1>2. ASSUME NEW r \in Requests, NEW o \in Asked, Arrive(r, o) PROVE Rare'
  <2>1. Unstamped
    BY <1>2 DEF Arrive, Unstamped, TypeOK
  <2>2. /\ phase'[r] = "arrived"
        /\ \A q \in Requests \ {r} : phase'[q] = phase[q] /\ user'[q] = user[q]
    BY <1>2 DEF Arrive, Goto, TypeOK
  <2> QED BY <2>1, <2>2, RareKept
<1>3. ASSUME NEW r \in Requests, SignUp(r) PROVE Rare'
  <2>1. Unstamped
    <3>1. op[r] \in Operation /\ op[r].name \in Names
      BY <1>3 DEF SignUp, Control, Knows, Operation
    <3>2. NewAccount(<<op[r].name>>, NoSub, NoEmail) \in Account
      BY <3>1 DEF NewAccount, Account, Usernames, BaseNames, Never
    <3> QED BY <1>3, <3>2, InsertTyped DEF SignUp, NewAccount, Unstamped, Ids, NextId
  <2>9. \A q \in Requests : phase'[q] = "allowed" => phase[q] = "allowed" /\ user'[q] = user[q]
    BY <1>3 DEF SignUp, Goto, Answer, Welcome, TypeOK
  <2> QED BY <2>1, <2>9, RareKept
<1>4. ASSUME NEW r \in Requests, CreateSocial(r) PROVE Rare'
  <2>1. Unstamped
    <3>1. /\ op[r] \in Operation /\ op[r].kind = "social"
          /\ tries[r] \in 0..MaxTries /\ tries[r] < MaxTries
      BY <1>4 DEF CreateSocial, Control, Knows, TypeOK
    <3>2. NewAccount(Candidate(r), op[r].sub, op[r].email) \in Account
      BY <3>1, CandidateTyped DEF NewAccount, Account, Never, Operation
    <3> QED BY <1>4, <3>2, InsertTyped DEF CreateSocial, NewAccount, Unstamped, Ids, NextId
  <2>9. \A q \in Requests : phase'[q] = "allowed" => phase[q] = "allowed" /\ user'[q] = user[q]
    BY <1>4 DEF CreateSocial, Goto, Answer, Welcome, TypeOK
  <2> QED BY <2>1, <2>9, RareKept
<1>5. ASSUME NEW r \in Requests, SignUpTaken(r) PROVE Rare'
  <2>1. Unstamped
    BY <1>5, RefusedTyped DEF SignUpTaken, InsertRefused, Unstamped, TypeOK
  <2>9. \A q \in Requests : phase'[q] = "allowed" => phase[q] = "allowed" /\ user'[q] = user[q]
    BY <1>5 DEF SignUpTaken, Goto, Answer, Welcome, TypeOK
  <2> QED BY <2>1, <2>9, RareKept
<1>6. ASSUME NEW r \in Requests, SocialTaken(r) PROVE Rare'
  <2>1. Unstamped
    BY <1>6, RefusedTyped DEF SocialTaken, InsertRefused, Unstamped, TypeOK
  <2>9. \A q \in Requests : phase'[q] = "allowed" => phase[q] = "allowed" /\ user'[q] = user[q]
    BY <1>6 DEF SocialTaken, Goto, Answer, Welcome, TypeOK
  <2> QED BY <2>1, <2>9, RareKept
<1>7. ASSUME NEW r \in Requests, Login(r) PROVE Rare'
  <2>1. Unstamped
    BY <1>7 DEF Login, Unstamped, TypeOK
  <2>9. \A q \in Requests : phase'[q] = "allowed" => phase[q] = "allowed" /\ user'[q] = user[q]
    BY <1>7 DEF Login, Goto, Answer, Welcome, TypeOK
  <2> QED BY <2>1, <2>9, RareKept
<1>8. ASSUME NEW r \in Requests, RefuseLogin(r) PROVE Rare'
  <2>1. Unstamped
    BY <1>8 DEF RefuseLogin, Unstamped, TypeOK
  <2>9. \A q \in Requests : phase'[q] = "allowed" => phase[q] = "allowed" /\ user'[q] = user[q]
    BY <1>8 DEF RefuseLogin, Goto, Answer, Welcome, TypeOK
  <2> QED BY <2>1, <2>9, RareKept
<1>9. ASSUME NEW r \in Requests, SocialLogin(r) PROVE Rare'
  <2>1. Unstamped
    BY <1>9 DEF SocialLogin, Unstamped, TypeOK
  <2>9. \A q \in Requests : phase'[q] = "allowed" => phase[q] = "allowed" /\ user'[q] = user[q]
    BY <1>9 DEF SocialLogin, Goto, Answer, Welcome, TypeOK
  <2> QED BY <2>1, <2>9, RareKept
<1>10. ASSUME NEW r \in Requests, SocialMissing(r) PROVE Rare'
  <2>1. Unstamped
    BY <1>10 DEF SocialMissing, Unstamped, TypeOK
  <2>9. \A q \in Requests : phase'[q] = "allowed" => phase[q] = "allowed" /\ user'[q] = user[q]
    BY <1>10 DEF SocialMissing, Goto, Answer, Welcome, TypeOK
  <2> QED BY <2>1, <2>9, RareKept
<1>11. ASSUME NEW r \in Requests, RenamedTooSoon(r) PROVE Rare'
  <2>1. Unstamped
    BY <1>11 DEF RenamedTooSoon, Unstamped, TypeOK
  <2>9. \A q \in Requests : phase'[q] = "allowed" => phase[q] = "allowed" /\ user'[q] = user[q]
    BY <1>11 DEF RenamedTooSoon, Goto, Answer, Welcome, TypeOK
  <2> QED BY <2>1, <2>9, RareKept
<1>12. ASSUME NEW r \in Requests, RefuseTheme(r) PROVE Rare'
  <2>1. Unstamped
    BY <1>12 DEF RefuseTheme, Unstamped, TypeOK
  <2>9. \A q \in Requests : phase'[q] = "allowed" => phase[q] = "allowed" /\ user'[q] = user[q]
    BY <1>12 DEF RefuseTheme, Goto, Answer, Welcome, TypeOK
  <2> QED BY <2>1, <2>9, RareKept
<1>13. ASSUME NEW r \in Requests, ProfileMissing(r) PROVE Rare'
  <2>1. Unstamped
    BY <1>13 DEF ProfileMissing, Unstamped, TypeOK
  <2>9. \A q \in Requests : phase'[q] = "allowed" => phase[q] = "allowed" /\ user'[q] = user[q]
    BY <1>13 DEF ProfileMissing, Goto, Answer, Welcome, TypeOK
  <2> QED BY <2>1, <2>9, RareKept
<1>14. ASSUME NEW r \in Requests, Fail(r) PROVE Rare'
  <2>1. Unstamped
    BY <1>14 DEF Fail, Unstamped, TypeOK
  <2>9. \A q \in Requests : phase'[q] = "allowed" => phase[q] = "allowed" /\ user'[q] = user[q]
    BY <1>14 DEF Fail, Goto, Answer, Welcome, TypeOK
  <2> QED BY <2>1, <2>9, RareKept
<1>15. ASSUME NEW r \in Requests, DeleteUser(r) PROVE Rare'
  <2>1. Unstamped
    BY <1>15 DEF DeleteUser, Unstamped, Ids, TypeOK
  <2>9. \A q \in Requests : phase'[q] = "allowed" => phase[q] = "allowed" /\ user'[q] = user[q]
    BY <1>15 DEF DeleteUser, Goto, Answer, Welcome, TypeOK
  <2> QED BY <2>1, <2>9, RareKept
<1>16. ASSUME NEW r \in Requests, SetPendingEmail(r) PROVE Rare'
  <2>1. Unstamped
    <3>1. ASSUME NEW e, user[r] \in Ids, accounts' = [accounts EXCEPT ![user[r]].email = e]
          PROVE  /\ DOMAIN accounts' = DOMAIN accounts
                 /\ \A id \in Ids : accounts'[id].renamedAt = accounts[id].renamedAt
      BY <3>1 DEF Account
    <3>2. \/ accounts' = accounts
          \/ /\ user[r] \in Ids
             /\ accounts' = [accounts EXCEPT ![user[r]].email = op[r].email]
      BY <1>16 DEF SetPendingEmail
    <3>3. /\ DOMAIN accounts' = DOMAIN accounts
          /\ \A id \in Ids : accounts'[id].renamedAt = accounts[id].renamedAt
      BY <3>1, <3>2
    <3> QED BY <1>16, <3>3 DEF SetPendingEmail, Unstamped, Ids, TypeOK
  <2>9. \A q \in Requests : phase'[q] = "allowed" => phase[q] = "allowed" /\ user'[q] = user[q]
    BY <1>16 DEF SetPendingEmail, Goto, Answer, Welcome, TypeOK
  <2> QED BY <2>1, <2>9, RareKept
<1>17. ASSUME NEW r \in Requests, UpdateThemeLanguage(r) PROVE Rare'
  <2>1. Unstamped
    <3>1. ASSUME NEW e, user[r] \in Ids, accounts' = [accounts EXCEPT ![user[r]].theme = e]
          PROVE  /\ DOMAIN accounts' = DOMAIN accounts
                 /\ \A id \in Ids : accounts'[id].renamedAt = accounts[id].renamedAt
      BY <3>1 DEF Account
    <3>2. \/ accounts' = accounts
          \/ /\ user[r] \in Ids
             /\ accounts' = [accounts EXCEPT ![user[r]].theme = Preferred(accounts[user[r]].theme, op[r].theme)]
      BY <1>17 DEF UpdateThemeLanguage
    <3>3. /\ DOMAIN accounts' = DOMAIN accounts
          /\ \A id \in Ids : accounts'[id].renamedAt = accounts[id].renamedAt
      BY <3>1, <3>2
    <3> QED BY <1>17, <3>3 DEF UpdateThemeLanguage, Unstamped, Ids, TypeOK
  <2>9. \A q \in Requests : phase'[q] = "allowed" => phase[q] = "allowed" /\ user'[q] = user[q]
    BY <1>17 DEF UpdateThemeLanguage, Goto, Answer, Welcome, TypeOK
  <2> QED BY <2>1, <2>9, RareKept
<1>18. ASSUME NEW r \in Requests, CheckCooldown(r) PROVE Rare'
  <2>1. CASE overlapped'
    BY <1>18, <2>1 DEF CheckCooldown, Rare, RenamedRarely, Ids
  <2>2. CASE ~ overlapped'
    <3>1. /\ ~ overlapped /\ \A q \in Requests \ {r} : phase[q] = "allowed" => user[q] # user[r]
      BY <1>18, <2>2 DEF CheckCooldown, Renaming
    <3>2. UNCHANGED <<clock, accounts, renames, user>> /\ Cooled(user[r])
      BY <1>18 DEF CheckCooldown, Cooled, Goto
    <3>3. phase' = [phase EXCEPT ![r] = "allowed"]
      BY <1>18 DEF CheckCooldown, Goto
    <3>4. \A q \in Requests : phase'[q] = "allowed" => q = r \/ phase[q] = "allowed"
      BY <3>3 DEF TypeOK
    <3> QED BY <2>2, <3>1, <3>2, <3>4 DEF Rare, RenamedRarely, Cooled, Ids
  <2> QED BY <2>1, <2>2
<1>19. ASSUME NEW r \in Requests, UpdateDisplayName(r) PROVE Rare'
  <2> DEFINE u == user[r]
  <2>1. /\ phase[r] = "allowed" /\ u \in Ids /\ u \in 1..lastId
        /\ accounts' = [accounts EXCEPT ![u].renamedAt = clock]
        /\ renames' = [renames EXCEPT ![u] = Append(renames[u], clock)]
        /\ UNCHANGED <<clock, user, overlapped>>
    BY <1>19 DEF UpdateDisplayName
  <2>2. /\ DOMAIN accounts' = Ids /\ DOMAIN renames' = DOMAIN renames /\ DOMAIN renames = 1..lastId
        /\ accounts'[u].renamedAt = clock /\ renames[u] \in Seq(Nat)
        /\ renames'[u] = Append(renames[u], clock)
        /\ \A id \in Ids \ {u} : accounts'[id] = accounts[id]
        /\ \A id \in (1..lastId) \ {u} : renames'[id] = renames[id]
    BY <2>1 DEF TypeOK, Account
  <2>3. \A q \in Requests : phase'[q] = "allowed" => q # r /\ phase[q] = "allowed"
    BY <1>19 DEF UpdateDisplayName, Goto, Answer, TypeOK
  <2>4. \A id \in Ids :
          IF renames'[id] = <<>> THEN accounts'[id].renamedAt = Never
          ELSE accounts'[id].renamedAt = renames'[id][Len(renames'[id])]
    <3>1. renames'[u] # <<>> /\ renames'[u][Len(renames'[u])] = clock
      BY <2>2
    <3>2. \A id \in Ids \ {u} : id \in 1..lastId
      OBVIOUS
    <3> QED BY <2>2, <3>1, <3>2 DEF Rare
  <2>5. ASSUME ~ overlapped
        PROVE  \A id \in DOMAIN renames' : \A i \in 2..Len(renames'[id]) :
                 renames'[id][i] - renames'[id][i - 1] >= Cooldown
    <3>1. \A id \in DOMAIN renames : \A i \in 2..Len(renames[id]) :
            renames[id][i] - renames[id][i - 1] >= Cooldown
      BY <2>5 DEF Rare, RenamedRarely
    <3>2. renames[u] = <<>> \/ clock - renames[u][Len(renames[u])] >= Cooldown
      <4>1. Cooled(u)
        BY <2>1, <2>5 DEF Rare
      <4>2. CASE renames[u] # <<>>
        <5>1. accounts[u].renamedAt = renames[u][Len(renames[u])]
          BY <2>1, <4>2 DEF Rare
        <5>2. renames[u][Len(renames[u])] \in Nat
          BY <2>2, <4>2
        <5> QED BY <4>1, <5>1, <5>2 DEF Cooled, Never
      <4> QED BY <4>2
    <3>3. ASSUME NEW i \in 2..Len(renames'[u])
          PROVE  renames'[u][i] - renames'[u][i - 1] >= Cooldown
      <4>1. CASE i <= Len(renames[u])
        <5>1. i \in 2..Len(renames[u]) /\ Len(renames[u]) \in Nat
          BY <2>2, <4>1
        <5>2. renames'[u][i] = renames[u][i] /\ renames'[u][i - 1] = renames[u][i - 1]
          BY <2>2, <5>1
        <5> QED BY <2>1, <2>2, <3>1, <5>1, <5>2
      <4>2. CASE i = Len(renames[u]) + 1
        BY <2>2, <3>2, <4>2
      <4> QED BY <2>2, <4>1, <4>2
    <3> QED BY <2>1, <2>2, <3>1, <3>3
  <2>6. ASSUME ~ overlapped, NEW q \in Requests, phase'[q] = "allowed", user'[q] \in Ids'
        PROVE  Cooled(user[q])'
    <3>1. phase[q] = "allowed" /\ user[q] # u /\ user[q] \in Ids
      BY <2>1, <2>2, <2>3, <2>6 DEF Rare, Ids
    <3> QED BY <2>1, <2>2, <2>6, <3>1 DEF Rare, Cooled
  <2> QED BY <2>1, <2>2, <2>3, <2>4, <2>5, <2>6 DEF Rare, RenamedRarely, Ids
<1> QED BY <1>1, <1>2, <1>3, <1>4, <1>5, <1>6, <1>7, <1>8, <1>9, <1>10, <1>11, <1>12, <1>13, <1>14, <1>15, <1>16, <1>17, <1>18, <1>19 DEF Next, Quiescent

\* Between two changes of a name lies the cooldown, unless two changes were allowed
\* before either was made (lines 430-434).
THEOREM AccountsRenamedRarely == Spec => []RenamedRarely
<1>1. Init => Rare
  <2> SUFFICES ASSUME Init PROVE Rare
    OBVIOUS
  <2> QED BY AccountsAssumption DEF AccountsAssumption, Init, Rare, RenamedRarely, Ids
<1>2. Spec => [](TypeOK /\ Control /\ Rare)
  BY <1>1, InitControl, TypeStep, RareStep, PTL DEF Spec
<1>3. Rare => RenamedRarely
  BY DEF Rare
<1> QED BY <1>2, <1>3, PTL
-----------------------------------------------------------------------------
(* Properties of steps.                                                    *)

\* The theme of an account changes only to what its own request asked for: every
\* other write names other columns, or keeps the row.
LEMMA ThemeStep ==
  ASSUME TypeOK, Control, [Next]_vars, NEW id \in Ids \cap DOMAIN accounts',
         accounts'[id].theme # accounts[id].theme
  PROVE  \E r \in Requests :
           /\ phase[r] # "done" /\ phase'[r] = "done" /\ user[r] = id
           /\ op[r].kind = "profile" /\ op[r].theme = accounts'[id].theme
<1>1. accounts \in [Ids -> Account] /\ accounts[id] \in Account /\ id \in 1..lastId /\ lastId \in Nat
  BY DEF TypeOK, Ids
<1>2. accounts' # accounts
  OBVIOUS
<1>3. id # NextId
  BY <1>1 DEF NextId
<1>4. ASSUME NEW r \in Requests, SignUp(r) \/ CreateSocial(r) PROVE FALSE
  <2>1. accounts'[id] = accounts[id]
    BY <1>3, <1>4 DEF SignUp, CreateSocial, Insert
  <2> QED BY <2>1
<1>5. ASSUME NEW r \in Requests, SetPendingEmail(r) \/ UpdateDisplayName(r) PROVE FALSE
  <2>1. \/ accounts' = [accounts EXCEPT ![user[r]].email = op[r].email]
        \/ accounts' = [accounts EXCEPT ![user[r]].renamedAt = clock]
    BY <1>2, <1>5 DEF SetPendingEmail, UpdateDisplayName
  <2>2. accounts'[id].theme = accounts[id].theme
    BY <1>1, <2>1 DEF Account
  <2> QED BY <2>2
<1>6. ASSUME NEW r \in Requests, DeleteUser(r) PROVE FALSE
  <2>1. accounts'[id] = accounts[id]
    BY <1>6 DEF DeleteUser
  <2> QED BY <2>1
<1>7. PICK r \in Requests : UpdateThemeLanguage(r)
  BY <1>2, <1>4, <1>5, <1>6
     DEF Next, Tick, Arrive, SignUpTaken, Login, RefuseLogin, SocialLogin, SocialMissing, SocialTaken,
         InsertRefused, CheckCooldown, RenamedTooSoon, RefuseTheme, ProfileMissing, Fail, Quiescent, vars
<1>8. user[r] = id /\ accounts'[id].theme = Preferred(accounts[id].theme, op[r].theme)
  BY <1>1, <1>7 DEF UpdateThemeLanguage, Account
<1>9. op[r].theme = accounts'[id].theme
  BY <1>8 DEF Preferred
<1>10. phase[r] \in {"arrived", "named"} /\ op[r].kind = "profile"
  BY <1>7 DEF UpdateThemeLanguage, Styling, At, Control, Knows
<1>11. phase'[r] = "done"
  BY <1>7 DEF UpdateThemeLanguage, Answer, TypeOK
<1> QED BY <1>8, <1>9, <1>10, <1>11

\* A profile request that leaves the theme out keeps it, whatever other devices
\* do meanwhile (line 437).
THEOREM AccountsUnmentionedThemeKept == Spec => UnmentionedThemeKept
<1>1. TypeOK /\ Control /\ [Next]_vars =>
        [\A id \in Ids \cap DOMAIN accounts' : accounts'[id].theme # accounts[id].theme =>
           \E r \in Requests :
             /\ phase[r] # "done" /\ phase'[r] = "done" /\ user[r] = id
             /\ op[r].kind = "profile" /\ op[r].theme = accounts'[id].theme]_vars
  BY ThemeStep
<1>2. Spec => [](TypeOK /\ Control)
  BY InitControl, TypeStep, PTL DEF Spec
<1> QED BY <1>1, <1>2, PTL DEF Spec, UnmentionedThemeKept

\* A username with a suffix tells whose it is, and is none without one.
LEMMA SuffixedApart ==
  ASSUME NEW b \in BaseNames, NEW c \in BaseNames, NEW q \in Requests, NEW r \in Requests,
         NEW n \in Nat, NEW m \in Nat
  PROVE  /\ b # Suffixed(c, r, m)
         /\ Suffixed(b, q, n) = Suffixed(c, r, m) => q = r
<1> DEFINE S == Names \cup {"user", "apple"} \cup Requests \cup Nat
<1>1. ASSUME NEW x \in BaseNames PROVE x \in Seq(S) /\ Len(x) \in 1..2
  <2>1. CASE \E name \in Names \cup {"user"} : x = <<name>>
    <3>1. PICK name \in S : x = <<name>>
      BY <2>1
    <3> HIDE DEF S
    <3> QED BY <3>1
  <2>2. CASE \E w \in Requests : x = <<"apple", w>>
    <3>1. PICK w \in S : x = <<"apple", w>> /\ "apple" \in S
      BY <2>2
    <3> HIDE DEF S
    <3> QED BY <3>1
  <2> QED BY <2>1, <2>2 DEF BaseNames
<1>2. /\ Len(Suffixed(b, q, n)) = Len(b) + 2 /\ Suffixed(b, q, n)[Len(b) + 1] = q
      /\ Len(Suffixed(c, r, m)) = Len(c) + 2 /\ Suffixed(c, r, m)[Len(c) + 1] = r
  <2>1. <<q, n>> \in Seq(S) /\ <<r, m>> \in Seq(S)
    OBVIOUS
  <2> HIDE DEF S
  <2> QED BY <1>1, <2>1 DEF Suffixed
<1> HIDE DEF S
<1>3. b # Suffixed(c, r, m)
  <2>1. Len(b) \in 1..2 /\ Len(c) \in 1..2
    BY <1>1
  <2>2. Len(b) # Len(c) + 2
    <3>1. \A i, j \in 1..2 : i # j + 2
      OBVIOUS
    <3> QED BY <2>1, <3>1
  <2>3. Len(b) # Len(Suffixed(c, r, m))
    BY <1>2, <2>2
  <2> QED BY <2>3
<1>4. ASSUME Suffixed(b, q, n) = Suffixed(c, r, m) PROVE q = r
  <2>1. Len(b) + 2 = Len(c) + 2
    BY <1>2, <1>4
  <2>2. Len(b) = Len(c)
    BY <1>1, <2>1
  <2> QED BY <1>2, <1>4, <2>2
<1> QED BY <1>3, <1>4

\* As long as a request runs, nobody has a username with its suffix.
Fresh ==
  \A r \in Requests : phase[r] # "done" =>
    \A id \in Ids, b \in BaseNames, n \in 1..MaxTries : accounts[id].username # Suffixed(b, r, n)

\* A step takes one request further, which was not done yet.
LEMMA OneRequest ==
  ASSUME [Next]_vars
  PROVE  \/ phase' = phase
         \/ \E r \in Requests, p \in Phases : phase[r] # "done" /\ phase' = [phase EXCEPT ![r] = p]
<1> DEFINE Moved(r) == \E p \in Phases : phase[r] # "done" /\ phase' = [phase EXCEPT ![r] = p]
<1>1. ASSUME NEW r \in Requests, NEW o, Arrive(r, o) PROVE Moved(r)
  BY <1>1 DEF Arrive, Goto, Phases
<1>2. ASSUME NEW r \in Requests, SignUp(r) \/ SignUpTaken(r) \/ SetPendingEmail(r) PROVE Moved(r)
  BY <1>2 DEF SignUp, SignUpTaken, SetPendingEmail, At, Goto, Answer, Welcome, Phases
<1>3. ASSUME NEW r \in Requests, Login(r) \/ RefuseLogin(r) \/ SocialLogin(r) \/ SocialMissing(r)
      PROVE  Moved(r)
  BY <1>3 DEF Login, RefuseLogin, SocialLogin, SocialMissing, At, Goto, Answer, Welcome, Phases
<1>4. ASSUME NEW r \in Requests, CreateSocial(r) \/ SocialTaken(r) PROVE Moved(r)
  BY <1>4 DEF CreateSocial, SocialTaken, Goto, Answer, Welcome, Phases
<1>5. ASSUME NEW r \in Requests, CheckCooldown(r) \/ RenamedTooSoon(r) \/ UpdateDisplayName(r)
      PROVE  Moved(r)
  BY <1>5 DEF CheckCooldown, RenamedTooSoon, UpdateDisplayName, At, Goto, Answer, Phases
<1>6. ASSUME NEW r \in Requests, UpdateThemeLanguage(r) \/ RefuseTheme(r) PROVE Moved(r)
  BY <1>6 DEF UpdateThemeLanguage, RefuseTheme, Styling, At, Answer, Phases
<1>7. ASSUME NEW r \in Requests, ProfileMissing(r) PROVE Moved(r)
  BY <1>7 DEF ProfileMissing, Styling, At, Answer, Phases
<1>8. ASSUME NEW r \in Requests, DeleteUser(r) \/ Fail(r) PROVE Moved(r)
  BY <1>8 DEF DeleteUser, Fail, At, Answer, Phases
<1>9. ASSUME Tick \/ UNCHANGED vars PROVE phase' = phase
  BY <1>9 DEF Tick, vars, requests
<1> HIDE DEF Moved
<1>10. phase' = phase \/ \E r \in Requests : Moved(r)
  <2>1. CASE \/ Tick \/ Quiescent \/ UNCHANGED vars
    BY <1>9, <2>1 DEF Quiescent
  <2>2. ASSUME NEW r \in Requests,
               \/ \E o \in Asked : Arrive(r, o)
               \/ SignUp(r) \/ SignUpTaken(r) \/ SetPendingEmail(r) \/ Login(r) \/ RefuseLogin(r)
               \/ SocialLogin(r) \/ SocialMissing(r) \/ CreateSocial(r) \/ SocialTaken(r)
               \/ CheckCooldown(r) \/ RenamedTooSoon(r) \/ UpdateDisplayName(r)
               \/ UpdateThemeLanguage(r) \/ RefuseTheme(r) \/ ProfileMissing(r)
               \/ DeleteUser(r) \/ Fail(r)
        PROVE  Moved(r)
    BY <1>1, <1>2, <1>3, <1>4, <1>5, <1>6, <1>7, <1>8, <2>2
  <2> QED BY <2>1, <2>2 DEF Next
<1> QED BY <1>10 DEF Moved

\* Usernames of rows do not change, and a request that is done stays done.
LEMMA FreshKept ==
  ASSUME Fresh, DOMAIN accounts' \subseteq DOMAIN accounts,
         \A id \in DOMAIN accounts' : accounts'[id].username = accounts[id].username,
         \A r \in Requests : phase[r] = "done" => phase'[r] = "done"
  PROVE  Fresh'
BY DEF Fresh, Ids

\* A suffix is only used by the request that drew it, which is done with that.
LEMMA FreshStep == TypeOK /\ Control /\ Fresh /\ [Next]_vars => Fresh'
<1> SUFFICES ASSUME TypeOK, Control, Fresh, [Next]_vars PROVE Fresh'
  OBVIOUS
<1>0. MaxTries \in Nat /\ accounts \in [Ids -> Account] /\ phase \in [Requests -> Phases]
  BY AccountsAssumption DEF AccountsAssumption, TypeOK, Ids
<1>1. \A r \in Requests : phase[r] = "done" => phase'[r] = "done"
  BY <1>0, OneRequest
<1>2. ASSUME NEW r \in Requests, NEW row, Insert(row), NextId \notin Ids,
             row.username \in BaseNames
               \/ (phase'[r] = "done" /\ \E c \in BaseNames, m \in Nat : row.username = Suffixed(c, r, m))
      PROVE  Fresh'
  <2> SUFFICES ASSUME NEW q \in Requests, phase'[q] # "done", NEW id \in Ids',
                      NEW b \in BaseNames, NEW n \in 1..MaxTries
               PROVE  accounts'[id].username # Suffixed(b, q, n)
    BY DEF Fresh
  <2>1. CASE id \in Ids
    <3>1. accounts'[id] = accounts[id]
      BY <1>2, <2>1 DEF Insert, Ids
    <3> QED BY <1>1, <2>1, <3>1 DEF Fresh
  <2>2. CASE id = NextId
    <3>1. accounts'[id] = row
      BY <1>2, <2>2 DEF Insert
    <3>2. n \in Nat
      BY <1>0
    <3> QED BY <1>2, <3>1, <3>2, SuffixedApart
  <2> QED BY <1>2, <2>1, <2>2 DEF Insert, Ids
<1>3. NextId \notin Ids
  BY DEF TypeOK, NextId, Ids
<1>4. ASSUME NEW r \in Requests, SignUp(r) PROVE Fresh'
  <2> DEFINE row == NewAccount(<<op[r].name>>, NoSub, NoEmail)
  <2>1. op[r].name \in Names
    BY <1>4 DEF SignUp, At, Control, Knows, Operation
  <2>2. row.username \in BaseNames
    BY <2>1 DEF NewAccount, BaseNames
  <2>3. Insert(row)
    BY <1>4 DEF SignUp
  <2> HIDE DEF row
  <2> QED BY <1>2, <1>3, <2>2, <2>3
<1>5. ASSUME NEW r \in Requests, CreateSocial(r) PROVE Fresh'
  <2> DEFINE row == NewAccount(Candidate(r), op[r].sub, op[r].email)
  <2>1. phase'[r] = "done" /\ Insert(row)
    BY <1>0, <1>5 DEF CreateSocial, Welcome, Answer
  <2>2. tries[r] \in Nat
    BY <1>0 DEF TypeOK
  <2>3. Base(r) \in BaseNames
    <3>1. op[r].email \in Names \cup {NoEmail}
      BY <1>5 DEF CreateSocial, Control, Knows, Operation
    <3> QED BY <3>1 DEF Base, BaseNames
  <2>4. row.username = Candidate(r)
    BY DEF NewAccount
  <2> HIDE DEF row
  <2>5. row.username = Base(r) \/ row.username = Suffixed(Base(r), r, tries[r])
    BY <2>4 DEF Candidate
  <2> QED BY <1>2, <1>3, <2>1, <2>2, <2>3, <2>5
<1>6. ASSUME NEW r \in Requests, NEW e, user[r] \in Ids,
             \/ accounts' = [accounts EXCEPT ![user[r]].email = e]
             \/ accounts' = [accounts EXCEPT ![user[r]].renamedAt = e]
             \/ accounts' = [accounts EXCEPT ![user[r]].theme = e]
      PROVE  Fresh'
  <2>1. Kept
    BY <1>6, FieldKept
  <2>2. DOMAIN accounts' = DOMAIN accounts
    BY <1>6
  <2> QED BY <1>1, <2>1, <2>2, FreshKept DEF Kept
<1>7. CASE accounts' = accounts
  BY <1>1, <1>7, FreshKept
<1>8. ASSUME NEW r \in Requests, DeleteUser(r) PROVE Fresh'
  BY <1>1, <1>8, FreshKept DEF DeleteUser, Ids
<1>9. \/ accounts' = accounts
      \/ \E r \in Requests :
           \/ SignUp(r) \/ CreateSocial(r) \/ DeleteUser(r)
           \/ UpdateDisplayName(r) \/ UpdateThemeLanguage(r)
           \/ user[r] \in Ids /\ accounts' = [accounts EXCEPT ![user[r]].email = op[r].email]
  BY DEF Next, Tick, Arrive, SignUpTaken, SetPendingEmail, Login, RefuseLogin, SocialLogin, SocialMissing,
     SocialTaken, InsertRefused, CheckCooldown, RenamedTooSoon, RefuseTheme, ProfileMissing, Fail,
     Quiescent, vars
<1>10. ASSUME NEW r \in Requests, UpdateDisplayName(r) \/ UpdateThemeLanguage(r) PROVE Fresh'
  <2>1. user[r] \in Ids
    BY <1>10 DEF UpdateDisplayName, UpdateThemeLanguage
  <2>2. \E e : \/ accounts' = [accounts EXCEPT ![user[r]].renamedAt = e]
               \/ accounts' = [accounts EXCEPT ![user[r]].theme = e]
    BY <1>10 DEF UpdateDisplayName, UpdateThemeLanguage
  <2> QED BY <1>6, <2>1, <2>2
<1> QED BY <1>4, <1>5, <1>6, <1>7, <1>8, <1>9, <1>10

\* A first login ends in a conflict only if the identity has an account by then:
\* its last username has a suffix of its own (lines 352-371).
THEOREM AccountsConflictOnlyIfRaced == Spec => ConflictOnlyIfRaced
<1>1. Init => Fresh
  BY AccountsAssumption DEF AccountsAssumption, Init, Fresh, Ids
<1>2. ASSUME TypeOK, Control, Fresh, [Next]_vars, NEW r \in Requests,
             At(r, "social", "missing"), phase'[r] = "done", reply'[r] = "conflict"
      PROVE  SubTaken(op[r].sub)
  <2>1. /\ phase[r] = "missing" /\ tries[r] \in 0..MaxTries /\ MaxTries \in Nat /\ MaxTries >= 2
        /\ phase \in [Requests -> Phases] /\ reply \in [Requests -> Replies \cup {Nothing}]
        /\ op[r] \in Operation /\ op[r].kind = "social"
    BY <1>2, AccountsAssumption DEF AccountsAssumption, At, TypeOK, Control, Knows
  <2>2. CreateSocial(r) \/ SocialTaken(r) \/ Fail(r)
    <3>1. PICK q \in Requests :
            \/ \E o \in Asked : Arrive(q, o)
            \/ SignUp(q) \/ SignUpTaken(q) \/ SetPendingEmail(q) \/ Login(q) \/ RefuseLogin(q)
            \/ SocialLogin(q) \/ SocialMissing(q) \/ CreateSocial(q) \/ SocialTaken(q)
            \/ CheckCooldown(q) \/ RenamedTooSoon(q) \/ UpdateDisplayName(q)
            \/ UpdateThemeLanguage(q) \/ RefuseTheme(q) \/ ProfileMissing(q)
            \/ DeleteUser(q) \/ Fail(q)
      BY <1>2, <2>1 DEF Next, Tick, Quiescent, vars, requests
    <3>2. \E p \in Phases : phase' = [phase EXCEPT ![q] = p]
      <4>1. CASE (\E o \in Asked : Arrive(q, o)) \/ SignUp(q) \/ SignUpTaken(q) \/ SetPendingEmail(q)
        BY <4>1 DEF Arrive, SignUp, SignUpTaken, SetPendingEmail, Goto, Answer, Welcome, Phases
      <4>2. CASE \/ Login(q) \/ RefuseLogin(q) \/ SocialLogin(q) \/ SocialMissing(q)
                 \/ CreateSocial(q) \/ SocialTaken(q)
        BY <4>2 DEF Login, RefuseLogin, SocialLogin, SocialMissing, CreateSocial, SocialTaken,
           Goto, Answer, Welcome, Phases
      <4>3. CASE \/ CheckCooldown(q) \/ RenamedTooSoon(q) \/ UpdateDisplayName(q)
                 \/ UpdateThemeLanguage(q) \/ RefuseTheme(q) \/ ProfileMissing(q)
                 \/ DeleteUser(q) \/ Fail(q)
        BY <4>3 DEF CheckCooldown, RenamedTooSoon, UpdateDisplayName, UpdateThemeLanguage, RefuseTheme,
           ProfileMissing, DeleteUser, Fail, Goto, Answer, Phases
      <4> QED BY <3>1, <4>1, <4>2, <4>3
    <3>3. q = r
      BY <1>2, <2>1, <3>2
    <3>4. phase[q] = "missing" /\ op[q].kind = "social"
      BY <2>1, <3>3
    <3>5. CreateSocial(q) \/ SocialTaken(q) \/ Fail(q)
      BY <3>1, <3>4 DEF Arrive, SignUp, SignUpTaken, SetPendingEmail, Login, RefuseLogin, SocialLogin,
         SocialMissing, CheckCooldown, RenamedTooSoon, UpdateDisplayName,
         UpdateThemeLanguage, Styling, RefuseTheme, ProfileMissing, DeleteUser, At
    <3> QED BY <3>3, <3>5
  <2>3. ~ CreateSocial(r) /\ ~ Fail(r)
    BY <1>2, <2>1 DEF CreateSocial, Fail, Welcome, Answer
  <2>4. /\ tries[r] + 1 = MaxTries
        /\ UsernameTaken(Candidate(r)) \/ SubTaken(op[r].sub)
    BY <1>2, <2>1, <2>2, <2>3 DEF SocialTaken, Goto
  <2>5. tries[r] \in 1..MaxTries /\ Candidate(r) = Suffixed(Base(r), r, tries[r])
    BY <2>1, <2>4 DEF Candidate
  <2>6. Base(r) \in BaseNames
    BY <2>1 DEF Base, BaseNames, Operation
  <2>7. ~ UsernameTaken(Candidate(r))
    BY <1>2, <2>1, <2>5, <2>6 DEF Fresh, UsernameTaken
  <2> QED BY <2>4, <2>7
<1>3. TypeOK /\ Control /\ Fresh /\ [Next]_vars =>
        [\A r \in Requests :
           At(r, "social", "missing") /\ phase'[r] = "done" /\ reply'[r] = "conflict" =>
             SubTaken(op[r].sub)]_vars
  BY <1>2
<1>4. Spec => [](TypeOK /\ Control /\ Fresh)
  BY InitControl, TypeStep, <1>1, FreshStep, PTL DEF Spec
<1> QED BY <1>3, <1>4, PTL DEF Spec, ConflictOnlyIfRaced
=============================================================================
