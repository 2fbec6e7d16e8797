-------------------------- MODULE AuthCodes_proofs --------------------------
(***************************************************************************)
(* Proofs about AuthCodes: what holds for any number of users, addresses,  *)
(* requests and codes.                                                     *)
(*                                                                         *)
(* Inv says what a request knows and holds by its phase, and that an id    *)
(* belongs to one letter for ever: in a row, in a mailbox or in a request  *)
(* that goes on using a row which others have changed or deleted since.    *)
(***************************************************************************)
EXTENDS AuthCodes, FiniteSetTheorems, TLAPS

\* What a request that has got so far knows.
Knows(r) ==
  /\ phase[r] # "done" => reply[r] = Nothing
  /\ phase[r] # "idle" => op[r] \in Operation
  /\ phase[r] = "arrived" => op[r].kind \in {"request", "confirm"} /\ op[r].purpose = "reset_password"
  /\ phase[r] \notin {"idle", "arrived", "done"} => who[r] \in Users
  /\ phase[r] \in {"counted", "cleared", "stamped", "stored"} => op[r].kind = "request"
  /\ phase[r] \in {"mismatched", "applied"} => op[r].kind = "confirm"
  /\ phase[r] = "matched" => op[r].kind \in {"confirm", "change"}
  /\ phase[r] = "stamped" => expiry[r] \in Nat /\ expiry[r] <= clock + CodeTTL

\* What the row that a request holds has to do with it.
Holds(r) ==
  /\ phase[r] \in {"stored", "mismatched", "applied"} => held[r] \in CodeRow
  /\ phase[r] \in {"idle", "arrived", "found", "counted", "cleared", "stamped"} => held[r] = Nothing
  /\ phase[r] = "matched" /\ op[r].kind = "confirm" => held[r] \in CodeRow
  /\ phase[r] = "matched" /\ op[r].kind = "change" => held[r] = Nothing
  /\ phase[r] = "applied" \/ (phase[r] = "matched" /\ op[r].kind = "confirm") =>
       held[r].id = typed[r] /\ held[r].user = who[r] /\ held[r].purpose = op[r].purpose

Control == \A r \in Requests : Knows(r) /\ Holds(r)

\* What the requests of the handlers carry.
LEMMA OperationShape ==
  ASSUME NEW o \in Operation
  PROVE  /\ o.kind \in {"request", "confirm", "change"}
         /\ o.kind \in {"request", "confirm"} => o.purpose \in Purposes
         /\ o.kind = "request" => o.email \in Emails
         /\ o.kind = "confirm" /\ o.purpose = "reset_password" => o.new \in Passwords
         /\ o.kind = "change" => o.current \in Passwords /\ o.new \in Passwords
         /\ "user" \in DOMAIN o => o.user \in Users
         /\ "user" \in DOMAIN o /\ o.kind = "request" => o.purpose = "verify_email"
         /\ "user" \notin DOMAIN o =>
              o.kind \in {"request", "confirm"} /\ o.purpose = "reset_password"
BY DEF Operation, Purposes

\* Answering and going on keep the types.
LEMMA MoveTyped ==
  ASSUME TypeOK, NEW r \in Requests,
         (\E p \in Phases : Goto(r, p)) \/ (\E a \in Replies : Answer(r, a))
  PROVE  phase' \in [Requests -> Phases] /\ reply' \in [Requests -> Replies \cup {Nothing}]
BY DEF TypeOK, Goto, Answer, Phases

\* Changing the address or the password of an account keeps its type.
LEMMA UserTyped ==
  ASSUME TypeOK, NEW u \in Users
  PROVE  /\ \A e \in Emails : [user EXCEPT ![u].email = e, ![u].verified = TRUE]
                                \in [Users -> UserRecord]
         /\ \A p \in Passwords : [user EXCEPT ![u].password = p] \in [Users -> UserRecord]
<1>1. user \in [Users -> UserRecord] /\ user[u] \in UserRecord
  BY DEF TypeOK
<1>2. \A e \in Emails : [user[u] EXCEPT !.email = e, !.verified = TRUE] \in UserRecord
  BY <1>1 DEF UserRecord
<1>3. \A p \in Passwords : [user[u] EXCEPT !.password = p] \in UserRecord
  BY <1>1 DEF UserRecord
<1>4. ASSUME NEW e \in Emails
      PROVE  [user EXCEPT ![u].email = e, ![u].verified = TRUE] \in [Users -> UserRecord]
  <2>1. [user EXCEPT ![u].email = e, ![u].verified = TRUE]
          = [user EXCEPT ![u] = [user[u] EXCEPT !.email = e, !.verified = TRUE]]
    BY <1>1
  <2> QED BY <1>1, <1>2, <2>1
<1> QED BY <1>1, <1>3, <1>4

\* The start is typed, and no request knows anything yet.
LEMMA InitControl == Init => TypeOK /\ Control
<1> SUFFICES ASSUME Init PROVE TypeOK /\ Control
  OBVIOUS
<1>1. InitialUsers \in [Users -> UserRecord] /\ InitialCodes \subseteq CodeRow /\ IsFiniteSet(InitialCodes)
  BY CodesAssumption DEF CodesAssumption
<1>2. Cardinality(InitialCodes) \in Nat
  BY <1>1, FS_CardinalityType
<1>3. mail \subseteq Letter
  BY <1>1 DEF Init, LetterOf, Letter, CodeRow
<1>4. TypeOK
  <2>1. /\ phase \in [Requests -> Phases] /\ op \in [Requests -> Operation \cup {Nothing}]
        /\ typed \in [Requests -> Nat] /\ who \in [Requests -> Users \cup {Nothing}]
        /\ expiry \in [Requests -> Nat \cup {Nothing}]
        /\ held \in [Requests -> CodeRow \cup {Nothing}]
        /\ reply \in [Requests -> Replies \cup {Nothing}]
    BY DEF Init, Phases
  <2> QED BY <1>1, <1>2, <1>3, <2>1 DEF Init, TypeOK
<1>5. Control
  BY DEF Init, Control, Knows, Holds
<1> QED BY <1>4, <1>5

\* The steps of a request that only move it on or answer it.
Moves(r) ==
  \/ FindNobody(r) \/ CountCodes(r) \/ RateLimited(r) \/ EmailTaken(r) \/ EmailFree(r)
  \/ NoCode(r) \/ TooManyTries(r) \/ EmailNotUnique(r)
  \/ RefuseChange(r) \/ CheckPassword(r) \/ Fail(r)

\* They leave the rest alone.
LEMMA MovesKeep ==
  ASSUME NEW r \in Requests, Moves(r)
  PROVE  /\ UNCHANGED <<clock, tables, mail, op, typed, who, expiry, held>>
         /\ (\E p \in Phases : Goto(r, p)) \/ (\E a \in Replies : Answer(r, a))
         /\ overlapped' \in {overlapped, overlapped \/ Issuing(r)}
<1>1. ASSUME NEW p \in Phases, Goto(r, p) PROVE \E q \in Phases : Goto(r, q)
  BY <1>1
<1>2. ASSUME NEW a \in Replies, Answer(r, a) PROVE \E b \in Replies : Answer(r, b)
  BY <1>2
<1>3. "counted" \in Phases /\ "cleared" \in Phases /\ "matched" \in Phases
  BY DEF Phases
<1>4. {"ok", "unauthorized", "rate_limited", "conflict", "no_password", "error"} \subseteq Replies
  BY DEF Replies
<1>5. CASE CountCodes(r)
  BY <1>1, <1>3, <1>5 DEF CountCodes
<1>6. CASE EmailFree(r) \/ CheckPassword(r)
  BY <1>1, <1>3, <1>6 DEF EmailFree, CheckPassword
<1>7. CASE FindNobody(r) \/ RateLimited(r) \/ EmailTaken(r)
  BY <1>2, <1>4, <1>7 DEF FindNobody, RateLimited, EmailTaken
<1>8. CASE NoCode(r) \/ TooManyTries(r) \/ EmailNotUnique(r) \/ RefuseChange(r) \/ Fail(r)
  BY <1>2, <1>4, <1>8 DEF NoCode, TooManyTries, EmailNotUnique, RefuseChange, Fail
<1> QED BY <1>5, <1>6, <1>7, <1>8 DEF Moves

\* Next by the parts of it that the proofs tell apart.
LEMMA NextSplit ==
  ASSUME [Next]_vars
  PROVE  \/ Tick \/ UNCHANGED vars
         \/ \E r \in Requests :
              \/ \E o \in Asked : \E code \in Typed(o) : Arrive(r, o, code)
              \/ Moves(r) \/ FindUser(r) \/ StampExpiry(r) \/ StoreCode(r) \/ SendMail(r) \/ SendFails(r)
              \/ CompareCode(r) \/ CountTry(r) \/ LoseTry(r) \/ SetEmailVerified(r)
              \/ ResetPassword(r) \/ DeleteCodes(r) \/ ChangePassword(r)
BY DEF Next, Moves, Quiescent

\* A new row, and the letter for it, are typed.
LEMMA NewCodeTyped ==
  ASSUME TypeOK, Control, NEW r \in Requests, At(r, "request", "stamped")
  PROVE  NewCode(r) \in CodeRow /\ NewCode(r).id = issued + 1
<1>1. phase[r] = "stamped" /\ op[r].kind = "request"
  BY DEF At
<1>2. op[r] \in Operation /\ who[r] \in Users /\ expiry[r] \in Nat
  BY <1>1 DEF Control, Knows
<1>3. op[r].purpose \in Purposes /\ op[r].email \in Emails
  BY <1>1, <1>2, OperationShape
<1>4. clock \in Nat /\ issued + 1 \in Nat
  BY DEF TypeOK
<1> QED BY <1>2, <1>3, <1>4 DEF NewCode, CodeRow

\* A row, and all rows, after a wrong try at the code with this id was counted.
Tried(c, id) == IF c.id = id THEN [c EXCEPT !.attempts = @ + 1] ELSE c
CountedOn(id) == {Tried(c, id) : c \in codes}

\* Counting a try keeps the rows typed.
LEMMA CountedTyped ==
  ASSUME codes \subseteq CodeRow, NEW id
  PROVE  /\ CountedOn(id) \subseteq CodeRow
         /\ \A d \in CountedOn(id) : \E c \in codes : d = Tried(c, id)
<1>1. ASSUME NEW c \in codes PROVE Tried(c, id) \in CodeRow
  <2>1. c \in CodeRow
    OBVIOUS
  <2> QED BY <2>1 DEF CodeRow, Tried
<1> QED BY <1>1 DEF CountedOn

\* Every step keeps the types.
LEMMA StepTypes == TypeOK /\ Control /\ [Next]_vars => TypeOK'
<1> SUFFICES ASSUME TypeOK, Control, [Next]_vars PROVE TypeOK'
  OBVIOUS
<1>1. CASE Tick
  BY <1>1 DEF Tick, TypeOK, tables, requests
<1>2. CASE UNCHANGED vars
  BY <1>2 DEF vars, TypeOK, tables, requests
<1>3. ASSUME NEW r \in Requests, Moves(r) PROVE TypeOK'
  <2>1. phase' \in [Requests -> Phases] /\ reply' \in [Requests -> Replies \cup {Nothing}]
    BY <1>3, MovesKeep, MoveTyped
  <2>2. UNCHANGED <<clock, tables, mail, op, typed, who, expiry, held>>
    BY <1>3, MovesKeep
  <2>3. overlapped' \in BOOLEAN
    BY <1>3, MovesKeep DEF TypeOK
  <2> QED BY <2>1, <2>2, <2>3 DEF TypeOK, tables
<1>4. ASSUME NEW r \in Requests, NEW o \in Asked, NEW code \in Typed(o), Arrive(r, o, code)
      PROVE  TypeOK'
  <2>1. o \in Operation
    BY CodesAssumption DEF CodesAssumption
  <2>2. code \in Nat
    BY <1>4 DEF Typed, TypeOK, Letter
  <2>3. phase' \in [Requests -> Phases] /\ reply' \in [Requests -> Replies \cup {Nothing}]
    <3>1. Goto(r, "found") \/ Goto(r, "arrived")
      BY <1>4 DEF Arrive
    <3>2. "found" \in Phases /\ "arrived" \in Phases
      BY DEF Phases
    <3> QED BY <3>1, <3>2, MoveTyped
  <2>4. who' \in [Requests -> Users \cup {Nothing}]
    BY <1>4, <2>1, OperationShape DEF Arrive, TypeOK
  <2>5. op' \in [Requests -> Operation \cup {Nothing}] /\ typed' \in [Requests -> Nat]
    BY <1>4, <2>1, <2>2 DEF Arrive, TypeOK
  <2>6. UNCHANGED <<clock, tables, mail, expiry, held, overlapped>>
    BY <1>4 DEF Arrive
  <2> QED BY <2>3, <2>4, <2>5, <2>6 DEF TypeOK, tables
<1>5. ASSUME NEW r \in Requests, FindUser(r) PROVE TypeOK'
  <2>1. phase' \in [Requests -> Phases] /\ reply' \in [Requests -> Replies \cup {Nothing}]
    BY <1>5, MoveTyped DEF FindUser, Phases
  <2>2. who' \in [Requests -> Users \cup {Nothing}]
    BY <1>5 DEF FindUser, Owners, TypeOK
  <2> QED BY <1>5, <2>1, <2>2 DEF FindUser, TypeOK, tables
<1>6. ASSUME NEW r \in Requests, StampExpiry(r) PROVE TypeOK'
  <2>1. phase' \in [Requests -> Phases] /\ reply' \in [Requests -> Replies \cup {Nothing}]
    BY <1>6, MoveTyped DEF StampExpiry, Phases
  <2>2. clock + CodeTTL \in Nat
    BY CodesAssumption DEF CodesAssumption, TypeOK
  <2>3. expiry' \in [Requests -> Nat \cup {Nothing}]
    BY <1>6, <2>2 DEF StampExpiry, TypeOK
  <2> QED BY <1>6, <2>1, <2>3 DEF StampExpiry, TypeOK, tables
<1>7. ASSUME NEW r \in Requests, StoreCode(r) PROVE TypeOK'
  <2>1. phase' \in [Requests -> Phases] /\ reply' \in [Requests -> Replies \cup {Nothing}]
    BY <1>7, MoveTyped DEF StoreCode, Phases
  <2>2. NewCode(r) \in CodeRow
    BY <1>7, NewCodeTyped DEF StoreCode
  <2>3. codes' \subseteq CodeRow /\ issued' \in Nat /\ held' \in [Requests -> CodeRow \cup {Nothing}]
    BY <1>7, <2>2 DEF StoreCode, TypeOK
  <2>4. UNCHANGED <<clock, user, mail, op, typed, who, expiry, overlapped>>
    BY <1>7 DEF StoreCode
  <2> QED BY <2>1, <2>3, <2>4 DEF TypeOK
<1>8. ASSUME NEW r \in Requests, SendMail(r) \/ SendFails(r) PROVE TypeOK'
  <2>1. phase' \in [Requests -> Phases] /\ reply' \in [Requests -> Replies \cup {Nothing}]
    BY <1>8, MoveTyped DEF SendMail, SendFails, Replies
  <2>2. held[r] \in CodeRow
    BY <1>8 DEF SendMail, SendFails, At, Control, Holds
  <2>3. LetterOf(held[r]) \in Letter
    BY <2>2 DEF LetterOf, Letter, CodeRow
  <2>4. mail' \subseteq Letter
    BY <1>8, <2>3 DEF SendMail, SendFails, TypeOK
  <2>5. UNCHANGED <<clock, tables, op, typed, who, expiry, held, overlapped>>
    BY <1>8 DEF SendMail, SendFails
  <2> QED BY <2>1, <2>4, <2>5 DEF TypeOK, tables
<1>9. ASSUME NEW r \in Requests, CompareCode(r) PROVE TypeOK'
  <2>1. PICK c \in Latest(who[r], op[r].purpose) :
          held' = [held EXCEPT ![r] = c] /\ Goto(r, IF c.id = typed[r] THEN "matched" ELSE "mismatched")
    BY <1>9 DEF CompareCode
  <2>2. c \in CodeRow
    BY <2>1 DEF Latest, CodesOf, TypeOK
  <2>3. held' \in [Requests -> CodeRow \cup {Nothing}]
    BY <2>1, <2>2 DEF TypeOK
  <2>4. phase' \in [Requests -> Phases] /\ reply' \in [Requests -> Replies \cup {Nothing}]
    BY <2>1, MoveTyped DEF Phases
  <2>5. UNCHANGED <<clock, tables, mail, op, typed, who, expiry, overlapped>>
    BY <1>9 DEF CompareCode
  <2> QED BY <2>3, <2>4, <2>5 DEF TypeOK, tables
<1>10. ASSUME NEW r \in Requests, CountTry(r) PROVE TypeOK'
  <2>1. phase' \in [Requests -> Phases] /\ reply' \in [Requests -> Replies \cup {Nothing}]
    BY <1>10, MoveTyped DEF CountTry, Replies
  <2>2. codes' = CountedOn(held[r].id)
    BY <1>10 DEF CountTry, CountedOn, Tried
  <2>3. codes' \subseteq CodeRow
    BY <2>2, CountedTyped DEF TypeOK
  <2> QED BY <1>10, <2>1, <2>3 DEF CountTry, TypeOK
<1>11. ASSUME NEW r \in Requests, LoseTry(r) PROVE TypeOK'
  <2>1. phase' \in [Requests -> Phases] /\ reply' \in [Requests -> Replies \cup {Nothing}]
    BY <1>11, MoveTyped DEF LoseTry, Replies
  <2>2. held' \in [Requests -> CodeRow \cup {Nothing}]
    BY <1>11 DEF LoseTry, TypeOK
  <2> QED BY <1>11, <2>1, <2>2 DEF LoseTry, TypeOK, tables
<1>12. ASSUME NEW r \in Requests, SetEmailVerified(r) PROVE TypeOK'
  <2>1. phase' \in [Requests -> Phases] /\ reply' \in [Requests -> Replies \cup {Nothing}]
    BY <1>12, MoveTyped DEF SetEmailVerified, Phases
  <2>2. held[r] \in CodeRow /\ who[r] \in Users
    BY <1>12 DEF SetEmailVerified, At, Control, Holds, Knows
  <2>3. held[r].email \in Emails
    BY <2>2 DEF CodeRow
  <2>4. user' \in [Users -> UserRecord]
    BY <1>12, <2>2, <2>3, UserTyped DEF SetEmailVerified
  <2> QED BY <1>12, <2>1, <2>4 DEF SetEmailVerified, TypeOK
<1>13. ASSUME NEW r \in Requests, ResetPassword(r) \/ ChangePassword(r) PROVE TypeOK'
  <2>1. phase' \in [Requests -> Phases] /\ reply' \in [Requests -> Replies \cup {Nothing}]
    BY <1>13, MoveTyped DEF ResetPassword, ChangePassword, Phases, Replies
  <2>2. who[r] \in Users /\ op[r] \in Operation
    BY <1>13 DEF ResetPassword, ChangePassword, At, Control, Knows
  <2>3. op[r].new \in Passwords
    BY <1>13, <2>2, OperationShape DEF ResetPassword, ChangePassword, At
  <2>4. user' = [user EXCEPT ![who[r]].password = op[r].new]
    BY <1>13 DEF ResetPassword, ChangePassword
  <2>5. user' \in [Users -> UserRecord]
    BY <2>2, <2>3, <2>4, UserTyped
  <2>6. UNCHANGED <<clock, codes, issued, mail, op, typed, who, expiry, held, overlapped>>
    BY <1>13 DEF ResetPassword, ChangePassword
  <2> QED BY <2>1, <2>5, <2>6 DEF TypeOK
<1>14. ASSUME NEW r \in Requests, DeleteCodes(r) PROVE TypeOK'
  <2>1. phase' \in [Requests -> Phases] /\ reply' \in [Requests -> Replies \cup {Nothing}]
    BY <1>14, MoveTyped DEF DeleteCodes, Replies
  <2> QED BY <1>14, <2>1 DEF DeleteCodes, TypeOK
<1> QED BY <1>1, <1>2, <1>3, <1>4, <1>5, <1>6, <1>7, <1>8, <1>9, <1>10, <1>11, <1>12, <1>13, <1>14,
           NextSplit

\* A request whose variables stay as they are knows and holds what it did.
LEMMA Others ==
  ASSUME Control, NEW q \in Requests, clock' = clock,
         phase'[q] = phase[q], op'[q] = op[q], typed'[q] = typed[q], who'[q] = who[q],
         expiry'[q] = expiry[q], held'[q] = held[q], reply'[q] = reply[q]
  PROVE  Knows(q)' /\ Holds(q)'
BY DEF Control, Knows, Holds

\* Only the variables of one request change.
OnlyOf(r) ==
  /\ clock' = clock
  /\ \A q \in Requests \ {r} :
       /\ phase'[q] = phase[q] /\ op'[q] = op[q] /\ typed'[q] = typed[q] /\ who'[q] = who[q]
       /\ expiry'[q] = expiry[q] /\ held'[q] = held[q] /\ reply'[q] = reply[q]

\* Every action but the clock's is the step of one request.
LEMMA OneRequest ==
  ASSUME TypeOK, NEW r \in Requests,
         \/ \E o \in Asked : \E code \in Typed(o) : Arrive(r, o, code)
         \/ Moves(r) \/ FindUser(r) \/ StampExpiry(r) \/ StoreCode(r) \/ SendMail(r) \/ SendFails(r)
         \/ CompareCode(r) \/ CountTry(r) \/ LoseTry(r) \/ SetEmailVerified(r)
         \/ ResetPassword(r) \/ DeleteCodes(r) \/ ChangePassword(r)
  PROVE  OnlyOf(r)
<1> USE DEF TypeOK, OnlyOf, Goto, Answer
<1>1. CASE \E o \in Asked : \E code \in Typed(o) : Arrive(r, o, code)
  BY <1>1 DEF Arrive
<1>2. CASE Moves(r)
  BY <1>2, MovesKeep
<1>3. CASE FindUser(r)
  BY <1>3 DEF FindUser
<1>4. CASE StampExpiry(r)
  BY <1>4 DEF StampExpiry
<1>5. CASE StoreCode(r)
  BY <1>5 DEF StoreCode
<1>6. CASE SendMail(r) \/ SendFails(r)
  BY <1>6 DEF SendMail, SendFails
<1>7. CASE CompareCode(r)
  BY <1>7 DEF CompareCode
<1>8. CASE CountTry(r)
  BY <1>8 DEF CountTry
<1>9. CASE LoseTry(r)
  BY <1>9 DEF LoseTry
<1>10. CASE SetEmailVerified(r) \/ ResetPassword(r) \/ ChangePassword(r)
  BY <1>10 DEF SetEmailVerified, ResetPassword, ChangePassword
<1>11. CASE DeleteCodes(r)
  BY <1>11 DEF DeleteCodes
<1> QED BY <1>1, <1>2, <1>3, <1>4, <1>5, <1>6, <1>7, <1>8, <1>9, <1>10, <1>11

\* An answered request knows nothing more.
LEMMA AnswerKnows ==
  ASSUME TypeOK, Control, NEW r \in Requests, phase[r] # "idle",
         NEW a, Answer(r, a), op' = op
  PROVE  Knows(r)' /\ Holds(r)'
BY DEF TypeOK, Control, Knows, Holds, Answer

\* The row with the code of a request that types it is a row of its user.
LEMMA LatestRow ==
  ASSUME TypeOK, NEW u, NEW p, NEW c \in Latest(u, p)
  PROVE  c \in codes /\ c \in CodeRow /\ c.user = u /\ c.purpose = p
BY DEF TypeOK, Latest, CodesOf

\* What a request knows after its own step.
LEMMA OwnStep ==
  ASSUME TypeOK, Control, NEW r \in Requests,
         \/ \E o \in Asked : \E code \in Typed(o) : Arrive(r, o, code)
         \/ Moves(r) \/ FindUser(r) \/ StampExpiry(r) \/ StoreCode(r) \/ SendMail(r) \/ SendFails(r)
         \/ CompareCode(r) \/ CountTry(r) \/ LoseTry(r) \/ SetEmailVerified(r)
         \/ ResetPassword(r) \/ DeleteCodes(r) \/ ChangePassword(r)
  PROVE  Knows(r)' /\ Holds(r)'
<1>0. Knows(r) /\ Holds(r)
  BY DEF Control
<1>1. ASSUME NEW o \in Asked, NEW code \in Typed(o), Arrive(r, o, code)
      PROVE  Knows(r)' /\ Holds(r)'
  <2>1. o \in Operation
    BY CodesAssumption DEF CodesAssumption
  <2>2. op'[r] = o /\ held' = held /\ phase[r] = "idle"
    BY <1>1 DEF Arrive, TypeOK
  <2>3. CASE "user" \in DOMAIN o
    <3>1. phase'[r] = "found" /\ who'[r] = o.user /\ reply'[r] = reply[r] /\ o.user \in Users
      BY <1>1, <2>1, <2>3, OperationShape DEF Arrive, Goto, TypeOK
    <3> QED BY <1>0, <2>1, <2>2, <3>1 DEF Knows, Holds
  <2>4. CASE "user" \notin DOMAIN o
    <3>1. /\ phase'[r] = "arrived" /\ reply'[r] = reply[r]
          /\ o.kind \in {"request", "confirm"} /\ o.purpose = "reset_password"
      BY <1>1, <2>1, <2>4, OperationShape DEF Arrive, Goto, TypeOK
    <3> QED BY <1>0, <2>1, <2>2, <3>1 DEF Knows, Holds
  <2> QED BY <2>3, <2>4
<1>2. CASE FindUser(r)
  <2>1. phase'[r] = "found" /\ who'[r] \in Users /\ reply'[r] = reply[r] /\ phase[r] = "arrived"
    BY <1>2 DEF FindUser, Goto, Owners, TypeOK
  <2> QED BY <1>0, <1>2, <2>1 DEF FindUser, Knows, Holds
<1>3. CASE StampExpiry(r)
  <2>1. phase[r] \in {"cleared", "counted"} /\ op[r].kind = "request"
    BY <1>3 DEF StampExpiry, At
  <2>2. phase'[r] = "stamped" /\ reply'[r] = reply[r] /\ expiry'[r] = clock + CodeTTL
    BY <1>3 DEF StampExpiry, Goto, TypeOK
  <2>3. clock + CodeTTL \in Nat /\ clock + CodeTTL <= clock + CodeTTL
    BY CodesAssumption DEF CodesAssumption, TypeOK
  <2> QED BY <1>0, <1>3, <2>1, <2>2, <2>3 DEF StampExpiry, Knows, Holds
<1>4. CASE StoreCode(r)
  <2>1. phase[r] = "stamped" /\ NewCode(r) \in CodeRow
    BY <1>4, NewCodeTyped DEF StoreCode, At
  <2>2. phase'[r] = "stored" /\ reply'[r] = reply[r] /\ held'[r] = NewCode(r)
    BY <1>4 DEF StoreCode, Goto, TypeOK
  <2> QED BY <1>0, <1>4, <2>1, <2>2 DEF StoreCode, Knows, Holds
<1>5. CASE CompareCode(r)
  <2>1. PICK c \in Latest(who[r], op[r].purpose) :
          held' = [held EXCEPT ![r] = c] /\ Goto(r, IF c.id = typed[r] THEN "matched" ELSE "mismatched")
    BY <1>5 DEF CompareCode
  <2>2. c \in CodeRow /\ c.user = who[r] /\ c.purpose = op[r].purpose
    BY LatestRow
  <2>3. phase[r] = "found" /\ op[r].kind = "confirm" /\ UNCHANGED <<op, typed, who>>
    BY <1>5 DEF CompareCode, At
  <2>4. /\ held'[r] = c /\ reply'[r] = reply[r]
        /\ phase'[r] = IF c.id = typed[r] THEN "matched" ELSE "mismatched"
    BY <2>1 DEF Goto, TypeOK
  <2> QED BY <1>0, <2>2, <2>3, <2>4 DEF Knows, Holds
<1>6. CASE Moves(r)
  <2>1. UNCHANGED <<clock, op, typed, who, expiry, held>>
    BY <1>6, MovesKeep
  <2>2. CASE CountCodes(r)
    <3>1. phase[r] = "found" /\ op[r].kind = "request" /\ phase'[r] = "counted" /\ reply'[r] = reply[r]
      BY <2>2 DEF CountCodes, At, Goto, TypeOK
    <3> QED BY <1>0, <2>1, <3>1 DEF Knows, Holds
  <2>3. CASE EmailFree(r)
    <3>1. phase[r] = "counted" /\ op[r].kind = "request" /\ phase'[r] = "cleared" /\ reply'[r] = reply[r]
      BY <2>3 DEF EmailFree, At, Goto, TypeOK
    <3> QED BY <1>0, <2>1, <3>1 DEF Knows, Holds
  <2>4. CASE CheckPassword(r)
    <3>1. phase[r] = "found" /\ op[r].kind = "change" /\ phase'[r] = "matched" /\ reply'[r] = reply[r]
      BY <2>4 DEF CheckPassword, At, Goto, TypeOK
    <3> QED BY <1>0, <2>1, <3>1 DEF Knows, Holds
  <2>5. CASE FindNobody(r) \/ RateLimited(r) \/ EmailTaken(r) \/ NoCode(r) \/ TooManyTries(r)
    <3>1. phase[r] # "idle" /\ \E a : Answer(r, a)
      BY <2>5 DEF FindNobody, RateLimited, EmailTaken, NoCode, TooManyTries, At
    <3> QED BY <2>1, <3>1, AnswerKnows
  <2>6. CASE EmailNotUnique(r) \/ RefuseChange(r) \/ Fail(r)
    <3>1. phase[r] # "idle" /\ \E a : Answer(r, a)
      BY <2>6 DEF EmailNotUnique, RefuseChange, Fail, At
    <3> QED BY <2>1, <3>1, AnswerKnows
  <2> QED BY <1>6, <2>2, <2>3, <2>4, <2>5, <2>6 DEF Moves
<1>7. CASE SendMail(r) \/ SendFails(r) \/ CountTry(r) \/ DeleteCodes(r) \/ ChangePassword(r)
  <2>1. phase[r] # "idle" /\ op' = op /\ \E a : Answer(r, a)
    BY <1>7 DEF SendMail, SendFails, CountTry, DeleteCodes, ChangePassword, At
  <2> QED BY <2>1, AnswerKnows
<1>8. CASE LoseTry(r)
  <2>1. phase[r] # "idle" /\ op' = op /\ \E a : Answer(r, a)
    BY <1>8 DEF LoseTry
  <2> QED BY <2>1, AnswerKnows
<1>9. CASE SetEmailVerified(r) \/ ResetPassword(r)
  <2>1. /\ phase[r] = "matched" /\ op[r].kind = "confirm"
        /\ phase'[r] = "applied" /\ reply'[r] = reply[r]
        /\ UNCHANGED <<clock, op, typed, who, expiry, held>>
    BY <1>9 DEF SetEmailVerified, ResetPassword, At, Goto, TypeOK
  <2> QED BY <1>0, <2>1 DEF Knows, Holds
<1> QED BY <1>1, <1>2, <1>3, <1>4, <1>5, <1>6, <1>7, <1>8, <1>9

\* Requests know what they knew, and more by their own steps.
LEMMA StepControl == TypeOK /\ Control /\ [Next]_vars => Control'
<1> SUFFICES ASSUME TypeOK, Control, [Next]_vars, NEW q \in Requests
             PROVE  Knows(q)' /\ Holds(q)'
  BY DEF Control
<1>1. CASE Tick
  <2>1. clock' = clock + 1 /\ UNCHANGED <<phase, op, typed, who, expiry, held, reply>>
    BY <1>1 DEF Tick, requests
  <2>2. Knows(q) /\ Holds(q) /\ clock \in Nat /\ CodeTTL \in Nat
    BY CodesAssumption DEF Control, TypeOK, CodesAssumption
  <2> QED BY <2>1, <2>2 DEF Knows, Holds
<1>2. CASE UNCHANGED vars
  BY <1>2, Others DEF vars, requests
<1>3. ASSUME NEW r \in Requests, OnlyOf(r), Knows(r)', Holds(r)' PROVE Knows(q)' /\ Holds(q)'
  BY <1>3, Others DEF OnlyOf
<1> QED BY <1>1, <1>2, <1>3, NextSplit, OneRequest, OwnStep

\* Type correctness of codes and requests.
THEOREM CodesTypeOK == Spec => []TypeOK
<1>1. Spec => [](TypeOK /\ Control)
  BY InitControl, StepTypes, StepControl, PTL DEF Spec
<1> QED BY <1>1, PTL
-----------------------------------------------------------------------------
(* Rows and letters.  A row lives on, as a letter, in mailboxes and in the *)
(* requests that hold it, after it was deleted.                            *)
Letters ==
  {LetterOf(c) : c \in codes} \cup mail
    \cup {LetterOf(held[r]) : r \in {q \in Requests : held[q] # Nothing}}

\* An id belongs to one letter and to one row, and a code that was typed was mailed.
Rows ==
  /\ IsFiniteSet(codes)
  /\ \A c, d \in codes : c.id = d.id => c = d
  /\ \A c \in codes : c.expiresAt <= c.createdAt + CodeTTL
  /\ \A l \in Letters : l.id \in 1..issued
  /\ \A l, k \in Letters : l.id = k.id => l = k
  /\ \A r \in Requests : typed[r] = 0 \/ \E m \in mail : m.id = typed[r]

\* The rows at the start, all of them mailed.
LEMMA InitRows == Init => Rows
<1> SUFFICES ASSUME Init PROVE Rows
  OBVIOUS
<1>1. /\ InitialCodes \subseteq CodeRow /\ IsFiniteSet(InitialCodes)
      /\ \A c \in InitialCodes : c.id \in 1..issued /\ c.createdAt = 0 /\ c.expiresAt = CodeTTL
      /\ \A c, d \in InitialCodes : c.id = d.id => c = d
      /\ CodeTTL \in Nat
  BY CodesAssumption DEF CodesAssumption, Init
<1>2. Letters = {LetterOf(c) : c \in InitialCodes}
  BY DEF Init, Letters
<1>3. \A c \in InitialCodes : LetterOf(c).id = c.id
  BY DEF LetterOf
<1> QED BY <1>1, <1>2, <1>3 DEF Init, Rows

\* The steps that write codes or letters, or change what a request holds.
LEMMA RowSteps ==
  ASSUME [Next]_vars
  PROVE  \/ UNCHANGED <<codes, issued, mail, held>>
         \/ \E r \in Requests :
              \/ StoreCode(r) \/ SendMail(r) \/ SendFails(r) \/ CompareCode(r)
              \/ CountTry(r) \/ LoseTry(r) \/ DeleteCodes(r)
<1>1. CASE Tick \/ UNCHANGED vars
  BY <1>1 DEF Tick, vars, tables, requests
<1>2. ASSUME NEW r \in Requests, Moves(r) PROVE UNCHANGED <<codes, issued, mail, held>>
  BY <1>2, MovesKeep DEF tables
<1>3. ASSUME NEW r \in Requests,
             \/ \E o \in Asked : \E code \in Typed(o) : Arrive(r, o, code)
             \/ FindUser(r) \/ StampExpiry(r)
             \/ SetEmailVerified(r) \/ ResetPassword(r) \/ ChangePassword(r)
      PROVE  UNCHANGED <<codes, issued, mail, held>>
  BY <1>3 DEF Arrive, FindUser, StampExpiry, SetEmailVerified, ResetPassword, ChangePassword, tables
<1> QED BY <1>1, <1>2, <1>3, NextSplit

\* A new letter only ever comes with a new row, under a new id.
LEMMA StepLetters ==
  ASSUME TypeOK, Control, Rows, [Next]_vars
  PROVE  \/ Letters' \subseteq Letters /\ issued' = issued
         \/ /\ issued' = issued + 1
            /\ \E r \in Requests :
                 /\ StoreCode(r)
                 /\ Letters' \subseteq Letters \cup {LetterOf(NewCode(r))}
                 /\ LetterOf(NewCode(r)).id = issued + 1
<1>1. CASE UNCHANGED <<codes, issued, mail, held>>
  BY <1>1 DEF Letters
<1>2. ASSUME NEW r \in Requests, StoreCode(r)
      PROVE  /\ issued' = issued + 1
             /\ Letters' \subseteq Letters \cup {LetterOf(NewCode(r))}
             /\ LetterOf(NewCode(r)).id = issued + 1
  <2>1. codes' = codes \cup {NewCode(r)} /\ issued' = issued + 1 /\ mail' = mail
    BY <1>2 DEF StoreCode
  <2>2. \A q \in Requests : held'[q] = IF q = r THEN NewCode(r) ELSE held[q]
    BY <1>2 DEF StoreCode, TypeOK
  <2>3. LetterOf(NewCode(r)).id = issued + 1
    BY DEF LetterOf, NewCode
  <2> HIDE DEF NewCode
  <2> QED BY <2>1, <2>2, <2>3 DEF Letters
<1>3. ASSUME NEW r \in Requests, SendMail(r) \/ SendFails(r)
      PROVE  Letters' \subseteq Letters /\ issued' = issued
  <2>1. /\ codes' = codes /\ issued' = issued /\ held' = held
        /\ mail' \subseteq mail \cup {LetterOf(held[r])}
    BY <1>3 DEF SendMail, SendFails, tables
  <2>2. held[r] \in CodeRow
    BY <1>3 DEF SendMail, SendFails, At, Control, Holds
  <2>3. held[r] # Nothing
    BY <2>2, CodesAssumption DEF CodesAssumption
  <2> QED BY <2>1, <2>3 DEF Letters
<1>4. ASSUME NEW r \in Requests, CompareCode(r)
      PROVE  Letters' \subseteq Letters /\ issued' = issued
  <2>1. PICK c \in Latest(who[r], op[r].purpose) : held' = [held EXCEPT ![r] = c]
    BY <1>4 DEF CompareCode
  <2>2. c \in codes
    BY LatestRow
  <2>3. UNCHANGED <<codes, issued, mail>>
    BY <1>4 DEF CompareCode, tables
  <2>4. \A q \in Requests : held'[q] = IF q = r THEN c ELSE held[q]
    BY <2>1 DEF TypeOK
  <2> QED BY <2>2, <2>3, <2>4 DEF Letters
<1>5. ASSUME NEW r \in Requests, CountTry(r)
      PROVE  Letters' \subseteq Letters /\ issued' = issued
  <2>1. codes' = CountedOn(held[r].id) /\ UNCHANGED <<issued, mail, held>>
    BY <1>5 DEF CountTry, CountedOn, Tried
  <2>2. ASSUME NEW d \in codes' PROVE \E c \in codes : LetterOf(d) = LetterOf(c)
    <3>1. PICK c \in codes : d = Tried(c, held[r].id)
      BY <2>1, <2>2 DEF CountedOn
    <3>2. c \in CodeRow
      BY DEF TypeOK
    <3>3. LetterOf(d) = LetterOf(c)
      BY <3>1, <3>2 DEF LetterOf, CodeRow, Tried
    <3> QED BY <3>3
  <2> QED BY <2>1, <2>2 DEF Letters
<1>6. ASSUME NEW r \in Requests, LoseTry(r)
      PROVE  Letters' \subseteq Letters /\ issued' = issued
  <2>1. UNCHANGED <<codes, issued, mail>>
    BY <1>6 DEF LoseTry, tables
  <2>2. \A q \in Requests : held'[q] = IF q = r THEN Nothing ELSE held[q]
    BY <1>6 DEF LoseTry, TypeOK
  <2> QED BY <2>1, <2>2 DEF Letters
<1>7. ASSUME NEW r \in Requests, DeleteCodes(r)
      PROVE  Letters' \subseteq Letters /\ issued' = issued
  <2>1. codes' \subseteq codes /\ UNCHANGED <<issued, mail, held>>
    BY <1>7 DEF DeleteCodes
  <2> QED BY <2>1 DEF Letters
<1> QED BY <1>1, <1>2, <1>3, <1>4, <1>5, <1>6, <1>7, RowSteps

\* What a step does to the rows themselves.
LEMMA StepCodes ==
  ASSUME TypeOK, Control, [Next]_vars
  PROVE  \/ codes' \subseteq codes
         \/ \E r \in Requests : StoreCode(r) /\ codes' = codes \cup {NewCode(r)}
         \/ \E r \in Requests : CountTry(r) /\ codes' = CountedOn(held[r].id)
<1>1. ASSUME NEW r \in Requests,
             SendMail(r) \/ SendFails(r) \/ CompareCode(r) \/ LoseTry(r) \/ DeleteCodes(r)
      PROVE  codes' \subseteq codes
  BY <1>1 DEF SendMail, SendFails, CompareCode, LoseTry, DeleteCodes, tables
<1>2. ASSUME NEW r \in Requests, StoreCode(r) PROVE codes' = codes \cup {NewCode(r)}
  BY <1>2 DEF StoreCode
<1>3. ASSUME NEW r \in Requests, CountTry(r) PROVE codes' = CountedOn(held[r].id)
  BY <1>3 DEF CountTry, CountedOn, Tried
<1> QED BY <1>1, <1>2, <1>3, RowSteps

\* Rows that come from a finite set by counting a try are finitely many, and
\* not more.
LEMMA CountedImage ==
  ASSUME NEW S, IsFiniteSet(S), NEW T, NEW id,
         \A t \in T : \E c \in S : t = Tried(c, id)
  PROVE  IsFiniteSet(T) /\ Cardinality(T) <= Cardinality(S)
<1> DEFINE f == [c \in S |-> Tried(c, id)]
           U == {f[c] : c \in S}
<1>1. f \in Surjection(S, U)
  <2> HIDE DEF f
  <2>1. f \in [S -> U]
    BY DEF f
  <2> QED BY <2>1 DEF Surjection
<1>2. IsFiniteSet(U) /\ Cardinality(U) <= Cardinality(S)
  BY <1>1, FS_Surjection
<1>3. T \subseteq U
  OBVIOUS
<1>4. IsFiniteSet(T) /\ Cardinality(T) <= Cardinality(U)
  BY <1>2, <1>3, FS_Subset
<1> QED
  <2> HIDE DEF U
  <2>1. Cardinality(T) \in Nat /\ Cardinality(U) \in Nat /\ Cardinality(S) \in Nat
    BY <1>2, <1>4, FS_CardinalityType
  <2> QED BY <1>2, <1>4, <2>1

\* Ids stay unique: a row is new under a new id, or was there.
LEMMA StepRows == TypeOK /\ Control /\ Rows /\ [Next]_vars => Rows'
<1> SUFFICES ASSUME TypeOK, Control, Rows, [Next]_vars PROVE Rows'
  OBVIOUS
<1>1. issued \in Nat /\ clock \in Nat /\ CodeTTL \in Nat
  BY CodesAssumption DEF TypeOK, CodesAssumption
<1>2. (\A l \in Letters : l.id \in 1..issued)' /\ (\A l, k \in Letters : l.id = k.id => l = k)'
  <2>1. CASE Letters' \subseteq Letters /\ issued' = issued
    BY <2>1 DEF Rows
  <2>2. ASSUME NEW new, Letters' \subseteq Letters \cup {new}, new.id = issued + 1, issued' = issued + 1
        PROVE  /\ \A l \in Letters' : l.id \in 1..issued'
               /\ \A l, k \in Letters' : l.id = k.id => l = k
    BY <1>1, <2>2 DEF Rows
  <2> QED BY <2>1, <2>2, StepLetters
<1>3. \A c \in codes : LetterOf(c) \in Letters /\ LetterOf(c).id = c.id
  BY DEF Letters, LetterOf
<1>4. /\ IsFiniteSet(codes)'
      /\ (\A c, d \in codes : c.id = d.id => c = d)'
      /\ (\A c \in codes : c.expiresAt <= c.createdAt + CodeTTL)'
  <2>1. CASE codes' \subseteq codes
    BY <2>1, FS_Subset DEF Rows
  <2>2. ASSUME NEW r \in Requests, StoreCode(r), codes' = codes \cup {NewCode(r)}
        PROVE  /\ IsFiniteSet(codes')
               /\ \A c, d \in codes' : c.id = d.id => c = d
               /\ \A c \in codes' : c.expiresAt <= c.createdAt + CodeTTL
    <3>1. IsFiniteSet(codes')
      BY <2>2, FS_AddElement DEF Rows
    <3>2. phase[r] = "stamped"
      BY <2>2 DEF StoreCode, At
    <3>3. NewCode(r).expiresAt <= NewCode(r).createdAt + CodeTTL
      BY <3>2 DEF NewCode, Control, Knows
    <3>4. NewCode(r).id = issued + 1
      BY DEF NewCode
    <3>5. \A c \in codes : c.id \in 1..issued
      BY <1>3 DEF Rows
    <3> HIDE DEF NewCode
    <3>6. \A c, d \in codes' : c.id = d.id => c = d
      BY <1>1, <2>2, <3>4, <3>5 DEF Rows
    <3> QED BY <2>2, <3>1, <3>3, <3>6 DEF Rows
  <2>3. ASSUME NEW r \in Requests, codes' = CountedOn(held[r].id)
        PROVE  /\ IsFiniteSet(codes')
               /\ \A c, d \in codes' : c.id = d.id => c = d
               /\ \A c \in codes' : c.expiresAt <= c.createdAt + CodeTTL
    <3>1. \A d \in codes' : \E c \in codes : d = Tried(c, held[r].id)
      BY <2>3 DEF CountedOn
    <3>2. IsFiniteSet(codes')
      BY <3>1, CountedImage DEF Rows
    <3>3. ASSUME NEW c \in codes
          PROVE  LET d == Tried(c, held[r].id)
                 IN  d.id = c.id /\ d.expiresAt = c.expiresAt /\ d.createdAt = c.createdAt
      <4>1. c \in CodeRow
        BY DEF TypeOK
      <4> QED BY <4>1 DEF CodeRow, Tried
    <3> QED BY <3>1, <3>2, <3>3 DEF Rows
  <2> QED BY <2>1, <2>2, <2>3, StepCodes
<1>5. (\A r \in Requests : typed[r] = 0 \/ \E m \in mail : m.id = typed[r])'
  <2>1. mail \subseteq mail'
    <3>1. ASSUME NEW r \in Requests,
                 SendMail(r) \/ SendFails(r) \/ StoreCode(r) \/ CompareCode(r) \/ CountTry(r)
                   \/ LoseTry(r) \/ DeleteCodes(r)
          PROVE  mail \subseteq mail'
      BY <3>1 DEF SendMail, SendFails, StoreCode, CompareCode, CountTry, LoseTry, DeleteCodes
    <3> QED BY <3>1, RowSteps
  <2>2. \A q \in Requests : typed'[q] = typed[q] \/ typed'[q] \in {0} \cup {m.id : m \in mail}
    <3>1. CASE Tick \/ UNCHANGED vars
      BY <3>1 DEF Tick, vars, requests
    <3>2. ASSUME NEW r \in Requests, NEW o \in Asked, NEW code \in Typed(o), Arrive(r, o, code)
          PROVE  \A q \in Requests : typed'[q] = typed[q] \/ typed'[q] \in {0} \cup {m.id : m \in mail}
      BY <3>2 DEF Arrive, Typed, TypeOK
    <3>3. ASSUME NEW r \in Requests, Moves(r) PROVE typed' = typed
      BY <3>3, MovesKeep
    <3>4. ASSUME NEW r \in Requests,
                 \/ FindUser(r) \/ StampExpiry(r) \/ StoreCode(r) \/ SendMail(r) \/ SendFails(r)
                 \/ CompareCode(r) \/ CountTry(r) \/ LoseTry(r) \/ SetEmailVerified(r)
                 \/ ResetPassword(r) \/ DeleteCodes(r) \/ ChangePassword(r)
          PROVE  typed' = typed
      BY <3>4 DEF FindUser, StampExpiry, StoreCode, SendMail, SendFails, CompareCode, CountTry,
                  LoseTry, SetEmailVerified, ResetPassword, DeleteCodes, ChangePassword
    <3> QED BY <3>1, <3>2, <3>3, <3>4, NextSplit
  <2> QED BY <2>1, <2>2 DEF Rows
<1> QED BY <1>2, <1>4, <1>5 DEF Rows

\* What every theorem below starts from.
Inv == TypeOK /\ Control /\ Rows

\* Inv is an invariant.
LEMMA CodesInv == Spec => []Inv
<1>1. Init => Inv
  BY InitControl, InitRows DEF Inv
<1>2. Inv /\ [Next]_vars => Inv'
  BY StepTypes, StepControl, StepRows DEF Inv
<1> QED BY <1>1, <1>2, PTL DEF Spec
-----------------------------------------------------------------------------
(* Addresses and passwords.                                                *)

\* The steps that write the users table.
LEMMA UserSteps ==
  ASSUME [Next]_vars
  PROVE  \/ user' = user
         \/ \E r \in Requests : SetEmailVerified(r) \/ ResetPassword(r) \/ ChangePassword(r)
<1>1. CASE Tick \/ UNCHANGED vars
  BY <1>1 DEF Tick, vars, tables
<1>2. ASSUME NEW r \in Requests, Moves(r) PROVE user' = user
  BY <1>2, MovesKeep DEF tables
<1>3. ASSUME NEW r \in Requests,
             \/ \E o \in Asked : \E code \in Typed(o) : Arrive(r, o, code)
             \/ FindUser(r) \/ StampExpiry(r) \/ StoreCode(r) \/ SendMail(r) \/ SendFails(r)
             \/ CompareCode(r) \/ CountTry(r) \/ LoseTry(r) \/ DeleteCodes(r)
      PROVE  user' = user
  BY <1>3 DEF Arrive, FindUser, StampExpiry, StoreCode, SendMail, SendFails, CompareCode, CountTry,
              LoseTry, DeleteCodes, tables
<1> QED BY <1>1, <1>2, <1>3, NextSplit

\* What they write.
LEMMA UserWritten ==
  ASSUME Inv, NEW r \in Requests
  PROVE  /\ SetEmailVerified(r) =>
              /\ who[r] \in Users /\ held[r] \in CodeRow
              /\ op[r].kind = "confirm" /\ op[r].purpose = "verify_email" /\ phase[r] = "matched"
              /\ user'[who[r]].verified /\ user'[who[r]].email = held[r].email
              /\ user'[who[r]].password = user[who[r]].password
              /\ \A u \in Users \ {who[r]} : user'[u] = user[u]
         /\ ResetPassword(r) \/ ChangePassword(r) =>
              /\ who[r] \in Users /\ op[r].new \in Passwords /\ phase[r] = "matched"
              /\ user'[who[r]].password = op[r].new
              /\ user'[who[r]].verified = user[who[r]].verified
              /\ user'[who[r]].email = user[who[r]].email
              /\ \A u \in Users \ {who[r]} : user'[u] = user[u]
<1>1. /\ user \in [Users -> UserRecord]
      /\ \A u \in Users : user[u] \in UserRecord
  BY DEF Inv, TypeOK
<1>2. ASSUME SetEmailVerified(r)
      PROVE  /\ who[r] \in Users /\ held[r] \in CodeRow
             /\ op[r].kind = "confirm" /\ op[r].purpose = "verify_email" /\ phase[r] = "matched"
    BY <1>2 DEF SetEmailVerified, At, Inv, Control, Knows, Holds
<1>3. ASSUME SetEmailVerified(r)
      PROVE  /\ user'[who[r]].verified /\ user'[who[r]].email = held[r].email
             /\ user'[who[r]].password = user[who[r]].password
             /\ \A u \in Users \ {who[r]} : user'[u] = user[u]
  BY <1>1, <1>2, <1>3 DEF SetEmailVerified, UserRecord
<1>4. ASSUME ResetPassword(r) \/ ChangePassword(r)
      PROVE  /\ who[r] \in Users /\ op[r].new \in Passwords /\ phase[r] = "matched"
             /\ user' = [user EXCEPT ![who[r]].password = op[r].new]
  <2>1. /\ phase[r] = "matched" /\ user' = [user EXCEPT ![who[r]].password = op[r].new]
        /\ \/ op[r].kind = "confirm" /\ op[r].purpose = "reset_password"
           \/ op[r].kind = "change"
    BY <1>4 DEF ResetPassword, ChangePassword, At
  <2>2. who[r] \in Users /\ op[r] \in Operation
    BY <2>1 DEF Inv, Control, Knows
  <2> QED BY <2>1, <2>2, OperationShape
<1>5. ASSUME ResetPassword(r) \/ ChangePassword(r)
      PROVE  /\ user'[who[r]].password = op[r].new
             /\ user'[who[r]].verified = user[who[r]].verified
             /\ user'[who[r]].email = user[who[r]].email
             /\ \A u \in Users \ {who[r]} : user'[u] = user[u]
  BY <1>1, <1>4, <1>5 DEF UserRecord
<1> QED BY <1>2, <1>3, <1>4, <1>5

\* Two accounts never have one verified address, however many confirm it at
\* once (the unique index behind auth_service.go:115).
THEOREM CodesVerifiedEmailUnique == Spec => []VerifiedEmailUnique
<1>1. Init => VerifiedEmailUnique
  BY CodesAssumption DEF CodesAssumption, Init, VerifiedEmailUnique
<1>2. Inv /\ VerifiedEmailUnique /\ [Next]_vars => VerifiedEmailUnique'
  <2> SUFFICES ASSUME Inv, VerifiedEmailUnique, [Next]_vars PROVE VerifiedEmailUnique'
    OBVIOUS
  <2>1. CASE user' = user
    BY <2>1 DEF VerifiedEmailUnique
  <2>2. ASSUME NEW r \in Requests, SetEmailVerified(r) PROVE VerifiedEmailUnique'
    <3>1. \A u \in Users : user[u].verified /\ user[u].email = held[r].email => u = who[r]
      BY <2>2 DEF SetEmailVerified, Owners
    <3> QED BY <2>2, <3>1, UserWritten DEF VerifiedEmailUnique
  <2>3. ASSUME NEW r \in Requests, ResetPassword(r) \/ ChangePassword(r) PROVE VerifiedEmailUnique'
    <3>1. \A u \in Users : user'[u].verified = user[u].verified /\ user'[u].email = user[u].email
      BY <2>3, UserWritten
    <3> QED BY <3>1 DEF VerifiedEmailUnique
  <2> QED BY <2>1, <2>2, <2>3, UserSteps
<1> QED BY <1>1, <1>2, CodesInv, PTL DEF Spec

\* A verified address is replaced by a verified one or not at all
\* (auth_service.go:103-105).
THEOREM CodesVerifiedEmailKept == Spec => VerifiedEmailKept
<1>1. Inv /\ [Next]_vars => [\A u \in Users : user[u].verified => user'[u].verified]_vars
  <2> SUFFICES ASSUME Inv, [Next]_vars, NEW u \in Users, user[u].verified PROVE user'[u].verified
    OBVIOUS
  <2> QED BY UserSteps, UserWritten
<1> QED BY <1>1, CodesInv, PTL DEF Spec, VerifiedEmailKept

\* Whoever verified an address had its letter: the letter is still in the
\* mailbox, and the request that typed its code is past the check.
Proved(u) ==
  \E r \in Requests, m \in mail :
    /\ phase[r] \in {"applied", "done"}
    /\ m.id = typed[r] /\ who[r] = u /\ op[r].kind = "confirm"
    /\ m.user = u /\ m.purpose = "verify_email" /\ m.email = user[u].email

Proven ==
  \A u \in Users : user[u].verified =>
    Proved(u) \/ (InitialUsers[u].verified /\ user[u].email = InitialUsers[u].email)

\* What was typed, by whom and for what does not change once a code matched,
\* and no letter is taken back.
LEMMA PastKept ==
  ASSUME Inv, [Next]_vars
  PROVE  /\ mail \subseteq mail'
         /\ \A q \in Requests : phase[q] \in {"applied", "done"} =>
              /\ phase'[q] \in {"applied", "done"}
              /\ typed'[q] = typed[q] /\ who'[q] = who[q] /\ op'[q] = op[q]
<1>1. mail \subseteq mail'
  <2>1. ASSUME NEW r \in Requests,
               SendMail(r) \/ SendFails(r) \/ StoreCode(r) \/ CompareCode(r) \/ CountTry(r)
                 \/ LoseTry(r) \/ DeleteCodes(r)
        PROVE  mail \subseteq mail'
    BY <2>1 DEF SendMail, SendFails, StoreCode, CompareCode, CountTry, LoseTry, DeleteCodes
  <2> QED BY <2>1, RowSteps
<1>2. ASSUME NEW q \in Requests, phase[q] \in {"applied", "done"}
      PROVE  /\ phase'[q] \in {"applied", "done"}
             /\ typed'[q] = typed[q] /\ who'[q] = who[q] /\ op'[q] = op[q]
  <2>1. CASE Tick \/ UNCHANGED vars
    BY <1>2, <2>1 DEF Tick, vars, requests
  <2>2. ASSUME NEW r \in Requests, OnlyOf(r), q # r
        PROVE  /\ phase'[q] \in {"applied", "done"}
               /\ typed'[q] = typed[q] /\ who'[q] = who[q] /\ op'[q] = op[q]
    BY <1>2, <2>2 DEF OnlyOf
  <2>3. CASE DeleteCodes(q)
    BY <1>2, <2>3 DEF DeleteCodes, Answer, Inv, TypeOK
  <2>4. CASE Moves(q)
    <3>1. Fail(q)
      BY <1>2, <2>4 DEF Moves, At, FindNobody, CountCodes, RateLimited, EmailTaken, EmailFree, NoCode,
                       TooManyTries, EmailNotUnique, RefuseChange, CheckPassword
    <3> QED BY <1>2, <3>1 DEF Fail, Answer, Inv, TypeOK
  <2>5. ~ \/ \E o \in Asked : \E code \in Typed(o) : Arrive(q, o, code)
          \/ FindUser(q) \/ StampExpiry(q) \/ StoreCode(q) \/ SendMail(q) \/ SendFails(q)
          \/ CompareCode(q) \/ CountTry(q) \/ LoseTry(q) \/ SetEmailVerified(q)
          \/ ResetPassword(q) \/ ChangePassword(q)
    BY <1>2 DEF Arrive, FindUser, StampExpiry, StoreCode, SendMail, SendFails, CompareCode, CountTry,
                LoseTry, SetEmailVerified, ResetPassword, ChangePassword, At
  <2> QED BY <2>1, <2>2, <2>3, <2>4, <2>5, NextSplit, OneRequest DEF Inv
<1> QED BY <1>1, <1>2

\* Nobody has a verified address without its letter (auth_service.go:103-105, 115).
THEOREM CodesEmailProven == Spec => []EmailProven
<1>1. Init => Proven
  BY DEF Init, Proven
<1>2. Inv /\ Proven /\ [Next]_vars => Proven'
  <2> SUFFICES ASSUME Inv, Proven, [Next]_vars, NEW u \in Users, user'[u].verified
               PROVE  Proved(u)' \/ (InitialUsers[u].verified /\ user'[u].email = InitialUsers[u].email)
    BY DEF Proven
  <2>1. Proved(u) /\ user'[u].email = user[u].email => Proved(u)'
    BY PastKept DEF Proved
  <2>2. CASE user'[u].email = user[u].email /\ user'[u].verified = user[u].verified
    BY <2>1, <2>2 DEF Proven
  <2>3. ASSUME NEW r \in Requests, SetEmailVerified(r), who[r] = u
        PROVE  Proved(u)'
    <3>1. /\ held[r] \in CodeRow /\ op[r].kind = "confirm" /\ op[r].purpose = "verify_email"
          /\ phase[r] = "matched" /\ user'[u].email = held[r].email
      BY <2>3, UserWritten
    <3>2. held[r].id = typed[r] /\ held[r].user = u /\ held[r].purpose = "verify_email"
      BY <2>3, <3>1 DEF Inv, Control, Holds
    <3>3. held[r] # Nothing
      BY <3>1, CodesAssumption DEF CodesAssumption
    <3>4. LetterOf(held[r]) \in Letters
      BY <3>3 DEF Letters
    <3>5. /\ LetterOf(held[r]).id = held[r].id /\ LetterOf(held[r]).user = held[r].user
          /\ LetterOf(held[r]).purpose = held[r].purpose /\ LetterOf(held[r]).email = held[r].email
      BY DEF LetterOf
    <3>6. typed[r] # 0
      BY <3>2, <3>4, <3>5 DEF Inv, Rows, TypeOK
    <3>7. PICK m \in mail : m.id = typed[r]
      BY <3>6 DEF Inv, Rows
    <3>8. m \in Letters
      BY DEF Letters
    <3>9. m = LetterOf(held[r])
      BY <3>2, <3>4, <3>5, <3>7, <3>8 DEF Inv, Rows
    <3>10. /\ phase'[r] = "applied" /\ UNCHANGED <<mail, op, typed, who>>
      BY <2>3 DEF SetEmailVerified, Goto, Inv, TypeOK
    <3> QED BY <2>3, <3>1, <3>2, <3>5, <3>7, <3>9, <3>10 DEF Proved
  <2>4. ASSUME NEW r \in Requests, SetEmailVerified(r) \/ ResetPassword(r) \/ ChangePassword(r),
               ~ (SetEmailVerified(r) /\ who[r] = u)
        PROVE  user'[u].email = user[u].email /\ user'[u].verified = user[u].verified
    <3>1. CASE SetEmailVerified(r)
      <4>1. who[r] # u /\ \A w \in Users \ {who[r]} : user'[w] = user[w]
        BY <2>4, <3>1, UserWritten
      <4>2. user'[u] = user[u]
        BY <4>1
      <4> QED BY <4>2
    <3>2. CASE ResetPassword(r) \/ ChangePassword(r)
      <4>1. CASE who[r] = u
        BY <3>2, <4>1, UserWritten
      <4>2. CASE who[r] # u
        BY <3>2, <4>2, UserWritten
      <4> QED BY <4>1, <4>2
    <3> QED BY <2>4, <3>1, <3>2
  <2> QED BY <2>2, <2>3, <2>4, UserSteps
<1>3. Proven => EmailProven
  BY DEF Proven, Proved, EmailProven
<1> QED BY <1>1, <1>2, <1>3, CodesInv, PTL DEF Spec

\* A password is never taken away.
LEMMA PasswordKept ==
  ASSUME Inv, [Next]_vars, NEW u \in Users, user[u].password # NoPassword
  PROVE  user'[u].password # NoPassword
<1>1. NoPassword \notin Passwords
  BY CodesAssumption DEF CodesAssumption
<1> QED BY <1>1, UserSteps, UserWritten

\* Whoever has a code for a new password, or is about to get one, and whoever
\* has proved an old one, has a password.
Passworded ==
  /\ \A l \in Letters : l.purpose = "reset_password" => user[l.user].password # NoPassword
  /\ \A r \in Requests :
       /\ phase[r] \in {"found", "counted", "cleared", "stamped"}
       /\ op[r].kind = "request" /\ op[r].purpose = "reset_password"
       => user[who[r]].password # NoPassword
  /\ \A r \in Requests :
       phase[r] = "matched" /\ op[r].kind = "change" => user[who[r]].password # NoPassword

\* Letters are of their type.
LEMMA LettersTyped == Inv => Letters \subseteq Letter
<1> SUFFICES ASSUME Inv PROVE Letters \subseteq Letter
  OBVIOUS
<1>1. \A c \in CodeRow : LetterOf(c) \in Letter
  BY DEF LetterOf, Letter, CodeRow
<1>2. /\ codes \subseteq CodeRow /\ mail \subseteq Letter
      /\ \A r \in Requests : held[r] # Nothing => held[r] \in CodeRow
  BY DEF Inv, TypeOK
<1> QED BY <1>1, <1>2 DEF Letters

\* What a request is about stays, once its user is known, and it came there by
\* its own step.
LEMMA StepPassworded == Inv /\ Passworded /\ [Next]_vars => Passworded'
<1> SUFFICES ASSUME Inv, Passworded, [Next]_vars PROVE Passworded'
  OBVIOUS
<1>1. (\A l \in Letters : l.purpose = "reset_password" => user[l.user].password # NoPassword)'
  <2>1. ASSUME NEW l \in Letters, l.purpose = "reset_password"
        PROVE  user'[l.user].password # NoPassword
    <3>1. l.user \in Users
      BY LettersTyped DEF Letter
    <3> QED BY <2>1, <3>1, PasswordKept DEF Passworded
  <2>2. ASSUME NEW r \in Requests, StoreCode(r), NewCode(r).purpose = "reset_password"
        PROVE  user'[NewCode(r).user].password # NoPassword
    <3>1. phase[r] = "stamped" /\ op[r].kind = "request" /\ user' = user
      BY <2>2 DEF StoreCode, At
    <3>2. op[r].purpose = "reset_password" /\ NewCode(r).user = who[r]
      BY <2>2 DEF NewCode
    <3> QED BY <3>1, <3>2 DEF Passworded
  <2>3. \A c : LetterOf(c).purpose = c.purpose /\ LetterOf(c).user = c.user
    BY DEF LetterOf
  <2> HIDE DEF NewCode
  <2> QED BY <2>1, <2>2, <2>3, StepLetters DEF Inv
<1>2. ASSUME NEW q \in Requests
      PROVE  /\ phase'[q] \in {"found", "counted", "cleared", "stamped"}
                /\ op'[q].kind = "request" /\ op'[q].purpose = "reset_password"
                => user'[who'[q]].password # NoPassword
             /\ phase'[q] = "matched" /\ op'[q].kind = "change" => user'[who'[q]].password # NoPassword
  <2> DEFINE Asks(ph, o) == /\ ph \in {"found", "counted", "cleared", "stamped"}
                            /\ o.kind = "request" /\ o.purpose = "reset_password"
             Changes(ph, o) == ph = "matched" /\ o.kind = "change"
             Good == /\ Asks(phase'[q], op'[q]) => user'[who'[q]].password # NoPassword
                     /\ Changes(phase'[q], op'[q]) => user'[who'[q]].password # NoPassword
  <2>1. ASSUME who'[q] = who[q],
               Asks(phase'[q], op'[q]) \/ Changes(phase'[q], op'[q])
                 => Asks(phase[q], op[q]) \/ Changes(phase[q], op[q])
        PROVE  Good
    <3>1. Asks(phase[q], op[q]) \/ Changes(phase[q], op[q]) => who[q] \in Users
      BY DEF Inv, Control, Knows
    <3> QED BY <2>1, <3>1, PasswordKept DEF Passworded
  <2>2. CASE Tick \/ UNCHANGED vars
    <3>1. UNCHANGED <<phase, op, who>>
      BY <2>2 DEF Tick, vars, requests
    <3> QED BY <2>1, <3>1
  <2>3. ASSUME NEW r \in Requests, OnlyOf(r), q # r PROVE Good
    <3>1. phase'[q] = phase[q] /\ op'[q] = op[q] /\ who'[q] = who[q]
      BY <2>3 DEF OnlyOf
    <3> QED BY <2>1, <3>1
  <2>4. ASSUME NEW o \in Asked, NEW code \in Typed(o), Arrive(q, o, code) PROVE Good
    <3>1. o \in Operation
      BY CodesAssumption DEF CodesAssumption
    <3>2. op'[q] = o /\ phase'[q] = IF "user" \in DOMAIN o THEN "found" ELSE "arrived"
      BY <2>4 DEF Arrive, Goto, Inv, TypeOK
    <3>3. "user" \in DOMAIN o => ~ (o.kind = "request" /\ o.purpose = "reset_password")
      BY <3>1, OperationShape
    <3> QED BY <3>2, <3>3
  <2>5. CASE FindUser(q)
    <3>1. PICK u \in Owners(op[q].email) :
            /\ op[q].kind = "request" => user[u].password # NoPassword
            /\ who' = [who EXCEPT ![q] = u]
      BY <2>5 DEF FindUser
    <3>2. who'[q] = u /\ phase'[q] = "found" /\ op' = op /\ user' = user
      BY <2>5, <3>1 DEF FindUser, Goto, tables, Inv, TypeOK
    <3> QED BY <3>1, <3>2
  <2>6. CASE Moves(q)
    <3>1. UNCHANGED <<op, who, user>>
      BY <2>6, MovesKeep DEF tables
    <3>2. CASE CheckPassword(q)
      <4>1. /\ op[q].kind = "change" /\ user[who[q]].password = op[q].current
            /\ op[q] \in Operation /\ phase'[q] = "matched"
        BY <2>6, <3>2 DEF CheckPassword, At, Goto, Inv, Control, Knows, TypeOK
      <4>2. op[q].current \in Passwords /\ NoPassword \notin Passwords
        BY <4>1, OperationShape, CodesAssumption DEF CodesAssumption
      <4> QED BY <3>1, <4>1, <4>2
    <3>3. CASE CountCodes(q) \/ EmailFree(q)
      <4>1. /\ phase[q] \in {"found", "counted"} /\ phase'[q] \in {"counted", "cleared"}
        BY <3>3 DEF CountCodes, EmailFree, At, Goto, Inv, TypeOK
      <4> QED BY <2>1, <3>1, <4>1
    <3>4. CASE \E a : Answer(q, a)
      <4>1. phase'[q] = "done"
        BY <3>4 DEF Answer, Inv, TypeOK
      <4> QED BY <4>1
    <3> QED BY <2>6, <3>2, <3>3, <3>4 DEF Moves, FindNobody, RateLimited, EmailTaken, NoCode,
                 TooManyTries, EmailNotUnique, RefuseChange, Fail
  <2>7. CASE StampExpiry(q)
    <3>1. phase[q] \in {"counted", "cleared"} /\ phase'[q] = "stamped" /\ UNCHANGED <<op, who>>
      BY <2>7 DEF StampExpiry, At, Goto, Inv, TypeOK
    <3> QED BY <2>1, <3>1
  <2>8. CASE CompareCode(q)
    <3>1. phase'[q] \in {"matched", "mismatched"} /\ op' = op /\ op[q].kind = "confirm"
      BY <2>8 DEF CompareCode, At, Goto, Inv, TypeOK
    <3> QED BY <3>1
  <2>9. CASE StoreCode(q) \/ SetEmailVerified(q) \/ ResetPassword(q)
    <3>1. phase'[q] \in {"stored", "applied"}
      BY <2>9 DEF StoreCode, SetEmailVerified, ResetPassword, Goto, Inv, TypeOK
    <3> QED BY <3>1
  <2>10. CASE SendMail(q) \/ SendFails(q) \/ CountTry(q) \/ LoseTry(q) \/ DeleteCodes(q) \/ ChangePassword(q)
    <3>1. phase'[q] = "done"
      BY <2>10 DEF SendMail, SendFails, CountTry, LoseTry, DeleteCodes, ChangePassword, Answer, Inv, TypeOK
    <3> QED BY <3>1
  <2> QED BY <2>2, <2>3, <2>4, <2>5, <2>6, <2>7, <2>8, <2>9, <2>10, NextSplit, OneRequest DEF Inv
<1> QED BY <1>1, <1>2 DEF Passworded

\* An account of Google or Apple never gets a password through a code or a
\* change (auth_service.go:136-138, 183-185).
THEOREM CodesSocialStaysPasswordless == Spec => SocialStaysPasswordless
<1>1. Init => Passworded
  <2> SUFFICES ASSUME Init PROVE Passworded
    OBVIOUS
  <2>1. Letters = {LetterOf(c) : c \in InitialCodes}
    BY DEF Init, Letters
  <2>2. \A c \in InitialCodes : c.purpose = "reset_password" => user[c.user].password # NoPassword
    BY CodesAssumption DEF CodesAssumption, Init
  <2>3. \A c : LetterOf(c).purpose = c.purpose /\ LetterOf(c).user = c.user
    BY DEF LetterOf
  <2> QED BY <2>1, <2>2, <2>3 DEF Init, Passworded
<1>2. Inv /\ Passworded /\ [Next]_vars =>
        [\A u \in Users : user[u].password = NoPassword => user'[u].password = NoPassword]_vars
  <2> SUFFICES ASSUME Inv, Passworded, [Next]_vars, NEW u \in Users, user[u].password = NoPassword
               PROVE  user'[u].password = NoPassword
    OBVIOUS
  <2>1. ASSUME NEW r \in Requests, ResetPassword(r) PROVE who[r] # u
    <3>1. /\ phase[r] = "matched" /\ op[r].kind = "confirm" /\ op[r].purpose = "reset_password"
      BY <2>1 DEF ResetPassword, At
    <3>2. held[r] # Nothing /\ held[r].user = who[r] /\ held[r].purpose = "reset_password"
      BY <3>1, CodesAssumption DEF CodesAssumption, Inv, Control, Holds
    <3>3. /\ LetterOf(held[r]) \in Letters
          /\ LetterOf(held[r]).user = who[r] /\ LetterOf(held[r]).purpose = "reset_password"
      BY <3>2 DEF Letters, LetterOf
    <3> QED BY <3>3 DEF Passworded
  <2>2. ASSUME NEW r \in Requests, ChangePassword(r) PROVE who[r] # u
    BY <2>2 DEF ChangePassword, At, Passworded
  <2> QED BY <2>1, <2>2, UserSteps, UserWritten
<1> QED BY <1>1, <1>2, StepPassworded, CodesInv, PTL DEF Spec, SocialStaysPasswordless
-----------------------------------------------------------------------------
(* Codes that are used up.                                                 *)

\* How a request comes to be answered: it was answered before, by a wrong try,
\* by the deletion of codes, or with no row in its hands or none that counts.
LEMMA AnsweredStep ==
  ASSUME Inv, [Next]_vars, NEW q \in Requests
  PROVE  \/ UNCHANGED <<phase[q], reply[q], held[q], typed[q], op[q]>>
         \/ phase'[q] # "done" /\ reply'[q] = Nothing /\ phase[q] # "done"
         \/ CountTry(q)
         \/ DeleteCodes(q)
         \/ /\ phase[q] # "done" /\ UNCHANGED <<typed[q], op[q]>>
            /\ reply'[q] = "ok" => op[q].kind # "confirm"
            /\ reply'[q] = "unauthorized" => held'[q] = Nothing
<1>0. Knows(q) /\ Holds(q)
  BY DEF Inv, Control
<1>1. CASE Tick \/ UNCHANGED vars
  BY <1>1 DEF Tick, vars, requests
<1>2. ASSUME NEW r \in Requests, OnlyOf(r), q # r
      PROVE  UNCHANGED <<phase[q], reply[q], held[q], typed[q], op[q]>>
  BY <1>2 DEF OnlyOf
<1> DEFINE Good == /\ phase[q] # "done" /\ UNCHANGED <<typed[q], op[q]>>
                   /\ reply'[q] = "ok" => op[q].kind # "confirm"
                   /\ reply'[q] = "unauthorized" => held'[q] = Nothing
<1>3. ASSUME NEW p, p # "done", Goto(q, p), phase[q] # "done"
      PROVE  phase'[q] # "done" /\ reply'[q] = Nothing /\ phase[q] # "done"
  BY <1>0, <1>3 DEF Goto, Knows, Inv, TypeOK
<1>4. CASE \E o \in Asked : \E code \in Typed(o) : Arrive(q, o, code)
  <2>1. phase[q] # "done" /\ (Goto(q, "found") \/ Goto(q, "arrived"))
    BY <1>4 DEF Arrive
  <2> QED BY <1>3, <2>1
<1>5. CASE FindUser(q) \/ StampExpiry(q) \/ StoreCode(q) \/ SetEmailVerified(q) \/ ResetPassword(q)
  <2>1. /\ phase[q] # "done"
        /\ Goto(q, "found") \/ Goto(q, "stamped") \/ Goto(q, "stored") \/ Goto(q, "applied")
    BY <1>5 DEF FindUser, StampExpiry, StoreCode, SetEmailVerified, ResetPassword, At
  <2> QED BY <1>3, <2>1
<1>6. CASE CompareCode(q)
  <2>1. phase[q] # "done" /\ (Goto(q, "matched") \/ Goto(q, "mismatched"))
    BY <1>6 DEF CompareCode, At
  <2> QED BY <1>3, <2>1
<1>7. CASE CountCodes(q) \/ EmailFree(q) \/ CheckPassword(q)
  <2>1. phase[q] # "done" /\ (Goto(q, "counted") \/ Goto(q, "cleared") \/ Goto(q, "matched"))
    BY <1>7 DEF CountCodes, EmailFree, CheckPassword, At
  <2> QED BY <1>3, <2>1
<1>8. ASSUME NEW a, Answer(q, a), UNCHANGED <<typed, op, held>>, phase[q] # "done",
             a = "ok" => op[q].kind # "confirm",
             a = "unauthorized" => held[q] = Nothing
      PROVE  Good
  <2>1. reply'[q] = a
    BY <1>8 DEF Answer, Inv, TypeOK
  <2> QED BY <1>8, <2>1
<1>9. CASE Moves(q) /\ ~ (CountCodes(q) \/ EmailFree(q) \/ CheckPassword(q))
  <2>1. UNCHANGED <<typed, op, held>>
    BY <1>9, MovesKeep
  <2>2. CASE FindNobody(q)
    <3>1. phase[q] = "arrived" /\ Answer(q, IF Quiet(q) THEN "ok" ELSE "unauthorized")
      BY <2>2 DEF FindNobody
    <3> QED BY <1>0, <1>8, <2>1, <3>1 DEF Holds, Quiet
  <2>3. CASE RateLimited(q) \/ EmailTaken(q)
    <3>1. /\ phase[q] # "done" /\ op[q].kind = "request"
          /\ \E a \in {"ok", "rate_limited", "conflict"} : Answer(q, a)
      BY <2>3 DEF RateLimited, EmailTaken, At
    <3> QED BY <1>8, <2>1, <3>1
  <2>4. CASE NoCode(q) \/ TooManyTries(q) \/ EmailNotUnique(q)
    <3>1. /\ phase[q] # "done"
          /\ \/ Answer(q, "rate_limited") \/ Answer(q, "conflict")
             \/ Answer(q, "unauthorized") /\ held[q] = Nothing
      BY <1>0, <2>4 DEF NoCode, TooManyTries, EmailNotUnique, At, Holds
    <3> QED BY <1>8, <2>1, <3>1
  <2>5. CASE RefuseChange(q)
    <3>1. /\ phase[q] = "found" /\ held[q] = Nothing
          /\ Answer(q, "no_password") \/ Answer(q, "unauthorized")
      BY <1>0, <2>5 DEF RefuseChange, At, Holds
    <3> QED BY <1>8, <2>1, <3>1
  <2>6. CASE Fail(q)
    <3>1. /\ phase[q] # "done"
          /\ \/ Answer(q, "ok") /\ op[q].kind = "request"
             \/ Answer(q, "unauthorized") /\ phase[q] = "arrived"
             \/ Answer(q, "error")
      BY <2>6 DEF Fail, Quiet
    <3>2. phase[q] = "arrived" => held[q] = Nothing
      BY <1>0 DEF Holds
    <3> QED BY <1>8, <2>1, <3>1, <3>2
  <2> QED BY <1>9, <2>2, <2>3, <2>4, <2>5, <2>6 DEF Moves
<1>10. CASE SendMail(q) \/ SendFails(q) \/ ChangePassword(q)
  <2>1. /\ phase[q] # "done" /\ op[q].kind # "confirm" /\ UNCHANGED <<typed, op, held>>
        /\ \E a \in {"ok", "error"} : Answer(q, a)
    BY <1>10 DEF SendMail, SendFails, ChangePassword, At
  <2> QED BY <1>8, <2>1
<1>11. CASE LoseTry(q)
  <2>1. /\ phase[q] # "done" /\ UNCHANGED <<typed, op>> /\ held'[q] = Nothing
        /\ reply'[q] = "unauthorized"
    BY <1>11 DEF LoseTry, Answer, Inv, TypeOK
  <2> QED BY <2>1
<1> QED BY <1>1, <1>2, <1>4, <1>5, <1>6, <1>7, <1>9, <1>10, <1>11, NextSplit, OneRequest DEF Inv

\* A code that confirmed successfully has no row any more.
Dead ==
  \A q \in Requests :
    phase[q] = "done" /\ op[q].kind = "confirm" /\ reply[q] = "ok" =>
      typed[q] \in 1..issued /\ \A c \in codes : c.id # typed[q]

\* An id never comes back.
LEMMA StepDead == Inv /\ Dead /\ [Next]_vars => Dead'
<1> SUFFICES ASSUME Inv, Dead, [Next]_vars, NEW q \in Requests,
                    phase'[q] = "done", op'[q].kind = "confirm", reply'[q] = "ok"
             PROVE  typed'[q] \in 1..issued' /\ \A c \in codes' : c.id # typed'[q]
  BY DEF Dead
<1>0. issued \in Nat /\ issued' \in {issued, issued + 1}
  BY StepLetters DEF Inv, TypeOK
<1>1. ASSUME NEW c \in codes' PROVE c.id = issued + 1 \/ \E d \in codes : c.id = d.id
  <2>1. \A r : NewCode(r).id = issued + 1
    BY DEF NewCode
  <2>2. ASSUME NEW d \in codes, NEW id PROVE Tried(d, id).id = d.id
    <3>1. d \in CodeRow
      BY DEF Inv, TypeOK
    <3> QED BY <3>1 DEF Tried, CodeRow
  <2> QED BY <1>1, <2>1, <2>2, StepCodes DEF Inv, CountedOn
<1>2. CASE UNCHANGED <<phase[q], reply[q], held[q], typed[q], op[q]>>
  BY <1>0, <1>1, <1>2 DEF Dead
<1>3. CASE DeleteCodes(q)
  <2>1. /\ phase[q] = "applied" /\ op[q].kind = "confirm" /\ UNCHANGED <<typed, op, issued>>
        /\ codes' = codes \ CodesOf(who[q], op[q].purpose)
    BY <1>3 DEF DeleteCodes, At
  <2>2. /\ held[q] # Nothing
        /\ held[q].id = typed[q] /\ held[q].user = who[q] /\ held[q].purpose = op[q].purpose
    BY <2>1, CodesAssumption DEF CodesAssumption, Inv, Control, Holds
  <2>3. LetterOf(held[q]) \in Letters /\ \A c \in codes : LetterOf(c) \in Letters
    BY <2>2 DEF Letters
  <2>4. \A c : /\ LetterOf(c).id = c.id /\ LetterOf(c).user = c.user
               /\ LetterOf(c).purpose = c.purpose
    BY DEF LetterOf
  <2>5. typed[q] \in 1..issued
    BY <2>2, <2>3, <2>4 DEF Inv, Rows
  <2>6. ASSUME NEW c \in codes, c.id = typed[q] PROVE c \in CodesOf(who[q], op[q].purpose)
    <3>1. LetterOf(c) = LetterOf(held[q])
      BY <2>2, <2>3, <2>4, <2>6 DEF Inv, Rows
    <3>2. c.user = who[q] /\ c.purpose = op[q].purpose
      BY <2>2, <2>4, <3>1
    <3> QED BY <3>2 DEF CodesOf
  <2> QED BY <2>1, <2>5, <2>6
<1>4. CASE CountTry(q)
  <2>1. reply'[q] = "unauthorized"
    BY <1>4 DEF CountTry, Answer, Inv, TypeOK
  <2> QED BY <2>1
<1> QED BY <1>2, <1>3, <1>4, AnsweredStep

\* The step in which a code matches is the check of the latest row.
LEMMA MatchStep ==
  ASSUME Inv, [Next]_vars, NEW r \in Requests, At(r, "confirm", "found"), phase'[r] = "matched"
  PROVE  /\ held'[r] \in Latest(who[r], op[r].purpose) /\ held'[r].id = typed[r]
         /\ typed' = typed /\ codes' = codes
<1>0. /\ phase[r] = "found" /\ op[r].kind = "confirm"
      /\ phase \in [Requests -> Phases] /\ held \in [Requests -> CodeRow \cup {Nothing}]
  BY DEF At, Inv, TypeOK
<1>1. CompareCode(r)
  <2>1. ~ (Tick \/ UNCHANGED vars)
    BY <1>0 DEF Tick, vars, requests
  <2>2. ~ \E q \in Requests : OnlyOf(q) /\ r # q
    BY <1>0 DEF OnlyOf
  <2>3. ~ Moves(r)
    BY <1>0 DEF Moves, At, Goto, Answer, FindNobody, CountCodes, RateLimited, EmailTaken, EmailFree,
                NoCode, TooManyTries, EmailNotUnique, RefuseChange, CheckPassword, Fail
  <2>4. ~ \/ \E o \in Asked : \E code \in Typed(o) : Arrive(r, o, code)
          \/ FindUser(r) \/ StampExpiry(r) \/ StoreCode(r) \/ SendMail(r) \/ SendFails(r)
          \/ CountTry(r) \/ LoseTry(r) \/ SetEmailVerified(r)
          \/ ResetPassword(r) \/ DeleteCodes(r) \/ ChangePassword(r)
    BY <1>0 DEF Arrive, FindUser, StampExpiry, StoreCode, SendMail, SendFails,
                CountTry, LoseTry, SetEmailVerified, ResetPassword, DeleteCodes, ChangePassword, At
  <2> QED BY <2>1, <2>2, <2>3, <2>4, NextSplit, OneRequest DEF Inv
<1>2. PICK c \in Latest(who[r], op[r].purpose) :
        held' = [held EXCEPT ![r] = c] /\ Goto(r, IF c.id = typed[r] THEN "matched" ELSE "mismatched")
  BY <1>1 DEF CompareCode
<1>3. held'[r] = c /\ phase'[r] = IF c.id = typed[r] THEN "matched" ELSE "mismatched"
  BY <1>0, <1>2 DEF Goto
<1> QED BY <1>1, <1>3 DEF CompareCode, tables

\* A code confirms once: after a confirmation that was answered with success
\* it does not match again (DeleteAuthCodesForUser, auth_service.go:118, 172).
THEOREM CodesSpentStaysDead == Spec => SpentStaysDead
<1>1. Init => Dead
  BY DEF Init, Dead
<1>2. Inv /\ Dead /\ [Next]_vars =>
        [\A r \in Requests : At(r, "confirm", "found") /\ phase'[r] = "matched" =>
           ~ \E q \in Requests :
               /\ phase[q] = "done" /\ op[q].kind = "confirm" /\ reply[q] = "ok"
               /\ typed[q] = typed[r]]_vars
  <2> SUFFICES ASSUME Inv, Dead, [Next]_vars,
                      NEW r \in Requests, At(r, "confirm", "found"), phase'[r] = "matched",
                      NEW q \in Requests, phase[q] = "done", op[q].kind = "confirm",
                      reply[q] = "ok", typed[q] = typed[r]
               PROVE  FALSE
    OBVIOUS
  <2>1. held'[r] \in codes /\ held'[r].id = typed[r]
    BY MatchStep, LatestRow DEF Inv
  <2> QED BY <2>1 DEF Dead
<1> QED BY <1>1, <1>2, StepDead, CodesInv, PTL DEF Spec, SpentStaysDead

\* Asking for a new code kills the older ones, even when the new one expires
\* first (GetLatestAuthCode, auth_service.go:223).
THEOREM CodesSupersededStaysDead == Spec => SupersededStaysDead
<1>1. Inv /\ [Next]_vars =>
        [\A r \in Requests : At(r, "confirm", "found") /\ phase'[r] = "matched" =>
           \A c \in CodesOf(who[r], op[r].purpose) :
             c.id > held'[r].id => c.expiresAt < held'[r].createdAt + CodeTTL]_vars
  <2> SUFFICES ASSUME Inv, [Next]_vars,
                      NEW r \in Requests, At(r, "confirm", "found"), phase'[r] = "matched",
                      NEW c \in CodesOf(who[r], op[r].purpose), c.id > held'[r].id
               PROVE  c.expiresAt < held'[r].createdAt + CodeTTL
    OBVIOUS
  <2> DEFINE h == held'[r]
  <2>1. h \in Latest(who[r], op[r].purpose) /\ h \in codes /\ h \in CodeRow
    BY MatchStep, LatestRow DEF Inv
  <2>2. c \in CodeRow
    BY DEF CodesOf, Inv, TypeOK
  <2> HIDE DEF h
  <2>3. h.expiresAt > clock /\ h.expiresAt <= h.createdAt + CodeTTL
    BY <2>1 DEF Latest, Inv, Rows
  <2>4. ~ c.expiresAt > clock
    <3>1. c.expiresAt > clock => c.id <= h.id
      BY <2>1 DEF Latest
    <3>2. c.id \in Nat /\ h.id \in Nat /\ c.id > h.id
      BY <2>1, <2>2 DEF CodeRow, h
    <3> QED BY <3>1, <3>2
  <2>5. /\ c.expiresAt \in Nat /\ h.expiresAt \in Nat /\ h.createdAt \in Nat /\ clock \in Nat
        /\ CodeTTL \in Nat
    BY <2>1, <2>2, CodesAssumption DEF CodeRow, CodesAssumption, Inv, TypeOK
  <2>6. c.expiresAt < h.createdAt + CodeTTL
    BY <2>3, <2>4, <2>5
  <2> QED BY <2>6 DEF h
<1> QED BY <1>1, CodesInv, PTL DEF Spec, SupersededStaysDead
-----------------------------------------------------------------------------
(* Counters: wrong tries at a row, and rows in a window.                   *)

\* The requests answered for a wrong try at the row with this id.
Wrong(id) ==
  {r \in Requests : reply[r] = "unauthorized" /\ held[r] # Nothing /\ held[r].id = id}

\* A request is added when its try is counted, and never otherwise.
LEMMA StepWrong ==
  ASSUME Inv, [Next]_vars, NEW q \in Requests, ~ CountTry(q)
  PROVE  \A id : q \in Wrong(id)' <=> q \in Wrong(id)
<1>0. Knows(q) /\ Nothing # "unauthorized"
  BY CodesAssumption DEF Inv, Control, CodesAssumption, Replies
<1>1. phase[q] # "done" => \A id : q \notin Wrong(id)
  BY <1>0 DEF Knows, Wrong
<1>2. CASE UNCHANGED <<phase[q], reply[q], held[q], typed[q], op[q]>>
  BY <1>2 DEF Wrong
<1>3. CASE phase'[q] # "done" /\ reply'[q] = Nothing /\ phase[q] # "done"
  BY <1>0, <1>1, <1>3 DEF Wrong
<1>4. CASE DeleteCodes(q)
  <2>1. phase[q] = "applied" /\ reply'[q] \in {"ok", "error"}
    BY <1>4 DEF DeleteCodes, At, Answer, Inv, TypeOK
  <2> QED BY <1>1, <2>1 DEF Wrong
<1>5. CASE phase[q] # "done" /\ (reply'[q] = "unauthorized" => held'[q] = Nothing)
  BY <1>1, <1>5 DEF Wrong
<1> QED BY <1>2, <1>3, <1>4, <1>5, AnsweredStep

\* Every wrong try is counted on its row, however many are made at once
\* (IncrementAuthCodeAttempts, auth_service.go:233-238).
THEOREM CodesTriesCounted == Spec => []TriesCounted
<1> DEFINE Counted == \A c \in codes : c.attempts = Cardinality(Wrong(c.id))
<1>1. TriesCounted <=> Counted
  BY DEF TriesCounted, Wrong
<1>2. Init => Counted
  <2> SUFFICES ASSUME Init, NEW c \in InitialCodes PROVE c.attempts = Cardinality(Wrong(c.id))
    BY DEF Init
  <2>1. c.attempts = 0
    BY CodesAssumption DEF CodesAssumption
  <2>2. Wrong(c.id) = {}
    BY DEF Init, Wrong
  <2> QED BY <2>1, <2>2, FS_EmptySet
<1>3. Inv /\ Counted /\ [Next]_vars => Counted'
  <2> SUFFICES ASSUME Inv, Counted, [Next]_vars, NEW c \in codes'
               PROVE  c.attempts = Cardinality(Wrong(c.id)')
    OBVIOUS
  <2>0. IsFiniteSet(Requests)
    BY CodesAssumption DEF CodesAssumption
  <2>1. CASE ~ \E r \in Requests : CountTry(r)
    <3>1. \A id : Wrong(id)' = Wrong(id)
      <4>1. \A id : Wrong(id) \subseteq Requests /\ Wrong(id)' \subseteq Requests
        BY DEF Wrong
      <4> QED BY <2>1, <4>1, StepWrong
    <3>2. CASE c \in codes
      BY <3>1, <3>2
    <3>3. ASSUME NEW r \in Requests, c = NewCode(r)
          PROVE  c.attempts = Cardinality(Wrong(c.id))
      <4>1. c.attempts = 0 /\ c.id = issued + 1
        BY <3>3 DEF NewCode
      <4>2. \A q \in Requests : held[q] # Nothing => held[q].id \in 1..issued
        <5>1. \A q \in Requests : held[q] # Nothing => LetterOf(held[q]) \in Letters
          BY DEF Letters
        <5>2. \A d : LetterOf(d).id = d.id
          BY DEF LetterOf
        <5> QED BY <5>1, <5>2 DEF Inv, Rows
      <4>3. issued \in Nat
        BY DEF Inv, TypeOK
      <4>4. Wrong(c.id) = {}
        BY <4>1, <4>2, <4>3 DEF Wrong
      <4> QED BY <4>1, <4>4, FS_EmptySet
    <3>4. c \in codes \/ \E r \in Requests : c = NewCode(r)
      BY <2>1, StepCodes DEF Inv
    <3> QED BY <3>1, <3>2, <3>3, <3>4
  <2>2. ASSUME NEW r \in Requests, CountTry(r) PROVE c.attempts = Cardinality(Wrong(c.id)')
    <3>1. codes' = CountedOn(held[r].id) /\ OnlyOf(r)
      BY <2>2, OneRequest DEF CountTry, CountedOn, Tried, Inv
    <3>2. PICK d \in codes : c = Tried(d, held[r].id)
      BY <3>1 DEF CountedOn
    <3>3. d \in CodeRow /\ d.attempts = Cardinality(Wrong(d.id))
      BY DEF Inv, TypeOK
    <3>4. c.id = d.id /\ c.attempts = IF d.id = held[r].id THEN d.attempts + 1 ELSE d.attempts
      BY <3>2, <3>3 DEF Tried, CodeRow
    <3>5. \A q \in Requests \ {r} : q \in Wrong(c.id)' <=> q \in Wrong(c.id)
      BY <3>1 DEF OnlyOf, Wrong
    <3>6. r \notin Wrong(c.id) /\ (r \in Wrong(c.id)' <=> c.id = held[r].id)
      <4>1. r \in Wrong(held[r].id)' /\ \A id : r \notin Wrong(id)
        <5>1. phase[r] = "mismatched" /\ reply'[r] = "unauthorized" /\ held' = held
          BY <2>2 DEF CountTry, Answer, Inv, TypeOK
        <5>2. held[r] # Nothing /\ reply[r] # "unauthorized"
          BY <5>1, CodesAssumption DEF CodesAssumption, Inv, Control, Knows, Holds, Replies
        <5> QED BY <5>1, <5>2 DEF Wrong
      <4>2. \A id : r \in Wrong(id)' => id = held[r].id
        BY <2>2 DEF CountTry, Wrong
      <4> QED BY <4>1, <4>2
    <3>7. IsFiniteSet(Wrong(c.id))
      BY <2>0, FS_Subset DEF Wrong
    <3>8. Wrong(c.id)' = IF c.id = held[r].id THEN Wrong(c.id) \cup {r} ELSE Wrong(c.id)
      <4>1. Wrong(c.id) \subseteq Requests /\ Wrong(c.id)' \subseteq Requests
        BY DEF Wrong
      <4> QED BY <3>5, <3>6, <4>1
    <3>9. Cardinality(Wrong(c.id) \cup {r}) = Cardinality(Wrong(c.id)) + 1
      BY <3>6, <3>7, FS_AddElement
    <3>10. Wrong(d.id) = Wrong(c.id)
      BY <3>4
    <3> QED BY <3>3, <3>4, <3>8, <3>9, <3>10
  <2> QED BY <2>1, <2>2
<1> HIDE DEF Counted
<1> QED BY <1>1, <1>2, <1>3, CodesInv, PTL DEF Spec

\* The requests that have counted the codes of u and have not inserted theirs.
Issuers(u, p) ==
  {r \in Requests : phase[r] \in {"counted", "cleared", "stamped"} /\ who[r] = u /\ op[r].purpose = p}

\* Unless counts overlapped, there is one of them at most, and room for its code.
Rate ==
  overlapped \/ \A u \in Users, p \in Purposes :
    /\ Cardinality(Recent(u, p)) <= MaxPerWindow
    /\ \A r \in Issuers(u, p) : Cardinality(Recent(u, p)) < MaxPerWindow
    /\ \A q, r \in Issuers(u, p) : q = r

\* The rows counted are finitely many.
LEMMA RecentFinite ==
  ASSUME Inv, NEW u, NEW p
  PROVE  IsFiniteSet(Recent(u, p)) /\ Cardinality(Recent(u, p)) \in Nat
<1>1. Recent(u, p) \subseteq codes
  BY DEF Recent, CodesOf
<1>2. IsFiniteSet(Recent(u, p))
  BY <1>1, FS_Subset DEF Inv, Rows
<1> QED BY <1>2, FS_CardinalityType

\* Only an insert makes them more.
LEMMA StepRecent ==
  ASSUME Inv, [Next]_vars, NEW u, NEW p
  PROVE  \/ /\ Cardinality(Recent(u, p)') <= Cardinality(Recent(u, p))
            /\ Cardinality(Recent(u, p)') \in Nat
         \/ \E r \in Requests :
              /\ StoreCode(r) /\ u = who[r] /\ p = op[r].purpose
              /\ Cardinality(Recent(u, p)') \in Nat
              /\ Cardinality(Recent(u, p)') <= Cardinality(Recent(u, p)) + 1
<1>0. /\ Cardinality(Recent(u, p)) \in Nat /\ IsFiniteSet(Recent(u, p))
      /\ clock \in Nat /\ RateWindow \in Nat
      /\ \A c \in codes : c.createdAt \in Nat /\ c \in CodeRow
  BY RecentFinite, CodesAssumption DEF CodesAssumption, Inv, TypeOK, CodeRow
<1>1. clock' \in {clock, clock + 1}
  <2>1. ASSUME NEW r \in Requests, OnlyOf(r) PROVE clock' = clock
    BY <2>1 DEF OnlyOf
  <2>2. CASE Tick \/ UNCHANGED vars
    BY <2>2 DEF Tick, vars
  <2> QED BY <2>1, <2>2, NextSplit, OneRequest DEF Inv
<1>2. ASSUME NEW c, c.createdAt \in Nat, c.createdAt + RateWindow > clock'
      PROVE  c.createdAt + RateWindow > clock
  BY <1>0, <1>1, <1>2
<1>3. CASE codes' \subseteq codes
  <2>1. Recent(u, p)' \subseteq Recent(u, p)
    BY <1>0, <1>2, <1>3 DEF Recent, CodesOf
  <2> QED BY <1>0, <2>1, FS_Subset, FS_CardinalityType
<1>4. ASSUME NEW id, codes' = CountedOn(id)
      PROVE  /\ Cardinality(Recent(u, p)') <= Cardinality(Recent(u, p))
             /\ Cardinality(Recent(u, p)') \in Nat
  <2>1. ASSUME NEW t \in Recent(u, p)' PROVE \E c \in Recent(u, p) : t = Tried(c, id)
    <3>1. /\ t \in CountedOn(id) /\ t.user = u /\ t.purpose = p
          /\ t.createdAt + RateWindow > clock'
      BY <1>4, <2>1 DEF Recent, CodesOf
    <3>2. PICK c \in codes : t = Tried(c, id)
      BY <3>1 DEF CountedOn
    <3>3. c.user = t.user /\ c.purpose = t.purpose /\ c.createdAt = t.createdAt
      BY <1>0, <3>2 DEF Tried, CodeRow
    <3>4. c \in Recent(u, p)
      BY <1>0, <1>2, <3>1, <3>3 DEF Recent, CodesOf
    <3> QED BY <3>2, <3>4
  <2>2. IsFiniteSet(Recent(u, p)') /\ Cardinality(Recent(u, p)') <= Cardinality(Recent(u, p))
    <3> DEFINE T == Recent(u, p)'
    <3> HIDE DEF T
    <3>1. \A t \in T : \E c \in Recent(u, p) : t = Tried(c, id)
      BY <2>1 DEF T
    <3>2. IsFiniteSet(T) /\ Cardinality(T) <= Cardinality(Recent(u, p))
      BY <1>0, <3>1, CountedImage
    <3> QED BY <3>2 DEF T
  <2> QED BY <2>2, FS_CardinalityType
<1>5. ASSUME NEW r \in Requests, StoreCode(r), codes' = codes \cup {NewCode(r)}
      PROVE  IF u = who[r] /\ p = op[r].purpose
             THEN /\ Cardinality(Recent(u, p)') \in Nat
                  /\ Cardinality(Recent(u, p)') <= Cardinality(Recent(u, p)) + 1
             ELSE /\ Cardinality(Recent(u, p)') <= Cardinality(Recent(u, p))
                  /\ Cardinality(Recent(u, p)') \in Nat
  <2>1. NewCode(r).user = who[r] /\ NewCode(r).purpose = op[r].purpose
    BY DEF NewCode
  <2>2. Recent(u, p)' \subseteq Recent(u, p) \cup {NewCode(r)}
    BY <1>0, <1>2, <1>5 DEF Recent, CodesOf
  <2>3. /\ IsFiniteSet(Recent(u, p) \cup {NewCode(r)})
        /\ Cardinality(Recent(u, p) \cup {NewCode(r)}) \in Nat
        /\ Cardinality(Recent(u, p) \cup {NewCode(r)}) <= Cardinality(Recent(u, p)) + 1
    BY <1>0, FS_AddElement, FS_CardinalityType
  <2>4. /\ Cardinality(Recent(u, p)') <= Cardinality(Recent(u, p) \cup {NewCode(r)})
        /\ Cardinality(Recent(u, p)') \in Nat
    BY <2>2, <2>3, FS_Subset, FS_CardinalityType
  <2>5. CASE u = who[r] /\ p = op[r].purpose
    BY <1>0, <2>3, <2>4, <2>5
  <2>6. CASE ~ (u = who[r] /\ p = op[r].purpose)
    <3>1. Recent(u, p)' \subseteq Recent(u, p)
      BY <1>0, <1>2, <1>5, <2>1, <2>6 DEF Recent, CodesOf
    <3> QED BY <1>0, <2>6, <3>1, FS_Subset, FS_CardinalityType
  <2> QED BY <2>5, <2>6
<1> QED BY <1>3, <1>4, <1>5, StepCodes DEF Inv

\* Only a count makes a request one that is about to insert a code; an insert
\* ends it.
LEMMA StepIssuers ==
  ASSUME Inv, [Next]_vars, NEW q \in Requests, NEW u, NEW p, q \in Issuers(u, p)'
  PROVE  /\ q \in Issuers(u, p) \/ CountCodes(q)
         /\ ~ StoreCode(q)
<1>0. /\ phase \in [Requests -> Phases]
      /\ phase'[q] \in {"counted", "cleared", "stamped"} /\ who'[q] = u /\ op'[q].purpose = p
  BY DEF Issuers, Inv, TypeOK
<1>1. ASSUME Tick \/ UNCHANGED vars PROVE q \in Issuers(u, p)
  <2>1. UNCHANGED <<phase, who, op>>
    BY <1>1 DEF Tick, vars, requests
  <2> QED BY <1>0, <2>1 DEF Issuers
<1>2. ASSUME NEW r \in Requests, OnlyOf(r), q # r PROVE q \in Issuers(u, p)
  BY <1>0, <1>2 DEF OnlyOf, Issuers
<1>3. ~ StoreCode(q)
  BY <1>0 DEF StoreCode, Goto
<1>4. ASSUME Moves(q) PROVE q \in Issuers(u, p) \/ CountCodes(q)
  <2>1. UNCHANGED <<who, op>>
    BY <1>4, MovesKeep
  <2>2. CASE EmailFree(q)
    BY <1>0, <2>1, <2>2 DEF EmailFree, At, Issuers
  <2>3. ~ CheckPassword(q) /\ ~ \E a : Answer(q, a)
    BY <1>0 DEF CheckPassword, Goto, Answer
  <2> QED BY <1>4, <2>2, <2>3 DEF Moves, FindNobody, RateLimited, EmailTaken, NoCode, TooManyTries,
             EmailNotUnique, RefuseChange, Fail
<1>5. ASSUME StampExpiry(q) PROVE q \in Issuers(u, p)
  BY <1>0, <1>5 DEF StampExpiry, At, Issuers
<1>6. ~ \/ \E o \in Asked : \E code \in Typed(o) : Arrive(q, o, code)
        \/ FindUser(q) \/ SendMail(q) \/ SendFails(q) \/ CompareCode(q) \/ CountTry(q) \/ LoseTry(q)
        \/ SetEmailVerified(q) \/ ResetPassword(q) \/ DeleteCodes(q) \/ ChangePassword(q)
  BY <1>0 DEF Arrive, FindUser, SendMail, SendFails, CompareCode, CountTry, LoseTry,
              SetEmailVerified, ResetPassword, DeleteCodes, ChangePassword, Goto, Answer
<1>7. q \in Issuers(u, p) \/ CountCodes(q)
  BY <1>1, <1>2, <1>3, <1>4, <1>5, <1>6, NextSplit, OneRequest DEF Inv
<1> QED BY <1>3, <1>7

\* An overlap is not forgotten.
LEMMA StepOverlapped ==
  ASSUME Inv, [Next]_vars
  PROVE  overlapped => overlapped'
<1>1. CASE Tick \/ UNCHANGED vars
  BY <1>1 DEF Tick, vars
<1>2. ASSUME NEW r \in Requests, Moves(r) PROVE overlapped => overlapped'
  BY <1>2, MovesKeep
<1>3. ASSUME NEW r \in Requests,
             \/ \E o \in Asked : \E code \in Typed(o) : Arrive(r, o, code)
             \/ FindUser(r) \/ StampExpiry(r) \/ StoreCode(r) \/ SendMail(r) \/ SendFails(r)
             \/ CompareCode(r) \/ CountTry(r) \/ LoseTry(r) \/ SetEmailVerified(r)
             \/ ResetPassword(r) \/ DeleteCodes(r) \/ ChangePassword(r)
      PROVE  overlapped' = overlapped
  BY <1>3 DEF Arrive, FindUser, StampExpiry, StoreCode, SendMail, SendFails, CompareCode, CountTry,
              LoseTry, SetEmailVerified, ResetPassword, DeleteCodes, ChangePassword
<1> QED BY <1>1, <1>2, <1>3, NextSplit

\* A count finds room and, unless it overlaps, nobody ahead of it; an insert
\* takes the room of the only one.
LEMMA StepRate == Inv /\ Rate /\ [Next]_vars => Rate'
<1> SUFFICES ASSUME Inv, Rate, [Next]_vars, ~ overlapped', NEW u \in Users, NEW p \in Purposes
             PROVE  /\ Cardinality(Recent(u, p)') <= MaxPerWindow
                    /\ \A r \in Issuers(u, p)' : Cardinality(Recent(u, p)') < MaxPerWindow
                    /\ \A q, r \in Issuers(u, p)' : q = r
  BY DEF Rate
<1>0. /\ ~ overlapped /\ MaxPerWindow \in Nat /\ Cardinality(Recent(u, p)) \in Nat
      /\ Cardinality(Recent(u, p)) <= MaxPerWindow
      /\ \A r \in Issuers(u, p) : Cardinality(Recent(u, p)) < MaxPerWindow
      /\ \A q, r \in Issuers(u, p) : q = r
      /\ Issuers(u, p)' \subseteq Requests
  BY StepOverlapped, RecentFinite, CodesAssumption DEF CodesAssumption, Rate, Issuers
<1>1. ASSUME NEW q \in Issuers(u, p)', q \notin Issuers(u, p)
      PROVE  /\ CountCodes(q) /\ Issuers(u, p) = {}
             /\ Cardinality(Recent(u, p)) < MaxPerWindow
             /\ \A r \in Issuers(u, p)' : r = q
             /\ ~ \E r \in Requests : StoreCode(r)
  <2>1. CountCodes(q)
    BY <1>0, <1>1, StepIssuers
  <2>2. /\ phase[q] = "found" /\ op[q].kind = "request" /\ UNCHANGED <<op, who, codes>>
        /\ Cardinality(Recent(who[q], op[q].purpose)) < MaxPerWindow
        /\ overlapped' = (overlapped \/ Issuing(q))
    BY <2>1 DEF CountCodes, At, tables
  <2>3. who[q] = u /\ op[q].purpose = p
    BY <1>1, <2>2 DEF Issuers
  <2>4. Issuers(u, p) = {}
    BY <1>1, <2>2, <2>3 DEF Issuing, Issuers
  <2>5. ASSUME NEW r \in Issuers(u, p)' PROVE r = q
    <3>1. r \in Requests /\ q \in Requests
      BY <1>0, <1>1
    <3>2. CountCodes(r)
      BY <2>4, <3>1, StepIssuers
    <3>3. phase[r] = "found" /\ phase'[r] = "counted"
      BY <3>1, <3>2 DEF CountCodes, At, Goto, Inv, TypeOK
    <3>4. r # q => phase'[r] = phase[r]
      BY <2>1, <3>1 DEF CountCodes, Goto, Inv, TypeOK
    <3> QED BY <3>3, <3>4
  <2>6. ASSUME NEW r \in Requests, StoreCode(r) PROVE FALSE
    <3>1. issued' = issued + 1 /\ issued \in Nat
      BY <2>6 DEF StoreCode, Inv, TypeOK
    <3>2. issued' = issued
      BY <2>1 DEF CountCodes, tables
    <3> QED BY <3>1, <3>2
  <2> QED BY <2>1, <2>2, <2>3, <2>4, <2>5, <2>6
<1>2. CASE Issuers(u, p)' \subseteq Issuers(u, p)
  <2>1. CASE /\ Cardinality(Recent(u, p)') <= Cardinality(Recent(u, p))
             /\ Cardinality(Recent(u, p)') \in Nat
    BY <1>0, <1>2, <2>1
  <2>2. ASSUME NEW r \in Requests, StoreCode(r), u = who[r], p = op[r].purpose,
               Cardinality(Recent(u, p)') \in Nat,
               Cardinality(Recent(u, p)') <= Cardinality(Recent(u, p)) + 1
        PROVE  /\ Cardinality(Recent(u, p)') <= MaxPerWindow
               /\ Issuers(u, p)' = {}
    <3>1. r \in Issuers(u, p)
      BY <2>2 DEF StoreCode, At, Issuers
    <3>2. Issuers(u, p)' \subseteq {r}
      BY <1>0, <1>2, <3>1
    <3>3. r \notin Issuers(u, p)'
      BY <2>2, StepIssuers
    <3> QED BY <1>0, <2>2, <3>1, <3>2, <3>3
  <2> QED BY <2>1, <2>2, StepRecent
<1>3. ASSUME NEW q \in Issuers(u, p)', q \notin Issuers(u, p)
      PROVE  /\ Cardinality(Recent(u, p)') < MaxPerWindow
             /\ \A r \in Issuers(u, p)' : r = q
  <2>1. /\ Cardinality(Recent(u, p)') <= Cardinality(Recent(u, p))
        /\ Cardinality(Recent(u, p)') \in Nat
    BY <1>1, <1>3, StepRecent
  <2> QED BY <1>0, <1>1, <1>3, <2>1
<1>4. ASSUME NEW q \in Issuers(u, p)', q \notin Issuers(u, p)
      PROVE  Cardinality(Recent(u, p)') <= MaxPerWindow
  BY <1>0, <1>1, <1>4, StepRecent
<1> QED BY <1>2, <1>3, <1>4

\* As long as no two requests counted before either inserted, an account has
\* no more codes in a window than it may (authCodeMaxPerHour,
\* auth_service.go:194-200).
THEOREM CodesRateKept == Spec => []RateKept
<1>1. Init => Rate
  <2> SUFFICES ASSUME Init, NEW u \in Users, NEW p \in Purposes
               PROVE  /\ Cardinality(Recent(u, p)) <= MaxPerWindow
                      /\ Issuers(u, p) = {}
    BY DEF Rate
  <2>1. Issuers(u, p) = {}
    BY DEF Init, Issuers
  <2> DEFINE S == {c \in InitialCodes : c.user = u /\ c.purpose = p}
  <2>2. IsFiniteSet(InitialCodes) /\ Cardinality(S) <= MaxPerWindow
    BY CodesAssumption DEF CodesAssumption
  <2>3. Recent(u, p) \subseteq S /\ S \subseteq InitialCodes
    BY DEF Init, Recent, CodesOf
  <2> HIDE DEF S
  <2>4. IsFiniteSet(S) /\ Cardinality(Recent(u, p)) <= Cardinality(S)
    BY <2>2, <2>3, FS_Subset
  <2>5. Cardinality(Recent(u, p)) \in Nat /\ Cardinality(S) \in Nat /\ MaxPerWindow \in Nat
    BY <2>3, <2>4, FS_Subset, FS_CardinalityType, CodesAssumption DEF CodesAssumption
  <2> QED BY <2>1, <2>2, <2>4, <2>5
<1>2. Inv /\ Rate => RateKept
  <2> SUFFICES ASSUME Inv, Rate, ~ overlapped, NEW u \in Users, NEW p \in Purposes
               PROVE  Cardinality({c \in CodesOf(u, p) : clock < c.createdAt + RateWindow}) <= MaxPerWindow
    BY DEF RateKept
  <2>1. \A c \in CodesOf(u, p) : c.createdAt \in Nat /\ clock \in Nat /\ RateWindow \in Nat
    BY CodesAssumption DEF CodesAssumption, CodesOf, Inv, TypeOK, CodeRow
  <2>2. {c \in CodesOf(u, p) : clock < c.createdAt + RateWindow} = Recent(u, p)
    BY <2>1 DEF Recent
  <2> QED BY <2>2 DEF Rate
<1> QED BY <1>1, <1>2, StepRate, CodesInv, PTL DEF Spec
=============================================================================
