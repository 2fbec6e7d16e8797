----------------------------- MODULE MCAccounts -----------------------------
(***************************************************************************)
(* Accounts for TLC: one account that signed up, one made by Google, and   *)
(* somebody with an Apple identity that has none yet.                      *)
(***************************************************************************)
EXTENDS Accounts, TLC

MCInitialAccounts ==
  <<[username |-> <<"ann">>, sub |-> NoSub, email |-> NoEmail,
     renamedAt |-> Never, theme |-> "light"],
    [username |-> <<"bob">>, sub |-> "google", email |-> "bob",
     renamedAt |-> Never, theme |-> "dark"]>>

\* The Apple identity shows bob's address, or hides it; names are taken or free.
MCAsked ==
  {[kind |-> "signup", name |-> "ann", email |-> NoEmail],
   [kind |-> "signup", name |-> "cat", email |-> "cat"],
   [kind |-> "login", name |-> "ann", right |-> TRUE],
   [kind |-> "login", name |-> "bob", right |-> FALSE],
   [kind |-> "social", sub |-> "google", email |-> "bob"],
   [kind |-> "social", sub |-> "google", email |-> NoEmail],
   [kind |-> "social", sub |-> "apple", email |-> "bob"],
   [kind |-> "social", sub |-> "apple", email |-> NoEmail],
   [kind |-> "profile", rename |-> TRUE, theme |-> Unset],
   [kind |-> "profile", rename |-> TRUE, theme |-> "invalid"],
   [kind |-> "profile", rename |-> FALSE, theme |-> "light"],
   [kind |-> "profile", rename |-> FALSE, theme |-> Unset],
   [kind |-> "delete"]}

Symmetry == Permutations(Requests)
=============================================================================
