---------------------------- MODULE MCAuthCodes -----------------------------
(***************************************************************************)
(* AuthCodes for TLC: an account with a password and a verified address,   *)
(* and one made by Google, whose address is not verified yet.              *)
(***************************************************************************)
EXTENDS AuthCodes, TLC

MCInitialUsers ==
  [u \in Users |->
     [email    |-> IF u = "ann" THEN "a@x" ELSE "b@x",
      verified |-> u = "ann",
      password |-> IF u = "ann" THEN "old" ELSE NoPassword]]

\* bob has just asked for a code for his address.
MCInitialCodes ==
  {[id |-> 1, user |-> "bob", purpose |-> "verify_email", email |-> "b@x",
    attempts |-> 0, expiresAt |-> CodeTTL, createdAt |-> 0]}

\* ann wants to verify the address that bob has a code for, bob wants yet another
\* one; whoever has a verified address may forget the password.
MCAsked ==
  [kind : {"request"}, purpose : {"verify_email"}, user : {"ann"}, email : {"b@x"}]
    \cup [kind : {"request"}, purpose : {"verify_email"}, user : {"bob"}, email : {"c@x"}]
    \cup [kind : {"confirm"}, purpose : {"verify_email"}, user : Users]
    \cup [kind : {"request"}, purpose : {"reset_password"}, email : {"a@x", "b@x"}]
    \cup [kind : {"confirm"}, purpose : {"reset_password"}, email : {"a@x", "b@x"}, new : {"new"}]
    \cup [kind : {"change"}, user : {"ann"}, current : {"old"}, new : {"new"}]

Symmetry == Permutations(Requests)
=============================================================================
