----------------------------- MODULE MCUsernames -----------------------------
(***************************************************************************)
(* Instances of Usernames for TLC.                                         *)
(***************************************************************************)
EXTENDS Usernames, TLC

Symmetric == Permutations(Users) \cup Permutations(Names) \cup
             Permutations(Handlers)

AllOps    == Ops
=============================================================================
