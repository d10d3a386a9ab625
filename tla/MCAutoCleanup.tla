---------------------------- MODULE MCAutoCleanup ----------------------------
(***************************************************************************)
(* AutoCleanup for TLC: nothing in it tells users, categories, emails or   *)
(* threads apart.  Only for runs without a liveness property.              *)
(***************************************************************************)
EXTENDS AutoCleanup, TLC

Symmetry ==
    Permutations(Users) \cup Permutations(Categories)
        \cup Permutations(Emails) \cup Permutations(Threads)
=============================================================================
