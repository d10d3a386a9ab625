--------------------------- MODULE MCEmailPipeline ---------------------------
(* Instances of EmailPipeline for TLC. *)
EXTENDS EmailPipeline, TLC

\* Every id occurs in every mailbox: the mail provider makes ids unique in a
\* mailbox only, while the queue and the table know an email by its id alone.
FullMailboxes == [u \in Users |-> Ids]

WorkerSymmetry == Permutations(Workers)
Symmetry == Permutations(Workers) \cup Permutations(Procs) \cup Permutations(Users)
==============================================================================
