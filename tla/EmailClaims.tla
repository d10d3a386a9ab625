----------------------------- MODULE EmailClaims -----------------------------
(***************************************************************************)
(* What the prompt queue of the server promises to the rest of the         *)
(* program, without its heap, its counters or its locks.                   *)
(*                                                                         *)
(* An email id is free, waits at one of two priorities, or is claimed by   *)
(* the worker it was handed to.  It is waiting or claimed at most once: an *)
(* id that is not free cannot be enqueued a second time, and a low         *)
(* priority email is handed out only while no high priority email waits.   *)
(***************************************************************************)

CONSTANT Ids            \* email ids

VARIABLE stage          \* Ids -> Stage

Stage == {"free", "High", "Low", "claimed"}

Init == stage = [i \in Ids |-> "free"]

Enqueue(i, p) ==
    /\ stage[i] = "free"
    /\ stage' = [stage EXCEPT ![i] = p]

HandOut(i) ==
    /\ \/ stage[i] = "High"
       \/ stage[i] = "Low" /\ \A j \in Ids : stage[j] # "High"
    /\ stage' = [stage EXCEPT ![i] = "claimed"]

Release(i) ==
    /\ stage[i] = "claimed"
    /\ stage' = [stage EXCEPT ![i] = "free"]

\* The process is restarted: the queue lived in memory only.
Restart == stage' = [i \in Ids |-> "free"]

Next ==
    \/ \E i \in Ids : \/ \E p \in {"High", "Low"} : Enqueue(i, p)
                      \/ HandOut(i)
                      \/ Release(i)
    \/ Restart

Spec == Init /\ [][Next]_stage
==============================================================================
