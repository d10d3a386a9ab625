----------------------------- MODULE EmailLedger -----------------------------
(***************************************************************************)
(* What the server promises about a user's mailbox and the table           *)
(* processed_email, without processors, queues or workers.                 *)
(*                                                                         *)
(* An email that has arrived is labelled and recorded only while it is     *)
(* claimed, labelled before it is recorded, and recorded once: a row is    *)
(* never changed or taken back, and neither is a label, whatever fails and *)
(* however often the server restarts, which loses the claims only.         *)
(***************************************************************************)

CONSTANTS
    Users,              \* the users of the server
    Ids,                \* email ids
    None                \* the absence of a row

VARIABLES
    mail,               \* Users -> Ids -> state of the message
    row,                \* Ids -> the user whose row of processed_email has the id
    claimed             \* ids some worker is at

ledgerVars == <<mail, row, claimed>>

Labels == {"hidden", "shown"}

Init ==
    /\ mail = [u \in Users |-> [i \in Ids |-> "absent"]]
    /\ row = [i \in Ids |-> None]
    /\ claimed = {}

Arrive(u, i) ==
    /\ mail[u][i] = "absent"
    /\ mail' = [mail EXCEPT ![u][i] = "unlabelled"]
    /\ UNCHANGED <<row, claimed>>

Claim(i) ==
    /\ i \notin claimed
    /\ claimed' = claimed \cup {i}
    /\ UNCHANGED <<mail, row>>

\* Labels are only added: a message the list call no longer returns stays so.
Label(u, i, label) ==
    /\ i \in claimed
    /\ mail[u][i] # "absent" /\ (mail[u][i] = "hidden" => label = "hidden")
    /\ mail' = [mail EXCEPT ![u][i] = label]
    /\ UNCHANGED <<row, claimed>>

Record(u, i) ==
    /\ i \in claimed
    /\ mail[u][i] \in Labels
    /\ row[i] = None
    /\ row' = [row EXCEPT ![i] = u]
    /\ UNCHANGED <<mail, claimed>>

Release(i) ==
    /\ i \in claimed
    /\ claimed' = claimed \ {i}
    /\ UNCHANGED <<mail, row>>

Restart ==
    /\ claimed' = {}
    /\ UNCHANGED <<mail, row>>

Next ==
    \/ \E u \in Users, i \in Ids : \/ Arrive(u, i)
                                   \/ \E label \in Labels : Label(u, i, label)
                                   \/ Record(u, i)
    \/ \E i \in Ids : Claim(i) \/ Release(i)
    \/ Restart

Spec == Init /\ [][Next]_ledgerVars
==============================================================================
