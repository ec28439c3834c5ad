-------------------------- MODULE CommandContract ---------------------------
(***************************************************************************)
(* What a client of GET /devices/{id}/commands/{id} may rely on: how the   *)
(* status of a command it polls can move.  CommandLifecycle implements it. *)
(*                                                                         *)
(* "rejected" is a failed row with the output "Device not connected".      *)
(***************************************************************************)
CONSTANT Commands

VARIABLE status

Statuses == {"none", "pending", "sent", "rejected", "completed", "failed", "deleted"}

Init == status = [c \in Commands |-> "none"]

\* The dispatching request or task commits the row.
Submit(c) ==
    /\ status[c] = "none"
    /\ \E s \in {"pending", "sent", "rejected"} : status' = [status EXCEPT ![c] = s]

\* A result arrives: only for a command that was sent, but possibly after it
\* was given up or had another result.  A pending or a rejected command never
\* gets one.
Report(c) ==
    /\ status[c] \in {"sent", "completed", "failed"}
    /\ \E s \in {"completed", "failed"} : status' = [status EXCEPT ![c] = s]

\* Commands without a result are given up, several at a time.
GiveUp(C) ==
    /\ \A c \in C : status[c] = "sent"
    /\ status' = [c \in Commands |-> IF c \in C THEN "failed" ELSE status[c]]

\* The row is deleted with its age.
Forget(c) ==
    /\ status[c] \notin {"none", "deleted"}
    /\ status' = [status EXCEPT ![c] = "deleted"]

Next ==
    \/ \E c \in Commands : Submit(c) \/ Report(c) \/ Forget(c)
    \/ \E C \in SUBSET Commands : GiveUp(C)

Spec == Init /\ [][Next]_status
=============================================================================
