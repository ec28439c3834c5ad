---------------------------- MODULE MCEnrollment ----------------------------
(***************************************************************************)
(* Instances of Enrollment.  calm is a moment after which no request times *)
(* out or is lost, no agent is killed and no token expires; requests may   *)
(* still be refused.  The moment may never come.                           *)
(***************************************************************************)
EXTENDS Enrollment

VARIABLE calm

Fault ==
    \/ \E t \in Tokens : TokenExpires(t)
    \/ \E m \in Machines : Timeout(m) \/ AgentCrash(m) \/ Uninstall(m)
    \/ \E r \in Requests : req[r].st # "new" /\ RequestFails(r)

MCInit == Init /\ calm = FALSE

MCNext ==
    \/ Next /\ (calm => ~Fault) /\ UNCHANGED calm
    \/ ~calm /\ calm' = TRUE /\ UNCHANGED vars

MCSpec == MCInit /\ [][MCNext]_<<vars, calm>> /\ Fairness

\* register and its retries (main.go): once the faults have stopped, a deployed
\* agent with a valid token comes to run, although requests are refused now and
\* then, whatever time-outs, crashes and reinstallations came before.
DeployedAgentRuns == \A m \in Machines : calm /\ Waiting(m) ~> Settled(m)
=============================================================================
