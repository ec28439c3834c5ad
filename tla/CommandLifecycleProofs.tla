----------------------- MODULE CommandLifecycleProofs -----------------------
(***************************************************************************)
(* Proofs about CommandLifecycle for any finite set of commands, any limit *)
(* and any number of concurrent dispatchers.                               *)
(***************************************************************************)
EXTENDS CommandLifecycle, FiniteSetTheorems, TLAPS

LEMMA Copies == MaxCopies \in Nat /\ 0 \in 0..MaxCopies
    BY SMTT(30), BoundsAssumption

\* Every step keeps the types.
LEMMA TypeStep == TypeOK /\ [Next]_vars => TypeOK'
<1> SUFFICES ASSUME TypeOK, [Next]_vars PROVE TypeOK'
    BY Zenon
<1> USE DEF TypeOK
<1>1. ASSUME NEW c \in Commands, Count(c) PROVE TypeOK'
    BY Zenon, <1>1 DEF Count, Stages, Open, wireVars, agentVars
<1>2. ASSUME NEW c \in Commands, NEW here \in BOOLEAN, Send(c, here) PROVE TypeOK'
  <2>1. toAgent' \in [Commands -> 0..MaxCopies]
    BY Copies, <1>2 DEF Send
  <2> QED
    BY ZenonT(30), <1>2, <2>1 DEF Send, Stages, Open, agentVars
<1>3. ASSUME NEW c \in Commands, Commit(c) PROVE TypeOK'
    BY Zenon, <1>3 DEF Commit, Stages, Rows, Queued, Terminal, wireVars, agentVars
<1>4. ASSUME NEW c \in Commands, Rollback(c) PROVE TypeOK'
    BY Zenon, <1>4 DEF Rollback, Stages, wireVars, agentVars
<1>5. ASSUME NEW c \in Commands, Receive(c) PROVE TypeOK'
  <2>1. /\ toAgent' \in [Commands -> 0..MaxCopies]
        /\ running' \in [Commands -> 0..MaxCopies]
        /\ runs' \in [Commands -> 0..2]
    BY Copies, <1>5 DEF Receive
  <2> QED
    BY Zenon, <1>5, <2>1 DEF Receive, serverVars
<1>6. ASSUME NEW c \in Commands, NEW code \in Codes, Finish(c, code) PROVE TypeOK'
  <2>1. running' \in [Commands -> 0..MaxCopies]
    BY Copies, <1>6 DEF Finish
  <2>2. outbox' \subseteq Results
    BY <1>6 DEF Finish, Results, Codes
  <2> QED
    BY ZenonT(30), <1>6, <2>1, <2>2 DEF Finish, serverVars, wireVars
<1>7. ASSUME NEW c \in Commands, NEW code \in Codes, HandleResult(c, code) PROVE TypeOK'
    BY Zenon, <1>7 DEF HandleResult, Rows, Terminal, agentVars
<1>8. ASSUME NEW c \in Commands, DeleteOld(c) \/ Ages(c) PROVE TypeOK'
    BY Zenon, <1>8 DEF DeleteOld, Rows, Ages, wireVars, agentVars
<1>9. ASSUME NEW r \in outbox, Transmit(r) PROVE TypeOK'
    BY Zenon, <1>9 DEF Transmit, serverVars
<1>10. CASE Connect
    BY Zenon, <1>10 DEF Connect, serverVars, agentVars
<1>11. CASE Greet
    BY Copies, <1>11 DEF Greet, serverVars, agentVars
<1>12. CASE Disconnect
    BY Zenon, Copies, <1>12 DEF Disconnect, serverVars
<1>13. CASE AgentRestart
    BY Zenon, Copies, <1>13 DEF AgentRestart, serverVars
<1>14. CASE CleanupStale
    BY Zenon, <1>14 DEF CleanupStale, Rows, Terminal, wireVars, agentVars
<1>15. CASE UNCHANGED vars
    BY Zenon, <1>15 DEF vars, serverVars, wireVars, agentVars
<1> QED
    BY Zenon, <1>1, <1>2, <1>3, <1>4, <1>5, <1>6, <1>7, <1>8, <1>9, <1>10, <1>11, <1>12, <1>13,
       <1>14, <1>15 DEF Next

\* Type correctness of the command model.
THEOREM TypeCorrect == Spec => []TypeOK
<1>1. Init => TypeOK
  <2> SUFFICES ASSUME Init PROVE TypeOK
    BY Zenon
  <2>1. caller \in [Commands -> {"rest", "bulk", "scheduled"}]
    BY Zenon, BoundsAssumption DEF Init
  <2>2. /\ toAgent \in [Commands -> 0..MaxCopies]
        /\ running \in [Commands -> 0..MaxCopies]
    BY Zenon, Copies DEF Init
  <2> QED
    BY <2>1, <2>2 DEF Init, TypeOK, Stages, Rows
<1> QED
    BY <1>1, TypeStep, PTL DEF Spec

-----------------------------------------------------------------------------
(***************************************************************************)
(* The queue bound.  A request that has counted holds a place in the queue *)
(* until its transaction ends, so the inductive invariant counts both.     *)
(***************************************************************************)

QueueAndFlight ==
    Cardinality(InQueue) + Cardinality(InFlight) <= Limit + Dispatchers - 1

\* The two sets are finite and their sizes natural numbers, in every state.
LEMMA Sizes == /\ IsFiniteSet(InQueue) /\ Cardinality(InQueue) \in Nat
               /\ IsFiniteSet(InFlight) /\ Cardinality(InFlight) \in Nat
<1>1. InQueue \subseteq Commands /\ InFlight \subseteq Commands
    BY Zenon DEF InQueue, InFlight
<1> QED
    BY Zenon, <1>1, FS_Subset, FS_CardinalityType, BoundsAssumption

\* A step that adds to neither set keeps the bound.
LEMMA Shrinks ==
    ASSUME QueueAndFlight, InQueue' \subseteq InQueue, InFlight' \subseteq InFlight
    PROVE  QueueAndFlight'
<1>1. /\ Cardinality(InQueue') \in Nat /\ Cardinality(InQueue') <= Cardinality(InQueue)
      /\ Cardinality(InFlight') \in Nat /\ Cardinality(InFlight') <= Cardinality(InFlight)
    BY Zenon, Sizes, FS_Subset, FS_CardinalityType
<1> QED
    BY <1>1, Sizes, BoundsAssumption DEF QueueAndFlight

\* Every step keeps the sum of the queue and the dispatches in flight bounded.
LEMMA QueueStep == TypeOK /\ QueueAndFlight /\ [Next]_vars => QueueAndFlight'
<1> SUFFICES ASSUME TypeOK, QueueAndFlight, [Next]_vars PROVE QueueAndFlight'
    BY Zenon
<1>1. ASSUME NEW c \in Commands, Count(c) PROVE QueueAndFlight'
  <2>1. InQueue' = InQueue
    BY Zenon, <1>1 DEF Count, InQueue
  <2>2. CASE Cardinality(InQueue) >= Limit
    <3>1. InFlight' \subseteq InFlight
      BY Zenon, <1>1, <2>2 DEF Count, InFlight, TypeOK, Open
    <3> QED
      BY Zenon, <2>1, <3>1, Shrinks
  <2>3. CASE ~(Cardinality(InQueue) >= Limit)
    <3>1. InFlight' = InFlight \cup {c} /\ c \notin InFlight
      BY Zenon, <1>1, <2>3 DEF Count, InFlight, TypeOK, Open
    <3>2. Cardinality(InFlight') = Cardinality(InFlight) + 1
      BY Zenon, <3>1, Sizes, FS_AddElement
    <3>3. Cardinality(InFlight) < Dispatchers
      BY Zenon, <1>1 DEF Count
    <3> QED
      BY <2>1, <2>3, <3>2, <3>3, Sizes, BoundsAssumption DEF QueueAndFlight
  <2> QED
    BY Zenon, <2>2, <2>3
<1>2. ASSUME NEW c \in Commands, NEW here \in BOOLEAN, Send(c, here) PROVE QueueAndFlight'
  <2>1. InQueue' = InQueue
    BY Zenon, <1>2 DEF Send, InQueue
  <2>2. InFlight' \subseteq InFlight
    BY Zenon, <1>2 DEF Send, InFlight, TypeOK, Open
  <2> QED
    BY Zenon, <2>1, <2>2, Shrinks
<1>3. ASSUME NEW c \in Commands, Commit(c) PROVE QueueAndFlight'
  <2>1. c \in InFlight /\ InFlight' = InFlight \ {c}
    BY Zenon, <1>3 DEF Commit, InFlight, TypeOK, Open
  <2>2. Cardinality(InFlight') = Cardinality(InFlight) - 1
    BY Zenon, <2>1, Sizes, FS_RemoveElement
  <2>3. InQueue' \subseteq InQueue \cup {c}
    BY Zenon, <1>3 DEF Commit, InQueue, TypeOK
  <2>4. /\ IsFiniteSet(InQueue \cup {c})
        /\ Cardinality(InQueue \cup {c}) \in Nat
        /\ Cardinality(InQueue \cup {c}) <= Cardinality(InQueue) + 1
    <3>1. CASE c \in InQueue
      <4>1. InQueue \cup {c} = InQueue
        BY Zenon, <3>1
      <4> QED
        BY <4>1, Sizes
    <3>2. CASE c \notin InQueue
      <4>1. /\ IsFiniteSet(InQueue \cup {c})
            /\ Cardinality(InQueue \cup {c}) = Cardinality(InQueue) + 1
        BY Zenon, <3>2, Sizes, FS_AddElement
      <4> QED
        BY <4>1, Sizes
    <3> QED
      BY Zenon, <3>1, <3>2
  <2>5. /\ Cardinality(InQueue') \in Nat
        /\ Cardinality(InQueue') <= Cardinality(InQueue \cup {c})
    BY Zenon, <2>3, <2>4, FS_Subset, FS_CardinalityType
  <2> QED
    BY <2>2, <2>4, <2>5, Sizes, BoundsAssumption DEF QueueAndFlight
<1>4. ASSUME NEW c \in Commands, Rollback(c) PROVE QueueAndFlight'
  <2>1. InQueue' = InQueue
    BY Zenon, <1>4 DEF Rollback, InQueue
  <2>2. InFlight' \subseteq InFlight
    BY Zenon, <1>4 DEF Rollback, InFlight, TypeOK, Open
  <2> QED
    BY Zenon, <2>1, <2>2, Shrinks
<1>5. ASSUME NEW c \in Commands, NEW code \in Codes, HandleResult(c, code) PROVE QueueAndFlight'
  <2>1. InFlight' = InFlight
    BY Zenon, <1>5 DEF HandleResult, InFlight
  <2>2. InQueue' \subseteq InQueue
    BY Zenon, <1>5 DEF HandleResult, InQueue, TypeOK, Queued
  <2> QED
    BY Zenon, <2>1, <2>2, Shrinks
<1>6. ASSUME NEW c \in Commands, DeleteOld(c) PROVE QueueAndFlight'
  <2>1. InFlight' = InFlight
    BY Zenon, <1>6 DEF DeleteOld, InFlight
  <2>2. InQueue' \subseteq InQueue
    BY Zenon, <1>6 DEF DeleteOld, InQueue, TypeOK, Queued
  <2> QED
    BY Zenon, <2>1, <2>2, Shrinks
<1>7. CASE CleanupStale
  <2>1. InFlight' = InFlight
    BY Zenon, <1>7 DEF CleanupStale, InFlight
  <2>2. InQueue' \subseteq InQueue
    BY Zenon, <1>7 DEF CleanupStale, InQueue, TypeOK, Queued
  <2> QED
    BY Zenon, <2>1, <2>2, Shrinks
<1>8. ASSUME UNCHANGED <<tx, row>> PROVE QueueAndFlight'
    BY Zenon, <1>8 DEF QueueAndFlight, InQueue, InFlight
<1>9. CASE UNCHANGED vars
    BY Zenon, <1>8, <1>9 DEF vars, serverVars
<1>10. CASE Connect \/ Greet \/ Disconnect \/ AgentRestart \/ \E r \in outbox : Transmit(r)
    BY Zenon, <1>8, <1>10 DEF Connect, Greet, Disconnect, AgentRestart, Transmit, serverVars
<1>11. ASSUME NEW c \in Commands,
              Receive(c) \/ Ages(c) \/ \E code \in Codes : Finish(c, code)
       PROVE  QueueAndFlight'
    BY Zenon, <1>8, <1>11 DEF Receive, Ages, Finish, serverVars
<1> QED
    BY Zenon, <1>1, <1>2, <1>3, <1>4, <1>5, <1>6, <1>7, <1>9, <1>10, <1>11 DEF Next

\* The queue of a device passes the limit by at most one command for each
\* further concurrent call of dispatch_command.
THEOREM QueueCorrect == Spec => []QueueBounded
<1>1. Init => QueueAndFlight
  <2> SUFFICES ASSUME Init PROVE QueueAndFlight
    BY Zenon
  <2>1. InQueue = {} /\ InFlight = {}
    BY Zenon DEF Init, InQueue, InFlight, Queued, Open
  <2> QED
    BY <2>1, FS_EmptySet, BoundsAssumption DEF QueueAndFlight
<1>2. QueueAndFlight => QueueBounded
    BY SMTT(30), Sizes, BoundsAssumption DEF QueueAndFlight, QueueBounded
<1> QED
    BY <1>1, <1>2, QueueStep, TypeCorrect, PTL DEF Spec

-----------------------------------------------------------------------------
(***************************************************************************)
(* Where a result comes from.  The invariant follows a result back to its  *)
(* execution, the execution to the message, and the message to a dispatch  *)
(* that was sent.                                                          *)
(***************************************************************************)

Sent(c) == /\ tx[c] \in {"delivered", "committed", "lost"}
           /\ row[c] \notin {"pending", "not_connected"}

Provenance ==
    /\ \A c \in Commands, code \in Codes :
          <<c, code>> \in outbox \/ <<c, code>> \in toServer => code \in outcomes[c]
    /\ \A c \in Commands : outcomes[c] # {} \/ running[c] > 0 => runs[c] > 0
    /\ \A c \in Commands : runs[c] > 0 \/ toAgent[c] > 0 => Sent(c)
    /\ \A c \in Commands : row[c] # "none" <=> tx[c] = "committed"

\* The four parts of Provenance and the results in the rows, step by step.
LEMMA ProvenanceStep ==
    TypeOK /\ Provenance /\ ResultsAreReal /\ [Next]_vars => Provenance' /\ ResultsAreReal'
<1> SUFFICES ASSUME TypeOK, Provenance, ResultsAreReal, [Next]_vars
             PROVE  Provenance' /\ ResultsAreReal'
    BY Zenon
<1> USE DEF Provenance, ResultsAreReal, Sent
<1>1. ASSUME NEW c \in Commands, Count(c) PROVE Provenance' /\ ResultsAreReal'
    BY ZenonT(30), <1>1 DEF Count, TypeOK, wireVars, agentVars
<1>2. ASSUME NEW c \in Commands, NEW here \in BOOLEAN, Send(c, here)
      PROVE  Provenance' /\ ResultsAreReal'
    BY SMTT(30), <1>2, Copies DEF Send, TypeOK, agentVars
<1>3. ASSUME NEW c \in Commands, Commit(c) PROVE Provenance' /\ ResultsAreReal'
    BY <1>3 DEF Commit, TypeOK, wireVars, agentVars
<1>4. ASSUME NEW c \in Commands, Rollback(c) PROVE Provenance' /\ ResultsAreReal'
    BY ZenonT(30), <1>4 DEF Rollback, TypeOK, Open, wireVars, agentVars
<1>5. ASSUME NEW c \in Commands, Receive(c) PROVE Provenance' /\ ResultsAreReal'
  <2>1. /\ \A d \in Commands : runs[d] > 0 => runs'[d] > 0
        /\ runs'[c] > 0
        /\ \A d \in Commands : d # c => running'[d] = running[d] /\ runs'[d] = runs[d]
        /\ \A d \in Commands : toAgent'[d] > 0 => toAgent[d] > 0
    BY SMTT(30), <1>5, Copies DEF Receive, TypeOK
  <2> QED
    BY Zenon, <1>5, <2>1 DEF Receive, serverVars
<1>6. ASSUME NEW c \in Commands, NEW code \in Codes, Finish(c, code)
      PROVE  Provenance' /\ ResultsAreReal'
    BY SMTT(30), <1>6, Copies DEF Finish, TypeOK, serverVars, wireVars
<1>7. ASSUME NEW c \in Commands, NEW code \in Codes, HandleResult(c, code)
      PROVE  Provenance' /\ ResultsAreReal'
    BY ZenonT(90), <1>7 DEF HandleResult, TypeOK, Codes, agentVars
<1>8. ASSUME NEW c \in Commands, DeleteOld(c) \/ Ages(c) PROVE Provenance' /\ ResultsAreReal'
    BY <1>8 DEF DeleteOld, Ages, TypeOK, wireVars, agentVars
<1>9. ASSUME NEW r \in outbox, Transmit(r) PROVE Provenance' /\ ResultsAreReal'
    BY Zenon, <1>9 DEF Transmit, serverVars
<1>10. CASE Connect
    BY Zenon, <1>10 DEF Connect, serverVars, agentVars
<1>11. CASE Greet
  <2>1. \A d \in Commands : toAgent'[d] > 0 => toAgent[d] > 0 \/ row[d] = "sent"
    BY <1>11, Copies DEF Greet, TypeOK
  <2> QED
    BY Zenon, <1>11, <2>1 DEF Greet, serverVars, agentVars
<1>12. CASE Disconnect
  <2>1. \A d \in Commands : ~(toAgent'[d] > 0)
    BY <1>12 DEF Disconnect
  <2> QED
    BY Zenon, <1>12, <2>1 DEF Disconnect, serverVars
<1>13. CASE AgentRestart
  <2>1. \A d \in Commands : ~(toAgent'[d] > 0) /\ ~(running'[d] > 0)
    BY SMTT(30), <1>13 DEF AgentRestart
  <2> QED
    BY Zenon, <1>13, <2>1 DEF AgentRestart, serverVars
<1>14. CASE CleanupStale
    BY Zenon, <1>14 DEF CleanupStale, wireVars, agentVars
<1>15. CASE UNCHANGED vars
    BY Zenon, <1>15 DEF vars, serverVars, wireVars, agentVars
<1> QED
    BY Zenon, <1>1, <1>2, <1>3, <1>4, <1>5, <1>6, <1>7, <1>8, <1>9, <1>10, <1>11, <1>12, <1>13,
       <1>14, <1>15 DEF Next

LEMMA ProvenanceCorrect == Spec => [](Provenance /\ ResultsAreReal)
<1>1. Init => Provenance /\ ResultsAreReal
    BY DEF Init, Provenance, ResultsAreReal
<1> QED
    BY <1>1, ProvenanceStep, TypeCorrect, PTL DEF Spec

\* A recorded result is the result of an execution of that command.
THEOREM ResultsCorrect == Spec => []ResultsAreReal
    BY ProvenanceCorrect, PTL

\* A command whose row says pending or "not_connected" was never executed and
\* is not on its way to the agent.
THEOREM UnsentCorrect == Spec => []UnsentNeverRan
<1>1. TypeOK /\ Provenance => UnsentNeverRan
  <2> SUFFICES ASSUME TypeOK, Provenance, NEW c \in Commands,
                      row[c] \in {"pending", "not_connected"}
               PROVE  runs[c] = 0 /\ toAgent[c] = 0
    BY Zenon DEF UnsentNeverRan
  <2>1. ~(runs[c] > 0) /\ ~(toAgent[c] > 0)
    BY Zenon DEF Provenance, Sent
  <2>2. runs[c] \in Nat /\ toAgent[c] \in Nat
    BY Copies DEF TypeOK
  <2> QED
    BY <2>1, <2>2
<1> QED
    BY <1>1, ProvenanceCorrect, TypeCorrect, PTL

-----------------------------------------------------------------------------
(***************************************************************************)
(* Executions.  A command that was not redelivered is on the wire or has   *)
(* been executed, not both, and once.                                      *)
(***************************************************************************)

OnceUnlessRedelivered ==
    \A c \in Commands : c \notin redelivered => runs[c] + toAgent[c] <= 1

\* Every step keeps the sum.
LEMMA OnceStep ==
    TypeOK /\ Provenance /\ OnceUnlessRedelivered /\ [Next]_vars => OnceUnlessRedelivered'
<1> SUFFICES ASSUME TypeOK, Provenance, OnceUnlessRedelivered, [Next]_vars
             PROVE  OnceUnlessRedelivered'
    BY Zenon
<1>0. \A d \in Commands : runs[d] \in Nat /\ toAgent[d] \in Nat
    BY SMTT(30), Copies DEF TypeOK
<1>1. ASSUME NEW c \in Commands, NEW here \in BOOLEAN, Send(c, here)
      PROVE  OnceUnlessRedelivered'
  <2>1. ~(runs[c] > 0) /\ ~(toAgent[c] > 0)
    BY Zenon, <1>1 DEF Send, Provenance, Sent
  <2>2. runs[c] = 0 /\ toAgent[c] = 0
    BY <1>0, <2>1
  <2> QED
    BY SMTT(30), <1>0, <1>1, <2>2 DEF Send, OnceUnlessRedelivered, TypeOK, agentVars
<1>2. ASSUME NEW c \in Commands, Receive(c) PROVE OnceUnlessRedelivered'
  <2>1. runs'[c] + toAgent'[c] <= runs[c] + toAgent[c]
    BY SMTT(30), <1>0, <1>2 DEF Receive, TypeOK
  <2>2. \A d \in Commands : d # c => runs'[d] = runs[d] /\ toAgent'[d] = toAgent[d]
    BY Zenon, <1>2 DEF Receive, TypeOK
  <2>3. \A d \in Commands : runs'[d] \in Nat /\ toAgent'[d] \in Nat
    BY SMTT(30), <1>0, <1>2 DEF Receive, TypeOK
  <2> QED
    BY SMTT(30), <1>0, <1>2, <2>1, <2>2, <2>3 DEF Receive, OnceUnlessRedelivered
<1>3. CASE Greet
    BY <1>0, <1>3 DEF Greet, OnceUnlessRedelivered, agentVars
<1>4. CASE Disconnect \/ AgentRestart
    BY <1>0, <1>4 DEF Disconnect, AgentRestart, OnceUnlessRedelivered
<1>5. ASSUME UNCHANGED <<runs, toAgent, redelivered>> PROVE OnceUnlessRedelivered'
    BY Zenon, <1>5 DEF OnceUnlessRedelivered
<1>6. CASE UNCHANGED vars
    BY Zenon, <1>5, <1>6 DEF vars, wireVars, agentVars
<1>7. CASE Connect \/ CleanupStale \/ \E r \in outbox : Transmit(r)
    BY Zenon, <1>5, <1>7 DEF Connect, CleanupStale, Transmit, wireVars, agentVars
<1>8. ASSUME NEW c \in Commands,
             \/ Count(c) \/ Commit(c) \/ Rollback(c) \/ DeleteOld(c) \/ Ages(c)
             \/ \E code \in Codes : Finish(c, code) \/ HandleResult(c, code)
      PROVE  OnceUnlessRedelivered'
    BY Zenon, <1>5, <1>8 DEF Count, Commit, Rollback, DeleteOld, Ages, Finish, HandleResult,
                      wireVars, agentVars
<1> QED
    BY Zenon, <1>1, <1>2, <1>3, <1>4, <1>6, <1>7, <1>8 DEF Next

\* A command is executed more than once only if a reconnect sent it again.
THEOREM RunsCorrect == Spec => []RunTwiceOnlyRedelivered
<1>1. Init => OnceUnlessRedelivered
    BY DEF Init, OnceUnlessRedelivered
<1>2. TypeOK /\ OnceUnlessRedelivered => RunTwiceOnlyRedelivered
    BY Copies DEF TypeOK, OnceUnlessRedelivered, RunTwiceOnlyRedelivered
<1> QED
    BY <1>1, <1>2, OnceStep, ProvenanceCorrect, TypeCorrect, PTL DEF Spec

-----------------------------------------------------------------------------
(***************************************************************************)
(* CommandLifecycle implements CommandContract.                            *)
(***************************************************************************)

\* Every step is a step of the contract or leaves its status alone.
LEMMA ContractStep ==
    TypeOK /\ Provenance /\ [Next]_vars => [Contract!Next]_ContractStatus
<1> SUFFICES ASSUME TypeOK, Provenance, [Next]_vars
             PROVE  [Contract!Next]_ContractStatus
    BY Zenon
<1>1. ASSUME NEW c \in Commands, Commit(c) PROVE Contract!Submit(c)
  <2>1. row[c] = "none"
    BY Zenon, <1>1 DEF Commit, Provenance
  <2> QED
    BY Zenon, <1>1, <2>1 DEF Commit, TypeOK, Contract!Submit, ContractStatus
<1>2. ASSUME NEW c \in Commands, NEW code \in Codes, HandleResult(c, code)
      PROVE  Contract!Report(c) \/ UNCHANGED ContractStatus
  <2>1. CASE row[c] \in {"none", "deleted"}
    <3>1. row' = row
      BY Zenon, <1>2, <2>1 DEF HandleResult, TypeOK
    <3> QED
      BY Zenon, <3>1 DEF ContractStatus
  <2>2. CASE row[c] \notin {"none", "deleted"}
    <3>1. row[c] \notin {"pending", "not_connected"}
      BY Zenon, <1>2, Copies DEF HandleResult, Provenance, Sent, TypeOK
    <3>2. ContractStatus[c] \in {"sent", "completed", "failed"}
      BY Zenon, <2>2, <3>1 DEF ContractStatus, TypeOK, Rows, Queued, Terminal
    <3>3. PICK s \in {"completed", "failed"} : row' = [row EXCEPT ![c] = s]
      BY Zenon, <1>2, <2>2 DEF HandleResult, TypeOK
    <3>4. ContractStatus' = [ContractStatus EXCEPT ![c] = s]
      BY Zenon, <3>3 DEF ContractStatus, TypeOK
    <3> QED
      BY Zenon, <3>2, <3>4 DEF Contract!Report
  <2> QED
    BY Zenon, <2>1, <2>2
<1>3. ASSUME NEW c \in Commands, DeleteOld(c) PROVE Contract!Forget(c)
    BY ZenonT(30), <1>3 DEF DeleteOld, TypeOK, Contract!Forget, ContractStatus
<1>4. ASSUME CleanupStale PROVE \E C \in SUBSET Commands : Contract!GiveUp(C)
  <2> DEFINE Stale == {c \in Commands : row[c] = "sent" /\ age[c] # "new"}
  <2>1. Contract!GiveUp(Stale)
    BY Zenon, <1>4 DEF CleanupStale, Contract!GiveUp, ContractStatus
  <2> QED
    BY Zenon, <2>1
<1>5. ASSUME UNCHANGED row PROVE UNCHANGED ContractStatus
    BY Zenon, <1>5 DEF ContractStatus
<1>6. CASE UNCHANGED vars
    BY Zenon, <1>5, <1>6 DEF vars, serverVars
<1>7. CASE Connect \/ Greet \/ Disconnect \/ AgentRestart \/ \E r \in outbox : Transmit(r)
    BY Zenon, <1>5, <1>7 DEF Connect, Greet, Disconnect, AgentRestart, Transmit, serverVars
<1>8. ASSUME NEW c \in Commands,
             \/ Count(c) \/ Rollback(c) \/ Receive(c) \/ Ages(c)
             \/ \E here \in BOOLEAN : Send(c, here)
             \/ \E code \in Codes : Finish(c, code)
      PROVE  UNCHANGED ContractStatus
    BY Zenon, <1>5, <1>8 DEF Count, Rollback, Receive, Ages, Send, Finish, serverVars
<1> QED
    BY Zenon, <1>1, <1>2, <1>3, <1>4, <1>6, <1>7, <1>8 DEF Next, Contract!Next

\* The row of a command moves only as CommandContract allows: nothing returns
\* to the queue, and only commands that were sent get results.
THEOREM ContractImplemented == Spec => ImplementsContract
<1>1. Init => Contract!Init
    BY Zenon DEF Init, Contract!Init, ContractStatus
<1> QED
    BY <1>1, ContractStep, ProvenanceCorrect, TypeCorrect, PTL
    DEF Spec, ImplementsContract, Contract!Spec
=============================================================================
