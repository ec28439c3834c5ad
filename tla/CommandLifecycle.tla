-------------------------- MODULE CommandLifecycle --------------------------
(***************************************************************************)
(* The commands of one device, from the request that dispatches one to the *)
(* row that records its result:                                            *)
(*   server/app/services/command_service.py   dispatch_command             *)
(*   server/app/api/v1/commands.py, commands_bulk.py,                      *)
(*   server/app/tasks/scheduler_tasks.py      its three callers            *)
(*   server/app/websocket/router.py           redelivery on reconnect      *)
(*   server/app/websocket/handler.py          _handle_command_result       *)
(*   server/app/tasks/cleanup_tasks.py        stale and old commands       *)
(*   client/cmd/agent/main.go, client/internal/transport/client.go         *)
(*                                            execution and the send queue *)
(*                                                                         *)
(* The dispatcher's transaction is not visible to anybody before it        *)
(* commits, but the command is sent to the agent inside it.                *)
(***************************************************************************)
EXTENDS Naturals, FiniteSets

CONSTANTS
    Commands,       \* command ids
    Limit,          \* the 100 of "pending_count >= 100"
    Dispatchers,    \* how many requests and task runs dispatch at a time
    Callers,        \* which callers dispatch: "rest", "bulk", "scheduled"
    MaxCopies       \* copies of one command on the wire (bound)

ASSUME BoundsAssumption == /\ Limit \in Nat \ {0}
                           /\ Dispatchers \in Nat \ {0}
                           /\ MaxCopies \in Nat \ {0}
                           /\ IsFiniteSet(Commands)
                           /\ Callers \subseteq {"rest", "bulk", "scheduled"}

VARIABLES
    tx,             \* where the dispatch of each command is
    caller,         \* who dispatches it
    row,            \* the committed row: its status, and why it failed
    age,            \* age of the row: "new", "10min", "1h"
    link,           \* "down", "up" (redelivery still to come), "greeted"
    toAgent,        \* copies of each command on the wire to the agent
    running,        \* executions of each command in progress
    outbox,         \* results in the agent's sendCh
    toServer,       \* results on the wire to the server
    runs,           \* ghost: executions started, counted up to 2
    outcomes,       \* ghost: the exit codes executions ended with
    redelivered     \* ghost: commands a greeting has sent again

serverVars == <<tx, caller, row, age>>
wireVars == <<link, toAgent, toServer, redelivered>>
agentVars == <<running, outbox, runs, outcomes>>
vars == <<serverVars, wireVars, agentVars>>

\* counted .. unsent: between the count and the commit.
Open == {"counted", "delivered", "unsent"}
Stages == {"new", "refused", "committed", "lost"} \cup Open

\* commands.status; "failed" with its three reasons told apart.
Queued == {"pending", "sent"}
Terminal == {"completed", "failed", "not_connected", "connection_lost"}
Rows == {"none", "deleted"} \cup Queued \cup Terminal

\* Exit codes: 0, and all the others.
Codes == {"zero", "nonzero"}
Results == Commands \X Codes

TypeOK ==
    /\ tx \in [Commands -> Stages]
    /\ caller \in [Commands -> {"rest", "bulk", "scheduled"}]
    /\ row \in [Commands -> Rows]
    /\ age \in [Commands -> {"new", "10min", "1h"}]
    /\ link \in {"down", "up", "greeted"}
    /\ toAgent \in [Commands -> 0..MaxCopies]
    /\ running \in [Commands -> 0..MaxCopies]
    /\ outbox \subseteq Results
    /\ toServer \subseteq Results
    /\ runs \in [Commands -> 0..2]
    /\ outcomes \in [Commands -> SUBSET Codes]
    /\ redelivered \subseteq Commands

Init ==
    /\ tx = [c \in Commands |-> "new"]
    /\ caller \in [Commands -> Callers]
    /\ row = [c \in Commands |-> "none"]
    /\ age = [c \in Commands |-> "new"]
    /\ link = "down"
    /\ toAgent = [c \in Commands |-> 0]
    /\ running = [c \in Commands |-> 0]
    /\ outbox = {}
    /\ toServer = {}
    /\ runs = [c \in Commands |-> 0]
    /\ outcomes = [c \in Commands |-> {}]
    /\ redelivered = {}

-----------------------------------------------------------------------------
(***************************************************************************)
(* dispatch_command and its callers                                        *)
(***************************************************************************)

InFlight == {c \in Commands : tx[c] \in Open}
InQueue == {c \in Commands : row[c] \in Queued}

\* Mutant: ">" for ">=".
CountOffByOne(c) ==
    /\ tx[c] = "new"
    /\ Cardinality(InFlight) < Dispatchers
    /\ tx' = [tx EXCEPT ![c] = IF Cardinality(InQueue) > Limit THEN "refused" ELSE "counted"]
    /\ UNCHANGED <<caller, row, age, wireVars, agentVars>>

\* The committed pending and sent rows are counted; at the limit the call
\* raises.  (So it does for an unknown type or a revoked device.)
Count(c) ==
    /\ tx[c] = "new"
    /\ Cardinality(InFlight) < Dispatchers
    /\ tx' = [tx EXCEPT ![c] = IF Cardinality(InQueue) >= Limit THEN "refused" ELSE "counted"]
    /\ UNCHANGED <<caller, row, age, wireVars, agentVars>>

\* send_to_device inside the transaction.  The manager is the one of the
\* dispatcher's process: the Celery worker's is empty, and of the API
\* processes only one holds the device's socket (here = FALSE: another one).
Send(c, here) ==
    /\ tx[c] = "counted"
    /\ toAgent[c] < MaxCopies
    /\ IF link # "down" /\ here /\ caller[c] # "scheduled"
       THEN /\ tx' = [tx EXCEPT ![c] = "delivered"]
            /\ toAgent' = [toAgent EXCEPT ![c] = @ + 1]
       ELSE /\ tx' = [tx EXCEPT ![c] = "unsent"]
            /\ UNCHANGED toAgent
    /\ UNCHANGED <<caller, row, age, link, toServer, redelivered, agentVars>>

\* The caller commits.  Only the REST endpoint asks for fail_if_offline.
Commit(c) ==
    /\ tx[c] \in {"delivered", "unsent"}
    /\ tx' = [tx EXCEPT ![c] = "committed"]
    /\ row' = [row EXCEPT ![c] = IF tx[c] = "delivered" THEN "sent"
                                 ELSE IF caller[c] = "rest" THEN "not_connected"
                                 ELSE "pending"]
    /\ UNCHANGED <<caller, age, wireVars, agentVars>>

\* The commit fails (or, in a bulk or scheduled run, a later command raises):
\* the row is rolled back, the message is not.
Rollback(c) ==
    /\ tx[c] \in Open
    /\ tx' = [tx EXCEPT ![c] = "lost"]
    /\ UNCHANGED <<caller, row, age, wireVars, agentVars>>

-----------------------------------------------------------------------------
(***************************************************************************)
(* The connection                                                          *)
(***************************************************************************)

Connect ==
    /\ link = "down"
    /\ link' = "up"
    /\ UNCHANGED <<serverVars, toAgent, toServer, redelivered, agentVars>>

\* Redelivery: the commands that are still "sent" and not older than an hour.
Greet ==
    /\ link = "up"
    /\ LET again == {c \in Commands : row[c] = "sent" /\ age[c] # "1h"}
       IN /\ \A c \in again : toAgent[c] < MaxCopies
          /\ toAgent' = [c \in Commands |-> toAgent[c] + IF c \in again THEN 1 ELSE 0]
          /\ redelivered' = redelivered \cup again
    /\ link' = "greeted"
    /\ UNCHANGED <<serverVars, toServer, agentVars>>

\* The connection is lost with everything on it; the agent's Run loop then
\* empties sendCh (drainSendCh) before it dials again.
Disconnect ==
    /\ link # "down"
    /\ link' = "down"
    /\ toAgent' = [c \in Commands |-> 0]
    /\ toServer' = {}
    /\ outbox' = {}
    /\ UNCHANGED <<serverVars, redelivered, running, runs, outcomes>>

-----------------------------------------------------------------------------
(***************************************************************************)
(* The agent                                                               *)
(***************************************************************************)

\* Mutant: the message is left on the wire and read again.
ReceiveKeeps(c) ==
    /\ toAgent[c] > 0
    /\ running[c] < MaxCopies
    /\ running' = [running EXCEPT ![c] = @ + 1]
    /\ runs' = [runs EXCEPT ![c] = IF @ = 2 THEN 2 ELSE @ + 1]
    /\ UNCHANGED <<serverVars, wireVars, outbox, outcomes>>

\* readLoop starts a goroutine for every command message it reads; nothing
\* remembers which commands were executed already.
Receive(c) ==
    /\ toAgent[c] > 0
    /\ running[c] < MaxCopies
    /\ toAgent' = [toAgent EXCEPT ![c] = @ - 1]
    /\ running' = [running EXCEPT ![c] = @ + 1]
    /\ runs' = [runs EXCEPT ![c] = IF @ = 2 THEN 2 ELSE @ + 1]
    /\ UNCHANGED <<serverVars, link, toServer, redelivered, outbox, outcomes>>

\* Mutant: every result is sent with exit code 0.
FinishAlwaysOk(c, code) ==
    /\ running[c] > 0
    /\ running' = [running EXCEPT ![c] = @ - 1]
    /\ outcomes' = [outcomes EXCEPT ![c] = @ \cup {code}]
    /\ outbox' = outbox \cup {<<c, "zero">>}
    /\ UNCHANGED <<serverVars, wireVars, runs>>

\* An execution ends and queues its result.
Finish(c, code) ==
    /\ running[c] > 0
    /\ running' = [running EXCEPT ![c] = @ - 1]
    /\ outcomes' = [outcomes EXCEPT ![c] = @ \cup {code}]
    /\ outbox' = outbox \cup {<<c, code>>}
    /\ UNCHANGED <<serverVars, wireVars, runs>>

\* writePump takes a result from sendCh and writes it.
Transmit(r) ==
    /\ r \in outbox
    /\ link # "down"
    /\ outbox' = outbox \ {r}
    /\ toServer' = toServer \cup {r}
    /\ UNCHANGED <<serverVars, link, toAgent, redelivered, running, runs, outcomes>>

\* The agent stops: a reboot or update command, or the host going down.
AgentRestart ==
    /\ running' = [c \in Commands |-> 0]
    /\ outbox' = {}
    /\ link' = "down"
    /\ toAgent' = [c \in Commands |-> 0]
    /\ toServer' = {}
    /\ UNCHANGED <<serverVars, redelivered, runs, outcomes>>

-----------------------------------------------------------------------------
(***************************************************************************)
(* Results, stale commands and retention                                   *)
(***************************************************************************)

\* Mutant: the result of a command whose row is missing creates the row.
HandleResultUpserts(c, code) ==
    /\ <<c, code>> \in toServer
    /\ toServer' = toServer \ {<<c, code>>}
    /\ row' = [row EXCEPT ![c] = IF code = "zero" THEN "completed" ELSE "failed"]
    /\ UNCHANGED <<tx, caller, age, link, toAgent, redelivered, agentVars>>

\* _handle_command_result: without a visible row it returns; otherwise the
\* row gets the result, whatever its status was.
HandleResult(c, code) ==
    /\ <<c, code>> \in toServer
    /\ toServer' = toServer \ {<<c, code>>}
    /\ row' = [row EXCEPT ![c] = IF @ \in {"none", "deleted"} THEN @
                                 ELSE IF code = "zero" THEN "completed" ELSE "failed"]
    /\ UNCHANGED <<tx, caller, age, link, toAgent, redelivered, agentVars>>

\* cleanup_stale_commands: sent for more than 10 minutes becomes failed.
CleanupStale ==
    /\ \E c \in Commands : row[c] = "sent" /\ age[c] # "new"
    /\ row' = [c \in Commands |-> IF row[c] = "sent" /\ age[c] # "new"
                                  THEN "connection_lost" ELSE row[c]]
    /\ UNCHANGED <<tx, caller, age, wireVars, agentVars>>

\* run_cleanup deletes rows older than COMMAND_RETENTION_DAYS, in any status.
DeleteOld(c) ==
    /\ row[c] \notin {"none", "deleted"}
    /\ age[c] = "1h"
    /\ row' = [row EXCEPT ![c] = "deleted"]
    /\ UNCHANGED <<tx, caller, age, wireVars, agentVars>>

\* Time passes.
Ages(c) ==
    /\ row[c] \notin {"none", "deleted"}
    /\ age[c] # "1h"
    /\ age' = [age EXCEPT ![c] = IF @ = "new" THEN "10min" ELSE "1h"]
    /\ UNCHANGED <<tx, caller, row, wireVars, agentVars>>

-----------------------------------------------------------------------------

Next ==
    \/ \E c \in Commands :
          \/ Count(c)
          \/ \E here \in BOOLEAN : Send(c, here)
          \/ Commit(c)
          \/ Rollback(c)
          \/ Receive(c)
          \/ \E code \in Codes : Finish(c, code)
          \/ \E code \in Codes : HandleResult(c, code)
          \/ DeleteOld(c)
          \/ Ages(c)
    \/ \E r \in outbox : Transmit(r)
    \/ Connect
    \/ Greet
    \/ Disconnect
    \/ AgentRestart
    \/ CleanupStale

Spec == Init /\ [][Next]_vars

-----------------------------------------------------------------------------
(***************************************************************************)
(* Properties                                                              *)
(***************************************************************************)

\* dispatch_command counts and inserts without a lock, so concurrent callers
\* may pass the limit, but by no more than one command each: the queue of a
\* device stays bounded.
QueueBounded == Cardinality(InQueue) <= Limit + Dispatchers - 1

\* A row that says that the device was not connected, or that the command is
\* still pending, is true: the agent never got that command, not even by the
\* redelivery of a later connection.
UnsentNeverRan ==
    \A c \in Commands :
        row[c] \in {"pending", "not_connected"} => runs[c] = 0 /\ toAgent[c] = 0

\* A result in a row is the result of an execution of that command, whatever
\* was lost, redelivered or cleaned up on the way.
ResultsAreReal ==
    \A c \in Commands : /\ row[c] = "completed" => "zero" \in outcomes[c]
                        /\ row[c] = "failed" => "nonzero" \in outcomes[c]

\* A command runs more than once only if a reconnect sent it again: the
\* dispatch itself delivers it at most once.
RunTwiceOnlyRedelivered ==
    \A c \in Commands : runs[c] = 2 => c \in redelivered

\* The status that CommandContract speaks of.
ContractStatus ==
    [c \in Commands |-> IF row[c] = "not_connected" THEN "rejected"
                       ELSE IF row[c] = "connection_lost" THEN "failed"
                       ELSE row[c]]

Contract == INSTANCE CommandContract WITH status <- ContractStatus

\* Clients stop polling at a terminal status.  The dispatcher's transaction,
\* the result handler and two clean-up tasks write the row without looking at
\* its status; still a command with a terminal status never returns to the
\* queue, and one that was never sent never gets a result.
ImplementsContract == Contract!Spec

\* No command stays "sent" for ever, even if the agent never answers.
SentEnds == \A c \in Commands : row[c] = "sent" ~> row[c] # "sent"

=============================================================================
