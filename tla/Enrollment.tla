----------------------------- MODULE Enrollment -----------------------------
(***************************************************************************)
(* How a machine becomes a device:                                         *)
(*   server/app/api/v1/enroll.py, devices.py (register, revoke, rotate)    *)
(*   server/app/services/device_service.py   register_device               *)
(*   server/app/api/v1/admin.py              enrollment tokens (in Redis)  *)
(*   client/cmd/agent/main.go                register and its retries      *)
(*   client/internal/config/config.go        Load, Save                    *)
(*   scripts/install-agent.sh, deploy_client.sh                            *)
(*                                                                         *)
(* A request is handled in steps, because every Redis or database call     *)
(* suspends it: read the token, look the fingerprint up and insert, commit, *)
(* delete the token and answer.  A machine's fingerprint is the hash of its *)
(* host name.                                                              *)
(***************************************************************************)
EXTENDS Naturals, FiniteSets

CONSTANTS
    Machines, Tokens,
    Rows,           \* rows of the devices table (bound)
    Requests,       \* registration requests handled at a time (bound)
    MaxKeys,        \* how often a device's key is rotated (bound)
    Installers,     \* subset of {"install", "deploy"}: the scripts in use
    Faults,         \* subset of {"timeout", "server", "agent", "refuse", "expire"}
    None

ASSUME MaxKeysAssumption == MaxKeys \in Nat
ASSUME NoneAssumption == None \notin Machines \cup Tokens \cup Rows \cup Requests

VARIABLES
    token,      \* "none", "valid", "gone" (used or expired)
    dev,        \* per row: "none", "active", "revoked"
    owner,      \* per row: its fingerprint, None if unused
    used,       \* per row: the token it was registered with
    keys,       \* per row: number of its current API key
    req,        \* per request: see Request
    pc,         \* per machine: see States
    on,         \* per machine: the request it awaits
    cred,       \* per machine: credentials in memory, None or <<row, key>>
    file        \* per machine: agent.toml

vars == <<token, dev, owner, used, keys, req, pc, on, cred, file>>

Credentials == (Rows \X (0..MaxKeys)) \cup {None}

\* "bare": no agent; "curl": install-agent.sh awaits its answer; "down": the
\* service is installed, the agent is not running; "register", "wait": before
\* and after its POST; "save": writing the configuration; "run".
States == {"bare", "curl", "down", "register", "wait", "save", "run"}

\* Steps of a handler, and the status it answers with.
Steps == {"idle", "new", "got", "insert", "committed", "reply"}
Codes == {"none", "ok", "bad_token", "conflict", "error", "lost"}
Request == [st : Steps, m : Machines \cup {None}, tok : Tokens \cup {None},
            row : Rows \cup {None}, code : Codes]
Idle == [st |-> "idle", m |-> None, tok |-> None, row |-> None, code |-> "none"]

\* agent.toml: absent, truncated, or complete with the token of the server
\* section and the credentials of the agent section.
File == [state : {"absent", "torn", "whole"}, tok : Tokens \cup {None}, cred : Credentials]
NoFile == [state |-> "absent", tok |-> None, cred |-> None]

TypeOK ==
    /\ token \in [Tokens -> {"none", "valid", "gone"}]
    /\ dev \in [Rows -> {"none", "active", "revoked"}]
    /\ owner \in [Rows -> Machines \cup {None}]
    /\ used \in [Rows -> Tokens \cup {None}]
    /\ keys \in [Rows -> 0..MaxKeys]
    /\ req \in [Requests -> Request]
    /\ pc \in [Machines -> States]
    /\ on \in [Machines -> Requests \cup {None}]
    /\ cred \in [Machines -> Credentials]
    /\ file \in [Machines -> File]

Init ==
    /\ token = [t \in Tokens |-> "none"]
    /\ dev = [d \in Rows |-> "none"]
    /\ owner = [d \in Rows |-> None]
    /\ used = [d \in Rows |-> None]
    /\ keys = [d \in Rows |-> 0]
    /\ req = [r \in Requests |-> Idle]
    /\ pc = [m \in Machines |-> "bare"]
    /\ on = [m \in Machines |-> None]
    /\ cred = [m \in Machines |-> None]
    /\ file = [m \in Machines |-> NoFile]

table == <<dev, owner, used, keys>>
agent == <<pc, on, cred, file>>

-----------------------------------------------------------------------------
(***************************************************************************)
(* The server.                                                             *)
(***************************************************************************)

\* POST /admin/enrollment-tokens: setex with an hour to live.
generate_enrollment_token(t) ==
    /\ token[t] = "none"
    /\ token' = [token EXCEPT ![t] = "valid"]
    /\ UNCHANGED <<table, req, agent>>

TokenExpires(t) ==
    /\ "expire" \in Faults /\ token[t] = "valid"
    /\ token' = [token EXCEPT ![t] = "gone"]
    /\ UNCHANGED <<table, req, agent>>

Valid(t) == t # None /\ token[t] = "valid"

\* redis.get of the token.  An agent that has none sends the empty string.
ReadToken(r) ==
    /\ req[r].st = "new"
    /\ req' = [req EXCEPT ![r] = IF Valid(@.tok) THEN [@ EXCEPT !.st = "got"]
                                 ELSE [@ EXCEPT !.st = "reply", !.code = "bad_token"]]
    /\ UNCHANGED <<token, table, agent>>

Same(m) == {d \in Rows : dev[d] # "none" /\ owner[d] = m}
Pending == {req[r].row : r \in Requests}
Unused == {d \in Rows : dev[d] = "none" /\ d \notin Pending}
\* A new row, with an id nobody has used.
Fresh == CHOOSE d \in Unused : TRUE

\* Mutant: the key of the device just registered is sent before the commit.
LookupAnswers(r) ==
    /\ req[r].st = "got"
    /\ Unused # {} /\ req' = [req EXCEPT ![r].st = "reply", ![r].code = "ok", ![r].row = Fresh]
    /\ UNCHANGED <<token, table, agent>>

\* register_device: a conflict if the fingerprint has an active device, an
\* exception (status 500) if it has several rows, otherwise an INSERT.
Lookup(r) ==
    LET same == Same(req[r].m)
    IN /\ req[r].st = "got"
       /\ \/ /\ Cardinality(same) > 1
             /\ req' = [req EXCEPT ![r].st = "reply", ![r].code = "error"]
          \/ /\ Cardinality(same) = 1 /\ \A d \in same : dev[d] = "active"
             /\ req' = [req EXCEPT ![r].st = "reply", ![r].code = "conflict"]
          \/ /\ Cardinality(same) <= 1 /\ \A d \in same : dev[d] = "revoked"
             /\ Unused # {} /\ req' = [req EXCEPT ![r].st = "insert", ![r].row = Fresh]
       /\ UNCHANGED <<token, table, agent>>

\* db.commit.
CommitDevice(r) ==
    /\ req[r].st = "insert"
    /\ dev' = [dev EXCEPT ![req[r].row] = "active"]
    /\ owner' = [owner EXCEPT ![req[r].row] = req[r].m]
    /\ used' = [used EXCEPT ![req[r].row] = req[r].tok]
    /\ req' = [req EXCEPT ![r].st = "committed"]
    /\ UNCHANGED <<token, keys, agent>>

\* redis.delete and the answer with the device's id and key.
DeleteToken(r) ==
    /\ req[r].st = "committed"
    /\ token' = [token EXCEPT ![req[r].tok] = "gone"]
    /\ req' = [req EXCEPT ![r].st = "reply", ![r].code = "ok"]
    /\ UNCHANGED <<table, agent>>

\* The worker dies, or the rate limit or the network refuses the request.
RequestFails(r) ==
    /\ \/ "server" \in Faults /\ req[r].st \in {"new", "got", "insert", "committed"}
       \/ "refuse" \in Faults /\ req[r].st = "new"
    /\ req' = [req EXCEPT ![r] = [@ EXCEPT !.st = "reply", !.code = "lost", !.row = None]]
    /\ UNCHANGED <<token, table, agent>>

\* An answer nobody awaits any more.
Discard(r) ==
    /\ req[r].st = "reply" /\ \A m \in Machines : on[m] # r
    /\ req' = [req EXCEPT ![r] = Idle]
    /\ UNCHANGED <<token, table, agent>>

\* DELETE /devices/{id}: the row stays.
revoke_device(d) ==
    /\ dev[d] = "active"
    /\ dev' = [dev EXCEPT ![d] = "revoked"]
    /\ UNCHANGED <<token, owner, used, keys, req, agent>>

\* POST /devices/{id}/rotate-key.
rotate_device_key(d) ==
    /\ dev[d] # "none" /\ keys[d] < MaxKeys
    /\ keys' = [keys EXCEPT ![d] = @ + 1]
    /\ UNCHANGED <<token, dev, owner, used, req, agent>>

-----------------------------------------------------------------------------
(***************************************************************************)
(* The machine: the installation scripts and the agent.                    *)
(***************************************************************************)

Send(m, t, r) ==
    /\ req[r].st = "idle"
    /\ req' = [req EXCEPT ![r] = [Idle EXCEPT !.st = "new", !.m = m, !.tok = t]]
    /\ on' = [on EXCEPT ![m] = r]

\* deploy_client.sh: a configuration with the token, and the service.
DeployClient(m, t) ==
    /\ "deploy" \in Installers /\ pc[m] = "bare" /\ token[t] # "none"
    /\ pc' = [pc EXCEPT ![m] = "down"]
    /\ file' = [file EXCEPT ![m] = [state |-> "whole", tok |-> t, cred |-> None]]
    /\ UNCHANGED <<token, table, req, on, cred>>

\* install-agent.sh: the script enrols the machine itself ...
InstallAgent(m, t, r) ==
    /\ "install" \in Installers /\ pc[m] = "bare" /\ token[t] # "none"
    /\ Send(m, t, r)
    /\ pc' = [pc EXCEPT ![m] = "curl"]
    /\ UNCHANGED <<token, table, cred, file>>

\* ... and writes the credentials to the server section of agent.toml, where
\* the agent does not look for them.  Any other answer ends the script.
InstallAgentEnds(m) ==
    /\ pc[m] = "curl" /\ req[on[m]].st = "reply"
    /\ \/ /\ req[on[m]].code = "ok"
          /\ pc' = [pc EXCEPT ![m] = "down"]
          /\ file' = [file EXCEPT ![m] = [NoFile EXCEPT !.state = "whole"]]
       \/ /\ req[on[m]].code # "ok"
          /\ pc' = [pc EXCEPT ![m] = "bare"]
          /\ UNCHANGED file
    /\ req' = [req EXCEPT ![on[m]] = Idle]
    /\ on' = [on EXCEPT ![m] = None]
    /\ UNCHANGED <<token, table, cred>>

\* The service starts: config.Load, which refuses a truncated file; an agent
\* with credentials runs, one without registers.
Start(m) ==
    /\ pc[m] = "down" /\ file[m].state = "whole"
    /\ cred' = [cred EXCEPT ![m] = file[m].cred]
    /\ pc' = [pc EXCEPT ![m] = IF file[m].cred # None THEN "run" ELSE "register"]
    /\ UNCHANGED <<token, table, req, on, file>>

\* Mutant: the token of the configuration is not sent.
PostNoToken(m, r) ==
    /\ pc[m] = "register"
    /\ Send(m, None, r)
    /\ pc' = [pc EXCEPT ![m] = "wait"]
    /\ UNCHANGED <<token, table, cred, file>>

\* attemptRegistration.
Post(m, r) ==
    /\ pc[m] = "register"
    /\ Send(m, file[m].tok, r)
    /\ pc' = [pc EXCEPT ![m] = "wait"]
    /\ UNCHANGED <<token, table, cred, file>>

Answered(m) == pc[m] = "wait" /\ req[on[m]].st = "reply"
Receive(m) ==
    /\ req' = [req EXCEPT ![on[m]] = Idle]
    /\ on' = [on EXCEPT ![m] = None]

\* Save opens the file with O_TRUNC.
Registered(m) ==
    /\ Answered(m) /\ req[on[m]].code = "ok"
    /\ Receive(m)
    /\ cred' = [cred EXCEPT ![m] = <<req[on[m]].row, 0>>]
    /\ file' = [file EXCEPT ![m].state = "torn"]
    /\ pc' = [pc EXCEPT ![m] = "save"]
    /\ UNCHANGED <<token, table>>

Saved(m) ==
    /\ pc[m] = "save"
    /\ file' = [file EXCEPT ![m].state = "whole", ![m].cred = cred[m]]
    /\ pc' = [pc EXCEPT ![m] = "run"]
    /\ UNCHANGED <<token, table, req, on, cred>>

\* A bad token makes the agent exit; anything else is tried again.
Refused(m) ==
    /\ Answered(m) /\ req[on[m]].code # "ok"
    /\ Receive(m)
    /\ pc' = [pc EXCEPT ![m] = IF req[on[m]].code = "bad_token" THEN "down" ELSE "register"]
    /\ UNCHANGED <<token, table, cred, file>>

\* reuseExistingCredentials: after a conflict an operator may type in the id
\* and a key they rotated.
ReuseCredentials(m, d) ==
    /\ Answered(m) /\ req[on[m]].code = "conflict"
    /\ keys[d] > 0 /\ dev[d] = "active" /\ owner[d] = m
    /\ Receive(m)
    /\ cred' = [cred EXCEPT ![m] = <<d, keys[d]>>]
    /\ file' = [file EXCEPT ![m].state = "torn"]
    /\ pc' = [pc EXCEPT ![m] = "save"]
    /\ UNCHANGED <<token, table>>

\* The agent's HTTP client gives up after 30 seconds, or curl loses its
\* connection; the server goes on with the request.
Timeout(m) ==
    /\ "timeout" \in Faults /\ on[m] # None
    /\ on' = [on EXCEPT ![m] = None]
    /\ pc' = [pc EXCEPT ![m] = IF @ = "curl" THEN "bare" ELSE "register"]
    /\ UNCHANGED <<token, table, req, cred, file>>

\* The agent is killed; the service manager starts it again.
AgentCrash(m) ==
    /\ "agent" \in Faults /\ pc[m] \in {"register", "wait", "save", "run"}
    /\ pc' = [pc EXCEPT ![m] = "down"]
    /\ on' = [on EXCEPT ![m] = None]
    /\ cred' = [cred EXCEPT ![m] = None]
    /\ UNCHANGED <<token, table, req, file>>

\* The operator removes a stopped agent and its configuration.
Uninstall(m) ==
    /\ "agent" \in Faults /\ pc[m] = "down"
    /\ pc' = [pc EXCEPT ![m] = "bare"]
    /\ file' = [file EXCEPT ![m] = NoFile]
    /\ UNCHANGED <<token, table, req, on, cred>>

ServerStep(r) == ReadToken(r) \/ Lookup(r) \/ CommitDevice(r) \/ DeleteToken(r) \/ Discard(r)
MachineStep(m) ==
    \/ Start(m) \/ InstallAgentEnds(m) \/ Registered(m) \/ Saved(m) \/ Refused(m)
    \/ \E r \in Requests : Post(m, r)

Next ==
    \/ \E t \in Tokens : generate_enrollment_token(t) \/ TokenExpires(t)
    \/ \E r \in Requests : ServerStep(r) \/ RequestFails(r)
    \/ \E d \in Rows : revoke_device(d) \/ rotate_device_key(d)
    \/ \E m \in Machines :
          \/ MachineStep(m) \/ Timeout(m) \/ AgentCrash(m) \/ Uninstall(m)
          \/ \E t \in Tokens : DeployClient(m, t)
          \/ \E t \in Tokens, r \in Requests : InstallAgent(m, t, r)
          \/ \E d \in Rows : ReuseCredentials(m, d)

Spec == Init /\ [][Next]_vars

\* Handlers, agents and service managers go on; not every request is refused.
Fairness ==
    /\ \A r \in Requests : WF_vars(ServerStep(r)) /\ SF_vars(ReadToken(r))
    /\ \A m \in Machines : WF_vars(MachineStep(m)) /\ SF_vars(\E r \in Requests : Post(m, r))

-----------------------------------------------------------------------------
(***************************************************************************)
(* Properties                                                              *)
(***************************************************************************)

\* An agent only ever holds, in memory or in its configuration, credentials of
\* a committed device with its own fingerprint and a key that was issued.
Issued(m, c) == c # None => /\ dev[c[1]] # "none" /\ owner[c[1]] = m
                            /\ c[2] <= keys[c[1]]
CredentialsIssued == \A m \in Machines : Issued(m, cred[m]) /\ Issued(m, file[m].cred)

\* A deployed agent with a valid token, no device and no other request on its
\* way: it comes to run, or somebody revokes the device it gets or uses up the
\* token.
Waiting(m) == /\ pc[m] \in {"down", "register", "wait"} /\ file[m].state = "whole"
              /\ Valid(file[m].tok) /\ Same(m) = {}
              /\ \A r \in Requests : req[r].m = m => on[m] = r
Settled(m) == \/ pc[m] = "run"
              \/ \E d \in Rows : dev[d] # "none" /\ owner[d] # m
              \/ \E d \in Rows : dev[d] = "revoked"
=============================================================================
