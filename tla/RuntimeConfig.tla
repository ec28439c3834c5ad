---------------------------- MODULE RuntimeConfig ----------------------------
(***************************************************************************)
(* A device's configuration, from the dashboard to the agent's tickers:    *)
(*   server/app/api/v1/devices.py         update_device_config             *)
(*   server/app/websocket/router.py       the configuration sent on connect *)
(*   client/internal/transport/client.go  one goroutine per config_update  *)
(*   client/internal/config/runtime.go    RuntimeConfig.Apply              *)
(*   client/cmd/agent/main.go             the loops that own the tickers   *)
(*                                                                         *)
(* A configuration holds three intervals that are treated alike and        *)
(* independently; the model follows one of them.                           *)
(***************************************************************************)
EXTENDS Integers, Sequences

CONSTANTS
    Values,         \* intervals a user may enter; the API takes any integer
    Default,        \* the interval in agent.toml
    Workers,        \* API processes, each with a connection manager of its own
    Requests,       \* POST .../config requests handled at a time (bound)
    Goroutines,     \* config_update handlers running in the agent (bound)
    MaxNet,         \* messages on their way to the agent (bound)
    Faults,         \* subset of {"drop", "save", "restart"}
    None

VARIABLES
    row,            \* the device_config row: None or the interval
    req,            \* per request: its step, value and worker
    conn,           \* the worker that holds the agent's connection, or None
    greet,          \* the connection's handler: see Greeting
    net,            \* config_update messages on their way, in order
    go,             \* per goroutine: its step, the update and the duration
    cfg, file,      \* the interval in memory and in agent.toml
    chan,           \* the update channel: one slot
    ticker,         \* the period the loop's ticker runs with
    stored          \* history: the values ever committed

serverVars == <<row, req, stored>>
wireVars == <<conn, greet, net>>
agentVars == <<go, cfg, file, chan, ticker>>
vars == <<serverVars, wireVars, agentVars>>

Intervals == Values \cup {Default}
\* maxInt(value, 1)
Duration(v) == IF v < 1 THEN 1 ELSE v
Durations == {Duration(v) : v \in Intervals}

Request == [st : {"idle", "insert", "update", "send"}, v : Values \cup {None},
            w : Workers \cup {None}]
Greeting == [st : {"none", "read", "send", "done"}, v : Values \cup {None}]
Goroutine == [st : {"idle", "lock", "drain", "put"}, v : Values \cup {None},
              t : Durations \cup {None}]
NoRequest == [st |-> "idle", v |-> None, w |-> None]
NoGreeting == [st |-> "none", v |-> None]
NoGoroutine == [st |-> "idle", v |-> None, t |-> None]

TypeOK ==
    /\ row \in Values \cup {None} /\ stored \subseteq Values
    /\ req \in [Requests -> Request]
    /\ conn \in Workers \cup {None} /\ greet \in Greeting
    /\ net \in Seq(Values)
    /\ go \in [Goroutines -> Goroutine]
    /\ cfg \in Intervals /\ file \in Intervals
    /\ chan \in Durations \cup {None} /\ ticker \in Durations

Init ==
    /\ row = None /\ stored = {}
    /\ req = [r \in Requests |-> NoRequest]
    /\ conn = None /\ greet = NoGreeting /\ net = <<>>
    /\ go = [g \in Goroutines |-> NoGoroutine]
    /\ cfg = Default /\ file = Default /\ chan = None /\ ticker = Duration(Default)

-----------------------------------------------------------------------------
(* update_device_config, at worker w: look the row up, insert or update it,  *)
(* commit, and send the payload if this worker holds the connection.         *)

LookUp(r, w, v) ==
    /\ req[r].st = "idle"
    /\ req' = [req EXCEPT ![r] = [st |-> IF row = None THEN "insert" ELSE "update",
                                  v |-> v, w |-> w]]
    /\ UNCHANGED <<row, stored, wireVars, agentVars>>

\* An insert fails if another request has inserted the row since.
CommitRow(r) ==
    /\ req[r].st \in {"insert", "update"}
    /\ IF req[r].st = "insert" /\ row # None
       THEN req' = [req EXCEPT ![r] = NoRequest] /\ UNCHANGED <<row, stored>>
       ELSE /\ req' = [req EXCEPT ![r].st = "send"]
            /\ row' = req[r].v /\ stored' = stored \cup {req[r].v}
    /\ UNCHANGED <<wireVars, agentVars>>

SendUpdate(r) ==
    /\ req[r].st = "send"
    /\ Len(net) < MaxNet
    /\ net' = IF conn = req[r].w THEN Append(net, req[r].v) ELSE net
    /\ req' = [req EXCEPT ![r] = NoRequest]
    /\ UNCHANGED <<row, stored, conn, greet, agentVars>>

-----------------------------------------------------------------------------
(* The connection: it is registered with the manager, then the stored row is *)
(* read, then sent.                                                          *)

Connect(w) ==
    /\ conn = None
    /\ conn' = w /\ greet' = [st |-> "read", v |-> None]
    /\ UNCHANGED <<serverVars, net, agentVars>>

ReadConfig ==
    /\ greet.st = "read"
    /\ greet' = [st |-> IF row = None THEN "done" ELSE "send", v |-> row]
    /\ UNCHANGED <<serverVars, conn, net, agentVars>>

SendConfig ==
    /\ greet.st = "send"
    /\ Len(net) < MaxNet
    /\ net' = Append(net, greet.v)
    /\ greet' = [st |-> "done", v |-> None]
    /\ UNCHANGED <<serverVars, conn, agentVars>>

Drop ==
    /\ "drop" \in Faults /\ conn # None
    /\ conn' = None /\ greet' = NoGreeting /\ net' = <<>>
    /\ UNCHANGED <<serverVars, agentVars>>

-----------------------------------------------------------------------------
(* The agent *)

\* readLoop starts a goroutine for each config_update.
Receive(g) ==
    /\ net # <<>> /\ go[g].st = "idle"
    /\ go' = [go EXCEPT ![g] = [st |-> "lock", v |-> Head(net), t |-> None]]
    /\ net' = Tail(net)
    /\ UNCHANGED <<serverVars, conn, greet, cfg, file, chan, ticker>>

\* Apply, the part under the mutex: set, Save, compute the duration.  A value
\* that is not positive is ignored; if Save fails nothing is pushed.
ApplyLocked(g) ==
    /\ go[g].st = "lock"
    /\ cfg' = IF go[g].v > 0 THEN go[g].v ELSE cfg
    /\ \/ /\ file' = cfg'
          /\ go' = [go EXCEPT ![g] =
                       IF go[g].v > 0 THEN [st |-> "drain", v |-> go[g].v, t |-> Duration(cfg')]
                       ELSE NoGoroutine]
       \/ "save" \in Faults /\ UNCHANGED file /\ go' = [go EXCEPT ![g] = NoGoroutine]
    /\ UNCHANGED <<serverVars, wireVars, chan, ticker>>

\* Mutant: the channel is not emptied first.
PushAsIs(g) ==
    /\ go[g].st = "drain"
    /\ UNCHANGED chan
    /\ go' = [go EXCEPT ![g].st = "put"]
    /\ UNCHANGED <<serverVars, wireVars, cfg, file, ticker>>

\* pushDuration, outside the mutex: empty the channel, then fill it if it is
\* still empty.
PushDrain(g) ==
    /\ go[g].st = "drain"
    /\ chan' = None
    /\ go' = [go EXCEPT ![g].st = "put"]
    /\ UNCHANGED <<serverVars, wireVars, cfg, file, ticker>>

PushPut(g) ==
    /\ go[g].st = "put"
    /\ chan' = IF chan = None THEN go[g].t ELSE chan
    /\ go' = [go EXCEPT ![g] = NoGoroutine]
    /\ UNCHANGED <<serverVars, wireVars, cfg, file, ticker>>

\* The loop's select takes the update and resets its ticker.
ResetTicker ==
    /\ chan # None
    /\ ticker' = chan /\ chan' = None
    /\ UNCHANGED <<serverVars, wireVars, go, cfg, file>>

\* The agent is stopped and started again with the intervals of agent.toml.
Restart ==
    /\ "restart" \in Faults
    /\ go' = [g \in Goroutines |-> NoGoroutine]
    /\ cfg' = file /\ chan' = None /\ ticker' = Duration(file)
    /\ conn' = None /\ greet' = NoGreeting /\ net' = <<>>
    /\ UNCHANGED <<serverVars, file>>

-----------------------------------------------------------------------------
ServerStep(r) == CommitRow(r) \/ SendUpdate(r)
ConnStep == ReadConfig \/ SendConfig
AgentStep(g) == ApplyLocked(g) \/ PushDrain(g) \/ PushPut(g)

Next ==
    \/ \E r \in Requests : \/ \E w \in Workers, v \in Values : LookUp(r, w, v)
                           \/ ServerStep(r)
    \/ \E w \in Workers : Connect(w)
    \/ ConnStep \/ Drop \/ ResetTicker \/ Restart
    \/ \E g \in Goroutines : Receive(g) \/ AgentStep(g)

Spec == Init /\ [][Next]_vars

-----------------------------------------------------------------------------
(***************************************************************************)
(* Properties                                                              *)
(***************************************************************************)

\* Every interval on its way to the agent or in use there is the default or was
\* committed by the server: the update is sent after the commit, never before.
CommittedOnly ==
    /\ \A i \in 1..Len(net) : net[i] \in stored
    /\ \A g \in Goroutines : go[g].v \in stored \cup {None}
    /\ cfg \in stored \cup {Default} /\ file \in stored \cup {Default}
    /\ ticker \in {Duration(v) : v \in stored \cup {Default}}

\* Nothing is being applied in the agent.
Settled == chan = None /\ \A g \in Goroutines : go[g].st = "idle"

\* Once updates are applied, the ticker runs with the interval that the
\* configuration shows: pushDuration must not leave an older value behind.
TickerFollowsConfig == Settled => ticker = Duration(cfg)

\* A configuration that is stored and not replaced reaches the ticker, at once
\* or when the agent has connected again.
UpdateTakesEffect ==
    \A v \in Values : (row = v /\ v > 0) ~> (row # v \/ ticker = v)
=============================================================================
