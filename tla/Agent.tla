------------------------------- MODULE Agent --------------------------------
(***************************************************************************)
(* The agent: its parts that share no state, side by side, and what is     *)
(* proved about each of them for every value of the constants.             *)
(*   - AgentTransport, the WebSocket client, whose state is this module's; *)
(*   - RuntimeConfig, from the dashboard to the tickers;                   *)
(*   - AgentUpdate, the update of the program by itself;                   *)
(*   - AgentEvents, from log lines to events.                              *)
(* The last section puts them together: part says which of them moves, and *)
(* the others stay where they started.                                     *)
(***************************************************************************)
EXTENDS AgentTransport, Integers, FiniteSets, TLAPS

-----------------------------------------------------------------------------
(***************************************************************************)
(* The transport, for any capacity, any backoff and any set of producers.  *)
(***************************************************************************)

\* What append and tail do to a buffer.
LEMMA Buffers ==
    ASSUME TypeOK
    PROVE  /\ ~Full => \A kind \in AllKinds : /\ Append(buf, kind) \in Seq(AllKinds)
                                              /\ Len(Append(buf, kind)) <= Cap
           /\ buf # <<>> => /\ Head(buf) \in AllKinds
                            /\ Tail(buf) \in Seq(AllKinds)
                            /\ Len(Tail(buf)) <= Cap
<1>1. buf \in Seq(AllKinds) /\ Len(buf) <= Cap /\ Cap \in Nat
    BY Zenon, TransportAssumption DEF TypeOK
<1>2. ~Full => \A kind \in AllKinds : /\ Append(buf, kind) \in Seq(AllKinds)
                                      /\ Len(Append(buf, kind)) <= Cap
    BY <1>1 DEF Full
<1>3. buf # <<>> => /\ Head(buf) \in AllKinds
                    /\ Tail(buf) \in Seq(AllKinds)
                    /\ Len(Tail(buf)) <= Cap
    BY <1>1
<1> QED
    BY Zenon, <1>2, <1>3

\* The delay stays between its bounds.
LEMMA Delays == ASSUME TypeOK
                PROVE  /\ InitialDelay \in InitialDelay..MaxDelay
                       /\ nextDelay \in InitialDelay..MaxDelay
    BY TransportAssumption DEF TypeOK, nextDelay

\* Every step of Run keeps the types.
LEMMA RunTypes == TypeOK /\ RunStep => TypeOK'
<1> SUFFICES ASSUME TypeOK, RunStep PROVE TypeOK'
    BY Zenon
<1>0. "plain" \in AllKinds /\ "critical" \in AllKinds
    BY Zenon DEF AllKinds
<1>1. CASE Connect
    BY Zenon, <1>1, Delays DEF Connect, TypeOK, MainStates
<1>2. CASE ConnectFails
    BY <1>2, Delays DEF ConnectFails, TypeOK, MainStates
<1>3. CASE ReadPing
  <2>1. buf' \in Seq(AllKinds) /\ Len(buf') <= Cap
    BY Zenon, <1>0, <1>3, Buffers DEF ReadPing, TypeOK
  <2> QED
    BY Zenon, <1>3, <2>1 DEF ReadPing, TypeOK, MainStates
<1>4. CASE PongEvent
  <2>1. buf' \in Seq(AllKinds) /\ Len(buf') <= Cap
    BY Zenon, <1>0, <1>4, Buffers DEF PongEvent
  <2> QED
    BY <1>4, <2>1 DEF PongEvent, TypeOK, MainStates
<1>5. CASE ErrorEvent
  <2>1. buf' \in Seq(AllKinds) /\ Len(buf') <= Cap
    BY Zenon, <1>0, <1>5, Buffers DEF ErrorEvent
  <2> QED
    BY <1>5, <2>1 DEF ErrorEvent, TypeOK, MainStates
<1>6. CASE Drain
  <2>1. buf' \in Seq(AllKinds) /\ Len(buf') <= Cap
    BY Zenon, <1>6, Buffers DEF Drain
  <2> QED
    BY <1>6, <2>1 DEF Drain, TypeOK, MainStates
<1>7. CASE Drained
  <2>1. delay' \in InitialDelay..MaxDelay
    BY Zenon, <1>7, Delays DEF Drained, TypeOK
  <2> QED
    BY <1>7, <2>1 DEF Drained, TypeOK, MainStates
<1>8. ASSUME NEW orderly \in BOOLEAN, ReadFails(orderly) PROVE TypeOK'
    BY <1>8 DEF ReadFails, TypeOK, MainStates
<1>9. CASE ReadCancelled \/ Exit \/ Close \/ AwaitPump
    BY ZenonT(30), <1>9 DEF ReadCancelled, Exit, Close, AwaitPump, TypeOK, MainStates
<1>10. CASE WakeUp
    BY <1>10 DEF WakeUp, TypeOK, MainStates
<1> QED
    BY Zenon, <1>1, <1>2, <1>3, <1>4, <1>5, <1>6, <1>7, <1>8, <1>9, <1>10 DEF RunStep

\* Every step of the pump keeps the types.
LEMMA PumpTypes == TypeOK /\ PumpStep => TypeOK'
<1> SUFFICES ASSUME TypeOK, PumpStep PROVE TypeOK'
    BY Zenon
<1>1. CASE PumpSelect
    BY Zenon, <1>1 DEF PumpSelect, TypeOK
<1>2. CASE PumpStopped
    BY Zenon, <1>2 DEF PumpStopped, PumpExits, TypeOK
<1>3. CASE PumpTick
    BY Zenon, <1>3 DEF PumpTick, Written, PumpExits, TypeOK
<1>4. CASE PumpWrite
    BY Zenon, <1>4 DEF PumpWrite, Written, PumpExits, TypeOK
<1>5. CASE PumpTake
  <2>1. buf' \in Seq(AllKinds) /\ Len(buf') <= Cap /\ pump' \in AllKinds
    BY Zenon, <1>5, Buffers DEF PumpTake
  <2> QED
    BY Zenon, <1>5, <2>1 DEF PumpTake, TypeOK
<1>6. CASE PumpWarn
    BY Zenon, <1>6 DEF PumpWarn, PumpExits, TypeOK
<1>7. CASE PumpEvent
  <2>1. buf' \in Seq(AllKinds) /\ Len(buf') <= Cap
    BY Zenon, <1>7, Buffers DEF PumpEvent, AllKinds
  <2> QED
    BY Zenon, <1>7, <2>1 DEF PumpEvent, PumpExits, TypeOK
<1> QED
    BY Zenon, <1>1, <1>2, <1>3, <1>4, <1>5, <1>6, <1>7 DEF PumpStep

\* Every step of a producer keeps the types.
LEMMA ProducerTypes ==
    ASSUME TypeOK, NEW p \in Producers,
           ProducerStep(p) \/ \E kind \in Kinds : StartSend(p, kind)
    PROVE  TypeOK'
<1>1. ASSUME NEW kind \in Kinds, StartSend(p, kind) PROVE TypeOK'
  <2>1. kind \in AllKinds
    BY Zenon, TransportAssumption DEF AllKinds
  <2> QED
    BY ZenonT(30), <1>1, <2>1 DEF StartSend, TypeOK
<1>2. CASE Put(p)
  <2>1. buf' \in Seq(AllKinds) /\ Len(buf') <= Cap
    BY Zenon, <1>2, Buffers DEF Put, TypeOK
  <2> QED
    BY <1>2, <2>1 DEF Put, TypeOK
<1>3. CASE Warn(p)
    BY <1>3 DEF Warn, TypeOK, AllKinds
<1> QED
    BY Zenon, <1>1, <1>2, <1>3 DEF ProducerStep

\* The types hold at the start, and every step keeps them.
LEMMA TransportTypeInit == Init => TypeOK
<1> SUFFICES ASSUME Init PROVE TypeOK
    BY Zenon
<1>1. buf \in Seq(AllKinds) /\ Len(buf) <= Cap
    BY TransportAssumption DEF Init
<1>2. delay \in InitialDelay..MaxDelay
    BY TransportAssumption DEF Init
<1> QED
    BY Zenon, <1>1, <1>2 DEF Init, TypeOK, MainStates

LEMMA TransportTypeStep == TypeOK /\ [Next]_vars => TypeOK'
<1>1. ASSUME TypeOK, Break PROVE TypeOK'
    BY ZenonT(30), <1>1 DEF Break, TypeOK
<1>2. ASSUME TypeOK, Cancel PROVE TypeOK'
    BY ZenonT(30), <1>2 DEF Cancel, TypeOK
<1>3. ASSUME TypeOK, UNCHANGED vars PROVE TypeOK'
    BY <1>3 DEF vars, TypeOK
<1> QED
    BY Zenon, <1>1, <1>2, <1>3, RunTypes, PumpTypes, ProducerTypes DEF Next

\* Type correctness of the transport model; the capacity of sendCh and the
\* bounds of the backoff are part of it.
THEOREM TransportTypeCorrect == Spec => []TypeOK
BY TransportTypeInit, TransportTypeStep, PTL DEF Spec

-----------------------------------------------------------------------------
(***************************************************************************)
(* One pump at a time.  writeDone is closed exactly when no pump runs, so  *)
(* Run, which waits for it, starts a pump only after the last one ended.   *)
(***************************************************************************)

Reading == {"read", "pong_event", "error_event", "exit"}
Between == {"dial", "drain", "sleep", "stopped"}

PumpInv ==
    /\ done <=> pump = "none"
    /\ main \in Between => done
    /\ main \in Reading => stop = "open"

\* Every step keeps PumpInv.
LEMMA PumpInvStep == TypeOK /\ PumpInv /\ [Next]_vars => PumpInv'
<1> SUFFICES ASSUME TypeOK, PumpInv, [Next]_vars PROVE PumpInv'
    BY Zenon
<1> USE DEF PumpInv, Reading, Between
<1>1. CASE Connect
    BY Zenon, <1>1 DEF Connect
<1>2. CASE ConnectFails
    BY Zenon, <1>2 DEF ConnectFails
<1>3. CASE ReadPing
    BY Zenon, <1>3 DEF ReadPing
<1>4. CASE PongEvent \/ ErrorEvent
    BY <1>4 DEF PongEvent, ErrorEvent
<1>5. ASSUME NEW orderly \in BOOLEAN, ReadFails(orderly) PROVE PumpInv'
    BY Zenon, <1>5 DEF ReadFails
<1>6. CASE ReadCancelled \/ Exit \/ Close \/ AwaitPump \/ Drain
    BY <1>6 DEF ReadCancelled, Exit, Close, AwaitPump, Drain
<1>7. CASE Drained
    BY Zenon, <1>7 DEF Drained
<1>8. CASE WakeUp
    BY Zenon, <1>8 DEF WakeUp
<1>9. CASE PumpSelect \/ PumpStopped
    BY <1>9 DEF PumpSelect, PumpStopped, PumpExits
<1>10. CASE PumpTick \/ PumpWrite
    BY <1>10 DEF PumpTick, PumpWrite, Written, PumpExits, AllKinds
<1>11. CASE PumpTake
  <2>1. pump' \in AllKinds
    BY Zenon, <1>11, Buffers DEF PumpTake
  <2> QED
    BY Zenon, <1>11, <2>1 DEF PumpTake, AllKinds
<1>12. CASE PumpWarn
    BY Zenon, <1>12 DEF PumpWarn, PumpExits
<1>13. CASE PumpEvent
    BY Zenon, <1>13 DEF PumpEvent, PumpExits
<1>14. ASSUME NEW p \in Producers, ProducerStep(p) \/ \E kind \in Kinds : StartSend(p, kind)
       PROVE  PumpInv'
    BY <1>14 DEF ProducerStep, Put, Warn, StartSend
<1>15. CASE Break \/ Cancel
    BY <1>15 DEF Break, Cancel
<1>16. CASE UNCHANGED vars
    BY Zenon, <1>16 DEF vars
<1> QED
    BY Zenon, <1>1, <1>2, <1>3, <1>4, <1>5, <1>6, <1>7, <1>8, <1>9, <1>10, <1>11, <1>12, <1>13,
       <1>14, <1>15, <1>16 DEF Next, RunStep, PumpStep

LEMMA PumpInvCorrect == Spec => []PumpInv
<1>1. Init => PumpInv
    BY Zenon DEF Init, PumpInv, Reading, Between
<1> QED
    BY <1>1, PumpInvStep, TransportTypeCorrect, PTL DEF Spec

\* No pump outlives its connection.
THEOREM OnePumpCorrect == Spec => []OnePump
<1>1. PumpInv => OnePump
    BY Zenon DEF PumpInv, OnePump, Between
<1> QED
    BY <1>1, PumpInvCorrect, PTL

\* Neither channel is closed twice, so neither close panics.
THEOREM ChannelsCorrect == Spec => []ChannelsClosedOnce
<1>1. PumpInv => ChannelsClosedOnce
    BY Zenon DEF PumpInv, ChannelsClosedOnce, Reading
<1> QED
    BY <1>1, PumpInvCorrect, PTL
-----------------------------------------------------------------------------
(***************************************************************************)
(* The configuration.  The agent only ever uses intervals that the server  *)
(* has committed.  CommittedOnly is not inductive: what the server is about *)
(* to send, what waits in the update channel and what a goroutine has      *)
(* computed must be committed as well.                                     *)
(***************************************************************************)

CONSTANTS Values, Default, Workers, Requests, Goroutines, MaxNet, ConfigFaults, None

\* Intervals are integers of any sign, the one in agent.toml is positive, and
\* None is neither an interval nor a worker.
ASSUME ConfigAssumption ==
    /\ Values \subseteq Int /\ Default \in Nat \ {0}
    /\ None \notin Int /\ None \notin Workers

VARIABLES row, req, holder, greet, net, go, cfg, file, chan, ticker, stored

Config == INSTANCE RuntimeConfig WITH Faults <- ConfigFaults, conn <- holder

Known == {Config!Duration(v) : v \in stored \cup {Default}}

\* The server's side: a request that is past its commit, the row, and what the
\* handler of a new connection has read.
SentCommitted ==
    /\ row \in stored \cup {None}
    /\ \A r \in Requests : req[r].st \in {"insert", "update", "send"} => req[r].v \in Values
    /\ \A r \in Requests : req[r].st = "send" => req[r].v \in stored
    /\ greet.st = "send" => greet.v \in stored

\* The agent's side: updates being applied, the durations to be pushed, and the
\* channel.
PushedCommitted ==
    /\ \A g \in Goroutines : go[g].st = "lock" => go[g].v \in stored
    /\ \A g \in Goroutines : go[g].st \in {"drain", "put"} => go[g].t \in Known
    /\ chan \in Known \cup {None}

ConfigInv == Config!TypeOK /\ Config!CommittedOnly /\ SentCommitted /\ PushedCommitted

\* Durations: those of committed values are durations, and more are known when
\* more is stored.
LEMMA KnownDurations == Config!TypeOK => Known \subseteq Config!Durations
BY Zenon DEF Config!TypeOK, Known, Config!Durations, Config!Intervals

LEMMA KnownGrows == stored \subseteq stored' => Known \subseteq Known'
BY Zenon DEF Known

LEMMA KnownSame == stored' = stored => Known' = Known
BY Zenon DEF Known

LEMMA ConfigInvInit == Config!Init => ConfigInv
<1> SUFFICES ASSUME Config!Init PROVE ConfigInv
    BY Zenon
<1> USE ConfigAssumption
<1>1. Config!TypeOK
    BY DEF Config!Init, Config!TypeOK, Config!NoRequest, Config!Request, Config!NoGreeting,
           Config!Greeting, Config!NoGoroutine, Config!Goroutine, Config!Intervals, Config!Durations
<1>2. Config!CommittedOnly
    BY DEF Config!Init, Config!CommittedOnly, Config!NoGoroutine
<1>3. SentCommitted
    BY Zenon DEF Config!Init, SentCommitted, Config!NoRequest, Config!NoGreeting
<1>4. PushedCommitted
    BY Zenon DEF Config!Init, PushedCommitted, Config!NoGoroutine
<1> QED BY Zenon, <1>1, <1>2, <1>3, <1>4 DEF ConfigInv

\* update_device_config.
LEMMA RequestStep ==
    ASSUME ConfigInv, NEW r \in Requests,
           (\E w \in Workers, v \in Values : Config!LookUp(r, w, v)) \/ Config!ServerStep(r)
    PROVE  ConfigInv'
<1> USE ConfigAssumption
<1>1. ASSUME NEW w \in Workers, NEW v \in Values, Config!LookUp(r, w, v) PROVE ConfigInv'
  <2>1. Config!TypeOK'
    <3>1. req' \in [Requests -> Config!Request]
        BY Zenon, <1>1 DEF ConfigInv, Config!TypeOK, Config!LookUp, Config!Request
    <3> QED BY Zenon, <1>1, <3>1 DEF ConfigInv, Config!TypeOK, Config!LookUp, Config!wireVars,
               Config!agentVars
  <2>2. Config!CommittedOnly'
    BY Zenon, <1>1 DEF ConfigInv, Config!CommittedOnly, Config!LookUp, Config!wireVars, Config!agentVars
  <2>3. SentCommitted'
    BY Zenon, <1>1 DEF ConfigInv, Config!TypeOK, SentCommitted, Config!LookUp, Config!wireVars,
       Config!agentVars
  <2>4. PushedCommitted'
    BY Zenon, <1>1, KnownSame DEF ConfigInv, PushedCommitted, Config!LookUp, Config!wireVars,
       Config!agentVars
  <2> QED BY Zenon, <2>1, <2>2, <2>3, <2>4 DEF ConfigInv
<1>2. CASE Config!CommitRow(r)
  <2>0. /\ req[r].v \in Values /\ req[r].st \in {"insert", "update"}
        /\ stored \subseteq stored' /\ UNCHANGED <<Config!wireVars, Config!agentVars>>
        /\ req[r] \in Config!Request
    BY Zenon, <1>2 DEF ConfigInv, Config!TypeOK, SentCommitted, Config!CommitRow
  <2>1. Config!TypeOK'
    <3>1. req' \in [Requests -> Config!Request]
        BY SMTT(30), <1>2, <2>0 DEF ConfigInv, Config!TypeOK, Config!CommitRow, Config!Request,
           Config!NoRequest
    <3>2. row' \in Values \cup {None} /\ stored' \subseteq Values
        BY Zenon, <1>2, <2>0 DEF ConfigInv, Config!TypeOK, Config!CommitRow
    <3> QED BY Zenon, <2>0, <3>1, <3>2 DEF ConfigInv, Config!TypeOK, Config!wireVars, Config!agentVars
  <2>2. Config!CommittedOnly'
    BY Zenon, <2>0 DEF ConfigInv, Config!CommittedOnly, Config!wireVars, Config!agentVars
  <2>3. SentCommitted'
    <3>1. CASE req[r].st = "insert" /\ row # None
      <4>1. req' = [req EXCEPT ![r] = Config!NoRequest] /\ UNCHANGED <<row, stored>>
        BY Zenon, <1>2, <3>1 DEF Config!CommitRow
      <4>2. \A q \in Requests : req'[q] = req[q] \/ req'[q].st = "idle"
        BY Zenon, <4>1 DEF ConfigInv, Config!TypeOK, Config!NoRequest
      <4> QED BY Zenon, <2>0, <4>1, <4>2 DEF ConfigInv, SentCommitted, Config!wireVars
    <3>2. CASE ~(req[r].st = "insert" /\ row # None)
      <4>1. row' = req[r].v /\ stored' = stored \cup {req[r].v}
            /\ req' = [req EXCEPT ![r].st = "send"]
        BY Zenon, <1>2, <3>2 DEF Config!CommitRow
      <4>2. \A q \in Requests : /\ req'[q].v = req[q].v
                                /\ q # r => req'[q].st = req[q].st
        BY <4>1 DEF ConfigInv, Config!TypeOK
      <4> QED BY <2>0, <4>1, <4>2 DEF ConfigInv, SentCommitted, Config!wireVars
    <3> QED BY Zenon, <3>1, <3>2
  <2>4. PushedCommitted'
    BY Zenon, <2>0, KnownGrows DEF ConfigInv, PushedCommitted, Config!agentVars
  <2> QED BY Zenon, <2>1, <2>2, <2>3, <2>4 DEF ConfigInv
<1>3. CASE Config!SendUpdate(r)
  <2>0. req[r].v \in stored /\ req[r].v \in Values
    BY Zenon, <1>3 DEF ConfigInv, Config!TypeOK, SentCommitted, Config!SendUpdate
  <2>1. Config!TypeOK'
    <3>1. req' \in [Requests -> Config!Request]
        BY Zenon, <1>3 DEF ConfigInv, Config!TypeOK, Config!SendUpdate, Config!Request, Config!NoRequest
    <3>2. net' \in Seq(Values)
        BY <1>3, <2>0 DEF ConfigInv, Config!TypeOK, Config!SendUpdate
    <3> QED BY Zenon, <1>3, <3>1, <3>2 DEF ConfigInv, Config!TypeOK, Config!SendUpdate, Config!agentVars
  <2>2. Config!CommittedOnly'
    <3>1. \A i \in 1..Len(net') : net'[i] \in stored
        BY <1>3, <2>0 DEF ConfigInv, Config!TypeOK, Config!CommittedOnly, Config!SendUpdate
    <3> QED BY Zenon, <1>3, <3>1 DEF ConfigInv, Config!CommittedOnly, Config!SendUpdate, Config!agentVars
  <2>3. SentCommitted'
    BY Zenon, <1>3 DEF ConfigInv, Config!TypeOK, SentCommitted, Config!SendUpdate, Config!NoRequest
  <2>4. PushedCommitted'
    BY Zenon, <1>3, KnownSame DEF ConfigInv, PushedCommitted, Config!SendUpdate, Config!agentVars
  <2> QED BY Zenon, <2>1, <2>2, <2>3, <2>4 DEF ConfigInv
<1> QED BY Zenon, <1>1, <1>2, <1>3 DEF Config!ServerStep

\* The connection's handler, and its loss.
LEMMA WireStep ==
    ASSUME ConfigInv, (\E w \in Workers : Config!Connect(w)) \/ Config!ConnStep \/ Config!Drop
    PROVE  ConfigInv'
<1> USE ConfigAssumption
<1>1. UNCHANGED <<Config!serverVars, Config!agentVars>>
    BY Zenon DEF Config!Connect, Config!ConnStep, Config!ReadConfig, Config!SendConfig, Config!Drop
<1>2. Config!TypeOK' /\ (greet'.st = "send" => greet'.v \in stored)
  <2>1. holder' \in Workers \cup {None} /\ net' \in Seq(Values)
    <3>1. CASE \E w \in Workers : Config!Connect(w)
        BY Zenon, <3>1 DEF ConfigInv, Config!TypeOK, Config!Connect
    <3>2. CASE Config!ReadConfig
        BY Zenon, <3>2 DEF ConfigInv, Config!TypeOK, Config!ReadConfig
    <3>4. CASE Config!Drop
        BY <3>4 DEF Config!Drop
    <3>3. CASE Config!SendConfig
      <4>1. greet.v \in Values /\ net \in Seq(Values)
        BY Zenon, <3>3 DEF ConfigInv, Config!TypeOK, SentCommitted, Config!SendConfig
      <4>2. net' = Append(net, greet.v) /\ holder' = holder
        BY Zenon, <3>3 DEF Config!SendConfig
      <4> QED BY <4>1, <4>2 DEF ConfigInv, Config!TypeOK
    <3> QED BY Zenon, <3>1, <3>2, <3>3, <3>4 DEF Config!ConnStep
  <2>2. greet' \in Config!Greeting /\ (greet'.st = "send" => greet'.v \in stored)
    BY DEF ConfigInv, Config!TypeOK, SentCommitted, Config!Connect, Config!ConnStep,
           Config!ReadConfig, Config!SendConfig, Config!Drop, Config!Greeting, Config!NoGreeting
  <2> QED BY Zenon, <1>1, <2>1, <2>2 DEF ConfigInv, Config!TypeOK, Config!serverVars, Config!agentVars
<1>3. \A i \in 1..Len(net') : net'[i] \in stored
  <2>1. /\ net \in Seq(Values) /\ stored \subseteq Values
        /\ \A i \in 1..Len(net) : net[i] \in stored
    BY Zenon DEF ConfigInv, Config!TypeOK, Config!CommittedOnly
  <2>2. \/ net' = net \/ net' = <<>>
        \/ greet.v \in stored /\ net' = Append(net, greet.v)
    BY Zenon DEF ConfigInv, SentCommitted, Config!Connect, Config!ConnStep, Config!ReadConfig,
           Config!SendConfig, Config!Drop
  <2> QED BY SMTT(30), <2>1, <2>2
<1>4. Config!CommittedOnly' /\ SentCommitted' /\ PushedCommitted'
    BY Zenon, <1>1, <1>2, <1>3, KnownSame DEF ConfigInv, Config!CommittedOnly, SentCommitted,
       PushedCommitted, Config!serverVars, Config!agentVars
<1> QED BY Zenon, <1>2, <1>4 DEF ConfigInv

\* The goroutine that applies an update.
LEMMA ApplyStep ==
    ASSUME ConfigInv, NEW g \in Goroutines, Config!Receive(g) \/ Config!AgentStep(g)
    PROVE  ConfigInv'
<1> USE ConfigAssumption
<1>0. UNCHANGED Config!serverVars /\ stored' = stored /\ Known' = Known
    BY Zenon, KnownSame DEF Config!Receive, Config!AgentStep, Config!ApplyLocked, Config!PushDrain,
       Config!PushPut, Config!serverVars
<1>t. go[g] \in Config!Goroutine
    BY Zenon DEF ConfigInv, Config!TypeOK
<1>1. CASE Config!Receive(g)
  <2>1. Head(net) \in stored /\ Head(net) \in Values /\ Tail(net) \in Seq(Values)
        /\ \A i \in 1..Len(Tail(net)) : Tail(net)[i] \in stored
    BY SMTT(30), <1>1 DEF ConfigInv, Config!TypeOK, Config!CommittedOnly, Config!Receive
  <2>2. Config!TypeOK'
    <3>1. go' \in [Goroutines -> Config!Goroutine]
        BY Zenon, <1>1, <2>1 DEF ConfigInv, Config!TypeOK, Config!Receive, Config!Goroutine
    <3> QED BY Zenon, <1>0, <1>1, <2>1, <3>1 DEF ConfigInv, Config!TypeOK, Config!Receive,
               Config!serverVars
  <2>3. Config!CommittedOnly' /\ SentCommitted' /\ PushedCommitted'
    BY ZenonT(30), <1>0, <1>1, <2>1 DEF ConfigInv, Config!TypeOK, Config!CommittedOnly, SentCommitted,
       PushedCommitted, Config!Receive, Config!serverVars
  <2> QED BY Zenon, <2>2, <2>3 DEF ConfigInv
<1>2. CASE Config!ApplyLocked(g)
  <2>0. go[g].v \in stored /\ go[g].v \in Values /\ UNCHANGED <<Config!wireVars, chan, ticker>>
    BY Zenon, <1>2 DEF ConfigInv, Config!TypeOK, PushedCommitted, Config!ApplyLocked
  <2>1. cfg' \in stored \cup {Default} /\ cfg' \in Config!Intervals
    BY Zenon, <1>2, <2>0 DEF ConfigInv, Config!TypeOK, Config!CommittedOnly, Config!ApplyLocked,
       Config!Intervals
  <2>2. file' \in stored \cup {Default} /\ file' \in Config!Intervals
    BY Zenon, <1>2, <2>1 DEF ConfigInv, Config!TypeOK, Config!CommittedOnly, Config!ApplyLocked
  <2>3. Config!Duration(cfg') \in Known /\ Config!Duration(cfg') \in Config!Durations
    BY Zenon, <2>1 DEF Known, Config!Durations
  <2>4. PICK s \in Config!Goroutine :
            /\ go' = [go EXCEPT ![g] = s]
            /\ s.st \in {"idle", "drain"} /\ s.v \in stored \cup {None}
            /\ s.st = "drain" => s.t \in Known
    <3> DEFINE d == [st |-> "drain", v |-> go[g].v, t |-> Config!Duration(cfg')]
    <3>1. d \in Config!Goroutine /\ d.st = "drain" /\ d.v \in stored \cup {None} /\ d.t \in Known
        BY Zenon, <2>0, <2>3 DEF Config!Goroutine
    <3>2. /\ Config!NoGoroutine \in Config!Goroutine
          /\ Config!NoGoroutine.st = "idle" /\ Config!NoGoroutine.v = None
        BY Zenon DEF Config!Goroutine, Config!NoGoroutine
    <3> HIDE DEF d
    <3>3. go' = [go EXCEPT ![g] = d] \/ go' = [go EXCEPT ![g] = Config!NoGoroutine]
        BY Zenon, <1>2 DEF Config!ApplyLocked, d
    <3> QED BY Zenon, <3>1, <3>2, <3>3
  <2>5. go' \in [Goroutines -> Config!Goroutine]
    BY Zenon, <2>4 DEF ConfigInv, Config!TypeOK
  <2>h. go'[g] = s /\ \A h \in Goroutines \ {g} : go'[h] = go[h]
    BY Zenon, <2>4 DEF ConfigInv, Config!TypeOK
  <2>6. Config!TypeOK'
    BY Zenon, <1>0, <2>0, <2>1, <2>2, <2>5 DEF ConfigInv, Config!TypeOK, Config!serverVars,
       Config!wireVars
  <2>7. \A h \in Goroutines : /\ go'[h].v \in stored \cup {None}
                              /\ go'[h].st = "lock" => go'[h].v \in stored
                              /\ go'[h].st \in {"drain", "put"} => go'[h].t \in Known
    <3> SUFFICES ASSUME NEW h \in Goroutines
                 PROVE  /\ go'[h].v \in stored \cup {None}
                        /\ go'[h].st = "lock" => go'[h].v \in stored
                        /\ go'[h].st \in {"drain", "put"} => go'[h].t \in Known
      BY Zenon
    <3>1. CASE h = g
      BY Zenon, <2>4, <2>h, <3>1
    <3>2. CASE h # g
      BY ZenonT(30), <2>h, <3>2 DEF ConfigInv, Config!CommittedOnly, PushedCommitted
    <3> QED BY Zenon, <3>1, <3>2
  <2>8. Config!CommittedOnly'
    BY ZenonT(30), <1>0, <2>0, <2>1, <2>2, <2>7 DEF ConfigInv, Config!CommittedOnly, Config!wireVars
  <2>9. SentCommitted' /\ PushedCommitted'
    BY Zenon, <1>0, <2>0, <2>7 DEF ConfigInv, SentCommitted, PushedCommitted, Config!serverVars,
       Config!wireVars
  <2> QED BY Zenon, <2>6, <2>8, <2>9 DEF ConfigInv
<1>3. CASE Config!PushDrain(g)
  <2>1. go' \in [Goroutines -> Config!Goroutine]
    BY Zenon, <1>t, <1>3 DEF ConfigInv, Config!TypeOK, Config!PushDrain, Config!Goroutine
  <2>2. Config!TypeOK'
    BY Zenon, <1>0, <1>3, <2>1 DEF ConfigInv, Config!TypeOK, Config!PushDrain, Config!serverVars,
       Config!wireVars
  <2>3. \A h \in Goroutines : /\ go'[h].v = go[h].v /\ go'[h].t = go[h].t
                              /\ go'[h].st = "lock" => go[h].st = "lock"
                              /\ go'[h].st \in {"drain", "put"} => go[h].st \in {"drain", "put"}
    BY <1>3 DEF ConfigInv, Config!TypeOK, Config!PushDrain
  <2>4. Config!CommittedOnly' /\ SentCommitted' /\ PushedCommitted'
    BY <1>0, <1>3, <2>3 DEF ConfigInv, Config!CommittedOnly, SentCommitted, PushedCommitted,
       Config!PushDrain, Config!serverVars, Config!wireVars
  <2> QED BY Zenon, <2>2, <2>4 DEF ConfigInv
<1>4. CASE Config!PushPut(g)
  <2>0. go[g].t \in Known /\ Known \subseteq Config!Durations
    BY Zenon, <1>4, KnownDurations DEF ConfigInv, PushedCommitted, Config!PushPut
  <2>1. go' \in [Goroutines -> Config!Goroutine] /\ chan' \in Config!Durations \cup {None}
        /\ chan' \in Known \cup {None}
    BY Zenon, <1>4, <2>0 DEF ConfigInv, Config!TypeOK, PushedCommitted, Config!PushPut,
       Config!NoGoroutine, Config!Goroutine
  <2>2. Config!TypeOK'
    BY Zenon, <1>0, <1>4, <2>1 DEF ConfigInv, Config!TypeOK, Config!PushPut, Config!serverVars,
       Config!wireVars
  <2>3. Config!CommittedOnly' /\ SentCommitted' /\ PushedCommitted'
    BY Zenon, <1>0, <1>4, <2>1 DEF ConfigInv, Config!TypeOK, Config!CommittedOnly, SentCommitted,
       PushedCommitted, Config!PushPut, Config!serverVars, Config!wireVars, Config!NoGoroutine
  <2> QED BY Zenon, <2>2, <2>3 DEF ConfigInv
<1> QED BY Zenon, <1>1, <1>2, <1>3, <1>4 DEF Config!AgentStep

\* The loop, and a restart of the agent.
LEMMA LoopStep ==
    ASSUME ConfigInv, Config!ResetTicker \/ Config!Restart
    PROVE  ConfigInv'
<1> USE ConfigAssumption
<1>0. UNCHANGED Config!serverVars /\ stored' = stored /\ Known' = Known
    BY Zenon, KnownSame DEF Config!ResetTicker, Config!Restart, Config!serverVars
<1>1. CASE Config!ResetTicker
  <2>1. ticker' \in Known /\ chan' = None /\ Known \subseteq Config!Durations
        /\ UNCHANGED <<Config!wireVars, go, cfg, file>>
    BY Zenon, <1>1, KnownDurations DEF ConfigInv, PushedCommitted, Config!ResetTicker
  <2>2. Config!TypeOK'
    BY Zenon, <1>0, <2>1 DEF ConfigInv, Config!TypeOK, Config!serverVars, Config!wireVars
  <2>3. Config!CommittedOnly' /\ SentCommitted' /\ PushedCommitted'
    BY Zenon, <1>0, <2>1 DEF ConfigInv, Config!CommittedOnly, SentCommitted, PushedCommitted, Known,
       Config!serverVars, Config!wireVars
  <2> QED BY Zenon, <2>2, <2>3 DEF ConfigInv
<1>2. CASE Config!Restart
  <2>1. Config!Duration(file) \in Known /\ Config!Duration(file) \in Config!Durations
    BY Zenon DEF ConfigInv, Config!TypeOK, Config!CommittedOnly, Known, Config!Durations
  <2>2. Config!TypeOK'
    BY SMTT(30), <1>0, <1>2, <2>1 DEF ConfigInv, Config!TypeOK, Config!Restart, Config!serverVars,
       Config!NoGoroutine, Config!Goroutine, Config!NoGreeting, Config!Greeting
  <2>3. Config!CommittedOnly'
    <3>1. /\ net' = <<>> /\ cfg' = file /\ file' = file /\ ticker' = Config!Duration(file)
          /\ \A g \in Goroutines : go'[g].v = None
      BY Zenon, <1>2 DEF Config!Restart, Config!serverVars, Config!NoGoroutine
    <3> QED BY SMTT(30), <1>0, <2>1, <3>1 DEF ConfigInv, Config!CommittedOnly, Known
  <2>4. SentCommitted' /\ PushedCommitted'
    BY Zenon, <1>0, <1>2 DEF ConfigInv, SentCommitted, PushedCommitted, Config!Restart,
       Config!serverVars, Config!NoGoroutine, Config!NoGreeting
  <2> QED BY Zenon, <2>2, <2>3, <2>4 DEF ConfigInv
<1> QED BY Zenon, <1>1, <1>2

LEMMA ConfigInvStep == ConfigInv /\ [Config!Next]_(Config!vars) => ConfigInv'
<1> SUFFICES ASSUME ConfigInv, [Config!Next]_(Config!vars) PROVE ConfigInv'
    BY ZenonT(30)
<1>1. CASE UNCHANGED Config!vars
    BY ZenonT(30), <1>1, KnownSame DEF ConfigInv, Config!TypeOK, Config!CommittedOnly, SentCommitted,
       PushedCommitted, Config!vars, Config!serverVars, Config!wireVars, Config!agentVars
<1>2. CASE Config!Next
    BY Zenon, <1>2, RequestStep, WireStep, ApplyStep, LoopStep DEF Config!Next
<1> QED BY Zenon, <1>1, <1>2

\* The configuration model is type correct: what runtime.go hands to a ticker is
\* a positive duration, whatever integers the API has stored.
THEOREM ConfigTypeCorrect == Config!Spec => []Config!TypeOK
<1>1. ConfigInv => Config!TypeOK
    BY Zenon DEF ConfigInv
<1> QED BY <1>1, ConfigInvInit, ConfigInvStep, PTL DEF Config!Spec

\* Apply and the loops only use intervals that update_device_config committed,
\* or the default of agent.toml.
THEOREM ConfigCommitted == Config!Spec => []Config!CommittedOnly
<1>1. ConfigInv => Config!CommittedOnly
    BY Zenon DEF ConfigInv
<1> QED BY <1>1, ConfigInvInit, ConfigInvStep, PTL DEF Config!Spec

\* Updates are applied one at a time, by an agent that can save its file.
Single ==
    /\ \A r, s \in Requests : req'[r].st # "idle" /\ req'[s].st # "idle" => r = s
    /\ \A g, h \in Goroutines : go'[g].st # "idle" /\ go'[h].st # "idle" => g = h
    /\ \A g \in Goroutines : Config!ApplyLocked(g) => file' = cfg'

\* pushDuration with one update at a time: the goroutine that pushes holds the
\* duration of the configuration and finds the channel empty; when none pushes,
\* that duration is in the channel or in the ticker.
Followed ==
    /\ file = cfg
    /\ \A g, h \in Goroutines : go[g].st # "idle" /\ go[h].st # "idle" => g = h
    /\ \A g \in Goroutines : go[g].st \in {"drain", "put"} => go[g].t = Config!Duration(cfg)
    /\ \A g \in Goroutines : go[g].st = "put" => chan = None
    /\ (\A g \in Goroutines : go[g].st \notin {"drain", "put"})
         => IF chan = None THEN ticker = Config!Duration(cfg) ELSE chan = Config!Duration(cfg)

LEMMA FollowedInit == Config!Init => Followed
BY SMTT(30) DEF Config!Init, Config!NoGoroutine, Followed

\* A step that is not the agent's applying an update.
LEMMA FollowedKept ==
    ASSUME Followed, UNCHANGED <<go, cfg, file, chan, ticker>>
    PROVE  Followed'
BY Zenon DEF Followed

LEMMA FollowedStep ==
    ASSUME ConfigInv, Followed, Config!Next, Single
    PROVE  Followed'
<1> USE ConfigAssumption
<1>t. /\ go \in [Goroutines -> Config!Goroutine] /\ cfg \in Int
      /\ \A v \in Int : Config!Duration(v) \in Int
  BY SMTT(30) DEF ConfigInv, Config!TypeOK, Config!Intervals, Config!Duration
<1>s. \A g, h \in Goroutines : go'[g].st # "idle" /\ go'[h].st # "idle" => g = h
  BY Zenon DEF Single
<1>1. ASSUME NEW r \in Requests,
             (\E w \in Workers, v \in Values : Config!LookUp(r, w, v)) \/ Config!ServerStep(r)
      PROVE  Followed'
  BY Zenon, <1>1, FollowedKept DEF Config!LookUp, Config!ServerStep, Config!CommitRow,
     Config!SendUpdate, Config!agentVars
<1>2. CASE (\E w \in Workers : Config!Connect(w)) \/ Config!ConnStep \/ Config!Drop
  BY Zenon, <1>2, FollowedKept DEF Config!Connect, Config!ConnStep, Config!ReadConfig,
     Config!SendConfig, Config!Drop, Config!agentVars
<1>3. CASE Config!ResetTicker
  <2>1. chan # None /\ ticker' = chan /\ chan' = None /\ UNCHANGED <<go, cfg, file>>
    BY Zenon, <1>3 DEF Config!ResetTicker
  <2> QED BY Zenon, <2>1 DEF Followed
<1>4. CASE Config!Restart
  <2>1. /\ go' = [g \in Goroutines |-> Config!NoGoroutine]
        /\ cfg' = file /\ file' = file /\ chan' = None /\ ticker' = Config!Duration(file)
    BY Zenon, <1>4 DEF Config!Restart
  <2>2. Config!Duration(cfg') = Config!Duration(file)
    BY Zenon, <2>1
  <2> QED BY Zenon, <2>1, <2>2 DEF Followed, Config!NoGoroutine
<1>5. ASSUME NEW g \in Goroutines, Config!Receive(g) PROVE Followed'
  <2>1. /\ go' = [go EXCEPT ![g] = [st |-> "lock", v |-> Head(net), t |-> None]]
        /\ UNCHANGED <<cfg, file, chan, ticker>> /\ go[g].st = "idle"
    BY Zenon, <1>5 DEF Config!Receive
  <2>2. go'[g].st = "lock" /\ \A h \in Goroutines : h # g => go'[h] = go[h]
    BY Zenon, <1>t, <2>1
  <2> QED BY ZenonT(30), <1>s, <2>1, <2>2 DEF Followed
<1>6. ASSUME NEW g \in Goroutines, Config!ApplyLocked(g) PROVE Followed'
  <2>1. file' = cfg' /\ UNCHANGED <<chan, ticker>> /\ go[g].st = "lock"
    BY Zenon, <1>6 DEF Single, Config!ApplyLocked
  <2>2. \A h \in Goroutines : h # g => go[h].st = "idle"
    BY Zenon, <2>1 DEF Followed
  <2>3. CASE go' = [go EXCEPT ![g] = [st |-> "drain", v |-> go[g].v, t |-> Config!Duration(cfg')]]
    <3>1. go'[g].st = "drain" /\ go'[g].t = Config!Duration(cfg')
          /\ \A h \in Goroutines : h # g => go'[h].st = "idle"
      BY Zenon, <1>t, <2>2, <2>3
    <3> QED BY Zenon, <1>s, <2>1, <3>1 DEF Followed
  <2>4. CASE go' = [go EXCEPT ![g] = Config!NoGoroutine] /\ cfg' = cfg
    <3>1. \A h \in Goroutines : go'[h].st = "idle"
      BY Zenon, <1>t, <2>2, <2>4 DEF Config!NoGoroutine
    <3> QED BY Zenon, <2>1, <2>2, <2>4, <3>1 DEF Followed
  <2>5. \/ go' = [go EXCEPT ![g] = [st |-> "drain", v |-> go[g].v, t |-> Config!Duration(cfg')]]
        \/ go' = [go EXCEPT ![g] = Config!NoGoroutine] /\ cfg' = cfg
    BY Zenon, <1>6, <2>1 DEF Config!ApplyLocked, Followed
  <2> QED BY Zenon, <2>3, <2>4, <2>5
<1>7. ASSUME NEW g \in Goroutines, Config!PushDrain(g) PROVE Followed'
  <2>1. /\ go' = [go EXCEPT ![g].st = "put"] /\ chan' = None /\ go[g].st = "drain"
        /\ UNCHANGED <<cfg, file, ticker>>
    BY Zenon, <1>7 DEF Config!PushDrain
  <2>2. go'[g].st = "put" /\ go'[g].t = go[g].t
        /\ \A h \in Goroutines : h # g => go'[h] = go[h]
    BY SMTT(30), <1>t, <2>1
  <2> QED BY Zenon, <1>s, <2>1, <2>2 DEF Followed
<1>8. ASSUME NEW g \in Goroutines, Config!PushPut(g) PROVE Followed'
  <2>1. /\ go' = [go EXCEPT ![g] = Config!NoGoroutine] /\ go[g].st = "put"
        /\ chan' = (IF chan = None THEN go[g].t ELSE chan)
        /\ UNCHANGED <<cfg, file, ticker>>
    BY Zenon, <1>8 DEF Config!PushPut
  <2>2. chan' = Config!Duration(cfg) /\ Config!Duration(cfg) # None
    BY Zenon, <1>t, <2>1 DEF Followed
  <2>3. \A h \in Goroutines : go'[h].st = "idle"
    BY Zenon, <1>t, <2>1 DEF Followed, Config!NoGoroutine
  <2> QED BY Zenon, <2>1, <2>2, <2>3 DEF Followed
<1> QED BY Zenon, <1>1, <1>2, <1>3, <1>4, <1>5, <1>6, <1>7, <1>8 DEF Config!Next, Config!AgentStep
-----------------------------------------------------------------------------
(***************************************************************************)
(* The update: the order of releases that isNewerVersion defines, and what *)
(* overlapping attempts to update install.                                 *)
(***************************************************************************)

CONSTANTS Releases, First, Commands, MaxFailures, MaxCommands

\* A release is named by numbers, as version.txt of the server's dist is.
ASSUME UpdateAssumption ==
    /\ First \in Releases /\ Releases \subseteq Seq(Nat)
    /\ MaxFailures \in Nat /\ MaxCommands \in Nat

VARIABLES published, binary, disk, running, attempt, got, failures, received

Update == INSTANCE AgentUpdate

\* parseSemver yields three numbers.
LEMMA ParseType == ASSUME NEW v \in Seq(Nat) PROVE Update!parseSemver(v) \in [1 .. 3 -> Nat]
BY SMTT(30) DEF Update!parseSemver

\* isNewerVersion without its quantifiers.
LEMMA NewerCases ==
    ASSUME NEW v \in Seq(Nat), NEW w \in Seq(Nat)
    PROVE  LET r == Update!parseSemver(v)
               c == Update!parseSemver(w)
           IN Update!isNewerVersion(v, w) <=>
                 \/ r[1] > c[1]
                 \/ r[1] = c[1] /\ r[2] > c[2]
                 \/ r[1] = c[1] /\ r[2] = c[2] /\ r[3] > c[3]
<1> DEFINE r == Update!parseSemver(v)
           c == Update!parseSemver(w)
           B(i) == r[i] > c[i] /\ \A j \in 1 .. i - 1 : r[j] = c[j]
<1>1. Update!isNewerVersion(v, w) <=> \E i \in 1 .. 3 : B(i)
  BY Zenon DEF Update!isNewerVersion
<1>2. (\E i \in 1 .. 3 : B(i)) <=> B(1) \/ B(2) \/ B(3)
  <2> HIDE DEF B
  <2> QED BY SMT
<1>3. B(1) <=> r[1] > c[1]
  OBVIOUS
<1>4. B(2) <=> r[1] = c[1] /\ r[2] > c[2]
  <2>1. \A j : j \in 1 .. 2 - 1 <=> j = 1
    BY SMT
  <2> QED BY Zenon, <2>1
<1>5. B(3) <=> r[1] = c[1] /\ r[2] = c[2] /\ r[3] > c[3]
  <2>1. \A j : j \in 1 .. 3 - 1 <=> j = 1 \/ j = 2
    BY SMT
  <2> QED BY Zenon, <2>1
<1> QED BY Zenon, <1>1, <1>2, <1>3, <1>4, <1>5

\* No release is newer than itself.
THEOREM NewerIrreflexive == ASSUME NEW v \in Seq(Nat) PROVE ~Update!isNewerVersion(v, v)
<1>1. \A i \in 1 .. 3 : Update!parseSemver(v)[i] \in Nat
  BY Zenon, ParseType
<1> QED BY SMTT(30), <1>1, NewerCases

\* A release newer than a newer one is newer: an agent that skips releases, or
\* sees another one published while it downloads, still moves forward.
THEOREM NewerTransitive ==
    ASSUME NEW u \in Seq(Nat), NEW v \in Seq(Nat), NEW w \in Seq(Nat),
           Update!isNewerVersion(u, v), Update!isNewerVersion(v, w)
    PROVE  Update!isNewerVersion(u, w)
<1> DEFINE p == Update!parseSemver(u)
           q == Update!parseSemver(v)
           r == Update!parseSemver(w)
<1>1. /\ p[1] \in Nat /\ p[2] \in Nat /\ p[3] \in Nat
      /\ q[1] \in Nat /\ q[2] \in Nat /\ q[3] \in Nat
      /\ r[1] \in Nat /\ r[2] \in Nat /\ r[3] \in Nat
  BY SMTT(30), ParseType
<1>2. p[1] > q[1] \/ (p[1] = q[1] /\ p[2] > q[2]) \/ (p[1] = q[1] /\ p[2] = q[2] /\ p[3] > q[3])
  BY Zenon, NewerCases
<1>3. q[1] > r[1] \/ (q[1] = r[1] /\ q[2] > r[2]) \/ (q[1] = r[1] /\ q[2] = r[2] /\ q[3] > r[3])
  BY Zenon, NewerCases
<1>4. p[1] > r[1] \/ (p[1] = r[1] /\ p[2] > r[2]) \/ (p[1] = r[1] /\ p[2] = r[2] /\ p[3] > r[3])
  <2> HIDE DEF p, q, r
  <2>1. p[1] >= q[1] /\ q[1] >= r[1]
    BY SMTT(90), <1>1, <1>2, <1>3
  <2>2. CASE p[1] > q[1]
    <3>1. p[1] > r[1]
      BY SMTT(90), <1>1, <2>1, <2>2
    <3> QED BY Zenon, <3>1
  <2>3. CASE q[1] > r[1]
    <3>1. p[1] > r[1]
      BY SMTT(30), <1>1, <2>1, <2>3
    <3> QED BY Zenon, <3>1
  <2>4. CASE p[1] = q[1] /\ q[1] = r[1]
    <3>1. p[2] > q[2] \/ (p[2] = q[2] /\ p[3] > q[3])
      BY SMTT(30), <1>1, <1>2, <2>4
    <3>2. q[2] > r[2] \/ (q[2] = r[2] /\ q[3] > r[3])
      BY <1>1, <1>3, <2>4
    <3>3. p[2] > r[2] \/ (p[2] = r[2] /\ p[3] > r[3])
      BY SMTT(90), <1>1, <3>1, <3>2
    <3> QED BY Zenon, <3>3, <2>4
  <2> QED BY SMTT(30), <1>1, <2>1, <2>2, <2>3, <2>4
<1>5. Update!isNewerVersion(u, w) <=>
         p[1] > r[1] \/ (p[1] = r[1] /\ p[2] > r[2]) \/ (p[1] = r[1] /\ p[2] = r[2] /\ p[3] > r[3])
  BY Zenon, NewerCases
<1> HIDE DEF p, q, r
<1> QED BY Zenon, <1>4, <1>5

\* v is not newer than w.
Upto(v, w) == ~Update!isNewerVersion(v, w)

\* This order of releases is transitive too: releases that differ only after
\* the third part count as equal.
LEMMA UptoTransitive ==
    ASSUME NEW u \in Seq(Nat), NEW v \in Seq(Nat), NEW w \in Seq(Nat), Upto(u, v), Upto(v, w)
    PROVE  Upto(u, w)
<1> DEFINE p == Update!parseSemver(u)
           q == Update!parseSemver(v)
           r == Update!parseSemver(w)
<1>1. /\ p[1] \in Nat /\ p[2] \in Nat /\ p[3] \in Nat
      /\ q[1] \in Nat /\ q[2] \in Nat /\ q[3] \in Nat
      /\ r[1] \in Nat /\ r[2] \in Nat /\ r[3] \in Nat
  BY SMTT(30), ParseType
<1>2. ~(p[1] > q[1]) /\ (p[1] = q[1] => ~(p[2] > q[2]) /\ (p[2] = q[2] => ~(p[3] > q[3])))
  BY Zenon, NewerCases DEF Upto
<1>3. ~(q[1] > r[1]) /\ (q[1] = r[1] => ~(q[2] > r[2]) /\ (q[2] = r[2] => ~(q[3] > r[3])))
  BY Zenon, NewerCases DEF Upto
<1>4. Upto(u, w) <=>
         ~(p[1] > r[1]) /\ (p[1] = r[1] => ~(p[2] > r[2]) /\ (p[2] = r[2] => ~(p[3] > r[3])))
  BY Zenon, NewerCases DEF Upto
<1> HIDE DEF p, q, r
<1>5. CASE p[1] = q[1] /\ q[1] = r[1]
  <2>1. ~(p[2] > q[2]) /\ (p[2] = q[2] => ~(p[3] > q[3]))
    BY Zenon, <1>2, <1>5
  <2>2. ~(q[2] > r[2]) /\ (q[2] = r[2] => ~(q[3] > r[3]))
    BY Zenon, <1>3, <1>5
  <2>3. ~(p[2] > r[2]) /\ (p[2] = r[2] => ~(p[3] > r[3]))
    <3>1. p[2] < r[2] \/ (p[2] = q[2] /\ q[2] = r[2])
      BY SMTT(90), <1>1, <2>1, <2>2
    <3>2. CASE p[2] < r[2]
      BY SMTT(30), <1>1, <3>2
    <3>3. CASE p[2] = q[2] /\ q[2] = r[2]
      <4>1. ~(p[3] > q[3]) /\ ~(q[3] > r[3])
        BY Zenon, <2>1, <2>2, <3>3
      <4>2. ~(p[3] > r[3])
        BY SMTT(30), <1>1, <4>1
      <4> QED BY <1>1, <3>3, <4>2
    <3> QED BY Zenon, <3>1, <3>2, <3>3
  <2> QED BY <1>1, <1>4, <1>5, <2>3
<1>6. CASE p[1] < r[1]
  BY SMTT(30), <1>1, <1>4, <1>6
<1>7. p[1] < r[1] \/ (p[1] = q[1] /\ q[1] = r[1])
  <2>1. ~(p[1] > q[1]) /\ ~(q[1] > r[1])
    BY Zenon, <1>2, <1>3
  <2>2. \A x, y, z \in Nat : ~(x > y) /\ ~(y > z) => x < z \/ (x = y /\ y = z)
    OBVIOUS
  <2> QED BY Zenon, <1>1, <2>1, <2>2
<1> QED BY Zenon, <1>5, <1>6, <1>7

-----------------------------------------------------------------------------
(***************************************************************************)
(* What is installed                                                       *)
(***************************************************************************)

\* The types hold at the start.
LEMMA UpdateTypeInit == Update!Init => Update!TypeOK
<1>1. Update!Started \in [Update!Attempts -> Update!Stages]
  BY Zenon DEF Update!Started, Update!Stages
<1> QED BY SMTT(30), <1>1, UpdateAssumption DEF Update!Init, Update!TypeOK

\* Every step keeps the types.
LEMMA UpdateTypeStep == Update!TypeOK /\ [Update!Next]_(Update!vars) => Update!TypeOK'
<1> SUFFICES ASSUME Update!TypeOK, [Update!Next]_(Update!vars) PROVE Update!TypeOK'
  BY Zenon
<1> USE UpdateAssumption DEF Update!TypeOK
<1>1. CASE Update!Tick
  BY Zenon, <1>1 DEF Update!Tick, Update!Stages, Update!Attempts
<1>2. CASE Update!Reboot
  BY <1>2 DEF Update!Reboot, Update!Started, Update!Stages, Update!Attempts
<1>3. CASE Update!PublishBinary
  BY Zenon, <1>3 DEF Update!PublishBinary
<1>4. ASSUME NEW c \in Commands, Update!Command(c) PROVE Update!TypeOK'
  BY <1>4 DEF Update!Command, Update!Stages, Update!Attempts
<1>5. ASSUME NEW a \in Update!Attempts, Update!Check(a) PROVE Update!TypeOK'
  BY Zenon, <1>5 DEF Update!Check, Update!GiveUp, Update!Stages
<1>6. ASSUME NEW a \in Update!Attempts, Update!Download(a) PROVE Update!TypeOK'
  BY Zenon, <1>6 DEF Update!Download, Update!download_agent, Update!Stages
<1>7. ASSUME NEW a \in Update!Attempts, Update!Install(a) PROVE Update!TypeOK'
  BY Zenon, <1>7 DEF Update!Install, Update!Stages
<1>8. ASSUME NEW a \in Update!Attempts, Update!Fail(a) PROVE Update!TypeOK'
  <2>1. attempt' = [attempt EXCEPT ![a] = "ended"] \/ attempt' = [attempt EXCEPT ![a] = "idle"]
    BY Zenon, <1>8 DEF Update!Fail, Update!GiveUp
  <2>2. attempt' \in [Update!Attempts -> Update!Stages]
    BY Zenon, <2>1 DEF Update!Stages
  <2>3. failures' \in 0 .. MaxFailures
    BY SMTT(30), <1>8 DEF Update!Fail
  <2>4. UNCHANGED <<published, binary, disk, running, got, received>>
    BY Zenon, <1>8 DEF Update!Fail
  <2> QED BY Zenon, <2>2, <2>3, <2>4
<1>9. ASSUME NEW a \in Update!Attempts, Update!restartAgent(a) PROVE Update!TypeOK'
  BY Zenon, <1>9 DEF Update!restartAgent, Update!Started, Update!Stages, Update!Attempts
<1>10. ASSUME NEW v \in Releases, Update!Publish(v) PROVE Update!TypeOK'
  BY Zenon, <1>10 DEF Update!Publish
<1>11. CASE UNCHANGED Update!vars
  BY Zenon, <1>11 DEF Update!vars
<1> QED BY ZenonT(30), <1>1, <1>2, <1>3, <1>4, <1>5, <1>6, <1>7, <1>8, <1>9, <1>10, <1>11 DEF Update!Next

\* Type correctness: what is at the agent's path is a whole release at every
\* moment of the download, installation and restart.
THEOREM UpdateTypeCorrect == Update!Spec => []Update!TypeOK
BY UpdateTypeInit, UpdateTypeStep, PTL DEF Update!Spec

\* The inductive invariant: what is on the disk, what was downloaded and what
\* is served are no older than what runs, and nothing is newer than what is
\* served, which is no newer than version.txt.
Ahead ==
    /\ Upto(running, disk) /\ Upto(disk, binary) /\ Upto(binary, published)
    /\ \A a \in Update!Attempts :
          attempt[a] = "install" => Upto(running, got[a]) /\ Upto(got[a], binary)

UpdateInv == Update!TypeOK /\ Ahead

\* It holds at the start, and every step keeps it.
LEMMA UpdateInvInit == Update!Init => UpdateInv
<1> USE UpdateAssumption
<1> SUFFICES ASSUME Update!Init PROVE Ahead
  BY UpdateAssumption DEF Update!Init, UpdateInv, Update!TypeOK, Update!Started, Update!Attempts,
     Update!Stages
<1>1. Upto(First, First)
  BY Zenon, NewerIrreflexive DEF Upto
<1> QED BY Zenon, <1>1 DEF Update!Init, Ahead, Update!Started

LEMMA UpdateInvStep == UpdateInv /\ [Update!Next]_(Update!vars) => UpdateInv'
<1> USE UpdateAssumption
<1> SUFFICES ASSUME UpdateInv, [Update!Next]_(Update!vars) PROVE Ahead'
  BY Zenon, UpdateTypeStep DEF UpdateInv
<1> USE DEF UpdateInv, Update!TypeOK
<1>1. CASE Update!Tick
  BY Zenon, <1>1 DEF Update!Tick, Ahead
<1>2. ASSUME running' = disk, attempt' = Update!Started, UNCHANGED <<published, binary, disk>>
      PROVE  Ahead'
  <2>1. Upto(disk, disk)
    BY Zenon, NewerIrreflexive DEF Upto
  <2> QED BY Zenon, <1>2, <2>1 DEF Ahead, Update!Started
<1>3. CASE Update!Reboot
  BY Zenon, <1>3, <1>2 DEF Update!Reboot
<1>4. CASE Update!PublishBinary
  <2>1. /\ published' = published /\ binary' = published
        /\ UNCHANGED <<disk, running, attempt, got>>
    BY Zenon, <1>4 DEF Update!PublishBinary
  <2>2. Upto(published, published)
    BY Zenon, NewerIrreflexive DEF Upto
  <2>3. Upto(disk, published)
    BY Zenon, UptoTransitive DEF Ahead
  <2>4. \A a \in Update!Attempts : attempt[a] = "install" => Upto(got[a], published)
    BY Zenon, UptoTransitive DEF Ahead
  <2> QED BY Zenon, <2>1, <2>2, <2>3, <2>4 DEF Ahead
<1>5. ASSUME NEW c \in Commands, Update!Command(c) PROVE Ahead'
  BY Zenon, <1>5 DEF Update!Command, Ahead
<1>6. ASSUME NEW a \in Update!Attempts, Update!Check(a) PROVE Ahead'
  BY Zenon, <1>6 DEF Update!Check, Update!GiveUp, Ahead
<1>7. ASSUME NEW a \in Update!Attempts, Update!Download(a) PROVE Ahead'
  <2>1. got' = [got EXCEPT ![a] = binary] /\ attempt' = [attempt EXCEPT ![a] = "install"]
    BY Zenon, <1>7 DEF Update!Download, Update!download_agent
  <2>2. UNCHANGED <<published, binary, disk, running>>
    BY Zenon, <1>7 DEF Update!Download
  <2>3. Upto(running, binary)
    BY Zenon, UptoTransitive DEF Ahead
  <2>4. Upto(binary, binary)
    BY Zenon, NewerIrreflexive DEF Upto
  <2> QED BY Zenon, <2>1, <2>2, <2>3, <2>4 DEF Ahead
<1>8. ASSUME NEW a \in Update!Attempts, Update!Install(a) PROVE Ahead'
  BY Zenon, <1>8 DEF Update!Install, Ahead
<1>9. ASSUME NEW a \in Update!Attempts, Update!Fail(a) PROVE Ahead'
  BY Zenon, <1>9 DEF Update!Fail, Update!GiveUp, Ahead
<1>10. ASSUME NEW a \in Update!Attempts, Update!restartAgent(a) PROVE Ahead'
  BY Zenon, <1>10, <1>2 DEF Update!restartAgent
<1>11. ASSUME NEW v \in Releases, Update!Publish(v) PROVE Ahead'
  <2>1. published' = v /\ Update!isNewerVersion(v, published) /\ binary = published
    BY Zenon, <1>11 DEF Update!Publish
  <2>2. UNCHANGED <<binary, disk, running, attempt, got>>
    BY Zenon, <1>11 DEF Update!Publish
  <2>3. Upto(published, v)
    BY Zenon, <2>1, NewerTransitive, NewerIrreflexive DEF Upto
  <2> QED BY Zenon, <2>1, <2>2, <2>3 DEF Ahead
<1>12. CASE UNCHANGED Update!vars
  BY Zenon, <1>12 DEF Update!vars, Ahead
<1> QED BY Zenon, <1>1, <1>3, <1>4, <1>5, <1>6, <1>7, <1>8, <1>9, <1>10, <1>11, <1>12 DEF Update!Next

\* What runs after a step is what ran before or what was on the disk.
LEMMA UpdateNotOlder ==
    UpdateInv /\ [Update!Next]_(Update!vars)
      => [~Update!isNewerVersion(running, running')]_(Update!vars)
<1> USE UpdateAssumption
<1> SUFFICES ASSUME UpdateInv, [Update!Next]_(Update!vars)
             PROVE  ~Update!isNewerVersion(running, running')
  BY ZenonT(30)
<1>1. running' = running \/ running' = disk
  BY Zenon DEF Update!Next, Update!vars, Update!Tick, Update!Reboot, Update!PublishBinary,
         Update!Command, Update!Check, Update!Download, Update!Install, Update!Fail,
         Update!restartAgent, Update!Publish
<1>2. CASE running' = running
  BY Zenon, <1>2, NewerIrreflexive DEF UpdateInv, Update!TypeOK
<1>3. CASE running' = disk
  BY Zenon, <1>3 DEF UpdateInv, Ahead, Upto
<1> QED BY Zenon, <1>1, <1>2, <1>3

\* However many attempts overlap, releases appear and steps fail, the agent never
\* runs an older release than before.
THEOREM UpdateNeverOlder == Update!Spec => Update!NeverOlder
BY UpdateInvInit, UpdateInvStep, UpdateNotOlder, PTL DEF Update!Spec, Update!NeverOlder

-----------------------------------------------------------------------------
(***************************************************************************)
(* The events.  A setting is what one run of the collector depends on: the *)
(* lines there are, the configuration, the clock and the surroundings.     *)
(***************************************************************************)

CONSTANTS DedupWindow, RateWindow, Interval, Settings

\* When nothing is slow or fails, journalctl prints all the lines there are.
Sound(c) ==
    /\ c.dedupMax \in Nat /\ c.maxEvents \in Nat /\ c.maxTime \in Nat
    /\ c.environment = {} => \A S \in SUBSET c.journal : Cardinality(S) < c.journalLines

ASSUME EventsAssumption ==
    /\ DedupWindow \in Nat /\ RateWindow \in Nat
    /\ \A p \in DOMAIN Settings : Sound(Settings[p])

VARIABLES now, ticked, written, lastChecked, phase, todo, anyRead, events, entries, order,
          limiter, read, passed, sent

eventVars == <<now, ticked, written, lastChecked, phase, todo, anyRead, events, entries, order,
               limiter, read, passed, sent>>

Events(c) == INSTANCE AgentEvents WITH
    Journal <- c.journal, Buffer <- c.buffer, Crash <- c.crash, Excluded <- c.excluded,
    JournalLines <- c.journalLines, DedupMax <- c.dedupMax, MaxEvents <- c.maxEvents,
    MaxTime <- c.maxTime, Environment <- c.environment

-----------------------------------------------------------------------------
(***************************************************************************)
(* The parts together.  The configuration is checked with overlapping      *)
(* updates and, as "single", with updates applied one at a time by an      *)
(* agent that can save its file; the events with every setting; the update *)
(* of the agent with its loop and its commands.                            *)
(***************************************************************************)

CONSTANT Few        \* the values entered when updates overlap (bound)

VARIABLE part

\* Releases that compare differently part by part, one with a missing part.
ReleaseSet == {<<1, 9, 5>>, <<1, 10>>, <<2, 0, 1>>}
FirstRelease == <<1, 9, 5>>

\* Prompt reads; slow and failing ones; and, for longer, without the filter.
SettingSet ==
    [prompt |-> [journal |-> {"j1", "j2"}, buffer |-> {"b1", "b2"}, crash |-> {"b1"},
                 excluded |-> {"b2"}, journalLines |-> 4, dedupMax |-> 2, maxEvents |-> 1,
                 maxTime |-> 4, environment |-> {}],
     faulty |-> [journal |-> {"j1"}, buffer |-> {"b1", "b2"}, crash |-> {"b1"},
                 excluded |-> {}, journalLines |-> 4, dedupMax |-> 1, maxEvents |-> 1,
                 maxTime |-> 3, environment |-> {"slow", "fail"}],
     unfiltered |-> [journal |-> {"j1"}, buffer |-> {"b1", "b2"}, crash |-> {"b1"},
                     excluded |-> {}, journalLines |-> 4, dedupMax |-> 0, maxEvents |-> 2,
                     maxTime |-> 6, environment |-> {}]]

configVars == <<row, req, holder, greet, net, go, cfg, file, chan, ticker, stored>>
updateVars == <<published, binary, disk, running, attempt, got, failures, received>>
all == <<part, vars, configVars, updateVars, eventVars>>

\* A part that does not collect events starts with any setting of them.
AgentInit ==
    /\ Init /\ Config!Init /\ Update!Init
    /\ \/ /\ part \in {"transport", "overlapping", "single", "update"} \ DOMAIN Settings
          /\ LET p == CHOOSE p \in DOMAIN Settings : TRUE IN Events(Settings[p])!Init
       \/ \E p \in DOMAIN Settings : part = p /\ Events(Settings[p])!Init

Overlapping == \A r \in Requests : req'[r].v \in Few \cup {None}

AgentNext ==
    \/ part = "transport" /\ Next /\ UNCHANGED <<part, configVars, updateVars, eventVars>>
    \/ /\ part = "overlapping" /\ Config!Next /\ Overlapping
       /\ UNCHANGED <<part, vars, updateVars, eventVars>>
    \/ /\ part = "single" /\ Config!Next /\ Single
       /\ UNCHANGED <<part, vars, updateVars, eventVars>>
    \/ part = "update" /\ Update!Next /\ UNCHANGED <<part, vars, configVars, eventVars>>
    \/ \E p \in DOMAIN Settings : /\ part = p /\ Events(Settings[p])!Next
                                  /\ UNCHANGED <<part, vars, configVars, updateVars>>

AgentSpec == AgentInit /\ [][AgentNext]_all

\* The types of the agent's parts.
PartsTypeOK ==
    /\ TypeOK /\ Config!TypeOK /\ Update!TypeOK
    /\ \A p \in DOMAIN Settings : part = p => Events(Settings[p])!TypeOK

\* pushDuration: when updates are applied one at a time, the ticker runs with
\* the interval the configuration shows once they are applied.
SingleUpdateFollows == part = "single" => Config!TickerFollowsConfig

\* The event pipeline stays bounded: the filter's memory, all of it within reach
\* of eviction, also when reads are slow or fail; and what ApplyEventRateLimit
\* lets through in any stretch of time.
PipelineBounded ==
    \A p \in DOMAIN Settings :
        part = p => Events(Settings[p])!DedupBounded /\ Events(Settings[p])!RateBound

\* No event is lost before the limiter: shouldSkipEvent suppresses only what it
\* let through a short time ago, also when reads are slow or fail; CollectEvents,
\* when its reads are prompt and succeed, asks for every journal line it has not
\* read yet.
EventsReported ==
    [][\A p \in DOMAIN Settings : part = p =>
          /\ Events(Settings[p])!SuppressedRecently
          /\ Settings[p].environment = {} => Events(Settings[p])!NothingSkipped']_all

\* The agent never goes back to an older release, whatever attempts to update
\* overlap.
NeverOlder == Update!NeverOlder

-----------------------------------------------------------------------------
(***************************************************************************)
(* The proofs for the parts together.  A step of the agent is a step of    *)
(* one part and leaves the others as they are, so that each part keeps its *)
(* own inductive invariant.                                                *)
(***************************************************************************)

LEMMA PartSteps ==
    ASSUME [AgentNext]_all
    PROVE  /\ [Next]_vars /\ [Config!Next]_(Config!vars) /\ [Update!Next]_(Update!vars)
           /\ part' = part
           /\ part = "single" => Single \/ UNCHANGED configVars
<1>1. UNCHANGED configVars => UNCHANGED Config!vars
  BY Zenon DEF configVars, Config!vars, Config!serverVars, Config!wireVars, Config!agentVars
<1>2. UNCHANGED updateVars => UNCHANGED Update!vars
  BY Zenon DEF updateVars, Update!vars
<1>3. CASE UNCHANGED all
  <2>1. UNCHANGED <<part, vars, configVars, updateVars, eventVars>>
    BY ZenonT(30), <1>3 DEF all
  <2> QED BY Zenon, <1>1, <1>2, <2>1
<1>4. CASE AgentNext
  <2>1. CASE part = "transport" /\ Next /\ UNCHANGED <<part, configVars, updateVars, eventVars>>
    BY Zenon, <1>1, <1>2, <2>1
  <2>2. CASE /\ part = "overlapping" /\ Config!Next /\ Overlapping
             /\ UNCHANGED <<part, vars, updateVars, eventVars>>
    BY Zenon, <1>2, <2>2
  <2>3. CASE /\ part = "single" /\ Config!Next /\ Single
             /\ UNCHANGED <<part, vars, updateVars, eventVars>>
    BY Zenon, <1>2, <2>3
  <2>4. CASE part = "update" /\ Update!Next /\ UNCHANGED <<part, vars, configVars, eventVars>>
    BY Zenon, <1>1, <2>4
  <2>5. ASSUME NEW p \in DOMAIN Settings, part = p, Events(Settings[p])!Next,
               UNCHANGED <<part, vars, configVars, updateVars>>
        PROVE  /\ [Next]_vars /\ [Config!Next]_(Config!vars) /\ [Update!Next]_(Update!vars)
               /\ part' = part
               /\ part = "single" => Single \/ UNCHANGED configVars
    BY Zenon, <1>1, <1>2, <2>5
  <2> QED BY ZenonT(30), <1>4, <2>1, <2>2, <2>3, <2>4, <2>5 DEF AgentNext
<1> QED BY Zenon, <1>3, <1>4

AgentInv ==
    /\ TypeOK /\ ConfigInv /\ UpdateInv
    /\ part = "single" => Followed

LEMMA AgentInvInit == AgentInit => AgentInv
<1> SUFFICES ASSUME AgentInit PROVE AgentInv
  BY Zenon
<1>1. Init /\ Config!Init /\ Update!Init
  BY Zenon DEF AgentInit
<1> QED BY Zenon, <1>1, TransportTypeInit, ConfigInvInit, UpdateInvInit, FollowedInit DEF AgentInv

LEMMA AgentInvStep == AgentInv /\ [AgentNext]_all => AgentInv'
<1> SUFFICES ASSUME AgentInv, [AgentNext]_all PROVE AgentInv'
  BY Zenon
<1>1. TypeOK' /\ ConfigInv' /\ UpdateInv'
  BY Zenon, PartSteps, TransportTypeStep, ConfigInvStep, UpdateInvStep DEF AgentInv
<1>2. ASSUME part' = "single" PROVE Followed'
  <2>1. Followed /\ ConfigInv /\ [Config!Next]_(Config!vars) /\ (Single \/ UNCHANGED configVars)
    BY Zenon, <1>2, PartSteps DEF AgentInv
  <2>2. CASE UNCHANGED configVars
    BY Zenon, <2>1, <2>2, FollowedKept DEF configVars
  <2>3. CASE UNCHANGED Config!vars
    BY Zenon, <2>1, <2>3, FollowedKept DEF Config!vars, Config!agentVars
  <2> QED BY Zenon, <2>1, <2>2, <2>3, FollowedStep
<1> QED BY Zenon, <1>1, <1>2 DEF AgentInv

LEMMA AgentInvCorrect == AgentSpec => []AgentInv
BY AgentInvInit, AgentInvStep, PTL DEF AgentSpec

\* When Apply runs for one update at a time and can save the file, the loop's
\* ticker ends up with the interval that the configuration shows.
THEOREM SingleUpdateCorrect == AgentSpec => []SingleUpdateFollows
<1>1. AgentInv => SingleUpdateFollows
  BY Zenon DEF AgentInv, Followed, SingleUpdateFollows, Config!TickerFollowsConfig, Config!Settled
<1> QED BY <1>1, AgentInvCorrect, PTL

\* The agent never runs an older release than before, among its other parts.
THEOREM AgentNeverOlder == AgentSpec => NeverOlder
<1>1. AgentInv /\ [AgentNext]_all => [~Update!isNewerVersion(running, running')]_(Update!vars)
  BY Zenon, PartSteps, UpdateNotOlder DEF AgentInv
<1> QED BY <1>1, AgentInvCorrect, PTL DEF AgentSpec, NeverOlder, Update!NeverOlder
=============================================================================
