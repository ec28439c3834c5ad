--------------------------- MODULE AgentTransport ---------------------------
(***************************************************************************)
(* The agent's WebSocket client, client/internal/transport/client.go, with *)
(* the goroutines that use it (client/cmd/agent/main.go):                  *)
(*   - Run, which dials, runs readLoop, drains sendCh and waits;           *)
(*   - writePump, one per connection, the only regular reader of sendCh;   *)
(*   - the collection loops and command goroutines, which call Send.       *)
(*                                                                         *)
(* slog is part of the model: main.go's forwardingHandler turns every      *)
(* warning logged while connected into an event_report that is itself sent *)
(* through sendCh, and Send waits for room for such a message.             *)
(***************************************************************************)
EXTENDS Naturals, Sequences

CONSTANTS
    Cap,            \* capacity of sendCh (256)
    InitialDelay,   \* of the backoff (5s)
    MaxDelay,       \* of the backoff (5min)
    Producers,      \* goroutines that send
    Kinds,          \* kinds of messages they send
    Faults          \* "write": a write may fail on a connection that can be read

ASSUME TransportAssumption == /\ Cap \in Nat \ {0}
                              /\ InitialDelay \in Nat \ {0}
                              /\ MaxDelay \in Nat /\ InitialDelay <= MaxDelay
                              /\ Kinds \subseteq {"telemetry", "plain", "critical"}
                              /\ Faults \subseteq {"write"}

VARIABLES
    buf,        \* sendCh
    conn,       \* c.conn # nil
    sock,       \* the connection itself: "none", "up", "broken"
    stop,       \* c.writeStop: "nil", "open"; "closed" is the channel being closed
    done,       \* c.writeDone is closed
    ctx,        \* the context is cancelled
    delay,      \* backoff.current
    main,       \* where Run is
    pump,       \* where writePump is; a kind: it holds a message
    watch,      \* the select of writePump was entered with a non-nil writeStop
    prod        \* where each producer is; a kind: it is about to send a message

vars == <<buf, conn, sock, stop, done, ctx, delay, main, pump, watch, prod>>

\* telemetry, process lists, NTP and network reports are dropped when busy;
\* events and results wait for room; inventories, keys, agent info and pongs
\* are dropped when the buffer is full.
AllKinds == {"telemetry", "plain", "critical"}

\* read, pong_event, error_event: in readLoop, the last two waiting in Send;
\* exit .. await: its deferred function.
MainStates == {"dial", "read", "pong_event", "error_event", "exit", "close",
               "await", "drain", "sleep", "stopped"}

TypeOK ==
    /\ buf \in Seq(AllKinds) /\ Len(buf) <= Cap
    /\ conn \in BOOLEAN
    /\ sock \in {"none", "up", "broken"}
    /\ stop \in {"nil", "open", "closed"}
    /\ done \in BOOLEAN
    /\ ctx \in BOOLEAN
    /\ delay \in InitialDelay..MaxDelay
    /\ main \in MainStates
    /\ pump \in AllKinds \cup {"none", "top", "select", "warn", "event"}
    /\ watch \in BOOLEAN
    /\ prod \in [Producers -> AllKinds \cup {"idle", "warn"}]

\* NewClient, before Run is called.
Init ==
    /\ buf = <<>>
    /\ conn = FALSE
    /\ sock = "none"
    /\ stop = "nil"
    /\ done = TRUE
    /\ ctx = FALSE
    /\ delay = InitialDelay
    /\ main = "dial"
    /\ pump = "none"
    /\ watch = FALSE
    /\ prod = [p \in Producers |-> "idle"]

Full == Len(buf) >= Cap
shouldDropWhenBusy(kind) == kind = "telemetry"
isCriticalMessage(kind) == kind = "critical"
Busy == Len(buf) >= (Cap * 3) \div 4

-----------------------------------------------------------------------------
(***************************************************************************)
(* Send, as a producer runs it                                             *)
(***************************************************************************)

\* The loops that only send while connected ask IsConnected first; the event
\* and key loops and the command goroutines do not.
StartSend(p, kind) ==
    /\ prod[p] = "idle"
    /\ kind = "telemetry" => conn
    /\ ~ctx
    /\ prod' = [prod EXCEPT ![p] = IF Busy /\ shouldDropWhenBusy(kind) THEN "warn" ELSE kind]
    /\ UNCHANGED <<buf, conn, sock, stop, done, ctx, delay, main, pump, watch>>

\* A critical message waits for room; another one is dropped with a warning.
Put(p) ==
    /\ prod[p] \in AllKinds
    /\ isCriticalMessage(prod[p]) => ~Full
    /\ IF Full
       THEN /\ prod' = [prod EXCEPT ![p] = "warn"]
            /\ UNCHANGED buf
       ELSE /\ prod' = [prod EXCEPT ![p] = "idle"]
            /\ buf' = Append(buf, prod[p])
    /\ UNCHANGED <<conn, sock, stop, done, ctx, delay, main, pump, watch>>

\* forwardingHandler: while connected the warning becomes an event.
Warn(p) ==
    /\ prod[p] = "warn"
    /\ prod' = [prod EXCEPT ![p] = IF conn THEN "critical" ELSE "idle"]
    /\ UNCHANGED <<buf, conn, sock, stop, done, ctx, delay, main, pump, watch>>

-----------------------------------------------------------------------------
(***************************************************************************)
(* Run and readLoop                                                        *)
(***************************************************************************)

\* backoff.next: the delay that follows this one.
nextDelay == IF delay * 2 > MaxDelay THEN MaxDelay ELSE delay * 2

\* Mutant: a connection keeps the channels of the one before.
ConnectKeepsChannels ==
    /\ main = "dial" /\ ~ctx
    /\ conn' = TRUE
    /\ sock' = "up"
    /\ delay' = InitialDelay
    /\ main' = "read"
    /\ pump' = "top"
    /\ UNCHANGED <<buf, stop, done, ctx, watch, prod>>

\* connect succeeds: new channels, the pump starts, the backoff is reset.
Connect ==
    /\ main = "dial" /\ ~ctx
    /\ conn' = TRUE
    /\ sock' = "up"
    /\ stop' = "open"
    /\ done' = FALSE
    /\ delay' = InitialDelay
    /\ main' = "read"
    /\ pump' = "top"
    /\ UNCHANGED <<buf, ctx, watch, prod>>

\* connect fails; its error is logged without an event, there is no connection.
ConnectFails ==
    /\ main = "dial" /\ ~ctx
    /\ delay' = nextDelay
    /\ main' = "sleep"
    /\ UNCHANGED <<buf, conn, sock, stop, done, ctx, pump, watch, prod>>

\* A server ping is answered with a plain message; without room that is a
\* warning, hence an event, for which readLoop waits.
ReadPing ==
    /\ main = "read" /\ sock = "up" /\ ~ctx
    /\ IF Full
       THEN main' = "pong_event" /\ UNCHANGED buf
       ELSE buf' = Append(buf, "plain") /\ UNCHANGED main
    /\ UNCHANGED <<conn, sock, stop, done, ctx, delay, pump, watch, prod>>

PongEvent ==
    /\ main = "pong_event" /\ ~Full
    /\ buf' = Append(buf, "critical")
    /\ main' = "read"
    /\ UNCHANGED <<conn, sock, stop, done, ctx, delay, pump, watch, prod>>

\* ReadJSON fails on a lost connection: with a warning, unless the server
\* closed it in an orderly way.
ReadFails(orderly) ==
    /\ main = "read" /\ sock = "broken"
    /\ main' = IF orderly THEN "exit" ELSE "error_event"
    /\ UNCHANGED <<buf, conn, sock, stop, done, ctx, delay, pump, watch, prod>>

ErrorEvent ==
    /\ main = "error_event" /\ ~Full
    /\ buf' = Append(buf, "critical")
    /\ main' = "exit"
    /\ UNCHANGED <<conn, sock, stop, done, ctx, delay, pump, watch, prod>>

\* The loop sees that the context is cancelled: a close frame, and out.
ReadCancelled ==
    /\ main = "read" /\ ctx
    /\ main' = "exit"
    /\ UNCHANGED <<buf, conn, sock, stop, done, ctx, delay, pump, watch, prod>>

\* The deferred function takes the connection and the stop channel away
\* under the mutex ...
Exit ==
    /\ main = "exit"
    /\ conn' = FALSE
    /\ stop' = "nil"
    /\ main' = "close"
    /\ UNCHANGED <<buf, sock, done, ctx, delay, pump, watch, prod>>

\* ... then closes both (stop = "closed" is the channel a pump may be watching,
\* the field stays nil) and waits for the pump.
Close ==
    /\ main = "close"
    /\ stop' = "closed"
    /\ sock' = "none"
    /\ main' = "await"
    /\ UNCHANGED <<buf, conn, done, ctx, delay, pump, watch, prod>>

AwaitPump ==
    /\ main = "await" /\ done
    /\ main' = "drain"
    /\ UNCHANGED <<buf, conn, sock, stop, done, ctx, delay, pump, watch, prod>>

\* drainSendCh throws away what is in the channel, one message at a time.
Drain ==
    /\ main = "drain" /\ buf # <<>>
    /\ buf' = Tail(buf)
    /\ UNCHANGED <<conn, sock, stop, done, ctx, delay, main, pump, watch, prod>>

\* Empty: Run returns if it is cancelled, and otherwise waits.
Drained ==
    /\ main = "drain" /\ buf = <<>>
    /\ IF ctx THEN main' = "stopped" /\ UNCHANGED delay
              ELSE main' = "sleep" /\ delay' = nextDelay
    /\ UNCHANGED <<buf, conn, sock, stop, done, ctx, pump, watch, prod>>

\* The wait ends, or the context.
WakeUp ==
    /\ main \in {"sleep", "dial"}
    /\ main' = IF ctx THEN "stopped" ELSE "dial"
    /\ UNCHANGED <<buf, conn, sock, stop, done, ctx, delay, pump, watch, prod>>

-----------------------------------------------------------------------------
(***************************************************************************)
(* writePump                                                               *)
(***************************************************************************)

\* Entering select evaluates the field c.writeStop, without the mutex: once
\* the deferred function has set it to nil, the pump does not see it closed.
PumpSelect ==
    /\ pump = "top"
    /\ watch' = (stop = "open")
    /\ pump' = "select"
    /\ UNCHANGED <<buf, conn, sock, stop, done, ctx, delay, main, prod>>

PumpExits == pump' = "none" /\ done' = TRUE

PumpStopped ==
    /\ pump = "select" /\ watch /\ stop = "closed"
    /\ PumpExits
    /\ UNCHANGED <<buf, conn, sock, stop, ctx, delay, main, watch, prod>>

\* What follows an attempt to write: without a connection the pump returns,
\* and after an error it warns first.  A write to a lost connection may
\* succeed, the message is gone.
Written ==
    \/ /\ ~conn
       /\ PumpExits
    \/ /\ conn
       /\ pump' = "top"
       /\ UNCHANGED done
    \/ /\ conn /\ (sock = "broken" \/ "write" \in Faults)
       /\ pump' = "warn"
       /\ UNCHANGED done

\* Mutant: no ticker, so nothing wakes a pump that does not see its stop.
PumpNoTick ==
    /\ pump = "select" /\ conn
    /\ Written
    /\ UNCHANGED <<buf, conn, sock, stop, ctx, delay, main, watch, prod>>

\* The ticker: a ping.
PumpTick ==
    /\ pump = "select"
    /\ Written
    /\ UNCHANGED <<buf, conn, sock, stop, ctx, delay, main, watch, prod>>

PumpTake ==
    /\ pump = "select" /\ buf # <<>>
    /\ pump' = Head(buf)
    /\ buf' = Tail(buf)
    /\ UNCHANGED <<conn, sock, stop, done, ctx, delay, main, watch, prod>>

PumpWrite ==
    /\ pump \in AllKinds
    /\ Written
    /\ UNCHANGED <<buf, conn, sock, stop, ctx, delay, main, watch, prod>>

\* The warning: an event if still connected.
PumpWarn ==
    /\ pump = "warn"
    /\ IF conn THEN pump' = "event" /\ UNCHANGED done ELSE PumpExits
    /\ UNCHANGED <<buf, conn, sock, stop, ctx, delay, main, watch, prod>>

\* The pump itself waits for room in the channel that only it empties.
PumpEvent ==
    /\ pump = "event" /\ ~Full
    /\ buf' = Append(buf, "critical")
    /\ PumpExits
    /\ UNCHANGED <<conn, sock, stop, ctx, delay, main, watch, prod>>

-----------------------------------------------------------------------------

\* The network, or the server, ends the connection.
Break ==
    /\ sock = "up"
    /\ sock' = "broken"
    /\ UNCHANGED <<buf, conn, stop, done, ctx, delay, main, pump, watch, prod>>

\* The agent is interrupted.
Cancel ==
    /\ ~ctx
    /\ ctx' = TRUE
    /\ UNCHANGED <<buf, conn, sock, stop, done, delay, main, pump, watch, prod>>

RunStep ==
    \/ Connect \/ ConnectFails \/ ReadPing \/ PongEvent \/ ReadCancelled
    \/ \E orderly \in BOOLEAN : ReadFails(orderly)
    \/ ErrorEvent \/ Exit \/ Close \/ AwaitPump \/ Drain \/ Drained \/ WakeUp

PumpStep ==
    PumpSelect \/ PumpStopped \/ PumpTick \/ PumpTake \/ PumpWrite \/ PumpWarn \/ PumpEvent

ProducerStep(p) == Put(p) \/ Warn(p)

Next ==
    \/ RunStep
    \/ PumpStep
    \/ \E p \in Producers : ProducerStep(p) \/ \E kind \in Kinds : StartSend(p, kind)
    \/ Break
    \/ Cancel

Spec == Init /\ [][Next]_vars

\* Goroutines are scheduled, a read of a lost connection fails, and waiting
\* senders of a channel are served in order (so a step that waits for room is
\* taken if there is room again and again).  Nothing is assumed of who sends,
\* of the network or of when dialling succeeds.
FairSpec == /\ Spec
            /\ WF_vars(RunStep)
            /\ WF_vars(\E orderly \in BOOLEAN : ReadFails(orderly))
            /\ SF_vars(PongEvent) /\ SF_vars(ErrorEvent)
            /\ WF_vars(PumpStep) /\ SF_vars(PumpEvent)
            /\ \A p \in Producers : SF_vars(ProducerStep(p))

-----------------------------------------------------------------------------
(***************************************************************************)
(* Properties                                                              *)
(***************************************************************************)

\* A pump never outlives its connection: when Run drains, waits or dials, the
\* pump of the last connection has returned, so no message is ever taken for
\* a connection by the pump of another.
OnePump == main \in {"dial", "drain", "sleep", "stopped"} => pump = "none"

\* Closing a channel twice panics.  writeDone is still open when a pump is
\* about to close it, writeStop when the deferred function is.
ChannelsClosedOnce == /\ pump # "none" => ~done
                      /\ main \in {"read", "pong_event", "error_event", "exit"} => stop = "open"

\* Run gets over a lost connection: it comes to drain sendCh, from where it
\* dials again or returns, unless sendCh stays full for ever.  Neither the
\* warnings it logs on the way nor a pump that missed its stop channel hold it
\* up.
ReconnectsUnlessFull == (sock = "broken" ~> main = "drain") \/ <>[]Full

\* What the comment of Run says: it maintains the connection until the context
\* is cancelled.
MaintainsConnection == sock = "broken" ~> (main = "drain" \/ ctx)

=============================================================================
