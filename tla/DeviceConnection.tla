-------------------------- MODULE DeviceConnection --------------------------
(***************************************************************************)
(* One device's WebSocket connection, as the API processes see it:         *)
(*   server/app/websocket/manager.py   the ConnectionManager registry      *)
(*   server/app/websocket/router.py    device_websocket, offline tasks     *)
(*   server/app/websocket/handler.py   the effect of a message on status   *)
(*   server/app/tasks/alert_tasks.py   the Celery offline sweep            *)
(*   server/app/services/device_service.py   revocation                    *)
(*                                                                         *)
(* Every dictionary involved is keyed by device_id, so one device is       *)
(* modelled.  A step is what one coroutine does between two awaits that    *)
(* really suspend it: I/O, sleep, or a lock that is taken.  No coroutine   *)
(* awaits anything while it holds _pending_lock, so nobody ever waits for  *)
(* that one; manager._lock is held across the close of an old socket.      *)
(* Workers are the API processes (docker-compose.yml starts two), each     *)
(* with its own manager and its own pending-offline dictionary.  Handlers  *)
(* and Tasks are slots for running device_websocket calls and              *)
(* _schedule_offline tasks: a finished one is reused, so that behaviours   *)
(* are infinite while the state space is finite.                           *)
(***************************************************************************)
EXTENDS Naturals, FiniteSets

CONSTANTS
    Workers,        \* API processes
    Handlers,       \* concurrent device_websocket calls
    Tasks,          \* concurrent _schedule_offline tasks
    None,           \* Python's None
    MaxAttempts,    \* the 30 of "attempts > 30"
    Env             \* which of the surrounding events an instance includes

ASSUME SlotsAssumption == None \notin Workers \cup Handlers \cup Tasks

ASSUME FlagsAssumption == /\ MaxAttempts \in Nat
                          /\ Env \subseteq {"failures", "alerts", "sweep", "revoke",
                                            "maintenance", "crash"}

\* May the database, or a message handler, raise?  May a process die?
Failures == "failures" \in Env
Crashes == "crash" \in Env

VARIABLES
    agent,          \* the handler slot the agent believes it is connected to
    pc,             \* where each device_websocket call is
    home,           \* the worker process that runs it
    open,           \* is the server's end of its socket open?
    mem,            \* device.status in its ORM session (never expired)
    attempts,       \* Redis ws_attempts:<ip>
    connections,    \* manager._connections[device_id], per worker
    lock,           \* holder of manager._lock while it awaits, per worker
    drop,           \* has a send failed whose disconnect is still to come?
    pending,        \* _pending_offline[device_id], per worker
    task,           \* where each _schedule_offline task is
    taskHome,       \* the worker whose event loop runs it
    cancelled,      \* has task.cancel() been called on it?
    status,         \* devices.status
    revoked,        \* devices.is_revoked
    maintenance,    \* devices.maintenance_mode
    lastSeenOld,    \* devices.last_seen < now - DEVICE_OFFLINE_THRESHOLD_SECONDS
    uptime,         \* what the device's uptime_events rows say (see GoOnline)
    sweep           \* is the Celery sweep between its SELECT and its commit?

connVars == <<connections, lock, drop>>
handlerVars == <<agent, pc, home, open, mem, attempts>>
taskVars == <<pending, task, taskHome, cancelled>>
rowVars == <<status, revoked, maintenance, lastSeenOld, uptime>>
vars == <<handlerVars, connVars, taskVars, rowVars, sweep>>

Statuses == {"online", "offline", "alert"}

\* The positions of device_websocket, in the order of the code.
Setup == {"announcing", "greeting", "dropping"}
Serving == Setup \cup {"receiving"}
Ending == {"cleanup", "scheduling"}
Positions == {"idle", "dialing", "accepted", "replacing", "crashed"}
                 \cup Serving \cup Ending

\* The positions at which a handler may be the one the manager holds: from
\* manager.connect to manager.disconnect, or left behind by a failed set-up.
MayBeRegistered == Serving \cup {"cleanup", "crashed"}

TaskPositions == {"free", "created", "sleeping", "writing"}
LiveTask == TaskPositions \ {"free"}

\* One type invariant for the component.
TypeOK ==
    /\ agent \in Handlers \cup {None}
    /\ pc \in [Handlers -> Positions]
    /\ home \in [Handlers -> Workers \cup {None}]
    /\ \A h \in Handlers : pc[h] # "idle" => home[h] # None
    /\ open \in [Handlers -> BOOLEAN]
    /\ mem \in [Handlers -> Statuses]
    /\ attempts \in 0..(MaxAttempts + 1)
    /\ connections \in [Workers -> Handlers \cup {None}]
    /\ lock \in [Workers -> Handlers \cup {None}]
    /\ drop \in [Workers -> BOOLEAN]
    /\ pending \in [Workers -> Tasks \cup {None}]
    /\ task \in [Tasks -> TaskPositions]
    /\ taskHome \in [Tasks -> Workers \cup {None}]
    /\ \A t \in Tasks : task[t] # "free" => taskHome[t] # None
    /\ cancelled \in [Tasks -> BOOLEAN]
    /\ status \in Statuses
    /\ revoked \in BOOLEAN
    /\ maintenance \in BOOLEAN
    /\ lastSeenOld \in BOOLEAN
    /\ uptime \in {"none", "online", "offline", "counted"}
    /\ sweep \in BOOLEAN

Init ==
    /\ agent = None
    /\ pc = [h \in Handlers |-> "idle"]
    /\ home = [h \in Handlers |-> None]
    /\ open = [h \in Handlers |-> FALSE]
    /\ mem = [h \in Handlers |-> "offline"]
    /\ attempts = 0
    /\ connections = [w \in Workers |-> None]
    /\ lock = [w \in Workers |-> None]
    /\ drop = [w \in Workers |-> FALSE]
    /\ pending = [w \in Workers |-> None]
    /\ task = [t \in Tasks |-> "free"]
    /\ taskHome = [t \in Tasks |-> None]
    /\ cancelled = [t \in Tasks |-> FALSE]
    /\ status = "offline"
    /\ revoked = FALSE
    /\ maintenance = FALSE
    /\ lastSeenOld = FALSE
    /\ uptime = "none"
    /\ sweep = FALSE

-----------------------------------------------------------------------------
(***************************************************************************)
(* manager.py                                                              *)
(***************************************************************************)

is_connected(w) == connections[w] # None

\* disconnect: pop whatever socket is registered for the device, then close
\* it.  It waits for the manager's lock.
Disconnect(w) ==
    /\ lock[w] = None
    /\ connections' = [connections EXCEPT ![w] = None]
    /\ open' = [h \in Handlers |-> open[h] /\ h # connections[w]]
    /\ UNCHANGED lock

\* send_to_device fails: the registered socket is no longer open, so the send
\* raises, and disconnect is called; by the time that call gets the lock the
\* device may have another socket.
SendFails(w) == is_connected(w) /\ ~ open[connections[w]]

-----------------------------------------------------------------------------
(***************************************************************************)
(* The agent and the network between it and the server                     *)
(***************************************************************************)

\* The agent, believing itself disconnected, dials; the proxy picks a worker.
AgentDial(h, w) ==
    /\ agent = None
    /\ pc[h] \in {"idle", "crashed"}
    /\ \A v \in Workers : connections[v] # h
    /\ agent' = h
    /\ pc' = [pc EXCEPT ![h] = "dialing"]
    /\ home' = [home EXCEPT ![h] = w]
    /\ open' = [open EXCEPT ![h] = TRUE]
    /\ UNCHANGED <<mem, attempts, connVars, taskVars, rowVars, sweep>>

\* The link fails on the agent's side; the server's end stays half open.
LinkLost ==
    /\ agent # None
    /\ agent' = None
    /\ UNCHANGED <<pc, home, open, mem, attempts, connVars, taskVars, rowVars, sweep>>

\* The server's end of an abandoned connection is reset or times out.
ServerNotices(h) ==
    /\ agent # h
    /\ open[h]
    /\ open' = [open EXCEPT ![h] = FALSE]
    /\ UNCHANGED <<agent, pc, home, mem, attempts, connVars, taskVars, rowVars, sweep>>

\* The agent's read loop sees the server's close.
AgentNotices ==
    /\ agent # None
    /\ ~ open[agent]
    /\ agent' = None
    /\ UNCHANGED <<pc, home, open, mem, attempts, connVars, taskVars, rowVars, sweep>>

-----------------------------------------------------------------------------
(***************************************************************************)
(* router.py: device_websocket                                             *)
(***************************************************************************)

\* The call returns: its session ends and the server closes the socket.
Return(h) ==
    /\ pc' = [pc EXCEPT ![h] = "idle"]
    /\ home' = [home EXCEPT ![h] = None]
    /\ open' = [open EXCEPT ![h] = FALSE]
    /\ mem' = [mem EXCEPT ![h] = "offline"]

\* Rate limit, then authentication.  (The agent dials from another host: from
\* a loopback address attempts_key is never assigned, and redis.delete raises.)
Authenticate(h) ==
    /\ pc[h] = "dialing"
    /\ LET count == IF attempts > MaxAttempts THEN attempts ELSE attempts + 1
           limited == count > MaxAttempts
       IN \/ /\ limited \/ revoked
             /\ attempts' = count
             /\ Return(h)
          \/ /\ ~ (limited \/ revoked)
             /\ attempts' = 0
             /\ pc' = [pc EXCEPT ![h] = "accepted"]
             /\ mem' = [mem EXCEPT ![h] = status]
             /\ UNCHANGED <<home, open>>
    /\ UNCHANGED <<agent, connVars, taskVars, rowVars, sweep>>

\* The Redis key ws_attempts:<ip> expires after 60 seconds.
AttemptsExpire ==
    /\ attempts > 0
    /\ attempts' = 0
    /\ UNCHANGED <<agent, pc, home, open, mem, connVars, taskVars, rowVars, sweep>>

\* manager.connect finds an old socket: it closes it, holding the lock.
CloseOld(h) ==
    LET w == home[h] IN
    /\ pc[h] = "accepted"
    /\ lock[w] = None
    /\ is_connected(w)
    /\ lock' = [lock EXCEPT ![w] = h]
    /\ open' = [open EXCEPT ![connections[w]] = FALSE]
    /\ pc' = [pc EXCEPT ![h] = "replacing"]
    /\ UNCHANGED <<agent, home, mem, attempts, connections, drop, taskVars, rowVars,
                   sweep>>

\* Mutant: the pending task is looked up and cancelled, but not popped.
InstallKeepsEntry(h) ==
    LET w == home[h] IN
    /\ \/ pc[h] = "replacing" /\ lock[w] = h
       \/ pc[h] = "accepted" /\ lock[w] = None /\ ~ is_connected(w)
    /\ connections' = [connections EXCEPT ![w] = h]
    /\ lock' = [lock EXCEPT ![w] = None]
    /\ cancelled' = [t \in Tasks |-> cancelled[t] \/ t = pending[w]]
    /\ pc' = [pc EXCEPT ![h] = "announcing"]
    /\ UNCHANGED <<agent, home, open, mem, attempts, drop, pending, task, taskHome,
                   rowVars, sweep>>

\* manager.connect installs the new socket and releases the lock; nothing
\* suspends the call before _cancel_pending_offline has popped the pending
\* task and cancelled it.
Install(h) ==
    LET w == home[h] IN
    /\ \/ pc[h] = "replacing" /\ lock[w] = h
       \/ pc[h] = "accepted" /\ lock[w] = None /\ ~ is_connected(w)
    /\ connections' = [connections EXCEPT ![w] = h]
    /\ lock' = [lock EXCEPT ![w] = None]
    /\ pending' = [pending EXCEPT ![w] = None]
    /\ cancelled' = [t \in Tasks |-> cancelled[t] \/ t = pending[w]]
    /\ pc' = [pc EXCEPT ![h] = "announcing"]
    /\ UNCHANGED <<agent, home, open, mem, attempts, drop, task, taskHome,
                   rowVars, sweep>>

\* The UPDATE to online and the uptime row, committed together.  The UPDATE
\* also synchronizes the device object of this session.  The new row's
\* duration_secs counts from the latest "offline" row, if there is any:
\* uptime is "none" without rows, "online" with online rows only, "offline"
\* when the last row is an outage, "counted" once an online row follows one.
GoOnline(h) ==
    /\ pc[h] = "announcing"
    /\ status' = "online"
    /\ lastSeenOld' = FALSE
    /\ mem' = [mem EXCEPT ![h] = "online"]
    /\ uptime' = IF uptime \in {"none", "online"} THEN "online" ELSE "counted"
    /\ pc' = [pc EXCEPT ![h] = "greeting"]
    /\ UNCHANGED <<agent, home, open, attempts, connVars, taskVars, revoked,
                   maintenance, sweep>>

\* The stored configuration and the commands still "sent" are pushed through
\* the manager, to whichever socket is registered for the device by now.
Greet(h) ==
    /\ pc[h] = "greeting"
    /\ pc' = [pc EXCEPT ![h] = IF SendFails(home[h]) THEN "dropping" ELSE "receiving"]
    /\ UNCHANGED <<agent, home, open, mem, attempts, connVars, taskVars, rowVars, sweep>>

GreetDrops(h) ==
    /\ pc[h] = "dropping"
    /\ Disconnect(home[h])
    /\ pc' = [pc EXCEPT ![h] = "receiving"]
    /\ UNCHANGED <<agent, home, mem, attempts, drop, taskVars, rowVars, sweep>>

\* An exception between accept and the try block: no finally clause runs, so
\* a registered socket stays registered.
SetupFails(h) ==
    /\ Failures
    /\ pc[h] \in {"accepted"} \cup Setup
    /\ pc' = [pc EXCEPT ![h] = "crashed"]
    /\ open' = [open EXCEPT ![h] = FALSE]
    /\ mem' = [mem EXCEPT ![h] = "offline"]
    /\ UNCHANGED <<agent, home, attempts, connVars, taskVars, rowVars, sweep>>

\* Assigning device.status emits an UPDATE only if the value differs from the
\* one this session holds; the row may have been changed by another session.
SetStatus(h, value) ==
    /\ mem' = [mem EXCEPT ![h] = value]
    /\ status' = IF mem[h] # value THEN value ELSE status

\* A telemetry message: status "online" is assigned and flushed, then the
\* evaluation of the metrics may create an alert, which assigns "alert".  (A
\* network_info or an agent_info message is one that creates no alert.)
Telemetry(h, alert) ==
    /\ alert => "alerts" \in Env
    /\ pc[h] = "receiving"
    /\ open[h]
    /\ lastSeenOld' = FALSE
    /\ IF alert
       THEN /\ mem' = [mem EXCEPT ![h] = "alert"]
            /\ status' = "alert"
       ELSE SetStatus(h, "online")
    /\ UNCHANGED <<agent, pc, home, open, attempts, connVars, taskVars, revoked,
                   maintenance, uptime, sweep>>

\* An event report or an NTP status that creates an alert.
AlertingMessage(h) ==
    /\ "alerts" \in Env
    /\ pc[h] = "receiving"
    /\ open[h]
    /\ SetStatus(h, "alert")
    /\ UNCHANGED <<agent, pc, home, open, attempts, connVars, taskVars, revoked,
                   maintenance, lastSeenOld, uptime, sweep>>

\* receive_text raises WebSocketDisconnect on a socket either side closed.
ReceiveDisconnect(h) ==
    /\ pc[h] = "receiving"
    /\ ~ open[h]
    /\ pc' = [pc EXCEPT ![h] = "cleanup"]
    /\ UNCHANGED <<agent, home, open, mem, attempts, connVars, taskVars, rowVars, sweep>>

\* The message handler raises, or the message exceeds MAX_WS_MESSAGE_BYTES.
\* The exception is caught (line 172), so get_db commits what the handler had
\* flushed: that is Telemetry or AlertingMessage, followed by this action.
ReceiveFails(h) ==
    /\ Failures
    /\ pc[h] = "receiving"
    /\ open[h]
    /\ pc' = [pc EXCEPT ![h] = "cleanup"]
    /\ UNCHANGED <<agent, home, open, mem, attempts, connVars, taskVars, rowVars, sweep>>

\* Mutant: the finally clause forgets manager.disconnect.
CleanupKeepsSocket(h) ==
    /\ pc[h] = "cleanup"
    /\ pc' = [pc EXCEPT ![h] = "scheduling"]
    /\ UNCHANGED <<agent, home, open, mem, attempts, connVars, taskVars, rowVars, sweep>>

\* finally: manager.disconnect(device_id).
CleanupDisconnect(h) ==
    /\ pc[h] = "cleanup"
    /\ Disconnect(home[h])
    /\ pc' = [pc EXCEPT ![h] = "scheduling"]
    /\ UNCHANGED <<agent, home, mem, attempts, drop, taskVars, rowVars, sweep>>

\* finally: a _schedule_offline task is created unless one is pending.
ScheduleOffline(h) ==
    LET w == home[h] IN
    /\ pc[h] = "scheduling"
    /\ IF pending[w] = None
       THEN \E t \in Tasks :
              /\ task[t] = "free"
              /\ task' = [task EXCEPT ![t] = "created"]
              /\ taskHome' = [taskHome EXCEPT ![t] = w]
              /\ pending' = [pending EXCEPT ![w] = t]
              /\ UNCHANGED cancelled
       ELSE UNCHANGED taskVars
    /\ Return(h)
    /\ UNCHANGED <<agent, attempts, connVars, rowVars, sweep>>

-----------------------------------------------------------------------------
(***************************************************************************)
(* router.py: _schedule_offline                                            *)
(***************************************************************************)

Release(t) ==
    /\ task' = [task EXCEPT ![t] = "free"]
    /\ taskHome' = [taskHome EXCEPT ![t] = None]
    /\ cancelled' = [cancelled EXCEPT ![t] = FALSE]

\* The event loop starts the task; one cancelled before that never runs its
\* body, and so not its finally clause either.
TaskStart(t) ==
    /\ task[t] = "created"
    /\ IF cancelled[t]
       THEN /\ Release(t)
            /\ UNCHANGED pending
       ELSE /\ task' = [task EXCEPT ![t] = "sleeping"]
            /\ UNCHANGED <<pending, taskHome, cancelled>>
    /\ UNCHANGED <<handlerVars, connVars, rowVars, sweep>>

\* finally: pop the device's entry, whichever task it holds, and end.
TaskEnds(t) ==
    /\ pending' = [pending EXCEPT ![taskHome[t]] = None]
    /\ Release(t)

\* After 15 seconds the task looks at its own process's manager; a cancelled
\* one goes to its finally clause.
TaskWake(t) ==
    /\ task[t] = "sleeping"
    /\ IF cancelled[t] \/ is_connected(taskHome[t])
       THEN TaskEnds(t)
       ELSE /\ task' = [task EXCEPT ![t] = "writing"]
            /\ UNCHANGED <<pending, taskHome, cancelled>>
    /\ UNCHANGED <<handlerVars, connVars, rowVars, sweep>>

\* The UPDATE to offline and its commit.  A cancellation or a database error
\* that arrives during these awaits may come too late to prevent it.
TaskWrite(t) ==
    /\ task[t] = "writing"
    /\ \/ status' = "offline"
       \/ (cancelled[t] \/ Failures) /\ UNCHANGED status
    /\ TaskEnds(t)
    /\ UNCHANGED <<handlerVars, connVars, revoked, maintenance,
                   lastSeenOld, uptime, sweep>>

-----------------------------------------------------------------------------
(***************************************************************************)
(* The Celery sweep, the REST API and time                                 *)
(***************************************************************************)

\* _check_offline_devices_async selects the device ...
SweepSelect ==
    /\ ~ sweep
    /\ status = "online" /\ lastSeenOld /\ ~ revoked /\ ~ maintenance
    /\ sweep' = TRUE
    /\ UNCHANGED <<handlerVars, connVars, taskVars, rowVars>>

\* Mutant: only the uptime row is written.
SweepCommitsRowOnly ==
    /\ sweep
    /\ sweep' = FALSE
    /\ uptime' = "offline"
    /\ UNCHANGED <<handlerVars, connVars, taskVars, status, revoked, maintenance,
                   lastSeenOld>>

\* ... and later commits status "offline" and an "offline" uptime row.
SweepCommit ==
    /\ sweep
    /\ sweep' = FALSE
    /\ status' = "offline"
    /\ uptime' = "offline"
    /\ UNCHANGED <<handlerVars, connVars, taskVars, revoked, maintenance, lastSeenOld>>

\* More than DEVICE_OFFLINE_THRESHOLD_SECONDS pass without telemetry.
LastSeenAges ==
    /\ "sweep" \in Env
    /\ ~ lastSeenOld
    /\ lastSeenOld' = TRUE
    /\ UNCHANGED <<handlerVars, connVars, taskVars, status, revoked, maintenance,
                   uptime, sweep>>

\* revoke_device: the row changes, the socket stays.
Revoke ==
    /\ "revoke" \in Env
    /\ ~ revoked
    /\ revoked' = TRUE
    /\ status' = "offline"
    /\ UNCHANGED <<handlerVars, connVars, taskVars, maintenance, lastSeenOld, uptime,
                   sweep>>

\* POST /devices/{id}/maintenance.
SetMaintenance(enabled) ==
    /\ "maintenance" \in Env
    /\ maintenance' = enabled
    /\ UNCHANGED <<handlerVars, connVars, taskVars, status, revoked, lastSeenOld,
                   uptime, sweep>>

\* POST /devices/{id}/disconnect, served by worker w.
AdminDisconnect(w) ==
    /\ is_connected(w)
    /\ Disconnect(w)
    /\ UNCHANGED <<agent, pc, home, mem, attempts, drop, taskVars, rowVars, sweep>>

\* A request served by worker w pushes a command or a configuration; only a
\* failing send changes any state here.
ApiSendFails(w) ==
    /\ ~ drop[w]
    /\ SendFails(w)
    /\ drop' = [drop EXCEPT ![w] = TRUE]
    /\ UNCHANGED <<handlerVars, connections, lock, taskVars, rowVars, sweep>>

ApiSendDrops(w) ==
    /\ drop[w]
    /\ Disconnect(w)
    /\ drop' = [drop EXCEPT ![w] = FALSE]
    /\ UNCHANGED <<agent, pc, home, mem, attempts, taskVars, rowVars, sweep>>

\* An API process dies and is started again: its calls, its tasks and its
\* dictionaries are gone, the rows are not.
WorkerCrash(w) ==
    /\ Crashes
    /\ pc' = [h \in Handlers |-> IF home[h] = w THEN "idle" ELSE pc[h]]
    /\ home' = [h \in Handlers |-> IF home[h] = w THEN None ELSE home[h]]
    /\ open' = [h \in Handlers |-> open[h] /\ home[h] # w]
    /\ mem' = [h \in Handlers |-> IF home[h] = w THEN "offline" ELSE mem[h]]
    /\ connections' = [connections EXCEPT ![w] = None]
    /\ lock' = [lock EXCEPT ![w] = None]
    /\ drop' = [drop EXCEPT ![w] = FALSE]
    /\ pending' = [pending EXCEPT ![w] = None]
    /\ task' = [t \in Tasks |-> IF taskHome[t] = w THEN "free" ELSE task[t]]
    /\ taskHome' = [t \in Tasks |-> IF taskHome[t] = w THEN None ELSE taskHome[t]]
    /\ cancelled' = [t \in Tasks |-> cancelled[t] /\ taskHome[t] # w]
    /\ UNCHANGED <<agent, attempts, rowVars, sweep>>

-----------------------------------------------------------------------------

HandlerStep(h) ==
    \/ Authenticate(h)
    \/ CloseOld(h)
    \/ Install(h)
    \/ GoOnline(h)
    \/ Greet(h)
    \/ GreetDrops(h)
    \/ ReceiveDisconnect(h)
    \/ CleanupDisconnect(h)
    \/ ScheduleOffline(h)

TaskStep(t) ==
    \/ TaskStart(t)
    \/ TaskWake(t)
    \/ TaskWrite(t)

Sweep == SweepSelect \/ SweepCommit

Next ==
    \/ \E h \in Handlers, w \in Workers : AgentDial(h, w)
    \/ LinkLost
    \/ AgentNotices
    \/ \E h \in Handlers : \/ ServerNotices(h)
                           \/ HandlerStep(h)
                           \/ SetupFails(h)
                           \/ \E alert \in BOOLEAN : Telemetry(h, alert)
                           \/ AlertingMessage(h)
                           \/ ReceiveFails(h)
    \/ \E t \in Tasks : TaskStep(t)
    \/ AttemptsExpire
    \/ Sweep
    \/ LastSeenAges
    \/ Revoke
    \/ \E enabled \in BOOLEAN : SetMaintenance(enabled)
    \/ \E w \in Workers : \/ AdminDisconnect(w)
                          \/ ApiSendFails(w)
                          \/ ApiSendDrops(w)
                          \/ WorkerCrash(w)

Spec == Init /\ [][Next]_vars

\* The event loop runs every ready coroutine and asyncio.Lock serves those who
\* wait for it in order (hence the strong fairness), keepalive pings end
\* half-open sockets and beat starts the sweep every minute.  Nothing is
\* assumed of the agent, of the administrators or of the network.
Fairness ==
    /\ \A h \in Handlers : SF_vars(HandlerStep(h)) /\ WF_vars(ServerNotices(h))
    /\ \A t \in Tasks : WF_vars(TaskStep(t))
    /\ \A w \in Workers : SF_vars(ApiSendDrops(w))
    /\ WF_vars(Sweep)

FairSpec == Spec /\ Fairness

-----------------------------------------------------------------------------
(***************************************************************************)
(* Properties                                                              *)
(***************************************************************************)

\* The socket a manager holds for the device belongs to a device_websocket
\* call of its own process that is still running, and whose finally clause is
\* still to come; only a call whose set-up raised (router.py lines 100-152,
\* outside the try block) can leave its socket behind.
NoOrphanedSocket ==
    \A w \in Workers : \A h \in Handlers :
        connections[w] = h => /\ home[h] = w
                              /\ pc[h] \in MayBeRegistered

\* The entry of _pending_offline, which keeps device_websocket's finally
\* clause from creating another task, is always a task of that process that
\* is still going to run and that nobody has cancelled: a finished task left
\* in the dictionary would keep the device from ever going offline.
PendingTaskLive ==
    \A w \in Workers : \A t \in Tasks :
        pending[w] = t => /\ task[t] \in LiveTask
                          /\ ~ cancelled[t]
                          /\ taskHome[t] = w

\* manager._lock is held across an await only by a running connect() of the
\* same process, so a disconnect() waiting for it is waiting for that call.
LockHolderConnecting ==
    \A w \in Workers : \A h \in Handlers :
        lock[w] = h => home[h] = w /\ pc[h] = "replacing"

\* A device shown as online or alert has somebody left who will correct that:
\* a connection being served or torn down, or an offline task that has not
\* been cancelled.  The cancel after connect() and the "not in
\* _pending_offline" test in the finally clause never lose the last offline
\* task between them.  (Of instances without failures and crashes.)
OfflineWriteAhead ==
    status # "offline" =>
        \/ \E h \in Handlers : pc[h] \in Serving \cup Ending
        \/ \E t \in Tasks : /\ task[t] \in {"created", "sleeping", "writing"}
                            /\ ~ cancelled[t]

\* Once no connection is being set up, served or torn down any more, the
\* device is shown as offline for good.
DisconnectedGoesOffline ==
    <>[](\A h \in Handlers : pc[h] \in {"idle", "dialing"})
        => <>[](status = "offline")

\* A device that stays silent is shown as offline by the Celery sweep, even if
\* the process that served it died: check_offline_devices needs neither the
\* manager nor the offline tasks.  It does not look at devices in alert.
SilentDeviceGoesOffline ==
    <>[](lastSeenOld /\ ~ revoked /\ ~ maintenance /\ status # "alert")
        => <>[](status = "offline")

\* A device that is gone is shown as offline for good, by its task or the sweep.
GoesOffline == DisconnectedGoesOffline /\ SilentDeviceGoesOffline

\* What the comment in connect() says: of two connections of one device the
\* old one is disconnected.  So the clean-up of a call drops its own socket.
CleanupDropsOwnSocket ==
    [][\A h \in Handlers :
          CleanupDisconnect(h) => connections[home[h]] \in {h, None}]_vars

=============================================================================
