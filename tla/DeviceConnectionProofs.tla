----------------------- MODULE DeviceConnectionProofs -----------------------
(***************************************************************************)
(* Proofs about DeviceConnection for any number of API processes, calls    *)
(* and offline tasks, any rate limit and any environment.                  *)
(***************************************************************************)
EXTENDS DeviceConnection, TLAPS

\* Every step of every coroutine, task, sweep and request keeps the types.
LEMMA TypeStep == TypeOK /\ [Next]_vars => TypeOK'
<1> SUFFICES ASSUME TypeOK, [Next]_vars PROVE TypeOK'
    BY Zenon
<1> USE SlotsAssumption, FlagsAssumption
<1>1. ASSUME NEW h \in Handlers, NEW w \in Workers, AgentDial(h, w) PROVE TypeOK'
    BY <1>1 DEF AgentDial, TypeOK, Positions, Serving, Setup, Ending, vars, connVars,
                taskVars, rowVars
<1>2. CASE LinkLost
    BY Zenon, <1>2 DEF LinkLost, TypeOK, connVars, taskVars, rowVars
<1>3. CASE AgentNotices
    BY Zenon, <1>3 DEF AgentNotices, TypeOK, connVars, taskVars, rowVars
<1>4. ASSUME NEW h \in Handlers, ServerNotices(h) PROVE TypeOK'
    BY ZenonT(30), <1>4 DEF ServerNotices, TypeOK, connVars, taskVars, rowVars
<1>5. ASSUME NEW h \in Handlers, HandlerStep(h) PROVE TypeOK'
  <2>1. CASE Authenticate(h)
    <3> DEFINE count == IF attempts > MaxAttempts THEN attempts ELSE attempts + 1
    <3>1. count \in 0..(MaxAttempts + 1)
      BY DEF TypeOK
    <3> HIDE DEF count
    <3>2. CASE Return(h) /\ attempts' = count
      BY <2>1, <3>1, <3>2 DEF Authenticate, Return, TypeOK, Positions, Statuses, connVars,
                              taskVars, rowVars
    <3>3. CASE /\ attempts' = 0
               /\ pc' = [pc EXCEPT ![h] = "accepted"]
               /\ mem' = [mem EXCEPT ![h] = status]
               /\ UNCHANGED <<home, open>>
      BY <2>1, <3>3 DEF Authenticate, TypeOK, Positions, connVars, taskVars, rowVars
    <3> QED
      BY Zenon, <2>1, <3>2, <3>3 DEF Authenticate, count
  <2>2. CASE CloseOld(h)
    BY <2>2 DEF CloseOld, is_connected, TypeOK, Positions, connVars, taskVars, rowVars
  <2>3. CASE Install(h)
    BY <2>3 DEF Install, is_connected, TypeOK, Positions, Serving, Setup, rowVars
  <2>4. CASE GoOnline(h)
    BY ZenonT(30), <2>4 DEF GoOnline, TypeOK, Positions, Serving, Setup, Statuses, connVars, taskVars
  <2>5. CASE Greet(h)
    BY <2>5 DEF Greet, TypeOK, Positions, Serving, Setup, connVars, taskVars, rowVars
  <2>6. CASE GreetDrops(h)
    BY <2>6 DEF GreetDrops, Disconnect, TypeOK, Positions, Serving, Setup, taskVars, rowVars
  <2>7. CASE ReceiveDisconnect(h)
    BY ZenonT(30), <2>7 DEF ReceiveDisconnect, TypeOK, Positions, Ending, connVars, taskVars, rowVars
  <2>8. CASE CleanupDisconnect(h)
    BY <2>8 DEF CleanupDisconnect, Disconnect, TypeOK, Positions, Ending, taskVars, rowVars
  <2>9. CASE ScheduleOffline(h)
    BY <2>9 DEF ScheduleOffline, Return, TypeOK, Positions, Statuses, TaskPositions,
                connVars, taskVars, rowVars
  <2> QED
    BY Zenon, <1>5, <2>1, <2>2, <2>3, <2>4, <2>5, <2>6, <2>7, <2>8, <2>9 DEF HandlerStep
<1>6. ASSUME NEW h \in Handlers, SetupFails(h) PROVE TypeOK'
    BY <1>6 DEF SetupFails, TypeOK, Positions, Setup, Statuses, connVars, taskVars, rowVars
<1>7. ASSUME NEW h \in Handlers, NEW alert \in BOOLEAN, Telemetry(h, alert) PROVE TypeOK'
  <2>1. CASE alert
    BY ZenonT(30), <1>7, <2>1 DEF Telemetry, TypeOK, Statuses, connVars, taskVars
  <2>2. CASE ~ alert
    <3>1. /\ lastSeenOld' = FALSE
          /\ SetStatus(h, "online")
          /\ UNCHANGED <<agent, pc, home, open, attempts, connVars, taskVars, revoked,
                         maintenance, uptime, sweep>>
      BY <1>7, <2>2, Zenon DEF Telemetry
    <3> QED
      BY Zenon, <3>1 DEF SetStatus, TypeOK, Statuses, connVars, taskVars
  <2> QED
    BY Zenon, <2>1, <2>2
<1>8. ASSUME NEW h \in Handlers, AlertingMessage(h) PROVE TypeOK'
    BY ZenonT(30), <1>8 DEF AlertingMessage, SetStatus, TypeOK, Statuses, connVars, taskVars
<1>9. ASSUME NEW h \in Handlers, ReceiveFails(h) PROVE TypeOK'
    BY <1>9 DEF ReceiveFails, TypeOK, Positions, Ending, connVars, taskVars, rowVars
<1>10. ASSUME NEW t \in Tasks, TaskStep(t) PROVE TypeOK'
  <2>1. CASE TaskStart(t)
    <3>1. CASE Release(t) /\ UNCHANGED pending
      BY <2>1, <3>1 DEF TaskStart, Release, TypeOK, TaskPositions, handlerVars, connVars,
                        rowVars
    <3>2. CASE /\ task' = [task EXCEPT ![t] = "sleeping"]
               /\ UNCHANGED <<pending, taskHome, cancelled>>
      BY <2>1, <3>2 DEF TaskStart, TypeOK, TaskPositions, handlerVars, connVars, rowVars
    <3> QED
      BY Zenon, <2>1, <3>1, <3>2 DEF TaskStart
  <2>2. CASE TaskWake(t)
    <3>1. CASE TaskEnds(t)
      BY <2>2, <3>1 DEF TaskWake, TaskEnds, Release, TypeOK, TaskPositions, handlerVars,
                        connVars, rowVars
    <3>2. CASE /\ task' = [task EXCEPT ![t] = "writing"]
               /\ UNCHANGED <<pending, taskHome, cancelled>>
      BY <2>2, <3>2 DEF TaskWake, TypeOK, TaskPositions, handlerVars, connVars, rowVars
    <3> QED
      BY Zenon, <2>2, <3>1, <3>2 DEF TaskWake
  <2>3. CASE TaskWrite(t)
    BY <2>3 DEF TaskWrite, TaskEnds, Release, TypeOK, TaskPositions, Statuses, handlerVars,
                connVars
  <2> QED
    BY Zenon, <1>10, <2>1, <2>2, <2>3 DEF TaskStep
<1>11. CASE AttemptsExpire
    BY <1>11 DEF AttemptsExpire, TypeOK, connVars, taskVars, rowVars
<1>12. CASE Sweep
  <2>1. CASE SweepSelect
    BY Zenon, <2>1 DEF SweepSelect, TypeOK, handlerVars, connVars, taskVars, rowVars
  <2>2. CASE SweepCommit
    BY Zenon, <2>2 DEF SweepCommit, TypeOK, Statuses, handlerVars, connVars, taskVars
  <2> QED
    BY Zenon, <1>12, <2>1, <2>2 DEF Sweep
<1>13. CASE LastSeenAges
    BY Zenon, <1>13 DEF LastSeenAges, TypeOK, handlerVars, connVars, taskVars
<1>14. CASE Revoke
    BY Zenon, <1>14 DEF Revoke, TypeOK, Statuses, handlerVars, connVars, taskVars
<1>15. ASSUME NEW enabled \in BOOLEAN, SetMaintenance(enabled) PROVE TypeOK'
    BY ZenonT(30), <1>15 DEF SetMaintenance, TypeOK, handlerVars, connVars, taskVars
<1>16. ASSUME NEW w \in Workers, AdminDisconnect(w) PROVE TypeOK'
    BY ZenonT(30), <1>16 DEF AdminDisconnect, Disconnect, TypeOK, taskVars, rowVars
<1>17. ASSUME NEW w \in Workers, ApiSendFails(w) PROVE TypeOK'
    BY ZenonT(30), <1>17 DEF ApiSendFails, TypeOK, handlerVars, taskVars, rowVars
<1>18. ASSUME NEW w \in Workers, ApiSendDrops(w) PROVE TypeOK'
    BY Zenon, <1>18 DEF ApiSendDrops, Disconnect, TypeOK, taskVars, rowVars
<1>19. ASSUME NEW w \in Workers, WorkerCrash(w) PROVE TypeOK'
    BY <1>19 DEF WorkerCrash, TypeOK, Positions, Statuses, TaskPositions, rowVars
<1>20. CASE UNCHANGED vars
    BY ZenonT(30), <1>20 DEF vars, TypeOK, handlerVars, connVars, taskVars, rowVars
<1> QED
    BY Zenon, <1>1, <1>2, <1>3, <1>4, <1>5, <1>6, <1>7, <1>8, <1>9, <1>10, <1>11, <1>12, <1>13,
       <1>14, <1>15, <1>16, <1>17, <1>18, <1>19, <1>20 DEF Next

\* Type correctness of the connection model.
THEOREM TypeCorrect == Spec => []TypeOK
<1>1. Init => TypeOK
  <2> SUFFICES ASSUME Init PROVE TypeOK
    BY Zenon
  <2>1. attempts \in 0..(MaxAttempts + 1)
    BY FlagsAssumption DEF Init
  <2> QED
    BY Zenon, <2>1 DEF Init, TypeOK, Positions, Statuses, TaskPositions
<1> QED
    BY <1>1, TypeStep, PTL DEF Spec

-----------------------------------------------------------------------------
(***************************************************************************)
(* The registry.  connect() and disconnect() are called with the device's  *)
(* id only, so the argument is about which call can still be the one that  *)
(* the entry belongs to.                                                   *)
(***************************************************************************)

\* Popping an entry takes nothing away from the invariant.
LEMMA DisconnectKeepsRegistry ==
    ASSUME TypeOK, NoOrphanedSocket, NEW w \in Workers, Disconnect(w),
           NEW v \in Workers, NEW h \in Handlers, connections'[v] = h
    PROVE  v # w /\ connections[v] = h /\ home[h] = v /\ pc[h] \in MayBeRegistered
BY SlotsAssumption DEF Disconnect, TypeOK, NoOrphanedSocket

\* No step leaves a registered socket without a call that will remove it.
LEMMA RegistryStep == TypeOK /\ NoOrphanedSocket /\ [Next]_vars => NoOrphanedSocket'
<1> SUFFICES ASSUME TypeOK, NoOrphanedSocket, [Next]_vars,
                    NEW v \in Workers, NEW g \in Handlers, connections'[v] = g
             PROVE  home'[g] = v /\ pc'[g] \in MayBeRegistered
    BY Zenon DEF NoOrphanedSocket
<1> USE SlotsAssumption DEF TypeOK, NoOrphanedSocket
<1> USE DEF MayBeRegistered, Serving, Setup
<1>1. ASSUME NEW h \in Handlers, NEW w \in Workers, AgentDial(h, w)
      PROVE  home'[g] = v /\ pc'[g] \in MayBeRegistered
    BY Zenon, <1>1 DEF AgentDial, connVars
<1>2. ASSUME NEW h \in Handlers, HandlerStep(h)
      PROVE  home'[g] = v /\ pc'[g] \in MayBeRegistered
  <2>1. CASE Authenticate(h)
    BY <2>1 DEF Authenticate, Return, connVars
  <2>2. CASE CloseOld(h)
    BY ZenonT(30), <2>2 DEF CloseOld
  <2>3. CASE Install(h)
    BY SMTT(30), <2>3 DEF Install
  <2>4. CASE GoOnline(h)
    BY Zenon, <2>4 DEF GoOnline, connVars
  <2>5. CASE Greet(h)
    BY Zenon, <2>5 DEF Greet, connVars
  <2>6. CASE GreetDrops(h)
    <3>1. home[h] \in Workers
      BY SMTT(30), <2>6 DEF GreetDrops
    <3> QED
      BY SMTT(30), <2>6, <3>1, DisconnectKeepsRegistry DEF GreetDrops
  <2>7. CASE ReceiveDisconnect(h)
    BY ZenonT(30), <2>7 DEF ReceiveDisconnect, connVars
  <2>8. CASE CleanupDisconnect(h)
    <3>1. home[h] \in Workers
      BY SMTT(30), <2>8 DEF CleanupDisconnect
    <3> QED
      BY SMTT(30), <2>8, <3>1, DisconnectKeepsRegistry DEF CleanupDisconnect
  <2>9. CASE ScheduleOffline(h)
    BY Zenon, <2>9 DEF ScheduleOffline, Return, connVars
  <2> QED
    BY Zenon, <1>2, <2>1, <2>2, <2>3, <2>4, <2>5, <2>6, <2>7, <2>8, <2>9 DEF HandlerStep
<1>3. ASSUME NEW h \in Handlers, SetupFails(h) \/ ReceiveFails(h)
      PROVE  home'[g] = v /\ pc'[g] \in MayBeRegistered
    BY SMTT(30), <1>3 DEF SetupFails, ReceiveFails, connVars
<1>4. ASSUME NEW w \in Workers, AdminDisconnect(w)
      PROVE  home'[g] = v /\ pc'[g] \in MayBeRegistered
    BY SMTT(30), <1>4, DisconnectKeepsRegistry DEF AdminDisconnect
<1>5. ASSUME NEW w \in Workers, ApiSendDrops(w)
      PROVE  home'[g] = v /\ pc'[g] \in MayBeRegistered
    BY SMTT(30), <1>5, DisconnectKeepsRegistry DEF ApiSendDrops
<1>6. ASSUME NEW w \in Workers, WorkerCrash(w)
      PROVE  home'[g] = v /\ pc'[g] \in MayBeRegistered
    BY <1>6 DEF WorkerCrash
<1>7. CASE UNCHANGED <<connections, home, pc>>
    BY Zenon, <1>7
<1>8. ASSUME NEW h \in Handlers,
             ServerNotices(h) \/ AlertingMessage(h) \/ \E alert \in BOOLEAN : Telemetry(h, alert)
      PROVE  UNCHANGED <<connections, home, pc>>
    BY <1>8, Zenon DEF ServerNotices, AlertingMessage, Telemetry, connVars
<1>9. ASSUME LinkLost \/ AgentNotices \/ AttemptsExpire
      PROVE  UNCHANGED <<connections, home, pc>>
    BY <1>9, Zenon DEF LinkLost, AgentNotices, AttemptsExpire, connVars
<1>10. ASSUME \/ \E t \in Tasks : TaskStep(t)
              \/ Sweep \/ LastSeenAges \/ Revoke
              \/ \E enabled \in BOOLEAN : SetMaintenance(enabled)
              \/ \E w \in Workers : ApiSendFails(w)
              \/ UNCHANGED vars
       PROVE  UNCHANGED <<connections, home, pc>>
    BY <1>10, Zenon DEF TaskStep, TaskStart, TaskWake, TaskWrite, Sweep, SweepSelect,
        SweepCommit, LastSeenAges, Revoke, SetMaintenance, ApiSendFails, vars, connVars,
        handlerVars
<1> QED
    BY <1>1, <1>2, <1>3, <1>4, <1>5, <1>6, <1>7, <1>8, <1>9, <1>10 DEF Next

\* The manager never holds the socket of a call that has returned.
THEOREM RegistryCorrect == Spec => []NoOrphanedSocket
<1>1. Init => NoOrphanedSocket
    BY SMTT(30), SlotsAssumption DEF Init, NoOrphanedSocket
<1> QED
    BY <1>1, TypeCorrect, RegistryStep, PTL DEF Spec

-----------------------------------------------------------------------------
(***************************************************************************)
(* The offline tasks and the lock                                          *)
(***************************************************************************)

\* PendingTaskLive alone is not inductive: the task that ScheduleOffline
\* creates must not have been cancelled before it exists.
OnlyLiveCancelled == \A t \in Tasks : cancelled[t] => task[t] \in LiveTask

TaskInv == PendingTaskLive /\ OnlyLiveCancelled

\* A task that is not the pending one of any process may end, and one that
\* is takes its entry with it: whatever it pops, the other entries stay live.
LEMMA TaskEndsKeepsPending ==
    ASSUME TypeOK, TaskInv, NEW t \in Tasks, TaskEnds(t), task[t] # "free"
    PROVE  TaskInv'
BY SlotsAssumption DEF TaskEnds, Release, TypeOK, TaskInv, PendingTaskLive,
    OnlyLiveCancelled, LiveTask, TaskPositions

\* No step leaves a finished or cancelled task in _pending_offline.
LEMMA PendingStep == TypeOK /\ TaskInv /\ [Next]_vars => TaskInv'
<1> SUFFICES ASSUME TypeOK, TaskInv, [Next]_vars PROVE TaskInv'
    BY Zenon
<1> USE SlotsAssumption
<1>1. ASSUME NEW h \in Handlers, Install(h) PROVE TaskInv'
    BY SMTT(30), <1>1 DEF Install, TypeOK, TaskInv, PendingTaskLive, OnlyLiveCancelled
<1>2. ASSUME NEW h \in Handlers, ScheduleOffline(h) PROVE TaskInv'
  <2>1. CASE UNCHANGED taskVars
    BY Zenon, <2>1 DEF taskVars, TaskInv, PendingTaskLive, OnlyLiveCancelled
  <2>2. ASSUME NEW t \in Tasks, task[t] = "free",
               task' = [task EXCEPT ![t] = "created"],
               taskHome' = [taskHome EXCEPT ![t] = home[h]],
               pending' = [pending EXCEPT ![home[h]] = t],
               UNCHANGED cancelled
        PROVE  TaskInv'
    BY <2>2 DEF TypeOK, TaskInv, PendingTaskLive, OnlyLiveCancelled, LiveTask, TaskPositions
  <2> QED
    BY Zenon, <1>2, <2>1, <2>2 DEF ScheduleOffline
<1>3. ASSUME NEW t \in Tasks, TaskStep(t) PROVE TaskInv'
  <2>1. CASE TaskStart(t)
    <3>1. CASE cancelled[t]
      BY SMTT(30), <2>1, <3>1 DEF TaskStart, Release, TypeOK, TaskInv, PendingTaskLive,
                        OnlyLiveCancelled
    <3>2. CASE ~ cancelled[t]
      BY SMTT(30), <2>1, <3>2 DEF TaskStart, TypeOK, TaskInv, PendingTaskLive,
                        OnlyLiveCancelled, LiveTask, TaskPositions
    <3> QED
      BY Zenon, <3>1, <3>2
  <2>2. CASE TaskWake(t)
    <3>1. CASE TaskEnds(t)
      BY Zenon, <2>2, <3>1, TaskEndsKeepsPending DEF TaskWake
    <3>2. CASE /\ task' = [task EXCEPT ![t] = "writing"]
               /\ UNCHANGED <<pending, taskHome, cancelled>>
      BY <3>2 DEF TypeOK, TaskInv, PendingTaskLive, OnlyLiveCancelled, LiveTask, TaskPositions
    <3> QED
      BY Zenon, <2>2, <3>1, <3>2 DEF TaskWake
  <2>3. CASE TaskWrite(t)
    BY Zenon, <2>3, TaskEndsKeepsPending DEF TaskWrite
  <2> QED
    BY Zenon, <1>3, <2>1, <2>2, <2>3 DEF TaskStep
<1>4. ASSUME NEW w \in Workers, WorkerCrash(w) PROVE TaskInv'
  <2>1. ASSUME NEW t \in Tasks, taskHome[t] # w
        PROVE  task'[t] = task[t] /\ taskHome'[t] = taskHome[t] /\ cancelled'[t] = cancelled[t]
    BY Zenon, <1>4, <2>1 DEF WorkerCrash, TypeOK
  <2>2. ASSUME NEW t \in Tasks, taskHome[t] = w PROVE ~ cancelled'[t]
    BY ZenonT(30), <1>4, <2>2 DEF WorkerCrash
  <2>3. \A v \in Workers : pending'[v] = IF v = w THEN None ELSE pending[v]
    BY Zenon, <1>4 DEF WorkerCrash, TypeOK
  <2>4. PendingTaskLive'
    BY <2>1, <2>3 DEF TaskInv, PendingTaskLive
  <2>5. OnlyLiveCancelled'
    BY Zenon, <2>1, <2>2 DEF TaskInv, OnlyLiveCancelled
  <2> QED
    BY Zenon, <2>4, <2>5 DEF TaskInv
<1>5. CASE UNCHANGED taskVars
    BY Zenon, <1>5 DEF taskVars, TaskInv, PendingTaskLive, OnlyLiveCancelled
<1>6. ASSUME NEW h \in Handlers,
             \/ \E w \in Workers : AgentDial(h, w)
             \/ ServerNotices(h) \/ SetupFails(h) \/ AlertingMessage(h) \/ ReceiveFails(h)
             \/ \E alert \in BOOLEAN : Telemetry(h, alert)
             \/ Authenticate(h) \/ CloseOld(h) \/ GoOnline(h) \/ Greet(h) \/ GreetDrops(h)
             \/ ReceiveDisconnect(h) \/ CleanupDisconnect(h)
      PROVE  UNCHANGED taskVars
    BY <1>6, Zenon DEF AgentDial, ServerNotices, SetupFails, AlertingMessage, ReceiveFails,
        Telemetry, Authenticate, CloseOld, GoOnline, Greet, GreetDrops, ReceiveDisconnect,
        CleanupDisconnect
<1>7. ASSUME \/ LinkLost \/ AgentNotices \/ AttemptsExpire
             \/ Sweep \/ LastSeenAges \/ Revoke
             \/ \E enabled \in BOOLEAN : SetMaintenance(enabled)
             \/ \E w \in Workers : AdminDisconnect(w) \/ ApiSendFails(w) \/ ApiSendDrops(w)
             \/ UNCHANGED vars
      PROVE  UNCHANGED taskVars
    BY <1>7, Zenon DEF LinkLost, AgentNotices, AttemptsExpire, Sweep, SweepSelect,
        SweepCommit, LastSeenAges, Revoke, SetMaintenance, AdminDisconnect, ApiSendFails,
        ApiSendDrops, vars
<1> QED
    BY Zenon, <1>1, <1>2, <1>3, <1>4, <1>5, <1>6, <1>7 DEF Next, HandlerStep

\* An entry of _pending_offline is always a task that is still going to run.
THEOREM PendingCorrect == Spec => []PendingTaskLive
<1>1. Init => TaskInv
    BY SlotsAssumption DEF Init, TaskInv, PendingTaskLive, OnlyLiveCancelled
<1>2. TaskInv => PendingTaskLive
    BY Zenon DEF TaskInv
<1> QED
    BY <1>1, <1>2, TypeCorrect, PendingStep, PTL DEF Spec

\* No step lets go of the place at which the lock is held.
LEMMA LockStep == TypeOK /\ LockHolderConnecting /\ [Next]_vars => LockHolderConnecting'
<1> SUFFICES ASSUME TypeOK, LockHolderConnecting, [Next]_vars,
                    NEW v \in Workers, NEW g \in Handlers, lock'[v] = g
             PROVE  home'[g] = v /\ pc'[g] = "replacing"
    BY ZenonT(30) DEF LockHolderConnecting
<1> USE SlotsAssumption DEF TypeOK, LockHolderConnecting
<1>1. ASSUME NEW h \in Handlers, HandlerStep(h)
      PROVE  home'[g] = v /\ pc'[g] = "replacing"
  <2>1. CASE Authenticate(h)
    BY SMTT(30), <2>1 DEF Authenticate, Return, connVars
  <2>2. CASE CloseOld(h)
    BY SMTT(30), <2>2 DEF CloseOld
  <2>3. CASE Install(h)
    BY SMTT(30), <2>3 DEF Install
  <2>4. CASE GoOnline(h) \/ Greet(h) \/ ReceiveDisconnect(h)
    BY SMTT(30), <2>4 DEF GoOnline, Greet, ReceiveDisconnect, connVars
  <2>5. CASE GreetDrops(h) \/ CleanupDisconnect(h)
    BY SMTT(30), <2>5 DEF GreetDrops, CleanupDisconnect, Disconnect
  <2>6. CASE ScheduleOffline(h)
    BY Zenon, <2>6 DEF ScheduleOffline, Return, connVars
  <2> QED
    BY Zenon, <1>1, <2>1, <2>2, <2>3, <2>4, <2>5, <2>6 DEF HandlerStep
<1>2. ASSUME NEW h \in Handlers,
             \/ \E w \in Workers : AgentDial(h, w)
             \/ SetupFails(h) \/ ReceiveFails(h)
      PROVE  home'[g] = v /\ pc'[g] = "replacing"
    BY SMTT(30), <1>2 DEF AgentDial, SetupFails, Setup, ReceiveFails, connVars
<1>3. ASSUME NEW w \in Workers, WorkerCrash(w)
      PROVE  home'[g] = v /\ pc'[g] = "replacing"
    BY SMTT(30), <1>3 DEF WorkerCrash
<1>4. CASE UNCHANGED <<lock, home, pc>>
    BY Zenon, <1>4
<1>5. ASSUME NEW h \in Handlers,
             ServerNotices(h) \/ AlertingMessage(h) \/ \E alert \in BOOLEAN : Telemetry(h, alert)
      PROVE  UNCHANGED <<lock, home, pc>>
    BY <1>5, Zenon DEF ServerNotices, AlertingMessage, Telemetry, connVars
<1>6. ASSUME LinkLost \/ AgentNotices \/ AttemptsExpire
      PROVE  UNCHANGED <<lock, home, pc>>
    BY <1>6, Zenon DEF LinkLost, AgentNotices, AttemptsExpire, connVars
<1>7. ASSUME \/ \E t \in Tasks : TaskStep(t)
             \/ Sweep \/ LastSeenAges \/ Revoke
             \/ \E enabled \in BOOLEAN : SetMaintenance(enabled)
             \/ \E w \in Workers : AdminDisconnect(w) \/ ApiSendFails(w) \/ ApiSendDrops(w)
             \/ UNCHANGED vars
      PROVE  UNCHANGED <<lock, home, pc>>
    BY <1>7, Zenon DEF TaskStep, TaskStart, TaskWake, TaskWrite, Sweep, SweepSelect,
        SweepCommit, LastSeenAges, Revoke, SetMaintenance, AdminDisconnect, ApiSendFails,
        ApiSendDrops, Disconnect, vars, connVars, handlerVars
<1> QED
    BY SMTT(30), <1>1, <1>2, <1>3, <1>4, <1>5, <1>6, <1>7 DEF Next

\* Whoever waits for the manager's lock waits for a connect() that is closing
\* the old socket, and for nothing else.
THEOREM LockCorrect == Spec => []LockHolderConnecting
<1>1. Init => LockHolderConnecting
    BY SMTT(30), SlotsAssumption DEF Init, LockHolderConnecting
<1> QED
    BY <1>1, TypeCorrect, LockStep, PTL DEF Spec

-----------------------------------------------------------------------------
(***************************************************************************)
(* A device shown as online is never forgotten, as long as no set-up       *)
(* raises and no process dies.                                             *)
(***************************************************************************)

\* Somebody is left who will write "offline": a call, or an offline task.
Serves(h) == pc[h] \in Serving \cup Ending
WillWrite(t) == task[t] \in {"created", "sleeping", "writing"} /\ ~ cancelled[t]
NoneCrashed == \A h \in Handlers : pc[h] # "crashed"
WriteAheadInv == OfflineWriteAhead /\ NoneCrashed

\* Without failures and crashes, no step takes the last one away while the
\* device is shown as online or alert.
LEMMA WriteAheadStep ==
    ASSUME ~ Failures, ~ Crashes,
           TypeOK, NoOrphanedSocket, TaskInv, WriteAheadInv, [Next]_vars
    PROVE  WriteAheadInv'
<1> USE SlotsAssumption
<1>1. ASSUME NEW h \in Handlers, Serves(h)', NoneCrashed' PROVE WriteAheadInv'
    BY Zenon, <1>1 DEF WriteAheadInv, OfflineWriteAhead, Serves
<1>2. ASSUME NEW t \in Tasks, WillWrite(t)', NoneCrashed' PROVE WriteAheadInv'
    BY Zenon, <1>2 DEF WriteAheadInv, OfflineWriteAhead, WillWrite
<1>3. ASSUME status' = "offline", NoneCrashed' PROVE WriteAheadInv'
    BY Zenon, <1>3 DEF WriteAheadInv, OfflineWriteAhead
<1>4. ASSUME UNCHANGED status, NoneCrashed',
             \A h \in Handlers : Serves(h) => Serves(h)',
             \A t \in Tasks : WillWrite(t) => WillWrite(t)'
      PROVE  WriteAheadInv'
    BY Zenon, <1>1, <1>2, <1>3, <1>4 DEF WriteAheadInv, OfflineWriteAhead, Serves, WillWrite
<1>5. ASSUME NEW h \in Handlers, HandlerStep(h) PROVE WriteAheadInv'
  <2>1. CASE Authenticate(h)
    <3>1. NoneCrashed'
      BY SMTT(30), <2>1 DEF Authenticate, Return, TypeOK, WriteAheadInv, NoneCrashed
    <3>2. ASSUME NEW g \in Handlers, Serves(g) PROVE Serves(g)'
      BY SMTT(30), <2>1, <3>2 DEF Authenticate, Return, Serves, Serving, Setup, Ending, TypeOK
    <3>3. ASSUME NEW t \in Tasks, WillWrite(t) PROVE WillWrite(t)'
      BY Zenon, <2>1, <3>3 DEF Authenticate, taskVars, WillWrite
    <3>4. UNCHANGED status
      BY Zenon, <2>1 DEF Authenticate, rowVars
    <3> QED
      BY Zenon, <1>4, <3>1, <3>2, <3>3, <3>4
  <2>2. CASE CloseOld(h)
    <3>1. NoneCrashed'
      BY ZenonT(30), <2>2 DEF CloseOld, TypeOK, WriteAheadInv, NoneCrashed
    <3>2. ASSUME NEW g \in Handlers, Serves(g) PROVE Serves(g)'
      BY ZenonT(30), <2>2, <3>2 DEF CloseOld, Serves, Serving, Setup, Ending, TypeOK
    <3>3. ASSUME NEW t \in Tasks, WillWrite(t) PROVE WillWrite(t)'
      BY Zenon, <2>2, <3>3 DEF CloseOld, taskVars, WillWrite
    <3>4. UNCHANGED status
      BY Zenon, <2>2 DEF CloseOld, rowVars
    <3> QED
      BY Zenon, <1>4, <3>1, <3>2, <3>3, <3>4
  <2>3. CASE Install(h)
    BY SMTT(30), <1>1, <2>3 DEF Install, Serves, Serving, Setup, TypeOK, WriteAheadInv, NoneCrashed
  <2>4. CASE GoOnline(h)
    BY SMTT(30), <1>1, <2>4 DEF GoOnline, Serves, Serving, Setup, TypeOK, WriteAheadInv, NoneCrashed
  <2>5. CASE Greet(h) \/ GreetDrops(h)
    BY SMTT(30), <1>1, <2>5 DEF Greet, GreetDrops, Serves, Serving, Setup, TypeOK, WriteAheadInv,
                      NoneCrashed
  <2>6. CASE ReceiveDisconnect(h) \/ CleanupDisconnect(h)
    BY SMTT(30), <1>1, <2>6 DEF ReceiveDisconnect, CleanupDisconnect, Serves, Ending, TypeOK,
                      WriteAheadInv, NoneCrashed
  <2>7. CASE ScheduleOffline(h)
    <3>1. NoneCrashed'
      BY Zenon, <2>7 DEF ScheduleOffline, Return, TypeOK, WriteAheadInv, NoneCrashed
    <3>2. home[h] \in Workers
      BY ZenonT(30), <2>7 DEF ScheduleOffline, TypeOK
    <3>3. CASE pending[home[h]] = None
      <4>1. PICK t \in Tasks : /\ task[t] = "free"
                              /\ task' = [task EXCEPT ![t] = "created"]
                              /\ UNCHANGED cancelled
        BY Zenon, <2>7, <3>3 DEF ScheduleOffline
      <4>2. WillWrite(t)'
        BY Zenon, <4>1 DEF WillWrite, TypeOK, TaskInv, OnlyLiveCancelled, LiveTask
      <4> QED
        BY Zenon, <1>2, <3>1, <4>2
    <3>4. CASE pending[home[h]] # None
      <4>1. PICK t \in Tasks : pending[home[h]] = t
        BY Zenon, <3>2, <3>4 DEF TypeOK
      <4>2. WillWrite(t)
        BY ZenonT(30), <3>2, <4>1 DEF WillWrite, TaskInv, PendingTaskLive, LiveTask, TaskPositions
      <4>3. WillWrite(t)'
        BY Zenon, <2>7, <3>4, <4>2 DEF ScheduleOffline, WillWrite, taskVars
      <4> QED
        BY Zenon, <1>2, <3>1, <4>3
    <3> QED
      BY Zenon, <3>3, <3>4
  <2> QED
    BY Zenon, <1>5, <2>1, <2>2, <2>3, <2>4, <2>5, <2>6, <2>7 DEF HandlerStep
<1>6. ASSUME NEW h \in Handlers, NEW w \in Workers, AgentDial(h, w) PROVE WriteAheadInv'
  <2>1. NoneCrashed'
    BY Zenon, <1>6 DEF AgentDial, TypeOK, WriteAheadInv, NoneCrashed
  <2>2. ASSUME NEW g \in Handlers, Serves(g) PROVE Serves(g)'
    BY Zenon, <1>6, <2>2 DEF AgentDial, Serves, Serving, Setup, Ending, TypeOK, WriteAheadInv,
                      NoneCrashed
  <2>3. ASSUME NEW t \in Tasks, WillWrite(t) PROVE WillWrite(t)'
    BY Zenon, <1>6, <2>3 DEF AgentDial, taskVars, WillWrite
  <2>4. UNCHANGED status
    BY Zenon, <1>6 DEF AgentDial, rowVars
  <2> QED
    BY Zenon, <1>4, <2>1, <2>2, <2>3, <2>4
<1>7. ASSUME NEW h \in Handlers,
             ReceiveFails(h) \/ AlertingMessage(h) \/ \E alert \in BOOLEAN : Telemetry(h, alert)
      PROVE  WriteAheadInv'
  <2>1. CASE ReceiveFails(h)
    BY Zenon, <2>1 DEF ReceiveFails
  <2>2. CASE AlertingMessage(h) \/ \E alert \in BOOLEAN : Telemetry(h, alert)
    <3>1. pc[h] = "receiving" /\ UNCHANGED pc
      BY <2>2, Zenon DEF AlertingMessage, Telemetry
    <3> QED
      BY Zenon, <1>1, <3>1 DEF Serves, Serving, WriteAheadInv, NoneCrashed
  <2> QED
    BY Zenon, <1>7, <2>1, <2>2
<1>8. ASSUME NEW t \in Tasks, TaskStep(t) PROVE WriteAheadInv'
  <2>1. UNCHANGED pc
    BY <1>8, Zenon DEF TaskStep, TaskStart, TaskWake, TaskWrite, handlerVars
  <2>2. NoneCrashed'
    BY Zenon, <2>1 DEF WriteAheadInv, NoneCrashed
  <2>3. \A h \in Handlers : Serves(h) => Serves(h)'
    BY Zenon, <2>1 DEF Serves
  <2>4. ASSUME TaskEnds(t), cancelled[t], UNCHANGED status PROVE WriteAheadInv'
    <3>1. ASSUME NEW u \in Tasks, WillWrite(u) PROVE WillWrite(u)'
      BY ZenonT(30), <2>4, <3>1 DEF TaskEnds, Release, WillWrite, TypeOK
    <3> QED
      BY Zenon, <1>4, <2>2, <2>3, <2>4, <3>1
  <2>5. CASE TaskStart(t)
    <3>1. UNCHANGED status
      BY Zenon, <2>5 DEF TaskStart, rowVars
    <3>2. ASSUME NEW u \in Tasks, WillWrite(u) PROVE WillWrite(u)'
      <4>1. CASE cancelled[t]
        BY ZenonT(30), <2>5, <3>2, <4>1 DEF TaskStart, Release, WillWrite, TypeOK
      <4>2. CASE ~ cancelled[t]
        BY ZenonT(30), <2>5, <3>2, <4>2 DEF TaskStart, WillWrite, TypeOK
      <4> QED
        BY Zenon, <4>1, <4>2
    <3> QED
      BY Zenon, <1>4, <2>2, <2>3, <3>1, <3>2
  <2>6. CASE TaskWake(t)
    <3>1. UNCHANGED status
      BY Zenon, <2>6 DEF TaskWake, rowVars
    <3>2. CASE cancelled[t]
      BY Zenon, <2>4, <2>6, <3>1, <3>2 DEF TaskWake
    <3>3. CASE is_connected(taskHome[t])
      <4>1. taskHome[t] \in Workers
        BY Zenon, <2>6 DEF TaskWake, TypeOK
      <4>2. PICK h \in Handlers : connections[taskHome[t]] = h
        BY Zenon, <3>3, <4>1 DEF is_connected, TypeOK
      <4>3. Serves(h)
        BY ZenonT(30), <4>1, <4>2 DEF NoOrphanedSocket, MayBeRegistered, Serves, Ending, WriteAheadInv,
                          NoneCrashed
      <4> QED
        BY Zenon, <1>1, <2>2, <2>3, <4>3
    <3>4. CASE ~ cancelled[t] /\ ~ is_connected(taskHome[t])
      <4>1. WillWrite(t)'
        BY Zenon, <2>6, <3>4 DEF TaskWake, WillWrite, TypeOK
      <4> QED
        BY Zenon, <1>2, <2>2, <4>1
    <3> QED
      BY Zenon, <3>2, <3>3, <3>4
  <2>7. CASE TaskWrite(t)
    <3>1. CASE status' = "offline"
      BY Zenon, <1>3, <2>2, <3>1
    <3>2. CASE cancelled[t] /\ UNCHANGED status
      BY Zenon, <2>4, <2>7, <3>2 DEF TaskWrite
    <3> QED
      BY <2>7, <3>1, <3>2, Zenon DEF TaskWrite
  <2> QED
    BY Zenon, <1>8, <2>5, <2>6, <2>7 DEF TaskStep
<1>9. CASE SweepCommit \/ Revoke
  <2>1. status' = "offline" /\ UNCHANGED pc
    BY <1>9, Zenon DEF SweepCommit, Revoke, handlerVars
  <2> QED
    BY Zenon, <1>3, <2>1 DEF WriteAheadInv, NoneCrashed
<1>10. CASE UNCHANGED <<pc, task, cancelled, status>>
  <2>1. NoneCrashed'
    BY Zenon, <1>10 DEF WriteAheadInv, NoneCrashed
  <2>2. \A h \in Handlers : Serves(h) => Serves(h)'
    BY Zenon, <1>10 DEF Serves
  <2>3. \A t \in Tasks : WillWrite(t) => WillWrite(t)'
    BY Zenon, <1>10 DEF WillWrite
  <2> QED
    BY Zenon, <1>4, <1>10, <2>1, <2>2, <2>3
<1>11. ASSUME \/ LinkLost \/ AgentNotices \/ AttemptsExpire
              \/ \E h \in Handlers : ServerNotices(h)
              \/ SweepSelect \/ LastSeenAges
              \/ \E enabled \in BOOLEAN : SetMaintenance(enabled)
              \/ \E w \in Workers : AdminDisconnect(w) \/ ApiSendFails(w) \/ ApiSendDrops(w)
              \/ UNCHANGED vars
       PROVE  UNCHANGED <<pc, task, cancelled, status>>
    BY <1>11, Zenon DEF LinkLost, AgentNotices, AttemptsExpire, ServerNotices, SweepSelect,
        LastSeenAges, SetMaintenance, AdminDisconnect, ApiSendFails, ApiSendDrops, vars,
        handlerVars, taskVars, rowVars
<1>12. ASSUME NEW h \in Handlers PROVE ~ SetupFails(h)
    BY Zenon DEF SetupFails
<1>13. ASSUME NEW w \in Workers PROVE ~ WorkerCrash(w)
    BY Zenon DEF WorkerCrash
<1> QED
    BY Zenon, <1>5, <1>6, <1>7, <1>8, <1>9, <1>10, <1>11, <1>12, <1>13 DEF Next, Sweep

\* As long as no set-up raises and no process dies, a device shown as online
\* or alert has a call or an offline task that will write "offline".
THEOREM OfflineNeverLost ==
    ASSUME ~ Failures, ~ Crashes
    PROVE  Spec => []OfflineWriteAhead
<1>1. Init => WriteAheadInv
    BY Zenon DEF Init, WriteAheadInv, OfflineWriteAhead, NoneCrashed
<1>2. TypeOK /\ NoOrphanedSocket /\ TaskInv /\ WriteAheadInv /\ [Next]_vars => WriteAheadInv'
    BY Zenon, WriteAheadStep
<1>3. Init => TaskInv
    BY SlotsAssumption DEF Init, TaskInv, PendingTaskLive, OnlyLiveCancelled
<1>4. WriteAheadInv => OfflineWriteAhead
    BY Zenon DEF WriteAheadInv
<1> QED
    BY <1>1, <1>2, <1>3, <1>4, TypeCorrect, RegistryCorrect, PendingStep, PTL DEF Spec
=============================================================================
