--------------------------- MODULE AlertLifecycle ---------------------------
(***************************************************************************)
(* The alerts of one device:                                               *)
(*   server/app/services/alert_service.py    create_alert, resolve_alert   *)
(*   server/app/websocket/handler.py         the reports that raise and    *)
(*                                           resolve alerts                *)
(*   server/app/tasks/alert_tasks.py         the offline alert             *)
(*   server/app/services/notification_service.py, tasks/email_tasks.py     *)
(*                                           the e-mail about an alert     *)
(*   client/internal/collector/ntp.go        what an NTP report carries    *)
(*                                                                         *)
(* Each WebSocket call of the device has a database session of its own; a  *)
(* message is one transaction.  Two calls overlap when the agent reconnects*)
(* before the old one is noticed.  Other transactions see an alert when it *)
(* is committed, and a transaction that has updated the device's row locks *)
(* it until then.                                                          *)
(***************************************************************************)
EXTENDS Naturals

CONSTANTS
    Slots,          \* alert rows kept per type (bound)
    Sessions,       \* WebSocket calls of the device that may overlap
    Active,         \* the alert types that occur
    Environment,    \* what else happens: "maintenance", "resolve" (by a user),
                    \* "drop" (of a connection), "abort" (a process dies or a
                    \* commit fails), "mail" (there is an e-mail rule), "band"
                    \* (values between two thresholds)
    None

\* The types in the order in which a handler looks at them; "offline" is raised
\* by the sweep.
Metrics == {"high_cpu", "high_ram", "disk_full", "high_temp"}
order == [high_cpu |-> 1, high_ram |-> 2, disk_full |-> 3, high_temp |-> 4,
          time_drift |-> 5, clock_skew |-> 6, crash |-> 7]
Types == DOMAIN order \cup {"offline"}

Rows == Active \X Slots
Sweep == "sweep"
Transactions == Sessions \cup {Sweep}

VARIABLES
    row,        \* "none", "open" or "resolved", as committed
    level,      \* per type: "low", "mid" (neither alarming nor clear), "high",
                \* and for time_drift "skew" (five minutes or more)
    maint,      \* devices.maintenance_mode
    lock,       \* the transaction that has updated the device's row
    call,       \* per call: "closed", "ready", "handling" (a message), "ending"
                \* (after an exception, before get_db's commit)
    todo,       \* per call: types create_alert is still to be called for
    pend,       \* per call: the type create_alert is about to insert
    clear,      \* per call: types whose alerts the message resolves
    seen,       \* per call: maintenance_mode as its session loaded it
    marked,     \* per call: has its Device object the status "alert"
    ins,        \* per transaction: rows inserted
    mail,       \* e-mail tasks queued
    mailed      \* rows an e-mail was sent about

callVars == <<call, todo, pend, clear, seen, marked>>
vars == <<row, level, maint, lock, callVars, ins, mail, mailed>>

TypeOK ==
    /\ row \in [Rows -> {"none", "open", "resolved"}]
    /\ level \in [Active -> {"low", "mid", "high", "skew"}]
    /\ maint \in BOOLEAN
    /\ lock \in Transactions \cup {None}
    /\ call \in [Sessions -> {"closed", "ready", "handling", "ending"}]
    /\ todo \in [Sessions -> SUBSET Active] /\ clear \in [Sessions -> SUBSET Active]
    /\ pend \in [Sessions -> Active \cup {None}]
    /\ seen \in [Sessions -> BOOLEAN] /\ marked \in [Sessions -> BOOLEAN]
    /\ ins \in [Transactions -> SUBSET Rows]
    /\ mail \subseteq Rows /\ mailed \subseteq Rows

Init ==
    /\ row = [a \in Rows |-> "none"]
    /\ level = [t \in Active |-> "low"]
    /\ maint = FALSE
    /\ lock = None
    /\ call = [s \in Sessions |-> "closed"]
    /\ todo = [s \in Sessions |-> {}] /\ clear = [s \in Sessions |-> {}]
    /\ pend = [s \in Sessions |-> None]
    /\ seen = [s \in Sessions |-> FALSE] /\ marked = [s \in Sessions |-> FALSE]
    /\ ins = [x \in Transactions |-> {}]
    /\ mail = {} /\ mailed = {}

-----------------------------------------------------------------------------
(* Handling a message *)

Unresolved(t) == {a \in Rows : a[1] = t /\ row[a] = "open"}

\* Rows that no transaction and no task knows; a new alert takes one of them.
Unused(t) == {a \in Rows : /\ a[1] = t /\ row[a] = "none" /\ a \notin mail
                           /\ \A x \in Transactions : a \notin ins[x]}
NewRow(t) == CHOOSE a \in Unused(t) : TRUE

\* A message that calls create_alert for the types in raise, then resolves the
\* alerts of the types in resolve.
Receive(s, raise, resolve) ==
    /\ call[s] = "ready"
    /\ call' = [call EXCEPT ![s] = "handling"]
    /\ todo' = [todo EXCEPT ![s] = raise \cap Active]
    /\ clear' = [clear EXCEPT ![s] = resolve \cap Active]
    /\ UNCHANGED <<row, level, maint, pend, seen, ins, mail, mailed>>

\* create_alert up to its select: nothing in maintenance (as the session loaded
\* it) and nothing if an unresolved alert is visible.  Two of them make
\* scalar_one_or_none raise, which ends the message and the call.
create_alert(s) ==
    /\ call[s] = "handling" /\ pend[s] = None
    /\ \E t \in todo[s] :
          /\ \A u \in todo[s] : order[t] <= order[u]
          /\ IF ~seen[s] /\ \E a, b \in Unresolved(t) : a # b
             THEN /\ call' = [call EXCEPT ![s] = "ending"]
                  /\ todo' = [todo EXCEPT ![s] = {}] /\ clear' = [clear EXCEPT ![s] = {}]
                  /\ UNCHANGED pend
             ELSE /\ todo' = [todo EXCEPT ![s] = @ \ {t}]
                  /\ pend' = [pend EXCEPT ![s] = IF ~seen[s] /\ Unresolved(t) = {} THEN t ELSE None]
                  /\ UNCHANGED <<call, clear>>
    /\ UNCHANGED <<row, level, maint, lock, seen, marked, ins, mail, mailed>>

\* notify: a task for an e-mail rule that matches.
Notified(a) == IF "mail" \in Environment THEN {a} ELSE {}

\* The flush of the new alert, and of the device's status if it changes: that
\* waits for the row.  Notifications are sent and queued at once.
Flush(s) ==
    /\ pend[s] # None /\ Unused(pend[s]) # {}
    /\ \/ marked[s] /\ UNCHANGED lock
       \/ ~marked[s] /\ lock \in {None, s} /\ lock' = s
    /\ ins' = [ins EXCEPT ![s] = @ \cup {NewRow(pend[s])}]
    /\ mail' = mail \cup Notified(NewRow(pend[s]))
    /\ marked' = [marked EXCEPT ![s] = TRUE]
    /\ pend' = [pend EXCEPT ![s] = None]
    /\ UNCHANGED <<row, level, maint, call, todo, clear, seen, mailed>>

\* Rows inserted become visible, the lock is free.
Apply(x, resolved) ==
    /\ row' = [a \in Rows |-> IF a \in ins[x] THEN "open"
                              ELSE IF a[1] \in resolved /\ row[a] = "open" THEN "resolved"
                              ELSE row[a]]
    /\ ins' = [ins EXCEPT ![x] = {}]
    /\ lock' = IF lock = x THEN None ELSE lock

\* The rest of the message: the updates that resolve, the commit, the ack.
Commit(s) ==
    /\ call[s] = "handling" /\ todo[s] = {} /\ pend[s] = None
    /\ Apply(s, clear[s])
    /\ call' = [call EXCEPT ![s] = "ready"] /\ clear' = [clear EXCEPT ![s] = {}]
    /\ UNCHANGED <<level, maint, todo, pend, seen, marked, mail, mailed>>

\* device_websocket has caught the exception, so get_db sees a normal return and
\* commits what was flushed.
End(s) ==
    /\ call[s] = "ending"
    /\ Apply(s, {})
    /\ call' = [call EXCEPT ![s] = "closed"]
    /\ UNCHANGED <<level, maint, todo, pend, clear, seen, marked, mail, mailed>>

\* The API process dies, or the database refuses the commit: a rollback.  Tasks
\* stay queued.
Abort(s) ==
    /\ "abort" \in Environment /\ call[s] \in {"handling", "ending"}
    /\ call' = [call EXCEPT ![s] = "closed"]
    /\ todo' = [todo EXCEPT ![s] = {}] /\ clear' = [clear EXCEPT ![s] = {}]
    /\ pend' = [pend EXCEPT ![s] = None]
    /\ ins' = [ins EXCEPT ![s] = {}]
    /\ lock' = IF lock = s THEN None ELSE lock
    /\ UNCHANGED <<row, level, maint, seen, marked, mail, mailed>>

-----------------------------------------------------------------------------
(* The messages *)

At(types, l) == {t \in types \cap Active : level[t] = l}

\* CPU below 80 and RAM below 85 resolve; the disk branch looks for the type
\* "high_disk", which no alert has, and temperature has no branch.
auto_resolve_alerts(types) == types \cap {"high_cpu", "high_ram"}

\* Mutant: last_seen is flushed with the alert, after the check for one.
TelemetryFlushesLate(s) ==
    /\ Metrics \cap Active # {}
    /\ Receive(s, At(Metrics, "high"), auto_resolve_alerts(At(Metrics, "low")))
    /\ marked' = [marked EXCEPT ![s] = FALSE]
    /\ UNCHANGED lock

\* Status and last_seen are flushed first: telemetry waits for the device's row.
Telemetry(s) ==
    /\ Metrics \cap Active # {}
    /\ lock = None /\ lock' = s
    /\ Receive(s, At(Metrics, "high"), auto_resolve_alerts(At(Metrics, "low")))
    /\ marked' = [marked EXCEPT ![s] = FALSE]

\* The report of a clock: omitempty leaves out a clock_usable that is false.
NTPStatusData(l) == IF l = "skew" THEN <<>> ELSE [clock_usable |-> TRUE]
clock_usable(data) == IF "clock_usable" \in DOMAIN data THEN data.clock_usable ELSE TRUE

\* _handle_ntp: a usable clock resolves clock_skew, nothing resolves time_drift.
Ntp(s) ==
    /\ "time_drift" \in Active
    /\ LET usable == clock_usable(NTPStatusData(level["time_drift"]))
           skew == {"clock_skew"}
       IN Receive(s, (At({"time_drift"}, "high") \cup At({"time_drift"}, "skew"))
                        \cup (IF usable THEN {} ELSE skew),
                     IF usable THEN skew ELSE {})
    /\ UNCHANGED <<lock, marked>>

CrashEvent(s) == "crash" \in Active /\ Receive(s, {"crash"}, {}) /\ UNCHANGED <<lock, marked>>

\* The result of a successful sync_time command.
SyncTime(s) ==
    "time_drift" \in Active /\ Receive(s, {}, {"time_drift"}) /\ UNCHANGED <<lock, marked>>

\* A connection: its session loads the device once, and updates its row.
Connect(s) ==
    /\ call[s] = "closed" /\ lock = None
    /\ call' = [call EXCEPT ![s] = "ready"]
    /\ seen' = [seen EXCEPT ![s] = maint]
    /\ \E alert \in BOOLEAN : marked' = [marked EXCEPT ![s] = alert]
    /\ UNCHANGED <<row, level, maint, lock, todo, pend, clear, ins, mail, mailed>>

\* It is lost.  A message being handled is committed all the same; it is the
\* next receive, or the ack, that fails.
Disconnect(s) ==
    /\ "drop" \in Environment /\ call[s] = "ready"
    /\ call' = [call EXCEPT ![s] = "closed"]
    /\ UNCHANGED <<row, level, maint, lock, todo, pend, clear, seen, marked, ins, mail, mailed>>

-----------------------------------------------------------------------------
(* Everything else *)

\* The sweep finds the device stale (any time; see DeviceConnection for when),
\* updates its row and adds an offline alert unless one is unresolved.
SweepMarks ==
    /\ "offline" \in Active /\ ~maint /\ lock = None
    /\ Unresolved("offline") = {} /\ Unused("offline") # {}
    /\ ins' = [ins EXCEPT ![Sweep] = {NewRow("offline")}]
    /\ lock' = Sweep
    /\ UNCHANGED <<row, level, maint, callVars, mail, mailed>>

SweepCommits ==
    /\ ins[Sweep] # {}
    /\ Apply(Sweep, {})
    /\ UNCHANGED <<level, maint, callVars, mail, mailed>>

\* Mutant: the endpoint stores a status of its own.
ResolveAcknowledges(a) ==
    /\ "resolve" \in Environment /\ row[a] # "none"
    /\ row' = [row EXCEPT ![a] = "acknowledged"]
    /\ UNCHANGED <<level, maint, lock, callVars, ins, mail, mailed>>

\* POST /alerts/{id}/resolve.
resolve_alert(a) ==
    /\ "resolve" \in Environment /\ row[a] # "none"
    /\ row' = [row EXCEPT ![a] = "resolved"]
    /\ UNCHANGED <<level, maint, lock, callVars, ins, mail, mailed>>

\* run_cleanup deletes old resolved alerts.
DeleteOld(a) ==
    /\ row[a] = "resolved"
    /\ row' = [row EXCEPT ![a] = "none"]
    /\ mailed' = mailed \ {a}
    /\ UNCHANGED <<level, maint, lock, callVars, ins, mail>>

\* Mutant: the task trusts that the alert exists.
EmailUnchecked(a) ==
    /\ a \in mail
    /\ mail' = mail \ {a}
    /\ mailed' = mailed \cup {a}
    /\ UNCHANGED <<row, level, maint, lock, callVars, ins>>

\* The Celery task looks the alert up, and gives up if it is not there.
send_alert_email_task(a) ==
    /\ a \in mail
    /\ mail' = mail \ {a}
    /\ mailed' = IF row[a] # "none" THEN mailed \cup {a} ELSE mailed
    /\ UNCHANGED <<row, level, maint, lock, callVars, ins>>

set_device_maintenance ==
    /\ "maintenance" \in Environment /\ lock = None
    /\ maint' = ~maint
    /\ UNCHANGED <<row, level, lock, callVars, ins, mail, mailed>>

\* What the device measures changes.  Some metrics have a threshold to raise and
\* a lower one to resolve; a crash is an event, without a level.
Measure(t, l) ==
    /\ t \in Metrics \cup {"time_drift"} /\ level[t] # l
    /\ l = "mid" => "band" \in Environment /\ t \in {"high_cpu", "high_ram", "disk_full"}
    /\ l = "skew" => t = "time_drift"
    /\ level' = [level EXCEPT ![t] = l]
    /\ UNCHANGED <<row, maint, lock, callVars, ins, mail, mailed>>

Report(s) == Telemetry(s) \/ Ntp(s) \/ CrashEvent(s) \/ SyncTime(s)

Next ==
    \/ \E s \in Sessions :
          \/ Connect(s) \/ Disconnect(s) \/ Report(s) \/ create_alert(s) \/ Flush(s)
          \/ Commit(s) \/ End(s) \/ Abort(s)
    \/ \E a \in Rows : resolve_alert(a) \/ DeleteOld(a) \/ send_alert_email_task(a)
    \/ \E t \in Active, l \in {"low", "mid", "high", "skew"} : Measure(t, l)
    \/ SweepMarks
    \/ SweepCommits
    \/ set_device_maintenance

Spec == Init /\ [][Next]_vars

-----------------------------------------------------------------------------
(***************************************************************************)
(* Properties                                                              *)
(***************************************************************************)

\* The check in create_alert keeps at most one unresolved alert of a type, for
\* one call at a time.
OneOpenPerType == \A t \in Active : \A a, b \in Unresolved(t) : a = b

\* Overlapping calls do not duplicate the alert of a metric: telemetry updates
\* the device's row before it looks for an alert, and so one at a time does.
OneOpenPerMetric == \A t \in Metrics \cap Active : \A a, b \in Unresolved(t) : a = b

\* Mail is queued before the alert is committed; still no mail goes out about
\* an alert that was rolled back.
NoPhantomMail == \A a \in mailed : row[a] # "none"

\* The alert of a metric resolves when that metric stays low, whatever calls
\* overlapped before (and, as the documentation has it, for every metric).
MetricAlertsResolve ==
    \A t \in Metrics \cap Active : <>[](level[t] = "low") => []<>(Unresolved(t) = {})
=============================================================================
