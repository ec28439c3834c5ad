---------------------------- MODULE AlertProofs ----------------------------
(***************************************************************************)
(* AlertLifecycle, for any calls, types of alerts and events around them.  *)
(*                                                                         *)
(* Exclusive types are those of which one alert may be open: all types     *)
(* when there is one connection, the types of metrics when several         *)
(* overlap.  While an exclusive type is about to be inserted, or has been  *)
(* and is not yet committed, none of it is open; and no two calls are at   *)
(* it, for a metric is only looked at under the lock of the device's row.  *)
(***************************************************************************)
EXTENDS Naturals, TLAPS

CONSTANTS None, Slots

VARIABLES
    alert, level, maint, lock, call, todo, pend, clear, seen, marked, ins, mail, mailed
alertVars == <<alert, level, maint, lock, call, todo, pend, clear, seen, marked, ins, mail, mailed>>

Alerts(S, Active, Environment) == INSTANCE AlertLifecycle WITH Sessions <- S, row <- alert

MetricTypes == {"high_cpu", "high_ram", "disk_full", "high_temp"}

\* The types that a call is busy with.
Handles(s) == todo[s] \cup ({pend[s]} \ {None}) \cup {a[1] : a \in ins[s]}

\* A call that handles nothing holds nothing; it looks at a type once, and at a
\* metric under the lock.
Busy(S) == \A s \in S :
    /\ call[s] # "handling" => todo[s] = {} /\ pend[s] = None
    /\ call[s] \in {"closed", "ready"} => ins[s] = {}
    /\ pend[s] \notin todo[s]
    /\ \A a \in ins[s] : a[1] \notin todo[s] /\ a[1] # pend[s]
    /\ \A t \in Handles(s) : t # "offline" /\ (t \in MetricTypes => lock = s)

\* The sweep inserts alerts of its own type; a transaction inserts one of a type.
Inserting(S) ==
    /\ \A a \in ins["sweep"] : a[1] = "offline"
    /\ \A x \in S \cup {"sweep"} : \A a, b \in ins[x] : a[1] = b[1] => a = b

\* An open alert of an exclusive type is the only one there is or will be.
Alone(S, A, T) == \A a \in A \X Slots : alert[a] = "open" /\ a[1] \in T =>
    /\ \A s \in S : pend[s] # a[1]
    /\ \A x \in S \cup {"sweep"} : \A b \in ins[x] : b[1] # a[1]
    /\ \A b \in A \X Slots : alert[b] = "open" /\ b[1] = a[1] => a = b

AlertInv(S, A, E, T) ==
    /\ Alerts(S, A, E)!TypeOK
    /\ Busy(S) /\ Inserting(S) /\ Alone(S, A, T)
    /\ \A a \in mailed : alert[a] # "none"

\* The types are exclusive: there is one call, or they are types of metrics.
Exclusive(S, A, T) ==
    /\ None \notin S \cup A /\ "sweep" \notin S
    /\ T \subseteq A
    /\ (\A r, s \in S : r = s) \/ T \subseteq MetricTypes

\* A new alert takes a row of its type.
LEMMA NewRowFree ==
    ASSUME NEW S, NEW A, NEW E, NEW t, Alerts(S, A, E)!Unused(t) # {}
    PROVE  /\ Alerts(S, A, E)!NewRow(t) \in A \X Slots /\ Alerts(S, A, E)!NewRow(t)[1] = t
           /\ \A x \in S \cup {"sweep"} : Alerts(S, A, E)!NewRow(t) \notin ins[x]
<1>1. Alerts(S, A, E)!NewRow(t) \in Alerts(S, A, E)!Unused(t)
    BY Zenon DEF Alerts!NewRow
<1> QED
    BY Zenon, <1>1 DEF Alerts!Unused, Alerts!Rows, Alerts!Transactions, Alerts!Sweep

\* Nothing is open at first.
LEMMA AlertInit ==
    ASSUME NEW S, NEW A, NEW E, NEW T, Exclusive(S, A, T), Alerts(S, A, E)!Init
    PROVE  AlertInv(S, A, E, T)
<1>1. Alerts(S, A, E)!TypeOK
    BY Zenon DEF Alerts!Init, Alerts!TypeOK, Alerts!Rows, Alerts!Transactions, Alerts!Sweep
<1>2. \A s \in S : Handles(s) = {}
    BY Zenon DEF Alerts!Init, Handles, Alerts!Transactions, Alerts!Sweep
<1> QED
    BY Zenon, <1>1, <1>2
      DEF Alerts!Init, AlertInv, Busy, Inserting, Alone, Alerts!Rows, Alerts!Transactions, Alerts!Sweep, Exclusive

\* Nothing changes for the calls, and nothing opens.
LEMMA AlertIdle ==
    ASSUME NEW S, NEW A, NEW E, NEW T, AlertInv(S, A, E, T), Alerts(S, A, E)!TypeOK',
           UNCHANGED <<lock, call, todo, pend, ins>>,
           \A a \in A \X Slots : alert'[a] = "open" => alert[a] = "open",
           \A a \in mailed' : alert'[a] # "none"
    PROVE  AlertInv(S, A, E, T)'
    BY DEF AlertInv, Busy, Inserting, Alone, Handles

\* A step of one call, after which it handles less, and nothing opens.
Lessens(S, A, T, s) ==
    /\ UNCHANGED <<alert, mailed>>
    /\ \A r \in S \ {s} : call'[r] = call[r] /\ todo'[r] = todo[r] /\ pend'[r] = pend[r]
    /\ \A x \in (S \cup {"sweep"}) \ {s} : ins'[x] = ins[x]
    /\ Handles(s)' \subseteq Handles(s) /\ ins'[s] \subseteq ins[s] /\ pend'[s] \notin todo'[s]
    /\ \A a \in ins'[s] : a[1] \notin todo'[s] /\ a[1] # pend'[s]
    /\ pend'[s] # pend[s] => \A a \in A \X Slots : alert[a] = "open" /\ a[1] \in T => pend'[s] # a[1]
    /\ call'[s] # "handling" => todo'[s] = {} /\ pend'[s] = None
    /\ call'[s] \in {"closed", "ready"} => ins'[s] = {}
    /\ lock' # lock => lock = s /\ Handles(s)' = {}

\* Such a step keeps the invariant.
LEMMA AlertLess ==
    ASSUME NEW S, NEW A, NEW E, NEW T, Exclusive(S, A, T), AlertInv(S, A, E, T), Alerts(S, A, E)!TypeOK',
           NEW s \in S, Lessens(S, A, T, s)
    PROVE  AlertInv(S, A, E, T)'
<1>1. \A r \in S \ {s} : Handles(r)' = Handles(r)
    BY Zenon DEF Lessens, Handles
<1>2. \A r \in S : \A t \in Handles(r)' : t # "offline" /\ (t \in MetricTypes => lock' = r)
    BY <1>1 DEF AlertInv, Busy, Lessens
<1>3. \A x \in S \cup {"sweep"} : ins'[x] \subseteq ins[x]
    BY Zenon DEF Lessens
<1>4. "sweep" # s
    BY Zenon DEF Exclusive
<1> QED
    BY <1>1, <1>2, <1>3, <1>4 DEF AlertInv, Busy, Inserting, Alone, Lessens

\* A transaction commits: what it has inserted opens, and it handles nothing any
\* more.
LEMMA AlertApply ==
    ASSUME NEW S, NEW A, NEW E, NEW T, Exclusive(S, A, T), AlertInv(S, A, E, T), Alerts(S, A, E)!TypeOK',
           NEW x \in S \cup {"sweep"}, NEW resolved, Alerts(S, A, E)!Apply(x, resolved),
           UNCHANGED <<todo, pend, mailed>>,
           \A r \in S \ {x} : call'[r] = call[r],
           x \in S => todo[x] = {} /\ pend[x] = None /\ call'[x] # "handling"
    PROVE  AlertInv(S, A, E, T)'
<1> DEFINE Tr == S \cup {"sweep"}
<1>0. /\ alert \in [A \X Slots -> {"none", "open", "resolved"}] /\ ins \in [Tr -> SUBSET (A \X Slots)]
      /\ mailed \subseteq A \X Slots /\ pend \in [S -> A \cup {None}]
    BY Zenon DEF AlertInv, Alerts!TypeOK, Alerts!Rows, Alerts!Transactions, Alerts!Sweep
<1>1. /\ \A a \in A \X Slots : /\ a \in ins[x] => alert'[a] = "open"
                               /\ a \notin ins[x] /\ alert'[a] = "open" => alert[a] = "open"
                               /\ alert[a] # "none" => alert'[a] # "none"
      /\ ins'[x] = {} /\ \A y \in Tr \ {x} : ins'[y] = ins[y]
      /\ lock' = IF lock = x THEN None ELSE lock
    BY Zenon, <1>0 DEF Alerts!Apply, Alerts!Rows
<1>2. /\ \A r \in S \ {x} : Handles(r)' = Handles(r)
      /\ x \in S => Handles(x)' = {}
    BY Zenon, <1>0, <1>1 DEF Handles
<1>3. \A r \in S : \A t \in Handles(r)' : t # "offline" /\ (t \in MetricTypes => lock' = r)
    BY <1>1, <1>2 DEF AlertInv, Busy, Exclusive
<1>4. ASSUME NEW a \in A \X Slots, alert'[a] = "open", a[1] \in T
      PROVE  /\ \A s \in S : pend'[s] # a[1]
             /\ \A y \in Tr : \A b \in ins'[y] : b[1] # a[1]
             /\ \A b \in A \X Slots : alert'[b] = "open" /\ b[1] = a[1] => a = b
  <2>1. CASE a \notin ins[x]
    <3>1. alert[a] = "open"
      BY Zenon, <1>1, <1>4, <2>1
    <3>2. \A b \in A \X Slots : alert'[b] = "open" /\ b[1] = a[1] => alert[b] = "open"
      BY <1>1, <1>4, <3>1 DEF AlertInv, Alone
    <3> QED
      BY <1>1, <1>4, <3>1, <3>2 DEF AlertInv, Alone
  <2>2. CASE a \in ins[x]
    <3>1. \A b \in A \X Slots : alert'[b] = "open" /\ b[1] = a[1] => b \in ins[x]
      BY <1>1, <1>4, <2>2 DEF AlertInv, Alone
    <3>2. \A b \in A \X Slots : alert'[b] = "open" /\ b[1] = a[1] => a = b
      BY Zenon, <2>2, <3>1 DEF AlertInv, Inserting
    <3>3. ASSUME NEW r \in S \ {x}, a[1] \in Handles(r) PROVE FALSE
      <4>1. CASE x \in S
        <5>1. a[1] \in Handles(x)
          BY Zenon, <2>2 DEF Handles
        <5> QED
          BY <1>4, <3>3, <4>1, <5>1 DEF AlertInv, Busy, Exclusive
      <4>2. CASE x = "sweep"
        BY <2>2, <3>3, <4>2 DEF AlertInv, Busy, Inserting
      <4> QED
        BY Zenon, <4>1, <4>2
    <3>4. \A s \in S : pend'[s] # a[1]
      BY <1>0, <3>3 DEF Handles, Exclusive
    <3>5. ASSUME NEW y \in Tr, NEW b \in ins'[y], b[1] = a[1] PROVE FALSE
      <4>1. y # x /\ b \in ins[y]
        BY Zenon, <1>1, <3>5
      <4>2. CASE y \in S
        BY Zenon, <3>3, <3>5, <4>1, <4>2 DEF Handles
      <4>3. CASE y = "sweep"
        <5>1. x \in S /\ a[1] \in Handles(x)
          BY Zenon, <2>2, <4>1, <4>3 DEF Handles
        <5>2. b[1] = "offline"
          BY Zenon, <4>1, <4>3 DEF AlertInv, Inserting
        <5>3. a[1] # "offline"
          BY <5>1 DEF AlertInv, Busy
        <5> QED
          BY Zenon, <3>5, <5>2, <5>3
      <4> QED
        BY Zenon, <4>2, <4>3
    <3> QED
      BY Zenon, <3>2, <3>4, <3>5
  <2> QED
    BY Zenon, <2>1, <2>2
<1>5. \A a \in mailed' : alert'[a] # "none"
    BY Zenon, <1>0, <1>1 DEF AlertInv
<1>6. \A s \in S :
          /\ call'[s] # "handling" => todo'[s] = {} /\ pend'[s] = None
          /\ call'[s] \in {"closed", "ready"} => ins'[s] = {}
          /\ pend'[s] \notin todo'[s]
          /\ \A a \in ins'[s] : a[1] \notin todo'[s] /\ a[1] # pend'[s]
    BY <1>1 DEF AlertInv, Busy
<1>7. /\ \A a \in ins'["sweep"] : a[1] = "offline"
      /\ \A y \in Tr : \A a, b \in ins'[y] : a[1] = b[1] => a = b
    BY <1>1 DEF AlertInv, Inserting
<1> QED
    BY Zenon, <1>3, <1>4, <1>5, <1>6, <1>7 DEF AlertInv, Busy, Inserting, Alone

\* A report is received: it raises no alert of type offline, and it raises those
\* of metrics under the lock of the device's row.
LEMMA ReportReceived ==
    ASSUME NEW S, NEW A, NEW E, NEW s \in S, Alerts(S, A, E)!Report(s)
    PROVE  \E raise, resolve :
              /\ Alerts(S, A, E)!Receive(s, raise, resolve) /\ "offline" \notin raise
              /\ \/ lock = None /\ lock' = s /\ marked' = [marked EXCEPT ![s] = FALSE]
                 \/ raise \cap MetricTypes = {} /\ UNCHANGED <<lock, marked>>
<1>1. CASE Alerts(S, A, E)!Telemetry(s)
  <2>1. "offline" \notin Alerts(S, A, E)!At(Alerts(S, A, E)!Metrics, "high")
    BY Zenon DEF Alerts!At, Alerts!Metrics
  <2> QED
    BY Zenon, <1>1, <2>1 DEF Alerts!Telemetry
<1>2. CASE Alerts(S, A, E)!Ntp(s)
  <2> DEFINE drift(l) == Alerts(S, A, E)!At({"time_drift"}, l)
  <2>1. \A l : drift(l) \subseteq {"time_drift"}
    BY Zenon DEF Alerts!At
  <2>2. PICK usable \in {TRUE, FALSE} :
           /\ Alerts(S, A, E)!Receive(s, (drift("high") \cup drift("skew"))
                                             \cup (IF usable THEN {} ELSE {"clock_skew"}),
                                         IF usable THEN {"clock_skew"} ELSE {})
           /\ UNCHANGED <<lock, marked>>
    BY <1>2, Zenon DEF Alerts!Ntp, Alerts!clock_usable, Alerts!NTPStatusData
  <2> HIDE DEF drift
  <2>3. LET raise == (drift("high") \cup drift("skew")) \cup (IF usable THEN {} ELSE {"clock_skew"})
        IN "offline" \notin raise /\ raise \cap MetricTypes = {}
    BY <2>1 DEF MetricTypes
  <2> QED
    BY Zenon, <2>2, <2>3
<1>3. CASE Alerts(S, A, E)!CrashEvent(s)
    BY <1>3 DEF Alerts!CrashEvent, MetricTypes
<1>4. CASE Alerts(S, A, E)!SyncTime(s)
    BY <1>4 DEF Alerts!SyncTime
<1> QED
    BY Zenon, <1>1, <1>2, <1>3, <1>4 DEF Alerts!Report

\* create_alert looks at one type: either it raises and the message is over, or
\* it goes on with or without inserting an alert.
LEMMA CreateAlert ==
    ASSUME NEW S, NEW A, NEW E, NEW s \in S, Alerts(S, A, E)!create_alert(s)
    PROVE  /\ call[s] = "handling" /\ pend[s] = None
           /\ UNCHANGED <<alert, level, maint, lock, seen, marked, ins, mail, mailed>>
           /\ \E t \in todo[s] :
                 \/ /\ call' = [call EXCEPT ![s] = "ending"] /\ pend' = pend
                    /\ todo' = [todo EXCEPT ![s] = {}] /\ clear' = [clear EXCEPT ![s] = {}]
                 \/ /\ todo' = [todo EXCEPT ![s] = @ \ {t}] /\ UNCHANGED <<call, clear>>
                    /\ \/ pend' = [pend EXCEPT ![s] = None]
                       \/ /\ pend' = [pend EXCEPT ![s] = t]
                          /\ Alerts(S, A, E)!Unresolved(t) = {}
    BY Zenon DEF Alerts!create_alert

\* The types of the variables are kept.
LEMMA AlertTypes ==
    ASSUME NEW S, NEW A, NEW E, "sweep" \notin S, Alerts(S, A, E)!TypeOK, Alerts(S, A, E)!Next
    PROVE  Alerts(S, A, E)!TypeOK'
<1> DEFINE Tr == S \cup {"sweep"}
<1> USE DEF Alerts!TypeOK, Alerts!Rows, Alerts!Transactions, Alerts!Sweep, Alerts!callVars
<1>1. ASSUME NEW s \in S, Alerts(S, A, E)!Connect(s) \/ Alerts(S, A, E)!Disconnect(s) PROVE Alerts(S, A, E)!TypeOK'
  <2>1. CASE Alerts(S, A, E)!Connect(s)
    <3>1. PICK b \in BOOLEAN :
             /\ call' = [call EXCEPT ![s] = "ready"] /\ seen' = [seen EXCEPT ![s] = maint]
             /\ marked' = [marked EXCEPT ![s] = b]
             /\ UNCHANGED <<alert, level, maint, lock, todo, pend, clear, ins, mail, mailed>>
      BY <2>1, Zenon DEF Alerts!Connect
    <3>2. /\ call' \in [S -> {"closed", "ready", "handling", "ending"}]
          /\ seen' \in [S -> BOOLEAN] /\ marked' \in [S -> BOOLEAN]
      BY <3>1, SMTT(30)
    <3> QED
      BY <3>1, <3>2, Zenon
  <2>2. CASE Alerts(S, A, E)!Disconnect(s)
    BY <2>2, ZenonT(30) DEF Alerts!Disconnect
  <2> QED
    BY <1>1, <2>1, <2>2, Zenon
<1>2. ASSUME NEW s \in S, Alerts(S, A, E)!Report(s) PROVE Alerts(S, A, E)!TypeOK'
  <2>1. PICK raise, resolve :
           /\ Alerts(S, A, E)!Receive(s, raise, resolve)
           /\ lock' \in {lock, s} /\ marked' \in {marked, [marked EXCEPT ![s] = FALSE]}
    BY Zenon, <1>2, ReportReceived
  <2>2. /\ call' \in [S -> {"closed", "ready", "handling", "ending"}]
        /\ todo' \in [S -> SUBSET A] /\ clear' \in [S -> SUBSET A] /\ marked' \in [S -> BOOLEAN]
    BY <2>1, Zenon DEF Alerts!Receive
  <2> QED
    BY Zenon, <2>1, <2>2 DEF Alerts!Receive
<1>3. ASSUME NEW s \in S, Alerts(S, A, E)!create_alert(s) PROVE Alerts(S, A, E)!TypeOK'
  <2> HIDE DEF Alerts!TypeOK
  <2>0. PICK t \in todo[s] :
           \/ /\ call' = [call EXCEPT ![s] = "ending"] /\ pend' = pend
              /\ todo' = [todo EXCEPT ![s] = {}] /\ clear' = [clear EXCEPT ![s] = {}]
           \/ /\ todo' = [todo EXCEPT ![s] = @ \ {t}] /\ UNCHANGED <<call, clear>>
              /\ \/ pend' = [pend EXCEPT ![s] = None]
                 \/ /\ pend' = [pend EXCEPT ![s] = t]
                    /\ Alerts(S, A, E)!Unresolved(t) = {}
    BY <1>3, CreateAlert, SMTT(30)
  <2> USE DEF Alerts!TypeOK
  <2>1. call' \in [S -> {"closed", "ready", "handling", "ending"}]
    BY Zenon, <2>0
  <2>2. todo' \in [S -> SUBSET A]
    BY <2>0
  <2>3. clear' \in [S -> SUBSET A]
    BY Zenon, <2>0
  <2>4. pend' \in [S -> A \cup {None}]
    BY <2>0
  <2> QED
    BY Zenon, <1>3, <2>1, <2>2, <2>3, <2>4 DEF Alerts!create_alert
<1>4. ASSUME NEW s \in S, Alerts(S, A, E)!Flush(s) PROVE Alerts(S, A, E)!TypeOK'
  <2>1. Alerts(S, A, E)!NewRow(pend[s]) \in A \X Slots
    BY Zenon, <1>4, NewRowFree DEF Alerts!Flush
  <2> QED
    BY <1>4, <2>1 DEF Alerts!Flush, Alerts!Notified
<1>5. ASSUME NEW s \in S, Alerts(S, A, E)!Commit(s) \/ Alerts(S, A, E)!End(s) PROVE Alerts(S, A, E)!TypeOK'
  <2>1. alert' \in [A \X Slots -> {"none", "open", "resolved"}]
    BY <1>5 DEF Alerts!Commit, Alerts!End, Alerts!Apply
  <2> QED
    BY <1>5, <2>1, ZenonT(30) DEF Alerts!Commit, Alerts!End, Alerts!Apply
<1>6. ASSUME NEW s \in S, Alerts(S, A, E)!Abort(s) PROVE Alerts(S, A, E)!TypeOK'
    BY Zenon, <1>6 DEF Alerts!Abort
<1>7. ASSUME NEW a \in A \X Slots, Alerts(S, A, E)!resolve_alert(a) \/ Alerts(S, A, E)!DeleteOld(a)
      PROVE  Alerts(S, A, E)!TypeOK'
    BY <1>7 DEF Alerts!resolve_alert, Alerts!DeleteOld
<1>8. ASSUME NEW a \in A \X Slots, Alerts(S, A, E)!send_alert_email_task(a) PROVE Alerts(S, A, E)!TypeOK'
    BY Zenon, <1>8 DEF Alerts!send_alert_email_task
<1>9. ASSUME NEW t \in A, NEW l \in {"low", "mid", "high", "skew"}, Alerts(S, A, E)!Measure(t, l)
      PROVE  Alerts(S, A, E)!TypeOK'
    BY Zenon, <1>9 DEF Alerts!Measure
<1>10. CASE Alerts(S, A, E)!SweepMarks
  <2>1. Alerts(S, A, E)!NewRow("offline") \in A \X Slots
    BY Zenon, <1>10, NewRowFree DEF Alerts!SweepMarks
  <2> QED
    BY <1>10, <2>1 DEF Alerts!SweepMarks
<1>11. CASE Alerts(S, A, E)!SweepCommits
    BY Zenon, <1>11 DEF Alerts!SweepCommits, Alerts!Apply
<1>12. CASE Alerts(S, A, E)!set_device_maintenance
    BY <1>12, Zenon DEF Alerts!set_device_maintenance
<1> HIDE DEF Alerts!TypeOK, Alerts!Rows, Alerts!Transactions, Alerts!Sweep, Alerts!callVars
<1> QED
    BY Zenon, <1>1, <1>2, <1>3, <1>4, <1>5, <1>6, <1>7, <1>8, <1>9, <1>10, <1>11, <1>12
       DEF Alerts!Next, Alerts!Rows

\* Every step keeps the invariant.
LEMMA AlertStep ==
    ASSUME NEW S, NEW A, NEW E, NEW T, Exclusive(S, A, T), AlertInv(S, A, E, T),
           [Alerts(S, A, E)!Next]_(Alerts(S, A, E)!vars)
    PROVE  AlertInv(S, A, E, T)'
<1> DEFINE Tr == S \cup {"sweep"}
<1>0. /\ alert \in [A \X Slots -> {"none", "open", "resolved"}] /\ ins \in [Tr -> SUBSET (A \X Slots)]
      /\ call \in [S -> {"closed", "ready", "handling", "ending"}]
      /\ todo \in [S -> SUBSET A] /\ pend \in [S -> A \cup {None}]
      /\ mailed \subseteq A \X Slots
    BY Zenon DEF AlertInv, Alerts!TypeOK, Alerts!Rows, Alerts!Transactions, Alerts!Sweep
<1>1. CASE UNCHANGED Alerts(S, A, E)!vars
  <2>1. UNCHANGED <<alert, level, maint, lock, call, todo, pend, clear, seen, marked, ins, mail, mailed>>
    BY Zenon, <1>1 DEF Alerts!vars, Alerts!callVars
  <2>2. Alerts(S, A, E)!TypeOK'
    BY Zenon, <2>1 DEF AlertInv, Alerts!TypeOK
  <2>3. \A a \in mailed' : alert'[a] # "none"
    BY Zenon, <2>1 DEF AlertInv
  <2> QED
    BY Zenon, <2>1, <2>2, <2>3, AlertIdle
<1>2. SUFFICES ASSUME Alerts(S, A, E)!Next, Alerts(S, A, E)!TypeOK' PROVE AlertInv(S, A, E, T)'
    BY <1>1, AlertTypes, Zenon DEF AlertInv, Exclusive
<1>3. ASSUME NEW s \in S, Alerts(S, A, E)!Connect(s) \/ Alerts(S, A, E)!Disconnect(s) PROVE AlertInv(S, A, E, T)'
  <2>1. /\ UNCHANGED <<alert, lock, todo, pend, ins, mailed>>
        /\ call[s] \in {"closed", "ready"} /\ \E c \in {"closed", "ready"} : call' = [call EXCEPT ![s] = c]
    BY Zenon, <1>3 DEF Alerts!Connect, Alerts!Disconnect
  <2>2. Handles(s)' = Handles(s) /\ todo[s] = {} /\ pend[s] = None /\ ins[s] = {}
    BY Zenon, <2>1 DEF AlertInv, Busy, Handles
  <2>3. /\ \A r \in S \ {s} : call'[r] = call[r] /\ todo'[r] = todo[r] /\ pend'[r] = pend[r]
        /\ \A x \in (S \cup {"sweep"}) \ {s} : ins'[x] = ins[x]
        /\ ins'[s] = {} /\ todo'[s] = {} /\ pend'[s] = pend[s] /\ pend'[s] = None
    BY Zenon, <1>0, <2>1, <2>2
  <2>4. Lessens(S, A, T, s)
    BY <2>1, <2>2, <2>3, Zenon DEF Lessens
  <2> QED
    BY Zenon, <1>2, <2>4, AlertLess
<1>4. ASSUME NEW s \in S, Alerts(S, A, E)!Report(s) PROVE AlertInv(S, A, E, T)'
  <2>1. PICK raise, resolve :
           /\ Alerts(S, A, E)!Receive(s, raise, resolve) /\ "offline" \notin raise
           /\ \/ lock = None /\ lock' = s /\ marked' = [marked EXCEPT ![s] = FALSE]
              \/ raise \cap MetricTypes = {} /\ UNCHANGED <<lock, marked>>
    BY Zenon, <1>4, ReportReceived
  <2>2. /\ call[s] = "ready" /\ call' = [call EXCEPT ![s] = "handling"]
        /\ todo' = [todo EXCEPT ![s] = raise \cap A] /\ UNCHANGED <<alert, pend, ins, mailed>>
    BY Zenon, <2>1 DEF Alerts!Receive
  <2>3. todo[s] = {} /\ pend[s] = None /\ ins[s] = {}
    BY Zenon, <2>2 DEF AlertInv, Busy
  <2>4. Handles(s)' = raise \cap A /\ \A r \in S \ {s} : Handles(r)' = Handles(r)
    BY SMTT(30), <1>0, <2>2, <2>3 DEF Handles
  <2>5. \A r \in S : \A t \in Handles(r)' : t # "offline" /\ (t \in MetricTypes => lock' = r)
    BY <2>1, <2>4 DEF AlertInv, Busy, Exclusive
  <2>6. /\ call'[s] = "handling" /\ todo'[s] = raise \cap A
        /\ \A r \in S \ {s} : call'[r] = call[r] /\ todo'[r] = todo[r]
    BY Zenon, <1>0, <2>2
  <2> QED
    BY <1>2, <2>2, <2>3, <2>5, <2>6 DEF AlertInv, Busy, Inserting, Alone, Exclusive
<1>5. ASSUME NEW s \in S, Alerts(S, A, E)!create_alert(s) PROVE AlertInv(S, A, E, T)'
  <2>1. PICK t \in todo[s] :
           \/ /\ call' = [call EXCEPT ![s] = "ending"] /\ pend' = pend
              /\ todo' = [todo EXCEPT ![s] = {}]
           \/ /\ todo' = [todo EXCEPT ![s] = @ \ {t}] /\ UNCHANGED call
              /\ \/ pend' = [pend EXCEPT ![s] = None]
                 \/ /\ pend' = [pend EXCEPT ![s] = t]
                    /\ Alerts(S, A, E)!Unresolved(t) = {}
    BY <1>5, CreateAlert
  <2>2. call[s] = "handling" /\ pend[s] = None /\ UNCHANGED <<alert, lock, ins, mailed>>
    BY SMTT(30), <1>5, CreateAlert
  <2>3. /\ \A r \in S \ {s} : call'[r] = call[r] /\ todo'[r] = todo[r] /\ pend'[r] = pend[r]
        /\ todo'[s] \subseteq todo[s] /\ pend'[s] \in {None, t}
        /\ pend'[s] \notin todo'[s]
        /\ call'[s] # "handling" => todo'[s] = {} /\ pend'[s] = None
        /\ call'[s] \notin {"closed", "ready"}
    BY SMTT(30), <1>0, <2>1, <2>2 DEF Exclusive
  <2>4. Handles(s)' \subseteq Handles(s)
    BY ZenonT(30), <2>1, <2>2, <2>3 DEF Handles
  <2>5. \A a \in ins'[s] : a[1] \notin todo'[s] /\ a[1] # pend'[s]
    BY SMTT(30), <1>0, <2>1, <2>2, <2>3 DEF AlertInv, Busy, Exclusive
  <2>6. pend'[s] # pend[s] => \A a \in A \X Slots : alert[a] = "open" /\ a[1] \in T => pend'[s] # a[1]
    <3>1. pend'[s] # pend[s] => pend'[s] = t /\ Alerts(S, A, E)!Unresolved(t) = {}
      BY Zenon, <1>0, <2>1, <2>2
    <3> QED
      BY Zenon, <3>1 DEF Alerts!Unresolved, Alerts!Rows
  <2>7. /\ \A x \in (S \cup {"sweep"}) \ {s} : ins'[x] = ins[x]
        /\ ins'[s] \subseteq ins[s]
    BY Zenon, <2>2
  <2>8. Lessens(S, A, T, s)
    BY Zenon, <2>2, <2>3, <2>4, <2>5, <2>6, <2>7 DEF Lessens
  <2> QED
    BY Zenon, <1>2, <2>8, AlertLess
<1>6. ASSUME NEW s \in S, Alerts(S, A, E)!Abort(s) PROVE AlertInv(S, A, E, T)'
  <2>1. /\ UNCHANGED <<alert, mailed>> /\ call' = [call EXCEPT ![s] = "closed"]
        /\ todo' = [todo EXCEPT ![s] = {}] /\ pend' = [pend EXCEPT ![s] = None] /\ ins' = [ins EXCEPT ![s] = {}]
        /\ lock' = IF lock = s THEN None ELSE lock
    BY Zenon, <1>6 DEF Alerts!Abort
  <2>2. /\ \A r \in S \ {s} : call'[r] = call[r] /\ todo'[r] = todo[r] /\ pend'[r] = pend[r]
        /\ \A x \in (S \cup {"sweep"}) \ {s} : ins'[x] = ins[x]
        /\ call'[s] = "closed" /\ todo'[s] = {} /\ pend'[s] = None /\ ins'[s] = {}
    BY Zenon, <1>0, <2>1
  <2>3. Handles(s)' = {}
    BY Zenon, <2>2 DEF Handles
  <2>4. Lessens(S, A, T, s)
    BY <2>1, <2>2, <2>3, ZenonT(30) DEF Lessens, Exclusive
  <2> QED
    BY Zenon, <1>2, <2>4, AlertLess
<1>7. ASSUME NEW s \in S, Alerts(S, A, E)!Flush(s) PROVE AlertInv(S, A, E, T)'
  <2> DEFINE t == pend[s]
             new == Alerts(S, A, E)!NewRow(pend[s])
  <2>0. t # None /\ Alerts(S, A, E)!Unused(t) # {}
    BY <1>7, Zenon DEF Alerts!Flush
  <2>1. /\ t # None /\ new \in A \X Slots /\ new[1] = t
        /\ UNCHANGED lock \/ (lock \in {None, s} /\ lock' = s)
        /\ ins' = [ins EXCEPT ![s] = @ \cup {new}] /\ pend' = [pend EXCEPT ![s] = None]
        /\ UNCHANGED <<alert, call, todo, mailed>>
    <3>1. new \in A \X Slots /\ new[1] = t
      BY SMTT(30), <2>0, NewRowFree
    <3> HIDE DEF new
    <3> QED
      BY Zenon, <1>7, <2>0, <3>1 DEF Alerts!Flush, new
  <2> HIDE DEF new
  <2>2. /\ t \in A /\ t \notin todo[s] /\ call[s] = "handling" /\ t \in Handles(s)
        /\ \A a \in ins[s] : a[1] # t
    BY Zenon, <1>0, <2>1 DEF AlertInv, Busy, Handles
  <2>3. /\ ins'[s] = ins[s] \cup {new} /\ pend'[s] = None
        /\ \A x \in Tr \ {s} : ins'[x] = ins[x]
        /\ \A r \in S \ {s} : pend'[r] = pend[r]
    BY Zenon, <1>0, <2>1
  <2>4. Handles(s)' = Handles(s) /\ \A r \in S \ {s} : Handles(r)' = Handles(r)
    BY <1>0, <2>1, <2>2, <2>3, SMTT(30) DEF Handles
  <2>5. \A r \in S : \A u \in Handles(r)' : u # "offline" /\ (u \in MetricTypes => lock' = r)
    BY <2>1, <2>4, SMTT(30) DEF AlertInv, Busy, Exclusive
  <2>6. \A r \in S :
          /\ call'[r] # "handling" => todo'[r] = {} /\ pend'[r] = None
          /\ call'[r] \in {"closed", "ready"} => ins'[r] = {}
          /\ pend'[r] \notin todo'[r]
          /\ \A a \in ins'[r] : a[1] \notin todo'[r] /\ a[1] # pend'[r]
    BY SMTT(30), <1>0, <2>1, <2>2, <2>3 DEF AlertInv, Busy, Exclusive
  <2>7. /\ \A a \in ins'["sweep"] : a[1] = "offline"
        /\ \A x \in Tr : \A a, b \in ins'[x] : a[1] = b[1] => a = b
    BY <2>1, <2>2, <2>3, SMTT(30) DEF AlertInv, Inserting, Exclusive
  <2>8. \A a \in A \X Slots : alert[a] = "open" /\ a[1] \in T =>
          /\ \A r \in S : pend'[r] # a[1]
          /\ \A x \in Tr : \A b \in ins'[x] : b[1] # a[1]
    BY SMTT(30), <1>0, <2>1, <2>2, <2>3 DEF AlertInv, Alone, Exclusive
  <2>9. Busy(S)'
    BY Zenon, <2>5, <2>6 DEF Busy
  <2>10. Inserting(S)'
    BY Zenon, <2>7 DEF Inserting
  <2>11. Alone(S, A, T)'
    BY Zenon, <2>1, <2>8 DEF AlertInv, Alone
  <2> QED
    BY <1>2, <2>1, <2>9, <2>10, <2>11, Zenon DEF AlertInv
<1>8. ASSUME NEW s \in S, Alerts(S, A, E)!Commit(s) \/ Alerts(S, A, E)!End(s) PROVE AlertInv(S, A, E, T)'
  <2>1. /\ \E resolved : Alerts(S, A, E)!Apply(s, resolved)
        /\ \E c \in {"ready", "closed"} : call' = [call EXCEPT ![s] = c]
        /\ UNCHANGED <<todo, pend, mailed>>
        /\ (call[s] = "handling" /\ todo[s] = {} /\ pend[s] = None) \/ call[s] = "ending"
    BY <1>8, Zenon DEF Alerts!Commit, Alerts!End
  <2>2. todo[s] = {} /\ pend[s] = None
    BY <2>1, Zenon DEF AlertInv, Busy
  <2>3. call'[s] # "handling" /\ \A r \in S \ {s} : call'[r] = call[r]
    BY <1>0, <2>1, Zenon
  <2> QED
    BY Zenon, <1>2, <2>1, <2>2, <2>3, AlertApply
<1>9. CASE Alerts(S, A, E)!SweepCommits
  <2>1. Alerts(S, A, E)!Apply("sweep", {}) /\ UNCHANGED <<call, todo, pend, mailed>>
    BY Zenon, <1>9 DEF Alerts!SweepCommits, Alerts!Sweep, Alerts!callVars
  <2> QED
    BY <1>2, <2>1, AlertApply, Zenon DEF Exclusive
<1>10. CASE Alerts(S, A, E)!SweepMarks
  <2> DEFINE new == Alerts(S, A, E)!NewRow("offline")
  <2>1. /\ new \in A \X Slots /\ new[1] = "offline" /\ lock = None
        /\ ins' = [ins EXCEPT !["sweep"] = {new}]
        /\ UNCHANGED <<alert, call, todo, pend, mailed>>
        /\ \A a \in A \X Slots : a[1] = "offline" => alert[a] # "open"
    BY <1>10, NewRowFree, SMTT(30)
       DEF Alerts!SweepMarks, Alerts!Sweep, Alerts!callVars, Alerts!Unresolved, Alerts!Rows
  <2> HIDE DEF new
  <2>2. ins'["sweep"] = {new} /\ \A r \in S : ins'[r] = ins[r]
    BY Zenon, <1>0, <2>1 DEF Exclusive
  <2>3. \A r \in S : Handles(r)' = Handles(r)
    BY Zenon, <2>1, <2>2 DEF Handles
  <2>4. \A r \in S : \A u \in Handles(r)' : u # "offline" /\ (u \in MetricTypes => lock' = r)
    BY <2>1, <2>3, SMTT(30) DEF AlertInv, Busy, Exclusive
  <2>5. Busy(S)'
    BY SMTT(30), <2>1, <2>2, <2>4 DEF AlertInv, Busy
  <2>6. Inserting(S)'
    BY SMTT(30), <2>1, <2>2 DEF AlertInv, Inserting
  <2>7. Alone(S, A, T)'
    BY <2>1, <2>2 DEF AlertInv, Alone
  <2> QED
    BY <1>2, <2>1, <2>5, <2>6, <2>7, Zenon DEF AlertInv
<1>11. ASSUME NEW a \in A \X Slots,
              \/ Alerts(S, A, E)!resolve_alert(a) \/ Alerts(S, A, E)!DeleteOld(a)
              \/ Alerts(S, A, E)!send_alert_email_task(a)
       PROVE  AlertInv(S, A, E, T)'
  <2>1. /\ UNCHANGED <<lock, call, todo, pend, ins>>
        /\ \A b \in A \X Slots : alert'[b] = "open" => alert[b] = "open"
        /\ \A b \in mailed' : alert'[b] # "none"
    BY Zenon, <1>0, <1>11 DEF AlertInv, Alerts!resolve_alert, Alerts!DeleteOld, Alerts!send_alert_email_task,
                        Alerts!callVars
  <2> QED
    BY <1>2, <2>1, AlertIdle, Zenon
<1>12. ASSUME \/ Alerts(S, A, E)!set_device_maintenance
              \/ \E t \in A, l \in {"low", "mid", "high", "skew"} : Alerts(S, A, E)!Measure(t, l)
       PROVE  AlertInv(S, A, E, T)'
  <2>1. UNCHANGED <<alert, lock, call, todo, pend, ins, mailed>>
    BY <1>12, Zenon DEF Alerts!set_device_maintenance, Alerts!Measure, Alerts!callVars
  <2>2. \A b \in mailed' : alert'[b] # "none"
    BY Zenon, <2>1 DEF AlertInv
  <2> QED
    BY <1>2, <2>1, <2>2, AlertIdle, Zenon
<1> QED
    BY Zenon, <1>2, <1>3, <1>4, <1>5, <1>6, <1>7, <1>8, <1>9, <1>10, <1>11, <1>12 DEF Alerts!Next, Alerts!Rows

\* The invariant gives the properties, for any calls that overlap.
LEMMA AlertBounds ==
    ASSUME NEW S, NEW A, NEW E, NEW T, AlertInv(S, A, E, T)
    PROVE  /\ Alerts(S, A, E)!TypeOK /\ Alerts(S, A, E)!NoPhantomMail
           /\ T = A => Alerts(S, A, E)!OneOpenPerType
           /\ T = MetricTypes \cap A => Alerts(S, A, E)!OneOpenPerMetric
<1>1. \A t \in T : \A a, b \in Alerts(S, A, E)!Unresolved(t) : a = b
    BY DEF AlertInv, Alone, Alerts!Unresolved, Alerts!Rows
<1>2. Alerts(S, A, E)!TypeOK /\ Alerts(S, A, E)!NoPhantomMail
    BY Zenon DEF AlertInv, Alerts!NoPhantomMail
<1>3. T = A => Alerts(S, A, E)!OneOpenPerType
    BY <1>1, Zenon DEF Alerts!OneOpenPerType
<1>4. T = MetricTypes \cap A => Alerts(S, A, E)!OneOpenPerMetric
    BY <1>1, Zenon DEF Alerts!OneOpenPerMetric, Alerts!Metrics, MetricTypes
<1> QED
    BY Zenon, <1>2, <1>3, <1>4

\* However many connections of a device overlap, create_alert leaves at most one
\* unresolved alert of each metric; nothing is mailed about an alert that was
\* rolled back.
THEOREM AlertsCorrect ==
    ASSUME NEW CONSTANT S, NEW CONSTANT A, NEW CONSTANT E, None \notin S \cup A, "sweep" \notin S
    PROVE  Alerts(S, A, E)!Spec => [](Alerts(S, A, E)!OneOpenPerMetric /\ Alerts(S, A, E)!NoPhantomMail)
<1> DEFINE T == MetricTypes \cap A
<1>1. Exclusive(S, A, T)
    BY Zenon DEF Exclusive
<1> HIDE DEF T
<1>2. Alerts(S, A, E)!Init => AlertInv(S, A, E, T)
    BY Zenon, <1>1, AlertInit
<1>3. AlertInv(S, A, E, T) /\ [Alerts(S, A, E)!Next]_(Alerts(S, A, E)!vars) => AlertInv(S, A, E, T)'
    BY Zenon, <1>1, AlertStep
<1>4. AlertInv(S, A, E, T) => Alerts(S, A, E)!OneOpenPerMetric /\ Alerts(S, A, E)!NoPhantomMail
    BY Zenon, AlertBounds DEF T
<1> QED
    BY <1>2, <1>3, <1>4, PTL DEF Alerts!Spec

\* With one connection at a time it leaves at most one unresolved alert of each
\* type.
THEOREM OneConnectionCorrect ==
    ASSUME NEW CONSTANT s, NEW CONSTANT A, NEW CONSTANT E, None \notin {s} \cup A, s # "sweep"
    PROVE  Alerts({s}, A, E)!Spec => []Alerts({s}, A, E)!OneOpenPerType
<1>1. Exclusive({s}, A, A)
    BY Zenon DEF Exclusive
<1>2. Alerts({s}, A, E)!Init => AlertInv({s}, A, E, A)
    BY Zenon, <1>1, AlertInit
<1>3. AlertInv({s}, A, E, A) /\ [Alerts({s}, A, E)!Next]_(Alerts({s}, A, E)!vars) => AlertInv({s}, A, E, A)'
    BY Zenon, <1>1, AlertStep
<1>4. AlertInv({s}, A, E, A) => Alerts({s}, A, E)!OneOpenPerType
    BY Zenon, AlertBounds
<1> QED
    BY <1>2, <1>3, <1>4, PTL DEF Alerts!Spec
=============================================================================
