----------------------------- MODULE AlertsFeed -----------------------------
(***************************************************************************)
(* Alerts in the web client: the list behind both badges (useAlerts), the  *)
(* store of unresolved alerts, which follows that list and takes in the    *)
(* alerts pushed by the event stream (alertStore, Topbar, useSSE), and the *)
(* Alerts page, where they are resolved.  The sidebar's badge counts the   *)
(* list, the top bar's counts the store.                                   *)
(***************************************************************************)
EXTENDS Page, SequencesExt

CONSTANTS
    Alerts,
    DeviceOf,       \* per alert: its device
    Passing         \* bound: the alerts that end by themselves, or are missed

Queries == {"unresolved", "page"}

List == query["unresolved"].data

Init ==
    /\ server = [open |-> {}, pushed |-> {}, future |-> Alerts]
    /\ query = [k \in Queries |-> [Query({}) EXCEPT !.state = "asked"]]
    /\ ui = [loaded |-> FALSE, unresolved |-> {}]
    /\ calls = <<>>
    /\ ghost = [lost |-> FALSE, unseen |-> {}, dropped |-> {}, stray |-> {}]

TypeOK ==
    /\ server \in [open : SUBSET Alerts, pushed : SUBSET Alerts, future : SUBSET Alerts]
    /\ \A k \in Queries : query[k].data \subseteq Alerts /\ query[k].answer \subseteq Alerts
    /\ ui \in [loaded : BOOLEAN, unresolved : SUBSET Alerts]
    /\ Len(calls) <= MaxCalls

-----------------------------------------------------------------------------
(* The server and its stream.                                              *)

\* An alert is created and published.
Raise(a) ==
    /\ a \in server.future
    /\ server' = [open |-> server.open \cup {a}, pushed |-> server.pushed \cup {a}, future |-> server.future \ {a}]
    /\ ghost' = [ghost EXCEPT !.unseen = Queries]
    /\ UNCHANGED <<query, ui, calls>>

\* Somebody else resolves an alert, or its condition is over.
Clear(a) ==
    /\ a \in server.open \cap Passing
    /\ server' = [server EXCEPT !.open = @ \ {a}]
    /\ ghost' = [ghost EXCEPT !.unseen = Queries]
    /\ UNCHANGED <<query, ui, calls>>

\* An alert is published while the stream is down.
Missed(a) ==
    /\ a \in server.pushed \cap Passing
    /\ server' = [server EXCEPT !.pushed = @ \ {a}]
    /\ UNCHANGED <<query, ui, calls, ghost>>

\* (history) The resolved alerts that leave the store.
Dropped(store) == ghost.dropped \cup {a \in ui.unresolved \ store : a \notin server.open}

\* (history) The alerts in the store that only their event has brought.
Stray(a) == IF ui.loaded /\ a \notin ui.unresolved THEN ghost.stray \cup {a} ELSE ghost.stray

\* An event arrives: the alert is put before the others unless it is there.
\* While the list is loading the store is emptied again by the render this
\* causes, whose default is a new empty list each time.
Pushed(a) ==
    /\ a \in server.pushed
    /\ server' = [server EXCEPT !.pushed = @ \ {a}]
    /\ ui' = [ui EXCEPT !.unresolved = IF ui.loaded THEN @ \cup {a} ELSE {}]
    /\ ghost' = [ghost EXCEPT !.stray = Stray(a)]
    /\ UNCHANGED <<query, calls>>

-----------------------------------------------------------------------------
(* The lists.                                                              *)

ServeList(k) ==
    /\ query[k].state = "asked"
    /\ query' = [query EXCEPT ![k].state = "answered", ![k].answer = server.open]
    /\ ghost' = [ghost EXCEPT !.unseen = @ \ {k}]
    /\ UNCHANGED <<server, ui, calls>>

\* The effect of the top bar: when the list is another one than before, it
\* becomes the store.  Equal data is the same list, and the store keeps what
\* was pushed.
setUnresolved(list) ==
    IF ui.loaded /\ list = List THEN ui.unresolved ELSE list

Deliver(k) ==
    /\ query[k].state = "answered"
    /\ query' = Arrived(k)
    /\ IF k = "unresolved"
       THEN LET store == setUnresolved(query[k].answer)
            IN /\ ui' = [loaded |-> TRUE, unresolved |-> store]
               /\ ghost' = [ghost EXCEPT !.stray = @ \cap (store \ query[k].answer), !.dropped = Dropped(store)]
       ELSE UNCHANGED <<ui, ghost>>
    /\ UNCHANGED <<server, calls>>

-----------------------------------------------------------------------------
(* The Alerts page.                                                        *)

\* Resolve, which is never disabled.
resolve(a) ==
    /\ a \in query["page"].data
    /\ Mutate("resolve", a)
    /\ UNCHANGED <<server, query, ui, ghost>>

\* Resolve All of a device: a request for each of its alerts on the page.
ResolveAll(d) ==
    LET ids == {a \in query["page"].data : DeviceOf[a] = d}
    IN  /\ ids # {} /\ ~Pending("resolve") /\ Cardinality(ids) <= MaxCalls - Len(calls)
        /\ LET s == SetToSeq(ids)
           IN calls' = calls \o [n \in DOMAIN s |-> [op |-> "resolve", arg |-> s[n], state |-> "sent"]]
        /\ UNCHANGED <<server, query, ui, ghost>>

HandleCall(i) ==
    /\ calls[i].state = "sent"
    /\ Handle(i, [server EXCEPT !.open = @ \ {calls[i].arg}])
    /\ UNCHANGED <<query, ui, ghost>>

\* Every query of alerts.
Invalidates == Queries

\* Mutant: the alert is taken from the lists in place.
OnSuccessInPlace(i) ==
    /\ calls[i].state = "handled"
    /\ calls' = Over(i)
    /\ query' = [k \in Queries |-> [query[k] EXCEPT !.data = @ \ {calls[i].arg}]]
    /\ ui' = [ui EXCEPT !.unresolved = @ \ {calls[i].arg}]
    /\ ghost' = [ghost EXCEPT !.dropped = Dropped(ui.unresolved \ {calls[i].arg})]
    /\ UNCHANGED server

OnSuccess(i) ==
    /\ calls[i].state = "handled"
    /\ calls' = Over(i)
    /\ query' = Invalidated(query, Invalidates)
    /\ UNCHANGED <<server, ui, ghost>>

Next ==
    \/ \E a \in Alerts : Raise(a) \/ Clear(a) \/ Missed(a) \/ Pushed(a) \/ resolve(a)
    \/ \E d \in {DeviceOf[a] : a \in Alerts} : ResolveAll(d)
    \/ \E i \in DOMAIN calls : HandleCall(i) \/ OnSuccess(i) \/ Fail(i)
    \/ (ui.loaded /\ Refetch("unresolved"))
    \/ \E k \in Queries : ServeList(k) \/ Deliver(k)
    \/ (ui.loaded /\ FetchFails("unresolved"))

Spec == Init /\ [][Next]_vars

-----------------------------------------------------------------------------

\* Once nothing is under way, and the server was asked after its last change,
\* both lists hold the unresolved alerts.  The store has them too, and no other
\* than one that was pushed since the list last changed: a pushed alert that is
\* resolved before a fetch has shown it stays, as the list is the same one as
\* before, and the store is not set again.
Settled ==
    Quiet /\ ~ghost.lost /\ ghost.unseen = {} =>
        /\ \A k \in Queries : query[k].data = server.open
        /\ server.open \subseteq ui.unresolved
        /\ ui.unresolved \ ghost.stray \subseteq server.open

\* The top bar's badge never misses an alert that the sidebar's counts, in
\* whatever order events and answers come in.
StoreCoversList ==
    ui.loaded => List \subseteq ui.unresolved

\* A resolved alert that has left the store does not come back but by a late
\* event: an answer read before it was resolved is not taken any more.
NeverBack ==
    ghost.dropped \cap ui.unresolved \subseteq ghost.stray
=============================================================================
