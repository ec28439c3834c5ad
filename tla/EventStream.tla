----------------------------- MODULE EventStream -----------------------------
(***************************************************************************)
(* Live updates of the dashboard over server-sent events:                  *)
(*   server/app/services/event_stream.py, activity_stream.py  the queues   *)
(*   server/app/api/v1/event_stream.py, activity_stream.py    the handlers *)
(*   server/app/services/notification_service.py, websocket/handler.py     *)
(*                                                           publishers    *)
(*   frontend/src/hooks/useSSE.ts, useActivityStream.ts       the clients  *)
(*                                                                         *)
(* Every process (API workers, Celery) has queues of its own.  One user    *)
(* with several tabs; items are numbered in the order of publication.      *)
(***************************************************************************)
EXTENDS Naturals, Sequences, FiniteSets

CONSTANTS
    Tabs,
    Workers,        \* API processes a stream may be opened at
    Publishers,     \* processes that publish: Workers, and Celery's
    Streams,        \* stream requests being handled (bound)
    Limited,        \* TRUE for /events/stream, which counts its connections
    MaxStreams,     \* MAX_SSE_CONNECTIONS
    QueueMax,       \* capacity of a stream's queue
    MaxItems,       \* items published (bound)
    Environment,    \* subset of {"vanish", "lost", "expire"}
    None

VARIABLES
    tab,        \* per tab: "off", "idle" (waits to connect), "open"
    on,         \* per tab: its stream, None if it has none
    token,      \* per tab: is the access token it started with still valid
    conn,       \* per stream: see Steps
    at,         \* per stream: its worker
    count,      \* per worker: _connection_counts of the user
    queue,      \* per stream: items not yet sent
    items,      \* number of items published
    newest,     \* history, per stream: the last item published to its queue
    sentTo,     \* history, per stream: the last item sent
    last,       \* history, per tab: the last item it received
    since       \* history, per tab: items published before its stream opened

tabVars == <<tab, on, token, last, since>>
vars == <<tabVars, conn, at, count, queue, items, newest, sentTo>>

\* "request": not yet admitted; "subscribed": it is counted, its queue is
\* registered and the response is returned; "running": the generator has started.
\* Neither lock is held across a suspension, so taking one never suspends: the
\* handler up to its return is one step, and so is the generator's finally.
Steps == {"free", "request", "subscribed", "running"}
Subscribed(c) == conn[c] \in {"subscribed", "running"}

TypeOK ==
    /\ tab \in [Tabs -> {"off", "idle", "open"}]
    /\ on \in [Tabs -> Streams \cup {None}]
    /\ token \in [Tabs -> BOOLEAN]
    /\ conn \in [Streams -> Steps]
    /\ at \in [Streams -> Workers \cup {None}]
    /\ count \in [Workers -> Nat]
    /\ queue \in [Streams -> Seq(1..MaxItems)] /\ \A c \in Streams : Len(queue[c]) <= QueueMax
    /\ items \in 0..MaxItems
    /\ newest \in [Streams -> 0..MaxItems] /\ sentTo \in [Streams -> 0..MaxItems]
    /\ last \in [Tabs -> 0..MaxItems] /\ since \in [Tabs -> 0..MaxItems]

Init ==
    /\ tab = [t \in Tabs |-> "off"] /\ on = [t \in Tabs |-> None]
    /\ token = [t \in Tabs |-> TRUE]
    /\ conn = [c \in Streams |-> "free"] /\ at = [c \in Streams |-> None]
    /\ count = [w \in Workers |-> 0]
    /\ queue = [c \in Streams |-> <<>>]
    /\ items = 0
    /\ newest = [c \in Streams |-> 0] /\ sentTo = [c \in Streams |-> 0]
    /\ last = [t \in Tabs |-> 0] /\ since = [t \in Tabs |-> 0]

-----------------------------------------------------------------------------
(* Publishing: every queue of this process gets the item; a full queue loses *)
(* its oldest.                                                               *)

\* Mutant: the queue has no limit.
PushUnbounded(q, x) == Append(q, x)

Push(q, x) == IF Len(q) < QueueMax THEN Append(q, x) ELSE Append(Tail(q), x)

publish(p) ==
    /\ items < MaxItems
    /\ items' = items + 1
    /\ queue' = [c \in Streams |-> IF Subscribed(c) /\ at[c] = p THEN Push(queue[c], items')
                                   ELSE queue[c]]
    /\ newest' = [c \in Streams |-> IF Subscribed(c) /\ at[c] = p THEN items' ELSE newest[c]]
    /\ UNCHANGED <<tabVars, conn, at, count, sentTo>>

-----------------------------------------------------------------------------
(* The client *)

\* A component mounts: the hook reads the access token, once.
Mount(t) ==
    /\ tab[t] = "off"
    /\ tab' = [tab EXCEPT ![t] = "idle"]
    /\ token' = [token EXCEPT ![t] = TRUE]
    /\ UNCHANGED <<on, last, since, conn, at, count, queue, items, newest, sentTo>>

\* connect: fetch, at whichever worker takes the request.
Fetch(t, c, w) ==
    /\ tab[t] = "idle" /\ on[t] = None /\ conn[c] = "free"
    /\ on' = [on EXCEPT ![t] = c]
    /\ conn' = [conn EXCEPT ![c] = "request"] /\ at' = [at EXCEPT ![c] = w]
    /\ UNCHANGED <<tab, token, last, since, count, queue, items, newest, sentTo>>

\* The response has arrived and is being read.
Open(t) ==
    /\ tab[t] = "idle" /\ on[t] # None /\ conn[on[t]] = "running"
    /\ tab' = [tab EXCEPT ![t] = "open"]
    /\ since' = [since EXCEPT ![t] = items]
    /\ UNCHANGED <<on, token, last, conn, at, count, queue, items, newest, sentTo>>

\* The component unmounts and aborts its request.  Unless clients vanish early,
\* it does so when the stream is running.
Unmount(t) ==
    /\ tab[t] # "off"
    /\ on[t] # None /\ conn[on[t]] # "running" => "vanish" \in Environment
    /\ tab' = [tab EXCEPT ![t] = "off"] /\ on' = [on EXCEPT ![t] = None]
    /\ UNCHANGED <<token, last, since, conn, at, count, queue, items, newest, sentTo>>

\* The connection breaks, and the hook will connect again.
Lose(t) ==
    /\ "lost" \in Environment /\ tab[t] = "open"
    /\ tab' = [tab EXCEPT ![t] = "idle"] /\ on' = [on EXCEPT ![t] = None]
    /\ UNCHANGED <<token, last, since, conn, at, count, queue, items, newest, sentTo>>

\* The token expires.  A refresh stores a new one, which the hook does not read.
Expire(t) ==
    /\ "expire" \in Environment /\ tab[t] # "off" /\ token[t]
    /\ token' = [token EXCEPT ![t] = FALSE]
    /\ UNCHANGED <<tab, on, last, since, conn, at, count, queue, items, newest, sentTo>>

-----------------------------------------------------------------------------
(* The handlers *)

Reader(c) == {t \in Tabs : on[t] = c}
\* Every subscription has a queue of its own.
Clear(c) == /\ queue' = [queue EXCEPT ![c] = <<>>]
            /\ newest' = [newest EXCEPT ![c] = 0] /\ sentTo' = [sentTo EXCEPT ![c] = 0]

Forget(c) == on' = [t \in Tabs |-> IF on[t] = c THEN None ELSE on[t]]

\* 401, or 429 if the user has too many streams at this process.
Full(w) == Limited /\ count[w] >= MaxStreams
Refuse(c) ==
    /\ conn[c] = "request"
    /\ \/ \E t \in Reader(c) : ~token[t]
       \/ Full(at[c])
    /\ conn' = [conn EXCEPT ![c] = "free"] /\ at' = [at EXCEPT ![c] = None]
    /\ Forget(c)
    /\ UNCHANGED <<tab, token, last, since, count, queue, items, newest, sentTo>>

Admit(c) ==
    /\ conn[c] = "request" /\ \A t \in Reader(c) : token[t]
    /\ ~Full(at[c])
    /\ count' = IF Limited THEN [count EXCEPT ![at[c]] = @ + 1] ELSE count
    /\ conn' = [conn EXCEPT ![c] = "subscribed"]
    /\ UNCHANGED <<tabVars, at, queue, items, newest, sentTo>>

\* The response starts to iterate the generator; if the client has left, it may
\* never do so, and then the generator's finally does not run either.
StartStream(c) ==
    /\ conn[c] = "subscribed"
    /\ conn' = [conn EXCEPT ![c] = "running"]
    /\ UNCHANGED <<tabVars, at, count, queue, items, newest, sentTo>>

NeverStart(c) ==
    /\ conn[c] = "subscribed" /\ Reader(c) = {}
    /\ conn' = [conn EXCEPT ![c] = "free"] /\ at' = [at EXCEPT ![c] = None]
    /\ Clear(c)
    /\ UNCHANGED <<tabVars, count, items>>

\* queue.get, and the item is sent and shown.
Deliver(c) ==
    /\ conn[c] = "running" /\ queue[c] # <<>> /\ \E t \in Reader(c) : tab[t] = "open"
    /\ queue' = [queue EXCEPT ![c] = Tail(@)]
    /\ sentTo' = [sentTo EXCEPT ![c] = Head(queue[c])]
    /\ last' = [t \in Tabs |-> IF on[t] = c THEN Head(queue[c]) ELSE last[t]]
    /\ UNCHANGED <<tab, on, token, since, conn, at, count, items, newest>>

\* Mutant: the place is not given back.
FinallyWithoutCount(c) ==
    /\ conn[c] = "running" /\ Reader(c) = {}
    /\ conn' = [conn EXCEPT ![c] = "free"] /\ at' = [at EXCEPT ![c] = None]
    /\ Clear(c)
    /\ UNCHANGED <<tabVars, count, items>>

\* The generator ends: it unsubscribes and gives back its place.
Finally(c) ==
    /\ conn[c] = "running" /\ Reader(c) = {}
    /\ count' = IF Limited THEN [count EXCEPT ![at[c]] = IF @ > 0 THEN @ - 1 ELSE 0] ELSE count
    /\ conn' = [conn EXCEPT ![c] = "free"] /\ at' = [at EXCEPT ![c] = None]
    /\ Clear(c)
    /\ UNCHANGED <<tabVars, items>>

-----------------------------------------------------------------------------
HandlerStep(c) == Refuse(c) \/ Admit(c) \/ StartStream(c) \/ Finally(c)
Connecting(t) == Open(t) \/ \E c \in Streams, w \in Workers : Fetch(t, c, w)

Next ==
    \/ \E p \in Publishers : publish(p)
    \/ \E t \in Tabs : Mount(t) \/ Connecting(t) \/ Unmount(t) \/ Lose(t) \/ Expire(t)
    \/ \E c \in Streams : HandlerStep(c) \/ NeverStart(c) \/ Deliver(c)

Spec == Init /\ [][Next]_vars

-----------------------------------------------------------------------------
(***************************************************************************)
(* Properties                                                              *)
(***************************************************************************)

\* The count of a user's streams at a process is the number of its open streams, so a
\* request is refused as one too many only if that many streams are open.
CountMatchesStreams ==
    Limited => \A w \in Workers :
                  count[w] = Cardinality({c \in Streams : Subscribed(c) /\ at[c] = w})

\* A slow reader loses old items, never the newest: what was published last to a
\* stream is the last in its queue, or sent.
NewestKept ==
    \A c \in Streams :
        IF queue[c] # <<>> THEN queue[c][Len(queue[c])] = newest[c] ELSE sentTo[c] = newest[c]

\* A tab sees items in the order of publication, across its reconnections.
InOrder == \A t \in Tabs : last'[t] >= last[t]

\* A tab that wants a stream gets one.
StreamReopens == \A t \in Tabs : tab[t] = "idle" ~> tab[t] # "idle"

\* What is published while a tab reads its stream is shown there, unless the tab
\* loses the stream first or is shown something newer.
ItemsShown ==
    \A t \in Tabs, n \in 1..MaxItems :
        (tab[t] = "open" /\ since[t] < n /\ items >= n) ~> (last[t] >= n \/ tab[t] # "open")
=============================================================================
