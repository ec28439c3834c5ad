-------------------------------- MODULE Page --------------------------------
(***************************************************************************)
(* What the pages of the web client share: a component with its state, the *)
(* queries and mutations it makes through react-query, and the server's    *)
(* data behind them.  A page module extends this one and says what its     *)
(* queries show (View), what its requests do on the server (Applied), what *)
(* its onSuccess callbacks do (OnSuccess), and what its controls do.       *)
(*                                                                         *)
(* A query is fetched in three steps: it is asked for, the server reads    *)
(* its data, the answer arrives.  A mutation as well: the request is sent, *)
(* the server has handled it, the callback runs; or it fails on the way,   *)
(* before or after the server has handled it.                              *)
(***************************************************************************)
EXTENDS Naturals, Sequences, FiniteSets

CONSTANTS
    MaxCalls    \* bound: requests a page makes

VARIABLES
    server,     \* what the server holds
    query,      \* the query cache: by key, what is shown and the fetch under way
    ui,         \* the state of the component
    calls,      \* the requests made, in the order they were made
    ghost       \* (history) lost: the page was not told of a change on the
                \* server, which happens once in a behaviour; and what the
                \* properties of the page remember

vars == <<server, query, ui, calls, ghost>>

-----------------------------------------------------------------------------
(* Queries.                                                                *)

Query(v) == [data |-> v, state |-> "idle", answer |-> v]

\* invalidateQueries: the queries of these keys are fetched again; a fetch
\* of theirs that is under way is abandoned.
Invalidated(q, keys) ==
    [k \in DOMAIN q |->
        IF k \in keys THEN [q[k] EXCEPT !.state = "asked", !.answer = q[k].data]
        ELSE q[k]]

\* An interval, a mount or a window's focus: no second fetch of a query that
\* is being fetched.
Refetch(k) ==
    /\ query[k].state = "idle"
    /\ query' = [query EXCEPT ![k].state = "asked"]
    /\ UNCHANGED <<server, ui, calls, ghost>>

\* The server reads what the query shows.
Serve(k, v) ==
    /\ query[k].state = "asked"
    /\ query' = [query EXCEPT ![k].state = "answered", ![k].answer = v]
    /\ UNCHANGED <<server, ui, calls, ghost>>

\* The answer is there: it is what the query shows from now on.
Arrived(k) == [query EXCEPT ![k] = Query(@.answer)]

\* The fetch fails, its retry too: the old data stays.
FetchFails(k) ==
    /\ query[k].state = "asked" /\ ~ghost.lost
    /\ query' = [query EXCEPT ![k] = Query(@.data)]
    /\ ghost' = [ghost EXCEPT !.lost = TRUE]
    /\ UNCHANGED <<server, ui, calls>>

-----------------------------------------------------------------------------
(* Mutations.                                                              *)

Open == {i \in DOMAIN calls : calls[i].state \in {"sent", "handled"}}

OpenOf(op) == {i \in Open : calls[i].op = op}

\* mutate: a request goes out, whether or not an earlier one is under way.
Mutate(op, arg) ==
    /\ Len(calls) < MaxCalls
    /\ calls' = Append(calls, [op |-> op, arg |-> arg, state |-> "sent"])

\* isPending follows the latest mutate of a mutation.
Pending(op) ==
    \E i \in OpenOf(op) : \A j \in DOMAIN calls : calls[j].op = op => j <= i

Over(i) == [calls EXCEPT ![i] = [op |-> @.op, arg |-> "over", state |-> "over"]]

\* The server handles a request.
Handle(i, s) ==
    /\ calls[i].state = "sent"
    /\ calls' = [calls EXCEPT ![i].state = "handled"]
    /\ server' = s

\* A request is refused, or it or its answer is lost: no onSuccess.
Fail(i) ==
    /\ i \in Open /\ (calls[i].state = "sent" \/ ~ghost.lost)
    /\ calls' = Over(i)
    /\ ghost' = [ghost EXCEPT !.lost = @ \/ calls[i].state = "handled"]
    /\ UNCHANGED <<server, query, ui>>

\* Nothing is under way.
Quiet == Open = {} /\ \A k \in DOMAIN query : query[k].state \notin {"asked", "answered"}
=============================================================================
