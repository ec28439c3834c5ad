---------------------------- MODULE AuditStream ----------------------------
(***************************************************************************)
(* The audit log and its live view: log_action, called by request handlers *)
(* inside their transactions; GET /audit/stream, which polls the table with *)
(* a cursor; and the live mode of the page AuditLog.tsx.  Nothing deletes   *)
(* entries.                                                                 *)
(*                                                                          *)
(* An entry's timestamp is the database's now(), the moment its transaction *)
(* began, and it becomes visible when the transaction commits.              *)
(***************************************************************************)
EXTENDS Naturals, FiniteSets, Sequences, SequencesExt

CONSTANTS
    Entries,        \* the entries written
    Writers,        \* how many transactions may be open at a time
    BatchMax,       \* limit(50)
    PageMax,        \* slice(0, 200)
    Environment,    \* what else happens: "drop" (the connection), "expire" (the
                    \* access token)
    None            \* no entry

VARIABLES
    entry,      \* per entry: "unused", "open" (flushed) or "committed"
    ts,         \* per entry: its timestamp
    now,        \* the database's clock
    stream,     \* the request: "none", "boot" (accepted), "poll", "refused"
    lastId,     \* last_id of the generator
    batch,      \* rows it has read and not yet sent
    mode,       \* liveMode of the page
    captured,   \* is the token startLive closes over still valid
    live,       \* liveEntries, newest first
    old,        \* (history) entries committed when the generator looked for the latest
    due         \* (history) entries committed since then, on this connection

vars == <<entry, ts, now, stream, lastId, batch, mode, captured, live, old, due>>
logVars == <<entry, ts, now>>
pageVars == <<mode, captured, live>>

Committed == {e \in Entries : entry[e] = "committed"}

TypeOK ==
    /\ entry \in [Entries -> {"unused", "open", "committed"}]
    /\ now \in 0 .. Cardinality(Entries) /\ ts \in [Entries -> 0 .. now]
    /\ stream \in {"none", "boot", "poll", "refused"}
    /\ lastId \in Entries \cup {None}
    /\ batch \in Seq(Entries) /\ Len(batch) <= BatchMax
    /\ mode \in BOOLEAN /\ captured \in BOOLEAN
    /\ live \in Seq(Entries) /\ Len(live) <= PageMax
    /\ old \subseteq Committed /\ due \subseteq Committed

Init ==
    /\ entry = [e \in Entries |-> "unused"] /\ ts = [e \in Entries |-> 0] /\ now = 0
    /\ stream = "none" /\ lastId = None /\ batch = <<>>
    /\ mode = FALSE /\ captured = TRUE /\ live = <<>>
    /\ old = {} /\ due = {}

-----------------------------------------------------------------------------
(* Handlers that write an entry *)

\* log_action in a transaction that began just now.
log_action(e) ==
    /\ entry[e] = "unused" /\ Cardinality({f \in Entries : entry[f] = "open"}) < Writers
    /\ now' = now + 1
    /\ ts' = [ts EXCEPT ![e] = now']
    /\ entry' = [entry EXCEPT ![e] = "open"]
    /\ UNCHANGED <<stream, lastId, batch, mode, captured, live, old, due>>

Commit(e) ==
    /\ entry[e] = "open"
    /\ entry' = [entry EXCEPT ![e] = "committed"]
    /\ due' = IF stream = "poll" THEN due \cup {e} ELSE due
    /\ UNCHANGED <<ts, now, stream, lastId, batch, mode, captured, live, old>>

-----------------------------------------------------------------------------
(* The generator *)

Latest == {e \in Committed : \A f \in Committed : ts[f] <= ts[e]}

\* _audit_sse_generator starts from the entry with the greatest timestamp.
Bootstrap ==
    /\ stream = "boot"
    /\ stream' = "poll"
    /\ lastId' = IF Committed = {} THEN None ELSE CHOOSE e \in Latest : TRUE
    /\ old' = Committed /\ due' = {}
    /\ UNCHANGED <<logVars, batch, pageVars>>

\* Rows after the last one sent, by timestamp.
After(e) == lastId # None => ts[e] > ts[lastId]

\* Mutant: the newest rows first.
NewestFirst(S) == SetToSortSeq(S, LAMBDA e, f : ts[e] > ts[f])

Oldest(S) == SetToSortSeq(S, LAMBDA e, f : ts[e] < ts[f])

\* One turn of the loop: the query with its order and limit.
Poll ==
    /\ stream = "poll" /\ batch = <<>>
    /\ LET rows == Oldest({e \in Committed : After(e)})
       IN batch' = SubSeq(rows, 1, IF Len(rows) < BatchMax THEN Len(rows) ELSE BatchMax)
    /\ UNCHANGED <<logVars, stream, lastId, pageVars, old, due>>

\* onmessage of the page.
onmessage(e) == SubSeq(<<e>> \o live, 1, IF Len(live) < PageMax THEN Len(live) + 1 ELSE PageMax)

\* The rows are sent one by one.
Yield ==
    /\ stream = "poll" /\ batch # <<>>
    /\ lastId' = Head(batch) /\ batch' = Tail(batch)
    /\ live' = onmessage(Head(batch))
    /\ UNCHANGED <<logVars, stream, mode, captured, old, due>>

-----------------------------------------------------------------------------
(* The page *)

\* _require_admin_sse, when a request with the captured token arrives.
Accepted == IF captured THEN "boot" ELSE "refused"

\* startLive: a new EventSource, and an empty list.
startLive ==
    /\ ~mode
    /\ mode' = TRUE /\ live' = <<>>
    /\ stream' = Accepted /\ lastId' = None /\ batch' = <<>>
    /\ old' = {} /\ due' = {}
    /\ UNCHANGED <<logVars, captured>>

Closed == /\ stream' = "none" /\ lastId' = None /\ batch' = <<>>
          /\ old' = {} /\ due' = {}

stopLive ==
    /\ mode
    /\ mode' = FALSE
    /\ Closed
    /\ UNCHANGED <<logVars, captured, live>>

\* The page is left and opened again.  It captures the token of the store, which
\* is the one the application was loaded with.
Mount ==
    /\ mode' = FALSE /\ live' = <<>>
    /\ Closed
    /\ UNCHANGED <<logVars, captured>>

\* The application is loaded again: the store reads the token from localStorage.
Reload ==
    /\ mode' = FALSE /\ live' = <<>> /\ captured' = TRUE
    /\ Closed
    /\ UNCHANGED logVars

\* The connection breaks; the browser's EventSource asks again for the same URL,
\* and gives up for good when the answer is an error.
Drop ==
    /\ "drop" \in Environment /\ stream \in {"boot", "poll"}
    /\ Closed
    /\ UNCHANGED <<logVars, pageVars>>

Reconnect ==
    /\ mode /\ stream = "none"
    /\ stream' = Accepted
    /\ UNCHANGED <<logVars, lastId, batch, pageVars, old, due>>

\* The access token runs out.  The API client puts a new one into localStorage;
\* the store and startLive keep the old one.
Expire ==
    /\ "expire" \in Environment /\ captured
    /\ captured' = FALSE
    /\ UNCHANGED <<logVars, stream, lastId, batch, mode, live, old, due>>

Next ==
    \/ \E e \in Entries : log_action(e) \/ Commit(e)
    \/ Bootstrap
    \/ Poll
    \/ Yield
    \/ startLive
    \/ stopLive
    \/ Mount
    \/ Reload
    \/ Drop
    \/ Reconnect
    \/ Expire

Spec == Init /\ [][Next]_vars

-----------------------------------------------------------------------------
(***************************************************************************)
(* Properties                                                              *)
(***************************************************************************)
Shown == {live[i] : i \in DOMAIN live}

\* The page shows no entry twice, reconnections included: the cursor starts at
\* or behind nothing that was sent.
NoDuplicates == IsInjective(live)

\* The page lists entries newest first, in the order of their timestamps.
NewestOnTop == \A i, j \in DOMAIN live : i < j => ts[live[i]] > ts[live[j]]

\* The stream sends new entries only: nothing that was committed when it began.
OnlyNew == stream = "poll" => \A i \in DOMAIN batch : batch[i] \notin old

\* Every entry committed while the stream is connected gets to the page: "New
\* audit entries stream in real time".
NewEntriesStream == \A e \in Entries : e \in due ~> (e \in Shown \/ e \notin due)

\* A page in live mode that lost its connection gets connected again.
LiveModeConnects == mode /\ stream # "poll" ~> stream = "poll" \/ ~mode
=============================================================================
