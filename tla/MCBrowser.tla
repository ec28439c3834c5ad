----------------------------- MODULE MCBrowser ------------------------------
(***************************************************************************)
(* What the web page and the mobile application do with the server, checked *)
(* side by side: the parts share no state, part says which of them moves,  *)
(* and the others stay where they started.                                 *)
(***************************************************************************)
EXTENDS Naturals, Sequences, FiniteSets

CONSTANT None

VARIABLES part,
    tab, on, token, conn, at, count, queue, items, newest, sentTo, last, since,
    entry, ts, now, stream, lastId, batch, mode, captured, live, old, due,
    active, orgSet, access, refresh, signedIn, req, tok, rtok, retry, expiries, refused,
    clock, post, made, down, captures, up, kept, fetch, page

\* GET /events/stream, two tabs of a user and a limit of one stream; GET
\* /events/activity, which has no limit, at two API processes.
Alerts == INSTANCE EventStream WITH
    Tabs <- {"t1", "t2"}, Workers <- {"w1"}, Publishers <- {"w1"}, Streams <- {"c1", "c2"},
    Limited <- TRUE, MaxStreams <- 1, QueueMax <- 2, MaxItems <- 3,
    Environment <- {"lost", "expire"}
Activity == INSTANCE EventStream WITH
    Tabs <- {"t1"}, Workers <- {"w1", "w2"}, Publishers <- {"w1", "w2"}, Streams <- {"c1", "c2"},
    Limited <- FALSE, MaxStreams <- 2, QueueMax <- 2, MaxItems <- 3,
    Environment <- {"lost", "expire", "vanish"}
streamVars == <<tab, on, token, conn, at, count, queue, items, newest, sentTo, last, since>>

\* The audit page.
Audit == INSTANCE AuditStream WITH
    Entries <- {"e1", "e2", "e3", "e4"}, Writers <- 2, BatchMax <- 2, PageMax <- 3,
    Environment <- {"drop", "expire"}
auditVars == <<entry, ts, now, stream, lastId, batch, mode, captured, live, old, due>>

\* The sessions of the two clients.
Web == INSTANCE ApiSession WITH
    Client <- "web", Requests <- {"r1", "r2"}, MaxExpiries <- 2,
    Environment <- {"deactivate", "refresh"}
Mobile == INSTANCE ApiSession WITH
    Client <- "mobile", Requests <- {"r1", "r2"}, MaxExpiries <- 2,
    Environment <- {"deactivate", "refresh"}
Leaving == INSTANCE ApiSession WITH
    Client <- "web", Requests <- {"r1", "r2"}, MaxExpiries <- 2,
    Environment <- {"logout", "refresh"}
sessionVars == <<active, orgSet, access, refresh, signedIn, req, tok, rtok, retry, expiries, refused>>

\* The screenshot of a device, asked for twice.
Capture == INSTANCE Screenshot WITH
    Ahead <- 0, UiTimeout <- 2, AgentTimeout <- 3, MaxTime <- 2, MaxRequests <- 2
captureVars == <<clock, post, made, down, captures, up, kept, fetch, page>>

all == <<part, streamVars, auditVars, sessionVars, captureVars>>

Init ==
    /\ part \in {"alerts", "activity", "audit", "web", "leaving", "mobile", "capture"}
    /\ IF part = "activity" THEN Activity!Init ELSE Alerts!Init
    /\ Audit!Init
    /\ IF part = "mobile" THEN Mobile!Init ELSE Web!Init
    /\ Capture!Init

Next ==
    \/ part = "alerts" /\ Alerts!Next /\ UNCHANGED <<part, auditVars, sessionVars, captureVars>>
    \/ part = "activity" /\ Activity!Next /\ UNCHANGED <<part, auditVars, sessionVars, captureVars>>
    \/ part = "audit" /\ Audit!Next /\ UNCHANGED <<part, streamVars, sessionVars, captureVars>>
    \/ part = "web" /\ Web!Next /\ UNCHANGED <<part, streamVars, auditVars, captureVars>>
    \/ part = "leaving" /\ Leaving!Next /\ UNCHANGED <<part, streamVars, auditVars, captureVars>>
    \/ part = "mobile" /\ Mobile!Next /\ UNCHANGED <<part, streamVars, auditVars, captureVars>>
    \/ part = "capture" /\ Capture!Next /\ UNCHANGED <<part, streamVars, auditVars, sessionVars>>

Spec == Init /\ [][Next]_all

\* The types of the parts' states.
TypeOK ==
    /\ IF part = "activity" THEN Activity!TypeOK ELSE Alerts!TypeOK
    /\ Audit!TypeOK
    /\ Web!TypeOK
    /\ Capture!TypeOK

\* event_stream refuses a stream as one too many only if that many are open: the
\* count of each process is its number of open streams.
CountMatchesStreams == part # "activity" => Alerts!CountMatchesStreams

\* Live views are in order.  A stream's items come in the order of publication,
\* across reconnections, and publish drops the oldest of a full queue, never the
\* newest.  The audit page lists entries newest first and none twice, and
\* stream_audit_logs sends nothing that was committed before it began.
ListsInOrder ==
    [][/\ IF part = "activity" THEN Activity!InOrder /\ Activity!NewestKept'
                               ELSE Alerts!InOrder /\ Alerts!NewestKept'
       /\ Audit!NoDuplicates' /\ Audit!NewestOnTop' /\ Audit!OnlyNew']_all

\* The clients never store an access token they cannot renew, but for the one a
\* refresh stores after the user has signed out of the web client.  That one ends
\* with its own time: a web client that is signed out has no refresh token.
Renewable ==
    /\ part # "leaving" => Web!Renewable
    /\ part # "mobile" => Leaving!LeftoverEnds

\* The clients give a user's tokens up only if the server refused to renew them.
\* (With a sign-out and a new sign-in while a refresh is under way, a refusal of
\* the old session's refresh ends the new session.)
SessionKept ==
    [][part # "leaving" => IF part = "mobile" THEN Mobile!SessionKept ELSE Web!SessionKept]_all

\* A capture that its timer does not end ends with an answer that arrived after
\* the page began to wait, though an answer kept from before is still served.
EndsOnNew == [][Capture!EndsOnNew]_all
=============================================================================
