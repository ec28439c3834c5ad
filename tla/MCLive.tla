------------------------------- MODULE MCLive -------------------------------
(***************************************************************************)
(* What must happen some day, component by component: small instances side *)
(* by side, of which part says the one that moves.  Only one part moves in a *)
(* behaviour, so that fairness of a disjunction of steps of several parts  *)
(* is fairness of each.                                                    *)
(***************************************************************************)
EXTENDS Naturals, Sequences, FiniteSets

CONSTANT None

VARIABLES part,
    config, configReq, wire, greet, net, go, cfg, file, chan, ticker, stored,
    tx, caller, command, age, link, toAgent, running, outbox, toServer, runs, outcomes, redelivered,
    schedule, revoked, pending, run, times,
    row, level, maint, lock, call, todo, pend, clear, seen, marked, ins, mail, mailed,
    tab, on, token, conn, at, count, queue, items, newest, sentTo, last, since,
    entry, ts, now, stream, lastId, batch, mode, captured, live, old, due,
    active, orgSet, access, refresh, signedIn, req, tok, rtok, retry, expiries, refused,
    hits, expires, limited, current, late, allowed, turnedAway, crashes,
    published, binary, disk, version, attempt, got, failures, received,
    clock, post, made, down, captures, up, kept, fetch, page,
    server, query, ui, calls, ghost

configVars == <<config, configReq, wire, greet, net, go, cfg, file, chan, ticker, stored>>
commandVars == <<tx, caller, command, age, link, toAgent, running, outbox, toServer, runs, outcomes,
                 redelivered>>
scheduleVars == <<schedule, revoked, pending, run, times>>
alertVars == <<row, level, maint, lock, call, todo, pend, clear, seen, marked, ins, mail, mailed>>
streamVars == <<tab, on, token, conn, at, count, queue, items, newest, sentTo, last, since>>
auditVars == <<entry, ts, now, stream, lastId, batch, mode, captured, live, old, due>>
sessionVars == <<active, orgSet, access, refresh, signedIn, req, tok, rtok, retry, expiries, refused>>
limitVars == <<hits, expires, limited, current, late, allowed, turnedAway, crashes>>
updateVars == <<published, binary, disk, version, attempt, got, failures, received>>
captureVars == <<clock, post, made, down, captures, up, kept, fetch, page>>
pageVars == <<server, query, ui, calls, ghost>>
all == <<part, configVars, commandVars, scheduleVars, alertVars, streamVars, auditVars, sessionVars,
         limitVars, updateVars, captureVars, pageVars>>

Goroutines == {"g1", "g2"}
Config == INSTANCE RuntimeConfig WITH
    Values <- {1}, Default <- 3, Workers <- {"w1"}, Requests <- {"r1"}, MaxNet <- 2,
    Faults <- {"drop"}, row <- config, req <- configReq, conn <- wire

Command == INSTANCE CommandLifecycle WITH
    Commands <- {"c1"}, Limit <- 2, Dispatchers <- 1, Callers <- {"rest"}, MaxCopies <- 1,
    row <- command

Schedules == {"s1", "s2"}
Schedule == INSTANCE Scheduler WITH
    Devices <- {"d1"}, Periods <- {2}, Runs <- {"k1"}, QueueLimit <- 2, Environment <- {},
    All <- "all", row <- schedule

Sessions == {"s1", "s2"}
Alert == INSTANCE AlertLifecycle WITH
    Slots <- {1, 2}, Active <- {"high_ram"}, Environment <- {"drop", "abort", "band"}

Streams == {"c1", "c2"}
Events == INSTANCE EventStream WITH
    Tabs <- {"t1"}, Workers <- {"w1"}, Publishers <- {"w1"}, Limited <- TRUE, MaxStreams <- 1,
    QueueMax <- 1, MaxItems <- 2, Environment <- {"lost"}

Entries == {"e1", "e2", "e3"}
Audit == INSTANCE AuditStream WITH Writers <- 1, BatchMax <- 2, PageMax <- 3, Environment <- {"drop"}

Requests == {"r1", "r2"}
Web == INSTANCE ApiSession WITH Client <- "web", MaxExpiries <- 2, Environment <- {"refresh", "network"}
Mobile == INSTANCE ApiSession WITH
    Client <- "mobile", MaxExpiries <- 1, Environment <- {"orgless"}
Leaving == INSTANCE ApiSession WITH
    Client <- "mobile", MaxExpiries <- 1, Environment <- {"logout"}

Calls == {"c1", "c2"}
Limits == INSTANCE RateLimit WITH
    Limit <- 3, MaxCount <- 6, MaxCrashes <- 0, call <- limited, count <- hits, refused <- turnedAway

Update == INSTANCE AgentUpdate WITH
    Releases <- {<<1, 9, 5>>, <<1, 10>>, <<2, 0, 1>>}, First <- <<1, 9, 5>>, Commands <- {"c1"},
    MaxFailures <- 1, MaxCommands <- 1, running <- version

Capture == INSTANCE Screenshot WITH
    Ahead <- 0, UiTimeout <- 1, AgentTimeout <- 2, MaxTime <- 1, MaxRequests <- 1

Routes == INSTANCE Onboarding WITH MaxCalls <- 1, MaxFails <- 1

-----------------------------------------------------------------------------

Init ==
    /\ part \in {"config", "command", "schedule", "alert", "events", "audit", "web", "mobile", "leaving",
                "limit", "update", "capture", "routes"}
    /\ Config!Init /\ Command!Init /\ Schedule!Init /\ Alert!Init /\ Events!Init /\ Audit!Init
    /\ IF part = "mobile" THEN Mobile!Init ELSE Web!Init
    /\ Limits!Init /\ Update!Init /\ Capture!Init
    /\ Routes!Init /\ (part # "routes" => server = "empty" /\ ui.at = "home")

\* Part p moves, and nothing else does.
Moves(p) ==
    /\ part = p /\ part' = p
    /\ IF p = "config" THEN TRUE ELSE UNCHANGED configVars
    /\ IF p = "command" THEN TRUE ELSE UNCHANGED commandVars
    /\ IF p = "schedule" THEN TRUE ELSE UNCHANGED scheduleVars
    /\ IF p = "alert" THEN TRUE ELSE UNCHANGED alertVars
    /\ IF p = "events" THEN TRUE ELSE UNCHANGED streamVars
    /\ IF p = "audit" THEN TRUE ELSE UNCHANGED auditVars
    /\ IF p = "limit" THEN TRUE ELSE UNCHANGED limitVars
    /\ IF p = "update" THEN TRUE ELSE UNCHANGED updateVars
    /\ IF p = "capture" THEN TRUE ELSE UNCHANGED captureVars
    /\ IF p = "routes" THEN TRUE ELSE UNCHANGED pageVars
    /\ IF p \in {"web", "mobile", "leaving"} THEN TRUE ELSE UNCHANGED sessionVars

Next ==
    \/ Moves("config") /\ Config!Next
    \/ Moves("command") /\ Command!Next
    \/ Moves("schedule") /\ Schedule!Next
    \/ Moves("alert") /\ Alert!Next
    \/ Moves("events") /\ Events!Next
    \/ Moves("audit") /\ Audit!Next
    \/ Moves("web") /\ Web!Next
    \/ Moves("mobile") /\ Mobile!Next
    \/ Moves("leaving") /\ Leaving!Next
    \/ Moves("limit") /\ Limits!Next
    \/ Moves("update") /\ Update!Next
    \/ Moves("capture") /\ Capture!Next
    \/ Moves("routes") /\ Routes!Next

\* What goes on by itself: handlers, goroutines, loops and tasks that can take
\* their next step, clocks, an agent or a page that is to connect again.
Step ==
    /\ WF_all(\/ Moves("config") /\ Config!ServerStep("r1")
              \/ Moves("command") /\ Command!Ages("c1")
              \/ Moves("schedule") /\ Schedule!RunStep("k1")
              \/ Moves("alert") /\ \E s \in Sessions : Alert!Connect(s)
              \/ Moves("events") /\ Events!HandlerStep("c1")
              \/ Moves("audit") /\ \E e \in Entries : Audit!Commit(e)
              \/ Moves("web") /\ Web!Answering("r1")
              \/ Moves("mobile") /\ Mobile!Answering("r1")
              \/ Moves("leaving") /\ Leaving!Answering("r1")
              \/ Moves("limit") /\ Limits!KeyExpires
              \/ Moves("update") /\ Update!Proceed("loop")
              \/ Moves("capture") /\ Capture!TimerFires
              \/ Moves("routes") /\ (Routes!Redirect \/ Routes!Poll))
    /\ WF_all(\/ Moves("config") /\ \E g \in Goroutines : Config!AgentStep(g)
              \/ Moves("command") /\ Command!CleanupStale
              \/ Moves("alert") /\ \E a \in {<<"high_ram", 1>>, <<"high_ram", 2>>} : Alert!DeleteOld(a)
              \/ Moves("events") /\ Events!HandlerStep("c2")
              \/ Moves("audit") /\ Audit!Poll /\ batch' # <<>>
              \/ Moves("web") /\ Web!Answering("r2")
              \/ Moves("mobile") /\ Mobile!Answering("r2")
              \/ Moves("leaving") /\ Leaving!Answering("r2")
              \/ Moves("limit") /\ (Limits!Expire("c1") \/ Limits!Decide("c1"))
              \/ Moves("update") /\ Update!Proceed("c1")
              \/ Moves("capture") /\ Capture!Tick
              \/ Moves("routes") /\ Routes!Fetched("home"))
    /\ WF_all(\/ Moves("config") /\ Config!Connect("w1")
              \/ Moves("alert") /\ (Alert!create_alert("s1") \/ Alert!Flush("s1") \/ Alert!End("s1"))
              \/ Moves("events") /\ Events!Deliver("c1")
              \/ Moves("audit") /\ Audit!Yield
              \/ Moves("limit") /\ (Limits!Expire("c2") \/ Limits!Decide("c2"))
              \/ Moves("update") /\ Update!Tick
              \/ Moves("capture") /\ Capture!runScreenshot
              \/ Moves("routes") /\ Routes!Fetched("wizard"))
    /\ WF_all(\/ Moves("alert") /\ (Alert!create_alert("s2") \/ Alert!Flush("s2") \/ Alert!End("s2"))
              \/ Moves("events") /\ Events!Deliver("c2")
              \/ Moves("audit") /\ Audit!Reconnect
              \/ Moves("update") /\ Update!PublishBinary)

\* What others can keep from happening, but not for ever: not every connection
\* is lost before the agent, or the generator, has come to use it; not every
\* transaction is aborted; a device's queue is emptied now and then; not every
\* request for a stream finds the user's others still open.
Persistence ==
    /\ SF_all(\/ Moves("config") /\ Config!ReadConfig
              \/ Moves("schedule") /\ Schedule!run_cleanup("d1")
              \/ Moves("alert") /\ \E s \in Sessions : Alert!Telemetry(s)
              \/ Moves("events") /\ Events!Admit("c1")
              \/ Moves("audit") /\ Audit!Bootstrap)
    /\ SF_all(\/ Moves("config") /\ Config!SendConfig
              \/ Moves("alert") /\ \E s \in Sessions : Alert!Commit(s)
              \/ Moves("events") /\ Events!Admit("c2"))
    /\ SF_all(\/ Moves("config") /\ \E g \in Goroutines : Config!Receive(g)
              \/ Moves("events") /\ Events!Connecting("t1"))
    /\ SF_all(Moves("config") /\ Config!ResetTicker)

FairSpec == Init /\ [][Next]_all /\ Step /\ Persistence

-----------------------------------------------------------------------------

\* What the server holds for the agent takes effect there: a configuration that
\* is stored and not replaced reaches the ticker, at once or when the agent has
\* connected again; and the agent ends up with the release that is published,
\* unless its own restart failed.
ChangesTakeEffect == Config!UpdateTakesEffect /\ Update!Converges

\* Nothing stays open for ever in the server's tables: no command stays "sent",
\* even if the agent never answers; a schedule that is due is dispatched, also
\* when a queue was full; the alert of a metric resolves when the metric stays
\* low, whatever calls overlapped before.
WorkEnds == Command!SentEnds /\ Schedule!DueIsDispatched /\ Alert!MetricAlertsResolve

\* A tab that wants an event stream gets one, and what is published while it reads
\* is shown there, or something newer; the audit page in live mode gets connected
\* again, and every entry committed while it is connected gets to it.
StreamsDeliver ==
    /\ Events!StreamReopens /\ Events!ItemsShown
    /\ Audit!LiveModeConnects /\ Audit!NewEntriesStream

\* Whoever waits for an answer stops waiting: every request of a client ends,
\* however often its token is renewed, with the answer if the session can be
\* renewed; whoever rate_limit refused is let in after a window; a page stops
\* waiting for a screenshot, whatever is lost; the home route and the first-run
\* wizard stop redirecting to each other, and the wizard gets to show the first
\* device.
WaitingEnds ==
    /\ Web!RequestSettles
    /\ (part = "web" => Web!RequestAnswered)
    /\ Limits!RetryWorks
    /\ Capture!CaptureEnds
    /\ Routes!RedirectsEnd /\ Routes!FirstDeviceShown
=============================================================================
