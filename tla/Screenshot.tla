----------------------------- MODULE Screenshot -----------------------------
(***************************************************************************)
(* The screenshot of a device: the page DeviceDetail asks for one, the API *)
(* forwards the request over the device's socket, the agent captures the   *)
(* screen in a goroutine of its own, the server keeps the latest answer in *)
(* Redis for five minutes, and the page polls for it until an answer newer *)
(* than its request is there or thirty seconds are over.                   *)
(*                                                                         *)
(* Two clocks meet here: the server stamps an answer when it arrives, the  *)
(* page compares that stamp with the browser's clock, which is Ahead ticks *)
(* ahead of the server's.                                                  *)
(***************************************************************************)
EXTENDS Integers

CONSTANTS
    Ahead,         \* the browser's clock minus the server's, in ticks
    UiTimeout,     \* ticks after which the page gives up: 30 s
    AgentTimeout,  \* ticks after which the agent gives up: 60 s
    MaxTime,       \* bound: the clock, while no capture is waited for
    MaxRequests    \* bound: requests made by the page

VARIABLES
    clock,     \* the server's clock
    post,      \* the page's POST: "idle", "sent", "accepted", "refused"
    made,      \* requests made so far: each is a number
    down,      \* requests on the socket to the agent
    captures,  \* captures the agent has begun: [req, began]
    up,        \* answers on the socket to the server: [req, size]
    kept,      \* the value of the Redis key screenshot:{id}
    fetch,     \* the page's GET
    page       \* the page's state

vars == <<clock, post, made, down, captures, up, kept, fetch, page>>

\* The size of an image matters to the server: "small" is within
\* MAX_SCREENSHOT_B64, "large" is above it.
Sizes == {"small", "large"}

\* Of what GET /devices/{id}/screenshot answers the properties tell apart
\* captured_at, which is null if nothing is kept.
NotCaptured == -1

Data == Nat \cup {NotCaptured}

TypeOK ==
    /\ clock \in Nat
    /\ post \in {"idle", "sent", "accepted", "refused"}
    /\ made \in 0..MaxRequests
    /\ down \subseteq 1..made
    /\ captures \subseteq [req : 1..made, began : 0..clock]
    /\ up \subseteq [req : 1..made, size : Sizes]
    /\ kept \in Data
    /\ fetch \in [state : {"none", "sent", "answered"}, data : Data]
    /\ page \in [capturing : BOOLEAN,                     \* isCapturing
                 startedAt : Int,                         \* captureStartedAt
                 since : Nat,                             \* the server's clock at that time
                 outcome : {"none", "picture", "timer"},  \* what ended the last capture
                 data : Data]                             \* screenshotData

NoFetch == [state |-> "none", data |-> NotCaptured]
Asked == [state |-> "sent", data |-> NotCaptured]

Init ==
    /\ clock = 0 /\ post = "idle" /\ made = 0
    /\ down = {} /\ captures = {} /\ up = {}
    /\ kept = NotCaptured /\ fetch = NoFetch
    /\ page = [capturing |-> FALSE, startedAt |-> 0, since |-> 0,
               outcome |-> "none", data |-> NotCaptured]

-----------------------------------------------------------------------------
(* The server.                                                             *)

\* The device is not connected to the process that serves the request, or is
\* revoked: 409 or 404.  Otherwise the request goes out; what send_to_device
\* returns is not looked at, so a send that fails is answered like one that
\* succeeds.
request_screenshot ==
    /\ post = "sent"
    /\ \/ post' = "refused" /\ down' = down
       \/ post' = "accepted" /\ down' \in {down, down \cup {made}}
    /\ UNCHANGED <<clock, made, captures, up, kept, fetch, page>>

get_screenshot ==
    /\ fetch.state = "sent"
    /\ fetch' = [state |-> "answered", data |-> kept]
    /\ UNCHANGED <<clock, post, made, down, captures, up, kept, page>>

\* An answer is kept, stamped with the time of its arrival, unless it is too
\* large.
handle_screenshot_result ==
    \E a \in up :
        /\ up' = up \ {a}
        /\ kept' = IF a.size = "large" THEN kept ELSE clock
        /\ UNCHANGED <<clock, post, made, down, captures, fetch, page>>

\* Redis drops the key five minutes after it was set.
Expire ==
    /\ kept # NotCaptured
    /\ kept' = NotCaptured
    /\ UNCHANGED <<clock, post, made, down, captures, up, fetch, page>>

-----------------------------------------------------------------------------
(* The agent.                                                              *)

\* readLoop starts a goroutine for the request.
Begin ==
    \E r \in down :
        /\ down' = down \ {r}
        /\ captures' = captures \cup {[req |-> r, began |-> clock]}
        /\ UNCHANGED <<clock, post, made, up, kept, fetch, page>>

\* The screen is captured, or the capture fails, and the answer is queued: an
\* error and a placeholder are small.
runScreenshot ==
    \E c \in captures, size \in Sizes :
        /\ captures' = captures \ {c}
        /\ up' = up \cup {[req |-> c.req, size |-> size]}
        /\ UNCHANGED <<clock, post, made, down, kept, fetch, page>>

\* The connection breaks: what is on it is lost.
Break ==
    /\ down # {} \/ up # {}
    /\ down' = {} /\ up' = {}
    /\ UNCHANGED <<clock, post, made, captures, kept, fetch, page>>

-----------------------------------------------------------------------------
(* The page.                                                               *)

\* Mutants: any picture ends the capture.
EndsOnAny(p) == p.capturing /\ p.data # NotCaptured

\* The condition of the effect that runs whenever the capture or the data
\* changes.
Ends(p) ==
    /\ p.capturing
    /\ p.data # NotCaptured
    /\ p.data >= p.startedAt

AfterEffect(p) ==
    IF Ends(p) THEN [p EXCEPT !.capturing = FALSE, !.outcome = "picture"] ELSE p

\* The button is disabled while a request is pending or a capture runs.
Press ==
    /\ post = "idle" /\ ~page.capturing
    /\ made < MaxRequests
    /\ made' = made + 1
    /\ post' = "sent"
    /\ UNCHANGED <<clock, down, captures, up, kept, fetch, page>>

\* requestScreenshot.onSuccess: the capture starts now, and the query is
\* invalidated, which abandons a fetch under way and starts another.
OnSuccess ==
    /\ post = "accepted"
    /\ post' = "idle"
    /\ page' = AfterEffect([page EXCEPT !.capturing = TRUE,
                                        !.startedAt = clock + Ahead,
                                        !.since = clock,
                                        !.outcome = "none"])
    /\ fetch' = Asked
    /\ UNCHANGED <<clock, made, down, captures, up, kept>>

OnError ==
    /\ post = "refused"
    /\ post' = "idle"
    /\ UNCHANGED <<clock, made, down, captures, up, kept, fetch, page>>

\* A fetch starts: the poll of a capture under way, or the refetch when the
\* page is mounted or its window gets the focus.
Fetch ==
    /\ fetch.state = "none"
    /\ fetch' = Asked
    /\ UNCHANGED <<clock, post, made, down, captures, up, kept, page>>

FetchFails ==
    /\ fetch.state = "sent"
    /\ fetch' = NoFetch
    /\ UNCHANGED <<clock, post, made, down, captures, up, kept, page>>

Receive ==
    /\ fetch.state = "answered"
    /\ page' = AfterEffect([page EXCEPT !.data = fetch.data])
    /\ fetch' = NoFetch
    /\ UNCHANGED <<clock, post, made, down, captures, up, kept>>

\* The timer set when the capture started: polls do not set it again.
TimerFires ==
    /\ page.capturing
    /\ clock >= page.since + UiTimeout
    /\ page' = [page EXCEPT !.capturing = FALSE, !.outcome = "timer"]
    /\ UNCHANGED <<clock, post, made, down, captures, up, kept, fetch>>

\* Time passes; the agent kills what runs for too long.
Tick ==
    /\ clock < MaxTime \/ (page.capturing /\ clock < page.since + UiTimeout)
    /\ \A c \in captures : clock < c.began + AgentTimeout
    /\ clock' = clock + 1
    /\ UNCHANGED <<post, made, down, captures, up, kept, fetch, page>>

Next ==
    \/ request_screenshot \/ get_screenshot \/ handle_screenshot_result \/ Expire
    \/ Begin \/ runScreenshot \/ Break
    \/ Press \/ OnSuccess \/ OnError
    \/ Fetch \/ FetchFails \/ Receive \/ TimerFires
    \/ Tick

-----------------------------------------------------------------------------

\* A page that waits for a screenshot stops waiting: the timer started with
\* the capture is not set again by the polls in between, whatever is lost.
CaptureEnds == page.capturing ~> ~page.capturing

\* A capture that does not end by its timer ends with an answer that reached
\* the server no earlier than the page began to wait, as long as the
\* browser's clock is not behind the server's.
EndsOnNew ==
    /\ page.capturing \/ (post = "accepted" /\ post' = "idle")
    /\ ~page'.capturing /\ page'.outcome = "picture"
    => page'.data >= page'.since
=============================================================================
