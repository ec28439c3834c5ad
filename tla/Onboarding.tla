----------------------------- MODULE Onboarding -----------------------------
(***************************************************************************)
(* The way into the web client for an administrator: HomeRoute at "/" and  *)
(* the first-run wizard at "/onboarding".  Each asks for the devices under *)
(* a key of its own, and each sends the browser to the other on what its   *)
(* own cache says: HomeRoute when it knows of no device, the wizard when   *)
(* it knows of one and is not past its token.  The two caches are filled   *)
(* at different times.                                                     *)
(***************************************************************************)
EXTENDS Page

CONSTANT
    MaxFails    \* bound: fetches that fail

Routes == {"home", "wizard"}

\* The answer to devicesApi.list, by what is told apart: there is no answer,
\* no device, some device.
Lists == {"nothing", "empty", "some"}

TypeOK ==
    /\ server \in {"empty", "some"}
    /\ query \in [Routes -> [data : Lists, answer : Lists, fresh : BOOLEAN,
                             state : {"idle", "asked", "answered"}]]
    /\ ui \in [at : Routes \cup {"away"}, step : 0..3]
    /\ calls \in Seq([op : {"token"}, arg : {"mounted", "left", "over"}, state : {"sent", "handled", "over"}])
    /\ ghost \in [lost : BOOLEAN, fails : 0..MaxFails]

-----------------------------------------------------------------------------

\* A component that is mounted asks for its query if there is no data or it
\* has become stale.
Mounted(q, r) ==
    IF q[r].state = "idle" /\ ~q[r].fresh
    THEN [q EXCEPT ![r].state = "asked"] ELSE q

Init ==
    /\ server \in {"empty", "some"}
    /\ \E at \in Routes :
        LET none == [r \in Routes |-> [data |-> "nothing", answer |-> "nothing",
                                       fresh |-> FALSE, state |-> "idle"]]
        IN  query = Mounted(none, at) /\ ui = [at |-> at, step |-> 0]
    /\ calls = <<>>
    /\ ghost = [lost |-> FALSE, fails |-> 0]

\* isLoading: no data yet, and a fetch under way.
Loading(r) == query[r].data = "nothing" /\ query[r].state # "idle"

\* What HomeRoute renders: a redirect also if its first fetch has failed.
HomeRedirects == ui.at = "home" /\ ~Loading("home") /\ query["home"].data # "some"

\* What the wizard renders.
WizardRedirects ==
    /\ ui.at = "wizard" /\ ~Loading("wizard")
    /\ query["wizard"].data = "some" /\ ui.step < 2

\* A component is shown that was not: its state is that of a new one, and
\* what the old one still waits for will find it gone.
Go(r) ==
    /\ ui' = [at |-> r, step |-> 0]
    /\ calls' = [i \in DOMAIN calls |->
                   IF i \in Open THEN [calls[i] EXCEPT !.arg = "left"] ELSE calls[i]]
    /\ query' = IF r \in Routes THEN Mounted(query, r) ELSE query

Redirect ==
    /\ \/ HomeRedirects /\ Go("wizard")
       \/ WizardRedirects /\ Go("home")
    /\ UNCHANGED <<server, ghost>>

Redirects == HomeRedirects \/ WizardRedirects

-----------------------------------------------------------------------------
(* What the user does: a page that redirects shows nothing to press.       *)

\* The links of the frame around "/", and those of the wizard's last step, to
\* the other pages; these have a link to "/" and none to the wizard.
Leave ==
    /\ ~Redirects /\ (ui.at = "home" \/ (ui.at = "wizard" /\ ui.step = 3))
    /\ Go("away")
    /\ UNCHANGED <<server, ghost>>

Return ==
    /\ ui.at = "away"
    /\ Go("home")
    /\ UNCHANGED <<server, ghost>>

GetStarted ==
    /\ ~Redirects /\ ui.at = "wizard" /\ ui.step = 0
    /\ \A i \in Open : calls[i].arg = "left"
    /\ Mutate("token", "mounted")
    /\ UNCHANGED <<server, query, ui, ghost>>

\* tokenMutation.onSuccess; in a wizard that was left it sets a step nobody
\* sees.
TokenIssued(i) ==
    /\ i \in Open /\ calls[i].state = "sent"
    /\ calls' = Over(i)
    /\ ui' = IF calls[i].arg = "mounted" THEN [ui EXCEPT !.step = 1] ELSE ui
    /\ UNCHANGED <<server, query, ghost>>

Continue ==
    /\ ~Redirects /\ ui.at = "wizard" /\ ui.step = 1
    /\ ui' = [ui EXCEPT !.step = 2]
    /\ UNCHANGED <<server, query, calls, ghost>>

\* The button is there with the first device.
GoToDashboard ==
    /\ ui.at = "wizard" /\ ui.step = 2 /\ query["wizard"].data = "some"
    /\ ui' = [ui EXCEPT !.step = 3]
    /\ UNCHANGED <<server, query, calls, ghost>>

OpenDashboard ==
    /\ ui.at = "wizard" /\ ui.step = 3
    /\ Go("home")
    /\ UNCHANGED <<server, ghost>>

-----------------------------------------------------------------------------
(* The server, the clock and the network.                                  *)

Enroll ==
    /\ server = "empty"
    /\ server' = "some"
    /\ UNCHANGED <<query, ui, calls, ghost>>

\* staleTime is over.
GoesStale(r) ==
    /\ query[r].fresh
    /\ query' = [query EXCEPT ![r].fresh = FALSE]
    /\ UNCHANGED <<server, ui, calls, ghost>>

\* refetchInterval of the wizard, from its third step on.
Poll ==
    /\ ui.at = "wizard" /\ ui.step >= 2
    /\ Refetch("wizard")

\* The window gets the focus again.
Focus(r) == ui.at = r /\ ~query[r].fresh /\ Refetch(r)

Read(r) == Serve(r, server)

Arrive(r) ==
    /\ query[r].state = "answered"
    /\ query' = [query EXCEPT ![r].state = "idle", ![r].data = query[r].answer, ![r].fresh = TRUE]
    /\ UNCHANGED <<server, ui, calls, ghost>>

Fails(r) ==
    /\ query[r].state = "asked" /\ ghost.fails < MaxFails
    /\ query' = [query EXCEPT ![r].state = "idle"]
    /\ ghost' = [ghost EXCEPT !.fails = @ + 1]
    /\ UNCHANGED <<server, ui, calls>>

Next ==
    \/ Redirect \/ Poll \/ Enroll
    \/ GetStarted \/ Continue \/ GoToDashboard \/ OpenDashboard \/ Leave \/ Return
    \/ \E r \in Routes : GoesStale(r) \/ Focus(r) \/ Read(r) \/ Arrive(r) \/ Fails(r)
    \/ \E i \in DOMAIN calls : TokenIssued(i) \/ Fail(i)

\* The fetches of a route: asked for, answered, and in time out of date.
Fetched(r) == Read(r) \/ Arrive(r) \/ GoesStale(r)

-----------------------------------------------------------------------------

\* HomeRoute and the wizard do not send the browser to and fro for ever, also
\* when one has heard of the first device and the other has not: the redirects
\* come to an end.
RedirectsEnd == <>[]~Redirects

\* A wizard that waits for the first device shows it when it is enrolled, or
\* the user has gone on.
FirstDeviceShown ==
    (server = "some" /\ ui.at = "wizard" /\ ui.step = 2)
        ~> (query["wizard"].data = "some" \/ ui.at # "wizard")
=============================================================================
