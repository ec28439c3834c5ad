--------------------------- MODULE DashboardPage ---------------------------
(***************************************************************************)
(* The dashboard (Dashboard.tsx, DeviceCard.tsx) and the bar for commands  *)
(* to several devices (BulkCommandBar.tsx).  The list comes from one of    *)
(* three queries, by the tag and the group selected; filters hide devices  *)
(* of it; the bar exists while two devices are selected, and forgets its   *)
(* state, the mutation under way included, when it is unmounted.           *)
(***************************************************************************)
EXTENDS Page

CONSTANTS
    Devices,
    Tagged, Grouped,    \* the devices with the tag, and those of the group
    Found,              \* the devices that match the status filter or the search
    Sessions,           \* bound: what the user selects by: tag, group, filter
    MaxRevoked,         \* bound: devices that are revoked meanwhile
    Null

Queries == {"all", "tag", "group"}

View(s, k) ==
    CASE k = "all" -> s.devices
      [] k = "tag" -> s.devices \cap Tagged
      [] k = "group" -> s.devices \cap Grouped

\* The queries the page is subscribed to: those that are polled, and that an
\* invalidation fetches again.
Observed(u) == {IF u.tag THEN "tag" ELSE "all"} \cup (IF u.group THEN {"group"} ELSE {})

\* sourceDevices: the group goes before the tag; a query not loaded is [].
sourceDevices(q, u) ==
    LET k == IF u.group THEN "group" ELSE IF u.tag THEN "tag" ELSE "all"
    IN  IF q[k].data = Null THEN {} ELSE q[k].data

\* The cards shown, each with its checkbox.
filtered(q, u) ==
    {d \in sourceDevices(q, u) : (u.tag => d \in Tagged) /\ (u.filter => d \in Found)}

NewBar == [modal |-> FALSE, shell |-> FALSE, call |-> 0]

\* Mutant: the selection is left alone when the list changes.
RenderedUnpruned(q, u) ==
    IF Cardinality(u.selected) < 2 THEN [u EXCEPT !.bar = Null]
    ELSE IF u.bar = Null THEN [u EXCEPT !.bar = NewBar]
    ELSE u

\* The page after a render: the effect drops from the selection what is not
\* in the list, and the bar is there or not.
Rendered(q, u) ==
    LET selected == u.selected \cap sourceDevices(q, u)
    IN  [u EXCEPT !.selected = selected,
                  !.bar = IF Cardinality(selected) < 2 THEN Null
                          ELSE IF u.bar = Null THEN NewBar ELSE u.bar]

\* A step that changes the lists or the selection.
Render(q, u) ==
    /\ query' = q
    /\ ui' = Rendered(q, u)
    /\ ghost' = [ghost EXCEPT !.closed = @ \/ (ui.bar # Null /\ ui'.bar = Null)]

Init ==
    /\ server = [devices |-> Devices]
    /\ query = [k \in Queries |-> IF k = "all" THEN Query(Devices) ELSE Query(Null)]
    /\ ui = [tag |-> FALSE, group |-> FALSE, filter |-> FALSE, selected |-> {}, bar |-> Null]
    /\ calls = <<>>
    /\ \E by \in Sessions :
           ghost = [revoked |-> 0, closed |-> FALSE, by |-> by]

TypeOK ==
    /\ server.devices \subseteq Devices
    /\ \A k \in Queries : query[k].data = Null \/ query[k].data \subseteq Devices
    /\ ui.tag \in BOOLEAN /\ ui.group \in BOOLEAN /\ ui.filter \in BOOLEAN
    /\ ui.selected \subseteq Devices
    /\ ui.bar = Null \/ /\ ui.bar.modal \in BOOLEAN /\ ui.bar.shell \in BOOLEAN
                        /\ ui.bar.call \in 0 .. Len(calls)
    /\ ui.bar = Null <=> Cardinality(ui.selected) < 2
    /\ Len(calls) <= MaxCalls

-----------------------------------------------------------------------------
(* The dashboard.                                                          *)

\* A tag or a group is selected or not: a query shown from now on is fetched
\* unless it was fetched a short while ago.
Shows(u) ==
    \E fetched \in SUBSET (Observed(u) \ Observed(ui)) :
        /\ \A k \in Observed(u) : query[k].data = Null => k \in fetched \cup Observed(ui)
        /\ Render([k \in Queries |-> IF k \in fetched /\ query[k].state = "idle"
                                     THEN [query[k] EXCEPT !.state = "asked"] ELSE query[k]], u)
        /\ UNCHANGED <<server, calls>>

SelectTag == "tag" \in ghost.by /\ Shows([ui EXCEPT !.tag = ~@])

SelectGroup == "group" \in ghost.by /\ Shows([ui EXCEPT !.group = ~@])

\* The status filter and the search hide cards; the selection stays.
SetFilter ==
    /\ "filter" \in ghost.by
    /\ ui' = [ui EXCEPT !.filter = ~@]
    /\ UNCHANGED <<server, query, calls, ghost>>

toggleSelected(d) ==
    /\ d \in filtered(query, ui)
    /\ Render(query, [ui EXCEPT !.selected = IF d \in @ THEN @ \ {d} ELSE @ \cup {d}])
    /\ UNCHANGED <<server, calls>>

-----------------------------------------------------------------------------
(* The bar.                                                                *)

onClear ==
    /\ ui.bar # Null
    /\ Render(query, [ui EXCEPT !.selected = {}])
    /\ UNCHANGED <<server, calls>>

\* Run Command opens the dialog; its buttons and Escape close it.
ToggleModal ==
    /\ ui.bar # Null
    /\ ui' = [ui EXCEPT !.bar.modal = ~@]
    /\ UNCHANGED <<server, query, calls, ghost>>

TypeShell ==
    /\ ui.bar # Null /\ ui.bar.modal /\ ~ui.bar.shell
    /\ ui' = [ui EXCEPT !.bar.shell = TRUE]
    /\ UNCHANGED <<server, query, calls, ghost>>

\* isPending, of the mutation of this bar.
BarPending == ui.bar.call \in Open

\* A command goes to all that is selected, the hidden ones included.  The
\* buttons are disabled while one is under way; Enter in the dialog is not,
\* but quickAction checks again.
quickAction ==
    /\ ui.bar # Null /\ Cardinality(ui.selected) >= 2 /\ ~BarPending
    /\ Mutate("bulk", [ids |-> ui.selected, shown |-> sourceDevices(query, ui)])
    /\ ui' = [ui EXCEPT !.bar.call = Len(calls) + 1]
    /\ UNCHANGED <<server, query, ghost>>

submitShellCommand == ui.bar # Null /\ ui.bar.modal /\ ui.bar.shell /\ quickAction

\* The server dispatches the command to those of the devices it knows.
HandleCall(i) ==
    /\ Handle(i, server)
    /\ UNCHANGED <<query, ui, ghost>>

\* Only the bar that sent the command is told; the list of devices is
\* fetched again.
OnSuccess(i) ==
    LET mine == ui.bar # Null /\ ui.bar.call = i
    IN  /\ calls[i].state = "handled"
        /\ calls' = Over(i)
        /\ query' = Invalidated(query, Observed(ui) \ {"group"})
        /\ ui' = IF mine THEN [ui EXCEPT !.bar = [NewBar EXCEPT !.call = i]]
                 ELSE ui
        /\ UNCHANGED <<server, ghost>>

OnError(i) ==
    /\ i \in Open
    /\ calls' = Over(i)
    /\ UNCHANGED <<server, query, ui, ghost>>

\* Someone revokes a device.
Revoke(d) ==
    /\ ghost.revoked < MaxRevoked /\ d \in server.devices
    /\ server' = [server EXCEPT !.devices = @ \ {d}]
    /\ ghost' = [ghost EXCEPT !.revoked = @ + 1]
    /\ UNCHANGED <<query, ui, calls>>

Deliver(k) ==
    /\ query[k].state = "answered"
    /\ Render(Arrived(k), ui)
    /\ UNCHANGED <<server, calls>>

Next ==
    \/ SelectTag \/ SelectGroup \/ SetFilter
    \/ \E d \in Devices : toggleSelected(d) \/ Revoke(d)
    \/ onClear \/ ToggleModal \/ TypeShell \/ quickAction \/ submitShellCommand
    \/ \E i \in DOMAIN calls : HandleCall(i) \/ OnSuccess(i) \/ OnError(i)
    \/ \E k \in Observed(ui) : Refetch(k)
    \/ \E k \in Queries : Serve(k, View(server, k)) \/ Deliver(k)

Spec == Init /\ [][Next]_vars

-----------------------------------------------------------------------------

\* A command for several devices names at least two, each of which was in
\* the list of devices the page had when it was sent, though devices are
\* revoked, tags and groups are switched and lists are fetched meanwhile.
BulkTargets ==
    \A i \in OpenOf("bulk") :
        /\ Cardinality(calls[i].arg.ids) >= 2
        /\ calls[i].arg.ids \subseteq calls[i].arg.shown

\* Two such commands are under way together only if the bar was unmounted
\* between them: it does not know of a command an earlier bar sent.
OneBulkAtATime == Cardinality(OpenOf("bulk")) >= 2 => ghost.closed
=============================================================================
