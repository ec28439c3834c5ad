----------------------------- MODULE PagedLists -----------------------------
(***************************************************************************)
(* Lists shown page by page (Pagination.tsx): the alerts (Alerts.tsx), the *)
(* audit log (Settings.tsx), pending updates (SoftwareUpdates.tsx), the    *)
(* packages (SoftwareTable.tsx) and the events (EventLog.tsx) of a device. *)
(*                                                                         *)
(* A list is abstracted to how many items match a filter; a page is one    *)
(* item long.  query.shown is the total that came with the page on the     *)
(* screen, Loading while that page has not been fetched: the page number *)
(* and the filter are the query's key, so that a change of either shows    *)
(* what is cached for the new key, or nothing yet.                         *)
(***************************************************************************)
EXTENDS Page, Integers, SequencesExt

CONSTANTS
    Filters,        \* what may be filtered by, "" for no filter
    Totals,         \* per view: the items matching a filter at the beginning
    MaxPage,        \* bound: page numbers
    Views           \* "alerts", "audit", "updates", "software", "events"

Loading == -1

\* useState(1), no filter.
Init ==
    /\ \E view \in Views :
        /\ ghost = [view |-> view, raced |-> FALSE, shrunk |-> FALSE]
        /\ server = Totals[view]
    /\ query = [shown |-> Loading, seen |-> [f \in Filters |-> Loading]]
    /\ ui = [page |-> 1, filter |-> "", search |-> "", timers |-> <<>>]
    /\ calls = <<>>

TypeOK ==
    /\ query.shown \in Nat \cup {Loading}
    /\ query.seen \in [Filters -> Nat \cup {Loading}]
    /\ ui.page \in 1 .. MaxPage /\ ui.filter \in Filters /\ ui.search \in Filters
    /\ ui.timers \in Seq(Filters)

-----------------------------------------------------------------------------
(* Pagination.                                                             *)

\* Math.max(1, Math.ceil(total / pageSize)); without data, the total is 0.
totalPages ==
    IF query.shown \in {Loading, 0} THEN 1 ELSE query.shown

Ellipsis == 0

buildPages(current, total) ==
    LET values == {1, total, current - 1, current, current + 1, current - 2, current + 2}
        sorted == SelectSeq([i \in 1 .. total |-> i], LAMBDA v : v \in values)
        push(result, v) ==
            IF result # <<>> /\ v - Last(result) > 1 THEN result \o <<Ellipsis, v>> ELSE Append(result, v)
    IN  FoldLeft(push, <<>>, sorted)

\* The pages that can be gone to: Previous, the numbers, Next; none for a list
\* of one page.  The tables of packages and events show the control with rows
\* only.
Offered ==
    IF totalPages <= 1 \/ (ghost.view \in {"software", "events"} /\ ui.page > totalPages) THEN {}
    ELSE (IF ui.page > 1 THEN {ui.page - 1} ELSE {})
         \cup (ToSet(buildPages(ui.page, totalPages)) \ {Ellipsis})
         \cup (IF ui.page < totalPages THEN {ui.page + 1} ELSE {})

\* The new key's data, if it has been fetched before.  The updates are fetched
\* as a whole, and filtered and cut into pages by the component.
Rekeyed(filter) ==
    \/ query' = [query EXCEPT !.shown = Loading] /\ ghost.view # "updates"
    \/ query' = [query EXCEPT !.shown = query.seen[filter]]

SetPage(p) ==
    /\ p \in Offered /\ p # ui.page
    /\ ui' = [ui EXCEPT !.page = p]
    /\ Rekeyed(ui.filter)
    /\ ghost' = [ghost EXCEPT !.raced = @ \/ ui.timers # <<>>]
    /\ UNCHANGED <<server, calls>>

-----------------------------------------------------------------------------
(* Filters.                                                                *)

\* The checkbox of the alerts, the select of the audit log, the search of the
\* updates: the page stays.
SetFilter(f) ==
    /\ ghost.view \in {"alerts", "audit", "updates"} /\ f # ui.filter
    /\ ui' = [ui EXCEPT !.filter = f]
    /\ Rekeyed(f)
    /\ UNCHANGED <<server, calls, ghost>>

\* The search of the packages.  The timer is kept on the function of one
\* render: a timer that was set by an earlier render is not cleared.
handleSearchChange(f) ==
    /\ ghost.view = "software" /\ query.shown # Loading /\ f # ui.search
    /\ Len(ui.timers) < 2
    /\ ui' = [ui EXCEPT !.search = f, !.page = 1, !.timers = Append(@, f)]
    /\ IF ui.page = 1 THEN UNCHANGED query ELSE Rekeyed(ui.filter)
    /\ UNCHANGED <<server, calls, ghost>>

\* setDebouncedSearch: timers of one delay fire in the order they were set.
Debounce ==
    /\ ui.timers # <<>>
    /\ ui' = [ui EXCEPT !.filter = Head(ui.timers), !.timers = Tail(@)]
    /\ IF ui'.filter = ui.filter THEN UNCHANGED query ELSE Rekeyed(ui'.filter)
    /\ UNCHANGED <<server, calls, ghost>>

-----------------------------------------------------------------------------

\* The page on the screen is fetched: on a new key, an interval, a focus.
Arrive ==
    /\ query.shown # server[ui.filter]
    /\ query' = [shown |-> server[ui.filter],
                  seen |-> IF ghost.view = "updates" THEN server
                           ELSE [query.seen EXCEPT ![ui.filter] = server[ui.filter]]]
    /\ UNCHANGED <<server, ui, calls, ghost>>

\* An alert is resolved, a package removed, old rows are cleaned up.
Shrink ==
    /\ ~ghost.shrunk
    /\ \E f \in Filters :
        /\ server[f] > 0
        /\ server' = [server EXCEPT ![f] = @ - 1]
    /\ ghost' = [ghost EXCEPT !.shrunk = TRUE]
    /\ UNCHANGED <<query, ui, calls>>

Next ==
    \/ \E p \in 1 .. MaxPage : SetPage(p)
    \/ \E f \in Filters : SetFilter(f) \/ handleSearchChange(f)
    \/ Debounce \/ Arrive \/ Shrink

Spec == Init /\ [][Next]_vars

-----------------------------------------------------------------------------

\* The numbers of the control are the first page, the last and those up to two
\* away from the current one, in order, with an ellipsis where and only where
\* numbers are left out; even for a current page past the end.
PagerShows ==
    totalPages > 1 =>
        LET pages == buildPages(ui.page, totalPages)
            numbers == SelectSeq(pages, LAMBDA v : v # Ellipsis)
            near == (ui.page - 2 .. ui.page + 2) \cap 1 .. totalPages
        IN  /\ ToSet(numbers) = {1, totalPages} \cup near
            /\ \A i \in 1 .. Len(numbers) - 1 : numbers[i] < numbers[i + 1]
            /\ \A i \in DOMAIN pages : pages[i] = Ellipsis =>
                    i \in 2 .. Len(pages) - 1 /\ pages[i + 1] - pages[i - 1] > 1
            /\ \A i \in 1 .. Len(pages) - 1 :
                    pages[i] # Ellipsis /\ pages[i + 1] # Ellipsis => pages[i + 1] = pages[i] + 1

\* A filter may leave the page number past the end, and rows may go: still a
\* control never leads further out, only to a page there is or closer to one.
NeverFurtherOut ==
    ui'.page # ui.page => ui'.page \in 1 .. totalPages \/ ui'.page < ui.page

\* However searches and their timers follow each other, the list is that of the
\* search on the screen once no timer is left.
SearchSettles ==
    ui.timers = <<>> /\ ghost.view = "software" => ui.filter = ui.search

\* A search of the packages starts on the first page: the page is one there is,
\* unless it was turned within the 300 ms before the search took effect, or
\* packages have gone.
SearchInRange ==
    ghost.view = "software" /\ query.shown # Loading /\ ~ghost.raced /\ ~ghost.shrunk =>
        ui.page <= totalPages
=============================================================================
