-------------------------------- MODULE Frame --------------------------------
(***************************************************************************)
(* What is around every page of the web client: the global search with its *)
(* debounced query and selection (GlobalSearch.tsx), the keyboard          *)
(* shortcuts and their help (useKeyboardShortcuts.ts, Layout.tsx), the     *)
(* sidebar with its groups (Sidebar.tsx) and as an overlay on a narrow     *)
(* screen.                                                                 *)
(*                                                                         *)
(* A key goes to the listeners of GlobalSearch first, then to the one of   *)
(* useKeyboardShortcuts: the effects of a child run before its parent's.   *)
(***************************************************************************)
EXTENDS Page, SequencesExt

CONSTANTS
    Texts,          \* that are typed, "" among them
    Short,          \* those of fewer than two characters
    Hits,           \* per kind and text: the results, a sequence
    Groups,
    Views           \* bound: "search", "keys", "groups"

Kinds == {"devices", "software"}
Letter == [d |-> "/", a |-> "/alerts", s |-> "/settings"]

NoSearch == [open |-> FALSE, query |-> "", debounced |-> "", timer |-> FALSE, index |-> 0]

Init ==
    /\ server = [groups |-> {}]
    /\ query = "groups" :> Query({})
    /\ ui = [search |-> NoSearch, loaded |-> {}, help |-> FALSE, prefix |-> FALSE, path |-> "/",
             sidebar |-> FALSE, dialog |-> FALSE, field |-> FALSE, name |-> "", group |-> ""]
    /\ calls = <<>>
    /\ \E view \in Views : ghost = [lost |-> FALSE, view |-> view, typed |-> {""}, last |-> "", key |-> FALSE]

TypeOK ==
    /\ server.groups \subseteq Groups /\ query["groups"].data \subseteq Groups
    /\ ui.search.query \in Texts /\ ui.search.debounced \in Texts /\ ui.search.index \in Nat
    /\ ui.loaded \subseteq Kinds \X Texts /\ ui.name \in Groups \cup {""} /\ ui.group \in Groups \cup {""}
    /\ {ui.search.open, ui.search.timer, ui.help, ui.prefix, ui.sidebar, ui.dialog, ui.field} \subseteq BOOLEAN

-----------------------------------------------------------------------------
(* The search.                                                             *)

\* The results for a query: devices before software, what has arrived of them.
Found(kind, text, loaded) ==
    IF <<kind, text>> \in loaded THEN Hits[kind][text] ELSE <<>>
Results(text, loaded) ==
    IF text \in Short THEN <<>> ELSE Found("devices", text, loaded) \o Found("software", text, loaded)

\* Mutant: the selection stays where it is.
Unclamped(s, loaded) == s

\* The effect that keeps the selection within the results.
Clamped(s, loaded) ==
    LET n == Len(Results(s.debounced, loaded))
    IN [s EXCEPT !.index = IF @ < n THEN @ ELSE IF n = 0 THEN 0 ELSE n - 1]

\* openSearch; a search that opens has the focus.
Opened(s) == [s EXCEPT !.open = TRUE]

\* closeSearch: the effect forgets the query and its timer.
Closed(s) == NoSearch

SetQuery(text) ==
    /\ ghost.view = "search" /\ ui.search.open /\ text # ui.search.query
    /\ ui' = [ui EXCEPT !.search.query = text, !.search.timer = TRUE]
    /\ ghost' = [ghost EXCEPT !.typed = @ \cup {text}, !.key = FALSE]
    /\ UNCHANGED <<server, query, calls>>

\* 300 ms after the last change.
Debounce ==
    /\ ui.search.timer
    /\ ui' = [ui EXCEPT !.search = Clamped([@ EXCEPT !.timer = FALSE, !.debounced = ui.search.query], ui.loaded)]
    /\ ghost' = [ghost EXCEPT !.key = FALSE]
    /\ UNCHANGED <<server, query, calls>>

\* The answer to a search, which is kept under its text; devices that come
\* after the software move what is selected.
Arrive(kind) ==
    /\ ui.search.open /\ ui.search.debounced \notin Short /\ <<kind, ui.search.debounced>> \notin ui.loaded
    /\ LET loaded == ui.loaded \cup {<<kind, ui.search.debounced>>}
       IN ui' = [ui EXCEPT !.loaded = loaded, !.search = Clamped(@, loaded)]
    /\ ghost' = [ghost EXCEPT !.key = FALSE]
    /\ UNCHANGED <<server, query, calls>>

\* handleSelect.
handleSelect(n) ==
    /\ ui.search.open /\ n < Len(Results(ui.search.debounced, ui.loaded))
    /\ ui' = [ui EXCEPT !.path = Results(ui.search.debounced, ui.loaded)[n + 1], !.search = Closed(@)]
    /\ ghost' = [ghost EXCEPT !.typed = {""}, !.key = FALSE]
    /\ UNCHANGED <<server, query, calls>>

\* The arrows, which go round.
Arrow(step) ==
    LET n == Len(Results(ui.search.debounced, ui.loaded))
    IN  /\ ui.search.open /\ n > 0
        /\ ui' = [ui EXCEPT !.search.index = (@ + n + step) % n]
        /\ ghost' = [ghost EXCEPT !.key = FALSE]
        /\ UNCHANGED <<server, query, calls>>

ClickSearch ==
    /\ ghost.view # "groups"
    /\ ui' = [ui EXCEPT !.search = IF @.open THEN Closed(@) ELSE Opened(@)]
    /\ ghost' = [ghost EXCEPT !.typed = {""}, !.key = FALSE]
    /\ UNCHANGED <<server, query, calls>>

-----------------------------------------------------------------------------
(* The shortcuts.                                                          *)

\* isTypingTarget: the focus is in the search or in a field of the page.
Typing == ui.search.open \/ ui.field

\* Ctrl-K: GlobalSearch closes a search that is open, useKeyboardShortcuts
\* opens it again.
CtrlK ==
    /\ ghost.view # "groups"
    /\ ui' = [ui EXCEPT !.search = Opened(Closed(@)), !.field = FALSE]
    /\ ghost' = [ghost EXCEPT !.typed = {""}, !.key = FALSE]
    /\ UNCHANGED <<server, query, calls>>

\* Escape: every overlay is closed, but not the dialog of a new group.
Escape ==
    /\ ui' = [ui EXCEPT !.search = Closed(@), !.help = FALSE, !.prefix = FALSE]
    /\ ghost' = [ghost EXCEPT !.typed = {""}, !.last = "", !.key = FALSE]
    /\ UNCHANGED <<server, query, calls>>

\* (history) A key outside of the fields.
Key(k) ==
    /\ ghost.view = "keys" /\ ~Typing
    /\ ghost' = [ghost EXCEPT !.last = k, !.key = TRUE]

Help ==
    /\ Key("?")
    /\ ui' = [ui EXCEPT !.help = TRUE, !.prefix = FALSE]
    /\ UNCHANGED <<server, query, calls>>

\* R: every query is fetched again, after G as well.
Refresh ==
    /\ Key("r")
    /\ ui' = [ui EXCEPT !.prefix = FALSE]
    /\ query' = Invalidated(query, DOMAIN query)
    /\ UNCHANGED <<server, calls>>

\* G, then a letter within a second; a second G ends it.
PressG ==
    /\ Key("g")
    /\ ui' = [ui EXCEPT !.prefix = ~@]
    /\ UNCHANGED <<server, query, calls>>

Press(l) ==
    /\ Key(l)
    /\ ui' = IF ui.prefix THEN [ui EXCEPT !.path = Letter[l], !.prefix = FALSE] ELSE ui
    /\ UNCHANGED <<server, query, calls>>

PrefixEnds ==
    /\ ui.prefix
    /\ ui' = [ui EXCEPT !.prefix = FALSE]
    /\ ghost' = [ghost EXCEPT !.key = FALSE]
    /\ UNCHANGED <<server, query, calls>>

CloseHelp ==
    /\ ui.help
    /\ ui' = [ui EXCEPT !.help = FALSE]
    /\ ghost' = [ghost EXCEPT !.key = FALSE]
    /\ UNCHANGED <<server, query, calls>>

-----------------------------------------------------------------------------
(* The sidebar.                                                            *)

Bar(u) ==
    /\ ghost.view = "groups" /\ ui' = u
    /\ UNCHANGED <<server, query, calls, ghost>>

ToggleSidebar == Bar([ui EXCEPT !.sidebar = ~@])

\* A group is a filter of the devices; the active one is switched off.
SelectGroup(g) ==
    /\ g \in query["groups"].data
    /\ Bar([ui EXCEPT !.group = IF @ = g THEN "" ELSE g, !.sidebar = FALSE])

OpenDialog == ~ui.dialog /\ Bar([ui EXCEPT !.dialog = TRUE])
CancelDialog == ui.dialog /\ Bar([ui EXCEPT !.dialog = FALSE, !.field = FALSE])
FocusField == ui.dialog /\ Bar([ui EXCEPT !.field = ~@])
TypeName(n) == ui.dialog /\ ui.field /\ Bar([ui EXCEPT !.name = n])

\* Create is disabled without a name and while pending.
createGroup ==
    /\ ui.dialog /\ ui.name # "" /\ ~Pending("create")
    /\ Mutate("create", ui.name)
    /\ UNCHANGED <<server, query, ui, ghost>>

\* A group with a name that exists is refused.
HandleCall(i) ==
    /\ calls[i].state = "sent" /\ calls[i].arg \notin server.groups
    /\ Handle(i, [server EXCEPT !.groups = @ \cup {calls[i].arg}])
    /\ UNCHANGED <<query, ui, ghost>>

OnSuccess(i) ==
    /\ calls[i].state = "handled"
    /\ calls' = Over(i)
    /\ query' = Invalidated(query, {"groups"})
    /\ ui' = [ui EXCEPT !.name = "", !.dialog = FALSE, !.field = FALSE]
    /\ UNCHANGED <<server, ghost>>

Deliver ==
    /\ query["groups"].state = "answered"
    /\ query' = Arrived("groups")
    /\ UNCHANGED <<server, ui, calls, ghost>>

Next ==
    \/ \E t \in Texts : SetQuery(t)
    \/ Debounce \/ ClickSearch \/ CtrlK \/ Escape \/ Arrow(1) \/ Arrow(-1)
    \/ \E k \in Kinds : Arrive(k)
    \/ \E n \in 0 .. 2 : handleSelect(n)
    \/ Help \/ CloseHelp \/ Refresh \/ PressG \/ PrefixEnds
    \/ \E l \in DOMAIN Letter : Press(l)
    \/ ToggleSidebar \/ OpenDialog \/ CancelDialog \/ FocusField \/ createGroup
    \/ \E g \in Groups : SelectGroup(g) \/ TypeName(g)
    \/ \E i \in DOMAIN calls : HandleCall(i) \/ OnSuccess(i) \/ Fail(i)
    \/ Serve("groups", server.groups) \/ Deliver

Spec == Init /\ [][Next]_vars

-----------------------------------------------------------------------------

\* There is always a result under the selection when there are results, though
\* they shrink and grow with the query and with either answer: Enter opens
\* results[selectedIndex] without a look at its length.
SelectionInResults ==
    LET n == Len(Results(ui.search.debounced, ui.loaded))
    IN ui.search.open /\ n > 0 => ui.search.index < n

\* A search shows results only for what was typed since it was opened: a timer
\* does not outlive the search it was started in.
SearchStartsEmpty ==
    ui.search.debounced \in ghost.typed /\ (~ui.search.open => ~ui.search.timer)

\* A letter leads to another page only when the key before it was G: whatever
\* else is pressed in between ends the prefix.  (An action.)
NavigatesAfterG ==
    ghost'.key /\ ui'.path # ui.path => ghost.last = "g"

\* Once nothing is under way the sidebar lists the groups of the server.
GroupsSettled ==
    Quiet /\ ~ghost.lost => query["groups"].data = server.groups
=============================================================================
