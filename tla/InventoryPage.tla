--------------------------- MODULE InventoryPage ---------------------------
(***************************************************************************)
(* The inventory (Inventory.tsx), whose cells are edited in place and      *)
(* which takes in a CSV file row by row, and the selection of packages to  *)
(* be updated (SoftwareUpdates.tsx).                                       *)
(*                                                                         *)
(* One column stands for all of them, the location, which also filters the *)
(* rows.  The input of a cell has its own text: it starts as the value of  *)
(* the cell, while draft is what gets saved.                               *)
(***************************************************************************)
EXTENDS Page, SequencesExt

CONSTANTS
    Devices,
    Values,         \* of a cell, "" among them
    File,           \* the rows of a file: pairs of a device and a value
    Packages,       \* the pending updates, a sequence; one on a page
    Affected,       \* per package: the devices it is pending on
    Searches,       \* per search: the packages it matches
    Null,
    Views           \* bound: "cells", "import", "updates"

Inventory == query["inventory"].data

NoCell == [editing |-> Null, draft |-> "", text |-> "", focused |-> FALSE]

Init ==
    /\ server = [inventory |-> [d \in Devices |-> ""], updates |-> {}]
    /\ query = "inventory" :> Query(server.inventory)
    /\ ui = [cell |-> NoCell, location |-> "", rows |-> <<>>, selected |-> {}, search |-> "", page |-> 1]
    /\ calls = <<>>
    /\ \E view \in Views :
            ghost = [lost |-> FALSE, view |-> view, remounted |-> FALSE, taken |-> <<>>, broken |-> FALSE]

TypeOK ==
    /\ server.inventory \in [Devices -> Values] /\ server.updates \subseteq Devices \X ToSet(Packages)
    /\ ui.cell.editing \in Devices \cup {Null} /\ ui.cell.draft \in Values /\ ui.cell.text \in Values
    /\ ui.location \in Values /\ ui.selected \subseteq ToSet(Packages) /\ ui.page \in DOMAIN Packages
    /\ Len(calls) <= MaxCalls

-----------------------------------------------------------------------------
(* Cells.                                                                  *)

\* filtered.
Filtered(rows, location) == {d \in Devices : location = "" \/ rows[d] = location}

\* A render: an input that is no longer among the rows is gone, without a blur;
\* when its row comes back, it is a new input, with the focus and the value of
\* the cell as its text.
Rendered(rows, location) ==
    LET c == ui.cell
        before == c.editing # Null /\ c.editing \in Filtered(Inventory, ui.location)
        after == c.editing # Null /\ c.editing \in Filtered(rows, location)
    IN  IF before /\ ~after THEN [c EXCEPT !.focused = FALSE]
        ELSE IF ~before /\ after THEN [c EXCEPT !.focused = TRUE, !.text = rows[c.editing]]
        ELSE c

Remounts(rows, location) ==
    /\ ui.cell.editing # Null /\ ui.cell.editing \notin Filtered(Inventory, ui.location)
    /\ ui.cell.editing \in Filtered(rows, location)

\* The focus is elsewhere: a click on anything else is a blur first.
Unfocused == ~ui.cell.focused

onStart(d) ==
    /\ ghost.view = "cells" /\ Unfocused /\ d \in Filtered(Inventory, ui.location) /\ ui.cell.editing # d
    /\ ui' = [ui EXCEPT !.cell = [editing |-> d, draft |-> Inventory[d], text |-> Inventory[d], focused |-> TRUE]]
    /\ UNCHANGED <<server, query, calls, ghost>>

\* A click back into the input.
Focus ==
    /\ Unfocused /\ ui.cell.editing # Null /\ ui.cell.editing \in Filtered(Inventory, ui.location)
    /\ ui' = [ui EXCEPT !.cell.focused = TRUE]
    /\ UNCHANGED <<server, query, calls, ghost>>

onChange(v) ==
    /\ ui.cell.focused /\ ui.cell.text # v
    /\ ui' = [ui EXCEPT !.cell.draft = v, !.cell.text = v]
    /\ UNCHANGED <<server, query, calls, ghost>>

\* Enter saves and keeps the focus; a blur saves, whatever has been saved.
onSave(blur) ==
    /\ ui.cell.focused
    /\ Mutate("update", [id |-> ui.cell.editing, value |-> ui.cell.draft, shown |-> ui.cell.text])
    /\ ui' = [ui EXCEPT !.cell.focused = ~blur]
    /\ UNCHANGED <<server, query, ghost>>

SetLocation(l) ==
    /\ ghost.view \in {"cells", "import"} /\ Unfocused /\ l # ui.location
    /\ l = "" \/ \E d \in Devices : Inventory[d] = l
    /\ ui' = [ui EXCEPT !.location = l, !.cell = Rendered(Inventory, l)]
    /\ ghost' = [ghost EXCEPT !.remounted = @ \/ Remounts(Inventory, l)]
    /\ UNCHANGED <<server, query, calls>>

-----------------------------------------------------------------------------
(* Import: the rows of devices that are shown when the file is chosen, one *)
(* request after the other.                                                *)

importCsv ==
    /\ ghost.view = "import" /\ Unfocused /\ ghost.taken = <<>>
    /\ LET rows == SelectSeq(File, LAMBDA r : r[1] \in Filtered(Inventory, ui.location))
       IN /\ rows # <<>>
          /\ Mutate("import", [id |-> rows[1][1], value |-> rows[1][2], n |-> 1])
          /\ ui' = [ui EXCEPT !.rows = Tail(rows)]
          /\ ghost' = [ghost EXCEPT !.taken = rows]
    /\ UNCHANGED <<server, query>>

-----------------------------------------------------------------------------
(* Updates of packages.                                                    *)

\* filtered and paged.
Matching == SelectSeq(Packages, LAMBDA p : p \in Searches[ui.search])
Visible == ToSet(Matching)
Paged == {Matching[n] : n \in DOMAIN Matching \cap {ui.page}}

SetSearch(s) ==
    /\ ghost.view = "updates" /\ ui.search # s
    /\ ui' = [ui EXCEPT !.search = s]
    /\ UNCHANGED <<server, query, calls, ghost>>

SetPage(n) ==
    /\ ghost.view = "updates" /\ ui.page # n
    /\ ui' = [ui EXCEPT !.page = n]
    /\ UNCHANGED <<server, query, calls, ghost>>

toggleSelected(p) ==
    /\ ghost.view = "updates" /\ p \in Paged
    /\ ui' = [ui EXCEPT !.selected = IF p \in @ THEN @ \ {p} ELSE @ \cup {p}]
    /\ UNCHANGED <<server, query, calls, ghost>>

\* The devices of the named packages that match the search, on any page; the
\* names are sent as they are.
deviceIds(names) == UNION {Affected[p] : p \in names \cap Visible}

\* Update Selected is disabled without a selection and while pending; Update
\* All, which is for one package, is not.
runUpdate(names) ==
    /\ ghost.view = "updates"
    /\ \/ names = ui.selected /\ names # {} /\ ~Pending("dispatch")
       \/ \E p \in Paged : names = {p}
    /\ Mutate("dispatch", [names |-> names, visible |-> names \cap Visible, devices |-> deviceIds(names)])
    /\ UNCHANGED <<server, query, ui, ghost>>

-----------------------------------------------------------------------------
(* The requests.                                                           *)

\* An update of packages is one command for each device, with all the names.
Applied(s, c) ==
    IF c.op = "dispatch" THEN [s EXCEPT !.updates = @ \cup (c.arg.devices \X c.arg.names)]
    ELSE [s EXCEPT !.inventory[c.arg.id] = c.arg.value]

HandleCall(i) ==
    /\ calls[i].state = "sent"
    /\ Handle(i, Applied(server, calls[i]))
    /\ UNCHANGED <<query, ui, ghost>>

\* A success of a cell's update closes the cell that is being edited, which may
\* be another one by then.  A row that is in sends the next; the last one
\* fetches the list.
OnSuccess(i) ==
    /\ calls[i].state = "handled"
    /\ LET op == calls[i].op
           next == op = "import" /\ ui.rows # <<>>
       IN /\ next => Len(calls) < MaxCalls
          /\ calls' = IF next
                      THEN Append(Over(i), [op |-> "import", state |-> "sent",
                              arg |-> [id |-> Head(ui.rows)[1], value |-> Head(ui.rows)[2], n |-> calls[i].arg.n + 1]])
                      ELSE Over(i)
          /\ query' = IF next \/ op = "dispatch" THEN query ELSE Invalidated(query, {"inventory"})
          /\ ui' = [ui EXCEPT !.rows = IF next THEN Tail(@) ELSE @,
                              !.cell = IF op = "update" THEN NoCell ELSE @]
    /\ UNCHANGED <<server, ghost>>

\* A row that fails ends the import: no row after it is sent, and the list is
\* not fetched again.
OnError(i) ==
    /\ i \in Open /\ (calls[i].state = "sent" \/ ~ghost.lost)
    /\ calls' = Over(i)
    /\ ui' = [ui EXCEPT !.rows = IF calls[i].op = "import" THEN <<>> ELSE @]
    /\ ghost' = [ghost EXCEPT !.lost = @ \/ calls[i].state = "handled", !.broken = @ \/ calls[i].op = "import"]
    /\ UNCHANGED <<server, query>>

Deliver ==
    /\ query["inventory"].state = "answered"
    /\ query' = Arrived("inventory")
    /\ LET rows == query["inventory"].answer
       IN /\ ui' = [ui EXCEPT !.cell = Rendered(rows, ui.location)]
          /\ ghost' = [ghost EXCEPT !.remounted = @ \/ Remounts(rows, ui.location)]
    /\ UNCHANGED <<server, calls>>

Next ==
    \/ \E d \in Devices : onStart(d)
    \/ \E v \in Values : onChange(v) \/ SetLocation(v)
    \/ Focus \/ onSave(TRUE) \/ onSave(FALSE) \/ importCsv
    \/ \E s \in DOMAIN Searches : SetSearch(s)
    \/ \E n \in DOMAIN Packages : SetPage(n) \/ toggleSelected(Packages[n])
    \/ \E names \in SUBSET ToSet(Packages) : runUpdate(names)
    \/ \E i \in DOMAIN calls : HandleCall(i) \/ OnSuccess(i) \/ OnError(i)
    \/ Refetch("inventory") \/ Serve("inventory", server.inventory) \/ Deliver

Spec == Init /\ [][Next]_vars

-----------------------------------------------------------------------------

\* Once nothing is under way the table shows the inventory; not after an import
\* that broke off, which leaves the rows before the failure unshown.
Settled ==
    Quiet /\ ~ghost.lost /\ ~ghost.broken => Inventory = server.inventory

\* What is saved in a cell is the text of its input, though input and draft are
\* kept apart and any success resets the draft; the exception is an input that
\* was filtered away and has come back.
SavesWhatIsShown ==
    ~ghost.remounted =>
        \A i \in OpenOf("update") : calls[i].arg.value = calls[i].arg.shown

\* An import is in order: when a row is on its way every row before it has
\* been taken in, and after a failure the rows taken in are a prefix of the file.
ImportInOrder ==
    \A i \in OpenOf("import") :
        \A m \in 1 .. calls[i].arg.n - 1 :
            server.inventory[ghost.taken[m][1]] = ghost.taken[m][2]

\* Update Selected reaches every device on which a selected package that
\* matches the search is pending, on whatever page it was selected.
UpdateReaches ==
    \A i \in OpenOf("dispatch") :
        \A p \in calls[i].arg.visible : Affected[p] \subseteq calls[i].arg.devices
=============================================================================
