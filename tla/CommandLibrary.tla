--------------------------- MODULE CommandLibrary ---------------------------
(***************************************************************************)
(* Saved commands: the page of the library (CommandLibrary.tsx) with its   *)
(* editor and its dialog for running one on a device, and the panel of a   *)
(* device (CommandPanel.tsx), where a saved command fills the command line *)
(* or is dispatched, and the current line can be saved.                    *)
(*                                                                         *)
(* The contents of a saved command are one value; Empty is emptyForm.      *)
(***************************************************************************)
EXTENDS Page

CONSTANTS
    Ids,            \* ids of saved commands
    First,          \* the one that is there from the beginning
    Contents,       \* what a saved command may hold, Empty not among them
    Shell,          \* the contents whose command_type is shell
    Empty,
    Views           \* bound: what is used: of the page "edit", "run",
                    \* of a panel "commands", "library"

Queries == {"saved-commands", "commands"}

\* The saved commands of the server, by id; Empty stands for none.
View(s, k) == IF k = "saved-commands" THEN s.saved ELSE s.dispatched

\* What is on the screen.
Observed == IF ghost.view \in {"edit", "run"} THEN {"saved-commands"} ELSE Queries

saved == query["saved-commands"].data

Listed == {id \in Ids : saved[id] # Empty}

Init ==
    /\ server = [saved |-> [id \in Ids |-> IF id = First THEN CHOOSE c \in Shell : TRUE ELSE Empty],
                 dispatched |-> <<>>]
    /\ query = [k \in Queries |-> Query(View(server, k))]
    /\ ui = [editing |-> "no", form |-> Empty, run |-> Empty, device |-> FALSE,
             line |-> Empty, name |-> FALSE, library |-> FALSE, selected |-> 0]
    /\ calls = <<>>
    /\ \E view \in Views :
           ghost = [lost |-> FALSE, view |-> view, opened |-> Empty, edits |-> FALSE]

TypeOK ==
    /\ server.saved \in [Ids -> Contents \cup {Empty}]
    /\ \A n \in DOMAIN server.dispatched : server.dispatched[n] \in Contents
    /\ ui.editing \in {"no", "new"} \cup Ids
    /\ ui.form \in Contents \cup {Empty} /\ ui.run \in Contents \cup {Empty} /\ ui.device \in BOOLEAN
    /\ ui.line \in Shell \cup {Empty} /\ ui.name \in BOOLEAN /\ ui.library \in BOOLEAN
    /\ ui.selected \in 0 .. MaxCalls
    /\ Len(calls) <= MaxCalls

-----------------------------------------------------------------------------
(* The page of the library.                                                *)

Page == ghost.view = "edit" /\ ui.editing = "no" 

\* New Command does not touch the form.
New ==
    /\ Page
    /\ ui' = [ui EXCEPT !.editing = "new"]
    /\ ghost' = [ghost EXCEPT !.opened = Empty, !.edits = FALSE]
    /\ UNCHANGED <<server, query, calls>>

Edit(id) ==
    /\ Page /\ id \in Listed
    /\ ui' = [ui EXCEPT !.editing = id, !.form = saved[id]]
    /\ ghost' = [ghost EXCEPT !.opened = saved[id], !.edits = FALSE]
    /\ UNCHANGED <<server, query, calls>>

\* The inputs of the editor.
SetForm(c) ==
    /\ ui.editing # "no" /\ ui.form # c
    /\ ui' = [ui EXCEPT !.form = c]
    /\ ghost' = [ghost EXCEPT !.edits = TRUE]
    /\ UNCHANGED <<server, query, calls>>

\* Close and Cancel.
Close ==
    /\ ui.editing # "no"
    /\ ui' = [ui EXCEPT !.editing = "no", !.form = Empty]
    /\ UNCHANGED <<server, query, calls, ghost>>

\* Save is not disabled while a request is under way.
upsert ==
    /\ ui.editing # "no" /\ ui.form # Empty
    /\ Mutate("upsert", [id |-> ui.editing, contents |-> ui.form])
    /\ UNCHANGED <<server, query, ui, ghost>>

remove(id) ==
    /\ Page \/ (ghost.view = "run" /\ ui.run = Empty)
    /\ id \in Listed
    /\ Mutate("remove", [id |-> id, contents |-> Empty])
    /\ UNCHANGED <<server, query, ui, ghost>>

\* Run opens a dialog that holds the command as it was listed.
RunTarget(c) ==
    /\ ghost.view = "run"
    /\ c = Empty \/ (ui.run = Empty /\ \E id \in Listed : c = saved[id])
    /\ ui.run # c
    /\ ui' = [ui EXCEPT !.run = c, !.device = FALSE]
    /\ UNCHANGED <<server, query, calls, ghost>>

SelectDevice ==
    /\ ui.run # Empty /\ ~ui.device
    /\ ui' = [ui EXCEPT !.device = TRUE]
    /\ UNCHANGED <<server, query, calls, ghost>>

\* Run Command is disabled without a device only; the dialog stays open.
runSaved ==
    /\ ui.run # Empty /\ ui.device
    /\ Mutate("dispatch", [id |-> "none", contents |-> ui.run])
    /\ UNCHANGED <<server, query, ui, ghost>>

-----------------------------------------------------------------------------
(* The panel of a device.                                                  *)

Panel == ghost.view \in {"commands", "library"} /\ ~ui.library

TypeLine(c) ==
    /\ Panel /\ ui.line # c
    /\ ui' = [ui EXCEPT !.line = c]
    /\ UNCHANGED <<server, query, calls, ghost>>

\* Enter sends the line also while a dispatch is under way; the button Send
\* does not.  Quick actions are never disabled.
Send(c) ==
    /\ Panel
    /\ (c = ui.line /\ c # Empty) \/ (c \in Contents \ Shell /\ ghost.view = "commands")
    /\ Mutate("dispatch", [id |-> "none", contents |-> c])
    /\ UNCHANGED <<server, query, ui, ghost>>

\* A click on a command of the device shows its output, a second one hides it.
ToggleCommand(n) ==
    /\ Panel /\ ghost.view = "commands" /\ n \in DOMAIN query["commands"].data
    /\ ui' = [ui EXCEPT !.selected = IF ui.selected = n THEN 0 ELSE n]
    /\ UNCHANGED <<server, query, calls, ghost>>

OpenLibrary ==
    /\ Panel /\ ghost.view = "library"
    /\ ui' = [ui EXCEPT !.library = TRUE]
    /\ UNCHANGED <<server, query, calls, ghost>>

CloseLibrary ==
    /\ ui.library
    /\ ui' = [ui EXCEPT !.library = FALSE]
    /\ UNCHANGED <<server, query, calls, ghost>>

\* Run: a shell command becomes the line, another is dispatched at once.
RunFromLibrary(id) ==
    /\ ui.library /\ id \in Listed
    /\ IF saved[id] \in Shell
       THEN /\ ui' = [ui EXCEPT !.line = saved[id], !.library = FALSE]
            /\ UNCHANGED calls
       ELSE /\ ui' = [ui EXCEPT !.library = FALSE]
            /\ Mutate("dispatch", [id |-> "none", contents |-> saved[id]])
    /\ UNCHANGED <<server, query, ghost>>

TypeName ==
    /\ ui.library /\ ~ui.name
    /\ ui' = [ui EXCEPT !.name = TRUE]
    /\ UNCHANGED <<server, query, calls, ghost>>

\* Disabled without a line or a name; not while a request is under way.
saveCurrentCommand ==
    /\ ui.library /\ ui.line # Empty /\ ui.name
    /\ Mutate("save", [id |-> "new", contents |-> ui.line])
    /\ UNCHANGED <<server, query, ui, ghost>>

-----------------------------------------------------------------------------
(* The requests.                                                           *)

\* A new saved command gets a free id; an update or a deletion of one that
\* is gone is answered with 404.
Applied(s, c) ==
    LET free == {id \in Ids : s.saved[id] = Empty}
    IN  CASE c.op = "dispatch" -> [s EXCEPT !.dispatched = Append(@, c.arg.contents)]
          [] c.op = "remove" -> [s EXCEPT !.saved[c.arg.id] = Empty]
          [] c.arg.id = "new" ->
                [s EXCEPT !.saved[CHOOSE id \in free : TRUE] = c.arg.contents]
          [] OTHER -> [s EXCEPT !.saved[c.arg.id] = c.arg.contents]

Accepts(s, c) ==
    CASE c.op = "dispatch" -> TRUE
      [] c.arg.id = "new" -> \E id \in Ids : s.saved[id] = Empty
      [] OTHER -> s.saved[c.arg.id] # Empty

HandleCall(i) ==
    /\ calls[i].state = "sent" /\ Accepts(server, calls[i])
    /\ Handle(i, Applied(server, calls[i]))
    /\ UNCHANGED <<query, ui, ghost>>

\* The page of the library shows no commands of devices: its runSaved leaves
\* the cache alone, the panel's dispatch does not.
Invalidates(op) ==
    CASE op \in {"upsert", "save", "remove"} -> {"saved-commands"}
      [] op = "dispatch" -> {"commands"} \cap Observed

\* A saved form closes the editor, whatever it has been opened for since; a
\* dispatch empties the line, whatever has been typed since.
AfterSuccess(op) ==
    CASE op = "upsert" -> [ui EXCEPT !.editing = "no", !.form = Empty]
      [] op = "save" -> [ui EXCEPT !.name = FALSE]
      [] op = "dispatch" -> [ui EXCEPT !.line = Empty]
      [] OTHER -> ui

OnSuccess(i) ==
    /\ calls[i].state = "handled"
    /\ calls' = Over(i)
    /\ query' = Invalidated(query, Invalidates(calls[i].op))
    /\ ui' = AfterSuccess(calls[i].op)
    /\ UNCHANGED <<server, ghost>>

Deliver(k) ==
    /\ query[k].state = "answered"
    /\ query' = Arrived(k)
    /\ UNCHANGED <<server, ui, calls, ghost>>

Next ==
    \/ New \/ Close \/ upsert \/ SelectDevice \/ runSaved
    \/ \E n \in 1 .. MaxCalls : ToggleCommand(n)
    \/ \E id \in Ids : Edit(id) \/ remove(id) \/ RunFromLibrary(id)
    \/ \E c \in Contents : SetForm(c) \/ Send(c)
    \/ \E c \in Contents \cup {Empty} : RunTarget(c)
    \/ \E c \in Shell : TypeLine(c)
    \/ OpenLibrary \/ CloseLibrary \/ TypeName \/ saveCurrentCommand
    \/ \E i \in DOMAIN calls : HandleCall(i) \/ OnSuccess(i) \/ Fail(i)
    \/ \E k \in Observed : Refetch(k)
    \/ \E k \in Queries : Serve(k, View(server, k)) \/ Deliver(k) \/ FetchFails(k)

Spec == Init /\ [][Next]_vars

-----------------------------------------------------------------------------

\* Once nothing is under way, the page and the panel show the saved commands
\* as they are; the panel shows the commands of the device, too.
Settled ==
    Quiet /\ ~ghost.lost =>
        \A k \in Observed : query[k].data = View(server, k)

\* New Command does not reset the form, Edit and the callbacks are what keeps
\* it right: an editor shows what it was opened with until it is edited, the
\* empty form for a new command, whenever earlier saves succeed.
EditorShowsItsOwn ==
    ui.editing # "no" /\ ~ghost.edits => ui.form = ghost.opened
=============================================================================
