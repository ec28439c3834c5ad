----------------------------- MODULE DevicePage -----------------------------
(***************************************************************************)
(* The page of a device (DeviceDetail.tsx, useDevices.ts): the editable    *)
(* asset fields, which share one draft; the tags, written as a whole; the  *)
(* agent's configuration and the maintenance dialog, forms that follow     *)
(* what is fetched; groups and SSH keys.                                   *)
(***************************************************************************)
EXTENDS Page

CONSTANTS
    Fields,         \* the editable asset fields
    Typed,          \* what may be typed into one
    Tags, Groups, Keys,
    Configs,        \* agent configurations, DEFAULT_DEVICE_CONFIG among them
    DEFAULT_DEVICE_CONFIG,
    Maintenances,   \* maintenance settings (enabled, reason and until)
    Null,
    Sessions        \* bound: the parts of the page used in one behaviour

Parts == {"rows", "tags", "groups", "keys", "config", "maintenance"}

Sections == {"overview", "network", "config"}

Section(p) ==
    CASE p = "keys" -> "network" [] p = "config" -> "config" [] OTHER -> "overview"

\* What the user types into a field, and what the server stores: '' is null.
Stored(v) == IF v = "" THEN Null ELSE v
Display(v) == IF v = Null THEN "" ELSE v

\* The query that shows what a part of the page changes.
Source(p) ==
    CASE p \in {"rows", "tags", "maintenance"} -> "device"
      [] p = "groups" -> "device-groups"
      [] p = "keys" -> "device-ssh-keys"
      [] p = "config" -> "device-config"

Queries == {"device", "device-config", "device-groups", "device-ssh-keys"}

View(s, k) ==
    CASE k = "device" -> [fields |-> s.fields, tags |-> s.tags, maintenance |-> s.maintenance]
      [] k = "device-config" -> s.config
      [] k = "device-groups" -> s.groups
      [] k = "device-ssh-keys" -> s.keys

device == query["device"].data

Init ==
    \E uses \in Sessions :
    /\ server = [fields |-> [f \in Fields |-> f], tags |-> {}, groups |-> {}, keys |-> Keys,
                 config |-> CHOOSE c \in Configs : c # DEFAULT_DEVICE_CONFIG,
                 maintenance |-> CHOOSE m \in Maintenances : TRUE]
    /\ query = [k \in Queries |->
                    IF k = "device-config" /\ "config" \in uses
                    THEN [Query(Null) EXCEPT !.state = "asked"]
                    ELSE Query(View(server, k))]
    /\ ui = [editing |-> Null, draft |-> "", focus |-> FALSE, tag |-> "", group |-> "",
             config |-> IF "config" \in uses THEN DEFAULT_DEVICE_CONFIG ELSE server.config, maintenance |-> server.maintenance,
             dialog |-> FALSE, open |-> "overview"]
    /\ calls = <<>>
    /\ ghost = [lost |-> FALSE, input |-> <<Null, "">>, added |-> {},
                overlap |-> FALSE, configTouched |-> FALSE, maintenanceTouched |-> FALSE,
                uses |-> uses]

TypeOK ==
    /\ server.fields \in [Fields -> Fields \cup Typed \cup {Null}]
    /\ server.tags \subseteq Tags /\ server.groups \subseteq Groups /\ server.keys \subseteq Keys
    /\ server.config \in Configs /\ server.maintenance \in Maintenances
    /\ \A k \in Queries : query[k].state \in {"idle", "asked", "answered"}
    /\ ui.editing \in Fields \cup {Null} /\ ui.open \in Sections
    /\ ui.draft \in Fields \cup Typed /\ ui.focus \in BOOLEAN /\ ui.dialog \in BOOLEAN
    /\ ui.config \in Configs /\ ui.maintenance \in Maintenances
    /\ Len(calls) <= MaxCalls

-----------------------------------------------------------------------------
(* The controls.  A click elsewhere takes the focus from an input first,   *)
(* so that its blur comes before the click.                                *)

\* Which section is shown: a tab, or the sections opened on a small screen.
Show(s) ==
    /\ ~ui.focus /\ ~ui.dialog /\ ui.open # s
    /\ \E p \in ghost.uses : Section(p) = s
    /\ ui' = [ui EXCEPT !.open = s]
    /\ UNCHANGED <<server, query, calls, ghost>>

Shown(s, p) == ui.open = s /\ ~ui.focus /\ ~ui.dialog /\ p \in ghost.uses

\* Mutant: the row keeps the draft of the row edited before.
EditKeepsDraft(f) ==
    /\ Shown("overview", "rows") /\ ui.editing # f
    /\ ui' = [ui EXCEPT !.editing = f, !.focus = TRUE]
    /\ ghost' = [ghost EXCEPT !.input = <<f, Display(device.fields[f])>>]
    /\ UNCHANGED <<server, query, calls>>

\* EditableInfoRow: a click on the value turns it into an input.
EditRow(f) ==
    /\ Shown("overview", "rows") /\ ui.editing # f
    /\ ui' = [ui EXCEPT !.editing = f, !.draft = Display(device.fields[f]), !.focus = TRUE]
    /\ ghost' = [ghost EXCEPT !.input = <<f, Display(device.fields[f])>>]
    /\ UNCHANGED <<server, query, calls>>

\* The input of a row whose save is under way is still there to be clicked.
FocusRow ==
    /\ Shown("overview", "rows") /\ ui.editing # Null
    /\ ui' = [ui EXCEPT !.focus = TRUE]
    /\ UNCHANGED <<server, query, calls, ghost>>

TypeRow(v) ==
    /\ ui.focus /\ ui.draft # v
    /\ ui' = [ui EXCEPT !.draft = v]
    /\ ghost' = [ghost EXCEPT !.input = <<ui.editing, v>>]
    /\ UNCHANGED <<server, query, calls>>

\* Enter and blur both save the draft.  The row stays an input until the
\* request has succeeded.
SaveRow ==
    /\ ui.focus
    /\ Mutate("rows", [field |-> ui.editing, value |-> ui.draft])
    /\ \/ ui' = ui
       \/ ui' = [ui EXCEPT !.focus = FALSE]
    /\ UNCHANGED <<server, query, ghost>>

TypeTag(t) ==
    /\ Shown("overview", "tags") /\ ui.tag # t
    /\ ui' = [ui EXCEPT !.tag = t]
    /\ UNCHANGED <<server, query, calls, ghost>>

\* The tags the page shows and the new one replace those on the server.  The
\* button is not disabled while a request is under way.
addTag ==
    /\ Shown("overview", "tags") /\ ui.tag # ""
    /\ Mutate("tags", [tag |-> ui.tag, tags |-> device.tags \cup {ui.tag}])
    /\ ghost' = [ghost EXCEPT !.overlap = @ \/ ~Quiet]
    /\ UNCHANGED <<server, query, ui>>

\* The select offers the groups the device is not in.
SelectGroup(g) ==
    /\ Shown("overview", "groups") /\ g \in Groups \ query["device-groups"].data /\ ui.group # g
    /\ ui' = [ui EXCEPT !.group = g]
    /\ UNCHANGED <<server, query, calls, ghost>>

addToGroup ==
    /\ Shown("overview", "groups") /\ ui.group # "" /\ ~Pending("groups")
    /\ Mutate("groups", ui.group)
    /\ UNCHANGED <<server, query, ui, ghost>>

removeSSHKey(key) ==
    /\ Shown("network", "keys") /\ key \in query["device-ssh-keys"].data
    /\ Mutate("keys", key)
    /\ UNCHANGED <<server, query, ui, ghost>>

\* The number inputs of the configuration.
EditConfig(c) ==
    /\ Shown("config", "config") /\ ui.config # c
    /\ ui' = [ui EXCEPT !.config = c]
    /\ ghost' = [ghost EXCEPT !.configTouched = TRUE]
    /\ UNCHANGED <<server, query, calls>>

saveConfig ==
    /\ Shown("config", "config")
    /\ Mutate("config", ui.config)
    /\ UNCHANGED <<server, query, ui, ghost>>

\* The dialog is opened, and closed by Close and Cancel: the form keeps what
\* was entered.
ToggleDialog ==
    /\ ~ui.focus /\ "maintenance" \in ghost.uses
    /\ ui' = [ui EXCEPT !.dialog = ~@]
    /\ UNCHANGED <<server, query, calls, ghost>>

EditMaintenance(m) ==
    /\ ui.dialog /\ ui.maintenance # m
    /\ ui' = [ui EXCEPT !.maintenance = m]
    /\ ghost' = [ghost EXCEPT !.maintenanceTouched = TRUE]
    /\ UNCHANGED <<server, query, calls>>

updateMaintenance ==
    /\ ui.dialog
    /\ Mutate("maintenance", ui.maintenance)
    /\ UNCHANGED <<server, query, ui, ghost>>

-----------------------------------------------------------------------------
(* What happens to the requests.                                           *)

Applied(s, c) ==
    CASE c.op = "rows" -> [s EXCEPT !.fields[c.arg.field] = Stored(c.arg.value)]
      [] c.op = "tags" -> [s EXCEPT !.tags = c.arg.tags]
      [] c.op = "groups" -> [s EXCEPT !.groups = @ \cup {c.arg}]
      [] c.op = "keys" -> [s EXCEPT !.keys = @ \ {c.arg}]
      [] c.op = "config" -> [s EXCEPT !.config = c.arg]
      [] c.op = "maintenance" -> [s EXCEPT !.maintenance = c.arg]

HandleCall(i) ==
    /\ Handle(i, Applied(server, calls[i]))
    /\ ghost' = IF calls[i].op = "tags" THEN [ghost EXCEPT !.added = @ \cup {calls[i].arg.tag}]
                ELSE ghost
    /\ UNCHANGED <<query, ui>>

\* The callbacks of the mutations: which queries are invalidated ...
Invalidates(op) == {Source(op)}

\* ... and what becomes of the page.  A saved row closes whichever row is
\* edited by then; a saved dialog closes it even if it was opened again.
AfterSuccess(op) ==
    CASE op = "rows" -> [ui EXCEPT !.editing = Null, !.focus = FALSE]
      [] op = "tags" -> [ui EXCEPT !.tag = ""]
      [] op = "groups" -> [ui EXCEPT !.group = ""]
      [] op = "maintenance" -> [ui EXCEPT !.dialog = FALSE]
      [] OTHER -> ui

OnSuccess(i) ==
    /\ calls[i].state = "handled"
    /\ calls' = Over(i)
    /\ query' = Invalidated(query, Invalidates(calls[i].op))
    /\ ui' = AfterSuccess(calls[i].op)
    /\ UNCHANGED <<server, ghost>>

\* The effects: a form is set to what is fetched when that has changed, also
\* while it is being edited.
Follows(k, answer) ==
    CASE k = "device-config" /\ answer # query[k].data -> [ui EXCEPT !.config = answer]
      [] k = "device" /\ answer.maintenance # device.maintenance ->
            [ui EXCEPT !.maintenance = answer.maintenance]
      [] OTHER -> ui

Deliver(k) ==
    LET answer == query[k].answer
    IN  /\ query[k].state = "answered"
        /\ query' = Arrived(k)
        /\ ui' = Follows(k, answer)
        /\ ghost' = CASE k = "device-config" /\ answer # query[k].data ->
                            [ghost EXCEPT !.configTouched = FALSE]
                      [] k = "device" /\ answer.maintenance # device.maintenance ->
                            [ghost EXCEPT !.maintenanceTouched = FALSE]
                      [] OTHER -> ghost
        /\ UNCHANGED <<server, calls>>

\* Someone else changes the configuration or the maintenance settings.
Elsewhere ==
    /\ ~ghost.lost
    /\ \/ /\ "config" \in ghost.uses
          /\ \E c \in Configs \ {server.config} : server' = [server EXCEPT !.config = c]
       \/ /\ "maintenance" \in ghost.uses
          /\ \E m \in Maintenances \ {server.maintenance} : server' = [server EXCEPT !.maintenance = m]
    /\ ghost' = [ghost EXCEPT !.lost = TRUE]
    /\ UNCHANGED <<query, ui, calls>>

Next ==
    \/ \E s \in Sections : Show(s)
    \/ \E f \in Fields : EditRow(f)
    \/ FocusRow
    \/ \E v \in Typed : TypeRow(v)
    \/ SaveRow
    \/ \E t \in Tags : TypeTag(t)
    \/ addTag
    \/ \E g \in Groups : SelectGroup(g)
    \/ addToGroup
    \/ \E key \in Keys : removeSSHKey(key)
    \/ \E c \in Configs : EditConfig(c)
    \/ saveConfig
    \/ ToggleDialog
    \/ \E m \in Maintenances : EditMaintenance(m)
    \/ updateMaintenance
    \/ \E i \in DOMAIN calls : HandleCall(i) \/ OnSuccess(i) \/ Fail(i)
    \/ \E k \in {Source(p) : p \in ghost.uses} : Refetch(k)
    \/ \E k \in Queries : Serve(k, View(server, k)) \/ Deliver(k) \/ FetchFails(k)
    \/ Elsewhere

Spec == Init /\ [][Next]_vars

-----------------------------------------------------------------------------

\* Once nothing is under way the page shows what the server holds, unless
\* someone else changed it or an answer did not come: every mutation
\* invalidates what it changed, and a fetch that began before the change is
\* abandoned rather than shown.
Settled ==
    Quiet /\ ~ghost.lost => \A k \in Queries : query[k].data = View(server, k)

\* The rows share one draft, and saving one does not stop another from being
\* edited: still, what is sent for a field was shown in its own input.
NoCrossWrites ==
    ui.focus => <<ui.editing, ui.draft>> = ghost.input

\* Tags are written as a whole, from what the page shows.  A tag that was
\* saved is not undone by the next one, as long as each is added when the
\* page has nothing under way.
TagsKept ==
    ~ghost.overlap /\ ~ghost.lost => ghost.added \subseteq server.tags

\* A form that was not touched since it was last set shows what was fetched.
FormsFollow ==
    /\ ~ghost.configTouched =>
          ui.config = (IF query["device-config"].data = Null THEN DEFAULT_DEVICE_CONFIG
                       ELSE query["device-config"].data)
    /\ ~ghost.maintenanceTouched => ui.maintenance = device.maintenance
=============================================================================
