--------------------------- MODULE CustomDashboard ---------------------------
(***************************************************************************)
(* My Dashboard: the list of widgets that the user puts together by        *)
(* dragging, adding, removing and resizing, and keeps in the browser's     *)
(* storage.  The widget being dragged stays in the component's state when  *)
(* the drag is over, for the browser fires no mouseup at its end, until    *)
(* the next click: a button pressed by the keyboard may remove it, and a   *)
(* later drop, of anything, then finds a widget that is no longer there.   *)
(***************************************************************************)
EXTENDS Page, SequencesExt

CONSTANTS
    availableWidgets,   \* the widgets there are
    defaultLayout,      \* the layout of a user who has saved none
    MaxSize,            \* the size up to which a widget grows
    Null

Items == [widgetId : availableWidgets, size : 1..MaxSize]

TypeOK ==
    /\ server \in [saved : BOOLEAN, layout : Seq(Items)]
    /\ ui \in [layout : Seq(Items), dragging : availableWidgets \cup {Null},
               editMode : BOOLEAN, showPicker : BOOLEAN]
    /\ query = <<>> /\ calls = <<>> /\ ghost = <<>>

-----------------------------------------------------------------------------

Widgets(layout) == {layout[i].widgetId : i \in DOMAIN layout}

\* findIndex, from 1; -1 becomes 0.
findIndex(layout, w) ==
    IF w \in Widgets(layout) THEN CHOOSE i \in DOMAIN layout : layout[i].widgetId = w ELSE 0

readLayout == IF server.saved THEN server.layout ELSE defaultLayout

Opened == [layout |-> readLayout, dragging |-> Null, editMode |-> FALSE, showPicker |-> FALSE]

Init ==
    /\ server = [saved |-> FALSE, layout |-> <<>>]
    /\ ui = Opened
    /\ query = <<>> /\ calls = <<>> /\ ghost = <<>>

\* A step that changes the component's state only.
Local(next) == ui' = next /\ UNCHANGED <<server, query, calls, ghost>>

\* The page is left and opened again, or reloaded.
Reopen == ui # Opened /\ Local(Opened)

ToggleEdit == Local([ui EXCEPT !.editMode = ~@])
OpenPicker == ~ui.showPicker /\ Local([ui EXCEPT !.showPicker = TRUE])
ClosePicker == ui.showPicker /\ Local([ui EXCEPT !.showPicker = FALSE])

onDragStart(w) ==
    /\ ui.editMode /\ w \in Widgets(ui.layout)
    /\ Local([ui EXCEPT !.dragging = w])

\* The mouse button is released without a drag.
handleUp == ui.dragging # Null /\ Local([ui EXCEPT !.dragging = Null])

\* Mutants: the widget goes in before it is taken out, and from where it was.
MovedTwice(layout, w, target) ==
    LET from == IF findIndex(layout, w) = 0 THEN Len(layout) ELSE findIndex(layout, w)
    IN  RemoveAt(InsertAt(layout, findIndex(layout, target), layout[from]), from)

\* splice(from, 1), which takes the last element if from is -1, and
\* splice(to, 0, moved), with to found before.
Moved(layout, w, target) ==
    LET from == IF findIndex(layout, w) = 0 THEN Len(layout) ELSE findIndex(layout, w)
    IN  InsertAt(RemoveAt(layout, from), findIndex(layout, target), layout[from])

\* Whatever is dropped: the code asks its own state what was dragged.
onDrop(target) ==
    /\ target \in Widgets(ui.layout)
    /\ ui.editMode /\ ui.dragging # Null /\ ui.dragging # target
    /\ Local([ui EXCEPT !.layout = Moved(ui.layout, ui.dragging, target)])

RemoveWidget(w) ==
    /\ ui.editMode /\ w \in Widgets(ui.layout)
    /\ Local([ui EXCEPT !.layout = SelectSeq(@, LAMBDA e : e.widgetId # w)])

\* Mutants: the widget grows without Math.min.
ResizeUncapped(w) ==
    /\ ui.editMode /\ w \in Widgets(ui.layout)
    /\ Local([ui EXCEPT !.layout =
                [i \in DOMAIN @ |-> IF @[i].widgetId = w THEN [@[i] EXCEPT !.size = @ + 1]
                                    ELSE @[i]]])

Resize(w) ==
    /\ ui.editMode /\ w \in Widgets(ui.layout)
    /\ Local([ui EXCEPT !.layout =
                [i \in DOMAIN @ |-> IF @[i].widgetId = w /\ @[i].size < MaxSize
                                    THEN [@[i] EXCEPT !.size = @ + 1] ELSE @[i]]])

\* What the picker lists.
Offered == availableWidgets \ Widgets(ui.layout)

AddWidget(w) ==
    /\ ui.showPicker /\ w \in Offered
    /\ Local([ui EXCEPT !.layout = Append(@, [widgetId |-> w, size |-> 1]), !.showPicker = FALSE])

Reset ==
    /\ ui' = [ui EXCEPT !.layout = defaultLayout]
    /\ server' = [saved |-> FALSE, layout |-> <<>>]
    /\ UNCHANGED <<query, calls, ghost>>

saveLayout ==
    /\ server' = [saved |-> TRUE, layout |-> ui.layout]
    /\ UNCHANGED <<ui, query, calls, ghost>>

Next ==
    \/ Reopen \/ ToggleEdit \/ OpenPicker \/ ClosePicker \/ handleUp \/ Reset \/ saveLayout
    \/ \E w \in availableWidgets :
        onDragStart(w) \/ onDrop(w) \/ RemoveWidget(w) \/ Resize(w) \/ AddWidget(w)

-----------------------------------------------------------------------------

\* No widget is in the layout, or in the one saved, twice, however widgets are
\* dragged, removed, added again and read back: React's keys and every later
\* findIndex depend on it.
EachOnce ==
    \A layout \in {ui.layout, server.layout} : Len(layout) = Cardinality(Widgets(layout))

\* A drop reorders the layout and no more, also one that finds a widget dragged
\* that is no longer there: no widget is lost and none changes its size.  One
\* that is there ends where its target was.
DropReorders ==
    \A t \in availableWidgets :
        onDrop(t) =>
            /\ ToSet(ui'.layout) = ToSet(ui.layout) /\ Len(ui'.layout) = Len(ui.layout)
            /\ ui.dragging \in Widgets(ui.layout) =>
                  findIndex(ui'.layout, ui.dragging) = findIndex(ui.layout, t)
=============================================================================
