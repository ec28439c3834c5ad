------------------------------ MODULE Schedules ------------------------------
(***************************************************************************)
(* The page of scheduled commands (ScheduledCommands.tsx) and the preview  *)
(* of a cron expression's next runs (utils/cron.ts), beside the runs the   *)
(* server will give it with croniter.                                      *)
(*                                                                         *)
(* The calendar is a small one of the same shape: minutes, hours, days,    *)
(* months and weekdays are counted from the constants.  Both sides are in  *)
(* one time zone here.                                                     *)
(***************************************************************************)
EXTENDS Page, Integers, SequencesExt

CONSTANTS
    Minutes, Hours, Days, Months, Weekdays,     \* lengths of the calendar's units
    MinuteFields, HourFields, DayFields, MonthFields, WeekdayFields,   \* what is typed
    Attempts,       \* minutes the preview looks ahead
    Horizon,        \* bound: minutes the reference looks ahead
    Nows,           \* bound: present times
    Views           \* bound: "table", "preview"

\* A field is a sequence of parts; a part is a range with a step.
\* <<>> is the asterisk.
Star == <<>>
At(n) == <<[from |-> n, to |-> n, step |-> 1]>>

Init ==
    /\ server = [schedules |-> <<TRUE>>]
    /\ query = "schedules" :> Query(server.schedules)
    /\ \E now \in Nows, view \in Views :
            /\ view = "preview" \/ \A n \in Nows : now <= n
            /\ ui = [isOpen |-> view = "preview", cron |-> [minute |-> At(0), hour |-> At(1), day |-> Star,
                                               month |-> Star, weekday |-> Star]]
            /\ ghost = [lost |-> FALSE, now |-> now, view |-> view, twice |-> FALSE]
    /\ calls = <<>>

TypeOK ==
    /\ server.schedules \in Seq(BOOLEAN) /\ query["schedules"].data \in Seq(BOOLEAN)
    /\ ui.isOpen \in BOOLEAN /\ Len(calls) <= MaxCalls
    /\ ui.cron \in [minute : MinuteFields, hour : HourFields, day : DayFields,
                    month : MonthFields, weekday : WeekdayFields]

-----------------------------------------------------------------------------
(* utils/cron.ts.                                                          *)

parseField(f, min, max) ==
    IF f = Star THEN min .. max
    ELSE UNION {{n \in f[p].from .. f[p].to : (n - f[p].from) % f[p].step = 0} : p \in DOMAIN f}

\* The fields of the minute t.
Date(t) ==
    LET day == t \div (Minutes * Hours)
    IN [minute |-> t % Minutes, hour |-> (t \div Minutes) % Hours,
        day |-> (day % Days) + 1, month |-> ((day \div Days) % Months) + 1, weekday |-> day % Weekdays]

matches(e, t) ==
    /\ Date(t).minute \in parseField(e.minute, 0, Minutes - 1)
    /\ Date(t).hour \in parseField(e.hour, 0, Hours - 1)
    /\ Date(t).day \in parseField(e.day, 1, Days)
    /\ Date(t).month \in parseField(e.month, 1, Months)
    /\ Date(t).weekday \in parseField(e.weekday, 0, Weekdays - 1)

\* The minutes after now, up to the horizon.
Ahead(now, horizon) == [i \in 1 .. horizon |-> now + i]

\* The first n of a list of minutes, or all of them.
First(n, all) == SubSeq(all, 1, IF Len(all) < n THEN Len(all) ELSE n)

\* Mutant: the present minute is looked at as well.
nextRunsFromNow(e, n) ==
    First(n, SelectSeq(Ahead(ghost.now - 1, Attempts), LAMBDA t : matches(e, t)))

nextRuns(e, n) == First(n, SelectSeq(Ahead(ghost.now, Attempts), LAMBDA t : matches(e, t)))

\* The wording: every so many minutes, every hour, every day at a time, or
\* the expression itself.
parseCron(e) ==
    LET everyDay == e.day = Star /\ e.month = Star /\ e.weekday = Star
    IN  CASE e.minute # Star /\ e.minute[1].step > 1 /\ e.hour = Star /\ everyDay -> "minutes"
          [] e.minute = At(0) /\ e.hour = Star /\ everyDay -> "hourly"
          [] everyDay -> "daily"
          [] OTHER -> "cron"

-----------------------------------------------------------------------------
(* The server's side of an expression.                                     *)

\* croniter: the last weekday is also the first; when both the day and the
\* weekday are restricted, either will do.
Restricted(f) == f # Star

croniter(e, t) ==
    LET d == Date(t)
        day == d.day \in parseField(e.day, 1, Days)
        weekday == d.weekday \in {n % Weekdays : n \in parseField(e.weekday, 0, Weekdays - 1)}
    IN  /\ d.minute \in parseField(e.minute, 0, Minutes - 1)
        /\ d.hour \in parseField(e.hour, 0, Hours - 1)
        /\ d.month \in parseField(e.month, 1, Months)
        /\ IF Restricted(e.day) /\ Restricted(e.weekday) THEN day \/ weekday ELSE day /\ weekday

-----------------------------------------------------------------------------
(* The page.                                                               *)

SetOpen(open) ==
    /\ ghost.view = "table" /\ ui.isOpen # open
    /\ ui' = [ui EXCEPT !.isOpen = open]
    /\ UNCHANGED <<server, query, calls, ghost>>

TypeCron(field, f) ==
    /\ ghost.view = "preview" /\ ui.isOpen /\ ui.cron[field] # f
    /\ ui' = [ui EXCEPT !.cron[field] = f]
    /\ UNCHANGED <<server, query, calls, ghost>>

\* Create is never disabled.
createSchedule ==
    /\ ghost.view = "table" /\ ui.isOpen
    /\ Mutate("create", [id |-> 0, on |-> TRUE])
    /\ UNCHANGED <<server, query, ui, ghost>>

\* (history) A schedule's switch was pressed again before the table had
\* followed the first press.
Twice(n) ==
    \/ query["schedules"].state # "idle"
    \/ \E i \in OpenOf("toggle") : calls[i].arg = [id |-> n, on |-> ~query["schedules"].data[n]]

toggleSchedule(n) ==
    /\ ghost.view = "table" /\ n \in DOMAIN query["schedules"].data
    /\ Mutate("toggle", [id |-> n, on |-> ~query["schedules"].data[n]])
    /\ ghost' = [ghost EXCEPT !.twice = @ \/ Twice(n)]
    /\ UNCHANGED <<server, query, ui>>

Applied(s, c) ==
    [s EXCEPT !.schedules = IF c.op = "create" THEN Append(@, TRUE) ELSE [@ EXCEPT ![c.arg.id] = c.arg.on]]

HandleCall(i) ==
    /\ calls[i].state = "sent"
    /\ Handle(i, Applied(server, calls[i]))
    /\ UNCHANGED <<query, ui, ghost>>

\* A creation closes the dialog, also one that was opened since; the form
\* keeps what it holds.
OnSuccess(i) ==
    /\ calls[i].state = "handled"
    /\ calls' = Over(i)
    /\ query' = Invalidated(query, {"schedules"})
    /\ ui' = [ui EXCEPT !.isOpen = @ /\ calls[i].op # "create"]
    /\ UNCHANGED <<server, ghost>>

Deliver ==
    /\ query["schedules"].state = "answered"
    /\ query' = Arrived("schedules")
    /\ UNCHANGED <<server, ui, calls, ghost>>

Next ==
    \/ \E open \in BOOLEAN : SetOpen(open)
    \/ \E f \in MinuteFields : TypeCron("minute", f)
    \/ \E f \in HourFields : TypeCron("hour", f)
    \/ \E f \in DayFields : TypeCron("day", f)
    \/ \E f \in MonthFields : TypeCron("month", f)
    \/ \E f \in WeekdayFields : TypeCron("weekday", f)
    \/ createSchedule
    \/ \E n \in 1 .. 1 + MaxCalls : toggleSchedule(n)
    \/ \E i \in DOMAIN calls : HandleCall(i) \/ OnSuccess(i) \/ Fail(i)
    \/ (ghost.view = "table" /\ Refetch("schedules"))
    \/ Serve("schedules", server.schedules) \/ Deliver \/ FetchFails("schedules")

Spec == Init /\ [][Next]_vars

-----------------------------------------------------------------------------

\* Once nothing is under way the table shows the schedules of the server.
Settled ==
    Quiet /\ ~ghost.lost => query["schedules"].data = server.schedules

\* Toggles of one schedule that the server has yet to handle ask for the same
\* setting, so that it does not matter in which order they get there: a press
\* is worded from a table that an earlier press cannot have changed ahead.  The
\* exception is a double press: the switch is not disabled until the table has
\* followed, and the second request may meet a press of the changed switch; and
\* an answer that got lost.
TogglesAgree ==
    ~ghost.twice /\ ~ghost.lost => \A i, j \in OpenOf("toggle") :
        calls[i].state = "sent" /\ calls[j].state = "sent" /\ calls[i].arg.id = calls[j].arg.id
            => calls[i].arg.on = calls[j].arg.on

\* The runs the dialog previews are the next ones the server will make, and
\* there are three of them unless the third is too far ahead; for expressions
\* that do not restrict both days and weekdays, nor write Sunday as 7.
PreviewIsNextRuns ==
    LET e == ui.cron
        shown == nextRuns(e, 3)
        due == First(3, SelectSeq(Ahead(ghost.now, Horizon), LAMBDA t : croniter(e, t)))
    IN  ghost.view = "preview" /\ ~(Restricted(e.day) /\ Restricted(e.weekday)) /\ e.weekday # At(Weekdays) =>
            /\ IsPrefix(shown, due)
            /\ Len(shown) < Len(due) => due[Len(shown) + 1] > ghost.now + Attempts

\* A wording that names an interval means it: the runs are that far apart.
\* For a number of minutes this takes one that divides the hour.
WordingHolds ==
    LET e == ui.cron
        apart == CASE parseCron(e) = "minutes" /\ Minutes % e.minute[1].step = 0 -> e.minute[1].step
                   [] parseCron(e) = "hourly" -> Minutes
                   [] parseCron(e) = "daily" /\ \E m \in 0 .. Minutes, h \in 0 .. Hours : e.minute = At(m) /\ e.hour = At(h)
                        -> Minutes * Hours
                   [] OTHER -> 0
        due == First(3, SelectSeq(Ahead(ghost.now, Horizon), LAMBDA t : croniter(e, t)))
    IN  ghost.view = "preview" /\ apart > 0 =>
            \A n \in 1 .. Len(due) - 1 : due[n + 1] - due[n] = apart
=============================================================================
