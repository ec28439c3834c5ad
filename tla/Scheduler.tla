------------------------------ MODULE Scheduler ------------------------------
(***************************************************************************)
(* Scheduled commands:                                                     *)
(*   server/app/tasks/scheduler_tasks.py        run_scheduled_commands     *)
(*   server/app/api/v1/scheduled_commands.py    create, update, delete     *)
(*   server/app/services/command_service.py     dispatch_command's checks  *)
(*   server/app/tasks/cleanup_tasks.py          deletion of old commands   *)
(*                                                                         *)
(* Celery Beat starts a run every minute; a run selects what is due,       *)
(* dispatches it and commits once, at its end.  Nothing keeps two runs from *)
(* overlapping.  Time is relative: a schedule's next_run_at is given as the *)
(* number of minutes until then, and a cron expression as its period.      *)
(* What becomes of a dispatched command is in CommandLifecycle.            *)
(***************************************************************************)
EXTENDS Naturals, FiniteSets

CONSTANTS
    Schedules, Devices,
    Periods,        \* of the cron expressions, in minutes
    Runs,           \* runs of the task that may be under way (Celery workers)
    QueueLimit,     \* commands a device may have pending or sent (100)
    Environment,    \* subset of {"edit", "revoke", "fail"}
    All, None

VARIABLES
    row,        \* per schedule: its row, or None
    revoked,    \* devices that are revoked
    pending,    \* per device: committed commands that are pending or sent
    run,        \* per run: see Run
    times       \* history: commits of a schedule since it last became due

vars == <<row, revoked, pending, run, times>>

Waits == 0..(CHOOSE p \in Periods : \A q \in Periods : q <= p)
Row == [on : BOOLEAN, target : Devices \cup {All}, period : Periods, wait : Waits \cup {None}]
\* todo and done: selected schedules still to dispatch, and dispatched; seen: the
\* rows as they were selected; work: commands inserted and not yet committed.
Run == [st : {"idle", "busy"}, todo : SUBSET Schedules, done : SUBSET Schedules,
        seen : [Schedules -> Row \cup {None}], work : [Devices -> Nat]]
NoRun == [st |-> "idle", todo |-> {}, done |-> {}, seen |-> [s \in Schedules |-> None],
          work |-> [d \in Devices |-> 0]]

TypeOK ==
    /\ row \in [Schedules -> Row \cup {None}]
    /\ revoked \subseteq Devices
    /\ pending \in [Devices -> Nat]
    /\ run \in [Runs -> Run]
    /\ times \in [Schedules -> Nat]

Init ==
    /\ row = [s \in Schedules |-> None]
    /\ revoked = {}
    /\ pending = [d \in Devices |-> 0]
    /\ run = [k \in Runs |-> NoRun]
    /\ times = [s \in Schedules |-> 0]

-----------------------------------------------------------------------------
\* croniter(expression, now).get_next: later than now, within a period.
NextRuns(p) == 1..p

Due(s) == row[s] # None /\ row[s].on /\ row[s].wait = 0

\* A minute passes.
Tick ==
    /\ row' = [s \in Schedules |->
                 IF row[s] = None \/ row[s].wait \in {0, None} THEN row[s]
                 ELSE [row[s] EXCEPT !.wait = @ - 1]]
    /\ times' = [s \in Schedules |->
                   IF row[s] # None /\ row[s].wait = 1 THEN 0 ELSE times[s]]
    /\ UNCHANGED <<revoked, pending, run>>

-----------------------------------------------------------------------------
(* The API *)

create_scheduled_command(s, target, p, on) ==
    /\ row[s] = None /\ \A k \in Runs : s \notin run[k].todo \cup run[k].done
    /\ \E n \in NextRuns(p) :
          row' = [row EXCEPT ![s] = [on |-> on, target |-> target, period |-> p,
                                     wait |-> IF on THEN n ELSE None]]
    /\ times' = [times EXCEPT ![s] = 0]
    /\ UNCHANGED <<revoked, pending, run>>

update_scheduled_command(s, target, p, on) ==
    /\ "edit" \in Environment /\ row[s] # None
    /\ \E n \in NextRuns(p) :
          row' = [row EXCEPT ![s] = [on |-> on, target |-> target, period |-> p,
                                     wait |-> IF on THEN n ELSE None]]
    /\ UNCHANGED <<revoked, pending, run, times>>

delete_scheduled_command(s) ==
    /\ "edit" \in Environment /\ row[s] # None
    /\ row' = [row EXCEPT ![s] = None]
    /\ UNCHANGED <<revoked, pending, run, times>>

revoke_device(d) ==
    /\ "revoke" \in Environment /\ d \notin revoked
    /\ revoked' = revoked \cup {d}
    /\ UNCHANGED <<row, pending, run, times>>

\* Mutant: commands that are still pending are spared.
CleanupFinished(d) == pending[d] > 0 /\ UNCHANGED vars

\* run_cleanup deletes commands that are old, whatever their status.
run_cleanup(d) ==
    /\ pending[d] > 0
    /\ pending' = [pending EXCEPT ![d] = 0]
    /\ UNCHANGED <<row, revoked, run, times>>

-----------------------------------------------------------------------------
(* _run_scheduled_commands *)

Select(k) ==
    /\ run[k].st = "idle" /\ \E s \in Schedules : Due(s)
    /\ LET due == {s \in Schedules : Due(s)}
       IN run' = [run EXCEPT ![k] =
                    [NoRun EXCEPT !.st = "busy", !.todo = due,
                                  !.seen = [s \in Schedules |-> IF s \in due THEN row[s] ELSE None]]]
    /\ UNCHANGED <<row, revoked, pending, times>>

Targets(k, s) == IF run[k].seen[s].target = All THEN Devices \ revoked
                 ELSE {run[k].seen[s].target}

\* dispatch_command refuses a device that is revoked or has a full queue; the
\* count sees this run's own rows.
Refuses(k, d) == d \in revoked \/ pending[d] + run[k].work[d] >= QueueLimit

\* One schedule: a command for each of its devices.
Dispatch(k, s) ==
    /\ s \in run[k].todo
    /\ \A d \in Targets(k, s) : ~Refuses(k, d)
    /\ run' = [run EXCEPT ![k] =
                 [run[k] EXCEPT !.todo = @ \ {s}, !.done = @ \cup {s},
                                !.work = [d \in Devices |-> IF d \in Targets(k, s) THEN @[d] + 1 ELSE @[d]]]]
    /\ UNCHANGED <<row, revoked, pending, times>>

\* An exception leaves the function before its commit: everything is undone.
Raise(k, s) ==
    /\ s \in run[k].todo
    /\ \E d \in Targets(k, s) : Refuses(k, d)
    /\ run' = [run EXCEPT ![k] = NoRun]
    /\ UNCHANGED <<row, revoked, pending, times>>

\* The worker dies, or the database does.
Abort(k) ==
    /\ "fail" \in Environment /\ run[k].st = "busy"
    /\ run' = [run EXCEPT ![k] = NoRun]
    /\ UNCHANGED <<row, revoked, pending, times>>

\* The commit writes last_run_at and next_run_at of the dispatched schedules,
\* computed from the cron expression that was selected.  It fails if one of the
\* rows has been deleted.
Commit(k) ==
    /\ run[k].st = "busy" /\ run[k].todo = {}
    /\ run' = [run EXCEPT ![k] = NoRun]
    /\ IF \E s \in run[k].done : row[s] = None
       THEN UNCHANGED <<row, pending, times>>
       ELSE /\ pending' = [d \in Devices |-> pending[d] + run[k].work[d]]
            /\ times' = [s \in Schedules |-> IF s \in run[k].done THEN times[s] + 1 ELSE times[s]]
            /\ \E next \in [Schedules -> Waits] :
                  /\ \A s \in Schedules :
                        IF s \in run[k].done THEN next[s] \in NextRuns(run[k].seen[s].period)
                        ELSE next[s] = 0
                  /\ row' = [s \in Schedules |->
                               IF s \in run[k].done
                               THEN [row[s] EXCEPT !.wait = next[s]]
                               ELSE row[s]]
    /\ UNCHANGED revoked

-----------------------------------------------------------------------------
RunStep(k) == Select(k) \/ Commit(k) \/ \E s \in Schedules : Dispatch(k, s) \/ Raise(k, s)

Next ==
    \/ Tick
    \/ \E s \in Schedules :
          \/ \E t \in Devices \cup {All}, p \in Periods, on \in BOOLEAN :
                create_scheduled_command(s, t, p, on) \/ update_scheduled_command(s, t, p, on)
          \/ delete_scheduled_command(s)
    \/ \E d \in Devices : revoke_device(d) \/ run_cleanup(d)
    \/ \E k \in Runs : RunStep(k) \/ Abort(k)

Spec == Init /\ [][Next]_vars

-----------------------------------------------------------------------------
(***************************************************************************)
(* Properties                                                              *)
(***************************************************************************)

\* Runs select what is due without a lock, so each of those that overlap may
\* dispatch a schedule; beyond that it is dispatched once each time it becomes
\* due.
OncePerOccurrence == \A s \in Schedules : times[s] <= Cardinality(Runs)

\* Scheduled runs never push a device's queue over dispatch_command's limit: each
\* run counts its own uncommitted commands, if not those of other runs.
QueueBounded == \A d \in Devices : pending[d] <= QueueLimit * Cardinality(Runs)

\* What is due is dispatched, whatever becomes of other schedules.
DueIsDispatched ==
    \A s \in Schedules : Due(s) ~> (~Due(s) \/ row[s].target \in revoked)
=============================================================================
