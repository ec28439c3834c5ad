----------------------------- MODULE LimitProofs -----------------------------
(***************************************************************************)
(* Limits that the server checks without a lock, and one that it counts    *)
(* atomically: how often a schedule that is due is dispatched, how many    *)
(* commands are pending for a device, and how many calls are let in.       *)
(***************************************************************************)
EXTENDS Naturals, FiniteSets, FiniteSetTheorems, TLAPS

CONSTANTS
    NoSchedule, Devices, Periods, QueueLimit, All,      \* Scheduler
    Calls, RateMax, MaxCount, MaxCrashes                \* RateLimit

-----------------------------------------------------------------------------
(***************************************************************************)
(* Scheduler.  A run holds the schedules it has selected until it ends, so *)
(* the invariant counts the commits of a schedule since it became due and  *)
(* the runs that hold it: no more than there are runs, for the first       *)
(* counts zero whenever the schedule can be selected.  The commands a run  *)
(* has inserted are counted with the committed ones in the same way.       *)
(***************************************************************************)

ASSUME SchedulerAssumption ==
    /\ QueueLimit \in Nat
    /\ Periods \subseteq Nat \ {0}
    /\ \E p \in Periods : \A q \in Periods : q <= p
    /\ NoSchedule \notin Nat

VARIABLES schedule, revoked, pending, run, times
scheduleVars == <<schedule, revoked, pending, run, times>>

Scheduling(Planned, Runs, Environment) == INSTANCE Scheduler WITH
    Schedules <- Planned, None <- NoSchedule, row <- schedule

HoldsRun(f, k, s) == s \in f[k].todo \cup f[k].done
Holding(f, R, s) == {k \in R : HoldsRun(f, k, s)}

\* One pair for each command that a run has inserted for the device.
Inserted(f, R, d) == {x \in R \X (1 .. QueueLimit) : x[2] <= f[x[1]].work[d]}

ScheduleInv(P, R, E) ==
    /\ Scheduling(P, R, E)!TypeOK
    /\ \A s \in P : schedule[s] # NoSchedule /\ schedule[s].wait = 0 => times[s] = 0
    /\ \A k \in R, s \in P : HoldsRun(run, k, s) => run[k].seen[s] # NoSchedule
    /\ \A s \in P : times[s] + Cardinality(Holding(run, R, s)) <= Cardinality(R)
    /\ \A k \in R, d \in Devices : run[k].work[d] <= QueueLimit
    /\ \A d \in Devices : pending[d] + Cardinality(Inserted(run, R, d)) <= QueueLimit * Cardinality(R)

\* The next run of a cron expression is at least a minute ahead.
LEMMA WaitsType ==
    ASSUME NEW P, NEW R, NEW E
    PROVE  /\ \A p \in Periods : \A n \in 1 .. p : n \in Scheduling(P, R, E)!Waits /\ n # 0 /\ n # NoSchedule
           /\ Scheduling(P, R, E)!Waits \subseteq Nat
           /\ 0 \in Scheduling(P, R, E)!Waits
           /\ \A n \in Scheduling(P, R, E)!Waits : n # 0 => n - 1 \in Scheduling(P, R, E)!Waits
<1> DEFINE max == CHOOSE p \in Periods : \A q \in Periods : q <= p
<1>1. max \in Periods /\ \A q \in Periods : q <= max
    BY SchedulerAssumption, Zenon
<1> HIDE DEF max
<1>2. Scheduling(P, R, E)!Waits = 0 .. max
    BY Zenon DEF max, Scheduling!Waits
<1> QED
    BY <1>1, <1>2, SchedulerAssumption

\* The runs that hold a schedule are finitely many.
LEMMA HoldingSizes ==
    ASSUME NEW f, NEW R, IsFiniteSet(R), NEW s
    PROVE  /\ IsFiniteSet(Holding(f, R, s)) /\ Cardinality(Holding(f, R, s)) \in Nat
           /\ Cardinality(R) \in Nat /\ Cardinality(Holding(f, R, s)) <= Cardinality(R)
<1>1. Holding(f, R, s) \subseteq R
    BY Zenon DEF Holding
<1> QED
    BY Zenon, <1>1, FS_Subset, FS_CardinalityType

\* The numbers up to n are n.
LEMMA IntervalSize ==
    ASSUME NEW n \in Nat
    PROVE  IsFiniteSet(1 .. n) /\ Cardinality(1 .. n) = n
    BY FS_Interval

\* The commands inserted are finitely many.
LEMMA InsertedFinite ==
    ASSUME NEW f, NEW R, IsFiniteSet(R), NEW d
    PROVE  IsFiniteSet(Inserted(f, R, d)) /\ IsFiniteSet(R \X (1 .. QueueLimit))
<1>1. IsFiniteSet(1 .. QueueLimit)
    BY SchedulerAssumption, FS_Interval
<1>2. IsFiniteSet(R \X (1 .. QueueLimit))
    BY <1>1, FS_Product, Zenon
<1>3. Inserted(f, R, d) \subseteq R \X (1 .. QueueLimit)
    BY Zenon DEF Inserted
<1> QED
    BY Zenon, <1>2, <1>3, FS_Subset

\* The commands of one run are as many as it counts, those of the other runs no
\* more than a queue's limit each.
LEMMA InsertedSizes ==
    ASSUME NEW f, NEW R, IsFiniteSet(R), NEW k \in R, NEW d, f[k].work[d] \in 0 .. QueueLimit
    PROVE  /\ Cardinality(Inserted(f, R \ {k}, d)) \in Nat
           /\ Cardinality(Inserted(f, R, d)) = Cardinality(Inserted(f, R \ {k}, d)) + f[k].work[d]
           /\ Cardinality(Inserted(f, R \ {k}, d)) <= QueueLimit * (Cardinality(R) - 1)
           /\ Cardinality(R) \in Nat \ {0}
<1> DEFINE w == f[k].work[d]
           Mine == {k} \X (1 .. w)
           Others == Inserted(f, R \ {k}, d)
           Room == (R \ {k}) \X (1 .. QueueLimit)
<1> USE SchedulerAssumption
<1>0. w \in Nat /\ w <= QueueLimit
    OBVIOUS
<1>1. Inserted(f, R, d) = Others \cup Mine /\ Others \cap Mine = {} /\ Others \subseteq Room
    BY DEF Inserted
<1>2. /\ IsFiniteSet(R \ {k}) /\ Cardinality(R \ {k}) = Cardinality(R) - 1
      /\ Cardinality(R) \in Nat /\ Cardinality(R \ {k}) \in Nat
    BY Zenon, FS_RemoveElement, FS_CardinalityType
<1>3. Cardinality(R) # 0
    BY Zenon, FS_EmptySet
<1> HIDE DEF w
<1>4. /\ IsFiniteSet(1 .. QueueLimit) /\ Cardinality(1 .. QueueLimit) = QueueLimit
      /\ IsFiniteSet(1 .. w) /\ Cardinality(1 .. w) = w
    BY Zenon, <1>0, IntervalSize
<1>5. IsFiniteSet({k}) /\ Cardinality({k}) = 1
    BY Zenon, FS_Singleton
<1>6. IsFiniteSet(Mine) /\ Cardinality(Mine) = w
  <2>1. IsFiniteSet(Mine) /\ Cardinality(Mine) = Cardinality({k}) * Cardinality(1 .. w)
    BY <1>4, <1>5, FS_Product, Zenon
  <2> QED
    BY <1>0, <1>4, <1>5, <2>1
<1>7. IsFiniteSet(Room) /\ Cardinality(Room) = Cardinality(R \ {k}) * QueueLimit
    BY <1>2, <1>4, FS_Product, ZenonT(90)
<1> HIDE DEF Mine, Others, Room
<1>8. /\ IsFiniteSet(Others) /\ Cardinality(Others) \in Nat
      /\ Cardinality(Others) <= Cardinality(R \ {k}) * QueueLimit
    BY <1>1, <1>7, FS_Subset, FS_CardinalityType
<1>9. Cardinality(Inserted(f, R, d)) = Cardinality(Others) + Cardinality(Mine)
  <2>1. Cardinality(Others \cup Mine) = Cardinality(Others) + Cardinality(Mine) - Cardinality(Others \cap Mine)
    BY Zenon, <1>6, <1>8, FS_Union
  <2>2. Cardinality(Others \cap Mine) = 0
    BY Zenon, <1>1, FS_EmptySet
  <2> QED
    BY <1>0, <1>1, <1>6, <1>8, <2>1, <2>2
<1>10. Cardinality(Others) <= QueueLimit * (Cardinality(R) - 1)
    BY <1>2, <1>8
<1> QED
    BY Zenon, <1>0, <1>2, <1>3, <1>6, <1>8, <1>9, <1>10 DEF w, Others

\* Nothing is scheduled at first.
LEMMA ScheduleInit ==
    ASSUME NEW P, NEW R, NEW E, IsFiniteSet(R), Scheduling(P, R, E)!Init
    PROVE  ScheduleInv(P, R, E)
<1>1. Scheduling(P, R, E)!TypeOK
    BY Zenon DEF Scheduling!Init, Scheduling!TypeOK, Scheduling!NoRun, Scheduling!Run
<1>2. \A k \in R : run[k].todo = {} /\ run[k].done = {} /\ \A d \in Devices : run[k].work[d] = 0
    BY Zenon DEF Scheduling!Init, Scheduling!NoRun
<1>3. \A s : Holding(run, R, s) = {}
    BY Zenon, <1>2 DEF Holding, HoldsRun
<1>4. \A d \in Devices : Inserted(run, R, d) = {}
    BY <1>2 DEF Inserted
<1>5. Cardinality(R) \in Nat /\ QueueLimit * Cardinality(R) \in Nat
    BY FS_CardinalityType, SchedulerAssumption
<1>6. \A s \in P : times[s] + Cardinality(Holding(run, R, s)) <= Cardinality(R)
    BY <1>3, <1>5, FS_EmptySet DEF Scheduling!Init
<1>7. \A d \in Devices : pending[d] + Cardinality(Inserted(run, R, d)) <= QueueLimit * Cardinality(R)
    BY <1>4, <1>5, FS_EmptySet DEF Scheduling!Init
<1>8. \A s \in P : schedule[s] = NoSchedule
    BY Zenon DEF Scheduling!Init
<1>9. \A k \in R, s \in P : ~HoldsRun(run, k, s)
    BY Zenon, <1>2 DEF HoldsRun
<1> QED
    BY SMTT(30), <1>1, <1>2, <1>6, <1>7, <1>8, <1>9, SchedulerAssumption DEF ScheduleInv

\* The API changes the rows and no run.
LEMMA ScheduleEdits ==
    ASSUME NEW P, NEW R, NEW E, IsFiniteSet(R), ScheduleInv(P, R, E), run' = run,
           Scheduling(P, R, E)!TypeOK',
           \A s \in P : times'[s] <= times[s],
           \A s \in P : schedule'[s] # NoSchedule /\ schedule'[s].wait = 0 => times'[s] = 0,
           \A d \in Devices : pending'[d] <= pending[d]
    PROVE  ScheduleInv(P, R, E)'
<1>1. /\ \A s : Holding(run', R, s) = Holding(run, R, s)
      /\ \A d : Inserted(run', R, d) = Inserted(run, R, d)
      /\ \A k, s : HoldsRun(run', k, s) = HoldsRun(run, k, s)
    BY Zenon DEF Holding, HoldsRun, Inserted
<1>2. \A s \in P : times'[s] + Cardinality(Holding(run', R, s)) <= Cardinality(R)
  <2> SUFFICES ASSUME NEW s \in P PROVE times'[s] + Cardinality(Holding(run', R, s)) <= Cardinality(R)
    BY Zenon
  <2>1. /\ Cardinality(Holding(run, R, s)) \in Nat /\ Cardinality(R) \in Nat
        /\ times[s] \in Nat /\ times'[s] \in Nat
        /\ times[s] + Cardinality(Holding(run, R, s)) <= Cardinality(R)
    BY Zenon, HoldingSizes DEF ScheduleInv, Scheduling!TypeOK
  <2> QED
    BY <1>1, <2>1
<1>3. \A d \in Devices : pending'[d] + Cardinality(Inserted(run', R, d)) <= QueueLimit * Cardinality(R)
  <2> SUFFICES ASSUME NEW d \in Devices
               PROVE  pending'[d] + Cardinality(Inserted(run', R, d)) <= QueueLimit * Cardinality(R)
    BY Zenon
  <2>0. Cardinality(Inserted(run, R, d)) \in Nat /\ Cardinality(R) \in Nat
    BY InsertedFinite, FS_CardinalityType, Zenon
  <2>1. /\ Cardinality(Inserted(run, R, d)) \in Nat /\ QueueLimit * Cardinality(R) \in Nat
        /\ pending[d] \in Nat /\ pending'[d] \in Nat
        /\ pending[d] + Cardinality(Inserted(run, R, d)) <= QueueLimit * Cardinality(R)
    BY <2>0, SchedulerAssumption DEF ScheduleInv, Scheduling!TypeOK
  <2> QED
    BY <1>1, <2>1
<1> QED
    BY Zenon, <1>1, <1>2, <1>3 DEF ScheduleInv

\* A run that changes changes its own share only: what it holds of schedules and
\* commands.
LEMMA ScheduleRuns ==
    ASSUME NEW P, NEW R, NEW E, IsFiniteSet(R), ScheduleInv(P, R, E), NEW k \in R,
           NEW new \in Scheduling(P, R, E)!Run, run' = [run EXCEPT ![k] = new],
           Scheduling(P, R, E)!TypeOK',
           \A s \in P : s \in new.todo \cup new.done => new.seen[s] # NoSchedule,
           \A s \in P : schedule'[s] # NoSchedule /\ schedule'[s].wait = 0 => times'[s] = 0,
           \A s \in P : IF s \in new.todo \cup new.done THEN times'[s] = times[s] /\ (HoldsRun(run, k, s) \/ times[s] = 0)
                        ELSE IF HoldsRun(run, k, s) THEN times'[s] <= times[s] + 1
                        ELSE times'[s] <= times[s],
           \A d \in Devices :
              /\ new.work[d] <= QueueLimit
              /\ \/ pending'[d] + new.work[d] <= QueueLimit
                 \/ pending'[d] + new.work[d] <= pending[d] + run[k].work[d]
    PROVE  ScheduleInv(P, R, E)'
<1>1. \A j \in R : run'[j] = IF j = k THEN new ELSE run[j]
    BY Zenon DEF ScheduleInv, Scheduling!TypeOK
<1>2. \A s \in P : times'[s] + Cardinality(Holding(run', R, s)) <= Cardinality(R)
  <2> SUFFICES ASSUME NEW s \in P PROVE times'[s] + Cardinality(Holding(run', R, s)) <= Cardinality(R)
    BY Zenon
  <2>1. /\ IsFiniteSet(Holding(run, R, s)) /\ Cardinality(Holding(run, R, s)) \in Nat
        /\ Cardinality(Holding(run', R, s)) \in Nat
        /\ Cardinality(R) \in Nat /\ Cardinality(Holding(run', R, s)) <= Cardinality(R)
    BY Zenon, HoldingSizes
  <2>2. /\ times[s] \in Nat /\ times'[s] \in Nat
        /\ times[s] + Cardinality(Holding(run, R, s)) <= Cardinality(R)
    BY Zenon DEF ScheduleInv, Scheduling!TypeOK
  <2>3. CASE s \in new.todo \cup new.done /\ ~HoldsRun(run, k, s)
    BY SMTT(30), <2>1, <2>2, <2>3
  <2>4. CASE s \notin new.todo \cup new.done /\ HoldsRun(run, k, s)
    <3>1. k \in Holding(run, R, s) /\ Holding(run', R, s) = Holding(run, R, s) \ {k}
      BY <1>1, <2>4 DEF Holding, HoldsRun
    <3>2. Cardinality(Holding(run', R, s)) = Cardinality(Holding(run, R, s)) - 1
      <4>1. Cardinality(Holding(run, R, s) \ {k}) = Cardinality(Holding(run, R, s)) - 1
        BY <2>1, <3>1, FS_RemoveElement, Zenon
      <4> QED
        BY <3>1, <4>1, Zenon
    <3>3. times'[s] <= times[s] + 1
      BY Zenon, <2>4
    <3> QED
      BY SMTT(30), <2>1, <2>2, <3>2, <3>3
  <2>5. CASE s \in new.todo \cup new.done <=> HoldsRun(run, k, s)
    <3>1. Holding(run', R, s) = Holding(run, R, s)
      BY SMTT(30), <1>1, <2>5 DEF Holding, HoldsRun
    <3>2. times'[s] <= times[s]
      BY SMTT(30), <2>2, <2>5
    <3> QED
      BY SMTT(30), <2>1, <2>2, <3>1, <3>2
  <2> QED
    BY Zenon, <2>3, <2>4, <2>5
<1>3. \A d \in Devices : pending'[d] + Cardinality(Inserted(run', R, d)) <= QueueLimit * Cardinality(R)
  <2> SUFFICES ASSUME NEW d \in Devices
               PROVE  pending'[d] + Cardinality(Inserted(run', R, d)) <= QueueLimit * Cardinality(R)
    BY Zenon
  <2> DEFINE w == run[k].work[d]
             v == new.work[d]
             others == Cardinality(Inserted(run, R \ {k}, d))
             n == Cardinality(R)
  <2>1. /\ w \in 0 .. QueueLimit /\ v \in 0 .. QueueLimit /\ pending[d] \in Nat /\ pending'[d] \in Nat
        /\ run'[k].work[d] = v
    BY SMTT(30), <1>1, SchedulerAssumption DEF ScheduleInv, Scheduling!TypeOK, Scheduling!Run
  <2>2. /\ others \in Nat /\ n \in Nat \ {0} /\ others <= QueueLimit * (n - 1)
        /\ Cardinality(Inserted(run, R, d)) = others + w
    BY SMTT(30), <2>1, InsertedSizes
  <2>3. Cardinality(Inserted(run', R, d)) = Cardinality(Inserted(run', R \ {k}, d)) + v
    <3>1. run'[k].work[d] \in 0 .. QueueLimit
      BY Zenon, <2>1
    <3>2. \A f : f[k].work[d] \in 0 .. QueueLimit =>
             Cardinality(Inserted(f, R, d)) = Cardinality(Inserted(f, R \ {k}, d)) + f[k].work[d]
      BY InsertedSizes
    <3>3. Cardinality(Inserted(run', R, d)) = Cardinality(Inserted(run', R \ {k}, d)) + run'[k].work[d]
      BY <3>1, <3>2, Zenon
    <3> QED
      BY Zenon, <2>1, <3>3
  <2>4. Inserted(run', R \ {k}, d) = Inserted(run, R \ {k}, d)
    BY <1>1 DEF Inserted
  <2>5. pending[d] + (others + w) <= QueueLimit * n
    BY Zenon, <2>2 DEF ScheduleInv
  <2>6. pending'[d] + v <= QueueLimit \/ pending'[d] + v <= pending[d] + w
    BY Zenon
  <2>7. Cardinality(Inserted(run', R, d)) = others + v
    BY Zenon, <2>3, <2>4
  <2>8. QueueLimit * (n - 1) + QueueLimit = QueueLimit * n /\ QueueLimit * n \in Nat
    BY SMTT(30), <2>2, SchedulerAssumption
  <2> HIDE DEF w, v, others, n
  <2>9. pending'[d] + (others + v) <= QueueLimit * n
    BY SMTT(30), <2>1, <2>2, <2>5, <2>6, <2>8, SchedulerAssumption
  <2> QED
    BY Zenon, <2>7, <2>9 DEF n
<1>4. \A j \in R, s \in P : HoldsRun(run', j, s) => run'[j].seen[s] # NoSchedule
    BY <1>1 DEF ScheduleInv, HoldsRun
<1>5. \A j \in R, d \in Devices : run'[j].work[d] <= QueueLimit
    BY <1>1 DEF ScheduleInv
<1> QED
    BY <1>2, <1>3, <1>4, <1>5, Zenon DEF ScheduleInv

\* A run that ends without a commit lets go of what it held.
LEMMA ScheduleUndone ==
    ASSUME NEW P, NEW R, NEW E, IsFiniteSet(R), ScheduleInv(P, R, E), NEW k \in R,
           run' = [run EXCEPT ![k] = Scheduling(P, R, E)!NoRun],
           UNCHANGED <<schedule, revoked, pending, times>>
    PROVE  ScheduleInv(P, R, E)'
<1> DEFINE new == Scheduling(P, R, E)!NoRun
<1>1. /\ new \in Scheduling(P, R, E)!Run /\ new.todo = {} /\ new.done = {}
      /\ \A d \in Devices : new.work[d] = 0
    BY Zenon DEF Scheduling!NoRun, Scheduling!Run
<1>2. Scheduling(P, R, E)!TypeOK'
    BY Zenon, <1>1 DEF ScheduleInv, Scheduling!TypeOK
<1>3. /\ \A s \in P : times[s] \in Nat
      /\ \A d \in Devices : pending[d] \in Nat /\ run[k].work[d] \in Nat
      /\ \A s \in P : schedule[s] # NoSchedule /\ schedule[s].wait = 0 => times[s] = 0
    BY Zenon DEF ScheduleInv, Scheduling!TypeOK, Scheduling!Run
<1> HIDE DEF new
<1>4. /\ run' = [run EXCEPT ![k] = new]
      /\ \A s \in P : s \notin new.todo \cup new.done
      /\ \A s \in P : times'[s] <= times[s] /\ times'[s] <= times[s] + 1
      /\ \A s \in P : schedule'[s] # NoSchedule /\ schedule'[s].wait = 0 => times'[s] = 0
      /\ \A d \in Devices : /\ new.work[d] <= QueueLimit
                            /\ pending'[d] + new.work[d] <= pending[d] + run[k].work[d]
    BY SMTT(30), <1>1, <1>3, SchedulerAssumption DEF new
<1> QED
    BY <1>1, <1>2, <1>4, ScheduleRuns, Zenon

\* Every step of the API and of run_scheduled_commands keeps the invariant.
LEMMA ScheduleStep ==
    ASSUME NEW P, NEW R, NEW E, IsFiniteSet(R), ScheduleInv(P, R, E),
           [Scheduling(P, R, E)!Next]_(Scheduling(P, R, E)!vars)
    PROVE  ScheduleInv(P, R, E)'
<1> DEFINE Row == Scheduling(P, R, E)!Row
           Waits == Scheduling(P, R, E)!Waits
<1>0. /\ schedule \in [P -> Row \cup {NoSchedule}] /\ revoked \subseteq Devices /\ pending \in [Devices -> Nat]
      /\ run \in [R -> Scheduling(P, R, E)!Run] /\ times \in [P -> Nat]
      /\ \A s \in P : schedule[s] # NoSchedule /\ schedule[s].wait = 0 => times[s] = 0
    BY Zenon DEF ScheduleInv, Scheduling!TypeOK
<1>1. CASE Scheduling(P, R, E)!Tick
  <2>1. /\ run' = run /\ pending' = pending /\ revoked' = revoked
        /\ schedule' = [s \in P |->
              IF schedule[s] = NoSchedule \/ schedule[s].wait \in {0, NoSchedule} THEN schedule[s]
              ELSE [schedule[s] EXCEPT !.wait = @ - 1]]
        /\ times' = [s \in P |-> IF schedule[s] # NoSchedule /\ schedule[s].wait = 1 THEN 0 ELSE times[s]]
    BY Zenon, <1>1 DEF Scheduling!Tick
  <2>2. \A s \in P : /\ times'[s] \in Nat /\ times'[s] <= times[s]
                     /\ schedule'[s] \in Row \cup {NoSchedule}
                     /\ schedule'[s] # NoSchedule /\ schedule'[s].wait = 0 => times'[s] = 0
    <3> SUFFICES ASSUME NEW s \in P
                 PROVE  /\ times'[s] \in Nat /\ times'[s] <= times[s]
                        /\ schedule'[s] \in Row \cup {NoSchedule}
                        /\ schedule'[s] # NoSchedule /\ schedule'[s].wait = 0 => times'[s] = 0
      BY Zenon
    <3>1. times[s] \in Nat /\ schedule[s] \in Row \cup {NoSchedule}
      BY Zenon, <1>0
    <3>2. CASE schedule[s] = NoSchedule \/ schedule[s].wait \in {0, NoSchedule}
      <4>1. schedule'[s] = schedule[s] /\ times'[s] = times[s]
        BY SMTT(30), <2>1, <3>2, SchedulerAssumption
      <4> QED
        BY <1>0, <3>1, <4>1
    <3>3. CASE ~(schedule[s] = NoSchedule \/ schedule[s].wait \in {0, NoSchedule})
      <4>1. schedule[s] \in Row /\ schedule[s].wait \in Nat \ {0} /\ schedule[s].wait - 1 \in Waits
        BY Zenon, <3>1, <3>3, WaitsType DEF Scheduling!Row
      <4>2. schedule'[s] = [schedule[s] EXCEPT !.wait = schedule[s].wait - 1]
        BY Zenon, <2>1, <3>3
      <4>3. schedule'[s] \in Row /\ schedule'[s].wait = schedule[s].wait - 1
        BY Zenon, <4>1, <4>2 DEF Scheduling!Row
      <4>4. times'[s] = IF schedule[s].wait = 1 THEN 0 ELSE times[s]
        BY Zenon, <2>1, <3>3
      <4> QED
        BY SMTT(30), <3>1, <4>1, <4>3, <4>4
    <3> QED
      BY Zenon, <3>2, <3>3
  <2>3. Scheduling(P, R, E)!TypeOK'
    BY Zenon, <1>0, <2>1, <2>2 DEF Scheduling!TypeOK
  <2> QED
    BY SMTT(30), <1>0, <2>1, <2>2, <2>3, ScheduleEdits
<1>2. ASSUME NEW s \in P, NEW t \in Devices \cup {All}, NEW p \in Periods, NEW on \in BOOLEAN,
             \/ Scheduling(P, R, E)!create_scheduled_command(s, t, p, on)
             \/ Scheduling(P, R, E)!update_scheduled_command(s, t, p, on)
      PROVE  ScheduleInv(P, R, E)'
  <2>1. PICK n \in 1 .. p : schedule' = [schedule EXCEPT ![s] = [on |-> on, target |-> t, period |-> p,
                                                                wait |-> IF on THEN n ELSE NoSchedule]]
    BY Zenon, <1>2
      DEF Scheduling!create_scheduled_command, Scheduling!update_scheduled_command, Scheduling!NextRuns
  <2>2. /\ run' = run /\ pending' = pending /\ revoked' = revoked
        /\ times' = [times EXCEPT ![s] = 0] \/ times' = times
    BY Zenon, <1>2 DEF Scheduling!create_scheduled_command, Scheduling!update_scheduled_command
  <2>3. n \in Waits /\ n # 0 /\ NoSchedule # 0
    BY Zenon, WaitsType, SchedulerAssumption
  <2>4. /\ [on |-> on, target |-> t, period |-> p, wait |-> IF on THEN n ELSE NoSchedule] \in Row
        /\ (IF on THEN n ELSE NoSchedule) # 0
    BY Zenon, <2>3 DEF Scheduling!Row
  <2>5. /\ schedule' \in [P -> Row \cup {NoSchedule}] /\ times' \in [P -> Nat]
        /\ \A q \in P : times'[q] <= times[q]
        /\ \A q \in P : schedule'[q] # NoSchedule /\ schedule'[q].wait = 0 => times'[q] = 0
    BY SMTT(30), <1>0, <2>1, <2>2, <2>4
  <2>6. Scheduling(P, R, E)!TypeOK'
    BY Zenon, <1>0, <2>2, <2>5 DEF Scheduling!TypeOK
  <2> QED
    BY SMTT(30), <1>0, <2>2, <2>5, <2>6, ScheduleEdits
<1>3. ASSUME NEW s \in P, Scheduling(P, R, E)!delete_scheduled_command(s) PROVE ScheduleInv(P, R, E)'
  <2>1. Scheduling(P, R, E)!TypeOK'
    BY Zenon, <1>0, <1>3 DEF Scheduling!TypeOK, Scheduling!delete_scheduled_command
  <2> QED
    BY SMTT(30), <1>0, <1>3, <2>1, ScheduleEdits DEF Scheduling!delete_scheduled_command
<1>4. ASSUME NEW d \in Devices, Scheduling(P, R, E)!revoke_device(d) \/ Scheduling(P, R, E)!run_cleanup(d)
      PROVE  ScheduleInv(P, R, E)'
  <2>1. Scheduling(P, R, E)!TypeOK'
    BY <1>0, <1>4 DEF Scheduling!TypeOK, Scheduling!revoke_device, Scheduling!run_cleanup
  <2>2. /\ run' = run /\ schedule' = schedule /\ times' = times
        /\ \A e \in Devices : pending'[e] <= pending[e]
    BY <1>0, <1>4 DEF Scheduling!revoke_device, Scheduling!run_cleanup
  <2> QED
    BY SMTT(30), <1>0, <2>1, <2>2, ScheduleEdits
<1>5. ASSUME NEW k \in R, Scheduling(P, R, E)!Select(k) PROVE ScheduleInv(P, R, E)'
  <2> DEFINE due == {s \in P : Scheduling(P, R, E)!Due(s)}
             new == [Scheduling(P, R, E)!NoRun EXCEPT
                       !.st = "busy", !.todo = due,
                       !.seen = [s \in P |-> IF s \in due THEN schedule[s] ELSE NoSchedule]]
  <2>1. run' = [run EXCEPT ![k] = new] /\ UNCHANGED <<schedule, revoked, pending, times>>
    BY Zenon, <1>5 DEF Scheduling!Select
  <2>2. \A s \in P : s \in due => schedule[s] # NoSchedule /\ schedule[s] \in Row /\ times[s] = 0
    BY Zenon, <1>0 DEF Scheduling!Due
  <2>3. /\ new.todo = due /\ new.done = {} /\ \A s \in due : new.seen[s] = schedule[s]
        /\ \A d \in Devices : new.work[d] = 0
    BY Zenon DEF Scheduling!NoRun
  <2>4. new \in Scheduling(P, R, E)!Run
    BY <1>0, <2>2, Zenon DEF Scheduling!NoRun, Scheduling!Run
  <2> HIDE DEF new
  <2>5. Scheduling(P, R, E)!TypeOK'
    BY Zenon, <1>0, <2>1, <2>4 DEF Scheduling!TypeOK
  <2>6. \A d \in Devices : /\ new.work[d] <= QueueLimit
                           /\ pending'[d] + new.work[d] <= pending[d] + run[k].work[d]
    BY SMTT(30), <1>0, <2>1, <2>3, SchedulerAssumption DEF Scheduling!Run
  <2>7. \A s \in P : /\ s \in new.todo \cup new.done => new.seen[s] # NoSchedule /\ times'[s] = times[s] /\ times[s] = 0
                     /\ times'[s] <= times[s] /\ times'[s] <= times[s] + 1
                     /\ schedule'[s] # NoSchedule /\ schedule'[s].wait = 0 => times'[s] = 0
    BY <1>0, <2>1, <2>2, <2>3
  <2> QED
    BY <2>1, <2>4, <2>5, <2>6, <2>7, ScheduleRuns, ZenonT(90)
<1>6. ASSUME NEW k \in R, NEW s \in P, Scheduling(P, R, E)!Dispatch(k, s) PROVE ScheduleInv(P, R, E)'
  <2> DEFINE to == Scheduling(P, R, E)!Targets(k, s)
             new == [run[k] EXCEPT !.todo = @ \ {s}, !.done = @ \cup {s},
                                   !.work = [d \in Devices |-> IF d \in to THEN @[d] + 1 ELSE @[d]]]
  <2>1. /\ run' = [run EXCEPT ![k] = new] /\ UNCHANGED <<schedule, revoked, pending, times>>
        /\ s \in run[k].todo
        /\ \A d \in to : ~(d \in revoked \/ pending[d] + run[k].work[d] >= QueueLimit)
    <3>1. run' = [run EXCEPT ![k] = new]
      BY Zenon, <1>0, <1>6 DEF Scheduling!Dispatch
    <3> QED
      BY Zenon, <1>0, <1>6, <3>1 DEF Scheduling!Dispatch, Scheduling!Refuses
  <2> HIDE DEF to
  <2>2. run[k] \in Scheduling(P, R, E)!Run
    BY Zenon, <1>0
  <2>3. /\ new.todo = run[k].todo \ {s} /\ new.done = run[k].done \cup {s} /\ new.seen = run[k].seen
        /\ new.work = [d \in Devices |-> IF d \in to THEN run[k].work[d] + 1 ELSE run[k].work[d]]
        /\ new.st = run[k].st
    BY Zenon, <2>2 DEF Scheduling!Run
  <2>4. new \in Scheduling(P, R, E)!Run
    <3> DEFINE w == [d \in Devices |-> IF d \in to THEN run[k].work[d] + 1 ELSE run[k].work[d]]
    <3>1. w \in [Devices -> Nat]
      BY <2>2 DEF Scheduling!Run
    <3>2. new = [run[k] EXCEPT !.todo = @ \ {s}, !.done = @ \cup {s}, !.work = w]
      BY Zenon
    <3> HIDE DEF w, new
    <3> QED
      BY <2>2, <3>1, <3>2, Zenon DEF Scheduling!Run
  <2> HIDE DEF new
  <2>5. Scheduling(P, R, E)!TypeOK'
    BY Zenon, <1>0, <2>1, <2>4 DEF Scheduling!TypeOK
  <2>6. \A d \in Devices :
           /\ new.work[d] <= QueueLimit
           /\ \/ pending'[d] + new.work[d] <= QueueLimit
              \/ pending'[d] + new.work[d] <= pending[d] + run[k].work[d]
    <3> SUFFICES ASSUME NEW d \in Devices
                 PROVE  /\ new.work[d] <= QueueLimit
                        /\ \/ pending'[d] + new.work[d] <= QueueLimit
                           \/ pending'[d] + new.work[d] <= pending[d] + run[k].work[d]
      BY Zenon
    <3>1. /\ pending[d] \in Nat /\ run[k].work[d] \in Nat /\ run[k].work[d] <= QueueLimit
          /\ pending'[d] = pending[d]
      BY Zenon, <1>0, <2>1, <2>2 DEF ScheduleInv, Scheduling!Run
    <3>2. new.work[d] = IF d \in to THEN run[k].work[d] + 1 ELSE run[k].work[d]
      BY Zenon, <2>3
    <3>3. d \in to => pending[d] + run[k].work[d] < QueueLimit
      BY SMTT(30), <2>1, <3>1, SchedulerAssumption
    <3> QED
      BY SMTT(30), <3>1, <3>2, <3>3, SchedulerAssumption
  <2>7. \A q \in P : q \in new.todo \cup new.done <=> HoldsRun(run, k, q)
    BY <2>1, <2>3, Zenon DEF HoldsRun
  <2>8. \A q \in P : /\ q \in new.todo \cup new.done =>
                           new.seen[q] # NoSchedule /\ times'[q] = times[q] /\ HoldsRun(run, k, q)
                     /\ times'[q] <= times[q] /\ times'[q] <= times[q] + 1
                     /\ schedule'[q] # NoSchedule /\ schedule'[q].wait = 0 => times'[q] = 0
    BY <1>0, <2>1, <2>3, <2>7 DEF ScheduleInv
  <2> QED
    BY <2>1, <2>4, <2>5, <2>6, <2>8, ScheduleRuns, ZenonT(30)
<1>7. ASSUME NEW k \in R, NEW s \in P, Scheduling(P, R, E)!Raise(k, s) PROVE ScheduleInv(P, R, E)'
    BY <1>7, ScheduleUndone, Zenon DEF Scheduling!Raise
<1>8. ASSUME NEW k \in R, Scheduling(P, R, E)!Abort(k) PROVE ScheduleInv(P, R, E)'
    BY <1>8, ScheduleUndone, Zenon DEF Scheduling!Abort
<1>9. ASSUME NEW k \in R, Scheduling(P, R, E)!Commit(k) PROVE ScheduleInv(P, R, E)'
  <2>1. CASE \E s \in run[k].done : schedule[s] = NoSchedule
    BY <1>9, <2>1, ScheduleUndone, Zenon DEF Scheduling!Commit
  <2>2. CASE ~\E s \in run[k].done : schedule[s] = NoSchedule
    <3> DEFINE new == Scheduling(P, R, E)!NoRun
    <3>1. /\ run[k].todo = {} /\ run' = [run EXCEPT ![k] = new] /\ revoked' = revoked
          /\ pending' = [d \in Devices |-> pending[d] + run[k].work[d]]
          /\ times' = [s \in P |-> IF s \in run[k].done THEN times[s] + 1 ELSE times[s]]
      BY Zenon, <1>9, <2>2 DEF Scheduling!Commit
    <3>2. PICK next \in [P -> Waits] :
             /\ \A s \in P : IF s \in run[k].done THEN next[s] \in 1 .. run[k].seen[s].period ELSE next[s] = 0
             /\ schedule' = [s \in P |-> IF s \in run[k].done THEN [schedule[s] EXCEPT !.wait = next[s]]
                                         ELSE schedule[s]]
      BY Zenon, <1>9, <2>2 DEF Scheduling!Commit, Scheduling!NextRuns
    <3>3. /\ new \in Scheduling(P, R, E)!Run /\ new.todo = {} /\ new.done = {}
          /\ \A d \in Devices : new.work[d] = 0
      BY Zenon DEF Scheduling!NoRun, Scheduling!Run
    <3>4. run[k] \in Scheduling(P, R, E)!Run
      BY Zenon, <1>0
    <3>5. \A s \in P : s \in run[k].done => /\ HoldsRun(run, k, s) /\ run[k].seen[s] \in Row
                                            /\ schedule[s] \in Row /\ next[s] # 0
      <4> SUFFICES ASSUME NEW s \in P, s \in run[k].done
                   PROVE  /\ HoldsRun(run, k, s) /\ run[k].seen[s] \in Row
                          /\ schedule[s] \in Row /\ next[s] # 0
        BY Zenon
      <4>1. HoldsRun(run, k, s)
        BY Zenon DEF HoldsRun
      <4>2. run[k].seen[s] \in Row
        BY Zenon, <3>4, <4>1 DEF ScheduleInv, Scheduling!Run
      <4>3. run[k].seen[s].period \in Periods /\ next[s] \in 1 .. run[k].seen[s].period
        BY Zenon, <3>2, <4>2 DEF Scheduling!Row
      <4>4. schedule[s] \in Row
        BY Zenon, <1>0, <2>2
      <4> QED
        BY Zenon, <4>1, <4>2, <4>3, <4>4, WaitsType
    <3>6. \A s \in P : s \in run[k].done => schedule'[s] \in Row /\ schedule'[s].wait = next[s]
      <4> SUFFICES ASSUME NEW s \in P, s \in run[k].done
                   PROVE  schedule'[s] \in Row /\ schedule'[s].wait = next[s]
        BY Zenon
      <4>1. schedule'[s] = [schedule[s] EXCEPT !.wait = next[s]] /\ schedule[s] \in Row /\ next[s] \in Waits
        BY Zenon, <3>2, <3>5
      <4> QED
        BY Zenon, <4>1 DEF Scheduling!Row
    <3>7. \A s \in P : s \notin run[k].done => schedule'[s] = schedule[s] /\ times'[s] = times[s]
      BY Zenon, <3>1, <3>2
    <3>8. Scheduling(P, R, E)!TypeOK'
      <4>1. schedule' \in [P -> Row \cup {NoSchedule}]
        BY Zenon, <1>0, <3>2, <3>6, <3>7
      <4>2. pending' \in [Devices -> Nat] /\ times' \in [P -> Nat] /\ run' \in [R -> Scheduling(P, R, E)!Run]
        BY <1>0, <3>1, <3>3, <3>4, SMTT(30) DEF Scheduling!Run
      <4> QED
        BY Zenon, <1>0, <3>1, <4>1, <4>2 DEF Scheduling!TypeOK
    <3> HIDE DEF new
    <3>9. \A s \in P : schedule'[s] # NoSchedule /\ schedule'[s].wait = 0 => times'[s] = 0
      BY ZenonT(30), <1>0, <3>5, <3>6, <3>7
    <3>10. \A s \in P : /\ s \notin new.todo \cup new.done
                        /\ IF HoldsRun(run, k, s) THEN times'[s] <= times[s] + 1 ELSE times'[s] <= times[s]
      BY SMTT(30), <1>0, <3>1, <3>3 DEF HoldsRun
    <3>11. \A d \in Devices : /\ new.work[d] <= QueueLimit
                              /\ pending'[d] + new.work[d] <= pending[d] + run[k].work[d]
      BY SMTT(30), <1>0, <3>1, <3>3, <3>4, SchedulerAssumption DEF Scheduling!Run
    <3> QED
      BY <3>1, <3>3, <3>8, <3>9, <3>10, <3>11, ScheduleRuns, Zenon
  <2> QED
    BY Zenon, <2>1, <2>2
<1>10. CASE UNCHANGED Scheduling(P, R, E)!vars
  <2>1. UNCHANGED <<schedule, revoked, pending, run, times>>
    BY Zenon, <1>10 DEF Scheduling!vars
  <2>2. Scheduling(P, R, E)!TypeOK'
    BY Zenon, <1>0, <2>1 DEF Scheduling!TypeOK
  <2> QED
    BY <1>0, <2>1, <2>2, ScheduleEdits
<1> QED
    BY Zenon, <1>1, <1>2, <1>3, <1>4, <1>5, <1>6, <1>7, <1>8, <1>9, <1>10
       DEF Scheduling!Next, Scheduling!RunStep

\* What the invariant counts bounds what has been committed.
LEMMA ScheduleBounds ==
    ASSUME NEW P, NEW R, NEW E, IsFiniteSet(R), ScheduleInv(P, R, E)
    PROVE  Scheduling(P, R, E)!OncePerOccurrence /\ Scheduling(P, R, E)!QueueBounded
<1>1. Cardinality(R) \in Nat /\ QueueLimit * Cardinality(R) \in Nat
    BY FS_CardinalityType, SchedulerAssumption
<1>2. \A s \in P : times[s] <= Cardinality(R)
  <2> SUFFICES ASSUME NEW s \in P PROVE times[s] <= Cardinality(R)
    BY Zenon
  <2>1. Cardinality(Holding(run, R, s)) \in Nat
    BY Zenon, HoldingSizes
  <2>2. times[s] \in Nat /\ times[s] + Cardinality(Holding(run, R, s)) <= Cardinality(R)
    BY Zenon DEF ScheduleInv, Scheduling!TypeOK
  <2> QED
    BY <1>1, <2>1, <2>2
<1>3. \A d \in Devices : pending[d] <= QueueLimit * Cardinality(R)
  <2> SUFFICES ASSUME NEW d \in Devices PROVE pending[d] <= QueueLimit * Cardinality(R)
    BY Zenon
  <2>1. Cardinality(Inserted(run, R, d)) \in Nat
    BY InsertedFinite, FS_CardinalityType, Zenon
  <2>2. pending[d] \in Nat /\ pending[d] + Cardinality(Inserted(run, R, d)) <= QueueLimit * Cardinality(R)
    BY Zenon DEF ScheduleInv, Scheduling!TypeOK
  <2> QED
    BY <1>1, <2>1, <2>2
<1>4. Scheduling(P, R, E)!OncePerOccurrence
    BY <1>2, Zenon DEF Scheduling!OncePerOccurrence, Scheduling!Cardinality, Cardinality
<1>5. Scheduling(P, R, E)!QueueBounded
    BY <1>3, Zenon DEF Scheduling!QueueBounded, Scheduling!Cardinality, Cardinality
<1> QED
    BY Zenon, <1>4, <1>5

\* For any schedules and any number of runs that overlap: each dispatches a
\* schedule that is due at most once, and together they exceed the limit of a
\* device's queue no more than each may fill it.
THEOREM SchedulerCorrect ==
    ASSUME NEW CONSTANT P, NEW CONSTANT R, NEW CONSTANT E, IsFiniteSet(R)
    PROVE  Scheduling(P, R, E)!Spec => [](Scheduling(P, R, E)!OncePerOccurrence /\ Scheduling(P, R, E)!QueueBounded)
<1>1. Scheduling(P, R, E)!Init => ScheduleInv(P, R, E)
    BY Zenon, ScheduleInit
<1>2. ScheduleInv(P, R, E) /\ [Scheduling(P, R, E)!Next]_(Scheduling(P, R, E)!vars) => ScheduleInv(P, R, E)'
    BY Zenon, ScheduleStep
<1>3. ScheduleInv(P, R, E) => Scheduling(P, R, E)!OncePerOccurrence /\ Scheduling(P, R, E)!QueueBounded
    BY Zenon, ScheduleBounds
<1> QED
    BY <1>1, <1>2, <1>3, PTL DEF Scheduling!Spec

-----------------------------------------------------------------------------
(***************************************************************************)
(* RateLimit.  A call that INCR has counted within the limit holds a place *)
(* until it decides, so the invariant counts those let in and those still  *)
(* to be: no more than the key has counted, and no more than the limit.    *)
(***************************************************************************)

ASSUME RateAssumption ==
    /\ IsFiniteSet(Calls) /\ RateMax \in Nat /\ MaxCount \in Nat /\ MaxCrashes \in Nat

VARIABLES count, expires, limited, current, late, allowed, refused, crashes
limitVars == <<count, expires, limited, current, late, allowed, refused, crashes>>

Limits == INSTANCE RateLimit WITH Limit <- RateMax, call <- limited

Admitted == {c \in Calls : /\ c \notin late /\ limited[c] # "idle"
                           /\ Limits!Within(current[c])}

LimitInv ==
    /\ Limits!TypeOK
    /\ allowed + Cardinality(Admitted) <= count
    /\ allowed + Cardinality(Admitted) <= RateMax
    /\ \A c \in Calls : limited[c] = "expire" =>
          count > 0 /\ ~expires /\ \A d \in Calls : limited[d] = "expire" => d = c

\* The calls that hold a place are finitely many.
LEMMA AdmittedFinite == /\ IsFiniteSet(Admitted) /\ Cardinality(Admitted) \in Nat
                        /\ IsFiniteSet(Admitted') /\ Cardinality(Admitted') \in Nat
<1>1. Admitted \subseteq Calls /\ Admitted' \subseteq Calls
    BY Zenon DEF Admitted
<1> QED
    BY Zenon, <1>1, FS_Subset, FS_CardinalityType, RateAssumption

\* Nobody is counted at first.
LEMMA LimitInit == Limits!Init => LimitInv
<1> SUFFICES ASSUME Limits!Init PROVE LimitInv
    BY Zenon
<1>1. Admitted = {}
    BY Zenon DEF Admitted, Limits!Init
<1>2. Cardinality(Admitted) = 0
    BY Zenon, <1>1, FS_EmptySet
<1>3. Limits!TypeOK
  <2>1. expires \in BOOLEAN /\ (expires => count > 0)
    BY Zenon DEF Limits!Init
  <2>2. refused \in BOOLEAN
    BY Zenon DEF Limits!Init
  <2> QED
    BY <2>1, <2>2, RateAssumption DEF Limits!Init, Limits!TypeOK
<1>4. allowed = 0 /\ count = 0
    BY Zenon DEF Limits!Init
<1> QED
    BY <1>2, <1>3, <1>4, RateAssumption DEF LimitInv, Limits!Init

\* A call that leaves without being let in gives up its place, if it had one.
LEMMA LimitLeaves ==
    ASSUME LimitInv, Limits!TypeOK', Admitted' \subseteq Admitted,
           allowed' <= allowed, count' = count,
           \A c \in Calls : limited'[c] = "expire" => limited[c] = "expire" /\ expires' = expires
    PROVE  LimitInv'
<1>1. Cardinality(Admitted') <= Cardinality(Admitted)
    BY Zenon, AdmittedFinite, FS_Subset
<1> QED
    BY SMTT(30), <1>1, AdmittedFinite, RateAssumption DEF LimitInv, Limits!TypeOK

\* Every step of check_rate_limit keeps the invariant.
LEMMA LimitStep == LimitInv /\ [Limits!Next]_(Limits!vars) => LimitInv'
<1> SUFFICES ASSUME LimitInv, [Limits!Next]_(Limits!vars) PROVE LimitInv'
    BY Zenon
<1> USE RateAssumption
<1>0. Limits!TypeOK
    BY Zenon DEF LimitInv
<1>1. ASSUME NEW c \in Calls, Limits!Incr(c) PROVE LimitInv'
  <2>1. Limits!TypeOK'
    BY SMTT(30), <1>0, <1>1 DEF Limits!TypeOK, Limits!Incr
  <2>2. c \notin Admitted
    BY Zenon, <1>1 DEF Admitted, Limits!Incr
  <2>3. Admitted' \subseteq Admitted \cup {c}
    BY Zenon, <1>0, <1>1 DEF Admitted, Limits!Incr, Limits!TypeOK, Limits!Within
  <2>4. c \in Admitted' => count + 1 < RateMax
    BY Zenon, <1>0, <1>1 DEF Admitted, Limits!Incr, Limits!TypeOK, Limits!Within
  <2>5. CASE c \in Admitted'
    <3>1. IsFiniteSet(Admitted \cup {c}) /\ Cardinality(Admitted \cup {c}) = Cardinality(Admitted) + 1
      BY Zenon, <2>2, AdmittedFinite, FS_AddElement
    <3>2. Cardinality(Admitted') <= Cardinality(Admitted) + 1
      BY <2>3, <3>1, FS_Subset
    <3> QED
      BY SMTT(30), <1>0, <1>1, <2>1, <2>4, <2>5, <3>2, AdmittedFinite
        DEF LimitInv, Limits!Incr, Limits!TypeOK
  <2>6. CASE c \notin Admitted'
    <3>1. Cardinality(Admitted') <= Cardinality(Admitted)
      BY Zenon, <2>3, <2>6, AdmittedFinite, FS_Subset
    <3> QED
      BY SMTT(30), <1>0, <1>1, <2>1, <3>1, AdmittedFinite DEF LimitInv, Limits!Incr, Limits!TypeOK
  <2> QED
    BY Zenon, <2>5, <2>6
<1>2. ASSUME NEW c \in Calls, Limits!Expire(c) PROVE LimitInv'
  <2>1. Limits!TypeOK'
    <3>1. count > 0 /\ expires' \in BOOLEAN
      BY Zenon, <1>2 DEF LimitInv, Limits!Expire
    <3> QED
      BY Zenon, <1>0, <1>2, <3>1 DEF Limits!TypeOK, Limits!Expire
  <2>2. Admitted' \subseteq Admitted
    BY Zenon, <1>0, <1>2 DEF Admitted, Limits!Expire, Limits!TypeOK, Limits!Within
  <2>3. \A d \in Calls : limited'[d] # "expire"
    BY Zenon, <1>0, <1>2 DEF LimitInv, Limits!Expire, Limits!TypeOK
  <2>4. allowed' <= allowed /\ count' = count
    BY <1>0, <1>2 DEF Limits!Expire, Limits!TypeOK
  <2> QED
    BY Zenon, <2>1, <2>2, <2>3, <2>4, LimitLeaves
<1>3. ASSUME NEW c \in Calls, Limits!Decide(c) PROVE LimitInv'
  <2>1. Admitted' = Admitted \ {c}
    BY Zenon, <1>0, <1>3 DEF Admitted, Limits!Decide, Limits!TypeOK, Limits!Within
  <2>2. \A d \in Calls : limited'[d] = "expire" => limited[d] = "expire" /\ expires' = expires
    BY Zenon, <1>0, <1>3 DEF Limits!Decide, Limits!TypeOK
  <2>3. CASE c \in Admitted
    <3>1. Cardinality(Admitted') = Cardinality(Admitted) - 1
      BY Zenon, <2>1, <2>3, AdmittedFinite, FS_RemoveElement
    <3>2. allowed' = allowed + 1 /\ count' = count
      BY Zenon, <1>3, <2>3 DEF Admitted, Limits!Decide
    <3>3. allowed' + Cardinality(Admitted') = allowed + Cardinality(Admitted)
      BY SMTT(30), <1>0, <3>1, <3>2, AdmittedFinite DEF Limits!TypeOK
    <3>4. allowed' \in 0 .. MaxCount
      BY SMTT(30), <1>0, <3>2, <3>3, AdmittedFinite DEF LimitInv, Limits!TypeOK
    <3>5. Limits!TypeOK'
      BY SMTT(30), <1>0, <1>3, <3>4 DEF Limits!TypeOK, Limits!Decide
    <3> QED
      BY Zenon, <2>2, <3>2, <3>3, <3>5 DEF LimitInv
  <2>4. CASE c \notin Admitted
    <3>1. allowed' = allowed /\ count' = count
      BY Zenon, <1>3, <2>4 DEF Admitted, Limits!Decide
    <3>2. Limits!TypeOK'
      BY SMTT(30), <1>0, <1>3, <3>1 DEF Limits!TypeOK, Limits!Decide
    <3> QED
      BY SMTT(30), <1>0, <2>1, <2>2, <3>1, <3>2, LimitLeaves DEF Limits!TypeOK
  <2> QED
    BY Zenon, <2>3, <2>4
<1>4. ASSUME NEW c \in Calls, Limits!Crash(c) PROVE LimitInv'
  <2>1. Limits!TypeOK'
    BY SMTT(30), <1>0, <1>4 DEF Limits!TypeOK, Limits!Crash
  <2>2. Admitted' \subseteq Admitted
    BY Zenon, <1>0, <1>4 DEF Admitted, Limits!Crash, Limits!TypeOK, Limits!Within
  <2> QED
    BY SMTT(30), <1>0, <1>4, <2>1, <2>2, LimitLeaves DEF Limits!Crash, Limits!TypeOK
<1>5. CASE Limits!KeyExpires
  <2>1. Limits!TypeOK'
    <3>1. expires' \in BOOLEAN /\ (expires' => count' > 0) /\ refused' \in BOOLEAN
      BY <1>5, Zenon DEF Limits!KeyExpires
    <3> QED
      BY <1>0, <1>5, <3>1 DEF Limits!TypeOK, Limits!KeyExpires
  <2>2. Admitted' = {}
    BY Zenon, <1>5 DEF Admitted, Limits!KeyExpires
  <2> QED
    BY SMTT(30), <1>5, <2>1, <2>2, FS_EmptySet DEF LimitInv, Limits!KeyExpires
<1>6. CASE UNCHANGED Limits!vars
  <2>1. Limits!TypeOK'
    BY Zenon, <1>0, <1>6 DEF Limits!TypeOK, Limits!vars
  <2>2. Admitted' \subseteq Admitted
    BY Zenon, <1>6 DEF Admitted, Limits!vars, Limits!Within
  <2> QED
    BY SMTT(30), <1>0, <1>6, <2>1, <2>2, LimitLeaves DEF Limits!vars, Limits!TypeOK
<1> QED
    BY Zenon, <1>1, <1>2, <1>3, <1>4, <1>5, <1>6 DEF Limits!Next

\* Those let in are among those counted.
LEMMA LimitBounds == LimitInv => Limits!AtMostLimit
    BY AdmittedFinite, RateAssumption DEF LimitInv, Limits!TypeOK, Limits!AtMostLimit

\* For any limit and any number of requests at the same time, a window of
\* check_rate_limit lets in no more than the limit.
THEOREM RateLimitCorrect == Limits!Spec => []Limits!AtMostLimit
    BY LimitBounds, LimitInit, LimitStep, PTL DEF Limits!Spec
=============================================================================
