------------------------------- MODULE Server -------------------------------
(***************************************************************************)
(* The server's parts that share no state, side by side: part says which   *)
(* of them moves, and the others stay where they started.  Four of them    *)
(* come twice, with different constants: alone, with everything that can   *)
(* happen around them; and with several actors that overlap.  The queue of *)
(* a device is CommandLifecycle's, with more commands than it holds.  What *)
(* is proved of the parts in AlertProofs, AccountProofs, LimitProofs       *)
(* and CommandLifecycleProofs gives the properties of the whole.           *)
(***************************************************************************)
EXTENDS AlertProofs, AccountProofs, LimitProofs, CommandLifecycleProofs

CONSTANTS
    Session, Sessions, CallTypes, OverlapTypes,         \* AlertLifecycle
    Worker, Workers, Schedules, OverlapSchedules,       \* Scheduler
    Users, OverlapUsers, OneRequest,                    \* UserAdmin
    Orgs, OneOrg                                        \* Organizations

ASSUME AlertAssumption ==
    /\ None \notin Sessions \cup {Session} /\ "sweep" \notin Sessions \cup {Session}
    /\ None \notin CallTypes \cup OverlapTypes
ASSUME WorkerAssumption == IsFiniteSet(Workers)
ASSUME UserAssumption == Admin \in Users
ASSUME OrgAssumption == NoOrg \notin Orgs \cup {OneOrg}

VARIABLE part
all == <<part, alertVars, scheduleVars, userVars, orgVars, limitVars, vars>>

\* What happens around the parts.
CallEvents == {"maintenance", "resolve", "drop", "abort", "mail"}
OverlapEvents == {"drop", "abort"}
RunEvents == {"edit", "revoke", "fail"}
OverlapRunEvents == {"edit", "fail"}
OrgOps == {"create", "delete", "switch", "enroll"}
MemberOps == {"create", "invite", "remove", "update", "enroll"}

Parts == {"call", "calls", "run", "runs", "admin", "admins", "orgs", "members", "limit", "queue"}

ServerInit ==
    /\ part \in Parts
    /\ IF part = "calls" THEN Alerts(Sessions, OverlapTypes, OverlapEvents)!Init
       ELSE Alerts({Session}, CallTypes, CallEvents)!Init
    /\ IF part = "runs" THEN Scheduling(OverlapSchedules, Workers, OverlapRunEvents)!Init
       ELSE Scheduling(Schedules, {Worker}, RunEvents)!Init
    /\ IF part = "admins" THEN Accounts(OverlapUsers, Requests, {"ldap"})!Init
       ELSE Accounts(Users, {OneRequest}, {})!Init
    /\ IF part = "members" THEN Tenants({OneOrg}, MemberOps)!Init ELSE Tenants(Orgs, OrgOps)!Init
    /\ Limits!Init
    /\ Init

ServerNext ==
    \/ /\ \/ part = "call" /\ Alerts({Session}, CallTypes, CallEvents)!Next
          \/ part = "calls" /\ Alerts(Sessions, OverlapTypes, OverlapEvents)!Next
       /\ UNCHANGED <<part, scheduleVars, userVars, orgVars, limitVars, vars>>
    \/ /\ \/ part = "run" /\ Scheduling(Schedules, {Worker}, RunEvents)!Next
          \/ part = "runs" /\ Scheduling(OverlapSchedules, Workers, OverlapRunEvents)!Next
       /\ UNCHANGED <<part, alertVars, userVars, orgVars, limitVars, vars>>
    \/ /\ \/ part = "admin" /\ Accounts(Users, {OneRequest}, {})!Next
          \/ part = "admins" /\ Accounts(OverlapUsers, Requests, {"ldap"})!Next
       /\ UNCHANGED <<part, alertVars, scheduleVars, orgVars, limitVars, vars>>
    \/ /\ \/ part = "orgs" /\ Tenants(Orgs, OrgOps)!Next
          \/ part = "members" /\ Tenants({OneOrg}, MemberOps)!Next
       /\ UNCHANGED <<part, alertVars, scheduleVars, userVars, limitVars, vars>>
    \/ /\ part = "limit" /\ Limits!Next
       /\ UNCHANGED <<part, alertVars, scheduleVars, userVars, orgVars, vars>>
    \/ /\ part = "queue" /\ Next
       /\ UNCHANGED <<part, alertVars, scheduleVars, userVars, orgVars, limitVars>>

ServerSpec == ServerInit /\ [][ServerNext]_all

\* The types of the parts' states.
ServerTypeOK ==
    /\ part \in Parts
    /\ IF part = "calls" THEN Alerts(Sessions, OverlapTypes, OverlapEvents)!TypeOK
       ELSE Alerts({Session}, CallTypes, CallEvents)!TypeOK
    /\ IF part = "runs" THEN Scheduling(OverlapSchedules, Workers, OverlapRunEvents)!TypeOK
       ELSE Scheduling(Schedules, {Worker}, RunEvents)!TypeOK
    /\ IF part = "admins" THEN Accounts(OverlapUsers, Requests, {"ldap"})!TypeOK
       ELSE Accounts(Users, {OneRequest}, {})!TypeOK
    /\ IF part = "members" THEN Tenants({OneOrg}, MemberOps)!TypeOK ELSE Tenants(Orgs, OrgOps)!TypeOK
    /\ Limits!TypeOK
    /\ TypeOK

\* create_alert keeps one unresolved alert of a type: any type for one connection
\* at a time; the types of metrics also for several that overlap.
OneOpenAlert ==
    IF part = "calls" THEN Alerts(Sessions, OverlapTypes, OverlapEvents)!OneOpenPerMetric
    ELSE Alerts({Session}, CallTypes, CallEvents)!OneOpenPerType

\* send_alert_email_task mails nothing about an alert that was rolled back.
NoPhantomMail ==
    IF part = "calls" THEN Alerts(Sessions, OverlapTypes, OverlapEvents)!NoPhantomMail
    ELSE Alerts({Session}, CallTypes, CallEvents)!NoPhantomMail

\* Limits that are checked without a lock are exceeded by no more than those who
\* race: run_scheduled_commands dispatches a schedule that is due once for each
\* run that overlaps, each of which respects the queue's limit; dispatch_command
\* exceeds that limit by less than the number of dispatchers.  rate_limit, whose
\* INCR is atomic, is not exceeded at all.
LimitsHold ==
    /\ IF part = "runs"
       THEN /\ Scheduling(OverlapSchedules, Workers, OverlapRunEvents)!OncePerOccurrence
            /\ Scheduling(OverlapSchedules, Workers, OverlapRunEvents)!QueueBounded
       ELSE /\ Scheduling(Schedules, {Worker}, RunEvents)!OncePerOccurrence
            /\ Scheduling(Schedules, {Worker}, RunEvents)!QueueBounded
    /\ QueueBounded
    /\ Limits!AtMostLimit

\* Nobody is left stranded: update_user and delete_user, one at a time, leave an
\* active administrator; an organization keeps an owner and nothing refers to one
\* that is gone, however requests interleave.
NobodyStranded ==
    /\ part # "admins" => Accounts(Users, {OneRequest}, {})!SomeAdmin
    /\ IF part = "members"
       THEN Tenants({OneOrg}, MemberOps)!SomeOwner /\ Tenants({OneOrg}, MemberOps)!NothingDangles
       ELSE Tenants(Orgs, OrgOps)!SomeOwner /\ Tenants(Orgs, OrgOps)!NothingDangles

\* A request to update a user writes only the fields it was given.
FieldsKept ==
    [][IF part = "admins" THEN Accounts(OverlapUsers, Requests, {"ldap"})!FieldsKept
       ELSE Accounts(Users, {OneRequest}, {})!FieldsKept]_all

-----------------------------------------------------------------------------
(***************************************************************************)
(* Server.  The parts share no variables, so each keeps its own invariant: *)
(* the part that moves by its own step, the others because they stay.      *)
(***************************************************************************)

AlertsInv ==
    IF part = "calls"
    THEN AlertInv(Sessions, OverlapTypes, OverlapEvents, MetricTypes \cap OverlapTypes)
    ELSE AlertInv({Session}, CallTypes, CallEvents, CallTypes)

SchedulesInv ==
    IF part = "runs" THEN ScheduleInv(OverlapSchedules, Workers, OverlapRunEvents)
    ELSE ScheduleInv(Schedules, {Worker}, RunEvents)

AccountsInv ==
    IF part = "admins" THEN AccountInv(OverlapUsers, Requests, {"ldap"})
    ELSE AccountInv(Users, {OneRequest}, {}) /\ SoleInv(Users, OneRequest, {})

TenantsInv ==
    IF part = "members" THEN TenantInv({OneOrg}, MemberOps) ELSE TenantInv(Orgs, OrgOps)

FieldsKeptStep ==
    IF part = "admins" THEN Accounts(OverlapUsers, Requests, {"ldap"})!FieldsKept
    ELSE Accounts(Users, {OneRequest}, {})!FieldsKept

PartsInv == part \in Parts /\ AlertsInv /\ SchedulesInv /\ AccountsInv /\ TenantsInv /\ LimitInv

\* What the constants of the two parts with alerts satisfy.
LEMMA AlertConstants ==
    /\ Exclusive(Sessions, OverlapTypes, MetricTypes \cap OverlapTypes)
    /\ Exclusive({Session}, CallTypes, CallTypes)
    BY AlertAssumption, ZenonT(30) DEF Exclusive

\* What the constants of the others satisfy.
LEMMA PartConstants ==
    /\ IsFiniteSet(Workers) /\ IsFiniteSet({Worker})
    /\ Admin \in Users /\ "ldap" \notin {}
    /\ NoOrg \notin Orgs /\ NoOrg \notin {OneOrg}
    /\ OrgOps \in SUBSET OrgOperations /\ MemberOps \in SUBSET OrgOperations
    BY ZenonT(30), WorkerAssumption, UserAssumption, OrgAssumption, FS_Singleton
      DEF OrgOps, MemberOps, OrgOperations

\* A step of the server is for each part one of its own or none.
LEMMA ServerMoves ==
    ASSUME [ServerNext]_all
    PROVE  /\ part' = part
           /\ IF part = "calls"
              THEN [Alerts(Sessions, OverlapTypes, OverlapEvents)!Next]_(Alerts(Sessions, OverlapTypes, OverlapEvents)!vars)
              ELSE [Alerts({Session}, CallTypes, CallEvents)!Next]_(Alerts({Session}, CallTypes, CallEvents)!vars)
           /\ IF part = "runs"
              THEN [Scheduling(OverlapSchedules, Workers, OverlapRunEvents)!Next]_(Scheduling(OverlapSchedules, Workers, OverlapRunEvents)!vars)
              ELSE [Scheduling(Schedules, {Worker}, RunEvents)!Next]_(Scheduling(Schedules, {Worker}, RunEvents)!vars)
           /\ IF part = "admins"
              THEN [Accounts(OverlapUsers, Requests, {"ldap"})!Next]_(Accounts(OverlapUsers, Requests, {"ldap"})!vars)
              ELSE [Accounts(Users, {OneRequest}, {})!Next]_(Accounts(Users, {OneRequest}, {})!vars)
           /\ IF part = "members" THEN [Tenants({OneOrg}, MemberOps)!Next]_(Tenants({OneOrg}, MemberOps)!vars)
              ELSE [Tenants(Orgs, OrgOps)!Next]_(Tenants(Orgs, OrgOps)!vars)
           /\ [Limits!Next]_(Limits!vars)
           /\ [Next]_vars
<1>1. part' = part
    BY ZenonT(30) DEF ServerNext, all
<1>2. /\ \A S, A, E : UNCHANGED alertVars => UNCHANGED Alerts(S, A, E)!vars
      /\ \A P, R, E : UNCHANGED scheduleVars => UNCHANGED Scheduling(P, R, E)!vars
      /\ \A U, R, E : UNCHANGED userVars => UNCHANGED Accounts(U, R, E)!vars
      /\ \A O, M : UNCHANGED orgVars => UNCHANGED Tenants(O, M)!vars
      /\ UNCHANGED limitVars => UNCHANGED Limits!vars
    BY ZenonT(30) DEF alertVars, scheduleVars, userVars, orgVars, limitVars, Alerts!vars, Alerts!callVars,
           Scheduling!vars, Accounts!vars, Tenants!vars, Limits!vars
<1>3. /\ \/ UNCHANGED alertVars
         \/ part = "call" /\ Alerts({Session}, CallTypes, CallEvents)!Next
         \/ part = "calls" /\ Alerts(Sessions, OverlapTypes, OverlapEvents)!Next
      /\ \/ UNCHANGED scheduleVars
         \/ part = "run" /\ Scheduling(Schedules, {Worker}, RunEvents)!Next
         \/ part = "runs" /\ Scheduling(OverlapSchedules, Workers, OverlapRunEvents)!Next
      /\ \/ UNCHANGED userVars
         \/ part = "admin" /\ Accounts(Users, {OneRequest}, {})!Next
         \/ part = "admins" /\ Accounts(OverlapUsers, Requests, {"ldap"})!Next
      /\ \/ UNCHANGED orgVars
         \/ part = "orgs" /\ Tenants(Orgs, OrgOps)!Next
         \/ part = "members" /\ Tenants({OneOrg}, MemberOps)!Next
      /\ UNCHANGED limitVars \/ Limits!Next
      /\ UNCHANGED vars \/ Next
    BY ZenonT(30) DEF ServerNext, all
<1> QED
    BY ZenonT(30), <1>1, <1>2, <1>3

\* The parts' invariants hold at first and are kept by every step.
LEMMA PartsKept ==
    /\ ServerInit => PartsInv
    /\ PartsInv /\ [ServerNext]_all => PartsInv' /\ FieldsKeptStep
<1>1. ASSUME ServerInit PROVE PartsInv
  <2>1. AlertsInv
    BY <1>1, AlertConstants, AlertInit, ZenonT(30) DEF ServerInit, AlertsInv
  <2>2. SchedulesInv
    BY <1>1, PartConstants, ScheduleInit, ZenonT(30) DEF ServerInit, SchedulesInv
  <2>3. AccountsInv
    BY <1>1, PartConstants, AccountInit, SoleInit, ZenonT(30) DEF ServerInit, AccountsInv
  <2>4. TenantsInv
    BY <1>1, PartConstants, TenantInit, ZenonT(30) DEF ServerInit, TenantsInv
  <2> QED
    BY <1>1, <2>1, <2>2, <2>3, <2>4, LimitInit, ZenonT(30) DEF ServerInit, PartsInv
<1>2. ASSUME PartsInv, [ServerNext]_all PROVE PartsInv' /\ FieldsKeptStep
  <2>0. part' = part
    BY <1>2, ServerMoves, ZenonT(30)
  <2>1. AlertsInv'
    BY <1>2, <2>0, ServerMoves, AlertConstants, AlertStep, ZenonT(30) DEF PartsInv, AlertsInv
  <2>2. SchedulesInv'
    BY <1>2, <2>0, ServerMoves, PartConstants, ScheduleStep, ZenonT(30) DEF PartsInv, SchedulesInv
  <2>3. AccountsInv' /\ FieldsKeptStep
    BY <1>2, <2>0, ServerMoves, PartConstants, AccountStep, SoleStep, ZenonT(30)
      DEF PartsInv, AccountsInv, FieldsKeptStep
  <2>4. TenantsInv'
    BY <1>2, <2>0, ServerMoves, PartConstants, TenantStep, ZenonT(30) DEF PartsInv, TenantsInv
  <2>5. LimitInv'
    BY <1>2, ServerMoves, LimitStep, ZenonT(30) DEF PartsInv
  <2> QED
    BY <1>2, <2>0, <2>1, <2>2, <2>3, <2>4, <2>5, ZenonT(30) DEF PartsInv
<1> QED
    BY <1>1, <1>2, ZenonT(30)

\* The parts' invariants always hold, and the queue behaves as specified.
LEMMA PartsCorrect == ServerSpec => []PartsInv /\ Spec
<1>1. ServerInit => Init
    BY ZenonT(30) DEF ServerInit
<1>2. [ServerNext]_all => [Next]_vars
    BY ServerMoves, ZenonT(30)
<1> QED
    BY <1>1, <1>2, PartsKept, PTL DEF ServerSpec, Spec

\* The server's parts keep the types of their states.
THEOREM ServerTypesCorrect == ServerSpec => []ServerTypeOK
<1>1. PartsInv /\ TypeOK => ServerTypeOK
  <2> SUFFICES ASSUME PartsInv, TypeOK PROVE ServerTypeOK
    BY ZenonT(30)
  <2>1. IF part = "calls" THEN Alerts(Sessions, OverlapTypes, OverlapEvents)!TypeOK
        ELSE Alerts({Session}, CallTypes, CallEvents)!TypeOK
    BY AlertBounds, ZenonT(30) DEF PartsInv, AlertsInv
  <2>2. IF part = "runs" THEN Scheduling(OverlapSchedules, Workers, OverlapRunEvents)!TypeOK
        ELSE Scheduling(Schedules, {Worker}, RunEvents)!TypeOK
    BY ZenonT(30) DEF PartsInv, SchedulesInv, ScheduleInv
  <2>3. IF part = "admins" THEN Accounts(OverlapUsers, Requests, {"ldap"})!TypeOK
        ELSE Accounts(Users, {OneRequest}, {})!TypeOK
    BY ZenonT(30) DEF PartsInv, AccountsInv, AccountInv
  <2>4. IF part = "members" THEN Tenants({OneOrg}, MemberOps)!TypeOK ELSE Tenants(Orgs, OrgOps)!TypeOK
    BY ZenonT(30) DEF PartsInv, TenantsInv, TenantInv
  <2> QED
    BY <2>1, <2>2, <2>3, <2>4, ZenonT(30) DEF PartsInv, LimitInv, ServerTypeOK
<1> QED
    BY <1>1, PartsCorrect, TypeCorrect, PTL

\* create_alert, called by one connection at a time, leaves one unresolved alert
\* of a type; by any that overlap, one of each metric.
THEOREM OneOpenAlertCorrect == ServerSpec => []OneOpenAlert
<1>1. PartsInv => OneOpenAlert
    BY AlertBounds, ZenonT(30) DEF PartsInv, AlertsInv, OneOpenAlert
<1> QED
    BY <1>1, PartsCorrect, PTL

\* send_alert_email_task mails nothing about an alert that was rolled back.
THEOREM NoPhantomMailCorrect == ServerSpec => []NoPhantomMail
<1>1. PartsInv => NoPhantomMail
    BY AlertBounds, ZenonT(30) DEF PartsInv, AlertsInv, NoPhantomMail
<1> QED
    BY <1>1, PartsCorrect, PTL

\* Scheduled runs, dispatch_command and rate_limit exceed their limits by no more
\* than races allow.
THEOREM LimitsCorrect == ServerSpec => []LimitsHold
<1>1. PartsInv /\ QueueBounded => LimitsHold
  <2> SUFFICES ASSUME PartsInv, QueueBounded PROVE LimitsHold
    BY Zenon
  <2>1. IF part = "runs"
        THEN /\ Scheduling(OverlapSchedules, Workers, OverlapRunEvents)!OncePerOccurrence
             /\ Scheduling(OverlapSchedules, Workers, OverlapRunEvents)!QueueBounded
        ELSE /\ Scheduling(Schedules, {Worker}, RunEvents)!OncePerOccurrence
             /\ Scheduling(Schedules, {Worker}, RunEvents)!QueueBounded
    BY PartConstants, ScheduleBounds, ZenonT(30) DEF PartsInv, SchedulesInv
  <2>2. Limits!AtMostLimit
    BY LimitBounds, ZenonT(30) DEF PartsInv
  <2> QED
    BY <2>1, <2>2, ZenonT(30) DEF LimitsHold
<1> QED
    BY <1>1, PartsCorrect, QueueCorrect, PTL

\* update_user and delete_user, one request at a time, leave an active
\* administrator; organizations keep an owner and nothing refers to one that is
\* gone.
THEOREM NobodyStrandedCorrect == ServerSpec => []NobodyStranded
<1>1. PartsInv => NobodyStranded
  <2> SUFFICES ASSUME PartsInv PROVE NobodyStranded
    BY ZenonT(30)
  <2>1. part # "admins" => Accounts(Users, {OneRequest}, {})!SomeAdmin
    BY ZenonT(30) DEF PartsInv, AccountsInv, SoleInv
  <2>2. IF part = "members"
        THEN Tenants({OneOrg}, MemberOps)!SomeOwner /\ Tenants({OneOrg}, MemberOps)!NothingDangles
        ELSE Tenants(Orgs, OrgOps)!SomeOwner /\ Tenants(Orgs, OrgOps)!NothingDangles
    BY ZenonT(30) DEF PartsInv, TenantsInv, TenantInv, Tenants!SomeOwner
  <2> QED
    BY <2>1, <2>2, ZenonT(30) DEF NobodyStranded
<1> QED
    BY <1>1, PartsCorrect, PTL

\* A request to update a user writes only the fields it was given, whatever other
\* requests and sign-ins do meanwhile.
THEOREM ServerFieldsKept == ServerSpec => FieldsKept
<1>1. PartsInv /\ [ServerNext]_all => [FieldsKeptStep]_all
    BY ZenonT(30), PartsKept
<1> QED
    BY <1>1, PartsCorrect, PTL DEF ServerSpec, FieldsKept, FieldsKeptStep
=============================================================================
