--------------------------- MODULE Organizations ---------------------------
(***************************************************************************)
(* Organizations and their members, api/v1/organizations.py.  Every handler *)
(* that writes takes three steps: it reads the acting user's membership,   *)
(* reads what it is about to change, and commits; the database enforces    *)
(* its unique and foreign keys at the commit.                              *)
(***************************************************************************)
EXTENDS Naturals, FiniteSets

CONSTANTS
    Orgs,       \* slugs
    Users,
    Requests,   \* requests that may run at the same time
    Operations, \* the operations of the instance
    NoOrg       \* no active organization

VARIABLES
    exists,     \* the organizations there are
    member,     \* per organization and user: the role, or "none"
    active,     \* per user: active_org_id
    devices,    \* the organizations that have devices
    req         \* per request: what it does and how far it has got

vars == <<exists, member, active, devices, req>>

Roles == {"owner", "admin", "member"}
Given == Roles \cup {"other"}    \* the role of a request's body
Idle == [at |-> "idle"]

TypeOK ==
    /\ exists \subseteq Orgs /\ devices \subseteq exists
    /\ member \in [Orgs -> [Users -> Roles \cup {"none"}]]
    /\ active \in [Users -> Orgs \cup {NoOrg}]
    /\ req \in [Requests ->
         {Idle} \cup [at : {"member", "loaded"}, op : Operations, by : Users, org : Orgs,
                      target : Users, role : Given, row : {"none", "seen", "gone"}, changes : BOOLEAN]]

Init ==
    /\ exists = {} /\ devices = {}
    /\ member = [o \in Orgs |-> [u \in Users |-> "none"]]
    /\ active = [u \in Users |-> NoOrg]
    /\ req = [r \in Requests |-> Idle]

-----------------------------------------------------------------------------

Refuse(r) == req' = [req EXCEPT ![r] = Idle] /\ UNCHANGED <<exists, member, active, devices>>

\* _require_membership and the check of the role that follows it.
Allowed(op, role) ==
    CASE op = "delete" -> role = "owner"
      [] op \in {"invite", "remove", "update"} -> role \in {"owner", "admin"}
      [] op = "switch" -> role # "none"
      [] OTHER -> TRUE

\* The start of a request, which also reads the acting user's active organization.
Request(r, op, by, o, target, role) ==
    /\ req[r] = Idle /\ op \in Operations
    /\ op \in {"create", "delete", "switch"} => target = by /\ role = "owner"
    /\ op = "remove" => role = "owner"
    /\ IF op = "create" THEN o \notin exists ELSE Allowed(op, member[o][by])
    /\ req' = [req EXCEPT ![r] = [at |-> "member", op |-> op, by |-> by, org |-> o, target |-> target,
                                  role |-> role, row |-> "none",
                                  changes |-> IF op = "create" THEN active[by] = NoOrg ELSE active[by] # o]]
    /\ UNCHANGED <<exists, member, active, devices>>

Loaded(r, row, changes) ==
    /\ req' = [req EXCEPT ![r].at = "loaded", ![r].row = row, ![r].changes = changes]
    /\ UNCHANGED <<exists, member, active, devices>>

\* invite_member: "User already a member".
LoadInvite(r) ==
    /\ req[r].at = "member" /\ req[r].op = "invite"
    /\ IF req[r].row = "gone" \/ member[req[r].org][req[r].target] # "none" THEN Refuse(r) ELSE Loaded(r, "none", TRUE)

\* remove_member: "Member not found", "Cannot remove org owner".
\* Mutant: the owner is not looked for.
LoadRemoveAny(r) ==
    /\ req[r].at = "member" /\ req[r].op = "remove"
    /\ IF req[r].row = "gone" \/ member[req[r].org][req[r].target] = "none" THEN Refuse(r) ELSE Loaded(r, "seen", TRUE)
LoadRemove(r) ==
    /\ req[r].at = "member" /\ req[r].op = "remove"
    /\ IF req[r].row = "gone" \/ member[req[r].org][req[r].target] \in {"none", "owner"} THEN Refuse(r)
       ELSE Loaded(r, "seen", TRUE)

\* update_member: "Member not found", "Cannot demote org owner", "Invalid role"; a
\* role that is the one read is not written.
LoadUpdate(r) ==
    /\ req[r].at = "member" /\ req[r].op = "update"
    /\ LET old == member[req[r].org][req[r].target]
       IN IF req[r].row = "gone" \/ old = "none" \/ (old = "owner" /\ req[r].role # "owner")
             \/ req[r].role \notin Roles
          THEN Refuse(r)
          ELSE Loaded(r, "seen", old # req[r].role)

\* Requests that hold a membership row that is deleted, or work on an organization
\* that is: a new one under the same name does not bring it back.
RowGone(o, u) ==
    [q \in Requests |-> IF req[q] # Idle /\ req[q].org = o /\ req[q].target = u /\ req[q].row = "seen"
                        THEN [req[q] EXCEPT !.row = "gone"] ELSE req[q]]
OrgGone(o) ==
    [q \in Requests |-> IF req[q] # Idle /\ req[q].org = o /\ req[q].op # "create"
                        THEN [req[q] EXCEPT !.row = "gone"] ELSE req[q]]

\* create_org: the organization, its owner, and the active organization of a
\* user who has none.  The slug's unique key refuses a second one.
CreateOrg(r) ==
    /\ req[r].at = "member" /\ req[r].op = "create"
    /\ LET o == req[r].org
           u == req[r].by
       IN IF o \in exists THEN Refuse(r)
          ELSE /\ exists' = exists \cup {o}
               /\ member' = [member EXCEPT ![o][u] = "owner"]
               /\ active' = [active EXCEPT ![u] = IF req[r].changes THEN o ELSE @]
               /\ req' = [req EXCEPT ![r] = Idle]
               /\ UNCHANGED devices

\* delete_org: the memberships go with the organization; users.active_org_id and
\* devices.org_id do not let go of it.
DeleteOrg(r) ==
    /\ req[r].at = "member" /\ req[r].op = "delete"
    /\ LET o == req[r].org
       IN IF req[r].row = "gone" \/ o \in devices \/ \E u \in Users : active[u] = o THEN Refuse(r)
          ELSE /\ exists' = exists \ {o}
               /\ member' = [member EXCEPT ![o] = [u \in Users |-> "none"]]
               /\ req' = [OrgGone(o) EXCEPT ![r] = Idle]
               /\ UNCHANGED <<active, devices>>

\* switch_org.
SwitchOrg(r) ==
    /\ req[r].at = "member" /\ req[r].op = "switch"
    /\ IF req[r].row = "gone" \/ ~req[r].changes THEN Refuse(r)
       ELSE /\ active' = [active EXCEPT ![req[r].by] = req[r].org]
            /\ req' = [req EXCEPT ![r] = Idle]
            /\ UNCHANGED <<exists, member, devices>>

\* An invitation for a role there is not is one for a member.
Invited(role) == IF role \in Roles THEN role ELSE "member"

\* The commit of invite_member, remove_member and update_member.
CommitMember(r) ==
    /\ req[r].at = "loaded"
    /\ LET o == req[r].org
           u == req[r].target
           new == CASE req[r].op = "remove" -> "none" [] req[r].op = "invite" -> Invited(req[r].role) [] OTHER -> req[r].role
       IN IF \/ ~req[r].changes \/ req[r].row = "gone"
             \/ req[r].op = "invite" /\ member[o][u] # "none"
          THEN Refuse(r)
          ELSE /\ member' = [member EXCEPT ![o][u] = new]
               /\ req' = [(IF req[r].op = "remove" THEN RowGone(o, u) ELSE req) EXCEPT ![r] = Idle]
               /\ UNCHANGED <<exists, active, devices>>

\* A device registers with the organization.
Enroll(o) ==
    /\ "enroll" \in Operations /\ o \in exists
    /\ devices' = devices \cup {o}
    /\ UNCHANGED <<exists, member, active, req>>

Next ==
    \/ \E r \in Requests, op \in Operations \ {"enroll"}, by, target \in Users, o \in Orgs, role \in Given :
          Request(r, op, by, o, target, role)
    \/ \E r \in Requests :
          \/ LoadInvite(r) \/ LoadRemove(r) \/ LoadUpdate(r)
          \/ CreateOrg(r) \/ DeleteOrg(r) \/ SwitchOrg(r) \/ CommitMember(r)
    \/ \E o \in Orgs : Enroll(o)

Spec == Init /\ [][Next]_vars

-----------------------------------------------------------------------------
(***************************************************************************)
(* Properties                                                              *)
(***************************************************************************)

\* An organization always has an owner, the only one who can delete it, whatever
\* invitations, removals and changes of role run at the same time.
SomeOwner == \A o \in exists : \E u \in Users : member[o][u] = "owner"

\* What goes with an organization goes as a whole: no membership, active
\* organization or device refers to one that is gone, also when a request that
\* read it before commits after.
NothingDangles ==
    /\ \A o \in Orgs \ exists : \A u \in Users : member[o][u] = "none" /\ active[u] # o
    /\ devices \subseteq exists
=============================================================================
