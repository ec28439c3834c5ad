----------------------------- MODULE UserAdmin -----------------------------
(***************************************************************************)
(* User accounts: the endpoints of api/v1/admin.py that create, change and *)
(* deactivate users, the first administrator, and the sign-in through LDAP. *)
(*                                                                         *)
(* A request is a transaction at READ COMMITTED that takes four steps: the *)
(* dependency require_admin reads the acting user; the handler reads the   *)
(* target; it counts the active administrators, where it does; the flush   *)
(* and the commit write the columns that differ from what was read.  Other *)
(* requests run in between.                                                *)
(***************************************************************************)
EXTENDS Naturals, FiniteSets

CONSTANTS
    Users,          \* user names, the first administrator's included
    Admin,          \* the name "admin"
    Requests,       \* requests that may run at the same time
    Environment     \* what else happens: "ldap" (an LDAP sign-in)

VARIABLES
    user,       \* per name: its row
    req         \* per request: what it does and how far it has got

vars == <<user, req>>

Roles == {"admin", "viewer"}
Row == [exists : BOOLEAN, role : Roles, active : {"yes", "no"}]
NoRow == [exists |-> FALSE, role |-> "viewer", active |-> "no"]

\* A body of PATCH /admin/users/{id}: a field that is not given is "keep".
Bodies == [role : Roles \cup {"keep"}, active : {"yes", "no", "keep"}]
DeleteBody == [role |-> "keep", active |-> "no"]
Ops == {"update", "delete"}
Idle == [at |-> "idle"]

TypeOK ==
    /\ user \in [Users -> Row]
    /\ req \in [Requests ->
         {Idle}
         \cup [at : {"authorized"}, by : Users, target : Users, op : Ops, body : Bodies]
         \cup [at : {"loaded"}, by : Users, target : Users, op : Ops, body : Bodies, seen : Row]
         \cup [at : {"checked"}, target : Users, body : Bodies, write : Bodies, locks : BOOLEAN]]

\* _seed_admin.
Init ==
    /\ user = [u \in Users |-> IF u = Admin THEN [exists |-> TRUE, role |-> "admin", active |-> "yes"]
                               ELSE NoRow]
    /\ req = [r \in Requests |-> Idle]

-----------------------------------------------------------------------------

ActiveAdmins == {u \in Users : user[u].role = "admin" /\ user[u].active = "yes"}

\* A request whose transaction has written the row and not ended: others that
\* write the row wait for it.
Unlocked(r, t) == \A q \in Requests \ {r} : req[q].at = "checked" /\ req[q].target = t => ~req[q].locks

Refuse(r) == req' = [req EXCEPT ![r] = Idle]

\* require_admin.
Authorize(r, by, target, op, body) ==
    /\ req[r] = Idle /\ by \in ActiveAdmins
    /\ op = "delete" => body = DeleteBody
    /\ req' = [req EXCEPT ![r] = [at |-> "authorized", by |-> by, target |-> target, op |-> op, body |-> body]]
    /\ UNCHANGED user

\* db.get(User, user_id): 404 when there is none, 400 for what users may not do
\* to themselves.
Load(r) ==
    /\ req[r].at = "authorized"
    /\ LET t == req[r].target
       IN IF \/ ~user[t].exists
             \/ t = req[r].by /\ (req[r].body.role = "viewer" \/ req[r].body.active = "no")
          THEN Refuse(r)
          ELSE req' = [req EXCEPT ![r] = [at |-> "loaded", by |-> req[r].by, target |-> t, op |-> req[r].op,
                                          body |-> req[r].body, seen |-> user[t]]]
    /\ UNCHANGED user

\* The columns the flush writes: those given that differ from the row as read.
\* Mutant: the whole row as the handler sees it.
DirtyAll(seen, body) ==
    [role |-> IF body.role = "keep" THEN seen.role ELSE body.role,
     active |-> IF body.active = "keep" THEN seen.active ELSE body.active]
Dirty(seen, body) ==
    [role |-> IF body.role = seen.role THEN "keep" ELSE body.role,
     active |-> IF body.active = seen.active THEN "keep" ELSE body.active]

Checked(r, target, body, seen, locks) ==
    req' = [req EXCEPT ![r] = [at |-> "checked", target |-> target, body |-> body,
                               write |-> Dirty(seen, body), locks |-> locks]]

\* PATCH /admin/users/{id}, from the check on the last administrator on.  The
\* role is assigned before, and the query that counts flushes it first: it waits
\* for the row, and counts the target with its new role.
update_user(r) ==
    /\ req[r].at = "loaded" /\ req[r].op = "update"
    /\ LET t == req[r].target
           body == req[r].body
           role == IF body.role = "keep" THEN req[r].seen.role ELSE body.role
           counts == body.active = "no" /\ role = "admin"
           flushes == counts /\ role # req[r].seen.role
           counted == IF flushes /\ user[t].active = "yes" THEN ActiveAdmins \cup {t} ELSE ActiveAdmins
       IN /\ flushes => Unlocked(r, t)
          /\ IF counts /\ Cardinality(counted) <= 1 THEN Refuse(r)
             ELSE Checked(r, t, body, req[r].seen, flushes)
    /\ UNCHANGED user

\* DELETE /admin/users/{id} deactivates.
delete_user(r) ==
    /\ req[r].at = "loaded" /\ req[r].op = "delete"
    /\ IF /\ req[r].seen.role = "admin" /\ req[r].seen.active = "yes"
          /\ Cardinality(ActiveAdmins) <= 1
       THEN Refuse(r)
       ELSE Checked(r, req[r].target, DeleteBody, req[r].seen, FALSE)
    /\ UNCHANGED user

\* log_action's flush and the commit.
Commit(r) ==
    /\ req[r].at = "checked" /\ Unlocked(r, req[r].target)
    /\ LET t == req[r].target
           w == req[r].write
       IN user' = [user EXCEPT ![t].role = IF w.role = "keep" THEN @ ELSE w.role,
                               ![t].active = IF w.active = "keep" THEN @ ELSE w.active]
    /\ req' = [req EXCEPT ![r] = Idle]

\* POST /admin/users by an administrator, or create-admin at the server's shell;
\* a name that is taken is an error.
create_user(u, role) ==
    /\ ActiveAdmins # {} \/ role = "admin"
    /\ ~user[u].exists
    /\ user' = [user EXCEPT ![u] = [exists |-> TRUE, role |-> role, active |-> "yes"]]
    /\ UNCHANGED req

\* A sign-in that LDAP accepts creates the user, or sets the role from the
\* user's groups and activates the account; the login commits.
authenticate_ldap(r, u, role) ==
    /\ "ldap" \in Environment /\ req[r] = Idle
    /\ IF user[u].exists
       THEN /\ Checked(r, u, [role |-> role, active |-> "yes"], user[u], FALSE)
            /\ UNCHANGED user
       ELSE /\ user' = [user EXCEPT ![u] = [exists |-> TRUE, role |-> role, active |-> "yes"]]
            /\ UNCHANGED req

Next ==
    \/ \E r \in Requests, by, target \in Users, op \in Ops, body \in Bodies :
          Authorize(r, by, target, op, body)
    \/ \E r \in Requests : Load(r) \/ update_user(r) \/ delete_user(r) \/ Commit(r)
    \/ \E u \in Users, role \in Roles : create_user(u, role)
    \/ \E r \in Requests, u \in Users, role \in Roles : authenticate_ldap(r, u, role)

Spec == Init /\ [][Next]_vars

-----------------------------------------------------------------------------
(***************************************************************************)
(* Properties                                                              *)
(***************************************************************************)

\* There is always an active administrator, who can let everyone else in again:
\* "Cannot deactivate the last admin", "Cannot delete the last admin".
SomeAdmin == ActiveAdmins # {}

\* A request changes only the fields it was given, whatever the row it read has
\* become meanwhile: a role change does not bring back an account that another
\* administrator has switched off, nor the other way round.
FieldsKept ==
    \A r \in Requests :
        LET t == req[r].target
        IN req[r].at = "checked" /\ req'[r] = Idle =>
              /\ req[r].body.role = "keep" => user'[t].role = user[t].role
              /\ req[r].body.active = "keep" => user'[t].active = user[t].active
=============================================================================
