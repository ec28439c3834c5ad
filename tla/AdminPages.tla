----------------------------- MODULE AdminPages -----------------------------
(***************************************************************************)
(* The pages that manage accounts (Users.tsx), organizations and their     *)
(* members (Organizations.tsx) and compliance policies (Compliance.tsx).   *)
(*                                                                         *)
(* A switch of a row is not kept in the page: a press sends the opposite   *)
(* of what the list shows, and the list shows it once it is fetched again. *)
(* A panel under a row (members, results) has a query of its own, which is *)
(* on the screen only while the panel is open: invalidating it while it is *)
(* not leaves it stale, and opening it fetches it.                         *)
(***************************************************************************)
EXTENDS Page

CONSTANTS
    Accounts, Me,       \* user names; the signed-in one
    Orgs,               \* organizations, the first of them there from the start
    FirstOrg,
    MyRole,             \* my role in the first one
    Policies, FirstPolicy,
    MaxRules,           \* bound: rules of a new policy
    MaxEvaluations,     \* bound: evaluations of a policy
    Null,
    Sessions            \* bound: pairs of a page ("users", "organizations", "compliance")
                        \* and what is used of it

List(view) ==
    CASE view = "users" -> <<"admin-users", "">>
      [] view = "organizations" -> <<"organizations", "">>
      [] view = "compliance" -> <<"compliance-policies", "">>

Panels(view) ==
    CASE view = "users" -> {}
      [] view = "organizations" -> {<<"org-members", o>> : o \in Orgs}
      [] view = "compliance" -> {<<"compliance-results", p>> : p \in Policies}

View(s, k) ==
    CASE k[1] = "admin-users" -> s.user
      [] k[1] = "organizations" -> [o \in Orgs |-> s.member[o][Me]]
      [] k[1] = "org-members" -> s.member[k[2]]
      [] k[1] = "compliance-policies" -> s.policies
      [] k[1] = "compliance-results" -> s.results[k[2]]

list == query[List(ghost.view)].data

\* The rows of the list.
Rows ==
    CASE ghost.view = "users" -> DOMAIN list
      [] ghost.view = "organizations" -> {o \in Orgs : list[o] # "none"}
      [] ghost.view = "compliance" -> list

\* The panels that are open, under rows that are listed.
Expanded ==
    {k \in Panels(ghost.view) : k[2] \in Rows \cap ui.expanded}

Observed == {List(ghost.view)} \cup Expanded

NewUser == [admin |-> FALSE, active |-> TRUE]
Closed == [dialog |-> "none", form |-> "", password |-> FALSE, rules |-> <<>>, rule |-> FALSE,
           expanded |-> {}]

Init ==
    /\ server = [user |-> [u \in {Me} \cup (CHOOSE S \in SUBSET (Accounts \ {Me}) : Cardinality(S) = 1) |->
                               [admin |-> u = Me, active |-> TRUE]],
                 orgs |-> {FirstOrg},
                 member |-> [o \in Orgs |-> [u \in Accounts |->
                                IF o # FirstOrg THEN "none" ELSE IF u = Me THEN MyRole ELSE "member"]],
                 policies |-> {FirstPolicy},
                 results |-> [p \in Policies |-> 0]]
    /\ \E <<view, uses>> \in Sessions :
        /\ ghost = [lost |-> FALSE, excused |-> FALSE, view |-> view, uses |-> uses, last |-> {}, mixed |-> FALSE,
                    typedFor |-> Null]
        /\ query = [k \in {List(view)} \cup Panels(view) |->
                        IF k = List(view) THEN Query(View(server, k))
                        ELSE [data |-> Null, state |-> "stale", answer |-> Null]]
    /\ ui = Closed
    /\ calls = <<>>

TypeOK ==
    /\ server.orgs \subseteq Orgs /\ server.policies \subseteq Policies
    /\ \A u \in DOMAIN server.user : server.user[u] \in [admin : BOOLEAN, active : BOOLEAN]
    /\ server.member \in [Orgs -> [Accounts -> {"none", "member", "admin", "owner"}]]
    /\ server.results \in [Policies -> 0 .. MaxEvaluations]
    /\ ui.dialog \in {"none", "create"} \cup Accounts \cup Orgs
    /\ ui.form \in {""} \cup Accounts \cup Orgs \cup Policies
    /\ ui.password \in BOOLEAN /\ Len(ui.rules) <= MaxRules /\ ui.rule \in BOOLEAN
    /\ ui.expanded \subseteq Orgs \cup Policies
    /\ Len(calls) <= MaxCalls

-----------------------------------------------------------------------------
(* Dialogs.                                                                *)

\* A dialog covers the page.
Offered(use) == ui.dialog = "none" /\ use \in ghost.uses

\* Invite User, Create Organization, New Policy: the form is as it was left.
OpenCreate ==
    /\ Offered("create")
    /\ ui' = [ui EXCEPT !.dialog = "create"]
    /\ UNCHANGED <<server, query, calls, ghost>>

\* The inputs of the dialog; the name of an organization fills in its slug.
TypeForm(name) ==
    /\ ui.dialog = "create" /\ ui.form # name
    /\ name \in (CASE ghost.view = "users" -> Accounts
                   [] ghost.view = "organizations" -> Orgs
                   [] ghost.view = "compliance" -> Policies)
    /\ ui' = [ui EXCEPT !.form = name]
    /\ UNCHANGED <<server, query, calls, ghost>>

\* Cancel: only a policy's form is emptied.
Cancel ==
    /\ ui.dialog # "none"
    /\ ui' = IF ghost.view = "compliance" THEN [ui EXCEPT !.dialog = "none", !.form = "", !.rules = <<>>]
             ELSE [ui EXCEPT !.dialog = "none"]
    /\ UNCHANGED <<server, query, calls, ghost>>

\* Create User is not disabled while a request is under way, Create is.
create ==
    /\ ui.dialog = "create" /\ ui.form # ""
    /\ ghost.view # "users" => ~Pending("create")
    /\ Mutate("create", ui.form)
    /\ UNCHANGED <<server, query, ui, ghost>>

-----------------------------------------------------------------------------
(* Accounts.                                                               *)

\* Presses are remembered: the last value asked for of an item.
Pressed(item, value) ==
    {p \in ghost.last : p[1] # item} \cup {<<item, value>>}

updateUser(u, field) ==
    /\ ghost.view = "users" /\ Offered("press") /\ u \in Rows /\ u # Me
    /\ LET value == ~list[u][field]
       IN /\ Mutate("updateUser", [id |-> u, field |-> field, value |-> value])
          /\ ghost' = [ghost EXCEPT !.last = Pressed(<<u, field>>, value)]
    /\ UNCHANGED <<server, query, ui>>

\* Delete asks first, and deactivates.
deleteUser(u) ==
    /\ ghost.view = "users" /\ Offered("press") /\ u \in Rows /\ u # Me
    /\ Mutate("deleteUser", u)
    /\ ghost' = [ghost EXCEPT !.mixed = TRUE]
    /\ UNCHANGED <<server, query, ui>>

OpenPassword(u) ==
    /\ ghost.view = "users" /\ Offered("password") /\ u \in Rows
    /\ ui' = [ui EXCEPT !.dialog = u, !.password = FALSE]
    /\ UNCHANGED <<server, query, calls, ghost>>

TypePassword ==
    /\ ui.dialog \in Accounts /\ ~ui.password
    /\ ui' = [ui EXCEPT !.password = TRUE]
    /\ ghost' = [ghost EXCEPT !.typedFor = ui.dialog]
    /\ UNCHANGED <<server, query, calls>>

\* Disabled for a password that is too short.
resetPassword ==
    /\ ui.dialog \in Accounts /\ ui.password
    /\ Mutate("resetPassword", [id |-> ui.dialog, typedFor |-> ghost.typedFor])
    /\ UNCHANGED <<server, query, ui, ghost>>

-----------------------------------------------------------------------------
(* Organizations, policies, and the panels under them.                     *)

\* A query that is stale is fetched as its panel opens.  One organization's
\* members are shown at a time.
Expand(k) ==
    /\ Offered("panel") /\ k \in Panels(ghost.view) /\ k[2] \in Rows
    /\ LET open == IF k[2] \in ui.expanded THEN ui.expanded \ {k[2]}
                   ELSE IF ghost.view = "organizations" THEN {k[2]} ELSE ui.expanded \cup {k[2]}
       IN /\ ui' = [ui EXCEPT !.expanded = open]
          /\ query' = IF k[2] \in open /\ query[k].state = "stale"
                      THEN [query EXCEPT ![k].state = "asked"] ELSE query
    /\ UNCHANGED <<server, calls, ghost>>

\* canManage, by the role the list shows.
Manages(o) ==
    /\ ghost.view = "organizations" /\ Offered("panel") /\ <<"org-members", o>> \in Expanded
    /\ list[o] \in {"owner", "admin"}
    /\ query[<<"org-members", o>>].data # Null

\* The members with a select and a button: all but owners.  The panel is not
\* told who the user is, who is therefore among them.
Members(o) ==
    LET shown == query[<<"org-members", o>>].data
    IN  {u \in DOMAIN shown : shown[u] \in {"member", "admin"}}

\* The select shows the listed role: a choice is the other one.
changeRole(o, u) ==
    /\ Manages(o) /\ u \in Members(o)
    /\ LET role == IF query[<<"org-members", o>>].data[u] = "admin" THEN "member" ELSE "admin"
       IN /\ Mutate("changeRole", [org |-> o, id |-> u, role |-> role])
          /\ ghost' = [ghost EXCEPT !.last = Pressed(<<o, u>>, role)]
    /\ UNCHANGED <<server, query, ui>>

removeMember(o, u) ==
    /\ Manages(o) /\ u \in Members(o)
    /\ Mutate("removeMember", [org |-> o, id |-> u])
    /\ ghost' = [ghost EXCEPT !.mixed = TRUE]
    /\ UNCHANGED <<server, query, ui>>

\* A name is typed and sent; disabled while pending.
inviteMember(o, u) ==
    /\ Manages(o) /\ ~Pending("inviteMember")
    /\ Mutate("inviteMember", [org |-> o, id |-> u])
    /\ UNCHANGED <<server, query, ui, ghost>>

ConfirmDelete(o) ==
    /\ ghost.view = "organizations" /\ Offered("confirm") /\ o \in Rows /\ list[o] = "owner"
    /\ ui' = [ui EXCEPT !.dialog = o]
    /\ UNCHANGED <<server, query, calls, ghost>>

deleteOrg ==
    /\ ui.dialog \in Orgs /\ ~Pending("deleteOrg")
    /\ Mutate("deleteOrg", ui.dialog)
    /\ UNCHANGED <<server, query, ui, ghost>>

TypeRule ==
    /\ ghost.view = "compliance" /\ ui.dialog = "create" /\ ~ui.rule
    /\ ui' = [ui EXCEPT !.rule = TRUE]
    /\ UNCHANGED <<server, query, calls, ghost>>

\* A rule without a value is not added.
addRule ==
    /\ ui.dialog = "create" /\ ui.rule /\ Len(ui.rules) < MaxRules
    /\ ui' = [ui EXCEPT !.rules = Append(@, "rule"), !.rule = FALSE]
    /\ UNCHANGED <<server, query, calls, ghost>>

removeRule(n) ==
    /\ ui.dialog = "create" /\ n \in DOMAIN ui.rules
    /\ ui' = [ui EXCEPT !.rules = SubSeq(@, 1, n - 1) \o SubSeq(@, n + 1, Len(@))]
    /\ UNCHANGED <<server, query, calls, ghost>>

deletePolicy(p) ==
    /\ ghost.view = "compliance" /\ Offered("panel") /\ p \in Rows
    /\ Mutate("deletePolicy", p)
    /\ UNCHANGED <<server, query, ui, ghost>>

evaluate(p) ==
    /\ ghost.view = "compliance" /\ Offered("panel") /\ p \in Rows
    /\ Mutate("evaluate", p)
    /\ UNCHANGED <<server, query, ui, ghost>>

-----------------------------------------------------------------------------
(* The requests.                                                           *)

\* What the endpoints refuse: names that are taken, rows that are gone.
Accepts(s, c) ==
    CASE c.op = "create" ->
            c.arg \notin (CASE ghost.view = "users" -> DOMAIN s.user
                            [] ghost.view = "organizations" -> s.orgs
                            [] ghost.view = "compliance" -> s.policies)
      [] c.op \in {"changeRole", "removeMember", "inviteMember"} ->
            /\ s.member[c.arg.org][Me] \in {"owner", "admin"}
            /\ s.member[c.arg.org][c.arg.id] \in
                  IF c.op = "inviteMember" THEN {"none"} ELSE {"member", "admin"}
      [] c.op = "deleteOrg" -> s.member[c.arg][Me] = "owner"
      [] c.op = "deletePolicy" -> c.arg \in s.policies
      [] c.op = "evaluate" -> c.arg \in s.policies /\ s.results[c.arg] < MaxEvaluations
      [] OTHER -> TRUE

Applied(s, c) ==
    CASE c.op = "create" ->
            (CASE ghost.view = "users" ->
                    [s EXCEPT !.user = [u \in DOMAIN @ \cup {c.arg} |-> IF u = c.arg THEN NewUser ELSE @[u]]]
               [] ghost.view = "organizations" -> [s EXCEPT !.orgs = @ \cup {c.arg}, !.member[c.arg][Me] = "owner"]
               [] ghost.view = "compliance" -> [s EXCEPT !.policies = @ \cup {c.arg}])
      [] c.op = "updateUser" -> [s EXCEPT !.user[c.arg.id][c.arg.field] = c.arg.value]
      [] c.op = "deleteUser" -> [s EXCEPT !.user[c.arg].active = FALSE]
      [] c.op = "resetPassword" -> s
      [] c.op = "changeRole" -> [s EXCEPT !.member[c.arg.org][c.arg.id] = c.arg.role]
      [] c.op = "removeMember" -> [s EXCEPT !.member[c.arg.org][c.arg.id] = "none"]
      [] c.op = "inviteMember" -> [s EXCEPT !.member[c.arg.org][c.arg.id] = "member"]
      [] c.op = "deleteOrg" -> [s EXCEPT !.orgs = @ \ {c.arg}, !.member[c.arg] = [u \in Accounts |-> "none"]]
      [] c.op = "deletePolicy" -> [s EXCEPT !.policies = @ \ {c.arg}, !.results[c.arg] = 0]
      [] c.op = "evaluate" -> [s EXCEPT !.results[c.arg] = @ + 1]

HandleCall(i) ==
    /\ calls[i].state = "sent" /\ Accepts(server, calls[i])
    /\ Handle(i, Applied(server, calls[i]))
    /\ UNCHANGED <<query, ui, ghost>>

\* Mutant: an evaluation fetches the policies again.
InvalidatesList(c) ==
    IF c.op \in {"changeRole", "removeMember", "inviteMember"} THEN <<"org-members", c.arg.org>>
    ELSE List(ghost.view)

Invalidates(c) ==
    CASE c.op \in {"changeRole", "removeMember", "inviteMember"} -> <<"org-members", c.arg.org>>
      [] c.op = "evaluate" -> <<"compliance-results", c.arg>>
      [] OTHER -> List(ghost.view)

\* What is not on the screen becomes stale; but the fetch of it that is under
\* way goes on, and its answer counts as fresh.
Stale(k) ==
    IF query[k].state = "idle" THEN [query EXCEPT ![k].state = "stale"] ELSE query

\* A success closes the dialog, whatever it has been opened for since.
AfterSuccess(op) ==
    CASE op = "create" -> [ui EXCEPT !.dialog = IF @ = "create" THEN "none" ELSE @, !.form = "", !.rules = <<>>]
      [] op = "resetPassword" ->
            [ui EXCEPT !.dialog = IF @ \in Accounts THEN "none" ELSE @, !.password = FALSE]
      [] op = "deleteOrg" -> [ui EXCEPT !.dialog = IF @ \in Orgs THEN "none" ELSE @]
      [] OTHER -> ui

\* (history) The two ways a query keeps what is out of date: an answer on its
\* way to a closed panel, and a change of one's own membership, after which
\* the list of organizations is not fetched.
Excuse(c, k) ==
    \/ k \notin Observed /\ query[k].state \in {"asked", "answered"}
    \/ c.op \in {"changeRole", "removeMember"} /\ c.arg.id = Me

OnSuccess(i) ==
    /\ calls[i].state = "handled"
    /\ calls' = Over(i)
    /\ LET k == Invalidates(calls[i])
       IN /\ query' = IF k \in Observed THEN Invalidated(query, {k}) ELSE Stale(k)
          /\ ghost' = [ghost EXCEPT !.excused = @ \/ Excuse(calls[i], k)]
    /\ ui' = AfterSuccess(calls[i].op)
    /\ UNCHANGED server

\* A press that is refused or lost: no value of its item is expected any more.
FailCall(i) ==
    /\ i \in Open /\ (calls[i].state = "sent" \/ ~ghost.lost)
    /\ calls' = Over(i)
    /\ ghost' = [ghost EXCEPT !.lost = @ \/ calls[i].state = "handled",
                              !.mixed = @ \/ calls[i].op \in {"updateUser", "changeRole"}]
    /\ UNCHANGED <<server, query, ui>>

\* The members of an organization one is not a member of are a 404.
ServeCall(k) ==
    /\ k[1] = "org-members" => server.member[k[2]][Me] # "none"
    /\ Serve(k, View(server, k))

ServeMissing(k) ==
    /\ k[1] = "org-members" /\ server.member[k[2]][Me] = "none" /\ query[k].state = "asked"
    /\ query' = [query EXCEPT ![k].state = "stale"]
    /\ UNCHANGED <<server, ui, calls, ghost>>

Deliver(k) ==
    /\ query[k].state = "answered"
    /\ query' = Arrived(k)
    /\ UNCHANGED <<server, ui, calls, ghost>>

Next ==
    \/ OpenCreate \/ Cancel \/ create
    \/ \E name \in Accounts \cup Orgs \cup Policies : TypeForm(name)
    \/ \E u \in Accounts :
        \/ updateUser(u, "admin") \/ updateUser(u, "active") \/ deleteUser(u) \/ OpenPassword(u)
        \/ \E o \in Orgs : changeRole(o, u) \/ removeMember(o, u) \/ inviteMember(o, u)
    \/ TypePassword \/ resetPassword
    \/ \E o \in Orgs : ConfirmDelete(o)
    \/ deleteOrg \/ TypeRule \/ addRule
    \/ \E n \in 1 .. MaxRules : removeRule(n)
    \/ \E p \in Policies : deletePolicy(p) \/ evaluate(p)
    \/ \E i \in DOMAIN calls : HandleCall(i) \/ OnSuccess(i) \/ FailCall(i)
    \/ \E k \in Panels(ghost.view) : Expand(k)
    \/ \E k \in Observed : Refetch(k)
    \/ \E k \in DOMAIN query : ServeCall(k) \/ ServeMissing(k) \/ Deliver(k)

Spec == Init /\ [][Next]_vars

-----------------------------------------------------------------------------

\* Once nothing is under way, every list and every open panel shows what the
\* server holds, in whatever order panels were opened and closed and requests
\* made; the two exceptions are those of Excuse.
Settled ==
    Quiet /\ ~ghost.lost /\ ~ghost.excused =>
        \A k \in Observed : query[k].data = View(server, k)

\* Presses are not serialised: requests of two presses may be handled in either
\* order.  Still the last press of a switch decides its value: presses that are
\* under way together ask for the same, as each sends the opposite of the list.
LastPressWins ==
    Quiet /\ ~ghost.mixed =>
        \A p \in ghost.last :
            IF ghost.view = "users" THEN server.user[p[1][1]][p[1][2]] = p[2]
            ELSE server.member[p[1][1]][p[1][2]] = p[2]

\* A password is set for the account whose dialog it was typed in, though the
\* dialogs share the input's state and any reset that succeeds clears it.
PasswordForItsAccount ==
    \A i \in OpenOf("resetPassword") : calls[i].arg.id = calls[i].arg.typedFor
=============================================================================
