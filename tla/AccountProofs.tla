--------------------------- MODULE AccountProofs ---------------------------
(***************************************************************************)
(* UserAdmin and Organizations, for any users, organizations, requests and *)
(* operations.                                                             *)
(***************************************************************************)
EXTENDS Naturals, FiniteSets, TLAPS

CONSTANTS
    Admin,              \* UserAdmin
    Members, NoOrg,     \* Organizations
    Requests            \* of both

-----------------------------------------------------------------------------
(***************************************************************************)
(* UserAdmin.  With any number of requests, the write of one that is       *)
(* checked leaves alone what its body does.  With one request at a time    *)
(* and no sign-in through LDAP, the acting user stays an active            *)
(* administrator up to the commit; so does the commit leave one, the       *)
(* acting user or, when they change themselves, who they still are.        *)
(***************************************************************************)

VARIABLES user, userReq
userVars == <<user, userReq>>

Accounts(Names, Reqs, Environment) == INSTANCE UserAdmin WITH
    Users <- Names, Requests <- Reqs, req <- userReq

WritesGiven(q) ==
    q.at = "checked" => /\ q.body.role = "keep" => q.write.role = "keep"
                        /\ q.body.active = "keep" => q.write.active = "keep"

AccountInv(U, Reqs, E) ==
    /\ Accounts(U, Reqs, E)!TypeOK
    /\ \A r \in Reqs : WritesGiven(userReq[r])

\* Whom the commit of request q leaves an active administrator.
Leaves(q, u) == u = q.target => q.write.role # "viewer" /\ q.write.active # "no"

ActsOnOthers(q) == q.target = q.by => q.body.role # "viewer" /\ q.body.active # "no"

SoleInv(U, Q, E) ==
    /\ Accounts(U, {Q}, E)!SomeAdmin
    /\ \A u \in Accounts(U, {Q}, E)!ActiveAdmins : user[u].exists
    /\ userReq[Q].at \in {"authorized", "loaded"} =>
          /\ userReq[Q].by \in Accounts(U, {Q}, E)!ActiveAdmins
          /\ userReq[Q].op = "delete" => userReq[Q].body = Accounts(U, {Q}, E)!DeleteBody
    /\ userReq[Q].at \in {"loaded", "checked"} => user[userReq[Q].target].exists
    /\ userReq[Q].at = "loaded" => ActsOnOthers(userReq[Q])
    /\ userReq[Q].at = "checked" =>
          \E u \in Accounts(U, {Q}, E)!ActiveAdmins : Leaves(userReq[Q], u)

\* The sets of the requests at each of their steps.
Authorized(U) == [at : {"authorized"}, by : U, target : U, op : {"update", "delete"},
                  body : [role : {"admin", "viewer", "keep"}, active : {"yes", "no", "keep"}]]
LoadedReqs(U) == [at : {"loaded"}, by : U, target : U, op : {"update", "delete"},
                  body : [role : {"admin", "viewer", "keep"}, active : {"yes", "no", "keep"}],
                  seen : [exists : BOOLEAN, role : {"admin", "viewer"}, active : {"yes", "no"}]]
CheckedReqs(U) == [at : {"checked"}, target : U,
                   body : [role : {"admin", "viewer", "keep"}, active : {"yes", "no", "keep"}],
                   write : [role : {"admin", "viewer", "keep"}, active : {"yes", "no", "keep"}],
                   locks : BOOLEAN]

UserRows(U) == [U -> [exists : BOOLEAN, role : {"admin", "viewer"}, active : {"yes", "no"}]]
UserReqs(U, Reqs) == [Reqs -> {[at |-> "idle"]} \cup Authorized(U) \cup LoadedReqs(U) \cup CheckedReqs(U)]

\* A commit writes the fields a request has dirtied, of one user.
FieldWrites == [role : {"admin", "viewer", "keep"}, active : {"yes", "no", "keep"}]

Written(target, w) ==
    user' = [user EXCEPT ![target].role = IF w.role = "keep" THEN @ ELSE w.role,
                         ![target].active = IF w.active = "keep" THEN @ ELSE w.active]

\* It leaves the other fields and the other users alone.
LEMMA WrittenRow ==
    ASSUME NEW U, user \in UserRows(U), NEW target \in U, NEW w \in FieldWrites, Written(target, w)
    PROVE  /\ user' \in UserRows(U)
           /\ w.role = "keep" => user'[target].role = user[target].role
           /\ w.active = "keep" => user'[target].active = user[target].active
           /\ \A v \in U : user'[v].exists = user[v].exists /\ (v # target => user'[v] = user[v])
<1>1. w.role \in {"admin", "viewer", "keep"} /\ w.active \in {"yes", "no", "keep"}
    BY Zenon DEF FieldWrites
<1>2. user' \in UserRows(U)
  <2> DEFINE Row == [exists : BOOLEAN, role : {"admin", "viewer"}, active : {"yes", "no"}]
             old == user[target]
             r == IF w.role = "keep" THEN old.role ELSE w.role
             a == IF w.active = "keep" THEN old.active ELSE w.active
  <2>1. user' = [v \in U |-> user'[v]]
    BY Zenon DEF UserRows, Written
  <2>2. old \in Row /\ \A v \in U : v # target => user'[v] \in Row
    BY Zenon DEF UserRows, Written
  <2>3. user'[target] = [[old EXCEPT !.role = r] EXCEPT !.active = a]
    BY <2>2, Zenon DEF UserRows, Written
  <2>4. r \in {"admin", "viewer"} /\ a \in {"yes", "no"}
    BY <1>1, <2>2, Zenon
  <2>5. user'[target] \in Row
    BY <2>2, <2>3, <2>4, Zenon
  <2> QED
    BY <2>1, <2>2, <2>5, Zenon DEF UserRows
<1>3. /\ w.role = "keep" => user'[target].role = user[target].role
      /\ w.active = "keep" => user'[target].active = user[target].active
    BY <1>1, SMTT(30) DEF UserRows, Written
<1>4. \A v \in U : user'[v].exists = user[v].exists /\ (v # target => user'[v] = user[v])
    BY <1>1, SMTT(30) DEF UserRows, Written
<1> QED
    BY <1>2, <1>3, <1>4, Zenon

\* The types, with the sets of the requests told apart.
LEMMA AccountTypes ==
    ASSUME NEW U, NEW Reqs, NEW E
    PROVE  /\ Accounts(U, Reqs, E)!TypeOK <=> user \in UserRows(U) /\ userReq \in UserReqs(U, Reqs)
           /\ Accounts(U, Reqs, E)!TypeOK' <=> user' \in UserRows(U) /\ userReq' \in UserReqs(U, Reqs)
<1>1. {"admin", "viewer"} \cup {"keep"} = {"admin", "viewer", "keep"}
    BY Zenon
<1> USE DEF Accounts!TypeOK, Accounts!Row, Accounts!Roles, Accounts!Bodies, Accounts!Idle, Accounts!Ops,
            Authorized, LoadedReqs, CheckedReqs, UserRows, UserReqs
<1>2. Accounts(U, Reqs, E)!TypeOK <=> user \in UserRows(U) /\ userReq \in UserReqs(U, Reqs)
    BY Zenon, <1>1
<1>3. Accounts(U, Reqs, E)!TypeOK' <=> user' \in UserRows(U) /\ userReq' \in UserReqs(U, Reqs)
    BY Zenon, <1>1
<1> QED
    BY Zenon, <1>2, <1>3

\* What the flush writes of a body.
LEMMA DirtyWrites ==
    ASSUME NEW U, NEW Reqs, NEW E,
           NEW saw \in [exists : BOOLEAN, role : {"admin", "viewer"}, active : {"yes", "no"}],
           NEW body \in [role : {"admin", "viewer", "keep"}, active : {"yes", "no", "keep"}]
    PROVE  /\ Accounts(U, Reqs, E)!Dirty(saw, body) \in
                 [role : {"admin", "viewer", "keep"}, active : {"yes", "no", "keep"}]
           /\ Accounts(U, Reqs, E)!Dirty(saw, body).role \in {"keep", body.role}
           /\ Accounts(U, Reqs, E)!Dirty(saw, body).active \in {"keep", body.active}
    BY Zenon DEF Accounts!Dirty

\* A request that is checked may write what its body gives.
LEMMA AccountChecked ==
    ASSUME NEW U, NEW Reqs, NEW E, AccountInv(U, Reqs, E), NEW r \in Reqs, NEW target \in U,
           NEW body \in [role : {"admin", "viewer", "keep"}, active : {"yes", "no", "keep"}],
           NEW saw \in [exists : BOOLEAN, role : {"admin", "viewer"}, active : {"yes", "no"}],
           NEW locks \in BOOLEAN, Accounts(U, Reqs, E)!Checked(r, target, body, saw, locks), UNCHANGED user
    PROVE  /\ AccountInv(U, Reqs, E)'
           /\ userReq'[r] \in CheckedReqs(U) /\ userReq'[r].target = target
           /\ userReq'[r].write.role \in {"keep", body.role}
           /\ userReq'[r].write.active \in {"keep", body.active}
<1> DEFINE w == Accounts(U, Reqs, E)!Dirty(saw, body)
           new == [at |-> "checked", target |-> target, body |-> body, write |-> w, locks |-> locks]
<1>1. /\ w \in [role : {"admin", "viewer", "keep"}, active : {"yes", "no", "keep"}]
      /\ w.role \in {"keep", body.role} /\ w.active \in {"keep", body.active}
    BY Zenon, DirtyWrites
<1>2. new \in CheckedReqs(U)
    BY Zenon, <1>1 DEF CheckedReqs
<1>3. userReq' = [userReq EXCEPT ![r] = new]
    BY Zenon DEF Accounts!Checked
<1>4. Accounts(U, Reqs, E)!TypeOK'
    BY Zenon, <1>2, <1>3, AccountTypes DEF AccountInv, UserReqs
<1>5. \A q \in Reqs : userReq'[q] = IF q = r THEN new ELSE userReq[q]
    BY <1>3, AccountTypes DEF AccountInv, UserReqs
<1>6. WritesGiven(new)
    BY Zenon, <1>1 DEF WritesGiven
<1> QED
    BY <1>1, <1>2, <1>4, <1>5, <1>6 DEF AccountInv

LEMMA AccountInit ==
    ASSUME NEW U, NEW Reqs, NEW E, Accounts(U, Reqs, E)!Init
    PROVE  AccountInv(U, Reqs, E)
<1>1. user \in UserRows(U) /\ userReq \in UserReqs(U, Reqs)
    BY Zenon DEF Accounts!Init, Accounts!NoRow, Accounts!Idle, UserRows, UserReqs
<1>2. \A r \in Reqs : userReq[r].at = "idle"
    BY Zenon DEF Accounts!Init, Accounts!Idle
<1> QED
    BY Zenon, <1>1, <1>2, AccountTypes DEF AccountInv, WritesGiven

\* A request that ends, or moves on, without being checked.
LEMMA AccountMoves ==
    ASSUME NEW U, NEW Reqs, NEW E, AccountInv(U, Reqs, E), NEW r \in Reqs,
           NEW new \in {[at |-> "idle"]} \cup Authorized(U) \cup LoadedReqs(U),
           userReq' = [userReq EXCEPT ![r] = new], user' \in UserRows(U)
    PROVE  AccountInv(U, Reqs, E)'
<1>1. Accounts(U, Reqs, E)!TypeOK'
    BY Zenon, AccountTypes DEF AccountInv, UserReqs
<1>2. \A q \in Reqs : userReq'[q] = IF q = r THEN new ELSE userReq[q]
    BY Zenon, AccountTypes DEF AccountInv, UserReqs
<1>3. new.at # "checked"
    BY DEF Authorized, LoadedReqs
<1> QED
    BY <1>1, <1>2, <1>3 DEF AccountInv, WritesGiven

\* Every step keeps the invariant and writes only the fields that were given.
LEMMA AccountStep ==
    ASSUME NEW U, NEW Reqs, NEW E, AccountInv(U, Reqs, E),
           [Accounts(U, Reqs, E)!Next]_(Accounts(U, Reqs, E)!vars)
    PROVE  AccountInv(U, Reqs, E)' /\ Accounts(U, Reqs, E)!FieldsKept
<1> DEFINE Good == AccountInv(U, Reqs, E)' /\ Accounts(U, Reqs, E)!FieldsKept
<1>0. /\ user \in UserRows(U) /\ userReq \in UserReqs(U, Reqs)
      /\ Accounts(U, Reqs, E)!Idle = [at |-> "idle"]
    BY Zenon, AccountTypes DEF AccountInv, Accounts!Idle
<1>1. ASSUME NEW r \in Reqs, NEW by \in U, NEW target \in U, NEW op \in Accounts(U, Reqs, E)!Ops,
             NEW body \in Accounts(U, Reqs, E)!Bodies, Accounts(U, Reqs, E)!Authorize(r, by, target, op, body)
      PROVE  Good
  <2> DEFINE new == [at |-> "authorized", by |-> by, target |-> target, op |-> op, body |-> body]
  <2>1. new \in Authorized(U)
    BY Zenon DEF Authorized, Accounts!Ops, Accounts!Bodies, Accounts!Roles
  <2>2. userReq' = [userReq EXCEPT ![r] = new] /\ user' = user
    BY Zenon, <1>1 DEF Accounts!Authorize
  <2>3. AccountInv(U, Reqs, E)'
    BY <1>0, <2>1, <2>2, AccountMoves, Zenon
  <2> QED
    BY Zenon, <1>0, <2>2, <2>3 DEF Accounts!FieldsKept, UserReqs
<1>2. ASSUME NEW r \in Reqs, Accounts(U, Reqs, E)!Load(r) PROVE Good
  <2> DEFINE q == userReq[r]
             new == [at |-> "loaded", by |-> q.by, target |-> q.target, op |-> q.op, body |-> q.body,
                     seen |-> user[q.target]]
  <2>1. q \in Authorized(U)
    BY SMTT(30), <1>0, <1>2 DEF Accounts!Load, UserReqs, LoadedReqs, CheckedReqs
  <2>2. new \in LoadedReqs(U)
    BY Zenon, <1>0, <2>1 DEF Authorized, LoadedReqs, UserRows
  <2>3. /\ user' = user
        /\ userReq' = [userReq EXCEPT ![r] = [at |-> "idle"]] \/ userReq' = [userReq EXCEPT ![r] = new]
    BY Zenon, <1>0, <1>2 DEF Accounts!Load, Accounts!Refuse
  <2>4. AccountInv(U, Reqs, E)'
    BY Zenon, <1>0, <2>2, <2>3, AccountMoves
  <2> QED
    BY Zenon, <1>0, <2>3, <2>4 DEF Accounts!FieldsKept, UserReqs
<1>3. ASSUME NEW r \in Reqs, Accounts(U, Reqs, E)!update_user(r) \/ Accounts(U, Reqs, E)!delete_user(r) PROVE Good
  <2> DEFINE q == userReq[r]
  <2>0. q.at = "loaded"
    BY <1>3, Zenon DEF Accounts!update_user, Accounts!delete_user
  <2>1. q \in LoadedReqs(U)
    BY <1>0, <2>0 DEF UserReqs, Authorized, CheckedReqs
  <2>2. /\ user' = user
        /\ \/ userReq' = [userReq EXCEPT ![r] = [at |-> "idle"]]
           \/ \E locks \in BOOLEAN : Accounts(U, Reqs, E)!Checked(r, q.target, q.body, q.seen, locks)
           \/ Accounts(U, Reqs, E)!Checked(r, q.target, Accounts(U, Reqs, E)!DeleteBody, q.seen, FALSE)
    BY <1>0, <1>3, Zenon DEF Accounts!update_user, Accounts!delete_user, Accounts!Refuse
  <2>3. q.target \in U /\ q.body \in [role : {"admin", "viewer", "keep"}, active : {"yes", "no", "keep"}]
        /\ q.seen \in [exists : BOOLEAN, role : {"admin", "viewer"}, active : {"yes", "no"}]
    BY Zenon, <2>1 DEF LoadedReqs
  <2>4. Accounts(U, Reqs, E)!DeleteBody \in [role : {"admin", "viewer", "keep"}, active : {"yes", "no", "keep"}]
    BY Zenon DEF Accounts!DeleteBody
  <2>5. AccountInv(U, Reqs, E)'
    <3>1. CASE userReq' = [userReq EXCEPT ![r] = [at |-> "idle"]]
      BY <1>0, <2>2, <3>1, AccountMoves, Zenon
    <3>2. ASSUME NEW locks \in BOOLEAN, Accounts(U, Reqs, E)!Checked(r, q.target, q.body, q.seen, locks)
          PROVE  AccountInv(U, Reqs, E)'
      BY <2>2, <2>3, <3>2, AccountChecked
    <3>3. CASE Accounts(U, Reqs, E)!Checked(r, q.target, Accounts(U, Reqs, E)!DeleteBody, q.seen, FALSE)
      BY <2>2, <2>3, <2>4, <3>3, AccountChecked, Zenon
    <3> QED
      BY <2>2, <3>1, <3>2, <3>3, Zenon
  <2> QED
    BY Zenon, <1>0, <2>2, <2>5 DEF Accounts!FieldsKept
<1>4. ASSUME NEW r \in Reqs, Accounts(U, Reqs, E)!Commit(r) PROVE Good
  <2> DEFINE q == userReq[r]
  <2>1. q \in CheckedReqs(U) /\ q.at = "checked"
    BY <1>0, <1>4 DEF Accounts!Commit, UserReqs, Authorized, LoadedReqs
  <2>2. q.target \in U /\ q.write \in FieldWrites
    BY Zenon, <2>1 DEF CheckedReqs, FieldWrites
  <2>3. /\ Written(q.target, q.write)
        /\ userReq' = [userReq EXCEPT ![r] = [at |-> "idle"]]
    BY Zenon, <1>0, <1>4 DEF Accounts!Commit, Written
  <2>4. user' \in UserRows(U)
    BY <1>0, <2>2, <2>3, WrittenRow, Zenon
  <2>5. AccountInv(U, Reqs, E)'
    BY <2>3, <2>4, AccountMoves, Zenon
  <2>6. /\ q.write.role = "keep" => user'[q.target].role = user[q.target].role
        /\ q.write.active = "keep" => user'[q.target].active = user[q.target].active
    BY <1>0, <2>2, <2>3, WrittenRow, SMTT(30)
  <2>7. \A p \in Reqs : userReq[p].at = "checked" /\ userReq'[p] = [at |-> "idle"] => p = r
    BY SMTT(30), <1>0, <2>3 DEF UserReqs
  <2> QED
    BY Zenon, <1>0, <2>1, <2>5, <2>6, <2>7 DEF Accounts!FieldsKept, AccountInv, WritesGiven
<1>5. ASSUME NEW u \in U, NEW role \in Accounts(U, Reqs, E)!Roles, Accounts(U, Reqs, E)!create_user(u, role) PROVE Good
  <2>1. user' \in UserRows(U) /\ userReq' = userReq
    BY Zenon, <1>0, <1>5 DEF Accounts!create_user, Accounts!Roles, UserRows
  <2>2. AccountInv(U, Reqs, E)'
    BY Zenon, <1>0, <2>1, AccountTypes DEF AccountInv
  <2> QED
    BY <1>0, <2>1, <2>2 DEF Accounts!FieldsKept
<1>6. ASSUME NEW r \in Reqs, NEW u \in U, NEW role \in Accounts(U, Reqs, E)!Roles,
             Accounts(U, Reqs, E)!authenticate_ldap(r, u, role)
      PROVE  Good
  <2>1. CASE user[u].exists
    <3>1. [role |-> role, active |-> "yes"] \in [role : {"admin", "viewer", "keep"}, active : {"yes", "no", "keep"}]
      BY Zenon DEF Accounts!Roles
    <3>2. AccountInv(U, Reqs, E)' /\ user' = user
      BY <1>0, <1>6, <2>1, <3>1, AccountChecked, Zenon DEF Accounts!authenticate_ldap, UserRows
    <3> QED
      BY Zenon, <1>0, <3>2 DEF Accounts!FieldsKept
  <2>2. CASE ~user[u].exists
    <3>0. user' = [user EXCEPT ![u] = [exists |-> TRUE, role |-> role, active |-> "yes"]] /\ userReq' = userReq
      BY <1>6, <2>2, Zenon DEF Accounts!authenticate_ldap
    <3>1. user' \in UserRows(U) /\ userReq' = userReq
      BY Zenon, <1>0, <3>0 DEF Accounts!Roles, UserRows
    <3>2. AccountInv(U, Reqs, E)'
      BY Zenon, <1>0, <3>1, AccountTypes DEF AccountInv
    <3> QED
      BY <1>0, <3>1, <3>2 DEF Accounts!FieldsKept
  <2> QED
    BY Zenon, <2>1, <2>2
<1>7. CASE UNCHANGED Accounts(U, Reqs, E)!vars
  <2>1. user' = user /\ userReq' = userReq
    BY Zenon, <1>7 DEF Accounts!vars
  <2>2. AccountInv(U, Reqs, E)'
    BY Zenon, <1>0, <2>1, AccountTypes DEF AccountInv
  <2> QED
    BY Zenon, <1>0, <2>1, <2>2 DEF Accounts!FieldsKept
<1> QED
    BY Zenon, <1>1, <1>2, <1>3, <1>4, <1>5, <1>6, <1>7 DEF Accounts!Next

\* For any users and requests at the same time, an update writes only the fields
\* it was given.
THEOREM FieldsKeptCorrect ==
    ASSUME NEW CONSTANT U, NEW CONSTANT Reqs, NEW CONSTANT E
    PROVE  Accounts(U, Reqs, E)!Spec => [][Accounts(U, Reqs, E)!FieldsKept]_(Accounts(U, Reqs, E)!vars)
<1>1. Accounts(U, Reqs, E)!Init => AccountInv(U, Reqs, E)
    BY Zenon, AccountInit
<1>2. AccountInv(U, Reqs, E) /\ [Accounts(U, Reqs, E)!Next]_(Accounts(U, Reqs, E)!vars)
         => AccountInv(U, Reqs, E)' /\ [Accounts(U, Reqs, E)!FieldsKept]_(Accounts(U, Reqs, E)!vars)
    BY Zenon, AccountStep
<1> QED
    BY <1>1, <1>2, PTL DEF Accounts!Spec

\* At first there is the administrator that main creates.
LEMMA SoleInit ==
    ASSUME NEW U, NEW Q, NEW E, Admin \in U, Accounts(U, {Q}, E)!Init
    PROVE  SoleInv(U, Q, E)
<1>1. Admin \in Accounts(U, {Q}, E)!ActiveAdmins
    BY Zenon DEF Accounts!Init, Accounts!ActiveAdmins
<1>2. \A u \in Accounts(U, {Q}, E)!ActiveAdmins : user[u].exists
    BY Zenon DEF Accounts!Init, Accounts!ActiveAdmins, Accounts!NoRow
<1>3. userReq[Q].at = "idle"
    BY Zenon DEF Accounts!Init, Accounts!Idle
<1> QED
    BY Zenon, <1>1, <1>2, <1>3 DEF SoleInv, Accounts!SomeAdmin

\* Every step of the only request leaves an active administrator.
LEMMA SoleStep ==
    ASSUME NEW U, NEW Q, NEW E, "ldap" \notin E, AccountInv(U, {Q}, E), SoleInv(U, Q, E),
           [Accounts(U, {Q}, E)!Next]_(Accounts(U, {Q}, E)!vars)
    PROVE  SoleInv(U, Q, E)'
<1> DEFINE q == userReq[Q]
           Admins == Accounts(U, {Q}, E)!ActiveAdmins
<1>0. /\ user \in UserRows(U) /\ userReq \in UserReqs(U, {Q})
      /\ Accounts(U, {Q}, E)!Idle = [at |-> "idle"]
    BY Zenon, AccountTypes DEF AccountInv, Accounts!Idle
<1>a. UNCHANGED user => Admins' = Admins
    BY Zenon DEF Accounts!ActiveAdmins
<1>b. ASSUME UNCHANGED user, userReq'[Q].at = "idle" PROVE SoleInv(U, Q, E)'
    BY Zenon, <1>a, <1>b DEF SoleInv, Accounts!SomeAdmin
<1>c. ASSUME NEW r \in {Q}, Accounts(U, {Q}, E)!Refuse(r) PROVE userReq'[Q].at = "idle"
    BY <1>0, <1>c DEF Accounts!Refuse, UserReqs
<1>1. ASSUME NEW r \in {Q}, NEW by \in U, NEW target \in U, NEW op \in Accounts(U, {Q}, E)!Ops,
             NEW body \in Accounts(U, {Q}, E)!Bodies, Accounts(U, {Q}, E)!Authorize(r, by, target, op, body)
      PROVE  SoleInv(U, Q, E)'
  <2>1. userReq'[Q] = [at |-> "authorized", by |-> by, target |-> target, op |-> op, body |-> body]
    BY Zenon, <1>0, <1>1 DEF Accounts!Authorize, UserReqs
  <2>2. /\ UNCHANGED user /\ by \in Admins
        /\ op = "delete" => body = Accounts(U, {Q}, E)!DeleteBody
    BY Zenon, <1>1 DEF Accounts!Authorize
  <2>3. /\ userReq'[Q].at = "authorized" /\ userReq'[Q].by = by /\ userReq'[Q].op = op
        /\ userReq'[Q].body = body
    BY <2>1
  <2> QED
    BY <1>a, <2>2, <2>3, Zenon DEF SoleInv, Accounts!SomeAdmin
<1>2. ASSUME NEW r \in {Q}, Accounts(U, {Q}, E)!Load(r) PROVE SoleInv(U, Q, E)'
  <2>1. UNCHANGED user /\ q.at = "authorized"
    BY Zenon, <1>2 DEF Accounts!Load
  <2>2. CASE Accounts(U, {Q}, E)!Refuse(r)
    BY Zenon, <1>b, <1>c, <2>1, <2>2
  <2>3. CASE ~Accounts(U, {Q}, E)!Refuse(r)
    <3>1. /\ ActsOnOthers(q) /\ user[q.target].exists
          /\ userReq'[Q] = [at |-> "loaded", by |-> q.by, target |-> q.target, op |-> q.op,
                            body |-> q.body, seen |-> user[q.target]]
      BY Zenon, <1>0, <1>2, <2>3 DEF Accounts!Load, ActsOnOthers, UserReqs
    <3> QED
      BY SMTT(30), <1>a, <2>1, <3>1 DEF SoleInv, Accounts!SomeAdmin, ActsOnOthers
  <2> QED
    BY Zenon, <2>2, <2>3
<1>3. ASSUME NEW r \in {Q}, Accounts(U, {Q}, E)!update_user(r) \/ Accounts(U, {Q}, E)!delete_user(r)
      PROVE  SoleInv(U, Q, E)'
  <2>1. UNCHANGED user /\ q.at = "loaded"
    BY <1>3, Zenon DEF Accounts!update_user, Accounts!delete_user
  <2>2. q \in LoadedReqs(U)
    BY <1>0, <2>1 DEF UserReqs, Authorized, CheckedReqs
  <2>3. /\ q.target \in U /\ q.body \in [role : {"admin", "viewer", "keep"}, active : {"yes", "no", "keep"}]
        /\ q.seen \in [exists : BOOLEAN, role : {"admin", "viewer"}, active : {"yes", "no"}]
        /\ q.op \in {"update", "delete"}
    BY Zenon, <2>2 DEF LoadedReqs
  <2>4. /\ q.by \in Admins /\ ActsOnOthers(q)
        /\ q.op = "delete" => q.body = Accounts(U, {Q}, E)!DeleteBody
    BY Zenon, <2>1 DEF SoleInv
  <2>5. \/ Accounts(U, {Q}, E)!Refuse(r)
        \/ \E locks \in BOOLEAN : Accounts(U, {Q}, E)!Checked(Q, q.target, q.body, q.seen, locks)
    BY <1>3, <2>4, Zenon DEF Accounts!update_user, Accounts!delete_user
  <2>6. CASE Accounts(U, {Q}, E)!Refuse(r)
    BY Zenon, <1>b, <1>c, <2>1, <2>6
  <2>7. ASSUME NEW locks \in BOOLEAN, Accounts(U, {Q}, E)!Checked(Q, q.target, q.body, q.seen, locks)
        PROVE  SoleInv(U, Q, E)'
    <3>1. /\ userReq'[Q] \in CheckedReqs(U) /\ userReq'[Q].target = q.target
          /\ userReq'[Q].write.role \in {"keep", q.body.role}
          /\ userReq'[Q].write.active \in {"keep", q.body.active}
      BY SMTT(30), <2>1, <2>3, <2>7, AccountChecked
    <3>2. Leaves(userReq'[Q], q.by)
      BY Zenon, <2>4, <3>1 DEF Leaves, ActsOnOthers
    <3>3. userReq'[Q].at = "checked"
      BY Zenon, <3>1 DEF CheckedReqs
    <3> QED
      BY <1>a, <2>1, <2>4, <3>1, <3>2, <3>3, Zenon DEF SoleInv, Accounts!SomeAdmin
  <2> QED
    BY Zenon, <2>5, <2>6, <2>7
<1>4. ASSUME NEW r \in {Q}, Accounts(U, {Q}, E)!Commit(r) PROVE SoleInv(U, Q, E)'
  <2>1. q \in CheckedReqs(U) /\ q.at = "checked"
    BY <1>0, <1>4 DEF Accounts!Commit, UserReqs, Authorized, LoadedReqs
  <2>2. q.target \in U /\ q.write \in FieldWrites
    BY Zenon, <2>1 DEF CheckedReqs, FieldWrites
  <2>3. /\ Written(q.target, q.write)
        /\ userReq'[Q].at = "idle"
    BY <1>0, <1>4 DEF Accounts!Commit, UserReqs, Written
  <2>4. PICK u \in Admins : Leaves(q, u)
    BY Zenon, <2>1 DEF SoleInv
  <2>5. u \in U /\ user[u].role = "admin" /\ user[u].active = "yes"
    BY Zenon, <2>4 DEF Accounts!ActiveAdmins
  <2>6. user'[u].role = "admin" /\ user'[u].active = "yes"
    BY ZenonT(30), <1>0, <2>2, <2>3, <2>4, <2>5 DEF Leaves, UserRows, Written, FieldWrites
  <2>7. \A v \in U : user'[v].exists = user[v].exists /\ (v # q.target => user'[v] = user[v])
    BY <1>0, <2>2, <2>3, WrittenRow, SMTT(30)
  <2>8. \A v \in Admins' : user'[v].exists
    BY <2>1, <2>7 DEF SoleInv, Accounts!ActiveAdmins
  <2>9. Admins' # {}
    BY Zenon, <2>5, <2>6 DEF Accounts!ActiveAdmins
  <2> QED
    BY <2>3, <2>8, <2>9, Zenon DEF SoleInv, Accounts!SomeAdmin
<1>5. ASSUME NEW u \in U, NEW role \in Accounts(U, {Q}, E)!Roles, Accounts(U, {Q}, E)!create_user(u, role)
      PROVE  SoleInv(U, Q, E)'
  <2>1. /\ userReq' = userReq /\ ~user[u].exists
        /\ user' = [user EXCEPT ![u] = [exists |-> TRUE, role |-> role, active |-> "yes"]]
    BY Zenon, <1>5 DEF Accounts!create_user
  <2>2. Admins \subseteq Admins'
    BY Zenon, <1>0, <2>1 DEF SoleInv, Accounts!ActiveAdmins, UserRows
  <2>3. \A v \in Admins' : user'[v].exists
    BY Zenon, <1>0, <2>1 DEF SoleInv, Accounts!ActiveAdmins, UserRows
  <2>4. q.at \in {"loaded", "checked"} => q.target \in U
    BY SMTT(30), <1>0 DEF UserReqs, Authorized, LoadedReqs, CheckedReqs
  <2>5. \A v \in U : user[v].exists => user'[v].exists
    BY Zenon, <1>0, <2>1 DEF UserRows
  <2> QED
    BY <2>1, <2>2, <2>3, <2>4, <2>5, Zenon DEF SoleInv, Accounts!SomeAdmin
<1>6. CASE UNCHANGED Accounts(U, {Q}, E)!vars
    BY Zenon, <1>6, <1>a DEF SoleInv, Accounts!SomeAdmin, Accounts!vars
<1> QED
    BY <1>1, <1>2, <1>3, <1>4, <1>5, <1>6, Zenon DEF Accounts!Next, Accounts!authenticate_ldap

\* For any users, requests that come one at a time leave an active administrator.
THEOREM SomeAdminCorrect ==
    ASSUME NEW CONSTANT U, NEW CONSTANT Q, NEW CONSTANT E, Admin \in U, "ldap" \notin E
    PROVE  Accounts(U, {Q}, E)!Spec => []Accounts(U, {Q}, E)!SomeAdmin
<1>1. Accounts(U, {Q}, E)!Init => AccountInv(U, {Q}, E) /\ SoleInv(U, Q, E)
    BY Zenon, AccountInit, SoleInit
<1>2. AccountInv(U, {Q}, E) /\ SoleInv(U, Q, E) /\ [Accounts(U, {Q}, E)!Next]_(Accounts(U, {Q}, E)!vars)
         => AccountInv(U, {Q}, E)' /\ SoleInv(U, Q, E)'
    BY Zenon, AccountStep, SoleStep
<1>3. SoleInv(U, Q, E) => Accounts(U, {Q}, E)!SomeAdmin
    BY Zenon DEF SoleInv
<1> QED
    BY <1>1, <1>2, <1>3, PTL DEF Accounts!Spec

-----------------------------------------------------------------------------
(***************************************************************************)
(* Organizations.  Each organization has an owner that no request under    *)
(* way is going to remove or demote: a request that reads an owner is      *)
(* refused, and one that read the membership before it became the owner's  *)
(* leaves the owner who was there.  A request on an organization that is   *)
(* gone knows it, also when there is a new one of the same name.           *)
(***************************************************************************)

VARIABLES exists, member, active, devices, orgReq
orgVars == <<exists, member, active, devices, orgReq>>

Tenants(Slugs, Operations) == INSTANCE Organizations WITH
    Orgs <- Slugs, Users <- Members, req <- orgReq

OrgOperations == {"create", "delete", "switch", "invite", "remove", "update", "enroll"}

Spares(q, o, u) ==
    (q.at = "loaded" /\ q.org = o /\ q.target = u /\ q.row # "gone" /\ q.op # "invite")
       => q.op = "update" /\ q.role = "owner"

TenantReqs(O, Ops) ==
    [at : {"member", "loaded"}, op : Ops, by : Members, org : O, target : Members,
     role : Tenants(O, Ops)!Given, row : {"none", "seen", "gone"}, changes : BOOLEAN]

TenantInv(O, Ops) ==
    /\ Tenants(O, Ops)!TypeOK
    /\ Tenants(O, Ops)!NothingDangles
    /\ \A r \in Requests : orgReq[r].at = "loaded" =>
          /\ orgReq[r].op \in {"invite", "remove", "update"}
          /\ orgReq[r].op = "update" => orgReq[r].role \in Tenants(O, Ops)!Roles
    /\ \A r \in Requests : (orgReq[r] # Tenants(O, Ops)!Idle /\ orgReq[r].op # "create"
                               /\ orgReq[r].org \notin exists) => orgReq[r].row = "gone"
    /\ \A o \in exists : \E u \in Members :
          member[o][u] = "owner" /\ \A r \in Requests : Spares(orgReq[r], o, u)

\* There are no organizations at first.
LEMMA TenantInit ==
    ASSUME NEW O, NEW Ops, NoOrg \notin O, Tenants(O, Ops)!Init
    PROVE  TenantInv(O, Ops)
<1>1. \A r \in Requests : orgReq[r] = Tenants(O, Ops)!Idle /\ orgReq[r].at = "idle"
    BY Zenon DEF Tenants!Init, Tenants!Idle
<1>2. exists = {} /\ devices = {}
    BY Zenon DEF Tenants!Init
<1>3. \A o \in O, u \in Members : member[o][u] = "none" /\ active[u] # o
    BY Zenon DEF Tenants!Init
<1>4. Tenants(O, Ops)!TypeOK
    BY Zenon DEF Tenants!Init, Tenants!TypeOK, Tenants!Roles
<1> QED
    BY Zenon, <1>1, <1>2, <1>3, <1>4 DEF TenantInv, Tenants!NothingDangles

\* A request that ends without a change disturbs nothing.
LEMMA TenantRefuse ==
    ASSUME NEW O, NEW Ops, TenantInv(O, Ops), NEW r \in Requests, Tenants(O, Ops)!Refuse(r)
    PROVE  TenantInv(O, Ops)'
<1> USE DEF Tenants!Refuse
<1>1. Tenants(O, Ops)!TypeOK'
    BY Zenon DEF TenantInv, Tenants!TypeOK
<1>2. Tenants(O, Ops)!NothingDangles'
    BY DEF TenantInv, Tenants!NothingDangles
<1>3. \A q \in Requests : orgReq'[q] = orgReq[q] \/ orgReq'[q] = Tenants(O, Ops)!Idle
    BY Zenon DEF TenantInv, Tenants!TypeOK
<1>4. Tenants(O, Ops)!Idle.at # "loaded"
    BY Zenon DEF Tenants!Idle
<1>5. \A o, u : Spares(Tenants(O, Ops)!Idle, o, u)
    BY Zenon, <1>4 DEF Spares
<1>6. \A o \in exists : \E u \in Members :
          member[o][u] = "owner" /\ \A q \in Requests : Spares(orgReq'[q], o, u)
    BY SMTT(30), <1>3, <1>5 DEF TenantInv
<1> QED
    BY <1>1, <1>2, <1>3, <1>4, <1>6 DEF TenantInv

\* A request that starts, or reads what it is about to change.
LEMMA TenantReads ==
    ASSUME NEW O, NEW Ops, TenantInv(O, Ops), NEW r \in Requests, NEW new \in TenantReqs(O, Ops),
           orgReq' = [orgReq EXCEPT ![r] = new],
           UNCHANGED <<exists, member, active, devices>>,
           new.op # "create" /\ new.org \notin exists => new.row = "gone",
           new.at = "loaded" =>
              /\ new.op \in {"invite", "remove", "update"}
              /\ new.op = "update" => new.role \in Tenants(O, Ops)!Roles
              /\ member[new.org][new.target] = "owner" => Spares(new, new.org, new.target)
    PROVE  TenantInv(O, Ops)'
<1>1. Tenants(O, Ops)!TypeOK'
    BY Zenon DEF TenantInv, Tenants!TypeOK, TenantReqs
<1>2. Tenants(O, Ops)!NothingDangles'
    BY SMTT(30) DEF TenantInv, Tenants!NothingDangles
<1>3. \A q \in Requests : orgReq'[q] = IF q = r THEN new ELSE orgReq[q]
    BY Zenon DEF TenantInv, Tenants!TypeOK
<1>4. \A o \in exists : \E u \in Members :
          member[o][u] = "owner" /\ \A q \in Requests : Spares(orgReq'[q], o, u)
    BY <1>3 DEF TenantInv, Spares
<1> QED
    BY <1>1, <1>2, <1>3, <1>4 DEF TenantInv

\* A request ends, or stays as it is but for its row, which goes with the
\* organization it belongs to.
EndsOrStays(O, Ops, q) ==
    \/ orgReq'[q] = Tenants(O, Ops)!Idle
    \/ /\ orgReq[q] # Tenants(O, Ops)!Idle
       /\ orgReq'[q].at = orgReq[q].at /\ orgReq'[q].op = orgReq[q].op
       /\ orgReq'[q].org = orgReq[q].org /\ orgReq'[q].target = orgReq[q].target
       /\ orgReq'[q].role = orgReq[q].role
       /\ orgReq'[q].row = orgReq[q].row \/ orgReq'[q].row = "gone"
       /\ orgReq[q].op # "create" /\ orgReq[q].org \in exists \ exists' => orgReq'[q].row = "gone"

\* What the invariant says of the requests alone still holds after the step, and
\* an owner the requests spared is spared.
RequestsHold(O, Ops) ==
    /\ \A q \in Requests : orgReq'[q].at = "loaded" =>
          /\ orgReq'[q].op \in {"invite", "remove", "update"}
          /\ orgReq'[q].op = "update" => orgReq'[q].role \in Tenants(O, Ops)!Roles
    /\ \A q \in Requests : (orgReq'[q] # Tenants(O, Ops)!Idle /\ orgReq'[q].op # "create"
                               /\ orgReq'[q].org \notin exists') => orgReq'[q].row = "gone"
    /\ \A q \in Requests : \A o, u : Spares(orgReq[q], o, u) => Spares(orgReq'[q], o, u)

\* A step in which every request ends or stays (delete_org, switch_org, and the
\* commits on a member) keeps what the invariant says of the requests.
LEMMA RequestsKept ==
    ASSUME NEW O, NEW Ops, TenantInv(O, Ops), \A q \in Requests : EndsOrStays(O, Ops, q)
    PROVE  RequestsHold(O, Ops)
<1> DEFINE Idle == Tenants(O, Ops)!Idle
<1>1. Idle.at = "idle"
    BY Zenon DEF Tenants!Idle
<1>2. \A q \in Requests : orgReq'[q].at = "loaded" =>
         /\ orgReq'[q].op \in {"invite", "remove", "update"}
         /\ orgReq'[q].op = "update" => orgReq'[q].role \in Tenants(O, Ops)!Roles
    BY <1>1, SMTT(60) DEF TenantInv, EndsOrStays
<1>3. \A q \in Requests : (orgReq'[q] # Idle /\ orgReq'[q].op # "create"
                             /\ orgReq'[q].org \notin exists') => orgReq'[q].row = "gone"
    BY <1>1, SMTT(60) DEF TenantInv, EndsOrStays
<1>4. \A q \in Requests : \A o, u : Spares(orgReq[q], o, u) => Spares(orgReq'[q], o, u)
    BY <1>1, SMTT(60) DEF Spares, EndsOrStays
<1> QED
    BY <1>2, <1>3, <1>4, Zenon DEF RequestsHold

\* Every step of the handlers keeps the invariant.
LEMMA TenantStep ==
    ASSUME NEW O, NEW Ops \in SUBSET OrgOperations, NoOrg \notin O, TenantInv(O, Ops),
           [Tenants(O, Ops)!Next]_(Tenants(O, Ops)!vars)
    PROVE  TenantInv(O, Ops)'
<1> DEFINE Idle == Tenants(O, Ops)!Idle
<1>0. /\ Tenants(O, Ops)!TypeOK /\ Tenants(O, Ops)!NothingDangles
      /\ \A q \in Requests : orgReq[q] = Idle \/ orgReq[q] \in TenantReqs(O, Ops)
      /\ Idle.at = "idle"
    BY Zenon DEF TenantInv, Tenants!TypeOK, TenantReqs, Tenants!Idle
<1>1. ASSUME NEW r \in Requests, NEW op \in Ops \ {"enroll"}, NEW by \in Members, NEW target \in Members,
             NEW o \in O, NEW role \in Tenants(O, Ops)!Given,
             Tenants(O, Ops)!Request(r, op, by, o, target, role)
      PROVE  TenantInv(O, Ops)'
  <2> DEFINE new == [at |-> "member", op |-> op, by |-> by, org |-> o, target |-> target,
                     role |-> role, row |-> "none",
                     changes |-> IF op = "create" THEN active[by] = NoOrg ELSE active[by] # o]
  <2>1. new \in TenantReqs(O, Ops)
    BY Zenon DEF TenantReqs
  <2>2. op # "create" => o \in exists
    BY <1>0, <1>1 DEF Tenants!Request, Tenants!Allowed, Tenants!NothingDangles, OrgOperations
  <2> QED
    BY <1>1, <2>1, <2>2, TenantReads, Zenon DEF Tenants!Request
<1>2. ASSUME NEW r \in Requests, Tenants(O, Ops)!LoadInvite(r) PROVE TenantInv(O, Ops)'
  <2> DEFINE new == [orgReq[r] EXCEPT !.at = "loaded", !.row = "none", !.changes = TRUE]
  <2>1. CASE Tenants(O, Ops)!Refuse(r)
    BY Zenon, <2>1, TenantRefuse
  <2>2. CASE ~Tenants(O, Ops)!Refuse(r)
    <3>1. orgReq[r] \in TenantReqs(O, Ops) /\ orgReq[r].op = "invite" /\ orgReq[r].row # "gone"
      BY <1>0, <1>2, <2>2, Zenon DEF Tenants!LoadInvite
    <3>2. new \in TenantReqs(O, Ops) /\ new.op = "invite" /\ new.org = orgReq[r].org
      BY <3>1, Zenon DEF TenantReqs
    <3>3. orgReq[r].org \in exists
      BY Zenon, <1>0, <1>2, <3>1 DEF TenantInv, Tenants!LoadInvite
    <3>4. orgReq' = [orgReq EXCEPT ![r] = new] /\ UNCHANGED <<exists, member, active, devices>>
      BY <1>0, <1>2, <2>2, <3>1, ZenonT(30)
        DEF Tenants!LoadInvite, Tenants!Loaded, Tenants!TypeOK, TenantReqs
    <3> QED
      BY <3>2, <3>3, <3>4, TenantReads, Zenon DEF Spares
  <2> QED
    BY Zenon, <2>1, <2>2
<1>3. ASSUME NEW r \in Requests, Tenants(O, Ops)!LoadRemove(r) PROVE TenantInv(O, Ops)'
  <2> DEFINE new == [orgReq[r] EXCEPT !.at = "loaded", !.row = "seen", !.changes = TRUE]
  <2>1. CASE Tenants(O, Ops)!Refuse(r)
    BY Zenon, <2>1, TenantRefuse
  <2>2. CASE ~Tenants(O, Ops)!Refuse(r)
    <3>1. /\ orgReq[r] \in TenantReqs(O, Ops) /\ orgReq[r].op = "remove" /\ orgReq[r].row # "gone"
          /\ member[orgReq[r].org][orgReq[r].target] # "owner"
      BY <1>0, <1>3, <2>2, Zenon DEF Tenants!LoadRemove
    <3>2. /\ new \in TenantReqs(O, Ops) /\ new.op = "remove" /\ new.org = orgReq[r].org
          /\ new.target = orgReq[r].target
      BY <3>1, Zenon DEF TenantReqs
    <3>3. orgReq[r].org \in exists
      BY Zenon, <1>0, <1>3, <3>1 DEF TenantInv, Tenants!LoadRemove
    <3>4. orgReq' = [orgReq EXCEPT ![r] = new] /\ UNCHANGED <<exists, member, active, devices>>
      BY <1>0, <1>3, <2>2, <3>1, ZenonT(30)
        DEF Tenants!LoadRemove, Tenants!Loaded, Tenants!TypeOK, TenantReqs
    <3> QED
      BY <3>1, <3>2, <3>3, <3>4, TenantReads, Zenon
  <2> QED
    BY Zenon, <2>1, <2>2
<1>4. ASSUME NEW r \in Requests, Tenants(O, Ops)!LoadUpdate(r) PROVE TenantInv(O, Ops)'
  <2> DEFINE old == member[orgReq[r].org][orgReq[r].target]
             new == [orgReq[r] EXCEPT !.at = "loaded", !.row = "seen", !.changes = (old # orgReq[r].role)]
  <2>1. CASE Tenants(O, Ops)!Refuse(r)
    BY Zenon, <2>1, TenantRefuse
  <2>2. CASE ~Tenants(O, Ops)!Refuse(r)
    <3>1. /\ orgReq[r] \in TenantReqs(O, Ops) /\ orgReq[r].op = "update" /\ orgReq[r].row # "gone"
          /\ orgReq[r].role \in Tenants(O, Ops)!Roles
          /\ old = "owner" => orgReq[r].role = "owner"
      BY Zenon, <1>0, <1>4, <2>2 DEF Tenants!LoadUpdate
    <3>2. /\ new \in TenantReqs(O, Ops) /\ new.op = "update" /\ new.org = orgReq[r].org
          /\ new.target = orgReq[r].target /\ new.role = orgReq[r].role
      BY <3>1, Zenon DEF TenantReqs
    <3>3. orgReq[r].org \in exists
      BY Zenon, <1>0, <1>4, <3>1 DEF TenantInv, Tenants!LoadUpdate
    <3>4. orgReq' = [orgReq EXCEPT ![r] = new] /\ UNCHANGED <<exists, member, active, devices>>
      BY <1>0, <1>4, <2>2, <3>1, ZenonT(30)
        DEF Tenants!LoadUpdate, Tenants!Loaded, Tenants!TypeOK, TenantReqs
    <3> QED
      BY <3>1, <3>2, <3>3, <3>4, TenantReads, ZenonT(30) DEF Spares
  <2> QED
    BY Zenon, <2>1, <2>2
<1>5. ASSUME NEW r \in Requests, Tenants(O, Ops)!CreateOrg(r) PROVE TenantInv(O, Ops)'
  <2>1. CASE Tenants(O, Ops)!Refuse(r)
    BY Zenon, <2>1, TenantRefuse
  <2>2. CASE ~Tenants(O, Ops)!Refuse(r)
    <3> DEFINE o == orgReq[r].org
               u == orgReq[r].by
    <3>1. /\ orgReq[r] \in TenantReqs(O, Ops) /\ o \in O /\ u \in Members /\ o \notin exists
          /\ exists' = exists \cup {o} /\ member' = [member EXCEPT ![o][u] = "owner"]
          /\ active' = [active EXCEPT ![u] = IF orgReq[r].changes THEN o ELSE @]
          /\ orgReq' = [orgReq EXCEPT ![r] = Idle] /\ devices' = devices
      BY Zenon, <1>0, <1>5, <2>2 DEF Tenants!CreateOrg, TenantReqs
    <3>2. \A q \in Requests : orgReq'[q] = IF q = r THEN Idle ELSE orgReq[q]
      BY Zenon, <1>0, <3>1 DEF Tenants!TypeOK
    <3>3. Tenants(O, Ops)!TypeOK'
      BY Zenon, <1>0, <3>1 DEF Tenants!TypeOK, Tenants!Roles
    <3>4. Tenants(O, Ops)!NothingDangles'
      BY SMTT(30), <1>0, <3>1 DEF Tenants!TypeOK, Tenants!NothingDangles
    <3>5. member'[o][u] = "owner" /\ \A q \in Requests : Spares(orgReq'[q], o, u)
      BY <1>0, <3>1, <3>2, SMTT(30) DEF TenantInv, Tenants!TypeOK, Spares
    <3>6. \A p \in exists : \E v \in Members :
             member'[p][v] = "owner" /\ \A q \in Requests : Spares(orgReq'[q], p, v)
      BY SMTT(30), <1>0, <3>1, <3>2 DEF TenantInv, Tenants!TypeOK, Spares
    <3>7. \A p \in exists' : \E v \in Members :
             member'[p][v] = "owner" /\ \A q \in Requests : Spares(orgReq'[q], p, v)
      BY <3>1, <3>5, <3>6, SMTT(30)
    <3> QED
      BY SMTT(30), <1>0, <3>1, <3>2, <3>3, <3>4, <3>7 DEF TenantInv
  <2> QED
    BY Zenon, <2>1, <2>2
<1>6. ASSUME NEW r \in Requests, Tenants(O, Ops)!DeleteOrg(r) PROVE TenantInv(O, Ops)'
  <2>1. CASE Tenants(O, Ops)!Refuse(r)
    BY Zenon, <2>1, TenantRefuse
  <2>2. CASE ~Tenants(O, Ops)!Refuse(r)
    <3> DEFINE o == orgReq[r].org
    <3>1. /\ orgReq[r] \in TenantReqs(O, Ops) /\ o \in O
          /\ o \notin devices /\ \A u \in Members : active[u] # o
          /\ exists' = exists \ {o} /\ member' = [member EXCEPT ![o] = [u \in Members |-> "none"]]
          /\ orgReq' = [Tenants(O, Ops)!OrgGone(o) EXCEPT ![r] = Idle]
          /\ UNCHANGED <<active, devices>>
      BY Zenon, <1>0, <1>6, <2>2 DEF Tenants!DeleteOrg, TenantReqs
    <3>2. orgReq' = [q \in Requests |->
             IF q = r THEN Idle
             ELSE IF orgReq[q] # Idle /\ orgReq[q].org = o /\ orgReq[q].op # "create"
             THEN [orgReq[q] EXCEPT !.row = "gone"] ELSE orgReq[q]]
      BY <3>1, Zenon DEF Tenants!OrgGone
    <3>3. orgReq' \in [Requests -> {Idle} \cup TenantReqs(O, Ops)]
      BY SMTT(30), <1>0, <3>2 DEF TenantReqs
    <3>4. Tenants(O, Ops)!TypeOK'
      BY ZenonT(30), <1>0, <3>1, <3>3 DEF Tenants!TypeOK, Tenants!Roles, TenantReqs
    <3>5. Tenants(O, Ops)!NothingDangles'
      BY <1>0, <3>1 DEF Tenants!TypeOK, Tenants!NothingDangles
    <3>6. \A q \in Requests : EndsOrStays(O, Ops, q)
      <4>1. exists \ exists' \subseteq {o}
        BY <3>1, Zenon
      <4> QED
        BY <1>0, <3>2, <4>1, SMTT(30) DEF TenantReqs, EndsOrStays
    <3>7. RequestsHold(O, Ops)
      BY <3>6, RequestsKept, Zenon
    <3>8. \A p \in exists' : \E v \in Members :
             member'[p][v] = "owner" /\ \A q \in Requests : Spares(orgReq'[q], p, v)
      <4> SUFFICES ASSUME NEW p \in exists'
                   PROVE  \E v \in Members :
                             member'[p][v] = "owner" /\ \A q \in Requests : Spares(orgReq'[q], p, v)
        BY Zenon
      <4>1. p \in exists /\ p # o
        BY <3>1, Zenon
      <4>2. PICK v \in Members : member[p][v] = "owner" /\ \A q \in Requests : Spares(orgReq[q], p, v)
        BY <4>1, Zenon DEF TenantInv
      <4>3. member'[p][v] = "owner"
        BY <1>0, <3>1, <4>1, <4>2, Zenon DEF Tenants!TypeOK
      <4> QED
        BY <3>7, <4>2, <4>3, Zenon DEF RequestsHold
    <3> QED
      BY <3>4, <3>5, <3>7, <3>8, Zenon DEF TenantInv, RequestsHold
  <2> QED
    BY Zenon, <2>1, <2>2
<1>7. ASSUME NEW r \in Requests, Tenants(O, Ops)!SwitchOrg(r) PROVE TenantInv(O, Ops)'
  <2>1. CASE Tenants(O, Ops)!Refuse(r)
    BY Zenon, <2>1, TenantRefuse
  <2>2. CASE ~Tenants(O, Ops)!Refuse(r)
    <3>1. /\ orgReq[r] \in TenantReqs(O, Ops) /\ orgReq[r].row # "gone" /\ orgReq[r].op = "switch"
          /\ active' = [active EXCEPT ![orgReq[r].by] = orgReq[r].org]
          /\ orgReq' = [orgReq EXCEPT ![r] = Idle]
          /\ UNCHANGED <<exists, member, devices>>
      BY <1>0, <1>7, <2>2, Zenon DEF Tenants!SwitchOrg
    <3>2. orgReq[r].org \in exists /\ orgReq[r].org \in O /\ orgReq[r].by \in Members
      BY Zenon, <1>0, <1>7, <3>1 DEF TenantInv, TenantReqs, Tenants!SwitchOrg
    <3>3. \A q \in Requests : orgReq'[q] = IF q = r THEN Idle ELSE orgReq[q]
      BY Zenon, <1>0, <3>1 DEF Tenants!TypeOK
    <3>4. Tenants(O, Ops)!TypeOK'
      BY Zenon, <1>0, <3>1, <3>2 DEF Tenants!TypeOK
    <3>5. Tenants(O, Ops)!NothingDangles'
      BY <1>0, <3>1, <3>2, SMTT(30) DEF Tenants!TypeOK, Tenants!NothingDangles
    <3>6. RequestsHold(O, Ops)
      <4>1. \A q \in Requests : EndsOrStays(O, Ops, q)
        BY <3>1, <3>3, Zenon DEF EndsOrStays
      <4> QED
        BY <4>1, RequestsKept, Zenon
    <3>7. \A p \in exists' : \E v \in Members :
             member'[p][v] = "owner" /\ \A q \in Requests : Spares(orgReq'[q], p, v)
      BY <3>1, <3>6, Zenon DEF TenantInv, RequestsHold
    <3> QED
      BY <3>4, <3>5, <3>6, <3>7, Zenon DEF TenantInv, RequestsHold
  <2> QED
    BY Zenon, <2>1, <2>2
<1>8. ASSUME NEW r \in Requests, Tenants(O, Ops)!CommitMember(r) PROVE TenantInv(O, Ops)'
  <2>1. CASE Tenants(O, Ops)!Refuse(r)
    BY Zenon, <2>1, TenantRefuse
  <2>2. CASE ~Tenants(O, Ops)!Refuse(r)
    <3> DEFINE o == orgReq[r].org
               u == orgReq[r].target
               op == orgReq[r].op
               new == CASE op = "remove" -> "none"
                        [] op = "invite" -> Tenants(O, Ops)!Invited(orgReq[r].role)
                        [] OTHER -> orgReq[r].role
    <3>1. /\ orgReq[r] \in TenantReqs(O, Ops) /\ orgReq[r].at = "loaded" /\ orgReq[r].row # "gone"
          /\ o \in O /\ u \in Members /\ op \in {"invite", "remove", "update"}
          /\ op = "invite" => member[o][u] = "none"
          /\ member' = [member EXCEPT ![o][u] = new]
          /\ orgReq' = [(IF op = "remove" THEN Tenants(O, Ops)!RowGone(o, u) ELSE orgReq) EXCEPT ![r] = Idle]
          /\ UNCHANGED <<exists, active, devices>>
      BY Zenon, <1>0, <1>8, <2>2 DEF TenantInv, Tenants!CommitMember, TenantReqs
    <3>2. o \in exists
      BY Zenon, <1>0, <3>1 DEF TenantInv
    <3>3. new \in Tenants(O, Ops)!Roles \cup {"none"}
      BY Zenon, <3>1 DEF TenantInv, Tenants!Invited, Tenants!Roles
    <3>4. orgReq' = [q \in Requests |->
             IF q = r THEN Idle
             ELSE IF op = "remove" /\ orgReq[q] # Idle /\ orgReq[q].org = o /\ orgReq[q].target = u
                     /\ orgReq[q].row = "seen"
             THEN [orgReq[q] EXCEPT !.row = "gone"] ELSE orgReq[q]]
      BY <1>0, <3>1, Zenon DEF Tenants!RowGone, Tenants!TypeOK
    <3>5. orgReq' \in [Requests -> {Idle} \cup TenantReqs(O, Ops)]
      BY SMTT(30), <1>0, <3>4 DEF TenantReqs
    <3>6. Tenants(O, Ops)!TypeOK'
      BY ZenonT(30), <1>0, <3>1, <3>3, <3>5 DEF Tenants!TypeOK, TenantReqs
    <3>7. Tenants(O, Ops)!NothingDangles'
      BY <1>0, <3>1, <3>2 DEF Tenants!TypeOK, Tenants!NothingDangles
    <3>8. \A q \in Requests : EndsOrStays(O, Ops, q)
      <4>1. exists' = exists
        BY <3>1, Zenon
      <4> QED
        BY <1>0, <3>4, <4>1, SMTT(30) DEF TenantReqs, EndsOrStays
    <3>9. \A p \in exists, v \in Members :
             (member[p][v] = "owner" /\ \A q \in Requests : Spares(orgReq[q], p, v))
                => member'[p][v] = "owner"
      <4> SUFFICES ASSUME NEW p \in exists, NEW v \in Members, member[p][v] = "owner",
                          \A q \in Requests : Spares(orgReq[q], p, v)
                   PROVE  member'[p][v] = "owner"
        BY Zenon
      <4>1. CASE p = o /\ v = u
        <5>1. op = "update" /\ orgReq[r].role = "owner"
          BY Zenon, <3>1, <4>1 DEF Spares
        <5> QED
          BY Zenon, <1>0, <3>1, <4>1, <5>1 DEF Tenants!TypeOK
      <4>2. CASE ~(p = o /\ v = u)
        BY Zenon, <1>0, <3>1, <4>2 DEF Tenants!TypeOK
      <4> QED
        BY Zenon, <4>1, <4>2
    <3>10. RequestsHold(O, Ops)
      BY <3>8, RequestsKept, Zenon
    <3>11. \A p \in exists' : \E v \in Members :
             member'[p][v] = "owner" /\ \A q \in Requests : Spares(orgReq'[q], p, v)
      <4> SUFFICES ASSUME NEW p \in exists
                   PROVE  \E v \in Members :
                             member'[p][v] = "owner" /\ \A q \in Requests : Spares(orgReq'[q], p, v)
        BY Zenon, <3>1
      <4>1. PICK v \in Members : member[p][v] = "owner" /\ \A q \in Requests : Spares(orgReq[q], p, v)
        BY Zenon DEF TenantInv
      <4>2. \A q \in Requests : Spares(orgReq'[q], p, v)
        BY <3>10, <4>1, Zenon DEF RequestsHold
      <4> QED
        BY Zenon, <3>9, <4>1, <4>2
    <3> QED
      BY Zenon, <3>6, <3>7, <3>10, <3>11 DEF TenantInv, RequestsHold
  <2> QED
    BY Zenon, <2>1, <2>2
<1>9. ASSUME NEW o \in O, Tenants(O, Ops)!Enroll(o) PROVE TenantInv(O, Ops)'
  <2>1. Tenants(O, Ops)!TypeOK' /\ Tenants(O, Ops)!NothingDangles'
    BY <1>0, <1>9, SMTT(30) DEF Tenants!TypeOK, Tenants!NothingDangles, Tenants!Enroll
  <2> QED
    BY SMTT(30), <1>9, <2>1 DEF TenantInv, Tenants!Enroll, Spares
<1>10. CASE UNCHANGED Tenants(O, Ops)!vars
  <2>1. Tenants(O, Ops)!TypeOK' /\ Tenants(O, Ops)!NothingDangles'
    BY Zenon, <1>0, <1>10 DEF Tenants!TypeOK, Tenants!NothingDangles, Tenants!vars
  <2> QED
    BY SMTT(30), <1>10, <2>1 DEF TenantInv, Tenants!vars, Spares
<1> QED
    BY Zenon, <1>1, <1>2, <1>3, <1>4, <1>5, <1>6, <1>7, <1>8, <1>9, <1>10 DEF Tenants!Next

\* For any organizations, users and requests at the same time: an organization
\* keeps an owner, and nothing refers to one that is deleted.
THEOREM TenantsCorrect ==
    ASSUME NEW CONSTANT O, NEW CONSTANT Ops \in SUBSET OrgOperations, NoOrg \notin O
    PROVE  Tenants(O, Ops)!Spec => [](Tenants(O, Ops)!SomeOwner /\ Tenants(O, Ops)!NothingDangles)
<1>1. Tenants(O, Ops)!Init => TenantInv(O, Ops)
    BY Zenon, TenantInit
<1>2. TenantInv(O, Ops) /\ [Tenants(O, Ops)!Next]_(Tenants(O, Ops)!vars) => TenantInv(O, Ops)'
    BY Zenon, TenantStep
<1>3. TenantInv(O, Ops) => Tenants(O, Ops)!SomeOwner /\ Tenants(O, Ops)!NothingDangles
    BY Zenon DEF TenantInv, Tenants!SomeOwner
<1> QED
    BY <1>1, <1>2, <1>3, PTL DEF Tenants!Spec
=============================================================================
