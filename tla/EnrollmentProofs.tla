-------------------------- MODULE EnrollmentProofs --------------------------
(***************************************************************************)
(* Proofs about Enrollment for any machines, tokens, requests and faults.  *)
(***************************************************************************)
EXTENDS Enrollment, TLAPS

\* The answer that carries credentials names a committed device of the machine
\* that asked; so does the request that has committed it and not yet answered.
AnswersOk(r) == req[r].st = "committed" \/ (req[r].st = "reply" /\ req[r].code = "ok")
AnswersReal ==
    \A r \in Requests : AnswersOk(r) => /\ req[r].row \in Rows /\ req[r].m \in Machines
                                      /\ dev[req[r].row] # "none"
                                      /\ owner[req[r].row] = req[r].m

\* Rows being inserted are new, and no two requests insert the same one.
InsertsApart ==
    \A r \in Requests : req[r].st = "insert" =>
        /\ req[r].row \in Rows /\ req[r].m \in Machines /\ dev[req[r].row] = "none"
        /\ \A q \in Requests : req[q].st = "insert" /\ req[q].row = req[r].row => q = r

\* A request in the hands of a handler belongs to a machine, and a machine only
\* awaits its own request.
RequestsOwned ==
    /\ \A r \in Requests : req[r].st # "idle" => req[r].m \in Machines
    /\ \A m \in Machines : /\ on[m] # None => req[on[m]].st # "idle" /\ req[on[m]].m = m
                           /\ pc[m] \in {"wait", "curl"} => on[m] # None

\* The inductive invariant.
IInv == TypeOK /\ AnswersReal /\ InsertsApart /\ RequestsOwned /\ CredentialsIssued

\* Requests stay requests, whatever a handler or a client does to them.
LEMMA RequestTypes ==
    ASSUME TypeOK, NEW r \in Requests
    PROVE  /\ Idle \in Request
           /\ \A m \in Machines, t \in Tokens \cup {None} :
                 [Idle EXCEPT !.st = "new", !.m = m, !.tok = t] \in Request
           /\ \A s \in Steps : [req[r] EXCEPT !.st = s] \in Request
           /\ \A s \in Steps, c \in Codes : [req[r] EXCEPT !.st = s, !.code = c] \in Request
           /\ \A s \in Steps, d \in Rows : [req[r] EXCEPT !.st = s, !.row = d] \in Request
           /\ [req[r] EXCEPT !.st = "reply", !.code = "lost", !.row = None] \in Request
<1>1. req[r] \in Request
    BY Zenon DEF TypeOK
<1>2. Idle \in Request
    BY Zenon DEF Idle, Request, Steps, Codes
<1>3. ASSUME NEW m \in Machines, NEW t \in Tokens \cup {None}
      PROVE  [Idle EXCEPT !.st = "new", !.m = m, !.tok = t] \in Request
    BY Zenon DEF Idle, Request, Steps, Codes
<1>4. \A s \in Steps : [req[r] EXCEPT !.st = s] \in Request
    BY Zenon, <1>1 DEF Request
<1>5. \A s \in Steps, c \in Codes : [req[r] EXCEPT !.st = s, !.code = c] \in Request
    BY Zenon, <1>1 DEF Request
<1>6. \A s \in Steps, d \in Rows : [req[r] EXCEPT !.st = s, !.row = d] \in Request
    BY Zenon, <1>1 DEF Request
<1>7. [req[r] EXCEPT !.st = "reply", !.code = "lost", !.row = None] \in Request
    BY ZenonT(30), <1>1 DEF Request, Steps, Codes
<1> QED
    BY Zenon, <1>2, <1>3, <1>4, <1>5, <1>6, <1>7

\* A row that register_device inserts had no device and no request in it.
LEMMA FreshUnused == ASSUME Unused # {} PROVE Fresh \in Unused
<1>1. PICK d \in Unused : TRUE
    BY Zenon
<1> QED BY Zenon, <1>1 DEF Fresh

\* Every step of a handler keeps the types.
LEMMA ServerTypes == ASSUME TypeOK, NEW r \in Requests, ServerStep(r) \/ RequestFails(r)
                     PROVE  TypeOK'
<1>0. /\ "reply" \in Steps /\ "got" \in Steps /\ "insert" \in Steps /\ "committed" \in Steps
      /\ "bad_token" \in Codes /\ "error" \in Codes /\ "conflict" \in Codes /\ "ok" \in Codes
      /\ "lost" \in Codes
    BY Zenon DEF Steps, Codes
<1>1. req[r] \in Request
    BY Zenon DEF TypeOK
<1>2. CASE ReadToken(r)
    BY Zenon, <1>0, <1>2, RequestTypes DEF ReadToken, TypeOK, table, agent
<1>3. CASE Lookup(r)
  <2>1. \A c \in Codes : [req[r] EXCEPT !.st = "reply", !.code = c] \in Request
    BY ZenonT(30), <1>0, RequestTypes
  <2>2. \A d \in Rows : [req[r] EXCEPT !.st = "insert", !.row = d] \in Request
    BY ZenonT(30), <1>0, RequestTypes
  <2>3. req' \in [Requests -> Request]
    BY ZenonT(90), <1>0, <1>3, <2>1, <2>2, FreshUnused DEF Lookup, TypeOK, Unused
  <2> QED
    BY Zenon, <1>3, <2>3 DEF Lookup, TypeOK, table, agent
<1>4. CASE CommitDevice(r)
  <2>1. req' \in [Requests -> Request]
    BY Zenon, <1>0, <1>4, RequestTypes DEF CommitDevice, TypeOK
  <2>2. req[r].m \in Machines \cup {None} /\ req[r].tok \in Tokens \cup {None}
    BY Zenon, <1>1 DEF Request
  <2> QED
    BY Zenon, <1>4, <2>1, <2>2 DEF CommitDevice, TypeOK, agent
<1>5. CASE DeleteToken(r)
  <2>1. req' \in [Requests -> Request]
    BY ZenonT(30), <1>0, <1>5, RequestTypes DEF DeleteToken, TypeOK
  <2> QED
    BY Zenon, <1>5, <2>1 DEF DeleteToken, TypeOK, table, agent
<1>6. CASE Discard(r)
    BY ZenonT(30), <1>6, RequestTypes DEF Discard, TypeOK, table, agent
<1>7. CASE RequestFails(r)
    BY Zenon, <1>0, <1>7, RequestTypes DEF RequestFails, TypeOK, table, agent
<1> QED
    BY Zenon, <1>2, <1>3, <1>4, <1>5, <1>6, <1>7 DEF ServerStep

\* A complete configuration is one.
LEMMA FileTypes ==
    ASSUME TypeOK, NEW m \in Machines
    PROVE  /\ NoFile \in File /\ [NoFile EXCEPT !.state = "whole"] \in File
           /\ \A t \in Tokens : [state |-> "whole", tok |-> t, cred |-> None] \in File
           /\ [file[m] EXCEPT !.state = "torn"] \in File
           /\ [file[m] EXCEPT !.state = "whole", !.cred = cred[m]] \in File
           /\ file[m].cred \in Credentials /\ file[m].tok \in Tokens \cup {None}
<1>1. file[m] \in File /\ cred[m] \in Credentials /\ None \in Credentials
    BY Zenon DEF TypeOK, Credentials
<1>2. NoFile \in File
    BY Zenon, <1>1 DEF NoFile, File
<1>3. [NoFile EXCEPT !.state = "whole"] \in File
    BY Zenon, <1>1 DEF NoFile, File
<1>4. \A t \in Tokens : [state |-> "whole", tok |-> t, cred |-> None] \in File
    BY Zenon, <1>1 DEF File
<1>5. [file[m] EXCEPT !.state = "torn"] \in File
    BY Zenon, <1>1 DEF File
<1>6. [file[m] EXCEPT !.state = "whole", !.cred = cred[m]] \in File
    BY Zenon, <1>1 DEF File
<1>7. file[m].cred \in Credentials /\ file[m].tok \in Tokens \cup {None}
    BY Zenon, <1>1 DEF File
<1> QED
    BY Zenon, <1>2, <1>3, <1>4, <1>5, <1>6, <1>7

\* Every step of a machine keeps the types.
LEMMA MachineTypes ==
    ASSUME TypeOK, AnswersReal, RequestsOwned, NEW m \in Machines,
           \/ MachineStep(m) \/ Timeout(m) \/ AgentCrash(m) \/ Uninstall(m)
           \/ \E t \in Tokens : DeployClient(m, t)
           \/ \E t \in Tokens, r \in Requests : InstallAgent(m, t, r)
           \/ \E d \in Rows : ReuseCredentials(m, d)
    PROVE  TypeOK'
<1>0. Idle \in Request
    BY Zenon DEF Idle, Request, Steps, Codes
<1>1. None \in Credentials /\ \A d \in Rows, k \in 0..MaxKeys : <<d, k>> \in Credentials
    BY Zenon DEF Credentials
<1>2. 0 \in 0..MaxKeys
    BY MaxKeysAssumption
<1>3. CASE Start(m)
    BY Zenon, <1>3, FileTypes DEF Start, TypeOK, table, States
<1>4. CASE InstallAgentEnds(m)
  <2>1. file' \in [Machines -> File]
    BY ZenonT(30), <1>4, FileTypes DEF InstallAgentEnds, TypeOK
  <2> QED
    BY ZenonT(30), <1>0, <1>4, <2>1 DEF InstallAgentEnds, TypeOK, table, States
<1>5. CASE Registered(m)
  <2>0. on[m] \in Requests
    <3>1. pc[m] = "wait"
      BY Zenon, <1>5 DEF Registered, Answered
    <3>2. on[m] # None
      BY Zenon, <3>1 DEF RequestsOwned
    <3> QED
      BY Zenon, <3>2 DEF TypeOK
  <2>1. req[on[m]].row \in Rows
    BY Zenon, <1>5, <2>0 DEF Registered, Answered, AnswersReal, AnswersOk
  <2>2. file' \in [Machines -> File]
    BY Zenon, <1>5, FileTypes DEF Registered, TypeOK
  <2> QED
    BY Zenon, <1>0, <1>1, <1>2, <1>5, <2>1, <2>2 DEF Registered, Receive, TypeOK, table, States
<1>6. CASE Saved(m)
    BY Zenon, <1>6, FileTypes DEF Saved, TypeOK, table, States
<1>7. CASE Refused(m)
    BY Zenon, <1>0, <1>7 DEF Refused, Receive, TypeOK, table, States
<1>8. ASSUME NEW r \in Requests, Post(m, r) PROVE TypeOK'
  <2>1. [Idle EXCEPT !.st = "new", !.m = m, !.tok = file[m].tok] \in Request
    BY Zenon, RequestTypes, FileTypes
  <2> QED
    BY Zenon, <1>8, <2>1 DEF Post, Send, TypeOK, table, States
<1>9. CASE Timeout(m)
    BY Zenon, <1>9 DEF Timeout, TypeOK, table, States
<1>10. CASE AgentCrash(m)
    BY Zenon, <1>1, <1>10 DEF AgentCrash, TypeOK, table, States
<1>11. CASE Uninstall(m)
    BY Zenon, <1>11, FileTypes DEF Uninstall, TypeOK, table, States
<1>12. ASSUME NEW t \in Tokens, DeployClient(m, t) PROVE TypeOK'
    BY ZenonT(30), <1>12, FileTypes DEF DeployClient, TypeOK, table, States
<1>13. ASSUME NEW t \in Tokens, NEW r \in Requests, InstallAgent(m, t, r) PROVE TypeOK'
  <2>1. [Idle EXCEPT !.st = "new", !.m = m, !.tok = t] \in Request
    BY Zenon, RequestTypes
  <2> QED
    BY ZenonT(30), <1>13, <2>1 DEF InstallAgent, Send, TypeOK, table, States
<1>14. ASSUME NEW d \in Rows, ReuseCredentials(m, d) PROVE TypeOK'
  <2>1. keys[d] \in 0..MaxKeys /\ file' \in [Machines -> File]
    BY Zenon, <1>14, FileTypes DEF ReuseCredentials, TypeOK
  <2> QED
    BY Zenon, <1>0, <1>1, <1>14, <2>1 DEF ReuseCredentials, Receive, TypeOK, table, States
<1> QED
    BY Zenon, <1>3, <1>4, <1>5, <1>6, <1>7, <1>8, <1>9, <1>10, <1>11, <1>12, <1>13, <1>14 DEF MachineStep

-----------------------------------------------------------------------------

\* What each step of a handler does to its request, and that it leaves the
\* other requests alone.
LEMMA ServerFields ==
    ASSUME TypeOK, NEW r \in Requests
    PROVE  /\ ServerStep(r) \/ RequestFails(r) => \A q \in Requests \ {r} : req'[q] = req[q]
           /\ ReadToken(r) => /\ req'[r].m = req[r].m
                              /\ \/ req'[r].st = "got"
                                 \/ req'[r].st = "reply" /\ req'[r].code = "bad_token"
           /\ Lookup(r) => /\ req'[r].m = req[r].m
                           /\ \/ req'[r].st = "reply" /\ req'[r].code \in {"error", "conflict"}
                              \/ req'[r].st = "insert" /\ req'[r].row \in Unused
           /\ CommitDevice(r) => /\ req'[r].m = req[r].m /\ req'[r].row = req[r].row
                                 /\ req'[r].st = "committed"
           /\ DeleteToken(r) => /\ req'[r].m = req[r].m /\ req'[r].row = req[r].row
                                /\ req'[r].st = "reply" /\ req'[r].code = "ok"
           /\ RequestFails(r) => /\ req'[r].m = req[r].m
                                 /\ req'[r].st = "reply" /\ req'[r].code = "lost"
           /\ Discard(r) => req'[r] = Idle
<1>1. req[r] \in Request /\ req \in [Requests -> Request]
    BY Zenon DEF TypeOK
<1>2. ServerStep(r) \/ RequestFails(r) => \A q \in Requests \ {r} : req'[q] = req[q]
    BY Zenon, <1>1 DEF ServerStep, ReadToken, Lookup, CommitDevice, DeleteToken, Discard, RequestFails
<1>3. ReadToken(r) => /\ req'[r].m = req[r].m
                      /\ \/ req'[r].st = "got"
                         \/ req'[r].st = "reply" /\ req'[r].code = "bad_token"
    BY <1>1 DEF ReadToken, Request
<1>4. Lookup(r) => /\ req'[r].m = req[r].m
                   /\ \/ req'[r].st = "reply" /\ req'[r].code \in {"error", "conflict"}
                      \/ req'[r].st = "insert" /\ req'[r].row \in Unused
    BY <1>1, FreshUnused DEF Lookup, Request
<1>5. CommitDevice(r) => /\ req'[r].m = req[r].m /\ req'[r].row = req[r].row
                         /\ req'[r].st = "committed"
    BY <1>1 DEF CommitDevice, Request
<1>6. DeleteToken(r) => /\ req'[r].m = req[r].m /\ req'[r].row = req[r].row
                        /\ req'[r].st = "reply" /\ req'[r].code = "ok"
    BY <1>1 DEF DeleteToken, Request
<1>7. RequestFails(r) => /\ req'[r].m = req[r].m
                         /\ req'[r].st = "reply" /\ req'[r].code = "lost"
    BY <1>1 DEF RequestFails, Request
<1>8. Discard(r) => req'[r] = Idle
    BY Zenon, <1>1 DEF Discard
<1> QED
    BY Zenon, <1>2, <1>3, <1>4, <1>5, <1>6, <1>7, <1>8

\* What a handler leaves alone of the devices.
LEMMA ServerRows ==
    ASSUME TypeOK, InsertsApart, NEW r \in Requests, ServerStep(r) \/ RequestFails(r)
    PROVE  /\ UNCHANGED <<keys, pc, on, cred, file>>
           /\ \A d \in Rows : dev[d] # "none" => dev'[d] = dev[d] /\ owner'[d] = owner[d]
           /\ ~CommitDevice(r) => UNCHANGED <<dev, owner>>
           /\ CommitDevice(r) => /\ dev'[req[r].row] = "active" /\ owner'[req[r].row] = req[r].m
                                 /\ \A d \in Rows \ {req[r].row} : dev'[d] = dev[d]
    BY DEF ServerStep, ReadToken, Lookup, CommitDevice, DeleteToken, Discard, RequestFails,
           InsertsApart, TypeOK, table, agent

\* A handler keeps the invariant.
LEMMA ServerKeeps ==
    ASSUME IInv, NEW r \in Requests, ServerStep(r) \/ RequestFails(r)
    PROVE  IInv'
<1> USE DEF IInv
<1>1. TypeOK'
    BY Zenon, ServerTypes
<1>2. \A q \in Requests \ {r} : req'[q] = req[q]
    BY Zenon, ServerFields
<1>3. /\ UNCHANGED <<keys, pc, on, cred, file>>
      /\ \A d \in Rows : dev[d] # "none" => dev'[d] = dev[d] /\ owner'[d] = owner[d]
      /\ ~CommitDevice(r) => UNCHANGED <<dev, owner>>
      /\ CommitDevice(r) => /\ dev'[req[r].row] = "active" /\ owner'[req[r].row] = req[r].m
                            /\ \A d \in Rows \ {req[r].row} : dev'[d] = dev[d]
    BY Zenon, ServerRows
<1>4. AnswersReal'
  <2>1. ASSUME NEW q \in Requests, q # r, AnswersOk(q)'
        PROVE  /\ req'[q].row \in Rows /\ req'[q].m \in Machines
               /\ dev'[req'[q].row] # "none" /\ owner'[req'[q].row] = req'[q].m
    BY <1>2, <1>3, <2>1 DEF AnswersReal, AnswersOk
  <2>2. ASSUME AnswersOk(r)'
        PROVE  /\ req'[r].row \in Rows /\ req'[r].m \in Machines
               /\ dev'[req'[r].row] # "none" /\ owner'[req'[r].row] = req'[r].m
    <3>1. CASE CommitDevice(r)
      BY Zenon, <1>3, <3>1, ServerFields DEF CommitDevice, InsertsApart
    <3>2. CASE DeleteToken(r)
      BY ZenonT(90), <1>3, <3>2, ServerFields DEF DeleteToken, AnswersReal, AnswersOk
    <3>3. CASE ReadToken(r) \/ Lookup(r) \/ RequestFails(r) \/ Discard(r)
      BY <2>2, <3>3, ServerFields DEF AnswersOk, Idle
    <3> QED
      BY Zenon, <3>1, <3>2, <3>3 DEF ServerStep
  <2> QED
    BY Zenon, <2>1, <2>2 DEF AnswersReal
<1>5. InsertsApart'
  <2>1. CASE Lookup(r)
    <3>1. UNCHANGED <<dev, owner>>
      BY Zenon, <2>1 DEF Lookup, table
    <3>2. \A q \in Requests : req[q].row \notin Unused
      BY Zenon DEF Unused, Pending
    <3>3. req[r].m \in Machines
      BY Zenon, <2>1 DEF Lookup, RequestsOwned
    <3> QED
      BY <1>2, <2>1, <3>1, <3>2, <3>3, ServerFields DEF InsertsApart, Unused
  <2>2. CASE CommitDevice(r)
    <3>1. req[r].st = "insert" /\ req'[r].st = "committed" /\ req[r].row \in Rows
      BY Zenon, <2>2, ServerFields DEF CommitDevice, InsertsApart
    <3>2. \A q \in Requests \ {r} : req[q].st = "insert" => req[q].row # req[r].row
      BY Zenon, <3>1 DEF InsertsApart
    <3>3. \A d \in Rows \ {req[r].row} : dev'[d] = dev[d]
      BY Zenon, <1>3, <2>2
    <3> QED
      BY <1>2, <3>1, <3>2, <3>3 DEF InsertsApart
  <2>3. CASE ReadToken(r) \/ DeleteToken(r) \/ RequestFails(r) \/ Discard(r)
    <3>1. req'[r].st # "insert"
      BY <2>3, ServerFields DEF Idle
    <3>2. UNCHANGED <<dev, owner>>
      BY Zenon, <2>3 DEF ReadToken, DeleteToken, RequestFails, Discard, table
    <3> QED
      BY <1>2, <3>1, <3>2 DEF InsertsApart
  <2> QED
    BY Zenon, <2>1, <2>2, <2>3 DEF ServerStep
<1>6. RequestsOwned'
  <2>1. CASE Discard(r)
    BY SMTT(30), <1>2, <1>3, <2>1, ServerFields DEF Discard, RequestsOwned, Idle, TypeOK
  <2>2. CASE ~Discard(r)
    <3>1. req'[r].m = req[r].m /\ req'[r].st # "idle" /\ req[r].st # "idle"
      BY Zenon, <2>2, ServerFields
        DEF ServerStep, ReadToken, Lookup, CommitDevice, DeleteToken, RequestFails
    <3> QED
      BY SMTT(30), <1>2, <1>3, <3>1 DEF RequestsOwned, TypeOK
  <2> QED
    BY Zenon, <2>1, <2>2
<1>7. CredentialsIssued'
  <2>1. ASSUME NEW c \in Credentials, NEW m \in Machines, Issued(m, c) PROVE Issued(m, c)'
    BY Zenon, <1>3, <2>1 DEF Issued, Credentials
  <2>2. \A m \in Machines : cred[m] \in Credentials /\ file[m].cred \in Credentials
    BY Zenon, FileTypes DEF TypeOK
  <2>3. ASSUME NEW m \in Machines PROVE Issued(m, cred[m])' /\ Issued(m, file[m].cred)'
    <3>1. Issued(m, cred[m]) /\ Issued(m, file[m].cred)
      BY Zenon DEF CredentialsIssued
    <3> QED
      BY Zenon, <1>3, <2>2, <3>1 DEF Issued, Credentials
  <2> QED
    BY Zenon, <2>3 DEF CredentialsIssued
<1> QED
    BY Zenon, <1>1, <1>4, <1>5, <1>6, <1>7

-----------------------------------------------------------------------------

\* Credentials that were issued stay issued while rows keep their owners and
\* keys only grow.
LEMMA IssuedStays ==
    ASSUME NEW m \in Machines, NEW c \in Credentials, Issued(m, c),
           \A d \in Rows : /\ dev[d] # "none" => dev'[d] # "none" /\ owner'[d] = owner[d]
                           /\ keys'[d] >= keys[d],
           keys \in [Rows -> 0..MaxKeys], keys' \in [Rows -> 0..MaxKeys]
    PROVE  c # None => /\ dev'[c[1]] # "none" /\ owner'[c[1]] = m /\ c[2] <= keys'[c[1]]
    BY MaxKeysAssumption DEF Issued, Credentials

\* A new request: nobody awaited the idle one it takes.
LEMMA SendKeeps ==
    ASSUME TypeOK, AnswersReal, InsertsApart, RequestsOwned,
           NEW m \in Machines, NEW t \in Tokens \cup {None}, NEW r \in Requests, Send(m, t, r),
           UNCHANGED <<dev, owner>>, pc' = [pc EXCEPT ![m] = "wait"] \/ pc' = [pc EXCEPT ![m] = "curl"]
    PROVE  AnswersReal' /\ InsertsApart' /\ RequestsOwned'
<1>1. /\ req'[r].st = "new" /\ req'[r].m = m
      /\ \A q \in Requests \ {r} : req'[q] = req[q]
      /\ req[r].st = "idle"
      /\ on' = [on EXCEPT ![m] = r]
    BY Zenon DEF Send, TypeOK, Idle
<1>2. AnswersReal'
    BY <1>1 DEF AnswersReal, AnswersOk
<1>3. InsertsApart'
    BY <1>1 DEF InsertsApart
<1>4. RequestsOwned'
  <2>1. \A q \in Requests : req'[q].st # "idle" => req'[q].m \in Machines
    BY Zenon, <1>1 DEF RequestsOwned
  <2>2. ASSUME NEW n \in Machines, n # m
        PROVE  /\ on'[n] # None => req'[on'[n]].st # "idle" /\ req'[on'[n]].m = n
               /\ pc'[n] \in {"wait", "curl"} => on'[n] # None
    <3>1. on'[n] = on[n] /\ pc'[n] = pc[n]
      BY Zenon, <1>1, <2>2 DEF TypeOK
    <3>2. on[n] # None => on[n] \in Requests /\ req[on[n]].st # "idle" /\ req[on[n]].m = n
      BY DEF TypeOK, RequestsOwned
    <3>3. on[n] # None => on[n] # r
      BY Zenon, <1>1, <3>2
    <3> QED
      BY <1>1, <3>1, <3>2, <3>3 DEF RequestsOwned
  <2>3. on'[m] = r /\ r # None
    BY Zenon, <1>1, NoneAssumption DEF TypeOK
  <2> QED
    BY <1>1, <2>1, <2>2, <2>3 DEF RequestsOwned
<1> QED
    BY Zenon, <1>2, <1>3, <1>4

\* An answer received: its request is idle again, and nobody else awaited it.
LEMMA ReceiveKeeps ==
    ASSUME TypeOK, AnswersReal, InsertsApart, RequestsOwned,
           NEW m \in Machines, NEW p \in States \ {"wait", "curl"}, Receive(m), on[m] # None,
           UNCHANGED <<dev, owner>>, pc' = [pc EXCEPT ![m] = p]
    PROVE  AnswersReal' /\ InsertsApart' /\ RequestsOwned'
<1>1. on[m] \in Requests /\ req[on[m]].m = m
    BY Zenon DEF TypeOK, RequestsOwned
<1>2. /\ req'[on[m]].st = "idle"
      /\ \A q \in Requests \ {on[m]} : req'[q] = req[q]
      /\ on' = [on EXCEPT ![m] = None]
    BY Zenon, <1>1 DEF Receive, TypeOK, Idle
<1>3. AnswersReal'
    BY ZenonT(30), <1>2 DEF AnswersReal, AnswersOk
<1>4. InsertsApart'
    BY <1>2 DEF InsertsApart
<1>5. RequestsOwned'
  <2>1. \A q \in Requests : req'[q].st # "idle" => req'[q].m \in Machines
    BY Zenon, <1>2 DEF RequestsOwned
  <2>2. ASSUME NEW n \in Machines, n # m
        PROVE  /\ on'[n] # None => req'[on'[n]].st # "idle" /\ req'[on'[n]].m = n
               /\ pc'[n] \in {"wait", "curl"} => on'[n] # None
    <3>1. on'[n] = on[n] /\ pc'[n] = pc[n]
      BY Zenon, <1>2, <2>2 DEF TypeOK
    <3>2. on[n] # None => on[n] \in Requests /\ req[on[n]].st # "idle" /\ req[on[n]].m = n
      BY Zenon DEF TypeOK, RequestsOwned
    <3>3. on[n] # None => on[n] # on[m]
      BY Zenon, <1>1, <2>2, <3>2
    <3> QED
      BY SMTT(30), <1>2, <3>1, <3>2, <3>3 DEF RequestsOwned
  <2>3. on'[m] = None /\ pc'[m] \notin {"wait", "curl"}
    BY Zenon, <1>2 DEF TypeOK
  <2> QED
    BY Zenon, <2>1, <2>2, <2>3 DEF RequestsOwned
<1> QED
    BY Zenon, <1>3, <1>4, <1>5

\* Credentials stay issued when only machines move and the ones they take over
\* are issued.
LEMMA CredentialsKept ==
    ASSUME TypeOK, TypeOK', CredentialsIssued, UNCHANGED <<dev, owner, keys>>, NEW m \in Machines,
           \A n \in Machines \ {m} : cred'[n] = cred[n] /\ file'[n] = file[n],
           Issued(m, cred'[m]), Issued(m, file'[m].cred)
    PROVE  CredentialsIssued'
<1>1. ASSUME NEW n \in Machines PROVE Issued(n, cred'[n]) /\ Issued(n, file'[n].cred)
    BY Zenon, <1>1 DEF CredentialsIssued
<1> QED
    BY Zenon, <1>1 DEF CredentialsIssued, Issued

\* A machine keeps the invariant.
LEMMA MachineKeeps ==
    ASSUME IInv, NEW m \in Machines,
           \/ MachineStep(m) \/ Timeout(m) \/ AgentCrash(m) \/ Uninstall(m)
           \/ \E t \in Tokens : DeployClient(m, t)
           \/ \E t \in Tokens, r \in Requests : InstallAgent(m, t, r)
           \/ \E d \in Rows : ReuseCredentials(m, d)
    PROVE  IInv'
<1>1. TypeOK /\ AnswersReal /\ InsertsApart /\ RequestsOwned /\ CredentialsIssued
    BY Zenon DEF IInv
<1>2. TypeOK'
    BY Zenon, <1>1, MachineTypes
<1>3. Issued(m, cred[m]) /\ Issued(m, file[m].cred) /\ Issued(m, None)
    BY Zenon, <1>1 DEF CredentialsIssued, Issued
<1>4. UNCHANGED <<dev, owner, keys>>
    BY Zenon DEF MachineStep, Start, InstallAgentEnds, Registered, Saved, Refused, Post, Timeout,
           AgentCrash, Uninstall, DeployClient, InstallAgent, ReuseCredentials, table
<1>5. file[m] \in File /\ NoFile.cred = None /\ \A s : [NoFile EXCEPT !.state = s].cred = None
    BY Zenon, <1>1 DEF TypeOK, NoFile
<1>6. \A s : [file[m] EXCEPT !.state = s].cred = file[m].cred
    BY Zenon, <1>5 DEF File
<1>7. pc[m] \in {"wait", "curl"} => on[m] # None /\ on[m] \in Requests
    BY Zenon, <1>1 DEF RequestsOwned, TypeOK
<1>8. ASSUME UNCHANGED req, \A n \in Machines : on'[n] \in {on[n], None},
             \A n \in Machines : pc'[n] \in {"wait", "curl"} => on'[n] # None
      PROVE  AnswersReal' /\ InsertsApart' /\ RequestsOwned'
    BY <1>1, <1>4, <1>8 DEF AnswersReal, AnswersOk, InsertsApart, RequestsOwned
<1>9. CASE Start(m)
  <2>1. AnswersReal' /\ InsertsApart' /\ RequestsOwned'
    BY ZenonT(30), <1>1, <1>8, <1>9 DEF Start, TypeOK, RequestsOwned
  <2>2. CredentialsIssued'
    BY ZenonT(30), <1>1, <1>2, <1>3, <1>4, <1>9, CredentialsKept DEF Start, TypeOK
  <2> QED
    BY Zenon, <1>2, <2>1, <2>2 DEF IInv
<1>10. CASE InstallAgentEnds(m)
  <2>1. Receive(m) /\ on[m] # None
    BY Zenon, <1>7, <1>10 DEF InstallAgentEnds, Receive
  <2>2. \E p \in States \ {"wait", "curl"} : pc' = [pc EXCEPT ![m] = p]
    BY Zenon, <1>10 DEF InstallAgentEnds, States
  <2>3. AnswersReal' /\ InsertsApart' /\ RequestsOwned'
    BY Zenon, <1>1, <1>4, <2>1, <2>2, ReceiveKeeps
  <2>4. Issued(m, file'[m].cred)
    <3>1. CASE req[on[m]].code = "ok"
      <4>1. file'[m] = [NoFile EXCEPT !.state = "whole"]
        BY Zenon, <1>1, <1>10, <3>1 DEF InstallAgentEnds, TypeOK
      <4> QED
        BY Zenon, <1>3, <1>5, <4>1
    <3>2. CASE req[on[m]].code # "ok"
      BY Zenon, <1>3, <1>10, <3>2 DEF InstallAgentEnds
    <3> QED
      BY Zenon, <3>1, <3>2
  <2>5. CredentialsIssued'
    BY Zenon, <1>1, <1>2, <1>3, <1>4, <1>10, <2>4, CredentialsKept DEF InstallAgentEnds, TypeOK
  <2> QED
    BY Zenon, <1>2, <2>3, <2>5 DEF IInv
<1>11. CASE Registered(m)
  <2>1. on[m] # None /\ on[m] \in Requests /\ Receive(m) /\ AnswersOk(on[m])
    BY Zenon, <1>7, <1>11 DEF Registered, Answered, AnswersOk
  <2>2. AnswersReal' /\ InsertsApart' /\ RequestsOwned'
    BY Zenon, <1>1, <1>4, <1>11, <2>1, ReceiveKeeps DEF Registered, States
  <2>3. /\ req[on[m]].row \in Rows /\ dev[req[on[m]].row] # "none"
        /\ owner[req[on[m]].row] = m /\ keys[req[on[m]].row] >= 0
    BY <1>1, <2>1, MaxKeysAssumption DEF AnswersReal, RequestsOwned, TypeOK
  <2>4. Issued(m, cred'[m])
    BY Zenon, <1>1, <1>11, <2>3 DEF Registered, TypeOK, Issued
  <2>5. Issued(m, file'[m].cred)
    BY Zenon, <1>1, <1>3, <1>6, <1>11 DEF Registered, TypeOK
  <2>6. CredentialsIssued'
    BY Zenon, <1>1, <1>2, <1>4, <1>11, <2>4, <2>5, CredentialsKept DEF Registered, TypeOK
  <2> QED
    BY Zenon, <1>2, <2>2, <2>6 DEF IInv
<1>12. CASE Saved(m)
  <2>1. AnswersReal' /\ InsertsApart' /\ RequestsOwned'
    BY ZenonT(30), <1>1, <1>8, <1>12 DEF Saved, TypeOK, RequestsOwned
  <2>2. file'[m].cred = cred[m]
    BY Zenon, <1>1, <1>5, <1>12 DEF Saved, TypeOK, File
  <2>3. CredentialsIssued'
    BY Zenon, <1>1, <1>2, <1>3, <1>4, <1>12, <2>2, CredentialsKept DEF Saved, TypeOK
  <2> QED
    BY Zenon, <1>2, <2>1, <2>3 DEF IInv
<1>13. CASE Refused(m)
  <2>1. on[m] # None /\ Receive(m)
    BY Zenon, <1>7, <1>13 DEF Refused, Answered
  <2>2. \E p \in States \ {"wait", "curl"} : pc' = [pc EXCEPT ![m] = p]
    <3>1. CASE req[on[m]].code = "bad_token"
      <4>1. pc' = [pc EXCEPT ![m] = "down"]
        BY Zenon, <1>13, <3>1 DEF Refused
      <4> QED
        BY Zenon, <4>1 DEF States
    <3>2. CASE req[on[m]].code # "bad_token"
      <4>1. pc' = [pc EXCEPT ![m] = "register"]
        BY Zenon, <1>13, <3>2 DEF Refused
      <4> QED
        BY Zenon, <4>1 DEF States
    <3> QED
      BY Zenon, <3>1, <3>2
  <2>3. AnswersReal' /\ InsertsApart' /\ RequestsOwned'
    BY Zenon, <1>1, <1>4, <2>1, <2>2, ReceiveKeeps
  <2>4. CredentialsIssued'
    BY Zenon, <1>1, <1>2, <1>3, <1>4, <1>13, CredentialsKept DEF Refused, TypeOK
  <2> QED
    BY Zenon, <1>2, <2>3, <2>4 DEF IInv
<1>14. ASSUME NEW r \in Requests, Post(m, r) PROVE IInv'
  <2>1. file[m].tok \in Tokens \cup {None}
    BY Zenon, <1>1, FileTypes
  <2>2. AnswersReal' /\ InsertsApart' /\ RequestsOwned'
    BY ZenonT(30), <1>1, <1>4, <1>14, <2>1, SendKeeps DEF Post
  <2>3. CredentialsIssued'
    BY Zenon, <1>1, <1>2, <1>3, <1>4, <1>14, CredentialsKept DEF Post, TypeOK
  <2> QED
    BY Zenon, <1>2, <2>2, <2>3 DEF IInv
<1>15. CASE Timeout(m)
  <2>1. AnswersReal' /\ InsertsApart' /\ RequestsOwned'
    BY ZenonT(30), <1>1, <1>8, <1>15 DEF Timeout, TypeOK, RequestsOwned
  <2>2. CredentialsIssued'
    BY Zenon, <1>1, <1>2, <1>3, <1>4, <1>15, CredentialsKept DEF Timeout, TypeOK
  <2> QED
    BY Zenon, <1>2, <2>1, <2>2 DEF IInv
<1>16. CASE AgentCrash(m)
  <2>1. AnswersReal' /\ InsertsApart' /\ RequestsOwned'
    BY SMTT(30), <1>1, <1>8, <1>16 DEF AgentCrash, TypeOK, RequestsOwned
  <2>2. CredentialsIssued'
    BY ZenonT(30), <1>1, <1>2, <1>3, <1>4, <1>16, CredentialsKept DEF AgentCrash, TypeOK
  <2> QED
    BY Zenon, <1>2, <2>1, <2>2 DEF IInv
<1>17. CASE Uninstall(m)
  <2>1. AnswersReal' /\ InsertsApart' /\ RequestsOwned'
    BY ZenonT(30), <1>1, <1>8, <1>17 DEF Uninstall, TypeOK, RequestsOwned
  <2>2. CredentialsIssued'
    BY ZenonT(30), <1>1, <1>2, <1>3, <1>4, <1>5, <1>17, CredentialsKept DEF Uninstall, TypeOK
  <2> QED
    BY Zenon, <1>2, <2>1, <2>2 DEF IInv
<1>18. ASSUME NEW t \in Tokens, DeployClient(m, t) PROVE IInv'
  <2>1. AnswersReal' /\ InsertsApart' /\ RequestsOwned'
    BY ZenonT(30), <1>1, <1>8, <1>18 DEF DeployClient, TypeOK, RequestsOwned
  <2>2. CredentialsIssued'
    BY ZenonT(30), <1>1, <1>2, <1>3, <1>4, <1>18, CredentialsKept DEF DeployClient, TypeOK
  <2> QED
    BY Zenon, <1>2, <2>1, <2>2 DEF IInv
<1>19. ASSUME NEW t \in Tokens, NEW r \in Requests, InstallAgent(m, t, r) PROVE IInv'
  <2>1. AnswersReal' /\ InsertsApart' /\ RequestsOwned'
    BY Zenon, <1>1, <1>4, <1>19, SendKeeps DEF InstallAgent
  <2>2. CredentialsIssued'
    BY Zenon, <1>1, <1>2, <1>3, <1>4, <1>19, CredentialsKept DEF InstallAgent, TypeOK
  <2> QED
    BY Zenon, <1>2, <2>1, <2>2 DEF IInv
<1>20. ASSUME NEW d \in Rows, ReuseCredentials(m, d) PROVE IInv'
  <2>1. on[m] # None /\ Receive(m)
    BY Zenon, <1>7, <1>20 DEF ReuseCredentials, Answered
  <2>2. AnswersReal' /\ InsertsApart' /\ RequestsOwned'
    BY Zenon, <1>1, <1>4, <1>20, <2>1, ReceiveKeeps DEF ReuseCredentials, States
  <2>3. Issued(m, cred'[m])
    BY <1>1, <1>20, MaxKeysAssumption DEF ReuseCredentials, TypeOK, Issued
  <2>4. Issued(m, file'[m].cred)
    BY Zenon, <1>1, <1>3, <1>6, <1>20 DEF ReuseCredentials, TypeOK
  <2>5. CredentialsIssued'
    BY Zenon, <1>1, <1>2, <1>4, <1>20, <2>3, <2>4, CredentialsKept DEF ReuseCredentials, TypeOK
  <2> QED
    BY Zenon, <1>2, <2>2, <2>5 DEF IInv
<1> QED
    BY Zenon, <1>9, <1>10, <1>11, <1>12, <1>13, <1>14, <1>15, <1>16, <1>17, <1>18, <1>19, <1>20
    DEF MachineStep

\* The API's operations on tokens and rows keep the invariant.
LEMMA ApiKeeps ==
    ASSUME IInv,
           \/ \E t \in Tokens : generate_enrollment_token(t) \/ TokenExpires(t)
           \/ \E d \in Rows : revoke_device(d) \/ rotate_device_key(d)
    PROVE  IInv'
<1>1. TypeOK /\ AnswersReal /\ InsertsApart /\ RequestsOwned /\ CredentialsIssued
    BY Zenon DEF IInv
<1>2. UNCHANGED <<req, owner, pc, on, cred, file>>
    BY Zenon
      DEF generate_enrollment_token, TokenExpires, revoke_device, rotate_device_key, agent, table
<1>3. TypeOK'
    BY SMTT(30), <1>1, MaxKeysAssumption
    DEF generate_enrollment_token, TokenExpires, revoke_device, rotate_device_key, agent, table, TypeOK
<1>4. \A d \in Rows : /\ dev'[d] = "none" <=> dev[d] = "none"
                      /\ keys'[d] >= keys[d]
    BY SMTT(30), <1>1, MaxKeysAssumption
    DEF generate_enrollment_token, TokenExpires, revoke_device, rotate_device_key, agent, table, TypeOK
<1>5. AnswersReal' /\ InsertsApart' /\ RequestsOwned'
    BY ZenonT(30), <1>1, <1>2, <1>4 DEF AnswersReal, AnswersOk, InsertsApart, RequestsOwned
<1>6. CredentialsIssued'
  <2>1. ASSUME NEW m \in Machines PROVE Issued(m, cred[m])' /\ Issued(m, file[m].cred)'
    <3>1. cred[m] \in Credentials /\ file[m].cred \in Credentials
      BY Zenon, <1>1, FileTypes DEF TypeOK
    <3>2. Issued(m, cred[m]) /\ Issued(m, file[m].cred)
      BY Zenon, <1>1 DEF CredentialsIssued
    <3>3. keys \in [Rows -> 0..MaxKeys] /\ keys' \in [Rows -> 0..MaxKeys]
      BY Zenon, <1>1, <1>3 DEF TypeOK
    <3> QED
      BY ZenonT(30), <1>2, <1>4, <3>1, <3>2, <3>3, IssuedStays DEF Issued
  <2> QED
    BY Zenon, <2>1 DEF CredentialsIssued
<1> QED
    BY Zenon, <1>1, <1>3, <1>5, <1>6 DEF IInv

\* The invariant holds in every behaviour.
LEMMA Invariance == Spec => []IInv
<1>1. Init => IInv
  <2> SUFFICES ASSUME Init PROVE IInv
    BY Zenon
  <2>1. TypeOK
    BY MaxKeysAssumption DEF Init, TypeOK, Idle, Request, Steps, Codes, States, NoFile, File, Credentials
  <2>2. AnswersReal /\ InsertsApart /\ RequestsOwned
    BY ZenonT(30) DEF Init, AnswersReal, AnswersOk, InsertsApart, RequestsOwned, Idle
  <2>3. CredentialsIssued
    BY ZenonT(30) DEF Init, CredentialsIssued, Issued, NoFile
  <2> QED
    BY <2>1, <2>2, <2>3, Zenon DEF IInv
<1>2. IInv /\ [Next]_vars => IInv'
  <2> SUFFICES ASSUME IInv, [Next]_vars PROVE IInv'
    BY Zenon
  <2>1. CASE UNCHANGED vars
    <3>1. TypeOK'
      BY <2>1, ZenonT(30) DEF vars, IInv, TypeOK
    <3>2. AnswersReal' /\ InsertsApart' /\ RequestsOwned'
      BY <2>1, ZenonT(30) DEF vars, IInv, AnswersReal, AnswersOk, InsertsApart, RequestsOwned
    <3>3. CredentialsIssued'
      BY <2>1, ZenonT(30) DEF vars, IInv, CredentialsIssued, Issued
    <3> QED
      BY <3>1, <3>2, <3>3, Zenon DEF IInv
  <2>2. CASE Next
    BY Zenon, <2>2, ServerKeeps, MachineKeeps, ApiKeeps DEF Next
  <2> QED
    BY Zenon, <2>1, <2>2
<1> QED
    BY <1>1, <1>2, PTL DEF Spec

\* The model of enrolment is type correct.
THEOREM TypeCorrect == Spec => []TypeOK
<1>1. IInv => TypeOK
    BY Zenon DEF IInv
<1> QED
    BY <1>1, Invariance, PTL

\* Whatever times out, crashes or overlaps, an agent's credentials are those of
\* a committed device with its own fingerprint (register_device commits before
\* the endpoint answers) and a key that was issued.
THEOREM CredentialsCorrect == Spec => []CredentialsIssued
<1>1. IInv => CredentialsIssued
    BY Zenon DEF IInv
<1> QED
    BY <1>1, Invariance, PTL
=============================================================================
