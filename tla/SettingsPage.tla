---------------------------- MODULE SettingsPage ----------------------------
(***************************************************************************)
(* The administrator's page (Settings.tsx): the branding kept in the       *)
(* browser (brandingStore.ts), enrollment tokens, a form for new accounts, *)
(* notification rules, clean-up of old rows, live connections.             *)
(*                                                                         *)
(* Branding is a name, a subtitle and a picture; the colour is treated as  *)
(* the subtitle is, the favicon as the picture.  The store is localStorage *)
(* and survives the page.                                                  *)
(***************************************************************************)
EXTENDS Page

CONSTANTS
    Texts,          \* what is typed, the empty text "" among them
    DefaultName, DefaultLabel,
    Files,          \* pictures
    Rules,          \* ids of notification rules
    Names,          \* accounts
    Devices,
    MaxTokens,      \* bound: tokens issued
    Null,
    Sessions        \* bound: the sections used

Queries == {"notification-rules", "admin-connections", "storage-stats"}

Channels == {"browser", "webhook", "email"}
NoRule == [channel |-> Null, webhook |-> Null, email |-> Null, enabled |-> FALSE]
NewRule == [channel |-> "browser", webhook |-> "", email |-> ""]

View(s, k) ==
    CASE k = "notification-rules" -> s.rules
      [] k = "admin-connections" -> s.online
      [] k = "storage-stats" -> s.old

Defaults == [name |-> DefaultName, label |-> DefaultLabel, logo |-> ""]

\* A page opened on a store that has not been changed, or has.
Init ==
    /\ server = [rules |-> [r \in Rules |-> NoRule], online |-> Devices, old |-> 1, accounts |-> {}, tokens |-> 0]
    /\ query = [k \in Queries |-> Query(View(server, k))]
    /\ \E sections \in Sessions, name \in Texts \ {""} :
        /\ ghost = [lost |-> FALSE, sections |-> sections, edited |-> FALSE]
        /\ ui = [store |-> [Defaults EXCEPT !.name = name], draft |-> [name |-> name, label |-> DefaultLabel],
                 reading |-> {}, token |-> 0, user |-> "", msg |-> "", rule |-> NewRule]
    /\ calls = <<>>

TypeOK ==
    /\ server.online \subseteq Devices /\ server.old \in 0 .. 1 /\ server.accounts \subseteq Names
    /\ server.tokens \in 0 .. MaxTokens /\ ui.token \in 0 .. MaxTokens
    /\ ui.store.name \in Texts \cup {DefaultName} /\ ui.store.label \in Texts \cup {DefaultLabel}
    /\ ui.store.logo \in Files \cup {""} /\ ui.reading \subseteq Files
    /\ ui.draft \in [name : Texts \cup {DefaultName}, label : Texts \cup {DefaultLabel}]
    /\ ui.msg \in {"", "created", "failed"} /\ ui.user \in Names \cup {""}
    /\ ui.rule.channel \in Channels
    /\ Len(calls) <= MaxCalls

Uses(section) == section \in ghost.sections

-----------------------------------------------------------------------------
(* Branding.                                                               *)

OnPage == UNCHANGED <<server, query, calls>>

TypeBranding(field, text) ==
    /\ Uses("branding") /\ ui.draft[field] # text
    /\ ui' = [ui EXCEPT !.draft[field] = text]
    /\ ghost' = [ghost EXCEPT !.edited = TRUE]
    /\ OnPage

\* An empty name is saved as the default one.
saveBranding ==
    /\ Uses("branding")
    /\ ui' = [ui EXCEPT !.store.name = IF ui.draft.name = "" THEN DefaultName ELSE ui.draft.name,
                        !.store.label = ui.draft.label]
    /\ ghost' = [ghost EXCEPT !.edited = FALSE]
    /\ OnPage

resetBranding ==
    /\ Uses("branding")
    /\ ui' = [ui EXCEPT !.store = Defaults, !.draft = [name |-> DefaultName, label |-> DefaultLabel]]
    /\ ghost' = [ghost EXCEPT !.edited = FALSE]
    /\ OnPage

\* A picture is read in the background, and stored once it has been read; it
\* is not part of the draft.  Readers finish in any order.
handleLogoUpload(f) ==
    /\ Uses("branding") /\ f \notin ui.reading
    /\ ui' = [ui EXCEPT !.reading = @ \cup {f}]
    /\ OnPage /\ UNCHANGED ghost

OnLoad(f) ==
    /\ f \in ui.reading
    /\ ui' = [ui EXCEPT !.reading = @ \ {f}, !.store.logo = f]
    /\ OnPage /\ UNCHANGED ghost

RemoveLogo ==
    /\ Uses("branding") /\ ui.store.logo # ""
    /\ ui' = [ui EXCEPT !.store.logo = ""]
    /\ OnPage /\ UNCHANGED ghost

-----------------------------------------------------------------------------
(* Tokens and accounts: plain requests, no mutations.                      *)

\* The button is there until a token is; it is not disabled meanwhile.
generateToken ==
    /\ Uses("token") /\ ui.token = 0
    /\ Mutate("token", 0)
    /\ UNCHANGED <<server, query, ui, ghost>>

TypeUser(u) ==
    /\ Uses("user") /\ ui.user # u
    /\ ui' = [ui EXCEPT !.user = u]
    /\ OnPage /\ UNCHANGED ghost

\* The inputs are required; a second submission is not held back.
createUser ==
    /\ Uses("user") /\ ui.user # ""
    /\ Mutate("user", ui.user)
    /\ UNCHANGED <<server, query, ui, ghost>>

-----------------------------------------------------------------------------
(* Rules, connections, storage.                                            *)

\* The channel's own input is shown; what was typed for another stays.
EditRule(channel, text) ==
    /\ Uses("rules")
    /\ \/ ui' = [ui EXCEPT !.rule.channel = channel] /\ channel # ui.rule.channel
       \/ /\ ui.rule.channel \in {"webhook", "email"} /\ channel = ui.rule.channel
          /\ ui' = [ui EXCEPT !.rule[channel] = text]
    /\ OnPage /\ UNCHANGED ghost

createRule ==
    /\ Uses("rules")
    /\ Mutate("createRule", [channel |-> ui.rule.channel,
                             webhook |-> IF ui.rule.channel = "webhook" THEN ui.rule.webhook ELSE Null,
                             email |-> IF ui.rule.channel = "email" THEN ui.rule.email ELSE Null,
                             enabled |-> TRUE])
    /\ UNCHANGED <<server, query, ui, ghost>>

updateRule(r) ==
    /\ Uses("rules") /\ query["notification-rules"].data[r] # NoRule
    /\ Mutate("updateRule", [id |-> r, enabled |-> ~query["notification-rules"].data[r].enabled])
    /\ UNCHANGED <<server, query, ui, ghost>>

disconnectDevice(d) ==
    /\ Uses("connections") /\ d \in query["admin-connections"].data
    /\ Mutate("disconnect", d)
    /\ UNCHANGED <<server, query, ui, ghost>>

cleanupNow ==
    /\ Uses("storage") /\ ~Pending("cleanup")
    /\ Mutate("cleanup", 0)
    /\ UNCHANGED <<server, query, ui, ghost>>

-----------------------------------------------------------------------------
(* The requests.                                                           *)

Accepts(s, c) ==
    CASE c.op = "token" -> s.tokens < MaxTokens
      [] c.op = "user" -> c.arg \notin s.accounts
      [] c.op = "createRule" -> \E r \in Rules : s.rules[r] = NoRule
      [] OTHER -> TRUE

Applied(s, c) ==
    CASE c.op = "token" -> [s EXCEPT !.tokens = @ + 1]
      [] c.op = "user" -> [s EXCEPT !.accounts = @ \cup {c.arg}]
      [] c.op = "createRule" -> [s EXCEPT !.rules[CHOOSE r \in Rules : s.rules[r] = NoRule] = c.arg]
      [] c.op = "updateRule" -> [s EXCEPT !.rules[c.arg.id].enabled = c.arg.enabled]
      [] c.op = "disconnect" -> [s EXCEPT !.online = @ \ {c.arg}]
      [] c.op = "cleanup" -> [s EXCEPT !.old = 0]

\* The answer to a request for a token holds the token.
HandleCall(i) ==
    /\ calls[i].state = "sent" /\ Accepts(server, calls[i])
    /\ server' = Applied(server, calls[i])
    /\ calls' = [calls EXCEPT ![i].state = "handled",
                              ![i].arg = IF calls[i].op = "token" THEN server'.tokens ELSE @]
    /\ UNCHANGED <<query, ui, ghost>>

Invalidates(op) ==
    CASE op \in {"createRule", "updateRule"} -> {"notification-rules"}
      [] op = "disconnect" -> {"admin-connections"}
      [] op = "cleanup" -> {"storage-stats"}
      [] OTHER -> {}

AfterSuccess(c) ==
    CASE c.op = "token" -> [ui EXCEPT !.token = c.arg]
      [] c.op = "user" -> [ui EXCEPT !.msg = "created", !.user = ""]
      [] c.op = "createRule" -> [ui EXCEPT !.rule = NewRule]
      [] OTHER -> ui

OnSuccess(i) ==
    /\ calls[i].state = "handled"
    /\ calls' = Over(i)
    /\ query' = Invalidated(query, Invalidates(calls[i].op))
    /\ ui' = AfterSuccess(calls[i])
    /\ UNCHANGED <<server, ghost>>

\* A failed request for an account leaves a message.
OnError(i) ==
    /\ i \in Open /\ (calls[i].state = "sent" \/ ~ghost.lost)
    /\ calls' = Over(i)
    /\ ui' = [ui EXCEPT !.msg = IF calls[i].op = "user" THEN "failed" ELSE @]
    /\ ghost' = [ghost EXCEPT !.lost = @ \/ calls[i].state = "handled"]
    /\ UNCHANGED <<server, query>>

Deliver(k) ==
    /\ query[k].state = "answered"
    /\ query' = Arrived(k)
    /\ UNCHANGED <<server, ui, calls, ghost>>

\* The queries whose section is used.
Used(k) ==
    \/ k = "notification-rules" /\ Uses("rules")
    \/ k = "admin-connections" /\ Uses("connections")
    \/ k = "storage-stats" /\ Uses("storage")

Next ==
    \/ \E t \in Texts : TypeBranding("name", t) \/ TypeBranding("label", t)
    \/ saveBranding \/ resetBranding \/ RemoveLogo
    \/ \E f \in Files : handleLogoUpload(f) \/ OnLoad(f)
    \/ generateToken \/ createUser \/ createRule \/ cleanupNow
    \/ \E u \in Names : TypeUser(u)
    \/ \E c \in Channels, t \in Texts : EditRule(c, t)
    \/ \E r \in Rules : updateRule(r)
    \/ \E d \in Devices : disconnectDevice(d)
    \/ \E i \in DOMAIN calls : HandleCall(i) \/ OnSuccess(i) \/ OnError(i)
    \/ \E k \in Queries : (Used(k) /\ Refetch(k)) \/ Serve(k, View(server, k)) \/ Deliver(k)

Spec == Init /\ [][Next]_vars

-----------------------------------------------------------------------------

\* Once nothing is under way, the rules, the connections and the row counts on
\* the page are the server's.
Settled ==
    Quiet /\ ~ghost.lost => \A k \in Queries : query[k].data = View(server, k)

\* The draft starts from the store and the two are only copied on Save: unless
\* a text has been typed since, the preview shows the name the sidebar shows.
PreviewIsSaved ==
    ~ghost.edited => (IF ui.draft.name = "" THEN DefaultName ELSE ui.draft.name) = ui.store.name

\* The form keeps what was typed for a channel that is no longer chosen: a rule
\* is stored with the target of its own channel and no other.
RuleTargets ==
    \A r \in Rules : LET rule == server.rules[r] IN
        /\ rule.webhook # Null => rule.channel = "webhook"
        /\ rule.email # Null => rule.channel = "email"
=============================================================================
