----------------------------- MODULE ApiSession -----------------------------
(***************************************************************************)
(* A user's session with the API: the tokens the server issues and checks  *)
(* (auth.py, auth_service.py, dependencies.py), and how a client keeps and *)
(* renews them: the web application (api/client.ts, authStore.ts) or the   *)
(* mobile one (mobile/src/api/client.ts, useAuth.ts).  Both send requests  *)
(* concurrently; the interceptor of each request renews the access token   *)
(* by itself when the answer is 401.                                       *)
(*                                                                         *)
(* The requests are for endpoints that depend on get_current_org_id, as    *)
(* nearly all of them do.  An access token is "org" or "orgless" by its    *)
(* claim org_id, until it is "expired".                                    *)
(***************************************************************************)
EXTENDS Naturals, FiniteSets

CONSTANTS
    Client,         \* "web" or "mobile"
    Requests,       \* requests that may be in flight together
    MaxExpiries,    \* bound on how often the access token expires
    Environment     \* what else happens: "network" (a refresh gets no answer),
                    \* "deactivate", "logout", "orgless" (a user with no
                    \* organization), "refresh" (a refresh token expires)

VARIABLES
    active,     \* users.is_active
    orgSet,     \* is users.active_org_id set
    access,     \* the stored access token
    refresh,    \* the stored refresh token
    signedIn,   \* isAuthenticated of the store, or of App
    req,        \* per request: where it is
    tok,        \* per request: the access token it carries, or was answered with
    rtok,       \* per request: the refresh token it sent
    retry,      \* per request: _retry (mobile)
    expiries,   \* number of expiries
    refused     \* (history) has the server refused the refresh that ended the session

vars == <<active, orgSet, access, refresh, signedIn, req, tok, rtok, retry, expiries, refused>>
userVars == <<active, orgSet>>
storeVars == <<access, refresh, signedIn>>
reqVars == <<req, tok, rtok, retry>>

Access == {"none", "org", "orgless", "expired"}
Refresh == {"none", "live", "expired"}
Settled == {"idle", "done", "rejected"}
Places == Settled \cup {"sent", "unauthorized", "refreshing", "answered", "again", "failed"}

TypeOK ==
    /\ active \in BOOLEAN /\ orgSet \in BOOLEAN
    /\ access \in Access /\ refresh \in Refresh /\ signedIn \in BOOLEAN
    /\ req \in [Requests -> Places] /\ tok \in [Requests -> Access]
    /\ rtok \in [Requests -> Refresh] /\ retry \in [Requests -> BOOLEAN]
    /\ expiries \in 0 .. MaxExpiries
    /\ refused \in BOOLEAN

Init ==
    /\ active = TRUE /\ orgSet = ("orgless" \notin Environment)
    /\ access = "none" /\ refresh = "none" /\ signedIn = FALSE
    /\ req = [r \in Requests |-> "idle"] /\ tok = [r \in Requests |-> "none"]
    /\ rtok = [r \in Requests |-> "none"] /\ retry = [r \in Requests |-> FALSE]
    /\ expiries = 0 /\ refused = FALSE

-----------------------------------------------------------------------------
(* The server *)

\* issue_tokens: the claim org_id is the user's active organization.
issue_tokens == IF orgSet THEN "org" ELSE "orgless"

\* get_current_user and get_current_org_id; everything they refuse is a 401.
Authorized(t) == t = "org" /\ active

Serve(r) ==
    /\ req[r] = "sent"
    /\ req' = [req EXCEPT ![r] = IF Authorized(tok[r]) THEN "done" ELSE "unauthorized"]
    /\ UNCHANGED <<userVars, storeVars, tok, rtok, retry, expiries, refused>>

\* POST /auth/refresh.
refresh_access_token(r) ==
    /\ req[r] = "refreshing"
    /\ IF rtok[r] = "live" /\ active
       THEN req' = [req EXCEPT ![r] = "answered"] /\ tok' = [tok EXCEPT ![r] = issue_tokens]
       ELSE req' = [req EXCEPT ![r] = "failed"] /\ UNCHANGED tok
    /\ refused' = (refused \/ req'[r] = "failed")
    /\ UNCHANGED <<userVars, storeVars, rtok, retry, expiries>>

-----------------------------------------------------------------------------
(* The client *)

\* The request interceptor attaches the stored token.
Send(r) ==
    /\ signedIn /\ req[r] \in Settled
    /\ req' = [req EXCEPT ![r] = "sent"] /\ tok' = [tok EXCEPT ![r] = access]
    /\ retry' = [retry EXCEPT ![r] = FALSE]
    /\ UNCHANGED <<userVars, storeVars, rtok, expiries, refused>>

\* Does the response interceptor look for a refresh token?
MayRefresh(r) == Client = "web" \/ ~retry[r]

\* Mutant: a 401 is taken for the end of the session.
InterceptEnds(r) ==
    /\ req[r] = "unauthorized"
    /\ req' = [req EXCEPT ![r] = "failed"]
    /\ UNCHANGED <<userVars, storeVars, tok, rtok, retry, expiries, refused>>

\* The response interceptor on a 401.  The mobile one clears the tokens if there
\* is no refresh token; the web one hands the 401 on.
Intercept(r) ==
    /\ req[r] = "unauthorized"
    /\ LET try == MayRefresh(r) IN
       /\ req' = [req EXCEPT ![r] = IF try /\ refresh # "none" THEN "refreshing" ELSE "rejected"]
       /\ rtok' = [rtok EXCEPT ![r] = IF try THEN refresh ELSE @]
       /\ access' = IF Client = "mobile" /\ try /\ refresh = "none" THEN "none" ELSE access
       /\ retry' = [retry EXCEPT ![r] = Client = "mobile"]
    /\ UNCHANGED <<userVars, refresh, signedIn, tok, expiries, refused>>

\* Mutant: the new access token is not stored, so that the old one is sent again.
RenewedUnsaved(r) ==
    /\ req[r] = "answered"
    /\ req' = [req EXCEPT ![r] = "sent"] /\ tok' = [tok EXCEPT ![r] = access]
    /\ UNCHANGED <<userVars, storeVars, rtok, retry, expiries, refused>>

\* Mutant: the web client stores the refresh token of the answer as well.
RenewedBoth(r) ==
    /\ req[r] = "answered"
    /\ access' = tok[r] /\ refresh' = "live"
    /\ req' = [req EXCEPT ![r] = IF Client = "mobile" THEN "again" ELSE "sent"]
    /\ UNCHANGED <<userVars, signedIn, tok, rtok, retry, expiries, refused>>

\* A renewed token is stored (the mobile client stores the refresh token too) and
\* the request is sent again.  The mobile client reads the stored token for that,
\* which takes a moment.
Renewed(r) ==
    /\ req[r] = "answered"
    /\ access' = tok[r]
    /\ refresh' = IF Client = "mobile" THEN "live" ELSE refresh
    /\ req' = [req EXCEPT ![r] = IF Client = "mobile" THEN "again" ELSE "sent"]
    /\ UNCHANGED <<userVars, signedIn, tok, rtok, retry, expiries, refused>>

Resend(r) ==
    /\ req[r] = "again"
    /\ req' = [req EXCEPT ![r] = "sent"] /\ tok' = [tok EXCEPT ![r] = access]
    /\ UNCHANGED <<userVars, storeVars, rtok, retry, expiries, refused>>

\* The application is loaded again: what was in flight is forgotten.
Reloaded(a) ==
    /\ signedIn' = (a # "none")
    /\ req' = [r \in Requests |-> "idle"] /\ tok' = [r \in Requests |-> "none"]
    /\ rtok' = [r \in Requests |-> "none"] /\ retry' = [r \in Requests |-> FALSE]

\* The refresh failed, for whatever reason: the web client clears its storage and
\* loads the login page; the mobile one clears the tokens and rejects the request.
RefreshFailed(r) ==
    /\ req[r] = "failed"
    /\ access' = "none" /\ refresh' = "none"
    /\ IF Client = "web" THEN Reloaded("none")
       ELSE req' = [req EXCEPT ![r] = "rejected"] /\ UNCHANGED <<signedIn, tok, rtok, retry>>
    /\ UNCHANGED <<userVars, expiries, refused>>

login ==
    /\ ~signedIn /\ active
    /\ access' = issue_tokens /\ refresh' = "live" /\ signedIn' = TRUE
    /\ refused' = FALSE
    /\ UNCHANGED <<userVars, reqVars, expiries>>

\* The tokens are removed; requests in flight go on.
logout ==
    /\ "logout" \in Environment /\ signedIn
    /\ access' = "none" /\ refresh' = "none" /\ signedIn' = FALSE
    /\ UNCHANGED <<userVars, reqVars, expiries, refused>>

\* The page is reloaded, or the mobile application started again (checkAuth).
Restart ==
    /\ Reloaded(access)
    /\ UNCHANGED <<userVars, access, refresh, expiries, refused>>

-----------------------------------------------------------------------------
(* The rest of the world *)

Old(t) == IF t = "none" THEN t ELSE "expired"

\* ACCESS_TOKEN_EXPIRE_MINUTES pass.
Expire ==
    /\ expiries < MaxExpiries
    /\ expiries' = expiries + 1
    /\ access' = Old(access) /\ tok' = [r \in Requests |-> Old(tok[r])]
    /\ UNCHANGED <<userVars, refresh, signedIn, req, rtok, retry, refused>>

\* REFRESH_TOKEN_EXPIRE_DAYS pass.
ExpireRefresh ==
    /\ "refresh" \in Environment
    /\ access' = Old(access) /\ tok' = [r \in Requests |-> Old(tok[r])]
    /\ refresh' = Old(refresh) /\ rtok' = [r \in Requests |-> Old(rtok[r])]
    /\ UNCHANGED <<userVars, signedIn, req, retry, expiries, refused>>

\* The request for a refresh gets no answer, or an error other than a refusal.
NetworkFails(r) ==
    /\ "network" \in Environment /\ req[r] = "refreshing"
    /\ req' = [req EXCEPT ![r] = "failed"]
    /\ UNCHANGED <<userVars, storeVars, tok, rtok, retry, expiries, refused>>

\* An administrator switches the account off or on.
Deactivate ==
    /\ "deactivate" \in Environment
    /\ active' = ~active
    /\ UNCHANGED <<orgSet, storeVars, reqVars, expiries, refused>>

\* What becomes of a request once it is sent.
Answering(r) ==
    \/ Serve(r) \/ refresh_access_token(r) \/ Intercept(r)
    \/ Renewed(r) \/ Resend(r) \/ RefreshFailed(r)

Next ==
    \/ \E r \in Requests : Send(r) \/ Answering(r) \/ NetworkFails(r)
    \/ login
    \/ logout
    \/ Restart
    \/ Expire
    \/ ExpireRefresh
    \/ Deactivate

Spec == Init /\ [][Next]_vars

-----------------------------------------------------------------------------
(***************************************************************************)
(* Properties                                                              *)
(***************************************************************************)

\* A stored access token comes with a refresh token, so that it can be renewed.
Renewable == access # "none" => refresh # "none"

\* What a refresh that was under way at sign-out stores afterwards in the web
\* client cannot be renewed: a client that is signed out, or was loaded again
\* with such a token, is out for good once the access token expires.
LeftoverEnds == ~signedIn => refresh = "none"

\* Every request ends: its caller gets an answer or an error, however many times
\* the interceptor renews the token.
RequestSettles == \A r \in Requests : req[r] \notin Settled ~> req[r] \in Settled

\* A session that can be renewed is renewed: while the refresh token is valid and
\* the account active, a request is answered, whether or not its token expired.
RequestAnswered ==
    \A r \in Requests :
        req[r] = "sent" ~> \/ req[r] \in {"done", "idle"}
                           \/ ~signedIn \/ refresh # "live" \/ ~active

\* A user's tokens are given up only if the server refused to renew them: refresh
\* tokens are "Used to obtain new access tokens without re-login".
SessionKept == refresh # "none" /\ refresh' = "none" => refused \/ logout
=============================================================================
