----------------------------- MODULE RateLimit -----------------------------
(***************************************************************************)
(* check_rate_limit of core/redis.py, which counts the logins, enrollments *)
(* and registrations of one address in a Redis key that expires.  The two  *)
(* commands it sends are two steps, and its process can die in between.    *)
(***************************************************************************)
EXTENDS Naturals, FiniteSets

CONSTANTS
    Calls,      \* requests of the address under way at the same time
    Limit,      \* the argument limit
    MaxCount,   \* bound on the key's value
    MaxCrashes  \* bound on processes that die

VARIABLES
    count,      \* the key's value, 0 when there is no key
    expires,    \* whether the key has a time to live
    call,       \* per call: how far it has got
    current,    \* per call: the value INCR returned
    late,       \* calls that were counted by a key that is gone
    allowed,    \* calls let in of those the key counts
    refused,    \* whether one of those was refused
    crashes     \* processes that have died

vars == <<count, expires, call, current, late, allowed, refused, crashes>>

TypeOK ==
    /\ count \in 0 .. MaxCount /\ expires \in BOOLEAN /\ (expires => count > 0)
    /\ call \in [Calls -> {"idle", "expire", "decide"}]
    /\ current \in [Calls -> 0 .. MaxCount]
    /\ late \subseteq {c \in Calls : call[c] # "idle"}
    /\ allowed \in 0 .. MaxCount /\ refused \in BOOLEAN /\ crashes \in 0 .. MaxCrashes

Init ==
    /\ count = 0 /\ expires = FALSE /\ late = {} /\ allowed = 0 /\ refused = FALSE /\ crashes = 0
    /\ call = [c \in Calls |-> "idle"] /\ current = [c \in Calls |-> 0]

-----------------------------------------------------------------------------

\* redis.incr makes the key, without a time to live, when there is none.  The
\* call that made it goes on to give it one.
Incr(c) ==
    /\ call[c] = "idle" /\ count < MaxCount
    /\ count' = count + 1
    /\ current' = [current EXCEPT ![c] = count + 1]
    /\ call' = [call EXCEPT ![c] = IF count + 1 = 1 THEN "expire" ELSE "decide"]
    /\ UNCHANGED <<expires, late, allowed, refused, crashes>>

\* redis.expire.  The key is there: nothing else gives it a time to live.
Expire(c) ==
    /\ call[c] = "expire"
    /\ expires' = TRUE
    /\ call' = [call EXCEPT ![c] = "decide"]
    /\ UNCHANGED <<count, current, late, allowed, refused, crashes>>

\* The answer.
Within(n) == n < Limit

\* The endpoint goes on, or answers 429.
Decide(c) ==
    /\ call[c] = "decide"
    /\ allowed' = IF c \notin late /\ Within(current[c]) THEN allowed + 1 ELSE allowed
    /\ refused' = (refused \/ (c \notin late /\ ~Within(current[c])))
    /\ call' = [call EXCEPT ![c] = "idle"] /\ current' = [current EXCEPT ![c] = 0]
    /\ late' = late \ {c}
    /\ UNCHANGED <<count, expires, crashes>>

\* The window passes and Redis drops the key.
KeyExpires ==
    /\ expires
    /\ count' = 0 /\ expires' = FALSE /\ allowed' = 0 /\ refused' = FALSE
    /\ late' = {c \in Calls : call[c] # "idle"}
    /\ UNCHANGED <<call, current, crashes>>

\* The process that serves the call dies, or its connection to Redis does.
Crash(c) ==
    /\ call[c] # "idle" /\ crashes < MaxCrashes
    /\ crashes' = crashes + 1
    /\ call' = [call EXCEPT ![c] = "idle"] /\ current' = [current EXCEPT ![c] = 0]
    /\ late' = late \ {c}
    /\ UNCHANGED <<count, expires, allowed, refused>>

Next ==
    \/ \E c \in Calls : Incr(c) \/ Expire(c) \/ Decide(c) \/ Crash(c)
    \/ KeyExpires

Spec == Init /\ [][Next]_vars

-----------------------------------------------------------------------------
(***************************************************************************)
(* Properties                                                              *)
(***************************************************************************)

\* A window never lets in more than the limit, however the calls that race for
\* the last places interleave.
AtMostLimit == allowed <= Limit

\* The 429 carries "Retry-After": whoever was refused is let in again once a
\* window has passed, so the key that refused them goes.
RetryWorks == refused ~> count = 0
=============================================================================
