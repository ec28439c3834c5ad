---------------------------- MODULE AgentUpdate ----------------------------
(***************************************************************************)
(* The agent's update of itself: internal/updater, the loop and the update *)
(* command of cmd/agent/main.go, the server's version and download         *)
(* endpoints, and the service manager (Restart=always) that starts the     *)
(* program again.  The loop and any number of commands check, download and *)
(* install at the same time in one process; a restart ends them all.       *)
(***************************************************************************)
EXTENDS Integers, Sequences

CONSTANTS
    Releases,       \* the versions ever published, sequences of numbers
    First,          \* the release installed at the beginning
    Commands,       \* update commands that may be under way at the same time
    MaxFailures,    \* bound on network, file and process errors
    MaxCommands     \* bound on update commands received

VARIABLES
    published,  \* version.txt of the server's dist directory
    binary,     \* the release its binary was built from
    disk,       \* the release at the agent's path
    running,    \* the release the process runs (AgentVersion)
    attempt,    \* per attempt: how far it has got
    got,        \* per attempt: the release in its temporary file
    failures,   \* errors so far
    received    \* commands so far

vars == <<published, binary, disk, running, attempt, got, failures, received>>

Attempts == Commands \cup {"loop"}
Stages == {"idle", "check", "download", "install", "restart", "ended"}

TypeOK ==
    /\ published \in Releases /\ binary \in Releases /\ disk \in Releases /\ running \in Releases
    /\ attempt \in [Attempts -> Stages] /\ got \in [Attempts -> Releases]
    /\ failures \in 0 .. MaxFailures /\ received \in 0 .. MaxCommands

-----------------------------------------------------------------------------

\* parseSemver: three numbers, 0 for the parts that are missing, the fourth and
\* later parts ignored.
parseSemver(v) == [i \in 1 .. 3 |-> IF i <= Len(v) THEN v[i] ELSE 0]

\* isNewerVersion: the first part that differs decides.
isNewerVersion(remote, current) ==
    LET r == parseSemver(remote)
        c == parseSemver(current)
    IN \E i \in 1 .. 3 : r[i] > c[i] /\ \A j \in 1 .. i - 1 : r[j] = c[j]

\* The process starts, and the loop with it: its first check comes at once.
Started == [a \in Attempts |-> IF a = "loop" THEN "check" ELSE "idle"]

Init ==
    /\ published = First /\ binary = First /\ disk = First /\ running = First
    /\ attempt = Started /\ got = [a \in Attempts |-> First]
    /\ failures = 0 /\ received = 0

\* An attempt that did not update: the loop waits for its ticker, a command
\* answers "Update check completed".
GiveUp(a) == attempt' = [attempt EXCEPT ![a] = "idle"]

\* The ticker.
Tick ==
    /\ attempt["loop"] = "idle"
    /\ attempt' = [attempt EXCEPT !["loop"] = "check"]
    /\ UNCHANGED <<published, binary, disk, running, got, failures, received>>

\* An update command arrives (with auto_update on).
Command(c) ==
    /\ attempt[c] = "idle" /\ received < MaxCommands
    /\ received' = received + 1
    /\ attempt' = [attempt EXCEPT ![c] = "check"]
    /\ UNCHANGED <<published, binary, disk, running, got, failures>>

\* What the server answers: the contents of version.txt, and the binary there is.
get_agent_version == published
download_agent == binary

\* GET /agent/version, compared with the version the process runs.
Check(a) ==
    /\ attempt[a] = "check"
    /\ IF isNewerVersion(get_agent_version, running) THEN attempt' = [attempt EXCEPT ![a] = "download"] ELSE GiveUp(a)
    /\ UNCHANGED <<published, binary, disk, running, got, failures, received>>

\* GET /agent/download into a temporary file of the program's directory.
Download(a) ==
    /\ attempt[a] = "download"
    /\ got' = [got EXCEPT ![a] = download_agent]
    /\ attempt' = [attempt EXCEPT ![a] = "install"]
    /\ UNCHANGED <<published, binary, disk, running, failures, received>>

\* os.Rename over the program.
Install(a) ==
    /\ attempt[a] = "install"
    /\ disk' = got[a]
    /\ attempt' = [attempt EXCEPT ![a] = "restart"]
    /\ UNCHANGED <<published, binary, running, got, failures, received>>

\* A step fails and the temporary file is removed; after a failed restart the
\* loop ends for good, and a command without an answer.
Fail(a) ==
    /\ attempt[a] \in {"check", "download", "install", "restart"} /\ failures < MaxFailures
    /\ failures' = failures + 1
    /\ IF attempt[a] = "restart" /\ a = "loop" THEN attempt' = [attempt EXCEPT ![a] = "ended"] ELSE GiveUp(a)
    /\ UNCHANGED <<published, binary, disk, running, got, received>>

\* restartAgent: the process exits, and the service manager starts what is on
\* the disk.
\* Mutant: an attempt under way survives, with the file it has downloaded.
RestartAlone(a) ==
    /\ attempt[a] = "restart"
    /\ running' = disk /\ GiveUp(a)
    /\ UNCHANGED <<published, binary, disk, got, failures, received>>
\* Mutant: the restart left to the next start of the machine.
RestartLater(a) ==
    /\ attempt[a] = "restart"
    /\ GiveUp(a)
    /\ UNCHANGED <<published, binary, disk, running, got, failures, received>>
restartAgent(a) ==
    /\ attempt[a] = "restart"
    /\ running' = disk /\ attempt' = Started
    /\ got' = [b \in Attempts |-> First]
    /\ UNCHANGED <<published, binary, disk, failures, received>>

\* The machine or the service restarts, whatever is under way.
Reboot ==
    /\ failures < MaxFailures /\ failures' = failures + 1
    /\ running' = disk /\ attempt' = Started
    /\ got' = [b \in Attempts |-> First]
    /\ UNCHANGED <<published, binary, disk, received>>

\* A new release on the server: version.txt first, then the binary.
Publish(v) ==
    /\ binary = published /\ isNewerVersion(v, published)
    /\ published' = v
    /\ UNCHANGED <<binary, disk, running, attempt, got, failures, received>>

PublishBinary ==
    /\ binary # published
    /\ binary' = published
    /\ UNCHANGED <<published, disk, running, attempt, got, failures, received>>

Next ==
    \/ Tick \/ Reboot \/ PublishBinary
    \/ \E c \in Commands : Command(c)
    \/ \E a \in Attempts : Check(a) \/ Download(a) \/ Install(a) \/ Fail(a) \/ restartAgent(a)
    \/ \E v \in Releases : Publish(v)

Spec == Init /\ [][Next]_vars

\* The next step of an attempt.
Proceed(a) == Check(a) \/ Download(a) \/ Install(a) \/ restartAgent(a)

\* The ticker ticks, attempts go on, and whoever publishes finishes.
Fairness == WF_vars(Tick) /\ WF_vars(PublishBinary) /\ \A a \in Attempts : WF_vars(Proceed(a))

-----------------------------------------------------------------------------
(***************************************************************************)
(* Properties                                                              *)
(***************************************************************************)

\* The agent never goes back to an older release: not when two attempts install
\* over each other, the one with the older download last, nor when the binary
\* that is served is behind the version.txt that was compared.
NeverOlder == [][~isNewerVersion(running, running')]_vars

\* The agent ends up with the release that is published, whatever attempts
\* overlap and whatever came late, unless its own restart failed: then the loop
\* has returned (main.go line 606).
Converges == <>[](~isNewerVersion(published, running)) \/ <>[](attempt["loop"] = "ended")
=============================================================================
