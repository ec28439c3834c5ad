----------------------------- MODULE AgentEvents -----------------------------
(***************************************************************************)
(* How the agent turns log lines into events:                              *)
(*   client/cmd/agent/main.go                        eventLoop             *)
(*   client/internal/collector/events_linux.go       CollectEvents         *)
(*   client/internal/collector/events_filter.go      shouldSkipEvent       *)
(*   client/internal/collector/events_rate_limit.go  ApplyEventRateLimit   *)
(*                                                                         *)
(* A poll reads the journal from the time of the last poll, then the kernel *)
(* buffer and the system log as they are; the filter drops what it let     *)
(* through a short time ago; the limiter cuts what is left.  Lines carry   *)
(* their time stamp, so a line is written once; the buffer shows it at     *)
(* every poll.  Time is counted in seconds, as journalctl is asked to.     *)
(***************************************************************************)
EXTENDS Integers, FiniteSets, Sequences

CONSTANTS
    Journal,        \* lines of the journal
    Buffer,         \* lines of the kernel buffer and of /var/log
    Crash,          \* those with a crash marker (all the fallback dmesg keeps)
    Excluded,       \* lines that are empty or match an exclude pattern
    JournalLines,   \* journalctl --lines
    DedupMax, DedupWindow, MaxEvents, RateWindow,   \* configuration
    Interval,       \* the poll interval
    MaxTime,        \* bound on the clock
    Environment     \* subset of {"slow", "fail"}: reads take time, reads fail

Lines == Journal \cup Buffer
Never == -1
Times == 0..MaxTime
Stamp == Times \cup {Never}

VARIABLES
    now, ticked,    \* the clock, and the ticker's channel of one tick
    written,        \* per line: when it was written
    lastChecked,
    phase,          \* "wait", "journal", "buffer", "done": where the poll is
    todo,           \* lines read and not yet filtered
    anyRead,        \* atLeastOneRead
    events,         \* the events of this poll
    entries, order, \* the deduper of each source: times by line, lines in order
    limiter,
    read, passed,   \* history: lines read; when the filter last let a line pass
    sent            \* history: per second, how many events were sent until its end

dedupVars == <<entries, order, passed>>
pollVars == <<phase, todo, anyRead, events, lastChecked>>
vars == <<now, ticked, written, pollVars, dedupVars, limiter, read, sent>>

Sources == {"journal", "buffer"}
Source(l) == IF l \in Journal THEN "journal" ELSE "buffer"

NoWindow == [start |-> Never, count |-> 0, dropped |-> 0, summarySent |-> FALSE]

TypeOK ==
    /\ now \in Times /\ ticked \in BOOLEAN
    /\ written \in [Lines -> Stamp]
    /\ lastChecked \in Times
    /\ phase \in {"wait", "journal", "buffer", "done"}
    /\ todo \subseteq Lines /\ anyRead \in BOOLEAN
    /\ events \in Seq(Lines)
    /\ entries \in [Lines -> Stamp] /\ passed \in [Lines -> Stamp]
    /\ order \in [Sources -> Seq(Lines)]
    /\ limiter \in [start : Stamp, count : 0..MaxEvents, dropped : Nat, summarySent : BOOLEAN]
    /\ read \subseteq Lines
    /\ sent \in [Times -> Nat]

Init ==
    /\ now = 0 /\ ticked = FALSE
    /\ written = [l \in Lines |-> Never]
    /\ lastChecked = 0
    /\ phase = "wait" /\ todo = {} /\ anyRead = FALSE /\ events = <<>>
    /\ entries = [l \in Lines |-> Never] /\ passed = [l \in Lines |-> Never]
    /\ order = [s \in Sources |-> <<>>]
    /\ limiter = NoWindow
    /\ read = {} /\ sent = [t \in Times |-> 0]

-----------------------------------------------------------------------------
(* The machine: time passes and lines are written. *)

Tick ==
    /\ now < MaxTime
    /\ phase # "wait" => "slow" \in Environment
    /\ now' = now + 1
    /\ ticked' = (ticked \/ now' % Interval = 0)
    /\ UNCHANGED <<written, pollVars, dedupVars, limiter, read, sent>>

Write(l) ==
    /\ written[l] = Never
    /\ written' = [written EXCEPT ![l] = now]
    /\ UNCHANGED <<now, ticked, pollVars, dedupVars, limiter, read, sent>>

-----------------------------------------------------------------------------
(* CollectEvents *)

\* What journalctl -S since --lines n prints: since is cut to whole seconds.
Since(t) == {l \in Journal : written[l] # Never /\ written[l] >= t}
Newest(S, n) == {l \in S : Cardinality({k \in S : written[k] > written[l]}) < n}

ReadJournal ==
    /\ phase = "wait" /\ ticked
    /\ ticked' = FALSE
    /\ phase' = "journal" /\ events' = <<>>
    /\ \/ LET out == Newest(Since(lastChecked), JournalLines)
          IN todo' = out /\ read' = read \cup out /\ anyRead' = TRUE
       \/ "fail" \in Environment /\ todo' = {} /\ anyRead' = FALSE /\ UNCHANGED read
    /\ UNCHANGED <<now, written, lastChecked, dedupVars, limiter, sent>>

\* dmesg and the system log, whole; or the fallback dmesg; or nothing readable.
ReadBuffer ==
    /\ phase = "journal" /\ todo = {}
    /\ phase' = "buffer"
    /\ LET shown == {l \in Buffer : written[l] # Never}
       IN \/ todo' = shown /\ anyRead' = TRUE
          \/ "fail" \in Environment /\ todo' = shown \cap Crash /\ anyRead' = TRUE
          \/ "fail" \in Environment /\ todo' = {} /\ UNCHANGED anyRead
    /\ read' = read \cup todo'
    /\ UNCHANGED <<now, ticked, written, lastChecked, events, dedupVars, limiter, sent>>

\* The entries, without those of line l's source that are too old.
Fresh(l) == [k \in Lines |->
                IF /\ Source(k) = Source(l) /\ entries[k] # Never
                   /\ now - entries[k] > DedupWindow
                THEN Never ELSE entries[k]]

\* Mutant: one line too many is kept, and evicted lines keep their entry.
RememberTwice(l) ==
    LET full   == Append(order[Source(l)], l)
        excess == IF Len(full) > DedupMax + 1 THEN Len(full) - DedupMax ELSE 0
    IN /\ order' = [order EXCEPT ![Source(l)] = SubSeq(full, excess + 1, Len(full))]
       /\ entries' = [Fresh(l) EXCEPT ![l] = now]

\* Remember line l: at the end of the order; the oldest lines beyond the limit
\* are forgotten.  The order keeps the lines of expired entries.
Remember(l) ==
    LET full   == Append(order[Source(l)], l)
        excess == IF Len(full) > DedupMax THEN Len(full) - DedupMax ELSE 0
        evict  == {full[i] : i \in 1..excess}
    IN /\ order' = [order EXCEPT ![Source(l)] = SubSeq(full, excess + 1, Len(full))]
       /\ entries' = [k \in Lines |-> IF k \in evict THEN Never
                                      ELSE IF k = l THEN now ELSE Fresh(l)[k]]

\* Mutant: a suppressed line renews its own entry.
SkipRenews(l) ==
    \/ l \in Excluded /\ UNCHANGED dedupVars
    \/ /\ l \notin Excluded /\ DedupMax > 0 /\ Fresh(l)[l] # Never
       /\ entries' = [Fresh(l) EXCEPT ![l] = now]
       /\ UNCHANGED <<order, passed>>

\* shouldSkipEvent and addEvent for line l.
Skip(l) ==
    \/ l \in Excluded /\ UNCHANGED dedupVars
    \/ /\ l \notin Excluded /\ DedupMax > 0 /\ Fresh(l)[l] # Never
       /\ entries' = Fresh(l)
       /\ UNCHANGED <<order, passed>>

Pass(l) ==
    /\ l \notin Excluded
    /\ \/ DedupMax = 0 /\ UNCHANGED <<entries, order>>
       \/ DedupMax > 0 /\ Fresh(l)[l] = Never /\ Remember(l)
    /\ passed' = [passed EXCEPT ![l] = now]

\* Lines come in the order they were written in.
AddEvent(l) ==
    /\ l \in todo /\ \A k \in todo : written[l] <= written[k]
    /\ todo' = todo \ {l}
    /\ \/ Skip(l) /\ UNCHANGED events
       \/ Pass(l) /\ events' = Append(events, l)
    /\ UNCHANGED <<now, ticked, written, phase, anyRead, lastChecked, limiter, read, sent>>

-----------------------------------------------------------------------------
(* The rest of eventLoop's turn *)

\* Nothing could be read: the next poll starts from the same time.
CollectFails ==
    /\ phase = "buffer" /\ todo = {} /\ ~anyRead
    /\ phase' = "wait"
    /\ UNCHANGED <<now, ticked, written, todo, anyRead, events, lastChecked, dedupVars, limiter,
                   read, sent>>

Collected ==
    /\ phase = "buffer" /\ todo = {} /\ anyRead
    /\ phase' = "done" /\ lastChecked' = now
    /\ UNCHANGED <<now, ticked, written, todo, anyRead, events, dedupVars, limiter, read, sent>>

\* The limiter's window at this moment: a new one if the old one has ended.
Window == IF limiter.start = Never \/ now - limiter.start > RateWindow
          THEN [NoWindow EXCEPT !.start = now] ELSE limiter

Smaller(a, b) == IF a < b THEN a ELSE b

\* The history of what is sent, with n more events at this moment.
CountSent(n) == sent' = [t \in Times |-> IF t < now THEN sent[t] ELSE sent[t] + n]

\* Mutant: the batch is counted but never cut to the limit.
ApplyUncapped ==
    IF events = <<>> THEN UNCHANGED <<limiter, sent>>
    ELSE /\ limiter' = [Window EXCEPT !.count = @ + Len(events)]
         /\ CountSent(Len(events))

\* Events beyond the limit are dropped; the first time in a window a summary
\* event tells so.
ApplyEventRateLimit ==
    IF events = <<>> THEN UNCHANGED <<limiter, sent>>
    ELSE LET w       == Window
             kept    == Smaller(MaxEvents - w.count, Len(events))
             dropped == w.dropped + (Len(events) - kept)
             tell    == dropped > 0 /\ ~w.summarySent
         IN /\ limiter' = [w EXCEPT !.count = w.count + kept, !.dropped = dropped,
                                    !.summarySent = w.summarySent \/ tell]
            /\ CountSent(kept)

SendEvents ==
    /\ phase = "done"
    /\ phase' = "wait" /\ events' = <<>>
    /\ ApplyEventRateLimit
    /\ UNCHANGED <<now, ticked, written, todo, anyRead, lastChecked, dedupVars, read>>

-----------------------------------------------------------------------------
Next ==
    \/ Tick \/ ReadJournal \/ ReadBuffer \/ CollectFails \/ Collected \/ SendEvents
    \/ \E l \in Lines : Write(l) \/ AddEvent(l)

Spec == Init /\ [][Next]_vars

-----------------------------------------------------------------------------
(***************************************************************************)
(* Properties                                                              *)
(***************************************************************************)

\* The deduper of a source stays within dedup_max_entries, and every line it
\* remembers is in the order it evicts from: no entry is out of eviction's reach.
DedupBounded ==
    \A s \in Sources :
        /\ Len(order[s]) <= DedupMax
        /\ \A l \in Lines : entries[l] # Never /\ Source(l) = s
                              => \E i \in 1..Len(order[s]) : order[s][i] = l

\* The filter suppresses a line only if it let that line pass within the last
\* DedupWindow: a line that is still there is reported again after the window.
SuppressedRecently ==
    \A l \in todo \ todo' :
        l \notin Excluded /\ passed'[l] # now
          => passed[l] # Never /\ now - passed[l] <= DedupWindow

\* However polls fall, no stretch of RateWindow holds more than two full
\* windows of the limiter.
SentBefore(t) == IF t = 0 THEN 0 ELSE sent[t - 1]
RateBound ==
    \A a, b \in Times : a <= b /\ b - a <= RateWindow => sent[b] - SentBefore(a) <= 2 * MaxEvents

\* A journal line that no poll has read is one the next poll will ask for.
NothingSkipped ==
    \A l \in Journal : written[l] # Never /\ l \notin read => written[l] >= lastChecked
==============================================================================
