------------------------------ MODULE LogBuffer ------------------------------
(***************************************************************************)
(* The log capture of main/m45_log_buffer.c.  A ring of the last LogSize   *)
(* lines exists only while somebody reads it: a request of the log page    *)
(* allocates it and puts its end of life off, a one-shot timer frees it.   *)
(* The tasks that log, the web server task and the timer task meet here.   *)
(*                                                                         *)
(* A line is one unit of the ring.  Positions count the lines of one ring: *)
(* they start again at 0 with each new one, which the page cannot see.     *)
(***************************************************************************)
EXTENDS Naturals

CONSTANTS
    LogSize,     \* M45_LOG_BUFFER_SIZE, in lines
    MaxLines,    \* bound: lines captured in a behaviour
    MaxPolls     \* bound: requests of the log page

ASSUME LogAssumption == LogSize \in Nat \ {0} /\ MaxLines \in Nat /\ MaxPolls \in Nat

VARIABLES
    ring,        \* the ring in use: 0 for none, otherwise its number
    rings,       \* how many rings there have been
    logSeq,      \* g_log_seq
    capturing,   \* g_log_capture_until_us is in the future
    timer,       \* g_log_release_timer is armed
    firing,      \* the timer task found the capture extended and will re-arm
    poll,        \* where the web server task is in logs_handler
    since,       \* the position the page asks from (X-Log-Next of its last answer)
    sinceRing,   \* history: the ring that answer was read from
    answer,      \* history: what the last answer left out and what it said
    lines, polls \* bounds

logVars == <<ring, rings, logSeq, capturing, timer, firing, poll, since, sinceRing,
             answer, lines, polls>>

NoAnswer == [missed |-> FALSE, truncated |-> FALSE, known |-> FALSE]

LogInit ==
    /\ ring = 0 /\ rings = 0 /\ logSeq = 0
    /\ capturing = FALSE /\ timer = FALSE /\ firing = FALSE
    /\ poll = "idle" /\ since = 0 /\ sinceRing = 0 /\ answer = NoAnswer
    /\ lines = 0 /\ polls = 0

\* A line reaches the ring.  Whether a capture is active is asked before the
\* line is formatted, so only the ring itself is certain here.
AppendLogBytes ==
    /\ ring # 0 /\ lines < MaxLines
    /\ logSeq' = logSeq + 1 /\ lines' = lines + 1
    /\ UNCHANGED <<ring, rings, capturing, timer, firing, poll, since, sinceRing, answer, polls>>

\* Five seconds without a request.  The handler itself takes far less.
CaptureEnds ==
    /\ capturing /\ poll \in {"idle", "looked"}
    /\ capturing' = FALSE
    /\ UNCHANGED <<ring, rings, logSeq, timer, firing, poll, since, sinceRing, answer, lines, polls>>

\* release_log_buffer: the timer may have been armed for an end that has been
\* put off since; then it is armed again, outside the lock.
Release ==
    /\ timer /\ ~firing
    /\ timer' = FALSE
    /\ IF capturing
       THEN firing' = TRUE /\ UNCHANGED <<ring, logSeq>>
       ELSE ring' = 0 /\ logSeq' = 0 /\ UNCHANGED firing
    /\ UNCHANGED <<rings, capturing, poll, since, sinceRing, answer, lines, polls>>

ReleaseRearms ==
    /\ firing
    /\ firing' = FALSE
    /\ timer' = TRUE         \* refused by the driver when armed already
    /\ UNCHANGED <<ring, rings, logSeq, capturing, poll, since, sinceRing, answer, lines, polls>>

PollUnchanged == UNCHANGED <<rings, firing, lines>>

\* keep_active, first look: is there a ring?  If there is not, one is
\* allocated before the lock is taken again; without memory nothing changes.
KeepActiveLooks ==
    /\ poll = "idle" /\ polls < MaxPolls
    /\ polls' = polls + 1
    /\ poll' \in IF ring = 0 THEN {"allocated", "copy"} ELSE {"looked"}
    /\ PollUnchanged /\ UNCHANGED <<ring, logSeq, capturing, timer, since, sinceRing, answer>>

\* Second look, under the lock: a ring released meanwhile is not replaced.
KeepActiveInstalls ==
    /\ poll \in {"allocated", "looked"}
    /\ capturing' = TRUE
    /\ IF ring = 0
       THEN /\ logSeq' = 0
            /\ IF poll = "allocated"
               THEN ring' = rings + 1 /\ rings' = rings + 1
               ELSE UNCHANGED <<ring, rings>>
       ELSE UNCHANGED <<ring, rings, logSeq>>
    /\ poll' = "stop"
    /\ UNCHANGED <<timer, firing, since, sinceRing, answer, lines, polls>>

\* The timer is stopped and started: the timer task may arm it in between.
KeepActiveStops ==
    /\ poll = "stop"
    /\ timer' = FALSE /\ poll' = "start"
    /\ PollUnchanged /\ UNCHANGED <<ring, logSeq, capturing, since, sinceRing, answer, polls>>

\* Broken variant: the timer is stopped and not started again.
KeepActiveForgets ==
    /\ poll = "start"
    /\ poll' = "copy"
    /\ PollUnchanged /\ UNCHANGED <<ring, logSeq, capturing, timer, since, sinceRing, answer, polls>>

KeepActiveStarts ==
    /\ poll = "start"
    /\ timer' = TRUE /\ poll' = "copy"
    /\ PollUnchanged /\ UNCHANGED <<ring, logSeq, capturing, since, sinceRing, answer, polls>>

\* Broken variant: the oldest line is still looked for when it is overwritten.
TooOldByOne(start) == start + LogSize + 1 < logSeq

TooOld(start) == start + LogSize < logSeq

\* The oldest line in the ring, and where copy_since starts.
Oldest == IF logSeq > LogSize THEN logSeq - LogSize ELSE 0

StartOf(start) ==
    CASE start = 0 \/ TooOld(start) -> Oldest
      [] start > logSeq -> logSeq
      [] OTHER -> start

\* What the page has not seen of the ring it is answered from: lines before
\* the start of the copy and lines the ring has overwritten already.
Seen == IF ring = sinceRing THEN since ELSE 0

CopySince ==
    /\ poll = "copy"
    /\ poll' = "idle"
    /\ IF ring = 0
       THEN /\ since' = 0 /\ sinceRing' = 0
            /\ answer' = NoAnswer
       ELSE /\ since' = logSeq /\ sinceRing' = ring
            /\ answer' = [missed |-> Seen < StartOf(since) \/ StartOf(since) < Oldest,
                          truncated |-> since # 0 /\ TooOld(since),
                          known |-> since # 0 /\ ring = sinceRing]
    /\ PollUnchanged /\ UNCHANGED <<ring, logSeq, capturing, timer, polls>>

\* No memory for the answer: the page keeps its position.
CopyFails ==
    /\ poll = "copy"
    /\ poll' = "idle" /\ answer' = NoAnswer
    /\ PollUnchanged /\ UNCHANGED <<ring, logSeq, capturing, timer, since, sinceRing, polls>>

LogNext ==
    \/ AppendLogBytes \/ CaptureEnds \/ Release \/ ReleaseRearms
    \/ KeepActiveLooks \/ KeepActiveInstalls \/ KeepActiveStops \/ KeepActiveStarts
    \/ CopySince \/ CopyFails

\* The timer task and the web server task run, and time passes.
LogFairness ==
    /\ WF_logVars(CaptureEnds)
    /\ WF_logVars(Release \/ ReleaseRearms)
    /\ WF_logVars(KeepActiveInstalls \/ KeepActiveStops \/ KeepActiveStarts \/ CopySince)

-----------------------------------------------------------------------------
(* Properties *)

\* A page that continues from a position of the ring it is answered from is
\* told when lines are missing in between.  Two pages are not: one that was
\* answered before the first line (its position 0 reads as a first request),
\* and one whose ring was released between two requests, where the position
\* is compared with the counter of another ring (copy_since).
MissedLinesAreTold ==
    (answer.missed /\ answer.known) => answer.truncated

\* When the page stops asking, the ring's memory is given back, whatever the
\* order in which the timer task and the last request use the timer
\* (release_log_buffer, keep_active).
RingIsGivenBack ==
    <>[](poll = "idle") => []<>(ring = 0)
=============================================================================
