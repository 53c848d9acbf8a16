---------------------------- MODULE PlaybackStats ----------------------------
(***************************************************************************)
(* The playback statistics (internal/storage/stats.go and its callers in   *)
(* internal/proxy): plays, sessions, played time and traffic, per day and  *)
(* per bucket of a minute.                                                 *)
(*                                                                         *)
(* A report of a player is written twice: its effect on the state of the   *)
(* play before it is sent to a line, and all of it, through a queue, after *)
(* each answer of a line.  Both writes carry the time the report arrived,  *)
(* may fail, and may overtake those of other reports.  LogPlayback is one  *)
(* transaction, LogPlaybackTraffic two statements.  A crash loses the      *)
(* queue.  One play of one client on one node and one day is modelled, all *)
(* the keys of the tables are its own.                                     *)
(***************************************************************************)
EXTENDS Integers, Sequences, FiniteSetsExt

CONSTANTS
    Reports,          \* requests in flight at a time
    QueueSize,        \* playbackAsyncQueueSize
    MaxInterval,      \* playbackMaxIntervalMillis
    PlayWindow,       \* the 15 minutes within which a play is not counted again
    BucketTime,       \* playbackBucketMillis
    ReportScopes,     \* bound: the reports players may send in a behaviour
    LineCount,        \* lines of the node
    MaxPlayNow, MaxReports  \* bounds of a behaviour

\* A bucket is a minute and a window 15 of them (storage/stats.go); LongAgo,
\* for a row that is not there, is longer ago than a window.
ASSUME StatsAssumption ==
    /\ {MaxPlayNow, LineCount} \subseteq Nat /\ BucketTime \in Nat \ {0}
    /\ PlayWindow \in 0..100

VARIABLES
    psNow,
    psReport,     \* the report each request carries
    psQueue,      \* playbackQueue
    psWriting,    \* traffic of which only the daily row is written
    psState,      \* row of playback_states
    psEvent, psSession,  \* last_ts of the rows of play_events, play_sessions
    psDaily,      \* row of play_stats
    psBuckets,    \* bucket -> row of play_buckets
    psMade,       \* number of requests made
    psScope,
    \* history
    psTimed,      \* tick -> number of times it was counted as played
    psPlays, psSessions  \* times of the plays and the sessions counted

statTables == <<psState, psEvent, psSession, psDaily, psBuckets,
                psTimed, psPlays, psSessions>>
statVars == <<psNow, psReport, psQueue, psWriting, psMade, psScope, statTables>>

Ticks == 0..MaxPlayNow
Buckets == 0..(MaxPlayNow \div BucketTime)
NoReport == [phase |-> "done"]
NoState == [known |-> FALSE]
Nothing == [time |-> 0, plays |-> 0, sessions |-> 0, errors |-> 0, bytes |-> 0]
LongAgo == -100

StatsInit ==
    /\ psNow = 0
    /\ psReport = [r \in Reports |-> NoReport]
    /\ psQueue = <<>> /\ psWriting = <<>> /\ psMade = 0
    /\ psScope \in ReportScopes
    /\ psState = NoState /\ psEvent = LongAgo /\ psSession = LongAgo
    /\ psDaily = Nothing /\ psBuckets = [b \in Buckets |-> Nothing]
    /\ psTimed = [t \in Ticks |-> 0] /\ psPlays = {} /\ psSessions = {}

BucketOf(t) == t \div BucketTime
Larger(a, b) == IF a >= b THEN a ELSE b

-----------------------------------------------------------------------------
\* updatePlaybackState

StateOf(in) ==
    [known |-> TRUE, item |-> in.item, at |-> in.at, position |-> in.position,
     paused |-> in.paused, closed |-> in.event = "stopped"]

OtherItem(in) == psState.item # in.item

\* A report that is ignored: an older play, one for a closed play or one of
\* before the last, and a duplicate, which has the time of the last one; two
\* reports of progress may share a time when their positions differ.
Ignores(in) ==
    /\ psState.known
    /\ IF in.event = "playing" THEN in.at <= psState.at
       ELSE \/ psState.closed
            \/ in.at < psState.at
            \/ /\ in.at = psState.at /\ in.event # "stopped"
               /\ \/ 0 \in {in.position, psState.position}
                  \/ in.position = psState.position

\* The time between two reports counts as played when the first is not of a
\* pause, the position moved and they are not too far apart.
Interval(in) ==
    IF /\ psState.known /\ ~Ignores(in) /\ in.event # "playing" /\ ~OtherItem(in)
       /\ in.at - psState.at <= MaxInterval
       /\ ~psState.paused
       /\ 0 \notin {in.position, psState.position} /\ in.position # psState.position
    THEN psState.at..in.at - 1
    ELSE {}

StateAfter(in) ==
    IF Ignores(in) THEN psState
    ELSE IF ~psState.known \/ in.event = "playing" THEN StateOf(in)
    ELSE IF in.event = "stopped" /\ (in.at = psState.at \/ OtherItem(in))
    THEN [psState EXCEPT !.closed = TRUE, !.at = in.at]
    ELSE [StateOf(in) EXCEPT !.position = IF @ = 0 /\ ~OtherItem(in) THEN psState.position ELSE @]

\* playbackStatusSuccessful.
Succeeded(in) == in.status = "ok"

\* upsertPlayBucket, and the same for the day: a row after a report.
Plus(row, time, more) ==
    [row EXCEPT !.time = @ + time, !.plays = @ + more.plays,
                !.sessions = @ + more.sessions, !.errors = @ + more.errors]

\* addPlaybackDuration splits the played time over the buckets its ticks are
\* in; what else the report counts goes to the bucket of its own time.
Counted(in, time, more) ==
    /\ psDaily' = Plus(psDaily, Cardinality(time), more)
    /\ psBuckets' = [b \in Buckets |->
           Plus(psBuckets[b], Cardinality({t \in time : BucketOf(t) = b}),
                IF b = BucketOf(in.at) THEN more ELSE Nothing)]
    /\ psTimed' = [t \in Ticks |-> psTimed[t] + IF t \in time THEN 1 ELSE 0]

WritesState(in) ==
    /\ psState' = StateAfter(in)
    /\ Counted(in, Interval(in), Nothing)
    /\ UNCHANGED <<psEvent, psSession, psPlays, psSessions>>

\* LogPlayback of a report that is not for the state only: the session, the
\* state, and the play if it starts one.
(* Mutant: the time of the last start is that of the last one written.     *)
LastStartWritten(at) == at
LastStart(at) == Larger(psEvent, at)

LogPlayback(in) ==
    LET start == in.event = "playing" /\ Succeeded(in)
        play == start /\ in.at - psEvent >= PlayWindow
        session == start /\ in.at - psSession >= PlayWindow
        failed == in.event = "playing" /\ in.status = "error"
        active == Succeeded(in) /\ in.event # "playing" /\ psSession # LongAgo
    IN  /\ psState' = IF Succeeded(in) THEN StateAfter(in) ELSE psState
        /\ Counted(in, IF Succeeded(in) THEN Interval(in) ELSE {},
                   [plays |-> IF play THEN 1 ELSE 0, sessions |-> IF session THEN 1 ELSE 0,
                    errors |-> IF failed THEN 1 ELSE 0])
        /\ psEvent' = IF start THEN LastStart(in.at) ELSE psEvent
        /\ psSession' = IF start \/ active THEN Larger(psSession, in.at) ELSE psSession
        /\ psPlays' = psPlays \cup (IF play THEN {in.at} ELSE {})
        /\ psSessions' = psSessions \cup (IF session THEN {in.at} ELSE {})

-----------------------------------------------------------------------------
\* The proxy

ReportAt(r, phase) == psReport[r].phase = phase
Carries(r, report) == psReport' = [psReport EXCEPT ![r] = report]

\* A player sends a report, or reads media: the arrival is the time of all
\* its writes.  A report gives an item, a position (0: none) and whether the
\* player is paused.
PlayerSends(r, report) ==
    /\ ReportAt(r, "done") /\ psMade < MaxReports /\ psMade' = psMade + 1
    /\ Carries(r, [phase |-> IF report.event = "media" THEN "line" ELSE "state", at |-> psNow,
                   event |-> report.event, item |-> report.item,
                   position |-> report.position, paused |-> report.paused,
                   lines |-> LineCount])
    /\ UNCHANGED <<psNow, psQueue, psWriting, statTables>>

\* recordPlaybackState: the write before the report is sent, which may fail.
RecordsState(r) ==
    /\ ReportAt(r, "state")
    /\ WritesState(psReport[r]) \/ UNCHANGED statTables
    /\ Carries(r, [psReport[r] EXCEPT !.phase = "line"])
    /\ UNCHANGED <<psNow, psQueue, psWriting, psMade>>

\* LogPlaybackAsync drops what the queue has no room for.
Enqueued(in) ==
    psQueue' = IF Len(psQueue) < QueueSize THEN Append(psQueue, in) ELSE psQueue

\* After a failure the report goes to another line, from its first write on.
NextLineOrEnd(r) ==
    \/ Carries(r, NoReport)
    \/ /\ psReport[r].event # "media" /\ psReport[r].lines > 1
       /\ Carries(r, [psReport[r] EXCEPT !.phase = "state", !.lines = @ - 1])

\* A line answers and the answer is registered; a line that does not answer
\* registers nothing.
LineAnswered(r, status) ==
    /\ ReportAt(r, "line") /\ psReport[r].event # "media"
    /\ Enqueued([event |-> psReport[r].event, item |-> psReport[r].item,
                 position |-> psReport[r].position, paused |-> psReport[r].paused,
                 at |-> psReport[r].at, status |-> status])
    /\ IF status = "ok" THEN Carries(r, NoReport) ELSE NextLineOrEnd(r)
    /\ UNCHANGED <<psNow, psWriting, psMade, statTables>>

NoAnswer(r) ==
    /\ ReportAt(r, "line") /\ NextLineOrEnd(r)
    /\ UNCHANGED <<psNow, psQueue, psWriting, psMade, statTables>>

\* finishPlaybackLog: media was copied to the client.
MediaSent(r) ==
    /\ ReportAt(r, "line") /\ psReport[r].event = "media"
    /\ Enqueued([event |-> "traffic", at |-> psReport[r].at])
    /\ Carries(r, NoReport)
    /\ UNCHANGED <<psNow, psWriting, psMade, statTables>>

-----------------------------------------------------------------------------
\* The worker of the queue

\* A write that takes too long is given up.
WorkerWrites ==
    /\ psWriting = <<>> /\ psQueue # <<>> /\ Head(psQueue).event # "traffic"
    /\ psQueue' = Tail(psQueue)
    /\ LogPlayback(Head(psQueue)) \/ UNCHANGED statTables
    /\ UNCHANGED <<psNow, psReport, psWriting, psMade>>

\* LogPlaybackTraffic: the row of the day, then that of the bucket.
TrafficDay ==
    /\ psWriting = <<>> /\ psQueue # <<>> /\ Head(psQueue).event = "traffic"
    /\ psQueue' = Tail(psQueue)
    /\ \/ /\ psDaily' = [psDaily EXCEPT !.bytes = @ + 1]
          /\ psWriting' = <<Head(psQueue)>>
       \/ UNCHANGED <<psDaily, psWriting>>
    /\ UNCHANGED <<psNow, psReport, psMade, psState, psEvent, psSession, psBuckets,
                   psTimed, psPlays, psSessions>>

TrafficBucket ==
    /\ psWriting # <<>> /\ psWriting' = <<>>
    /\ \/ psBuckets' = [psBuckets EXCEPT ![BucketOf(Head(psWriting).at)].bytes = @ + 1]
       \/ UNCHANGED psBuckets
    /\ UNCHANGED <<psNow, psReport, psQueue, psMade, psState, psEvent, psSession, psDaily,
                   psTimed, psPlays, psSessions>>

\* The process dies: what is queued and in flight is lost.
StatsCrash ==
    /\ psReport' = [r \in Reports |-> NoReport]
    /\ psQueue' = <<>> /\ psWriting' = <<>>
    /\ UNCHANGED <<psNow, psMade, statTables>>

StatsTick ==
    /\ psNow < MaxPlayNow /\ psNow' = psNow + 1
    /\ UNCHANGED <<psReport, psQueue, psWriting, psMade, statTables>>

StatsNext ==
    /\ UNCHANGED psScope
    /\ \/ \E r \in Reports :
             \/ \E report \in psScope : PlayerSends(r, report)
             \/ RecordsState(r) \/ NoAnswer(r) \/ MediaSent(r)
             \/ \E status \in {"ok", "error"} : LineAnswered(r, status)
       \/ WorkerWrites \/ TrafficDay \/ TrafficBucket \/ StatsCrash \/ StatsTick

StatsSpec == StatsInit /\ [][StatsNext]_statVars

-----------------------------------------------------------------------------
\* No moment counts as played twice, and counted plays and sessions are a
\* window apart, though every report is written more than once, retried on
\* other lines and overtaken by others (updatePlaybackState and the last_ts
\* of play_events and play_sessions).
CountedOnce ==
    /\ \A t \in Ticks : psTimed[t] <= 1
    /\ \A times \in {psPlays, psSessions} : \A s, t \in times :
           s < t => t - s >= PlayWindow

\* The day is the sum of its buckets; traffic whose second statement failed
\* is missing from a bucket, never from the day.
BucketTotal(field) == SumFunction([b \in Buckets |-> psBuckets[b][field]])
TotalsAgree ==
    /\ \A field \in {"time", "plays", "sessions", "errors"} : BucketTotal(field) = psDaily[field]
    /\ BucketTotal("bytes") <= psDaily.bytes

\* Both: what the statistics show was counted once, for the day and in parts.
StatisticsAddUp == CountedOnce /\ TotalsAgree
=============================================================================
