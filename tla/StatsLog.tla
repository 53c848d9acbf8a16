------------------------------ MODULE StatsLog ------------------------------
(***************************************************************************)
(* The statistics of an edge's access log (cmd/stats-collector,            *)
(* cmd/stats-sync, internal/statslog).                                     *)
(*                                                                         *)
(* Once a minute the collector opens the log of nginx, reads it from a     *)
(* cursor on, adds what it read to the rows of a local database, moves the *)
(* cursor and writes a snapshot of the recent rows.  The sync fetches the  *)
(* snapshot and merges it into the central database.  Both are processes   *)
(* that may fail or be killed between any two of these steps; neither runs *)
(* twice at a time.  nginx writes on meanwhile, and the log is rotated.    *)
(*                                                                         *)
(* The log of the edge NOSLA is modelled; BWG's collector writes to the    *)
(* central database itself.  nginx writes whole lines, and a line is one   *)
(* request; lines that do not parse are dropped and left out.              *)
(***************************************************************************)
EXTENDS Integers, Sequences, FiniteSetsExt

CONSTANTS
    ExportWindow,     \* age of the oldest row a snapshot has
    MaxLines, MaxLogs, MaxLogNow, MaxLogFaults  \* bounds of a behaviour

ASSUME LogAssumption == {MaxLines, MaxLogNow} \subseteq Nat

VARIABLES
    slNow,        \* the clock, in the minutes of the rows
    slLogs,       \* every log so far: its inode and its lines, the last is current
    slOut,        \* inode nginx writes to
    slCursor,     \* the cursor file
    slRun,        \* the run of the collector
    slLocal,      \* request_count of the rows of the local database
    slSnapshot,   \* the rows of the snapshot file
    slFetched,    \* the rows a run of the sync has fetched
    slCentral,    \* the rows of the central database
    \* history
    slMinute,     \* line -> when it was written, in the order of writing
    slTimes,      \* line -> number of times it was added to a row
    slLate,       \* lines a run read that were written after it began
    slMissed,     \* lines at the place of those of a truncated log
    slAborted     \* runs that added to the rows and did not move the cursor

logEdge == <<slNow, slLogs, slOut, slMinute>>
logStores == <<slLocal, slTimes>>
logSync == <<slFetched, slCentral>>
logVars == <<logEdge, slCursor, slRun, logStores, slSnapshot, logSync,
             slLate, slMissed, slAborted>>

LogLines == 1..MaxLines
Minutes == 0..MaxLogNow
NoRows == [b \in Minutes |-> 0]
NoCursor == [inode |-> 0, offset |-> 0, log |-> 0]
NoRun == [phase |-> "idle"]

LogInit ==
    /\ slNow = 0
    /\ slLogs = <<[inode |-> 1, lines |-> <<>>]>> /\ slOut = 1
    /\ slCursor = NoCursor /\ slRun = NoRun
    /\ slLocal = NoRows /\ slSnapshot = NoRows /\ slFetched = NoRows /\ slCentral = NoRows
    /\ slMinute = <<>> /\ slTimes = [l \in LogLines |-> 0]
    /\ slLate = {} /\ slMissed = {} /\ slAborted = 0

\* The log that an inode is by now: a truncated one has the same.
LogOf(inode) ==
    CHOOSE i \in DOMAIN slLogs :
        /\ slLogs[i].inode = inode
        /\ \A j \in DOMAIN slLogs : slLogs[j].inode = inode => j <= i
LinesOf(inode) == slLogs[LogOf(inode)].lines
CurrentInode == slLogs[Len(slLogs)].inode
LinesFrom(inode, offset) ==
    {LinesOf(inode)[i] : i \in offset + 1..Len(LinesOf(inode))}

RowsOf(lines) ==
    [b \in Minutes |-> Cardinality({l \in lines : slMinute[l] = b})]

-----------------------------------------------------------------------------
\* nginx, logrotate and the clock

WritesLine ==
    LET l == Len(slMinute) + 1
    IN  /\ l \in LogLines
        /\ slMinute' = Append(slMinute, slNow)
        /\ slLogs' = [slLogs EXCEPT ![LogOf(slOut)].lines = Append(@, l)]
        /\ UNCHANGED <<slNow, slOut, slCursor, slRun, logStores, slSnapshot, logSync,
                       slLate, slMissed, slAborted>>

\* The log is renamed, and nginx writes to the old one until it reopens it.
LogRotates ==
    /\ Len(slLogs) < MaxLogs
    /\ slLogs' = Append(slLogs, [inode |-> CurrentInode + 1, lines |-> <<>>])
    /\ UNCHANGED <<slNow, slOut, slMinute, slCursor, slRun, logStores, slSnapshot, logSync,
                   slLate, slMissed, slAborted>>

ReopensLog ==
    /\ slOut # CurrentInode /\ slOut' = CurrentInode
    /\ UNCHANGED <<slNow, slLogs, slMinute, slCursor, slRun, logStores, slSnapshot, logSync,
                   slLate, slMissed, slAborted>>

\* The log is truncated, or a new one has got the inode of a removed one.
LogTruncated ==
    /\ Len(slLogs) < MaxLogs /\ slOut = CurrentInode
    /\ slLogs' = Append(slLogs, [inode |-> CurrentInode, lines |-> <<>>])
    /\ UNCHANGED <<slNow, slOut, slMinute, slCursor, slRun, logStores, slSnapshot, logSync,
                   slLate, slMissed, slAborted>>

LogTick ==
    /\ slNow < MaxLogNow /\ slNow' = slNow + 1
    /\ UNCHANGED <<slLogs, slOut, slMinute, slCursor, slRun, logStores, slSnapshot, logSync,
                   slLate, slMissed, slAborted>>

-----------------------------------------------------------------------------
\* The collector

\* The cursor counts when it is of this file and the file has not shrunk.
StartOffset ==
    IF slCursor.inode = CurrentInode /\ slCursor.offset <= Len(LinesOf(CurrentInode))
    THEN slCursor.offset ELSE 0

\* The log is opened, its size taken and the cursor read.
OpensLog ==
    LET size == Len(LinesOf(CurrentInode))
    IN  /\ slRun = NoRun
        /\ slRun' = [phase |-> "scan", inode |-> CurrentInode, log |-> Len(slLogs),
                     from |-> StartOffset, size |-> size, events |-> {},
                     written |-> Len(slMinute)]  \* history
        /\ slMissed' = IF slCursor.log = Len(slLogs) THEN slMissed
                       ELSE slMissed \cup {LinesOf(CurrentInode)[i] : i \in 1..StartOffset}
        /\ UNCHANGED <<logEdge, slCursor, logStores, slSnapshot, logSync, slLate, slAborted>>

\* parseLines: to the end of the file, whatever its size was before.
ScansLog ==
    LET events == LinesFrom(slRun.inode, slRun.from)
    IN  /\ slRun.phase = "scan"
        /\ slRun' = [slRun EXCEPT !.phase = "ingest", !.events = events]
        /\ slLate' = slLate \cup {l \in events : l > slRun.written}
        /\ UNCHANGED <<logEdge, slCursor, logStores, slSnapshot, logSync, slMissed, slAborted>>

\* Ingest: one transaction.
Ingests ==
    /\ slRun.phase = "ingest"
    /\ slLocal' = [b \in Minutes |-> slLocal[b] + RowsOf(slRun.events)[b]]
    /\ slTimes' = [l \in LogLines |-> slTimes[l] + IF l \in slRun.events THEN 1 ELSE 0]
    /\ slRun' = [slRun EXCEPT !.phase = "cursor"]
    /\ UNCHANGED <<logEdge, slCursor, slSnapshot, logSync, slLate, slMissed, slAborted>>

\* The cursor goes to the end the file had when it was opened.
(* Mutant: to the end it has by now.                                       *)
EndOfFile == Len(LinesOf(slRun.inode))
EndAsOpened == slRun.size

MovesCursor ==
    /\ slRun.phase = "cursor"
    /\ slCursor' = [inode |-> slRun.inode, offset |-> EndAsOpened, log |-> slRun.log]
    /\ slRun' = [slRun EXCEPT !.phase = "snapshot"]
    /\ UNCHANGED <<logEdge, logStores, slSnapshot, logSync, slLate, slMissed, slAborted>>

\* writeSnapshot: the recent rows take the place of the file.
WritesSnapshot ==
    /\ slRun.phase = "snapshot"
    /\ slSnapshot' = [b \in Minutes |-> IF b >= slNow - ExportWindow THEN slLocal[b] ELSE 0]
    /\ slRun' = NoRun
    /\ UNCHANGED <<logEdge, slCursor, logStores, logSync, slLate, slMissed, slAborted>>

\* A step fails, or the process is killed before it.
CollectorFails ==
    /\ slRun # NoRun
    /\ IF slRun.phase = "cursor"
       THEN slAborted < MaxLogFaults /\ slAborted' = slAborted + 1
       ELSE UNCHANGED slAborted
    /\ slRun' = NoRun
    /\ UNCHANGED <<logEdge, slCursor, logStores, slSnapshot, logSync, slLate, slMissed>>

-----------------------------------------------------------------------------
\* The sync: the snapshot is fetched, from the file as it is, and merged in
\* one transaction, later than newer ones of the collector or never.

FetchesSnapshot ==
    /\ slFetched' = slSnapshot
    /\ UNCHANGED <<logEdge, slCursor, slRun, logStores, slSnapshot, slCentral,
                   slLate, slMissed, slAborted>>

LargerOf(a, b) == IF a >= b THEN a ELSE b

ImportsSnapshot ==
    /\ slCentral' = [b \in Minutes |-> LargerOf(slCentral[b], slFetched[b])]
    /\ UNCHANGED <<logEdge, slCursor, slRun, logStores, slSnapshot, slFetched,
                   slLate, slMissed, slAborted>>

LogNext ==
    \/ WritesLine \/ LogRotates \/ ReopensLog \/ LogTruncated \/ LogTick
    \/ OpensLog \/ ScansLog \/ Ingests \/ MovesCursor \/ WritesSnapshot \/ CollectorFails
    \/ FetchesSnapshot \/ ImportsSnapshot

LogSpec == LogInit /\ [][LogNext]_logVars

-----------------------------------------------------------------------------
\* Every line before the cursor was added to a row, though lines are written
\* and the log is rotated while it is read, unless the log was truncated and
\* had grown past the cursor when the next run opened it.
NothingSkipped ==
    slCursor.log = Len(slLogs) =>
        \A i \in 1..slCursor.offset :
            LET l == slLogs[slCursor.log].lines[i]
            IN  slTimes[l] > 0 \/ l \in slMissed

\* The central rows count a line again only for a run that failed between
\* the rows and the cursor, and once more when it was written while the log
\* was read: an old snapshot, or one imported twice, adds nothing.
CountedAgain ==
    /\ \A l \in LogLines : slTimes[l] <= 1 + slAborted + IF l \in slLate THEN 1 ELSE 0
    /\ \A b \in Minutes :
          slCentral[b] <= SumFunctionOnSet(slTimes, {l \in DOMAIN slMinute : slMinute[l] = b})

\* Both: the cursor and the rows follow the log (collector main, ImportSnapshot).
LogAccounted == NothingSkipped /\ CountedAgain
=============================================================================
