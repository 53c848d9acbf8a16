----------------------------- MODULE ImageCache -----------------------------
(***************************************************************************)
(* The image cache and the limiter of image requests (internal/proxy:      *)
(* image_cache.go, image_limiter.go and the image part of                  *)
(* handleMediaProxy).                                                      *)
(*                                                                         *)
(* A request for an image that is not on disk leads the fill of its key or *)
(* waits for the one that does.  It then takes a slot of the node, waits   *)
(* for its turn, fetches, gives the slot back and copies the body to the   *)
(* client and, chunk by chunk, to a temporary file, which takes its place  *)
(* on disk at the end of the body.  Cache and limiter are objects of the   *)
(* handler that a change of the settings replaces; requests under way keep *)
(* theirs.  Files are shared.  One image of one node is modelled.          *)
(***************************************************************************)
EXTENDS Integers, FiniteSets

CONSTANTS
    ImageRequests,    \* requests in flight at a time
    Slots,            \* maxConcurrent
    StartInterval, Backoff,
    ImageSize,        \* chunks of the image
    ImageScopes,      \* bound: events of a behaviour
    MaxImageNow, MaxObjects

(* The limits are clamped to these (image_limiter.go), and there is an     *)
(* object of each to start with.                                           *)
ASSUME ImageAssumption ==
    /\ Slots \in Nat \ {0} /\ StartInterval \in Nat /\ Backoff \in Nat
    /\ ImageSize \in Nat \ {0} /\ MaxObjects \in Nat \ {0}

VARIABLES
    icNow,
    icCache, icLimiter,  \* number of the current object of each
    icFetch,      \* the request each of them is at
    icFills,      \* cache -> request that leads its fill, if any
    icBody,       \* the body on disk, if any
    icMeta,       \* whether a description of it is on disk
    icKnown,      \* caches that have the description in memory
    icExpired,    \* whether the entry on disk is too old
    icNextStart, icBackoffUntil,  \* limiter -> state of the node
    icScope,
    icServed      \* history: the body served from disk last, if any

icDisk == <<icBody, icMeta, icKnown, icExpired>>
icObjects == <<icCache, icLimiter>>
icLimits == <<icNextStart, icBackoffUntil>>
imageVars == <<icNow, icObjects, icFetch, icFills, icDisk, icLimits, icScope, icServed>>

ImageObjects == 1..MaxObjects
NoFetch == [phase |-> "done"]

ImageInit ==
    /\ icNow = 0 /\ icCache = 1 /\ icLimiter = 1
    /\ icFetch = [r \in ImageRequests |-> NoFetch]
    /\ icFills = [c \in ImageObjects |-> {}]
    /\ icBody = {} /\ icMeta = FALSE /\ icKnown = {} /\ icExpired = FALSE
    /\ icNextStart = [l \in ImageObjects |-> 0] /\ icBackoffUntil = [l \in ImageObjects |-> 0]
    /\ icScope \in ImageScopes
    /\ icServed = {}

FetchIn(r, phase) == icFetch[r].phase = phase
FetchTo(r, phase) == icFetch' = [icFetch EXCEPT ![r].phase = phase]

\* finishFill, once for every fill: its waiters go on.
(* Mutant: the end of a fetch without an entry does not finish the fill.   *)
LeavesFill(r, next) ==
    icFetch' = [icFetch EXCEPT ![r] = next] /\ UNCHANGED icFills
FinishesFill(r, next) ==
    /\ icFills' = [c \in ImageObjects |-> icFills[c] \ {r}]
    /\ icFetch' = [q \in ImageRequests |->
           CASE q = r -> next
             [] q # r /\ FetchIn(q, "wait") /\ icFetch[q].leader = r ->
                    [icFetch[q] EXCEPT !.phase = "again", !.leader = q]
             [] OTHER -> icFetch[q]]

-----------------------------------------------------------------------------
\* The cache

ImageArrives(r) ==
    /\ FetchIn(r, "done")
    /\ icFetch' = [icFetch EXCEPT ![r] =
           [phase |-> "lookup", cache |-> icCache, limiter |-> 0, leader |-> r, wake |-> 0,
            file |-> FALSE, sized |-> FALSE, read |-> 0, written |-> 0, failed |-> FALSE]]
    /\ UNCHANGED <<icNow, icObjects, icFills, icDisk, icLimits, icServed>>

\* remove
EntryRemoved(c) ==
    /\ icBody' = {} /\ icMeta' = FALSE /\ icKnown' = icKnown \ {c}
    /\ UNCHANGED icExpired

LookupMissed(r) == FetchTo(r, IF FetchIn(r, "again") THEN "slot" ELSE "fill")

\* cachedMeta: after ten seconds, or pushed out by others, the description is
\* no longer in memory; setCachedMeta puts it back.
InMemory(c) == {FALSE, (c \in icKnown)}
KeepsInMemory(c) == icKnown' = icKnown \cup {c}

\* readMeta: the description in memory, or the one on disk next to a body.
\* One without a body is removed.
LooksUp(r) ==
    LET c == icFetch[r].cache
    IN  /\ FetchIn(r, "lookup") \/ FetchIn(r, "again")
        /\ \E known \in InMemory(c) :
              LET found == known \/ (icMeta /\ icBody # {})
              IN  \/ /\ found /\ ~icExpired /\ KeepsInMemory(c)
                     /\ icFetch' = [icFetch EXCEPT ![r].phase =
                                       IF @ = "again" THEN "reopen" ELSE "open"]
                     /\ UNCHANGED <<icBody, icMeta, icExpired>>
                  \/ found /\ icExpired /\ EntryRemoved(c) /\ LookupMissed(r)
                  \/ ~found /\ icMeta /\ EntryRemoved(c) /\ LookupMissed(r)
                  \/ /\ ~found /\ ~icMeta /\ LookupMissed(r)
                     /\ icKnown' = icKnown \ {c}
                     /\ UNCHANGED <<icBody, icMeta, icExpired>>
        /\ UNCHANGED <<icNow, icObjects, icFills, icLimits, icServed>>

\* get: the body may have gone or changed since its description was read.
OpensBody(r) ==
    /\ FetchIn(r, "open") \/ FetchIn(r, "reopen")
    /\ \/ /\ icBody # {}
          /\ icServed' = icBody
          /\ icFetch' = [icFetch EXCEPT ![r] = NoFetch] /\ UNCHANGED icDisk
       \/ /\ icBody = {} /\ EntryRemoved(icFetch[r].cache) /\ UNCHANGED icServed
          /\ FetchTo(r, IF FetchIn(r, "reopen") THEN "slot" ELSE "fill")
    /\ UNCHANGED <<icNow, icObjects, icFills, icLimits>>

\* beginFill
BeginsFill(r) ==
    LET c == icFetch[r].cache
    IN  /\ FetchIn(r, "fill")
        /\ \/ /\ icFills[c] = {} /\ icFills' = [icFills EXCEPT ![c] = {r}]
              /\ FetchTo(r, "slot")
           \/ \E q \in icFills[c] :
                 /\ icFetch' = [icFetch EXCEPT ![r].phase = "wait", ![r].leader = q]
                 /\ UNCHANGED icFills
        /\ UNCHANGED <<icNow, icObjects, icDisk, icLimits, icServed>>

-----------------------------------------------------------------------------
\* The limiter

HasSlot(r, l) == icFetch[r].phase \in {"turn", "asleep", "fetch"} /\ icFetch[r].limiter = l
SlotHolders(l) == {r \in ImageRequests : HasSlot(r, l)}

\* ensureImageRequestLimiter and acquire: the current limiter, then a slot.
TakesLimiter(r) ==
    /\ FetchIn(r, "slot")
    /\ icFetch' = [icFetch EXCEPT ![r].phase = "queue", ![r].limiter = icLimiter]
    /\ UNCHANGED <<icNow, icObjects, icFills, icDisk, icLimits, icServed>>

TakesSlot(r) ==
    /\ FetchIn(r, "queue") /\ Cardinality(SlotHolders(icFetch[r].limiter)) < Slots
    /\ FetchTo(r, "turn")
    /\ UNCHANGED <<icNow, icObjects, icFills, icDisk, icLimits, icServed>>

StartAt(l) == IF icBackoffUntil[l] > icNextStart[l] THEN icBackoffUntil[l] ELSE icNextStart[l]

\* waitStartTurn: a request that has slept looks again.
StartsNow(r) ==
    LET l == icFetch[r].limiter
    IN  /\ icNextStart' = [icNextStart EXCEPT ![l] = icNow + StartInterval]
        /\ FetchTo(r, "fetch")
        /\ UNCHANGED icBackoffUntil
SleepsFor(r) ==
    /\ FetchIn(r, "turn") /\ icNow < StartAt(icFetch[r].limiter)
    /\ icFetch' = [icFetch EXCEPT ![r].phase = "asleep", ![r].wake = StartAt(icFetch[r].limiter)]
    /\ UNCHANGED <<icNow, icObjects, icFills, icDisk, icLimits, icServed>>
StartsFetch(r) ==
    /\ FetchIn(r, "turn") /\ icNow >= StartAt(icFetch[r].limiter) /\ StartsNow(r)
    /\ UNCHANGED <<icNow, icObjects, icFills, icDisk, icServed>>
WakesUp(r) ==
    /\ FetchIn(r, "asleep") /\ icNow >= icFetch[r].wake
    /\ icFetch' = [icFetch EXCEPT ![r].phase = "turn", ![r].wake = 0]
    /\ UNCHANGED <<icNow, icObjects, icFills, icDisk, icLimits, icServed>>

-----------------------------------------------------------------------------
\* The fetch and the copy

\* The client leaves while the request waits, or the fetch fails, or its
\* answer is not an image with status 200, or no file can be made for it.
FetchEnds(r) ==
    /\ icFetch[r].phase \in {"wait", "queue", "asleep", "fetch"}
    /\ FinishesFill(r, NoFetch)
    /\ UNCHANGED <<icNow, icObjects, icDisk, icLimits, icServed>>

\* noteRateLimited: 429 makes the current limiter back off, which need not be
\* the limiter of the request.
RateLimited(r) ==
    /\ FetchIn(r, "fetch")
    /\ icBackoffUntil' = [icBackoffUntil EXCEPT ![icLimiter] =
           IF icNow + Backoff > @ THEN icNow + Backoff ELSE @]
    /\ FinishesFill(r, NoFetch)
    /\ UNCHANGED <<icNow, icObjects, icDisk, icNextStart, icServed>>

\* wrapStore: the slot is given back, the fill goes with the body.  A length,
\* or the framing of chunks, tells where the body ends: with neither (not sized)
\* it ends where the upstream closes the connection.
FetchAnswered(r) ==
    /\ FetchIn(r, "fetch")
    /\ \E sized \in BOOLEAN :
          icFetch' = [icFetch EXCEPT ![r].phase = "copy", ![r].file = TRUE, ![r].limiter = 0,
                                     ![r].sized = sized]
    /\ UNCHANGED <<icNow, icObjects, icFills, icDisk, icLimits, icServed>>

\* imageCacheWriteCloser.Read: the client gets every chunk.  Once a write has
\* failed, no other is tried.
(* Mutant: a later write that succeeds makes good for one that failed.     *)
ChunkAgain(f, works) ==
    IF works THEN [f EXCEPT !.read = @ + 1, !.written = @ + 1, !.failed = FALSE]
             ELSE [f EXCEPT !.read = @ + 1, !.failed = TRUE]
Chunk(f, works) ==
    IF works /\ ~f.failed THEN [f EXCEPT !.read = @ + 1, !.written = @ + 1]
                          ELSE [f EXCEPT !.read = @ + 1, !.failed = TRUE]
ReadsChunk(r) ==
    /\ FetchIn(r, "copy") /\ icFetch[r].read < ImageSize
    /\ \E works \in BOOLEAN : icFetch' = [icFetch EXCEPT ![r] = Chunk(@, works)]
    /\ UNCHANGED <<icNow, icObjects, icFills, icDisk, icLimits, icServed>>

\* abort: the client leaves, or a sized body breaks off, which is an error and
\* not the end; and commit, when a write has failed or the file is gone.
AbortsCopy(r) ==
    /\ FetchIn(r, "copy") /\ FinishesFill(r, NoFetch)
    /\ UNCHANGED <<icNow, icObjects, icDisk, icLimits, icServed>>

\* commit at io.EOF, in two steps: what was written takes its place, then the
\* description, which may fail.
AtEnd(f) == f.read = ImageSize \/ ~f.sized
CommitsBody(r) ==
    /\ FetchIn(r, "copy") /\ AtEnd(icFetch[r]) /\ icFetch[r].file /\ ~icFetch[r].failed
    /\ icBody' = {[bytes |-> icFetch[r].written, sized |-> icFetch[r].sized]}
    /\ FetchTo(r, "commit")
    /\ UNCHANGED <<icNow, icObjects, icFills, icMeta, icKnown, icExpired, icLimits, icServed>>

CommitsMeta(r) ==
    /\ FetchIn(r, "commit") /\ FinishesFill(r, NoFetch)
    /\ \/ /\ icMeta' = TRUE /\ icExpired' = FALSE
          /\ KeepsInMemory(icFetch[r].cache) /\ UNCHANGED icBody
       \/ icBody' = {} /\ UNCHANGED <<icMeta, icKnown, icExpired>>
    /\ UNCHANGED <<icNow, icObjects, icLimits, icServed>>

-----------------------------------------------------------------------------
\* The administrator, the clock and a restart

\* Clear removes the directories, the files of copies under way included:
\* these can no longer be committed.
ClearsCache ==
    /\ "clear" \in icScope
    /\ icBody' = {} /\ icMeta' = FALSE /\ icKnown' = icKnown \ {icCache}
    /\ icFetch' = [r \in ImageRequests |->
           IF FetchIn(r, "copy") THEN [icFetch[r] EXCEPT !.file = FALSE] ELSE icFetch[r]]
    /\ UNCHANGED <<icNow, icObjects, icFills, icExpired, icLimits, icServed>>

EntryExpires ==
    /\ "expire" \in icScope /\ icMeta /\ ~icExpired /\ icExpired' = TRUE
    /\ UNCHANGED <<icNow, icObjects, icFetch, icFills, icBody, icMeta, icKnown, icLimits, icServed>>

ReplacesCache ==
    /\ "cache" \in icScope /\ icCache < MaxObjects /\ icCache' = icCache + 1
    /\ UNCHANGED <<icNow, icLimiter, icFetch, icFills, icDisk, icLimits, icServed>>

ReplacesLimiter ==
    /\ "limiter" \in icScope /\ icLimiter < MaxObjects /\ icLimiter' = icLimiter + 1
    /\ UNCHANGED <<icNow, icCache, icFetch, icFills, icDisk, icLimits, icServed>>

\* Of a cache only the files are left; the objects are new ones.
ImageRestart ==
    /\ "crash" \in icScope
    /\ icFetch' = [r \in ImageRequests |-> NoFetch]
    /\ icFills' = [c \in ImageObjects |-> {}] /\ icKnown' = {}
    /\ icNextStart' = [l \in ImageObjects |-> 0] /\ icBackoffUntil' = [l \in ImageObjects |-> 0]
    /\ UNCHANGED <<icNow, icObjects, icBody, icMeta, icExpired, icServed>>

ImageTick ==
    /\ icNow < MaxImageNow /\ icNow' = icNow + 1
    /\ UNCHANGED <<icObjects, icFetch, icFills, icDisk, icLimits, icServed>>

ImageNext ==
    /\ UNCHANGED icScope
    /\ \/ \E r \in ImageRequests :
             \/ ImageArrives(r) \/ LooksUp(r) \/ OpensBody(r) \/ BeginsFill(r)
             \/ TakesLimiter(r) \/ TakesSlot(r) \/ SleepsFor(r) \/ StartsFetch(r) \/ WakesUp(r)
             \/ FetchEnds(r) \/ RateLimited(r) \/ FetchAnswered(r)
             \/ ReadsChunk(r) \/ AbortsCopy(r) \/ CommitsBody(r) \/ CommitsMeta(r)
       \/ ClearsCache \/ EntryExpires \/ ReplacesCache \/ ReplacesLimiter
       \/ ImageRestart \/ ImageTick

ImageSpec == ImageInit /\ [][ImageNext]_imageVars

-----------------------------------------------------------------------------
\* What the cache serves is the whole of an image, whoever left, failed to write
\* or cleared it while it was filled (imageCacheWriteCloser), unless the upstream
\* did not say where it ends: commit takes every end for that of the image.
ServedWhole == \A body \in icServed : body.sized => body.bytes = ImageSize

\* A request that waits for a fill waits for one that is under way, whose
\* leader neither waits itself nor stands behind one that waits for the same
\* fill with a slot in its hand (beginFill, finishFill on every way out of
\* handleMediaProxy, waitFill before acquire).
WaitersAreLed ==
    \A r \in ImageRequests : icFetch[r].phase = "wait" =>
        LET leader == icFetch[r].leader
        IN  /\ leader \in icFills[icFetch[r].cache]
            /\ icFetch[leader].phase \notin {"done", "wait"}
            /\ \A l \in ImageObjects : ~HasSlot(r, l)
=============================================================================
