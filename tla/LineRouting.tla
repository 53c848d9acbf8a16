----------------------------- MODULE LineRouting -----------------------------
(***************************************************************************)
(* The choice of the line of a proxied node (internal/proxy: handler.go,   *)
(* websocket.go, direct.go, media.go, ttl.go).                             *)
(*                                                                         *)
(* A node has one or more target lines.  Every request walks them from the *)
(* active one on, passes over those banned, sends its request to a line in *)
(* one form after another while the line refuses it, and bans the line     *)
(* that fails it.  The active lines have a mutex and the bans another; no  *)
(* lock is held over a request, so the walks of requests interleave at     *)
(* every fetch, with each other and with the lines going down and coming   *)
(* back.  One node and one client session are modelled: the keys of the    *)
(* tables hold the node, those of the throttle the session.                *)
(***************************************************************************)
EXTENDS Integers, Sequences, FiniteSets

CONSTANTS
    LineRequests,     \* requests in flight at a time
    TargetLists,      \* the lists of lines the node is given, the first at first
    NoLine,
    BanTime, ThrottleTime,
    LineScopes,       \* bound: kinds of requests and events of a behaviour
    MaxLineNow, MaxLineEvents

VARIABLES
    lrNow,
    lrTargets,    \* the stored list of the node
    lrActive,     \* activeTarget of the node
    lrBans,       \* line -> end of its ban
    lrThrottle,   \* end of the throttle of the session's progress reports
    lrUp,         \* lines that answer
    lrWalk,       \* the request each walk is at
    lrScope, lrEvents,
    lrFailedAt    \* history: line -> last time an attempt at it failed

lineVars == <<lrNow, lrTargets, lrActive, lrBans, lrThrottle, lrUp, lrWalk,
              lrScope, lrEvents, lrFailedAt>>

Lists == {TargetLists[i] : i \in DOMAIN TargetLists}
Lines == UNION {{list[i] : i \in DOMAIN list} : list \in Lists}

(* A request for a node without a line is refused before its walk          *)
(* (handleNode, handleWebSocket); NoLine stands for the empty string.      *)
ASSUME LinesAssumption ==
    /\ TargetLists # <<>> /\ TargetLists \in Seq(Seq(Lines) \ {<<>>})
    /\ NoLine \notin Lines
    /\ BanTime \in Nat /\ ThrottleTime \in Nat

Never == -10
NoWalk == [kind |-> "none", phase |-> "ended", list |-> <<>>, from |-> NoLine,
           left |-> <<>>, form |-> 0, tried |-> 0, pass |-> 0, since |-> 0]

LineInit ==
    /\ lrNow = 0
    /\ lrTargets = TargetLists[1] /\ lrActive = NoLine
    /\ lrBans = [l \in Lines |-> Never] /\ lrThrottle = Never
    /\ lrUp = Lines
    /\ lrWalk = [r \in LineRequests |-> NoWalk]
    /\ lrScope \in LineScopes /\ lrEvents = 0
    /\ lrFailedAt = [l \in Lines |-> Never]

\* ttlMap.Get: an entry counts up to the end of its time.
Lives(end) == lrNow <= end
Banned(l) == Lives(lrBans[l])

\* ttlMap.Set: a new entry is dropped while the table is full.
EntersTable(old, ttl) ==
    {lrNow + ttl} \cup (IF "full" \in lrScope /\ ~Lives(old) THEN {old} ELSE {})

-----------------------------------------------------------------------------
\* What is sent to one line.  A form says which form follows each answer but
\* a good one; 0 is the end of the attempt with that answer.
Form(good, refused, bad, error) ==
    [good |-> good, refused |-> refused, bad |-> bad, error |-> error]
OnRefusal(next) == Form(0, next, 0, 0)

\* handleOneTarget: as it came; after a refusal the forms of retryGeneral403,
\* without an origin and with the line's own, twice.
GeneralForms == <<OnRefusal(2), OnRefusal(3), OnRefusal(4), OnRefusal(0)>>
\* tryAuthAPI: with and without the /emby prefix and an origin, whatever the
\* failure; then the general forms, of which a login has one more.
AuthForms ==
    [i \in 1..9 |-> IF i <= 4 THEN Form(0, i + 1, i + 1, i + 1)
                    ELSE OnRefusal(IF i = 9 THEN 0 ELSE i + 1)]
\* handleDirectWithClient: two candidates, https and http, refused twice.
DirectForms ==
    <<Form(0, 2, 0, 4), Form(0, 3, 0, 4), Form(0, 0, 0, 4),
      OnRefusal(5), OnRefusal(6), OnRefusal(0)>>
\* handleSTRM: the source file, then the address it holds.
StrmForms == <<Form(2, 0, 0, 0), OnRefusal(3), OnRefusal(4), OnRefusal(0)>>
\* handleMediaProxy for a report of progress.
ReportForms == <<OnRefusal(0)>>
\* tryWebSocketTarget: a refusal is passed to the client and ends the walk.
SocketForms == <<OnRefusal(0)>>

FormsOf(kind) ==
    CASE kind = "general" -> GeneralForms
      [] kind = "auth" -> AuthForms
      [] kind = "direct" -> DirectForms
      [] kind = "strm" -> StrmForms
      [] kind = "progress" -> ReportForms
      [] kind = "socket" -> SocketForms

\* A line that is up answers well or refuses a form; one that is down fails.
Answers(l) == IF l \in lrUp THEN {"good", "refused"} ELSE {"bad", "error"}

-----------------------------------------------------------------------------
\* The walk of a request

WalkAt(r, phase) == lrWalk[r].phase = phase
Walks(r, walk) == lrWalk' = [lrWalk EXCEPT ![r] = walk]
FirstLine(r) == Head(lrWalk[r].left)

LineArrives(r, kind) ==
    /\ WalkAt(r, "ended")
    /\ Walks(r, [NoWalk EXCEPT !.kind = kind, !.phase = "order",
                               !.list = lrTargets, !.since = lrNow])
    /\ UNCHANGED <<lrNow, lrTargets, lrActive, lrBans, lrThrottle, lrUp, lrFailedAt>>

Configured(l, list) == \E i \in DOMAIN list : list[i] = l

\* getActiveTarget stores the first line when the stored one is not listed.
ActiveOf(list) == IF Configured(lrActive, list) THEN lrActive ELSE list[1]

\* targetOrder: the list turned so that it starts with the active line.
Ordered(list, active) ==
    LET k == CHOOSE i \in DOMAIN list : list[i] = active
    IN  SubSeq(list, k, Len(list)) \o SubSeq(list, 1, k - 1)

TakesOrder(r) ==
    LET list == lrWalk[r].list
    IN  /\ WalkAt(r, "order")
        /\ lrActive' = ActiveOf(list)
        /\ Walks(r, [lrWalk[r] EXCEPT !.phase = "line", !.from = ActiveOf(list),
                                      !.left = Ordered(list, ActiveOf(list)), !.pass = 1])
        /\ UNCHANGED <<lrNow, lrTargets, lrBans, lrThrottle, lrUp, lrFailedAt>>

\* A report of progress looks at the throttle before it is sent.
Starts(kind) == IF kind = "progress" THEN "throttle" ELSE "sent"

PassesOver(walk, l) == walk.pass = 1 /\ Banned(l) /\ Len(walk.list) > 1

\* The loops of handleNode and handleWebSocket up to the next attempt.  When
\* the first pass tried no line, the second tries all of them, that of a
\* WebSocket only the first.
(* Mutant: there is no second pass.                                        *)
NextLineOncePassed(r) ==
    LET walk == lrWalk[r]
    IN  /\ WalkAt(r, "line")
        /\ \/ /\ walk.left # <<>> /\ PassesOver(walk, FirstLine(r))
              /\ Walks(r, [walk EXCEPT !.left = Tail(@)])
           \/ /\ walk.left # <<>> /\ ~PassesOver(walk, FirstLine(r))
              /\ Walks(r, [walk EXCEPT !.phase = Starts(walk.kind), !.tried = @ + 1, !.form = 1])
           \/ walk.left = <<>> /\ Walks(r, [walk EXCEPT !.phase = "failed"])
        /\ UNCHANGED <<lrNow, lrTargets, lrActive, lrBans, lrThrottle, lrUp, lrFailedAt>>
NextLine(r) ==
    LET walk == lrWalk[r]
    IN  /\ WalkAt(r, "line")
        /\ \/ /\ walk.left # <<>> /\ PassesOver(walk, FirstLine(r))
              /\ Walks(r, [walk EXCEPT !.left = Tail(@)])
           \/ /\ walk.left # <<>> /\ ~PassesOver(walk, FirstLine(r))
              /\ Walks(r, [walk EXCEPT !.phase = Starts(walk.kind), !.tried = @ + 1, !.form = 1])
           \/ /\ walk.left = <<>> /\ walk.tried = 0
              /\ LET again == Ordered(walk.list, walk.from)
                 IN  Walks(r, [walk EXCEPT !.pass = 2,
                     !.left = IF walk.kind = "socket" THEN <<again[1]>> ELSE again])
           \/ /\ walk.left = <<>> /\ walk.tried > 0
              /\ Walks(r, [walk EXCEPT !.phase = "failed"])
        /\ UNCHANGED <<lrNow, lrTargets, lrActive, lrBans, lrThrottle, lrUp, lrFailedAt>>

\* markTargetHealthy.
(* Mutant: the line that answered always becomes the active one.           *)
HealthyWithoutCheck(r) == FirstLine(r)
HealthyActive(r) ==
    LET walk == lrWalk[r]
        current == IF lrActive = NoLine THEN walk.list[1] ELSE lrActive
    IN  IF current \in {walk.from, FirstLine(r)} THEN FirstLine(r) ELSE lrActive

Succeeds(r) == lrActive' = HealthyActive(r) /\ Walks(r, NoWalk)

\* An attempt failed: the line is banned, except by the second pass of a
\* request that is not a WebSocket.
Fails(r) ==
    LET walk == lrWalk[r]
        l == FirstLine(r)
    IN  /\ IF walk.pass = 1 \/ walk.kind = "socket"
           THEN \E end \in EntersTable(lrBans[l], BanTime) :
                    lrBans' = [lrBans EXCEPT ![l] = end]
           ELSE UNCHANGED lrBans
        /\ lrFailedAt' = [lrFailedAt EXCEPT ![l] = lrNow]
        /\ Walks(r, [walk EXCEPT !.phase = "line", !.left = Tail(@), !.form = 0])

\* A report of progress within the throttle's time is answered here, and
\* counts as an answer of the line; any other starts that time, before it is
\* sent.
Throttled(r) ==
    /\ WalkAt(r, "throttle") /\ Lives(lrThrottle)
    /\ Succeeds(r)
    /\ UNCHANGED <<lrNow, lrTargets, lrBans, lrThrottle, lrUp, lrFailedAt>>

\* Another report may pass the check before the first has started the time.
PassesThrottle(r) ==
    /\ WalkAt(r, "throttle") /\ ~Lives(lrThrottle)
    /\ Walks(r, [lrWalk[r] EXCEPT !.phase = "starts"])
    /\ UNCHANGED <<lrNow, lrTargets, lrActive, lrBans, lrThrottle, lrUp, lrFailedAt>>

StartsThrottle(r) ==
    /\ WalkAt(r, "starts")
    /\ \E end \in EntersTable(lrThrottle, ThrottleTime) : lrThrottle' = end
    /\ Walks(r, [lrWalk[r] EXCEPT !.phase = "sent"])
    /\ UNCHANGED <<lrNow, lrTargets, lrActive, lrBans, lrUp, lrFailedAt>>

\* doFetch returns, and what the attempt makes of it.  A refusal (403) ends
\* the walk of a WebSocket; of any other request it fails the line.
LineAnswers(r, answer) ==
    LET walk == lrWalk[r]
        next == FormsOf(walk.kind)[walk.form][answer]
    IN  /\ WalkAt(r, "sent") /\ answer \in Answers(FirstLine(r))
        /\ CASE next # 0 ->
                  /\ Walks(r, [walk EXCEPT !.form = next])
                  /\ UNCHANGED <<lrActive, lrBans, lrFailedAt>>
             [] next = 0 /\ answer = "good" ->
                  Succeeds(r) /\ UNCHANGED <<lrBans, lrFailedAt>>
             [] next = 0 /\ answer = "refused" /\ walk.kind = "socket" ->
                  Walks(r, NoWalk) /\ UNCHANGED <<lrActive, lrBans, lrFailedAt>>
             [] OTHER -> Fails(r) /\ UNCHANGED lrActive
        /\ UNCHANGED <<lrNow, lrTargets, lrThrottle, lrUp>>

\* The client goes away: the context of the request is cancelled, and every
\* attempt still to come fails at once like this one.
ClientLeaves(r) ==
    /\ WalkAt(r, "sent")
    /\ Fails(r)
    /\ UNCHANGED <<lrNow, lrTargets, lrActive, lrThrottle, lrUp>>

\* The failure is answered: the last response, or 502.
WalkEnds(r) ==
    /\ WalkAt(r, "failed") /\ Walks(r, NoWalk)
    /\ UNCHANGED <<lrNow, lrTargets, lrActive, lrBans, lrThrottle, lrUp, lrFailedAt>>

-----------------------------------------------------------------------------
\* The lines, the administrator and the clock.  Nothing calls
\* ResetNodeRoutingState: an edit leaves the active line and the bans.

LineChanges(l) ==
    /\ Configured(l, lrTargets)
    /\ lrEvents < MaxLineEvents /\ lrEvents' = lrEvents + 1
    /\ lrUp' = IF l \in lrUp THEN lrUp \ {l} ELSE lrUp \cup {l}
    /\ UNCHANGED <<lrNow, lrTargets, lrActive, lrBans, lrThrottle, lrWalk, lrFailedAt>>

EditsLines(list) ==
    /\ "edit" \in lrScope /\ list # lrTargets
    /\ lrEvents < MaxLineEvents /\ lrEvents' = lrEvents + 1
    /\ lrTargets' = list
    /\ UNCHANGED <<lrNow, lrActive, lrBans, lrThrottle, lrUp, lrWalk, lrFailedAt>>

LineTick ==
    /\ "brief" \notin lrScope /\ lrNow < MaxLineNow /\ lrNow' = lrNow + 1
    /\ UNCHANGED <<lrTargets, lrActive, lrBans, lrThrottle, lrUp, lrWalk, lrFailedAt>>

WalkStep(r) ==
    \/ \E kind \in lrScope \ {"edit", "full", "leave", "brief"} : LineArrives(r, kind)
    \/ TakesOrder(r) \/ NextLine(r) \/ Throttled(r)
    \/ PassesThrottle(r) \/ StartsThrottle(r)
    \/ \E answer \in {"good", "refused", "bad", "error"} : LineAnswers(r, answer)
    \/ "leave" \in lrScope /\ ClientLeaves(r)
    \/ WalkEnds(r)

LineNext ==
    /\ UNCHANGED lrScope
    /\ \/ (LineTick \/ \E r \in LineRequests : WalkStep(r)) /\ UNCHANGED lrEvents
       \/ \E l \in Lines : LineChanges(l)
       \/ \E list \in Lists : EditsLines(list)

LineSpec == LineInit /\ [][LineNext]_lineVars

-----------------------------------------------------------------------------
\* A request is answered with a failure only when it contacted a line itself
\* and every line of its list failed an attempt no longer ago than a ban
\* lasts: a line that was up all that time is never passed over, whatever
\* the walks of other requests did to the bans (handleNode's two loops).
FailureIsEarned ==
    \A r \in LineRequests : lrWalk[r].phase = "failed" =>
        /\ lrWalk[r].tried > 0
        /\ \A i \in DOMAIN lrWalk[r].list :
               lrFailedAt[lrWalk[r].list[i]] >= lrWalk[r].since - BanTime

\* The active line of a node gives way to another line of its list only
\* after an attempt at it failed: a slow request that started from an older
\* active line does not undo the switch another request made meanwhile
\* (markTargetHealthy compares with the line its walk started from).
LeftAfterFailure ==
    [][\A r \in LineRequests :
         ~WalkAt(r, "ended") /\ lrWalk'[r] = NoWalk /\ lrActive' # lrActive
         => lrFailedAt[lrActive] >= lrWalk[r].since - BanTime]_lineVars
=============================================================================
