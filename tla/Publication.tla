------------------------------ MODULE Publication ------------------------------
(***************************************************************************)
(* Publishing one server of the console on both edges.  The handlers that  *)
(* hold publicationMu work through saves of the server, its publication    *)
(* row and its managed route and through calls of the publication agent    *)
(* (PublicationAgent); when a step fails they undo what they did.  Beside  *)
(* them the console saves, deletes and tags servers without that mutex.    *)
(*                                                                         *)
(* A handler is the list of steps it has yet to take.  Failing reads end a *)
(* request before it changes anything and are left out.  Lines are those   *)
(* of one primary upstream: another one is refused for a published server. *)
(***************************************************************************)
EXTENDS PublicationAgent

CONSTANTS
  Kinds,   \* requests that are made
  Direct,  \* cleanup is also called for published servers, where the
           \* console's page does not offer it
  Overlap  \* what the console does while a handler runs

Kind == {"publish", "refresh", "update", "cleanup", "sweep", "unpublish",
         "normalize", "canary"}
Edit == {"save", "delete", "tag"}

ASSUME RequestsAssumption ==
  Kinds \subseteq Kind /\ Overlap \subseteq Edit /\ Direct \in BOOLEAN

VARIABLES
  handler,  \* the request that holds publicationMu
  console   \* a request of the console that does not take it

vars == <<database, edges, socket, agent, faults, handler, console>>

------------------------------------------------------------------------------
(* Handlers *)

(* Mutant: the route is made public as it is staged. *)
PublicAtOnce == <<"mark", "commit", "call", "settle", "verify">>
FirstPublication == <<"mark", "stage", "call", "commit", "settle", "verify">>

(* The steps of each handler when nothing fails.  publish is a first        *)
(* publication, refresh the same request for a published server; sweep is a *)
(* cleanup that has no edge to call; normalize is what reconcile, unpublish *)
(* and cleanup do when there are no artifacts.                              *)
Program(kind) ==
  CASE kind = "publish"   -> FirstPublication
    [] kind = "refresh"   -> <<"mark", "call", "settle", "verify">>
    [] kind = "update"    -> <<"retarget", "mark", "reline", "call", "settle">>
    [] kind = "cleanup"   -> <<"call", "drop", "settle">>
    [] kind = "sweep"     -> <<"drop", "settle">>
    [] kind = "unpublish" -> <<"mark", "call", "drop", "settle">>
    [] kind = "normalize" -> <<"settle">>
    [] kind = "canary"    -> <<"verify">>

(* Mutant: a failed update leaves the edges to the agent's own rollback. *)
RestoreDatabase == <<"renode", "reroute", "record">>
RestoreLines == <<"renode", "reroute", "remark", "recall", "record">>

(* What is left to do once a step has failed.  These steps go on whatever   *)
(* becomes of them.                                                         *)
Undo(kind, step) ==
  CASE kind = "publish" /\ step = "stage" -> <<"record">>
    [] kind = "publish" /\ step \in {"call", "commit", "settle"} ->
         <<"recall", "redrop", "record">>
    [] kind = "refresh" /\ step = "call" -> <<"record">>
    [] kind = "update" /\ step = "mark" -> <<"renode">>
    [] kind = "update" /\ step = "reline" -> <<"renode", "record">>
    [] kind = "update" /\ step \in {"call", "settle"} ->
         RestoreLines
    [] kind = "unpublish" /\ step \in {"call", "drop"} -> <<"record">>
    [] OTHER -> <<>>

Step == {"mark", "stage", "call", "commit", "settle", "verify", "retarget",
         "reline", "drop", "recall", "redrop", "record", "renode", "reroute",
         "remark"}

(* plan: the lines to publish.  was: the server and row: the publication    *)
(* row to go back to; row is also the one that record saves.  sent: the     *)
(* call of this step is made.  cancelled: the client is gone, and with its  *)
(* context every later save and call fails.                                 *)
Handler == [kind : Kind \cup {"none"}, todo : Seq(Step), plan : Lines \cup {None},
            was : Lines \cup {None}, row : Row \cup {None},
            sent : BOOLEAN, cancelled : BOOLEAN]
Console == [do : Edit \cup {"none"}, next : Lines \cup {None}]

NoHandler == [kind |-> "none", todo |-> <<>>, plan |-> None, was |-> None,
              row |-> None, sent |-> FALSE, cancelled |-> FALSE]
NoConsole == [do |-> "none", next |-> None]

NewRow(status) ==
  [status |-> status, stale |-> FALSE, clean |-> status = "saved"]

(* No server is saved yet. *)
Init ==
  /\ node = None /\ pub = None /\ route = None
  /\ AgentInit
  /\ handler = NoHandler /\ console = NoConsole

Free == handler.kind = "none" /\ (console.do # "none" => console.do \in Overlap)

Begins(kind, plan) ==
  handler' = [NoHandler EXCEPT !.kind = kind, !.todo = Program(kind),
                               !.plan = plan, !.was = node, !.row = pub]

(* publicationArtifacts: anything that may still have to be removed. *)
Artifacts == route # None \/ (pub # None /\ ~pub.clean)

Reported(status) == pub # None /\ pub.status = status

(* publish of a server that is not published.  A failed or uncertain row    *)
(* without artifacts is normalized first.                                   *)
PublishBegins ==
  /\ "publish" \in Kinds /\ Free
  /\ node # None /\ ~Reported("published") /\ route = None
  /\ \/ pub = None /\ UNCHANGED pub
     \/ Reported("failed") /\ ~pub.clean /\ UNCHANGED pub
     \/ /\ pub # None /\ pub.status \in {"failed", "needs_sync", "saved"} /\ pub.clean
        /\ pub' = NewRow("saved")
  /\ \E plan \in IF "save" \in Overlap THEN Lines ELSE {node} : Begins("publish", plan)
  /\ UNCHANGED <<node, route, edges, socket, agent, faults, console>>

RefreshBegins ==
  /\ "refresh" \in Kinds /\ Free
  /\ node # None /\ Reported("published")
  /\ Begins("refresh", node)
  /\ UNCHANGED <<database, edges, socket, agent, faults, console>>

(* save of a published server with other lines. *)
UpdateBegins ==
  /\ "update" \in Kinds /\ Free
  /\ node # None /\ Reported("published") /\ route # None
  /\ \E next \in Lines \ {node} : Begins("update", next)
  /\ UNCHANGED <<database, edges, socket, agent, faults, console>>

(* Mutant: an interrupted request is taken for one that still runs. *)
CleanupOfNeedsSync ==
  /\ "cleanup" \in Kinds /\ Free
  /\ node # None /\ Artifacts /\ (Reported("failed") \/ Reported("needs_sync"))
  /\ Begins(IF ~pub.clean THEN "cleanup" ELSE "sweep", None)
  /\ UNCHANGED <<database, edges, socket, agent, faults, console>>

CleanupBegins ==
  /\ "cleanup" \in Kinds /\ Free
  /\ node # None /\ Artifacts /\ (Reported("published") => Direct)
  /\ Begins(IF pub # None /\ ~pub.clean THEN "cleanup" ELSE "sweep", None)
  /\ UNCHANGED <<database, edges, socket, agent, faults, console>>

NormalizeBegins ==
  /\ "normalize" \in Kinds /\ Free
  /\ node # None /\ pub # None /\ ~Artifacts
  /\ Begins("normalize", None)
  /\ UNCHANGED <<database, edges, socket, agent, faults, console>>

UnpublishBegins ==
  /\ "unpublish" \in Kinds /\ Free
  /\ node # None /\ Reported("published") /\ Artifacts
  /\ Begins("unpublish", None)
  /\ UNCHANGED <<database, edges, socket, agent, faults, console>>

CanaryBegins ==
  /\ "canary" \in Kinds /\ Free
  /\ node # None /\ Reported("published")
  /\ Begins("canary", None)
  /\ UNCHANGED <<database, edges, socket, agent, faults, console>>

------------------------------------------------------------------------------
(* Steps of a handler *)

At(step) == handler.todo # <<>> /\ Head(handler.todo) = step /\ ~handler.sent

(* The handler goes on with these steps, or returns. *)
Goes(todo, row) ==
  handler' = IF todo = <<>> THEN NoHandler
             ELSE [handler EXCEPT !.todo = todo, !.row = row, !.sent = FALSE]

Continues == Goes(Tail(handler.todo), handler.row)
Diverts(row) == Goes(Undo(handler.kind, Head(handler.todo)), row)

(* A save works or fails; with a cancelled context it always fails. *)
Saves == ~handler.cancelled /\ UNCHANGED faults
SaveFails == IF handler.cancelled THEN UNCHANGED faults ELSE Fault("save")

Pending(status) == [handler.row EXCEPT !.status = status, !.clean = FALSE]

Mark ==
  /\ At("mark")
  /\ \/ /\ Saves /\ Continues
        /\ pub' = CASE handler.kind = "publish" -> NewRow("publishing")
                    [] handler.kind = "unpublish" -> Pending("unpublishing")
                    [] OTHER -> Pending("publishing")
     \/ SaveFails /\ Diverts(handler.row) /\ UNCHANGED pub
  /\ UNCHANGED <<node, route, edges, socket, agent, console>>

Stage ==
  /\ At("stage")
  /\ \/ /\ Saves /\ Continues
        /\ route' = [lines |-> handler.plan, public |-> FALSE]
     \/ SaveFails /\ Diverts(NewRow("failed")) /\ UNCHANGED route
  /\ UNCHANGED <<node, pub, edges, socket, agent, console>>

(* Both edges are synced: only now does the route become public. *)
Commit ==
  /\ At("commit")
  /\ \/ /\ Saves /\ Continues
        /\ route' = [lines |-> handler.plan, public |-> TRUE]
     \/ SaveFails /\ Diverts(handler.row) /\ UNCHANGED route
  /\ UNCHANGED <<node, pub, edges, socket, agent, console>>

Settle ==
  /\ At("settle")
  /\ \/ /\ Saves /\ Continues
        /\ pub' = NewRow(IF handler.kind \in {"publish", "refresh", "update"}
                         THEN "published" ELSE "saved")
     \/ SaveFails /\ Diverts(handler.row) /\ UNCHANGED pub
  /\ UNCHANGED <<node, route, edges, socket, agent, console>>

(* SaveNode fails also when only its second statement does. *)
Retarget ==
  /\ At("retarget")
  /\ \/ Saves /\ Continues /\ node' = handler.plan
     \/ SaveFails /\ Diverts(handler.row) /\ node' \in {node, handler.plan}
  /\ UNCHANGED <<pub, route, edges, socket, agent, console>>

Reline ==
  /\ At("reline")
  /\ \/ Saves /\ Continues /\ route' = [lines |-> handler.plan, public |-> route.public]
     \/ SaveFails /\ Diverts(handler.row) /\ UNCHANGED route
  /\ UNCHANGED <<node, pub, edges, socket, agent, console>>

(* DeleteManagedRoute after the edges are clean. *)
Drop ==
  /\ At("drop")
  /\ \/ Saves /\ Continues /\ route' = None
     \/ /\ SaveFails /\ UNCHANGED route
        /\ Diverts([NewRow("failed") EXCEPT !.clean = TRUE])
  /\ UNCHANGED <<node, pub, edges, socket, agent, console>>

(* The undoing steps, whose errors are ignored.  A route that cannot be     *)
(* dropped makes the publication one that needs_sync.                       *)
Redrop ==
  /\ At("redrop")
  /\ \/ Saves /\ Continues /\ route' = None
     \/ /\ SaveFails /\ UNCHANGED route
        /\ Goes(Tail(handler.todo), [handler.row EXCEPT !.status = "needs_sync"])
  /\ UNCHANGED <<node, pub, edges, socket, agent, console>>

Renode ==
  /\ At("renode") /\ Continues
  /\ \/ Saves /\ node' = handler.was
     \/ SaveFails /\ node' \in {node, handler.was}
  /\ UNCHANGED <<pub, route, edges, socket, agent, console>>

Reroute ==
  /\ At("reroute") /\ Continues
  /\ \/ Saves /\ route' = [lines |-> handler.was, public |-> route.public]
     \/ SaveFails /\ UNCHANGED route
  /\ UNCHANGED <<node, pub, edges, socket, agent, console>>

Rerow ==
  /\ At("record") \/ At("remark")
  /\ Continues
  /\ \/ Saves /\ pub' = IF At("record") THEN handler.row ELSE Pending("publishing")
     \/ SaveFails /\ UNCHANGED pub
  /\ UNCHANGED <<node, route, edges, socket, agent, console>>

------------------------------------------------------------------------------
(* Calls of the agent *)

Asks ==
  CASE At("call") -> IF handler.kind \in {"cleanup", "unpublish"} THEN "unpublish" ELSE "publish"
    [] At("recall") -> IF handler.kind = "publish" THEN "unpublish" ELSE "publish"
    [] OTHER -> "canary"

(* rollbackFailedPublish: the row to record after the edges were cleaned, *)
(* or after that failed.                                                  *)
Undone(a) == [status |-> IF Clean(a) THEN "failed" ELSE "needs_sync",
              stale |-> FALSE, clean |-> Clean(a)]

(* What a handler does with an answer. *)
Heard(a) ==
  LET step == Head(handler.todo) IN
    CASE step = "verify" -> Continues
      [] step = "recall" /\ handler.kind = "publish" -> Goes(Tail(handler.todo), Undone(a))
      [] step = "recall" /\ handler.kind # "publish" -> Continues
      [] step = "call" /\ handler.kind = "cleanup" ->
           IF Clean(a) THEN Continues ELSE Diverts(handler.row)
      [] step = "call" /\ handler.kind = "unpublish" ->
           IF \A e \in Edges : a[e] = "removed" THEN Continues
           ELSE Diverts([status |-> "needs_sync", stale |-> FALSE, clean |-> Clean(a)])
      [] step = "call" /\ handler.kind = "refresh" ->
           IF Synced(a) THEN Continues ELSE Diverts([handler.row EXCEPT !.stale = TRUE])
      [] OTHER -> IF Synced(a) THEN Continues ELSE Diverts(handler.row)

(* The request is on the agent's socket, or cannot be put there. *)
Calls ==
  /\ At("call") \/ At("recall") \/ At("verify")
  /\ \/ /\ ~handler.cancelled
        /\ queue' = Append(queue, Asks) /\ asked' = TRUE /\ UNCHANGED <<answer, faults>>
        /\ handler' = [handler EXCEPT !.sent = TRUE]
     \/ /\ IF handler.cancelled THEN UNCHANGED faults ELSE Fault("away")
        /\ Heard(Unavailable)
        /\ UNCHANGED socket
  /\ UNCHANGED <<database, edges, agent, console>>

(* There is no credential to run a canary with after a publish. *)
Skips ==
  /\ At("verify") /\ handler.kind # "canary"
  /\ Continues
  /\ UNCHANGED <<database, edges, socket, agent, faults, console>>

Hears ==
  /\ handler.sent /\ answer # None
  /\ Heard(answer)
  /\ answer' = None
  /\ UNCHANGED <<database, edges, queue, asked, agent, faults, console>>

(* 45 seconds have passed; the agent goes on. *)
TimesOut ==
  /\ handler.sent /\ asked
  /\ Fault("timeout")
  /\ Heard(Unavailable)
  /\ asked' = FALSE
  /\ UNCHANGED <<database, edges, queue, answer, agent, console>>

(* The client closes its connection. *)
ClientLeaves ==
  /\ handler.kind # "none" /\ ~handler.cancelled
  /\ Fault("cancel")
  /\ handler' = [handler EXCEPT !.cancelled = TRUE]
  /\ UNCHANGED <<database, edges, socket, agent, console>>

ControllerCrashes ==
  /\ Fault("crash")
  /\ handler.kind # "none" \/ console.do # "none"
  /\ handler' = NoHandler /\ console' = NoConsole
  /\ asked' = FALSE /\ answer' = None
  /\ UNCHANGED <<database, edges, queue, agent>>

------------------------------------------------------------------------------
(* The console's requests that do not take the mutex *)

Unpublished == pub # None => pub.status = "saved"

(* What is checked and read.  toggleFav, saveOrder and batchTag write the   *)
(* server back as they read it, and so does a save that keeps its lines.    *)
ConsoleReads ==
  /\ console.do = "none"
  /\ \E do \in Edit :
       /\ handler.kind = "none" \/ do \in Overlap
       /\ \E next \in Lines \cup {None} :
            /\ CASE do = "save" -> Unpublished /\ next \in Lines
                 [] do = "delete" -> Unpublished /\ next = None
                 [] do = "tag" -> next = node /\ next # None
            /\ console' = [do |-> do, next |-> next]
  /\ UNCHANGED <<database, edges, socket, agent, faults, handler>>

(* DeleteNode and then DeletePublication, whose error is ignored, or the     *)
(* SaveNode of the others.                                                   *)
ConsoleWrites ==
  /\ console.do # "none"
  /\ \/ node' = console.next /\ UNCHANGED faults
        /\ pub' = IF console.do = "delete" THEN None ELSE pub
     \/ node' \in {node, console.next} /\ UNCHANGED pub /\ Fault("save")
  /\ console' = NoConsole
  /\ UNCHANGED <<route, edges, socket, agent, handler>>

------------------------------------------------------------------------------
HandlerBegins ==
  \/ PublishBegins \/ RefreshBegins \/ UpdateBegins \/ CleanupBegins
  \/ NormalizeBegins \/ UnpublishBegins \/ CanaryBegins

HandlerRuns ==
  \/ Mark \/ Stage \/ Commit \/ Settle \/ Retarget \/ Reline \/ Drop
  \/ Redrop \/ Renode \/ Reroute \/ Rerow \/ Calls \/ Skips \/ Hears \/ TimesOut

Failures == ClientLeaves \/ ControllerCrashes

Next ==
  \/ HandlerBegins \/ HandlerRuns \/ Failures
  \/ ConsoleReads \/ ConsoleWrites
  \/ AgentNext /\ UNCHANGED <<handler, console>>

Spec == Init /\ [][Next]_vars

(* Handlers and the agent have a deadline for everything they wait for; an  *)
(* administrator cleans up until it is done.                                *)
Fairness ==
  /\ WF_vars(HandlerRuns)
  /\ WF_vars(AgentRuns /\ UNCHANGED <<handler, console>>)
  /\ WF_vars(ConsoleWrites)
  /\ SF_vars(CleanupBegins \/ NormalizeBegins)

FairSpec == Spec /\ Fairness

------------------------------------------------------------------------------
(* Properties *)

(* Every variable keeps its type. *)
TypeOK ==
  /\ node \in Lines \cup {None}
  /\ pub \in Row \cup {None}
  /\ route \in Route \cup {None}
  /\ found \in BOOLEAN
  /\ files \in [Edges -> File] /\ loaded \in [Edges -> File]
  /\ queue \in Seq(Request) /\ asked \in BOOLEAN /\ answer \in Answer \cup {None}
  /\ agent \in Agent
  /\ faults \in 0..MaxFaults
  /\ handler \in Handler /\ console \in Console

(* What is on an edge, and a route, belongs to a server that exists and     *)
(* whose row says so: nothing is forgotten that only a cleanup of that      *)
(* server could remove (38-emby-publication-workflow.md:25).                *)
Accounted ==
  /\ pub = None \/ pub.clean \/ node = None => \A e \in Edges : files[e] = None
  /\ Unpublished \/ node = None => route = None

Serves(e) == loaded[e] # None /\ route # None /\ loaded[e].lines = route.lines

(* A route becomes public only when nginx serves its lines on both edges    *)
(* (38-emby-publication-workflow.md:13).                                    *)
PublicOnlyWhenServed ==
  [][ (route' # None /\ route'.public /\ (route = None \/ ~route.public))
      => \A e \in Edges : Serves(e)' ]_vars

(* One failure, of whatever kind and wherever it strikes, never leaves a    *)
(* server reported as configured that an edge does not serve.               *)
OneFailureSurvived ==
  faults <= 1 /\ handler.kind = "none" /\ Reported("published") /\ ~pub.stale
    => \E lines \in Lines : \A e \in Edges : loaded[e] # None /\ loaded[e].lines = lines

(* A server reported as published is served by both edges: an incomplete    *)
(* rollback "is never reported as published"                                *)
(* (38-emby-publication-workflow.md:15-16).                                 *)
ReportedIsServed == Reported("published") => \A e \in Edges : Serves(e)

Unsettled == pub # None /\ pub.status \in {"publishing", "unpublishing", "needs_sync"}

(* A fragment on an edge is not the one the agent would render now. *)
Conflict == \E e \in Edges : files[e] # None /\ files[e] # Manifest

(* An interrupted or failed publication does not stay in between, unless a  *)
(* fragment is there that the agent takes for somebody else's.              *)
Settles == Unsettled ~> (~Unsettled \/ []Conflict)
==============================================================================
