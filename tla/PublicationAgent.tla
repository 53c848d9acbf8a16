--------------------------- MODULE PublicationAgent ---------------------------
(***************************************************************************)
(* The publication agent and its two edges, for one server (a slug).  The  *)
(* agent runs as root beside the controller, on BWG.  It serves one        *)
(* request at a time, renders the server's nginx fragment from the         *)
(* controller's database, and has a helper write it on an edge and reload  *)
(* nginx: on BWG itself, on NOSLA through ssh.                             *)
(*                                                                         *)
(* A fragment is what it is rendered from: the server's lines and whether  *)
(* the redirect endpoint that a playback canary found is in the agent's    *)
(* store.  The redirect hosts of the root-owned configuration never change *)
(* and are left out.  A run of the helper is one step: the agent's mutex   *)
(* keeps every other one away.  What a run can leave behind when it fails, *)
(* is killed or loses its connection are outcomes of the step.             *)
(***************************************************************************)
EXTENDS Naturals, Sequences, SequencesExt

CONSTANTS
  Lines,     \* values of a server's target field
  None,      \* no node, row, route, fragment or answer
  Faults,    \* the kinds of failure that happen, among the ones named below
  MaxFaults  \* how many of them happen (bounds the model)

Edges == {"bwg", "nosla"}
FaultKinds ==
  {"edge", "drop", "timeout", "cancel", "save", "crash", "agent", "away"}

ASSUME FaultsAssumption == Faults \subseteq FaultKinds /\ MaxFaults \in Nat

VARIABLES
  node,    \* the server's target in proxy_kv
  pub,     \* its row of emby_publications
  route,   \* its row of managed_routes, with managed_route_lines
  found,   \* the agent's store lists the endpoint
  files,   \* the slug's fragment below the include directory of each edge
  loaded,  \* the fragment that nginx runs with on each edge
  queue,   \* requests on the agent's socket, in the order of its mutex
  agent,   \* the request it serves
  asked,   \* the controller still waits for the answer to the last request
  answer,  \* the answer it has received
  faults   \* how many faults have happened

database == <<node, pub, route>>
edges    == <<found, files, loaded>>
socket   == <<queue, asked, answer>>

------------------------------------------------------------------------------
(* Types *)

Fragment == [lines : Lines, found : BOOLEAN]
File     == Fragment \cup {None}
Request  == {"publish", "unpublish", "canary"}
Result   == {"synced", "removed", "absent", "failed"}
Answer   == [Edges -> Result]
Status   == {"saved", "publishing", "published", "unpublishing", "failed",
             "needs_sync"}

(* clean: both edges are recorded as removed or not_configured.  stale:     *)
(* the last refresh of the published server failed, and its reason says so. *)
Row   == [status : Status, stale : BOOLEAN, clean : BOOLEAN]
Route == [lines : Lines, public : BOOLEAN]

(* None is nothing else. *)
ASSUME NoneAssumption == None \notin Lines \cup Fragment \cup Row \cup Route \cup Answer

(* do: publish, unpublish, or a canary's publishUpdate from old to new      *)
(* (update) and back again (restore).                                       *)
Agent  == [do : {"idle", "publish", "unpublish", "update", "restore"},
           at : {"probe", "bwg", "nosla", "undo", "store"},
           new : File, old : File, bwg : Result]

Idle == [do |-> "idle", at |-> "bwg", new |-> None, old |-> None, bwg |-> "failed"]
Unavailable == [e \in Edges |-> "failed"]

AgentInit ==
  /\ found = FALSE
  /\ files = [e \in Edges |-> None] /\ loaded = [e \in Edges |-> None]
  /\ queue = <<>> /\ asked = FALSE /\ answer = None
  /\ agent = Idle
  /\ faults = 0

Fault(kind) == kind \in Faults /\ faults < MaxFaults /\ faults' = faults + 1

------------------------------------------------------------------------------
(* The helper on an edge *)

(* What a run of the helper ends with: its result, and the edge after it. *)
Outcome == [result : Result, file : File, loaded : File]

Unchanged(e) == [result |-> "failed", file |-> files[e], loaded |-> loaded[e]]

(* A fragment that is there already is not loaded again.  One that is there *)
(* but is not the one to remove is a route_conflict.                        *)
Runs(e, do, m) ==
  CASE do = "publish" ->
         [result |-> "synced", file |-> m,
          loaded |-> IF files[e] = m THEN loaded[e] ELSE m]
    [] do = "unpublish" /\ files[e] = None ->
         [result |-> "absent", file |-> None, loaded |-> loaded[e]]
    [] do = "unpublish" /\ files[e] = m ->
         [result |-> "removed", file |-> None, loaded |-> None]
    [] OTHER -> Unchanged(e)

(* nginx -t, the reload or a write fails: the old fragment is back, and     *)
(* loaded again if that reload works.  Not being able to delete what was    *)
(* moved away (post_reload_remove) makes a removal a failure as well.       *)
Breaks(e, do, m) ==
  {Unchanged(e)} \cup
  CASE do = "publish" /\ files[e] # m ->
         {[Unchanged(e) EXCEPT !.loaded = files[e]]}
    [] do = "unpublish" /\ files[e] = m ->
         {[Unchanged(e) EXCEPT !.loaded = files[e]],
          [Runs(e, do, m) EXCEPT !.result = "failed"]}
    [] OTHER -> {}

(* The helper is killed: before it began, between the rename and the        *)
(* reload, or when it was done.                                             *)
Killed(e, do, m) ==
  {Unchanged(e), Runs(e, do, m), [Runs(e, do, m) EXCEPT !.loaded = loaded[e]]}

Leaves(e, o) ==
  /\ files' = [files EXCEPT ![e] = o.file]
  /\ loaded' = [loaded EXCEPT ![e] = o.loaded]

(* The connection to NOSLA breaks: the answer is lost, and the run has been  *)
(* finished or has not begun.                                               *)
Dropped(do, m) == {Unchanged("nosla"), [Runs("nosla", do, m) EXCEPT !.result = "failed"]}

(* invokeLocal and invokeRemote: the helper's run on e ends with outcome o. *)
Invoke(e, do, m, o) ==
  /\ \/ o = Runs(e, do, m) /\ UNCHANGED faults
     \/ o \in Breaks(e, do, m) /\ Fault("edge")
     \/ e = "nosla" /\ o \in Dropped(do, m) /\ Fault("drop")
  /\ Leaves(e, o)

------------------------------------------------------------------------------
(* The agent *)

Removed == {"removed", "absent"}
(* Mutant: only the edge beside the controller counts. *)
CleanLocally(a) == a["bwg"] \in Removed
Clean(a) == \A e \in Edges : a[e] \in Removed
Synced(a) == \A e \in Edges : a[e] = "synced"

(* The answer goes to whom asked last, if he is still there. *)
Answers(bwg, nosla) ==
  IF asked /\ queue' = <<>>
  THEN /\ asked' = FALSE
       /\ answer' = [e \in Edges |-> IF e = "bwg" THEN bwg ELSE nosla]
  ELSE UNCHANGED <<asked, answer>>

Manifest == [lines |-> node, found |-> found]

(* validateStagedRoute *)
Staged ==
  /\ route # None /\ route.lines = node
  /\ pub # None /\ pub.status \in {"publishing", "published"}

(* manifestFromDatabase: a request is refused when the database does not    *)
(* say what it needs.                                                       *)
Takes ==
  /\ agent.do = "idle" /\ queue # <<>>
  /\ queue' = Tail(queue)
  /\ IF node = None \/ (Head(queue) = "publish" /\ ~Staged)
     THEN Answers("failed", "failed") /\ UNCHANGED agent
     ELSE /\ agent' = IF Head(queue) = "canary"
                      THEN [Idle EXCEPT !.do = "update", !.at = "probe",
                                        !.old = Manifest, !.new = Manifest]
                      ELSE [Idle EXCEPT !.do = Head(queue), !.new = Manifest]
          /\ UNCHANGED <<asked, answer>>
  /\ UNCHANGED <<database, edges, faults>>

(* The canary asks for media through the public route.  It ends, well or    *)
(* not, or has met an endpoint that the manifest does not list.             *)
Probes ==
  /\ agent.at = "probe" /\ agent.do = "update"
  /\ UNCHANGED <<database, edges, queue, faults>>
  /\ \/ Answers("synced", "synced") /\ agent' = Idle
     \/ /\ ~agent.old.found
        /\ agent' = [agent EXCEPT !.at = "bwg", !.new.found = TRUE]
        /\ UNCHANGED <<asked, answer>>

Verb == IF agent.do = "unpublish" THEN "unpublish" ELSE "publish"

(* publish, unpublish and publishUpdate begin on BWG.  Only unpublish goes  *)
(* on when that fails.                                                      *)
OnBWG ==
  /\ agent.do # "idle" /\ agent.at = "bwg"
  /\ UNCHANGED <<database, found, queue>>
  /\ \E o \in Outcome :
       /\ Invoke("bwg", Verb, agent.new, o)
       /\ IF agent.do = "unpublish" \/ o.result = "synced"
          THEN /\ agent' = [agent EXCEPT !.at = "nosla", !.bwg = o.result]
               /\ UNCHANGED <<asked, answer>>
          ELSE Answers(o.result, "failed") /\ agent' = Idle

OnNOSLA ==
  /\ agent.at = "nosla"
  /\ UNCHANGED <<database, found, queue>>
  /\ \E o \in Outcome :
       /\ Invoke("nosla", Verb, agent.new, o)
       /\ CASE agent.do # "unpublish" /\ o.result # "synced" ->
                 /\ agent' = [agent EXCEPT !.at = "undo"]
                 /\ UNCHANGED <<asked, answer>>
            [] agent.do = "update" /\ o.result = "synced" ->
                 /\ agent' = [agent EXCEPT !.at = "store"]
                 /\ UNCHANGED <<asked, answer>>
            [] OTHER -> Answers(agent.bwg, o.result) /\ agent' = Idle

(* NOSLA failed.  publish removes the new fragment from BWG, also one that  *)
(* was there before; publishUpdate puts the old one back.                   *)
UndoesBWG ==
  /\ agent.at = "undo"
  /\ UNCHANGED <<database, found, queue>>
  /\ \E o \in Outcome :
       /\ IF agent.do = "publish"
          THEN Invoke("bwg", "unpublish", agent.new, o)
          ELSE Invoke("bwg", "publish", agent.old, o)
       /\ Answers(o.result, "failed")
  /\ agent' = Idle

(* The found endpoint is saved, or the update is taken back. *)
Stores ==
  /\ agent.at = "store"
  /\ UNCHANGED <<database, files, loaded, queue>>
  /\ \/ /\ found' = TRUE
        /\ Answers("synced", "synced") /\ agent' = Idle
        /\ UNCHANGED faults
     \/ /\ Fault("save")
        /\ agent' = [agent EXCEPT !.do = "restore", !.at = "bwg",
                                  !.new = agent.old, !.old = agent.new]
        /\ UNCHANGED <<found, asked, answer>>

(* The agent stops: requests are lost, the helper is killed or has lost its *)
(* connection, and the controller reads the end of file.                    *)
AgentRestarts ==
  /\ agent.do # "idle" \/ queue # <<>>
  /\ Fault("agent")
  /\ CASE agent.do # "idle" /\ agent.at \in {"bwg", "undo"} ->
            /\ \E o \in Killed("bwg", IF agent.at = "undo" /\ agent.do = "publish"
                                      THEN "unpublish" ELSE Verb,
                             IF agent.at = "undo" /\ agent.do # "publish"
                             THEN agent.old ELSE agent.new) : Leaves("bwg", o)
            /\ UNCHANGED found
       [] agent.at = "nosla" ->
            /\ \E o \in Dropped(Verb, agent.new) : Leaves("nosla", o)
            /\ UNCHANGED found
       [] agent.at = "store" -> found' \in {found, TRUE} /\ UNCHANGED <<files, loaded>>
       [] OTHER -> UNCHANGED edges
  /\ agent' = Idle /\ queue' = <<>>
  /\ asked' = FALSE
  /\ answer' = IF asked THEN Unavailable ELSE answer
  /\ UNCHANGED database

AgentRuns == Takes \/ Probes \/ OnBWG \/ OnNOSLA \/ UndoesBWG \/ Stores
AgentNext == AgentRuns \/ AgentRestarts
==============================================================================
