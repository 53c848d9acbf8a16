---------------------------- MODULE Decommission ----------------------------
(***************************************************************************)
(* The removal of one node: the administrator's order, the signed job the  *)
(* controller keeps in memory and the hash of its token in the database,   *)
(* the edge agent that polls, accepts and starts a cleanup helper, and the *)
(* helper's single report.                                                 *)
(*                                                                         *)
(* The controller serves four handlers, each at most once at a time:       *)
(* order, poll (the agent's GET), retry and report (the helper's POST).    *)
(* One statement of the database is one step, and so are a read and the    *)
(* guarded write that follows it at once.                                  *)
(***************************************************************************)
EXTENDS Naturals

CONSTANTS
  MaxJobs,   \* how many removals may be ordered (bounds the model)
  Token,     \* completion tokens; each signed job has one of its own
  None,      \* no token: completion_token_hash is the empty string
  Overlap,   \* the handlers that may run beside the others
  Faults     \* what may go wrong

ASSUME JobsAssumption == MaxJobs \in Nat
ASSUME NoneAssumption == None \notin Token
ASSUME FaultsAssumption ==
  Faults \subseteq {"restart", "agent", "lost", "expire", "dns", "silence"}

VARIABLES
  node,      \* state of the node and whether it has a credential
  heard,     \* its last heartbeat is fresh
  record,    \* its DNS record exists at the provider
  jobs,      \* proxy_node_decommission_jobs
  memory,    \* decommissionJobs: the token of the signed job, in memory
  expired,   \* tokens of signed jobs whose fifteen minutes have passed
  issued,    \* the job a token was made for, or 0
  nonces,    \* the agent's file of used nonces; a job's nonce is its token
  agent,     \* the agent's decommission loop
  helper,    \* the cleanup helper started for a token
  cleaned,   \* the edge has removed what it ran
  handler    \* the handlers of the controller

registry == <<node, heard, record>>
store    == <<jobs, memory, expired, issued>>
edge     == <<nonces, agent, helper, cleaned>>
vars     == <<registry, store, edge, handler>>

------------------------------------------------------------------------------
(* Types *)

Job   == 1..MaxJobs
Named == {"order", "poll", "retry", "report"}

JobRow == [state : {"none", "partial", "complete"}, pending : BOOLEAN,
           step : {"cleaning_remote", "removing_dns", "complete"},
           accepted : BOOLEAN, token : Token \cup {None}]

NoJob == [state |-> "none", pending |-> FALSE, step |-> "cleaning_remote",
          accepted |-> FALSE, token |-> None]

NewJob(silent) == [state |-> "partial", pending |-> silent,
                   step |-> "cleaning_remote", accepted |-> FALSE,
                   token |-> None]

(* A handler, the job it works on, and what it holds: the token it made,   *)
(* was sent or is about to answer with, and what it read of the node.      *)
Call == [pc : {"idle", "decide", "read", "dns", "failed", "marked", "check", "write",
               "remember", "answer", "finish", "forget"},
         job : Job \cup {0}, token : Token \cup {None}, silent : BOOLEAN]

Idle == [pc |-> "idle", job |-> 0, token |-> None, silent |-> FALSE]

TypeOK ==
  /\ node \in [state : {"enrolled", "decommissioning", "removed"},
               credential : BOOLEAN]
  /\ heard \in BOOLEAN
  /\ record \in BOOLEAN
  /\ jobs \in [Job -> JobRow]
  /\ memory \in [Job -> Token \cup {None}]
  /\ expired \subseteq Token
  /\ issued \in [Token -> Job \cup {0}]
  /\ nonces \subseteq Token
  /\ agent \in [pc : {"idle", "polling", "verify", "accept", "start", "gone"},
                job : Job \cup {0}, token : Token \cup {None}]
  /\ helper \in [Token -> {"none", "cleaning", "posting", "done"}]
  /\ cleaned \in BOOLEAN
  /\ handler \in [Named -> Call]

------------------------------------------------------------------------------
(* Helpers *)

Goto(h, pc)     == handler' = [handler EXCEPT ![h].pc = pc]
Begins(h, call) == handler' = [handler EXCEPT ![h] = call]
Ends(h)         == Begins(h, Idle)

(* Handler h may start now.                                                *)
Free(h) ==
  /\ handler[h].pc = "idle"
  /\ \A g \in Named : handler[g].pc # "idle" => {g, h} \cap Overlap # {}

(* LatestProxyNodeDecommissionJob                                          *)
Ordered == {j \in Job : jobs[j].state # "none"}
Latest(j) == j \in Ordered /\ \A i \in Ordered : i <= j

(* MarkProxyNodeDecommissionStep for removing_dns.                         *)
MarkedFailed(j) ==
  [jobs EXCEPT ![j].state = "partial", ![j].step = "removing_dns"]
MarkedDone(j) ==
  [jobs EXCEPT ![j].step = IF @ = "removing_dns" THEN "cleaning_remote" ELSE @]

------------------------------------------------------------------------------
(* The order: decommission handler and DecommissionProxyNode *)

(* The handler reads the node.  A node that was removed has its job        *)
(* already; MaxJobs bounds the orders of the others.                       *)
OrderReads ==
  /\ Free("order")
  /\ \/ /\ node.state # "removed"
        /\ Ordered # Job
        /\ Begins("order", [pc |-> "decide", job |-> 0, token |-> None,
                            silent |-> ~heard])
     \/ /\ node.state = "removed"
        /\ \E j \in Job :
             /\ Latest(j)
             /\ Begins("order", [pc |-> "read", job |-> j, token |-> None,
                                 silent |-> FALSE])
  /\ UNCHANGED <<registry, store, edge>>

(* The transaction.  A node not heard of loses its identity at once.       *)
OrderWrites ==
  /\ handler["order"].pc = "decide"
  /\ LET silent == handler["order"].silent IN
     \E j \in Job \ Ordered :
       /\ \A i \in Job \ Ordered : j <= i
       /\ jobs' = [jobs EXCEPT ![j] = NewJob(silent)]
       /\ node' = [state |-> IF silent THEN "removed" ELSE "decommissioning",
                   credential |-> node.credential /\ ~silent]
       /\ handler' = [handler EXCEPT !["order"].pc = "read",
                                     !["order"].job = j]
  /\ UNCHANGED <<heard, record, memory, expired, issued, edge>>

(* Mutant: the DNS record is deleted also when the edge is still there.    *)
OrderDeletesAlways ==
  /\ handler["order"].pc = "read"
  /\ Goto("order", "dns")
  /\ UNCHANGED <<registry, store, edge>>

(* The handler reads the job: one that is pending already has its DNS      *)
(* record deleted, any other is issued.                                    *)
OrderRereads ==
  /\ handler["order"].pc = "read"
  /\ LET j == handler["order"].job IN
     Goto("order", IF jobs[j].pending THEN "dns"
                   ELSE IF memory[j] = None THEN "check" ELSE "answer")
  /\ UNCHANGED <<registry, store, edge>>

------------------------------------------------------------------------------
(* IssueProxyNodeDecommissionJob, for order, poll and retry *)

(* Already in memory: the handler goes on with that one.  Otherwise a new  *)
(* token is made and signed, unless none can be made.                      *)
IssueChecks(h) ==
  /\ handler[h].pc = "check"
  /\ LET j == handler[h].job IN
     \/ /\ memory[j] # None
        /\ handler' = [handler EXCEPT ![h].pc = "answer",
                                      ![h].token = memory[j]]
        /\ UNCHANGED issued
     \/ /\ memory[j] = None
        /\ \E t \in Token :
             /\ issued[t] = 0
             /\ issued' = [issued EXCEPT ![t] = j]
             /\ handler' = [handler EXCEPT ![h].pc = "write", ![h].token = t]
     \/ /\ memory[j] = None
        /\ \A t \in Token : issued[t] # 0
        /\ Goto(h, "answer")
        /\ UNCHANGED issued
  /\ UNCHANGED <<registry, jobs, memory, expired, edge>>

(* The hash of the new token replaces the one that is stored.              *)
IssueWrites(h) ==
  /\ handler[h].pc = "write"
  /\ jobs' = [jobs EXCEPT ![handler[h].job] =
                [@ EXCEPT !.token = handler[h].token, !.pending = TRUE,
                          !.state = "partial", !.step = "cleaning_remote"]]
  /\ Goto(h, "remember")
  /\ UNCHANGED <<registry, memory, expired, issued, edge>>

IssueRemembers(h) ==
  /\ handler[h].pc = "remember"
  /\ memory' = [memory EXCEPT ![handler[h].job] = handler[h].token]
  /\ Goto(h, "answer")
  /\ UNCHANGED <<registry, jobs, expired, issued, edge>>

(* Order and retry have nothing more to do.                                *)
Answers(h) ==
  /\ h # "poll"
  /\ handler[h].pc = "answer"
  /\ Ends(h)
  /\ UNCHANGED <<registry, store, edge>>

------------------------------------------------------------------------------
(* The DNS record: order of a silent node, retry and report *)

(* Mutant: an error of the provider is not looked at.                      *)
DnsStepIgnoresError(h) ==
  /\ handler[h].pc = "dns"
  /\ Goto(h, "marked")
  /\ record' \in {FALSE, record}
  /\ UNCHANGED <<node, heard, store, edge>>

(* DeleteOwnedProxyNodeDNS: a missing record is a success.                 *)
DnsStep(h) ==
  /\ handler[h].pc = "dns"
  /\ \/ record' = FALSE /\ Goto(h, "marked")
     \/ "dns" \in Faults /\ Goto(h, "failed") /\ UNCHANGED record
  /\ UNCHANGED <<node, heard, store, edge>>

DnsFailed(h) ==
  /\ handler[h].pc = "failed"
  /\ jobs' = MarkedFailed(handler[h].job)
  /\ Ends(h)
  /\ UNCHANGED <<registry, memory, expired, issued, edge>>

DnsDeleted(h) ==
  /\ handler[h].pc = "marked"
  /\ jobs' = MarkedDone(handler[h].job)
  /\ IF h = "report" THEN Goto(h, "finish") ELSE Ends(h)
  /\ UNCHANGED <<registry, memory, expired, issued, edge>>

------------------------------------------------------------------------------
(* The retry: handleProxyNodeJobsAPI and RetryProxyNodeDecommission *)

(* What is retried is chosen from the job as it is read here.              *)
Retry(j) ==
  /\ Free("retry")
  /\ jobs[j].state = "partial"
  /\ \/ jobs[j].step = "removing_dns"
     \/ jobs[j].step = "cleaning_remote" /\ memory[j] = None
  /\ Begins("retry", [pc |-> IF jobs[j].step = "removing_dns" THEN "dns"
                             ELSE "check",
                      job |-> j, token |-> None, silent |-> FALSE])
  /\ UNCHANGED <<registry, store, edge>>

------------------------------------------------------------------------------
(* The agent's loop *)

(* GET: the controller checks the credential and reads the latest job.     *)
PollAsks ==
  /\ agent.pc = "idle"
  /\ Free("poll")
  /\ node.state = "decommissioning" /\ node.credential
  /\ \E j \in Job :
       /\ Latest(j)
       /\ jobs[j].state # "complete"
       /\ memory[j] # None \/ jobs[j].step = "cleaning_remote"
       /\ Begins("poll", [pc |-> IF memory[j] = None THEN "check" ELSE "answer",
                          job |-> j, token |-> memory[j], silent |-> FALSE])
       /\ agent' = [pc |-> "polling", job |-> j, token |-> None]
  /\ UNCHANGED <<registry, store, nonces, helper, cleaned>>

PollAnswered ==
  /\ handler["poll"].pc = "answer"
  /\ Ends("poll")
  /\ agent' = IF agent.pc = "polling"
              THEN [agent EXCEPT !.pc = "verify",
                                 !.token = handler["poll"].token]
              ELSE agent
  /\ UNCHANGED <<registry, store, nonces, helper, cleaned>>

AgentIdle == agent' = [pc |-> "idle", job |-> 0, token |-> None]

(* The answer, or the request, does not arrive.                            *)
PollLost ==
  /\ "lost" \in Faults
  /\ agent.pc = "polling"
  /\ AgentIdle
  /\ UNCHANGED <<registry, store, nonces, helper, cleaned, handler>>

(* PersistentNonceStore.Verify: the nonce is used up before anything else. *)
AgentVerifies ==
  /\ agent.pc = "verify"
  /\ IF agent.token \in Token \ (expired \cup nonces)
     THEN /\ nonces' = nonces \cup {agent.token}
          /\ agent' = [agent EXCEPT !.pc = "accept"]
     ELSE AgentIdle /\ UNCHANGED nonces
  /\ UNCHANGED <<registry, store, helper, cleaned, handler>>

(* POST accept.                                                            *)
AgentAccepts ==
  /\ agent.pc = "accept"
  /\ \/ /\ jobs[agent.job].token = agent.token
        /\ jobs' = [jobs EXCEPT ![agent.job].accepted = TRUE,
                                ![agent.job].step = "cleaning_remote"]
        /\ \/ agent' = [agent EXCEPT !.pc = "start"]
           \/ "lost" \in Faults /\ AgentIdle
     \/ /\ jobs[agent.job].token # agent.token \/ "lost" \in Faults
        /\ AgentIdle
        /\ UNCHANGED jobs
  /\ UNCHANGED <<registry, memory, expired, issued, nonces, helper, cleaned,
                 handler>>

(* The agent starts the helper, a unit of its own, and polls on.           *)
AgentStarts ==
  /\ agent.pc = "start"
  /\ helper' = [helper EXCEPT ![agent.token] = "cleaning"]
  /\ AgentIdle
  /\ UNCHANGED <<registry, store, nonces, cleaned, handler>>

(* Mutant: the nonces are kept in memory.                                  *)
AgentRestartsAfresh ==
  /\ "agent" \in Faults
  /\ agent.pc # "gone"
  /\ AgentIdle /\ nonces' = {}
  /\ UNCHANGED <<registry, store, helper, cleaned, handler>>

(* The agent's process starts again; its file of nonces is kept.           *)
AgentRestarts ==
  /\ "agent" \in Faults
  /\ agent.pc # "gone"
  /\ AgentIdle
  /\ UNCHANGED <<registry, store, nonces, helper, cleaned, handler>>

------------------------------------------------------------------------------
(* The helper and its report *)

(* Stops the agent for good and removes its files.                         *)
HelperCleans(t) ==
  /\ helper[t] = "cleaning"
  /\ helper' = [helper EXCEPT ![t] = "posting"]
  /\ cleaned' = TRUE
  /\ agent' = [pc |-> "gone", job |-> 0, token |-> None]
  /\ UNCHANGED <<registry, store, nonces, handler>>

(* POST complete, once; the controller reads the job and its hash.         *)
ReportReads(t) ==
  /\ helper[t] = "posting"
  /\ Free("report")
  /\ helper' = [helper EXCEPT ![t] = "done"]
  /\ LET j == issued[t] IN
     IF jobs[j].state # "complete" /\ jobs[j].token = t
     THEN Begins("report", [pc |-> "dns", job |-> j, token |-> t,
                            silent |-> FALSE])
     ELSE UNCHANGED handler
  /\ UNCHANGED <<registry, store, nonces, agent, cleaned>>

ReportLost(t) ==
  /\ "lost" \in Faults
  /\ helper[t] = "posting"
  /\ helper' = [helper EXCEPT ![t] = "done"]
  /\ UNCHANGED <<registry, store, nonces, agent, cleaned, handler>>

(* Mutant: the row of the node is left as it is.                           *)
ReportFinishesJobOnly ==
  /\ handler["report"].pc = "finish"
  /\ jobs' = [jobs EXCEPT ![handler["report"].job] =
                [@ EXCEPT !.state = "complete", !.step = "complete",
                          !.pending = FALSE, !.accepted = TRUE]]
  /\ Goto("report", "forget")
  /\ UNCHANGED <<registry, memory, expired, issued, edge>>

(* CompleteProxyNodeDecommission, the transaction.                         *)
ReportFinishes ==
  /\ handler["report"].pc = "finish"
  /\ jobs' = [jobs EXCEPT ![handler["report"].job] =
                [@ EXCEPT !.state = "complete", !.step = "complete",
                          !.pending = FALSE, !.accepted = TRUE]]
  /\ node' = [state |-> "removed", credential |-> FALSE]
  /\ Goto("report", "forget")
  /\ UNCHANGED <<heard, record, memory, expired, issued, edge>>

ReportForgets ==
  /\ handler["report"].pc = "forget"
  /\ memory' = [memory EXCEPT ![handler["report"].job] = None]
  /\ Ends("report")
  /\ UNCHANGED <<registry, jobs, expired, issued, edge>>

------------------------------------------------------------------------------
(* The environment *)

(* Five minutes pass without a heartbeat.                                  *)
Silence ==
  /\ "silence" \in Faults
  /\ heard
  /\ heard' = FALSE
  /\ UNCHANGED <<node, record, store, edge, handler>>

(* The fifteen minutes of a signed job pass.                               *)
Expire(t) ==
  /\ "expire" \in Faults
  /\ issued[t] # 0 /\ t \notin expired
  /\ expired' = expired \cup {t}
  /\ UNCHANGED <<registry, jobs, memory, issued, edge, handler>>

(* The controller stops and starts: handlers and signed jobs are gone.     *)
Restart ==
  /\ "restart" \in Faults
  /\ handler' = [h \in Named |-> Idle]
  /\ memory' = [j \in Job |-> None]
  /\ IF agent.pc = "polling" THEN AgentIdle ELSE UNCHANGED agent
  /\ UNCHANGED <<registry, jobs, expired, issued, nonces, helper, cleaned>>

------------------------------------------------------------------------------
(* Specification *)

Init ==
  /\ node = [state |-> "enrolled", credential |-> TRUE]
  /\ heard = TRUE
  /\ record = TRUE
  /\ jobs = [j \in Job |-> NoJob]
  /\ memory = [j \in Job |-> None]
  /\ expired = {}
  /\ issued = [t \in Token |-> 0]
  /\ nonces = {}
  /\ agent = [pc |-> "idle", job |-> 0, token |-> None]
  /\ helper = [t \in Token |-> "none"]
  /\ cleaned = FALSE
  /\ handler = [h \in Named |-> Idle]

Issue(h) == IssueChecks(h) \/ IssueWrites(h) \/ IssueRemembers(h)
Dns(h)   == DnsStep(h) \/ DnsFailed(h) \/ DnsDeleted(h)

Controller ==
  \/ OrderWrites \/ OrderRereads \/ ReportFinishes \/ ReportForgets
  \/ PollAnswered
  \/ \E h \in Named : Issue(h) \/ Answers(h) \/ Dns(h)

Agent == PollAsks \/ AgentVerifies \/ AgentAccepts \/ AgentStarts

Helper == \E t \in Token : HelperCleans(t) \/ ReportReads(t)

Fault ==
  \/ Silence \/ Restart \/ PollLost \/ AgentRestarts
  \/ \E t \in Token : Expire(t) \/ ReportLost(t)

Next ==
  \/ OrderReads
  \/ \E j \in Job : Retry(j)
  \/ Controller \/ Agent \/ Helper \/ Fault

Spec == Init /\ [][Next]_vars

(* Handlers run to their end, the agent polls every 15 seconds, a helper   *)
(* that was started runs, and an administrator retries what is partial.    *)
FairSpec ==
  /\ Spec
  /\ WF_vars(Controller) /\ WF_vars(Agent) /\ WF_vars(Helper)
  /\ \A j \in Job : WF_vars(Retry(j))
------------------------------------------------------------------------------
(* Properties *)

(* A removal that is reported as complete left nothing behind: the edge    *)
(* was cleaned and its DNS record deleted, however many handlers issue,    *)
(* retry or finish it at a time.                                           *)
CompleteMeansClean ==
  \A j \in Job : jobs[j].state = "complete" => cleaned /\ ~record

(* The signed job that is given to the agent carries the token whose hash  *)
(* is stored, unless a handler is just replacing both: the comment of      *)
(* GetProxyNodeDecommissionJob has a fresh payload in memory while "the    *)
(* durable hash remains valid".  Two handlers that issue one job at a time *)
(* break it, and then the agent's accept is refused until a restart.       *)
IssuedIsValid ==
  \A j \in Job :
    \/ memory[j] \in {None, jobs[j].token}
    \/ \E h \in Named : /\ handler[h].job = j
                        /\ handler[h].pc \in {"write", "remember"}

(* No signed job is carried out a second time, whatever is lost, repeated  *)
(* or restarted: one that the agent is about to accept or to start has no  *)
(* helper yet.                                                             *)
RunsOnce ==
  agent.pc \in {"accept", "start"} => helper[agent.token] = "none"

(* A removal that has begun ends.                                          *)
RemovalEnds == node.state = "decommissioning" ~> node.state = "removed"

(* The protocol keeps the promise of NodeRemoval.                          *)
Removal == INSTANCE NodeRemoval WITH
  ordered <- Ordered # {}, identity <- node.credential

ImplementsRemoval == Removal!NSpec
==============================================================================
