---------------------------- MODULE PublicIngress ----------------------------
(***************************************************************************)
(* The public ingress switcher: one DNS name, served by one proxy node at  *)
(* a time.  An operation moves the name to another node (preflight, DNS    *)
(* compare-and-swap, propagation, a public request that proves the new     *)
(* node answers), rolls it back when a check fails, and records every      *)
(* phase in the database.  The scheduler starts operations when the active *)
(* node fails and resumes an interrupted automatic one; an administrator   *)
(* starts them by hand and can confirm that the old entry serves again.    *)
(*                                                                         *)
(* The mutex of publicIngressSwitcher makes these operations exclude each  *)
(* other: pc, job, loc, req, todo and seen are the variables of the one    *)
(* goroutine that holds it.  A process crash loses them and keeps op and   *)
(* prior.  Node health, the resolvers, other writers of the record and     *)
(* failing calls interleave with every step.                               *)
(***************************************************************************)
EXTENDS SpaceshipRecord

CONSTANTS
  Node, NoNode,   \* proxy nodes, and the empty node id
  AddrOf,         \* the IPv4 address each node is reached at
  Rank,           \* position of a node in ListProxyNodes
  HealthStates,   \* the sets of health flags a node may show
  Faults,         \* the kinds of fault that may happen
  MaxFaults       \* how many faults may happen (bounds the model)

Flag == {"ineligible", "probe_failed", "over_quota"}

FaultKind ==
  {"crash", "store", "provider", "network", "health", "foreign"}

ASSUME NodeAssumption ==
  /\ NoNode \notin Node
  /\ AddrOf \in [Node -> Address]
  /\ \A m, n \in Node : AddrOf[m] = AddrOf[n] => m = n
ASSUME RankAssumption ==
  /\ Rank \in [Node -> Nat]
  /\ \A m, n \in Node : Rank[m] = Rank[n] => m = n
ASSUME EnvironmentAssumption ==
  /\ HealthStates \subseteq SUBSET Flag
  /\ {} \in HealthStates
  /\ Faults \subseteq FaultKind
  /\ MaxFaults \in Nat

VARIABLES
  op,       \* durable: the current operation (KV failover:public-ingress)
  prior,    \* durable: the verified operation op.PriorVerifiedID names
  loc,      \* the state struct in memory
  pc,       \* where the goroutine that holds the mutex stands
  job,      \* which ReplaceExactA it is in: switch, rollback or recover
  req,      \* the request served: node, trigger and mode
  todo,     \* candidates of the automatic loop not yet tried
  seen,     \* record address read when recovery started
  answers,  \* what the recursive resolvers answer for the name
  health,   \* flags the controller's database shows for each node
  up,       \* whether the node really serves the name's traffic
  faults,   \* how many more faults may happen
  foreign   \* history: another actor has written the record

swVars  == <<loc, pc, job, req, todo, seen>>
dbVars  == <<op, prior>>
envVars == <<answers, health, up, foreign>>
vars    == <<swVars, dbVars, envVars, dns, faults>>

------------------------------------------------------------------------------
(* Types *)

InFlightPhase ==
  {"preparing", "submitting_dns", "waiting_recursive", "verifying_request",
   "rolling_back", "recovery_required", "rollback_failed", "failover_pending"}

Phase == InFlightPhase \cup {"none", "verified", "failed", "rolled_back"}
Automatic == {"automatic_health", "automatic_threshold"}
Trigger == Automatic \cup {"none", "admin_manual", "admin_fixed"}
Mode == {"none", "preferred", "fixed"}

(* safePreDNSFailure tells "pre_dns" failures from all others.             *)
ErrorClass == {"none", "pre_dns", "other"}

Operation ==
  [phase : Phase, trigger : Trigger, mode : Mode, active : Node \cup {NoNode},
   previous : Address \cup {NoAddr}, source : Address \cup {NoAddr},
   desired : Address \cup {NoAddr}, error : ErrorClass, cooling : BOOLEAN]

Request == [node : Node \cup {NoNode}, trigger : Trigger, mode : Mode]

Pc == {"idle", "evaluate", "next", "retry", "preflight", "read", "cas", "put",
       "prune", "final", "readback", "submitted", "wait", "verify", "rollback",
       "rb_read", "rb_wait", "rc_next", "rc_wait", "settle"}

NoOperation ==
  [phase |-> "none", trigger |-> "none", mode |-> "none", active |-> NoNode,
   previous |-> NoAddr, source |-> NoAddr, desired |-> NoAddr,
   error |-> "none", cooling |-> FALSE]

NoRequest == [node |-> NoNode, trigger |-> "none", mode |-> "none"]

InFlight(o) == o.phase \in InFlightPhase

TypeOK ==
  /\ RecordTypeOK
  /\ op \in Operation
  /\ prior \in Operation
  /\ loc \in Operation
  /\ pc \in Pc
  /\ job \in {"switch", "rollback", "recover"}
  /\ req \in Request
  /\ todo \in SUBSET Node
  /\ seen \in Address \cup {NoAddr}
  /\ answers \in SUBSET Address
  /\ health \in [Node -> HealthStates]
  /\ up \in [Node -> BOOLEAN]
  /\ faults \in Nat
  /\ foreign \in BOOLEAN

------------------------------------------------------------------------------
(* Helpers *)

(* One more fault of kind f.                                               *)
Fault(f) == f \in Faults /\ faults > 0 /\ faults' = faults - 1

(* save writes the history entry and the current operation in one          *)
(* transaction: either both change or neither does.                        *)
(* Mutant: save reports success before the transaction is committed.       *)
SavedLater(rec) == op' \in {op, rec} /\ UNCHANGED faults
Saved(rec) == op' = rec /\ UNCHANGED faults
SaveLost == Fault("store") /\ UNCHANGED op

Goto(p) == pc' = p

(* The handler returns: its locals are gone.                               *)
Release ==
  /\ Goto("idle")
  /\ loc' = NoOperation
  /\ job' = "switch"
  /\ req' = NoRequest
  /\ todo' = {}
  /\ seen' = NoAddr

(* Record rec and return, whether the save succeeds or not.                *)
Settle(rec) ==
  /\ loc' = rec
  /\ Goto("settle")
  /\ UNCHANGED <<op, prior, job, req, todo, seen>>

(* eligiblePublicIngressNode, with runtimeIngressHealthy in Trusted        *)
Eligible(n) == "ineligible" \notin health[n]
Trusted(n) == n # NoNode /\ Eligible(n) /\ "probe_failed" \notin health[n]
OverQuota(n) == "over_quota" \in health[n]

Candidates(active) == {n \in Node : n # active /\ Eligible(n) /\ ~OverQuota(n)}
First(S) == {n \in S : \A m \in S : Rank[n] <= Rank[m]}

(* preflight and runtimeMediaPreflight: node n answers the health and the  *)
(* media requests at its own address.  recursiveAnswersMatch: the wanted   *)
(* address is the only answer.  verifyPublicRequest: a request under the   *)
(* public name is answered by node n itself.                               *)
Answers(n) == up[n]
Resolved(a) == answers = {a}
Serves(n) == n # NoNode /\ Resolved(AddrOf[n]) /\ Answers(n)

(* What the ReplaceExactA in progress replaces, and by what.               *)
From == CASE job = "switch" -> loc.previous
          [] job = "rollback" -> loc.desired
          [] job = "recover" -> seen
To == IF job = "rollback" THEN loc.previous ELSE loc.desired

envSame == UNCHANGED envVars

------------------------------------------------------------------------------
(* Initial states: a new installation, whose record an operator created by *)
(* hand, or a database left by an earlier run after a verified operation.  *)

VerifiedBy(n, trigger, mode) ==
  [NoOperation EXCEPT !.phase = "verified", !.trigger = trigger, !.mode = mode,
                      !.active = n, !.desired = AddrOf[n], !.cooling = TRUE]

Init ==
  /\ \/ /\ op = NoOperation
        /\ dns \in {{a} : a \in Address}
     \/ \E n \in Node :
          /\ op \in {VerifiedBy(n, "admin_manual", "preferred"),
                    VerifiedBy(n, "admin_manual", "fixed"),
                    VerifiedBy(n, "admin_fixed", "fixed")}
          /\ dns = {AddrOf[n]}
  /\ prior = NoOperation
  /\ loc = NoOperation
  /\ pc = "idle"
  /\ job = "switch"
  /\ req = NoRequest
  /\ todo = {}
  /\ seen = NoAddr
  /\ answers = dns
  /\ health \in [Node -> HealthStates]
  /\ up \in [Node -> BOOLEAN]
  /\ faults = MaxFaults
  /\ foreign = FALSE

------------------------------------------------------------------------------
(* switchToLocked *)

(* The first save.  A verified operation is remembered as the one to       *)
(* return to when the new one fails before it touches DNS.                 *)
OpenOperation(r, rest) ==
  /\ LET rec == [NoOperation EXCEPT !.phase = "preparing", !.trigger = r.trigger,
                                    !.mode = op.mode, !.active = op.active]
     IN  \/ /\ Saved(rec)
            /\ prior' = IF /\ op.phase = "verified"
                           /\ op.active # NoNode
                           /\ op.desired # NoAddr
                        THEN op ELSE NoOperation
            /\ loc' = rec
            /\ req' = r
            /\ todo' = rest
            /\ Goto("preflight")
            /\ UNCHANGED <<job, seen>>
         \/ SaveLost /\ UNCHANGED prior /\ Release
  /\ UNCHANGED dns /\ envSame

(* An operation in flight is never replaced by another one.                *)
(* Mutant: the in-flight check is missing.                                 *)
StartSwitchUnchecked(r, rest) == OpenOperation(r, rest)
StartSwitch(r, rest) == ~InFlight(op) /\ OpenOperation(r, rest)

(* POST /api/admin/public-ingress/switch                                   *)
AdminSwitch ==
  /\ pc = "idle"
  /\ \E n \in Node, choice \in {<<"admin_manual", "preferred">>, <<"admin_fixed", "fixed">>} :
       StartSwitch([node |-> n, trigger |-> choice[1], mode |-> choice[2]], {})

(* The target is looked up again, probed at its own address, and its media *)
(* routes are requested; nothing was written to DNS yet.                   *)
Preflight ==
  /\ pc = "preflight"
  /\ LET target == [loc EXCEPT !.desired = AddrOf[req.node]]
         Refuse(rec) == Settle([rec EXCEPT !.phase = "failed", !.error = "pre_dns"])
     IN  \/ ~Eligible(req.node) /\ Refuse(loc) /\ UNCHANGED faults
         \/ Eligible(req.node) /\ ~Answers(req.node) /\ Refuse(target) /\ UNCHANGED faults
         \/ Eligible(req.node) /\ Fault("network") /\ Refuse(target)
         \/ /\ Eligible(req.node) /\ Answers(req.node)
            /\ loc' = target
            /\ Goto("read")
            /\ UNCHANGED <<dbVars, job, req, todo, seen, faults>>
  /\ UNCHANGED dns /\ envSame

Fail == Settle([loc EXCEPT !.phase = "failed", !.error = "other"])

(* The record as the provider has it now is what the switch replaces, and  *)
(* what a rollback puts back.                                              *)
ReadProvider ==
  /\ pc = "read"
  /\ \/ NotUnique /\ Fail /\ UNCHANGED faults
     \/ Fault("provider") /\ Fail
     \/ \E a \in Address :
          /\ ExactRecord(a)
          /\ LET rec == [loc EXCEPT !.previous = a, !.phase = "submitting_dns"]
             IN  \/ /\ Saved(rec)
                    /\ loc' = rec
                    /\ Goto("cas")
                    /\ UNCHANGED <<prior, job, req, todo, seen>>
                 \/ SaveLost /\ UNCHANGED prior /\ Release
  /\ UNCHANGED dns /\ envSame

------------------------------------------------------------------------------
(* ReplaceExactA, driven one provider call at a time                       *)

RollbackFailed == Settle([loc EXCEPT !.phase = "rollback_failed"])
RecoveryFailed == Settle([loc EXCEPT !.error = "other"])

ReplaceDone ==
  /\ Goto(IF job = "rollback" THEN "rb_wait" ELSE "submitted")
  /\ UNCHANGED <<dbVars, loc, job, req, todo, seen>>

ReplaceFailed ==
  \/ /\ job = "switch"
     /\ Goto("readback")
     /\ UNCHANGED <<dbVars, loc, job, req, todo, seen>>
  \/ job = "rollback" /\ RollbackFailed
  \/ job = "recover" /\ RecoveryFailed

ReplaceContinues(p) == Goto(p) /\ UNCHANGED <<dbVars, loc, job, req, todo, seen>>

(* The list before the PUT: one record, holding the expected address.      *)
ReplaceCompare ==
  /\ pc = "cas"
  /\ \/ ExactRecord(From) /\ From = To /\ ReplaceDone /\ UNCHANGED faults
     \/ ExactRecord(From) /\ From # To /\ ReplaceContinues("put") /\ UNCHANGED faults
     \/ ~ExactRecord(From) /\ ReplaceFailed /\ UNCHANGED faults
     \/ Fault("provider") /\ ReplaceFailed
  /\ UNCHANGED dns /\ envSame

(* A PUT that reports an error may have been applied or not.               *)
ReplacePut ==
  /\ pc = "put"
  /\ \/ PutA(To) /\ ReplaceContinues("prune") /\ UNCHANGED faults
     \/ PutA(To) /\ Fault("provider") /\ ReplaceFailed
     \/ Fault("provider") /\ ReplaceFailed /\ UNCHANGED dns
  /\ envSame

(* The list after the PUT, and the DELETE of the stale address if the      *)
(* provider kept it.  A DELETE that reports an error may have been applied.*)
ReplacePrune ==
  /\ pc = "prune"
  /\ \/ /\ PutVerified(From, To)
        /\ DeleteA(From)
        /\ \/ ReplaceContinues("final") /\ UNCHANGED faults
           \/ From \in dns /\ Fault("provider") /\ ReplaceFailed
     \/ ~PutVerified(From, To) /\ ReplaceFailed /\ UNCHANGED <<dns, faults>>
     \/ Fault("provider") /\ ReplaceFailed /\ UNCHANGED dns
  /\ envSame

ReplaceConfirm ==
  /\ pc = "final"
  /\ \/ ExactRecord(To) /\ ReplaceDone /\ UNCHANGED faults
     \/ ~ExactRecord(To) /\ ReplaceFailed /\ UNCHANGED faults
     \/ Fault("provider") /\ ReplaceFailed
  /\ UNCHANGED dns /\ envSame

------------------------------------------------------------------------------
(* switchToLocked after the compare-and-swap                               *)

RecoveryRequired == Settle([loc EXCEPT !.phase = "recovery_required", !.error = "other"])

BeginRollback ==
  /\ Goto("rollback")
  /\ UNCHANGED <<prior, loc, job, req, todo, seen>>

(* Mutant: any record but the target counts as "nothing was changed".      *)
ReadbackTrustsError ==
  /\ pc = "readback"
  /\ \/ ExactRecord(loc.desired) /\ BeginRollback /\ UNCHANGED <<op, faults>>
     \/ ~ExactRecord(loc.desired) /\ Fail /\ UNCHANGED faults
     \/ Fault("provider") /\ RecoveryRequired
  /\ UNCHANGED dns /\ envSame

(* The swap failed: what does the record hold now?                         *)
Readback ==
  /\ pc = "readback"
  /\ \/ ExactRecord(loc.desired) /\ BeginRollback /\ UNCHANGED <<op, faults>>
     \/ /\ ExactRecord(loc.previous) /\ loc.previous # loc.desired
        /\ Fail
        /\ UNCHANGED faults
     \/ /\ ~ExactRecord(loc.desired) /\ ~ExactRecord(loc.previous)
        /\ RecoveryRequired
        /\ UNCHANGED faults
     \/ Fault("provider") /\ RecoveryRequired
  /\ UNCHANGED dns /\ envSame

(* The provider accepted the target: record it, then wait for resolvers.   *)
Submitted ==
  /\ pc = "submitted"
  /\ \/ /\ job = "switch"
        /\ LET rec == [loc EXCEPT !.phase = "waiting_recursive"]
           IN  \/ /\ Saved(rec) /\ loc' = rec /\ Goto("wait")
                  /\ UNCHANGED <<prior, job, req, todo, seen>>
               \/ SaveLost /\ BeginRollback
     \/ /\ job = "recover"
        /\ \/ /\ Saved(loc) /\ Goto("rc_wait")
              /\ UNCHANGED <<prior, loc, job, req, todo, seen>>
           \/ SaveLost /\ UNCHANGED prior /\ Release
  /\ UNCHANGED dns /\ envSame

(* waitRecursive: the target alone within 90 seconds, or a rollback.       *)
WaitRecursive ==
  /\ pc = "wait"
  /\ LET rec == [loc EXCEPT !.phase = "verifying_request"]
     IN  \/ /\ Resolved(loc.desired) /\ Saved(rec) /\ loc' = rec /\ Goto("verify")
            /\ UNCHANGED <<prior, job, req, todo, seen>>
         \/ Resolved(loc.desired) /\ SaveLost /\ BeginRollback
         \/ ~Resolved(loc.desired) /\ BeginRollback /\ UNCHANGED <<op, faults>>
         \/ Fault("network") /\ BeginRollback /\ UNCHANGED op
  /\ UNCHANGED dns /\ envSame

Verified(mode) ==
  Settle([loc EXCEPT !.phase = "verified", !.mode = mode, !.active = req.node,
                     !.error = "none", !.cooling = TRUE])

(* waitPublicRequest: the new node itself answers under the public name.   *)
VerifyRequest ==
  /\ pc = "verify"
  /\ \/ Serves(req.node) /\ Verified(req.mode) /\ UNCHANGED faults
     \/ ~Serves(req.node) /\ BeginRollback /\ UNCHANGED <<op, faults>>
     \/ Fault("network") /\ BeginRollback /\ UNCHANGED op
  /\ UNCHANGED dns /\ envSame

------------------------------------------------------------------------------
(* rollback *)

(* A health failover does not go back to a dead node: it stays pending.    *)
(* Anything else undoes the change.                                        *)
(* Mutant: only the heartbeat is asked, not the probe of the media routes. *)
StaysPendingByHeartbeat == loc.trigger = "automatic_health" /\ ~Eligible(loc.active)
StaysPending == loc.trigger = "automatic_health" /\ ~Trusted(loc.active)

Rollback ==
  /\ pc = "rollback"
  /\ LET pending == [loc EXCEPT !.phase = "failover_pending", !.error = "other"]
         rolling == [loc EXCEPT !.phase = "rolling_back", !.error = "other"]
     IN  \/ StaysPending /\ Settle(pending) /\ UNCHANGED faults
         \/ /\ loc.trigger = "automatic_health"
            /\ Fault("store")
            /\ Settle(pending)
         \/ /\ ~StaysPending
            /\ Saved(rolling) \/ SaveLost
            /\ loc' = rolling
            /\ Goto("rb_read")
            /\ UNCHANGED <<prior, job, req, todo, seen>>
  /\ UNCHANGED dns /\ envSame

RollbackRead ==
  /\ pc = "rb_read"
  /\ \/ /\ ExactRecord(loc.desired) /\ loc.previous # NoAddr
        /\ job' = "rollback"
        /\ Goto("cas")
        /\ UNCHANGED <<dbVars, loc, req, todo, seen, faults>>
     \/ /\ ExactRecord(loc.previous) /\ loc.previous # loc.desired
        /\ Goto("rb_wait")
        /\ UNCHANGED <<dbVars, loc, job, req, todo, seen, faults>>
     \/ /\ ~ExactRecord(loc.desired) /\ ~ExactRecord(loc.previous)
        /\ RollbackFailed
        /\ UNCHANGED faults
     \/ Fault("provider") /\ RollbackFailed
  /\ UNCHANGED dns /\ envSame

(* The old address is alone with the resolvers and at the provider, and    *)
(* the old node answers under the public name.                             *)
RollbackVerify ==
  /\ pc = "rb_wait"
  /\ LET restored == /\ Resolved(loc.previous)
                     /\ ExactRecord(loc.previous)
                     /\ Serves(loc.active)
     IN  \/ /\ restored /\ Settle([loc EXCEPT !.phase = "rolled_back"])
            /\ UNCHANGED faults
         \/ ~restored /\ RollbackFailed /\ UNCHANGED faults
         \/ Fault("network") /\ RollbackFailed
         \/ Fault("provider") /\ RollbackFailed
  /\ UNCHANGED dns /\ envSame

(* The last save of an operation.  After a failure that came before DNS    *)
(* the automatic loop looks at the stored operation again.                 *)
SettleStep ==
  /\ pc = "settle"
  /\ Saved(loc) \/ SaveLost
  /\ IF loc.phase = "failed" /\ loc.error = "pre_dns" /\ req.trigger \in Automatic
     THEN /\ Goto("retry")
          /\ loc' = NoOperation
          /\ req' = [req EXCEPT !.node = NoNode]
          /\ UNCHANGED <<job, todo, seen>>
     ELSE Release
  /\ UNCHANGED <<prior, dns>> /\ envSame

------------------------------------------------------------------------------
(* reconcile: the scheduler's evaluation, every 30 seconds                 *)

(* verifiedBeforeFailure: the record, the resolvers and, unless the old    *)
(* node is known to be dead, the public name still are those of the        *)
(* operation before the failed one.                                        *)
PriorStands ==
  /\ prior.phase = "verified" /\ prior.active = op.active /\ prior.mode = op.mode
  /\ ExactRecord(prior.desired) /\ Resolved(prior.desired)
  /\ \/ op.trigger = "automatic_health" /\ ~Trusted(prior.active)
     \/ Serves(prior.active)

FailedBeforeDns == op.phase = "failed" /\ op.error = "pre_dns" /\ prior # NoOperation

(* The failed operation gives way to the one before it: at the start of an *)
(* evaluation, or inside the automatic loop to try the next candidate.     *)
(* (The next StartSwitch sets prior before anything reads it again.)       *)
RestoreVerified ==
  /\ pc \in {"idle", "retry"}
  /\ FailedBeforeDns /\ PriorStands
  /\ Saved(prior)
  /\ prior' = NoOperation
  /\ Goto(IF pc = "idle" THEN "evaluate" ELSE "next")
  /\ UNCHANGED <<loc, job, req, todo, seen, dns>> /\ envSame

(* The loop stops when the operation cannot be restored.                   *)
RetryEnds ==
  /\ pc = "retry"
  /\ \/ ~(FailedBeforeDns /\ PriorStands) /\ UNCHANGED faults
     \/ \E f \in {"store", "provider", "network"} : Fault(f)
  /\ Release
  /\ UNCHANGED <<dbVars, dns>> /\ envSame

(* Old UI versions pinned every manual switch.                             *)
LegacyPin == op.phase = "verified" /\ op.mode = "fixed" /\ op.trigger = "admin_manual"

UpgradeLegacyPin ==
  /\ pc \in {"idle", "evaluate"} /\ LegacyPin
  /\ \/ /\ Saved([op EXCEPT !.mode = "preferred"])
        /\ Goto("evaluate")
        /\ UNCHANGED <<loc, job, req, todo, seen>>
     \/ SaveLost /\ Release
  /\ UNCHANGED <<prior, dns>> /\ envSame

(* Automatic control applies to a settled operation that is not pinned.  A *)
(* bad active node is replaced at once, one over its traffic quota only    *)
(* when an hour has passed since the last verified operation.              *)
(* Mutant: a pinned entry is controlled automatically, too.                *)
AutomatedEvenPinned == op.phase \in {"verified", "rolled_back"}
Automated == op.mode # "fixed" /\ op.phase \in {"verified", "rolled_back"}
HealthReason == Automated /\ ~Trusted(op.active)
QuotaReason ==
  /\ Automated /\ Trusted(op.active) /\ OverQuota(op.active)
  /\ ~(op.phase = "verified" /\ op.cooling)

Evaluate ==
  /\ pc \in {"idle", "evaluate"} /\ ~InFlight(op) /\ ~LegacyPin
  /\ \/ /\ HealthReason \/ QuotaReason
        /\ req' = [NoRequest EXCEPT
                     !.trigger = IF HealthReason THEN "automatic_health"
                                                 ELSE "automatic_threshold",
                     !.mode = "preferred"]
        /\ todo' = Candidates(op.active)
        /\ Goto("next")
        /\ UNCHANGED <<loc, job, seen>>
     \/ pc = "evaluate" /\ ~HealthReason /\ ~QuotaReason /\ Release
  /\ UNCHANGED <<dbVars, dns, faults>> /\ envSame

(* The automatic loop over the candidates of one snapshot of the nodes.    *)
(* Mutant: the loop does not move on to the next node.                     *)
SameCandidate ==
  /\ pc = "next"
  /\ \E n \in First(todo) : StartSwitch([req EXCEPT !.node = n], todo)

NextCandidate ==
  /\ pc = "next"
  /\ \E n \in First(todo) : StartSwitch([req EXCEPT !.node = n], todo \ {n})

NoCandidate ==
  /\ pc = "next" /\ todo = {}
  /\ Release
  /\ UNCHANGED <<dbVars, dns, faults>> /\ envSame

------------------------------------------------------------------------------
(* recoverAutomaticHealthLocked: resume an interrupted health failover     *)

(* Mutant: only what the scheduler itself left pending is resumed.         *)
ResumablePending == op.phase = "failover_pending" /\ ~Trusted(op.active)

Resumable ==
  /\ InFlight(op)
  /\ op.trigger = "automatic_health" /\ op.mode = "preferred"
  /\ op.previous # NoAddr /\ op.desired # NoAddr
  /\ ~Trusted(op.active)

(* Only from a record the operation itself knows.                          *)
RecoverStart ==
  /\ pc = "idle" /\ Resumable
  /\ \E a \in {op.previous, op.desired, op.source} \ {NoAddr} :
       ExactRecord(a) /\ seen' = a
  /\ loc' = op
  /\ todo' = Candidates(op.active)
  /\ req' = [NoRequest EXCEPT !.trigger = op.trigger, !.mode = op.mode]
  /\ Goto("rc_next")
  /\ UNCHANGED <<dbVars, job, dns, faults>> /\ envSame

(* The candidate's address is stored before the record is touched.         *)
Resume(n) ==
  LET rec == [loc EXCEPT !.phase = "failover_pending", !.error = "none",
                         !.source = seen, !.desired = AddrOf[n]]
  IN  \/ /\ Saved(rec)
         /\ loc' = rec
         /\ req' = [req EXCEPT !.node = n]
         /\ job' = "recover"
         /\ Goto(IF seen = AddrOf[n] THEN "submitted" ELSE "cas")
         /\ UNCHANGED <<prior, todo, seen>>
      \/ SaveLost /\ UNCHANGED prior /\ Release

(* The candidates are tried in turn; the first that passes its preflight   *)
(* is taken, and the loop ends with it.                                    *)
RecoverNext ==
  /\ pc = "rc_next"
  /\ \/ /\ todo = {}
        /\ Settle([loc EXCEPT !.phase = "failover_pending", !.error = "other"])
        /\ UNCHANGED faults
     \/ \E n \in First(todo) :
          \/ /\ (~Answers(n) /\ UNCHANGED faults) \/ Fault("network")
             /\ todo' = todo \ {n}
             /\ UNCHANGED <<dbVars, loc, pc, job, req, seen>>
          \/ Answers(n) /\ Resume(n)
  /\ UNCHANGED dns /\ envSame

RecoverVerify ==
  /\ pc = "rc_wait"
  /\ LET reached == Resolved(loc.desired) /\ Serves(req.node)
     IN  \/ reached /\ Verified("preferred") /\ UNCHANGED faults
         \/ ~reached /\ RecoveryFailed /\ UNCHANGED faults
         \/ Fault("network") /\ RecoveryFailed
  /\ UNCHANGED dns /\ envSame

(* Mutant: the resolvers are asked, the provider is not.                   *)
ConfirmUnread ==
  /\ pc = "idle" /\ InFlight(op)
  /\ op.previous # NoAddr /\ op.active # NoNode
  /\ Resolved(op.previous) /\ Serves(op.active)
  /\ Saved([op EXCEPT !.phase = "rolled_back", !.error = "none"])
  /\ UNCHANGED <<swVars, prior, dns>> /\ envSame

(* POST .../confirm-previous: an administrator settles an operation whose  *)
(* old entry already serves again.  It writes no DNS.                      *)
ConfirmPrevious ==
  /\ pc = "idle" /\ InFlight(op)
  /\ op.previous # NoAddr /\ op.active # NoNode
  /\ ExactRecord(op.previous) /\ Resolved(op.previous) /\ Serves(op.active)
  /\ Saved([op EXCEPT !.phase = "rolled_back", !.error = "none"])
  /\ UNCHANGED <<swVars, prior, dns>> /\ envSame

------------------------------------------------------------------------------
(* The environment *)

(* The process stops and starts: locals are lost.                          *)
Crash ==
  /\ pc # "idle" /\ Fault("crash")
  /\ Release
  /\ UNCHANGED <<dbVars, dns>> /\ envSame

HealthChanges ==
  /\ "health" \in Faults
  /\ \E n \in Node, h \in HealthStates : health' = [health EXCEPT ![n] = h]
  /\ UNCHANGED <<swVars, dbVars, answers, up, foreign, dns, faults>>

NodeGoesUpOrDown ==
  /\ "health" \in Faults
  /\ \E n \in Node : up' = [up EXCEPT ![n] = ~@]
  /\ UNCHANGED <<swVars, dbVars, answers, health, foreign, dns, faults>>

(* Another writer of the record: an operator at the provider's console, or *)
(* a PUT of this program that was given up on and is applied late.         *)
ForeignWrite ==
  /\ Fault("foreign")
  /\ dns' \in SUBSET Address
  /\ foreign' = TRUE
  /\ UNCHANGED <<swVars, dbVars, answers, health, up>>

(* Cached answers of the resolvers expire.                                 *)
Propagate ==
  /\ answers # dns /\ answers' = dns
  /\ UNCHANGED <<swVars, dbVars, health, up, foreign, dns, faults>>

(* An hour passes after the last verified operation, the older one too.    *)
CooldownExpires ==
  /\ op.cooling \/ prior.cooling
  /\ op' = [op EXCEPT !.cooling = FALSE]
  /\ prior' = [prior EXCEPT !.cooling = FALSE]
  /\ UNCHANGED <<swVars, envVars, dns, faults>>

------------------------------------------------------------------------------
Reconcile ==
  \/ RestoreVerified \/ RetryEnds \/ UpgradeLegacyPin \/ Evaluate
  \/ NextCandidate \/ NoCandidate \/ RecoverStart \/ RecoverNext \/ RecoverVerify
Replace == ReplaceCompare \/ ReplacePut \/ ReplacePrune \/ ReplaceConfirm
Switch ==
  \/ Preflight \/ ReadProvider \/ Readback \/ Submitted \/ WaitRecursive
  \/ VerifyRequest \/ Rollback \/ RollbackRead \/ RollbackVerify \/ SettleStep
Admin == AdminSwitch \/ ConfirmPrevious
Environment ==
  \/ Crash \/ HealthChanges \/ NodeGoesUpOrDown \/ ForeignWrite
  \/ Propagate \/ CooldownExpires

Next == Reconcile \/ Replace \/ Switch \/ Admin \/ Environment

Spec == Init /\ [][Next]_vars

(* The goroutine that holds the mutex runs on, and every wait in it has a  *)
(* deadline; the ticker starts the evaluation again; caches expire.        *)
Fairness ==
  /\ WF_vars(Reconcile \/ Replace \/ Switch)
  /\ WF_vars(RecoverStart)
  /\ WF_vars(Propagate)

FairSpec == Spec /\ Fairness

------------------------------------------------------------------------------
(* Properties *)

(* Once no operation is in flight, the entry is where the database says:   *)
(* the provider holds exactly the active node's address and the resolvers  *)
(* answer it, whatever failed, was lost or restarted in between.  Another  *)
(* writer of the record is outside the promise (foreign).                  *)
SettledOwner ==
  ~foreign /\ ~InFlight(op) /\ op.active # NoNode
    => dns = {AddrOf[op.active]} /\ answers = dns

(* While an operation is in flight the database accounts for every address *)
(* the provider may hold: those of the operation once it has read the      *)
(* record, the active node's before.  A restart can always tell its own    *)
(* half-done change from somebody else's record.                           *)
IntentLogged ==
  ~foreign /\ InFlight(op) =>
    IF op.previous # NoAddr
    THEN dns \subseteq {op.previous, op.desired, op.source}
    ELSE op.active # NoNode => dns = {AddrOf[op.active]}

(* The switcher implements the transaction of IngressTransaction: the      *)
(* operation's previous address is the undo record.                        *)
Transaction == INSTANCE IngressTransaction WITH
  owner <- op.active,
  records <- dns,
  undo <- IF InFlight(op) /\ op.previous # NoAddr THEN {op.previous} ELSE dns,
  open <- InFlight(op)

ImplementsTransaction == Transaction!TSpec

(* As long as an operation stays in flight nothing overwrites what undoes  *)
(* it: the address it replaced and the node that served before it.         *)
UndoKept ==
  [][InFlight(op) /\ InFlight(op') /\ op.previous # NoAddr
       => op'.previous = op.previous /\ op'.active = op.active]_vars

(* Fixed mode is never overridden: the active node of a pinned entry, and  *)
(* the pin, change only by an administrator's switch.                      *)
PinnedStaysPinned ==
  [][op.mode = "fixed" /\ ~LegacyPin /\ (op'.mode # "fixed" \/ op'.active # op.active)
       => op'.trigger \in {"admin_manual", "admin_fixed"}]_vars

(* A health failover does not put back the address of the node it leaves   *)
(* while that node is known to be dead.                                    *)
NoReturnToDeadNode ==
  [][loc.trigger = "automatic_health" /\ loc.active # NoNode /\ pc # "idle"
       /\ ~Trusted(loc.active) /\ AddrOf[loc.active] \notin dns
       => AddrOf[loc.active] \notin dns']_vars

(* Every handler returns and gives the mutex back.                         *)
SwitcherReturns == pc # "idle" ~> pc = "idle"

(* A health failover that was interrupted, by a failure or a restart, is   *)
(* carried out as long as some candidate serves and the old node is dead.  *)
Interrupted ==
  /\ ~foreign /\ InFlight(op)
  /\ op.trigger = "automatic_health" /\ op.previous # NoAddr
  /\ op.active # NoNode /\ ~Trusted(op.active) /\ ~up[op.active]
  /\ \E n \in Candidates(op.active) : up[n]

InterruptedResumes == Interrupted ~> op.phase = "verified"
==============================================================================
