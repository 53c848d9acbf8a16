------------------------- MODULE FailoverController -------------------------
(***************************************************************************)
(* The failover controller (internal/failover/state.go, dns.go and         *)
(* dns_guard.go, storage/failover.go, wired in cmd/embyproxy/main.go).     *)
(*                                                                         *)
(* Every operation runs with the controller's mutex held, so operations    *)
(* are single steps, except ApplyDNSAndCommit: it holds the mutex over a   *)
(* row in the database, the provider's call and the transaction that       *)
(* records the outcome, and the process may die between them.  A decision  *)
(* is computed in one step and applied in a later one.  The database       *)
(* refuses any write; the provider fails before or after its change.       *)
(*                                                                         *)
(* Left out: redirects, the names and types of records (one allowlisted    *)
(* record), what is only displayed (desired node, times of transitions),   *)
(* and SetMaintenance, which the program never calls.                      *)
(***************************************************************************)
EXTENDS FailoverPolicy, Sequences, FiniteSets

CONSTANTS
    Cooldown,       \* time between two switches in mode auto
    SwitchWindow,   \* window of the switch limit ...
    MaxSwitches,    \* ... and the switches it allows
    DryRunTTL,      \* time a dry run may be applied
    Addresses,      \* values a DNS change may ask for
    Samples,        \* traffic samples the primary may report
    MaxNow,         \* bound of the clock
    MaxSwitchEvents, \* bound of the switches of a behaviour
    MaxPlans,       \* bound of its dry runs
    Scopes          \* bound: the operations a behaviour may use together

ASSUME TimesAssumption ==
    /\ {Cooldown, SwitchWindow, MaxSwitches, DryRunTTL} \subseteq Nat \ {0}
    /\ MaxNow \in Nat
ASSUME SamplesAssumption == Samples \subseteq TrafficSamples

VARIABLES
    foNow,       \* the clock
    foState,     \* the state in memory
    foStored,    \* the row of failover_state, NoRow before the first write
    foNodes,     \* health and flags of the nodes
    foTraffic,   \* the primary's last sample
    foSwitches,  \* the node_switched events: when, and whether in mode auto
    foDecision,  \* the decision a caller has taken and not yet applied
    foRecord,    \* the provider's record
    foPending,   \* dry runs that may be applied
    foPlans,     \* number of dry runs made
    foApply,     \* the ApplyDNSAndCommit that holds the mutex
    foRun,       \* the last row of dns_update_runs that is no dry run
    foLeft,      \* history: the cycle in which the primary was last left
    foScope      \* the operations of this behaviour, of "probe" and "dns"

stateVars == <<foState, foStored, foSwitches>>
dnsVars == <<foRecord, foPending, foPlans, foApply, foRun>>
nodeVars == <<foNodes, foTraffic>>
failoverVars ==
    <<foNow, stateVars, nodeVars, foDecision, dnsVars, foLeft, foScope>>

NoRow == [none |-> TRUE]
NoRecord == "no record"
NoRun == [value |-> NoRecord, node |-> NoNode, result |-> "none"]
NoApply == [phase |-> "idle"]

FreshState == [active |-> Primary, observed |-> NoNode, mode |-> "auto",
               cooldownUntil |-> 0, cycle |-> NoCycle, reconcile |-> FALSE]

FailoverInit ==
    /\ foNow = 0
    /\ foState = FreshState /\ foStored = NoRow
    /\ foNodes = [n \in FailoverNodes |->
                    [enabled |-> TRUE, maintenance |-> FALSE,
                     failures |-> 0, successes |-> 0]]
    /\ foTraffic = UnknownTraffic
    /\ foSwitches = <<>>
    /\ foDecision = NoNode
    /\ foRecord = NoRecord /\ foPending = {} /\ foPlans = 0
    /\ foApply = NoApply /\ foRun = NoRun
    /\ foLeft = NoCycle /\ foScope \in Scopes

Unlocked == foApply = NoApply

\* Every column of the state is written, over the row before it.
SavesState(next) == foStored' = next

\* One transaction writes event and state; memory follows only if it commits.
CommitTransition(next, events) ==
    \/ foState' = next /\ SavesState(next) /\ foSwitches' = events
    \/ UNCHANGED stateVars

SetMode(mode) ==
    /\ Unlocked
    /\ CommitTransition([foState EXCEPT !.mode = mode], foSwitches)
    /\ UNCHANGED <<foNow, nodeVars, foDecision, dnsVars>>

Counted(node, success) ==
    IF success
    THEN [node EXCEPT !.failures = 0,
                      !.successes = IF @ < RecoverySuccesses THEN @ + 1 ELSE @]
    ELSE [node EXCEPT !.successes = 0,
                      !.failures = IF @ < FailureThreshold THEN @ + 1 ELSE @]

SetHealth(n, success) ==
    /\ Unlocked
    /\ foNodes' = [foNodes EXCEPT ![n] = Counted(@, success)]
    /\ UNCHANGED <<foNow, stateVars, foTraffic, foDecision, dnsVars>>

SetTraffic(sample) ==
    /\ Unlocked
    /\ foTraffic' = sample
    /\ UNCHANGED <<foNow, stateVars, foNodes, foDecision, dnsVars>>

SwitchLimitReached ==
    Cardinality({i \in DOMAIN foSwitches :
                    foSwitches[i].at >= foNow - SwitchWindow}) >= MaxSwitches

\* Evaluate, for a caller that will apply what it asks for.
Evaluate ==
    /\ Unlocked
    /\ LET policy  == PolicyState(foState, foTraffic)
           request == Requested(foNodes, foTraffic, policy, foNow)
       IN  foDecision' = IF request \in {NoNode, foState.active} \/ SwitchLimitReached
                         THEN NoNode ELSE request
    /\ UNCHANGED <<foNow, stateVars, nodeVars, dnsVars>>

\* The cycle a transition is recorded with.
AdvanceCycle(state) ==
    IF KnownCycle(foTraffic) = NoCycle THEN state
    ELSE [state EXCEPT !.cycle = KnownCycle(foTraffic)]

Switched(n) ==
    [AdvanceCycle(foState) EXCEPT !.active = n, !.cooldownUntil = foNow + Cooldown]

\* ApplyDecision; the early returns that change nothing are the steps it
\* does not take.
(* Mutant: the cooldown and the limit are left to Evaluate.               *)
ApplyUnchecked(n) ==
    /\ Unlocked
    /\ n # foState.active
    /\ Usable(foNodes[n])
    /\ Len(foSwitches) < MaxSwitchEvents
    /\ CommitTransition(Switched(n),
           Append(foSwitches, [at |-> foNow, auto |-> foState.mode = "auto"]))
    /\ UNCHANGED <<foNow, nodeVars, dnsVars>>
ApplyDecision(n) ==
    /\ Unlocked
    /\ n # foState.active
    /\ Usable(foNodes[n])
    /\ foState.mode = "auto" => CooldownExpired(foState, foNow) /\ ~SwitchLimitReached
    /\ Len(foSwitches) < MaxSwitchEvents
    /\ CommitTransition(Switched(n),
           Append(foSwitches, [at |-> foNow, auto |-> foState.mode = "auto"]))
    /\ UNCHANGED <<foNow, nodeVars, dnsVars>>

\* The caller of Evaluate applies its decision; an administrator's switch.
ApplyEvaluated ==
    /\ foDecision # NoNode
    /\ foDecision' = NoNode
    /\ ApplyDecision(foDecision)

DropEvaluated ==
    /\ foDecision # NoNode
    /\ foDecision' = NoNode
    /\ UNCHANGED <<foNow, stateVars, nodeVars, dnsVars>>

AdminSwitches(n) == ApplyDecision(n) /\ UNCHANGED foDecision

-----------------------------------------------------------------------------
\* The guarded DNS change: a dry run first, applied once and in time.

PrepareDNSApply(n, value) ==
    /\ Unlocked
    /\ Usable(foNodes[n])
    /\ foPlans < MaxPlans
    /\ foPlans' = foPlans + 1
    /\ foPending' = {p \in foPending : foNow < p.expires}
                      \cup {[id |-> foPlans, node |-> n, value |-> value,
                             expires |-> foNow + DryRunTTL]}
    /\ UNCHANGED <<foNow, stateVars, nodeVars, foDecision, foRecord, foApply, foRun>>

\* A request may come too late, disagree with the plan, find the node gone or
\* the pending row not written: the plan is used up.
RejectDNSApply(plan) ==
    /\ Unlocked
    /\ foPending' = foPending \ {plan}
    /\ UNCHANGED <<foNow, stateVars, nodeVars, foDecision, foRecord, foPlans, foApply, foRun>>

Applicable(plan) == foNow < plan.expires /\ Usable(foNodes[plan.node])

\* The plan is consumed and a pending row written before the provider is called.
(* Mutant: the run is written after the provider was called.               *)
BeginUnlogged(plan) ==
    /\ Unlocked
    /\ Applicable(plan)
    /\ foPending' = foPending \ {plan}
    /\ foApply' = [phase |-> "update", plan |-> plan]
    /\ UNCHANGED <<foNow, stateVars, nodeVars, foDecision, foRecord, foPlans, foRun>>
BeginDNSApply(plan) ==
    /\ Unlocked
    /\ Applicable(plan)
    /\ foPending' = foPending \ {plan}
    /\ foRun' = [value |-> plan.value, node |-> plan.node, result |-> "pending"]
    /\ foApply' = [phase |-> "update", plan |-> plan]
    /\ UNCHANGED <<foNow, stateVars, nodeVars, foDecision, foRecord, foPlans>>

\* ApplyDNS: the update may fail, the record may change, and its propagation
\* may then be seen or not.
ProviderUpdates ==
    /\ foApply.phase = "update"
    /\ \/ /\ foRecord' = foApply.plan.value
          /\ \E seen \in {"verified", "unverified"} :
                 foApply' = [foApply EXCEPT !.phase = seen]
       \/ foApply' = [foApply EXCEPT !.phase = "unverified"] /\ UNCHANGED foRecord
    /\ UNCHANGED <<foNow, stateVars, nodeVars, foDecision, foPending, foPlans, foRun>>

\* Run, event and state are one transaction; memory follows only if it commits.
CommitDNS(next, result) ==
    \/ /\ foState' = next /\ SavesState(next)
       /\ foRun' = [foRun EXCEPT !.result = result]
    \/ UNCHANGED <<foState, foStored, foRun>>

DNSApplied ==
    LET n    == foApply.plan.node
        next == [foState EXCEPT !.observed = n, !.active = n, !.reconcile = FALSE]
    IN  /\ foApply.phase = "verified"
        /\ CommitDNS(IF n = foState.active THEN next
                     ELSE [next EXCEPT !.cycle = AdvanceCycle(foState).cycle],
                     "verified")
        /\ foApply' = NoApply
        /\ UNCHANGED <<foNow, foSwitches, nodeVars, foDecision, foRecord, foPending, foPlans>>

DNSFailed ==
    /\ foApply.phase = "unverified"
    /\ CommitDNS([foState EXCEPT !.reconcile = TRUE], "failed")
    /\ foApply' = NoApply
    /\ UNCHANGED <<foNow, foSwitches, nodeVars, foDecision, foRecord, foPending, foPlans>>

\* A configuration of the guard or another provider drops every dry run.
ConfigureDNSGuard ==
    /\ Unlocked
    /\ foPending # {}
    /\ foPending' = {}
    /\ UNCHANGED <<foNow, stateVars, nodeVars, foDecision, foRecord, foPlans, foApply, foRun>>

-----------------------------------------------------------------------------
Restored == IF foStored = NoRow THEN FreshState ELSE foStored

\* The last check and the last sample of each node; the threshold that came
\* with a sample is not a column.
RestoredTraffic == [foTraffic EXCEPT !.threshold = 0]

\* The last 200 events, oldest first: of the switches none is missing.
RestoredSwitches == foSwitches

\* The process dies, with or without an operation under way, and starts again:
\* RestoreState, RestoreEvents and RestoreNodeRuntime bring back what was
\* stored.  Dry runs and the mock provider's records are in memory only.
FailoverRestart ==
    /\ foState' = Restored
    /\ foTraffic' = RestoredTraffic /\ foSwitches' = RestoredSwitches
    /\ foDecision' = NoNode
    /\ foRecord' = NoRecord /\ foPending' = {} /\ foApply' = NoApply
    /\ UNCHANGED <<foNow, foStored, foNodes, foPlans, foRun>>

FailoverTick ==
    /\ foNow < MaxNow
    /\ foNow' = foNow + 1
    /\ UNCHANGED <<stateVars, nodeVars, foDecision, dnsVars>>

ProbeOperation ==
    \/ \E n \in FailoverNodes, b \in BOOLEAN : SetHealth(n, b)
    \/ \E sample \in Samples : SetTraffic(sample)
    \/ Evaluate \/ ApplyEvaluated \/ DropEvaluated

DNSOperation ==
    \/ \E n \in FailoverNodes, value \in Addresses : PrepareDNSApply(n, value)
    \/ \E plan \in foPending : RejectDNSApply(plan) \/ BeginDNSApply(plan)
    \/ ProviderUpdates \/ DNSApplied \/ DNSFailed \/ ConfigureDNSGuard

FailoverNext ==
    /\ \/ \E mode \in Modes : SetMode(mode)
       \/ \E n \in FailoverNodes : AdminSwitches(n)
       \/ "probe" \in foScope /\ ProbeOperation
       \/ "dns" \in foScope /\ DNSOperation
       \/ FailoverRestart \/ FailoverTick
    /\ foLeft' = IF foState.active = Primary /\ foState'.active = Fallback
                 THEN KnownCycle(foTraffic) ELSE foLeft
    /\ UNCHANGED foScope

FailoverSpec == FailoverInit /\ [][FailoverNext]_failoverVars

-----------------------------------------------------------------------------
FailoverStates ==
    [active : FailoverNodes, observed : FailoverNodes \cup {NoNode}, mode : Modes,
     cooldownUntil : 0..MaxNow + Cooldown, cycle : Int, reconcile : BOOLEAN]
Plans == [id : Nat, node : FailoverNodes, value : Addresses, expires : Nat]

FailoverTypeOK ==
    /\ foNow \in 0..MaxNow
    /\ foState \in FailoverStates /\ foStored \in FailoverStates \cup {NoRow}
    /\ foNodes \in [FailoverNodes ->
                       [enabled : BOOLEAN, maintenance : BOOLEAN,
                        failures : 0..FailureThreshold, successes : 0..RecoverySuccesses]]
    /\ \A n \in FailoverNodes : foNodes[n].failures = 0 \/ foNodes[n].successes = 0
    /\ foDecision \in FailoverNodes \cup {NoNode}
    /\ foRecord \in Addresses \cup {NoRecord}
    /\ foPending \subseteq Plans
    /\ \A p, q \in foPending : p.id = q.id => p = q
    /\ foApply.phase \in {"idle", "update", "verified", "unverified"}
    /\ Unlocked \/ foRun.result = "pending"

\* state.go: in mode auto two switches are a cooldown apart and a window holds
\* no more of them than its limit, whoever decided when, in whichever mode the
\* earlier ones were made, and whatever restarts and failed writes were between.
CalmSwitching ==
    \A j \in DOMAIN foSwitches : foSwitches[j].auto =>
        /\ \A i \in 1..j-1 : foSwitches[j].at - foSwitches[i].at >= Cooldown
        /\ Cardinality({i \in 1..j-1 : foSwitches[i].at >= foSwitches[j].at - SwitchWindow})
             < MaxSwitches

\* autoDecision and advanceCycleForTransitionLocked: in mode auto the policy does
\* not ask to leave a fallback that works for the primary within the billing
\* cycle in which the primary was last left.
NoReturnInCycle ==
    [][ /\ foDecision' = Primary /\ foDecision # Primary
        /\ foState.mode = "auto" /\ foState.active = Fallback
        /\ FallbackEligible(foNodes[Fallback])
        /\ foLeft # NoCycle
        => KnownCycle(foTraffic) \notin {foLeft, NoCycle} ]_failoverVars

\* ApplyDNSAndCommit and CommitDNSUpdate: the database accounts for the record.
\* When its last run is verified, the record is the run's and the state says
\* so; when it failed, the state asks for reconciliation; otherwise the run is
\* shown as pending.  A restart finds the state as it was in memory.
RecordAccounted ==
    /\ Unlocked /\ foRecord # NoRecord =>
          CASE foRun.result = "verified" ->
                   foRecord = foRun.value /\ foState.observed = foRun.node
                   /\ ~foState.reconcile
            [] foRun.result = "failed" -> foState.reconcile
            [] OTHER -> foRun.result = "pending"
    /\ Restored = foState
=============================================================================
