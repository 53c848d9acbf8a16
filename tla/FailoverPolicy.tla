--------------------------- MODULE FailoverPolicy ---------------------------
(***************************************************************************)
(* The failover policy of internal/failover: which of two nodes should     *)
(* serve the stream entry, given their health, the primary's traffic in    *)
(* its billing cycle, the mode an administrator chose and the time.  It    *)
(* changes nothing; the controller and the command failover-policy ask it. *)
(***************************************************************************)
EXTENDS Integers

CONSTANTS
    FailureThreshold,   \* failed probes in a row after which a node is down
    RecoverySuccesses,  \* good probes in a row before the primary may return
    SwitchPercent,      \* share of the quota at which the primary is left
    ReturnPercent,      \* share below which the primary may return
    ResetGrace,         \* time a new billing cycle is not yet trusted
    CycleLength,        \* length of a billing cycle
    ResetDayKnown       \* the primary's reset day is configured

ASSUME ThresholdAssumption == {FailureThreshold, RecoverySuccesses} \subseteq Nat \ {0}

Primary == "mock-primary"
Fallback == "mock-fallback"
FailoverNodes == {Primary, Fallback}
NoNode == ""

Modes == {"auto", "force_nosla", "force_bwg", "maintenance_nosla"}

\* A traffic sample; used is in percent of the quota, Unmetered without one,
\* threshold 0 is the default, cycle NoCycle a sample without a cycle key.
NoCycle == -1
Unmetered == -1
Quality == {"known", "stale", "unknown"}
TrafficSamples == [quality : Quality, cycle : Int, used : Int, threshold : Int]
UnknownTraffic == [quality |-> "unknown", cycle |-> NoCycle,
                   used |-> Unmetered, threshold |-> 0]

HealthFailed(node) == node.failures >= FailureThreshold

FallbackEligible(node) ==
    node.enabled /\ ~HealthFailed(node) /\ ~node.maintenance

CooldownExpired(state, now) == now >= state.cooldownUntil

TrafficAtThreshold(sample) ==
    /\ sample.quality = "known"
    /\ sample.used # Unmetered
    /\ sample.used >= IF sample.threshold > 0 THEN sample.threshold
                                              ELSE SwitchPercent

\* The billing cycle a moment lies in, and when that cycle began.
BillingCycle(now) == now \div CycleLength
CycleStart(now) == CycleLength * BillingCycle(now)

\* The primary reports a cycle it did not leave in, old enough to be trusted,
\* and has used little of it.
(* Mutant: an unknown cycle of the state alone stands in the way.          *)
NewCycleByUse(sample, state, now) ==
    /\ sample.quality = "known" /\ sample.cycle # NoCycle /\ state.cycle # NoCycle
    /\ now >= CycleStart(now) + ResetGrace
    /\ sample.used # Unmetered /\ sample.used < ReturnPercent
NewKnownCycle(sample, state, now) ==
    /\ sample.quality = "known"
    /\ ResetDayKnown => sample.cycle = BillingCycle(now)
    /\ sample.cycle \notin {NoCycle, state.cycle}
    /\ now >= CycleStart(now) + ResetGrace
    /\ sample.used # Unmetered /\ sample.used < ReturnPercent

KnownCycle(sample) == IF sample.quality = "known" THEN sample.cycle ELSE NoCycle

\* An empty cycle on a recovered fallback is unknown, never a new cycle.
PolicyState(state, sample) ==
    IF state.active # Primary /\ state.cycle = NoCycle
    THEN [state EXCEPT !.cycle = KnownCycle(sample)]
    ELSE state

NeedsFailover(node, sample) ==
    node.maintenance \/ HealthFailed(node) \/ TrafficAtThreshold(sample)

Earned(node, sample, state, now) ==
    node.successes >= RecoverySuccesses /\ NewKnownCycle(sample, state, now)

AutoDecision(nodes, sample, state, now) ==
    LET primary == nodes[Primary]
        mayFall == FallbackEligible(nodes[Fallback])
        mayLead == FallbackEligible(primary)
        calm    == CooldownExpired(state, now)
    IN  IF state.active = Primary THEN
             IF NeedsFailover(primary, sample) /\ mayFall /\ calm
             THEN Fallback ELSE Primary
        ELSE IF state.active = Fallback /\ mayLead /\ mayFall /\ calm THEN
             IF Earned(primary, sample, state, now) THEN Primary ELSE Fallback
        ELSE IF state.active = NoNode /\ mayLead THEN Primary
        ELSE IF mayFall THEN Fallback
        ELSE IF mayLead THEN Primary
        ELSE NoNode

Usable(node) == node.enabled /\ ~node.maintenance

\* The node the policy asks for, NoNode when none may serve.
Requested(nodes, sample, state, now) ==
    CASE state.mode = "force_nosla" ->
             IF Usable(nodes[Primary]) THEN Primary ELSE NoNode
      [] state.mode = "force_bwg" ->
             IF Usable(nodes[Fallback]) THEN Fallback ELSE NoNode
      [] state.mode = "maintenance_nosla" ->
             IF FallbackEligible(nodes[Fallback]) THEN Fallback ELSE NoNode
      [] OTHER -> AutoDecision(nodes, sample, state, now)

=============================================================================
