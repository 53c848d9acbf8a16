---------------------------- MODULE PolicyRunner ----------------------------
(***************************************************************************)
(* The DNS policy runner (deploy/failover/embyproxy_failover_policy.py).   *)
(*                                                                         *)
(* A timer, or an administrator, starts it; a lock keeps it to one run at  *)
(* a time.  A run reads the record at the provider and the state file,     *)
(* probes both nodes, reads NOSLA's traffic counter, decides, switches the *)
(* record, verifies the switch or takes it back, and writes the state      *)
(* file.  It can be killed between any two steps, and every call to the    *)
(* provider can fail with its effect or without.                           *)
(*                                                                         *)
(* What a probe or a verification finds is free.  Traffic is in units of a *)
(* host counter that a reboot sets back; time is in ticks, and the cycle   *)
(* with the owner's opening balance is the first.  BWG's own sample, which *)
(* decides nothing, and the texts of the state file are left out.          *)
(***************************************************************************)
EXTENDS Integers, FiniteSetsExt

CONSTANTS
    FailuresToSwitch, SuccessesToReturn,    \* health_failures_to_switch, ...
    SampleInterval,                         \* health_min_sample_interval_seconds
    RunnerCooldown,                         \* cooldown_seconds
    LeaveAt, ReturnBelow, ResetReturnBelow, \* thresholds of NOSLA's usage
    RunnerCycle,                            \* length of a billing cycle
    GraceTime,                              \* reset_grace_hours
    Opening, SeedMaxAge,                    \* balance at time 0, age it is good for
    RunnerScopes,  \* what a behaviour has together, of operator, failing, fault, traffic
    MaxRunnerNow, MaxTraffic                \* bounds of a behaviour

\* A threshold or an interval of 0 would decide without a probe; the shipped
\* configuration has 3, 3 and 240 seconds (config.example.json:15-17).
ASSUME RunnerAssumption ==
    /\ {FailuresToSwitch, SuccessesToReturn, SampleInterval, RunnerCycle} \subseteq Nat \ {0}
    /\ {RunnerCooldown, LeaveAt, ReturnBelow, ResetReturnBelow, GraceTime, Opening, SeedMaxAge,
        MaxRunnerNow, MaxTraffic} \subseteq Nat

VARIABLES
    prScope,     \* what this behaviour has
    prNow,       \* the clock
    prRecord,    \* target of the stream record at the provider
    prFile,      \* the state file
    prRun,       \* the run
    prCounter,   \* NOSLA's host counter
    \* history
    prUsed,      \* billing cycle -> what NOSLA really used from its start on
    prProbes,    \* NOSLA's probes by the runs that wrote the state file
    prSwitched,  \* moment of the run of the last verified switch
    prForgotten, \* that run was killed before it wrote the state file
    prGood,      \* the target verified last
    prTrouble    \* since then a switch was cut short

runnerWorld == <<prScope, prNow, prCounter, prUsed>>
runnerHistory == <<prProbes, prSwitched, prForgotten, prGood, prTrouble>>
runnerVars == <<runnerWorld, prRecord, prFile, prRun, runnerHistory>>

Targets == {"nosla", "bwg"}
NeverYet == -1
NoBaseline == [cycle |-> NeverYet, bytes |-> 0, aligned |-> FALSE]

\* initial_state: the record's target is read anew by every run.
InitialState ==
    [failures |-> 0, successes |-> 0, sampled |-> NeverYet, switched |-> NeverYet,
     baseline |-> NoBaseline]
NoPolicyRun == [pc |-> "idle"]

CycleAt(moment) == moment \div RunnerCycle
StartOfCycle(cycle) == RunnerCycle * cycle
RunnerCycles == 0..CycleAt(MaxRunnerNow)
SeedCycle == 0

RunnerInit ==
    /\ prScope \in RunnerScopes
    /\ prNow = 0 /\ prRecord \in Targets /\ prFile = InitialState /\ prRun = NoPolicyRun
    /\ prCounter = 0 /\ prUsed = [c \in RunnerCycles |-> IF c = SeedCycle THEN Opening ELSE 0]
    /\ prProbes = {} /\ prSwitched = NeverYet /\ prForgotten = FALSE
    /\ prGood = prRecord /\ prTrouble = FALSE

-----------------------------------------------------------------------------
\* Health

\* Counts are compared with a threshold and nothing else.
CountUp(n, threshold) == IF n < threshold THEN n + 1 ELSE n

\* update_health_state: a probe soon after the last counted one is not counted.
TooSoon(state, moment) ==
    state.sampled # NeverYet /\ moment < state.sampled + SampleInterval

AfterProbe(state, ok, moment) ==
    IF TooSoon(state, moment) THEN state
    ELSE [state EXCEPT
            !.successes = IF ok THEN CountUp(@, SuccessesToReturn) ELSE 0,
            !.failures = IF ok THEN 0 ELSE CountUp(@, FailuresToSwitch),
            !.sampled = moment]

-----------------------------------------------------------------------------
\* Traffic: what the counter has grown since a baseline of the cycle.

\* The first sample of a cycle becomes its baseline, in the grace time too.
(* Mutant: a baseline is kept as long as there is one.                     *)
BaselineKept(state, moment, counter) ==
    IF state.baseline # NoBaseline THEN state.baseline
    ELSE [cycle |-> CycleAt(moment), bytes |-> counter,
          aligned |-> CycleAt(moment) # SeedCycle \/ moment <= SeedMaxAge]
BaselineAt(state, moment, counter) ==
    LET cycle == CycleAt(moment)
    IN  IF state.baseline.cycle = cycle THEN state.baseline
        ELSE [cycle |-> cycle, bytes |-> counter,
              aligned |-> cycle # SeedCycle \/ moment <= SeedMaxAge]

GrownSince(baseline, counter) ==
    IF counter >= baseline.bytes THEN counter - baseline.bytes ELSE 0

SampleQuality(baseline, moment, counter) ==
    LET cycle == CycleAt(moment)
    IN  IF cycle = SeedCycle /\ ~baseline.aligned THEN "stale"
        ELSE IF counter < baseline.bytes THEN "counter_reset"
        ELSE IF cycle # SeedCycle /\ moment < StartOfCycle(cycle) + GraceTime
             THEN "reset_grace"
        ELSE "fresh_estimate"

TrafficSample(baseline, moment, counter) ==
    [quality |-> SampleQuality(baseline, moment, counter),
     used |-> GrownSince(baseline, counter)
                + IF CycleAt(moment) = SeedCycle THEN Opening ELSE 0,
     new |-> CycleAt(moment) # SeedCycle]
UnknownSample == [quality |-> "unknown", used |-> 0, new |-> FALSE]

-----------------------------------------------------------------------------
\* evaluate: the target to serve from, and why

Decision(run, sample) ==
    LET state == run.state
    IN  IF run.hold # "none" THEN <<run.hold, "hold">>
        ELSE IF state.failures >= FailuresToSwitch THEN <<"bwg", "health">>
        ELSE IF sample.quality # "fresh_estimate" THEN <<run.active, "blind">>
        ELSE IF sample.used >= LeaveAt THEN <<"bwg", "traffic">>
        ELSE IF run.active = "nosla" THEN <<"nosla", "stay">>
        ELSE IF /\ run.ok /\ state.successes >= SuccessesToReturn
                /\ sample.used < IF sample.new THEN ResetReturnBelow ELSE ReturnBelow
             THEN <<"nosla", "return">>
        ELSE <<"bwg", "stay">>

\* cooldown_active, as of the run's beginning
Cooling(run) ==
    /\ run.state.switched # NeverYet
    /\ run.moment < run.state.switched + RunnerCooldown

Switches(run, desired) ==
    /\ desired # run.active /\ run.mode = "auto"
    /\ ~Cooling(run)
    /\ desired = "bwg" => run.bwgOk

-----------------------------------------------------------------------------
\* The steps of a run

\* run_policy to the state file; a run that cannot read the record ends.
RunBegins ==
    /\ prRun = NoPolicyRun
    /\ \E mode \in {"dry-run", "auto"}, hold \in Targets \cup {"none"} :
          /\ "operator" \in prScope \/ (mode = "auto" /\ hold = "none")
          /\ prRun' = [pc |-> "probe", moment |-> prNow, mode |-> mode, hold |-> hold,
                       active |-> prRecord, state |-> prFile]
    /\ UNCHANGED <<runnerWorld, prRecord, prFile, runnerHistory>>

ProbesNodes ==
    /\ prRun.pc = "probe"
    /\ \E ok, bwgOk \in BOOLEAN :
       /\ "failing" \in prScope \/ (ok /\ bwgOk)
       /\ prRun' = [pc |-> "meter", moment |-> prRun.moment, mode |-> prRun.mode,
                    hold |-> prRun.hold, active |-> prRun.active, ok |-> ok, bwgOk |-> bwgOk,
                    state |-> AfterProbe(prRun.state, ok, prRun.moment)]
    /\ UNCHANGED <<runnerWorld, prRecord, prFile, runnerHistory>>

\* What is left to do once the run does not switch, or no longer.
Ending(run) == [pc |-> "write", moment |-> run.moment, ok |-> run.ok, state |-> run.state]

Decided(baseline, sample) ==
    LET run == [prRun EXCEPT !.state.baseline = baseline]
        decision == Decision(run, sample)
    IN  IF Switches(run, decision[1])
        THEN [pc |-> "back up", moment |-> run.moment, ok |-> run.ok, state |-> run.state,
              target |-> decision[1], why |-> decision[2], previous |-> run.active]
        ELSE Ending(run)

\* The counter is read after the run's moment, or not at all.
ReadsMeter ==
    /\ prRun.pc = "meter"
    /\ \/ LET baseline == BaselineAt(prRun.state, prRun.moment, prCounter)
          IN  prRun' = Decided(baseline, TrafficSample(baseline, prRun.moment, prCounter))
       \/ "fault" \in prScope /\ prRun' = Decided(prRun.state.baseline, UnknownSample)
    /\ UNCHANGED <<runnerWorld, prRecord, prFile, runnerHistory>>

\* switch_with_rollback: the record is read again and backed up.
BacksUp ==
    /\ prRun.pc = "back up"
    /\ \/ prRun' = [prRun EXCEPT !.pc = "apply", !.previous = prRecord]
       \/ "fault" \in prScope /\ prRun' = Ending(prRun)
    /\ UNCHANGED <<runnerWorld, prRecord, prFile, runnerHistory>>

\* A call that failed is not taken back, whatever it did.
Applies ==
    /\ prRun.pc = "apply"
    /\ \/ prRecord' = prRun.target
       \/ "fault" \in prScope /\ UNCHANGED prRecord
    /\ \/ prRun' = [prRun EXCEPT !.pc = "verify"] /\ UNCHANGED prTrouble
       \/ "fault" \in prScope /\ prRun' = Ending(prRun) /\ prTrouble' = TRUE
    /\ UNCHANGED <<runnerWorld, prFile, prProbes, prSwitched, prForgotten, prGood>>

\* One of the three does not hold, or not within the deadline.
FailsVerification ==
    /\ prRun.pc = "verify"
    /\ prRun' = [prRun EXCEPT !.pc = "restore"]
    /\ UNCHANGED <<runnerWorld, prRecord, prFile, runnerHistory>>

\* The record shows the target, and the target serves, also by its name.
VerifiesSwitch ==
    /\ prRun.pc = "verify" /\ prRecord = prRun.target
    /\ prRun' = Ending([prRun EXCEPT !.state.switched = prRun.moment])
    /\ prSwitched' = prRun.moment /\ prForgotten' = FALSE
    /\ prGood' = prRun.target /\ prTrouble' = FALSE
    /\ UNCHANGED <<runnerWorld, prRecord, prFile, prProbes>>

\* The record could not be read back: no rollback either.
LosesSight ==
    /\ "fault" \in prScope /\ prRun.pc = "verify"
    /\ prRun' = Ending(prRun) /\ prTrouble' = TRUE
    /\ UNCHANGED <<runnerWorld, prRecord, prFile, prProbes, prSwitched, prForgotten, prGood>>

\* The rollback; whether it can be verified changes what is reported only.
RestoresRecord ==
    /\ prRun.pc = "restore"
    /\ prRun' = Ending(prRun)
    /\ \/ prRecord' = prRun.previous /\ UNCHANGED prTrouble
       \/ "fault" \in prScope /\ UNCHANGED prRecord /\ prTrouble' = TRUE
    /\ UNCHANGED <<runnerWorld, prFile, prProbes, prSwitched, prForgotten, prGood>>

\* atomic_json, at the end of every run, of a failed switch as well.
WritesState ==
    /\ prRun.pc = "write"
    /\ prFile' = prRun.state /\ prRun' = NoPolicyRun
    /\ prProbes' = prProbes \cup {[at |-> prRun.moment, ok |-> prRun.ok]}
    /\ UNCHANGED <<runnerWorld, prRecord, prSwitched, prForgotten, prGood, prTrouble>>

\* The run is killed, or cannot write the file.
RunDies ==
    /\ "fault" \in prScope /\ prRun # NoPolicyRun /\ prRun' = NoPolicyRun
    /\ prTrouble' = (prTrouble \/ prRun.pc \in {"verify", "restore"})
    /\ prForgotten' = IF prRun.pc = "write" /\ prRun.state.switched # prFile.switched
                      THEN TRUE ELSE prForgotten
    /\ UNCHANGED <<runnerWorld, prRecord, prFile, prProbes, prSwitched, prGood>>

-----------------------------------------------------------------------------
\* The world

RunnerTick ==
    /\ prNow < MaxRunnerNow /\ prNow' = prNow + 1
    /\ UNCHANGED <<prScope, prCounter, prUsed, prRecord, prFile, prRun, runnerHistory>>

CarriesTraffic ==
    /\ "traffic" \in prScope /\ prUsed[CycleAt(prNow)] < MaxTraffic
    /\ prUsed' = [c \in RunnerCycles |-> prUsed[c] + IF c <= CycleAt(prNow) THEN 1 ELSE 0]
    /\ prCounter' = prCounter + 1
    /\ UNCHANGED <<prScope, prNow, prRecord, prFile, prRun, runnerHistory>>

Reboots ==
    /\ prCounter # 0 /\ prCounter' = 0
    /\ UNCHANGED <<prScope, prNow, prUsed, prRecord, prFile, prRun, runnerHistory>>

RunnerNext ==
    \/ RunBegins \/ ProbesNodes \/ ReadsMeter \/ BacksUp \/ Applies
    \/ VerifiesSwitch \/ FailsVerification \/ LosesSight \/ RestoresRecord
    \/ WritesState \/ RunDies
    \/ RunnerTick \/ CarriesTraffic \/ Reboots

RunnerSpec == RunnerInit /\ [][RunnerNext]_runnerVars

-----------------------------------------------------------------------------
\* n probes with the same result, far enough apart to be counted, without one
\* of the other result that could have been counted after the first of them.
Confirmed(n, ok) ==
    LET probes == prProbes \cup {[at |-> prRun.moment, ok |-> prRun.ok]}
        with(result) == {p.at : p \in {q \in probes : q.ok = result}}
    IN  \E S \in kSubset(n, with(ok)) :
          /\ \A s, t \in S : s < t => t >= s + SampleInterval
          /\ \A g \in with(~ok) :
                (\E s \in S : s < g) => \E s \in S : s <= g /\ g < s + SampleInterval

\* A run that is about to change the record has earned it: rapid, killed and
\* failed runs, dry runs and reboots of the counter between do not add up to
\* a failure, a recovery or a used quota that was not there, and the last
\* switch that a run verified and recorded is a cooldown ago.
SwitchIsEarned ==
    prRun.pc = "apply" =>
        /\ prSwitched = NeverYet \/ prForgotten \/ prRun.moment >= prSwitched + RunnerCooldown
        /\ prRun.why = "health" => Confirmed(FailuresToSwitch, FALSE)
        /\ prRun.why = "traffic" => prUsed[CycleAt(prRun.moment)] >= LeaveAt
        /\ prRun.why = "return" => Confirmed(SuccessesToReturn, TRUE)

\* Between two runs the record is the target that was verified last, unless
\* a run was killed, or a call of it failed, after the record was changed.
RecordIsVerified == prRun.pc = "idle" /\ ~prTrouble => prRecord = prGood

\* Both: the record moves for a reason, and to where it was seen to serve.
RunnerIsCareful == SwitchIsEarned /\ RecordIsVerified
=============================================================================
