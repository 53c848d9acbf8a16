--------------------------- MODULE Control_proofs ---------------------------
(***************************************************************************)
(* Theorems about three components of MCControl.                           *)
(*                                                                         *)
(* EdgeCertificate, for any edges, any number of orders and whatever a PUT *)
(* does to the other values: no TXT value outlives the lease it was        *)
(* written under, and the challenge of an edge stands until that edge      *)
(* cleans it up.                                                           *)
(*                                                                         *)
(* PolicyRunner, for any thresholds, intervals and behaviour of the world: *)
(* a run changes the record only for a reason it has earned, and between   *)
(* two runs the record is the target that was verified last.               *)
(*                                                                         *)
(* FailoverController, for any thresholds, times, limits, samples and      *)
(* addresses: switches in mode auto are calm, the policy does not ask for  *)
(* the primary in the cycle that was left, and the database accounts for   *)
(* the provider's record.                                                  *)
(***************************************************************************)
EXTENDS EdgeCertificate, PolicyRunner, FailoverController, FiniteSetTheorems,
        WellFoundedInduction, TLAPS

-----------------------------------------------------------------------------
\* The certificate

(* Where a handler has acquired the lease, or has found that it holds it,  *)
(* and has not released it.                                                *)
LeasedPlaces == {"lists", "puts", "verifies", "presented",
                 "clearing", "deletes", "checks", "waits"}

(* Where the edge still wants its value to be there.                       *)
WantingPlaces == {"orders", "lists", "puts", "verifies", "presented"}

(* What an edge has in its file is of its own, and the hook is somewhere   *)
(* only for it.                                                            *)
FileOK(n) ==
    /\ acPending[n] # NoChallenge => acPending[n].node = n
    /\ acAt[n] # "idle" => acPending[n] # NoChallenge
    /\ acAt[n] \in LeasedPlaces => acLease = acPending[n]

(* A call is in flight only under the lease of its value, and a DELETE     *)
(* only when the edge, if it still knows the value, does not want it.      *)
FlightOK ==
    \A f \in acFlight :
        /\ acLease = f.value
        /\ f.op = "delete" /\ acPending[f.value.node] = f.value =>
               acAt[f.value.node] \notin WantingPlaces

CertInv ==
    /\ CertTypeOK
    /\ \A n \in CertNodes : FileOK(n)
    /\ FlightOK
    /\ ChallengeStands

-----------------------------------------------------------------------------
(* A challenge is not NoChallenge and not a foreign value, and its node is *)
(* an edge.                                                                *)
LEMMA ChallengeFacts ==
  /\ NoChallenge \notin Challenge /\ Foreign \notin Challenge
  /\ \A v \in Challenge : v.node \in CertNodes
BY CertNodesAssumption DEF Challenge, NoChallenge, Foreign

(* At first nothing is pending, leased or served.                          *)
LEMMA InitCert == CertInit => CertInv
BY DEF CertInit, CertInv, CertTypeOK, FileOK, FlightOK, ChallengeStands,
       LeasedPlaces, Places, At

(* A step of one edge that changes its place only, to one that asks        *)
(* nothing new of the lease and does not want the value again.             *)
LEMMA MovesOnly ==
  ASSUME CertInv, NEW n \in CertNodes, NEW place \in {"idle", "cleans"}, MovesTo(n, place),
         place = "idle" \/ acPending[n] # NoChallenge,
         UNCHANGED <<acLease, acTxt, acPending, acSeen, acFlight>>
  PROVE  CertInv'
BY DEF CertInv, CertTypeOK, FileOK, FlightOK, ChallengeStands, LeasedPlaces,
       WantingPlaces, Places, At, MovesTo

(* A certificate is ordered, or the lease acquired.                        *)
LEMMA BeginningKeeps ==
  ASSUME CertInv, NEW n \in CertNodes, OrdersCertificate(n) \/ AcquiresLease(n)
  PROVE  CertInv'
<1> USE DEF CertInv, CertTypeOK, LeasedPlaces, WantingPlaces, Places, At, MovesTo
<1>1. CASE OrdersCertificate(n)
  <2>1. PICK v \in Challenge : /\ v.node = n /\ NewToTheWorld(v)
                               /\ acPending' = [acPending EXCEPT ![n] = v]
    BY <1>1 DEF OrdersCertificate
  <2>2. acAt' = [acAt EXCEPT ![n] = "orders"] /\ acPending[n] = NoChallenge
        /\ UNCHANGED <<acLease, acTxt, acSeen, acFlight>>
    BY <1>1 DEF OrdersCertificate
  <2>3. CertTypeOK' /\ \A m \in CertNodes : FileOK(m)'
    BY <2>1, <2>2, ChallengeFacts DEF FileOK
  <2>4. \A f \in acFlight : f.value # v
    BY <2>1 DEF NewToTheWorld
  <2>5. FlightOK'
    BY <2>1, <2>2, <2>4, ChallengeFacts DEF FlightOK
  <2>6. ChallengeStands'
    BY <2>1, <2>2 DEF ChallengeStands
  <2>7. QED
    BY <2>3, <2>5, <2>6
<1>2. CASE AcquiresLease(n)
  <2>1. acAt' = [acAt EXCEPT ![n] = "lists"] /\ acAt[n] = "orders" /\ acLease' = acPending[n]
        /\ UNCHANGED <<acTxt, acPending, acSeen, acFlight>>
    BY <1>2 DEF AcquiresLease
  <2>2. acPending[n] \in Challenge /\ acPending[n].node = n
    BY <2>1 DEF FileOK
  <2>3. acLease = NoChallenge \/ acLease = acPending[n]
    BY <1>2 DEF AcquiresLease, LeaseFree
  <2>4. \A m \in CertNodes : acAt[m] \in LeasedPlaces => m = n
    BY <2>2, <2>3 DEF FileOK
  <2>5. CertTypeOK' /\ \A m \in CertNodes : FileOK(m)'
    BY <2>1, <2>2, <2>4 DEF FileOK
  <2>6. FlightOK'
    BY <2>1, <2>2, <2>3, ChallengeFacts DEF FlightOK
  <2>7. ChallengeStands'
    BY <2>1, <2>2, <2>3, ChallengeFacts DEF ChallengeStands
  <2>8. QED
    BY <2>5, <2>6, <2>7
<1>3. QED
  BY <1>1, <1>2

(* The value is presented.                                                 *)
LEMMA PresentingKeeps ==
  ASSUME CertInv, NEW n \in CertNodes,
         ListsBeforePut(n) \/ VerifiesPut(n) \/ PresentFails(n) \/ CertbotFinishes(n)
  PROVE  CertInv'
<1>1. CASE ListsBeforePut(n)
  <2>1. acPending[n] \in Challenge /\ acPending[n].node = n /\ acLease = acPending[n]
    BY <1>1 DEF ListsBeforePut, At, CertInv, CertTypeOK, FileOK, LeasedPlaces
  <2> USE DEF CertInv, CertTypeOK, LeasedPlaces, WantingPlaces, Places, At, MovesTo
  <2>2. CASE acTxt = {}
    <3>1. acAt' = [acAt EXCEPT ![n] = "puts"]
          /\ acFlight' = acFlight \cup {ProviderCall("put", n)}
          /\ acSeen' = [acSeen EXCEPT ![n] = acTxt \ {acPending[n]}]
          /\ UNCHANGED <<acLease, acTxt, acPending>> /\ acAt[n] = "lists"
      BY <1>1, <2>2 DEF ListsBeforePut
    <3>2. ProviderCall("put", n) \in [op : {"put", "delete"}, value : Challenge]
          /\ ProviderCall("put", n).op = "put" /\ ProviderCall("put", n).value = acLease
      BY <2>1 DEF ProviderCall
    <3>3. CertTypeOK' /\ \A m \in CertNodes : FileOK(m)'
      BY <3>1, <3>2 DEF FileOK
    <3>4. FlightOK'
      BY <3>1, <3>2, ChallengeFacts DEF FlightOK
    <3>5. QED
      BY <3>1, <3>3, <3>4 DEF ChallengeStands
  <2>3. CASE acTxt # {}
    <3>1. PICK place \in {"verifies", "cleans"} : acAt' = [acAt EXCEPT ![n] = place]
      BY <1>1, <2>3 DEF ListsBeforePut
    <3>2. acSeen' = [acSeen EXCEPT ![n] = acTxt \ {acPending[n]}]
          /\ UNCHANGED <<acLease, acTxt, acPending, acFlight>> /\ acAt[n] = "lists"
      BY <1>1, <2>3 DEF ListsBeforePut
    <3>3. QED
      BY <3>1, <3>2, <2>1 DEF FileOK, FlightOK, ChallengeStands
  <2>4. QED
    BY <2>2, <2>3
<1>2. CASE VerifiesPut(n)
  BY <1>2 DEF VerifiesPut, CertInv, CertTypeOK, FileOK, FlightOK, ChallengeStands,
       LeasedPlaces, WantingPlaces, Places, At, MovesTo
<1>3. CASE PresentFails(n) \/ CertbotFinishes(n)
  <2>1. acPending[n] # NoChallenge
    BY <1>3 DEF PresentFails, Presenting, CertbotFinishes, At, CertInv, FileOK
  <2>2. QED
    BY <1>3, <2>1, MovesOnly DEF PresentFails, CertbotFinishes
<1>4. QED
  BY <1>1, <1>2, <1>3

(* The value is cleaned up, and the lease released.                        *)
LEMMA CleaningKeeps ==
  ASSUME CertInv, NEW n \in CertNodes,
         \/ AsksCleanup(n) \/ ListsBeforeDelete(n) \/ VerifiesDelete(n)
         \/ CleanupFails(n) \/ ReleasesLease(n)
  PROVE  CertInv'
<1> USE DEF CertInv, CertTypeOK, LeasedPlaces, WantingPlaces, Places, At, MovesTo
<1>1. CASE AsksCleanup(n) /\ acAt' = [acAt EXCEPT ![n] = "clearing"]
  BY <1>1 DEF AsksCleanup, HoldsLease, FileOK, FlightOK, ChallengeStands
<1>2. CASE AsksCleanup(n) /\ acPending' = [acPending EXCEPT ![n] = NoChallenge]
           /\ acAt' = [acAt EXCEPT ![n] = "idle"]
  <2>1. acAt[n] = "cleans" /\ UNCHANGED <<acLease, acTxt, acSeen, acFlight>>
    BY <1>2 DEF AsksCleanup
  <2>2. \A f \in acFlight : acPending'[f.value.node] = f.value =>
            /\ f.value.node # n
            /\ acPending[f.value.node] = f.value
            /\ acAt'[f.value.node] = acAt[f.value.node]
    BY <1>2, ChallengeFacts
  <2>3. FlightOK'
    BY <2>1, <2>2 DEF FlightOK
  <2>4. QED
    BY <1>2, <2>1, <2>3 DEF FileOK, ChallengeStands
<1>3. CASE ListsBeforeDelete(n)
  <2>1. acPending[n] \in Challenge /\ acPending[n].node = n /\ acLease = acPending[n]
    BY <1>3 DEF ListsBeforeDelete, FileOK
  <2>2. CASE acPending[n] \in acTxt
    <3>1. acAt' = [acAt EXCEPT ![n] = "deletes"]
          /\ acFlight' = acFlight \cup {ProviderCall("delete", n)}
          /\ acSeen' = [acSeen EXCEPT ![n] = acTxt \ {acPending[n]}]
          /\ UNCHANGED <<acLease, acTxt, acPending>> /\ acAt[n] = "clearing"
      BY <1>3, <2>2 DEF ListsBeforeDelete
    <3>2. ProviderCall("delete", n) \in [op : {"put", "delete"}, value : Challenge]
          /\ ProviderCall("delete", n).value = acLease
      BY <2>1 DEF ProviderCall
    <3>3. CertTypeOK' /\ \A m \in CertNodes : FileOK(m)'
      BY <3>1, <3>2 DEF FileOK
    <3>4. FlightOK'
      BY <2>1, <3>1, <3>2, ChallengeFacts DEF FlightOK
    <3>5. QED
      BY <3>1, <3>3, <3>4 DEF ChallengeStands
  <2>3. CASE acPending[n] \notin acTxt
    BY <1>3, <2>3 DEF ListsBeforeDelete, FileOK, FlightOK, ChallengeStands
  <2>4. QED
    BY <2>2, <2>3
<1>4. CASE VerifiesDelete(n)
  BY <1>4 DEF VerifiesDelete, FileOK, FlightOK, ChallengeStands
<1>5. CASE CleanupFails(n)
  <2>1. acPending[n] # NoChallenge
    BY <1>5 DEF CleanupFails, CleaningUp, FileOK
  <2>2. QED
    BY <1>5, <2>1, MovesOnly DEF CleanupFails
<1>6. CASE ReleasesLease(n)
  <2>1. acAt' = [acAt EXCEPT ![n] = "idle"] /\ acAt[n] = "waits" /\ acLease = acPending[n]
        /\ acLease' = NoChallenge /\ acPending' = [acPending EXCEPT ![n] = NoChallenge]
        /\ UNCHANGED <<acTxt, acSeen, acFlight>>
    BY <1>6 DEF ReleasesLease, HoldsLease
  <2>2. acTxt \cap Challenge = {} /\ acFlight = {}
    BY <1>6, <2>1 DEF ReleasesLease, AbsentEverywhere, ChallengeStands, FlightOK
  <2>3. \A m \in CertNodes : acAt[m] \in LeasedPlaces => m = n
    BY <2>1 DEF FileOK
  <2>4. CertTypeOK' /\ \A m \in CertNodes : FileOK(m)'
    BY <2>1, <2>3 DEF FileOK
  <2>5. FlightOK' /\ ChallengeStands'
    BY <2>1, <2>2, <2>3 DEF FlightOK, ChallengeStands
  <2>6. QED
    BY <2>4, <2>5
<1>7. AsksCleanup(n) => CertInv'
  BY <1>1, <1>2 DEF AsksCleanup
<1>8. QED
  BY <1>3, <1>4, <1>5, <1>6, <1>7

(* Where the edges are after an answer.                                    *)
LEMMA AnswerMoves ==
  ASSUME CertInv, NEW f \in acFlight, AnswersTo(f)
  PROVE  /\ acAt' \in [CertNodes -> Places]
         /\ \A n \in CertNodes :
               \/ acAt'[n] = acAt[n]
               \/ /\ acPending[n] = f.value /\ f.op = "put"
                  /\ acAt[n] = "puts" /\ acAt'[n] = "verifies"
               \/ /\ acPending[n] = f.value /\ f.op = "delete"
                  /\ acAt[n] = "deletes" /\ acAt'[n] = "checks"
BY DEF CertInv, CertTypeOK, AnswersTo, Places, At

(* A provider call takes effect or is lost.                                *)
LEMMA ProviderKeeps ==
  ASSUME CertInv, NEW f \in acFlight, TakesEffect(f) \/ IsLost(f)
  PROVE  CertInv'
<1> USE DEF CertInv
<1>1. f.value \in Challenge /\ acLease = f.value /\ f.op \in {"put", "delete"}
  BY DEF CertTypeOK, FlightOK
<1>2. CASE TakesEffect(f)
  <2>1. AnswersTo(f) /\ acFlight' = acFlight \ {f} /\ UNCHANGED <<acLease, acPending, acSeen>>
    BY <1>2 DEF TakesEffect
  <2>2. \/ f.op = "put" /\ acTxt' \in {acTxt \cup {f.value}, {f.value}}
        \/ f.op = "delete" /\ acTxt' = acTxt \ {f.value}
    BY <1>2 DEF TakesEffect
  <2>3. CertTypeOK'
    BY <1>1, <2>1, <2>2, AnswerMoves DEF CertTypeOK
  <2>4. \A n \in CertNodes : FileOK(n)'
    BY <2>1, AnswerMoves DEF FileOK, LeasedPlaces
  <2>5. FlightOK'
    BY <1>1, <2>1, AnswerMoves, ChallengeFacts DEF FlightOK, WantingPlaces, CertTypeOK
  <2>6. ASSUME NEW n \in CertNodes, acAt'[n] = "presented" PROVE acPending[n] \in acTxt'
    <3>1. acAt[n] = "presented" /\ acPending[n] \in acTxt /\ acPending[n] = acLease
          /\ acPending[n].node = n
      BY <2>1, <2>6, AnswerMoves DEF ChallengeStands, At, FileOK, LeasedPlaces
    <3>2. f.op = "put"
      BY <1>1, <3>1 DEF FlightOK, WantingPlaces
    <3>3. QED
      BY <1>1, <2>2, <3>1, <3>2
  <2>7. ChallengeStands'
    BY <1>1, <2>1, <2>2, <2>6 DEF ChallengeStands, At
  <2>8. QED
    BY <2>3, <2>4, <2>5, <2>7
<1>3. CASE IsLost(f)
  BY <1>3 DEF IsLost, CertTypeOK, FileOK, FlightOK, ChallengeStands, At
<1>4. QED
  BY <1>2, <1>3

(* Every step keeps the invariant.                                         *)
LEMMA NextCert == CertInv /\ [CertNext]_certVars => CertInv'
<1> SUFFICES ASSUME CertInv, [CertNext]_certVars PROVE CertInv'
  OBVIOUS
<1>1. ASSUME NEW n \in CertNodes, HookDies(n) PROVE CertInv'
  BY <1>1, MovesOnly DEF HookDies
<1>2. ASSUME NEW n \in CertNodes, Recovers(n) PROVE CertInv'
  BY <1>2, MovesOnly DEF Recovers
<1>3. CASE ForeignChanges
  BY <1>3, ChallengeFacts DEF ForeignChanges, CertInv, CertTypeOK, FileOK, FlightOK,
       ChallengeStands, At
<1>4. CASE UNCHANGED certVars
  BY <1>4 DEF certVars, CertInv, CertTypeOK, FileOK, FlightOK, ChallengeStands, At
<1>5. ASSUME NEW n \in CertNodes,
              \/ OrdersCertificate(n) \/ AcquiresLease(n)
              \/ ListsBeforePut(n) \/ VerifiesPut(n) \/ PresentFails(n)
              \/ CertbotFinishes(n)
              \/ AsksCleanup(n) \/ ListsBeforeDelete(n) \/ VerifiesDelete(n)
              \/ CleanupFails(n) \/ ReleasesLease(n)
              \/ HookDies(n) \/ Recovers(n)
      PROVE  CertInv'
  <2>1. CASE OrdersCertificate(n) \/ AcquiresLease(n)
    BY <2>1, BeginningKeeps
  <2>2. CASE ListsBeforePut(n) \/ VerifiesPut(n) \/ PresentFails(n) \/ CertbotFinishes(n)
    BY <2>2, PresentingKeeps
  <2>3. CASE \/ AsksCleanup(n) \/ ListsBeforeDelete(n) \/ VerifiesDelete(n)
             \/ CleanupFails(n) \/ ReleasesLease(n)
    BY <2>3, CleaningKeeps
  <2>4. QED
    BY <1>1, <1>2, <1>5, <2>1, <2>2, <2>3
<1>6. ASSUME NEW f \in acFlight, TakesEffect(f) \/ IsLost(f) PROVE CertInv'
  BY <1>6, ProviderKeeps
<1>7. QED
  BY <1>3, <1>4, <1>5, <1>6 DEF CertNext

-----------------------------------------------------------------------------
(* The invariant holds in every behaviour.                                 *)
LEMMA CertInvariant == CertSpec => []CertInv
BY InitCert, NextCert, PTL DEF CertSpec

(* Every value of the model is what its declaration says.                  *)
THEOREM CertTypeCorrect == CertSpec => []CertTypeOK
<1>1. CertInv => CertTypeOK
  BY DEF CertInv
<1>2. QED
  BY <1>1, CertInvariant, PTL

(* No TXT value outlives the lease it was written under, and what certbot  *)
(* is having validated is there until its own edge cleans it up: hooks     *)
(* that die and calls that take effect late included.                      *)
THEOREM ChallengesStand == CertSpec => []ChallengeStands
<1>1. CertInv => ChallengeStands
  BY DEF CertInv
<1>2. QED
  BY <1>1, CertInvariant, PTL

(* One challenge is served at a time: two edges never believe at once that *)
(* theirs is presented, and a call in flight is never of another one.      *)
OneChallenge ==
    /\ \A m, n \in CertNodes : At(m, "presented") /\ At(n, "presented") => m = n
    /\ \A n \in CertNodes, f \in acFlight : At(n, "presented") => f.value = acPending[n]

(* The lease makes the challenges of the edges exclude one another.        *)
THEOREM OneAtATime == CertSpec => []OneChallenge
<1>1. CertInv => OneChallenge
  BY DEF CertInv, FileOK, LeasedPlaces, FlightOK, OneChallenge, At
<1>2. QED
  BY <1>1, CertInvariant, PTL

-----------------------------------------------------------------------------
\* The policy runner

(* The state file, and the run between two steps.                          *)
Moments == Nat \cup {NeverYet}
Baselines == [cycle : Moments, bytes : Nat, aligned : BOOLEAN]
PolicyStates ==
  [failures : 0..FailuresToSwitch, successes : 0..SuccessesToReturn,
   sampled : Moments, switched : Moments, baseline : Baselines]

RunModes == {"dry-run", "auto"}
Pins == Targets \cup {"none"}
Reasons == {"hold", "health", "blind", "traffic", "stay", "return"}

Probing == [pc : {"probe"}, moment : Nat, mode : RunModes, hold : Pins, active : Targets,
            state : PolicyStates]
Metering == [pc : {"meter"}, moment : Nat, mode : RunModes, hold : Pins, active : Targets,
             ok : BOOLEAN, bwgOk : BOOLEAN, state : PolicyStates]
Switching == [pc : {"back up", "apply", "verify", "restore"}, moment : Nat, ok : BOOLEAN,
              state : PolicyStates, target : Targets, why : Reasons, previous : Targets]
Writing == [pc : {"write"}, moment : Nat, ok : BOOLEAN, state : PolicyStates]
PolicyRuns == {NoPolicyRun} \cup Probing \cup Metering \cup Switching \cup Writing

RunnerTypeOK ==
  /\ prNow \in 0..MaxRunnerNow
  /\ prCounter \in Nat
  /\ prUsed \in [RunnerCycles -> Nat]
  /\ {prRecord, prGood} \subseteq Targets
  /\ prFile \in PolicyStates
  /\ prRun \in PolicyRuns
  /\ prProbes \subseteq [at : Nat, ok : BOOLEAN]
  /\ prSwitched \in Moments
  /\ {prForgotten, prTrouble} \subseteq BOOLEAN

(* n counted probes with one result, the last of them at moment last, and  *)
(* none of the other result that could have been counted since the first.  *)
Results(probes, ok) == {p.at : p \in {q \in probes : q.ok = ok}}
Apart(S) == \A s, t \in S : s < t => t >= s + SampleInterval
Unbroken(S, others) ==
  \A g \in others :
    (\E s \in S : s < g) => \E s \in S : s <= g /\ g < s + SampleInterval
Streak(probes, n, ok, last) ==
  \E S \in SUBSET Results(probes, ok) :
    /\ IsFiniteSet(S) /\ Cardinality(S) = n
    /\ last \in S /\ \A s \in S : s <= last
    /\ Apart(S) /\ Unbroken(S, Results(probes, ~ok))

HealthOK(state, probes) ==
  /\ state.failures > 0 => Streak(probes, state.failures, FALSE, state.sampled)
  /\ state.successes > 0 => Streak(probes, state.successes, TRUE, state.sampled)

(* What NOSLA used from the start of a baseline's cycle on is at least     *)
(* what the counter has grown since, and the opening balance.              *)
OpeningOf(cycle) == IF cycle = SeedCycle THEN Opening ELSE 0
BaselineOK(baseline, counter, used, cycle) ==
  baseline.cycle # NeverYet =>
    /\ baseline.cycle <= cycle
    /\ counter - baseline.bytes + OpeningOf(baseline.cycle) <= used[baseline.cycle]

Cooled(switched, moment) == switched = NeverYet \/ moment >= switched + RunnerCooldown

TimesOK ==
  /\ \A p \in prProbes : p.at <= prNow
  /\ prFile.sampled <= prNow
  /\ prRun # NoPolicyRun =>
       /\ prRun.moment <= prNow /\ prRun.state.sampled <= prRun.moment
       /\ \A p \in prProbes : p.at <= prRun.moment

Probes(run) == prProbes \cup {[at |-> run.moment, ok |-> run.ok]}
HealthInv ==
  /\ HealthOK(prFile, prProbes)
  /\ prRun.pc = "probe" => HealthOK(prRun.state, prProbes)
  /\ prRun.pc \notin {"idle", "probe"} => HealthOK(prRun.state, Probes(prRun))

MeterInv ==
  /\ \A c \in RunnerCycles : prUsed[c] >= OpeningOf(c)
  /\ BaselineOK(prFile.baseline, prCounter, prUsed, CycleAt(prNow))
  /\ prRun # NoPolicyRun =>
       BaselineOK(prRun.state.baseline, prCounter, prUsed, CycleAt(prNow))

SwitchedInv ==
  /\ prRun.pc # "write" => prForgotten \/ prFile.switched = prSwitched
  /\ prRun.pc \notin {"idle", "write"} => prRun.state.switched = prFile.switched
  /\ prRun.pc = "write" => prForgotten \/ prRun.state.switched = prSwitched

ReasonInv ==
  prRun.pc \in {"back up", "apply"} =>
    /\ Cooled(prRun.state.switched, prRun.moment)
    /\ prRun.why = "health" => prRun.state.failures = FailuresToSwitch
    /\ prRun.why = "return" => prRun.ok /\ prRun.state.successes = SuccessesToReturn
    /\ prRun.why = "traffic" => prUsed[CycleAt(prRun.moment)] >= LeaveAt

RecordInv ==
  ~prTrouble =>
    /\ prRun.pc \notin {"verify", "restore"} => prRecord = prGood
    /\ prRun.pc \in {"apply", "verify", "restore"} => prRun.previous = prGood

RunnerInv ==
  RunnerTypeOK /\ TimesOK /\ HealthInv /\ MeterInv /\ SwitchedInv /\ ReasonInv /\ RecordInv

-----------------------------------------------------------------------------
\* Billing cycles

LEMMA CyclesAreOrdered ==
  ASSUME NEW a \in Nat, NEW b \in Nat, a <= b
  PROVE  /\ CycleAt(a) \in Nat /\ CycleAt(b) \in Nat
         /\ CycleAt(a) <= CycleAt(b)
<1> DEFINE C == RunnerCycle
<1>1. C \in Nat \ {0}
  BY RunnerAssumption
<1> HIDE DEF C
<1>2. C * (a \div C) <= a /\ a < C * (a \div C) + C /\ a \div C \in Int
  BY <1>1, SMT
<1>3. C * (b \div C) <= b /\ b < C * (b \div C) + C /\ b \div C \in Int
  BY <1>1, SMT
<1>4. ASSUME NEW x \in Int, NEW y \in Int, x > y
      PROVE  C * x >= C * y + C
  <2>1. C * x - C * y = C * (x - y)
    BY <1>1, <1>4, SMT
  <2>2. C * (x - y) >= C
    BY <1>1, <1>4, SMT
  <2> QED
    BY <1>1, <1>4, <2>1, <2>2, SMT
<1>5. a \div C <= b \div C
  BY <1>1, <1>2, <1>3, <1>4, SMT
<1>6. a \div C >= 0 /\ b \div C >= 0
  BY <1>1, <1>2, <1>3, SMT
<1> QED
  BY <1>2, <1>3, <1>5, <1>6 DEF CycleAt, C

-----------------------------------------------------------------------------
\* Streaks

(* A set of moments has a first one.                                       *)
LEMMA FirstMoment ==
  ASSUME NEW S \in SUBSET Nat, S # {}
  PROVE  \E m \in S : \A s \in S : m <= s
<1>1. PICK m \in S : \A s \in S : ~(<<s, m>> \in OpToRel(<, Nat))
  BY NatLessThanWellFounded, WFMin, Zenon
<1>2. \A s \in S : ~(s < m)
  BY <1>1, Zenon DEF OpToRel
<1> QED
  BY <1>2

(* A probe that comes too soon to be counted leaves every streak.          *)
LEMMA StreakStays ==
  ASSUME NEW probes \in SUBSET [at : Nat, ok : BOOLEAN], NEW n, NEW ok \in BOOLEAN,
         NEW last, Streak(probes, n, ok, last),
         NEW moment \in Nat, NEW result \in BOOLEAN,
         last <= moment, moment < last + SampleInterval
  PROVE  Streak(probes \cup {[at |-> moment, ok |-> result]}, n, ok, last)
<1> DEFINE more == probes \cup {[at |-> moment, ok |-> result]}
<1>1. PICK S \in SUBSET Results(probes, ok) :
        /\ IsFiniteSet(S) /\ Cardinality(S) = n
        /\ last \in S /\ \A s \in S : s <= last
        /\ Apart(S) /\ Unbroken(S, Results(probes, ~ok))
  BY DEF Streak
<1>2. S \in SUBSET Results(more, ok)
  BY DEF Results
<1>3. \A g \in Results(more, ~ok) : g \in Results(probes, ~ok) \/ g = moment
  BY DEF Results
<1>4. Unbroken(S, Results(more, ~ok))
  BY <1>1, <1>3 DEF Unbroken
<1> QED
  BY <1>1, <1>2, <1>4 DEF Streak

(* What a counted probe makes of a set of moments that are all before it,  *)
(* and at a distance.                                                      *)
LEMMA StreakWith ==
  ASSUME NEW probes \in SUBSET [at : Nat, ok : BOOLEAN], NEW ok \in BOOLEAN,
         NEW moment \in Nat, \A p \in probes : p.at <= moment,
         NEW S \in SUBSET Results(probes, ok), IsFiniteSet(S),
         \A s \in S : moment >= s + SampleInterval,
         Apart(S), Unbroken(S, Results(probes, ~ok))
  PROVE  Streak(probes \cup {[at |-> moment, ok |-> ok]}, Cardinality(S) + 1, ok, moment)
<1> DEFINE more == probes \cup {[at |-> moment, ok |-> ok]}
           T == S \cup {moment}
<1>0. SampleInterval \in Nat \ {0}
  BY RunnerAssumption
<1>1. S \in SUBSET Nat
  BY DEF Results
<1>2. moment \notin S
  BY <1>0, <1>1
<1>3. IsFiniteSet(T) /\ Cardinality(T) = Cardinality(S) + 1
  BY <1>2, FS_AddElement
<1>4. T \in SUBSET Results(more, ok)
  BY DEF Results
<1>5. \A s \in T : s <= moment
  BY <1>0, <1>1
<1>6. Apart(T)
  <2> SUFFICES ASSUME NEW s \in T, NEW t \in T, s < t
               PROVE  t >= s + SampleInterval
    BY DEF Apart
  <2>1. CASE t = moment
    BY <2>1, <1>0, <1>1
  <2>2. CASE t \in S
    <3>1. s # moment
      BY <2>2, <1>0, <1>1
    <3> QED
      BY <2>2, <3>1 DEF Apart
  <2> QED
    BY <2>1, <2>2
<1>7. \A g \in Results(more, ~ok) : g \in Results(probes, ~ok) /\ g \in Nat /\ g <= moment
  BY DEF Results
<1>8. Unbroken(T, Results(more, ~ok))
  <2> SUFFICES ASSUME NEW g \in Results(more, ~ok), NEW s \in T, s < g
               PROVE  \E t \in T : t <= g /\ g < t + SampleInterval
    BY DEF Unbroken
  <2>1. g \in Results(probes, ~ok) /\ s \in S
    BY <1>7
  <2> QED
    BY <2>1 DEF Unbroken
<1> QED
  BY <1>3, <1>4, <1>5, <1>6, <1>8 DEF Streak

(* A first good or failed probe, one more of them, and one more than the   *)
(* threshold asks for, whose first is forgotten then.                      *)
LEMMA StreakBegins ==
  ASSUME NEW probes \in SUBSET [at : Nat, ok : BOOLEAN], NEW ok \in BOOLEAN,
         NEW moment \in Nat, \A p \in probes : p.at <= moment
  PROVE  Streak(probes \cup {[at |-> moment, ok |-> ok]}, 1, ok, moment)
<1>1. {} \in SUBSET Results(probes, ok) /\ IsFiniteSet({}) /\ Cardinality({}) = 0
  BY FS_EmptySet
<1>2. Apart({}) /\ Unbroken({}, Results(probes, ~ok))
  BY DEF Apart, Unbroken
<1>3. Streak(probes \cup {[at |-> moment, ok |-> ok]}, Cardinality({}) + 1, ok, moment)
  BY <1>1, <1>2, StreakWith
<1> QED
  BY <1>1, <1>3

LEMMA StreakGrows ==
  ASSUME NEW probes \in SUBSET [at : Nat, ok : BOOLEAN], NEW ok \in BOOLEAN,
         NEW moment \in Nat, \A p \in probes : p.at <= moment,
         NEW n \in Nat, NEW last, Streak(probes, n, ok, last),
         moment >= last + SampleInterval
  PROVE  Streak(probes \cup {[at |-> moment, ok |-> ok]}, n + 1, ok, moment)
<1>1. PICK S \in SUBSET Results(probes, ok) :
        /\ IsFiniteSet(S) /\ Cardinality(S) = n
        /\ last \in S /\ \A s \in S : s <= last
        /\ Apart(S) /\ Unbroken(S, Results(probes, ~ok))
  BY DEF Streak
<1>2. S \in SUBSET Nat /\ SampleInterval \in Nat
  BY RunnerAssumption DEF Results
<1>3. \A s \in S : moment >= s + SampleInterval
  BY <1>1, <1>2
<1>4. Streak(probes \cup {[at |-> moment, ok |-> ok]}, Cardinality(S) + 1, ok, moment)
  BY <1>1, <1>3, StreakWith
<1> QED
  BY <1>1, <1>4

LEMMA StreakSlides ==
  ASSUME NEW probes \in SUBSET [at : Nat, ok : BOOLEAN], NEW ok \in BOOLEAN,
         NEW moment \in Nat, \A p \in probes : p.at <= moment,
         NEW n \in Nat, NEW last, Streak(probes, n, ok, last),
         moment >= last + SampleInterval
  PROVE  Streak(probes \cup {[at |-> moment, ok |-> ok]}, n, ok, moment)
<1>1. PICK S \in SUBSET Results(probes, ok) :
        /\ IsFiniteSet(S) /\ Cardinality(S) = n
        /\ last \in S /\ \A s \in S : s <= last
        /\ Apart(S) /\ Unbroken(S, Results(probes, ~ok))
  BY DEF Streak
<1>2. S \in SUBSET Nat /\ SampleInterval \in Nat \ {0}
  BY RunnerAssumption DEF Results
<1>3. PICK m \in S : \A s \in S : m <= s
  BY <1>1, <1>2, FirstMoment
<1> DEFINE R == S \ {m}
<1>4. IsFiniteSet(R) /\ Cardinality(R) = n - 1
  BY <1>1, <1>3, FS_RemoveElement
<1>5. R \in SUBSET Results(probes, ok)
  OBVIOUS
<1>6. \A s \in R : moment >= s + SampleInterval
  BY <1>1, <1>2
<1>7. Apart(R)
  BY <1>1 DEF Apart
<1>8. Unbroken(R, Results(probes, ~ok))
  <2> SUFFICES ASSUME NEW g \in Results(probes, ~ok), NEW s \in R, s < g
               PROVE  \E t \in R : t <= g /\ g < t + SampleInterval
    BY DEF Unbroken
  <2>1. PICK t \in S : t <= g /\ g < t + SampleInterval
    BY <1>1 DEF Unbroken
  <2>2. m < s /\ g \in Nat
    BY <1>2, <1>3 DEF Results
  <2>3. s >= m + SampleInterval
    BY <1>1, <2>2 DEF Apart
  <2>4. t # m
    BY <1>2, <2>1, <2>2, <2>3
  <2> QED
    BY <2>1, <2>4
<1>9. Streak(probes \cup {[at |-> moment, ok |-> ok]}, Cardinality(R) + 1, ok, moment)
  <2> HIDE DEF R
  <2> QED
    BY <1>4, <1>5, <1>6, <1>7, <1>8, StreakWith
<1> QED
  BY <1>4, <1>9

(* update_health_state keeps the counts at what the probes were.           *)
LEMMA ProbeIsCounted ==
  ASSUME NEW probes \in SUBSET [at : Nat, ok : BOOLEAN], NEW ok \in BOOLEAN,
         NEW moment \in Nat, \A p \in probes : p.at <= moment,
         NEW state \in PolicyStates, state.sampled <= moment, HealthOK(state, probes)
  PROVE  /\ AfterProbe(state, ok, moment) \in PolicyStates
         /\ AfterProbe(state, ok, moment).sampled <= moment
         /\ AfterProbe(state, ok, moment).switched = state.switched
         /\ AfterProbe(state, ok, moment).baseline = state.baseline
         /\ HealthOK(AfterProbe(state, ok, moment),
                     probes \cup {[at |-> moment, ok |-> ok]})
<1> DEFINE more == probes \cup {[at |-> moment, ok |-> ok]}
           after == AfterProbe(state, ok, moment)
<1> SUFFICES /\ after \in PolicyStates /\ after.sampled <= moment
             /\ after.switched = state.switched /\ after.baseline = state.baseline
             /\ HealthOK(after, more)
  OBVIOUS
<1>0. /\ SampleInterval \in Nat \ {0}
      /\ FailuresToSwitch \in Nat \ {0} /\ SuccessesToReturn \in Nat \ {0}
  BY RunnerAssumption
<1>1. CASE TooSoon(state, moment)
  <2>1. after = state
    BY <1>1 DEF AfterProbe
  <2>2. state.sampled \in Nat /\ moment < state.sampled + SampleInterval
    BY <1>1 DEF TooSoon, PolicyStates, Moments
  <2>3. HealthOK(state, more)
    BY <2>2, StreakStays DEF HealthOK
  <2> QED
    BY <2>1, <2>3
<1>2. CASE ~TooSoon(state, moment)
  <2>1. after = [state EXCEPT
            !.successes = IF ok THEN CountUp(@, SuccessesToReturn) ELSE 0,
            !.failures = IF ok THEN 0 ELSE CountUp(@, FailuresToSwitch),
            !.sampled = moment]
    BY <1>2 DEF AfterProbe
  <2> DEFINE good == IF ok THEN CountUp(state.successes, SuccessesToReturn) ELSE 0
             bad == IF ok THEN 0 ELSE CountUp(state.failures, FailuresToSwitch)
  <2>3. /\ state.failures \in 0..FailuresToSwitch
        /\ state.successes \in 0..SuccessesToReturn
        /\ state.sampled \in Moments
    BY DEF PolicyStates
  <2>7. good \in 0..SuccessesToReturn /\ bad \in 0..FailuresToSwitch
    BY <1>0, <2>3 DEF CountUp
  <2>8. after = [state EXCEPT !.successes = good, !.failures = bad, !.sampled = moment]
    BY <2>1
  <2>9. /\ ok => good = CountUp(state.successes, SuccessesToReturn) /\ bad = 0
        /\ ~ok => bad = CountUp(state.failures, FailuresToSwitch) /\ good = 0
    OBVIOUS
  <2> HIDE DEF after, good, bad
  <2>2. /\ after \in PolicyStates /\ after.sampled = moment
        /\ after.successes = good /\ after.failures = bad
        /\ after.switched = state.switched /\ after.baseline = state.baseline
    BY <2>7, <2>8 DEF PolicyStates, Moments
  <2>4. ASSUME NEW n \in Nat, NEW threshold \in Nat \ {0},
               n > 0 => Streak(probes, n, ok, state.sampled)
        PROVE  Streak(more, CountUp(n, threshold), ok, moment)
    <3>1. CASE n = 0
      BY <3>1, StreakBegins DEF CountUp
    <3>2. CASE n > 0
      <4>1. state.sampled \in Nat
        BY <2>3, <2>4, <3>2 DEF Streak, Results
      <4>2. moment >= state.sampled + SampleInterval
        BY <1>0, <1>2, <4>1 DEF TooSoon, NeverYet
      <4>3. CASE n < threshold
        BY <2>4, <3>2, <4>2, <4>3, StreakGrows DEF CountUp
      <4>4. CASE ~(n < threshold)
        BY <2>4, <3>2, <4>2, <4>4, StreakSlides DEF CountUp
      <4> QED
        BY <4>3, <4>4
    <3> QED
      BY <3>1, <3>2
  <2>5. ASSUME ok = TRUE PROVE HealthOK(after, more)
    <3>1. /\ after.failures = 0
          /\ after.successes = CountUp(state.successes, SuccessesToReturn)
      BY <2>2, <2>5, <2>9
    <3>2. Streak(more, CountUp(state.successes, SuccessesToReturn), TRUE, moment)
      <4>1. state.successes > 0 => Streak(probes, state.successes, ok, state.sampled)
        BY <2>5, Zenon DEF HealthOK
      <4>2. Streak(more, CountUp(state.successes, SuccessesToReturn), ok, moment)
        BY <1>0, <2>3, <2>4, <4>1
      <4> QED
        BY <2>5, <4>2, Zenon
    <3> QED
      <4>1. ~(0 > 0)
        OBVIOUS
      <4> QED
        BY <2>2, <3>1, <3>2, <4>1, Zenon DEF HealthOK
  <2>6. ASSUME ok = FALSE PROVE HealthOK(after, more)
    <3>1. /\ after.successes = 0
          /\ after.failures = CountUp(state.failures, FailuresToSwitch)
      BY <2>2, <2>6, <2>9
    <3>2. Streak(more, CountUp(state.failures, FailuresToSwitch), FALSE, moment)
      <4>1. state.failures > 0 => Streak(probes, state.failures, ok, state.sampled)
        BY <2>6, Zenon DEF HealthOK
      <4>2. Streak(more, CountUp(state.failures, FailuresToSwitch), ok, moment)
        BY <1>0, <2>3, <2>4, <4>1
      <4> QED
        BY <2>6, <4>2, Zenon
    <3> QED
      <4>1. ~(0 > 0)
        OBVIOUS
      <4> QED
        BY <2>2, <3>1, <3>2, <4>1, Zenon DEF HealthOK
  <2>10. HealthOK(after, more)
    BY <2>5, <2>6
  <2> QED
    BY <2>2, <2>10
<1> QED
  BY <1>1, <1>2

-----------------------------------------------------------------------------
\* What the parts of a run are

LEMMA RunAtPlace ==
  ASSUME RunnerTypeOK
  PROVE  /\ prRun.pc = "idle" <=> prRun = NoPolicyRun
         /\ prRun.pc = "probe" => prRun \in Probing
         /\ prRun.pc = "meter" => prRun \in Metering
         /\ prRun.pc \in {"back up", "apply", "verify", "restore"} => prRun \in Switching
         /\ prRun.pc = "write" => prRun \in Writing
         /\ prRun.pc \in {"idle", "probe", "meter", "back up", "apply", "verify", "restore",
                          "write"}
         /\ prRun # NoPolicyRun => prRun.pc # "idle" /\ prRun.moment \in Nat
                                   /\ prRun.state \in PolicyStates
<1>0. NoPolicyRun.pc = "idle"
  BY DEF NoPolicyRun
<1>1. CASE prRun = NoPolicyRun
  BY <1>1 DEF NoPolicyRun
<1>2. CASE prRun \in Probing
  <2>1. prRun.pc = "probe" /\ prRun.moment \in Nat /\ prRun.state \in PolicyStates
    BY <1>2 DEF Probing
  <2> QED
    BY <1>0, <1>2, <2>1
<1>3. CASE prRun \in Metering
  <2>1. prRun.pc = "meter" /\ prRun.moment \in Nat /\ prRun.state \in PolicyStates
    BY <1>3 DEF Metering
  <2> QED
    BY <1>0, <1>3, <2>1
<1>4. CASE prRun \in Switching
  <2>1. /\ prRun.pc \in {"back up", "apply", "verify", "restore"}
        /\ prRun.moment \in Nat /\ prRun.state \in PolicyStates
    BY <1>4 DEF Switching
  <2> QED
    BY <1>0, <1>4, <2>1
<1>5. CASE prRun \in Writing
  <2>1. prRun.pc = "write" /\ prRun.moment \in Nat /\ prRun.state \in PolicyStates
    BY <1>5 DEF Writing
  <2> QED
    BY <1>0, <1>5, <2>1
<1> QED
  BY <1>1, <1>2, <1>3, <1>4, <1>5 DEF RunnerTypeOK, PolicyRuns

LEMMA EndingKeeps ==
  ASSUME NEW run, run.moment \in Nat, run.ok \in BOOLEAN, run.state \in PolicyStates
  PROVE  /\ Ending(run) \in Writing /\ Ending(run).pc = "write"
         /\ Ending(run).moment = run.moment /\ Ending(run).ok = run.ok
         /\ Ending(run).state = run.state
BY DEF Ending, Writing

(* A run with the baseline of its state replaced.                          *)
LEMMA BaselineReplaced ==
  ASSUME NEW run \in Metering, NEW baseline \in Baselines
  PROVE  LET new == [run EXCEPT !.state.baseline = baseline]
         IN  /\ new \in Metering
             /\ new.moment = run.moment /\ new.ok = run.ok /\ new.mode = run.mode
             /\ new.active = run.active /\ new.hold = run.hold /\ new.bwgOk = run.bwgOk
             /\ new.state = [run.state EXCEPT !.baseline = baseline]
             /\ new.state \in PolicyStates
             /\ new.state.baseline = baseline
             /\ new.state.failures = run.state.failures
             /\ new.state.successes = run.state.successes
             /\ new.state.sampled = run.state.sampled
             /\ new.state.switched = run.state.switched
<1> DEFINE state == [run.state EXCEPT !.baseline = baseline]
           new == [run EXCEPT !.state = state]
<1>1. run.state \in PolicyStates
  BY DEF Metering
<1>2. /\ state \in PolicyStates /\ state.baseline = baseline
      /\ state.failures = run.state.failures /\ state.successes = run.state.successes
      /\ state.sampled = run.state.sampled /\ state.switched = run.state.switched
  BY <1>1 DEF PolicyStates
<1>3. new = [run EXCEPT !.state.baseline = baseline]
  OBVIOUS
<1> HIDE DEF state
<1>4. /\ new \in Metering /\ new.state = state
      /\ new.moment = run.moment /\ new.ok = run.ok /\ new.mode = run.mode
      /\ new.active = run.active /\ new.hold = run.hold /\ new.bwgOk = run.bwgOk
  BY <1>2 DEF Metering
<1> QED
  BY <1>2, <1>3, <1>4, Zenon DEF state

(* A run with the moment of its switch in its state.                       *)
LEMMA SwitchRecorded ==
  ASSUME NEW run \in Switching
  PROVE  LET new == [run EXCEPT !.state.switched = run.moment]
         IN  /\ new.moment = run.moment /\ new.ok = run.ok
             /\ new.state \in PolicyStates
             /\ new.state.switched = run.moment
             /\ new.state.baseline = run.state.baseline
             /\ new.state.failures = run.state.failures
             /\ new.state.successes = run.state.successes
             /\ new.state.sampled = run.state.sampled
<1> DEFINE state == [run.state EXCEPT !.switched = run.moment]
           new == [run EXCEPT !.state = state]
<1>1. run.state \in PolicyStates /\ run.moment \in Moments
  BY DEF Switching, Moments
<1>2. /\ state \in PolicyStates /\ state.switched = run.moment
      /\ state.failures = run.state.failures /\ state.successes = run.state.successes
      /\ state.sampled = run.state.sampled /\ state.baseline = run.state.baseline
  BY <1>1 DEF PolicyStates
<1>3. new = [run EXCEPT !.state.switched = run.moment]
  OBVIOUS
<1> HIDE DEF state
<1>4. new.state = state /\ new.moment = run.moment /\ new.ok = run.ok
  BY <1>2 DEF Switching
<1> QED
  BY <1>2, <1>3, <1>4, Zenon DEF state

(* What evaluate decides on, and what it makes of the run.                 *)
LEMMA DecisionIsEarned ==
  ASSUME prRun \in Metering, NEW baseline \in Baselines, NEW sample, NEW used \in Nat,
         sample.quality = "fresh_estimate" => sample.used <= used /\ sample.used \in Int
  PROVE  LET next == Decided(baseline, sample)
         IN  /\ next \in Switching \cup Writing /\ next.pc \in {"back up", "write"}
             /\ next.moment = prRun.moment /\ next.ok = prRun.ok
             /\ next.state \in PolicyStates
             /\ next.state.baseline = baseline
             /\ next.state.failures = prRun.state.failures
             /\ next.state.successes = prRun.state.successes
             /\ next.state.sampled = prRun.state.sampled
             /\ next.state.switched = prRun.state.switched
             /\ next.pc = "back up" =>
                  /\ Cooled(next.state.switched, next.moment)
                  /\ next.why = "health" => next.state.failures = FailuresToSwitch
                  /\ next.why = "return" =>
                       next.ok /\ next.state.successes = SuccessesToReturn
                  /\ next.why = "traffic" => used >= LeaveAt
<1> DEFINE new == [prRun EXCEPT !.state.baseline = baseline]
           decision == Decision(new, sample)
           switching == [pc |-> "back up", moment |-> new.moment, ok |-> new.ok,
                         state |-> new.state, target |-> decision[1], why |-> decision[2],
                         previous |-> new.active]
           next == Decided(baseline, sample)
<1>1. /\ new \in Metering
      /\ new.moment = prRun.moment /\ new.ok = prRun.ok /\ new.state \in PolicyStates
      /\ new.state.baseline = baseline
      /\ new.state.failures = prRun.state.failures
      /\ new.state.successes = prRun.state.successes
      /\ new.state.sampled = prRun.state.sampled
      /\ new.state.switched = prRun.state.switched
  BY BaselineReplaced, Zenon
<1>2. next = IF Switches(new, decision[1]) THEN switching ELSE Ending(new)
  BY DEF Decided
<1> HIDE DEF new
<1>3. new.moment \in Nat /\ new.ok \in BOOLEAN /\ new.active \in Targets /\ new.hold \in Pins
  BY <1>1 DEF Metering
<1>4. decision[1] \in Targets /\ decision[2] \in Reasons
  BY <1>3 DEF Decision, Targets, Pins, Reasons
<1>5. /\ decision[2] = "health" => new.state.failures >= FailuresToSwitch
      /\ decision[2] = "traffic" => sample.quality = "fresh_estimate" /\ sample.used >= LeaveAt
      /\ decision[2] = "return" => new.state.successes >= SuccessesToReturn
  BY DEF Decision
<1>10. decision[2] = "return" => new.ok
  BY DEF Decision
<1>6. /\ FailuresToSwitch \in Nat /\ SuccessesToReturn \in Nat
      /\ LeaveAt \in Nat /\ RunnerCooldown \in Nat
  BY RunnerAssumption
<1>7. /\ new.state.failures \in 0..FailuresToSwitch
      /\ new.state.successes \in 0..SuccessesToReturn
      /\ new.state.switched \in Moments
  BY <1>1 DEF PolicyStates
<1> HIDE DEF next, decision
<1>8. CASE ~Switches(new, decision[1])
  <2>1. next = Ending(new)
    BY <1>2, <1>8
  <2>2. /\ next \in Writing /\ next.pc = "write" /\ next.moment = new.moment
        /\ next.ok = new.ok /\ next.state = new.state
    BY <1>1, <1>3, <2>1, EndingKeeps
  <2> QED
    BY <1>1, <2>2 DEF next
<1>9. CASE Switches(new, decision[1])
  <2>1. next = switching
    BY <1>2, <1>9
  <2>2. /\ next.pc = "back up" /\ next.moment = new.moment /\ next.ok = new.ok
        /\ next.state = new.state /\ next.why = decision[2]
    BY <2>1
  <2>3. next \in Switching
    BY <1>1, <1>3, <1>4, <2>1 DEF Switching
  <2>4. ~Cooling(new)
    BY <1>9 DEF Switches
  <2>5. Cooled(new.state.switched, new.moment)
    BY <1>3, <1>6, <1>7, <2>4 DEF Cooling, Cooled, Moments, NeverYet
  <2>6. /\ next.why = "health" => next.state.failures = FailuresToSwitch
        /\ next.why = "return" => next.ok /\ next.state.successes = SuccessesToReturn
        /\ next.why = "traffic" => used >= LeaveAt
    <3>1. next.why = "return" => next.ok
      BY <1>10, <2>2, Zenon
    <3>2. /\ next.why = "health" => next.state.failures = FailuresToSwitch
          /\ next.why = "return" => next.state.successes = SuccessesToReturn
      <4>1. /\ decision[2] = "health" => new.state.failures = FailuresToSwitch
            /\ decision[2] = "return" => new.state.successes = SuccessesToReturn
        BY <1>5, <1>6, <1>7
      <4> QED
        BY <2>2, <4>1
    <3>3. next.why = "traffic" => used >= LeaveAt
      <4>1. decision[2] = "traffic" => used >= LeaveAt
        BY <1>5, <1>6
      <4> QED
        BY <2>2, <4>1
    <3> QED
      BY <3>1, <3>2, <3>3
  <2> QED
    BY <1>1, <2>2, <2>3, <2>5, <2>6 DEF next
<1> QED
  BY <1>8, <1>9

-----------------------------------------------------------------------------
\* The invariant, action by action

LEMMA RunnerStarts == RunnerInit => RunnerInv
<1> SUFFICES ASSUME RunnerInit PROVE RunnerInv
  OBVIOUS
<1> USE DEF RunnerInit
<1>0. /\ Opening \in Nat /\ MaxRunnerNow \in Nat
      /\ FailuresToSwitch \in Nat /\ SuccessesToReturn \in Nat
  BY RunnerAssumption
<1>1. InitialState \in PolicyStates /\ NoBaseline \in Baselines
  BY <1>0 DEF InitialState, NoBaseline, PolicyStates, Baselines, Moments
<1>2. prRun.pc = "idle"
  BY DEF NoPolicyRun
<1>3. RunnerTypeOK
  <2>1. prUsed \in [RunnerCycles -> Nat]
    BY <1>0
  <2>2. prNow \in 0..MaxRunnerNow /\ prSwitched \in Moments
    BY <1>0 DEF Moments
  <2> QED
    BY <1>1, <2>1, <2>2 DEF RunnerTypeOK, PolicyRuns
<1>4. TimesOK
  BY DEF TimesOK, InitialState, NeverYet
<1>5. HealthInv
  BY <1>2 DEF HealthInv, HealthOK, InitialState
<1>6. MeterInv
  BY <1>0 DEF MeterInv, BaselineOK, OpeningOf, InitialState, NoBaseline
<1>7. SwitchedInv /\ ReasonInv /\ RecordInv
  BY <1>2 DEF SwitchedInv, ReasonInv, RecordInv, InitialState
<1> QED
  BY <1>3, <1>4, <1>5, <1>6, <1>7 DEF RunnerInv

LEMMA RunBeginsStep ==
  ASSUME RunnerInv, RunBegins
  PROVE  RunnerInv'
<1> USE DEF RunnerInv, RunBegins, runnerWorld, runnerHistory
<1>1. /\ prRun' \in Probing /\ prRun'.pc = "probe" /\ prRun' # NoPolicyRun
      /\ prRun'.moment = prNow /\ prRun'.state = prFile /\ prRun'.active = prRecord
  BY DEF RunnerTypeOK, Probing, RunModes, Pins, NoPolicyRun
<1>2. prRun.pc = "idle"
  BY DEF NoPolicyRun
<1>3. RunnerTypeOK'
  BY <1>1 DEF RunnerTypeOK, PolicyRuns
<1>4. TimesOK'
  BY <1>1 DEF TimesOK, RunnerTypeOK
<1>5. HealthInv'
  BY <1>1, <1>2 DEF HealthInv
<1>6. MeterInv'
  BY <1>1 DEF MeterInv
<1>7. SwitchedInv' /\ ReasonInv' /\ RecordInv'
  BY <1>1, <1>2 DEF SwitchedInv, ReasonInv, RecordInv
<1> QED
  BY <1>3, <1>4, <1>5, <1>6, <1>7

LEMMA ProbesNodesStep ==
  ASSUME RunnerInv, ProbesNodes
  PROVE  RunnerInv'
<1> USE DEF RunnerInv, ProbesNodes, runnerWorld, runnerHistory
<1>0. prRun \in Probing /\ prRun # NoPolicyRun
  BY RunAtPlace DEF NoPolicyRun
<1>1. PICK ok \in BOOLEAN, bwgOk \in BOOLEAN :
        prRun' = [pc |-> "meter", moment |-> prRun.moment, mode |-> prRun.mode,
                  hold |-> prRun.hold, active |-> prRun.active, ok |-> ok, bwgOk |-> bwgOk,
                  state |-> AfterProbe(prRun.state, ok, prRun.moment)]
  OBVIOUS
<1> DEFINE after == AfterProbe(prRun.state, ok, prRun.moment)
<1>2. /\ after \in PolicyStates /\ after.sampled <= prRun.moment
      /\ after.switched = prRun.state.switched /\ after.baseline = prRun.state.baseline
      /\ HealthOK(after, prProbes \cup {[at |-> prRun.moment, ok |-> ok]})
  <2>1. /\ prRun.state \in PolicyStates /\ prRun.moment \in Nat
        /\ prProbes \in SUBSET [at : Nat, ok : BOOLEAN]
        /\ HealthOK(prRun.state, prProbes)
    BY <1>0 DEF RunnerTypeOK, HealthInv, Probing
  <2>2. prRun.state.sampled <= prRun.moment /\ \A p \in prProbes : p.at <= prRun.moment
    BY <1>0 DEF TimesOK
  <2> QED
    BY <2>1, <2>2, ProbeIsCounted
<1> HIDE DEF after
<1>3. /\ prRun' \in Metering /\ prRun'.pc = "meter" /\ prRun' # NoPolicyRun
      /\ prRun'.moment = prRun.moment /\ prRun'.ok = ok /\ prRun'.state = after
  BY <1>0, <1>1, <1>2 DEF Probing, Metering, NoPolicyRun, after
<1>4. RunnerTypeOK'
  BY <1>3 DEF RunnerTypeOK, PolicyRuns
<1>5. TimesOK'
  BY <1>0, <1>2, <1>3 DEF TimesOK
<1>6. HealthInv'
  BY <1>2, <1>3 DEF HealthInv, Probes
<1>7. MeterInv'
  BY <1>0, <1>2, <1>3 DEF MeterInv
<1>8. SwitchedInv' /\ ReasonInv' /\ RecordInv'
  BY <1>2, <1>3 DEF SwitchedInv, ReasonInv, RecordInv
<1> QED
  BY <1>4, <1>5, <1>6, <1>7, <1>8

(* What a run keeps from its probe to its end.                             *)
LEMMA RunGoesOn ==
  ASSUME RunnerInv, prRun \in Metering \cup Switching, prRun' \in Switching \cup Writing,
         prRun'.moment = prRun.moment, prRun'.ok = prRun.ok,
         prRun'.state \in PolicyStates,
         prRun'.state.failures = prRun.state.failures,
         prRun'.state.successes = prRun.state.successes,
         prRun'.state.sampled = prRun.state.sampled,
         BaselineOK(prRun'.state.baseline, prCounter, prUsed, CycleAt(prNow)),
         UNCHANGED <<prNow, prCounter, prUsed, prFile, prProbes>>,
         prRecord' \in Targets, prGood' \in Targets, prSwitched' \in Moments,
         prForgotten' \in BOOLEAN, prTrouble' \in BOOLEAN
  PROVE  RunnerTypeOK' /\ TimesOK' /\ HealthInv' /\ MeterInv'
<1> USE DEF RunnerInv
<1>0. NoPolicyRun.pc = "idle"
  BY DEF NoPolicyRun
<1>1. prRun.pc \notin {"idle", "probe"} /\ prRun # NoPolicyRun
  <2>1. prRun.pc \notin {"idle", "probe"}
    BY DEF Metering, Switching
  <2> QED
    BY <1>0, <2>1
<1>2. prRun'.pc \notin {"idle", "probe"} /\ prRun' # NoPolicyRun
  <2>1. prRun'.pc \notin {"idle", "probe"}
    BY DEF Writing, Switching
  <2> QED
    BY <1>0, <2>1
<1>3. RunnerTypeOK'
  BY DEF RunnerTypeOK, PolicyRuns
<1>4. TimesOK'
  BY <1>1, <1>2 DEF TimesOK
<1>5. HealthInv'
  BY <1>1, <1>2 DEF HealthInv, Probes, HealthOK
<1>6. MeterInv'
  BY <1>1, <1>2 DEF MeterInv
<1> QED
  BY <1>3, <1>4, <1>5, <1>6

LEMMA MeterIsRead ==
  ASSUME RunnerInv, prRun.pc = "meter", UNCHANGED <<runnerWorld, prRecord, prFile, runnerHistory>>,
         NEW baseline \in Baselines, NEW sample,
         BaselineOK(baseline, prCounter, prUsed, CycleAt(prNow)),
         sample.quality = "fresh_estimate" =>
           sample.used <= prUsed[CycleAt(prRun.moment)] /\ sample.used \in Int,
         prRun' = Decided(baseline, sample)
  PROVE  RunnerInv'
<1> USE DEF RunnerInv, runnerWorld, runnerHistory
<1> DEFINE used == prUsed[CycleAt(prRun.moment)]
<1>1. prRun \in Metering /\ prRun # NoPolicyRun /\ prRun.moment \in Nat
  BY RunAtPlace DEF NoPolicyRun
<1>2. used \in Nat
  <2>1. CycleAt(prRun.moment) \in RunnerCycles
    <3>1. prRun.moment <= MaxRunnerNow /\ MaxRunnerNow \in Nat
      BY <1>1, RunnerAssumption DEF RunnerTypeOK, TimesOK
    <3> QED
      BY <1>1, <3>1, CyclesAreOrdered DEF RunnerCycles
  <2> QED
    BY <2>1 DEF RunnerTypeOK
<1>3. /\ prRun' \in Switching \cup Writing /\ prRun'.pc \in {"back up", "write"}
      /\ prRun'.moment = prRun.moment /\ prRun'.ok = prRun.ok
      /\ prRun'.state \in PolicyStates
      /\ prRun'.state.baseline = baseline
      /\ prRun'.state.failures = prRun.state.failures
      /\ prRun'.state.successes = prRun.state.successes
      /\ prRun'.state.sampled = prRun.state.sampled
      /\ prRun'.state.switched = prRun.state.switched
      /\ prRun'.pc = "back up" =>
           /\ Cooled(prRun'.state.switched, prRun'.moment)
           /\ prRun'.why = "health" => prRun'.state.failures = FailuresToSwitch
           /\ prRun'.why = "return" =>
                prRun'.ok /\ prRun'.state.successes = SuccessesToReturn
           /\ prRun'.why = "traffic" => used >= LeaveAt
  <2> DEFINE next == Decided(baseline, sample)
  <2> HIDE DEF used
  <2>1. sample.quality = "fresh_estimate" => sample.used <= used /\ sample.used \in Int
    BY DEF used
  <2>2. /\ next \in Switching \cup Writing /\ next.pc \in {"back up", "write"}
        /\ next.moment = prRun.moment /\ next.ok = prRun.ok
        /\ next.state \in PolicyStates
        /\ next.state.baseline = baseline
        /\ next.state.failures = prRun.state.failures
        /\ next.state.successes = prRun.state.successes
        /\ next.state.sampled = prRun.state.sampled
        /\ next.state.switched = prRun.state.switched
        /\ next.pc = "back up" =>
             /\ Cooled(next.state.switched, next.moment)
             /\ next.why = "health" => next.state.failures = FailuresToSwitch
             /\ next.why = "return" =>
                  next.ok /\ next.state.successes = SuccessesToReturn
             /\ next.why = "traffic" => used >= LeaveAt
    BY <1>1, <1>2, <2>1, DecisionIsEarned, Zenon
  <2> QED
    <3>1. prRun' = next
      OBVIOUS
    <3> HIDE DEF next
    <3> QED
      BY <2>2, <3>1, Zenon
<1>4. RunnerTypeOK' /\ TimesOK' /\ HealthInv' /\ MeterInv'
  BY <1>1, <1>3, RunGoesOn DEF RunnerTypeOK
<1>5. SwitchedInv' /\ RecordInv'
  BY <1>3 DEF SwitchedInv, RecordInv
<1>6. ReasonInv'
  <2>1. prRun'.pc = "apply" => FALSE
    BY <1>3
  <2>2. prUsed' = prUsed
    OBVIOUS
  <2> QED
    BY <1>3, <2>1, <2>2 DEF ReasonInv
<1> QED
  BY <1>4, <1>5, <1>6

LEMMA ReadsMeterStep ==
  ASSUME RunnerInv, ReadsMeter
  PROVE  RunnerInv'
<1> DEFINE baseline == BaselineAt(prRun.state, prRun.moment, prCounter)
           cycle == CycleAt(prRun.moment)
<1>1. /\ prRun \in Metering /\ prRun # NoPolicyRun /\ prRun.moment \in Nat
      /\ prRun.pc = "meter" /\ prRun.state \in PolicyStates
      /\ prRun.state.baseline \in Baselines /\ prCounter \in Nat
  BY RunAtPlace DEF RunnerInv, ReadsMeter, NoPolicyRun, PolicyStates, RunnerTypeOK
<1>2. prNow \in Nat /\ prRun.moment <= prNow /\ prNow <= MaxRunnerNow /\ MaxRunnerNow \in Nat
  BY <1>1, RunnerAssumption DEF RunnerInv, TimesOK, RunnerTypeOK
<1>3. /\ cycle \in RunnerCycles /\ cycle \in Nat /\ cycle <= CycleAt(prNow)
      /\ CycleAt(prNow) \in Nat
  BY <1>1, <1>2, CyclesAreOrdered DEF RunnerCycles
<1>4. prUsed[cycle] \in Nat /\ prUsed[cycle] >= OpeningOf(cycle) /\ OpeningOf(cycle) \in Nat
  BY <1>3, RunnerAssumption DEF RunnerInv, RunnerTypeOK, MeterInv, OpeningOf
<1>5. BaselineOK(prRun.state.baseline, prCounter, prUsed, CycleAt(prNow))
  BY <1>1 DEF RunnerInv, MeterInv
<1>6. CASE prRun' = Decided(baseline, TrafficSample(baseline, prRun.moment, prCounter))
  <2> DEFINE sample == TrafficSample(baseline, prRun.moment, prCounter)
  <2> HIDE DEF cycle
  <2>1. /\ baseline \in Baselines /\ baseline.cycle = cycle
        /\ BaselineOK(baseline, prCounter, prUsed, CycleAt(prNow))
    <3>1. CASE prRun.state.baseline.cycle = cycle
      BY <1>1, <1>5, <3>1 DEF BaselineAt, cycle
    <3>2. CASE prRun.state.baseline.cycle # cycle
      <4>1. baseline = [cycle |-> cycle, bytes |-> prCounter,
                        aligned |-> cycle # SeedCycle \/ prRun.moment <= SeedMaxAge]
        BY <3>2 DEF BaselineAt, cycle
      <4> HIDE DEF baseline
      <4>2. baseline \in Baselines /\ baseline.cycle = cycle /\ baseline.bytes = prCounter
        BY <1>1, <1>3, <4>1 DEF Baselines, Moments
      <4> QED
        BY <1>1, <1>3, <1>4, <4>2 DEF BaselineOK
    <3> QED
      BY <3>1, <3>2
  <2> HIDE DEF baseline
  <2>2. sample.quality = "fresh_estimate" => sample.used <= prUsed[cycle] /\ sample.used \in Int
    <3>1. /\ sample.quality = SampleQuality(baseline, prRun.moment, prCounter)
          /\ sample.used = GrownSince(baseline, prCounter) + OpeningOf(cycle)
      BY DEF TrafficSample, OpeningOf, cycle
    <3> HIDE DEF sample
    <3>2. sample.quality = "fresh_estimate" => ~(prCounter < baseline.bytes)
      BY <3>1 DEF SampleQuality
    <3>3. baseline.bytes \in Nat
      BY <2>1 DEF Baselines
    <3>4. prCounter - baseline.bytes + OpeningOf(cycle) <= prUsed[cycle]
      BY <1>3, <2>1 DEF BaselineOK, NeverYet
    <3> QED
      BY <1>1, <1>4, <3>1, <3>2, <3>3, <3>4 DEF GrownSince
  <2> QED
    BY <1>1, <1>6, <2>1, <2>2, MeterIsRead DEF ReadsMeter, cycle
<1>7. CASE prRun' = Decided(prRun.state.baseline, UnknownSample)
  <2>1. UnknownSample.quality # "fresh_estimate"
    BY DEF UnknownSample
  <2> QED
    BY <1>1, <1>5, <1>7, <2>1, MeterIsRead DEF ReadsMeter
<1> QED
  BY <1>6, <1>7 DEF ReadsMeter

(* A run that switches, or has just ended.                                 *)
LEMMA BaselineStays ==
  ASSUME RunnerInv, prRun # NoPolicyRun
  PROVE  BaselineOK(prRun.state.baseline, prCounter, prUsed, CycleAt(prNow))
BY DEF RunnerInv, MeterInv

LEMMA BacksUpStep ==
  ASSUME RunnerInv, BacksUp
  PROVE  RunnerInv'
<1> USE DEF runnerWorld, runnerHistory
<1>1. prRun \in Switching /\ prRun.pc = "back up" /\ prRun # NoPolicyRun
  BY RunAtPlace DEF RunnerInv, BacksUp
<1>2. /\ prRun.moment \in Nat /\ prRun.ok \in BOOLEAN /\ prRun.state \in PolicyStates
      /\ prRecord \in Targets
  BY <1>1 DEF Switching, RunnerInv, RunnerTypeOK
<1>3. CASE prRun' = [prRun EXCEPT !.pc = "apply", !.previous = prRecord]
  <2>1. /\ prRun' \in Switching /\ prRun'.pc = "apply" /\ prRun'.previous = prRecord
        /\ prRun'.moment = prRun.moment /\ prRun'.ok = prRun.ok
        /\ prRun'.state = prRun.state /\ prRun'.why = prRun.why
    BY <1>1, <1>2, <1>3 DEF Switching
  <2>2. RunnerTypeOK' /\ TimesOK' /\ HealthInv' /\ MeterInv'
    BY <1>1, <1>2, <2>1, BaselineStays, RunGoesOn DEF RunnerTypeOK, RunnerInv, BacksUp
  <2>3. SwitchedInv' /\ ReasonInv' /\ RecordInv'
    BY <1>1, <2>1 DEF SwitchedInv, ReasonInv, RecordInv, RunnerInv, BacksUp
  <2> QED
    BY <2>2, <2>3 DEF RunnerInv
<1>4. CASE prRun' = Ending(prRun)
  <2>1. /\ prRun' \in Writing /\ prRun'.pc = "write"
        /\ prRun'.moment = prRun.moment /\ prRun'.ok = prRun.ok
        /\ prRun'.state = prRun.state
    BY <1>2, <1>4, EndingKeeps
  <2>2. RunnerTypeOK' /\ TimesOK' /\ HealthInv' /\ MeterInv'
    BY <1>1, <1>2, <2>1, BaselineStays, RunGoesOn DEF RunnerTypeOK, RunnerInv, BacksUp
  <2>3. SwitchedInv' /\ ReasonInv' /\ RecordInv'
    BY <1>1, <2>1 DEF SwitchedInv, ReasonInv, RecordInv, RunnerInv, BacksUp
  <2> QED
    BY <2>2, <2>3 DEF RunnerInv
<1> QED
  BY <1>3, <1>4 DEF BacksUp

LEMMA AppliesStep ==
  ASSUME RunnerInv, Applies
  PROVE  RunnerInv'
<1> USE DEF runnerWorld
<1>1. prRun \in Switching /\ prRun.pc = "apply" /\ prRun # NoPolicyRun
  BY RunAtPlace DEF RunnerInv, Applies
<1>2. /\ prRun.moment \in Nat /\ prRun.ok \in BOOLEAN /\ prRun.state \in PolicyStates
      /\ prRecord' \in Targets
  BY <1>1 DEF Switching, RunnerInv, RunnerTypeOK, Applies
<1>3. CASE prRun' = [prRun EXCEPT !.pc = "verify"] /\ UNCHANGED prTrouble
  <2>1. /\ prRun' \in Switching /\ prRun'.pc = "verify" /\ prRun'.previous = prRun.previous
        /\ prRun'.moment = prRun.moment /\ prRun'.ok = prRun.ok
        /\ prRun'.state = prRun.state
    BY <1>1, <1>3 DEF Switching
  <2>2. RunnerTypeOK' /\ TimesOK' /\ HealthInv' /\ MeterInv'
    BY <1>1, <1>2, <1>3, <2>1, BaselineStays, RunGoesOn DEF RunnerTypeOK, RunnerInv, Applies
  <2>3. SwitchedInv' /\ ReasonInv' /\ RecordInv'
    BY <1>1, <1>3, <2>1 DEF SwitchedInv, ReasonInv, RecordInv, RunnerInv, Applies
  <2> QED
    BY <2>2, <2>3 DEF RunnerInv
<1>4. CASE prRun' = Ending(prRun) /\ prTrouble' = TRUE
  <2>1. /\ prRun' \in Writing /\ prRun'.pc = "write"
        /\ prRun'.moment = prRun.moment /\ prRun'.ok = prRun.ok
        /\ prRun'.state = prRun.state
    BY <1>2, <1>4, EndingKeeps
  <2>2. RunnerTypeOK' /\ TimesOK' /\ HealthInv' /\ MeterInv'
    BY <1>1, <1>2, <1>4, <2>1, BaselineStays, RunGoesOn DEF RunnerTypeOK, RunnerInv, Applies
  <2>3. SwitchedInv' /\ ReasonInv' /\ RecordInv'
    BY <1>1, <1>4, <2>1 DEF SwitchedInv, ReasonInv, RecordInv, RunnerInv, Applies
  <2> QED
    BY <2>2, <2>3 DEF RunnerInv
<1> QED
  BY <1>3, <1>4 DEF Applies

LEMMA FailsVerificationStep ==
  ASSUME RunnerInv, FailsVerification
  PROVE  RunnerInv'
<1> USE DEF runnerWorld, runnerHistory
<1>1. prRun \in Switching /\ prRun.pc = "verify" /\ prRun # NoPolicyRun
  BY RunAtPlace DEF RunnerInv, FailsVerification
<1>2. prRun.state \in PolicyStates
  BY <1>1 DEF Switching
<1>3. /\ prRun' \in Switching /\ prRun'.pc = "restore" /\ prRun'.previous = prRun.previous
      /\ prRun'.moment = prRun.moment /\ prRun'.ok = prRun.ok
      /\ prRun'.state = prRun.state
  BY <1>1 DEF Switching, FailsVerification
<1>4. RunnerTypeOK' /\ TimesOK' /\ HealthInv' /\ MeterInv'
  BY <1>1, <1>2, <1>3, BaselineStays, RunGoesOn DEF RunnerTypeOK, RunnerInv, FailsVerification
<1>5. SwitchedInv' /\ ReasonInv' /\ RecordInv'
  BY <1>1, <1>3 DEF SwitchedInv, ReasonInv, RecordInv, RunnerInv, FailsVerification
<1> QED
  BY <1>4, <1>5 DEF RunnerInv

LEMMA VerifiesSwitchStep ==
  ASSUME RunnerInv, VerifiesSwitch
  PROVE  RunnerInv'
<1> USE DEF runnerWorld
<1> DEFINE new == [prRun EXCEPT !.state.switched = prRun.moment]
<1>1. prRun \in Switching /\ prRun.pc = "verify" /\ prRun # NoPolicyRun
  BY RunAtPlace DEF RunnerInv, VerifiesSwitch
<1>2. prRun.moment \in Nat /\ prRun.ok \in BOOLEAN /\ prRun.target \in Targets
  BY <1>1 DEF Switching
<1>3. /\ new.moment = prRun.moment /\ new.ok = prRun.ok
      /\ new.state \in PolicyStates /\ new.state.switched = prRun.moment
      /\ new.state.baseline = prRun.state.baseline
      /\ new.state.failures = prRun.state.failures
      /\ new.state.successes = prRun.state.successes
      /\ new.state.sampled = prRun.state.sampled
  BY <1>1, SwitchRecorded, Zenon
<1>4. prRun' = Ending(new)
  BY DEF VerifiesSwitch
<1> HIDE DEF new
<1>5. /\ prRun' \in Writing /\ prRun'.pc = "write"
      /\ prRun'.moment = prRun.moment /\ prRun'.ok = prRun.ok
      /\ prRun'.state = new.state
  BY <1>2, <1>3, <1>4, EndingKeeps
<1>6. RunnerTypeOK' /\ TimesOK' /\ HealthInv' /\ MeterInv'
  BY <1>1, <1>2, <1>3, <1>5, BaselineStays, RunGoesOn
     DEF RunnerTypeOK, RunnerInv, VerifiesSwitch, Moments
<1>7. SwitchedInv' /\ ReasonInv' /\ RecordInv'
  BY <1>1, <1>3, <1>5 DEF SwitchedInv, ReasonInv, RecordInv, RunnerInv, VerifiesSwitch
<1> QED
  BY <1>6, <1>7 DEF RunnerInv

LEMMA SwitchEndsStep ==
  ASSUME RunnerInv, LosesSight \/ RestoresRecord
  PROVE  RunnerInv'
<1> USE DEF runnerWorld
<1>1. /\ prRun \in Switching /\ prRun.pc \in {"verify", "restore"} /\ prRun # NoPolicyRun
      /\ prRun' = Ending(prRun)
  BY RunAtPlace DEF RunnerInv, LosesSight, RestoresRecord
<1>2. /\ prRun.moment \in Nat /\ prRun.ok \in BOOLEAN /\ prRun.state \in PolicyStates
      /\ prRun.previous \in Targets
  BY <1>1 DEF Switching
<1>3. /\ prRun' \in Writing /\ prRun'.pc = "write"
      /\ prRun'.moment = prRun.moment /\ prRun'.ok = prRun.ok
      /\ prRun'.state = prRun.state
  BY <1>1, <1>2, EndingKeeps
<1>4. RunnerTypeOK' /\ TimesOK' /\ HealthInv' /\ MeterInv'
  BY <1>1, <1>2, <1>3, BaselineStays, RunGoesOn
     DEF RunnerTypeOK, RunnerInv, LosesSight, RestoresRecord
<1>5. SwitchedInv' /\ ReasonInv' /\ RecordInv'
  BY <1>1, <1>3
     DEF SwitchedInv, ReasonInv, RecordInv, RunnerInv, LosesSight, RestoresRecord
<1> QED
  BY <1>4, <1>5 DEF RunnerInv

LEMMA WritesStateStep ==
  ASSUME RunnerInv, WritesState
  PROVE  RunnerInv'
<1> USE DEF runnerWorld
<1>1. prRun \in Writing /\ prRun.pc = "write" /\ prRun # NoPolicyRun
  BY RunAtPlace DEF RunnerInv, WritesState
<1>2. /\ prRun.moment \in Nat /\ prRun.ok \in BOOLEAN /\ prRun.state \in PolicyStates
  BY <1>1 DEF Writing
<1>3. /\ prRun' = NoPolicyRun /\ prRun'.pc = "idle"
      /\ prFile' = prRun.state /\ prProbes' = Probes(prRun)
  BY DEF WritesState, Probes, NoPolicyRun
<1>4. RunnerTypeOK'
  BY <1>2, <1>3 DEF RunnerTypeOK, RunnerInv, PolicyRuns, WritesState, Probes
<1>5. TimesOK'
  BY <1>1, <1>2, <1>3 DEF TimesOK, RunnerInv, RunnerTypeOK, PolicyStates, Moments,
                          NeverYet, WritesState, Probes
<1>6. HealthInv'
  BY <1>1, <1>3 DEF HealthInv, RunnerInv
<1>7. MeterInv'
  BY <1>1, <1>3 DEF MeterInv, RunnerInv, WritesState
<1>8. SwitchedInv' /\ ReasonInv' /\ RecordInv'
  BY <1>1, <1>3 DEF SwitchedInv, ReasonInv, RecordInv, RunnerInv, WritesState
<1> QED
  BY <1>4, <1>5, <1>6, <1>7, <1>8 DEF RunnerInv

LEMMA RunDiesStep ==
  ASSUME RunnerInv, RunDies
  PROVE  RunnerInv'
<1> USE DEF runnerWorld
<1>1. prRun # NoPolicyRun /\ prRun' = NoPolicyRun /\ prRun'.pc = "idle"
  BY DEF RunDies, NoPolicyRun
<1>2. RunnerTypeOK'
  BY <1>1 DEF RunnerTypeOK, RunnerInv, PolicyRuns, RunDies
<1>3. TimesOK' /\ HealthInv' /\ MeterInv' /\ ReasonInv'
  BY <1>1 DEF TimesOK, HealthInv, MeterInv, ReasonInv, RunnerInv, RunDies
<1>4. SwitchedInv'
  <2>1. CASE prRun.pc = "write"
    BY <1>1, <2>1 DEF SwitchedInv, RunnerInv, RunDies
  <2>2. CASE prRun.pc # "write"
    BY <1>1, <2>2 DEF SwitchedInv, RunnerInv, RunDies
  <2> QED
    BY <2>1, <2>2
<1>5. RecordInv'
  BY <1>1 DEF RecordInv, RunnerInv, RunDies, RunnerTypeOK
<1> QED
  BY <1>2, <1>3, <1>4, <1>5 DEF RunnerInv

LEMMA RunnerTickStep ==
  ASSUME RunnerInv, RunnerTick
  PROVE  RunnerInv'
<1> USE DEF runnerHistory
<1>1. /\ prNow \in Nat /\ prNow' = prNow + 1 /\ prNow' \in 0..MaxRunnerNow
      /\ prRun.moment <= prNow => prRun.moment <= prNow' \/ prRun.moment \notin Int
  BY RunnerAssumption DEF RunnerTick, RunnerInv, RunnerTypeOK
<1>2. RunnerTypeOK'
  BY <1>1 DEF RunnerTick, RunnerInv, RunnerTypeOK
<1>3. TimesOK'
  <2>1. \A x \in Int : x <= prNow => x <= prNow'
    BY <1>1
  <2>2. \A p \in prProbes : p.at \in Int
    BY DEF RunnerInv, RunnerTypeOK
  <2>3. prFile.sampled \in Int /\ (prRun # NoPolicyRun => prRun.moment \in Int)
    <3>1. prFile.sampled \in Int
      BY DEF RunnerInv, RunnerTypeOK, PolicyStates, Moments, NeverYet
    <3>2. prRun # NoPolicyRun => prRun.moment \in Nat
      BY RunAtPlace, Zenon DEF RunnerInv
    <3> QED
      BY <3>1, <3>2
  <2>4. /\ \A p \in prProbes : p.at <= prNow'
        /\ prFile.sampled <= prNow'
        /\ prRun # NoPolicyRun => prRun.moment <= prNow'
    BY <2>1, <2>2, <2>3 DEF TimesOK, RunnerInv
  <2>5. prProbes' = prProbes /\ prFile' = prFile /\ prRun' = prRun
    BY DEF RunnerTick
  <2> QED
    BY <2>4, <2>5 DEF TimesOK, RunnerInv
<1>4. CycleAt(prNow) \in Nat /\ CycleAt(prNow') \in Nat /\ CycleAt(prNow) <= CycleAt(prNow')
  BY <1>1, CyclesAreOrdered
<1>5. ASSUME NEW b \in Baselines, BaselineOK(b, prCounter, prUsed, CycleAt(prNow))
      PROVE  BaselineOK(b, prCounter, prUsed, CycleAt(prNow'))
  BY <1>4, <1>5 DEF BaselineOK, Baselines, Moments, NeverYet
<1>6. MeterInv'
  <2>1. prFile.baseline \in Baselines /\ (prRun # NoPolicyRun => prRun.state.baseline \in Baselines)
    BY RunAtPlace DEF RunnerInv, RunnerTypeOK, PolicyStates
  <2> QED
    BY <1>5, <2>1 DEF MeterInv, RunnerInv, RunnerTick
<1>7. HealthInv' /\ SwitchedInv' /\ ReasonInv' /\ RecordInv'
  BY DEF HealthInv, Probes, SwitchedInv, ReasonInv, RecordInv, RunnerInv, RunnerTick
<1> QED
  BY <1>2, <1>3, <1>6, <1>7 DEF RunnerInv

LEMMA CarriesTrafficStep ==
  ASSUME RunnerInv, CarriesTraffic
  PROVE  RunnerInv'
<1> USE DEF runnerHistory
<1>1. /\ prCounter \in Nat /\ prCounter' = prCounter + 1
      /\ prUsed \in [RunnerCycles -> Nat] /\ prUsed' \in [RunnerCycles -> Nat]
      /\ \A c \in RunnerCycles : prUsed'[c] = prUsed[c] + IF c <= CycleAt(prNow) THEN 1 ELSE 0
      /\ \A c \in RunnerCycles : prUsed'[c] >= prUsed[c]
  BY DEF CarriesTraffic, RunnerInv, RunnerTypeOK
<1>2. prNow \in Nat /\ MaxRunnerNow \in Nat /\ prNow <= MaxRunnerNow
  BY RunnerAssumption DEF RunnerInv, RunnerTypeOK
<1>3. /\ CycleAt(prNow) \in Nat /\ CycleAt(MaxRunnerNow) \in Nat
      /\ CycleAt(prNow) <= CycleAt(MaxRunnerNow)
  BY <1>2, CyclesAreOrdered
<1>4. \A c \in RunnerCycles : OpeningOf(c) \in Nat
  BY RunnerAssumption DEF OpeningOf
<1>5. ASSUME NEW b \in Baselines, BaselineOK(b, prCounter, prUsed, CycleAt(prNow))
      PROVE  BaselineOK(b, prCounter', prUsed', CycleAt(prNow))
  <2>1. CASE b.cycle = NeverYet
    BY <2>1 DEF BaselineOK
  <2>2. CASE b.cycle # NeverYet
    <3>1. b.cycle \in Nat /\ b.bytes \in Nat /\ b.cycle <= CycleAt(prNow)
      BY <1>5, <2>2 DEF BaselineOK, Baselines, Moments
    <3>2. b.cycle \in RunnerCycles
      BY <1>3, <3>1 DEF RunnerCycles
    <3>3. prUsed'[b.cycle] = prUsed[b.cycle] + 1 /\ prUsed[b.cycle] \in Nat
      BY <1>1, <3>1, <3>2
    <3>4. prCounter - b.bytes + OpeningOf(b.cycle) <= prUsed[b.cycle]
      BY <1>5, <2>2 DEF BaselineOK
    <3>5. OpeningOf(b.cycle) \in Nat
      BY <1>4, <3>2
    <3>6. prCounter' - b.bytes + OpeningOf(b.cycle) <= prUsed'[b.cycle]
      BY <1>1, <3>1, <3>3, <3>4, <3>5
    <3> QED
      BY <3>1, <3>6 DEF BaselineOK
  <2> QED
    BY <2>1, <2>2
<1>6. RunnerTypeOK'
  BY <1>1 DEF CarriesTraffic, RunnerInv, RunnerTypeOK
<1>7. MeterInv'
  <2>1. prFile.baseline \in Baselines /\ (prRun # NoPolicyRun => prRun.state.baseline \in Baselines)
    BY RunAtPlace DEF RunnerInv, RunnerTypeOK, PolicyStates
  <2>2. \A c \in RunnerCycles : prUsed'[c] >= OpeningOf(c)
    BY <1>1, <1>4 DEF RunnerInv, MeterInv
  <2> QED
    BY <1>5, <2>1, <2>2 DEF MeterInv, RunnerInv, CarriesTraffic
<1>8. ReasonInv'
  <2>1. \A c \in RunnerCycles : prUsed[c] >= LeaveAt => prUsed'[c] >= LeaveAt
    BY <1>1, RunnerAssumption
  <2>2. ASSUME NEW moment \in Nat, moment <= prNow
        PROVE  CycleAt(moment) \in RunnerCycles
    BY <1>2, <2>2, CyclesAreOrdered DEF RunnerCycles
  <2>3. prRun.pc \in {"back up", "apply"} => prRun # NoPolicyRun /\ prRun.moment \in Nat
    BY RunAtPlace DEF RunnerInv
  <2>4. prRun.pc \in {"back up", "apply"} => CycleAt(prRun.moment) \in RunnerCycles
    BY <2>2, <2>3, Zenon DEF RunnerInv, TimesOK
  <2>5. prRun' = prRun
    BY DEF CarriesTraffic
  <2> QED
    BY <2>1, <2>4, <2>5, Zenon DEF ReasonInv, RunnerInv
<1>9. TimesOK' /\ HealthInv' /\ SwitchedInv' /\ RecordInv'
  BY DEF TimesOK, HealthInv, Probes, SwitchedInv, RecordInv, RunnerInv, CarriesTraffic
<1> QED
  BY <1>6, <1>7, <1>8, <1>9 DEF RunnerInv

LEMMA RebootsStep ==
  ASSUME RunnerInv, Reboots
  PROVE  RunnerInv'
<1> USE DEF runnerHistory
<1>1. prCounter \in Nat /\ prCounter' = 0
  BY DEF Reboots, RunnerInv, RunnerTypeOK
<1>2. RunnerTypeOK'
  BY <1>1 DEF Reboots, RunnerInv, RunnerTypeOK
<1>3. ASSUME NEW b \in Baselines, BaselineOK(b, prCounter, prUsed, CycleAt(prNow))
      PROVE  BaselineOK(b, prCounter', prUsed, CycleAt(prNow))
  <2>1. CASE b.cycle = NeverYet
    BY <2>1 DEF BaselineOK
  <2>2. CASE b.cycle # NeverYet
    <3>1. /\ b.cycle \in Nat /\ b.bytes \in Nat /\ b.cycle <= CycleAt(prNow)
          /\ prCounter - b.bytes + OpeningOf(b.cycle) <= prUsed[b.cycle]
      BY <1>3, <2>2 DEF BaselineOK, Baselines, Moments
    <3>2. prNow \in Nat /\ MaxRunnerNow \in Nat /\ prNow <= MaxRunnerNow
      BY RunnerAssumption DEF RunnerInv, RunnerTypeOK
    <3>3. b.cycle \in RunnerCycles
      BY <3>1, <3>2, CyclesAreOrdered DEF RunnerCycles
    <3>4. prUsed[b.cycle] \in Nat /\ OpeningOf(b.cycle) \in Nat
      BY <3>3, RunnerAssumption DEF RunnerInv, RunnerTypeOK, OpeningOf
    <3> QED
      BY <1>1, <3>1, <3>4 DEF BaselineOK
  <2> QED
    BY <2>1, <2>2
<1>4. MeterInv'
  <2>1. prFile.baseline \in Baselines /\ (prRun # NoPolicyRun => prRun.state.baseline \in Baselines)
    BY RunAtPlace DEF RunnerInv, RunnerTypeOK, PolicyStates
  <2> QED
    BY <1>3, <2>1 DEF MeterInv, RunnerInv, Reboots
<1>5. TimesOK' /\ HealthInv' /\ SwitchedInv' /\ ReasonInv' /\ RecordInv'
  BY DEF TimesOK, HealthInv, Probes, SwitchedInv, ReasonInv, RecordInv, RunnerInv, Reboots
<1> QED
  BY <1>2, <1>4, <1>5 DEF RunnerInv

(* The runner's invariant holds throughout.                                *)
LEMMA RunnerSafe == RunnerSpec => []RunnerInv
<1>1. RunnerInv /\ [RunnerNext]_runnerVars => RunnerInv'
  <2> SUFFICES ASSUME RunnerInv, [RunnerNext]_runnerVars
               PROVE  RunnerInv'
    OBVIOUS
  <2>1. CASE RunnerNext
    <3>1. CASE RunBegins
      BY <3>1, RunBeginsStep
    <3>2. CASE ProbesNodes
      BY <3>2, ProbesNodesStep
    <3>3. CASE ReadsMeter
      BY <3>3, ReadsMeterStep
    <3>4. CASE BacksUp
      BY <3>4, BacksUpStep
    <3>5. CASE Applies
      BY <3>5, AppliesStep
    <3>6. CASE VerifiesSwitch
      BY <3>6, VerifiesSwitchStep
    <3>7. CASE FailsVerification
      BY <3>7, FailsVerificationStep
    <3>8. CASE LosesSight \/ RestoresRecord
      BY <3>8, SwitchEndsStep
    <3>9. CASE WritesState
      BY <3>9, WritesStateStep
    <3>10. CASE RunDies
      BY <3>10, RunDiesStep
    <3>11. CASE RunnerTick
      BY <3>11, RunnerTickStep
    <3>12. CASE CarriesTraffic
      BY <3>12, CarriesTrafficStep
    <3>13. CASE Reboots
      BY <3>13, RebootsStep
    <3> QED
      BY <2>1, <3>1, <3>2, <3>3, <3>4, <3>5, <3>6, <3>7, <3>8, <3>9, <3>10, <3>11, <3>12,
         <3>13 DEF RunnerNext
  <2>2. CASE UNCHANGED runnerVars
    <3>1. /\ UNCHANGED <<prScope, prNow, prCounter, prUsed, prRecord, prFile, prRun>>
          /\ UNCHANGED <<prProbes, prSwitched, prForgotten, prGood, prTrouble>>
      BY <2>2 DEF runnerVars, runnerWorld, runnerHistory
    <3>2. RunnerTypeOK' /\ TimesOK'
      BY <3>1 DEF RunnerInv, RunnerTypeOK, TimesOK
    <3>3. HealthInv'
      BY <3>1 DEF RunnerInv, HealthInv, Probes
    <3>4. MeterInv'
      BY <3>1 DEF RunnerInv, MeterInv
    <3>5. SwitchedInv' /\ ReasonInv' /\ RecordInv'
      BY <3>1 DEF RunnerInv, SwitchedInv, ReasonInv, RecordInv
    <3> QED
      BY <3>2, <3>3, <3>4, <3>5 DEF RunnerInv
  <2> QED
    BY <2>1, <2>2
<1> QED
  BY <1>1, RunnerStarts, PTL DEF RunnerSpec

(* The state file and the run are always what the script's types allow,    *)
(* and a count of probes never passes its threshold.                       *)
THEOREM RunnerTypeCorrect == RunnerSpec => []RunnerTypeOK
<1>1. RunnerInv => RunnerTypeOK
  BY DEF RunnerInv
<1> QED
  BY <1>1, RunnerSafe, PTL

(* A streak as long as the threshold is what SwitchIsEarned asks for.      *)
LEMMA StreakConfirms ==
  ASSUME NEW n, NEW ok \in BOOLEAN, NEW last, Streak(Probes(prRun), n, ok, last)
  PROVE  Confirmed(n, ok)
<1>1. PICK S \in SUBSET Results(Probes(prRun), ok) :
        Cardinality(S) = n /\ Apart(S) /\ Unbroken(S, Results(Probes(prRun), ~ok))
  BY DEF Streak
<1>2. S \in kSubset(n, Results(Probes(prRun), ok))
  BY <1>1 DEF kSubset
<1> QED
  BY <1>1, <1>2, Zenon DEF Confirmed, Results, Probes, Apart, Unbroken

(* A run changes the record only after as many probes in a row as the      *)
(* configuration asks for, or for traffic that was used, and a cooldown    *)
(* after the last recorded switch; and between two runs the record is the  *)
(* target verified last unless a switch was cut short: whatever runs are   *)
(* killed, calls fail and counters are set back.                           *)
THEOREM RunnerStaysCareful == RunnerSpec => []RunnerIsCareful
<1>1. RunnerInv => RecordIsVerified
  BY DEF RunnerInv, RecordInv, RecordIsVerified
<1>2. RunnerInv => SwitchIsEarned
  <2> SUFFICES ASSUME RunnerInv, prRun.pc = "apply"
               PROVE  /\ prSwitched = NeverYet \/ prForgotten
                           \/ prRun.moment >= prSwitched + RunnerCooldown
                      /\ prRun.why = "health" => Confirmed(FailuresToSwitch, FALSE)
                      /\ prRun.why = "traffic" => prUsed[CycleAt(prRun.moment)] >= LeaveAt
                      /\ prRun.why = "return" => Confirmed(SuccessesToReturn, TRUE)
    BY DEF SwitchIsEarned
  <2>1. prForgotten \/ prRun.state.switched = prSwitched
    BY DEF RunnerInv, SwitchedInv
  <2>2. Cooled(prRun.state.switched, prRun.moment)
    BY DEF RunnerInv, ReasonInv
  <2>3. prSwitched = NeverYet \/ prForgotten \/ prRun.moment >= prSwitched + RunnerCooldown
    BY <2>1, <2>2 DEF Cooled
  <2>4. HealthOK(prRun.state, Probes(prRun))
    BY DEF RunnerInv, HealthInv
  <2>5. FailuresToSwitch > 0 /\ SuccessesToReturn > 0
    BY RunnerAssumption
  <2>6. ASSUME prRun.why = "health" PROVE Confirmed(FailuresToSwitch, FALSE)
    <3>1. prRun.state.failures = FailuresToSwitch
      BY <2>6, Zenon DEF RunnerInv, ReasonInv
    <3>2. Streak(Probes(prRun), FailuresToSwitch, FALSE, prRun.state.sampled)
      BY <2>4, <2>5, <3>1, Zenon DEF HealthOK
    <3> QED
      BY <3>2, StreakConfirms
  <2>7. ASSUME prRun.why = "return" PROVE Confirmed(SuccessesToReturn, TRUE)
    <3>1. prRun.state.successes = SuccessesToReturn
      BY <2>7, Zenon DEF RunnerInv, ReasonInv
    <3>2. Streak(Probes(prRun), SuccessesToReturn, TRUE, prRun.state.sampled)
      BY <2>4, <2>5, <3>1, Zenon DEF HealthOK
    <3> QED
      BY <3>2, StreakConfirms
  <2>8. prRun.why = "traffic" => prUsed[CycleAt(prRun.moment)] >= LeaveAt
    BY Zenon DEF RunnerInv, ReasonInv
  <2> QED
    BY <2>3, <2>6, <2>7, <2>8
<1>3. RunnerInv => RunnerIsCareful
  BY <1>1, <1>2 DEF RunnerIsCareful
<1> QED
  BY <1>3, RunnerSafe, PTL

-----------------------------------------------------------------------------
\* The failover controller

SwitchRecords == [at : 0..MaxNow, auto : BOOLEAN]
ApplyStates == {NoApply} \cup [phase : {"update", "verified", "unverified"}, plan : Plans]

(* What FailoverTypeOK leaves open.                                        *)
DetailOK ==
    /\ foTraffic \in TrafficSamples
    /\ foPlans \in Nat /\ \A p \in foPending : p.id < foPlans
    /\ foSwitches \in Seq(SwitchRecords)
    /\ foApply \in ApplyStates

(* Every switch is over, and set a cooldown that the state still knows.    *)
SwitchOK ==
    \A i \in DOMAIN foSwitches :
        foSwitches[i].at <= foNow /\ foSwitches[i].at + Cooldown <= foState.cooldownUntil

(* On the fallback, the state's cycle is the one the primary was left in.  *)
CycleOK ==
    foState.active = Fallback /\ foLeft # NoCycle => foState.cycle = foLeft

(* The run in the database is the change under way, and a change that was  *)
(* seen has been made.                                                     *)
ApplyOK ==
    ~Unlocked =>
        /\ foRun.result = "pending"
        /\ foRun.value = foApply.plan.value /\ foRun.node = foApply.plan.node
        /\ foApply.phase = "verified" => foRecord = foApply.plan.value

RunOK == foRun \in [value : Addresses \cup {NoRecord}, node : FailoverNodes \cup {NoNode},
                    result : {"none", "pending", "verified", "failed"}]

ControllerInv ==
    /\ FailoverTypeOK /\ DetailOK
    /\ SwitchOK /\ CalmSwitching
    /\ CycleOK
    /\ RunOK /\ ApplyOK /\ RecordAccounted

-----------------------------------------------------------------------------
(* The constants that are numbers.                                         *)
LEMMA Numbers ==
  /\ Cooldown \in Nat /\ SwitchWindow \in Nat /\ MaxSwitches \in Nat /\ MaxSwitches > 0
  /\ DryRunTTL \in Nat /\ MaxNow \in Nat
  /\ FailureThreshold \in Nat /\ FailureThreshold > 0
  /\ RecoverySuccesses \in Nat /\ RecoverySuccesses > 0
BY TimesAssumption, ThresholdAssumption

(* No state is taken for a missing row.                                    *)
LEMMA RowIsState == NoRow \notin FailoverStates
<1> SUFFICES ASSUME NoRow \in FailoverStates PROVE FALSE
  OBVIOUS
<1>1. DOMAIN NoRow = {"none"}
  BY DEF NoRow
<1>2. "active" \in DOMAIN NoRow
  BY DEF FailoverStates
<1>3. QED
  BY <1>1, <1>2

(* The state a new controller starts with.                                 *)
LEMMA FreshTypes == FreshState \in FailoverStates
BY Numbers DEF FreshState, FailoverStates, Primary, FailoverNodes, Modes, NoCycle

(* An advanced cycle is the known one, if there is one, and else the old.  *)
LEMMA Advanced ==
  ASSUME NEW s \in FailoverStates, foTraffic \in TrafficSamples
  PROVE  /\ AdvanceCycle(s) \in FailoverStates
         /\ AdvanceCycle(s).cycle \in Int
         /\ AdvanceCycle(s).active = s.active
         /\ AdvanceCycle(s).observed = s.observed
         /\ AdvanceCycle(s).reconcile = s.reconcile
         /\ AdvanceCycle(s).cooldownUntil = s.cooldownUntil
         /\ KnownCycle(foTraffic) # NoCycle => AdvanceCycle(s).cycle = KnownCycle(foTraffic)
<1>1. KnownCycle(foTraffic) \in Int
  BY DEF KnownCycle, TrafficSamples, NoCycle
<1>2. CASE KnownCycle(foTraffic) = NoCycle
  BY <1>2 DEF AdvanceCycle, FailoverStates
<1>3. CASE KnownCycle(foTraffic) # NoCycle
  <2>1. AdvanceCycle(s) = [s EXCEPT !.cycle = KnownCycle(foTraffic)]
    BY <1>3 DEF AdvanceCycle
  <2>2. QED
    BY <1>1, <2>1 DEF FailoverStates
<1>4. QED
  BY <1>2, <1>3

(* What ApplyDecision, DNSApplied and DNSFailed store is a state.          *)
LEMMA NextStates ==
  ASSUME foState \in FailoverStates, foTraffic \in TrafficSamples, foNow \in 0..MaxNow,
         NEW n \in FailoverNodes
  PROVE  /\ \A mode \in Modes : [foState EXCEPT !.mode = mode] \in FailoverStates
         /\ Switched(n) \in FailoverStates
         /\ Switched(n).active = n
         /\ Switched(n).cooldownUntil = foNow + Cooldown
         /\ Switched(n).cycle = AdvanceCycle(foState).cycle
         /\ Switched(n).observed = foState.observed
         /\ Switched(n).reconcile = foState.reconcile
         /\ [foState EXCEPT !.reconcile = TRUE] \in FailoverStates
         /\ [foState EXCEPT !.observed = n, !.active = n, !.reconcile = FALSE] \in FailoverStates
         /\ [[foState EXCEPT !.observed = n, !.active = n, !.reconcile = FALSE]
               EXCEPT !.cycle = AdvanceCycle(foState).cycle] \in FailoverStates
<1>1. AdvanceCycle(foState) \in FailoverStates /\ AdvanceCycle(foState).cycle \in Int
      /\ AdvanceCycle(foState).observed = foState.observed
      /\ AdvanceCycle(foState).reconcile = foState.reconcile
  BY Advanced
<1>2. foNow + Cooldown \in 0..MaxNow + Cooldown
  BY Numbers
<1>3. \A mode \in Modes : [foState EXCEPT !.mode = mode] \in FailoverStates
  BY DEF FailoverStates
<1>4. /\ Switched(n) \in FailoverStates
      /\ Switched(n).active = n
      /\ Switched(n).cooldownUntil = foNow + Cooldown
      /\ Switched(n).cycle = AdvanceCycle(foState).cycle
      /\ Switched(n).observed = foState.observed
      /\ Switched(n).reconcile = foState.reconcile
  BY <1>1, <1>2 DEF Switched, FailoverStates
<1>5. [foState EXCEPT !.reconcile = TRUE] \in FailoverStates
  BY DEF FailoverStates
<1>6. [foState EXCEPT !.observed = n, !.active = n, !.reconcile = FALSE] \in FailoverStates
  BY DEF FailoverStates
<1>7. [[foState EXCEPT !.observed = n, !.active = n, !.reconcile = FALSE]
               EXCEPT !.cycle = AdvanceCycle(foState).cycle] \in FailoverStates
  BY <1>1, <1>6 DEF FailoverStates
<1>8. QED
  BY <1>3, <1>4, <1>5, <1>6, <1>7

(* The policy asks for a node or for none.                                 *)
LEMMA RequestTypes ==
  ASSUME NEW nodes, NEW sample, NEW s, NEW now
  PROVE  Requested(nodes, sample, s, now) \in FailoverNodes \cup {NoNode}
<1>1. Primary \in FailoverNodes /\ Fallback \in FailoverNodes
  BY DEF FailoverNodes
<1>2. AutoDecision(nodes, sample, s, now) \in FailoverNodes \cup {NoNode}
  BY <1>1, Zenon DEF AutoDecision
<1>3. QED
  BY <1>1, <1>2 DEF Requested

-----------------------------------------------------------------------------
(* Types                                                                   *)

(* At first every value is well typed.                                     *)
LEMMA InitTypes == FailoverInit => FailoverTypeOK /\ DetailOK
<1> SUFFICES ASSUME FailoverInit PROVE FailoverTypeOK /\ DetailOK
  OBVIOUS
<1>1. foState \in FailoverStates /\ foStored = NoRow
  BY FreshTypes DEF FailoverInit
<1>2. foTraffic \in TrafficSamples
  BY DEF FailoverInit, UnknownTraffic, TrafficSamples, Quality, NoCycle, Unmetered
<1>3. foApply = NoApply /\ foApply.phase = "idle" /\ Unlocked
  BY DEF FailoverInit, NoApply, Unlocked
<1>4. foSwitches \in Seq(SwitchRecords)
  BY DEF FailoverInit
<1>5. foNodes \in [FailoverNodes ->
                       [enabled : BOOLEAN, maintenance : BOOLEAN,
                        failures : 0..FailureThreshold, successes : 0..RecoverySuccesses]]
      /\ \A n \in FailoverNodes : foNodes[n].failures = 0
  BY Numbers DEF FailoverInit
<1>6. foNow \in 0..MaxNow
  BY Numbers DEF FailoverInit
<1>7. QED
  BY <1>1, <1>2, <1>3, <1>4, <1>5, <1>6 DEF FailoverInit, FailoverTypeOK, DetailOK, ApplyStates

(* A step that changes neither nodes, plans nor the change under way.      *)
LEMMA StateTypes ==
  ASSUME FailoverTypeOK, DetailOK,
         foNow' \in 0..MaxNow,
         foState' \in FailoverStates, foStored' \in FailoverStates \cup {NoRow},
         foSwitches' \in Seq(SwitchRecords), foTraffic' \in TrafficSamples,
         foDecision' \in FailoverNodes \cup {NoNode},
         UNCHANGED <<foNodes, dnsVars>>
  PROVE  FailoverTypeOK' /\ DetailOK'
BY DEF FailoverTypeOK, DetailOK, dnsVars, Unlocked

(* A step that changes neither state, nodes nor samples.                   *)
LEMMA PlanTypes ==
  ASSUME FailoverTypeOK, DetailOK,
         foRecord' \in Addresses \cup {NoRecord},
         foPending' \subseteq Plans, foPlans' \in Nat,
         \A p, q \in foPending' : p.id = q.id => p = q,
         \A p \in foPending' : p.id < foPlans',
         foApply' \in ApplyStates, foApply' = NoApply \/ foRun'.result = "pending",
         UNCHANGED <<foNow, foSwitches, nodeVars, foDecision>>,
         foState' \in FailoverStates, foStored' \in FailoverStates \cup {NoRow}
  PROVE  FailoverTypeOK' /\ DetailOK'
<1>1. foApply'.phase \in {"idle", "update", "verified", "unverified"}
  BY DEF ApplyStates, NoApply
<1>2. QED
  BY <1>1 DEF FailoverTypeOK, DetailOK, nodeVars, Unlocked

(* The operations that change the state only, or what was decided.         *)
LEMMA StateOperationTypes ==
  ASSUME FailoverTypeOK, DetailOK,
         \/ \E mode \in Modes : SetMode(mode)
         \/ \E n \in FailoverNodes : AdminSwitches(n)
         \/ \E sample \in Samples : SetTraffic(sample)
         \/ Evaluate \/ ApplyEvaluated \/ DropEvaluated \/ FailoverTick
  PROVE  FailoverTypeOK' /\ DetailOK'
<1> USE DEF FailoverTypeOK, DetailOK
<1>1. ASSUME NEW mode \in Modes, SetMode(mode) PROVE FailoverTypeOK' /\ DetailOK'
  <2>1. [foState EXCEPT !.mode = mode] \in FailoverStates
    BY NextStates DEF FailoverNodes
  <2>2. QED
    BY <1>1, <2>1, StateTypes DEF SetMode, CommitTransition, SavesState, stateVars, nodeVars
<1>2. ASSUME NEW n \in FailoverNodes, ApplyDecision(n), foDecision' \in FailoverNodes \cup {NoNode}
      PROVE  FailoverTypeOK' /\ DetailOK'
  <2>1. Switched(n) \in FailoverStates
    BY NextStates
  <2>2. [at |-> foNow, auto |-> foState.mode = "auto"] \in SwitchRecords
    BY DEF SwitchRecords
  <2>3. Append(foSwitches, [at |-> foNow, auto |-> foState.mode = "auto"]) \in Seq(SwitchRecords)
    BY <2>2
  <2>4. QED
    BY <1>2, <2>1, <2>3, StateTypes
       DEF ApplyDecision, CommitTransition, SavesState, stateVars, nodeVars
<1>3. ASSUME NEW sample \in Samples, SetTraffic(sample) PROVE FailoverTypeOK' /\ DetailOK'
  BY <1>3, SamplesAssumption, StateTypes DEF SetTraffic, stateVars
<1>4. CASE Evaluate
  <2>1. foDecision' \in FailoverNodes \cup {NoNode}
    BY <1>4, RequestTypes DEF Evaluate
  <2>2. QED
    BY <1>4, <2>1, StateTypes DEF Evaluate, stateVars, nodeVars
<1>5. CASE ApplyEvaluated
  <2>1. foDecision \in FailoverNodes /\ foDecision' = NoNode /\ ApplyDecision(foDecision)
    BY <1>5 DEF ApplyEvaluated
  <2>2. QED
    BY <2>1, <1>2
<1>6. CASE DropEvaluated
  BY <1>6, StateTypes DEF DropEvaluated, stateVars, nodeVars
<1>7. CASE FailoverTick
  <2>1. foNow' \in 0..MaxNow
    BY <1>7, Numbers DEF FailoverTick
  <2>2. QED
    BY <1>7, <2>1, StateTypes DEF FailoverTick, stateVars, nodeVars
<1>8. QED
  BY <1>1, <1>2, <1>3, <1>4, <1>5, <1>6, <1>7 DEF AdminSwitches

(* A counted probe: one counter stops at its threshold, the other is zero. *)
LEMMA CountedTypes ==
  ASSUME NEW node \in [enabled : BOOLEAN, maintenance : BOOLEAN,
                       failures : 0..FailureThreshold, successes : 0..RecoverySuccesses],
         NEW b \in BOOLEAN
  PROVE  /\ Counted(node, b) \in [enabled : BOOLEAN, maintenance : BOOLEAN,
                       failures : 0..FailureThreshold, successes : 0..RecoverySuccesses]
         /\ \/ Counted(node, b).failures = 0
            \/ Counted(node, b).successes = 0
<1> DEFINE up == IF node.successes < RecoverySuccesses THEN node.successes + 1 ELSE node.successes
           down == IF node.failures < FailureThreshold THEN node.failures + 1 ELSE node.failures
<1>1. /\ up \in 0..RecoverySuccesses /\ down \in 0..FailureThreshold
      /\ 0 \in 0..RecoverySuccesses /\ 0 \in 0..FailureThreshold
  BY Numbers
<1>2. CASE b
  <2>1. Counted(node, b) = [node EXCEPT !.failures = 0, !.successes = up]
    BY <1>2 DEF Counted
  <2> HIDE DEF up, down
  <2>2. QED
    BY <1>1, <2>1
<1>3. CASE ~b
  <2>1. Counted(node, b) = [node EXCEPT !.successes = 0, !.failures = down]
    BY <1>3 DEF Counted
  <2> HIDE DEF up, down
  <2>2. QED
    BY <1>1, <2>1
<1>4. QED
  BY <1>2, <1>3

LEMMA HealthTypes ==
  ASSUME FailoverTypeOK, DetailOK, NEW n \in FailoverNodes, NEW b \in BOOLEAN, SetHealth(n, b)
  PROVE  FailoverTypeOK' /\ DetailOK'
<1>1. /\ foNodes' = [foNodes EXCEPT ![n] = Counted(foNodes[n], b)]
      /\ UNCHANGED <<foNow, stateVars, foTraffic, foDecision, dnsVars>>
  BY DEF SetHealth
<1>2. foNodes[n] \in [enabled : BOOLEAN, maintenance : BOOLEAN,
                      failures : 0..FailureThreshold, successes : 0..RecoverySuccesses]
  BY DEF FailoverTypeOK
<1>3. /\ Counted(foNodes[n], b) \in [enabled : BOOLEAN, maintenance : BOOLEAN,
                      failures : 0..FailureThreshold, successes : 0..RecoverySuccesses]
      /\ \/ Counted(foNodes[n], b).failures = 0
         \/ Counted(foNodes[n], b).successes = 0
  BY <1>2, CountedTypes
<1>4. QED
  BY <1>1, <1>3 DEF FailoverTypeOK, DetailOK, stateVars, dnsVars, Unlocked

(* The steps of a guarded DNS change.                                      *)
LEMMA DNSTypes ==
  ASSUME FailoverTypeOK, DetailOK, DNSOperation
  PROVE  FailoverTypeOK' /\ DetailOK'
<1> USE DEF FailoverTypeOK, DetailOK
<1>1. ASSUME NEW n \in FailoverNodes, NEW value \in Addresses, PrepareDNSApply(n, value)
      PROVE  FailoverTypeOK' /\ DetailOK'
  <2> DEFINE plan == [id |-> foPlans, node |-> n, value |-> value, expires |-> foNow + DryRunTTL]
  <2>1. plan \in Plans /\ plan.id = foPlans
    BY Numbers DEF Plans
  <2> HIDE DEF plan
  <2>2. foPending' = {p \in foPending : foNow < p.expires} \cup {plan}
    BY <1>1 DEF PrepareDNSApply, plan
  <2>3. foPlans' = foPlans + 1
    BY <1>1 DEF PrepareDNSApply
  <2>4. foPending' \subseteq Plans
    BY <2>1, <2>2
  <2>5. \A p \in foPending' : p.id < foPlans'
    <3> SUFFICES ASSUME NEW p \in foPending' PROVE p.id < foPlans'
      OBVIOUS
    <3>1. p.id \in Nat /\ (p.id < foPlans \/ p.id = foPlans)
      BY <2>1, <2>2 DEF Plans
    <3>2. QED
      BY <2>3, <3>1
  <2>6. \A p, q \in foPending' : p.id = q.id => p = q
    BY <2>1, <2>2 DEF Plans
  <2>7. QED
    BY <1>1, <2>3, <2>4, <2>5, <2>6, PlanTypes DEF PrepareDNSApply, stateVars, Unlocked
<1>2. ASSUME NEW plan \in foPending, RejectDNSApply(plan) PROVE FailoverTypeOK' /\ DetailOK'
  BY <1>2, PlanTypes DEF RejectDNSApply, stateVars, Unlocked
<1>3. ASSUME NEW plan \in foPending, BeginDNSApply(plan) PROVE FailoverTypeOK' /\ DetailOK'
  <2>1. foApply' \in ApplyStates
    BY <1>3 DEF BeginDNSApply, ApplyStates
  <2>2. foRun'.result = "pending"
    BY <1>3 DEF BeginDNSApply
  <2>3. QED
    BY <1>3, <2>1, <2>2, PlanTypes DEF BeginDNSApply, stateVars
<1>4. CASE ProviderUpdates
  <2>1. foApply \in [phase : {"update", "verified", "unverified"}, plan : Plans]
    BY <1>4 DEF ProviderUpdates, ApplyStates, NoApply
  <2>2. foApply' \in ApplyStates /\ foRecord' \in Addresses \cup {NoRecord}
    BY <1>4, <2>1 DEF ProviderUpdates, ApplyStates, Plans
  <2>3. foRun'.result = "pending"
    BY <1>4 DEF ProviderUpdates, Unlocked, NoApply
  <2>4. QED
    BY <1>4, <2>2, <2>3, PlanTypes DEF ProviderUpdates, stateVars
<1>5. CASE DNSApplied
  <2>1. foApply.plan.node \in FailoverNodes
    BY <1>5 DEF DNSApplied, ApplyStates, NoApply, Plans
  <2>2. foState' \in FailoverStates /\ foStored' \in FailoverStates \cup {NoRow}
    BY <1>5, <2>1, NextStates DEF DNSApplied, CommitDNS, SavesState
  <2>3. foApply' \in ApplyStates
    BY <1>5 DEF DNSApplied, ApplyStates
  <2>4. QED
    BY <1>5, <2>2, <2>3, PlanTypes DEF DNSApplied
<1>6. CASE DNSFailed
  <2>1. [foState EXCEPT !.reconcile = TRUE] \in FailoverStates
    BY NextStates DEF FailoverNodes
  <2>2. QED
    BY <1>6, <2>1, PlanTypes DEF DNSFailed, CommitDNS, SavesState, ApplyStates
<1>7. CASE ConfigureDNSGuard
  BY <1>7, PlanTypes DEF ConfigureDNSGuard, stateVars, Unlocked
<1>8. QED
  BY <1>1, <1>2, <1>3, <1>4, <1>5, <1>6, <1>7 DEF DNSOperation

(* A restart restores a state, as much of the sample, and no change.       *)
LEMMA RestartTypes ==
  ASSUME FailoverTypeOK, DetailOK, FailoverRestart
  PROVE  FailoverTypeOK' /\ DetailOK'
<1>1. foState' \in FailoverStates
  BY FreshTypes DEF FailoverRestart, Restored, FailoverTypeOK
<1>2. foTraffic' \in TrafficSamples
  BY DEF FailoverRestart, RestoredTraffic, DetailOK, TrafficSamples
<1>3. foApply' = NoApply /\ NoApply \in ApplyStates /\ NoApply.phase = "idle" /\ foPending' = {}
  BY DEF FailoverRestart, ApplyStates, NoApply
<1>4. UNCHANGED <<foNow, foSwitches, foStored, foNodes, foPlans, foRun>>
      /\ foDecision' = NoNode /\ foRecord' = NoRecord
  BY DEF FailoverRestart, RestoredSwitches
<1>5. QED
  BY <1>1, <1>2, <1>3, <1>4 DEF FailoverTypeOK, DetailOK, Unlocked

LEMMA NextTypes ==
  ASSUME FailoverTypeOK, DetailOK, [FailoverNext]_failoverVars
  PROVE  FailoverTypeOK' /\ DetailOK'
<1>1. CASE UNCHANGED failoverVars
  BY <1>1 DEF failoverVars, stateVars, nodeVars, dnsVars, FailoverTypeOK, DetailOK, Unlocked
<1>2. CASE FailoverNext
  BY <1>2, StateOperationTypes, HealthTypes, DNSTypes, RestartTypes
     DEF FailoverNext, ProbeOperation
<1>3. QED
  BY <1>1, <1>2

-----------------------------------------------------------------------------
(* Kinds of steps                                                          *)

(* A step that leaves the state, the record and the change under way.      *)
Quiet ==
    /\ UNCHANGED <<foState, foStored, foSwitches, foRecord, foApply, foRun>>
    /\ foNow' \in {foNow, foNow + 1}

(* Every step is quiet, changes the mode, switches, restarts, or is one of *)
(* the four of a DNS change.                                               *)
LEMMA StepKinds ==
  ASSUME FailoverTypeOK, FailoverNext
  PROVE  \/ Quiet
         \/ \E mode \in Modes : SetMode(mode)
         \/ \E n \in FailoverNodes : ApplyDecision(n)
         \/ \E plan \in foPending : BeginDNSApply(plan)
         \/ ProviderUpdates \/ DNSApplied \/ DNSFailed
         \/ FailoverRestart
<1> USE DEF Quiet, stateVars, nodeVars, dnsVars
<1>1. ASSUME ProbeOperation PROVE Quiet \/ \E n \in FailoverNodes : ApplyDecision(n)
  <2>1. ASSUME NEW n \in FailoverNodes, NEW b \in BOOLEAN, SetHealth(n, b) PROVE Quiet
    BY <2>1 DEF SetHealth
  <2>2. ASSUME NEW sample \in Samples, SetTraffic(sample) PROVE Quiet
    BY <2>2 DEF SetTraffic
  <2>3. Evaluate => Quiet
    BY DEF Evaluate
  <2>4. DropEvaluated => Quiet
    BY DEF DropEvaluated
  <2>5. ApplyEvaluated => \E n \in FailoverNodes : ApplyDecision(n)
    BY DEF ApplyEvaluated, FailoverTypeOK
  <2>6. QED
    BY <1>1, <2>1, <2>2, <2>3, <2>4, <2>5 DEF ProbeOperation
<1>2. ASSUME DNSOperation
      PROVE  \/ Quiet \/ ProviderUpdates \/ DNSApplied \/ DNSFailed
             \/ \E plan \in foPending : BeginDNSApply(plan)
  <2>1. ASSUME NEW n \in FailoverNodes, NEW value \in Addresses, PrepareDNSApply(n, value)
        PROVE  Quiet
    BY <2>1 DEF PrepareDNSApply
  <2>2. ASSUME NEW plan \in foPending, RejectDNSApply(plan) PROVE Quiet
    BY <2>2 DEF RejectDNSApply
  <2>3. ConfigureDNSGuard => Quiet
    BY DEF ConfigureDNSGuard
  <2>4. QED
    BY <1>2, <2>1, <2>2, <2>3 DEF DNSOperation
<1>3. FailoverTick => Quiet
  BY DEF FailoverTick
<1>4. QED
  BY <1>1, <1>2, <1>3 DEF FailoverNext, AdminSwitches

-----------------------------------------------------------------------------
(* SwitchRecords                                                                *)

LEMMA SwitchTimes ==
  ASSUME DetailOK
  PROVE  \A i \in DOMAIN foSwitches : foSwitches[i].at \in Nat
<1> SUFFICES ASSUME NEW i \in DOMAIN foSwitches PROVE foSwitches[i].at \in Nat
  OBVIOUS
<1>1. foSwitches[i] \in SwitchRecords
  BY DEF DetailOK
<1>2. QED
  BY <1>1, Numbers DEF SwitchRecords

(* A step that switches nothing keeps what is known of the switches.       *)
LEMMA NoSwitch ==
  ASSUME FailoverTypeOK, DetailOK, SwitchOK, CalmSwitching,
         UNCHANGED foSwitches, foNow' \in {foNow, foNow + 1},
         foState'.cooldownUntil = foState.cooldownUntil
  PROVE  SwitchOK' /\ CalmSwitching'
<1>1. \A i \in DOMAIN foSwitches : foSwitches[i].at \in Nat
  BY SwitchTimes
<1>2. SwitchOK'
  BY <1>1, Numbers DEF SwitchOK, FailoverTypeOK
<1>3. CalmSwitching'
  BY DEF CalmSwitching
<1>4. QED
  BY <1>2, <1>3

(* A switch is at least a cooldown after every other, in mode auto, and    *)
(* its window is the one the limit was checked for.                        *)
LEMMA SwitchIsCalm ==
  ASSUME FailoverTypeOK, DetailOK, SwitchOK, CalmSwitching,
         NEW n \in FailoverNodes, ApplyDecision(n)
  PROVE  SwitchOK' /\ CalmSwitching'
<1> DEFINE event == [at |-> foNow, auto |-> foState.mode = "auto"]
           last == Len(foSwitches) + 1
<1>1. CASE UNCHANGED stateVars
  BY <1>1, NoSwitch DEF ApplyDecision, stateVars
<1>2. CASE foState' = Switched(n) /\ foSwitches' = Append(foSwitches, event)
  <2>1. /\ event \in SwitchRecords /\ event.at = foNow
        /\ event.auto = (foState.mode = "auto")
    BY DEF FailoverTypeOK, SwitchRecords
  <2> HIDE DEF event
  <2>2. /\ foSwitches \in Seq(SwitchRecords)
        /\ DOMAIN foSwitches = 1..Len(foSwitches) /\ Len(foSwitches) \in Nat
    BY DEF DetailOK
  <2>3. /\ DOMAIN foSwitches' = 1..last
        /\ foSwitches'[last] = event
        /\ \A i \in 1..Len(foSwitches) : foSwitches'[i] = foSwitches[i]
    BY <1>2, <2>1, <2>2
  <2>4. \A i \in DOMAIN foSwitches : foSwitches[i].at \in Nat
    BY SwitchTimes
  <2>5. foNow \in Nat /\ foNow' = foNow
    BY Numbers DEF FailoverTypeOK, ApplyDecision
  <2>6. foState'.cooldownUntil = foNow + Cooldown
    BY <1>2, NextStates DEF FailoverTypeOK, DetailOK
  <2>7. SwitchOK'
    <3> SUFFICES ASSUME NEW i \in 1..last
                 PROVE  /\ foSwitches'[i].at <= foNow
                        /\ foSwitches'[i].at + Cooldown <= foNow + Cooldown
      BY <2>3, <2>5, <2>6 DEF SwitchOK
    <3>1. CASE i = last
      BY <3>1, <2>1, <2>3, <2>5, Numbers
    <3>2. CASE i # last
      <4>1. i \in DOMAIN foSwitches
        BY <3>2, <2>2
      <4>2. foSwitches'[i] = foSwitches[i] /\ foSwitches[i].at <= foNow
        BY <4>1, <2>2, <2>3 DEF SwitchOK
      <4>3. QED
        BY <4>1, <4>2, <2>4, <2>5, Numbers
    <3>3. QED
      BY <3>1, <3>2
  <2>8. CalmSwitching'
    <3> SUFFICES ASSUME NEW j \in 1..last, foSwitches'[j].auto
                 PROVE  /\ \A i \in 1..j-1 : foSwitches'[j].at - foSwitches'[i].at >= Cooldown
                        /\ Cardinality({i \in 1..j-1 :
                               foSwitches'[i].at >= foSwitches'[j].at - SwitchWindow})
                             < MaxSwitches
      BY <2>3 DEF CalmSwitching
    <3>1. \A i \in 1..j-1 : i \in DOMAIN foSwitches /\ foSwitches'[i] = foSwitches[i]
      BY <2>2, <2>3
    <3>2. CASE j # last
      <4>1. j \in DOMAIN foSwitches /\ foSwitches'[j] = foSwitches[j]
        BY <3>2, <2>2, <2>3
      <4>2. {i \in 1..j-1 : foSwitches'[i].at >= foSwitches'[j].at - SwitchWindow}
              = {i \in 1..j-1 : foSwitches[i].at >= foSwitches[j].at - SwitchWindow}
        BY <3>1, <4>1
      <4>3. QED
        BY <3>1, <4>1, <4>2 DEF CalmSwitching
    <3>3. CASE j = last
      <4>1. CooldownExpired(foState, foNow) /\ ~SwitchLimitReached
        BY <3>3, <2>1, <2>3 DEF ApplyDecision
      <4>2. \A i \in 1..j-1 : foSwitches'[j].at - foSwitches'[i].at >= Cooldown
        <5> TAKE i \in 1..j-1
        <5>1. foSwitches[i].at + Cooldown <= foState.cooldownUntil
          BY <3>1 DEF SwitchOK
        <5>2. foState.cooldownUntil <= foNow /\ foState.cooldownUntil \in Int
          BY <4>1, Numbers DEF CooldownExpired, FailoverTypeOK, FailoverStates
        <5>3. QED
          BY <5>1, <5>2, <3>1, <3>3, <2>1, <2>3, <2>4, <2>5, Numbers
      <4> DEFINE window == {i \in DOMAIN foSwitches : foSwitches[i].at >= foNow - SwitchWindow}
      <4>3. {i \in 1..j-1 : foSwitches'[i].at >= foSwitches'[j].at - SwitchWindow} = window
        BY <3>1, <3>3, <2>1, <2>2, <2>3
      <4>4. Cardinality(window) \in Nat
        <5>1. IsFiniteSet(1..Len(foSwitches))
          BY <2>2, FS_Interval
        <5>2. IsFiniteSet(window)
          BY <5>1, <2>2, FS_Subset
        <5>3. QED
          BY <5>2, FS_CardinalityType
      <4>5. Cardinality(window) < MaxSwitches
        BY <4>1, <4>4, Numbers DEF SwitchLimitReached
      <4>6. QED
        BY <4>2, <4>3, <4>5
    <3>4. QED
      BY <3>2, <3>3
  <2>9. QED
    BY <2>7, <2>8
<1>3. QED
  BY <1>1, <1>2 DEF ApplyDecision, CommitTransition

LEMMA NextSwitches ==
  ASSUME FailoverTypeOK, DetailOK, SwitchOK, CalmSwitching, Restored = foState,
         [FailoverNext]_failoverVars
  PROVE  SwitchOK' /\ CalmSwitching'
<1>1. CASE UNCHANGED failoverVars
  BY <1>1, NoSwitch DEF failoverVars, stateVars
<1>2. CASE Quiet
  BY <1>2, NoSwitch DEF Quiet
<1>3. ASSUME NEW mode \in Modes, SetMode(mode) PROVE SwitchOK' /\ CalmSwitching'
  <2>1. foState'.cooldownUntil = foState.cooldownUntil
    BY <1>3 DEF SetMode, CommitTransition, stateVars, FailoverTypeOK, FailoverStates
  <2>2. QED
    BY <1>3, <2>1, NoSwitch DEF SetMode, CommitTransition, stateVars
<1>4. ASSUME NEW n \in FailoverNodes, ApplyDecision(n) PROVE SwitchOK' /\ CalmSwitching'
  BY <1>4, SwitchIsCalm
<1>5. ASSUME \/ \E plan \in foPending : BeginDNSApply(plan)
             \/ ProviderUpdates
      PROVE  SwitchOK' /\ CalmSwitching'
  BY <1>5, NoSwitch DEF BeginDNSApply, ProviderUpdates, stateVars
<1>6. CASE DNSApplied
  <2>1. foState'.cooldownUntil = foState.cooldownUntil
    BY <1>6, Advanced
       DEF DNSApplied, CommitDNS, FailoverTypeOK, DetailOK, FailoverStates
  <2>2. QED
    BY <1>6, <2>1, NoSwitch DEF DNSApplied
<1>7. CASE DNSFailed
  <2>1. foState'.cooldownUntil = foState.cooldownUntil
    BY <1>7 DEF DNSFailed, CommitDNS, FailoverTypeOK, FailoverStates
  <2>2. QED
    BY <1>7, <2>1, NoSwitch DEF DNSFailed
<1>8. CASE FailoverRestart
  BY <1>8, NoSwitch DEF FailoverRestart, RestoredSwitches
<1>9. QED
  BY <1>1, <1>2, <1>3, <1>4, <1>5, <1>6, <1>7, <1>8, StepKinds

-----------------------------------------------------------------------------
(* The billing cycle                                                       *)

(* A step changes the active node with the cycle that is known, or neither *)
(* of the two.                                                             *)
LEMMA ActiveSteps ==
  ASSUME FailoverTypeOK, DetailOK, Restored = foState, FailoverNext
  PROVE  \/ foState'.active = foState.active /\ foState'.cycle = foState.cycle
         \/ foState'.active # foState.active /\ foState'.cycle = AdvanceCycle(foState).cycle
<1> USE DEF FailoverTypeOK, DetailOK
<1>1. CASE Quiet
  BY <1>1 DEF Quiet
<1>2. ASSUME NEW mode \in Modes, SetMode(mode)
      PROVE  foState'.active = foState.active /\ foState'.cycle = foState.cycle
  BY <1>2 DEF SetMode, CommitTransition, stateVars, FailoverStates
<1>3. ASSUME NEW n \in FailoverNodes, ApplyDecision(n)
      PROVE  \/ foState'.active = foState.active /\ foState'.cycle = foState.cycle
             \/ /\ foState'.active # foState.active
                /\ foState'.cycle = AdvanceCycle(foState).cycle
  BY <1>3, NextStates DEF ApplyDecision, CommitTransition, stateVars
<1>4. CASE \/ \E plan \in foPending : BeginDNSApply(plan)
           \/ ProviderUpdates
  BY <1>4 DEF BeginDNSApply, ProviderUpdates, stateVars
<1>5. CASE DNSApplied
  <2> DEFINE n == foApply.plan.node
             next == [foState EXCEPT !.observed = n, !.active = n, !.reconcile = FALSE]
  <2>1. n \in FailoverNodes
    BY <1>5 DEF DNSApplied, ApplyStates, NoApply, Plans
  <2>2. next \in FailoverStates /\ next.active = n /\ next.cycle = foState.cycle
    BY <2>1, NextStates DEF FailoverStates
  <2>3. /\ [next EXCEPT !.cycle = AdvanceCycle(foState).cycle].active = n
        /\ [next EXCEPT !.cycle = AdvanceCycle(foState).cycle].cycle
             = AdvanceCycle(foState).cycle
    BY <2>2 DEF FailoverStates
  <2>4. QED
    BY <1>5, <2>2, <2>3 DEF DNSApplied, CommitDNS
<1>6. CASE DNSFailed
  BY <1>6 DEF DNSFailed, CommitDNS, FailoverStates
<1>7. CASE FailoverRestart
  BY <1>7 DEF FailoverRestart
<1>8. QED
  BY <1>1, <1>2, <1>3, <1>4, <1>5, <1>6, <1>7, StepKinds

LEMMA NextCycle ==
  ASSUME FailoverTypeOK, DetailOK, CycleOK, Restored = foState, [FailoverNext]_failoverVars
  PROVE  CycleOK'
<1>1. CASE UNCHANGED failoverVars
  BY <1>1 DEF failoverVars, stateVars, CycleOK
<1>2. CASE FailoverNext
  <2>1. foLeft' = IF foState.active = Primary /\ foState'.active = Fallback
                  THEN KnownCycle(foTraffic) ELSE foLeft
    BY <1>2 DEF FailoverNext
  <2>2. foState \in FailoverStates /\ foState.active \in {Primary, Fallback}
    BY DEF FailoverTypeOK, FailoverStates, FailoverNodes
  <2>3. KnownCycle(foTraffic) # NoCycle => AdvanceCycle(foState).cycle = KnownCycle(foTraffic)
    BY <2>2, Advanced DEF DetailOK
  <2>4. QED
    BY <1>2, <2>1, <2>2, <2>3, ActiveSteps DEF CycleOK, Primary, Fallback
<1>3. QED
  BY <1>1, <1>2

(* What is asked for in mode auto, on a fallback that works, is the        *)
(* primary only if it has earned its return in a cycle of its own.         *)
LEMMA ReturnIsEarned ==
  ASSUME NEW nodes, NEW sample, NEW s, NEW now,
         s.mode = "auto", s.active = Fallback, FallbackEligible(nodes[Fallback]),
         Requested(nodes, sample, s, now) = Primary
  PROVE  Earned(nodes[Primary], sample, s, now)
<1>1. AutoDecision(nodes, sample, s, now) = Primary
  BY DEF Requested
<1>2. QED
  BY <1>1 DEF AutoDecision, Primary, Fallback, NoNode

(* Only Evaluate takes a decision.                                         *)
LEMMA OnlyEvaluateDecides ==
  ASSUME FailoverNext, foDecision' = Primary, foDecision # Primary
  PROVE  Evaluate
<1> NoNode # Primary
  BY DEF NoNode, Primary
<1>1. ASSUME ProbeOperation PROVE Evaluate
  BY <1>1 DEF ProbeOperation, SetHealth, SetTraffic, ApplyEvaluated, DropEvaluated
<1>2. ~DNSOperation
  BY DEF DNSOperation, PrepareDNSApply, RejectDNSApply, BeginDNSApply, ProviderUpdates,
         DNSApplied, DNSFailed, ConfigureDNSGuard
<1>3. QED
  BY <1>1, <1>2 DEF FailoverNext, SetMode, AdminSwitches, FailoverRestart, FailoverTick

LEMMA DecisionKeepsCycle ==
  ASSUME FailoverTypeOK, DetailOK, CycleOK, [FailoverNext]_failoverVars,
         foDecision' = Primary, foDecision # Primary,
         foState.mode = "auto", foState.active = Fallback,
         FallbackEligible(foNodes[Fallback]), foLeft # NoCycle
  PROVE  KnownCycle(foTraffic) \notin {foLeft, NoCycle}
<1>1. Evaluate
  BY OnlyEvaluateDecides DEF failoverVars
<1>2. foState.cycle = foLeft
  BY DEF CycleOK
<1>3. PolicyState(foState, foTraffic) = foState
  BY <1>2 DEF PolicyState
<1>4. Requested(foNodes, foTraffic, foState, foNow) = Primary
  BY <1>1, <1>3 DEF Evaluate, NoNode, Primary
<1>5. Earned(foNodes[Primary], foTraffic, foState, foNow)
  BY <1>4, ReturnIsEarned
<1>6. QED
  BY <1>2, <1>5 DEF Earned, NewKnownCycle, KnownCycle

-----------------------------------------------------------------------------
(* The record                                                              *)

ProviderInv == RunOK /\ ApplyOK /\ RecordAccounted

(* A change of the state that keeps the record's part of it.               *)
LEMMA RecordFrame ==
  ASSUME ProviderInv, UNCHANGED <<foRecord, foApply, foRun>>,
         foState'.observed = foState.observed, foState'.reconcile = foState.reconcile,
         Restored' = foState'
  PROVE  ProviderInv'
BY DEF ProviderInv, RunOK, ApplyOK, RecordAccounted, Unlocked

(* What was saved is what a restart finds.                                 *)
LEMMA SavedIsRestored ==
  ASSUME FailoverTypeOK, RecordAccounted,
         \/ foState' \in FailoverStates /\ foStored' = foState'
         \/ UNCHANGED <<foState, foStored>>
  PROVE  Restored' = foState'
<1>1. CASE foState' \in FailoverStates /\ foStored' = foState'
  BY <1>1, RowIsState DEF Restored
<1>2. CASE UNCHANGED <<foState, foStored>>
  BY <1>2 DEF Restored, RecordAccounted
<1>3. QED
  BY <1>1, <1>2

LEMMA NextRecord ==
  ASSUME FailoverTypeOK, DetailOK, ProviderInv, [FailoverNext]_failoverVars,
         FailoverTypeOK'
  PROVE  ProviderInv'
<1>0. RecordAccounted /\ Restored = foState /\ foState \in FailoverStates
  BY DEF ProviderInv, RecordAccounted, FailoverTypeOK
<1>1. CASE UNCHANGED failoverVars
  BY <1>0, <1>1, SavedIsRestored, RecordFrame DEF failoverVars, stateVars, dnsVars
<1>2. CASE Quiet
  BY <1>0, <1>2, SavedIsRestored, RecordFrame DEF Quiet
<1>3. ASSUME NEW mode \in Modes, SetMode(mode) PROVE ProviderInv'
  <2>1. foState'.observed = foState.observed /\ foState'.reconcile = foState.reconcile
    BY <1>0, <1>3 DEF SetMode, CommitTransition, stateVars, FailoverStates
  <2>2. \/ foState' \in FailoverStates /\ foStored' = foState'
        \/ UNCHANGED <<foState, foStored>>
    BY <1>3 DEF SetMode, CommitTransition, SavesState, stateVars, FailoverTypeOK
  <2>3. QED
    BY <1>0, <1>3, <2>1, <2>2, SavedIsRestored, RecordFrame DEF SetMode, dnsVars
<1>4. ASSUME NEW n \in FailoverNodes, ApplyDecision(n) PROVE ProviderInv'
  <2>1. /\ Switched(n) \in FailoverStates
        /\ Switched(n).observed = foState.observed
        /\ Switched(n).reconcile = foState.reconcile
    BY NextStates DEF FailoverTypeOK, DetailOK
  <2>2. foState'.observed = foState.observed /\ foState'.reconcile = foState.reconcile
    BY <1>4, <2>1 DEF ApplyDecision, CommitTransition, stateVars
  <2>3. \/ foState' \in FailoverStates /\ foStored' = foState'
        \/ UNCHANGED <<foState, foStored>>
    BY <1>4 DEF ApplyDecision, CommitTransition, SavesState, stateVars, FailoverTypeOK
  <2>4. QED
    BY <1>0, <1>4, <2>2, <2>3, SavedIsRestored, RecordFrame DEF ApplyDecision, dnsVars
<1>5. ASSUME NEW plan \in foPending, BeginDNSApply(plan) PROVE ProviderInv'
  <2>1. plan \in Plans
    BY DEF FailoverTypeOK
  <2>2. /\ foRun' = [value |-> plan.value, node |-> plan.node, result |-> "pending"]
        /\ foApply' = [phase |-> "update", plan |-> plan]
        /\ UNCHANGED <<foState, foStored>>
    BY <1>5 DEF BeginDNSApply, stateVars
  <2>3. RunOK'
    BY <2>1, <2>2 DEF RunOK, Plans
  <2>4. ApplyOK' /\ ~Unlocked'
    BY <2>2 DEF ApplyOK, Unlocked, NoApply
  <2>5. QED
    BY <1>0, <2>2, <2>3, <2>4, SavedIsRestored DEF ProviderInv, RecordAccounted
<1>6. CASE ProviderUpdates
  <2>1. foApply \in [phase : {"update", "verified", "unverified"}, plan : Plans]
    BY <1>6 DEF ProviderUpdates, DetailOK, ApplyStates, NoApply
  <2>2. foApply'.plan = foApply.plan /\ UNCHANGED <<foRun, foState, foStored>> /\ ~Unlocked
    BY <1>6, <2>1 DEF ProviderUpdates, stateVars, Unlocked, NoApply
  <2>3. foApply'.phase = "verified" => foRecord' = foApply.plan.value
    BY <1>6, <2>1 DEF ProviderUpdates
  <2>4. foApply' # NoApply
    BY <1>6, <2>1 DEF ProviderUpdates, NoApply
  <2>5. RunOK' /\ ApplyOK' /\ ~Unlocked'
    BY <2>2, <2>3, <2>4 DEF ProviderInv, RunOK, ApplyOK, Unlocked
  <2>6. QED
    BY <1>0, <2>2, <2>5, SavedIsRestored DEF ProviderInv, RecordAccounted
<1>7. CASE DNSApplied
  <2> DEFINE n == foApply.plan.node
             plain == [foState EXCEPT !.observed = n, !.active = n, !.reconcile = FALSE]
             next == IF n = foState.active THEN plain
                     ELSE [plain EXCEPT !.cycle = AdvanceCycle(foState).cycle]
  <2>1. n \in FailoverNodes /\ foApply.phase = "verified" /\ ~Unlocked
    BY <1>7 DEF DNSApplied, DetailOK, ApplyStates, NoApply, Plans, Unlocked
  <2>2. next \in FailoverStates /\ next.observed = n /\ ~next.reconcile
    <3>1. AdvanceCycle(foState).cycle \in Int
      BY <1>0, Advanced DEF DetailOK
    <3>2. plain \in FailoverStates /\ plain.observed = n /\ ~plain.reconcile
      BY <1>0, <2>1, NextStates DEF FailoverStates, FailoverTypeOK, DetailOK
    <3> HIDE DEF plain
    <3>3. /\ [plain EXCEPT !.cycle = AdvanceCycle(foState).cycle] \in FailoverStates
          /\ [plain EXCEPT !.cycle = AdvanceCycle(foState).cycle].observed = n
          /\ ~[plain EXCEPT !.cycle = AdvanceCycle(foState).cycle].reconcile
      BY <3>1, <3>2 DEF FailoverStates
    <3>4. QED
      BY <3>2, <3>3
  <2>3. /\ foRun.result = "pending" /\ foRun.value = foApply.plan.value
        /\ foRun.node = n /\ foRecord = foApply.plan.value /\ RunOK
    BY <2>1 DEF ProviderInv, ApplyOK
  <2>4. Unlocked' /\ foRecord' = foRecord
    BY <1>7 DEF DNSApplied, Unlocked
  <2>5. CASE /\ foState' = next /\ foStored' = next
             /\ foRun' = [foRun EXCEPT !.result = "verified"]
    <3>1. RunOK' /\ foRun'.result = "verified" /\ foRun'.value = foRun.value
          /\ foRun'.node = foRun.node
      BY <2>3, <2>5 DEF RunOK
    <3>2. foState'.observed = n /\ ~foState'.reconcile
      BY <2>2, <2>5
    <3>3. Restored' = foState'
      BY <1>0, <2>5, SavedIsRestored DEF FailoverTypeOK
    <3>4. QED
      BY <2>3, <2>4, <3>1, <3>2, <3>3 DEF ProviderInv, ApplyOK, RecordAccounted
  <2>6. CASE UNCHANGED <<foState, foStored, foRun>>
    <3>1. Restored' = foState'
      BY <1>0, <2>6, SavedIsRestored
    <3>2. QED
      BY <2>3, <2>4, <2>6, <3>1 DEF ProviderInv, RunOK, ApplyOK, RecordAccounted
  <2>7. QED
    BY <1>7, <2>5, <2>6 DEF DNSApplied, CommitDNS, SavesState
<1>8. CASE DNSFailed
  <2> DEFINE next == [foState EXCEPT !.reconcile = TRUE]
  <2>1. ~Unlocked /\ Unlocked'
    BY <1>8 DEF DNSFailed, Unlocked, NoApply
  <2>2. foRun.result = "pending" /\ RunOK
    BY <2>1 DEF ProviderInv, ApplyOK
  <2>3. next.reconcile
    BY <1>0 DEF FailoverStates
  <2>4. CASE /\ foState' = next /\ foStored' = next
             /\ foRun' = [foRun EXCEPT !.result = "failed"]
    <3>1. RunOK' /\ foRun'.result = "failed"
      BY <2>2, <2>4 DEF RunOK
    <3>2. Restored' = foState'
      BY <1>0, <2>4, SavedIsRestored DEF FailoverTypeOK
    <3>3. QED
      BY <2>1, <2>3, <2>4, <3>1, <3>2 DEF ProviderInv, ApplyOK, RecordAccounted
  <2>5. CASE UNCHANGED <<foState, foStored, foRun>>
    <3>1. Restored' = foState'
      BY <1>0, <2>5, SavedIsRestored
    <3>2. QED
      BY <2>1, <2>2, <2>5, <3>1 DEF ProviderInv, RunOK, ApplyOK, RecordAccounted
  <2>6. QED
    BY <1>8, <2>4, <2>5 DEF DNSFailed, CommitDNS, SavesState
<1>9. CASE FailoverRestart
  <2>1. /\ foState' = Restored /\ foStored' = foStored /\ foRun' = foRun
        /\ foRecord' = NoRecord /\ Unlocked'
    BY <1>9 DEF FailoverRestart, Unlocked
  <2>2. Restored' = foState'
    BY <2>1 DEF Restored
  <2>3. QED
    BY <2>1, <2>2 DEF ProviderInv, RunOK, ApplyOK, RecordAccounted
<1>10. QED
  BY <1>1, <1>2, <1>3, <1>4, <1>5, <1>6, <1>7, <1>8, <1>9, StepKinds

-----------------------------------------------------------------------------
(* The controller keeps its invariant.                                     *)
LEMMA ControllerSafe == FailoverSpec => []ControllerInv
<1>1. FailoverInit => ControllerInv
  <2> SUFFICES ASSUME FailoverInit PROVE ControllerInv
    OBVIOUS
  <2>1. FailoverTypeOK /\ DetailOK
    BY InitTypes
  <2>2. SwitchOK /\ CalmSwitching
    BY DEF FailoverInit, SwitchOK, CalmSwitching
  <2>3. CycleOK /\ ApplyOK
    BY DEF FailoverInit, CycleOK, ApplyOK, Unlocked
  <2>4. RunOK
    BY DEF FailoverInit, RunOK, NoRun
  <2>5. RecordAccounted
    BY DEF FailoverInit, RecordAccounted, Restored
  <2>6. QED
    BY <2>1, <2>2, <2>3, <2>4, <2>5 DEF ControllerInv
<1>2. ControllerInv /\ [FailoverNext]_failoverVars => ControllerInv'
  <2> SUFFICES ASSUME ControllerInv, [FailoverNext]_failoverVars PROVE ControllerInv'
    OBVIOUS
  <2>1. FailoverTypeOK /\ DetailOK /\ SwitchOK /\ CalmSwitching /\ CycleOK
        /\ RunOK /\ ApplyOK /\ RecordAccounted
    BY DEF ControllerInv
  <2>2. Restored = foState
    BY <2>1 DEF RecordAccounted
  <2>3. FailoverTypeOK' /\ DetailOK'
    BY <2>1, NextTypes
  <2>4. SwitchOK' /\ CalmSwitching'
    BY <2>1, <2>2, NextSwitches
  <2>5. CycleOK'
    BY <2>1, <2>2, NextCycle
  <2>6. ProviderInv'
    BY <2>1, <2>3, NextRecord DEF ProviderInv
  <2>7. QED
    BY <2>3, <2>4, <2>5, <2>6 DEF ControllerInv, ProviderInv
<1>3. QED
  BY <1>1, <1>2, PTL DEF FailoverSpec

(* Every value of the controller keeps its type.                           *)
THEOREM ControllerTypeCorrect == FailoverSpec => []FailoverTypeOK
<1>1. ControllerInv => FailoverTypeOK
  BY DEF ControllerInv
<1>2. QED
  BY <1>1, ControllerSafe, PTL

(* In mode auto two switches are a cooldown apart, and no window holds     *)
(* more of them than its limit, with any delay between a decision and its  *)
(* application, through failed writes and restarts.                        *)
THEOREM SwitchingIsCalm == FailoverSpec => []CalmSwitching
<1>1. ControllerInv => CalmSwitching
  BY DEF ControllerInv
<1>2. QED
  BY <1>1, ControllerSafe, PTL

(* When no DNS change is under way, the last run in the database accounts  *)
(* for the provider's record, and a restart finds the state of the memory. *)
THEOREM RecordStaysAccounted == FailoverSpec => []RecordAccounted
<1>1. ControllerInv => RecordAccounted
  BY DEF ControllerInv
<1>2. QED
  BY <1>1, ControllerSafe, PTL

(* In mode auto the policy does not ask for the primary in the billing     *)
(* cycle in which it was left, while the fallback works.                   *)
THEOREM PrimaryStaysLeft == FailoverSpec => NoReturnInCycle
<1>1. ControllerInv /\ [FailoverNext]_failoverVars =>
        [ /\ foDecision' = Primary /\ foDecision # Primary
          /\ foState.mode = "auto" /\ foState.active = Fallback
          /\ FallbackEligible(foNodes[Fallback])
          /\ foLeft # NoCycle
          => KnownCycle(foTraffic) \notin {foLeft, NoCycle} ]_failoverVars
  BY DecisionKeepsCycle DEF ControllerInv
<1>2. QED
  BY <1>1, ControllerSafe, PTL DEF FailoverSpec, NoReturnInCycle
==============================================================================
