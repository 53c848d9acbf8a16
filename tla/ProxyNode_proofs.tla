-------------------------- MODULE ProxyNode_proofs ---------------------------
(***************************************************************************)
(* Theorems about ProxyNode, for any number of enrollments and streams.    *)
(* Types, counted streams and credentials hold whatever runs in the middle *)
(* of a PATCH.  That an eligible node has an identity is proved for a      *)
(* console that starts no lifecycle operation in the middle of a PATCH and *)
(* does not ask for the drain of a retired node; neither can be dropped    *)
(* (see the run node_drain_of_removed for the second).                     *)
(***************************************************************************)
EXTENDS ProxyNode, TLAPS

(* What handlers hold while they do nothing is well typed.                 *)
LEMMA IdleTypes ==
  NoRow \in Row /\ NoPatch \in Patch /\ NoBeat \in Beat /\ NoProbe \in Probe
<1>1. NoRow \in Row
  BY DEF NoRow, Row, State
<1>2. SeenOf(NoRow) \in Seen
  BY <1>1 DEF Row, Seen, SeenOf
<1>3. NoPatch \in Patch
  BY <1>2 DEF NoPatch, Patch
<1>4. NoBeat \in Beat
  BY DEF NoBeat, Beat, State
<1>5. NoProbe \in Probe
  BY DEF NoProbe, Probe, State
<1>6. QED
  BY <1>1, <1>3, <1>4, <1>5

(* What a handler has read of a row is well typed.                         *)
LEMMA SeenTypes ==
  ASSUME row \in Row
  PROVE  SeenOf(row) \in Seen /\ Edited \subseteq Seen
<1>1. SeenOf(row) \in Seen
  BY DEF Row, Seen, SeenOf
<1>2. ASSUME NEW n \in Seen PROVE [n EXCEPT !.ingress = FALSE] \in Seen
  BY DEF Seen
<1>3. QED
  BY <1>1, <1>2 DEF Edited

(* At first nothing is counted and every value is well typed.              *)
LEMMA InitTypes == Init => TypeOK /\ StreamsCounted
<1> SUFFICES ASSUME Init PROVE TypeOK /\ StreamsCounted
  OBVIOUS
<1>1. row \in Row /\ patch \in Patch /\ beat \in Beat /\ probe \in Probe
  BY IdleTypes DEF Init
<1>2. enroll \in [Enrollment -> {"unused", "open", "consumed", "closed"}]
  BY DEF Init
<1>3. active \in 0..MaxStreams /\ streams \in 0..MaxStreams
  BY StreamsAssumption DEF Init
<1>4. streams <= active
  BY DEF Init
<1>5. QED
  BY <1>1, <1>2, <1>3, <1>4 DEF Init, TypeOK, StreamsCounted

(* The types are kept, by every handler, also from what it read before     *)
(* others wrote the row; and no stream goes uncounted.                     *)
LEMMA NextTypes ==
  ASSUME TypeOK, StreamsCounted, [Next]_vars
  PROVE  TypeOK' /\ StreamsCounted'
<1>1. TypeOK'
  <2> USE NoneAssumption, StreamsAssumption DEF TypeOK, Row, State, counts,
        agents, handlers
  <2>1. CASE Create
    <3>1. ASSUME NEW s \in State PROVE [NoRow EXCEPT !.state = s] \in Row
      BY IdleTypes
    <3>2. row' \in Row
      BY <2>1, <3>1 DEF Create
    <3>3. enroll' \in [Enrollment -> {"unused", "open", "consumed", "closed"}]
      BY <2>1 DEF Create
    <3>4. QED
      BY <2>1, <3>2, <3>3 DEF Create
  <2>2. CASE Regenerate
    BY <2>2 DEF Regenerate, Closed
  <2>3. CASE Expire
    BY <2>3 DEF Expire
  <2>4. CASE CompleteEnrollment
    <3>1. PICK e \in Enrollment, moved \in BOOLEAN :
             /\ enroll' = [enroll EXCEPT ![e] = "consumed"]
             /\ row' = [row EXCEPT !.state = "installing", !.credential = e,
                                   !.ingress = @ /\ ~moved]
             /\ installed' \in {installed, installed \cup {e}}
      BY <2>4 DEF CompleteEnrollment
    <3>2. row' \in Row
      BY <3>1
    <3>3. enroll' \in [Enrollment -> {"unused", "open", "consumed", "closed"}]
      BY <3>1
    <3>4. QED
      BY <2>4, <3>1, <3>2, <3>3 DEF CompleteEnrollment
  <2>5. CASE BeginDrain
    BY <2>5 DEF BeginDrain
  <2>6. CASE Drain
    BY <2>6 DEF Drain, Closed
  <2>7. CASE ForceRevoke
    BY <2>7 DEF ForceRevoke, Retire, Closed
  <2>8. CASE Decommission
    <3>1. enroll' \in [Enrollment -> {"unused", "open", "consumed", "closed"}]
      BY <2>8 DEF Decommission, Retire, Closed
    <3>2. row' \in Row
      BY <2>8 DEF Decommission, Retire
    <3>3. QED
      BY <2>8, <3>1, <3>2 DEF Decommission
  <2>9. CASE CompleteDecommission
    BY <2>9 DEF CompleteDecommission, Retire, Closed
  <2>10. CASE BeatArrives
    <3>1. beat' \in Beat
      BY <2>10 DEF BeatArrives, Beat
    <3>2. QED
      BY <2>10, <3>1 DEF BeatArrives
  <2>11. CASE BeatWrites
    <3>1. row' \in Row
      <4>1. /\ beat.state \in State
            /\ beat.playback \in BOOLEAN
            /\ beat.synced \in BOOLEAN
        BY DEF Beat
      <4>2. QED
        BY <2>11, <4>1 DEF BeatWrites
    <3>2. seenAt' \in {"never", "fresh", "stale"}
      BY <2>11 DEF BeatWrites
    <3>3. QED
      BY <2>11, <3>1, <3>2, IdleTypes DEF BeatWrites
  <2>12. CASE Silence
    BY <2>12 DEF Silence
  <2>13. CASE ProbeAnswers
    <3>1. probe' \in Probe
      <4>1. ASSUME NEW g \in 0..2, NEW b \in 0..2,
                   NEW p \in {"idle", "down", "read"}
            PROVE  [probe EXCEPT !.pc = p, !.good = g, !.bad = b] \in Probe
        BY DEF Probe
      <4>2. 0 \in 0..2 /\ 1 \in 0..2 /\ 2 \in 0..2
        OBVIOUS
      <4>3. ASSUME NEW g \in 0..2, NEW b \in 0..2
            PROVE  [probe EXCEPT !.bad = b, !.good = g] \in Probe
        BY DEF Probe
      <4>4. ASSUME NEW g \in 0..2, NEW b \in 0..2
            PROVE  [probe EXCEPT !.good = g, !.bad = b] \in Probe
        BY DEF Probe
      <4>5. ASSUME NEW g \in 0..2, NEW b \in 0..2,
                   NEW p \in {"idle", "down", "read"}
            PROVE  [probe EXCEPT !.pc = p, !.bad = b, !.good = g] \in Probe
        BY DEF Probe
      <4>6. QED
        BY <2>13, <4>1, <4>2, <4>3, <4>4, <4>5 DEF ProbeAnswers
    <3>2. QED
      BY <2>13, <3>1 DEF ProbeAnswers
  <2>14. CASE ProbeReads
    <3>1. probe' \in Probe
      BY <2>14 DEF ProbeReads, Probe
    <3>2. QED
      BY <2>14, <3>1 DEF ProbeReads
  <2>15. CASE ProbeWrites
    <3>1. row' \in Row
      BY <2>15 DEF ProbeWrites, Probe
    <3>2. probe' \in Probe
      BY <2>15 DEF ProbeWrites, Probe
    <3>3. QED
      BY <2>15, <3>1, <3>2 DEF ProbeWrites
  <2>16. CASE PatchReads
    <3>1. ASSUME NEW n \in Edited
          PROVE  [pc |-> "update", seen |-> n, want |-> "keep"] \in Patch
      BY SeenTypes DEF Patch
    <3>2. ASSUME NEW want \in {"on", "off"}
          PROVE  [NoPatch EXCEPT !.pc = "schedule", !.want = want] \in Patch
      BY IdleTypes DEF Patch
    <3>3. patch' \in Patch
      BY <2>16, <3>1, <3>2 DEF PatchReads
    <3>4. QED
      BY <2>16, <3>3 DEF PatchReads
  <2>17. CASE ScheduleReads
    <3>1. patch' \in Patch
      BY <2>17, IdleTypes, SeenTypes DEF ScheduleReads, Patch
    <3>2. QED
      BY <2>17, <3>1 DEF ScheduleReads
  <2>18. CASE ScheduleWrites
    <3>1. Scheduled(patch.seen, patch.want) \in State
      BY DEF Scheduled, Patch, Seen
    <3>2. row' \in Row
      BY <2>18, <3>1 DEF ScheduleWrites
    <3>3. patch' \in Patch
      BY <2>18, IdleTypes DEF ScheduleWrites, Patch
    <3>4. QED
      BY <2>18, <3>2, <3>3 DEF ScheduleWrites
  <2>19. CASE PatchRereads
    <3>1. patch' \in Patch
      BY <2>19, SeenTypes DEF PatchRereads, Patch
    <3>2. QED
      BY <2>19, <3>1 DEF PatchRereads
  <2>20. CASE PatchWrites
    <3>1. row' \in Row
      BY <2>20 DEF PatchWrites, Patch, Seen
    <3>2. QED
      BY <2>20, <3>1, IdleTypes DEF PatchWrites
  <2>21. CASE StreamBegins
    <3>1. active' \in 0..MaxStreams /\ streams' \in 0..MaxStreams
      BY <2>21 DEF StreamBegins, StreamsCounted
    <3>2. QED
      BY <2>21, <3>1 DEF StreamBegins
  <2>22. CASE StreamEnds
    <3>1. enroll' \in [Enrollment -> {"unused", "open", "consumed", "closed"}]
      BY <2>22 DEF StreamEnds, Retire, Closed
    <3>2. row' \in Row
      BY <2>22 DEF StreamEnds, Retire
    <3>3. QED
      BY <2>22, <3>1, <3>2 DEF StreamEnds
  <2>23. CASE Crash
    BY <2>23, IdleTypes DEF Crash
  <2>24. CASE UNCHANGED vars
    BY <2>24 DEF vars
  <2>25. QED
    BY <2>1, <2>2, <2>3, <2>4, <2>5, <2>6, <2>7, <2>8, <2>9, <2>10, <2>11,
       <2>12, <2>13, <2>14, <2>15, <2>16, <2>17, <2>18, <2>19, <2>20, <2>21,
       <2>22, <2>23, <2>24
    DEF Next, Lifecycle, Report, PatchStep
<1>2. StreamsCounted'
  <2>1. active \in Nat /\ streams \in Nat /\ streams <= active
    BY StreamsAssumption DEF TypeOK, StreamsCounted
  <2>2. CASE StreamBegins
    BY <2>1, <2>2 DEF StreamBegins, StreamsCounted
  <2>3. CASE StreamEnds
    BY <2>1, <2>3 DEF StreamEnds, StreamsCounted
  <2>4. CASE Crash
    BY <2>1, <2>4 DEF Crash, StreamsCounted
  <2>5. CASE UNCHANGED counts
    BY <2>5 DEF counts, StreamsCounted
  <2>6. QED
    BY <2>2, <2>3, <2>4, <2>5
    DEF Next, Lifecycle, Report, PatchStep, vars, Create, Regenerate, Expire,
      CompleteEnrollment, BeginDrain, Drain, ForceRevoke, Decommission,
      CompleteDecommission, BeatArrives, BeatWrites, Silence, ProbeAnswers,
      ProbeReads, ProbeWrites, PatchReads, ScheduleReads, ScheduleWrites,
      PatchRereads, PatchWrites
<1>3. QED
  BY <1>1, <1>2

(* Every value stays in its type.                                          *)
THEOREM TypeCorrect == Spec => []TypeOK
<1>1. TypeOK /\ StreamsCounted /\ [Next]_vars => (TypeOK /\ StreamsCounted)'
  BY NextTypes
<1>2. QED
  BY <1>1, InitTypes, PTL DEF Spec

(* Every stream is counted, across crashes and in every state of the node: *)
(* a count may outlive its stream, a stream never its count.               *)
THEOREM EveryStreamCounted == Spec => []StreamsCounted
<1>1. TypeOK /\ StreamsCounted /\ [Next]_vars => (TypeOK /\ StreamsCounted)'
  BY NextTypes
<1>2. QED
  BY <1>1, InitTypes, PTL DEF Spec

(* A credential that was replaced or revoked stays dead: only an open      *)
(* enrollment gives a node its credential, and it is consumed by that.     *)
THEOREM CredentialsStayDead == Spec => NoCredentialRevival
<1> DEFINE Dead(e) == enroll[e] \in {"consumed", "closed"} /\ row.credential # e
           Step == \A e \in Enrollment : Dead(e) => row'.credential # e
<1>1. TypeOK /\ [Next]_vars => Step
  <2> SUFFICES ASSUME TypeOK, [Next]_vars, NEW e \in Enrollment, Dead(e)
               PROVE  row'.credential # e
    OBVIOUS
  <2>1. e # None /\ row \in Row
    BY NoneAssumption DEF TypeOK
  <2>2. CASE Create
    BY <2>1, <2>2 DEF Create, NoRow
  <2>3. CASE Regenerate
    BY <2>1, <2>3 DEF Regenerate, Row
  <2>4. CASE CompleteEnrollment
    <3>1. PICK f \in Enrollment, moved \in BOOLEAN :
             /\ enroll[f] = "open"
             /\ row' = [row EXCEPT !.state = "installing", !.credential = f,
                                   !.ingress = @ /\ ~moved]
      BY <2>4 DEF CompleteEnrollment
    <3>2. row'.credential = f
      BY <3>1, <2>1 DEF Row
    <3>3. QED
      BY <3>1, <3>2
  <2>5. CASE \E s \in State : Retire(s)
    BY <2>1, <2>5 DEF Retire, Row
  <2>6. CASE BeginDrain \/ Drain \/ Decommission
    BY <2>1, <2>6 DEF BeginDrain, Drain, Decommission, Retire, Row
  <2>7. CASE BeatWrites \/ ProbeWrites \/ ScheduleWrites \/ PatchWrites
    BY <2>1, <2>7
    DEF BeatWrites, ProbeWrites, ScheduleWrites, PatchWrites, Row
  <2>8. CASE row' = row
    BY <2>8
  <2>9. QED
    BY <2>2, <2>3, <2>4, <2>5, <2>6, <2>7, <2>8
    DEF Next, Lifecycle, Report, PatchStep, vars, Expire, ForceRevoke,
      CompleteDecommission, BeatArrives, Silence, ProbeAnswers, ProbeReads,
      PatchReads, ScheduleReads, PatchRereads, StreamBegins, StreamEnds,
      Crash, State
<1>2. Step => \A e \in Enrollment :
        enroll[e] \in {"consumed", "closed"} /\ row.credential # e
          => row'.credential # e
  OBVIOUS
<1> HIDE DEF Step
<1>3. QED
  BY <1>1, <1>2, TypeCorrect, PTL DEF Spec, NoCredentialRevival
------------------------------------------------------------------------------
(* The console leaves a PATCH alone and does not drain a retired node.     *)
CarefulConsole ==
  Overlap \subseteq {"report"} /\ DrainedFrom \cap Retired = {}

(* A node in state s that reports playback p is not chosen.                *)
Passive(s, p) == s \in Retired \/ ~p

Out == {"disabled", "draining"} \cup Retired

NoneOpen == \A e \in Enrollment : enroll[e] # "open"

(* A row without identity is passive, a retired or drained one is not      *)
(* enabled, and a node that does not exist has no open enrollment.         *)
RowInv ==
  /\ row.credential = None => Passive(row.state, row.playback)
  /\ OutIsDisabled
  /\ OneCommand
  /\ Exists \/ NoneOpen

(* What a PATCH has read may still be written.                             *)
PatchInv ==
  /\ patch.pc # "idle" => Exists
  /\ patch.pc \in {"schedule", "scheduled"} => patch.want \in {"on", "off"}
  /\ patch.pc = "scheduled" =>
       /\ row.state \notin Retired
       /\ patch.seen.state \notin Retired \cup {"absent"}
  /\ patch.pc = "update" =>
       /\ row.credential = None =>
            Passive(patch.seen.state, patch.seen.playback)
       /\ patch.seen.state # "absent"
       /\ patch.seen.state \in Out => ~patch.seen.enabled
       /\ patch.seen.state \in Retired => NoneOpen

(* A report only ever brings a node into one of these states.              *)
ReportInv ==
  /\ beat.pc = "write" => /\ beat.state \in {"degraded", "online", "healthy"}
                          /\ beat.credential \in Enrollment
  /\ probe.pc = "write" => probe.state \in {"online", "healthy"}

NodeInv == RowInv /\ PatchInv /\ ReportInv

(* A lifecycle operation that runs between two PATCHes keeps the row in    *)
(* order, and so does the end of a stream.                                 *)
LEMMA LifecycleKeeps ==
  ASSUME TypeOK, RowInv, CarefulConsole, Lifecycle \/ StreamEnds
  PROVE  RowInv'
<1> USE NoneAssumption DEF RowInv, Passive, OutIsDisabled, OneCommand, NoneOpen,
      Exists, Retired
<1>1. row \in Row /\ enroll \in [Enrollment -> {"unused", "open", "consumed", "closed"}]
  BY DEF TypeOK
<1>2. \A e \in Enrollment : Closed[e] # "open"
  BY <1>1 DEF Closed
<1>3. ASSUME NEW s \in Retired, Retire(s) PROVE RowInv'
  <2>1. row'.state = s /\ row'.enabled = FALSE /\ s # "absent"
    BY <1>1, <1>3 DEF Retire, Row
  <2>2. \A e \in Enrollment : enroll'[e] # "open"
    BY <1>2, <1>3 DEF Retire
  <2>3. QED
    BY <2>1, <2>2
<1>4. CASE Create
  <2>1. PICK e \in Enrollment, s \in {"registered", "pending"} :
          /\ enroll' = [enroll EXCEPT ![e] = "open"]
          /\ row' = [NoRow EXCEPT !.state = s]
    BY <1>4 DEF Create
  <2>2. row'.state = s /\ row'.playback = FALSE
    BY <2>1 DEF NoRow
  <2>3. \A f \in Enrollment : f # e => enroll'[f] # "open"
    BY <2>1, <1>1, <1>4 DEF Create
  <2>4. QED
    BY <2>2, <2>3
<1>5. CASE Regenerate
  <2>1. PICK e \in Enrollment : enroll' = [Closed EXCEPT ![e] = "open"]
    BY <1>5 DEF Regenerate
  <2>2. \A f \in Enrollment : f # e => enroll'[f] # "open"
    BY <2>1, <1>2 DEF Closed
  <2>3. CASE row.state = "revoked"
    BY <2>2, <2>3, <1>5, <1>1 DEF Regenerate, Row
  <2>4. CASE row.state # "revoked"
    BY <2>2, <2>4, <1>5, <1>1 DEF Regenerate, Row
  <2>5. QED
    BY <2>3, <2>4
<1>6. CASE Expire
  BY <1>6, <1>1 DEF Expire
<1>7. CASE CompleteEnrollment
  <2>1. PICK e \in Enrollment, moved \in BOOLEAN :
          /\ enroll[e] = "open"
          /\ enroll' = [enroll EXCEPT ![e] = "consumed"]
          /\ row' = [row EXCEPT !.state = "installing", !.credential = e,
                                !.ingress = @ /\ ~moved]
    BY <1>7 DEF CompleteEnrollment
  <2>2. row'.state = "installing" /\ row'.credential = e
    BY <2>1, <1>1 DEF Row
  <2>3. \A f \in Enrollment : enroll'[f] = "open" => enroll[f] = "open"
    BY <2>1, <1>1
  <2>4. QED
    BY <2>2, <2>3
<1>8. CASE BeginDrain
  BY <1>8, <1>1 DEF BeginDrain, Row
<1>9. CASE Drain
  <2>1. CASE active = 0
    BY <2>1, <1>9, <1>1, <1>2 DEF Drain, Row
  <2>2. CASE active # 0
    <3>1. row.state \notin Retired
      BY <1>9 DEF Drain, CarefulConsole
    <3>2. QED
      BY <3>1, <2>2, <1>9, <1>1 DEF Drain, Row
  <2>3. QED
    BY <2>1, <2>2
<1>10. CASE ForceRevoke
  BY <1>10, <1>3 DEF ForceRevoke
<1>11. CASE Decommission
  <2>1. CASE seenAt = "fresh"
    BY <2>1, <1>11, <1>1, <1>2 DEF Decommission, Row
  <2>2. CASE seenAt # "fresh"
    BY <2>2, <1>11, <1>3 DEF Decommission
  <2>3. QED
    BY <2>1, <2>2
<1>12. CASE CompleteDecommission
  BY <1>12, <1>3 DEF CompleteDecommission
<1>13. CASE StreamEnds
  <2>1. CASE active' = 0 /\ row.state = "draining" /\ row.finalize
    BY <2>1, <1>13, <1>3 DEF StreamEnds
  <2>2. CASE ~(active' = 0 /\ row.state = "draining" /\ row.finalize)
    BY <2>2, <1>13 DEF StreamEnds
  <2>3. QED
    BY <2>1, <2>2
<1>14. QED
  BY <1>4, <1>5, <1>6, <1>7, <1>8, <1>9, <1>10, <1>11, <1>12, <1>13
  DEF Lifecycle

(* Between two PATCHes nothing that was read is pending.                   *)
LEMMA LifecycleAlone ==
  ASSUME NodeInv, CarefulConsole, Lifecycle \/ StreamEnds
  PROVE  PatchInv' /\ ReportInv'
<1>1. CASE Create
  <2>1. patch.pc = "idle"
    BY <1>1 DEF Create, NodeInv, PatchInv
  <2>2. QED
    BY <2>1, <1>1 DEF Create, NodeInv, PatchInv, ReportInv, handlers
<1>2. CASE Expire
  BY <1>2 DEF Expire, NodeInv, PatchInv, ReportInv, NoneOpen, Exists, Passive,
    handlers
<1>3. ASSUME MayRun("lifecycle"), UNCHANGED handlers
      PROVE  PatchInv' /\ ReportInv'
  <2>1. patch.pc = "idle"
    BY <1>3 DEF MayRun, CarefulConsole
  <2>2. QED
    BY <2>1, <1>3 DEF NodeInv, PatchInv, ReportInv, handlers
<1>4. QED
  BY <1>1, <1>2, <1>3
  DEF Lifecycle, Regenerate, CompleteEnrollment, BeginDrain, Drain,
    ForceRevoke, Decommission, CompleteDecommission, StreamEnds

(* A report never brings back a node that is out, nor gives a row without  *)
(* identity a playback, also in the middle of a PATCH.                     *)
LEMMA ReportKeeps ==
  ASSUME TypeOK, NodeInv, Report
  PROVE  NodeInv'
<1> USE NoneAssumption DEF NodeInv, RowInv, PatchInv, ReportInv, Passive, Out,
      OutIsDisabled, OneCommand, NoneOpen, Exists, Retired
<1>1. row \in Row /\ beat \in Beat /\ probe \in Probe
  BY DEF TypeOK
<1>2. CASE BeatArrives
  <2>1. PICK c \in installed, synced, playback \in BOOLEAN :
          beat' = [pc |-> "write", credential |-> c, playback |-> playback,
                   synced |-> synced,
                   state |-> IF ~playback THEN "degraded"
                             ELSE IF c = row.credential /\ ~row.ingress
                                     /\ row.state # "revoked" THEN "online"
                             ELSE "healthy"]
    BY <1>2 DEF BeatArrives
  <2>2. /\ beat'.state \in {"degraded", "online", "healthy"}
        /\ beat'.credential \in Enrollment
    BY <2>1 DEF TypeOK
  <2>3. QED
    BY <2>2, <1>2 DEF BeatArrives
<1>3. CASE BeatWrites
  <2>1. ReportInv'
    BY <1>3 DEF BeatWrites, NoBeat
  <2>2. CASE beat.credential = row.credential /\ row.state \notin Retired
    <3>1. /\ row' = [row EXCEPT
                      !.state = IF @ \in {"disabled", "draining"} THEN @
                                ELSE beat.state,
                      !.playback = beat.playback, !.synced = beat.synced]
          /\ enroll' = enroll /\ patch' = patch
      BY <1>3, <2>2 DEF BeatWrites
    <3>2. /\ row'.state = IF row.state \in {"disabled", "draining"}
                          THEN row.state ELSE beat.state
          /\ row'.credential = row.credential
          /\ row'.enabled = row.enabled
      BY <3>1, <1>1 DEF Row
    <3>3. /\ row.credential # None
          /\ beat.state \in {"degraded", "online", "healthy"}
      BY <2>2, <1>3 DEF BeatWrites
    <3>4. QED
      BY <2>1, <2>2, <3>1, <3>2, <3>3
  <2>3. CASE ~(beat.credential = row.credential /\ row.state \notin Retired)
    BY <2>1, <2>3, <1>3 DEF BeatWrites
  <2>4. QED
    BY <2>2, <2>3
<1>4. CASE Silence
  BY <1>4 DEF Silence, handlers
<1>5. CASE ProbeAnswers
  <2>1. probe'.pc # "write"
    BY <1>5, <1>1 DEF ProbeAnswers, Probe
  <2>2. QED
    BY <2>1, <1>5 DEF ProbeAnswers
<1>6. CASE ProbeReads
  <2>1. probe'.pc = "write" => probe'.state \in {"online", "healthy"}
    BY <1>6, <1>1 DEF ProbeReads, Probe
  <2>2. QED
    BY <2>1, <1>6 DEF ProbeReads
<1>7. CASE ProbeWrites
  <2>1. ReportInv'
    BY <1>7, <1>1 DEF ProbeWrites, Probe
  <2>2. CASE row.state \in Retired
    BY <2>1, <2>2, <1>7 DEF ProbeWrites
  <2>3. CASE row.state \notin Retired
    <3>1. /\ row' = [row EXCEPT
                      !.ingress = probe.pc = "write",
                      !.state =
                        IF @ \in {"registered", "installing", "disabled",
                                  "draining"} THEN @
                        ELSE IF probe.pc = "write" THEN probe.state
                        ELSE "degraded"]
          /\ enroll' = enroll /\ patch' = patch
      BY <1>7, <2>3 DEF ProbeWrites
    <3>2. /\ row'.state \in {row.state, "online", "healthy", "degraded"}
          /\ row.state \in {"disabled", "draining"} => row'.state = row.state
      BY <3>1, <1>1 DEF Row
    <3>3. /\ row'.credential = row.credential
          /\ row'.enabled = row.enabled
          /\ row'.playback = row.playback
      BY <3>1, <1>1 DEF Row
    <3>4. QED
      BY <2>1, <2>3, <3>1, <3>2, <3>3
  <2>4. QED
    BY <2>2, <2>3
<1>8. QED
  BY <1>2, <1>3, <1>4, <1>5, <1>6, <1>7 DEF Report

(* A PATCH that nothing but reports interrupts writes back what is still   *)
(* true of who may be chosen.                                              *)
LEMMA PatchKeeps ==
  ASSUME TypeOK, NodeInv, PatchStep
  PROVE  NodeInv'
<1> USE NoneAssumption DEF NodeInv, RowInv, PatchInv, ReportInv, Passive, Out,
      OutIsDisabled, OneCommand, NoneOpen, Exists, Retired
<1>1. row \in Row /\ patch \in Patch
  BY DEF TypeOK
<1>2. \A n \in Edited : /\ n.state = row.state
                        /\ n.enabled = row.enabled
                        /\ n.playback = row.playback
  BY DEF Edited, SeenOf
<1>3. CASE PatchReads
  <2>1. CASE \E n \in Edited :
               patch' = [pc |-> "update", seen |-> n, want |-> "keep"]
    BY <2>1, <1>2, <1>3 DEF PatchReads
  <2>2. ASSUME NEW want \in {"on", "off"},
               patch' = [NoPatch EXCEPT !.pc = "schedule", !.want = want]
        PROVE  NodeInv'
    <3>1. patch'.pc = "schedule" /\ patch'.want = want
      BY <2>2 DEF NoPatch
    <3>2. QED
      BY <3>1, <1>3 DEF PatchReads
  <2>3. QED
    BY <2>1, <2>2, <1>3 DEF PatchReads
<1>4. CASE ScheduleReads
  <2>1. CASE row.state \in Retired
    BY <2>1, <1>4 DEF ScheduleReads, NoPatch
  <2>2. CASE row.state \notin Retired
    <3>1. patch' = [patch EXCEPT !.pc = "scheduled", !.seen = SeenOf(row)]
      BY <2>2, <1>4 DEF ScheduleReads
    <3>2. /\ patch'.pc = "scheduled"
          /\ patch'.want = patch.want
          /\ patch'.seen.state = row.state
      BY <3>1, <1>1 DEF Patch, SeenOf
    <3>3. QED
      BY <2>2, <3>2, <1>4 DEF ScheduleReads
  <2>3. QED
    BY <2>1, <2>2
<1>5. CASE ScheduleWrites
  <2>1. patch.want \in {"on", "off"} /\ row.state \notin Retired
    BY <1>5 DEF ScheduleWrites
  <2>2. Scheduled(patch.seen, patch.want) \notin Retired \cup {"absent"}
    BY <1>5 DEF ScheduleWrites, Scheduled
  <2>3. patch.want = "on" =>
          Scheduled(patch.seen, patch.want) \notin {"disabled", "draining"}
    BY DEF Scheduled
  <2>4. /\ row'.state = Scheduled(patch.seen, patch.want)
        /\ row'.enabled = (patch.want = "on")
        /\ row'.credential = row.credential
        /\ row'.playback = row.playback
    BY <1>5, <1>1 DEF ScheduleWrites, Row
  <2>5. patch'.pc = "reread"
    BY <1>5 DEF ScheduleWrites, NoPatch
  <2>6. QED
    BY <2>1, <2>2, <2>3, <2>4, <2>5, <1>5 DEF ScheduleWrites
<1>6. CASE PatchRereads
  <2>1. PICK n \in Edited :
          patch' = [patch EXCEPT !.pc = "update", !.seen = n]
    BY <1>6 DEF PatchRereads
  <2>2. patch'.pc = "update" /\ patch'.seen = n
    BY <2>1, <1>1 DEF Patch
  <2>3. QED
    BY <2>2, <1>2, <1>6 DEF PatchRereads
<1>7. CASE PatchWrites
  <2>1. patch'.pc = "idle"
    BY <1>7 DEF PatchWrites, NoPatch
  <2>2. CASE row' = row
    BY <2>1, <2>2, <1>7 DEF PatchWrites
  <2>3. CASE row' = [row EXCEPT
                       !.enabled = patch.seen.enabled,
                       !.state = patch.seen.state,
                       !.playback = patch.seen.playback,
                       !.ingress = patch.seen.ingress,
                       !.synced = patch.seen.synced]
    <3>1. /\ row'.state = patch.seen.state
          /\ row'.enabled = patch.seen.enabled
          /\ row'.credential = row.credential
          /\ row'.playback = patch.seen.playback
      BY <2>3, <1>1 DEF Row
    <3>2. QED
      BY <2>1, <3>1, <1>7 DEF PatchWrites
  <2>4. QED
    BY <2>2, <2>3, <1>7 DEF PatchWrites
<1>8. QED
  BY <1>3, <1>4, <1>5, <1>6, <1>7 DEF PatchStep

(* Every step keeps the invariant.                                         *)
LEMMA NodeNext ==
  ASSUME TypeOK, NodeInv, CarefulConsole, [Next]_vars
  PROVE  NodeInv'
<1>1. CASE Lifecycle \/ StreamEnds
  BY <1>1, LifecycleKeeps, LifecycleAlone DEF NodeInv
<1>2. CASE Report
  BY <1>2, ReportKeeps
<1>3. CASE PatchStep
  BY <1>3, PatchKeeps
<1>4. CASE Crash
  BY <1>4 DEF Crash, NodeInv, RowInv, PatchInv, ReportInv, Exists, NoneOpen,
    OutIsDisabled, OneCommand, NoPatch, NoBeat, NoProbe
<1>5. CASE UNCHANGED <<row, enroll, handlers>>
  BY <1>5 DEF NodeInv, RowInv, PatchInv, ReportInv, Exists, NoneOpen,
    OutIsDisabled, OneCommand, handlers
<1>6. QED
  BY <1>1, <1>2, <1>3, <1>4, <1>5 DEF Next, StreamBegins, vars

LEMMA InitNode == Init => NodeInv
BY DEF Init, NodeInv, RowInv, PatchInv, ReportInv, Exists, NoneOpen, Passive,
  Retired, OutIsDisabled, OneCommand, NoRow, NoPatch, NoBeat, NoProbe

(* Who may be chosen is under control: with a console that leaves a PATCH  *)
(* alone and drains no retired node, an eligible node has an identity, a   *)
(* node that was taken out is not enabled, and one installation command at *)
(* most is valid, none of a retired node.                                  *)
THEOREM ChosenOnPurpose ==
  CarefulConsole => (Spec => [](EligibleHasIdentity /\ OutIsDisabled
                                /\ OneCommand))
<1>1. NodeInv => EligibleHasIdentity /\ OutIsDisabled /\ OneCommand
  BY DEF NodeInv, RowInv, Passive, Retired, EligibleHasIdentity, Eligible,
    AllHealthy
<1>2. CarefulConsole /\ TypeOK /\ NodeInv /\ [Next]_vars => NodeInv'
  BY NodeNext
<1>3. SUFFICES ASSUME CarefulConsole
               PROVE  Spec => [](EligibleHasIdentity /\ OutIsDisabled
                                 /\ OneCommand)
  OBVIOUS
<1>4. TypeOK /\ NodeInv /\ [Next]_vars => NodeInv'
  BY <1>2, <1>3
<1>5. QED
  BY <1>1, <1>4, InitNode, TypeCorrect, PTL DEF Spec
==============================================================================
