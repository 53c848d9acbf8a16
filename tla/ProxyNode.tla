------------------------------ MODULE ProxyNode ------------------------------
(***************************************************************************)
(* The life of one proxy node in the controller's registry: enrolment,     *)
(* heartbeats, the ingress probe, the administrator's PATCH, drain, revoke *)
(* and the two ends of a decommission.  Operations on different nodes only *)
(* share the priority order, which is not part of this module.             *)
(*                                                                         *)
(* The database runs one statement or transaction at a time, so each is    *)
(* one step here.  A handler that reads, decides and writes in separate    *)
(* statements is several steps: patch, beat and probe hold what such a     *)
(* handler has read.  Other handlers run in between.                       *)
(***************************************************************************)
EXTENDS Naturals

CONSTANTS
  Enrollment,   \* enrollments; each issues one credential, named after it
  None,         \* no credential: credential_hash is the empty string
  MaxStreams,   \* how many streams may be counted (bounds the model)
  Overlap,      \* the operations that may run in the middle of a PATCH
  DrainedFrom,  \* states in which the non-forced revoke is asked for
  Crashes       \* whether the controller may crash

State == {"absent", "registered", "pending", "installing", "online",
          "healthy", "degraded", "disabled", "draining", "revoked",
          "decommissioning", "removed"}

ASSUME NoneAssumption == None \notin Enrollment
ASSUME StreamsAssumption == MaxStreams \in Nat
ASSUME UseAssumption ==
  /\ Overlap \subseteq {"lifecycle", "report"}
  /\ DrainedFrom \subseteq State
  /\ Crashes \in BOOLEAN

VARIABLES
  row,        \* the row of proxy_nodes
  seenAt,     \* last_heartbeat_at, as the scheduler sees it
  enroll,     \* proxy_node_enrollments
  installed,  \* credentials that installed agents hold
  cleaning,   \* an agent has been sent a signed cleanup job
  active,     \* proxy_node_connections.active
  streams,    \* streams the process really serves through the node
  patch,      \* the PATCH handler
  beat,       \* the heartbeat handler
  probe       \* the ingress probe

handlers == <<patch, beat, probe>>
counts   == <<active, streams>>
agents   == <<installed, cleaning>>
vars     == <<row, seenAt, enroll, agents, counts, handlers>>

------------------------------------------------------------------------------
(* Types *)

Row == [state : State, enabled : BOOLEAN, credential : Enrollment \cup {None},
        playback : BOOLEAN, ingress : BOOLEAN, synced : BOOLEAN,
        finalize : BOOLEAN]

NoRow == [state |-> "absent", enabled |-> FALSE, credential |-> None,
          playback |-> FALSE, ingress |-> FALSE, synced |-> FALSE,
          finalize |-> FALSE]

(* The part of a row that UpdateProxyNode writes back.                     *)
Seen == [state : State, enabled : BOOLEAN, playback : BOOLEAN,
         ingress : BOOLEAN, synced : BOOLEAN]

SeenOf(n) ==
  [state |-> n.state, enabled |-> n.enabled, playback |-> n.playback,
   ingress |-> n.ingress, synced |-> n.synced]

Patch == [pc : {"idle", "schedule", "scheduled", "reread", "update"},
          seen : Seen, want : {"keep", "on", "off"}]

Beat == [pc : {"idle", "write"}, credential : Enrollment \cup {None},
         playback : BOOLEAN, synced : BOOLEAN, state : State]

Probe == [pc : {"idle", "down", "read", "write"}, good : 0..2, bad : 0..2,
          state : State]

NoPatch == [pc |-> "idle", seen |-> SeenOf(NoRow), want |-> "keep"]
NoBeat  == [pc |-> "idle", credential |-> None, playback |-> FALSE,
            synced |-> FALSE, state |-> "absent"]
NoProbe == [pc |-> "idle", good |-> 0, bad |-> 0, state |-> "absent"]

TypeOK ==
  /\ row \in Row
  /\ seenAt \in {"never", "fresh", "stale"}
  /\ enroll \in [Enrollment -> {"unused", "open", "consumed", "closed"}]
  /\ installed \subseteq Enrollment
  /\ cleaning \in BOOLEAN
  /\ active \in 0..MaxStreams
  /\ streams \in 0..MaxStreams
  /\ patch \in Patch
  /\ beat \in Beat
  /\ probe \in Probe

------------------------------------------------------------------------------
(* Helpers *)

Retired == {"revoked", "decommissioning", "removed"}
Rejecting == Retired \cup {"draining", "disabled"}

Exists == row.state # "absent"

(* An operation of kind k may run now.                                     *)
MayRun(k) == patch.pc = "idle" \/ k \in Overlap

AllHealthy(n) == n.playback /\ n.ingress /\ n.synced

(* nodes.Eligible, without the quota and the form of the address.          *)
Eligible ==
  row.enabled /\ row.state = "healthy" /\ seenAt = "fresh" /\ AllHealthy(row)

(* Every enrollment of the node that could still be used is revoked: from  *)
(* then on it is denied, as it is when it has expired.                     *)
Closed == [e \in Enrollment |-> IF enroll[e] = "open" THEN "closed"
                                ELSE enroll[e]]

Retire(state) ==
  /\ row' = [row EXCEPT !.state = state, !.enabled = FALSE,
                        !.credential = None]
  /\ enroll' = Closed

------------------------------------------------------------------------------
(* Enrolment *)

(* createProxyNode: the row, its first enrollment and, for automatic DNS,  *)
(* the state pending.                                                      *)
Create ==
  /\ ~Exists
  /\ \E e \in Enrollment, s \in {"registered", "pending"} :
       /\ enroll[e] = "unused"
       /\ enroll' = [enroll EXCEPT ![e] = "open"]
       /\ row' = [NoRow EXCEPT !.state = s]
  /\ UNCHANGED <<seenAt, agents, counts, handlers>>

(* Mutant: a revoked node keeps what its last agent reported.              *)
RegenerateKeepsHealth ==
  /\ MayRun("lifecycle")
  /\ row.state \in {"registered", "revoked", "installing", "healthy",
                    "degraded"}
  /\ \E e \in Enrollment :
       /\ enroll[e] = "unused"
       /\ enroll' = [Closed EXCEPT ![e] = "open"]
  /\ row' = [row EXCEPT !.state = IF @ = "revoked" THEN "registered" ELSE @]
  /\ UNCHANGED <<seenAt, agents, counts, handlers>>

(* RegenerateProxyNodeEnrollment                                           *)
Regenerate ==
  /\ MayRun("lifecycle")
  /\ row.state \in {"registered", "revoked", "installing", "healthy",
                    "degraded"}
  /\ \E e \in Enrollment :
       /\ enroll[e] = "unused"
       /\ enroll' = [Closed EXCEPT ![e] = "open"]
  /\ IF row.state = "revoked"
     THEN /\ row' = [row EXCEPT !.state = "registered", !.credential = None,
                                !.playback = FALSE, !.synced = FALSE]
          /\ seenAt' = "never"
     ELSE UNCHANGED <<row, seenAt>>
  /\ UNCHANGED <<agents, counts, handlers>>

(* The fifteen minutes of an enrollment pass.                              *)
Expire ==
  /\ \E e \in Enrollment :
       enroll[e] = "open" /\ enroll' = [enroll EXCEPT ![e] = "closed"]
  /\ UNCHANGED <<row, seenAt, agents, counts, handlers>>

(* Mutant: consumed_at is not looked at.                                   *)
CompleteEnrollmentTwice ==
  /\ MayRun("lifecycle")
  /\ \E e \in Enrollment :
       /\ enroll[e] \in {"open", "consumed"}
       /\ enroll' = [enroll EXCEPT ![e] = "consumed"]
       /\ row' = [row EXCEPT !.state = "installing", !.credential = e]
       /\ installed' = installed \cup {e}
  /\ UNCHANGED <<seenAt, cleaning, counts, handlers>>

(* completeEnrollment: the state of the node is not looked at.  The answer *)
(* may be lost, and then no agent holds the credential.                    *)
CompleteEnrollment ==
  /\ MayRun("lifecycle")
  /\ \E e \in Enrollment, moved \in BOOLEAN :
       /\ enroll[e] = "open"
       /\ enroll' = [enroll EXCEPT ![e] = "consumed"]
       /\ row' = [row EXCEPT !.state = "installing", !.credential = e,
                             !.ingress = @ /\ ~moved]
       /\ installed' \in {installed, installed \cup {e}}
  /\ UNCHANGED <<seenAt, cleaning, counts, handlers>>

------------------------------------------------------------------------------
(* Heartbeats and the ingress probe *)

(* The agent tries the playback only when its configuration is in sync.    *)
(* HeartbeatProxyNodeWithCapability, first statement: the state to write   *)
(* is chosen from the report and from ingress_healthy as it is now.        *)
BeatArrives ==
  /\ beat.pc = "idle"
  /\ \E c \in installed, synced, playback \in BOOLEAN :
       /\ playback => synced
       /\ beat' = [pc |-> "write", credential |-> c, playback |-> playback,
                   synced |-> synced,
                   state |-> IF ~playback THEN "degraded"
                             ELSE IF c = row.credential /\ ~row.ingress
                                     /\ row.state # "revoked" THEN "online"
                             ELSE "healthy"]
  /\ UNCHANGED <<row, seenAt, enroll, agents, counts, patch, probe>>

(* Second statement: the update, or node_credential_denied.                *)
BeatWrites ==
  /\ MayRun("report")
  /\ beat.pc = "write"
  /\ beat' = NoBeat
  /\ IF beat.credential = row.credential /\ row.state \notin Retired
     THEN /\ row' = [row EXCEPT
                       !.state = IF @ \in {"disabled", "draining"} THEN @
                                 ELSE beat.state,
                       !.playback = beat.playback, !.synced = beat.synced]
          /\ seenAt' = "fresh"
     ELSE UNCHANGED <<row, seenAt>>
  /\ UNCHANGED <<enroll, agents, counts, patch, probe>>

(* Five minutes pass without a heartbeat.                                  *)
Silence ==
  /\ seenAt = "fresh"
  /\ seenAt' = "stale"
  /\ UNCHANGED <<row, enroll, agents, counts, handlers>>

(* startProxyNodeIngressProbe: one answer of /health; the second failure   *)
(* or success in a row is written.                                         *)
ProbeAnswers ==
  /\ probe.pc = "idle"
  /\ row.state \notin {"absent", "registered", "installing", "revoked"}
  /\ \/ /\ probe.bad = 0
        /\ probe' = [probe EXCEPT !.bad = 1, !.good = 0]
     \/ /\ probe.bad > 0
        /\ probe' = [probe EXCEPT !.pc = "down", !.bad = 2, !.good = 0]
     \/ /\ probe.good = 0
        /\ probe' = [probe EXCEPT !.good = 1, !.bad = 0]
     \/ /\ probe.good > 0
        /\ probe' = [probe EXCEPT !.pc = "read", !.good = 2, !.bad = 0]
  /\ UNCHANGED <<row, seenAt, enroll, agents, counts, patch, beat>>

(* SetProxyNodeIngressHealth(healthy), first statement.                    *)
ProbeReads ==
  /\ probe.pc = "read"
  /\ probe' = IF row.state = "revoked" THEN [probe EXCEPT !.pc = "idle"]
              ELSE [probe EXCEPT
                      !.pc = "write",
                      !.state = IF row.playback /\ row.synced THEN "healthy"
                                ELSE "online"]
  /\ UNCHANGED <<row, seenAt, enroll, agents, counts, patch, beat>>

(* SetProxyNodeIngressHealth: the update.                                  *)
ProbeWrites ==
  /\ MayRun("report")
  /\ probe.pc \in {"down", "write"}
  /\ probe' = [probe EXCEPT !.pc = "idle", !.state = "absent"]
  /\ IF row.state \in Retired THEN UNCHANGED row
     ELSE row' = [row EXCEPT
                    !.ingress = probe.pc = "write",
                    !.state =
                      IF @ \in {"registered", "installing", "disabled",
                                "draining"} THEN @
                      ELSE IF probe.pc = "write" THEN probe.state
                      ELSE "degraded"]
  /\ UNCHANGED <<seenAt, enroll, agents, counts, patch, beat>>

------------------------------------------------------------------------------
(* The administrator's PATCH of a node *)

(* What the handler is about to write: the row as it is now, and not       *)
(* ingress_healthy when the body moves the node to another address.        *)
Edited == {SeenOf(row), [SeenOf(row) EXCEPT !.ingress = FALSE]}

(* The handler reads the row; the body may ask for a change of enabled.    *)
PatchReads ==
  /\ patch.pc = "idle"
  /\ Exists
  /\ \/ \E n \in Edited :
          patch' = [pc |-> "update", seen |-> n, want |-> "keep"]
     \/ \E want \in {"on", "off"} :
          patch' = [NoPatch EXCEPT !.pc = "schedule", !.want = want]
  /\ UNCHANGED <<row, seenAt, enroll, agents, counts, beat, probe>>

(* SetProxyNodeScheduling reads the row and refuses a retired node.        *)
ScheduleReads ==
  /\ patch.pc = "schedule"
  /\ patch' = IF row.state \in Retired THEN NoPatch
              ELSE [patch EXCEPT !.pc = "scheduled", !.seen = SeenOf(row)]
  /\ UNCHANGED <<row, seenAt, enroll, agents, counts, beat, probe>>

(* The state SetProxyNodeScheduling writes, from the row it has read.      *)
Scheduled(n, want) ==
  CASE want = "off" -> IF n.state = "draining" THEN "draining" ELSE "disabled"
    [] want = "on" /\ n.state \notin {"disabled", "draining"} -> n.state
    [] OTHER -> IF AllHealthy(n) THEN "healthy" ELSE "registered"

ScheduleWrites ==
  /\ patch.pc = "scheduled"
  /\ patch' = [NoPatch EXCEPT !.pc = "reread"]
  /\ row' = [row EXCEPT !.enabled = patch.want = "on",
                        !.state = Scheduled(patch.seen, patch.want)]
  /\ UNCHANGED <<seenAt, enroll, agents, counts, beat, probe>>

(* The handler reads the row again.                                        *)
PatchRereads ==
  /\ patch.pc = "reread"
  /\ \E n \in Edited : patch' = [patch EXCEPT !.pc = "update", !.seen = n]
  /\ UNCHANGED <<row, seenAt, enroll, agents, counts, beat, probe>>

(* UpdateProxyNodeWithPriority writes every field that was read.  A body   *)
(* with a priority is refused when the node is revoked or removed by now.  *)
PatchWrites ==
  /\ patch.pc = "update"
  /\ patch' = NoPatch
  /\ \/ row.state \in {"revoked", "removed"} /\ UNCHANGED row
     \/ row' = [row EXCEPT
                  !.enabled = patch.seen.enabled,
                  !.state = patch.seen.state,
                  !.playback = patch.seen.playback,
                  !.ingress = patch.seen.ingress,
                  !.synced = patch.seen.synced]
  /\ UNCHANGED <<seenAt, enroll, agents, counts, beat, probe>>

------------------------------------------------------------------------------
(* Streams, drain, revoke, decommission *)

(* BeginProxyNodeConnection                                                *)
StreamBegins ==
  /\ Exists
  /\ row.state \notin Rejecting
  /\ active < MaxStreams
  /\ active' = active + 1
  /\ streams' = streams + 1
  /\ UNCHANGED <<row, seenAt, enroll, agents, handlers>>

(* Mutant: the count is read before it is decremented.                     *)
StreamEndsEarlyRead ==
  /\ MayRun("lifecycle")
  /\ streams > 0
  /\ streams' = streams - 1
  /\ active' = IF active > 0 THEN active - 1 ELSE 0
  /\ IF active = 0 /\ row.state = "draining" /\ row.finalize
     THEN Retire("revoked")
     ELSE UNCHANGED <<row, enroll>>
  /\ UNCHANGED <<seenAt, agents, handlers>>

(* EndProxyNodeConnection: the last stream finishes a revoking drain.      *)
StreamEnds ==
  /\ MayRun("lifecycle")
  /\ streams > 0
  /\ streams' = streams - 1
  /\ active' = IF active > 0 THEN active - 1 ELSE 0
  /\ IF active' = 0 /\ row.state = "draining" /\ row.finalize
     THEN Retire("revoked")
     ELSE UNCHANGED <<row, enroll>>
  /\ UNCHANGED <<seenAt, agents, handlers>>

(* BeginProxyNodeDrain                                                     *)
BeginDrain ==
  /\ MayRun("lifecycle")
  /\ Exists
  /\ row.state \notin Retired
  /\ row' = [row EXCEPT !.enabled = FALSE, !.state = "draining",
                        !.finalize = FALSE]
  /\ UNCHANGED <<seenAt, enroll, agents, counts, handlers>>

(* RevokeProxyNode without force: DrainProxyNode.                          *)
Drain ==
  /\ MayRun("lifecycle")
  /\ Exists
  /\ row.state # "revoked"
  /\ row.state \in DrainedFrom
  /\ IF active = 0
     THEN /\ row' = [row EXCEPT !.state = "revoked", !.enabled = FALSE,
                                !.credential = None, !.finalize = TRUE]
          /\ enroll' = Closed
     ELSE /\ row' = [row EXCEPT !.state = "draining", !.enabled = FALSE,
                                !.finalize = TRUE]
          /\ UNCHANGED enroll
  /\ UNCHANGED <<seenAt, agents, counts, handlers>>

(* RevokeProxyNode with force.                                             *)
ForceRevoke ==
  /\ MayRun("lifecycle")
  /\ Exists
  /\ Retire("revoked")
  /\ UNCHANGED <<seenAt, agents, counts, handlers>>

(* DecommissionProxyNode, what it does to the node: one that was heard of  *)
(* lately keeps its credential until its cleanup is done.                  *)
Decommission ==
  /\ MayRun("lifecycle")
  /\ Exists
  /\ row.state # "removed"
  /\ IF seenAt = "fresh"
     THEN /\ row' = [row EXCEPT !.state = "decommissioning",
                                !.enabled = FALSE]
          /\ enroll' = Closed
          /\ cleaning' = TRUE
     ELSE Retire("removed") /\ UNCHANGED cleaning
  /\ UNCHANGED <<seenAt, installed, counts, handlers>>

(* CompleteProxyNodeDecommission, what it does to the node, whatever its   *)
(* state is by then.                                                       *)
CompleteDecommission ==
  /\ MayRun("lifecycle")
  /\ cleaning
  /\ cleaning' = FALSE
  /\ Retire("removed")
  /\ UNCHANGED <<seenAt, installed, counts, handlers>>

(* The controller stops and starts again: handlers, counters of the probe  *)
(* and streams are gone, the tables are not.                               *)
Crash ==
  /\ Crashes
  /\ streams' = 0
  /\ patch' = NoPatch
  /\ beat' = NoBeat
  /\ probe' = NoProbe
  /\ UNCHANGED <<row, seenAt, enroll, agents, active>>

------------------------------------------------------------------------------
(* Specification *)

Init ==
  /\ row = NoRow
  /\ seenAt = "never"
  /\ enroll = [e \in Enrollment |-> "unused"]
  /\ installed = {}
  /\ cleaning = FALSE
  /\ active = 0
  /\ streams = 0
  /\ patch = NoPatch
  /\ beat = NoBeat
  /\ probe = NoProbe

Lifecycle ==
  \/ Create \/ Regenerate \/ Expire \/ CompleteEnrollment
  \/ BeginDrain \/ Drain \/ ForceRevoke \/ Decommission
  \/ CompleteDecommission

Report == BeatArrives \/ BeatWrites \/ Silence
          \/ ProbeAnswers \/ ProbeReads \/ ProbeWrites

PatchStep == PatchReads \/ ScheduleReads \/ ScheduleWrites \/ PatchRereads
             \/ PatchWrites

Next == Lifecycle \/ Report \/ PatchStep \/ StreamBegins \/ StreamEnds \/ Crash

Spec == Init /\ [][Next]_vars

(* A handler that has started finishes, and a client ends its stream.      *)
(* Nothing in the code delays the end of a stream: it is strong fairness   *)
(* only because a run without overlaps keeps it out of a PATCH.            *)
FairSpec ==
  /\ Spec
  /\ WF_vars(ScheduleReads \/ ScheduleWrites \/ PatchRereads \/ PatchWrites)
  /\ SF_vars(StreamEnds)
------------------------------------------------------------------------------
(* Properties *)

(* A node the scheduler may choose has an identity: revoking or removing a *)
(* node takes it out until it has been enrolled again.                     *)
EligibleHasIdentity == Eligible => row.credential # None

(* Drained, disabled and retired nodes are not enabled, so that no report  *)
(* of the agent or of the probe brings them back.                          *)
OutIsDisabled ==
  row.state \in {"disabled", "draining"} \cup Retired => ~row.enabled

(* There is never more than one valid installation command for a node, and *)
(* none for a node that was revoked or removed.                            *)
OneCommand ==
  /\ \A e, f \in Enrollment :
       enroll[e] = "open" /\ enroll[f] = "open" => e = f
  /\ row.state \in Retired => \A e \in Enrollment : enroll[e] # "open"

(* Every stream is counted, also after a restart, so that a revoking drain *)
(* waits for the last one.                                                 *)
StreamsCounted == streams <= active

(* A credential that is no longer the node's never becomes its credential  *)
(* again, and neither does one issued by an enrollment that was revoked.   *)
NoCredentialRevival ==
  [][\A e \in Enrollment :
       enroll[e] \in {"consumed", "closed"} /\ row.credential # e
         => row'.credential # e]_vars

(* A drain that is to revoke the node ends, with a revoked node unless an  *)
(* administrator has decided otherwise.                                    *)
FinalDrain == row.state = "draining" /\ row.finalize
DrainFinishes == FinalDrain ~> ~FinalDrain
==============================================================================
