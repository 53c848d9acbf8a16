----------------------------- MODULE MCLifecycle -----------------------------
(***************************************************************************)
(* The life of a node for TLC: the accounting of its traffic (EdgeUsage),  *)
(* the drain of its streams (ProxyNode) and its removal (Decommission).  A *)
(* behaviour is one of one of them, the others stand still in their        *)
(* initial states, and fairness is asked of the one that moves.            *)
(***************************************************************************)
EXTENDS EdgeUsage

CONSTANTS
    r1, r2,
    e1, Enrollment, MaxStreams, DrainedFrom, Crashes,
    t1, t2, MaxJobs, Token, Faults,
    None, Overlap

VARIABLES
    row, seenAt, enroll, installed, cleaning, active, streams, patch, beat, probe,
    node, heard, record, jobs, memory, expired, issued, nonces,
    agent, helper, cleaned, handler,
    part      \* the component that moves

Node == INSTANCE ProxyNode
Job == INSTANCE Decommission

nodeVars == <<row, seenAt, enroll, installed, cleaning, active, streams,
              patch, beat, probe>>
jobVars == <<node, heard, record, jobs, memory, expired, issued, nonces,
             agent, helper, cleaned, handler>>

lifeVars == <<part, vars, nodeVars, jobVars>>

TwoRequests == {r1, r2}
OneEnrollment == {e1}
TwoTokens == {t1, t2}

(* The console offers the revoke of a node that is not being removed.      *)
Present == {"registered", "pending", "installing", "online", "healthy",
            "degraded", "disabled", "draining"}

LifeInit == part \in {"usage", "drain", "removal"} /\ Init /\ Node!Init /\ Job!Init

LifeNext ==
    /\ UNCHANGED part
    /\ \/ part = "usage" /\ Next /\ UNCHANGED <<nodeVars, jobVars>>
       \/ part = "drain" /\ Node!Next /\ UNCHANGED <<vars, jobVars>>
       \/ part = "removal" /\ Job!Next /\ UNCHANGED <<vars, nodeVars>>

Counting == part = "usage"
Draining == part = "drain"
Removing == part = "removal"

(* The fairness of EdgeUsage, ProxyNode and Decommission (FairSpec there). *)
LifeFairSpec ==
    /\ LifeInit /\ [][LifeNext]_lifeVars
    /\ WF_vars(Counting /\ Sends) /\ WF_vars(Counting /\ Sleeps)
    /\ WF_vars(Counting /\ Finishes)
    /\ \A r \in Request : WF_vars(Counting /\ Serves(r))
    /\ WF_nodeVars(Draining /\ (\/ Node!ScheduleReads \/ Node!ScheduleWrites
                                \/ Node!PatchRereads \/ Node!PatchWrites))
    /\ SF_nodeVars(Draining /\ Node!StreamEnds)
    /\ WF_jobVars(Removing /\ Job!Controller)
    /\ WF_jobVars(Removing /\ Job!Agent)
    /\ WF_jobVars(Removing /\ Job!Helper)
    /\ \A j \in 1..MaxJobs : WF_jobVars(Removing /\ Job!Retry(j))

(* ProxyNode!DrainFinishes: a drain that is to revoke the node ends.       *)
DrainFinishes == Node!DrainFinishes

(* Decommission!RemovalEnds: a removal that has begun ends.                *)
RemovalEnds == Job!RemovalEnds
==============================================================================
