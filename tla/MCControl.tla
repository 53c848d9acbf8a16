------------------------------ MODULE MCControl ------------------------------
(***************************************************************************)
(* The control plane for TLC: the removal of a node (Decommission), the    *)
(* failover controller, the authentication of administrators, the          *)
(* challenges of the edges' certificates and the DNS policy runner.  They  *)
(* share no state; a behaviour is one of one of them, the others stand     *)
(* still in one of their initial states.                                   *)
(***************************************************************************)
EXTENDS MCDecommission, FailoverController, AdminAuth, EdgeCertificate, PolicyRunner

CONSTANTS r1, r2, c1, c2

VARIABLE part    \* the component that moves

controlVars == <<part, vars, failoverVars, authVars, certVars, runnerVars>>

MCSamples ==
    {UnknownTraffic, [quality |-> "known", cycle |-> 0, used |-> 90, threshold |-> 0],
     [quality |-> "known", cycle |-> 1, used |-> 10, threshold |-> 0],
     [quality |-> "known", cycle |-> 1, used |-> 10, threshold |-> 5]}
MCScopes == {{"probe"}, {"dns"}}
MCRunnerScopes == {{"failing", "fault"}, {"failing", "operator"}, {"traffic", "fault"}}
MCAuthScopes == {{"token"}, {"disable"}, {"wrong token", "emergency"}}
OneOf(S) == CHOOSE x \in S : TRUE

ControlInit ==
    /\ part \in {"removal", "failover", "auth", "certificate", "policy"}
    /\ Init /\ FailoverInit /\ AuthInit /\ CertInit /\ RunnerInit
    /\ part # "failover" => foScope = OneOf(Scopes)
    /\ part # "auth" => auScope = OneOf(AuthScopes)
    /\ part # "policy" => prScope = OneOf(RunnerScopes) /\ prRecord = "nosla"

ControlNext ==
    /\ UNCHANGED part
    /\ \/ part = "removal" /\ Next
          /\ UNCHANGED <<failoverVars, authVars, certVars, runnerVars>>
       \/ part = "failover" /\ FailoverNext
          /\ UNCHANGED <<vars, authVars, certVars, runnerVars>>
       \/ part = "auth" /\ AuthNext
          /\ UNCHANGED <<vars, failoverVars, certVars, runnerVars>>
       \/ part = "certificate" /\ CertNext
          /\ UNCHANGED <<vars, failoverVars, authVars, runnerVars>>
       \/ part = "policy" /\ RunnerNext
          /\ UNCHANGED <<vars, failoverVars, authVars, certVars>>

ControlSpec == ControlInit /\ [][ControlNext]_controlVars

ControlSymmetry == Symmetry \cup Permutations(AuthRequests) \cup Permutations(CertNodes)
==============================================================================
