--------------------------- MODULE MCPublicIngress ---------------------------
(***************************************************************************)
(* Instances of PublicIngress for TLC: two or three nodes, their addresses *)
(* and, in one configuration, an address of no node.                       *)
(***************************************************************************)
EXTENDS PublicIngress, TLC

CONSTANTS n1, n2, n3, a1, a2, a3

TwoNodes == {n1, n2}
TwoAddresses == {a1, a2}
AddressesOfTwo == n1 :> a1 @@ n2 :> a2
RankOfTwo == n1 :> 1 @@ n2 :> 2

ThreeNodes == {n1, n2, n3}
ThreeAddresses == {a1, a2, a3}
AddressesOfThree == AddressesOfTwo @@ n3 :> a3
RankOfThree == RankOfTwo @@ n3 :> 3

(* Health flags: eligible or not, and over the traffic quota; eligible but *)
(* failing the media probe.                                                *)
QuotaHealth == {{}, {"ineligible"}, {"over_quota"}}
ProbedHealth == {{}, {"probe_failed"}}
PlainHealth == {{}, {"ineligible"}}
==============================================================================
