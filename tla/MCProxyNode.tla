----------------------------- MODULE MCProxyNode -----------------------------
(***************************************************************************)
(* ProxyNode for TLC: the states in which the non-forced revoke is asked   *)
(* for.                                                                    *)
(***************************************************************************)
EXTENDS ProxyNode, TLC

CONSTANTS e1, e2

OneEnrollment  == {e1}
TwoEnrollments == {e1, e2}

(* The console offers the revoke of a node that is not being removed.      *)
Present == State \ (Retired \cup {"absent"})

Symmetry == Permutations(Enrollment)
==============================================================================
