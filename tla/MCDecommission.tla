--------------------------- MODULE MCDecommission ---------------------------
(***************************************************************************)
(* Decommission for TLC: two tokens, one for a job and one that replaces   *)
(* it or that signs a second job.                                          *)
(***************************************************************************)
EXTENDS Decommission, TLC

CONSTANTS t1, t2

TwoTokens == {t1, t2}

AllFaults == {"restart", "agent", "lost", "expire", "dns", "silence"}

Symmetry == Permutations(Token)
==============================================================================
