---------------------------- MODULE MCPublication ----------------------------
(***************************************************************************)
(* Publication for TLC: one server with two sets of lines.                 *)
(***************************************************************************)
EXTENDS Publication

CONSTANTS l1, l2

TwoLines == {l1, l2}
==============================================================================
