----------------------------- MODULE NodeRemoval -----------------------------
(***************************************************************************)
(* What removing a node promises, without jobs, tokens or messages.  An    *)
(* edge is only cleaned when its removal was ordered.  Its DNS record goes *)
(* when it has been cleaned, or when the controller has given up on it and *)
(* taken its identity away; and when its removal is finished in the first  *)
(* way, nothing is left of it.                                             *)
(***************************************************************************)
VARIABLES
  ordered,   \* the removal was asked for
  identity,  \* the controller knows the edge by its credential
  cleaned,   \* the edge has removed what it ran
  record     \* the DNS record of the node exists

nvars == <<ordered, identity, cleaned, record>>

NInit ==
  /\ ordered = FALSE /\ identity = TRUE
  /\ cleaned = FALSE /\ record = TRUE

Order == ordered' = TRUE /\ UNCHANGED <<identity, cleaned, record>>

(* The edge is not heard of: it is removed without its help.               *)
Abandon ==
  /\ ordered' = TRUE /\ identity' = FALSE
  /\ UNCHANGED <<cleaned, record>>

Clean ==
  /\ ordered /\ cleaned' = TRUE
  /\ UNCHANGED <<ordered, identity, record>>

DeleteRecord ==
  /\ cleaned \/ ~identity
  /\ record' = FALSE
  /\ UNCHANGED <<ordered, identity, cleaned>>

Finish ==
  /\ cleaned /\ ~record
  /\ identity' = FALSE
  /\ UNCHANGED <<ordered, cleaned, record>>

NNext == Order \/ Abandon \/ Clean \/ DeleteRecord \/ Finish

NSpec == NInit /\ [][NNext]_nvars
==============================================================================
