-------------------------- MODULE IngressTransaction --------------------------
(***************************************************************************)
(* What the public ingress switcher promises, without phases, retries or   *)
(* failures: a change of entry is a transaction on the provider's record.  *)
(* While it is open the record may hold anything on the way; it ends       *)
(* committed, with the record at the new owner's address, or aborted, with *)
(* the record exactly as it was when it opened.                            *)
(***************************************************************************)
CONSTANTS Address, Node, NoNode, AddrOf

VARIABLES
  owner,    \* the node the entry belongs to, or NoNode
  records,  \* the addresses the provider holds for the name
  undo,     \* the addresses it held when the transaction was opened
  open      \* a transaction is open

tvars == <<owner, records, undo, open>>

TInit ==
  /\ owner \in Node \cup {NoNode}
  /\ records \in {{a} : a \in Address}
  /\ owner # NoNode => records = {AddrOf[owner]}
  /\ undo = records
  /\ open = FALSE

Open ==
  /\ ~open /\ open' = TRUE
  /\ UNCHANGED <<owner, records, undo>>

Write ==
  /\ open
  /\ records' \in (SUBSET Address) \ {{}}
  /\ UNCHANGED <<owner, undo, open>>

Commit ==
  /\ open /\ open' = FALSE
  /\ owner' \in Node
  /\ records = {AddrOf[owner']}
  /\ undo' = records
  /\ UNCHANGED records

Abort ==
  /\ open /\ open' = FALSE
  /\ records = undo
  /\ UNCHANGED <<owner, records, undo>>

TNext == Open \/ Write \/ Commit \/ Abort

TSpec == TInit /\ [][TNext]_tvars
==============================================================================
