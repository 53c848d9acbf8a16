--------------------------- MODULE SpaceshipRecord ---------------------------
(***************************************************************************)
(* The A records of one managed name at the DNS provider, as               *)
(* internal/spaceship/client.go sees them: List, PUT of a record, DELETE   *)
(* of a record.  ReplaceExactA is not one call: it lists, puts the new     *)
(* address and, when the provider kept the old one beside it, deletes the  *)
(* old one.  A module that composes it drives the three calls one by one,  *)
(* so that other writers and crashes fall between them.                    *)
(***************************************************************************)
EXTENDS Naturals

CONSTANTS
  Address,   \* the IPv4 addresses the record may hold
  NoAddr,    \* the empty string: no address known
  PutKinds   \* what a PUT does at the provider: "add" leaves the other
             \* addresses of the name in place, "replace" drops them all

ASSUME NoAddrAssumption == NoAddr \notin Address
ASSUME PutKindsAssumption == PutKinds \subseteq {"add", "replace"}

VARIABLE dns \* the addresses the provider serves for the name

RecordTypeOK == dns \in SUBSET Address

(* ExactRecord: exactly one A record matches, and it is a.                 *)
ExactRecord(a) == dns = {a}

(* A name with no record or with two records fails closed:                 *)
(* managed_record_match_not_unique.                                        *)
NotUnique == \A a \in Address : ~ExactRecord(a)

(* The PUT of ReplaceExactA takes effect.                                  *)
PutA(to) ==
  \/ "add" \in PutKinds     /\ dns' = dns \cup {to}
  \/ "replace" \in PutKinds /\ dns' = {to}

(* The read after the PUT accepts the target, alone or beside the stale    *)
(* address, and nothing else.                                              *)
PutVerified(from, to) == to \in dns /\ dns \subseteq {from, to}

(* The DELETE of the stale address takes effect.                           *)
DeleteA(from) == dns' = dns \ {from}
==============================================================================
