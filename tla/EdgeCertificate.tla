--------------------------- MODULE EdgeCertificate ---------------------------
(***************************************************************************)
(* The DNS-01 challenges of the edges' business certificates.  Every edge  *)
(* runs certbot with a hook (admin/edgecert/acme_hook.py) that asks the    *)
(* controller to present one TXT value and later to clean it up; the       *)
(* controller holds one lease for all edges (storage/edge_acme_lease.go)   *)
(* and changes the TXT records in several calls to the provider            *)
(* (spaceship/client.go).                                                  *)
(*                                                                         *)
(* The hook waits for the answer to each of its requests, so that acAt[n]  *)
(* is the place of edge n in the hook and, while a request is open, in its *)
(* handler.  When the hook dies or gives up waiting, the context of the    *)
(* handler is cancelled and nothing is left of it but the provider call    *)
(* that is in flight: it may still take effect.                            *)
(***************************************************************************)
EXTENDS Naturals

CONSTANTS
  CertNodes,      \* the edges that hold a valid credential
  OrdersPerNode,  \* bound: the values certbot may draw on one edge
  TxtPuts         \* what a PUT does to the other values: "add", "replace"

ASSUME CertNodesAssumption == "" \notin CertNodes  \* an edge has a name
ASSUME OrdersAssumption == OrdersPerNode \in Nat \ {0}
ASSUME TxtPutsAssumption == TxtPuts \subseteq {"add", "replace"}

VARIABLES
  acLease,    \* the row of edge_acme_lease: whose challenge may be served
  acTxt,      \* the TXT values the provider serves for the challenge name
  acPending,  \* acme-pending.json of each edge
  acAt,       \* where the hook, or the handler of its request, is
  acSeen,     \* the other TXT values the handler found before its change
  acFlight    \* the provider calls that have not taken effect yet

certVars == <<acLease, acTxt, acPending, acAt, acSeen, acFlight>>

(* A value of certbot is new to the world: no two edges draw the same.     *)
Challenge == [node : CertNodes, order : 1..OrdersPerNode]
NoChallenge == [node |-> "", order |-> 0]

(* The value of another ACME client for the same name, or of an operator.  *)
Foreign == [node |-> "", order |-> 1]

CertInit ==
    /\ acLease = NoChallenge
    /\ acTxt = {}
    /\ acPending = [n \in CertNodes |-> NoChallenge]
    /\ acAt = [n \in CertNodes |-> "idle"]
    /\ acSeen = [n \in CertNodes |-> {}]
    /\ acFlight = {}

At(n, place) == acAt[n] = place
Presenting(n) == acAt[n] \in {"orders", "lists", "puts", "verifies"}
CleaningUp(n) == acAt[n] \in {"clearing", "deletes", "checks", "waits"}
MovesTo(n, place) == acAt' = [acAt EXCEPT ![n] = place]
ProviderCall(op, n) == [op |-> op, value |-> acPending[n]]

(* No trace of an earlier order has the value of a new one.                *)
NewToTheWorld(v) ==
    /\ acLease # v /\ v \notin acTxt
    /\ \A f \in acFlight : f.value # v

(* The hook: a new order begins when nothing is pending, and the file is   *)
(* written before the first request.                                       *)
OrdersCertificate(n) ==
    /\ At(n, "idle") /\ acPending[n] = NoChallenge
    /\ \E v \in Challenge :
          /\ v.node = n /\ NewToTheWorld(v)
          /\ acPending' = [acPending EXCEPT ![n] = v]
    /\ MovesTo(n, "orders")
    /\ UNCHANGED <<acLease, acTxt, acSeen, acFlight>>

(* A lease has no end: only the challenge that holds it may renew it.      *)
LeaseFree(n) == acLease \in {NoChallenge, acPending[n]}
HoldsLease(n) == acLease = acPending[n]

AcquiresLease(n) ==
    /\ At(n, "orders") /\ LeaseFree(n)
    /\ acLease' = acPending[n]
    /\ MovesTo(n, "lists")
    /\ UNCHANGED <<acTxt, acPending, acSeen, acFlight>>

(* PresentStreamACME, up to the PUT: a value that is there is kept, any    *)
(* other value refuses.                                                    *)
ListsBeforePut(n) ==
    /\ At(n, "lists")
    /\ acSeen' = [acSeen EXCEPT ![n] = acTxt \ {acPending[n]}]
    /\ IF acTxt = {}
       THEN MovesTo(n, "puts") /\ acFlight' = acFlight \cup {ProviderCall("put", n)}
       ELSE /\ MovesTo(n, IF acPending[n] \in acTxt THEN "verifies" ELSE "cleans")
            /\ UNCHANGED acFlight
    /\ UNCHANGED <<acLease, acTxt, acPending>>

(* The list after it: the value is there and no other record changed.      *)
VerifiesPut(n) ==
    /\ At(n, "verifies")
    /\ IF acPending[n] \in acTxt /\ acTxt \ {acPending[n]} = acSeen[n]
       THEN MovesTo(n, "presented")
       ELSE MovesTo(n, "cleans")
    /\ UNCHANGED <<acLease, acTxt, acPending, acSeen, acFlight>>

(* The lease stays with another challenge until the hook gives up, the     *)
(* provider or the controller fails, or the hook's request times out: the  *)
(* hook cleans up before it fails.                                         *)
PresentFails(n) ==
    /\ Presenting(n)
    /\ MovesTo(n, "cleans")
    /\ UNCHANGED <<acLease, acTxt, acPending, acSeen, acFlight>>

(* Issued, refused by the CA or never seen by the resolvers: the challenge *)
(* is cleaned up.                                                          *)
CertbotFinishes(n) ==
    /\ At(n, "presented")
    /\ MovesTo(n, "cleans")
    /\ UNCHANGED <<acLease, acTxt, acPending, acSeen, acFlight>>

(* cleanup: the lease of another challenge, or none, means this one was    *)
(* never written, and the hook drops its file.  A lease that cannot be     *)
(* read is answered the same way: then the file is dropped while its       *)
(* challenge holds the lease, and nobody releases it any more.             *)
AsksCleanup(n) ==
    /\ At(n, "cleans")
    /\ \/ /\ HoldsLease(n)
          /\ MovesTo(n, "clearing") /\ UNCHANGED acPending
       \/ /\ MovesTo(n, "idle")
          /\ acPending' = [acPending EXCEPT ![n] = NoChallenge]
    /\ UNCHANGED <<acLease, acTxt, acSeen, acFlight>>

(* CleanupStreamACME, up to the DELETE.                                    *)
ListsBeforeDelete(n) ==
    /\ At(n, "clearing")
    /\ acSeen' = [acSeen EXCEPT ![n] = acTxt \ {acPending[n]}]
    /\ IF acPending[n] \in acTxt
       THEN MovesTo(n, "deletes") /\ acFlight' = acFlight \cup {ProviderCall("delete", n)}
       ELSE MovesTo(n, "waits") /\ UNCHANGED acFlight
    /\ UNCHANGED <<acLease, acTxt, acPending>>

(* An attempt to clean up fails; the third one leaves the file behind.     *)
CleanupFails(n) ==
    /\ CleaningUp(n) \/ At(n, "cleans")
    /\ \E place \in {"cleans", "idle"} : MovesTo(n, place)
    /\ UNCHANGED <<acLease, acTxt, acPending, acSeen, acFlight>>

VerifiesDelete(n) ==
    /\ At(n, "checks") /\ acTxt = acSeen[n]
    /\ MovesTo(n, "waits")
    /\ UNCHANGED <<acLease, acTxt, acPending, acSeen, acFlight>>

(* Mutant of AbsentEverywhere: the resolvers are asked at once, a call     *)
(* that was given up may still be in flight.                               *)
AbsentAtOnce(v) == v \notin acTxt

(* waitStreamACMEValueAbsent: 65 seconds, longer than the 15 a provider    *)
(* call may take, and then until the resolvers do not show the value.      *)
AbsentEverywhere(v) ==
    /\ v \notin acTxt
    /\ \A f \in acFlight : f.value # v

ReleasesLease(n) ==
    /\ At(n, "waits") /\ AbsentEverywhere(acPending[n])
    /\ HoldsLease(n)
    /\ acLease' = NoChallenge
    /\ acPending' = [acPending EXCEPT ![n] = NoChallenge]
    /\ MovesTo(n, "idle")
    /\ UNCHANGED <<acTxt, acSeen, acFlight>>

(* A provider call takes effect, for a handler that waits for it or for    *)
(* none, or never does; an answer that does not come is PresentFails or    *)
(* CleanupFails.                                                           *)
AnswersTo(f) ==
    acAt' = [n \in CertNodes |->
        IF acPending[n] # f.value THEN acAt[n]
        ELSE IF f.op = "put" /\ At(n, "puts") THEN "verifies"
        ELSE IF f.op = "delete" /\ At(n, "deletes") THEN "checks"
        ELSE acAt[n]]

TakesEffect(f) ==
    /\ \/ f.op = "put" /\ "add" \in TxtPuts /\ acTxt' = acTxt \cup {f.value}
       \/ f.op = "put" /\ "replace" \in TxtPuts /\ acTxt' = {f.value}
       \/ f.op = "delete" /\ acTxt' = acTxt \ {f.value}
    /\ acFlight' = acFlight \ {f}
    /\ AnswersTo(f)
    /\ UNCHANGED <<acLease, acPending, acSeen>>

(* Nobody waits for the answer any more.                                   *)
IsLost(f) ==
    /\ \A n \in CertNodes :
          acPending[n] = f.value => ~At(n, "puts") /\ ~At(n, "deletes")
    /\ acFlight' = acFlight \ {f}
    /\ UNCHANGED <<acLease, acTxt, acPending, acAt, acSeen>>

(* The hook is killed, by a reboot, the service's time limit or the        *)
(* removal of the edge, and its file remains.                              *)
HookDies(n) ==
    /\ acAt[n] # "idle"
    /\ MovesTo(n, "idle")
    /\ UNCHANGED <<acLease, acTxt, acPending, acSeen, acFlight>>

(* The next run of the manager, or of the hook, begins with a cleanup.     *)
Recovers(n) ==
    /\ At(n, "idle") /\ acPending[n] # NoChallenge
    /\ MovesTo(n, "cleans")
    /\ UNCHANGED <<acLease, acTxt, acPending, acSeen, acFlight>>

(* Another client adds its value, or takes it away.                        *)
ForeignChanges ==
    /\ acTxt' \in {acTxt \cup {Foreign}, acTxt \ {Foreign}} \ {acTxt}
    /\ UNCHANGED <<acLease, acPending, acAt, acSeen, acFlight>>

CertNext ==
    \/ \E n \in CertNodes :
         \/ OrdersCertificate(n) \/ AcquiresLease(n)
         \/ ListsBeforePut(n) \/ VerifiesPut(n) \/ PresentFails(n)
         \/ CertbotFinishes(n)
         \/ AsksCleanup(n) \/ ListsBeforeDelete(n) \/ VerifiesDelete(n)
         \/ CleanupFails(n) \/ ReleasesLease(n)
         \/ HookDies(n) \/ Recovers(n)
    \/ \E f \in acFlight : TakesEffect(f) \/ IsLost(f)
    \/ ForeignChanges

CertSpec == CertInit /\ [][CertNext]_certVars

Places == {"idle", "orders", "lists", "puts", "verifies", "presented", "cleans",
           "clearing", "deletes", "checks", "waits"}

(* Type invariant.                                                         *)
CertTypeOK ==
    /\ acLease \in Challenge \cup {NoChallenge}
    /\ acTxt \in SUBSET (Challenge \cup {Foreign})
    /\ acPending \in [CertNodes -> Challenge \cup {NoChallenge}]
    /\ acAt \in [CertNodes -> Places]
    /\ acSeen \in [CertNodes -> SUBSET (Challenge \cup {Foreign})]
    /\ acFlight \in SUBSET [op : {"put", "delete"}, value : Challenge]

(* No TXT value outlives the lease it was written under, whatever died or  *)
(* was answered too late (edge_acme_lease.go:10), and the value certbot is *)
(* having validated is there until its own edge cleans it up: a second     *)
(* edge, or a call that was given up, never removes it.                    *)
ChallengeStands ==
    /\ \A v \in acTxt \cap Challenge : acLease = v
    /\ \A n \in CertNodes : At(n, "presented") => acPending[n] \in acTxt
==============================================================================
