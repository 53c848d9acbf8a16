------------------------------ MODULE EdgeUsage ------------------------------
(***************************************************************************)
(* Traffic accounting of one edge.  Every response the edge serves becomes *)
(* an event of its outbox; a goroutine of the agent sends the events one   *)
(* at a time, again and again until the controller says 200, and the       *)
(* controller adds each event's bytes to the node's used_bytes at most     *)
(* once, in the billing cycle it belongs to.                               *)
(*                                                                         *)
(* Time is the number of the billing cycle: next_reset_at is the end of    *)
(* cycle next, NextMonthlyReset maps an instant to the end of its cycle.   *)
(* Bytes are kept apart by event: used[e] says how often those of e are in *)
(* used_bytes.  Events are numbered in the order of their rowid.           *)
(***************************************************************************)
EXTENDS Naturals, FiniteSets

CONSTANTS
  MaxEvents,  \* responses served (bounds the model)
  MaxCycle,   \* billing cycles (bounds the model)
  MaxTrouble, \* faults and operator's requests together (bounds the model)
  Rounds,     \* rounds of the sender in the delay of a rejected event
  Request     \* HTTP requests that the controller can be serving at a time

Event == 1..MaxEvents
Cycle == 1..MaxCycle

ASSUME BoundsAssumption ==
  /\ MaxEvents \in Nat
  /\ MaxCycle \in Nat \ {0}
  /\ MaxTrouble \in Nat
ASSUME RoundsAssumption == Rounds \in Nat \ {0}

VARIABLES
  now,       \* the cycle it is, by the controller's clock
  sampled,   \* the cycle of the event's sampled_at; 0: not served yet
  outbox,    \* edge_usage_outbox
  wait,      \* rounds until next_attempt_at of an event
  sender,    \* the agent's goroutine
  call,      \* the controller's handlers of /api/edge/usage/
  next,      \* the cycle that ends at next_reset_at of the node's row
  used,      \* used_bytes of the row
  counted,   \* proxy_node_usage_events
  revoked,   \* the row is revoked
  operator,  \* an administrator's request on the row
  trouble    \* how much of MaxTrouble has been spent

edge  == <<sampled, outbox, wait>>
meter == <<next, used, counted>>
vars  == <<now, edge, sender, call, meter, revoked, operator, trouble>>

------------------------------------------------------------------------------
(* Types *)

Sender == [pc : {"idle", "waiting", "answered"}, event : Event \cup {0},
           ok : BOOLEAN]
Call   == [pc : {"idle", "sent", "reset", "record", "answer"},
           event : Event \cup {0}, now : Cycle, ok : BOOLEAN, heard : BOOLEAN]
Used   == [Event -> Nat]
Operator == [pc : {"idle", "reset", "patch"}, next : Cycle, used : Used]

NoSender   == [pc |-> "idle", event |-> 0, ok |-> FALSE]
NoCall     == [pc |-> "idle", event |-> 0, now |-> 1, ok |-> FALSE, heard |-> FALSE]
NothingUsed == [e \in Event |-> 0]
NoOperator == [pc |-> "idle", next |-> 1, used |-> NothingUsed]

(* The enrolled node: next_reset_at is the end of the cycle it was made in. *)
Init ==
  /\ now = 1 /\ next = 1
  /\ sampled = [e \in Event |-> 0]
  /\ outbox = {} /\ counted = {}
  /\ wait = [e \in Event |-> 0]
  /\ sender = NoSender
  /\ call = [r \in Request |-> NoCall]
  /\ used = NothingUsed
  /\ revoked = FALSE
  /\ operator = NoOperator
  /\ trouble = 0

Trouble == trouble < MaxTrouble /\ trouble' = trouble + 1

------------------------------------------------------------------------------
(* The agent *)

(* QueueEdgeUsage at the end of a response.  The agent's clock may be on the *)
(* other side of a cycle's end.                                            *)
Queue(e) ==
  /\ sampled[e] = 0 /\ \A d \in 1..(e-1) : sampled[d] # 0
  /\ \E c \in Cycle :
       /\ c <= now + 1 /\ now <= c + 1
       /\ sampled' = [sampled EXCEPT ![e] = c]
  /\ outbox' = outbox \cup {e}
  /\ UNCHANGED <<now, wait, sender, call, meter, revoked, operator, trouble>>

(* NextEdgeUsage: the oldest event whose next_attempt_at has come.         *)
Due == {e \in outbox : wait[e] = 0}
NextEdgeUsage(e) == e \in Due /\ \A d \in Due : e <= d

(* A round of the sender takes two seconds or more off every delay.        *)
RoundPasses == wait' = [e \in Event |-> IF wait[e] = 0 THEN 0 ELSE wait[e] - 1]

(* The sender posts the event.  Which handler gets it does not matter.     *)
Free == {r \in Request : call[r].pc = "idle"}
Posts(e) ==
  /\ sender.pc = "idle" /\ NextEdgeUsage(e) /\ Free # {}
  /\ sender' = [pc |-> "waiting", event |-> e, ok |-> FALSE]
  /\ call' = [call EXCEPT ![CHOOSE r \in Free : TRUE] =
                 [NoCall EXCEPT !.pc = "sent", !.event = e, !.heard = TRUE]]
  /\ RoundPasses
  /\ UNCHANGED <<now, sampled, outbox, meter, revoked, operator, trouble>>
Sends == \E e \in Event : Posts(e)

(* Nothing is due: the sender sleeps.                                      *)
Sleeps ==
  /\ sender.pc = "idle" /\ Due = {} /\ \E e \in Event : wait[e] # 0
  /\ RoundPasses
  /\ UNCHANGED <<now, sampled, outbox, sender, call, meter, revoked, operator, trouble>>

(* The post fails or times out: the event stays due.  What became of the   *)
(* request is not known.                                                   *)
Unheard == [r \in Request |-> [call[r] EXCEPT !.heard = FALSE]]
Fails ==
  /\ sender.pc = "waiting" /\ Trouble
  /\ sender' = NoSender
  /\ call' = Unheard
  /\ UNCHANGED <<now, edge, meter, revoked, operator>>

(* 200 removes the event, any other status delays it by ten minutes.       *)
Acknowledge(e) == outbox' = outbox \ {e} /\ UNCHANGED <<sampled, wait>>
(* Mutants: a rejected event is given up, is delayed twice as long, stays   *)
(* due.                                                                    *)
DelayGivesUp(e) == Acknowledge(e)
DelayForgotten(e) == UNCHANGED edge
Delay(e) == wait' = [wait EXCEPT ![e] = Rounds] /\ UNCHANGED <<sampled, outbox>>
Finishes ==
  /\ sender.pc = "answered"
  /\ \/ sender.ok  /\ Acknowledge(sender.event) /\ UNCHANGED trouble
     \/ ~sender.ok /\ Delay(sender.event) /\ UNCHANGED trouble
     \/ Trouble /\ UNCHANGED edge              \* the agent ignores a disk error
  /\ sender' = NoSender
  /\ UNCHANGED <<now, call, meter, revoked, operator>>

(* The agent starts again; the outbox is a table.                          *)
AgentRestarts ==
  /\ Trouble
  /\ sender' = NoSender /\ call' = Unheard
  /\ UNCHANGED <<now, edge, meter, revoked, operator>>

------------------------------------------------------------------------------
(* The controller: one handler per request *)

Reply(r, status) ==
  [call EXCEPT ![r] = [NoCall EXCEPT !.pc = "answer", !.ok = status, !.heard = call[r].heard]]
Refused(r)  == Reply(r, FALSE)
Accepted(r) == Reply(r, TRUE)

(* The credential and the age of the event, then the read of              *)
(* advanceProxyNodeCycle.  An event of another cycle may be two minutes    *)
(* ahead or 45 days old.                                                   *)
Begins(r) ==
  /\ call[r].pc = "sent"
  /\ \/ /\ revoked \/ sampled[call[r].event] # now
        /\ call' = Refused(r)
     \/ /\ ~revoked
        /\ call' = [call EXCEPT ![r].now = now,
                                ![r].pc = IF next < now THEN "reset" ELSE "record"]
  /\ UNCHANGED <<now, edge, sender, meter, revoked, operator, trouble>>

(* The UPDATE of advanceProxyNodeCycle; another request may have made it.  *)
(* Mutant: the UPDATE relies on what was read.                             *)
LapsedAsRead(r) == call[r].now = now
Lapsed(r) == next < call[r].now
Resets(r) ==
  /\ call[r].pc = "reset"
  /\ IF Lapsed(r) THEN used' = NothingUsed /\ next' = call[r].now
                  ELSE UNCHANGED <<used, next>>
  /\ call' = [call EXCEPT ![r].pc = "record"]
  /\ UNCHANGED <<now, edge, sender, counted, revoked, operator, trouble>>

(* The transaction of RecordProxyNodeUsageEvent.                           *)
Unavailable(r) == revoked \/ next < call[r].now
(* Mutants: an event of the running cycle is not looked for; only events    *)
(* that come too late are outside the cycle.                               *)
KnownOfEnded(e) == e \in counted /\ sampled[e] # next
OutsideLate(e) == sampled[e] < next
Known(e) == e \in counted
Outside(e) == sampled[e] # next
Records(r) ==
  LET e == call[r].event IN
  /\ call[r].pc = "record"
  /\ IF Unavailable(r) \/ (~Known(e) /\ Outside(e))
     THEN call' = Refused(r) /\ UNCHANGED meter
     ELSE /\ call' = Accepted(r)
          /\ IF Known(e) THEN UNCHANGED meter
             ELSE /\ counted' = counted \cup {e}
                  /\ used' = [used EXCEPT ![e] = @ + 1]
                  /\ UNCHANGED next
  /\ UNCHANGED <<now, edge, sender, revoked, operator, trouble>>

(* The answer reaches the sender if it still waits for this request.       *)
Answers(r) ==
  /\ call[r].pc = "answer"
  /\ call' = [call EXCEPT ![r] = NoCall]
  /\ IF call[r].heard
     THEN sender' = [sender EXCEPT !.pc = "answered", !.ok = call[r].ok]
     ELSE UNCHANGED sender
  /\ UNCHANGED <<now, edge, meter, revoked, operator, trouble>>

(* A request nobody waits for is lost, or its context is cancelled.        *)
Aborts(r) ==
  /\ call[r].pc # "idle" /\ ~call[r].heard
  /\ call' = [call EXCEPT ![r] = NoCall]
  /\ UNCHANGED <<now, edge, sender, meter, revoked, operator, trouble>>

(* The controller starts again: every connection breaks.                   *)
ControllerRestarts ==
  /\ Trouble
  /\ call' = [r \in Request |-> NoCall]
  /\ sender' = IF sender.pc = "waiting" THEN NoSender ELSE sender
  /\ operator' = NoOperator
  /\ UNCHANGED <<now, edge, meter, revoked>>

------------------------------------------------------------------------------
(* The operator and the clock *)

(* ResetProxyNodeUsage up to its UPDATE.                                   *)
ResetReads ==
  /\ operator.pc = "idle" /\ Trouble
  /\ operator' = [pc |-> "reset", next |-> now, used |-> NothingUsed]
  /\ UNCHANGED <<now, edge, sender, call, meter, revoked>>

(* A PATCH reads the row; it will write every column back.                 *)
PatchReads ==
  /\ operator.pc = "idle" /\ Trouble
  /\ operator' = [pc |-> "patch", next |-> next, used |-> used]
  /\ UNCHANGED <<now, edge, sender, call, meter, revoked>>

OperatorWrites ==
  /\ operator.pc # "idle"
  /\ operator' = NoOperator
  /\ IF operator.pc = "reset" /\ revoked
     THEN UNCHANGED <<next, used>>
     ELSE next' = operator.next /\ used' = operator.used
  /\ UNCHANGED <<now, edge, sender, call, counted, revoked, trouble>>

Revoke ==
  /\ ~revoked /\ revoked' = TRUE
  /\ UNCHANGED <<now, edge, sender, call, meter, operator, trouble>>

(* A billing cycle ends.                                                   *)
Tick ==
  /\ now < MaxCycle /\ now' = now + 1
  /\ UNCHANGED <<edge, sender, call, meter, revoked, operator, trouble>>

------------------------------------------------------------------------------
Serves(r) == Begins(r) \/ Resets(r) \/ Records(r) \/ Answers(r)

Next ==
  \/ \E e \in Event : Queue(e)
  \/ \E r \in Request : Serves(r) \/ Aborts(r)
  \/ Sends \/ Sleeps \/ Fails \/ Finishes
  \/ AgentRestarts \/ ControllerRestarts
  \/ ResetReads \/ PatchReads \/ OperatorWrites \/ Revoke
  \/ Tick

Spec == Init /\ [][Next]_vars

(* The agent's loop and the controller's handlers run on.                  *)
Fairness ==
  /\ WF_vars(Sends) /\ WF_vars(Sleeps) /\ WF_vars(Finishes)
  /\ \A r \in Request : WF_vars(Serves(r))

FairSpec == Spec /\ Fairness

------------------------------------------------------------------------------
(* Properties *)

(* Every variable has its type.                                            *)
TypeOK ==
  /\ now \in Cycle /\ next \in Cycle
  /\ sampled \in [Event -> Cycle \cup {0}]
  /\ outbox \subseteq Event /\ counted \subseteq Event
  /\ wait \in [Event -> 0..Rounds]
  /\ sender \in Sender
  /\ call \in [Request -> Call]
  /\ used \in Used
  /\ revoked \in BOOLEAN
  /\ operator \in Operator
  /\ trouble \in 0..MaxTrouble

(* However often an event is sent, whatever is lost and whichever old row a *)
(* PATCH writes back, its bytes are in used_bytes at most once.            *)
BilledOnce == \A e \in Event : used[e] <= 1 /\ (used[e] = 1 => e \in counted)

(* used_bytes holds nothing but events of the cycle next_reset_at ends: a  *)
(* response is never billed to another month than its own.                 *)
MeterOfCycle == \A e \in Event : used[e] > 0 => sampled[e] = next

(* An event leaves the outbox only after the controller has counted it.    *)
AcknowledgedIsCounted == \A e \in Event :
  sampled[e] # 0 /\ e \notin outbox => e \in counted

(* Apart from what an operator writes, bytes leave used_bytes only when     *)
(* their cycle is over: of several requests that find the cycle ended only *)
(* one resets it.                                                          *)
OnlyEndedDropped ==
  [][OperatorWrites \/ \A e \in Event : used'[e] < used[e] => sampled[e] < now]_vars

(* Events that stand before e in the outbox and are refused in this cycle. *)
RefusedBefore(e) == {d \in outbox : d < e /\ sampled[d] # now}

(* An event of the running cycle does not stay in the outbox for ever,     *)
(* unless the node is revoked, as long as the refused events before it are *)
(* no more than the rounds of their delay: each takes one round and is out *)
(* of the way for Rounds.  With one more, the oldest is due again before   *)
(* the event's turn comes, and it is never sent.                           *)
Delivered == \A e \in Event :
  (e \in outbox /\ Cardinality(RefusedBefore(e)) <= Rounds)
    ~> (e \notin outbox \/ revoked \/ sampled[e] # now)
==============================================================================
