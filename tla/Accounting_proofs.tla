-------------------------- MODULE Accounting_proofs ---------------------------
(***************************************************************************)
(* Theorems about the components that count: the outbox of an edge and the *)
(* meter of the controller (EdgeUsage), the statistics of playback         *)
(* (PlaybackStats) and the rows and the cursor of the access log           *)
(* (StatsLog), for any number of events, requests, ticks, lines and        *)
(* faults.  The lemmas about sums over finite sets come before the two     *)
(* components whose rows are such sums.                                    *)
(***************************************************************************)
EXTENDS EdgeUsage, PlaybackStats, StatsLog, FiniteSetTheorems, SequenceTheorems,
        WellFoundedInduction, TLAPS

-----------------------------------------------------------------------------
(* EdgeUsage: an event leaves the outbox only counted                      *)

(* What handlers hold while they do nothing is well typed.                 *)
LEMMA IdleTypes ==
  NoSender \in Sender /\ NoCall \in Call /\ NothingUsed \in Used /\ NoOperator \in Operator
<1>1. 1 \in Cycle
  BY BoundsAssumption DEF Cycle
<1>2. NothingUsed \in Used
  BY DEF NothingUsed, Used
<1>3. QED
  BY <1>1, <1>2 DEF NoSender, Sender, NoCall, Call, NoOperator, Operator

(* A reply is well typed.                                                  *)
LEMMA ReplyTypes ==
  ASSUME call \in [Request -> Call], NEW r \in Request, NEW status \in BOOLEAN
  PROVE  Reply(r, status) \in [Request -> Call]
<1>1. NoCall \in Call /\ call[r].heard \in BOOLEAN
  BY IdleTypes DEF Call
<1>2. [NoCall EXCEPT !.pc = "answer", !.ok = status, !.heard = call[r].heard] \in Call
  BY <1>1 DEF Call, NoCall
<1>3. QED
  BY <1>2 DEF Reply

(* At first every value is well typed.                                     *)
LEMMA InitTypes == Init => TypeOK
<1> SUFFICES ASSUME Init PROVE TypeOK
  OBVIOUS
<1>1. now \in Cycle /\ next \in Cycle
  BY BoundsAssumption DEF Init, Cycle
<1>2. wait \in [Event -> 0..Rounds] /\ trouble \in 0..MaxTrouble
  BY RoundsAssumption, BoundsAssumption DEF Init
<1>3. QED
  BY <1>1, <1>2, IdleTypes DEF Init, TypeOK

(* The rounds left of a delay stay in range.                               *)
LEMMA RoundTypes ==
  ASSUME wait \in [Event -> 0..Rounds], RoundPasses
  PROVE  wait' \in [Event -> 0..Rounds]
  BY RoundsAssumption DEF RoundPasses

(* A request that is not answered yet is about an event.                   *)
Asked == {"sent", "reset", "record"}
Named == \A r \in Request : call[r].pc \in Asked => call[r].event \in Event

(* Every step keeps the types.                                             *)
LEMMA NextTypes ==
  ASSUME TypeOK, Named, [Next]_vars
  PROVE  TypeOK'
<1> USE DEF TypeOK, edge, meter
<1>1. ASSUME NEW e \in Event, Queue(e) PROVE TypeOK'
  BY <1>1 DEF Queue
<1>2. ASSUME NEW e \in Event, Posts(e) PROVE TypeOK'
  <2>1. [pc |-> "waiting", event |-> e, ok |-> FALSE] \in Sender
    BY DEF Sender
  <2>2. [NoCall EXCEPT !.pc = "sent", !.event = e, !.heard = TRUE] \in Call
    BY IdleTypes DEF Call, NoCall
  <2>3. call' \in [Request -> Call]
    BY <1>2, <2>2 DEF Posts
  <2>4. wait' \in [Event -> 0..Rounds]
    BY <1>2, RoundTypes DEF Posts
  <2>5. QED
    BY <1>2, <2>1, <2>3, <2>4 DEF Posts
<1>3. CASE Sleeps
  BY <1>3, RoundTypes DEF Sleeps
<1>4. Unheard \in [Request -> Call]
  BY DEF Unheard, Call
<1>5. Trouble => trouble' \in 0..MaxTrouble
  BY BoundsAssumption DEF Trouble
<1>6. CASE Fails \/ AgentRestarts
  BY <1>4, <1>5, <1>6, IdleTypes DEF Fails, AgentRestarts
<1>7. CASE Finishes
  <2>1. outbox' \subseteq Event /\ sampled' = sampled
    BY <1>7 DEF Finishes, Acknowledge, Delay
  <2>2. wait' \in [Event -> 0..Rounds]
    BY <1>7, RoundsAssumption DEF Finishes, Acknowledge, Delay
  <2>3. trouble' \in 0..MaxTrouble
    BY <1>5, <1>7 DEF Finishes
  <2>4. QED
    BY <1>7, <2>1, <2>2, <2>3, IdleTypes DEF Finishes
<1>8. ASSUME NEW r \in Request, Begins(r) PROVE TypeOK'
  <2>1. [call EXCEPT ![r].now = now, ![r].pc = IF next < now THEN "reset" ELSE "record"]
          \in [Request -> Call]
    BY Zenon DEF Call
  <2>2. QED
    BY <1>8, <2>1, ReplyTypes DEF Begins, Refused
<1>9. ASSUME NEW r \in Request, Resets(r) PROVE TypeOK'
  <2>1. [call EXCEPT ![r].pc = "record"] \in [Request -> Call] /\ call[r].now \in Cycle
    BY DEF Call
  <2>2. used' \in Used /\ next' \in Cycle
    BY <1>9, <2>1, IdleTypes DEF Resets
  <2>3. QED
    BY <1>9, <2>1, <2>2 DEF Resets
<1>10. ASSUME NEW r \in Request, Records(r) PROVE TypeOK'
  <2>1. call' \in [Request -> Call]
    BY <1>10, ReplyTypes DEF Records, Refused, Accepted
  <2>2. call[r].event \in Event
    BY <1>10 DEF Records, Named, Asked
  <2>3. used' \in Used /\ next' \in Cycle /\ counted' \subseteq Event
    BY <1>10, <2>2 DEF Records, Used
  <2>4. QED
    BY <1>10, <2>1, <2>3 DEF Records
<1>11. ASSUME NEW r \in Request, Answers(r) PROVE TypeOK'
  <2>1. call' \in [Request -> Call] /\ call[r].ok \in BOOLEAN
    BY <1>11, IdleTypes DEF Answers, Call
  <2>2. sender' \in Sender
    BY <1>11, <2>1 DEF Answers, Sender
  <2>3. QED
    BY <1>11, <2>1, <2>2 DEF Answers
<1>12. ASSUME NEW r \in Request, Aborts(r) PROVE TypeOK'
  BY <1>12, IdleTypes DEF Aborts
<1>13. CASE ControllerRestarts
  BY <1>5, <1>13, IdleTypes DEF ControllerRestarts
<1>14. CASE ResetReads \/ PatchReads
  BY <1>5, <1>14, IdleTypes DEF ResetReads, PatchReads, Operator
<1>15. CASE OperatorWrites
  <2>1. operator.next \in Cycle /\ operator.used \in Used
    BY DEF Operator
  <2>2. QED
    BY <1>15, <2>1, IdleTypes DEF OperatorWrites
<1>16. CASE Revoke
  BY <1>16 DEF Revoke
<1>17. CASE Tick
  BY <1>17, BoundsAssumption DEF Tick, Cycle, Call, Operator
<1>18. CASE UNCHANGED vars
  BY <1>18 DEF vars
<1>19. QED
  BY <1>1, <1>2, <1>3, <1>6, <1>7, <1>8, <1>9, <1>10, <1>11, <1>12, <1>13, <1>14,
     <1>15, <1>16, <1>17, <1>18 DEF Next, Sends, Serves

------------------------------------------------------------------------------
(* An event in the outbox or in the controller's table has been served; a   *)
(* request asks for such an event and began no later than now.             *)
Served == \A e \in Event : e \in outbox \cup counted => sampled[e] # 0

Asks == \A r \in Request :
  call[r].pc \in Asked => call[r].event \in Event /\ sampled[call[r].event] # 0

InTime == \A r \in Request : call[r].now <= now

(* The sender waits for one request, which is about its event, and a 200    *)
(* means that the event is counted.                                        *)
OneHeard ==
  /\ \A r \in Request : call[r].heard => sender.pc = "waiting" /\ call[r].pc # "idle"
  /\ \A r, q \in Request : call[r].heard /\ call[q].heard => r = q

Told ==
  /\ \A r \in Request : call[r].heard /\ call[r].pc \in Asked => call[r].event = sender.event
  /\ \A r \in Request : call[r].heard /\ call[r].pc = "answer" /\ call[r].ok
                          => sender.event \in counted
  /\ sender.pc = "answered" /\ sender.ok => sender.event \in counted

RequestInv == Served /\ Asks /\ InTime /\ OneHeard /\ Told /\ AcknowledgedIsCounted

(* Every step keeps what ties requests, sender and tables together, and     *)
(* with it that an event leaves the outbox only counted.                   *)
LEMMA NextRequest ==
  ASSUME TypeOK, RequestInv, [Next]_vars
  PROVE  RequestInv'
<1> USE DEF TypeOK, edge, meter, RequestInv, Served, Asks, InTime, OneHeard, Told,
            AcknowledgedIsCounted, Asked, Sender, Call, NoCall, NoSender
<1>1. ASSUME NEW e \in Event, Queue(e) PROVE RequestInv'
  BY <1>1 DEF Queue, Cycle
<1>2. ASSUME NEW e \in Event, Posts(e) PROVE RequestInv'
  <2> DEFINE slot == CHOOSE r \in Free : TRUE
             new  == [NoCall EXCEPT !.pc = "sent", !.event = e, !.heard = TRUE]
  <2>1. slot \in Request
    BY <1>2 DEF Posts, Free
  <2>2. new.pc = "sent" /\ new.event = e /\ new.heard /\ new.now = 1
    OBVIOUS
  <2>3. e \in outbox
    BY <1>2 DEF Posts, NextEdgeUsage, Due
  <2>4. call' = [call EXCEPT ![slot] = new]
    BY <1>2 DEF Posts
  <2> HIDE DEF slot, new
  <2>5. call'[slot] = new /\ \A q \in Request \ {slot} : call'[q] = call[q] /\ ~call[q].heard
    BY <1>2, <2>1, <2>4 DEF Posts
  <2>6. sender'.pc = "waiting" /\ sender'.event = e
    BY <1>2 DEF Posts
  <2>7. UNCHANGED <<now, sampled, outbox, counted>>
    BY <1>2 DEF Posts
  <2>8. 1 <= now
    BY DEF Cycle
  <2>9. QED
    BY <2>1, <2>2, <2>3, <2>5, <2>6, <2>7, <2>8
<1>3. CASE Sleeps
  BY <1>3 DEF Sleeps
<1>6. CASE Fails \/ AgentRestarts
  BY <1>6 DEF Fails, AgentRestarts, Unheard
<1>7. CASE Finishes
  BY <1>7 DEF Finishes, Acknowledge, Delay
<1>8. ASSUME NEW r \in Request, Begins(r) PROVE RequestInv'
  <2>1. UNCHANGED <<now, sampled, outbox, counted, sender>>
    BY <1>8 DEF Begins
  <2>0. 1 <= now
    BY DEF Cycle
  <2>2. CASE call' = Refused(r)
    <3>1. /\ call'[r].pc = "answer" /\ call'[r].now = 1 /\ call'[r].heard = call[r].heard
          /\ ~call'[r].ok
          /\ \A q \in Request \ {r} : call'[q] = call[q]
      BY <2>2 DEF Refused, Reply
    <3>2. QED
      BY <2>0, <2>1, <3>1
  <2>3. CASE call' # Refused(r)
    <3>1. call' = [call EXCEPT ![r].now = now,
                               ![r].pc = IF next < now THEN "reset" ELSE "record"]
      BY <1>8, <2>3 DEF Begins
    <3>2. call[r].pc = "sent"
      BY <1>8 DEF Begins
    <3>3. QED
      BY <2>1, <3>1, <3>2 DEF Cycle
  <2>4. QED
    BY <2>2, <2>3
<1>9. ASSUME NEW r \in Request, Resets(r) PROVE RequestInv'
  BY <1>9 DEF Resets
<1>10. ASSUME NEW r \in Request, Records(r) PROVE RequestInv'
  <2>1. UNCHANGED <<now, sampled, outbox, sender>> /\ call[r].pc = "record"
    BY <1>10 DEF Records
  <2>2. 1 <= now
    BY DEF Cycle
  <2>3. CASE call' = Refused(r) /\ counted' = counted
    <3>1. /\ call'[r].pc = "answer" /\ call'[r].now = 1 /\ call'[r].heard = call[r].heard
          /\ ~call'[r].ok
          /\ \A q \in Request \ {r} : call'[q] = call[q]
      BY <2>3 DEF Refused, Reply
    <3>2. QED
      BY <2>1, <2>2, <2>3, <3>1
  <2>4. CASE call' = Accepted(r) /\ counted' = counted \cup {call[r].event}
    <3>1. /\ call'[r].pc = "answer" /\ call'[r].now = 1 /\ call'[r].heard = call[r].heard
          /\ \A q \in Request \ {r} : call'[q] = call[q]
      BY <2>4 DEF Accepted, Reply
    <3>2. QED
      BY <2>1, <2>2, <2>4, <3>1
  <2>5. QED
    BY <1>10, <2>3, <2>4 DEF Records, Known
<1>11. ASSUME NEW r \in Request, Answers(r) PROVE RequestInv'
  <2>1. UNCHANGED <<now, sampled, outbox, counted>> /\ call[r].pc = "answer"
    BY <1>11 DEF Answers
  <2>2. 1 <= now
    BY DEF Cycle
  <2>3. call' = [call EXCEPT ![r] = NoCall]
    BY <1>11 DEF Answers
  <2>4. CASE call[r].heard
    <3>1. sender'.pc = "answered" /\ sender'.event = sender.event /\ sender'.ok = call[r].ok
      BY <1>11, <2>4 DEF Answers
    <3>2. \A q \in Request : ~call'[q].heard
      BY <2>3, <2>4
    <3>3. QED
      BY <2>1, <2>2, <2>3, <2>4, <3>1, <3>2
  <2>5. CASE ~call[r].heard
    <3>1. sender' = sender
      BY <1>11, <2>5 DEF Answers
    <3>2. QED
      BY <2>1, <2>2, <2>3, <3>1
  <2>6. QED
    BY <2>4, <2>5
<1>12. ASSUME NEW r \in Request, Aborts(r) PROVE RequestInv'
  BY <1>12 DEF Aborts, Cycle
<1>13. CASE ControllerRestarts
  BY <1>13 DEF ControllerRestarts, Cycle
<1>14. CASE ResetReads \/ PatchReads
  BY <1>14 DEF ResetReads, PatchReads
<1>15. CASE OperatorWrites
  BY <1>15 DEF OperatorWrites
<1>16. CASE Revoke
  BY <1>16 DEF Revoke
<1>17. CASE Tick
  BY <1>17 DEF Tick, Cycle
<1>18. CASE UNCHANGED vars
  BY <1>18 DEF vars
<1>19. QED
  BY <1>1, <1>2, <1>3, <1>6, <1>7, <1>8, <1>9, <1>10, <1>11, <1>12, <1>13, <1>14,
     <1>15, <1>16, <1>17, <1>18 DEF Next, Sends, Serves

------------------------------------------------------------------------------
(* What is on the meter, and what an operator may put back there, is of one *)
(* cycle and was counted, once.                                            *)
OnMeter(u, c) == \A e \in Event :
  u[e] <= 1 /\ (u[e] = 1 => e \in counted /\ sampled[e] = c)
Billed == OnMeter(used, next) /\ OnMeter(operator.used, operator.next)

(* Every step keeps it: a PATCH writes back used_bytes together with the    *)
(* next_reset_at it was read with.                                         *)
LEMMA NextBilled ==
  ASSUME TypeOK, RequestInv, Billed, [Next]_vars
  PROVE  Billed'
<1> USE DEF TypeOK, edge, meter, Billed, OnMeter, Used, Operator
<1>1. ASSUME NEW e \in Event, Queue(e) PROVE Billed'
  BY <1>1 DEF Queue, RequestInv, Served
<1>2. CASE UNCHANGED <<sampled, counted, used, next, operator>>
  BY <1>2
<1>3. ASSUME NEW r \in Request, Resets(r) PROVE Billed'
  BY <1>3 DEF Resets, NothingUsed
<1>4. ASSUME NEW r \in Request, Records(r) PROVE Billed'
  <2>1. UNCHANGED <<sampled, next, operator>> /\ counted \subseteq counted'
    BY <1>4 DEF Records
  <2>2. CASE used' = used
    BY <2>1, <2>2
  <2>3. CASE used' # used
    <3> DEFINE e == call[r].event
    <3>1. e \notin counted /\ sampled[e] = next /\ counted' = counted \cup {e}
          /\ used' = [used EXCEPT ![e] = @ + 1]
      BY <1>4, <2>3 DEF Records, Known, Outside
    <3>2. e \in Event => used[e] = 0
      BY <3>1
    <3> HIDE DEF e
    <3>3. QED
      BY <2>1, <3>1, <3>2
  <2>4. QED
    BY <2>2, <2>3
<1>5. CASE ControllerRestarts
  BY <1>5 DEF ControllerRestarts, NoOperator, NothingUsed
<1>6. CASE ResetReads
  BY <1>6 DEF ResetReads, NothingUsed
<1>7. CASE PatchReads
  BY <1>7 DEF PatchReads
<1>8. CASE OperatorWrites
  BY <1>8 DEF OperatorWrites, NoOperator, NothingUsed
<1>9. UNCHANGED <<sampled, counted, used, next, operator>>
        \/ (\E e \in Event : Queue(e)) \/ ControllerRestarts
        \/ (\E r \in Request : Resets(r) \/ Records(r))
        \/ ResetReads \/ PatchReads \/ OperatorWrites
  BY DEF Next, vars, Sends, Posts, Sleeps, Fails, Finishes, Acknowledge, Delay,
         AgentRestarts, Serves, Begins, Answers, Aborts, Revoke, Tick
<1>10. QED
  BY <1>1, <1>2, <1>3, <1>4, <1>5, <1>6, <1>7, <1>8, <1>9

------------------------------------------------------------------------------
(* All of it is an invariant.                                              *)
UsageInv == TypeOK /\ RequestInv /\ Billed

(* It holds at first.                                                      *)
LEMMA InitUsage == Init => UsageInv
<1> SUFFICES ASSUME Init PROVE UsageInv
  OBVIOUS
<1>1. TypeOK
  BY InitTypes
<1>2. RequestInv
  BY DEF Init, RequestInv, Served, Asks, InTime, OneHeard, Told, AcknowledgedIsCounted,
         Asked, NoCall, NoSender
<1>3. Billed
  BY DEF Init, Billed, OnMeter, NothingUsed, NoOperator
<1>4. QED
  BY <1>1, <1>2, <1>3 DEF UsageInv

(* Every step keeps it.                                                    *)
LEMMA NextUsage == UsageInv /\ [Next]_vars => UsageInv'
<1> SUFFICES ASSUME UsageInv, [Next]_vars PROVE UsageInv'
  OBVIOUS
<1>1. Named
  BY DEF UsageInv, RequestInv, Asks, Named
<1>2. QED
  BY <1>1, NextTypes, NextRequest, NextBilled DEF UsageInv

(* So it holds always.                                                     *)
LEMMA UsageInvariant == Spec => []UsageInv
  BY InitUsage, NextUsage, PTL DEF Spec

(* Every variable of the accounting has its type, always.                  *)
THEOREM UsageTypeCorrect == Spec => []TypeOK
<1>1. UsageInv => TypeOK
  BY DEF UsageInv
<1>2. QED
  BY <1>1, UsageInvariant, PTL

(* An event's bytes are in used_bytes at most once, whatever is sent again, *)
(* lost, restarted or written back.                                        *)
THEOREM Once == Spec => []BilledOnce
<1>1. UsageInv => BilledOnce
  BY DEF UsageInv, Billed, OnMeter, BilledOnce
<1>2. QED
  BY <1>1, UsageInvariant, PTL

(* used_bytes holds only events of the cycle that next_reset_at ends.      *)
THEOREM OwnCycle == Spec => []MeterOfCycle
<1>1. UsageInv => MeterOfCycle
  BY DEF UsageInv, TypeOK, Used, Billed, OnMeter, MeterOfCycle
<1>2. QED
  BY <1>1, UsageInvariant, PTL

(* An event leaves the outbox only counted.                                *)
THEOREM NothingLost == Spec => []AcknowledgedIsCounted
<1>1. UsageInv => AcknowledgedIsCounted
  BY DEF UsageInv, RequestInv
<1>2. QED
  BY <1>1, UsageInvariant, PTL

(* Only an operator or the end of a cycle takes bytes off used_bytes.      *)
THEOREM DroppedAtEnd == Spec => OnlyEndedDropped
<1> DEFINE Kept == OperatorWrites
                     \/ \A e \in Event : used'[e] < used[e] => sampled[e] < now
<1>1. UsageInv /\ [Next]_vars => [Kept]_vars
  <2> SUFFICES ASSUME UsageInv, [Next]_vars, ~OperatorWrites, NEW e \in Event,
                      used'[e] < used[e]
               PROVE  sampled[e] < now
    OBVIOUS
  <2> USE DEF UsageInv, TypeOK, Used
  <2>1. used' # used
    OBVIOUS
  <2>2. ASSUME NEW r \in Request, Records(r) PROVE FALSE
    <3>1. used' = [used EXCEPT ![call[r].event] = @ + 1]
      BY <2>1, <2>2 DEF Records, meter
    <3>2. used[e] \in Nat
      OBVIOUS
    <3>3. used'[e] = used[e] \/ used'[e] = used[e] + 1
      BY <3>1
    <3>4. QED
      BY <3>2, <3>3
  <2>3. PICK r \in Request : Resets(r)
    BY <2>1, <2>2 DEF Next, vars, meter, Queue, Sends, Posts, Sleeps, Fails, Finishes,
         AgentRestarts, ControllerRestarts, Serves, Begins, Answers, Aborts, ResetReads,
         PatchReads, Revoke, Tick
  <2>4. next < call[r].now /\ call[r].now <= now
    BY <2>1, <2>3 DEF Resets, Lapsed, RequestInv, InTime
  <2>5. sampled[e] = next
    <3>1. used'[e] = 0 /\ used[e] \in Nat
      BY <2>1, <2>3 DEF Resets, NothingUsed
    <3>2. used[e] <= 1
      BY DEF Billed, OnMeter
    <3>3. used[e] = 1
      BY <3>1, <3>2
    <3>4. QED
      BY <3>3 DEF Billed, OnMeter
  <2>6. call[r].now \in Nat /\ next \in Nat /\ now \in Nat
    BY DEF Call, Cycle
  <2>7. QED
    BY <2>4, <2>5, <2>6
<1>2. QED
  BY <1>1, UsageInvariant, PTL DEF Spec, OnlyEndedDropped

-----------------------------------------------------------------------------
(* Sums over finite sets                                                   *)

(* A non-empty set of numbers has a least one.                             *)
LEMMA LeastNumber ==
  ASSUME NEW S \in SUBSET Nat, S # {}
  PROVE  \E m \in S : \A s \in S : m <= s
<1>1. PICK m \in S : \A s \in S : ~(<<s, m>> \in OpToRel(<, Nat))
  BY NatLessThanWellFounded, WFMin, Zenon
<1>2. \A s \in S : ~(s < m)
  BY <1>1, Zenon DEF OpToRel
<1> QED
  BY <1>2

(* Induction over the subsets of a finite set, for a set Q of them.        *)
LEMMA SubsetInduction ==
  ASSUME NEW S, IsFiniteSet(S), NEW Q,
         \A T \in SUBSET S : (\A U \in SUBSET T : U # T => U \in Q) => T \in Q
  PROVE  \A T \in SUBSET S : T \in Q
<1> SUFFICES ASSUME NEW A \in SUBSET S, A \notin Q PROVE FALSE
  OBVIOUS
<1> DEFINE Bad == {Cardinality(T) : T \in {T \in SUBSET S : T \notin Q}}
<1>1. \A T \in SUBSET S : IsFiniteSet(T) /\ Cardinality(T) \in Nat
  BY FS_Subset, FS_CardinalityType
<1>2. Bad \in SUBSET Nat /\ Bad # {}
  BY <1>1
<1>3. PICK m \in Bad : \A n \in Bad : m <= n
  BY <1>2, LeastNumber
<1>4. PICK T \in SUBSET S : T \notin Q /\ Cardinality(T) = m
  OBVIOUS
<1>5. ASSUME NEW U \in SUBSET T, U # T PROVE U \in Q
  <2>1. Cardinality(U) <= Cardinality(T) /\ Cardinality(U) # Cardinality(T)
    BY <1>1, <1>5, FS_Subset
  <2>2. ~(m <= Cardinality(U))
    BY <1>1, <1>4, <2>1
  <2> QED
    BY <1>3, <2>2
<1> QED
  BY <1>4, <1>5

LEMMA ElementInduction ==
  ASSUME NEW S, IsFiniteSet(S), NEW Q, {} \in Q,
         \A T \in SUBSET S, x \in S : T \in Q /\ x \notin T => T \cup {x} \in Q
  PROVE  S \in Q
<1>1. ASSUME NEW T \in SUBSET S, \A U \in SUBSET T : U # T => U \in Q
      PROVE  T \in Q
  <2>1. CASE T = {}
    BY <2>1
  <2>2. CASE T # {}
    <3>1. PICK x \in T : TRUE
      BY <2>2
    <3>2. T \ {x} \in Q /\ x \notin T \ {x}
      BY <1>1
    <3>3. T = (T \ {x}) \cup {x}
      OBVIOUS
    <3> QED
      BY <3>2, <3>3
  <2> QED
    BY <2>1, <2>2
<1> QED
  BY <1>1, SubsetInduction

-----------------------------------------------------------------------------
\* Sums (SumFunctionOnSet of the community modules)

Pick(s) == CHOOSE x \in s : TRUE

(* h sums f over the subsets of T.                                         *)
Sums(h, f, T) ==
  h = [s \in SUBSET T |-> IF s = {} THEN 0 ELSE f[Pick(s)] + h[s \ {Pick(s)}]]

LEMMA SumIsSolution ==
  ASSUME NEW f, NEW S
  PROVE  SumFunctionOnSet(f, S) = (CHOOSE h : Sums(h, f, S))[S]
BY DEF SumFunctionOnSet, Sums, FoldFunctionOnSet, MapThenFoldSet, Pick

LEMMA PickIsElement ==
  ASSUME NEW s, s # {}
  PROVE  Pick(s) \in s
BY DEF Pick

LEMMA SumsAgree ==
  ASSUME NEW S, IsFiniteSet(S), NEW f, NEW g, NEW h, NEW T \in SUBSET S,
         Sums(g, f, S), Sums(h, f, T)
  PROVE  g[T] = h[T]
<1> DEFINE Q == {s \in SUBSET T : g[s] = h[s]}
<1>1. IsFiniteSet(T)
  BY FS_Subset
<1>2. ASSUME NEW s \in SUBSET T, \A u \in SUBSET s : u # s => u \in Q
      PROVE  s \in Q
  <2>1. CASE s = {}
    BY <2>1 DEF Sums
  <2>2. CASE s # {}
    <3>1. Pick(s) \in s
      BY <2>2, PickIsElement
    <3>2. s \ {Pick(s)} \in Q
      BY <1>2, <3>1
    <3>3. g[s] = f[Pick(s)] + g[s \ {Pick(s)}]
      BY <2>2 DEF Sums
    <3>4. h[s] = f[Pick(s)] + h[s \ {Pick(s)}]
      BY <2>2 DEF Sums
    <3> QED
      BY <3>2, <3>3, <3>4
  <2> QED
    BY <2>1, <2>2
<1>3. T \in Q
  <2> HIDE DEF Q
  <2> QED
    BY <1>1, <1>2, SubsetInduction
<1> QED
  BY <1>3

LEMMA SumsExist ==
  ASSUME NEW S, IsFiniteSet(S), NEW f
  PROVE  \E h : Sums(h, f, S)
<1> DEFINE Q == {T \in SUBSET S : \E h : Sums(h, f, T)}
           g(T) == CHOOSE h : Sums(h, f, T)
<1>1. ASSUME NEW T \in SUBSET S, \A U \in SUBSET T : U # T => U \in Q
      PROVE  T \in Q
  <2>0. \A s \in SUBSET S : s # {} => Pick(s) \in s
    BY PickIsElement
  <2>1. \A U \in SUBSET T : U # T => Sums(g(U), f, U)
    BY <1>1
  <2> DEFINE h == [s \in SUBSET T |->
                     IF s = {} THEN 0 ELSE f[Pick(s)] + g(s \ {Pick(s)})[s \ {Pick(s)}]]
  <2>2. ASSUME NEW s \in SUBSET T, s # T
        PROVE  h[s] = g(s)[s]
    <3>1. Sums(g(s), f, s)
      BY <2>1, <2>2
    <3>2. CASE s = {}
      BY <3>1, <3>2 DEF Sums
    <3>3. CASE s # {}
      <4> DEFINE u == s \ {Pick(s)}
      <4>1. u \in SUBSET s /\ u \in SUBSET T /\ u # T
        BY <2>0, <3>3
      <4>2. IsFiniteSet(s) /\ Sums(g(u), f, u)
        BY <2>1, <4>1, FS_Subset
      <4>3. g(s)[u] = g(u)[u]
        BY <3>1, <4>1, <4>2, SumsAgree
      <4>4. g(s)[s] = f[Pick(s)] + g(s)[u]
        BY <3>1, <3>3 DEF Sums
      <4>5. h[s] = f[Pick(s)] + g(u)[u]
        BY <3>3
      <4> QED
        BY <4>3, <4>4, <4>5
    <3> QED
      BY <3>2, <3>3
  <2>3. ASSUME NEW s \in SUBSET T
        PROVE  h[s] = IF s = {} THEN 0 ELSE f[Pick(s)] + h[s \ {Pick(s)}]
    <3>1. CASE s = {}
      BY <3>1
    <3>2. CASE s # {}
      <4> DEFINE u == s \ {Pick(s)}
      <4>1. u \in SUBSET T /\ u # T
        BY <2>0, <3>2
      <4>2. h[u] = g(u)[u]
        BY <2>2, <4>1
      <4>3. h[s] = f[Pick(s)] + g(u)[u]
        BY <3>2
      <4> HIDE DEF h
      <4> QED
        BY <3>2, <4>2, <4>3
    <3> QED
      BY <3>1, <3>2
  <2>4. \E k : k = h
    OBVIOUS
  <2>5. h = [s \in SUBSET T |-> h[s]]
    OBVIOUS
  <2> HIDE DEF h
  <2>6. Sums(h, f, T)
    BY <2>3, <2>5 DEF Sums
  <2> QED
    BY <2>6
<1>2. S \in Q
  <2> HIDE DEF Q
  <2> QED
    BY <1>1, SubsetInduction
<1> QED
  BY <1>2

(* A sum, by the element that the fold picks.                              *)
LEMMA SumPicks ==
  ASSUME NEW S, IsFiniteSet(S), NEW f
  PROVE  /\ SumFunctionOnSet(f, {}) = 0
         /\ S # {} => SumFunctionOnSet(f, S) =
                        f[Pick(S)] + SumFunctionOnSet(f, S \ {Pick(S)})
<1> DEFINE g(T) == CHOOSE h : Sums(h, f, T)
<1>1. \A T : IsFiniteSet(T) => Sums(g(T), f, T)
  BY SumsExist
<1>2. \A T : SumFunctionOnSet(f, T) = g(T)[T]
  BY SumIsSolution
<1>3. SumFunctionOnSet(f, {}) = 0
  <2>1. Sums(g({}), f, {})
    BY <1>1, FS_EmptySet
  <2> HIDE DEF g
  <2>2. g({})[{}] = 0
    BY <2>1 DEF Sums
  <2> QED
    BY <1>2, <2>2
<1>4. ASSUME S # {}
      PROVE  SumFunctionOnSet(f, S) = f[Pick(S)] + SumFunctionOnSet(f, S \ {Pick(S)})
  <2> DEFINE U == S \ {Pick(S)}
  <2>1. IsFiniteSet(U) /\ U \in SUBSET S
    BY FS_Subset
  <2>2. Sums(g(S), f, S) /\ Sums(g(U), f, U)
    BY <1>1, <2>1
  <2> HIDE DEF g
  <2>3. g(S)[S] = f[Pick(S)] + g(S)[U]
    BY <1>4, <2>2 DEF Sums
  <2>4. g(S)[U] = g(U)[U]
    BY <2>1, <2>2, SumsAgree
  <2> QED
    BY <1>2, <2>3, <2>4
<1> QED
  BY <1>3, <1>4

LEMMA SumOfNone ==
  ASSUME NEW f
  PROVE  SumFunctionOnSet(f, {}) = 0
BY SumPicks, FS_EmptySet, Zenon

(* A sum of integers is one, and any element can be taken out of it.       *)
LEMMA SumType ==
  ASSUME NEW S, IsFiniteSet(S), NEW f, \A x \in S : f[x] \in Int
  PROVE  SumFunctionOnSet(f, S) \in Int
<1> DEFINE Q == {T \in SUBSET S : SumFunctionOnSet(f, T) \in Int}
<1>1. ASSUME NEW T \in SUBSET S, \A U \in SUBSET T : U # T => U \in Q
      PROVE  T \in Q
  <2>1. CASE T = {}
    BY <2>1, SumOfNone
  <2>2. CASE T # {}
    <3>1. Pick(T) \in T /\ IsFiniteSet(T)
      BY <2>2, PickIsElement, FS_Subset
    <3>2. T \ {Pick(T)} \in Q
      BY <1>1, <3>1
    <3>3. SumFunctionOnSet(f, T) = f[Pick(T)] + SumFunctionOnSet(f, T \ {Pick(T)})
      BY <2>2, <3>1, SumPicks
    <3> QED
      BY <3>1, <3>2, <3>3
  <2> QED
    BY <2>1, <2>2
<1>2. S \in Q
  <2> HIDE DEF Q
  <2> QED
    BY <1>1, SubsetInduction
<1> QED
  BY <1>2

LEMMA SumTakes ==
  ASSUME NEW S, IsFiniteSet(S), NEW f, \A x \in S : f[x] \in Int, NEW x \in S
  PROVE  SumFunctionOnSet(f, S) = f[x] + SumFunctionOnSet(f, S \ {x})
<1> DEFINE sum(T) == SumFunctionOnSet(f, T)
           Q == {T \in SUBSET S : \A y \in T : sum(T) = f[y] + sum(T \ {y})}
<1>1. ASSUME NEW T \in SUBSET S, \A U \in SUBSET T : U # T => U \in Q
      PROVE  T \in Q
  <2> SUFFICES ASSUME NEW y \in T PROVE sum(T) = f[y] + sum(T \ {y})
    OBVIOUS
  <2> DEFINE z == Pick(T)
             R == (T \ {y}) \ {z}
  <2>1. z \in T /\ IsFiniteSet(T) /\ R \in SUBSET S
    BY PickIsElement, FS_Subset
  <2>2. \A U \in SUBSET S : IsFiniteSet(U) /\ sum(U) \in Int
    BY FS_Subset, SumType
  <2>3. sum(T) = f[z] + sum(T \ {z})
    BY <2>1, SumPicks
  <2>4. CASE z = y
    BY <2>3, <2>4
  <2>5. CASE z # y
    <3>1. T \ {z} \in Q /\ T \ {y} \in Q /\ y \in T \ {z} /\ z \in T \ {y}
      BY <1>1, <2>1, <2>5
    <3>2. (T \ {z}) \ {y} = R
      OBVIOUS
    <3>3. sum(T \ {z}) = f[y] + sum(R)
      BY <3>1, <3>2
    <3>4. sum(T \ {y}) = f[z] + sum(R)
      BY <3>1
    <3>5. sum(R) \in Int /\ f[y] \in Int /\ f[z] \in Int
      BY <2>1, <2>2
    <3> HIDE DEF sum, R, z
    <3> QED
      BY <2>3, <3>3, <3>4, <3>5
  <2> QED
    BY <2>4, <2>5
<1>2. S \in Q
  <2> HIDE DEF Q
  <2> QED
    BY <1>1, SubsetInduction
<1> QED
  BY <1>2

LEMMA SumAdds ==
  ASSUME NEW S, IsFiniteSet(S), NEW x, x \notin S, NEW f, f[x] \in Int, \A y \in S : f[y] \in Int
  PROVE  SumFunctionOnSet(f, S \cup {x}) = SumFunctionOnSet(f, S) + f[x]
<1>1. IsFiniteSet(S \cup {x}) /\ (S \cup {x}) \ {x} = S
  BY FS_AddElement
<1> DEFINE more == S \cup {x}
<1>2. SumFunctionOnSet(f, more) = f[x] + SumFunctionOnSet(f, S)
  <2>1. \A y \in more : f[y] \in Int
    OBVIOUS
  <2>2. x \in more
    OBVIOUS
  <2>3. SumFunctionOnSet(f, more) = f[x] + SumFunctionOnSet(f, more \ {x})
    <3> HIDE DEF more
    <3>1. IsFiniteSet(more)
      BY <1>1 DEF more
    <3> QED
      BY <2>1, <2>2, <3>1, SumTakes
  <2> QED
    BY <1>1, <2>3
<1>3. SumFunctionOnSet(f, S) \in Int
  BY SumType
<1> QED
  BY <1>1, <1>2, <1>3

(* Sums add up, element by element, and follow an order of their elements. *)
LEMMA SumOfSums ==
  ASSUME NEW S, IsFiniteSet(S), NEW f, NEW g, NEW h,
         \A x \in S : f[x] \in Int /\ g[x] \in Int /\ h[x] = f[x] + g[x]
  PROVE  SumFunctionOnSet(h, S) = SumFunctionOnSet(f, S) + SumFunctionOnSet(g, S)
<1> DEFINE sum(k, T) == SumFunctionOnSet(k, T)
           Q == {T \in SUBSET S : sum(h, T) = sum(f, T) + sum(g, T)}
<1>1. {} \in Q
  BY SumOfNone
<1>2. ASSUME NEW T \in SUBSET S, NEW x \in S, T \in Q, x \notin T
      PROVE  T \cup {x} \in Q
  <2>1. IsFiniteSet(T) /\ \A y \in T : f[y] \in Int /\ g[y] \in Int /\ h[y] \in Int
    BY FS_Subset
  <2>2. f[x] \in Int /\ g[x] \in Int /\ h[x] \in Int /\ h[x] = f[x] + g[x]
    OBVIOUS
  <2>3. sum(f, T) \in Int /\ sum(g, T) \in Int /\ sum(h, T) \in Int
    BY <2>1, SumType
  <2>4. sum(f, T \cup {x}) = sum(f, T) + f[x]
    BY <1>2, <2>1, <2>2, SumAdds
  <2>5. sum(g, T \cup {x}) = sum(g, T) + g[x]
    BY <1>2, <2>1, <2>2, SumAdds
  <2>6. sum(h, T \cup {x}) = sum(h, T) + h[x]
    BY <1>2, <2>1, <2>2, SumAdds
  <2>7. sum(h, T) = sum(f, T) + sum(g, T)
    BY <1>2
  <2>8. T \cup {x} \in SUBSET S
    OBVIOUS
  <2> HIDE DEF sum
  <2> QED
    BY <2>2, <2>3, <2>4, <2>5, <2>6, <2>7, <2>8
<1>3. S \in Q
  <2> HIDE DEF Q
  <2> QED
    BY <1>1, <1>2, ElementInduction
<1> QED
  BY <1>3

LEMMA SumIsMonotone ==
  ASSUME NEW S, IsFiniteSet(S), NEW f, NEW g,
         \A x \in S : f[x] \in Int /\ g[x] \in Int /\ f[x] <= g[x]
  PROVE  SumFunctionOnSet(f, S) <= SumFunctionOnSet(g, S)
<1> DEFINE sum(k, T) == SumFunctionOnSet(k, T)
           Q == {T \in SUBSET S : sum(f, T) <= sum(g, T)}
<1>1. {} \in Q
  BY SumOfNone
<1>2. ASSUME NEW T \in SUBSET S, NEW x \in S, T \in Q, x \notin T
      PROVE  T \cup {x} \in Q
  <2>1. IsFiniteSet(T) /\ \A y \in T : f[y] \in Int /\ g[y] \in Int
    BY FS_Subset
  <2>2. f[x] \in Int /\ g[x] \in Int /\ f[x] <= g[x]
    OBVIOUS
  <2>3. sum(f, T) \in Int /\ sum(g, T) \in Int
    BY <2>1, SumType
  <2>4. sum(f, T \cup {x}) = sum(f, T) + f[x]
    BY <1>2, <2>1, <2>2, SumAdds
  <2>5. sum(g, T \cup {x}) = sum(g, T) + g[x]
    BY <1>2, <2>1, <2>2, SumAdds
  <2>6. sum(f, T) <= sum(g, T)
    BY <1>2
  <2>7. T \cup {x} \in SUBSET S
    OBVIOUS
  <2> HIDE DEF sum
  <2> QED
    BY <2>2, <2>3, <2>4, <2>5, <2>6, <2>7
<1>3. S \in Q
  <2> HIDE DEF Q
  <2> QED
    BY <1>1, <1>2, ElementInduction
<1> QED
  BY <1>3


(* A sum with one term, and a set counted by what g makes of its elements. *)
LEMMA SumOfZeros ==
  ASSUME NEW S, IsFiniteSet(S), NEW f, \A x \in S : f[x] = 0
  PROVE  SumFunctionOnSet(f, S) = 0
<1> DEFINE Q == {T \in SUBSET S : SumFunctionOnSet(f, T) = 0}
<1>1. {} \in Q
  BY SumOfNone
<1>2. ASSUME NEW T \in SUBSET S, NEW x \in S, T \in Q, x \notin T
      PROVE  T \cup {x} \in Q
  <2>1. IsFiniteSet(T) /\ (\A y \in T : f[y] \in Int) /\ f[x] \in Int
    BY FS_Subset
  <2>2. SumFunctionOnSet(f, T \cup {x}) = SumFunctionOnSet(f, T) + f[x]
    BY <1>2, <2>1, SumAdds
  <2>3. SumFunctionOnSet(f, T) = 0 /\ f[x] = 0 /\ T \cup {x} \in SUBSET S
    BY <1>2
  <2> QED
    BY <2>2, <2>3
<1>3. S \in Q
  <2> HIDE DEF Q
  <2> QED
    BY <1>1, <1>2, ElementInduction
<1> QED
  BY <1>3

LEMMA SumOfOne ==
  ASSUME NEW S, IsFiniteSet(S), NEW x \in S, NEW n \in Int, NEW f,
         f[x] = n, \A y \in S \ {x} : f[y] = 0
  PROVE  SumFunctionOnSet(f, S) = n
<1>1. \A y \in S : f[y] \in Int
  OBVIOUS
<1>2. SumFunctionOnSet(f, S) = f[x] + SumFunctionOnSet(f, S \ {x})
  BY <1>1, SumTakes
<1>3. SumFunctionOnSet(f, S \ {x}) = 0
  BY FS_Subset, SumOfZeros
<1> QED
  BY <1>2, <1>3

LEMMA SumOfCounts ==
  ASSUME NEW S, IsFiniteSet(S), NEW T, IsFiniteSet(T), NEW g, NEW count,
         \A x \in S : count[x] = Cardinality({t \in T : g[t] = x})
  PROVE  SumFunctionOnSet(count, S) = Cardinality({t \in T : g[t] \in S})
<1> DEFINE Of(A) == {t \in T : g[t] \in A}
           sum(A) == SumFunctionOnSet(count, A)
           Q == {A \in SUBSET S : sum(A) = Cardinality(Of(A))}
<1>1. {} \in Q
  <2>1. Of({}) = {}
    OBVIOUS
  <2>2. Cardinality(Of({})) = 0
    BY <2>1, FS_EmptySet
  <2> QED
    BY <2>2, SumOfNone
<1>2. ASSUME NEW A \in SUBSET S, NEW x \in S, A \in Q, x \notin A
      PROVE  A \cup {x} \in Q
  <2> DEFINE R == {t \in T : g[t] = x}
  <2>1. /\ IsFiniteSet(A) /\ IsFiniteSet(R) /\ IsFiniteSet(Of(A))
        /\ Cardinality(R) \in Nat /\ Cardinality(Of(A)) \in Nat
    BY FS_Subset, FS_CardinalityType
  <2>2. Of(A \cup {x}) = Of(A) \cup R /\ Of(A) \cap R = {}
    BY <1>2
  <2>3. Cardinality(Of(A \cup {x})) = Cardinality(Of(A)) + Cardinality(R)
    <3>1. Cardinality(Of(A) \cup R) =
            Cardinality(Of(A)) + Cardinality(R) - Cardinality(Of(A) \cap R)
      <4> HIDE DEF Of, R
      <4> QED
        BY <2>1, FS_Union
    <3>2. Cardinality(Of(A) \cap R) = 0
      BY <2>2, FS_EmptySet
    <3>3. Cardinality(Of(A \cup {x})) = Cardinality(Of(A) \cup R)
      BY <2>2
    <3> HIDE DEF Of, R
    <3> QED
      BY <2>1, <3>1, <3>2, <3>3
  <2>4. ASSUME NEW y \in S PROVE count[y] \in Int
    <3>1. {t \in T : g[t] = y} \in SUBSET T
      OBVIOUS
    <3>2. Cardinality({t \in T : g[t] = y}) \in Nat
      BY <3>1, FS_Subset, FS_CardinalityType
    <3>3. count[y] = Cardinality({t \in T : g[t] = y})
      OBVIOUS
    <3> QED
      BY <3>2, <3>3
  <2>5. sum(A \cup {x}) = sum(A) + count[x]
    BY <1>2, <2>1, <2>4, SumAdds
  <2>6. sum(A) = Cardinality(Of(A)) /\ count[x] = Cardinality(R) /\ A \cup {x} \in SUBSET S
    BY <1>2
  <2> HIDE DEF Of, R, sum
  <2> QED
    BY <2>3, <2>5, <2>6
<1>3. S \in Q
  <2> HIDE DEF Q
  <2> QED
    BY <1>1, <1>2, ElementInduction
<1> QED
  BY <1>3

LEMMA SumOfParts ==
  ASSUME NEW S, IsFiniteSet(S), NEW T, IsFiniteSet(T), NEW g, NEW of, NEW count,
         \A t \in T : g[t] \in S,
         \A x \in S : \A t : t \in of[x] <=> t \in T /\ g[t] = x,
         \A x \in S : count[x] = Cardinality(of[x])
  PROVE  SumFunctionOnSet(count, S) = Cardinality(T)
<1>1. \A x \in S : of[x] = {t \in T : g[t] = x}
  OBVIOUS
<1>2. \A x \in S : count[x] = Cardinality({t \in T : g[t] = x})
  BY <1>1
<1>3. {t \in T : g[t] \in S} = T
  OBVIOUS
<1>4. SumFunctionOnSet(count, S) = Cardinality({t \in T : g[t] \in S})
  BY <1>2, SumOfCounts, SMTT(30)
<1> QED
  BY <1>3, <1>4

LEMMA DivisionIsOrdered ==
  ASSUME NEW C \in Nat \ {0}, NEW a \in Nat, NEW b \in Nat, a <= b
  PROVE  a \div C \in Nat /\ b \div C \in Nat /\ a \div C <= b \div C
<1>1. C * (a \div C) <= a /\ a < C * (a \div C) + C /\ a \div C \in Int
  BY SMT
<1>2. C * (b \div C) <= b /\ b < C * (b \div C) + C /\ b \div C \in Int
  BY SMT
<1>3. ASSUME NEW x \in Int, NEW y \in Int, x > y
      PROVE  C * x >= C * y + C
  <2>1. C * x - C * y = C * (x - y)
    BY <1>3, SMT
  <2>2. C * (x - y) >= C
    BY <1>3, SMT
  <2> QED
    BY <1>3, <2>1, <2>2, SMT
<1>4. a \div C <= b \div C
  BY <1>1, <1>2, <1>3, SMT
<1>5. a \div C >= 0 /\ b \div C >= 0
  BY <1>1, <1>2, SMT
<1> QED
  BY <1>1, <1>2, <1>4, <1>5

LEMMA SumOfMembers ==
  ASSUME NEW S, IsFiniteSet(S), NEW E, NEW f, \A x \in S : f[x] = IF x \in E THEN 1 ELSE 0
  PROVE  SumFunctionOnSet(f, S) = Cardinality(S \cap E)
<1> DEFINE Q == {T \in SUBSET S : SumFunctionOnSet(f, T) = Cardinality(T \cap E)}
<1>1. {} \in Q
  <2>1. {} \cap E = {}
    OBVIOUS
  <2>2. Cardinality({} \cap E) = 0
    BY <2>1, FS_EmptySet
  <2> QED
    BY <2>2, SumOfNone
<1>2. ASSUME NEW T \in SUBSET S, NEW x \in S, T \in Q, x \notin T
      PROVE  T \cup {x} \in Q
  <2>1. /\ IsFiniteSet(T) /\ (\A y \in T : f[y] \in Int) /\ f[x] \in Int
        /\ IsFiniteSet(T \cap E) /\ Cardinality(T \cap E) \in Nat
    <3>1. IsFiniteSet(T)
      BY FS_Subset
    <3>2. IsFiniteSet(T \cap E)
      BY <3>1, FS_Subset
    <3> QED
      BY <3>1, <3>2, FS_CardinalityType
  <2>2. SumFunctionOnSet(f, T \cup {x}) = SumFunctionOnSet(f, T) + f[x]
    BY <1>2, <2>1, SumAdds
  <2>3. SumFunctionOnSet(f, T) = Cardinality(T \cap E)
    BY <1>2
  <2>4. CASE x \in E
    <3>1. (T \cup {x}) \cap E = (T \cap E) \cup {x} /\ x \notin T \cap E /\ f[x] = 1
      BY <1>2, <2>4
    <3>2. Cardinality((T \cap E) \cup {x}) = Cardinality(T \cap E) + 1
      BY <2>1, <3>1, FS_AddElement
    <3> QED
      BY <2>2, <2>3, <3>1, <3>2
  <2>5. CASE x \notin E
    <3>1. (T \cup {x}) \cap E = T \cap E /\ f[x] = 0
      BY <1>2, <2>5
    <3>2. Cardinality((T \cup {x}) \cap E) = Cardinality(T \cap E)
      BY <3>1
    <3>3. SumFunctionOnSet(f, T \cup {x}) = Cardinality(T \cap E)
      BY <2>1, <2>2, <2>3, <3>1
    <3> QED
      BY <3>2, <3>3
  <2> QED
    BY <2>4, <2>5
<1>3. S \in Q
  <2> HIDE DEF Q
  <2> QED
    BY <1>1, <1>2, ElementInduction
<1> QED
  BY <1>3

-----------------------------------------------------------------------------
(* PlaybackStats: a playback is counted once                               *)

Sent == UNION ReportScopes
Fields(name) == {report[name] : report \in Sent}
Playbacks ==
  [event : Fields("event"), item : Fields("item"), position : Fields("position"),
   paused : Fields("paused"), at : Ticks, status : {"ok", "error"}]
Traffic == [event : {"traffic"}, at : Ticks]
PlayRequests ==
  [phase : {"state", "line"}, at : Ticks, event : Fields("event"), item : Fields("item"),
   position : Fields("position"), paused : Fields("paused"), lines : Nat]
KnownStates ==
  [known : {TRUE}, item : Fields("item"), at : Ticks, position : Fields("position"),
   paused : Fields("paused"), closed : BOOLEAN]
StatRows == [time : Nat, plays : Nat, sessions : Nat, errors : Nat, bytes : Nat]

StatsTypeOK ==
  /\ psNow \in Ticks
  /\ psScope \in ReportScopes
  /\ psReport \in [Reports -> {NoReport} \cup PlayRequests]
  /\ psQueue \in Seq(Playbacks \cup Traffic)
  /\ psWriting \in Seq(Playbacks \cup Traffic) /\ Len(psWriting) <= 1
  /\ psState \in {NoState} \cup KnownStates
  /\ {psEvent, psSession} \subseteq Ticks \cup {LongAgo}
  /\ psDaily \in StatRows /\ psBuckets \in [Buckets -> StatRows]
  /\ psTimed \in [Ticks -> Nat]
  /\ {psPlays, psSessions} \subseteq SUBSET Ticks

(* A tick that was counted is before the state, a play not after the last  *)
(* start, a session not after the last report of one.                      *)
OnceOK ==
  /\ \A t \in Ticks : psTimed[t] <= 1
  /\ \A t \in Ticks : psTimed[t] > 0 => psState.known /\ t < psState.at
  /\ \A s \in psPlays : s <= psEvent
  /\ \A s \in psSessions : s <= psSession
  /\ \A times \in {psPlays, psSessions} : \A s, t \in times : s < t => t - s >= PlayWindow

(* The traffic of which only the day has been written is missing from its  *)
(* bucket.                                                                 *)
TotalsOK ==
  /\ \A field \in {"time", "plays", "sessions", "errors"} : BucketTotal(field) = psDaily[field]
  /\ BucketTotal("bytes") + Len(psWriting) <= psDaily.bytes

StatsInv == StatsTypeOK /\ OnceOK /\ TotalsOK

LEMMA TicksAndBuckets ==
  /\ IsFiniteSet(Ticks) /\ IsFiniteSet(Buckets) /\ Ticks \in SUBSET Nat
  /\ \A t \in Ticks : BucketOf(t) \in Buckets
<1>1. MaxPlayNow \in Nat /\ BucketTime \in Nat \ {0}
  BY StatsAssumption
<1>2. MaxPlayNow \div BucketTime \in Nat
  BY <1>1, DivisionIsOrdered
<1>3. IsFiniteSet(Ticks) /\ IsFiniteSet(Buckets) /\ Ticks \in SUBSET Nat
  BY <1>1, <1>2, FS_Interval DEF Ticks, Buckets
<1>4. ASSUME NEW t \in Ticks PROVE BucketOf(t) \in Buckets
  <2>1. t \in Nat /\ t <= MaxPlayNow
    BY <1>1 DEF Ticks
  <2>2. t \div BucketTime \in Nat /\ t \div BucketTime <= MaxPlayNow \div BucketTime
    BY <1>1, <2>1, DivisionIsOrdered
  <2> QED
    BY <1>2, <2>2 DEF BucketOf, Buckets
<1> QED
  BY <1>3, <1>4

(* The total of a field of rows that grow by what more says.               *)
TotalIn(rows, field) == SumFunction([b \in Buckets |-> rows[b][field]])

LEMMA TotalGrows ==
  ASSUME NEW rows, NEW after, NEW field, NEW more,
         \A b \in Buckets : /\ rows[b][field] \in Int /\ more[b] \in Int
                            /\ after[b][field] = rows[b][field] + more[b]
  PROVE  TotalIn(after, field) = TotalIn(rows, field) + SumFunctionOnSet(more, Buckets)
<1> DEFINE f == [b \in Buckets |-> rows[b][field]]
           g == [b \in Buckets |-> after[b][field]]
<1>1. \A b \in Buckets : f[b] \in Int /\ more[b] \in Int /\ g[b] = f[b] + more[b]
  OBVIOUS
<1>2. DOMAIN f = Buckets /\ DOMAIN g = Buckets
  OBVIOUS
<1>3. TotalIn(rows, field) = SumFunctionOnSet(f, Buckets)
  BY <1>2 DEF TotalIn, SumFunction
<1>4. TotalIn(after, field) = SumFunctionOnSet(g, Buckets)
  BY <1>2 DEF TotalIn, SumFunction
<1> HIDE DEF f, g
<1>5. SumFunctionOnSet(g, Buckets) = SumFunctionOnSet(f, Buckets) + SumFunctionOnSet(more, Buckets)
  BY <1>1, TicksAndBuckets, SumOfSums
<1> QED
  BY <1>3, <1>4, <1>5

LEMMA TotalStays ==
  ASSUME NEW rows, NEW after, NEW field,
         \A b \in Buckets : rows[b][field] = after[b][field]
  PROVE  TotalIn(after, field) = TotalIn(rows, field)
<1>1. [b \in Buckets |-> rows[b][field]] = [b \in Buckets |-> after[b][field]]
  OBVIOUS
<1> QED
  BY <1>1 DEF TotalIn

IsCount(more) == more.plays \in Nat /\ more.sessions \in Nat /\ more.errors \in Nat

LEMMA PlusAdds ==
  ASSUME NEW row \in StatRows, NEW n \in Nat, NEW more, IsCount(more)
  PROVE  /\ Plus(row, n, more) \in StatRows
         /\ Plus(row, n, more).time = row.time + n
         /\ Plus(row, n, more).plays = row.plays + more.plays
         /\ Plus(row, n, more).sessions = row.sessions + more.sessions
         /\ Plus(row, n, more).errors = row.errors + more.errors
         /\ Plus(row, n, more).bytes = row.bytes
<1> DEFINE new == Plus(row, n, more)
           a == row.time + n
           b == row.plays + more.plays
           c == row.sessions + more.sessions
           d == row.errors + more.errors
<1>1. a \in Nat /\ b \in Nat /\ c \in Nat /\ d \in Nat
  BY DEF StatRows, IsCount
<1>2. new = [row EXCEPT !.time = a, !.plays = b, !.sessions = c, !.errors = d]
  BY DEF Plus
<1> HIDE DEF new, a, b, c, d
<1>3. /\ new \in StatRows /\ new.time = a /\ new.plays = b /\ new.sessions = c
      /\ new.errors = d /\ new.bytes = row.bytes
  BY <1>1, <1>2 DEF StatRows
<1> QED
  BY <1>3 DEF new, a, b, c, d

(* What a counted report adds to the day it adds to the buckets.           *)
LEMMA CountedAddsUp ==
  ASSUME StatsInv, NEW in, in.at \in Ticks, NEW time \in SUBSET Ticks, NEW more,
         IsCount(more), Counted(in, time, more)
  PROVE  /\ psDaily' \in StatRows /\ psBuckets' \in [Buckets -> StatRows]
         /\ \A field \in {"time", "plays", "sessions", "errors"} :
              BucketTotal(field)' = psDaily'[field]
         /\ psDaily'.bytes = psDaily.bytes
         /\ BucketTotal("bytes")' = BucketTotal("bytes")
         /\ psTimed' \in [Ticks -> Nat]
         /\ \A t \in Ticks : psTimed'[t] = psTimed[t] + IF t \in time THEN 1 ELSE 0
<1> DEFINE x == BucketOf(in.at)
           part(b) == {t \in time : BucketOf(t) = b}
           played == [b \in Buckets |-> Cardinality(part(b))]
           at(n) == [b \in Buckets |-> IF b = x THEN n ELSE 0]
<1>1. /\ psDaily \in StatRows /\ psBuckets \in [Buckets -> StatRows]
      /\ psTimed \in [Ticks -> Nat]
  BY DEF StatsInv, StatsTypeOK
<1>2. /\ IsFiniteSet(Buckets) /\ IsFiniteSet(time) /\ Cardinality(time) \in Nat
      /\ \A t \in time : BucketOf(t) \in Buckets
      /\ x \in Buckets
  BY TicksAndBuckets, FS_Subset, FS_CardinalityType
<1>3. \A b \in Buckets : Cardinality(part(b)) \in Nat
  <2> TAKE b \in Buckets
  <2>1. part(b) \in SUBSET time
    OBVIOUS
  <2> HIDE DEF part
  <2> QED
    BY <1>2, <2>1, FS_Subset, FS_CardinalityType
<1>4. /\ psDaily' \in StatRows
      /\ psDaily'.time = psDaily.time + Cardinality(time)
      /\ psDaily'.plays = psDaily.plays + more.plays
      /\ psDaily'.sessions = psDaily.sessions + more.sessions
      /\ psDaily'.errors = psDaily.errors + more.errors
      /\ psDaily'.bytes = psDaily.bytes
  <2> DEFINE n == Cardinality(time)
  <2>1. psDaily' = Plus(psDaily, n, more) /\ n \in Nat
    BY <1>2 DEF Counted
  <2>2. /\ psDaily' \in StatRows /\ psDaily'.time = psDaily.time + n
        /\ psDaily'.plays = psDaily.plays + more.plays
        /\ psDaily'.sessions = psDaily.sessions + more.sessions
        /\ psDaily'.errors = psDaily.errors + more.errors
        /\ psDaily'.bytes = psDaily.bytes
    <3> HIDE DEF n
    <3> QED
      BY <1>1, <2>1, PlusAdds
  <2> QED
    BY <2>2
<1>5. ASSUME NEW b \in Buckets
      PROVE  /\ psBuckets'[b] \in StatRows
             /\ psBuckets'[b].time = psBuckets[b].time + played[b]
             /\ psBuckets'[b].plays = psBuckets[b].plays + at(more.plays)[b]
             /\ psBuckets'[b].sessions = psBuckets[b].sessions + at(more.sessions)[b]
             /\ psBuckets'[b].errors = psBuckets[b].errors + at(more.errors)[b]
             /\ psBuckets'[b].bytes = psBuckets[b].bytes
  <2> DEFINE n == Cardinality(part(b))
             its == IF b = x THEN more ELSE Nothing
  <2>1. psBuckets[b] \in StatRows /\ n \in Nat
    BY <1>1, <1>3
  <2>2. psBuckets'[b] = Plus(psBuckets[b], n, its)
    BY DEF Counted
  <2>3. played[b] = n /\ \A k : at(k)[b] = IF b = x THEN k ELSE 0
    OBVIOUS
  <2>4. Nothing.plays = 0 /\ Nothing.sessions = 0 /\ Nothing.errors = 0
    BY DEF Nothing
  <2>5. /\ its.plays = at(more.plays)[b] /\ its.sessions = at(more.sessions)[b]
        /\ its.errors = at(more.errors)[b]
    BY <2>3, <2>4
  <2>6. IsCount(its)
    BY <2>4 DEF IsCount
  <2> HIDE DEF n, x, played, at, its
  <2>7. /\ psBuckets'[b] \in StatRows
        /\ psBuckets'[b].time = psBuckets[b].time + n
        /\ psBuckets'[b].plays = psBuckets[b].plays + its.plays
        /\ psBuckets'[b].sessions = psBuckets[b].sessions + its.sessions
        /\ psBuckets'[b].errors = psBuckets[b].errors + its.errors
        /\ psBuckets'[b].bytes = psBuckets[b].bytes
    BY <2>1, <2>2, <2>6, PlusAdds
  <2> QED
    BY <2>3, <2>5, <2>7
<1>6. psBuckets' \in [Buckets -> StatRows]
  <2>1. psBuckets' = [b \in Buckets |-> psBuckets'[b]]
    BY DEF Counted
  <2> QED
    BY <1>5, <2>1
<1>7. \A b \in Buckets : /\ psBuckets[b].time \in Int /\ psBuckets[b].plays \in Int
                         /\ psBuckets[b].sessions \in Int /\ psBuckets[b].errors \in Int
  BY <1>1 DEF StatRows
<1>19. more.plays \in Nat /\ more.sessions \in Nat /\ more.errors \in Nat
  BY DEF IsCount
<1>8. ASSUME NEW n \in Nat
      PROVE  SumFunctionOnSet(at(n), Buckets) = n /\ \A b \in Buckets : at(n)[b] \in Int
  <2>1. at(n)[x] = n /\ \A b \in Buckets \ {x} : at(n)[b] = 0
    BY <1>2
  <2>2. \A b \in Buckets : at(n)[b] \in Int
    OBVIOUS
  <2> HIDE DEF at
  <2> QED
    BY <1>2, <2>1, <2>2, SumOfOne
<1>9. SumFunctionOnSet(played, Buckets) = Cardinality(time)
  <2> DEFINE g == [t \in time |-> BucketOf(t)]
             of == [b \in Buckets |-> part(b)]
  <2>1. \A t \in time : g[t] \in Buckets
    BY <1>2
  <2>2. \A b \in Buckets : \A t : t \in of[b] <=> t \in time /\ g[t] = b
    OBVIOUS
  <2>3. \A b \in Buckets : played[b] = Cardinality(of[b])
    OBVIOUS
  <2> HIDE DEF g, of, played, part
  <2> QED
    BY <1>2, <2>1, <2>2, <2>3, SumOfParts
<1>10. \A b \in Buckets : played[b] \in Int
  BY <1>3
<1> HIDE DEF played, at, x
<1>11. \A field : BucketTotal(field) = TotalIn(psBuckets, field)
                  /\ BucketTotal(field)' = TotalIn(psBuckets', field)
  BY DEF BucketTotal, TotalIn
<1>12. /\ BucketTotal("time") = psDaily.time /\ BucketTotal("plays") = psDaily.plays
       /\ BucketTotal("sessions") = psDaily.sessions /\ BucketTotal("errors") = psDaily.errors
  BY DEF StatsInv, TotalsOK
<1>13. BucketTotal("time")' = psDaily'.time
  <2>1. TotalIn(psBuckets', "time") = TotalIn(psBuckets, "time") + Cardinality(time)
    BY <1>5, <1>7, <1>9, <1>10, TotalGrows
  <2> QED
    BY <1>4, <1>11, <1>12, <2>1
<1>14. BucketTotal("plays")' = psDaily'.plays
  <2>1. TotalIn(psBuckets', "plays") = TotalIn(psBuckets, "plays") + more.plays
    BY <1>5, <1>7, <1>8, <1>19, TotalGrows
  <2> QED
    BY <1>4, <1>11, <1>12, <2>1
<1>15. BucketTotal("sessions")' = psDaily'.sessions
  <2>1. TotalIn(psBuckets', "sessions") = TotalIn(psBuckets, "sessions") + more.sessions
    BY <1>5, <1>7, <1>8, <1>19, TotalGrows
  <2> QED
    BY <1>4, <1>11, <1>12, <2>1
<1>16. BucketTotal("errors")' = psDaily'.errors
  <2>1. TotalIn(psBuckets', "errors") = TotalIn(psBuckets, "errors") + more.errors
    BY <1>5, <1>7, <1>8, <1>19, TotalGrows
  <2> QED
    BY <1>4, <1>11, <1>12, <2>1
<1>17. BucketTotal("bytes")' = BucketTotal("bytes")
  BY <1>5, <1>11, TotalStays
<1>18. /\ psTimed' \in [Ticks -> Nat]
       /\ \A t \in Ticks : psTimed'[t] = psTimed[t] + IF t \in time THEN 1 ELSE 0
  <2>1. psTimed' = [t \in Ticks |-> psTimed[t] + IF t \in time THEN 1 ELSE 0]
    BY DEF Counted
  <2>2. \A t \in Ticks : psTimed[t] \in Nat
    BY <1>1
  <2> HIDE DEF Counted
  <2> QED
    BY <2>1, <2>2
<1> QED
  BY <1>4, <1>6, <1>13, <1>14, <1>15, <1>16, <1>17, <1>18

LEMMA BytesTotal ==
  ASSUME StatsTypeOK
  PROVE  BucketTotal("bytes") \in Int
<1> DEFINE f == [b \in Buckets |-> psBuckets[b]["bytes"]]
<1>1. \A b \in Buckets : f[b] \in Int
  BY DEF StatsTypeOK, StatRows
<1>2. BucketTotal("bytes") = SumFunctionOnSet(f, Buckets)
  BY DEF BucketTotal, SumFunction
<1> HIDE DEF f
<1> QED
  BY <1>1, <1>2, TicksAndBuckets, SumType

(* A report as it is written, of a request or of the queue.                *)
IsReport(in) ==
  /\ in.at \in Ticks /\ in.item \in Fields("item") /\ in.position \in Fields("position")
  /\ in.paused \in Fields("paused")

LEMMA KnownAt ==
  ASSUME NEW s \in {NoState} \cup KnownStates
  PROVE  s.known => s \in KnownStates /\ s.at \in Ticks
<1>1. CASE s = NoState
  <2>1. NoState.known = FALSE
    BY DEF NoState
  <2> QED
    BY <1>1, <2>1, Zenon
<1>2. CASE s \in KnownStates
  BY <1>2 DEF KnownStates
<1> QED
  BY <1>1, <1>2

(* The state of the play moves on, over the ticks that count as played.    *)
LEMMA StateMovesOn ==
  ASSUME StatsTypeOK, NEW in, IsReport(in)
  PROVE  /\ StateAfter(in) \in {NoState} \cup KnownStates
         /\ psState.known => StateAfter(in).known /\ psState.at <= StateAfter(in).at
         /\ Interval(in) \in SUBSET Ticks
         /\ \A t \in Interval(in) :
              /\ psState.known /\ psState.at <= t
              /\ StateAfter(in).known /\ t < StateAfter(in).at
<1> DEFINE state == StateOf(in)
<1>1. psState \in {NoState} \cup KnownStates /\ Ticks \in SUBSET Nat
  BY TicksAndBuckets DEF StatsTypeOK
<1>2. state \in KnownStates /\ state.at = in.at /\ state.known /\ in.at \in Nat
  BY <1>1 DEF StateOf, KnownStates, IsReport
<1>3. CASE ~psState.known
  <2>1. StateAfter(in) = state
    BY <1>3, Zenon DEF StateAfter, Ignores
  <2>2. Interval(in) = {}
    BY <1>3 DEF Interval
  <2> QED
    BY <1>2, <1>3, <2>1, <2>2
<1>4. CASE psState.known
  <2>1. psState \in KnownStates
    BY <1>1, <1>4 DEF NoState
  <2>2. psState.at \in Ticks /\ psState.at \in Nat /\ psState.position \in Fields("position")
    BY <1>1, <2>1 DEF KnownStates
  <2>3. CASE Ignores(in)
    <3>1. StateAfter(in) = psState /\ Interval(in) = {}
      BY <2>3, Zenon DEF StateAfter, Interval
    <3> QED
      BY <1>1, <1>4, <2>2, <3>1
  <2>4. CASE ~Ignores(in)
    <3>1. psState.at <= in.at
      BY <1>2, <1>4, <2>2, <2>4 DEF Ignores
    <3>2. Interval(in) \subseteq psState.at..in.at - 1
      BY DEF Interval
    <3>3. StateAfter(in) \in KnownStates /\ StateAfter(in).at = in.at /\ StateAfter(in).known
      <4>1. CASE in.event = "playing"
        <5>1. StateAfter(in) = state
          BY <2>4, <4>1 DEF StateAfter
        <5> QED
          BY <1>2, <5>1
      <4>2. CASE in.event # "playing" /\ in.event = "stopped" /\ (in.at = psState.at \/ OtherItem(in))
        <5> DEFINE after == [psState EXCEPT !.closed = TRUE, !.at = in.at]
        <5>1. StateAfter(in) = after
          BY <1>4, <2>4, <4>2 DEF StateAfter
        <5>2. after \in KnownStates /\ after.at = in.at /\ after.known
          BY <2>1 DEF KnownStates, IsReport
        <5> QED
          BY <5>1, <5>2
      <4>3. CASE in.event # "playing" /\ ~(in.event = "stopped" /\ (in.at = psState.at \/ OtherItem(in)))
        <5> DEFINE place == IF state.position = 0 /\ ~OtherItem(in)
                            THEN psState.position ELSE state.position
                   after == [state EXCEPT !.position = place]
        <5>1. StateAfter(in) = after
          BY <1>4, <2>4, <4>3 DEF StateAfter
        <5>2. place \in Fields("position")
          BY <1>2, <2>2 DEF KnownStates
        <5>3. after \in KnownStates /\ after.at = in.at /\ after.known
          <6> HIDE DEF state, place
          <6> QED
            BY <1>2, <5>2 DEF KnownStates
        <5> QED
          BY <5>1, <5>3
      <4> QED
        BY <4>1, <4>2, <4>3
    <3>4. \A t \in psState.at..in.at - 1 : t \in Ticks /\ psState.at <= t /\ t < in.at
      BY <1>2, <2>2, StatsAssumption DEF Ticks, IsReport
    <3> QED
      BY <1>4, <3>1, <3>2, <3>3, <3>4
  <2> QED
    BY <2>3, <2>4
<1> QED
  BY <1>3, <1>4

(* What the tables hold stays right when the tables do not change.         *)
LEMMA TablesStay ==
  ASSUME StatsInv, UNCHANGED statTables, psWriting' \in {psWriting, <<>>}
  PROVE  OnceOK' /\ TotalsOK'
<1>1. UNCHANGED <<psState, psEvent, psSession, psDaily, psBuckets, psTimed, psPlays, psSessions>>
  BY DEF statTables
<1>2. OnceOK'
  BY <1>1 DEF StatsInv, OnceOK
<1>3. \A field : BucketTotal(field)' = BucketTotal(field)
  BY <1>1 DEF BucketTotal
<1>4. Len(psWriting) \in Nat /\ Len(psWriting') \in Nat /\ Len(psWriting') <= Len(psWriting)
  BY DEF StatsInv, StatsTypeOK
<1>5. BucketTotal("bytes") \in Int /\ psDaily.bytes \in Int
  BY BytesTotal DEF StatsInv, StatsTypeOK, StatRows
<1>6. BucketTotal("bytes")' + Len(psWriting') <= psDaily'.bytes
  <2>1. BucketTotal("bytes") + Len(psWriting) <= psDaily.bytes /\ psDaily'.bytes = psDaily.bytes
    BY <1>1 DEF StatsInv, TotalsOK
  <2> QED
    BY <1>3, <1>4, <1>5, <2>1
<1> QED
  BY <1>1, <1>2, <1>3, <1>6 DEF StatsInv, TotalsOK

TablesType ==
  /\ psState \in {NoState} \cup KnownStates
  /\ {psEvent, psSession} \subseteq Ticks \cup {LongAgo}
  /\ psDaily \in StatRows /\ psBuckets \in [Buckets -> StatRows]
  /\ psTimed \in [Ticks -> Nat]
  /\ {psPlays, psSessions} \subseteq SUBSET Ticks

LEMMA TablesTypeStays ==
  ASSUME StatsInv, UNCHANGED statTables
  PROVE  TablesType'
BY DEF StatsInv, StatsTypeOK, TablesType, statTables

(* The times that were counted as played stay apart.                       *)
LEMMA TimedOnce ==
  ASSUME StatsInv, NEW in, IsReport(in), NEW time, NEW after,
         \/ time = Interval(in) /\ after = StateAfter(in)
         \/ time = {} /\ after = psState,
         psState' = after,
         psTimed' \in [Ticks -> Nat],
         \A t \in Ticks : psTimed'[t] = psTimed[t] + IF t \in time THEN 1 ELSE 0
  PROVE  /\ psState' \in {NoState} \cup KnownStates
         /\ time \in SUBSET Ticks
         /\ \A t \in Ticks : psTimed'[t] <= 1
         /\ \A t \in Ticks : psTimed'[t] > 0 => psState'.known /\ t < psState'.at
<1>1. StatsTypeOK /\ OnceOK /\ Ticks \in SUBSET Nat
  BY TicksAndBuckets DEF StatsInv
<1>2. psState \in {NoState} \cup KnownStates /\ psTimed \in [Ticks -> Nat]
  BY <1>1 DEF StatsTypeOK
<1>3. /\ after \in {NoState} \cup KnownStates
      /\ psState.known => after.known /\ psState.at <= after.at
      /\ time \in SUBSET Ticks
      /\ \A t \in time : /\ psState.known /\ psState.at <= t
                         /\ after.known /\ t < after.at
  <2>1. CASE time = Interval(in) /\ after = StateAfter(in)
    BY <1>1, <2>1, StateMovesOn
  <2>2. CASE time = {} /\ after = psState
    <3>1. psState.known => psState.at \in Nat
      BY <1>1, <1>2, KnownAt
    <3> QED
      BY <1>2, <2>2, <3>1
  <2> QED
    BY <2>1, <2>2
<1>4. ASSUME NEW t \in Ticks
      PROVE  psTimed'[t] <= 1 /\ (psTimed'[t] > 0 => psState'.known /\ t < psState'.at)
  <2>1. psTimed[t] \in Nat /\ psTimed[t] <= 1 /\ t \in Nat
    BY <1>1, <1>2 DEF OnceOK
  <2>2. CASE t \in time
    <3>1. psState.known /\ psState.at <= t /\ after.known /\ t < after.at
      BY <1>3, <2>2
    <3>2. psState.at \in Nat
      BY <1>1, <1>2, <3>1, KnownAt
    <3>3. ~(t < psState.at)
      BY <2>1, <3>1, <3>2
    <3>4. ~(psTimed[t] > 0)
      BY <1>1, <3>3 DEF OnceOK
    <3>5. psTimed'[t] = 1
      BY <2>1, <2>2, <3>4
    <3> QED
      BY <3>1, <3>5
  <2>3. CASE t \notin time
    <3>1. psTimed'[t] = psTimed[t]
      BY <2>1, <2>3
    <3>2. CASE psTimed[t] > 0
      <4>1. psState.known /\ t < psState.at
        BY <1>1, <3>2 DEF OnceOK
      <4>2. after.known /\ psState.at <= after.at /\ psState.at \in Nat /\ after.at \in Nat
        BY <1>1, <1>2, <1>3, <4>1, KnownAt
      <4>3. t < after.at
        BY <2>1, <4>1, <4>2
      <4> QED
        BY <2>1, <3>1, <4>2, <4>3
    <3>3. CASE ~(psTimed[t] > 0)
      BY <2>1, <3>1, <3>3
    <3> QED
      BY <3>2, <3>3
  <2> QED
    BY <2>2, <2>3
<1> QED
  BY <1>3, <1>4

(* A total of the day is that of its buckets after a report is counted.    *)
LEMMA TotalsStayEqual ==
  ASSUME StatsInv, NEW in, in.at \in Ticks, NEW time \in SUBSET Ticks, NEW more,
         IsCount(more), Counted(in, time, more), UNCHANGED psWriting
  PROVE  TotalsOK'
<1>1. /\ \A field \in {"time", "plays", "sessions", "errors"} :
           BucketTotal(field)' = psDaily'[field]
      /\ psDaily'.bytes = psDaily.bytes /\ BucketTotal("bytes")' = BucketTotal("bytes")
  BY CountedAddsUp
<1>2. BucketTotal("bytes") + Len(psWriting) <= psDaily.bytes
  BY DEF StatsInv, TotalsOK
<1>3. BucketTotal("bytes")' + Len(psWriting') <= psDaily'.bytes
  BY <1>1, <1>2
<1> QED
  BY <1>1, <1>3 DEF TotalsOK

LEMMA StateIsWritten ==
  ASSUME StatsInv, NEW in, IsReport(in), WritesState(in), UNCHANGED psWriting
  PROVE  TablesType' /\ OnceOK' /\ TotalsOK'
<1>1. /\ Interval(in) \in SUBSET Ticks /\ in.at \in Ticks /\ IsCount(Nothing)
      /\ Counted(in, Interval(in), Nothing)
  BY StateMovesOn DEF StatsInv, IsReport, IsCount, Nothing, WritesState
<1>2. /\ psDaily' \in StatRows /\ psBuckets' \in [Buckets -> StatRows]
      /\ psTimed' \in [Ticks -> Nat]
      /\ \A t \in Ticks : psTimed'[t] = psTimed[t] + IF t \in Interval(in) THEN 1 ELSE 0
  BY <1>1, CountedAddsUp
<1>3. psState' = StateAfter(in) /\ UNCHANGED <<psEvent, psSession, psPlays, psSessions>>
  BY DEF WritesState
<1>4. /\ psState' \in {NoState} \cup KnownStates
      /\ \A t \in Ticks : psTimed'[t] <= 1
      /\ \A t \in Ticks : psTimed'[t] > 0 => psState'.known /\ t < psState'.at
  BY <1>2, <1>3, TimedOnce
<1>5. TablesType'
  BY <1>2, <1>3, <1>4 DEF TablesType, StatsInv, StatsTypeOK
<1>6. OnceOK'
  BY <1>3, <1>4 DEF OnceOK, StatsInv
<1>7. TotalsOK'
  BY <1>1, TotalsStayEqual
<1> QED
  BY <1>5, <1>6, <1>7

(* A start that is counted is a window after the last one of its kind.     *)
Apart(times, last) ==
  /\ \A s \in times : s <= last
  /\ \A s, t \in times : s < t => t - s >= PlayWindow

LEMMA StartsStayApart ==
  ASSUME NEW times \in SUBSET Ticks, NEW last \in Ticks \cup {LongAgo}, NEW at \in Ticks,
         Apart(times, last),
         NEW new \in {{}, {at}}, new # {} => at - last >= PlayWindow
  PROVE  /\ Larger(last, at) \in Ticks \cup {LongAgo}
         /\ Apart(times \cup new, Larger(last, at))
<1>1. times \in SUBSET Int /\ at \in Int /\ last \in Int /\ PlayWindow \in 0..100
  BY TicksAndBuckets, StatsAssumption DEF LongAgo
<1>2. Larger(last, at) \in {last, at} /\ last <= Larger(last, at) /\ at <= Larger(last, at)
  BY <1>1 DEF Larger
<1>3. Larger(last, at) \in Int
  BY <1>1, <1>2
<1>4. ASSUME NEW s \in times \cup new PROVE s \in Int /\ s <= Larger(last, at)
  BY <1>1, <1>2, <1>3 DEF Apart
<1>5. ASSUME NEW s \in times \cup new, NEW t \in times \cup new, s < t
      PROVE  t - s >= PlayWindow
  <2>1. CASE s \in times /\ t \in times
    BY <2>1, <1>5 DEF Apart
  <2>2. CASE s \in times /\ t \notin times
    <3>1. t = at /\ at - last >= PlayWindow /\ s <= last
      BY <2>2 DEF Apart
    <3> QED
      BY <1>1, <2>2, <3>1
  <2>3. CASE s \notin times
    <3>1. s = at /\ at - last >= PlayWindow
      BY <2>3
    <3>2. t = at \/ t <= last
      BY <3>1 DEF Apart
    <3>3. t \in Int /\ ~(s < t)
      BY <1>1, <1>4, <3>1, <3>2
    <3> QED
      BY <1>5, <3>3
  <2> QED
    BY <2>1, <2>2, <2>3
<1> QED
  BY <1>2, <1>4, <1>5 DEF Apart

LEMMA PlaybackIsWritten ==
  ASSUME StatsInv, NEW in, IsReport(in), LogPlayback(in), UNCHANGED psWriting
  PROVE  TablesType' /\ OnceOK' /\ TotalsOK'
<1> DEFINE start == in.event = "playing" /\ Succeeded(in)
           play == start /\ in.at - psEvent >= PlayWindow
           session == start /\ in.at - psSession >= PlayWindow
           failed == in.event = "playing" /\ in.status = "error"
           active == Succeeded(in) /\ in.event # "playing" /\ psSession # LongAgo
           time == IF Succeeded(in) THEN Interval(in) ELSE {}
           after == IF Succeeded(in) THEN StateAfter(in) ELSE psState
           more == [plays |-> IF play THEN 1 ELSE 0, sessions |-> IF session THEN 1 ELSE 0,
                    errors |-> IF failed THEN 1 ELSE 0]
           newPlay == IF play THEN {in.at} ELSE {}
           newSession == IF session THEN {in.at} ELSE {}
<1>1. /\ psState' = after /\ Counted(in, time, more)
      /\ psEvent' = (IF start THEN LastStart(in.at) ELSE psEvent)
      /\ psSession' = (IF start \/ active THEN Larger(psSession, in.at) ELSE psSession)
      /\ psPlays' = psPlays \cup newPlay /\ psSessions' = psSessions \cup newSession
  BY Zenon DEF LogPlayback
<1>2. /\ newPlay \in {{}, {in.at}} /\ (newPlay # {} => start /\ in.at - psEvent >= PlayWindow)
      /\ newSession \in {{}, {in.at}}
      /\ (newSession # {} => start /\ in.at - psSession >= PlayWindow)
  OBVIOUS
<1>3. IsCount(more)
  BY DEF IsCount
<1>4. \/ time = Interval(in) /\ after = StateAfter(in)
      \/ time = {} /\ after = psState
  OBVIOUS
<1>5. time \in SUBSET Ticks /\ in.at \in Ticks
  BY StateMovesOn DEF StatsInv, IsReport
<1>6. LastStart(in.at) = Larger(psEvent, in.at)
  BY DEF LastStart
<1> HIDE DEF start, active, time, after, more, newPlay, newSession
<1>7. /\ psDaily' \in StatRows /\ psBuckets' \in [Buckets -> StatRows]
      /\ psTimed' \in [Ticks -> Nat]
      /\ \A t \in Ticks : psTimed'[t] = psTimed[t] + IF t \in time THEN 1 ELSE 0
  BY <1>1, <1>3, <1>5, CountedAddsUp
<1>8. /\ psState' \in {NoState} \cup KnownStates
      /\ \A t \in Ticks : psTimed'[t] <= 1
      /\ \A t \in Ticks : psTimed'[t] > 0 => psState'.known /\ t < psState'.at
  BY <1>1, <1>4, <1>7, TimedOnce
<1>9. /\ psPlays \in SUBSET Ticks /\ psSessions \in SUBSET Ticks
      /\ psEvent \in Ticks \cup {LongAgo} /\ psSession \in Ticks \cup {LongAgo}
      /\ Apart(psPlays, psEvent) /\ Apart(psSessions, psSession)
  BY DEF StatsInv, StatsTypeOK, OnceOK, Apart
<1>10. psEvent' \in Ticks \cup {LongAgo} /\ Apart(psPlays', psEvent')
  <2>1. /\ Larger(psEvent, in.at) \in Ticks \cup {LongAgo}
        /\ Apart(psPlays \cup newPlay, Larger(psEvent, in.at))
    BY <1>2, <1>5, <1>9, StartsStayApart
  <2>2. CASE start
    BY <1>1, <1>6, <2>1, <2>2
  <2>3. CASE ~start
    <3>1. psPlays' = psPlays /\ psEvent' = psEvent
      BY <1>1, <1>2, <2>3
    <3> QED
      BY <1>9, <3>1
  <2> QED
    BY <2>2, <2>3
<1>11. psSession' \in Ticks \cup {LongAgo} /\ Apart(psSessions', psSession')
  <2>1. /\ Larger(psSession, in.at) \in Ticks \cup {LongAgo}
        /\ Apart(psSessions \cup newSession, Larger(psSession, in.at))
    BY <1>2, <1>5, <1>9, StartsStayApart
  <2>2. CASE start \/ active
    BY <1>1, <2>1, <2>2
  <2>3. CASE ~(start \/ active)
    <3>1. psSessions' = psSessions /\ psSession' = psSession
      BY <1>1, <1>2, <2>3
    <3> QED
      BY <1>9, <3>1
  <2> QED
    BY <2>2, <2>3
<1>12. psPlays' \in SUBSET Ticks /\ psSessions' \in SUBSET Ticks
  BY <1>1, <1>2, <1>5, <1>9
<1>13. TablesType'
  BY <1>7, <1>8, <1>10, <1>11, <1>12 DEF TablesType
<1>14. OnceOK'
  BY <1>8, <1>10, <1>11 DEF OnceOK, Apart
<1>15. TotalsOK'
  BY <1>1, <1>3, <1>5, TotalsStayEqual
<1> QED
  BY <1>13, <1>14, <1>15

RequestsType ==
  /\ psNow \in Ticks /\ psScope \in ReportScopes
  /\ psReport \in [Reports -> {NoReport} \cup PlayRequests]
  /\ psQueue \in Seq(Playbacks \cup Traffic)
  /\ psWriting \in Seq(Playbacks \cup Traffic) /\ Len(psWriting) <= 1

LEMMA TypeIsBoth == StatsTypeOK <=> RequestsType /\ TablesType
BY DEF StatsTypeOK, RequestsType, TablesType

LEMMA StepsOfTables ==
  ASSUME StatsInv, RequestsType', UNCHANGED statTables, psWriting' \in {psWriting, <<>>}
  PROVE  StatsInv'
BY TablesStay, TablesTypeStays, TypeIsBoth DEF StatsInv, StatsTypeOK, RequestsType, TablesType

LEMMA ReportsAreTyped ==
  ASSUME StatsTypeOK, NEW r \in Reports, psReport[r].phase # "done"
  PROVE  psReport[r] \in PlayRequests /\ IsReport(psReport[r])
<1>1. psReport[r] \in {NoReport} \cup PlayRequests
  BY DEF StatsTypeOK
<1>2. NoReport.phase = "done"
  BY DEF NoReport
<1>3. psReport[r] \in PlayRequests
  BY <1>1, <1>2
<1> QED
  BY <1>3 DEF PlayRequests, IsReport

LEMMA QueueIsTyped ==
  ASSUME StatsTypeOK, psQueue # <<>>
  PROVE  /\ Head(psQueue) \in Playbacks \cup Traffic /\ Head(psQueue).at \in Ticks
         /\ Head(psQueue).event # "traffic" => IsReport(Head(psQueue))
         /\ Tail(psQueue) \in Seq(Playbacks \cup Traffic)
<1>1. Head(psQueue) \in Playbacks \cup Traffic /\ Tail(psQueue) \in Seq(Playbacks \cup Traffic)
  BY DEF StatsTypeOK
<1>2. Head(psQueue).at \in Ticks
  BY <1>1 DEF Playbacks, Traffic
<1>3. ASSUME Head(psQueue).event # "traffic" PROVE IsReport(Head(psQueue))
  <2>1. Head(psQueue) \in Playbacks
    BY <1>1, <1>3 DEF Traffic
  <2> QED
    BY <2>1 DEF Playbacks, IsReport
<1> QED
  BY <1>1, <1>2, <1>3

LEMMA PlayerSendsStep ==
  ASSUME StatsInv, UNCHANGED psScope, NEW r \in Reports, NEW report \in psScope,
         PlayerSends(r, report)
  PROVE  StatsInv'
<1> DEFINE after == [phase |-> IF report.event = "media" THEN "line" ELSE "state", at |-> psNow,
                     event |-> report.event, item |-> report.item,
                     position |-> report.position, paused |-> report.paused,
                     lines |-> LineCount]
<1>1. RequestsType
  BY TypeIsBoth DEF StatsInv
<1>2. psReport' = [psReport EXCEPT ![r] = after]
      /\ UNCHANGED <<psNow, psQueue, psWriting, statTables>>
  BY DEF PlayerSends, Carries
<1>3. report \in Sent
  BY <1>1 DEF Sent, RequestsType
<1>4. /\ report.event \in Fields("event") /\ report.item \in Fields("item")
      /\ report.position \in Fields("position") /\ report.paused \in Fields("paused")
  BY <1>3 DEF Fields
<1>5. after \in PlayRequests
  BY <1>1, <1>4, StatsAssumption DEF RequestsType, PlayRequests
<1> HIDE DEF after
<1>6. psReport' \in [Reports -> {NoReport} \cup PlayRequests]
  BY <1>1, <1>2, <1>5 DEF RequestsType
<1>7. RequestsType'
  BY <1>1, <1>2, <1>6 DEF RequestsType
<1> QED
  BY <1>2, <1>7, StepsOfTables

(* What becomes of the request of a report.                                *)
LEMMA CarriedIsTyped ==
  ASSUME StatsTypeOK, NEW r \in Reports, NEW after \in {NoReport} \cup PlayRequests,
         Carries(r, after)
  PROVE  psReport' \in [Reports -> {NoReport} \cup PlayRequests]
BY DEF StatsTypeOK, Carries

LEMMA RecordsStateStep ==
  ASSUME StatsInv, UNCHANGED psScope, NEW r \in Reports, RecordsState(r)
  PROVE  StatsInv'
<1> DEFINE after == [psReport[r] EXCEPT !.phase = "line"]
<1>1. RequestsType /\ StatsTypeOK
  BY TypeIsBoth DEF StatsInv
<1>2. psReport[r].phase # "done"
  BY DEF RecordsState, ReportAt
<1>3. psReport[r] \in PlayRequests /\ IsReport(psReport[r])
  BY <1>1, <1>2, ReportsAreTyped
<1>4. /\ Carries(r, after) /\ UNCHANGED <<psNow, psQueue, psWriting>>
      /\ WritesState(psReport[r]) \/ UNCHANGED statTables
  BY DEF RecordsState
<1>5. after \in PlayRequests
  BY <1>3 DEF PlayRequests
<1> HIDE DEF after
<1>6. psReport' \in [Reports -> {NoReport} \cup PlayRequests]
  BY <1>1, <1>4, <1>5, CarriedIsTyped
<1>7. RequestsType'
  BY <1>1, <1>4, <1>6 DEF RequestsType
<1>8. CASE WritesState(psReport[r])
  <2>1. TablesType' /\ OnceOK' /\ TotalsOK'
    BY <1>3, <1>4, <1>8, StateIsWritten
  <2> QED
    BY <1>7, <2>1 DEF StatsInv, StatsTypeOK, RequestsType, TablesType
<1>9. CASE UNCHANGED statTables
  BY <1>4, <1>7, <1>9, StepsOfTables
<1> QED
  BY <1>4, <1>8, <1>9

LEMMA NextLineIsTyped ==
  ASSUME StatsTypeOK, NEW r \in Reports, psReport[r] \in PlayRequests, NextLineOrEnd(r)
  PROVE  psReport' \in [Reports -> {NoReport} \cup PlayRequests]
<1> DEFINE after == [psReport[r] EXCEPT !.phase = "state", !.lines = @ - 1]
<1>1. CASE Carries(r, NoReport)
  BY <1>1, CarriedIsTyped
<1>2. CASE psReport[r].lines > 1 /\ Carries(r, after)
  <2>1. psReport[r].lines - 1 \in Nat
    BY <1>2 DEF PlayRequests
  <2>2. after \in PlayRequests
    BY <2>1 DEF PlayRequests
  <2> HIDE DEF after
  <2> QED
    BY <1>2, <2>2, CarriedIsTyped
<1> QED
  BY <1>1, <1>2 DEF NextLineOrEnd

LEMMA QueuedIsTyped ==
  ASSUME StatsTypeOK, NEW in \in Playbacks \cup Traffic, Enqueued(in)
  PROVE  psQueue' \in Seq(Playbacks \cup Traffic)
BY DEF StatsTypeOK, Enqueued

LEMMA LineAnsweredStep ==
  ASSUME StatsInv, UNCHANGED psScope, NEW r \in Reports, NEW status \in {"ok", "error"},
         LineAnswered(r, status)
  PROVE  StatsInv'
<1> DEFINE in == [event |-> psReport[r].event, item |-> psReport[r].item,
                  position |-> psReport[r].position, paused |-> psReport[r].paused,
                  at |-> psReport[r].at, status |-> status]
<1>1. RequestsType /\ StatsTypeOK
  BY TypeIsBoth DEF StatsInv
<1>2. psReport[r].phase # "done"
  BY DEF LineAnswered, ReportAt
<1>3. psReport[r] \in PlayRequests
  BY <1>1, <1>2, ReportsAreTyped
<1>4. in \in Playbacks
  BY <1>3 DEF PlayRequests, Playbacks
<1>5. /\ Enqueued(in) /\ UNCHANGED <<psNow, psWriting, statTables>>
      /\ Carries(r, NoReport) \/ NextLineOrEnd(r)
  BY DEF LineAnswered
<1> HIDE DEF in
<1>6. psReport' \in [Reports -> {NoReport} \cup PlayRequests]
  BY <1>1, <1>3, <1>5, CarriedIsTyped, NextLineIsTyped
<1>7. psQueue' \in Seq(Playbacks \cup Traffic)
  BY <1>1, <1>4, <1>5, QueuedIsTyped
<1>8. RequestsType'
  BY <1>1, <1>5, <1>6, <1>7 DEF RequestsType
<1> QED
  BY <1>5, <1>8, StepsOfTables

LEMMA NoAnswerStep ==
  ASSUME StatsInv, UNCHANGED psScope, NEW r \in Reports, NoAnswer(r)
  PROVE  StatsInv'
<1>1. RequestsType /\ StatsTypeOK
  BY TypeIsBoth DEF StatsInv
<1>2. psReport[r].phase # "done"
  BY DEF NoAnswer, ReportAt
<1>3. psReport[r] \in PlayRequests
  BY <1>1, <1>2, ReportsAreTyped
<1>4. NextLineOrEnd(r) /\ UNCHANGED <<psNow, psQueue, psWriting, statTables>>
  BY DEF NoAnswer
<1>5. psReport' \in [Reports -> {NoReport} \cup PlayRequests]
  BY <1>1, <1>3, <1>4, NextLineIsTyped
<1>6. RequestsType'
  BY <1>1, <1>4, <1>5 DEF RequestsType
<1> QED
  BY <1>4, <1>6, StepsOfTables

LEMMA MediaSentStep ==
  ASSUME StatsInv, UNCHANGED psScope, NEW r \in Reports, MediaSent(r)
  PROVE  StatsInv'
<1> DEFINE in == [event |-> "traffic", at |-> psReport[r].at]
<1>1. RequestsType /\ StatsTypeOK
  BY TypeIsBoth DEF StatsInv
<1>2. psReport[r].phase # "done"
  BY DEF MediaSent, ReportAt
<1>3. psReport[r] \in PlayRequests
  BY <1>1, <1>2, ReportsAreTyped
<1>4. in \in Traffic
  BY <1>3 DEF PlayRequests, Traffic
<1>5. /\ Enqueued(in) /\ Carries(r, NoReport) /\ UNCHANGED <<psNow, psWriting, statTables>>
  BY DEF MediaSent
<1> HIDE DEF in
<1>6. psReport' \in [Reports -> {NoReport} \cup PlayRequests]
  BY <1>1, <1>5, CarriedIsTyped
<1>7. psQueue' \in Seq(Playbacks \cup Traffic)
  BY <1>1, <1>4, <1>5, QueuedIsTyped
<1>8. RequestsType'
  BY <1>1, <1>5, <1>6, <1>7 DEF RequestsType
<1> QED
  BY <1>5, <1>8, StepsOfTables

LEMMA WorkerWritesStep ==
  ASSUME StatsInv, UNCHANGED psScope, WorkerWrites
  PROVE  StatsInv'
<1> DEFINE in == Head(psQueue)
<1>1. RequestsType /\ StatsTypeOK
  BY TypeIsBoth DEF StatsInv
<1>2. /\ psQueue # <<>> /\ in.event # "traffic" /\ psQueue' = Tail(psQueue)
      /\ LogPlayback(in) \/ UNCHANGED statTables
      /\ UNCHANGED <<psNow, psReport, psWriting>>
  BY DEF WorkerWrites
<1>3. IsReport(in) /\ Tail(psQueue) \in Seq(Playbacks \cup Traffic)
  BY <1>1, <1>2, QueueIsTyped
<1> HIDE DEF in
<1>4. RequestsType'
  BY <1>1, <1>2, <1>3 DEF RequestsType
<1>5. CASE LogPlayback(in)
  <2>1. TablesType' /\ OnceOK' /\ TotalsOK'
    BY <1>2, <1>3, <1>5, PlaybackIsWritten
  <2> QED
    BY <1>4, <2>1 DEF StatsInv, StatsTypeOK, RequestsType, TablesType
<1>6. CASE UNCHANGED statTables
  BY <1>2, <1>4, <1>6, StepsOfTables
<1> QED
  BY <1>2, <1>5, <1>6

LEMMA TrafficDayStep ==
  ASSUME StatsInv, UNCHANGED psScope, TrafficDay
  PROVE  StatsInv'
<1>1. RequestsType /\ StatsTypeOK
  BY TypeIsBoth DEF StatsInv
<1>2. /\ psWriting = <<>> /\ psQueue # <<>> /\ psQueue' = Tail(psQueue)
      /\ UNCHANGED <<psNow, psReport, psState, psEvent, psSession, psBuckets,
                     psTimed, psPlays, psSessions>>
  BY DEF TrafficDay
<1>3. Head(psQueue) \in Playbacks \cup Traffic /\ Tail(psQueue) \in Seq(Playbacks \cup Traffic)
  BY <1>1, <1>2, QueueIsTyped
<1>4. CASE UNCHANGED <<psDaily, psWriting>>
  <2>1. RequestsType'
    BY <1>1, <1>2, <1>3, <1>4 DEF RequestsType
  <2>2. UNCHANGED statTables
    BY <1>2, <1>4 DEF statTables
  <2> QED
    BY <1>4, <2>1, <2>2, StepsOfTables
<1>5. CASE psDaily' = [psDaily EXCEPT !.bytes = @ + 1] /\ psWriting' = <<Head(psQueue)>>
  <2>1. psWriting' \in Seq(Playbacks \cup Traffic) /\ Len(psWriting') = 1 /\ Len(psWriting) = 0
    BY <1>2, <1>3, <1>5
  <2>2. RequestsType'
    BY <1>1, <1>2, <1>3, <2>1 DEF RequestsType
  <2>3. psDaily \in StatRows
    BY <1>1 DEF StatsTypeOK
  <2>4. /\ psDaily' \in StatRows /\ psDaily'.time = psDaily.time /\ psDaily'.plays = psDaily.plays
        /\ psDaily'.sessions = psDaily.sessions /\ psDaily'.errors = psDaily.errors
        /\ psDaily'.bytes = psDaily.bytes + 1 /\ psDaily.bytes \in Nat
    BY <1>5, <2>3 DEF StatRows
  <2>5. TablesType'
    BY <1>1, <1>2, <2>4 DEF StatsTypeOK, TablesType
  <2>6. OnceOK'
    BY <1>2 DEF StatsInv, OnceOK
  <2>7. \A field : BucketTotal(field)' = BucketTotal(field)
    BY <1>2 DEF BucketTotal
  <2>8. /\ BucketTotal("time") = psDaily.time /\ BucketTotal("plays") = psDaily.plays
        /\ BucketTotal("sessions") = psDaily.sessions /\ BucketTotal("errors") = psDaily.errors
        /\ BucketTotal("bytes") + Len(psWriting) <= psDaily.bytes
    BY DEF StatsInv, TotalsOK
  <2>9. BucketTotal("bytes")' + Len(psWriting') <= psDaily'.bytes
    BY <1>1, <2>1, <2>4, <2>7, <2>8, BytesTotal
  <2>10. TotalsOK'
    BY <2>4, <2>7, <2>8, <2>9 DEF TotalsOK
  <2> QED
    BY <2>2, <2>5, <2>6, <2>10 DEF StatsInv, StatsTypeOK, RequestsType, TablesType
<1> QED
  BY <1>4, <1>5 DEF TrafficDay

LEMMA TrafficBucketStep ==
  ASSUME StatsInv, UNCHANGED psScope, TrafficBucket
  PROVE  StatsInv'
<1> DEFINE x == BucketOf(Head(psWriting).at)
<1>1. RequestsType /\ StatsTypeOK
  BY TypeIsBoth DEF StatsInv
<1>2. /\ psWriting # <<>> /\ psWriting' = <<>>
      /\ UNCHANGED <<psNow, psReport, psQueue, psState, psEvent, psSession, psDaily,
                     psTimed, psPlays, psSessions>>
  BY DEF TrafficBucket
<1>3. Head(psWriting) \in Playbacks \cup Traffic /\ Len(psWriting) = 1 /\ Len(psWriting') = 0
  <2> DEFINE T == Playbacks \cup Traffic
  <2>1. psWriting \in Seq(T) /\ Len(psWriting) <= 1
    BY <1>1 DEF StatsTypeOK
  <2>2. Len(psWriting') = 0
    BY <1>2
  <2> HIDE DEF T
  <2>3. Head(psWriting) \in T
    BY <1>2, <2>1
  <2>4. Len(psWriting) = 1
    <3>1. psWriting # <<>>
      BY <1>2
    <3>2. Len(psWriting) \in Nat \ {0}
      BY <2>1, <3>1, EmptySeq, Zenon
    <3> QED
      BY <2>1, <3>2
  <2> QED
    BY <2>2, <2>3, <2>4 DEF T
<1>4. x \in Buckets
  BY <1>3, TicksAndBuckets DEF Playbacks, Traffic
<1>5. RequestsType'
  BY <1>1, <1>2, <1>3 DEF RequestsType
<1>6. CASE UNCHANGED psBuckets
  <2>1. UNCHANGED statTables
    BY <1>2, <1>6 DEF statTables
  <2> QED
    BY <1>2, <1>5, <2>1, StepsOfTables
<1>7. CASE psBuckets' = [psBuckets EXCEPT ![x].bytes = @ + 1]
  <2> DEFINE at == [b \in Buckets |-> IF b = x THEN 1 ELSE 0]
             row == [psBuckets[x] EXCEPT !.bytes = @ + 1]
  <2>1. psBuckets \in [Buckets -> StatRows]
    BY <1>1 DEF StatsTypeOK
  <2>2. /\ row \in StatRows /\ row.time = psBuckets[x].time /\ row.plays = psBuckets[x].plays
        /\ row.sessions = psBuckets[x].sessions /\ row.errors = psBuckets[x].errors
        /\ row.bytes = psBuckets[x].bytes + 1
    <3>1. psBuckets[x] \in StatRows
      BY <1>4, <2>1
    <3> QED
      BY <3>1 DEF StatRows
  <2>3. psBuckets' = [psBuckets EXCEPT ![x] = row]
    BY <1>7
  <2> HIDE DEF x, row
  <2>4. \A b \in Buckets : psBuckets'[b] = IF b = x THEN row ELSE psBuckets[b]
    BY <2>1, <2>3
  <2>5. psBuckets' \in [Buckets -> StatRows]
    BY <1>4, <2>1, <2>2, <2>3
  <2>6. ASSUME NEW b \in Buckets
        PROVE  /\ psBuckets'[b].time = psBuckets[b].time
               /\ psBuckets'[b].plays = psBuckets[b].plays
               /\ psBuckets'[b].sessions = psBuckets[b].sessions
               /\ psBuckets'[b].errors = psBuckets[b].errors
               /\ psBuckets'[b].bytes = psBuckets[b].bytes + at[b]
               /\ psBuckets[b].bytes \in Int /\ at[b] \in Int
    <3>1. psBuckets[b] \in StatRows
      BY <2>1
    <3>2. psBuckets[b].bytes \in Int /\ at[b] \in Int
      BY <3>1 DEF StatRows
    <3>3. CASE b = x
      BY <2>2, <2>4, <3>2, <3>3
    <3>4. CASE b # x
      BY <2>4, <3>2, <3>4
    <3> QED
      BY <3>3, <3>4
  <2>7. SumFunctionOnSet(at, Buckets) = 1
    <3>1. at[x] = 1 /\ \A b \in Buckets \ {x} : at[b] = 0
      BY <1>4
    <3> HIDE DEF at
    <3> QED
      BY <1>4, <3>1, TicksAndBuckets, SumOfOne
  <2> HIDE DEF at
  <2>8. \A field : BucketTotal(field) = TotalIn(psBuckets, field)
                   /\ BucketTotal(field)' = TotalIn(psBuckets', field)
    BY DEF BucketTotal, TotalIn
  <2>9. TotalIn(psBuckets', "bytes") = TotalIn(psBuckets, "bytes") + 1
    BY <2>6, <2>7, TotalGrows
  <2>10. /\ TotalIn(psBuckets', "time") = TotalIn(psBuckets, "time")
         /\ TotalIn(psBuckets', "plays") = TotalIn(psBuckets, "plays")
         /\ TotalIn(psBuckets', "sessions") = TotalIn(psBuckets, "sessions")
         /\ TotalIn(psBuckets', "errors") = TotalIn(psBuckets, "errors")
    BY <2>6, TotalStays
  <2>11. /\ BucketTotal("time") = psDaily.time /\ BucketTotal("plays") = psDaily.plays
         /\ BucketTotal("sessions") = psDaily.sessions /\ BucketTotal("errors") = psDaily.errors
         /\ BucketTotal("bytes") + Len(psWriting) <= psDaily.bytes
    BY DEF StatsInv, TotalsOK
  <2>12. /\ BucketTotal("time")' = psDaily'.time /\ BucketTotal("plays")' = psDaily'.plays
         /\ BucketTotal("sessions")' = psDaily'.sessions
         /\ BucketTotal("errors")' = psDaily'.errors
    BY <1>2, <2>8, <2>10, <2>11
  <2>13. BucketTotal("bytes")' + Len(psWriting') <= psDaily'.bytes
    <3>1. BucketTotal("bytes")' = BucketTotal("bytes") + 1 /\ BucketTotal("bytes") \in Int
      BY <1>1, <2>8, <2>9, BytesTotal
    <3> QED
      BY <1>2, <1>3, <2>11, <3>1
  <2>14. TotalsOK'
    BY <2>12, <2>13 DEF TotalsOK
  <2>15. OnceOK'
    BY <1>2 DEF StatsInv, OnceOK
  <2>16. TablesType'
    BY <1>1, <1>2, <2>5 DEF StatsTypeOK, TablesType
  <2> QED
    BY <1>5, <2>14, <2>15, <2>16 DEF StatsInv, StatsTypeOK, RequestsType, TablesType
<1> QED
  BY <1>6, <1>7 DEF TrafficBucket

LEMMA StatsCrashStep ==
  ASSUME StatsInv, UNCHANGED psScope, StatsCrash
  PROVE  StatsInv'
<1>1. RequestsType
  BY TypeIsBoth DEF StatsInv
<1>2. RequestsType' /\ UNCHANGED statTables /\ psWriting' = <<>>
  BY <1>1 DEF StatsCrash, RequestsType
<1> QED
  BY <1>2, StepsOfTables

LEMMA StatsTickStep ==
  ASSUME StatsInv, UNCHANGED psScope, StatsTick
  PROVE  StatsInv'
<1>1. RequestsType
  BY TypeIsBoth DEF StatsInv
<1>2. psNow' \in Ticks /\ UNCHANGED <<psReport, psQueue, psWriting, statTables>>
  BY <1>1, StatsAssumption DEF StatsTick, RequestsType, Ticks
<1>3. RequestsType'
  BY <1>1, <1>2 DEF RequestsType
<1> QED
  BY <1>2, <1>3, StepsOfTables

LEMMA StatsStart ==
  ASSUME StatsInit
  PROVE  StatsInv
<1>1. Nothing \in StatRows /\ 0 \in Ticks /\ LongAgo \in Int
  BY StatsAssumption DEF Nothing, StatRows, Ticks, LongAgo
<1>2. StatsTypeOK
  BY <1>1 DEF StatsInit, StatsTypeOK
<1>3. OnceOK
  BY DEF StatsInit, OnceOK
<1>4. ASSUME NEW field \in {"time", "plays", "sessions", "errors", "bytes"}
      PROVE  BucketTotal(field) = 0 /\ psDaily[field] = 0
  <2> DEFINE f == [b \in Buckets |-> psBuckets[b][field]]
  <2>1. Nothing[field] = 0
    BY DEF Nothing
  <2>2. \A b \in Buckets : f[b] = 0
    BY <2>1 DEF StatsInit
  <2>3. BucketTotal(field) = SumFunctionOnSet(f, Buckets)
    BY DEF BucketTotal, SumFunction
  <2>4. psDaily[field] = 0
    BY <2>1 DEF StatsInit
  <2> HIDE DEF f
  <2> QED
    BY <2>2, <2>3, <2>4, TicksAndBuckets, SumOfZeros
<1>5. Len(psWriting) = 0
  BY DEF StatsInit
<1>6. TotalsOK
  BY <1>4, <1>5 DEF TotalsOK
<1> QED
  BY <1>2, <1>3, <1>6 DEF StatsInv

LEMMA StatsSafe == StatsSpec => []StatsInv
<1>1. StatsInit => StatsInv
  BY StatsStart
<1>2. StatsInv /\ [StatsNext]_statVars => StatsInv'
  <2> SUFFICES ASSUME StatsInv, [StatsNext]_statVars PROVE StatsInv'
    OBVIOUS
  <2>1. CASE UNCHANGED statVars
    <3>1. UNCHANGED <<psNow, psReport, psQueue, psWriting, psScope>> /\ UNCHANGED statTables
      BY <2>1 DEF statVars
    <3>2. RequestsType'
      BY <3>1, TypeIsBoth DEF StatsInv, RequestsType
    <3> QED
      BY <3>1, <3>2, StepsOfTables
  <2>2. CASE StatsNext
    <3> USE <2>2
    <3>1. UNCHANGED psScope
      BY DEF StatsNext
    <3>2. ASSUME NEW r \in Reports, NEW report \in psScope, PlayerSends(r, report) PROVE StatsInv'
      BY <3>1, <3>2, PlayerSendsStep
    <3>3. ASSUME NEW r \in Reports, RecordsState(r) PROVE StatsInv'
      BY <3>1, <3>3, RecordsStateStep
    <3>4. ASSUME NEW r \in Reports, NoAnswer(r) PROVE StatsInv'
      BY <3>1, <3>4, NoAnswerStep
    <3>5. ASSUME NEW r \in Reports, MediaSent(r) PROVE StatsInv'
      BY <3>1, <3>5, MediaSentStep
    <3>6. ASSUME NEW r \in Reports, NEW status \in {"ok", "error"}, LineAnswered(r, status)
          PROVE  StatsInv'
      BY <3>1, <3>6, LineAnsweredStep
    <3>7. WorkerWrites => StatsInv'
      BY <3>1, WorkerWritesStep
    <3>8. TrafficDay => StatsInv'
      BY <3>1, TrafficDayStep
    <3>9. TrafficBucket => StatsInv'
      BY <3>1, TrafficBucketStep
    <3>10. StatsCrash => StatsInv'
      BY <3>1, StatsCrashStep
    <3>11. StatsTick => StatsInv'
      BY <3>1, StatsTickStep
    <3> QED
      BY <3>2, <3>3, <3>4, <3>5, <3>6, <3>7, <3>8, <3>9, <3>10, <3>11 DEF StatsNext
  <2> QED
    BY <2>1, <2>2
<1> QED
  BY <1>1, <1>2, PTL DEF StatsSpec

(* The rows of the statistics keep their form.                             *)
THEOREM StatsTypeCorrect == StatsSpec => []StatsTypeOK
BY StatsSafe, PTL DEF StatsInv

(* A tick of watching is counted once, plays and sessions keep their       *)
(* distance, and the day's row is the sum of its buckets, whatever order   *)
(* the reports, the lines and the writes of the queue come in; bytes may   *)
(* only be missing from a bucket (StatisticsAddUp; LogPlayback and         *)
(* LogPlaybackTraffic of storage/stats.go).                                *)
THEOREM PlaybackIsCountedOnce == StatsSpec => []StatisticsAddUp
<1>1. StatsInv => StatisticsAddUp
  <2> SUFFICES ASSUME StatsInv PROVE StatisticsAddUp
    OBVIOUS
  <2>1. CountedOnce
    BY DEF StatsInv, OnceOK, CountedOnce
  <2>2. BucketTotal("bytes") <= psDaily.bytes
    <3>1. BucketTotal("bytes") \in Int /\ Len(psWriting) \in Nat /\ psDaily.bytes \in Int
      BY BytesTotal DEF StatsInv, StatsTypeOK, StatRows
    <3> QED
      BY <3>1 DEF StatsInv, TotalsOK
  <2>3. TotalsAgree
    BY <2>2 DEF StatsInv, TotalsOK, TotalsAgree
  <2> QED
    BY <2>1, <2>3 DEF StatisticsAddUp
<1> QED
  BY <1>1, StatsSafe, PTL

-----------------------------------------------------------------------------
(* StatsLog: the rows and the cursor follow the log                        *)

Phases == {"scan", "ingest", "cursor", "snapshot"}
Runs == [phase : Phases, inode : Nat, log : Nat, from : Nat, size : Nat,
         events : SUBSET LogLines, written : Nat]
Rows == [Minutes -> Nat]

LogTypeOK ==
    /\ slNow \in Minutes /\ slMinute \in Seq(Minutes)
    /\ slLogs \in Seq([inode : Nat, lines : Seq(LogLines)])
    /\ slOut \in Nat
    /\ slCursor \in [inode : Nat, offset : Nat, log : Nat]
    /\ slRun \in {NoRun} \cup Runs
    /\ slLocal \in Rows /\ slSnapshot \in Rows /\ slFetched \in Rows /\ slCentral \in Rows
    /\ slTimes \in [LogLines -> Nat]
    /\ slLate \in SUBSET LogLines /\ slMissed \in SUBSET LogLines /\ slAborted \in Nat

Place(i, p) == i \in DOMAIN slLogs /\ p \in DOMAIN slLogs[i].lines
Line(i, p) == slLogs[i].lines[p]

(* Every line that was written is at one place, and inodes are numbered in *)
(* the order of their logs.                                                *)
PlacesOK ==
    /\ Len(slLogs) > 0
    /\ \A i, p \in Nat : Place(i, p) => Line(i, p) \in DOMAIN slMinute
    /\ \A i, p, j, q \in Nat :
          Place(i, p) /\ Place(j, q) /\ Line(i, p) = Line(j, q) => i = j /\ p = q
    /\ \A l \in DOMAIN slMinute : \E i, p \in Nat : Place(i, p) /\ Line(i, p) = l
    /\ \A i \in DOMAIN slLogs : slLogs[i].inode <= CurrentInode
    /\ \A l \in LogLines : l > Len(slMinute) => slTimes[l] = 0

OutOK == \E i \in DOMAIN slLogs : slLogs[i].inode = slOut

Running == slRun.phase \in Phases
Reading == slRun.phase \in {"scan", "ingest"}

CursorOK ==
    /\ slCursor.log <= Len(slLogs)
    /\ slCursor.log > 0 =>
          /\ slLogs[slCursor.log].inode = slCursor.inode
          /\ slCursor.offset <= Len(slLogs[slCursor.log].lines)

(* The file a run opened; what is behind its end was written later.        *)
RunOK ==
    Running =>
        /\ slRun.log \in DOMAIN slLogs /\ slLogs[slRun.log].inode = slRun.inode
        /\ slRun.from <= slRun.size /\ slRun.size <= Len(slLogs[slRun.log].lines)
        /\ slRun.written <= Len(slMinute) /\ slCursor.log <= slRun.log
        /\ slRun.events \subseteq DOMAIN slMinute
        /\ slRun.phase # "snapshot" =>
              (slCursor.log = slRun.log => slCursor.offset = slRun.from)
        /\ Reading =>
              /\ \A l \in LogLines : l > slRun.written => slTimes[l] = 0
              /\ \A i, p \in Nat :
                    Place(i, p) /\ (i > slRun.log \/ (i = slRun.log /\ p > slRun.size))
                       => Line(i, p) > slRun.written

(* What a run read is of the file between the cursor and its end, or late. *)
EventsOK ==
    slRun.phase = "ingest" =>
        \A i, p \in Nat : Place(i, p) /\ Line(i, p) \in slRun.events =>
            \/ Line(i, p) > slRun.written /\ Line(i, p) \in slLate
            \/ i = slRun.log /\ p > slRun.from /\ p <= slRun.size

WasRead(l) == slTimes[l] > 0 \/ l \in slMissed

(* Nothing before the cursor is left out, nor, in a run whose file is the  *)
(* last one, before the place the run has got to.                          *)
SkippedOK ==
    /\ slCursor.log = Len(slLogs) => \A p \in 1..slCursor.offset : WasRead(Line(slCursor.log, p))
    /\ Running /\ slRun.log = Len(slLogs) =>
          /\ Reading => \A p \in 1..slRun.from : WasRead(Line(slRun.log, p))
          /\ slRun.phase = "ingest" =>
                \A p \in slRun.from + 1..slRun.size : Line(slRun.log, p) \in slRun.events
          /\ slRun.phase = "cursor" => \A p \in 1..slRun.size : WasRead(Line(slRun.log, p))

(* A line counts once for each run that failed late, once if it was late   *)
(* itself, and once if it is passed.                                       *)
Passed(i, p) ==
    \/ slRun.phase \in {"idle", "snapshot"} /\ i < Len(slLogs)
    \/ Reading /\ i < slRun.log
    \/ slRun.phase # "cursor" /\ i = slCursor.log /\ p <= slCursor.offset
    \/ slRun.phase = "cursor" /\ (i < slRun.log \/ (i = slRun.log /\ p <= slRun.size))
TimesAllowed(i, p) ==
    slAborted + (IF Line(i, p) \in slLate THEN 1 ELSE 0) + (IF Passed(i, p) THEN 1 ELSE 0)
TimesOK ==
    \A i, p \in Nat : Place(i, p) => slTimes[Line(i, p)] <= TimesAllowed(i, p)

LinesAt(b) == {l \in DOMAIN slMinute : slMinute[l] = b}
RowsOK ==
    \A b \in Minutes :
        /\ slLocal[b] <= SumFunctionOnSet(slTimes, LinesAt(b))
        /\ slSnapshot[b] <= slLocal[b] /\ slFetched[b] <= slLocal[b] /\ slCentral[b] <= slLocal[b]

LogInv ==
    /\ LogTypeOK /\ PlacesOK /\ OutOK /\ CursorOK /\ RunOK /\ EventsOK /\ SkippedOK /\ TimesOK /\ RowsOK

LEMMA LogFacts ==
  ASSUME LogTypeOK
  PROVE  /\ Len(slLogs) \in Nat /\ DOMAIN slLogs = 1..Len(slLogs)
         /\ Len(slMinute) \in Nat /\ DOMAIN slMinute = 1..Len(slMinute)
         /\ \A i \in DOMAIN slLogs :
               /\ slLogs[i] \in [inode : Nat, lines : Seq(LogLines)]
               /\ slLogs[i].inode \in Nat /\ slLogs[i].lines \in Seq(LogLines)
               /\ Len(slLogs[i].lines) \in Nat
               /\ DOMAIN slLogs[i].lines = 1..Len(slLogs[i].lines)
         /\ \A i, p : Place(i, p) => i \in Nat /\ p \in Nat /\ Line(i, p) \in LogLines
         /\ LogLines \in SUBSET Nat
<1> DEFINE Log == [inode : Nat, lines : Seq(LogLines)]
<1>1. slLogs \in Seq(Log) /\ slMinute \in Seq(Minutes)
  BY DEF LogTypeOK
<1>2. \A log \in Log : log.inode \in Nat /\ log.lines \in Seq(LogLines)
  OBVIOUS
<1>3. \A s \in Seq(LogLines) : Len(s) \in Nat /\ DOMAIN s = 1..Len(s) /\ \A p \in DOMAIN s : s[p] \in LogLines
  OBVIOUS
<1> HIDE DEF Log
<1>4. /\ Len(slLogs) \in Nat /\ DOMAIN slLogs = 1..Len(slLogs)
      /\ \A i \in DOMAIN slLogs : slLogs[i] \in Log
  BY <1>1
<1>5. Len(slMinute) \in Nat /\ DOMAIN slMinute = 1..Len(slMinute)
  BY <1>1
<1>6. \A i \in DOMAIN slLogs :
         /\ slLogs[i].inode \in Nat /\ slLogs[i].lines \in Seq(LogLines)
         /\ Len(slLogs[i].lines) \in Nat
         /\ DOMAIN slLogs[i].lines = 1..Len(slLogs[i].lines)
  BY <1>2, <1>3, <1>4
<1>7. ASSUME NEW i, NEW p, Place(i, p) PROVE i \in Nat /\ p \in Nat /\ Line(i, p) \in LogLines
  <2>1. i \in DOMAIN slLogs /\ p \in DOMAIN slLogs[i].lines
    BY <1>7 DEF Place
  <2>2. slLogs[i].lines \in Seq(LogLines) /\ DOMAIN slLogs[i].lines = 1..Len(slLogs[i].lines)
        /\ Len(slLogs[i].lines) \in Nat
    BY <1>6, <2>1
  <2>3. slLogs[i].lines[p] \in LogLines
    BY <1>3, <2>1, <2>2
  <2> QED
    BY <1>4, <2>1, <2>2, <2>3 DEF Line
<1>8. LogLines \in SUBSET Nat
  BY LogAssumption DEF LogLines
<1> QED
  BY <1>4, <1>5, <1>6, <1>7, <1>8 DEF Log

(* A log is the last one of its inode, and every inode has a last log.     *)
LEMMA LogOfIsLast ==
  ASSUME LogTypeOK, NEW inode, NEW i \in DOMAIN slLogs, slLogs[i].inode = inode
  PROVE  /\ LogOf(inode) \in DOMAIN slLogs /\ slLogs[LogOf(inode)].inode = inode
         /\ i <= LogOf(inode)
<1> DEFINE n == Len(slLogs)
           Behind == {n - j : j \in {k \in DOMAIN slLogs : slLogs[k].inode = inode}}
<1>1. n \in Nat /\ DOMAIN slLogs = 1..n
  BY LogFacts
<1>2. Behind \in SUBSET Nat /\ Behind # {}
  BY <1>1
<1>3. PICK m \in Behind : \A k \in Behind : m <= k
  <2> HIDE DEF Behind
  <2> QED
    BY <1>2, LeastNumber
<1>4. PICK j \in DOMAIN slLogs : slLogs[j].inode = inode /\ m = n - j
  BY <1>3
<1>5. ASSUME NEW k \in DOMAIN slLogs, slLogs[k].inode = inode PROVE k <= j
  <2>1. n - k \in Behind
    BY <1>5
  <2>2. n - j <= n - k
    BY <1>3, <1>4, <2>1
  <2> QED
    BY <1>1, <2>2
<1>6. \E k \in DOMAIN slLogs : /\ slLogs[k].inode = inode
                                /\ \A l \in DOMAIN slLogs : slLogs[l].inode = inode => l <= k
  BY <1>4, <1>5
<1>7. /\ LogOf(inode) \in DOMAIN slLogs /\ slLogs[LogOf(inode)].inode = inode
      /\ \A l \in DOMAIN slLogs : slLogs[l].inode = inode => l <= LogOf(inode)
  BY <1>6 DEF LogOf
<1> QED
  BY <1>7

LEMMA CurrentIsLast ==
  ASSUME LogTypeOK, PlacesOK
  PROVE  /\ LogOf(CurrentInode) = Len(slLogs) /\ Len(slLogs) \in DOMAIN slLogs
         /\ LinesOf(CurrentInode) = slLogs[Len(slLogs)].lines
<1>1. Len(slLogs) \in DOMAIN slLogs /\ DOMAIN slLogs = 1..Len(slLogs) /\ Len(slLogs) \in Nat
  BY LogFacts DEF PlacesOK
<1>2. LogOf(CurrentInode) \in DOMAIN slLogs /\ Len(slLogs) <= LogOf(CurrentInode)
  BY <1>1, LogOfIsLast DEF CurrentInode
<1>3. LogOf(CurrentInode) = Len(slLogs)
  BY <1>1, <1>2
<1> QED
  BY <1>1, <1>3 DEF LinesOf

LEMMA RunFacts ==
  ASSUME LogTypeOK
  PROVE  /\ Running => slRun \in Runs
         /\ Running => /\ slRun.log \in Nat /\ slRun.from \in Nat /\ slRun.size \in Nat
                       /\ slRun.written \in Nat /\ slRun.inode \in Nat
                       /\ slRun.events \in SUBSET LogLines
         /\ slRun = NoRun <=> ~Running
         /\ slRun = NoRun <=> slRun.phase = "idle"
         /\ slCursor.inode \in Nat /\ slCursor.offset \in Nat /\ slCursor.log \in Nat
<1>1. NoRun.phase = "idle"
  BY DEF NoRun
<1>2. \A run \in Runs : /\ run.phase \in Phases /\ run.log \in Nat /\ run.from \in Nat
                        /\ run.size \in Nat /\ run.written \in Nat /\ run.inode \in Nat
                        /\ run.events \in SUBSET LogLines
  BY DEF Runs
<1>3. "idle" \notin Phases
  BY DEF Phases
<1>4. slRun = NoRun \/ slRun \in Runs
  BY DEF LogTypeOK
<1>5. slCursor.inode \in Nat /\ slCursor.offset \in Nat /\ slCursor.log \in Nat
  BY DEF LogTypeOK
<1> HIDE DEF Phases
<1>6. slRun = NoRun => slRun.phase = "idle"
  BY <1>1
<1>7. slRun \in Runs => slRun.phase \in Phases
  BY <1>2
<1>8. slRun = NoRun <=> ~Running
  BY <1>3, <1>4, <1>6, <1>7, Zenon DEF Running
<1>9. slRun = NoRun <=> slRun.phase = "idle"
  BY <1>3, <1>4, <1>6, <1>7, Zenon
<1>10. Running => slRun \in Runs
  BY <1>4, <1>8, Zenon
<1> QED
  BY <1>2, <1>5, <1>8, <1>9, <1>10

LEMMA SamePlaces ==
  ASSUME UNCHANGED slLogs
  PROVE  /\ \A i, p : (Place(i, p)' <=> Place(i, p)) /\ Line(i, p)' = Line(i, p)
         /\ CurrentInode' = CurrentInode
BY DEF Place, Line, CurrentInode

(* A line is at one place.                                                 *)
LEMMA OnePlace ==
  ASSUME PlacesOK, NEW i \in Nat, NEW p \in Nat, NEW j \in Nat, NEW q \in Nat,
         Place(i, p), Place(j, q), Line(i, p) = Line(j, q)
  PROVE  i = j /\ p = q
BY DEF PlacesOK

LEMMA PlacesStay ==
  ASSUME LogTypeOK, PlacesOK, UNCHANGED <<slMinute, slTimes>>, Len(slLogs') > 0,
         \A i, p : (Place(i, p)' <=> Place(i, p)) /\ (Place(i, p) => Line(i, p)' = Line(i, p)),
         \A i \in DOMAIN slLogs' : slLogs'[i].inode <= CurrentInode'
  PROVE  PlacesOK'
<1>1. \A i, p \in Nat : Place(i, p)' => Line(i, p)' \in DOMAIN slMinute'
  BY DEF PlacesOK
<1>2. ASSUME NEW i \in Nat, NEW p \in Nat, NEW j \in Nat, NEW q \in Nat,
             Place(i, p)', Place(j, q)', Line(i, p)' = Line(j, q)'
      PROVE  i = j /\ p = q
  <2>1. Place(i, p) /\ Place(j, q) /\ Line(i, p) = Line(j, q)
    BY <1>2
  <2> QED
    BY <2>1 DEF PlacesOK
<1>3. ASSUME NEW l \in DOMAIN slMinute' PROVE \E i, p \in Nat : Place(i, p)' /\ Line(i, p)' = l
  <2>1. PICK i \in Nat, p \in Nat : Place(i, p) /\ Line(i, p) = l
    BY <1>3 DEF PlacesOK
  <2> QED
    BY <2>1
<1>4. \A l \in LogLines : l > Len(slMinute') => slTimes'[l] = 0
  BY DEF PlacesOK
<1> QED
  BY <1>1, <1>2, <1>3, <1>4 DEF PlacesOK

(* What is left alone stays right.                                         *)
LEMMA LogStays ==
  ASSUME LogInv, UNCHANGED <<slLogs, slMinute, slCursor, slRun, slTimes, slLate, slMissed, slAborted>>
  PROVE  PlacesOK' /\ CursorOK' /\ RunOK' /\ EventsOK' /\ SkippedOK' /\ TimesOK'
<1>1. UNCHANGED <<slLogs, slMinute, slCursor, slRun, slTimes, slLate, slMissed, slAborted>>
  OBVIOUS
<1>2. PlacesOK'
  <2>1. /\ LogTypeOK /\ PlacesOK /\ Len(slLogs') > 0
        /\ \A i \in DOMAIN slLogs' : slLogs'[i].inode <= CurrentInode'
    BY <1>1, SamePlaces DEF LogInv, PlacesOK
  <2> QED
    BY <1>1, <2>1, SamePlaces, PlacesStay
<1>3. CursorOK'
  BY <1>1 DEF LogInv, CursorOK
<1>4. RunOK'
  BY <1>1, SamePlaces DEF LogInv, RunOK, Running, Reading
<1>5. EventsOK'
  BY <1>1, SamePlaces DEF LogInv, EventsOK
<1>6. SkippedOK'
  BY <1>1, SamePlaces DEF LogInv, SkippedOK, WasRead, Running, Reading
<1>7. TimesOK'
  BY <1>1, SamePlaces DEF LogInv, TimesOK, TimesAllowed, Passed, Reading
<1> QED
  BY <1>2, <1>3, <1>4, <1>5, <1>6, <1>7

LEMMA RowsStay ==
  ASSUME LogInv, UNCHANGED <<slMinute, slTimes, slLocal>>,
         \A b \in Minutes : /\ slSnapshot'[b] <= slLocal[b] /\ slFetched'[b] <= slLocal[b]
                            /\ slCentral'[b] <= slLocal[b]
  PROVE  RowsOK'
<1>1. \A b : LinesAt(b)' = LinesAt(b)
  BY DEF LinesAt
<1> QED
  BY <1>1 DEF LogInv, RowsOK

LEMMA OutStays ==
  ASSUME LogInv, UNCHANGED <<slLogs, slOut>>
  PROVE  OutOK'
BY DEF LogInv, OutOK

-----------------------------------------------------------------------------
\* The clock, the sync and nginx reopening its log

LEMMA LogTickStep ==
  ASSUME LogInv, LogTick
  PROVE  LogInv'
<1>1. UNCHANGED <<slLogs, slOut, slMinute, slCursor, slRun, slTimes, slLate, slMissed, slAborted,
                  slLocal, slSnapshot, slFetched, slCentral>>
  BY DEF LogTick, logStores, logSync
<1>2. slNow' \in Minutes
  BY LogAssumption DEF LogTick, LogInv, LogTypeOK, Minutes
<1>3. LogTypeOK'
  BY <1>1, <1>2 DEF LogInv, LogTypeOK
<1>4. RowsOK'
  BY <1>1, RowsStay DEF LogInv, RowsOK
<1> QED
  BY <1>1, <1>3, <1>4, LogStays, OutStays DEF LogInv

LEMMA ReopensLogStep ==
  ASSUME LogInv, ReopensLog
  PROVE  LogInv'
<1>1. UNCHANGED <<slNow, slLogs, slMinute, slCursor, slRun, slTimes, slLate, slMissed, slAborted,
                  slLocal, slSnapshot, slFetched, slCentral>>
  BY DEF ReopensLog, logStores, logSync
<1>2. slOut' = CurrentInode /\ LogTypeOK /\ PlacesOK
  BY DEF ReopensLog, LogInv
<1>3. Len(slLogs) \in DOMAIN slLogs /\ CurrentInode \in Nat
  BY <1>2, CurrentIsLast, LogFacts DEF CurrentInode
<1>4. LogTypeOK'
  BY <1>1, <1>2, <1>3 DEF LogTypeOK
<1>5. OutOK'
  BY <1>1, <1>2, <1>3 DEF OutOK, CurrentInode
<1>6. RowsOK'
  BY <1>1, RowsStay DEF LogInv, RowsOK
<1> QED
  BY <1>1, <1>4, <1>5, <1>6, LogStays DEF LogInv

LEMMA FetchesSnapshotStep ==
  ASSUME LogInv, FetchesSnapshot
  PROVE  LogInv'
<1>1. UNCHANGED <<slNow, slLogs, slOut, slMinute, slCursor, slRun, slTimes, slLate, slMissed,
                  slAborted, slLocal, slSnapshot, slCentral>> /\ slFetched' = slSnapshot
  BY DEF FetchesSnapshot, logStores, logEdge
<1>2. LogTypeOK'
  BY <1>1 DEF LogInv, LogTypeOK
<1>3. RowsOK'
  BY <1>1, RowsStay DEF LogInv, RowsOK
<1> QED
  BY <1>1, <1>2, <1>3, LogStays, OutStays DEF LogInv

LEMMA ImportsSnapshotStep ==
  ASSUME LogInv, ImportsSnapshot
  PROVE  LogInv'
<1>1. UNCHANGED <<slNow, slLogs, slOut, slMinute, slCursor, slRun, slTimes, slLate, slMissed,
                  slAborted, slLocal, slSnapshot, slFetched>>
  BY DEF ImportsSnapshot, logStores, logEdge
<1>2. slCentral' = [b \in Minutes |-> LargerOf(slCentral[b], slFetched[b])]
  BY DEF ImportsSnapshot
<1>3. ASSUME NEW b \in Minutes
      PROVE  slCentral'[b] \in Nat /\ slCentral'[b] <= slLocal[b] /\ slSnapshot'[b] <= slLocal[b]
             /\ slFetched'[b] <= slLocal[b]
  <2>1. /\ slCentral[b] \in Nat /\ slFetched[b] \in Nat /\ slLocal[b] \in Nat
        /\ slCentral[b] <= slLocal[b] /\ slFetched[b] <= slLocal[b] /\ slSnapshot[b] <= slLocal[b]
    BY DEF LogInv, LogTypeOK, RowsOK, Rows
  <2>2. slCentral'[b] = LargerOf(slCentral[b], slFetched[b])
    BY <1>2
  <2>3. slCentral'[b] \in {slCentral[b], slFetched[b]}
    BY <2>2 DEF LargerOf
  <2> QED
    BY <1>1, <2>1, <2>3
<1>4. slCentral' \in Rows
  BY <1>2, <1>3 DEF Rows
<1>5. LogTypeOK'
  BY <1>1, <1>4 DEF LogInv, LogTypeOK
<1>6. RowsOK'
  BY <1>1, <1>3, RowsStay
<1> QED
  BY <1>1, <1>5, <1>6, LogStays, OutStays DEF LogInv

-----------------------------------------------------------------------------
\* A new log

LEMMA NewLogStep ==
  ASSUME LogInv, NEW inode, inode \in {CurrentInode, CurrentInode + 1},
         slLogs' = Append(slLogs, [inode |-> inode, lines |-> <<>>]),
         UNCHANGED <<slNow, slOut, slMinute, slCursor, slRun, slTimes, slLate, slMissed, slAborted,
                     slLocal, slSnapshot, slFetched, slCentral>>
  PROVE  LogInv'
<1> DEFINE n == Len(slLogs)
           new == [inode |-> inode, lines |-> <<>>]
           Log == [inode : Nat, lines : Seq(LogLines)]
<1>1. LogTypeOK /\ PlacesOK /\ CursorOK /\ RunOK /\ EventsOK /\ SkippedOK /\ TimesOK /\ OutOK
  BY DEF LogInv
<1>2. /\ n \in Nat /\ n > 0 /\ DOMAIN slLogs = 1..n /\ n \in DOMAIN slLogs
      /\ slLogs[n].inode = CurrentInode /\ CurrentInode \in Nat
      /\ \A i \in DOMAIN slLogs : slLogs[i].inode \in Nat
  BY <1>1, LogFacts, CurrentIsLast DEF CurrentInode, PlacesOK
<1>3. new \in Log /\ new.inode = inode /\ new.lines = <<>> /\ inode \in Nat
  BY <1>2
<1>4. slLogs \in Seq(Log)
  BY <1>1 DEF LogTypeOK
<1>5. UNCHANGED <<slNow, slOut, slMinute, slCursor, slRun, slTimes, slLate, slMissed, slAborted,
                  slLocal, slSnapshot, slFetched, slCentral>> /\ slLogs' = Append(slLogs, new)
  OBVIOUS
<1> HIDE DEF new
<1>6. /\ slLogs' \in Seq(Log) /\ Len(slLogs') = n + 1 /\ DOMAIN slLogs' = 1..n + 1
      /\ slLogs'[n + 1] = new /\ \A i \in 1..n : slLogs'[i] = slLogs[i]
  <2> HIDE DEF Log
  <2> QED
    BY <1>2, <1>3, <1>4, <1>5
<1>7. LogTypeOK'
  BY <1>1, <1>5, <1>6 DEF LogTypeOK
<1>8. \A i, p : (Place(i, p)' <=> Place(i, p)) /\ (Place(i, p) => Line(i, p)' = Line(i, p))
  <2> SUFFICES ASSUME NEW i, NEW p
      PROVE (Place(i, p)' <=> Place(i, p)) /\ (Place(i, p) => Line(i, p)' = Line(i, p))
    OBVIOUS
  <2>1. CASE i \in 1..n
    BY <1>2, <1>6, <2>1 DEF Place, Line
  <2>2. CASE i = n + 1
    <3>1. i \notin DOMAIN slLogs /\ DOMAIN slLogs'[i].lines = {}
      BY <1>2, <1>3, <1>6, <2>2
    <3> QED
      BY <3>1 DEF Place
  <2>3. CASE i \notin 1..n + 1
    BY <1>2, <1>6, <2>3 DEF Place
  <2> QED
    BY <1>2, <2>1, <2>2, <2>3
<1>9. CurrentInode' = inode /\ \A i \in DOMAIN slLogs' : slLogs'[i].inode <= CurrentInode'
  <2>1. CurrentInode' = inode
    BY <1>3, <1>6 DEF CurrentInode
  <2>2. ASSUME NEW i \in 1..n + 1 PROVE slLogs'[i].inode <= inode
    <3>1. CASE i \in 1..n
      <4>1. slLogs[i].inode <= CurrentInode /\ slLogs[i].inode \in Nat
        BY <1>1, <1>2, <3>1 DEF PlacesOK
      <4>2. CurrentInode <= inode
        BY <1>2
      <4>3. slLogs'[i].inode = slLogs[i].inode
        BY <1>6, <3>1
      <4> QED
        BY <1>2, <1>3, <4>1, <4>2, <4>3
    <3>2. CASE i = n + 1
      BY <1>3, <1>6, <3>2
    <3> QED
      BY <1>2, <3>1, <3>2
  <2> QED
    BY <1>6, <2>1, <2>2
<1>10. PlacesOK'
  <2>1. Len(slLogs') > 0
    BY <1>2, <1>6
  <2> QED
    BY <1>1, <1>5, <1>8, <1>9, <2>1, PlacesStay
<1>11. OutOK'
  BY <1>1, <1>2, <1>5, <1>6 DEF OutOK
<1>12. CursorOK'
  <2>1. slCursor.log \in Nat
    BY <1>1, RunFacts
  <2>2. slCursor.log > 0 => slCursor.log \in 1..n
    BY <1>1, <1>2, <2>1 DEF CursorOK
  <2> QED
    BY <1>1, <1>2, <1>5, <1>6, <2>1, <2>2 DEF CursorOK
<1>13. RunOK'
  <2> SUFFICES ASSUME Running PROVE RunOK'
    BY <1>5 DEF RunOK, Running
  <2>1. slRun.log \in 1..n
    BY <1>1, <1>2 DEF RunOK
  <2>2. slLogs'[slRun.log] = slLogs[slRun.log] /\ slRun.log \in DOMAIN slLogs'
    BY <1>2, <1>6, <2>1
  <2> QED
    BY <1>1, <1>5, <1>8, <2>2 DEF RunOK, Running, Reading
<1>14. EventsOK'
  BY <1>1, <1>5, <1>8 DEF EventsOK
<1>15. SkippedOK'
  <2>1. slCursor.log # n + 1
    BY <1>1, <1>2, RunFacts DEF CursorOK
  <2>2. Running => slRun.log # n + 1
    BY <1>1, <1>2 DEF RunOK
  <2> QED
    BY <1>5, <1>6, <2>1, <2>2 DEF SkippedOK, Running
<1>16. TimesOK'
  <2>1. \A i, p : Place(i, p) /\ Passed(i, p) => Passed(i, p)'
    <3> SUFFICES ASSUME NEW i, NEW p, Place(i, p), Passed(i, p) PROVE Passed(i, p)'
      OBVIOUS
    <3>1. i \in Nat
      BY <1>1, LogFacts
    <3>2. i < n => i < Len(slLogs')
      BY <1>2, <1>6, <3>1
    <3> QED
      BY <1>5, <3>2 DEF Passed, Reading
  <2>2. ASSUME NEW i \in Nat, NEW p \in Nat, Place(i, p)
        PROVE  slTimes[Line(i, p)] <= TimesAllowed(i, p)'
    <3>1. slTimes[Line(i, p)] <= TimesAllowed(i, p) /\ slTimes[Line(i, p)] \in Nat
      BY <1>1, <2>2, LogFacts DEF TimesOK, LogTypeOK
    <3>2. TimesAllowed(i, p) <= TimesAllowed(i, p)' /\ TimesAllowed(i, p) \in Nat
          /\ TimesAllowed(i, p)' \in Nat
      <4>1. slAborted \in Nat
        BY <1>1 DEF LogTypeOK
      <4>2. Line(i, p)' = Line(i, p) /\ (Passed(i, p) => Passed(i, p)')
        BY <1>8, <2>1, <2>2
      <4> QED
        BY <1>5, <4>1, <4>2 DEF TimesAllowed
    <3> QED
      BY <3>1, <3>2
  <2> QED
    BY <1>5, <1>8, <2>2 DEF TimesOK
<1>17. RowsOK'
  BY <1>5, RowsStay DEF LogInv, RowsOK
<1> QED
  BY <1>7, <1>10, <1>11, <1>12, <1>13, <1>14, <1>15, <1>16, <1>17 DEF LogInv

LEMMA LogRotatesStep ==
  ASSUME LogInv, LogRotates
  PROVE  LogInv'
BY NewLogStep DEF LogRotates, logStores, logSync

LEMMA LogTruncatedStep ==
  ASSUME LogInv, LogTruncated
  PROVE  LogInv'
BY NewLogStep DEF LogTruncated, logStores, logSync

LEMMA LinesAtFinite ==
  ASSUME LogTypeOK, NEW b
  PROVE  /\ IsFiniteSet(LinesAt(b)) /\ LinesAt(b) \in SUBSET DOMAIN slMinute
         /\ IsFiniteSet(DOMAIN slMinute)
<1>1. Len(slMinute) \in Nat /\ DOMAIN slMinute = 1..Len(slMinute)
  BY LogFacts
<1>2. IsFiniteSet(DOMAIN slMinute)
  BY <1>1, FS_Interval
<1>3. LinesAt(b) \in SUBSET DOMAIN slMinute
  BY DEF LinesAt
<1> QED
  BY <1>2, <1>3, FS_Subset

LEMMA LinesAreLogLines ==
  ASSUME LogTypeOK, PlacesOK
  PROVE  DOMAIN slMinute \in SUBSET LogLines
BY LogFacts DEF PlacesOK

LEMMA WritesLineStep ==
  ASSUME LogInv, WritesLine
  PROVE  LogInv'
<1>a. PICK n : n = Len(slLogs)
  OBVIOUS
<1>b. PICK j : j = LogOf(slOut)
  OBVIOUS
<1>c. PICK w : w = Len(slMinute)
  OBVIOUS
<1>d. PICK m : m = Len(slLogs[j].lines)
  OBVIOUS
<1> DEFINE Log == [inode : Nat, lines : Seq(LogLines)]
<1>1. /\ LogTypeOK /\ PlacesOK /\ CursorOK /\ RunOK /\ EventsOK /\ SkippedOK /\ TimesOK /\ OutOK
      /\ RowsOK
  BY DEF LogInv
<1>2. /\ UNCHANGED <<slNow, slOut, slCursor, slRun, slTimes, slLate, slMissed, slAborted,
                     slLocal, slSnapshot, slFetched, slCentral>>
      /\ w + 1 \in LogLines /\ slMinute' = Append(slMinute, slNow)
      /\ slLogs' = [slLogs EXCEPT ![j].lines = Append(@, w + 1)]
  BY <1>b, <1>c DEF WritesLine, logStores, logSync
<1>3. /\ n \in Nat /\ n > 0 /\ DOMAIN slLogs = 1..n /\ w \in Nat /\ DOMAIN slMinute = 1..w
      /\ LogLines \in SUBSET Nat /\ DOMAIN slMinute \in SUBSET LogLines
  BY <1>1, <1>a, <1>c, LogFacts, LinesAreLogLines DEF PlacesOK
<1>4. j \in DOMAIN slLogs
  BY <1>1, <1>b, LogOfIsLast DEF OutOK
<1>5. /\ slLogs[j].inode \in Nat /\ slLogs[j].lines \in Seq(LogLines) /\ slLogs[j] \in Log
      /\ m \in Nat /\ DOMAIN slLogs[j].lines = 1..m
  BY <1>1, <1>4, <1>d, LogFacts
<1> DEFINE lines == Append(slLogs[j].lines, w + 1)
           log == [slLogs[j] EXCEPT !.lines = lines]
<1>6. /\ lines \in Seq(LogLines) /\ DOMAIN lines = 1..m + 1 /\ Len(lines) = m + 1
      /\ lines[m + 1] = w + 1
      /\ \A p \in 1..m : lines[p] = slLogs[j].lines[p]
  BY <1>2, <1>5
<1>7. slLogs' = [slLogs EXCEPT ![j] = log]
  BY <1>2
<1> HIDE DEF lines
<1>8. log \in Log /\ log.inode = slLogs[j].inode /\ log.lines = lines
  BY <1>5, <1>6
<1> HIDE DEF log
<1>9. /\ Len(slLogs') = n /\ DOMAIN slLogs' = 1..n /\ slLogs' \in Seq(Log)
      /\ slLogs'[j] = log /\ \A i \in 1..n : i # j => slLogs'[i] = slLogs[i]
  <2>1. slLogs \in Seq(Log)
    BY <1>1 DEF LogTypeOK
  <2> HIDE DEF Log
  <2> QED
    BY <1>3, <1>4, <1>7, <1>8, <1>a, <2>1
<1>10. \A i \in 1..n : slLogs'[i].inode = slLogs[i].inode
  BY <1>8, <1>9
<1>11. ASSUME NEW i, NEW p
       PROVE  /\ Place(i, p)' <=> Place(i, p) \/ (i = j /\ p = m + 1)
              /\ Place(i, p) => Line(i, p)' = Line(i, p) /\ ~(i = j /\ p = m + 1)
  <2>1. CASE i # j
    BY <1>3, <1>9, <2>1 DEF Place, Line
  <2>2. CASE i = j
    <3>1. slLogs'[i].lines = lines /\ DOMAIN slLogs[i].lines = 1..m
      BY <1>5, <1>8, <1>9, <2>2
    <3>2. DOMAIN slLogs'[i].lines = 1..m + 1
      BY <1>6, <3>1
    <3>3. Place(i, p) <=> p \in 1..m
      BY <1>3, <1>4, <2>2, <3>1 DEF Place
    <3>4. Place(i, p)' <=> p \in 1..m + 1
      BY <1>3, <1>4, <1>9, <2>2, <3>2 DEF Place
    <3>5. p \in 1..m + 1 <=> p \in 1..m \/ p = m + 1
      BY <1>5
    <3>6. p \in 1..m => p # m + 1
      BY <1>5
    <3>7. p \in 1..m => Line(i, p)' = Line(i, p)
      BY <1>6, <2>2, <3>1 DEF Line
    <3> QED
      BY <2>2, <3>3, <3>4, <3>5, <3>6, <3>7
  <2> QED
    BY <2>1, <2>2
<1>12. Line(j, m + 1)' = w + 1
  BY <1>6, <1>8, <1>9 DEF Line
<1>13. /\ slMinute' \in Seq(Minutes) /\ Len(slMinute') = w + 1 /\ DOMAIN slMinute' = 1..w + 1
       /\ slMinute'[w + 1] = slNow /\ \A l \in 1..w : slMinute'[l] = slMinute[l]
  <2>1. slMinute \in Seq(Minutes) /\ slNow \in Minutes
    BY <1>1 DEF LogTypeOK
  <2>2. slMinute' = Append(slMinute, slNow)
    BY <1>2
  <2> QED
    BY <1>c, <2>1, <2>2
<1>14. LogTypeOK'
  <2>1. UNCHANGED <<slNow, slOut, slCursor, slRun, slTimes, slLate, slMissed, slAborted,
                    slLocal, slSnapshot, slFetched, slCentral>>
    BY <1>2
  <2> QED
    BY <1>1, <1>9, <1>13, <2>1 DEF LogTypeOK
<1>15. j \in Nat /\ m + 1 \in Nat
  BY <1>3, <1>4, <1>5
<1>16. PlacesOK'
  <2>1. ASSUME NEW i \in Nat, NEW p \in Nat, Place(i, p)' PROVE Line(i, p)' \in DOMAIN slMinute'
    <3>1. CASE Place(i, p)
      <4>1. Line(i, p) \in 1..w /\ Line(i, p)' = Line(i, p)
        BY <1>1, <1>3, <1>11, <3>1 DEF PlacesOK
      <4> QED
        BY <1>3, <1>13, <4>1
    <3>2. CASE i = j /\ p = m + 1
      BY <1>3, <1>12, <1>13, <3>2
    <3> QED
      BY <1>11, <2>1, <3>1, <3>2
  <2>2. ASSUME NEW i \in Nat, NEW p \in Nat, NEW k \in Nat, NEW q \in Nat,
               Place(i, p)', Place(k, q)', Line(i, p)' = Line(k, q)'
        PROVE  i = k /\ p = q
    <3>1. \A x, y \in Nat : Place(x, y) => Line(x, y)' = Line(x, y) /\ Line(x, y) # w + 1
      BY <1>1, <1>3, <1>11 DEF PlacesOK
    <3>2. CASE Place(i, p) /\ Place(k, q)
      <4>1. Line(i, p) = Line(k, q)
        BY <2>2, <3>1, <3>2
      <4> QED
        BY <1>1, <3>2, <4>1, OnePlace
    <3>3. CASE ~Place(i, p)
      <4>1. i = j /\ p = m + 1 /\ ~Place(k, q)
        BY <1>11, <1>12, <2>2, <3>1, <3>3
      <4> QED
        BY <1>11, <2>2, <4>1
    <3>4. CASE ~Place(k, q)
      <4>1. k = j /\ q = m + 1 /\ ~Place(i, p)
        BY <1>11, <1>12, <2>2, <3>1, <3>4
      <4> QED
        BY <1>11, <2>2, <4>1
    <3> QED
      BY <3>2, <3>3, <3>4
  <2>3. ASSUME NEW l \in DOMAIN slMinute' PROVE \E i, p \in Nat : Place(i, p)' /\ Line(i, p)' = l
    <3>1. CASE l \in 1..w
      <4>1. PICK i \in Nat, p \in Nat : Place(i, p) /\ Line(i, p) = l
        BY <1>1, <1>3, <3>1 DEF PlacesOK
      <4> QED
        BY <1>11, <4>1
    <3>2. CASE l = w + 1
      BY <1>11, <1>12, <1>15, <3>2
    <3>3. w \in Nat /\ l \in 1..w + 1
      BY <1>3, <1>13, <2>3
    <3>4. l \in 1..w \/ l = w + 1
      BY <3>3
    <3> QED
      BY <3>1, <3>2, <3>4
  <2>4. \A i \in DOMAIN slLogs' : slLogs'[i].inode <= CurrentInode'
    <3>1. CurrentInode' = CurrentInode
      BY <1>3, <1>9, <1>10, <1>a DEF CurrentInode
    <3> QED
      BY <1>1, <1>3, <1>9, <1>10, <3>1 DEF PlacesOK
  <2>5. \A l \in LogLines : l > Len(slMinute') => slTimes'[l] = 0
    BY <1>1, <1>2, <1>3, <1>13, <1>c DEF PlacesOK
  <2> QED
    BY <1>3, <1>9, <2>1, <2>2, <2>3, <2>4, <2>5 DEF PlacesOK
<1>17. OutOK'
  BY <1>1, <1>2, <1>3, <1>9, <1>10 DEF OutOK
<1>18. \A i \in 1..n : Len(slLogs[i].lines) <= Len(slLogs'[i].lines)
  <2> TAKE i \in 1..n
  <2>1. Len(slLogs[i].lines) \in Nat
    BY <1>1, <1>3, LogFacts
  <2>2. CASE i = j
    BY <1>5, <1>6, <1>8, <1>9, <2>2
  <2>3. CASE i # j
    BY <1>9, <2>1, <2>3
  <2> QED
    BY <2>2, <2>3
<1>19. CursorOK'
  <2>1. slCursor.log \in Nat /\ slCursor.offset \in Nat
    BY <1>1, RunFacts
  <2>2. ASSUME slCursor.log > 0
        PROVE  /\ slLogs'[slCursor.log].inode = slCursor.inode
               /\ slCursor.offset <= Len(slLogs'[slCursor.log].lines)
    <3>1. slCursor.log \in 1..n /\ slLogs[slCursor.log].inode = slCursor.inode
          /\ slCursor.offset <= Len(slLogs[slCursor.log].lines)
      BY <1>1, <1>3, <2>1, <2>2 DEF CursorOK
    <3>2. /\ Len(slLogs[slCursor.log].lines) <= Len(slLogs'[slCursor.log].lines)
          /\ Len(slLogs[slCursor.log].lines) \in Nat /\ Len(slLogs'[slCursor.log].lines) \in Nat
      BY <1>1, <1>3, <1>9, <1>14, <1>18, <3>1, LogFacts
    <3>3. slCursor.offset <= Len(slLogs'[slCursor.log].lines)
      BY <2>1, <3>1, <3>2
    <3> QED
      BY <1>10, <3>1, <3>3
  <2>3. slCursor.log <= n /\ slCursor' = slCursor /\ Len(slLogs') = n
    BY <1>1, <1>2, <1>9, <1>a DEF CursorOK
  <2> QED
    BY <2>2, <2>3 DEF CursorOK
<1>20. slRun' = slRun /\ slCursor' = slCursor /\ slTimes' = slTimes /\ slLate' = slLate
       /\ slMissed' = slMissed /\ slAborted' = slAborted
  BY <1>2
<1>21. RunOK'
  <2> SUFFICES ASSUME Running PROVE RunOK'
    BY <1>20 DEF RunOK, Running
  <2>1. /\ slRun.log \in 1..n /\ slRun.size \in Nat /\ slRun.written \in Nat
        /\ slRun.written <= w /\ slRun.events \subseteq 1..w
        /\ slRun.size <= Len(slLogs[slRun.log].lines)
    BY <1>1, <1>3, <1>c, RunFacts DEF RunOK
  <2>2. /\ slLogs'[slRun.log].inode = slRun.inode /\ slRun.log \in DOMAIN slLogs'
    BY <1>1, <1>3, <1>9, <1>10, <2>1 DEF RunOK
  <2>3. slRun.size <= Len(slLogs'[slRun.log].lines)
    <3>1. /\ Len(slLogs[slRun.log].lines) <= Len(slLogs'[slRun.log].lines)
          /\ Len(slLogs[slRun.log].lines) \in Nat /\ Len(slLogs'[slRun.log].lines) \in Nat
      BY <1>1, <1>3, <1>9, <1>14, <1>18, <2>1, LogFacts
    <3> QED
      BY <2>1, <3>1
  <2>4. slRun.written <= Len(slMinute') /\ slRun.events \subseteq DOMAIN slMinute'
    BY <1>3, <1>13, <2>1
  <2>5. ASSUME Reading, NEW i \in Nat, NEW p \in Nat, Place(i, p)',
               i > slRun.log \/ (i = slRun.log /\ p > slRun.size)
        PROVE  Line(i, p)' > slRun.written
    <3>1. CASE Place(i, p)
      <4>1. Line(i, p)' = Line(i, p)
        BY <1>11, <3>1
      <4> QED
        BY <1>1, <2>5, <3>1, <4>1 DEF RunOK
    <3>2. CASE i = j /\ p = m + 1
      BY <1>3, <1>12, <2>1, <3>2
    <3> QED
      BY <1>11, <2>5, <3>1, <3>2
  <2>6. /\ slRun.from <= slRun.size /\ slCursor.log <= slRun.log
        /\ slRun.phase # "snapshot" => (slCursor.log = slRun.log => slCursor.offset = slRun.from)
        /\ Reading => \A l \in LogLines : l > slRun.written => slTimes[l] = 0
    BY <1>1 DEF RunOK
  <2> QED
    BY <1>20, <2>2, <2>3, <2>4, <2>5, <2>6 DEF RunOK, Reading
<1>22. EventsOK'
  <2> SUFFICES ASSUME slRun.phase = "ingest", NEW i \in Nat, NEW p \in Nat, Place(i, p)',
                      Line(i, p)' \in slRun.events
               PROVE  \/ Line(i, p)' > slRun.written /\ Line(i, p)' \in slLate
                      \/ i = slRun.log /\ p > slRun.from /\ p <= slRun.size
    BY <1>20 DEF EventsOK
  <2>1. slRun.events \subseteq 1..w
    BY <1>1, <1>3 DEF RunOK, Running, Phases
  <2>2. CASE Place(i, p)
    BY <1>1, <1>11, <2>2 DEF EventsOK
  <2>3. CASE i = j /\ p = m + 1
    BY <1>3, <1>12, <2>1, <2>3
  <2> QED
    BY <1>11, <2>2, <2>3
<1>23. SkippedOK'
  <2> DEFINE Same(i, size) == \A p \in 1..size : Line(i, p)' = Line(i, p)
  <2>1. ASSUME NEW i \in 1..n, NEW size \in Nat, size <= Len(slLogs[i].lines) PROVE Same(i, size)
    <3> SUFFICES ASSUME NEW p \in 1..size PROVE Line(i, p)' = Line(i, p)
      OBVIOUS
    <3>1. Len(slLogs[i].lines) \in Nat /\ DOMAIN slLogs[i].lines = 1..Len(slLogs[i].lines)
      BY <1>1, <1>3, LogFacts
    <3>2. Place(i, p)
      BY <1>3, <2>1, <3>1 DEF Place
    <3> QED
      BY <1>11, <3>2
  <2>2. slCursor.offset \in Nat /\ slCursor.log \in Nat
    BY <1>1, RunFacts
  <2>3. ASSUME slCursor.log = n
        PROVE  \A p \in 1..slCursor.offset : WasRead(Line(slCursor.log, p))'
    <3>1. Same(slCursor.log, slCursor.offset)
      BY <1>1, <1>3, <1>20, <2>1, <2>2, <2>3 DEF CursorOK
    <3>2. \A p \in 1..slCursor.offset : WasRead(Line(slCursor.log, p))
      BY <1>1, <1>a, <2>3 DEF SkippedOK
    <3> QED
      BY <1>20, <3>1, <3>2 DEF WasRead
  <2>4. ASSUME Running, slRun.log = n
        PROVE  /\ Reading => \A p \in 1..slRun.from : WasRead(Line(slRun.log, p))'
               /\ slRun.phase = "ingest" =>
                     \A p \in slRun.from + 1..slRun.size : Line(slRun.log, p)' \in slRun.events
               /\ slRun.phase = "cursor" => \A p \in 1..slRun.size : WasRead(Line(slRun.log, p))'
    <3>1. slRun.from \in Nat /\ slRun.size \in Nat /\ slRun.from <= slRun.size /\ slRun.log \in 1..n
      BY <1>1, <1>3, <2>4, RunFacts DEF RunOK
    <3>2. Same(slRun.log, slRun.size)
      BY <1>1, <1>20, <2>1, <2>4, <3>1 DEF RunOK
    <3>3. \A p \in 1..slRun.from : Line(slRun.log, p)' = Line(slRun.log, p)
      BY <3>1, <3>2
    <3>4. \A p \in slRun.from + 1..slRun.size : Line(slRun.log, p)' = Line(slRun.log, p)
      BY <3>1, <3>2
    <3>5. /\ Reading => \A p \in 1..slRun.from : WasRead(Line(slRun.log, p))
          /\ slRun.phase = "ingest" =>
                \A p \in slRun.from + 1..slRun.size : Line(slRun.log, p) \in slRun.events
          /\ slRun.phase = "cursor" => \A p \in 1..slRun.size : WasRead(Line(slRun.log, p))
      BY <1>1, <1>a, <2>4 DEF SkippedOK
    <3> QED
      BY <1>20, <3>2, <3>3, <3>4, <3>5 DEF WasRead
  <2>5. Len(slLogs') = n
    BY <1>9
  <2> QED
    BY <1>20, <2>3, <2>4, <2>5 DEF SkippedOK, Running, Reading
<1>24. TimesOK'
  <2> SUFFICES ASSUME NEW i \in Nat, NEW p \in Nat, Place(i, p)'
               PROVE  slTimes'[Line(i, p)'] <= TimesAllowed(i, p)'
    BY DEF TimesOK
  <2>1. slAborted \in Nat /\ slTimes \in [LogLines -> Nat]
    BY <1>1 DEF LogTypeOK
  <2>2. CASE Place(i, p)
    <3>1. Line(i, p)' = Line(i, p) /\ slTimes[Line(i, p)] <= TimesAllowed(i, p)
      BY <1>1, <1>11, <2>2 DEF TimesOK
    <3>2. Passed(i, p)' <=> Passed(i, p)
      BY <1>9, <1>20, <1>a DEF Passed, Reading
    <3>3. TimesAllowed(i, p)' = TimesAllowed(i, p)
      BY <1>20, <3>1, <3>2 DEF TimesAllowed
    <3> QED
      BY <1>20, <3>1, <3>3
  <2>3. CASE i = j /\ p = m + 1
    <3>1. w + 1 \in LogLines /\ w + 1 > w /\ Line(i, p)' = w + 1
      BY <1>2, <1>3, <1>12, <2>3
    <3>2. slTimes[w + 1] = 0
      BY <1>1, <1>c, <3>1 DEF PlacesOK
    <3>3. TimesAllowed(i, p)' \in Nat
      BY <1>20, <2>1 DEF TimesAllowed
    <3> QED
      BY <1>20, <3>1, <3>2, <3>3
  <2> QED
    BY <1>11, <2>2, <2>3
<1>25. RowsOK'
  <2> SUFFICES ASSUME NEW b \in Minutes
               PROVE  SumFunctionOnSet(slTimes, LinesAt(b)') = SumFunctionOnSet(slTimes, LinesAt(b))
    BY <1>1, <1>2 DEF RowsOK
  <2>1. /\ IsFiniteSet(LinesAt(b)) /\ LinesAt(b) \in SUBSET 1..w
        /\ slTimes \in [LogLines -> Nat]
    BY <1>1, <1>3, LinesAtFinite DEF LogTypeOK
  <2>2. LinesAt(b)' = LinesAt(b) \cup (IF slNow = b THEN {w + 1} ELSE {})
    BY <1>3, <1>13 DEF LinesAt
  <2>3. w + 1 \notin LinesAt(b) /\ slTimes[w + 1] = 0 /\ \A l \in LinesAt(b) : slTimes[l] \in Int
    <3>1. w + 1 \in LogLines /\ w + 1 > w
      BY <1>2, <1>3
    <3>2. slTimes[w + 1] = 0
      BY <1>1, <1>c, <3>1 DEF PlacesOK
    <3> QED
      BY <1>3, <2>1, <3>2
  <2>4. SumFunctionOnSet(slTimes, LinesAt(b) \cup {w + 1}) =
          SumFunctionOnSet(slTimes, LinesAt(b)) + slTimes[w + 1]
    BY <2>1, <2>3, SumAdds
  <2>5. SumFunctionOnSet(slTimes, LinesAt(b)) \in Int
    BY <2>1, <2>3, SumType
  <2>6. CASE slNow = b
    BY <2>2, <2>3, <2>4, <2>5, <2>6
  <2>7. CASE slNow # b
    BY <2>2, <2>7
  <2> QED
    BY <2>6, <2>7
<1> QED
  BY <1>14, <1>16, <1>17, <1>19, <1>21, <1>22, <1>23, <1>24, <1>25 DEF LogInv

-----------------------------------------------------------------------------
\* The collector

LEMMA FileStays ==
  ASSUME LogInv, UNCHANGED <<slLogs, slOut, slMinute, slTimes>>
  PROVE  PlacesOK' /\ OutOK'
<1>1. /\ LogTypeOK /\ PlacesOK /\ Len(slLogs') > 0
      /\ \A i \in DOMAIN slLogs' : slLogs'[i].inode <= CurrentInode'
  BY SamePlaces DEF LogInv, PlacesOK
<1>2. PlacesOK'
  BY <1>1, SamePlaces, PlacesStay
<1> QED
  BY <1>2, OutStays

LEMMA OpensLogStep ==
  ASSUME LogInv, OpensLog
  PROVE  LogInv'
<1>a. PICK n : n = Len(slLogs)
  OBVIOUS
<1>b. PICK from : from = StartOffset
  OBVIOUS
<1>c. PICK size : size = Len(LinesOf(CurrentInode))
  OBVIOUS
<1>1. /\ LogTypeOK /\ PlacesOK /\ CursorOK /\ SkippedOK /\ TimesOK /\ RowsOK
  BY DEF LogInv
<1>2. /\ slRun = NoRun
      /\ slRun' = [phase |-> "scan", inode |-> CurrentInode, log |-> n, from |-> from,
                   size |-> size, events |-> {}, written |-> Len(slMinute)]
      /\ slMissed' = IF slCursor.log = n THEN slMissed
                     ELSE slMissed \cup {LinesOf(CurrentInode)[i] : i \in 1..from}
  BY <1>a, <1>b, <1>c DEF OpensLog
<1>3. UNCHANGED <<slNow, slLogs, slOut, slMinute, slCursor, slLocal, slTimes, slSnapshot,
                  slFetched, slCentral, slLate, slAborted>>
  BY DEF OpensLog, logEdge, logStores, logSync
<1>4. /\ n \in Nat /\ n > 0 /\ DOMAIN slLogs = 1..n /\ Len(slMinute) \in Nat
      /\ LinesOf(CurrentInode) = slLogs[n].lines /\ size = Len(slLogs[n].lines)
      /\ slLogs[n].inode = CurrentInode /\ CurrentInode \in Nat /\ size \in Nat
      /\ DOMAIN slLogs[n].lines = 1..size
  BY <1>1, <1>a, <1>c, CurrentIsLast, LogFacts DEF PlacesOK, CurrentInode
<1>5. /\ slCursor.inode \in Nat /\ slCursor.offset \in Nat /\ slCursor.log \in Nat
      /\ slCursor.log <= n
  BY <1>1, <1>a, RunFacts DEF CursorOK
<1>6. from \in Nat /\ from <= size /\ (slCursor.log = n => from = slCursor.offset)
  BY <1>1, <1>4, <1>5, <1>b DEF StartOffset, CursorOK
<1>7. /\ slRun'.phase = "scan" /\ slRun'.inode = CurrentInode /\ slRun'.log = n
      /\ slRun'.from = from /\ slRun'.size = size /\ slRun'.events = {}
      /\ slRun'.written = Len(slMinute)
  BY <1>2
<1>8. Running' /\ Reading' /\ slRun.phase = "idle"
  BY <1>2, <1>7 DEF Running, Reading, Phases, NoRun
<1>9. \A p \in 1..from : Place(n, p) /\ Line(n, p) = LinesOf(CurrentInode)[p]
  BY <1>4, <1>6 DEF Place, Line
<1>10. {LinesOf(CurrentInode)[i] : i \in 1..from} \in SUBSET LogLines
  BY <1>1, <1>9, LogFacts
<1>11. LogTypeOK'
  <2>1. slRun' \in Runs
    BY <1>2, <1>4, <1>6 DEF Runs, Phases
  <2>2. slMissed' \in SUBSET LogLines
    BY <1>1, <1>2, <1>10 DEF LogTypeOK
  <2> QED
    BY <1>1, <1>3, <2>1, <2>2 DEF LogTypeOK
<1>12. CursorOK'
  BY <1>1, <1>3 DEF CursorOK
<1>13. \A i, p : (Place(i, p)' <=> Place(i, p)) /\ Line(i, p)' = Line(i, p)
  BY <1>3, SamePlaces
<1>14. RunOK'
  <2>1. \A l \in LogLines : l > slRun'.written => slTimes'[l] = 0
    BY <1>1, <1>3, <1>7 DEF PlacesOK
  <2>2. ASSUME NEW i \in Nat, NEW p \in Nat, Place(i, p)', i > n \/ (i = n /\ p > size)
        PROVE  FALSE
    <3>1. i \in 1..n /\ p \in DOMAIN slLogs[i].lines
      BY <1>4, <1>13, <2>2 DEF Place
    <3> QED
      BY <1>4, <2>2, <3>1
  <2>3. /\ n \in DOMAIN slLogs' /\ slLogs'[n].inode = CurrentInode /\ size <= Len(slLogs'[n].lines)
        /\ slRun'.written <= Len(slMinute') /\ slCursor'.log <= n
        /\ slRun'.events \subseteq DOMAIN slMinute'
        /\ (slCursor'.log = n => slCursor'.offset = from)
    BY <1>3, <1>4, <1>5, <1>6, <1>7
  <2> QED
    BY <1>6, <1>7, <2>1, <2>2, <2>3 DEF RunOK
<1>15. EventsOK'
  BY <1>7 DEF EventsOK
<1>16. \A l : WasRead(l) => WasRead(l)'
  BY <1>2, <1>3 DEF WasRead
<1>17. SkippedOK'
  <2>1. slCursor.log = n => \A p \in 1..slCursor.offset : WasRead(Line(slCursor.log, p))'
    BY <1>1, <1>3, <1>13, <1>16, <1>a DEF SkippedOK
  <2>2. ASSUME NEW p \in 1..from PROVE WasRead(Line(n, p))'
    <3>1. CASE slCursor.log = n
      BY <1>3, <1>5, <1>6, <2>1, <2>2, <3>1
    <3>2. CASE slCursor.log # n
      <4>1. Line(n, p) \in slMissed'
        BY <1>2, <1>9, <2>2, <3>2
      <4> QED
        BY <1>13, <4>1 DEF WasRead
    <3> QED
      BY <3>1, <3>2
  <2> QED
    BY <1>3, <1>7, <1>a, <2>1, <2>2 DEF SkippedOK
<1>18. TimesOK'
  <2>1. ASSUME NEW i \in Nat, NEW p \in Nat, Passed(i, p) PROVE Passed(i, p)'
    <3>1. i < n \/ (i = slCursor.log /\ p <= slCursor.offset)
      BY <1>8, <1>a, <2>1 DEF Passed, Reading
    <3> QED
      BY <1>3, <1>7, <1>8, <3>1 DEF Passed
  <2>2. ASSUME NEW i \in Nat, NEW p \in Nat, Place(i, p)
        PROVE  slTimes[Line(i, p)] <= TimesAllowed(i, p)'
    <3>1. /\ slTimes[Line(i, p)] <= TimesAllowed(i, p) /\ slTimes[Line(i, p)] \in Nat
          /\ slAborted \in Nat
      BY <1>1, <2>2, LogFacts DEF TimesOK, LogTypeOK
    <3>2. TimesAllowed(i, p) <= TimesAllowed(i, p)' /\ TimesAllowed(i, p) \in Nat
          /\ TimesAllowed(i, p)' \in Nat
      BY <1>3, <1>13, <2>1, <3>1 DEF TimesAllowed
    <3> QED
      BY <3>1, <3>2
  <2> QED
    BY <1>3, <1>13, <2>2 DEF TimesOK
<1>19. RowsOK'
  BY <1>3, RowsStay DEF LogInv, RowsOK
<1>20. PlacesOK' /\ OutOK'
  BY <1>3, FileStays
<1> QED
  BY <1>11, <1>12, <1>14, <1>15, <1>17, <1>18, <1>19, <1>20 DEF LogInv

(* Which lines a run may count again: none more than the last one could.   *)
LEMMA TimesStay ==
  ASSUME LogInv, UNCHANGED <<slLogs, slTimes>>,
         slAborted' \in Nat, slAborted <= slAborted', slLate \subseteq slLate',
         \A i, p \in Nat : Place(i, p) /\ Passed(i, p) => Passed(i, p)' \/ slAborted < slAborted'
  PROVE  TimesOK'
<1>1. LogTypeOK /\ TimesOK
  BY DEF LogInv
<1>2. \A i, p : (Place(i, p)' <=> Place(i, p)) /\ Line(i, p)' = Line(i, p)
  BY SamePlaces
<1>3. ASSUME NEW i \in Nat, NEW p \in Nat, Place(i, p)
      PROVE  slTimes[Line(i, p)] <= TimesAllowed(i, p)'
  <2>1. /\ slTimes[Line(i, p)] <= TimesAllowed(i, p) /\ slTimes[Line(i, p)] \in Nat
        /\ slAborted \in Nat
    BY <1>1, <1>3, LogFacts DEF TimesOK, LogTypeOK
  <2>2. TimesAllowed(i, p) <= TimesAllowed(i, p)' /\ TimesAllowed(i, p) \in Nat
        /\ TimesAllowed(i, p)' \in Nat
    <3> DEFINE late == IF Line(i, p) \in slLate THEN 1 ELSE 0
               late1 == IF Line(i, p)' \in slLate' THEN 1 ELSE 0
               passed == IF Passed(i, p) THEN 1 ELSE 0
               passed1 == IF Passed(i, p)' THEN 1 ELSE 0
    <3>1. TimesAllowed(i, p) = slAborted + late + passed
      BY DEF TimesAllowed
    <3>2. TimesAllowed(i, p)' = slAborted' + late1 + passed1
      BY DEF TimesAllowed
    <3>3. late \in {0, 1} /\ late1 \in {0, 1} /\ late <= late1
      BY <1>2
    <3>4. passed \in {0, 1} /\ passed1 \in {0, 1} /\ (passed <= passed1 \/ slAborted < slAborted')
      BY <1>3
    <3> HIDE DEF late, late1, passed, passed1
    <3>5. slAborted \in Nat /\ slAborted' \in Nat /\ slAborted <= slAborted'
      BY <2>1
    <3>6. \A a, a1 \in Nat, l, l1, p0, p1 \in {0, 1} :
             a <= a1 /\ l <= l1 /\ (p0 <= p1 \/ a < a1) =>
                /\ a + l + p0 <= a1 + l1 + p1
                /\ a + l + p0 \in Nat /\ a1 + l1 + p1 \in Nat
      OBVIOUS
    <3>7. /\ slAborted + late + passed <= slAborted' + late1 + passed1
          /\ slAborted + late + passed \in Nat /\ slAborted' + late1 + passed1 \in Nat
      BY <3>3, <3>4, <3>5, <3>6, Zenon
    <3> QED
      BY <3>1, <3>2, <3>7
  <2> QED
    BY <2>1, <2>2
<1> QED
  BY <1>2, <1>3 DEF TimesOK

LEMMA ScansLogStep ==
  ASSUME LogInv, ScansLog
  PROVE  LogInv'
<1>a. PICK k : k = LogOf(slRun.inode)
  OBVIOUS
<1>b. PICK events : events = LinesFrom(slRun.inode, slRun.from)
  OBVIOUS
<1>1. /\ LogTypeOK /\ PlacesOK /\ CursorOK /\ RunOK /\ SkippedOK /\ TimesOK /\ RowsOK
  BY DEF LogInv
<1>2. /\ slRun.phase = "scan" /\ slRun' = [slRun EXCEPT !.phase = "ingest", !.events = events]
      /\ slLate' = slLate \cup {l \in events : l > slRun.written}
  BY <1>b DEF ScansLog
<1>3. UNCHANGED <<slNow, slLogs, slOut, slMinute, slCursor, slLocal, slTimes, slSnapshot,
                  slFetched, slCentral, slMissed, slAborted>>
  BY DEF ScansLog, logEdge, logStores, logSync
<1>4. Running /\ Reading
  BY <1>2 DEF Running, Reading, Phases
<1>5. /\ slRun \in Runs /\ slRun.log \in Nat /\ slRun.from \in Nat /\ slRun.size \in Nat
      /\ slRun.written \in Nat /\ slRun.from <= slRun.size
      /\ slRun.log \in DOMAIN slLogs /\ slLogs[slRun.log].inode = slRun.inode
  BY <1>1, <1>4, RunFacts DEF RunOK
<1>6. k \in DOMAIN slLogs /\ k \in Nat /\ slRun.log <= k
  BY <1>1, <1>5, <1>a, LogOfIsLast, LogFacts
<1>7. events = {Line(k, p) : p \in slRun.from + 1..Len(slLogs[k].lines)}
  BY <1>a, <1>b DEF LinesFrom, LinesOf, Line
<1>8. /\ Len(slLogs[k].lines) \in Nat /\ DOMAIN slLogs[k].lines = 1..Len(slLogs[k].lines)
  BY <1>1, <1>6, LogFacts
<1>9. \A p \in slRun.from + 1..Len(slLogs[k].lines) : Place(k, p)
  BY <1>5, <1>6, <1>8 DEF Place
<1>10. events \in SUBSET LogLines /\ events \in SUBSET DOMAIN slMinute
  BY <1>1, <1>6, <1>7, <1>9, LogFacts DEF PlacesOK
<1>11. slRun' \in Runs
  BY <1>2, <1>5, <1>10 DEF Runs, Phases
<1>12. /\ slRun'.phase = "ingest" /\ slRun'.inode = slRun.inode /\ slRun'.log = slRun.log
       /\ slRun'.from = slRun.from /\ slRun'.size = slRun.size /\ slRun'.events = events
       /\ slRun'.written = slRun.written
  BY <1>2, <1>5 DEF Runs
<1>13. Running' /\ Reading'
  BY <1>12 DEF Running, Reading, Phases
<1>14. \A i, p : (Place(i, p)' <=> Place(i, p)) /\ Line(i, p)' = Line(i, p)
  BY <1>3, SamePlaces
<1>15. LogTypeOK'
  <2>1. slLate' \in SUBSET LogLines
    BY <1>1, <1>2, <1>10 DEF LogTypeOK
  <2> QED
    BY <1>1, <1>3, <1>11, <2>1 DEF LogTypeOK
<1>16. PlacesOK' /\ OutOK'
  BY <1>3, FileStays
<1>17. CursorOK'
  BY <1>1, <1>3 DEF CursorOK
<1>18. RunOK'
  BY <1>1, <1>2, <1>3, <1>4, <1>10, <1>12, <1>13, <1>14 DEF RunOK
<1>19. EventsOK'
  <2> SUFFICES ASSUME NEW i \in Nat, NEW p \in Nat, Place(i, p), Line(i, p) \in events
               PROVE  \/ Line(i, p) > slRun.written /\ Line(i, p) \in slLate'
                      \/ i = slRun.log /\ p > slRun.from /\ p <= slRun.size
    BY <1>12, <1>14 DEF EventsOK
  <2>1. PICK q \in slRun.from + 1..Len(slLogs[k].lines) : Line(k, q) = Line(i, p)
    BY <1>7
  <2>2. k = i /\ q = p
    <3>1. q \in Nat /\ Place(k, q)
      BY <1>5, <1>8, <1>9, <2>1
    <3> QED
      BY <1>1, <1>6, <2>1, <3>1, OnePlace
  <2>3. CASE i = slRun.log /\ p <= slRun.size
    BY <1>5, <1>8, <2>1, <2>2, <2>3
  <2>4. CASE ~(i = slRun.log /\ p <= slRun.size)
    <3>1. i > slRun.log \/ (i = slRun.log /\ p > slRun.size)
      BY <1>5, <1>6, <2>2, <2>4
    <3>2. Line(i, p) > slRun.written
      BY <1>1, <1>4, <3>1 DEF RunOK
    <3> QED
      BY <1>2, <3>2
  <2> QED
    BY <2>3, <2>4
<1>20. SkippedOK'
  <2>1. \A l : WasRead(l)' <=> WasRead(l)
    BY <1>3 DEF WasRead
  <2>2. ASSUME slRun.log = Len(slLogs), NEW p \in slRun.from + 1..slRun.size
        PROVE  Line(slRun.log, p) \in events
    <3>1. k = slRun.log
      BY <1>1, <1>5, <1>6, <2>2, LogFacts
    <3>2. slRun.size <= Len(slLogs[k].lines)
      BY <1>1, <1>4, <3>1 DEF RunOK
    <3>3. p \in slRun.from + 1..Len(slLogs[k].lines)
      BY <1>5, <1>8, <2>2, <3>2
    <3> QED
      BY <1>7, <3>1, <3>3
  <2>3. slCursor.log = Len(slLogs) => \A p \in 1..slCursor.offset : WasRead(Line(slCursor.log, p))
    BY <1>1 DEF SkippedOK
  <2>4. slRun.log = Len(slLogs) => \A p \in 1..slRun.from : WasRead(Line(slRun.log, p))
    BY <1>1, <1>4 DEF SkippedOK
  <2> QED
    BY <1>3, <1>12, <1>13, <1>14, <2>1, <2>2, <2>3, <2>4 DEF SkippedOK
<1>21. TimesOK'
  <2>1. \A i, p \in Nat : Passed(i, p) => Passed(i, p)'
    BY <1>2, <1>3, <1>4, <1>12, <1>13 DEF Passed
  <2>2. slAborted' \in Nat /\ slAborted <= slAborted' /\ slLate \subseteq slLate'
    BY <1>1, <1>2, <1>3 DEF LogTypeOK
  <2> QED
    BY <1>3, <2>1, <2>2, TimesStay
<1>22. RowsOK'
  BY <1>3, RowsStay DEF LogInv, RowsOK
<1> QED
  BY <1>15, <1>16, <1>17, <1>18, <1>19, <1>20, <1>21, <1>22 DEF LogInv

LEMMA IngestsStep ==
  ASSUME LogInv, Ingests
  PROVE  LogInv'
<1>a. PICK events : events = slRun.events
  OBVIOUS
<1>1. /\ LogTypeOK /\ PlacesOK /\ CursorOK /\ RunOK /\ EventsOK /\ SkippedOK /\ TimesOK /\ RowsOK
  BY DEF LogInv
<1>2. /\ slRun.phase = "ingest" /\ slRun' = [slRun EXCEPT !.phase = "cursor"]
      /\ slLocal' = [b \in Minutes |-> slLocal[b] + RowsOf(events)[b]]
      /\ slTimes' = [l \in LogLines |-> slTimes[l] + IF l \in events THEN 1 ELSE 0]
  BY <1>a DEF Ingests
<1>3. UNCHANGED <<slNow, slLogs, slOut, slMinute, slCursor, slSnapshot, slFetched, slCentral,
                  slLate, slMissed, slAborted>>
  BY DEF Ingests, logEdge, logSync
<1>4. Running /\ Reading
  BY <1>2 DEF Running, Reading, Phases
<1>5. /\ slRun \in Runs /\ slRun.log \in Nat /\ slRun.from \in Nat /\ slRun.size \in Nat
      /\ slRun.written \in Nat /\ slRun.from <= slRun.size
      /\ slRun.log \in DOMAIN slLogs /\ slLogs[slRun.log].inode = slRun.inode
      /\ slCursor.log \in Nat /\ slCursor.offset \in Nat
      /\ events \in SUBSET LogLines /\ events \in SUBSET DOMAIN slMinute
  BY <1>1, <1>4, <1>a, RunFacts DEF RunOK
<1>6. /\ slRun'.phase = "cursor" /\ slRun'.inode = slRun.inode /\ slRun'.log = slRun.log
      /\ slRun'.from = slRun.from /\ slRun'.size = slRun.size /\ slRun'.events = slRun.events
      /\ slRun'.written = slRun.written /\ slRun' \in Runs
  BY <1>2, <1>5 DEF Runs, Phases
<1>7. Running' /\ ~Reading'
  BY <1>6 DEF Running, Reading, Phases
<1>8. \A i, p : (Place(i, p)' <=> Place(i, p)) /\ Line(i, p)' = Line(i, p)
  BY <1>3, SamePlaces
<1>9. /\ slTimes \in [LogLines -> Nat] /\ slTimes' \in [LogLines -> Nat]
      /\ \A l \in LogLines : slTimes'[l] = slTimes[l] + IF l \in events THEN 1 ELSE 0
  BY <1>1, <1>2 DEF LogTypeOK
<1>10. ASSUME NEW b \in Minutes
       PROVE  /\ RowsOf(events)[b] = Cardinality({l \in events : slMinute[l] = b})
              /\ RowsOf(events)[b] \in Nat
  <2> DEFINE its == {l \in events : slMinute[l] = b}
  <2>1. RowsOf(events)[b] = Cardinality(its)
    BY DEF RowsOf
  <2>2. its \in SUBSET DOMAIN slMinute /\ IsFiniteSet(DOMAIN slMinute)
    BY <1>1, <1>5, LinesAtFinite
  <2> HIDE DEF its
  <2>3. Cardinality(its) \in Nat
    BY <2>2, FS_Subset, FS_CardinalityType
  <2> QED
    BY <2>1, <2>3 DEF its
<1>11. LogTypeOK'
  <2>1. slLocal' \in Rows
    <3>1. \A b \in Minutes : slLocal[b] \in Nat
      BY <1>1 DEF LogTypeOK, Rows
    <3>2. ASSUME NEW b \in Minutes PROVE slLocal[b] + RowsOf(events)[b] \in Nat
      <4>1. RowsOf(events)[b] \in Nat /\ slLocal[b] \in Nat
        BY <1>10, <3>1
      <4>2. \A m, n \in Nat : m + n \in Nat
        OBVIOUS
      <4> QED
        BY <4>1, <4>2
    <3> QED
      BY <1>2, <3>2 DEF Rows
  <2> QED
    BY <1>1, <1>3, <1>6, <1>9, <2>1 DEF LogTypeOK
<1>12. PlacesOK' /\ OutOK'
  <2>1. \A l \in LogLines : l > Len(slMinute') => slTimes'[l] = 0
    <3> SUFFICES ASSUME NEW l \in LogLines, l > Len(slMinute) PROVE slTimes'[l] = 0
      BY <1>3
    <3>1. slTimes[l] = 0 /\ l \notin DOMAIN slMinute
      BY <1>1, LogFacts DEF PlacesOK
    <3> QED
      BY <1>5, <1>9, <3>1
  <2>2. OutOK'
    BY <1>3, OutStays
  <2>3. PlacesOK'
    <3>1. \A i, p \in Nat : Place(i, p)' => Line(i, p)' \in DOMAIN slMinute'
      BY <1>1, <1>3, <1>8 DEF PlacesOK
    <3>2. \A i, p, j, q \in Nat :
             Place(i, p)' /\ Place(j, q)' /\ Line(i, p)' = Line(j, q)' => i = j /\ p = q
      <4>1. \A i, p, j, q \in Nat :
             Place(i, p) /\ Place(j, q) /\ Line(i, p) = Line(j, q) => i = j /\ p = q
        BY <1>1 DEF PlacesOK
      <4> QED
        BY <1>8, <4>1
    <3>3. \A l \in DOMAIN slMinute' : \E i, p \in Nat : Place(i, p)' /\ Line(i, p)' = l
      BY <1>1, <1>3, <1>8 DEF PlacesOK
    <3>4. Len(slLogs') > 0 /\ \A i \in DOMAIN slLogs' : slLogs'[i].inode <= CurrentInode'
      BY <1>1, <1>3, SamePlaces DEF PlacesOK
    <3> QED
      BY <2>1, <3>1, <3>2, <3>3, <3>4 DEF PlacesOK
  <2> QED
    BY <2>2, <2>3
<1>13. CursorOK'
  BY <1>1, <1>3 DEF CursorOK
<1>14. RunOK'
  BY <1>1, <1>2, <1>3, <1>4, <1>6, <1>7 DEF RunOK
<1>15. EventsOK'
  BY <1>6 DEF EventsOK
<1>16. \A i, p \in Nat : Place(i, p) /\ WasRead(Line(i, p)) => WasRead(Line(i, p))'
  <2> SUFFICES ASSUME NEW i \in Nat, NEW p \in Nat, Place(i, p), WasRead(Line(i, p))
               PROVE  WasRead(Line(i, p))'
    OBVIOUS
  <2>1. Line(i, p) \in LogLines /\ Line(i, p)' = Line(i, p)
    BY <1>1, <1>8, LogFacts
  <2>2. slTimes[Line(i, p)] > 0 => slTimes'[Line(i, p)] > 0
    BY <1>9, <2>1
  <2> QED
    BY <1>3, <2>1, <2>2 DEF WasRead
<1>17. SkippedOK'
  <2>1. ASSUME slCursor.log = Len(slLogs), NEW p \in 1..slCursor.offset
        PROVE  WasRead(Line(slCursor.log, p))'
    <3>1. Place(slCursor.log, p) /\ p \in Nat
      <4>1. slCursor.log > 0 /\ slCursor.log \in DOMAIN slLogs
        BY <1>1, <2>1, LogFacts DEF PlacesOK
      <4>2. p \in DOMAIN slLogs[slCursor.log].lines
        BY <1>1, <1>5, <2>1, <4>1, LogFacts DEF CursorOK
      <4> QED
        BY <4>1, <4>2 DEF Place
    <3>2. WasRead(Line(slCursor.log, p))
      BY <1>1, <2>1 DEF SkippedOK
    <3> QED
      BY <1>3, <1>5, <1>16, <3>1, <3>2
  <2>2. ASSUME slRun.log = Len(slLogs), NEW p \in 1..slRun.size
        PROVE  WasRead(Line(slRun.log, p))'
    <3>1. Place(slRun.log, p) /\ p \in Nat
      <4>1. slRun.size <= Len(slLogs[slRun.log].lines)
        BY <1>1, <1>4 DEF RunOK
      <4>2. /\ Len(slLogs[slRun.log].lines) \in Nat
            /\ DOMAIN slLogs[slRun.log].lines = 1..Len(slLogs[slRun.log].lines)
        BY <1>1, <1>5, LogFacts
      <4>3. p \in Nat /\ p <= slRun.size /\ p >= 1
        BY <1>5, <2>2
      <4>4. p \in DOMAIN slLogs[slRun.log].lines
        BY <1>5, <4>1, <4>2, <4>3
      <4> QED
        BY <1>5, <4>3, <4>4 DEF Place
    <3>2. CASE p <= slRun.from
      <4>1. WasRead(Line(slRun.log, p))
        BY <1>1, <1>4, <1>5, <2>2, <3>2 DEF SkippedOK
      <4> QED
        BY <1>5, <1>6, <1>16, <3>1, <4>1
    <3>3. CASE ~(p <= slRun.from)
      <4>1. Line(slRun.log, p) \in events
        BY <1>1, <1>2, <1>4, <1>5, <1>a, <2>2, <3>3 DEF SkippedOK
      <4>2. Line(slRun.log, p) \in LogLines /\ slTimes'[Line(slRun.log, p)] > 0
        BY <1>5, <1>9, <4>1
      <4> QED
        BY <1>6, <1>8, <4>2 DEF WasRead
    <3> QED
      BY <3>2, <3>3
  <2> QED
    BY <1>3, <1>6, <1>7, <2>1, <2>2 DEF SkippedOK
<1>18. TimesOK'
  <2> SUFFICES ASSUME NEW i \in Nat, NEW p \in Nat, Place(i, p)
               PROVE  slTimes'[Line(i, p)] <= TimesAllowed(i, p)'
    BY <1>8 DEF TimesOK
  <2> DEFINE l == Line(i, p)
             late == IF l \in slLate THEN 1 ELSE 0
             passed == IF Passed(i, p) THEN 1 ELSE 0
             passed1 == IF Passed(i, p)' THEN 1 ELSE 0
  <2>1. l \in LogLines /\ slTimes[l] \in Nat /\ slAborted \in Nat
    BY <1>1, <1>9, LogFacts DEF LogTypeOK
  <2>2. slTimes[l] <= slAborted + late + passed
    BY <1>1 DEF TimesOK, TimesAllowed
  <2>3. TimesAllowed(i, p)' = slAborted + late + passed1
    BY <1>3, <1>8 DEF TimesAllowed
  <2>4. late \in {0, 1} /\ passed \in {0, 1} /\ passed1 \in {0, 1}
    OBVIOUS
  <2>5. slTimes'[l] = slTimes[l] + IF l \in events THEN 1 ELSE 0
    BY <1>9, <2>1
  <2>6. Passed(i, p)' <=> (i < slRun.log \/ (i = slRun.log /\ p <= slRun.size))
    BY <1>6, <1>7 DEF Passed
  <2>7. Passed(i, p) <=> i < slRun.log \/ (i = slCursor.log /\ p <= slCursor.offset)
    BY <1>2, <1>4 DEF Passed
  <2>8. slCursor.log <= slRun.log /\ (slCursor.log = slRun.log => slCursor.offset = slRun.from)
    BY <1>1, <1>2, <1>4 DEF RunOK
  <2>9. CASE l \notin events
    <3>1. Passed(i, p) => Passed(i, p)'
      BY <1>5, <2>6, <2>7, <2>8
    <3>2. passed <= passed1
      BY <3>1
    <3> HIDE DEF l, late, passed, passed1
    <3> QED
      BY <2>1, <2>2, <2>3, <2>4, <2>5, <2>9, <3>2 DEF l
  <2>10. CASE l \in events /\ l > slRun.written /\ l \in slLate
    <3>1. slTimes[l] = 0
      BY <1>1, <1>4, <2>1, <2>10 DEF RunOK
    <3>2. late = 1
      BY <2>10
    <3> HIDE DEF l, late, passed, passed1
    <3> QED
      BY <2>1, <2>3, <2>4, <2>5, <2>10, <3>1, <3>2 DEF l
  <2>11. CASE l \in events /\ i = slRun.log /\ p > slRun.from /\ p <= slRun.size
    <3>1. Passed(i, p)' /\ ~Passed(i, p)
      BY <1>5, <2>6, <2>7, <2>8, <2>11
    <3>2. passed = 0 /\ passed1 = 1
      BY <3>1
    <3> HIDE DEF l, late, passed, passed1
    <3> QED
      BY <2>1, <2>2, <2>3, <2>4, <2>5, <2>11, <3>2 DEF l
  <2> QED
    BY <1>1, <1>2, <1>a, <2>9, <2>10, <2>11 DEF EventsOK
<1>19. RowsOK'
  <2> SUFFICES ASSUME NEW b \in Minutes
               PROVE  /\ slLocal'[b] <= SumFunctionOnSet(slTimes', LinesAt(b))
                      /\ slSnapshot[b] <= slLocal'[b] /\ slFetched[b] <= slLocal'[b]
                      /\ slCentral[b] <= slLocal'[b]
    <3>1. \A b \in Minutes : LinesAt(b)' = LinesAt(b)
      BY <1>3 DEF LinesAt
    <3> QED
      BY <1>3, <3>1 DEF RowsOK
  <2> DEFINE S == LinesAt(b)
             g == [l \in LogLines |-> IF l \in events THEN 1 ELSE 0]
             c == RowsOf(events)[b]
  <2>1. /\ slLocal[b] <= SumFunctionOnSet(slTimes, S) /\ slLocal[b] \in Nat
        /\ slSnapshot[b] <= slLocal[b] /\ slFetched[b] <= slLocal[b] /\ slCentral[b] <= slLocal[b]
        /\ slSnapshot[b] \in Nat /\ slFetched[b] \in Nat /\ slCentral[b] \in Nat
    BY <1>1 DEF RowsOK, LogTypeOK, Rows
  <2>2. slLocal'[b] = slLocal[b] + c /\ c \in Nat
    BY <1>2, <1>10
  <2>3. IsFiniteSet(S) /\ S \in SUBSET LogLines
    BY <1>1, LinesAtFinite, LinesAreLogLines
  <2>4. \A l \in S : /\ slTimes[l] \in Int /\ g[l] \in Int /\ slTimes'[l] = slTimes[l] + g[l]
                     /\ g[l] = IF l \in events THEN 1 ELSE 0
    BY <1>9, <2>3
  <2>5. S \cap events = {l \in events : slMinute[l] = b}
    BY <1>5 DEF LinesAt
  <2>6. c = Cardinality(S \cap events)
    BY <1>10, <2>5
  <2> HIDE DEF S, g, c
  <2>7. SumFunctionOnSet(slTimes', S) = SumFunctionOnSet(slTimes, S) + SumFunctionOnSet(g, S)
    BY <2>3, <2>4, SumOfSums
  <2>8. SumFunctionOnSet(g, S) = c
    BY <2>3, <2>4, <2>6, SumOfMembers
  <2>9. SumFunctionOnSet(slTimes, S) \in Int
    BY <2>3, <2>4, SumType
  <2>10. SumFunctionOnSet(slTimes', S) = SumFunctionOnSet(slTimes, S) + c
    BY <2>7, <2>8
  <2>11. slLocal'[b] <= SumFunctionOnSet(slTimes', S)
    BY <2>1, <2>2, <2>9, <2>10
  <2> QED
    BY <2>1, <2>2, <2>11 DEF S
<1> QED
  BY <1>11, <1>12, <1>13, <1>14, <1>15, <1>17, <1>18, <1>19 DEF LogInv

LEMMA MovesCursorStep ==
  ASSUME LogInv, MovesCursor
  PROVE  LogInv'
<1>1. /\ LogTypeOK /\ CursorOK /\ RunOK /\ SkippedOK /\ TimesOK /\ RowsOK
  BY DEF LogInv
<1>2. /\ slRun.phase = "cursor" /\ slRun' = [slRun EXCEPT !.phase = "snapshot"]
      /\ slCursor' = [inode |-> slRun.inode, offset |-> slRun.size, log |-> slRun.log]
  BY DEF MovesCursor, EndAsOpened
<1>3. UNCHANGED <<slNow, slLogs, slOut, slMinute, slLocal, slTimes, slSnapshot, slFetched, slCentral,
                  slLate, slMissed, slAborted>>
  BY DEF MovesCursor, logEdge, logStores, logSync
<1>4. Running
  BY <1>2 DEF Running, Phases
<1>5. /\ slRun \in Runs /\ slRun.log \in Nat /\ slRun.from \in Nat /\ slRun.size \in Nat
      /\ slRun.inode \in Nat
      /\ slRun.log \in DOMAIN slLogs /\ slLogs[slRun.log].inode = slRun.inode
      /\ slRun.size <= Len(slLogs[slRun.log].lines)
  BY <1>1, <1>4, RunFacts DEF RunOK
<1>6. /\ slRun'.phase = "snapshot" /\ slRun'.inode = slRun.inode /\ slRun'.log = slRun.log
      /\ slRun'.from = slRun.from /\ slRun'.size = slRun.size /\ slRun'.events = slRun.events
      /\ slRun'.written = slRun.written /\ slRun' \in Runs
  BY <1>2, <1>5 DEF Runs, Phases
<1>7. Running' /\ ~Reading'
  BY <1>6 DEF Running, Reading, Phases
<1>8. \A i, p : (Place(i, p)' <=> Place(i, p)) /\ Line(i, p)' = Line(i, p)
  BY <1>3, SamePlaces
<1>9. /\ slCursor'.inode = slRun.inode /\ slCursor'.offset = slRun.size /\ slCursor'.log = slRun.log
      /\ slCursor' \in [inode : Nat, offset : Nat, log : Nat]
  BY <1>2, <1>5
<1>10. Len(slLogs) \in Nat /\ slRun.log <= Len(slLogs)
  BY <1>1, <1>5, LogFacts
<1>11. LogTypeOK'
  BY <1>1, <1>3, <1>6, <1>9 DEF LogTypeOK
<1>12. PlacesOK' /\ OutOK'
  BY <1>3, FileStays
<1>13. CursorOK'
  BY <1>3, <1>5, <1>9, <1>10 DEF CursorOK
<1>14. RunOK'
  BY <1>1, <1>3, <1>4, <1>5, <1>6, <1>7, <1>9 DEF RunOK
<1>15. EventsOK'
  BY <1>6 DEF EventsOK
<1>16. SkippedOK'
  <2>1. \A l : WasRead(l)' <=> WasRead(l)
    BY <1>3 DEF WasRead
  <2>2. slRun.log = Len(slLogs) => \A p \in 1..slRun.size : WasRead(Line(slRun.log, p))
    BY <1>1, <1>2, <1>4 DEF SkippedOK
  <2>3. PICK k : k = slRun.log
    OBVIOUS
  <2>4. ASSUME slCursor'.log = Len(slLogs'), NEW p \in 1..slCursor'.offset
        PROVE  WasRead(Line(k, p))'
    <3>1. WasRead(Line(k, p)) /\ Line(k, p)' = Line(k, p)
      BY <1>3, <1>8, <1>9, <2>2, <2>3, <2>4
    <3> QED
      BY <1>3, <3>1 DEF WasRead
  <2>5. slCursor'.log = k
    BY <1>9, <2>3
  <2>6. slCursor'.log = Len(slLogs') =>
           \A p \in 1..slCursor'.offset : WasRead(Line(slCursor.log, p))'
    BY <2>4, <2>5
  <2> QED
    BY <1>6, <1>7, <2>6 DEF SkippedOK
<1>17. TimesOK'
  <2>1. ASSUME NEW i \in Nat, NEW p \in Nat, Passed(i, p) PROVE Passed(i, p)'
    <3>1. i < slRun.log \/ (i = slRun.log /\ p <= slRun.size)
      BY <1>2, <2>1 DEF Passed, Reading
    <3>2. CASE i < slRun.log
      <4>1. i < Len(slLogs)
        BY <1>5, <1>10, <3>2
      <4> QED
        BY <1>3, <1>6, <4>1 DEF Passed
    <3>3. CASE i = slRun.log /\ p <= slRun.size
      BY <1>6, <1>9, <3>3 DEF Passed
    <3> QED
      BY <3>1, <3>2, <3>3
  <2>2. slAborted' \in Nat /\ slAborted <= slAborted' /\ slLate \subseteq slLate'
    BY <1>1, <1>3 DEF LogTypeOK
  <2> QED
    BY <1>3, <2>1, <2>2, TimesStay
<1>18. RowsOK'
  <2>1. \A b \in Minutes : /\ slSnapshot'[b] <= slLocal[b] /\ slFetched'[b] <= slLocal[b]
                           /\ slCentral'[b] <= slLocal[b]
    BY <1>1, <1>3 DEF RowsOK
  <2> QED
    BY <1>3, <2>1, RowsStay
<1> QED
  BY <1>11, <1>12, <1>13, <1>14, <1>15, <1>16, <1>17, <1>18 DEF LogInv

\* A run that ends before it has moved the cursor, or after.
LEMMA RunEnds ==
  ASSUME LogInv, slRun # NoRun, slRun' = NoRun,
         UNCHANGED <<slLogs, slOut, slCursor, slMinute, slTimes, slLate, slMissed>>,
         slAborted' \in Nat, slAborted <= slAborted',
         slRun.phase = "cursor" => slAborted < slAborted'
  PROVE  /\ PlacesOK' /\ OutOK' /\ CursorOK' /\ RunOK' /\ EventsOK' /\ SkippedOK' /\ TimesOK'
<1>1. /\ LogTypeOK /\ CursorOK /\ RunOK /\ SkippedOK /\ TimesOK
  BY DEF LogInv
<1>2. Running
  BY <1>1, RunFacts
<1>3. slRun'.phase = "idle" /\ ~Running' /\ ~Reading'
  BY DEF NoRun, Running, Reading, Phases
<1>4. \A i, p : (Place(i, p)' <=> Place(i, p)) /\ Line(i, p)' = Line(i, p)
  BY SamePlaces
<1>5. PlacesOK' /\ OutOK'
  BY FileStays
<1>6. CursorOK'
  BY <1>1 DEF CursorOK
<1>7. RunOK' /\ EventsOK'
  BY <1>3 DEF RunOK, EventsOK
<1>8. SkippedOK'
  <2>1. \A l : WasRead(l)' <=> WasRead(l)
    BY DEF WasRead
  <2>2. slCursor.log = Len(slLogs) => \A p \in 1..slCursor.offset : WasRead(Line(slCursor.log, p))
    BY <1>1 DEF SkippedOK
  <2>3. slCursor'.log = Len(slLogs') =>
           \A p \in 1..slCursor'.offset : WasRead(Line(slCursor.log, p))'
    BY <1>4, <2>1, <2>2
  <2> QED
    BY <1>3, <2>3 DEF SkippedOK
<1>9. TimesOK'
  <2>1. ASSUME NEW i \in Nat, NEW p \in Nat, Place(i, p), Passed(i, p)
        PROVE  Passed(i, p)' \/ slAborted < slAborted'
    <3>1. CASE slRun.phase = "cursor"
      BY <3>1
    <3>2. CASE slRun.phase # "cursor"
      <4>1. /\ slRun.log \in Nat /\ Len(slLogs) \in Nat /\ slRun.log <= Len(slLogs)
        BY <1>1, <1>2, RunFacts, LogFacts DEF RunOK
      <4>2. \/ i < Len(slLogs)
            \/ i < slRun.log
            \/ i = slCursor.log /\ p <= slCursor.offset
        BY <2>1, <3>2 DEF Passed
      <4>3. i < Len(slLogs) \/ (i = slCursor.log /\ p <= slCursor.offset)
        BY <4>1, <4>2
      <4> QED
        BY <1>3, <4>3 DEF Passed
    <3> QED
      BY <3>1, <3>2
  <2> QED
    BY <2>1, TimesStay
<1> QED
  BY <1>5, <1>6, <1>7, <1>8, <1>9

LEMMA WritesSnapshotStep ==
  ASSUME LogInv, WritesSnapshot
  PROVE  LogInv'
<1>1. /\ LogTypeOK /\ RowsOK
  BY DEF LogInv
<1>2. /\ slRun.phase = "snapshot" /\ slRun' = NoRun
      /\ slSnapshot' = [b \in Minutes |-> IF b >= slNow - ExportWindow THEN slLocal[b] ELSE 0]
  BY DEF WritesSnapshot
<1>3. UNCHANGED <<slNow, slLogs, slOut, slMinute, slCursor, slLocal, slTimes, slFetched, slCentral,
                  slLate, slMissed, slAborted>>
  BY DEF WritesSnapshot, logEdge, logStores, logSync
<1>4. slRun # NoRun
  BY <1>2 DEF NoRun
<1>5. slAborted' \in Nat /\ slAborted <= slAborted'
  BY <1>1, <1>3 DEF LogTypeOK
<1>6. /\ PlacesOK' /\ OutOK' /\ CursorOK' /\ RunOK' /\ EventsOK' /\ SkippedOK' /\ TimesOK'
  BY <1>2, <1>3, <1>4, <1>5, RunEnds
<1>7. \A b \in Minutes : slLocal[b] \in Nat
  BY <1>1 DEF LogTypeOK, Rows
<1>8. \A b \in Minutes : slSnapshot'[b] \in Nat /\ slSnapshot'[b] <= slLocal[b]
  BY <1>2, <1>7
<1>9. slSnapshot' \in Rows
  BY <1>2, <1>7 DEF Rows
<1>10. LogTypeOK'
  BY <1>1, <1>2, <1>3, <1>9 DEF LogTypeOK
<1>11. RowsOK'
  <2>1. \A b \in Minutes : /\ slSnapshot'[b] <= slLocal[b] /\ slFetched'[b] <= slLocal[b]
                           /\ slCentral'[b] <= slLocal[b]
    BY <1>1, <1>3, <1>8 DEF RowsOK
  <2> QED
    BY <1>3, <2>1, RowsStay
<1> QED
  BY <1>6, <1>10, <1>11 DEF LogInv

LEMMA CollectorFailsStep ==
  ASSUME LogInv, CollectorFails
  PROVE  LogInv'
<1>1. /\ LogTypeOK /\ RowsOK
  BY DEF LogInv
<1>2. slRun # NoRun /\ slRun' = NoRun
  BY DEF CollectorFails
<1>3. UNCHANGED <<slNow, slLogs, slOut, slMinute, slCursor, slLocal, slTimes, slSnapshot, slFetched,
                  slCentral, slLate, slMissed>>
  BY DEF CollectorFails, logEdge, logStores, logSync
<1>4. slAborted \in Nat
  BY <1>1 DEF LogTypeOK
<1>5. /\ slAborted' \in Nat /\ slAborted <= slAborted'
      /\ slRun.phase = "cursor" => slAborted < slAborted'
  <2>1. CASE slRun.phase = "cursor"
    <3>1. slAborted' = slAborted + 1
      BY <2>1 DEF CollectorFails
    <3> QED
      BY <1>4, <3>1
  <2>2. CASE slRun.phase # "cursor"
    <3>1. slAborted' = slAborted
      BY <2>2 DEF CollectorFails
    <3> QED
      BY <1>4, <2>2, <3>1
  <2> QED
    BY <2>1, <2>2
<1>6. /\ PlacesOK' /\ OutOK' /\ CursorOK' /\ RunOK' /\ EventsOK' /\ SkippedOK' /\ TimesOK'
  BY <1>2, <1>3, <1>5, RunEnds
<1>7. LogTypeOK'
  BY <1>1, <1>2, <1>3, <1>5 DEF LogTypeOK
<1>8. RowsOK'
  <2>1. \A b \in Minutes : /\ slSnapshot'[b] <= slLocal[b] /\ slFetched'[b] <= slLocal[b]
                           /\ slCentral'[b] <= slLocal[b]
    BY <1>1, <1>3 DEF RowsOK
  <2> QED
    BY <1>3, <2>1, RowsStay
<1> QED
  BY <1>6, <1>7, <1>8 DEF LogInv

-----------------------------------------------------------------------------
\* The theorems

LEMMA LogStarts ==
  ASSUME LogInit
  PROVE  LogInv
<1>1. /\ slNow = 0 /\ slOut = 1 /\ slCursor = NoCursor /\ slRun = NoRun
      /\ slLogs = <<[inode |-> 1, lines |-> <<>>]>>
      /\ slLocal = NoRows /\ slSnapshot = NoRows /\ slFetched = NoRows /\ slCentral = NoRows
      /\ slMinute = <<>> /\ slTimes = [l \in LogLines |-> 0]
      /\ slLate = {} /\ slMissed = {} /\ slAborted = 0
  BY DEF LogInit
<1>2. /\ Len(slLogs) = 1 /\ DOMAIN slLogs = {1} /\ slLogs[1].inode = 1 /\ slLogs[1].lines = <<>>
  BY <1>1
<1>3. Len(slMinute) = 0 /\ DOMAIN slMinute = {}
  BY <1>1
<1>4. \A i, p : ~Place(i, p)
  <2>1. DOMAIN slLogs[1].lines = {}
    BY <1>2
  <2> QED
    BY <1>2, <2>1 DEF Place
<1>5. slRun.phase = "idle" /\ ~Running /\ ~Reading
  BY <1>1 DEF NoRun, Running, Reading, Phases
<1>6. 0 \in Minutes
  BY LogAssumption DEF Minutes
<1>7. slCursor.inode = 0 /\ slCursor.offset = 0 /\ slCursor.log = 0
  BY <1>1 DEF NoCursor
<1>8. LogTypeOK
  <2> DEFINE LogFile == [inode : Nat, lines : Seq(LogLines)]
  <2>1. slLogs \in Seq(LogFile)
    <3>1. [inode |-> 1, lines |-> <<>>] \in LogFile
      OBVIOUS
    <3> HIDE DEF LogFile
    <3> QED
      BY <1>1, <3>1
  <2>2. slMinute \in Seq(Minutes)
    BY <1>1
  <2>3. NoRows \in Rows /\ NoCursor \in [inode : Nat, offset : Nat, log : Nat]
    BY DEF NoRows, Rows, NoCursor
  <2>4. slTimes \in [LogLines -> Nat]
    BY <1>1
  <2> QED
    BY <1>1, <1>6, <2>1, <2>2, <2>3, <2>4 DEF LogTypeOK
<1>9. PlacesOK
  <2>1. \A l \in LogLines : slTimes[l] = 0
    BY <1>1
  <2>2. CurrentInode = 1
    BY <1>2 DEF CurrentInode
  <2> QED
    BY <1>2, <1>3, <1>4, <2>1, <2>2 DEF PlacesOK
<1>10. OutOK
  BY <1>1, <1>2 DEF OutOK
<1>11. CursorOK /\ RunOK /\ EventsOK
  BY <1>2, <1>5, <1>7 DEF CursorOK, RunOK, EventsOK
<1>12. SkippedOK
  BY <1>2, <1>5, <1>7 DEF SkippedOK
<1>13. TimesOK
  BY <1>4 DEF TimesOK
<1>14. RowsOK
  <2>1. \A b \in Minutes : /\ slLocal[b] = 0 /\ slSnapshot[b] = 0
                           /\ slFetched[b] = 0 /\ slCentral[b] = 0
    BY <1>1 DEF NoRows
  <2>2. \A b : LinesAt(b) = {}
    BY <1>3 DEF LinesAt
  <2>3. \A b : SumFunctionOnSet(slTimes, LinesAt(b)) = 0
    BY <2>2, SumOfNone
  <2> QED
    BY <2>1, <2>3 DEF RowsOK
<1> QED
  BY <1>8, <1>9, <1>10, <1>11, <1>12, <1>13, <1>14 DEF LogInv

LEMMA LogSteps ==
  ASSUME LogInv, [LogNext]_logVars
  PROVE  LogInv'
<1>1. CASE WritesLine
  BY <1>1, WritesLineStep
<1>2. CASE LogRotates
  BY <1>2, LogRotatesStep
<1>3. CASE ReopensLog
  BY <1>3, ReopensLogStep
<1>4. CASE LogTruncated
  BY <1>4, LogTruncatedStep
<1>5. CASE LogTick
  BY <1>5, LogTickStep
<1>6. CASE OpensLog
  BY <1>6, OpensLogStep
<1>7. CASE ScansLog
  BY <1>7, ScansLogStep
<1>8. CASE Ingests
  BY <1>8, IngestsStep
<1>9. CASE MovesCursor
  BY <1>9, MovesCursorStep
<1>10. CASE WritesSnapshot
  BY <1>10, WritesSnapshotStep
<1>11. CASE CollectorFails
  BY <1>11, CollectorFailsStep
<1>12. CASE FetchesSnapshot
  BY <1>12, FetchesSnapshotStep
<1>13. CASE ImportsSnapshot
  BY <1>13, ImportsSnapshotStep
<1>14. CASE UNCHANGED logVars
  <2>1. UNCHANGED <<slNow, slLogs, slOut, slMinute, slCursor, slRun, slLocal, slTimes, slSnapshot,
                    slFetched, slCentral, slLate, slMissed, slAborted>>
    BY <1>14 DEF logVars, logEdge, logStores, logSync
  <2>2. LogTypeOK'
    BY <2>1 DEF LogInv, LogTypeOK
  <2>3. PlacesOK' /\ CursorOK' /\ RunOK' /\ EventsOK' /\ SkippedOK' /\ TimesOK'
    BY <2>1, LogStays
  <2>4. OutOK'
    BY <2>1, OutStays
  <2>5. RowsOK'
    <3>1. \A b \in Minutes : /\ slSnapshot'[b] <= slLocal[b] /\ slFetched'[b] <= slLocal[b]
                             /\ slCentral'[b] <= slLocal[b]
      BY <2>1 DEF LogInv, RowsOK
    <3> QED
      BY <2>1, <3>1, RowsStay
  <2> QED
    BY <2>2, <2>3, <2>4, <2>5 DEF LogInv
<1> QED
  BY <1>1, <1>2, <1>3, <1>4, <1>5, <1>6, <1>7, <1>8, <1>9, <1>10, <1>11, <1>12, <1>13, <1>14
     DEF LogNext

LEMMA LogInvSuffices ==
  ASSUME LogInv
  PROVE  LogTypeOK /\ LogAccounted
<1>1. /\ LogTypeOK /\ PlacesOK /\ CursorOK /\ SkippedOK /\ TimesOK /\ RowsOK
  BY DEF LogInv
<1>2. NothingSkipped
  <2>1. \A l : WasRead(l) <=> (slTimes[l] > 0 \/ l \in slMissed)
    BY DEF WasRead
  <2> QED
    BY <1>1, <2>1 DEF NothingSkipped, SkippedOK, Line
<1>3. ASSUME NEW l \in LogLines
      PROVE  slTimes[l] <= 1 + slAborted + IF l \in slLate THEN 1 ELSE 0
  <2>1. slTimes[l] \in Nat /\ slAborted \in Nat /\ l \in Nat
    BY <1>1, LogFacts DEF LogTypeOK
  <2>2. CASE l \in DOMAIN slMinute
    <3>1. PICK i \in Nat, p \in Nat : Place(i, p) /\ Line(i, p) = l
      BY <1>1, <2>2 DEF PlacesOK
    <3>2. slTimes[l] <= TimesAllowed(i, p)
      BY <1>1, <3>1 DEF TimesOK
    <3>3. TimesAllowed(i, p) = slAborted + (IF l \in slLate THEN 1 ELSE 0)
                                 + (IF Passed(i, p) THEN 1 ELSE 0)
      BY <3>1 DEF TimesAllowed
    <3> QED
      BY <2>1, <3>2, <3>3
  <2>3. CASE l \notin DOMAIN slMinute
    <3>1. l > Len(slMinute)
      BY <1>1, <2>1, <2>3, LogFacts DEF LogLines
    <3>2. slTimes[l] = 0
      BY <1>1, <3>1 DEF PlacesOK
    <3> QED
      BY <2>1, <3>2
  <2> QED
    BY <2>2, <2>3
<1>4. ASSUME NEW b \in Minutes
      PROVE  slCentral[b] <= SumFunctionOnSet(slTimes, {l \in DOMAIN slMinute : slMinute[l] = b})
  <2> DEFINE S == LinesAt(b)
  <2>1. /\ slLocal[b] <= SumFunctionOnSet(slTimes, S) /\ slLocal[b] \in Nat
        /\ slCentral[b] <= slLocal[b] /\ slCentral[b] \in Nat
    BY <1>1 DEF RowsOK, LogTypeOK, Rows
  <2>2. IsFiniteSet(S) /\ \A l \in S : slTimes[l] \in Int
    BY <1>1, LinesAtFinite, LinesAreLogLines DEF LogTypeOK
  <2> HIDE DEF S
  <2>3. SumFunctionOnSet(slTimes, S) \in Int
    BY <2>2, SumType
  <2>4. slCentral[b] <= SumFunctionOnSet(slTimes, S)
    BY <2>1, <2>3
  <2> QED
    BY <2>4 DEF S, LinesAt
<1> QED
  BY <1>1, <1>2, <1>3, <1>4 DEF LogAccounted, CountedAgain

LEMMA LogSafe == LogSpec => []LogInv
<1>1. LogInit => LogInv
  BY LogStarts
<1>2. LogInv /\ [LogNext]_logVars => LogInv'
  BY LogSteps
<1> QED
  BY <1>1, <1>2, PTL DEF LogSpec

\* The variables of the log's collector and sync keep their types: rows and
\* counters are numbers, and a run has what its phase needs.
THEOREM LogTypeCorrect == LogSpec => []LogTypeOK
<1>1. LogInv => LogTypeOK
  BY LogInvSuffices
<1> QED
  BY <1>1, LogSafe, PTL

\* Every line before the cursor was added to a row, whatever nginx wrote and
\* logrotate moved while the log was read, and the central rows count a line
\* again only for a run that died between the rows and the cursor, or for a
\* line read behind the end the file was opened with (LogAccounted;
\* cmd/stats-collector main, ImportSnapshot).
THEOREM LogStaysAccounted == LogSpec => []LogAccounted
<1>1. LogInv => LogAccounted
  BY LogInvSuffices
<1> QED
  BY <1>1, LogSafe, PTL
=============================================================================
