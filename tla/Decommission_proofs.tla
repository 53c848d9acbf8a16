------------------------ MODULE Decommission_proofs ------------------------
(***************************************************************************)
(* Proofs about Decommission, for any number of orders and any tokens.     *)
(* Whatever handlers overlap, a signed job runs at most once and a removal *)
(* that is complete left nothing behind.  When no two of the handlers that *)
(* issue jobs overlap, the protocol implements NodeRemoval; the run        *)
(* job_order_race shows that it does not otherwise.                        *)
(***************************************************************************)
EXTENDS Decommission, TLAPS

(* Where a handler stands, it has a job to work on and a token to use.     *)
CallOK(h) ==
  /\ handler[h].pc \notin {"idle", "decide"} => handler[h].job \in Ordered
  /\ handler[h].pc \in {"write", "remember"} => handler[h].token # None
  /\ handler[h].token # None => issued[handler[h].token] # 0
  /\ IF h = "report"
     THEN handler[h].pc \in {"idle", "dns", "failed", "marked", "finish", "forget"}
     ELSE handler[h].pc \notin {"finish", "forget"}

(* Tokens were made for jobs that were ordered.                            *)
TokenOK ==
  /\ \A t \in Token : issued[t] \in Ordered \cup {0}
  /\ \A j \in Job : memory[j] # None => j \in Ordered /\ issued[memory[j]] # 0
  /\ \A t \in Token : helper[t] # "none" => issued[t] # 0

(* A token is used up before its job is accepted and its helper started.   *)
AgentOK ==
  /\ agent.pc \notin {"idle", "gone"} => agent.job \in Ordered
  /\ agent.token # None => issued[agent.token] # 0
  /\ agent.pc \in {"accept", "start"} => agent.token \in nonces
  /\ \A t \in Token : helper[t] # "none" => t \in nonces
  /\ RunsOnce

(* A helper reports after it has cleaned; a record is marked as deleted    *)
(* when it is.                                                             *)
ReportOK ==
  /\ \A t \in Token : helper[t] \in {"posting", "done"} => cleaned
  /\ handler["report"].pc # "idle" => cleaned
  /\ \A h \in Named : handler[h].pc = "marked" => ~record
  /\ handler["report"].pc = "finish" => ~record
  /\ CompleteMeansClean

JobInv ==
  /\ TypeOK
  /\ \A h \in Named : CallOK(h)
  /\ TokenOK
  /\ AgentOK
  /\ ReportOK

------------------------------------------------------------------------------
(* What a step of a handler does to the handlers *)

Place == {"idle", "decide", "read", "dns", "failed", "marked", "check", "write",
          "remember", "answer", "finish", "forget"}

(* The other handlers are where they were.                                 *)
Others(h) == /\ handler' \in [Named -> Call]
             /\ \A g \in Named \ {h} : handler'[g] = handler[g]

(* Goto only changes where handler h stands.                               *)
LEMMA GotoEffect ==
  ASSUME TypeOK, NEW h \in Named, NEW pc \in Place, Goto(h, pc)
  PROVE  /\ Others(h)
         /\ handler'[h].pc = pc /\ handler'[h].job = handler[h].job
         /\ handler'[h].token = handler[h].token
BY DEF TypeOK, Goto, Place, Call, Others

(* Begins replaces all that handler h holds.                               *)
LEMMA BeginsEffect ==
  ASSUME TypeOK, NEW h \in Named, NEW pc \in Place, NEW j \in Job \cup {0},
         NEW t \in Token \cup {None}, NEW silent \in BOOLEAN,
         Begins(h, [pc |-> pc, job |-> j, token |-> t, silent |-> silent])
  PROVE  /\ Others(h)
         /\ handler'[h].pc = pc /\ handler'[h].job = j /\ handler'[h].token = t
<1> DEFINE call == [pc |-> pc, job |-> j, token |-> t, silent |-> silent]
<1>1. call \in Call /\ call.pc = pc /\ call.job = j /\ call.token = t
  BY DEF Call, Place
<1> HIDE DEF call
<1>2. handler' = [handler EXCEPT ![h] = call]  BY DEF call, Begins
<1> QED  BY <1>1, <1>2 DEF TypeOK, Others

(* Ends leaves it with nothing.                                            *)
LEMMA EndsEffect ==
  ASSUME TypeOK, NEW h \in Named, Ends(h)
  PROVE  Others(h) /\ handler'[h].pc = "idle" /\ handler'[h].token = None
<1>1. Begins(h, [pc |-> "idle", job |-> 0, token |-> None, silent |-> FALSE])
  BY DEF Ends, Idle
<1>2. "idle" \in Place /\ 0 \in Job \cup {0} /\ FALSE \in BOOLEAN
  BY DEF Place
<1> QED
  BY <1>1, <1>2, BeginsEffect

------------------------------------------------------------------------------
(* What a step leaves alone *)

(* An order is never forgotten and a token never free again.               *)
Grows == /\ Ordered \subseteq Ordered'
         /\ \A t \in Token : issued[t] # 0 => issued'[t] # 0

LEMMA GrowsByFrame == UNCHANGED <<jobs, issued>> => Grows
BY DEF Grows, Ordered

(* The invariant of a handler that does not move.                          *)
LEMMA CallStays ==
  ASSUME JobInv, Grows, NEW g \in Named, handler'[g] = handler[g]
  PROVE  CallOK(g)'
BY DEF JobInv, TypeOK, CallOK, Grows, Call

LEMMA TokenStays ==
  ASSUME JobInv, Grows, UNCHANGED <<memory, issued, helper>>
  PROVE  TokenOK'
BY DEF JobInv, TypeOK, TokenOK, Grows

LEMMA AgentStays ==
  ASSUME JobInv, Grows, UNCHANGED <<nonces, agent, helper>>
  PROVE  AgentOK'
BY DEF JobInv, TypeOK, AgentOK, Grows, RunsOnce

(* What has been cleaned and deleted stays so; no other job is complete.   *)
Lasting ==
  /\ cleaned => cleaned'
  /\ ~record => ~record'
  /\ \A t \in Token : helper'[t] \in {"posting", "done"} =>
       helper[t] \in {"posting", "done"} \/ cleaned'
  /\ \A j \in Job : jobs'[j].state = "complete" =>
       jobs[j].state = "complete" \/ (cleaned' /\ ~record')

LEMMA LastingByFrame ==
  ASSUME UNCHANGED <<cleaned, record, helper, jobs>>
  PROVE  Lasting
<1>1. (cleaned => cleaned') /\ (~record => ~record')
  OBVIOUS
<1>2. /\ \A t \in Token : helper'[t] = helper[t]
      /\ \A j \in Job : jobs'[j] = jobs[j]
  OBVIOUS
<1> QED  BY <1>1, <1>2 DEF Lasting

(* ReportOK when only handler h moves.                                     *)
LEMMA ReportMoves ==
  ASSUME JobInv, Lasting, NEW h \in Named, Others(h),
         handler'[h].pc = "marked" => ~record',
         h = "report" => /\ handler'[h].pc # "idle" => cleaned'
                         /\ handler'[h].pc = "finish" => ~record'
  PROVE  ReportOK'
<1>1. \A t \in Token : helper'[t] \in {"posting", "done"} => cleaned'
  BY DEF JobInv, ReportOK, Lasting
<1>2. handler'["report"].pc # "idle" => cleaned'
  BY DEF JobInv, ReportOK, Lasting, Others, Named
<1>3. \A g \in Named : handler'[g].pc = "marked" => ~record'
  BY DEF JobInv, ReportOK, Lasting, Others
<1>4. handler'["report"].pc = "finish" => ~record'
  BY DEF JobInv, ReportOK, Lasting, Others, Named
<1>5. \A j \in Job : jobs'[j].state = "complete" => cleaned' /\ ~record'
  BY DEF JobInv, ReportOK, CompleteMeansClean, Lasting
<1> QED
  BY <1>1, <1>2, <1>3, <1>4, <1>5 DEF ReportOK, CompleteMeansClean

(* ReportOK when no handler moves.                                         *)
LEMMA ReportStays ==
  ASSUME JobInv, Lasting, UNCHANGED handler
  PROVE  ReportOK'
<1>1. "order" \in Named /\ Others("order") /\ handler'["order"] = handler["order"]
  BY DEF JobInv, TypeOK, Others, Named
<1>2. handler'["order"].pc = "marked" => ~record'
  BY <1>1 DEF JobInv, ReportOK, Lasting
<1> QED  BY <1>1, <1>2, ReportMoves

(* A step of handler h that changes nothing else.                          *)
LEMMA OnlyHandler ==
  ASSUME JobInv, NEW h \in Named, UNCHANGED <<registry, store, edge>>,
         Others(h), CallOK(h)',
         handler'[h].pc \notin {"marked", "finish"},
         h = "report" => handler'[h].pc = "idle" \/ cleaned
  PROVE  JobInv'
<1>1. UNCHANGED <<node, heard, record, jobs, memory, expired, issued, nonces,
                  agent, helper, cleaned>>
  BY DEF registry, store, edge
<1>2. Grows  BY <1>1, GrowsByFrame
<1>3. Lasting  BY <1>1, LastingByFrame
<1>4. TypeOK'  BY <1>1 DEF JobInv, TypeOK, Others
<1>5. \A g \in Named : CallOK(g)'  BY <1>2, CallStays DEF Others
<1>6. TokenOK' /\ AgentOK'  BY <1>1, <1>2, TokenStays, AgentStays
<1>7. cleaned => cleaned'  BY <1>1
<1>8. ReportOK'  BY <1>3, <1>7, ReportMoves
<1> QED  BY <1>4, <1>5, <1>6, <1>8 DEF JobInv

------------------------------------------------------------------------------
(* What a step does to the table of jobs *)

(* Row j, which is that of an order, becomes row.                          *)
Becomes(j, row) == /\ jobs' \in [Job -> JobRow]
                   /\ jobs'[j] = row /\ row.state # "none"
                   /\ \A i \in Job \ {j} : jobs'[i] = jobs[i]

LEMMA RowPut ==
  ASSUME JobInv, NEW j \in Job, NEW row \in JobRow, row.state # "none",
         jobs' = [jobs EXCEPT ![j] = row]
  PROVE  Becomes(j, row)
BY DEF JobInv, TypeOK, Becomes

LEMMA RowGrows ==
  ASSUME JobInv, NEW j \in Job, NEW row, Becomes(j, row), UNCHANGED issued
  PROVE  Grows
BY DEF Grows, Becomes, Ordered

(* The handler's job, which is one of an order.                            *)
LEMMA Works ==
  ASSUME JobInv, NEW h \in Named, handler[h].pc \notin {"idle", "decide"}
  PROVE  handler[h].job \in Ordered /\ handler[h].job \in Job
BY DEF JobInv, CallOK, Ordered

LEMMA WriteEffect ==
  ASSUME JobInv, NEW h \in Named, IssueWrites(h)
  PROVE  \E row \in JobRow :
           /\ Becomes(handler[h].job, row)
           /\ row.state = "partial" /\ row.step = "cleaning_remote"
           /\ row.pending /\ row.token = handler[h].token
<1> DEFINE j   == handler[h].job
           t   == handler[h].token
           row == [jobs[j] EXCEPT !.token = t, !.pending = TRUE,
                                  !.state = "partial",
                                  !.step = "cleaning_remote"]
<1>1. j \in Job  BY Works DEF IssueWrites
<1>2. jobs[j] \in JobRow /\ t \in Token \cup {None}
  BY <1>1 DEF JobInv, TypeOK, Call
<1>3. jobs' = [jobs EXCEPT ![j] = row]  BY DEF IssueWrites
<1>4. /\ row \in JobRow /\ row.state = "partial" /\ row.pending
      /\ row.step = "cleaning_remote" /\ row.token = t
  <2> HIDE DEF j, t
  <2> QED  BY <1>2 DEF JobRow
<1> HIDE DEF j, t, row
<1>5. Becomes(j, row)  BY <1>1, <1>3, <1>4, RowPut
<1> QED  BY <1>4, <1>5 DEF j, t

LEMMA FailedEffect ==
  ASSUME JobInv, NEW j \in Job, jobs' = MarkedFailed(j)
  PROVE  \E row \in JobRow : /\ Becomes(j, row)
                             /\ row.state = "partial"
                             /\ row.token = jobs[j].token
<1> DEFINE row == [jobs[j] EXCEPT !.state = "partial", !.step = "removing_dns"]
<1>1. jobs[j] \in JobRow  BY DEF JobInv, TypeOK
<1>2. jobs' = [jobs EXCEPT ![j] = row]
  BY DEF JobInv, TypeOK, JobRow, MarkedFailed
<1>3. row \in JobRow /\ row.state = "partial" /\ row.token = jobs[j].token
  BY <1>1 DEF JobRow
<1> HIDE DEF row
<1> QED  BY <1>2, <1>3, RowPut

LEMMA DoneEffect ==
  ASSUME JobInv, NEW j \in Ordered, jobs' = MarkedDone(j)
  PROVE  \E row \in JobRow :
           /\ Becomes(j, row)
           /\ row.state = jobs[j].state /\ row.pending = jobs[j].pending
           /\ row.step # "removing_dns" /\ row.token = jobs[j].token
<1>1. jobs'[j] \in JobRow /\ Becomes(j, jobs'[j])
  BY DEF JobInv, TypeOK, Becomes, JobRow, MarkedDone, Ordered
<1>2. /\ jobs'[j].state = jobs[j].state /\ jobs'[j].pending = jobs[j].pending
      /\ jobs'[j].step # "removing_dns" /\ jobs'[j].token = jobs[j].token
  BY DEF JobInv, TypeOK, JobRow, MarkedDone, Ordered
<1> QED  BY <1>1, <1>2

LEMMA NewEffect ==
  ASSUME JobInv, NEW j \in Job, NEW silent \in BOOLEAN,
         jobs' = [jobs EXCEPT ![j] = NewJob(silent)]
  PROVE  Becomes(j, NewJob(silent))
BY DEF JobInv, TypeOK, Becomes, JobRow, NewJob

LEMMA AcceptEffect ==
  ASSUME JobInv, NEW j \in Ordered,
         jobs' = [jobs EXCEPT ![j].accepted = TRUE,
                              ![j].step = "cleaning_remote"]
  PROVE  \E row \in JobRow :
           /\ Becomes(j, row)
           /\ row.state = jobs[j].state /\ row.pending = jobs[j].pending
           /\ row.step # "removing_dns" /\ row.token = jobs[j].token
<1> DEFINE row == [jobs[j] EXCEPT !.accepted = TRUE, !.step = "cleaning_remote"]
<1>1. j \in Job /\ jobs[j] \in JobRow /\ jobs[j].state # "none"
  BY DEF JobInv, TypeOK, Ordered
<1>2. jobs' = [jobs EXCEPT ![j] = row]
  BY <1>1 DEF JobInv, TypeOK, JobRow
<1>3. /\ row \in JobRow /\ row.state = jobs[j].state
      /\ row.step = "cleaning_remote" /\ row.token = jobs[j].token
  BY <1>1 DEF JobRow
<1>4. row.pending = jobs[j].pending
  BY <1>1 DEF JobRow
<1> HIDE DEF row
<1>5. Becomes(j, row)  BY <1>1, <1>2, <1>3, RowPut
<1> QED  BY <1>3, <1>4, <1>5

LEMMA FinishEffect ==
  ASSUME JobInv, ReportFinishes
  PROVE  \E row \in JobRow :
           /\ Becomes(handler["report"].job, row)
           /\ row.state = "complete" /\ row.step = "complete"
           /\ ~row.pending /\ row.token = jobs[handler["report"].job].token
<1> DEFINE j   == handler["report"].job
           row == [jobs[j] EXCEPT !.state = "complete", !.step = "complete",
                                  !.pending = FALSE, !.accepted = TRUE]
<1>1. j \in Job  BY Works DEF ReportFinishes, Named
<1>2. jobs[j] \in JobRow  BY <1>1 DEF JobInv, TypeOK
<1>3. jobs' = [jobs EXCEPT ![j] = row]  BY DEF ReportFinishes
<1>4. /\ row \in JobRow /\ row.state = "complete" /\ row.step = "complete"
      /\ ~row.pending /\ row.token = jobs[j].token
  <2> HIDE DEF j
  <2> QED  BY <1>2 DEF JobRow
<1> HIDE DEF j, row
<1>5. Becomes(j, row)  BY <1>1, <1>3, <1>4, RowPut
<1> QED  BY <1>4, <1>5 DEF j

------------------------------------------------------------------------------
(* JobInv is preserved: the order *)

LEMMA OrderReadsJob == ASSUME JobInv, OrderReads PROVE JobInv'
<1> "order" \in Named  BY DEF Named
<1> DEFINE Started ==
      /\ Others("order") /\ handler'["order"].pc \in {"decide", "read"}
      /\ handler'["order"].token = None
      /\ handler'["order"].pc = "read" => handler'["order"].job \in Ordered
<1>1. Started
  <2>1. CASE Begins("order", [pc |-> "decide", job |-> 0, token |-> None,
                              silent |-> ~heard])
    <3>1. "decide" \in Place /\ 0 \in Job \cup {0} /\ (~heard) \in BOOLEAN
      BY DEF Place
    <3> QED  BY <2>1, <3>1, BeginsEffect DEF JobInv
  <2>2. ASSUME NEW j \in Job, Latest(j),
               Begins("order", [pc |-> "read", job |-> j, token |-> None,
                                silent |-> FALSE])
        PROVE  Started
    <3>1. "read" \in Place /\ j \in Job \cup {0} /\ FALSE \in BOOLEAN
      BY DEF Place
    <3>2. Others("order") /\ handler'["order"].pc = "read"
          /\ handler'["order"].job = j /\ handler'["order"].token = None
      BY <2>2, <3>1, BeginsEffect DEF JobInv
    <3> QED  BY <2>2, <3>2 DEF Latest
  <2> QED  BY <2>1, <2>2 DEF OrderReads
<1>2. UNCHANGED <<registry, store, edge>>
  BY DEF OrderReads
<1>3. CallOK("order")'
  BY <1>1, <1>2 DEF CallOK, Ordered, store
<1> QED  BY <1>1, <1>2, <1>3, OnlyHandler

LEMMA OrderWritesJob == ASSUME JobInv, OrderWrites PROVE JobInv'
<1>1. PICK j \in Job \ Ordered, silent \in BOOLEAN :
        /\ silent = handler["order"].silent
        /\ jobs' = [jobs EXCEPT ![j] = NewJob(silent)]
        /\ node' = [state |-> IF silent THEN "removed" ELSE "decommissioning",
                    credential |-> node.credential /\ ~silent]
        /\ handler' = [handler EXCEPT !["order"].pc = "read",
                                      !["order"].job = j]
  BY DEF OrderWrites, JobInv, TypeOK, Call, Named
<1>2. "order" \in Named /\ Others("order") /\ handler'["order"].pc = "read"
      /\ handler'["order"].job = j /\ handler'["order"].token = handler["order"].token
  BY <1>1 DEF Named, JobInv, TypeOK, Others, Call
<1>3. UNCHANGED <<heard, record, memory, expired, issued, nonces, agent, helper,
                  cleaned>>
  BY DEF OrderWrites, edge
<1>4. Becomes(j, NewJob(silent))
  BY <1>1, NewEffect
<1>5. Grows  BY <1>3, <1>4, RowGrows
<1>6. j \in Ordered'  BY <1>4 DEF Becomes, Ordered
<1>7. node' \in [state : {"enrolled", "decommissioning", "removed"},
                 credential : BOOLEAN]
  BY <1>1 DEF JobInv, TypeOK
<1>8. TypeOK'
  BY <1>2, <1>3, <1>4, <1>7 DEF JobInv, TypeOK, Becomes, Others
<1>9. CallOK("order")'
  BY <1>2, <1>3, <1>6 DEF JobInv, CallOK
<1>10. \A g \in Named : CallOK(g)'
  BY <1>2, <1>5, <1>9, CallStays DEF Others
<1>11. TokenOK' /\ AgentOK'
  BY <1>3, <1>5, TokenStays, AgentStays
<1>12. /\ (cleaned => cleaned') /\ (~record => ~record')
       /\ UNCHANGED helper
  BY <1>3
<1>13. \A i \in Job : jobs'[i].state = "complete" => jobs[i].state = "complete"
  BY <1>4 DEF Becomes, NewJob
<1>14. Lasting  BY <1>12, <1>13 DEF Lasting
<1>15. ReportOK'  BY <1>2, <1>14, ReportMoves
<1> QED  BY <1>8, <1>10, <1>11, <1>15 DEF JobInv

LEMMA OrderRereadsJob == ASSUME JobInv, OrderRereads PROVE JobInv'
<1>1. PICK pc \in {"dns", "check", "answer"} : Goto("order", pc)
  BY DEF OrderRereads
<1>2. "order" \in Named /\ Others("order") /\ handler'["order"].pc = pc
      /\ handler'["order"].job = handler["order"].job
      /\ handler'["order"].token = handler["order"].token
  BY <1>1, GotoEffect DEF Named, JobInv, Place
<1>3. UNCHANGED <<registry, store, edge>> /\ handler["order"].pc = "read"
  BY DEF OrderRereads
<1>4. CallOK("order")'
  BY <1>2, <1>3 DEF JobInv, CallOK, Ordered, store
<1> QED  BY <1>2, <1>3, <1>4, OnlyHandler

------------------------------------------------------------------------------
(* JobInv is preserved: issuing a job *)

LEMMA IssueChecksJob ==
  ASSUME JobInv, NEW h \in Named, IssueChecks(h)
  PROVE  JobInv'
<1> DEFINE j == handler[h].job
<1>1. j \in Ordered /\ j \in Job /\ handler[h].pc = "check" /\ h # "report"
  BY Works DEF IssueChecks, JobInv, CallOK
<1>2. UNCHANGED <<node, heard, record, jobs, memory, expired, nonces, agent,
                  helper, cleaned>>
  BY DEF IssueChecks, registry, edge
<1>3. CASE /\ memory[j] # None /\ UNCHANGED issued
           /\ handler' = [handler EXCEPT ![h].pc = "answer",
                                         ![h].token = memory[j]]
  <2>1. /\ Others(h) /\ handler'[h].pc = "answer" /\ handler'[h].job = j
        /\ handler'[h].token = memory[j]
    BY <1>1, <1>3 DEF JobInv, TypeOK, Others, Call
  <2>2. CallOK(h)'
    BY <1>1, <1>2, <1>3, <2>1 DEF JobInv, TokenOK, CallOK, Ordered
  <2>3. UNCHANGED <<registry, store, edge>>
    BY <1>2, <1>3 DEF registry, store, edge
  <2> QED  BY <1>1, <2>1, <2>2, <2>3, OnlyHandler
<1>4. ASSUME NEW t \in Token, issued[t] = 0,
             issued' = [issued EXCEPT ![t] = j],
             handler' = [handler EXCEPT ![h].pc = "write", ![h].token = t]
      PROVE  JobInv'
  <2>1. /\ Others(h) /\ handler'[h].pc = "write" /\ handler'[h].job = j
        /\ handler'[h].token = t
    BY <1>1, <1>4 DEF JobInv, TypeOK, Others, Call
  <2>2. /\ issued' \in [Token -> Job \cup {0}] /\ issued'[t] = j /\ j # 0
        /\ \A u \in Token \ {t} : issued'[u] = issued[u]
    BY <1>1, <1>4 DEF JobInv, TypeOK, Job
  <2>3. Grows
    BY <1>2, <1>4, <2>2 DEF Grows, Ordered
  <2>4. TypeOK'
    BY <1>2, <2>1, <2>2 DEF JobInv, TypeOK, Others
  <2>5. CallOK(h)'
    BY <1>1, <1>2, <2>1, <2>2, NoneAssumption DEF CallOK, Ordered
  <2>6. \A g \in Named : CallOK(g)'
    BY <2>1, <2>3, <2>5, CallStays DEF Others
  <2>7. TokenOK'
    BY <1>1, <1>2, <2>2, <2>3 DEF JobInv, TypeOK, TokenOK, Grows, Ordered
  <2>8. AgentOK'  BY <1>2, <2>3, AgentStays
  <2>9. ReportOK'
    BY <1>1, <1>2, <2>1, LastingByFrame, ReportMoves
  <2> QED  BY <2>4, <2>6, <2>7, <2>8, <2>9 DEF JobInv
<1>5. CASE Goto(h, "answer") /\ UNCHANGED issued
  <2>1. /\ Others(h) /\ handler'[h].pc = "answer" /\ handler'[h].job = j
        /\ handler'[h].token = handler[h].token
    BY <1>5, GotoEffect DEF JobInv, Place
  <2>2. CallOK(h)'
    BY <1>1, <1>2, <1>5, <2>1 DEF JobInv, CallOK, Ordered
  <2>3. UNCHANGED <<registry, store, edge>>
    BY <1>2, <1>5 DEF registry, store, edge
  <2> QED  BY <1>1, <2>1, <2>2, <2>3, OnlyHandler
<1> QED  BY <1>3, <1>4, <1>5 DEF IssueChecks

LEMMA IssueWritesJob ==
  ASSUME JobInv, NEW h \in Named, IssueWrites(h)
  PROVE  JobInv'
<1> DEFINE j == handler[h].job
<1>1. j \in Ordered /\ j \in Job /\ handler[h].pc = "write" /\ h # "report"
  BY Works DEF IssueWrites, JobInv, CallOK
<1>2. UNCHANGED <<node, heard, record, memory, expired, issued, nonces, agent,
                  helper, cleaned>>
  BY DEF IssueWrites, registry, edge
<1>3. PICK row \in JobRow : Becomes(j, row) /\ row.state = "partial"
  BY WriteEffect
<1>4. /\ Others(h) /\ handler'[h].pc = "remember" /\ handler'[h].job = j
      /\ handler'[h].token = handler[h].token
  BY GotoEffect DEF IssueWrites, JobInv, Place
<1>5. Grows  BY <1>1, <1>2, <1>3, RowGrows
<1>6. TypeOK'
  BY <1>2, <1>3, <1>4 DEF JobInv, TypeOK, Others, Becomes
<1>7. CallOK(h)'
  BY <1>1, <1>2, <1>4, <1>5 DEF JobInv, CallOK, Grows
<1>8. \A g \in Named : CallOK(g)'
  BY <1>4, <1>5, <1>7, CallStays DEF Others
<1>9. TokenOK' /\ AgentOK'  BY <1>2, <1>5, TokenStays, AgentStays
<1>10. (cleaned => cleaned') /\ (~record => ~record') /\ UNCHANGED helper
  BY <1>2
<1>11. \A i \in Job : jobs'[i].state = "complete" => jobs[i].state = "complete"
  BY <1>3 DEF Becomes
<1>12. Lasting  BY <1>10, <1>11 DEF Lasting
<1>13. ReportOK'  BY <1>1, <1>4, <1>12, ReportMoves
<1> QED  BY <1>6, <1>8, <1>9, <1>13 DEF JobInv

LEMMA IssueRemembersJob ==
  ASSUME JobInv, NEW h \in Named, IssueRemembers(h)
  PROVE  JobInv'
<1> DEFINE j == handler[h].job
<1>1. j \in Ordered /\ j \in Job /\ handler[h].pc = "remember" /\ h # "report"
  BY Works DEF IssueRemembers, JobInv, CallOK
<1>2. UNCHANGED <<node, heard, record, jobs, expired, issued, nonces, agent,
                  helper, cleaned>>
  BY DEF IssueRemembers, registry, edge
<1>3. /\ Others(h) /\ handler'[h].pc = "answer" /\ handler'[h].job = j
      /\ handler'[h].token = handler[h].token
  BY GotoEffect DEF IssueRemembers, JobInv, Place
<1>4. /\ handler[h].token \in Token /\ issued[handler[h].token] # 0
      /\ memory' = [memory EXCEPT ![j] = handler[h].token]
  BY <1>1 DEF IssueRemembers, JobInv, TypeOK, CallOK, Call
<1>5. /\ memory' \in [Job -> Token \cup {None}]
      /\ \A i \in Job : memory'[i] # memory[i] =>
           i = j /\ memory'[i] = handler[h].token
  BY <1>1, <1>4 DEF JobInv, TypeOK
<1>6. Grows  BY <1>2, GrowsByFrame
<1>7. TypeOK'
  BY <1>2, <1>3, <1>5 DEF JobInv, TypeOK, Others
<1>8. CallOK(h)'
  BY <1>1, <1>2, <1>3, <1>6 DEF JobInv, CallOK, Grows
<1>9. \A g \in Named : CallOK(g)'
  BY <1>3, <1>6, <1>8, CallStays DEF Others
<1>10. TokenOK'
  BY <1>1, <1>2, <1>4, <1>5 DEF JobInv, TokenOK, Ordered
<1>11. AgentOK'  BY <1>2, <1>6, AgentStays
<1>12. ReportOK'  BY <1>1, <1>2, <1>3, LastingByFrame, ReportMoves
<1> QED  BY <1>7, <1>9, <1>10, <1>11, <1>12 DEF JobInv

LEMMA AnswersJob ==
  ASSUME JobInv, NEW h \in Named, Answers(h)
  PROVE  JobInv'
<1>1. Others(h) /\ handler'[h].pc = "idle" /\ handler'[h].token = None
  BY EndsEffect DEF Answers, JobInv
<1>2. UNCHANGED <<registry, store, edge>>  BY DEF Answers
<1>3. CallOK(h)'  BY <1>1 DEF CallOK
<1> QED  BY <1>1, <1>2, <1>3, OnlyHandler

------------------------------------------------------------------------------
(* JobInv is preserved: the DNS record *)

LEMMA DnsStepJob ==
  ASSUME JobInv, NEW h \in Named, DnsStep(h)
  PROVE  JobInv'
<1>1. PICK pc \in {"marked", "failed"} : Goto(h, pc)
  BY DEF DnsStep
<1>2. /\ Others(h) /\ handler'[h].pc = pc
      /\ handler'[h].job = handler[h].job /\ handler'[h].token = handler[h].token
  BY <1>1, GotoEffect DEF JobInv, Place
<1>3. UNCHANGED <<node, heard, jobs, memory, expired, issued, nonces, agent,
                  helper, cleaned>> /\ handler[h].pc = "dns"
  BY DEF DnsStep, store, edge
<1>4. record' \in BOOLEAN
  BY DEF DnsStep, JobInv, TypeOK
<1>5. /\ ~record => ~record'
      /\ pc = "marked" => ~record'
  <2>1. CASE record' = FALSE  BY <2>1
  <2>2. CASE Goto(h, "failed") /\ UNCHANGED record
    <3>1. pc = "failed"  BY <1>2, <2>2, GotoEffect DEF JobInv, Place
    <3> QED  BY <2>2, <3>1
  <2> QED  BY <2>1, <2>2 DEF DnsStep
<1>6. Grows  BY <1>3, GrowsByFrame
<1>7. TypeOK'  BY <1>2, <1>3, <1>4 DEF JobInv, TypeOK, Others
<1>8. CallOK(h)'
  BY <1>1, <1>2, <1>3, <1>6 DEF JobInv, CallOK, Grows
<1>9. \A g \in Named : CallOK(g)'
  BY <1>2, <1>6, <1>8, CallStays DEF Others
<1>10. TokenOK' /\ AgentOK'  BY <1>3, <1>6, TokenStays, AgentStays
<1>11. (cleaned => cleaned') /\ UNCHANGED <<helper, jobs>>
  BY <1>3
<1>12. Lasting  BY <1>5, <1>11 DEF Lasting
<1>13. h = "report" => cleaned'
  BY <1>3, <1>11 DEF JobInv, ReportOK
<1>14. ReportOK'  BY <1>1, <1>2, <1>5, <1>12, <1>13, ReportMoves
<1> QED  BY <1>7, <1>9, <1>10, <1>14 DEF JobInv

LEMMA DnsFailedJob ==
  ASSUME JobInv, NEW h \in Named, DnsFailed(h)
  PROVE  JobInv'
<1> DEFINE j == handler[h].job
<1>1. j \in Job  BY Works DEF DnsFailed
<1>2. PICK row \in JobRow : Becomes(j, row) /\ row.state = "partial"
  BY <1>1, FailedEffect DEF DnsFailed
<1>3. UNCHANGED <<node, heard, record, memory, expired, issued, nonces, agent,
                  helper, cleaned>>
  BY DEF DnsFailed, registry, edge
<1>4. Others(h) /\ handler'[h].pc = "idle" /\ handler'[h].token = None
  BY EndsEffect DEF DnsFailed, JobInv
<1>5. Grows  BY <1>1, <1>2, <1>3, RowGrows
<1>6. TypeOK'  BY <1>2, <1>3, <1>4 DEF JobInv, TypeOK, Others, Becomes
<1>7. \A g \in Named : CallOK(g)'
  BY <1>4, <1>5, CallStays DEF Others, CallOK
<1>8. TokenOK' /\ AgentOK'  BY <1>3, <1>5, TokenStays, AgentStays
<1>9. (cleaned => cleaned') /\ (~record => ~record') /\ UNCHANGED helper
  BY <1>3
<1>10. \A i \in Job : jobs'[i].state = "complete" => jobs[i].state = "complete"
  BY <1>2 DEF Becomes
<1>11. Lasting  BY <1>9, <1>10 DEF Lasting
<1>12. ReportOK'  BY <1>4, <1>11, ReportMoves
<1> QED  BY <1>6, <1>7, <1>8, <1>12 DEF JobInv

LEMMA DnsDeletedJob ==
  ASSUME JobInv, NEW h \in Named, DnsDeleted(h)
  PROVE  JobInv'
<1> DEFINE j == handler[h].job
<1>1. j \in Ordered /\ j \in Job /\ handler[h].pc = "marked"
  BY Works DEF DnsDeleted
<1>2. PICK row \in JobRow : Becomes(j, row) /\ row.state = jobs[j].state
  BY <1>1, DoneEffect DEF DnsDeleted
<1>3. UNCHANGED <<node, heard, record, memory, expired, issued, nonces, agent,
                  helper, cleaned>>
  BY DEF DnsDeleted, registry, edge
<1>4. Grows  BY <1>1, <1>2, <1>3, RowGrows
<1>5. /\ Others(h) /\ handler'[h].pc \in {"idle", "finish"}
      /\ h # "report" => handler'[h].pc = "idle"
      /\ CallOK(h)'
  <2>1. CASE h = "report" /\ Goto(h, "finish")
    <3>1. /\ Others(h) /\ handler'[h].pc = "finish"
          /\ handler'[h].job = j /\ handler'[h].token = handler[h].token
      BY <2>1, GotoEffect DEF JobInv, Place
    <3> QED  BY <1>1, <1>4, <2>1, <3>1 DEF JobInv, CallOK, Grows, TypeOK, Call
  <2>2. CASE h # "report" /\ Ends(h)
    BY <2>2, EndsEffect DEF JobInv, CallOK
  <2> QED  BY <2>1, <2>2 DEF DnsDeleted
<1>6. TypeOK'  BY <1>2, <1>3, <1>5 DEF JobInv, TypeOK, Others, Becomes
<1>7. \A g \in Named : CallOK(g)'
  BY <1>4, <1>5, CallStays DEF Others
<1>8. TokenOK' /\ AgentOK'  BY <1>3, <1>4, TokenStays, AgentStays
<1>9. (cleaned => cleaned') /\ (~record => ~record') /\ UNCHANGED helper
  BY <1>3
<1>10. \A i \in Job : jobs'[i].state = "complete" => jobs[i].state = "complete"
  BY <1>2 DEF Becomes
<1>11. Lasting  BY <1>9, <1>10 DEF Lasting
<1>12. ~record' /\ (h = "report" => cleaned')
  BY <1>1, <1>9 DEF JobInv, ReportOK
<1>13. ReportOK'  BY <1>5, <1>11, <1>12, ReportMoves
<1> QED  BY <1>6, <1>7, <1>8, <1>13 DEF JobInv

------------------------------------------------------------------------------
(* JobInv is preserved: the retry and the agent *)

LEMMA RetryJob ==
  ASSUME JobInv, NEW j \in Job, Retry(j)
  PROVE  JobInv'
<1> "retry" \in Named /\ "retry" # "report"  BY DEF Named
<1>1. PICK pc \in {"dns", "check"} :
        Begins("retry", [pc |-> pc, job |-> j, token |-> None, silent |-> FALSE])
  BY DEF Retry
<1>2. pc \in Place /\ j \in Job \cup {0} /\ FALSE \in BOOLEAN
  BY <1>1 DEF Place
<1>3. /\ Others("retry") /\ handler'["retry"].pc = pc
      /\ handler'["retry"].job = j /\ handler'["retry"].token = None
  BY <1>1, <1>2, BeginsEffect DEF JobInv
<1>4. UNCHANGED <<registry, store, edge>> /\ j \in Ordered
  BY DEF Retry, Ordered
<1>5. CallOK("retry")'
  BY <1>1, <1>3, <1>4 DEF CallOK, Ordered, store
<1> QED  BY <1>1, <1>3, <1>4, <1>5, OnlyHandler

LEMMA PollAsksJob == ASSUME JobInv, PollAsks PROVE JobInv'
<1> "poll" \in Named /\ "poll" # "report"  BY DEF Named
<1>1. UNCHANGED <<node, heard, record, jobs, memory, expired, issued, nonces,
                  helper, cleaned>>
  BY DEF PollAsks, registry, store
<1>2. PICK j \in Ordered, pc \in {"check", "answer"} :
        /\ Begins("poll", [pc |-> pc, job |-> j, token |-> memory[j],
                           silent |-> FALSE])
        /\ agent' = [pc |-> "polling", job |-> j, token |-> None]
  BY DEF PollAsks, Latest
<1>3. /\ j \in Job /\ pc \in Place /\ FALSE \in BOOLEAN
      /\ memory[j] \in Token \cup {None}
  BY <1>2 DEF Place, Ordered, JobInv, TypeOK
<1>4. /\ Others("poll") /\ handler'["poll"].pc = pc
      /\ handler'["poll"].job = j /\ handler'["poll"].token = memory[j]
  BY <1>2, <1>3, BeginsEffect DEF JobInv
<1>5. Grows  BY <1>1, GrowsByFrame
<1>6. TypeOK'  BY <1>1, <1>2, <1>3, <1>4 DEF JobInv, TypeOK, Others
<1>7. CallOK("poll")'
  BY <1>1, <1>2, <1>3, <1>4 DEF CallOK, Ordered, JobInv, TokenOK
<1>8. \A g \in Named : CallOK(g)'
  BY <1>4, <1>5, <1>7, CallStays DEF Others
<1>9. TokenOK'  BY <1>1, <1>5, TokenStays
<1>10. AgentOK'
  BY <1>1, <1>2 DEF JobInv, AgentOK, RunsOnce, Ordered
<1>11. ReportOK'  BY <1>1, <1>2, <1>4, LastingByFrame, ReportMoves
<1> QED  BY <1>6, <1>8, <1>9, <1>10, <1>11 DEF JobInv

LEMMA PollAnsweredJob == ASSUME JobInv, PollAnswered PROVE JobInv'
<1> "poll" \in Named /\ "poll" # "report"  BY DEF Named
<1>1. UNCHANGED <<node, heard, record, jobs, memory, expired, issued, nonces,
                  helper, cleaned>>
  BY DEF PollAnswered, registry, store
<1>2. /\ Others("poll") /\ handler'["poll"].pc = "idle"
      /\ handler'["poll"].token = None
  BY EndsEffect DEF PollAnswered, JobInv
<1>3. Grows  BY <1>1, GrowsByFrame
<1>4. PICK t \in Token \cup {None} :
        /\ t = handler["poll"].token
        /\ agent' = IF agent.pc = "polling"
                    THEN [agent EXCEPT !.pc = "verify", !.token = t]
                    ELSE agent
  BY DEF PollAnswered, JobInv, TypeOK, Call
<1>5. TypeOK'
  BY <1>1, <1>2, <1>4 DEF JobInv, TypeOK, Others
<1>6. \A g \in Named : CallOK(g)'
  BY <1>2, <1>3, CallStays DEF Others, CallOK
<1>7. TokenOK'  BY <1>1, <1>3, TokenStays
<1>8. t # None => issued[t] # 0
  BY <1>4 DEF JobInv, CallOK
<1>9. AgentOK'
  BY <1>1, <1>4, <1>8 DEF JobInv, TypeOK, AgentOK, RunsOnce, Ordered
<1>10. ReportOK'  BY <1>1, <1>2, LastingByFrame, ReportMoves
<1> QED  BY <1>5, <1>6, <1>7, <1>9, <1>10 DEF JobInv

(* A step of the agent or the environment: no handler moves and no job,    *)
(* token or helper changes.                                                *)
LEMMA OnlyAgent ==
  ASSUME JobInv, TypeOK', AgentOK',
         UNCHANGED <<record, jobs, memory, issued, helper, cleaned, handler>>
  PROVE  JobInv'
<1>1. Grows  BY GrowsByFrame
<1>2. \A g \in Named : CallOK(g)'  BY <1>1, CallStays
<1>3. TokenOK'  BY <1>1, TokenStays
<1>4. ReportOK'  BY LastingByFrame, ReportStays
<1> QED  BY <1>2, <1>3, <1>4 DEF JobInv

(* The agent goes back to polling.                                         *)
LEMMA AgentIdleJob ==
  ASSUME JobInv, AgentIdle,
         UNCHANGED <<registry, store, nonces, helper, cleaned, handler>>
  PROVE  JobInv'
<1>1. UNCHANGED <<node, heard, record, jobs, memory, expired, issued, nonces,
                  helper, cleaned, handler>>
  BY DEF registry, store
<1>2. TypeOK'  BY <1>1 DEF JobInv, TypeOK, AgentIdle
<1>3. AgentOK'
  BY <1>1 DEF JobInv, AgentOK, RunsOnce, AgentIdle
<1> QED  BY <1>1, <1>2, <1>3, OnlyAgent

LEMMA PollLostJob == ASSUME JobInv, PollLost PROVE JobInv'
BY AgentIdleJob DEF PollLost

LEMMA AgentRestartsJob == ASSUME JobInv, AgentRestarts PROVE JobInv'
BY AgentIdleJob DEF AgentRestarts

LEMMA AgentVerifiesJob == ASSUME JobInv, AgentVerifies PROVE JobInv'
<1>1. CASE AgentIdle /\ UNCHANGED nonces
  BY <1>1, AgentIdleJob DEF AgentVerifies
<1>2. CASE /\ agent.token \in Token \ (expired \cup nonces)
           /\ nonces' = nonces \cup {agent.token}
           /\ agent' = [agent EXCEPT !.pc = "accept"]
  <2>1. UNCHANGED <<node, heard, record, jobs, memory, expired, issued, helper,
                    cleaned, handler>> /\ agent.pc = "verify"
    BY DEF AgentVerifies, registry, store
  <2>2. /\ agent'.pc = "accept" /\ agent'.job = agent.job
        /\ agent'.token = agent.token
    BY <1>2 DEF JobInv, TypeOK
  <2>3. TypeOK'  BY <1>2, <2>1 DEF JobInv, TypeOK
  <2>4. AgentOK'
    BY <1>2, <2>1, <2>2 DEF JobInv, AgentOK, RunsOnce, Ordered
  <2> QED  BY <2>1, <2>3, <2>4, OnlyAgent
<1> QED  BY <1>1, <1>2 DEF AgentVerifies

LEMMA AgentAcceptsJob == ASSUME JobInv, AgentAccepts PROVE JobInv'
<1>1. CASE AgentIdle /\ UNCHANGED jobs
  <2>1. UNCHANGED <<registry, store, nonces, helper, cleaned, handler>>
    BY <1>1 DEF AgentAccepts, store
  <2> QED  BY <1>1, <2>1, AgentIdleJob
<1>2. CASE /\ jobs' = [jobs EXCEPT ![agent.job].accepted = TRUE,
                                   ![agent.job].step = "cleaning_remote"]
           /\ agent' = [agent EXCEPT !.pc = "start"] \/ AgentIdle
  <2>1. UNCHANGED <<node, heard, record, memory, expired, issued, nonces, helper,
                    cleaned, handler>> /\ agent.pc = "accept"
    BY DEF AgentAccepts, registry
  <2>2. agent.job \in Ordered /\ agent.job \in Job
    BY <2>1 DEF JobInv, AgentOK, Ordered
  <2>3. PICK row \in JobRow :
          Becomes(agent.job, row) /\ row.state = jobs[agent.job].state
    BY <1>2, <2>2, AcceptEffect
  <2>4. Grows  BY <2>1, <2>2, <2>3, RowGrows
  <2>5. TypeOK'
    BY <1>2, <2>1, <2>3 DEF JobInv, TypeOK, Becomes, AgentIdle
  <2>6. \A g \in Named : CallOK(g)'  BY <2>1, <2>4, CallStays
  <2>7. TokenOK'  BY <2>1, <2>4, TokenStays
  <2>8. AgentOK'
    <3>1. CASE agent' = [agent EXCEPT !.pc = "start"]
      <4>1. agent'.pc = "start" /\ agent'.job = agent.job
            /\ agent'.token = agent.token
        BY <3>1 DEF JobInv, TypeOK
      <4> QED
        BY <2>1, <2>4, <4>1 DEF JobInv, AgentOK, RunsOnce, Grows
    <3>2. CASE AgentIdle
      BY <2>1, <3>2 DEF JobInv, AgentOK, RunsOnce, AgentIdle
    <3> QED  BY <1>2, <3>1, <3>2
  <2>9. /\ (cleaned => cleaned') /\ (~record => ~record')
        /\ UNCHANGED <<helper, handler>>
    BY <2>1
  <2>10. \A i \in Job : jobs'[i].state = "complete" => jobs[i].state = "complete"
    BY <2>3 DEF Becomes
  <2>11. Lasting  BY <2>9, <2>10 DEF Lasting
  <2>12. ReportOK'  BY <2>9, <2>11, ReportStays
  <2> QED  BY <2>5, <2>6, <2>7, <2>8, <2>12 DEF JobInv
<1> QED  BY <1>1, <1>2 DEF AgentAccepts

LEMMA AgentStartsJob == ASSUME JobInv, AgentStarts PROVE JobInv'
<1>1. UNCHANGED <<node, heard, record, jobs, memory, expired, issued, nonces,
                  cleaned, handler>> /\ agent.pc = "start"
  BY DEF AgentStarts, registry, store
<1>2. /\ agent' = [pc |-> "idle", job |-> 0, token |-> None]
      /\ helper' = [helper EXCEPT ![agent.token] = "cleaning"]
  BY DEF AgentStarts, AgentIdle
<1>3. agent.token \in Token /\ agent.token \in nonces /\ issued[agent.token] # 0
  BY <1>1, NoneAssumption DEF JobInv, AgentOK, TypeOK
<1>4. Grows  BY <1>1, GrowsByFrame
<1>5. TypeOK'  BY <1>1, <1>2, <1>3 DEF JobInv, TypeOK
<1>6. \A g \in Named : CallOK(g)'  BY <1>1, <1>4, CallStays
<1>7. TokenOK' /\ AgentOK'
  BY <1>1, <1>2, <1>3 DEF JobInv, TypeOK, TokenOK, AgentOK, RunsOnce, Ordered
<1>8. (cleaned => cleaned') /\ (~record => ~record') /\ UNCHANGED <<jobs, handler>>
  BY <1>1
<1>9. \A t \in Token : helper'[t] \in {"posting", "done"} =>
        helper[t] \in {"posting", "done"}
  BY <1>2, <1>3 DEF JobInv, TypeOK
<1>10. Lasting  BY <1>8, <1>9 DEF Lasting
<1>11. ReportOK'  BY <1>8, <1>10, ReportStays
<1> QED  BY <1>5, <1>6, <1>7, <1>11 DEF JobInv

------------------------------------------------------------------------------
(* JobInv is preserved: the helper and its report *)

LEMMA HelperCleansJob ==
  ASSUME JobInv, NEW t \in Token, HelperCleans(t)
  PROVE  JobInv'
<1>1. UNCHANGED <<node, heard, record, jobs, memory, expired, issued, nonces,
                  handler>> /\ helper[t] = "cleaning"
  BY DEF HelperCleans, registry, store
<1>2. /\ agent' = [pc |-> "gone", job |-> 0, token |-> None]
      /\ helper' = [helper EXCEPT ![t] = "posting"]
  BY DEF HelperCleans
<1>3. cleaned'  BY DEF HelperCleans
<1>4. Grows  BY <1>1, GrowsByFrame
<1>5. TypeOK'  BY <1>1, <1>2 DEF JobInv, TypeOK, HelperCleans
<1>6. \A g \in Named : CallOK(g)'  BY <1>1, <1>4, CallStays
<1>7. TokenOK' /\ AgentOK'
  BY <1>1, <1>2 DEF JobInv, TypeOK, TokenOK, AgentOK, RunsOnce, Ordered
<1>8. (~record => ~record') /\ UNCHANGED <<jobs, handler>>
  BY <1>1
<1>9. Lasting  BY <1>3, <1>8 DEF Lasting
<1>10. ReportOK'  BY <1>8, <1>9, ReportStays
<1> QED  BY <1>5, <1>6, <1>7, <1>10 DEF JobInv

(* A helper that has posted, or could not.                                 *)
LEMMA HelperDone ==
  ASSUME JobInv, NEW t \in Token, helper[t] = "posting",
         helper' = [helper EXCEPT ![t] = "done"],
         UNCHANGED <<registry, store, nonces, agent, cleaned>>
  PROVE  /\ Grows /\ Lasting /\ TokenOK' /\ AgentOK'
         /\ handler' \in [Named -> Call] => TypeOK'
<1>1. UNCHANGED <<node, heard, record, jobs, memory, expired, issued, nonces,
                  agent, cleaned>>
  BY DEF registry, store
<1>2. Grows  BY <1>1, GrowsByFrame
<1>3. handler' \in [Named -> Call] => TypeOK'
  BY <1>1 DEF JobInv, TypeOK
<1>4. TokenOK' /\ AgentOK'
  BY <1>1 DEF JobInv, TypeOK, TokenOK, AgentOK, RunsOnce, Ordered
<1>5. (cleaned => cleaned') /\ (~record => ~record') /\ UNCHANGED jobs
  BY <1>1
<1>6. \A u \in Token : helper'[u] \in {"posting", "done"} =>
        helper[u] \in {"posting", "done"}
  BY DEF JobInv, TypeOK
<1>7. Lasting  BY <1>5, <1>6 DEF Lasting
<1> QED  BY <1>2, <1>3, <1>4, <1>7

LEMMA ReportReadsJob ==
  ASSUME JobInv, NEW t \in Token, ReportReads(t)
  PROVE  JobInv'
<1> "report" \in Named  BY DEF Named
<1> DEFINE j == issued[t]
<1>1. j \in Ordered /\ j \in Job \cup {0} /\ cleaned /\ j # 0
  BY DEF ReportReads, JobInv, TokenOK, ReportOK, TypeOK
<1>2. Grows /\ Lasting /\ TokenOK' /\ AgentOK'
      /\ (handler' \in [Named -> Call] => TypeOK')
  BY HelperDone DEF ReportReads
<1>3. cleaned'  BY <1>1, <1>2 DEF Lasting
<1>4. CASE UNCHANGED handler
  <2>1. TypeOK'  BY <1>2, <1>4 DEF JobInv, TypeOK
  <2>2. \A g \in Named : CallOK(g)'  BY <1>2, <1>4, CallStays
  <2>3. ReportOK'  BY <1>2, <1>4, ReportStays
  <2> QED  BY <1>2, <2>1, <2>2, <2>3 DEF JobInv
<1>5. CASE Begins("report", [pc |-> "dns", job |-> j, token |-> t,
                             silent |-> FALSE])
  <2>1. "dns" \in Place /\ t \in Token \cup {None} /\ FALSE \in BOOLEAN
    BY DEF Place
  <2>2. /\ Others("report") /\ handler'["report"].pc = "dns"
        /\ handler'["report"].job = j /\ handler'["report"].token = t
    BY <1>1, <1>5, <2>1, BeginsEffect DEF JobInv
  <2>3. issued' = issued /\ Ordered' = Ordered
    BY DEF ReportReads, store, Ordered
  <2>4. TypeOK'  BY <1>2, <2>2 DEF Others
  <2>5. CallOK("report")'
    BY <1>1, <2>2, <2>3 DEF CallOK
  <2>6. \A g \in Named : CallOK(g)'
    BY <1>2, <2>2, <2>5, CallStays DEF Others
  <2>7. ReportOK'  BY <1>2, <1>3, <2>2, ReportMoves
  <2> QED  BY <1>2, <2>4, <2>6, <2>7 DEF JobInv
<1> QED  BY <1>4, <1>5 DEF ReportReads

LEMMA ReportLostJob ==
  ASSUME JobInv, NEW t \in Token, ReportLost(t)
  PROVE  JobInv'
<1>1. Grows /\ Lasting /\ TokenOK' /\ AgentOK' /\ UNCHANGED handler
      /\ (handler' \in [Named -> Call] => TypeOK')
  BY HelperDone DEF ReportLost
<1>2. TypeOK'  BY <1>1 DEF JobInv, TypeOK
<1>3. \A g \in Named : CallOK(g)'  BY <1>1, CallStays
<1>4. ReportOK'  BY <1>1, ReportStays
<1> QED  BY <1>1, <1>2, <1>3, <1>4 DEF JobInv

LEMMA ReportFinishesJob == ASSUME JobInv, ReportFinishes PROVE JobInv'
<1> DEFINE j == handler["report"].job
<1> "report" \in Named  BY DEF Named
<1>1. j \in Ordered /\ j \in Job /\ handler["report"].pc = "finish"
  BY Works DEF ReportFinishes
<1>2. PICK row \in JobRow : Becomes(j, row) /\ row.state = "complete"
  BY FinishEffect
<1>3. UNCHANGED <<heard, record, memory, expired, issued, nonces, agent, helper,
                  cleaned>>
  BY DEF ReportFinishes, edge
<1>4. /\ Others("report") /\ handler'["report"].pc = "forget"
      /\ handler'["report"].job = j
      /\ handler'["report"].token = handler["report"].token
  BY GotoEffect DEF ReportFinishes, JobInv, Place
<1>5. Grows  BY <1>1, <1>2, <1>3, RowGrows
<1>6. node' \in [state : {"enrolled", "decommissioning", "removed"},
                 credential : BOOLEAN]
  BY DEF ReportFinishes
<1>7. TypeOK'
  BY <1>2, <1>3, <1>4, <1>6 DEF JobInv, TypeOK, Others, Becomes
<1>8. CallOK("report")'
  BY <1>1, <1>4, <1>5 DEF JobInv, CallOK, Grows, TypeOK, Call
<1>9. \A g \in Named : CallOK(g)'
  BY <1>4, <1>5, <1>8, CallStays DEF Others
<1>10. TokenOK' /\ AgentOK'  BY <1>3, <1>5, TokenStays, AgentStays
<1>11. (cleaned => cleaned') /\ (~record => ~record') /\ UNCHANGED helper
  BY <1>3
<1>12. cleaned' /\ ~record'
  BY <1>1, <1>11 DEF JobInv, ReportOK
<1>13. Lasting  BY <1>11, <1>12 DEF Lasting
<1>14. ReportOK'  BY <1>4, <1>12, <1>13, ReportMoves
<1> QED  BY <1>7, <1>9, <1>10, <1>14 DEF JobInv

LEMMA ReportForgetsJob == ASSUME JobInv, ReportForgets PROVE JobInv'
<1> "report" \in Named  BY DEF Named
<1>1. UNCHANGED <<node, heard, record, jobs, expired, issued, nonces, agent,
                  helper, cleaned>>
  BY DEF ReportForgets, registry, edge
<1>2. /\ Others("report") /\ handler'["report"].pc = "idle"
      /\ handler'["report"].token = None
  BY EndsEffect DEF ReportForgets, JobInv
<1>3. /\ memory' \in [Job -> Token \cup {None}]
      /\ \A i \in Job : memory'[i] \in {memory[i], None}
  BY DEF ReportForgets, JobInv, TypeOK
<1>4. Grows  BY <1>1, GrowsByFrame
<1>5. TypeOK'  BY <1>1, <1>2, <1>3 DEF JobInv, TypeOK, Others
<1>6. \A g \in Named : CallOK(g)'
  BY <1>2, <1>4, CallStays DEF Others, CallOK
<1>7. TokenOK'  BY <1>1, <1>3 DEF JobInv, TokenOK, Ordered
<1>8. AgentOK'  BY <1>1, <1>4, AgentStays
<1>9. ReportOK'  BY <1>1, <1>2, LastingByFrame, ReportMoves
<1> QED  BY <1>5, <1>6, <1>7, <1>8, <1>9 DEF JobInv

------------------------------------------------------------------------------
(* JobInv is preserved: the environment *)

LEMMA SilenceJob == ASSUME JobInv, Silence PROVE JobInv'
<1>1. UNCHANGED <<node, record, jobs, memory, expired, issued, nonces, agent,
                  helper, cleaned, handler>> /\ heard' = FALSE
  BY DEF Silence, store, edge
<1>2. TypeOK'  BY <1>1 DEF JobInv, TypeOK
<1>3. AgentOK'  BY <1>1, GrowsByFrame, AgentStays
<1> QED  BY <1>1, <1>2, <1>3, OnlyAgent

LEMMA ExpireJob ==
  ASSUME JobInv, NEW t \in Token, Expire(t)
  PROVE  JobInv'
<1>1. UNCHANGED <<node, heard, record, jobs, memory, issued, nonces, agent,
                  helper, cleaned, handler>> /\ expired' = expired \cup {t}
  BY DEF Expire, registry, edge
<1>2. TypeOK'  BY <1>1 DEF JobInv, TypeOK
<1>3. AgentOK'  BY <1>1, GrowsByFrame, AgentStays
<1> QED  BY <1>1, <1>2, <1>3, OnlyAgent

LEMMA RestartJob == ASSUME JobInv, Restart PROVE JobInv'
<1>1. UNCHANGED <<node, heard, record, jobs, expired, issued, nonces, helper,
                  cleaned>>
  BY DEF Restart, registry
<1>2. /\ handler' \in [Named -> Call]
      /\ \A h \in Named : handler'[h].pc = "idle" /\ handler'[h].token = None
  <2>1. Idle \in Call /\ Idle.pc = "idle" /\ Idle.token = None
    BY DEF Idle, Call
  <2> QED  BY <2>1 DEF Restart
<1>3. memory' = [j \in Job |-> None]  BY DEF Restart
<1>4. \/ agent' = agent
      \/ agent' = [pc |-> "idle", job |-> 0, token |-> None]
  BY DEF Restart, AgentIdle
<1>5. Grows  BY <1>1, GrowsByFrame
<1>6. TypeOK'  BY <1>1, <1>2, <1>3, <1>4 DEF JobInv, TypeOK
<1>7. \A g \in Named : CallOK(g)'  BY <1>2 DEF CallOK
<1>8. TokenOK'  BY <1>1, <1>3 DEF JobInv, TokenOK, Ordered
<1>9. AgentOK'
  <2>1. CASE agent' = agent  BY <1>1, <1>5, <2>1, AgentStays
  <2>2. CASE agent' = [pc |-> "idle", job |-> 0, token |-> None]
    BY <1>1, <2>2 DEF JobInv, AgentOK, RunsOnce
  <2> QED  BY <1>4, <2>1, <2>2
<1>10. /\ (cleaned => cleaned') /\ (~record => ~record')
       /\ UNCHANGED <<jobs, helper>>
  BY <1>1
<1>11. /\ \A t \in Token : helper'[t] \in {"posting", "done"} => cleaned'
       /\ \A j \in Job : jobs'[j].state = "complete" => cleaned' /\ ~record'
  BY <1>10 DEF JobInv, ReportOK, CompleteMeansClean
<1>12. ReportOK'
  BY <1>2, <1>11 DEF ReportOK, CompleteMeansClean, Named
<1> QED  BY <1>6, <1>7, <1>8, <1>9, <1>12 DEF JobInv

------------------------------------------------------------------------------
(* The invariant *)

LEMMA InitJob == Init => JobInv
<1> SUFFICES ASSUME Init PROVE JobInv  OBVIOUS
<1>1. Idle \in Call /\ Idle.pc = "idle" /\ Idle.token = None
  BY DEF Idle, Call
<1>2. NoJob \in JobRow /\ NoJob.state = "none"
  BY DEF NoJob, JobRow
<1>3. /\ \A h \in Named : handler[h] = Idle
      /\ \A j \in Job : jobs[j] = NoJob
      /\ "report" \in Named
  BY DEF Init, Named
<1>4. TypeOK  BY <1>1, <1>2 DEF Init, TypeOK
<1>5. \A h \in Named : CallOK(h)  BY <1>1, <1>3 DEF CallOK
<1>6. TokenOK /\ AgentOK  BY DEF Init, TokenOK, AgentOK, RunsOnce
<1>7. /\ \A t \in Token : helper[t] = "none"
      /\ \A j \in Job : jobs[j].state # "complete"
  BY <1>2, <1>3 DEF Init
<1>8. ReportOK  BY <1>1, <1>3, <1>7 DEF ReportOK, CompleteMeansClean
<1> QED  BY <1>4, <1>5, <1>6, <1>8 DEF JobInv

LEMMA NextJob == JobInv /\ [Next]_vars => JobInv'
<1> SUFFICES ASSUME JobInv, [Next]_vars PROVE JobInv'
  OBVIOUS
<1>1. CASE UNCHANGED vars
  <2>1. UNCHANGED <<registry, store, edge, handler>>  BY <1>1 DEF vars
  <2>2. UNCHANGED <<node, heard, record, jobs, memory, expired, issued, nonces,
                    agent, helper, cleaned, handler>>
    BY <2>1 DEF registry, store, edge
  <2>3. TypeOK'  BY <2>2 DEF JobInv, TypeOK
  <2>4. AgentOK'  BY <2>2, GrowsByFrame, AgentStays
  <2> QED  BY <2>2, <2>3, <2>4, OnlyAgent
<1>2. CASE OrderReads \/ \E j \in Job : Retry(j)
  BY <1>2, OrderReadsJob, RetryJob
<1>3. CASE Controller
  BY <1>3, OrderWritesJob, OrderRereadsJob, ReportFinishesJob, ReportForgetsJob,
     PollAnsweredJob, IssueChecksJob, IssueWritesJob, IssueRemembersJob,
     AnswersJob, DnsStepJob, DnsFailedJob, DnsDeletedJob
  DEF Controller, Issue, Dns
<1>4. CASE Agent
  BY <1>4, PollAsksJob, AgentVerifiesJob, AgentAcceptsJob, AgentStartsJob
  DEF Agent
<1>5. CASE Helper
  BY <1>5, HelperCleansJob, ReportReadsJob DEF Helper
<1>6. CASE Fault
  BY <1>6, SilenceJob, RestartJob, PollLostJob, AgentRestartsJob, ExpireJob,
     ReportLostJob
  DEF Fault
<1> QED  BY <1>1, <1>2, <1>3, <1>4, <1>5, <1>6 DEF Next

LEMMA JobInvHolds == Spec => []JobInv
BY InitJob, NextJob, PTL DEF Spec

(* Every variable of the protocol keeps its type, whatever overlaps, fails *)
(* or restarts.                                                            *)
THEOREM TypeCorrect == Spec => []TypeOK
<1>1. JobInv => TypeOK  BY DEF JobInv
<1> QED  BY <1>1, JobInvHolds, PTL

(* A removal that is reported as complete left neither the edge nor its    *)
(* DNS record behind, even when all handlers overlap.                      *)
THEOREM CompleteIsClean == Spec => []CompleteMeansClean
<1>1. JobInv => CompleteMeansClean  BY DEF JobInv, ReportOK
<1> QED  BY <1>1, JobInvHolds, PTL

(* No signed job is carried out twice, whatever is repeated or restarted.  *)
THEOREM JobsRunOnce == Spec => []RunsOnce
<1>1. JobInv => RunsOnce  BY DEF JobInv, AgentOK
<1> QED  BY <1>1, JobInvHolds, PTL
------------------------------------------------------------------------------
(* No two of the handlers that issue jobs overlap *)

Issuer == {"order", "poll", "retry"}

OneIssuer == Overlap \subseteq {"report"}

(* At most one of them is at work.                                         *)
IssueInv ==
  \A g, h \in Issuer :
    g # h => handler[g].pc = "idle" \/ handler[h].pc = "idle"

(* A record is deleted when the edge was cleaned or given up.              *)
Gone == cleaned \/ ~node.credential

GoneInv ==
  /\ node.state = "removed" => ~node.credential
  /\ \A h \in Named : handler[h].pc \in {"dns", "failed"} => Gone
  /\ \A j \in Job : jobs[j].step = "removing_dns" => Gone
  /\ handler["order"].pc = "read" => (jobs[handler["order"].job].pending => Gone)

AloneInv == JobInv /\ IssueInv /\ GoneInv

(* What most steps leave as it is: what makes a record go.                 *)
KeepsGone ==
  /\ Gone => Gone'
  /\ node'.state = "removed" => ~node'.credential
  /\ \A j \in Job : jobs'[j].step = "removing_dns" =>
       jobs[j].step = "removing_dns" \/ Gone
  /\ \A j \in Ordered : jobs'[j].pending => jobs[j].pending

(* It was at work already, or no handler that issues jobs is.              *)
Alone(h) ==
  \/ handler[h].pc # "idle" \/ handler'[h].pc = "idle"
  \/ \A g \in Issuer \ {h} : handler[g].pc = "idle"
  \/ h \notin Issuer

LEMMA FreeAlone ==
  ASSUME JobInv, OneIssuer, NEW h \in Named, Free(h)
  PROVE  Alone(h)
BY DEF OneIssuer, Free, Alone, Issuer, Named

LEMMA IssueKept ==
  ASSUME AloneInv, NEW h \in Named, Others(h), Alone(h)
  PROVE  IssueInv'
BY DEF AloneInv, IssueInv, Alone, Others, Issuer, Named

LEMMA GoneKept ==
  ASSUME AloneInv, KeepsGone, NEW h \in Named, Others(h),
         handler'[h].pc \in {"dns", "failed"} => Gone',
         h = "order" /\ handler'[h].pc = "read" =>
           (jobs'[handler'[h].job].pending => Gone')
  PROVE  GoneInv'
<1>1. \A g \in Named : handler'[g].pc \in {"dns", "failed"} => Gone'
  <2>1. ASSUME NEW g \in Named \ {h}, handler'[g].pc \in {"dns", "failed"}
        PROVE  Gone'
    <3>1. Gone  BY <2>1 DEF AloneInv, GoneInv, Others
    <3> QED  BY <3>1 DEF KeepsGone
  <2> QED  BY <2>1
<1>2. \A j \in Job : jobs'[j].step = "removing_dns" => Gone'
  <2>1. \A j \in Job : jobs'[j].step = "removing_dns" => Gone
    BY DEF AloneInv, GoneInv, KeepsGone
  <2> QED  BY <2>1 DEF KeepsGone
<1>3. handler'["order"].pc = "read" =>
        (jobs'[handler'["order"].job].pending => Gone')
  <2>1. CASE h = "order"  BY <2>1
  <2>2. CASE h # "order"
    <3>1. "order" \in Named /\ handler'["order"] = handler["order"]
      BY <2>2 DEF Others, Named
    <3>2. handler["order"].pc = "read" => handler["order"].job \in Ordered
      BY <3>1, Works DEF AloneInv
    <3>3. handler["order"].pc = "read" =>
            (jobs'[handler["order"].job].pending =>
               jobs[handler["order"].job].pending)
      BY <3>2 DEF KeepsGone
    <3>4. Gone => Gone'  BY DEF KeepsGone
    <3>5. handler["order"].pc = "read" =>
            (jobs[handler["order"].job].pending => Gone)
      BY DEF AloneInv, GoneInv
    <3> QED  BY <3>1, <3>3, <3>4, <3>5
  <2> QED  BY <2>1, <2>2
<1> QED  BY <1>1, <1>2, <1>3 DEF GoneInv, KeepsGone

(* Nothing of this changes when jobs, node and edge do not.                *)
LEMMA KeepsByFrame ==
  ASSUME AloneInv, UNCHANGED <<node, jobs, cleaned>>
  PROVE  KeepsGone
<1>1. node' = node /\ jobs' = jobs
  OBVIOUS
<1>2. cleaned => cleaned'
  OBVIOUS
<1>3. ~node.credential => ~node'.credential
  BY <1>1
<1>4. Gone => Gone'
  BY <1>2, <1>3 DEF Gone
<1>5. node'.state = "removed" => ~node'.credential
  BY <1>1 DEF AloneInv, GoneInv
<1>6. \A j \in Ordered : jobs'[j].pending => jobs[j].pending
  BY <1>1
<1>7. \A j \in Job : jobs'[j].step = "removing_dns" => jobs[j].step = "removing_dns"
  BY <1>1
<1> QED  BY <1>4, <1>5, <1>6, <1>7 DEF KeepsGone

(* No handler moves: a step of the agent, the helper or the environment.   *)
LEMMA StillAlone ==
  ASSUME AloneInv, JobInv', KeepsGone, UNCHANGED handler
  PROVE  AloneInv'
<1>1. "report" \in Named /\ Others("report") /\ Alone("report")
  BY DEF AloneInv, JobInv, TypeOK, CallOK, Others, Alone, Issuer, Named
<1>2. handler'["report"].pc \in {"dns", "failed"} => Gone
  BY <1>1 DEF AloneInv, GoneInv
<1>3. handler'["report"].pc \in {"dns", "failed"} => Gone'
  BY <1>2 DEF KeepsGone
<1>4. GoneInv'  BY <1>1, <1>3, GoneKept
<1>5. IssueInv'  BY <1>1, IssueKept
<1> QED  BY <1>4, <1>5 DEF AloneInv
------------------------------------------------------------------------------
(* AloneInv is preserved: steps of a handler *)

(* A step of handler h that changes nothing else.                          *)
LEMMA OnlyHandlerAlone ==
  ASSUME AloneInv, JobInv', NEW h \in Named, UNCHANGED <<registry, store, edge>>,
         Others(h), Alone(h),
         handler'[h].pc \in {"dns", "failed"} => Gone,
         h = "order" /\ handler'[h].pc = "read" =>
           (jobs[handler'[h].job].pending => Gone)
  PROVE  AloneInv'
<1>1. UNCHANGED <<node, jobs, cleaned>>
  BY DEF registry, store, edge
<1>2. KeepsGone  BY <1>1, KeepsByFrame
<1>3. Gone => Gone'  BY <1>2 DEF KeepsGone
<1>4. h = "order" /\ handler'[h].pc = "read" =>
        (jobs'[handler'[h].job].pending => Gone')
  BY <1>1, <1>3
<1>5. IssueInv'  BY <1>2, IssueKept
<1>6. GoneInv'  BY <1>2, <1>3, <1>4, GoneKept
<1> QED  BY <1>5, <1>6 DEF AloneInv

LEMMA OrderReadsAlone ==
  ASSUME AloneInv, JobInv', OneIssuer, OrderReads
  PROVE  AloneInv'
<1> "order" \in Named  BY DEF Named
<1>1. /\ Others("order") /\ handler["order"].pc = "idle"
      /\ \/ handler'["order"].pc = "decide"
         \/ handler'["order"].pc = "read" /\ node.state = "removed"
  <2>1. CASE Begins("order", [pc |-> "decide", job |-> 0, token |-> None,
                              silent |-> ~heard])
    <3>1. "decide" \in Place /\ 0 \in Job \cup {0} /\ (~heard) \in BOOLEAN
      BY DEF Place
    <3> QED  BY <2>1, <3>1, BeginsEffect DEF AloneInv, JobInv, OrderReads, Free
  <2>2. ASSUME NEW j \in Job, node.state = "removed",
               Begins("order", [pc |-> "read", job |-> j, token |-> None,
                                silent |-> FALSE])
        PROVE  Others("order") /\ handler'["order"].pc = "read"
    <3>1. "read" \in Place /\ j \in Job \cup {0} /\ FALSE \in BOOLEAN
      BY DEF Place
    <3> QED  BY <2>2, <3>1, BeginsEffect DEF AloneInv, JobInv
  <2> QED  BY <2>1, <2>2 DEF OrderReads, Free
<1>2. Others("order")  BY <1>1
<1>3. Alone("order")  BY FreeAlone DEF AloneInv, OrderReads
<1>4. handler'["order"].pc = "read" => Gone
  BY <1>1 DEF AloneInv, GoneInv, Gone
<1>5. handler'["order"].pc \notin {"dns", "failed"}
  BY <1>1
<1> QED  BY <1>2, <1>3, <1>4, <1>5, OnlyHandlerAlone DEF OrderReads

LEMMA OrderWritesAlone ==
  ASSUME AloneInv, JobInv', OrderWrites
  PROVE  AloneInv'
<1>1. PICK j \in Job \ Ordered, silent \in BOOLEAN :
        /\ silent = handler["order"].silent
        /\ jobs' = [jobs EXCEPT ![j] = NewJob(silent)]
        /\ node' = [state |-> IF silent THEN "removed" ELSE "decommissioning",
                    credential |-> node.credential /\ ~silent]
        /\ handler' = [handler EXCEPT !["order"].pc = "read",
                                      !["order"].job = j]
  BY DEF OrderWrites, AloneInv, JobInv, TypeOK, Call, Named
<1>2. "order" \in Named /\ Others("order") /\ handler'["order"].pc = "read"
      /\ handler'["order"].job = j /\ handler["order"].pc = "decide"
  BY <1>1 DEF Named, AloneInv, JobInv, TypeOK, Others, Call, OrderWrites
<1>3. cleaned' = cleaned  BY DEF OrderWrites, edge
<1>4. Becomes(j, NewJob(silent))  BY <1>1, NewEffect DEF AloneInv
<1>6. /\ ~node.credential => ~node'.credential
      /\ silent => ~node'.credential
  BY <1>1
<1>7. Gone => Gone'
  <2>1. cleaned => cleaned'  BY <1>3
  <2> QED  BY <1>6, <2>1 DEF Gone
<1>8. node'.state = "removed" => ~node'.credential
  <2>1. ~silent => node'.state # "removed"  BY <1>1
  <2> QED  BY <1>6, <2>1
<1>9. \A i \in Ordered : jobs'[i] = jobs[i]
  BY <1>1, <1>4 DEF Becomes, Ordered
<1>10. \A i \in Job : jobs'[i].step = "removing_dns" => jobs[i].step = "removing_dns"
  BY <1>4 DEF Becomes, NewJob
<1>11. KeepsGone
  BY <1>7, <1>8, <1>9, <1>10 DEF KeepsGone
<1>12. handler'["order"].pc = "read" =>
         (jobs'[handler'["order"].job].pending => Gone')
  <2>1. jobs'[j].pending => silent  BY <1>4 DEF Becomes, NewJob
  <2> QED  BY <1>2, <1>6, <2>1 DEF Gone
<1>13. Alone("order")  BY <1>2 DEF Alone
<1>14. IssueInv'  BY <1>2, <1>13, IssueKept
<1>15. GoneInv'  BY <1>2, <1>11, <1>12, GoneKept
<1> QED  BY <1>14, <1>15 DEF AloneInv

LEMMA OrderRereadsAlone ==
  ASSUME AloneInv, JobInv', OrderRereads
  PROVE  AloneInv'
<1> "order" \in Named  BY DEF Named
<1> DEFINE j == handler["order"].job
<1>1. PICK pc \in {"dns", "check", "answer"} :
        Goto("order", pc) /\ (pc = "dns" => jobs[j].pending)
  BY DEF OrderRereads
<1>2. Others("order") /\ handler'["order"].pc = pc
  BY <1>1, GotoEffect DEF AloneInv, JobInv, Place
<1>3. handler["order"].pc = "read"  BY DEF OrderRereads
<1>4. jobs[j].pending => Gone  BY <1>3 DEF AloneInv, GoneInv
<1>5. pc = "dns" => Gone  BY <1>1, <1>4
<1>6. Others("order") /\ Alone("order")
  BY <1>1, <1>2, <1>3 DEF Alone
<1> QED
  BY <1>1, <1>2, <1>5, <1>6, OnlyHandlerAlone DEF OrderRereads

LEMMA IssueChecksAlone ==
  ASSUME AloneInv, JobInv', NEW h \in Named, IssueChecks(h)
  PROVE  AloneInv'
<1>1. /\ Others(h) /\ handler'[h].pc \in {"answer", "write"}
      /\ handler[h].pc = "check"
  <2>1. CASE Goto(h, "answer")
    BY <2>1, GotoEffect DEF AloneInv, JobInv, Place, IssueChecks
  <2>2. CASE handler' = [handler EXCEPT ![h].pc = "answer",
                                        ![h].token = memory[handler[h].job]]
    BY <2>2 DEF AloneInv, JobInv, TypeOK, Others, Call, IssueChecks
  <2>3. ASSUME NEW t \in Token,
               handler' = [handler EXCEPT ![h].pc = "write", ![h].token = t]
        PROVE  Others(h) /\ handler'[h].pc = "write"
    BY <2>3 DEF AloneInv, JobInv, TypeOK, Others, Call
  <2> QED  BY <2>1, <2>2, <2>3 DEF IssueChecks
<1>2. UNCHANGED <<node, jobs, cleaned>>
  BY DEF IssueChecks, registry, edge
<1>3. KeepsGone  BY <1>2, KeepsByFrame
<1>4. Others(h) /\ Alone(h)  BY <1>1 DEF Alone
<1>5. IssueInv'  BY <1>3, <1>4, IssueKept
<1>6. GoneInv'  BY <1>1, <1>3, GoneKept
<1> QED  BY <1>5, <1>6 DEF AloneInv

(* The handler that stores is the only one: the order is not about to read *)
(* that a job is pending.                                                  *)
LEMMA IssueWritesAlone ==
  ASSUME AloneInv, JobInv', NEW h \in Named, IssueWrites(h)
  PROVE  AloneInv'
<1> DEFINE j == handler[h].job
<1>1. j \in Ordered /\ j \in Job /\ handler[h].pc = "write" /\ h \in Issuer
  BY Works DEF IssueWrites, AloneInv, JobInv, CallOK, Issuer, Named
<1>2. UNCHANGED <<node, cleaned>>
  BY DEF IssueWrites, registry, edge
<1>3. PICK row \in JobRow : Becomes(j, row) /\ row.step = "cleaning_remote"
  BY WriteEffect DEF AloneInv
<1>4. Others(h) /\ handler'[h].pc = "remember"
  BY GotoEffect DEF IssueWrites, AloneInv, JobInv, Place
<1>5. \A g \in Issuer \ {h} : handler'[g].pc = "idle"
  BY <1>1, <1>4 DEF AloneInv, IssueInv, Others, Issuer, Named
<1>6. IssueInv'
  BY <1>4, <1>5 DEF IssueInv
<1>7. \A i \in Job : jobs'[i].step = "removing_dns" => jobs[i].step = "removing_dns"
  BY <1>3 DEF Becomes
<1>8. node' = node /\ (Gone => Gone')
  <2>1. ~node.credential => ~node'.credential  BY <1>2
  <2>2. cleaned => cleaned'  BY <1>2
  <2> QED  BY <1>2, <2>1, <2>2 DEF Gone
<1>9. \A g \in Named : handler'[g].pc \in {"dns", "failed"} => Gone'
  BY <1>4, <1>8 DEF AloneInv, GoneInv, Others
<1>10. handler'["order"].pc # "read"
  BY <1>4, <1>5 DEF Issuer
<1>11. node'.state = "removed" => ~node'.credential
  BY <1>8 DEF AloneInv, GoneInv
<1>12. GoneInv'
  BY <1>7, <1>8, <1>9, <1>10, <1>11 DEF AloneInv, GoneInv
<1> QED  BY <1>6, <1>12 DEF AloneInv

LEMMA IssueRemembersAlone ==
  ASSUME AloneInv, JobInv', NEW h \in Named, IssueRemembers(h)
  PROVE  AloneInv'
<1>1. Others(h) /\ handler'[h].pc = "answer" /\ handler[h].pc = "remember"
  BY GotoEffect DEF IssueRemembers, AloneInv, JobInv, Place
<1>2. UNCHANGED <<node, jobs, cleaned>>
  BY DEF IssueRemembers, registry, edge
<1>3. KeepsGone  BY <1>2, KeepsByFrame
<1>4. Alone(h)  BY <1>1 DEF Alone
<1>5. IssueInv'  BY <1>1, <1>4, IssueKept
<1>6. GoneInv'  BY <1>1, <1>3, GoneKept
<1> QED  BY <1>5, <1>6 DEF AloneInv

LEMMA AnswersAlone ==
  ASSUME AloneInv, JobInv', NEW h \in Named, Answers(h)
  PROVE  AloneInv'
<1>1. Others(h) /\ handler'[h].pc = "idle"
  BY EndsEffect DEF Answers, AloneInv, JobInv
<1>2. Others(h) /\ Alone(h)  BY <1>1 DEF Alone, Answers
<1> QED  BY <1>1, <1>2, OnlyHandlerAlone DEF Answers

LEMMA RetryAlone ==
  ASSUME AloneInv, JobInv', OneIssuer, NEW j \in Job, Retry(j)
  PROVE  AloneInv'
<1> "retry" \in Named  BY DEF Named
<1>1. PICK pc \in {"dns", "check"} :
        /\ Begins("retry", [pc |-> pc, job |-> j, token |-> None,
                            silent |-> FALSE])
        /\ pc = "dns" => jobs[j].step = "removing_dns"
  BY DEF Retry
<1>2. pc \in Place /\ j \in Job \cup {0} /\ FALSE \in BOOLEAN
  BY <1>1 DEF Place
<1>3. Others("retry") /\ handler'["retry"].pc = pc
  BY <1>1, <1>2, BeginsEffect DEF AloneInv, JobInv
<1>4. handler'["retry"].pc = "dns" => Gone
  BY <1>1, <1>3 DEF AloneInv, GoneInv
<1>5. Others("retry")  BY <1>1, <1>3 DEF Retry, Free
<1>6. Alone("retry")  BY FreeAlone DEF AloneInv, Retry
<1> QED
  BY <1>1, <1>3, <1>4, <1>5, <1>6, OnlyHandlerAlone DEF Retry

LEMMA PollAsksAlone ==
  ASSUME AloneInv, JobInv', OneIssuer, PollAsks
  PROVE  AloneInv'
<1> "poll" \in Named  BY DEF Named
<1>1. PICK j \in Ordered, pc \in {"check", "answer"} :
        Begins("poll", [pc |-> pc, job |-> j, token |-> memory[j],
                        silent |-> FALSE])
  BY DEF PollAsks, Latest
<1>2. /\ j \in Job \cup {0} /\ pc \in Place /\ FALSE \in BOOLEAN
      /\ memory[j] \in Token \cup {None}
  BY <1>1 DEF Place, Ordered, AloneInv, JobInv, TypeOK
<1>3. Others("poll") /\ handler'["poll"].pc = pc
  BY <1>1, <1>2, BeginsEffect DEF AloneInv, JobInv
<1>4. UNCHANGED <<node, jobs, cleaned>>
  BY DEF PollAsks, registry, store
<1>5. KeepsGone  BY <1>4, KeepsByFrame
<1>6. Others("poll")  BY <1>1, <1>3 DEF PollAsks, Free
<1>7. Alone("poll")  BY FreeAlone DEF AloneInv, PollAsks
<1>8. IssueInv'  BY <1>5, <1>6, <1>7, IssueKept
<1>9. GoneInv'  BY <1>1, <1>3, <1>5, GoneKept
<1> QED  BY <1>8, <1>9 DEF AloneInv

LEMMA PollAnsweredAlone ==
  ASSUME AloneInv, JobInv', PollAnswered
  PROVE  AloneInv'
<1> "poll" \in Named  BY DEF Named
<1>1. Others("poll") /\ handler'["poll"].pc = "idle"
  BY EndsEffect DEF PollAnswered, AloneInv, JobInv
<1>2. UNCHANGED <<node, jobs, cleaned>>
  BY DEF PollAnswered, registry, store
<1>3. KeepsGone  BY <1>2, KeepsByFrame
<1>4. Others("poll") /\ Alone("poll")
  BY <1>1 DEF Alone, PollAnswered
<1>5. IssueInv'  BY <1>3, <1>4, IssueKept
<1>6. GoneInv'  BY <1>1, <1>3, GoneKept
<1> QED  BY <1>5, <1>6 DEF AloneInv

LEMMA DnsStepAlone ==
  ASSUME AloneInv, JobInv', NEW h \in Named, DnsStep(h)
  PROVE  AloneInv'
<1>1. /\ Others(h) /\ handler'[h].pc \in {"marked", "failed"}
      /\ handler[h].pc = "dns"
  BY GotoEffect DEF DnsStep, AloneInv, JobInv, Place
<1>2. UNCHANGED <<node, jobs, cleaned>>  BY DEF DnsStep, store, edge
<1>3. KeepsGone  BY <1>2, KeepsByFrame
<1>4. Others(h) /\ Alone(h)  BY <1>1 DEF Alone
<1>5. IssueInv'  BY <1>3, <1>4, IssueKept
<1>6. Gone  BY <1>1 DEF AloneInv, GoneInv
<1>7. Gone'  BY <1>3, <1>6 DEF KeepsGone
<1>8. GoneInv'  BY <1>1, <1>3, <1>7, GoneKept
<1> QED  BY <1>5, <1>8 DEF AloneInv

LEMMA DnsFailedAlone ==
  ASSUME AloneInv, JobInv', NEW h \in Named, DnsFailed(h)
  PROVE  AloneInv'
<1> DEFINE j == handler[h].job
<1>1. j \in Ordered /\ j \in Job /\ handler[h].pc = "failed"
  BY Works DEF DnsFailed, AloneInv
<1>2. /\ jobs' \in [Job -> JobRow] /\ jobs'[j].token = jobs[j].token
      /\ \A i \in Job \ {j} : jobs'[i] = jobs[i]
  <2>1. PICK row \in JobRow : Becomes(j, row) /\ row.token = jobs[j].token
    BY <1>1, FailedEffect DEF DnsFailed, AloneInv
  <2> QED  BY <2>1 DEF Becomes
<1>3. jobs'[j].pending = jobs[j].pending
  BY <1>1 DEF DnsFailed, MarkedFailed, AloneInv, JobInv, TypeOK, JobRow
<1>4. node' = node /\ cleaned' = cleaned
  BY DEF DnsFailed, registry, edge
<1>5. Others(h) /\ handler'[h].pc = "idle"
  BY EndsEffect DEF DnsFailed, AloneInv, JobInv
<1>6. Gone  BY <1>1 DEF AloneInv, GoneInv
<1>7. Gone'
  <2>1. ~node.credential => ~node'.credential  BY <1>4
  <2>2. cleaned => cleaned'  BY <1>4
  <2> QED  BY <1>6, <2>1, <2>2 DEF Gone
<1>9. \A i \in Ordered : jobs'[i].pending => jobs[i].pending
  BY <1>2, <1>3 DEF Ordered
<1>10. node'.state = "removed" => ~node'.credential
  BY <1>4 DEF AloneInv, GoneInv
<1>11. KeepsGone  BY <1>6, <1>7, <1>9, <1>10 DEF KeepsGone
<1>12. Others(h) /\ Alone(h)  BY <1>1, <1>5 DEF Alone
<1>13. IssueInv'  BY <1>12, IssueKept
<1>14. GoneInv'  BY <1>5, <1>11, GoneKept
<1> QED  BY <1>13, <1>14 DEF AloneInv

(* A row that is no longer, or not newly, marked as removing its record.   *)
RowKeeps(j) ==
  /\ jobs' \in [Job -> JobRow]
  /\ jobs'[j].pending => jobs[j].pending
  /\ jobs'[j].step # "removing_dns"
  /\ \A i \in Job \ {j} : jobs'[i] = jobs[i]

LEMMA RowKeepsAll ==
  ASSUME AloneInv, NEW j \in Job, RowKeeps(j), UNCHANGED node,
         cleaned => cleaned'
  PROVE  KeepsGone
<1>1. \A i \in Ordered : jobs'[i].pending => jobs[i].pending
  BY DEF RowKeeps, Ordered
<1>2. \A i \in Job : jobs'[i].step = "removing_dns" => jobs[i].step = "removing_dns"
  BY DEF RowKeeps
<1>3. ~node.credential => ~node'.credential  OBVIOUS
<1>4. Gone => Gone'  BY <1>3 DEF Gone
<1>5. node'.state = "removed" => ~node'.credential
  BY DEF AloneInv, GoneInv
<1> QED  BY <1>1, <1>2, <1>4, <1>5 DEF KeepsGone

LEMMA DnsDeletedAlone ==
  ASSUME AloneInv, JobInv', NEW h \in Named, DnsDeleted(h)
  PROVE  AloneInv'
<1> DEFINE j == handler[h].job
<1>1. j \in Ordered /\ j \in Job /\ handler[h].pc = "marked"
  BY Works DEF DnsDeleted, AloneInv
<1>2. RowKeeps(j)
  BY <1>1, DoneEffect DEF DnsDeleted, AloneInv, RowKeeps, Becomes
<1>3. UNCHANGED <<node, cleaned>>
  BY DEF DnsDeleted, registry, edge
<1>4. KeepsGone
  BY <1>1, <1>2, <1>3, RowKeepsAll
<1>5. Others(h) /\ handler'[h].pc \in {"idle", "finish"}
  <2>1. CASE Goto(h, "finish")
    BY <2>1, GotoEffect DEF AloneInv, JobInv, Place
  <2>2. CASE Ends(h)
    BY <2>2, EndsEffect DEF AloneInv, JobInv
  <2> QED  BY <2>1, <2>2 DEF DnsDeleted
<1>6. Others(h) /\ Alone(h)  BY <1>1, <1>5 DEF Alone
<1>7. IssueInv'  BY <1>4, <1>6, IssueKept
<1>8. GoneInv'  BY <1>4, <1>5, GoneKept
<1> QED  BY <1>7, <1>8 DEF AloneInv

LEMMA ReportFinishesAlone ==
  ASSUME AloneInv, JobInv', ReportFinishes
  PROVE  AloneInv'
<1> DEFINE j == handler["report"].job
<1> "report" \in Named  BY DEF Named
<1>1. j \in Ordered /\ j \in Job /\ handler["report"].pc = "finish"
  BY Works DEF ReportFinishes, AloneInv
<1>2. RowKeeps(j)
  BY FinishEffect DEF AloneInv, RowKeeps, Becomes
<1>3. node' = [state |-> "removed", credential |-> FALSE]
  BY DEF ReportFinishes
<1>4. ~node'.credential  BY <1>3
<1>5. Gone'  BY <1>4 DEF Gone
<1>7. \A i \in Ordered : jobs'[i].pending => jobs[i].pending
  BY <1>2 DEF RowKeeps, Ordered
<1>8. KeepsGone
  BY <1>2, <1>4, <1>5, <1>7 DEF KeepsGone, RowKeeps
<1>9. Others("report") /\ handler'["report"].pc = "forget"
  BY GotoEffect DEF ReportFinishes, AloneInv, JobInv, Place
<1>10. Others("report") /\ Alone("report")
  BY <1>1, <1>9 DEF Alone
<1>11. IssueInv'  BY <1>10, IssueKept
<1>12. GoneInv'  BY <1>8, <1>9, GoneKept
<1> QED  BY <1>11, <1>12 DEF AloneInv

LEMMA ReportForgetsAlone ==
  ASSUME AloneInv, JobInv', ReportForgets
  PROVE  AloneInv'
<1> "report" \in Named  BY DEF Named
<1>1. node' = node /\ jobs' = jobs /\ cleaned' = cleaned
      /\ handler["report"].pc = "forget"
  BY DEF ReportForgets, registry, edge
<1>2. Others("report") /\ handler'["report"].pc = "idle"
  BY EndsEffect DEF ReportForgets, AloneInv, JobInv
<1>4. Gone => Gone'
  <2>1. ~node.credential => ~node'.credential  BY <1>1
  <2>2. cleaned => cleaned'  BY <1>1
  <2> QED  BY <2>1, <2>2 DEF Gone
<1>5. \A i \in Ordered : jobs'[i].pending => jobs[i].pending
  BY <1>1
<1>6. KeepsGone
  BY <1>1, <1>4, <1>5 DEF KeepsGone, AloneInv, GoneInv
<1>7. Others("report") /\ Alone("report")
  BY <1>1, <1>2 DEF Alone
<1>8. IssueInv'  BY <1>7, IssueKept
<1>9. GoneInv'  BY <1>2, <1>6, GoneKept
<1> QED  BY <1>8, <1>9 DEF AloneInv

LEMMA ReportReadsAlone ==
  ASSUME AloneInv, JobInv', NEW t \in Token, ReportReads(t)
  PROVE  AloneInv'
<1> "report" \in Named  BY DEF Named
<1> DEFINE j == issued[t]
<1>1. j \in Job \cup {0} /\ cleaned
  BY DEF ReportReads, AloneInv, JobInv, ReportOK, TypeOK
<1>2. UNCHANGED <<node, jobs, cleaned>>
  BY DEF ReportReads, registry, store
<1>3. KeepsGone  BY <1>2, KeepsByFrame
<1>4. CASE UNCHANGED handler
  BY <1>3, <1>4, StillAlone
<1>5. CASE Begins("report", [pc |-> "dns", job |-> j, token |-> t,
                             silent |-> FALSE])
  <2>1. "dns" \in Place /\ t \in Token \cup {None} /\ FALSE \in BOOLEAN
    BY DEF Place
  <2>2. Others("report") /\ handler'["report"].pc = "dns"
    BY <1>1, <1>5, <2>1, BeginsEffect DEF AloneInv, JobInv
  <2>3. Others("report") /\ Alone("report")
    BY <2>2 DEF Alone, ReportReads, Free, Issuer
  <2>4. Gone  BY <1>1 DEF Gone
  <2>5. Gone'  BY <1>3, <2>4 DEF KeepsGone
  <2>6. IssueInv'  BY <1>3, <2>3, IssueKept
  <2>7. GoneInv'  BY <1>3, <2>2, <2>5, GoneKept
  <2> QED  BY <2>6, <2>7 DEF AloneInv
<1> QED  BY <1>4, <1>5 DEF ReportReads

------------------------------------------------------------------------------
(* AloneInv is preserved: the agent, the helper and the environment *)

LEMMA AgentAcceptsAlone ==
  ASSUME AloneInv, JobInv', AgentAccepts
  PROVE  AloneInv'
<1>1. UNCHANGED <<node, cleaned, handler>> /\ agent.pc = "accept"
  BY DEF AgentAccepts, registry
<1>2. CASE UNCHANGED jobs
  BY <1>1, <1>2, KeepsByFrame, StillAlone
<1>3. CASE jobs' = [jobs EXCEPT ![agent.job].accepted = TRUE,
                                ![agent.job].step = "cleaning_remote"]
  <2>1. agent.job \in Ordered /\ agent.job \in Job
    BY <1>1 DEF AloneInv, JobInv, AgentOK, Ordered
  <2>2. RowKeeps(agent.job)
    BY <1>3, <2>1, AcceptEffect DEF AloneInv, RowKeeps, Becomes
  <2>3. KeepsGone
    BY <1>1, <2>1, <2>2, RowKeepsAll
  <2> QED  BY <1>1, <2>3, StillAlone
<1> QED  BY <1>2, <1>3 DEF AgentAccepts

LEMMA HelperCleansAlone ==
  ASSUME AloneInv, JobInv', NEW t \in Token, HelperCleans(t)
  PROVE  AloneInv'
<1>1. node' = node /\ jobs' = jobs /\ UNCHANGED handler
  BY DEF HelperCleans, registry, store
<1>2. Gone'  BY DEF HelperCleans, Gone
<1>4. \A i \in Ordered : jobs'[i].pending => jobs[i].pending
  BY <1>1
<1>5. KeepsGone
  BY <1>1, <1>2, <1>4 DEF KeepsGone, AloneInv, GoneInv
<1> QED  BY <1>1, <1>5, StillAlone

LEMMA RestartAlone ==
  ASSUME AloneInv, JobInv', Restart
  PROVE  AloneInv'
<1>1. node' = node /\ jobs' = jobs /\ cleaned' = cleaned
  BY DEF Restart, registry
<1>2. \A h \in Named : handler'[h].pc = "idle"
  BY DEF Restart, Idle
<1>3. IssueInv'
  BY <1>2 DEF IssueInv, Issuer, Named
<1>4. Gone => Gone'
  <2>1. ~node.credential => ~node'.credential  BY <1>1
  <2>2. cleaned => cleaned'  BY <1>1
  <2> QED  BY <2>1, <2>2 DEF Gone
<1>5. "order" \in Named  BY DEF Named
<1>6. GoneInv'
  BY <1>1, <1>2, <1>4, <1>5 DEF AloneInv, GoneInv
<1> QED  BY <1>3, <1>6 DEF AloneInv

------------------------------------------------------------------------------
(* The invariant of one issuer at a time *)

LEMMA InitAlone == Init => AloneInv
<1> SUFFICES ASSUME Init PROVE AloneInv  OBVIOUS
<1>1. JobInv  BY InitJob
<1>2. \A h \in Named : handler[h].pc = "idle"
  BY DEF Init, Idle
<1>3. \A j \in Job : jobs[j].step = "cleaning_remote"
  BY DEF Init, NoJob
<1>4. IssueInv
  BY <1>2 DEF IssueInv, Issuer, Named
<1>5. "order" \in Named /\ node.state = "enrolled"
  BY DEF Named, Init
<1>6. GoneInv  BY <1>2, <1>3, <1>5 DEF GoneInv
<1> QED  BY <1>1, <1>4, <1>6 DEF AloneInv

LEMMA NextAlone == OneIssuer /\ AloneInv /\ [Next]_vars => AloneInv'
<1> SUFFICES ASSUME OneIssuer, AloneInv, [Next]_vars PROVE AloneInv'
  OBVIOUS
<1>1. JobInv'  BY NextJob DEF AloneInv
<1>2. ASSUME UNCHANGED <<node, jobs, cleaned, handler>>
      PROVE  AloneInv'
  BY <1>1, <1>2, KeepsByFrame, StillAlone
<1>3. CASE UNCHANGED vars
  BY <1>2, <1>3 DEF vars, registry, store, edge
<1>4. CASE OrderReads \/ \E j \in Job : Retry(j)
  BY <1>1, <1>4, OrderReadsAlone, RetryAlone
<1>5. CASE Controller
  BY <1>1, <1>5, OrderWritesAlone, OrderRereadsAlone, ReportFinishesAlone,
     ReportForgetsAlone, PollAnsweredAlone, IssueChecksAlone, IssueWritesAlone,
     IssueRemembersAlone, AnswersAlone, DnsStepAlone, DnsFailedAlone,
     DnsDeletedAlone
  DEF Controller, Issue, Dns
<1>6. CASE Agent
  <2>1. CASE AgentVerifies \/ AgentStarts
    BY <1>2, <2>1 DEF AgentVerifies, AgentStarts, registry, store
  <2> QED
    BY <1>1, <1>6, <2>1, PollAsksAlone, AgentAcceptsAlone DEF Agent
<1>7. CASE Helper
  BY <1>1, <1>7, HelperCleansAlone, ReportReadsAlone DEF Helper
<1>8. CASE Fault
  <2>1. CASE Silence
    BY <1>2, <2>1 DEF Silence, store, edge
  <2>2. CASE PollLost \/ AgentRestarts
    BY <1>2, <2>2 DEF PollLost, AgentRestarts, registry, store
  <2>3. ASSUME NEW t \in Token, Expire(t) \/ ReportLost(t)
        PROVE  AloneInv'
    BY <1>2, <2>3 DEF Expire, ReportLost, registry, store, edge
  <2> QED  BY <1>1, <1>8, <2>1, <2>2, <2>3, RestartAlone DEF Fault
<1> QED  BY <1>3, <1>4, <1>5, <1>6, <1>7, <1>8 DEF Next

------------------------------------------------------------------------------
(* The protocol implements NodeRemoval *)

Removes == [Removal!NNext]_(Removal!nvars)

(* A step that NodeRemoval does not see.                                   *)
LEMMA UnseenStep ==
  ASSUME UNCHANGED <<node, record, cleaned>>,
         UNCHANGED jobs \/ (Ordered # {} /\ Ordered' # {})
  PROVE  Removes
<1>1. (Ordered # {})' = (Ordered # {})
  BY DEF Ordered
<1> QED  BY <1>1 DEF Removes, Removal!nvars

LEMMA StillOrdered ==
  ASSUME JobInv, NEW j \in Ordered, NEW row, Becomes(j, row)
  PROVE  Ordered # {} /\ Ordered' # {}
<1>1. j \in Ordered'  BY DEF Becomes, Ordered
<1> QED  BY <1>1

LEMMA OrderWritesRemoves == ASSUME JobInv, OrderWrites PROVE Removes
<1>1. PICK j \in Job \ Ordered, silent \in BOOLEAN :
        /\ jobs' = [jobs EXCEPT ![j] = NewJob(silent)]
        /\ node' = [state |-> IF silent THEN "removed" ELSE "decommissioning",
                    credential |-> node.credential /\ ~silent]
  BY DEF OrderWrites, JobInv, TypeOK, Call, Named
<1>2. (Ordered # {})'
  <2>1. j \in Ordered'  BY <1>1, NewEffect DEF Becomes, Ordered
  <2> QED  BY <2>1
<1>3. cleaned' = cleaned /\ record' = record
  BY DEF OrderWrites, edge
<1>4. CASE silent
  <2>1. node'.credential = FALSE  BY <1>1, <1>4
  <2> QED  BY <1>2, <1>3, <2>1 DEF Removes, Removal!NNext, Removal!Abandon
<1>5. CASE ~silent
  <2>1. node'.credential = node.credential
    BY <1>1, <1>5 DEF JobInv, TypeOK
  <2> QED  BY <1>2, <1>3, <2>1 DEF Removes, Removal!NNext, Removal!Order
<1> QED  BY <1>4, <1>5

LEMMA DnsStepRemoves ==
  ASSUME AloneInv, NEW h \in Named, DnsStep(h)
  PROVE  Removes
<1>1. UNCHANGED <<node, jobs, cleaned>> /\ handler[h].pc = "dns"
  BY DEF DnsStep, store, edge
<1>2. CASE record' = FALSE
  <2>1. Gone  BY <1>1 DEF AloneInv, GoneInv
  <2>2. (Ordered # {})' = (Ordered # {})  BY <1>1 DEF Ordered
  <2>3. node'.credential = node.credential  BY <1>1
  <2> QED
    BY <1>1, <1>2, <2>1, <2>2, <2>3
    DEF Removes, Removal!NNext, Removal!DeleteRecord, Gone
<1>3. CASE UNCHANGED record
  BY <1>1, <1>3, UnseenStep
<1> QED  BY <1>2, <1>3 DEF DnsStep

LEMMA HelperCleansRemoves ==
  ASSUME JobInv, NEW t \in Token, HelperCleans(t)
  PROVE  Removes
<1>1. /\ node' = node /\ record' = record /\ jobs' = jobs
      /\ helper[t] = "cleaning"
  BY DEF HelperCleans, registry, store
<1>2. cleaned' = TRUE  BY DEF HelperCleans
<1>3. issued[t] \in Job /\ issued[t] \in Ordered
  BY <1>1 DEF JobInv, TokenOK, TypeOK, Ordered
<1>4. Ordered # {} /\ (Ordered # {})' = (Ordered # {})
  BY <1>1, <1>3 DEF Ordered
<1>5. node'.credential = node.credential  BY <1>1
<1> QED
  BY <1>1, <1>2, <1>4, <1>5 DEF Removes, Removal!NNext, Removal!Clean

LEMMA ReportFinishesRemoves == ASSUME JobInv, ReportFinishes PROVE Removes
<1> DEFINE j == handler["report"].job
<1>1. j \in Ordered /\ handler["report"].pc = "finish"
  BY Works DEF ReportFinishes, Named
<1>2. node'.credential = FALSE /\ cleaned' = cleaned /\ record' = record
  BY DEF ReportFinishes, edge
<1>3. Ordered # {} /\ Ordered' # {}
  BY <1>1, FinishEffect, StillOrdered
<1>4. (Ordered # {})' = (Ordered # {})  BY <1>3
<1>5. cleaned /\ ~record  BY <1>1 DEF JobInv, ReportOK
<1> QED
  BY <1>2, <1>4, <1>5 DEF Removes, Removal!NNext, Removal!Finish

LEMMA NextRemoves == AloneInv /\ [Next]_vars => Removes
<1> SUFFICES ASSUME AloneInv, [Next]_vars PROVE Removes
  OBVIOUS
<1>1. JobInv  BY DEF AloneInv
<1>2. ASSUME UNCHANGED <<node, record, jobs, cleaned>> PROVE Removes
  BY <1>2, UnseenStep
<1>3. ASSUME UNCHANGED <<node, record, cleaned>>,
             NEW j \in Ordered, NEW row, Becomes(j, row)
      PROVE  Removes
  BY <1>1, <1>3, StillOrdered, UnseenStep
<1>4. CASE UNCHANGED vars
  BY <1>2, <1>4 DEF vars, registry, store, edge
<1>5. CASE OrderReads \/ \E j \in Job : Retry(j)
  BY <1>2, <1>5 DEF OrderReads, Retry, registry, store, edge
<1>6. CASE Controller
  <2>1. CASE OrderRereads \/ ReportForgets \/ PollAnswered
    BY <1>2, <2>1
    DEF OrderRereads, ReportForgets, PollAnswered, registry, store, edge
  <2>2. ASSUME NEW h \in Named,
               IssueChecks(h) \/ IssueRemembers(h) \/ Answers(h)
        PROVE  Removes
    BY <1>2, <2>2
    DEF IssueChecks, IssueRemembers, Answers, registry, store, edge
  <2>3. ASSUME NEW h \in Named, IssueWrites(h) PROVE Removes
    BY <1>1, <1>3, <2>3, Works, WriteEffect DEF IssueWrites, registry, edge
  <2>4. ASSUME NEW h \in Named, DnsFailed(h) PROVE Removes
    BY <1>1, <1>3, <2>4, Works, FailedEffect DEF DnsFailed, registry, edge
  <2>5. ASSUME NEW h \in Named, DnsDeleted(h) PROVE Removes
    BY <1>1, <1>3, <2>5, Works, DoneEffect DEF DnsDeleted, registry, edge
  <2> QED
    BY <1>1, <1>6, <2>1, <2>2, <2>3, <2>4, <2>5, OrderWritesRemoves,
       ReportFinishesRemoves, DnsStepRemoves
    DEF Controller, Issue, Dns
<1>7. CASE Agent
  <2>1. CASE PollAsks \/ AgentVerifies \/ AgentStarts
    BY <1>2, <2>1 DEF PollAsks, AgentVerifies, AgentStarts, registry, store
  <2>2. CASE AgentAccepts
    <3>1. UNCHANGED <<node, record, cleaned>> /\ agent.pc = "accept"
      BY <2>2 DEF AgentAccepts, registry
    <3>2. agent.job \in Ordered  BY <1>1, <3>1 DEF JobInv, AgentOK
    <3>3. CASE UNCHANGED jobs  BY <1>2, <3>1, <3>3
    <3>4. CASE jobs' = [jobs EXCEPT ![agent.job].accepted = TRUE,
                                    ![agent.job].step = "cleaning_remote"]
      BY <1>1, <1>3, <3>1, <3>2, <3>4, AcceptEffect
    <3> QED  BY <2>2, <3>3, <3>4 DEF AgentAccepts
  <2> QED  BY <1>7, <2>1, <2>2 DEF Agent
<1>8. CASE Helper
  <2>1. ASSUME NEW t \in Token, ReportReads(t) PROVE Removes
    BY <1>2, <2>1 DEF ReportReads, registry, store
  <2> QED  BY <1>1, <1>8, <2>1, HelperCleansRemoves DEF Helper
<1>9. CASE Fault
  <2>1. CASE Silence \/ Restart \/ PollLost \/ AgentRestarts
    BY <1>2, <2>1
    DEF Silence, Restart, PollLost, AgentRestarts, registry, store, edge
  <2>2. ASSUME NEW t \in Token, Expire(t) \/ ReportLost(t) PROVE Removes
    BY <1>2, <2>2 DEF Expire, ReportLost, registry, store, edge
  <2> QED  BY <1>9, <2>1, <2>2 DEF Fault
<1> QED  BY <1>4, <1>5, <1>6, <1>7, <1>8, <1>9 DEF Next

LEMMA InitRemoves == Init => Removal!NInit
<1> SUFFICES ASSUME Init PROVE Removal!NInit  OBVIOUS
<1>1. Ordered = {}  BY DEF Init, NoJob, Ordered
<1> QED  BY <1>1 DEF Init, Removal!NInit

(* When no two of order, poll and retry overlap, the protocol does what    *)
(* NodeRemoval promises: the edge is only cleaned on order, and its DNS    *)
(* record only deleted when it is clean or given up.                       *)
THEOREM Implementation == OneIssuer => (Spec => ImplementsRemoval)
<1> SUFFICES ASSUME OneIssuer PROVE Spec => ImplementsRemoval
  OBVIOUS
<1>1. AloneInv /\ [Next]_vars => AloneInv'  BY NextAlone
<1>2. AloneInv /\ [Next]_vars => [Removal!NNext]_(Removal!nvars)
  BY NextRemoves DEF Removes
<1> QED
  BY <1>1, <1>2, InitAlone, InitRemoves, PTL
  DEF Spec, ImplementsRemoval, Removal!NSpec
=============================================================================
