------------------------- MODULE Publication_proofs -------------------------
(***************************************************************************)
(* Theorems about Publication, for any lines, any requests and any number  *)
(* and kind of failures: what is on an edge is accounted for by the rows,  *)
(* a route becomes public only when both edges serve it, and one failure   *)
(* leaves every server that is reported as configured served.              *)
(*                                                                         *)
(* The invariants are layers, each an invariant by those before it:        *)
(*   ShapeInv     types, which steps a handler of each kind has left, what *)
(*                it holds there, and which command the agent carries out  *)
(*   CallInv      a call that was sent is queued, carried out or answered, *)
(*                once                                                     *)
(*   AccountedInv Accounted, what the rows say at each step of a handler,  *)
(*                and which of them it may go back to                      *)
(*   ServedInv    from a first publication to its commit: what is on the   *)
(*                edges, and what the agent may still do to them           *)
(*   AloneInv     when nothing overlaps, what a handler has read is what   *)
(*                is stored                                                *)
(*   UnfailedInv  before the first failure: what is on the edges at every  *)
(*                step                                                     *)
(*   OneInv       after one: what the failure may have left, and what the  *)
(*                handler still has to do about it                         *)
(***************************************************************************)
EXTENDS Publication, SequenceTheorems, TLAPS

-----------------------------------------------------------------------------
\* Types, and where a handler can be

(* What a handler of each kind may have left to do.                        *)
RenodeOnly == <<"renode">>
RenodeThenRecord == <<"renode", "record">>

PublishTodos ==
  {FirstPublication, <<"stage", "call", "commit", "settle", "verify">>,
   <<"call", "commit", "settle", "verify">>,
   <<"commit", "settle", "verify">>, <<"settle", "verify">>, <<"verify">>,
   <<"recall", "redrop", "record">>, <<"redrop", "record">>, <<"record">>}

RefreshTodos ==
  {<<"mark", "call", "settle", "verify">>, <<"call", "settle", "verify">>,
   <<"settle", "verify">>, <<"verify">>, <<"record">>}

UpdateTodos ==
  {<<"retarget", "mark", "reline", "call", "settle">>,
   <<"mark", "reline", "call", "settle">>, <<"reline", "call", "settle">>,
   <<"call", "settle">>, <<"settle">>, RenodeOnly, RenodeThenRecord,
   <<"record">>, RestoreLines, <<"reroute", "remark", "recall", "record">>,
   <<"remark", "recall", "record">>, <<"recall", "record">>}

CleanupTodos ==
  {<<"call", "drop", "settle">>, <<"drop", "settle">>, <<"settle">>}

SweepTodos ==
  {<<"drop", "settle">>, <<"settle">>}

UnpublishTodos ==
  {<<"mark", "call", "drop", "settle">>, <<"call", "drop", "settle">>,
   <<"drop", "settle">>, <<"settle">>, <<"record">>}

NormalizeTodos ==
  {<<"settle">>}

CanaryTodos ==
  {<<"verify">>}

Todos ==
  [publish |-> PublishTodos, refresh |-> RefreshTodos, update |-> UpdateTodos,
   cleanup |-> CleanupTodos, sweep |-> SweepTodos, unpublish |-> UnpublishTodos,
   normalize |-> NormalizeTodos, canary |-> CanaryTodos]

(* The next step of a handler is one of these.                             *)
Ahead(steps) == handler.todo # <<>> /\ Head(handler.todo) \in steps
Doing(kind, steps) == handler.kind = kind /\ Ahead(steps)

HandlerOK ==
  /\ handler.kind = "none" => handler = NoHandler
  /\ handler.kind # "none" => handler.todo \in Todos[handler.kind]
  /\ handler.kind \in {"publish", "update"} => handler.plan \in Lines
  /\ handler.kind \in {"refresh", "update", "unpublish"} => handler.row \in Row
  /\ handler.kind = "update" => handler.was \in Lines /\ route \in Route
  /\ Doing("publish", {"redrop", "record"}) => handler.row \in Row
  /\ handler.sent => Ahead({"call", "recall", "verify"})

AgentOK ==
  /\ agent.do = "idle" => agent = Idle
  /\ agent.do # "idle" => agent.new \in Fragment
  /\ agent.do \in {"update", "restore"} => agent.old \in Fragment
  /\ agent.at \in {"probe", "store"} => agent.do = "update"
  /\ agent.at = "undo" => agent.do \in {"publish", "update", "restore"}

ConsoleOK ==
  /\ console.do \in {"save", "tag"} => console.next \in Lines
  /\ console.do = "delete" => console.next = None

ShapeInv == TypeOK /\ HandlerOK /\ AgentOK /\ ConsoleOK

-----------------------------------------------------------------------------
\* The lists of steps

(* A list that is not empty, and begins with this step.                    *)
Leads(todo, step) == todo # <<>> /\ Head(todo) = step

(* The first step of a list, and the others.                              *)
LEMMA PublishHeads1 ==
  /\ Leads(<<"mark", "stage", "call", "commit", "settle", "verify">>, "mark")
  /\ Tail(<<"mark", "stage", "call", "commit", "settle", "verify">>) =
        <<"stage", "call", "commit", "settle", "verify">>
  /\ Leads(<<"stage", "call", "commit", "settle", "verify">>, "stage")
  /\ Tail(<<"stage", "call", "commit", "settle", "verify">>) =
        <<"call", "commit", "settle", "verify">>
  /\ Leads(<<"call", "commit", "settle", "verify">>, "call")
  /\ Tail(<<"call", "commit", "settle", "verify">>) =
        <<"commit", "settle", "verify">>
  /\ Leads(<<"commit", "settle", "verify">>, "commit")
  /\ Tail(<<"commit", "settle", "verify">>) = <<"settle", "verify">>
BY DEF Leads

LEMMA PublishHeads2 ==
  /\ Leads(<<"settle", "verify">>, "settle")
  /\ Tail(<<"settle", "verify">>) = <<"verify">>
  /\ Leads(<<"verify">>, "verify")
  /\ Tail(<<"verify">>) = <<>>
  /\ Leads(<<"recall", "redrop", "record">>, "recall")
  /\ Tail(<<"recall", "redrop", "record">>) = <<"redrop", "record">>
  /\ Leads(<<"redrop", "record">>, "redrop")
  /\ Tail(<<"redrop", "record">>) = <<"record">>
BY DEF Leads

LEMMA PublishHeads3 ==
  /\ Leads(<<"record">>, "record")
  /\ Tail(<<"record">>) = <<>>
BY DEF Leads

LEMMA RefreshHeads ==
  /\ Leads(<<"mark", "call", "settle", "verify">>, "mark")
  /\ Tail(<<"mark", "call", "settle", "verify">>) =
        <<"call", "settle", "verify">>
  /\ Leads(<<"call", "settle", "verify">>, "call")
  /\ Tail(<<"call", "settle", "verify">>) = <<"settle", "verify">>
BY DEF Leads

LEMMA UpdateHeads1 ==
  /\ Leads(<<"retarget", "mark", "reline", "call", "settle">>, "retarget")
  /\ Tail(<<"retarget", "mark", "reline", "call", "settle">>) =
        <<"mark", "reline", "call", "settle">>
  /\ Leads(<<"mark", "reline", "call", "settle">>, "mark")
  /\ Tail(<<"mark", "reline", "call", "settle">>) =
        <<"reline", "call", "settle">>
  /\ Leads(<<"reline", "call", "settle">>, "reline")
  /\ Tail(<<"reline", "call", "settle">>) = <<"call", "settle">>
  /\ Leads(<<"call", "settle">>, "call")
  /\ Tail(<<"call", "settle">>) = <<"settle">>
BY DEF Leads

LEMMA UpdateHeads2 ==
  /\ Leads(<<"settle">>, "settle")
  /\ Tail(<<"settle">>) = <<>>
  /\ Leads(<<"renode">>, "renode")
  /\ Tail(<<"renode">>) = <<>>
  /\ Leads(<<"renode", "record">>, "renode")
  /\ Tail(<<"renode", "record">>) = <<"record">>
  /\ Leads(<<"renode", "reroute", "remark", "recall", "record">>, "renode")
  /\ Tail(<<"renode", "reroute", "remark", "recall", "record">>) =
        <<"reroute", "remark", "recall", "record">>
BY DEF Leads

LEMMA UpdateHeads3 ==
  /\ Leads(<<"reroute", "remark", "recall", "record">>, "reroute")
  /\ Tail(<<"reroute", "remark", "recall", "record">>) =
        <<"remark", "recall", "record">>
  /\ Leads(<<"remark", "recall", "record">>, "remark")
  /\ Tail(<<"remark", "recall", "record">>) = <<"recall", "record">>
  /\ Leads(<<"recall", "record">>, "recall")
  /\ Tail(<<"recall", "record">>) = <<"record">>
BY DEF Leads

LEMMA CleanupHeads ==
  /\ Leads(<<"call", "drop", "settle">>, "call")
  /\ Tail(<<"call", "drop", "settle">>) = <<"drop", "settle">>
  /\ Leads(<<"drop", "settle">>, "drop")
  /\ Tail(<<"drop", "settle">>) = <<"settle">>
BY DEF Leads

LEMMA UnpublishHeads ==
  /\ Leads(<<"mark", "call", "drop", "settle">>, "mark")
  /\ Tail(<<"mark", "call", "drop", "settle">>) = <<"call", "drop", "settle">>
BY DEF Leads

LEMMA PublishRoad ==
  ASSUME NEW todo \in PublishTodos
  PROVE  \/ Leads(todo, "mark") /\ Leads(Tail(todo), "stage") /\ Tail(todo) \in PublishTodos
         \/ Leads(todo, "stage") /\ Leads(Tail(todo), "call") /\ Tail(todo) \in PublishTodos
         \/ Leads(todo, "call") /\ Leads(Tail(todo), "commit") /\ Tail(todo) \in PublishTodos
         \/ Leads(todo, "commit") /\ Leads(Tail(todo), "settle") /\ Tail(todo) \in PublishTodos
         \/ Leads(todo, "settle") /\ Leads(Tail(todo), "verify") /\ Tail(todo) \in PublishTodos
         \/ Leads(todo, "verify") /\ Tail(todo) = <<>>
         \/ Leads(todo, "recall") /\ Leads(Tail(todo), "redrop") /\ Tail(todo) \in PublishTodos
         \/ Leads(todo, "redrop") /\ Leads(Tail(todo), "record") /\ Tail(todo) \in PublishTodos
         \/ Leads(todo, "record") /\ Tail(todo) = <<>>
BY PublishHeads1, PublishHeads2, PublishHeads3 DEF PublishTodos, FirstPublication

LEMMA RefreshRoad ==
  ASSUME NEW todo \in RefreshTodos
  PROVE  \/ Leads(todo, "mark") /\ Leads(Tail(todo), "call") /\ Tail(todo) \in RefreshTodos
         \/ Leads(todo, "call") /\ Leads(Tail(todo), "settle") /\ Tail(todo) \in RefreshTodos
         \/ Leads(todo, "settle") /\ Leads(Tail(todo), "verify") /\ Tail(todo) \in RefreshTodos
         \/ Leads(todo, "verify") /\ Tail(todo) = <<>>
         \/ Leads(todo, "record") /\ Tail(todo) = <<>>
BY PublishHeads2, PublishHeads3, RefreshHeads DEF RefreshTodos

LEMMA CleanupRoad ==
  ASSUME NEW todo \in CleanupTodos
  PROVE  \/ Leads(todo, "call") /\ Leads(Tail(todo), "drop") /\ Tail(todo) \in CleanupTodos
         \/ Leads(todo, "drop") /\ Leads(Tail(todo), "settle") /\ Tail(todo) \in CleanupTodos
         \/ Leads(todo, "settle") /\ Tail(todo) = <<>>
BY CleanupHeads, UpdateHeads2 DEF CleanupTodos

LEMMA SweepRoad ==
  ASSUME NEW todo \in SweepTodos
  PROVE  \/ Leads(todo, "drop") /\ Leads(Tail(todo), "settle") /\ Tail(todo) \in SweepTodos
         \/ Leads(todo, "settle") /\ Tail(todo) = <<>>
BY CleanupHeads, UpdateHeads2 DEF SweepTodos

LEMMA UnpublishRoad ==
  ASSUME NEW todo \in UnpublishTodos
  PROVE  \/ Leads(todo, "mark") /\ Leads(Tail(todo), "call") /\ Tail(todo) \in UnpublishTodos
         \/ Leads(todo, "call") /\ Leads(Tail(todo), "drop") /\ Tail(todo) \in UnpublishTodos
         \/ Leads(todo, "drop") /\ Leads(Tail(todo), "settle") /\ Tail(todo) \in UnpublishTodos
         \/ Leads(todo, "settle") /\ Tail(todo) = <<>>
         \/ Leads(todo, "record") /\ Tail(todo) = <<>>
BY CleanupHeads, UpdateHeads2, PublishHeads3, UnpublishHeads DEF UnpublishTodos

LEMMA UpdateRoad ==
  ASSUME NEW todo \in UpdateTodos
  PROVE  \/ Leads(todo, "retarget") /\ Leads(Tail(todo), "mark") /\ Tail(todo) \in UpdateTodos
         \/ Leads(todo, "mark") /\ Leads(Tail(todo), "reline") /\ Tail(todo) \in UpdateTodos
         \/ Leads(todo, "reline") /\ Leads(Tail(todo), "call") /\ Tail(todo) \in UpdateTodos
         \/ Leads(todo, "call") /\ Leads(Tail(todo), "settle") /\ Tail(todo) \in UpdateTodos
         \/ Leads(todo, "settle") /\ Tail(todo) = <<>>
         \/ todo = RenodeOnly /\ Leads(todo, "renode") /\ Tail(todo) = <<>>
         \/ /\ todo = RenodeThenRecord /\ Leads(todo, "renode")
            /\ Leads(Tail(todo), "record") /\ Tail(todo) \in UpdateTodos
         \/ /\ todo = RestoreLines /\ Leads(todo, "renode")
            /\ Leads(Tail(todo), "reroute") /\ Tail(todo) \in UpdateTodos
         \/ Leads(todo, "reroute") /\ Leads(Tail(todo), "remark") /\ Tail(todo) \in UpdateTodos
         \/ Leads(todo, "remark") /\ Leads(Tail(todo), "recall") /\ Tail(todo) \in UpdateTodos
         \/ Leads(todo, "recall") /\ Leads(Tail(todo), "record") /\ Tail(todo) \in UpdateTodos
         \/ Leads(todo, "record") /\ Tail(todo) = <<>>
<1>1. CASE todo \in {<<"retarget", "mark", "reline", "call", "settle">>,
                    <<"mark", "reline", "call", "settle">>, <<"reline", "call", "settle">>,
                    <<"call", "settle">>}
  BY <1>1, UpdateHeads1, UpdateHeads2 DEF UpdateTodos
<1>2. CASE todo \in {<<"settle">>, RenodeOnly, RenodeThenRecord}
  BY <1>2, UpdateHeads2, PublishHeads3 DEF UpdateTodos, RenodeOnly, RenodeThenRecord
<1>3. CASE todo = RestoreLines
  BY <1>3, UpdateHeads2, UpdateHeads3 DEF UpdateTodos, RestoreLines
<1>4. CASE todo \in {<<"reroute", "remark", "recall", "record">>,
                    <<"remark", "recall", "record">>, <<"recall", "record">>, <<"record">>}
  BY <1>4, UpdateHeads3, PublishHeads3 DEF UpdateTodos
<1>. QED  BY <1>1, <1>2, <1>3, <1>4 DEF UpdateTodos

(* The lists of renode are three.                                          *)
LEMMA ThreeRenodes ==
  /\ RenodeOnly # RenodeThenRecord /\ RenodeOnly # RestoreLines
  /\ RenodeThenRecord # RestoreLines
BY UpdateHeads2 DEF RenodeOnly, RenodeThenRecord, RestoreLines, Leads

(* Every list is one of steps, and so is what is left of it.               *)
LEMMA TodosFacts ==
  ASSUME NEW kind \in Kind, NEW todo \in Todos[kind]
  PROVE  /\ todo \in Seq(Step) /\ todo # <<>> /\ Head(todo) \in Step
         /\ Tail(todo) # <<>> => Tail(todo) \in Todos[kind]
<1>1. PublishTodos \subseteq Seq(Step) /\ RefreshTodos \subseteq Seq(Step)
  BY DEF PublishTodos, RefreshTodos, FirstPublication, Step
<1>2. UpdateTodos \subseteq Seq(Step)
  BY DEF UpdateTodos, RenodeOnly, RenodeThenRecord, RestoreLines, Step
<1>3. CleanupTodos \subseteq Seq(Step) /\ SweepTodos \subseteq Seq(Step)
      /\ UnpublishTodos \subseteq Seq(Step) /\ NormalizeTodos \subseteq Seq(Step)
      /\ CanaryTodos \subseteq Seq(Step)
  BY DEF CleanupTodos, SweepTodos, UnpublishTodos, NormalizeTodos, CanaryTodos, Step
<1>4. todo \in Seq(Step)
  BY <1>1, <1>2, <1>3 DEF Kind, Todos
<1>5. CASE kind = "publish"
  BY <1>4, <1>5, PublishRoad DEF Todos, Leads, Step
<1>6. CASE kind = "refresh"
  BY <1>4, <1>6, RefreshRoad DEF Todos, Leads, Step
<1>7. CASE kind = "update"
  BY <1>4, <1>7, UpdateRoad DEF Todos, Leads, Step
<1>8. CASE kind = "cleanup"
  BY <1>4, <1>8, CleanupRoad DEF Todos, Leads, Step
<1>9. CASE kind = "sweep"
  BY <1>4, <1>9, SweepRoad DEF Todos, Leads, Step
<1>10. CASE kind = "unpublish"
  BY <1>4, <1>10, UnpublishRoad DEF Todos, Leads, Step
<1>11. CASE kind = "normalize"
  BY <1>4, <1>11, UpdateHeads2 DEF Todos, NormalizeTodos, Step, Leads
<1>12. CASE kind = "canary"
  BY <1>4, <1>12, PublishHeads2 DEF Todos, CanaryTodos, Step, Leads
<1>. QED  BY <1>5, <1>6, <1>7, <1>8, <1>9, <1>10, <1>11, <1>12 DEF Kind

-----------------------------------------------------------------------------
\* The steps of a handler

(* None is not a value of any type.                                        *)
LEMMA NoneFacts ==
  None \notin Lines /\ None \notin Fragment /\ None \notin Row /\ None \notin Route
  /\ None \notin Answer
BY NoneAssumption

(* The handler goes on with a list that begins with this step.             *)
Turns(step, row) ==
  /\ handler' \in Handler /\ handler'.kind = handler.kind
  /\ handler'.todo \in Todos[handler.kind] /\ Leads(handler'.todo, step)
  /\ handler'.plan = handler.plan /\ handler'.was = handler.was /\ handler'.row = row
  /\ ~handler'.sent /\ handler'.cancelled = handler.cancelled

LEMMA GoesFacts ==
  ASSUME handler \in Handler, handler.kind \in Kind, NEW todo, NEW row \in Row \cup {None},
         Goes(todo, row)
  PROVE  /\ todo = <<>> => handler' = NoHandler
         /\ todo \in Todos[handler.kind] => handler'.todo = todo /\ Turns(Head(todo), row)
<1>1. CASE todo = <<>>
  <2>1. todo \notin Todos[handler.kind]
    BY <1>1, TodosFacts
  <2>. QED  BY <1>1, <2>1 DEF Goes
<1>2. CASE todo # <<>> /\ todo \in Todos[handler.kind]
  <2>. DEFINE next == [handler EXCEPT !.todo = todo, !.row = row, !.sent = FALSE]
  <2>1. todo \in Seq(Step)
    BY <1>2, TodosFacts
  <2>2. next \in Handler /\ next.kind = handler.kind /\ next.todo = todo
        /\ next.plan = handler.plan /\ next.was = handler.was /\ next.row = row
        /\ ~next.sent /\ next.cancelled = handler.cancelled
    BY <2>1 DEF Handler
  <2>3. handler' = next
    BY <1>2 DEF Goes
  <2>. HIDE DEF next
  <2>. QED  BY <1>2, <2>2, <2>3 DEF Turns, Leads
<1>. QED  BY <1>1, <1>2

(* A handler that is at a step is of a kind, and its list begins so.       *)
LEMMA HandlerFacts ==
  ASSUME ShapeInv, handler.kind # "none"
  PROVE  /\ handler \in Handler /\ handler.kind \in Kind /\ handler.todo \in Todos[handler.kind]
         /\ handler.row \in Row \cup {None} /\ handler.plan \in Lines \cup {None}
         /\ handler.was \in Lines \cup {None} /\ handler.sent \in BOOLEAN
         /\ handler.cancelled \in BOOLEAN /\ handler.todo # <<>>
<1>1. handler \in Handler /\ handler.todo \in Todos[handler.kind]
  BY DEF ShapeInv, TypeOK, HandlerOK
<1>2. handler.kind \in Kind
  BY <1>1 DEF Handler
<1>3. handler.todo # <<>>
  BY <1>1, <1>2, TodosFacts
<1>. QED  BY <1>1, <1>2, <1>3 DEF Handler

LEMMA AtFacts ==
  ASSUME ShapeInv, NEW step, At(step)
  PROVE  handler.kind # "none" /\ Ahead({step}) /\ ~handler.sent
<1>1. handler.kind = "none" => handler.todo = <<>>
  BY DEF ShapeInv, HandlerOK, NoHandler
<1>. QED  BY <1>1 DEF At, Ahead

(* Where a publish goes on, and where it turns to.                         *)
LEMMA PublishGoes ==
  ASSUME ShapeInv, handler.kind = "publish", NEW row \in Row \cup {None}
  PROVE  /\ Ahead({"mark", "stage", "call", "commit", "settle", "verify",
                   "recall", "redrop", "record"})
         /\ Goes(Tail(handler.todo), row) =>
              /\ Ahead({"mark"}) => Turns("stage", row)
              /\ Ahead({"stage"}) => Turns("call", row)
              /\ Ahead({"call"}) => Turns("commit", row)
              /\ Ahead({"commit"}) => Turns("settle", row)
              /\ Ahead({"settle"}) => Turns("verify", row)
              /\ Ahead({"recall"}) => Turns("redrop", row)
              /\ Ahead({"redrop"}) => Turns("record", row)
              /\ Ahead({"verify", "record"}) => handler' = NoHandler
         /\ Diverts(row) =>
              /\ Ahead({"mark", "verify", "recall", "redrop", "record"}) => handler' = NoHandler
              /\ Ahead({"stage"}) => Turns("record", row)
              /\ Ahead({"call", "commit", "settle"}) => Turns("recall", row)
<1>. DEFINE todo == handler.todo
<1>1. todo \in PublishTodos /\ handler \in Handler /\ handler.kind \in Kind
      /\ Todos[handler.kind] = PublishTodos
  BY HandlerFacts DEF Todos
<1>2. ASSUME Goes(Tail(todo), row)
      PROVE  /\ Tail(todo) = <<>> => handler' = NoHandler
             /\ Tail(todo) \in PublishTodos => Turns(Head(Tail(todo)), row)
  BY <1>1, <1>2, GoesFacts
<1>3. ASSUME Diverts(row)
      PROVE  /\ Ahead({"mark", "verify", "recall", "redrop", "record"}) => handler' = NoHandler
             /\ Ahead({"stage"}) => Turns("record", row)
             /\ Ahead({"call", "commit", "settle"}) => Turns("recall", row)
  <2>1. CASE Ahead({"mark", "verify", "recall", "redrop", "record"})
    <3>1. Undo(handler.kind, Head(todo)) = <<>>
      BY <2>1 DEF Undo, Ahead
    <3>. QED  BY <1>1, <1>3, <2>1, <3>1, GoesFacts DEF Diverts, Ahead
  <2>2. CASE Ahead({"stage"})
    <3>1. Undo(handler.kind, Head(todo)) = <<"record">>
      BY <2>2 DEF Undo, Ahead
    <3>2. <<"record">> \in PublishTodos
      BY DEF PublishTodos
    <3>. QED  BY <1>1, <1>3, <2>2, <3>1, <3>2, GoesFacts, PublishHeads3 DEF Diverts, Ahead, Leads
  <2>3. CASE Ahead({"call", "commit", "settle"})
    <3>1. Undo(handler.kind, Head(todo)) = <<"recall", "redrop", "record">>
      BY <2>3 DEF Undo, Ahead
    <3>2. <<"recall", "redrop", "record">> \in PublishTodos
      BY DEF PublishTodos
    <3>. QED  BY <1>1, <1>3, <2>3, <3>1, <3>2, GoesFacts, PublishHeads2 DEF Diverts, Ahead, Leads
  <2>. QED  BY <2>1, <2>2, <2>3
<1>. QED  BY <1>1, <1>2, <1>3, PublishRoad DEF Leads, Ahead

LEMMA RefreshGoes ==
  ASSUME ShapeInv, handler.kind = "refresh", NEW row \in Row \cup {None}
  PROVE  /\ Ahead({"mark", "call", "settle", "verify", "record"})
         /\ Goes(Tail(handler.todo), row) =>
              /\ Ahead({"mark"}) => Turns("call", row)
              /\ Ahead({"call"}) => Turns("settle", row)
              /\ Ahead({"settle"}) => Turns("verify", row)
              /\ Ahead({"verify", "record"}) => handler' = NoHandler
         /\ Diverts(row) =>
              /\ Ahead({"mark", "settle", "verify", "record"}) => handler' = NoHandler
              /\ Ahead({"call"}) => Turns("record", row)
<1>. DEFINE todo == handler.todo
<1>1. todo \in RefreshTodos /\ handler \in Handler /\ handler.kind \in Kind
      /\ Todos[handler.kind] = RefreshTodos
  BY HandlerFacts DEF Todos
<1>2. ASSUME Goes(Tail(todo), row)
      PROVE  /\ Tail(todo) = <<>> => handler' = NoHandler
             /\ Tail(todo) \in RefreshTodos => Turns(Head(Tail(todo)), row)
  BY <1>1, <1>2, GoesFacts
<1>3. ASSUME Diverts(row)
      PROVE  /\ Ahead({"mark", "settle", "verify", "record"}) => handler' = NoHandler
             /\ Ahead({"call"}) => Turns("record", row)
  <2>1. CASE Ahead({"mark", "settle", "verify", "record"})
    <3>1. Undo(handler.kind, Head(todo)) = <<>>
      BY <2>1 DEF Undo, Ahead
    <3>. QED  BY <1>1, <1>3, <2>1, <3>1, GoesFacts DEF Diverts, Ahead
  <2>2. CASE Ahead({"call"})
    <3>1. Undo(handler.kind, Head(todo)) = <<"record">>
      BY <2>2 DEF Undo, Ahead
    <3>2. <<"record">> \in RefreshTodos
      BY DEF RefreshTodos
    <3>. QED  BY <1>1, <1>3, <2>2, <3>1, <3>2, GoesFacts, PublishHeads3 DEF Diverts, Ahead, Leads
  <2>. QED  BY <2>1, <2>2
<1>. QED  BY <1>1, <1>2, <1>3, RefreshRoad DEF Leads, Ahead

LEMMA UpdateGoes ==
  ASSUME ShapeInv, handler.kind = "update", NEW row \in Row \cup {None}
  PROVE  /\ Ahead({"retarget", "mark", "reline", "call", "settle",
                   "renode", "reroute", "remark", "recall", "record"})
         /\ Ahead({"renode"}) => handler.todo \in {RenodeOnly, RenodeThenRecord, RestoreLines}
         /\ Goes(Tail(handler.todo), row) =>
              /\ Ahead({"retarget"}) => Turns("mark", row)
              /\ Ahead({"mark"}) => Turns("reline", row)
              /\ Ahead({"reline"}) => Turns("call", row)
              /\ Ahead({"call"}) => Turns("settle", row)
              /\ Ahead({"settle", "record"}) => handler' = NoHandler
              /\ handler.todo = RenodeOnly => handler' = NoHandler
              /\ handler.todo = RenodeThenRecord => Turns("record", row)
              /\ handler.todo = RestoreLines => Turns("reroute", row)
              /\ Ahead({"reroute"}) => Turns("remark", row)
              /\ Ahead({"remark"}) => Turns("recall", row)
              /\ Ahead({"recall"}) => Turns("record", row)
         /\ Diverts(row) =>
              /\ Ahead({"retarget"}) => handler' = NoHandler
              /\ Ahead({"mark"}) => Turns("renode", row) /\ handler'.todo = RenodeOnly
              /\ Ahead({"reline"}) => Turns("renode", row) /\ handler'.todo = RenodeThenRecord
              /\ Ahead({"call", "settle"}) => Turns("renode", row) /\ handler'.todo = RestoreLines
<1>. DEFINE todo == handler.todo
<1>1. todo \in UpdateTodos /\ handler \in Handler /\ handler.kind \in Kind
      /\ Todos[handler.kind] = UpdateTodos
  BY HandlerFacts DEF Todos
<1>2. ASSUME Goes(Tail(todo), row)
      PROVE  /\ Tail(todo) = <<>> => handler' = NoHandler
             /\ Tail(todo) \in UpdateTodos => Turns(Head(Tail(todo)), row)
  BY <1>1, <1>2, GoesFacts
<1>3. ASSUME Diverts(row)
      PROVE  /\ Ahead({"retarget"}) => handler' = NoHandler
             /\ Ahead({"mark"}) => Turns("renode", row) /\ handler'.todo = RenodeOnly
             /\ Ahead({"reline"}) => Turns("renode", row) /\ handler'.todo = RenodeThenRecord
             /\ Ahead({"call", "settle"}) => Turns("renode", row) /\ handler'.todo = RestoreLines
  <2>1. /\ RenodeOnly \in UpdateTodos /\ Head(RenodeOnly) = "renode"
        /\ RenodeThenRecord \in UpdateTodos /\ Head(RenodeThenRecord) = "renode"
        /\ RestoreLines \in UpdateTodos /\ Head(RestoreLines) = "renode"
    BY UpdateHeads2 DEF UpdateTodos, RenodeOnly, RenodeThenRecord, RestoreLines, Leads
  <2>2. CASE Ahead({"retarget"})
    <3>1. Undo(handler.kind, Head(todo)) = <<>>
      BY <2>2 DEF Undo, Ahead
    <3>. QED  BY <1>1, <1>3, <2>2, <3>1, GoesFacts DEF Diverts, Ahead
  <2>3. CASE Ahead({"mark"})
    <3>1. Undo(handler.kind, Head(todo)) = RenodeOnly
      BY <2>3 DEF Undo, Ahead, RenodeOnly
    <3>. QED  BY <1>1, <1>3, <2>1, <2>3, <3>1, GoesFacts DEF Diverts, Ahead
  <2>4. CASE Ahead({"reline"})
    <3>1. Undo(handler.kind, Head(todo)) = RenodeThenRecord
      BY <2>4 DEF Undo, Ahead, RenodeThenRecord
    <3>. QED  BY <1>1, <1>3, <2>1, <2>4, <3>1, GoesFacts DEF Diverts, Ahead
  <2>5. CASE Ahead({"call", "settle"})
    <3>1. Undo(handler.kind, Head(todo)) = RestoreLines
      BY <2>5 DEF Undo, Ahead
    <3>. QED  BY <1>1, <1>3, <2>1, <2>5, <3>1, GoesFacts DEF Diverts, Ahead
  <2>. QED  BY <2>2, <2>3, <2>4, <2>5
<1>4. /\ Ahead({"retarget", "mark", "reline", "call", "settle",
                "renode", "reroute", "remark", "recall", "record"})
      /\ Ahead({"renode"}) => todo \in {RenodeOnly, RenodeThenRecord, RestoreLines}
  BY <1>1, UpdateRoad DEF Leads, Ahead
<1>5. ASSUME Goes(Tail(todo), row)
      PROVE  /\ Ahead({"retarget"}) => Turns("mark", row)
             /\ Ahead({"mark"}) => Turns("reline", row)
             /\ Ahead({"reline"}) => Turns("call", row)
             /\ Ahead({"call"}) => Turns("settle", row)
             /\ Ahead({"settle", "record"}) => handler' = NoHandler
             /\ Ahead({"reroute"}) => Turns("remark", row)
             /\ Ahead({"remark"}) => Turns("recall", row)
             /\ Ahead({"recall"}) => Turns("record", row)
  BY <1>1, <1>2, <1>5, UpdateRoad DEF Leads, Ahead
<1>6. ASSUME Goes(Tail(todo), row)
      PROVE  /\ todo = RenodeOnly => handler' = NoHandler
             /\ todo = RenodeThenRecord => Turns("record", row)
             /\ todo = RestoreLines => Turns("reroute", row)
  <2>1. /\ Tail(RenodeOnly) = <<>> /\ Tail(RenodeThenRecord) = <<"record">>
        /\ Tail(RestoreLines) = <<"reroute", "remark", "recall", "record">>
    BY UpdateHeads2 DEF RenodeOnly, RenodeThenRecord, RestoreLines
  <2>2. <<"record">> \in UpdateTodos /\ <<"reroute", "remark", "recall", "record">> \in UpdateTodos
    BY DEF UpdateTodos
  <2>3. Head(<<"record">>) = "record" /\ Head(<<"reroute", "remark", "recall", "record">>) = "reroute"
    BY PublishHeads3, UpdateHeads3 DEF Leads
  <2>. QED  BY <1>2, <1>6, <2>1, <2>2, <2>3
<1>. QED  BY <1>3, <1>4, <1>5, <1>6

LEMMA CleanupGoes ==
  ASSUME ShapeInv, handler.kind \in {"cleanup", "sweep", "normalize"}, NEW row \in Row \cup {None}
  PROVE  /\ handler.kind = "cleanup" => Ahead({"call", "drop", "settle"})
         /\ handler.kind = "sweep" => Ahead({"drop", "settle"})
         /\ handler.kind = "normalize" => Ahead({"settle"})
         /\ Goes(Tail(handler.todo), row) =>
              /\ Ahead({"call"}) => Turns("drop", row)
              /\ Ahead({"drop"}) => Turns("settle", row)
              /\ Ahead({"settle"}) => handler' = NoHandler
         /\ Diverts(row) => handler' = NoHandler
<1>. DEFINE todo == handler.todo
<1>1. todo \in Todos[handler.kind] /\ handler \in Handler /\ handler.kind \in Kind
  BY HandlerFacts
<1>2. ASSUME Goes(Tail(todo), row)
      PROVE  /\ Tail(todo) = <<>> => handler' = NoHandler
             /\ Tail(todo) \in Todos[handler.kind] => Turns(Head(Tail(todo)), row)
  BY <1>1, <1>2, GoesFacts
<1>3. ASSUME Diverts(row) PROVE handler' = NoHandler
  <2>1. Undo(handler.kind, Head(todo)) = <<>>
    BY DEF Undo
  <2>. QED  BY <1>1, <1>3, <2>1, GoesFacts DEF Diverts
<1>4. CASE handler.kind = "cleanup"
  BY <1>1, <1>2, <1>3, <1>4, CleanupRoad DEF Leads, Ahead, Todos
<1>5. CASE handler.kind = "sweep"
  BY <1>1, <1>2, <1>3, <1>5, SweepRoad DEF Leads, Ahead, Todos
<1>6. CASE handler.kind = "normalize"
  <2>1. todo = <<"settle">>
    BY <1>1, <1>6 DEF Todos, NormalizeTodos
  <2>2. Ahead({"settle"}) /\ Head(todo) = "settle" /\ Tail(todo) = <<>>
    BY <2>1, UpdateHeads2 DEF Leads, Ahead
  <2>. QED  BY <1>2, <1>3, <1>6, <2>2 DEF Ahead
<1>. QED  BY <1>4, <1>5, <1>6

LEMMA UnpublishGoes ==
  ASSUME ShapeInv, handler.kind = "unpublish", NEW row \in Row \cup {None}
  PROVE  /\ Ahead({"mark", "call", "drop", "settle", "record"})
         /\ Goes(Tail(handler.todo), row) =>
              /\ Ahead({"mark"}) => Turns("call", row)
              /\ Ahead({"call"}) => Turns("drop", row)
              /\ Ahead({"drop"}) => Turns("settle", row)
              /\ Ahead({"settle", "record"}) => handler' = NoHandler
         /\ Diverts(row) =>
              /\ Ahead({"mark", "settle", "record"}) => handler' = NoHandler
              /\ Ahead({"call", "drop"}) => Turns("record", row)
<1>. DEFINE todo == handler.todo
<1>1. todo \in UnpublishTodos /\ handler \in Handler /\ handler.kind \in Kind
      /\ Todos[handler.kind] = UnpublishTodos
  BY HandlerFacts DEF Todos
<1>2. ASSUME Goes(Tail(todo), row)
      PROVE  /\ Tail(todo) = <<>> => handler' = NoHandler
             /\ Tail(todo) \in UnpublishTodos => Turns(Head(Tail(todo)), row)
  BY <1>1, <1>2, GoesFacts
<1>3. ASSUME Diverts(row)
      PROVE  /\ Ahead({"mark", "settle", "record"}) => handler' = NoHandler
             /\ Ahead({"call", "drop"}) => Turns("record", row)
  <2>1. CASE Ahead({"mark", "settle", "record"})
    <3>1. Undo(handler.kind, Head(todo)) = <<>>
      BY <2>1 DEF Undo, Ahead
    <3>. QED  BY <1>1, <1>3, <2>1, <3>1, GoesFacts DEF Diverts, Ahead
  <2>2. CASE Ahead({"call", "drop"})
    <3>1. Undo(handler.kind, Head(todo)) = <<"record">>
      BY <2>2 DEF Undo, Ahead
    <3>2. <<"record">> \in UnpublishTodos
      BY DEF UnpublishTodos
    <3>. QED  BY <1>1, <1>3, <2>2, <3>1, <3>2, GoesFacts, PublishHeads3 DEF Diverts, Ahead, Leads
  <2>. QED  BY <2>1, <2>2
<1>. QED  BY <1>1, <1>2, <1>3, UnpublishRoad DEF Leads, Ahead

LEMMA CanaryGoes ==
  ASSUME ShapeInv, handler.kind = "canary", NEW row \in Row \cup {None}
  PROVE  Ahead({"verify"}) /\ (Goes(Tail(handler.todo), row) => handler' = NoHandler)
<1>1. handler.todo = <<"verify">> /\ handler \in Handler /\ handler.kind \in Kind
  BY HandlerFacts DEF Todos, CanaryTodos
<1>2. Ahead({"verify"}) /\ Tail(handler.todo) = <<>>
  BY <1>1, PublishHeads2 DEF Ahead, Leads
<1>. QED  BY <1>1, <1>2, GoesFacts

-----------------------------------------------------------------------------
\* What each step of a handler does

(* A save that fails took place without, or is the next failure.           *)
Failing(kind) ==
  \/ handler.cancelled /\ faults' = faults
  \/ kind \in Faults /\ faults < MaxFaults /\ faults' = faults + 1

LEMMA FailingFacts ==
  SaveFails => Failing("save")
BY DEF SaveFails, Fault, Failing

LEMMA MarkSteps ==
  ASSUME ShapeInv, Mark
  PROVE  /\ handler.kind # "none" /\ Ahead({"mark"}) /\ ~handler.sent
         /\ UNCHANGED <<node, route, edges, socket, agent, console>>
         /\ \/ /\ ~handler.cancelled /\ UNCHANGED faults
               /\ \/ /\ handler.kind = "publish" /\ Turns("stage", handler.row)
                     /\ pub' = NewRow("publishing")
                  \/ /\ handler.kind = "refresh" /\ Turns("call", handler.row)
                     /\ pub' = Pending("publishing")
                  \/ /\ handler.kind = "update" /\ Turns("reline", handler.row)
                     /\ pub' = Pending("publishing")
                  \/ /\ handler.kind = "unpublish" /\ Turns("call", handler.row)
                     /\ pub' = Pending("unpublishing")
            \/ /\ Failing("save") /\ UNCHANGED pub
               /\ \/ /\ handler.kind \in {"publish", "refresh", "unpublish"}
                     /\ handler' = NoHandler
                  \/ /\ handler.kind = "update" /\ Turns("renode", handler.row)
                     /\ handler'.todo = RenodeOnly
<1>1. handler.kind # "none" /\ Ahead({"mark"}) /\ ~handler.sent
  BY AtFacts DEF Mark
<1>2. handler.row \in Row \cup {None} /\ handler.kind \in Kind
  BY <1>1, HandlerFacts
<1>3. handler.kind \in {"publish", "refresh", "update", "unpublish"}
  BY <1>1, <1>2, PublishGoes, CleanupGoes, CanaryGoes DEF Kind, Ahead
<1>4. \/ /\ Saves /\ Goes(Tail(handler.todo), handler.row)
         /\ pub' = CASE handler.kind = "publish" -> NewRow("publishing")
                     [] handler.kind = "unpublish" -> Pending("unpublishing")
                     [] OTHER -> Pending("publishing")
      \/ SaveFails /\ Diverts(handler.row) /\ UNCHANGED pub
  BY DEF Mark, Continues
<1>5. CASE /\ Saves /\ Goes(Tail(handler.todo), handler.row)
           /\ pub' = CASE handler.kind = "publish" -> NewRow("publishing")
                       [] handler.kind = "unpublish" -> Pending("unpublishing")
                       [] OTHER -> Pending("publishing")
  BY <1>1, <1>2, <1>3, <1>5, PublishGoes, RefreshGoes, UpdateGoes, UnpublishGoes DEF Saves, Mark
<1>6. CASE SaveFails /\ Diverts(handler.row) /\ UNCHANGED pub
  BY <1>1, <1>2, <1>3, <1>6, PublishGoes, RefreshGoes, UpdateGoes, UnpublishGoes, FailingFacts
     DEF Mark, Ahead
<1>. QED  BY <1>4, <1>5, <1>6

LEMMA StageSteps ==
  ASSUME ShapeInv, Stage
  PROVE  /\ handler.kind = "publish" /\ Ahead({"stage"}) /\ ~handler.sent
         /\ UNCHANGED <<node, pub, edges, socket, agent, console>>
         /\ \/ /\ ~handler.cancelled /\ UNCHANGED faults /\ Turns("call", handler.row)
               /\ route' = [lines |-> handler.plan, public |-> FALSE]
            \/ /\ Failing("save") /\ UNCHANGED route /\ Turns("record", NewRow("failed"))
<1>1. handler.kind # "none" /\ Ahead({"stage"}) /\ ~handler.sent
  BY AtFacts DEF Stage
<1>2. handler.row \in Row \cup {None} /\ handler.kind \in Kind
  BY <1>1, HandlerFacts
<1>3. handler.kind = "publish"
  BY <1>1, <1>2, RefreshGoes, UpdateGoes, CleanupGoes, UnpublishGoes, CanaryGoes DEF Kind, Ahead
<1>4. NewRow("failed") \in Row \cup {None}
  BY DEF NewRow, Row, Status
<1>5. CASE /\ Saves /\ Continues /\ route' = [lines |-> handler.plan, public |-> FALSE]
  BY <1>1, <1>2, <1>3, <1>5, PublishGoes DEF Saves, Continues, Stage
<1>6. CASE SaveFails /\ Diverts(NewRow("failed")) /\ UNCHANGED route
  BY <1>1, <1>3, <1>4, <1>6, PublishGoes, FailingFacts DEF Stage
<1>. QED  BY <1>5, <1>6 DEF Stage

LEMMA CommitSteps ==
  ASSUME ShapeInv, Commit
  PROVE  /\ handler.kind = "publish" /\ Ahead({"commit"}) /\ ~handler.sent
         /\ UNCHANGED <<node, pub, edges, socket, agent, console>>
         /\ \/ /\ ~handler.cancelled /\ UNCHANGED faults /\ Turns("settle", handler.row)
               /\ route' = [lines |-> handler.plan, public |-> TRUE]
            \/ /\ Failing("save") /\ UNCHANGED route /\ Turns("recall", handler.row)
<1>1. handler.kind # "none" /\ Ahead({"commit"}) /\ ~handler.sent
  BY AtFacts DEF Commit
<1>2. handler.row \in Row \cup {None} /\ handler.kind \in Kind
  BY <1>1, HandlerFacts
<1>3. handler.kind = "publish"
  BY <1>1, <1>2, RefreshGoes, UpdateGoes, CleanupGoes, UnpublishGoes, CanaryGoes DEF Kind, Ahead
<1>5. CASE /\ Saves /\ Continues /\ route' = [lines |-> handler.plan, public |-> TRUE]
  BY <1>1, <1>2, <1>3, <1>5, PublishGoes DEF Saves, Continues, Commit
<1>6. CASE SaveFails /\ Diverts(handler.row) /\ UNCHANGED route
  BY <1>1, <1>2, <1>3, <1>6, PublishGoes, FailingFacts DEF Commit, Ahead
<1>. QED  BY <1>5, <1>6 DEF Commit

LEMMA SettleSteps ==
  ASSUME ShapeInv, Settle
  PROVE  /\ handler.kind \in Kind \ {"canary"} /\ Ahead({"settle"}) /\ ~handler.sent
         /\ UNCHANGED <<node, route, edges, socket, agent, console>>
         /\ \/ /\ ~handler.cancelled /\ UNCHANGED faults
               /\ \/ /\ handler.kind \in {"publish", "refresh"} /\ Turns("verify", handler.row)
                     /\ pub' = NewRow("published")
                  \/ /\ handler.kind = "update" /\ handler' = NoHandler
                     /\ pub' = NewRow("published")
                  \/ /\ handler.kind \in {"cleanup", "sweep", "unpublish", "normalize"}
                     /\ handler' = NoHandler /\ pub' = NewRow("saved")
            \/ /\ Failing("save") /\ UNCHANGED pub
               /\ \/ handler.kind = "publish" /\ Turns("recall", handler.row)
                  \/ /\ handler.kind = "update" /\ Turns("renode", handler.row)
                     /\ handler'.todo = RestoreLines
                  \/ /\ handler.kind \notin {"publish", "update"} /\ handler' = NoHandler
<1>1. handler.kind # "none" /\ Ahead({"settle"}) /\ ~handler.sent
  BY AtFacts DEF Settle
<1>2. handler.row \in Row \cup {None} /\ handler.kind \in Kind
  BY <1>1, HandlerFacts
<1>3. handler.kind \in Kind \ {"canary"}
  BY <1>1, <1>2, CanaryGoes DEF Ahead
<1>4. \/ /\ Saves /\ Goes(Tail(handler.todo), handler.row)
         /\ pub' = NewRow(IF handler.kind \in {"publish", "refresh", "update"}
                          THEN "published" ELSE "saved")
      \/ SaveFails /\ Diverts(handler.row) /\ UNCHANGED pub
  BY DEF Settle, Continues
<1>5. CASE /\ Saves /\ Goes(Tail(handler.todo), handler.row)
           /\ pub' = NewRow(IF handler.kind \in {"publish", "refresh", "update"}
                            THEN "published" ELSE "saved")
  BY <1>1, <1>2, <1>3, <1>5, PublishGoes, RefreshGoes, UpdateGoes, CleanupGoes, UnpublishGoes
     DEF Saves, Settle, Kind, Ahead
<1>6. CASE SaveFails /\ Diverts(handler.row) /\ UNCHANGED pub
  BY <1>1, <1>2, <1>3, <1>6, PublishGoes, RefreshGoes, UpdateGoes, CleanupGoes, UnpublishGoes,
     FailingFacts DEF Settle, Kind, Ahead
<1>. QED  BY <1>3, <1>1, <1>4, <1>5, <1>6

LEMMA RetargetSteps ==
  ASSUME ShapeInv, Retarget
  PROVE  /\ handler.kind = "update" /\ Ahead({"retarget"}) /\ ~handler.sent
         /\ UNCHANGED <<pub, route, edges, socket, agent, console>>
         /\ \/ /\ ~handler.cancelled /\ UNCHANGED faults /\ Turns("mark", handler.row)
               /\ node' = handler.plan
            \/ /\ Failing("save") /\ handler' = NoHandler /\ node' \in {node, handler.plan}
<1>1. handler.kind # "none" /\ Ahead({"retarget"}) /\ ~handler.sent
  BY AtFacts DEF Retarget
<1>2. handler.row \in Row \cup {None} /\ handler.kind \in Kind
  BY <1>1, HandlerFacts
<1>3. handler.kind = "update"
  BY <1>1, <1>2, PublishGoes, RefreshGoes, CleanupGoes, UnpublishGoes, CanaryGoes DEF Kind, Ahead
<1>5. CASE /\ Saves /\ Continues /\ node' = handler.plan
  BY <1>1, <1>2, <1>3, <1>5, UpdateGoes DEF Saves, Continues, Retarget
<1>6. CASE SaveFails /\ Diverts(handler.row) /\ node' \in {node, handler.plan}
  BY <1>1, <1>2, <1>3, <1>6, UpdateGoes, FailingFacts DEF Retarget
<1>. QED  BY <1>5, <1>6 DEF Retarget

LEMMA RelineSteps ==
  ASSUME ShapeInv, Reline
  PROVE  /\ handler.kind = "update" /\ Ahead({"reline"}) /\ ~handler.sent
         /\ UNCHANGED <<node, pub, edges, socket, agent, console>>
         /\ \/ /\ ~handler.cancelled /\ UNCHANGED faults /\ Turns("call", handler.row)
               /\ route' = [lines |-> handler.plan, public |-> route.public]
            \/ /\ Failing("save") /\ UNCHANGED route /\ Turns("renode", handler.row)
               /\ handler'.todo = RenodeThenRecord
<1>1. handler.kind # "none" /\ Ahead({"reline"}) /\ ~handler.sent
  BY AtFacts DEF Reline
<1>2. handler.row \in Row \cup {None} /\ handler.kind \in Kind
  BY <1>1, HandlerFacts
<1>3. handler.kind = "update"
  BY <1>1, <1>2, PublishGoes, RefreshGoes, CleanupGoes, UnpublishGoes, CanaryGoes DEF Kind, Ahead
<1>5. CASE /\ Saves /\ Continues /\ route' = [lines |-> handler.plan, public |-> route.public]
  BY <1>1, <1>2, <1>3, <1>5, UpdateGoes DEF Saves, Continues, Reline
<1>6. CASE SaveFails /\ Diverts(handler.row) /\ UNCHANGED route
  BY <1>1, <1>2, <1>3, <1>6, UpdateGoes, FailingFacts DEF Reline
<1>. QED  BY <1>5, <1>6 DEF Reline

LEMMA DropSteps ==
  ASSUME ShapeInv, Drop
  PROVE  /\ handler.kind \in {"cleanup", "sweep", "unpublish"} /\ Ahead({"drop"}) /\ ~handler.sent
         /\ UNCHANGED <<node, pub, edges, socket, agent, console>>
         /\ \/ /\ ~handler.cancelled /\ UNCHANGED faults /\ Turns("settle", handler.row)
               /\ route' = None
            \/ /\ Failing("save") /\ UNCHANGED route
               /\ \/ handler.kind \in {"cleanup", "sweep"} /\ handler' = NoHandler
                  \/ /\ handler.kind = "unpublish"
                     /\ Turns("record", [NewRow("failed") EXCEPT !.clean = TRUE])
<1>1. handler.kind # "none" /\ Ahead({"drop"}) /\ ~handler.sent
  BY AtFacts DEF Drop
<1>2. handler.row \in Row \cup {None} /\ handler.kind \in Kind
  BY <1>1, HandlerFacts
<1>3. handler.kind \in {"cleanup", "sweep", "unpublish"}
  BY <1>1, <1>2, PublishGoes, RefreshGoes, UpdateGoes, CleanupGoes, CanaryGoes DEF Kind, Ahead
<1>4. [NewRow("failed") EXCEPT !.clean = TRUE] \in Row \cup {None}
  BY DEF NewRow, Row, Status
<1>5. CASE /\ Saves /\ Continues /\ route' = None
  BY <1>1, <1>2, <1>3, <1>5, CleanupGoes, UnpublishGoes DEF Saves, Continues, Drop
<1>6. CASE SaveFails /\ Diverts([NewRow("failed") EXCEPT !.clean = TRUE]) /\ UNCHANGED route
  BY <1>1, <1>3, <1>4, <1>6, CleanupGoes, UnpublishGoes, FailingFacts DEF Drop, Ahead
<1>. QED  BY <1>5, <1>6 DEF Drop

LEMMA RedropSteps ==
  ASSUME ShapeInv, Redrop
  PROVE  /\ handler.kind = "publish" /\ Ahead({"redrop"}) /\ ~handler.sent
         /\ UNCHANGED <<node, pub, edges, socket, agent, console>>
         /\ \/ /\ ~handler.cancelled /\ UNCHANGED faults /\ Turns("record", handler.row)
               /\ route' = None
            \/ /\ Failing("save") /\ UNCHANGED route
               /\ Turns("record", [handler.row EXCEPT !.status = "needs_sync"])
<1>1. handler.kind # "none" /\ Ahead({"redrop"}) /\ ~handler.sent
  BY AtFacts DEF Redrop
<1>2. handler.row \in Row \cup {None} /\ handler.kind \in Kind
  BY <1>1, HandlerFacts
<1>3. handler.kind = "publish"
  BY <1>1, <1>2, RefreshGoes, UpdateGoes, CleanupGoes, UnpublishGoes, CanaryGoes DEF Kind, Ahead
<1>4. [handler.row EXCEPT !.status = "needs_sync"] \in Row \cup {None}
  <2>1. handler.row \in Row
    BY <1>1, <1>3 DEF ShapeInv, HandlerOK, Doing, Ahead
  <2>. QED  BY <2>1 DEF Row, Status
<1>5. CASE /\ Saves /\ Continues /\ route' = None
  BY <1>1, <1>2, <1>3, <1>5, PublishGoes DEF Saves, Continues, Redrop
<1>6. CASE /\ SaveFails /\ UNCHANGED route
           /\ Goes(Tail(handler.todo), [handler.row EXCEPT !.status = "needs_sync"])
  BY <1>1, <1>3, <1>4, <1>6, PublishGoes, FailingFacts DEF Redrop
<1>. QED  BY <1>5, <1>6 DEF Redrop

LEMMA RenodeSteps ==
  ASSUME ShapeInv, Renode
  PROVE  /\ handler.kind = "update" /\ Ahead({"renode"}) /\ ~handler.sent
         /\ UNCHANGED <<pub, route, edges, socket, agent, console>>
         /\ \/ ~handler.cancelled /\ UNCHANGED faults /\ node' = handler.was
            \/ Failing("save") /\ node' \in {node, handler.was}
         /\ \/ handler.todo = RenodeOnly /\ handler' = NoHandler
            \/ handler.todo = RenodeThenRecord /\ Turns("record", handler.row)
            \/ handler.todo = RestoreLines /\ Turns("reroute", handler.row)
<1>1. handler.kind # "none" /\ Ahead({"renode"}) /\ ~handler.sent
  BY AtFacts DEF Renode
<1>2. handler.row \in Row \cup {None} /\ handler.kind \in Kind
  BY <1>1, HandlerFacts
<1>3. handler.kind = "update"
  BY <1>1, <1>2, PublishGoes, RefreshGoes, CleanupGoes, UnpublishGoes, CanaryGoes DEF Kind, Ahead
<1>4. \/ ~handler.cancelled /\ UNCHANGED faults /\ node' = handler.was
      \/ Failing("save") /\ node' \in {node, handler.was}
  BY FailingFacts DEF Renode, Saves
<1>. QED  BY <1>1, <1>2, <1>3, <1>4, UpdateGoes DEF Continues, Renode

LEMMA RerouteSteps ==
  ASSUME ShapeInv, Reroute
  PROVE  /\ handler.kind = "update" /\ Ahead({"reroute"}) /\ ~handler.sent
         /\ UNCHANGED <<node, pub, edges, socket, agent, console>>
         /\ \/ /\ ~handler.cancelled /\ UNCHANGED faults
               /\ route' = [lines |-> handler.was, public |-> route.public]
            \/ Failing("save") /\ UNCHANGED route
         /\ Turns("remark", handler.row)
<1>1. handler.kind # "none" /\ Ahead({"reroute"}) /\ ~handler.sent
  BY AtFacts DEF Reroute
<1>2. handler.row \in Row \cup {None} /\ handler.kind \in Kind
  BY <1>1, HandlerFacts
<1>3. handler.kind = "update"
  BY <1>1, <1>2, PublishGoes, RefreshGoes, CleanupGoes, UnpublishGoes, CanaryGoes DEF Kind, Ahead
<1>4. \/ /\ ~handler.cancelled /\ UNCHANGED faults
         /\ route' = [lines |-> handler.was, public |-> route.public]
      \/ Failing("save") /\ UNCHANGED route
  BY FailingFacts DEF Reroute, Saves
<1>. QED  BY <1>1, <1>2, <1>3, <1>4, UpdateGoes DEF Continues, Reroute

LEMMA RerowSteps ==
  ASSUME ShapeInv, Rerow
  PROVE  /\ ~handler.sent
         /\ UNCHANGED <<node, route, edges, socket, agent, console>>
         /\ \/ /\ handler.kind \in {"publish", "refresh", "update", "unpublish"}
               /\ Ahead({"record"}) /\ handler' = NoHandler
               /\ \/ ~handler.cancelled /\ UNCHANGED faults /\ pub' = handler.row
                  \/ Failing("save") /\ UNCHANGED pub
            \/ /\ handler.kind = "update" /\ Ahead({"remark"}) /\ Turns("recall", handler.row)
               /\ \/ ~handler.cancelled /\ UNCHANGED faults /\ pub' = Pending("publishing")
                  \/ Failing("save") /\ UNCHANGED pub
<1>1. handler.kind # "none" /\ Ahead({"record", "remark"}) /\ ~handler.sent
  BY AtFacts DEF Rerow, Ahead
<1>2. handler.row \in Row \cup {None} /\ handler.kind \in Kind
  BY <1>1, HandlerFacts
<1>3. Goes(Tail(handler.todo), handler.row)
  BY DEF Rerow, Continues
<1>4. CASE Ahead({"record"})
  <2>1. handler.kind \in {"publish", "refresh", "update", "unpublish"}
    BY <1>2, <1>4, CleanupGoes, CanaryGoes DEF Kind, Ahead
  <2>2. handler' = NoHandler
    BY <1>2, <1>3, <1>4, <2>1, PublishGoes, RefreshGoes, UpdateGoes, UnpublishGoes DEF Ahead
  <2>3. At("record")
    BY <1>1, <1>4 DEF At, Ahead
  <2>. QED  BY <1>1, <1>4, <2>1, <2>2, <2>3, FailingFacts DEF Rerow, Saves
<1>5. CASE Ahead({"remark"})
  <2>1. handler.kind = "update"
    BY <1>2, <1>5, PublishGoes, RefreshGoes, CleanupGoes, UnpublishGoes, CanaryGoes DEF Kind, Ahead
  <2>2. Turns("recall", handler.row)
    BY <1>2, <1>3, <1>5, <2>1, UpdateGoes
  <2>3. ~At("record")
    BY <1>5 DEF At, Ahead
  <2>. QED  BY <1>1, <1>5, <2>1, <2>2, <2>3, FailingFacts DEF Rerow, Saves
<1>. QED  BY <1>1, <1>4, <1>5 DEF Ahead

(* The answer a handler may hear.                                          *)
LEMMA UnavailableFacts ==
  Unavailable \in Answer /\ ~Synced(Unavailable) /\ ~Clean(Unavailable)
  /\ ~(\A e \in Edges : Unavailable[e] = "removed")
BY DEF Unavailable, Answer, Result, Synced, Clean, Edges, Removed

(* Where a handler goes with an answer.                                    *)
Hearing(a) ==
  \/ /\ handler.kind = "publish" /\ Ahead({"call"})
     /\ \/ Synced(a) /\ Turns("commit", handler.row)
        \/ ~Synced(a) /\ Turns("recall", handler.row)
  \/ handler.kind = "publish" /\ Ahead({"recall"}) /\ Turns("redrop", Undone(a))
  \/ /\ handler.kind = "refresh" /\ Ahead({"call"})
     /\ \/ Synced(a) /\ Turns("settle", handler.row)
        \/ ~Synced(a) /\ Turns("record", [handler.row EXCEPT !.stale = TRUE])
  \/ /\ handler.kind = "update" /\ Ahead({"call"})
     /\ \/ Synced(a) /\ Turns("settle", handler.row)
        \/ ~Synced(a) /\ Turns("renode", handler.row) /\ handler'.todo = RestoreLines
  \/ handler.kind = "update" /\ Ahead({"recall"}) /\ Turns("record", handler.row)
  \/ /\ handler.kind = "cleanup" /\ Ahead({"call"})
     /\ \/ Clean(a) /\ Turns("drop", handler.row)
        \/ ~Clean(a) /\ handler' = NoHandler
  \/ /\ handler.kind = "unpublish" /\ Ahead({"call"})
     /\ \/ (\A e \in Edges : a[e] = "removed") /\ Turns("drop", handler.row)
        \/ Turns("record", [status |-> "needs_sync", stale |-> FALSE, clean |-> Clean(a)])
  \/ /\ handler.kind \in {"publish", "refresh", "canary"} /\ Ahead({"verify"})
     /\ handler' = NoHandler

LEMMA HeardSteps ==
  ASSUME ShapeInv, Ahead({"call", "recall", "verify"}), NEW a \in Answer, Heard(a)
  PROVE  Hearing(a)
<1>1. handler.kind # "none"
  BY DEF ShapeInv, HandlerOK, NoHandler, Ahead
<1>2. handler.row \in Row \cup {None} /\ handler.kind \in Kind
  BY <1>1, HandlerFacts
<1>3. Clean(a) \in BOOLEAN
  BY DEF Clean
<1>4. CASE handler.kind = "publish"
  <2>1. Undone(a) \in Row \cup {None}
    BY <1>3 DEF Undone, Row, Status
  <2>2. CASE Ahead({"call"})
    <3>1. IF Synced(a) THEN Goes(Tail(handler.todo), handler.row) ELSE Diverts(handler.row)
      BY <1>4, <2>2 DEF Heard, Ahead, Continues
    <3>. QED  BY <1>2, <1>4, <2>2, <3>1, PublishGoes DEF Hearing, Ahead
  <2>3. CASE Ahead({"recall"})
    <3>1. Goes(Tail(handler.todo), Undone(a))
      BY <1>4, <2>3 DEF Heard, Ahead, Continues
    <3>. QED  BY <1>4, <2>1, <2>3, <3>1, PublishGoes DEF Hearing
  <2>4. CASE Ahead({"verify"})
    <3>1. Goes(Tail(handler.todo), handler.row)
      BY <1>4, <2>4 DEF Heard, Ahead, Continues
    <3>. QED  BY <1>2, <1>4, <2>4, <3>1, PublishGoes DEF Hearing, Ahead
  <2>. QED  BY <2>2, <2>3, <2>4 DEF Ahead
<1>5. CASE handler.kind = "refresh"
  <2>1. [handler.row EXCEPT !.stale = TRUE] \in Row \cup {None}
    BY <1>5 DEF ShapeInv, HandlerOK, Row
  <2>2. CASE Ahead({"call"})
    <3>1. IF Synced(a) THEN Goes(Tail(handler.todo), handler.row)
          ELSE Diverts([handler.row EXCEPT !.stale = TRUE])
      BY <1>5, <2>2 DEF Heard, Ahead, Continues
    <3>. QED  BY <1>2, <1>5, <2>1, <2>2, <3>1, RefreshGoes DEF Hearing
  <2>3. CASE Ahead({"verify"})
    <3>1. Goes(Tail(handler.todo), handler.row)
      BY <1>5, <2>3 DEF Heard, Ahead, Continues
    <3>. QED  BY <1>2, <1>5, <2>3, <3>1, RefreshGoes DEF Hearing, Ahead
  <2>. QED  BY <1>2, <1>5, <2>2, <2>3, RefreshGoes DEF Ahead
<1>6. CASE handler.kind = "update"
  <2>2. CASE Ahead({"call"})
    <3>1. IF Synced(a) THEN Goes(Tail(handler.todo), handler.row) ELSE Diverts(handler.row)
      BY <1>6, <2>2 DEF Heard, Ahead, Continues
    <3>. QED  BY <1>2, <1>6, <2>2, <3>1, UpdateGoes DEF Hearing, Ahead
  <2>3. CASE Ahead({"recall"})
    <3>1. Goes(Tail(handler.todo), handler.row)
      BY <1>6, <2>3 DEF Heard, Ahead, Continues
    <3>. QED  BY <1>2, <1>6, <2>3, <3>1, UpdateGoes DEF Hearing
  <2>. QED  BY <1>2, <1>6, <2>2, <2>3, UpdateGoes DEF Ahead
<1>7. CASE handler.kind = "cleanup"
  <2>1. Ahead({"call"})
    BY <1>2, <1>7, CleanupGoes DEF Ahead
  <2>2. IF Clean(a) THEN Goes(Tail(handler.todo), handler.row) ELSE Diverts(handler.row)
    BY <1>7, <2>1 DEF Heard, Ahead, Continues
  <2>. QED  BY <1>2, <1>7, <2>1, <2>2, CleanupGoes DEF Hearing
<1>8. CASE handler.kind = "unpublish"
  <2>. DEFINE row == [status |-> "needs_sync", stale |-> FALSE, clean |-> Clean(a)]
  <2>1. Ahead({"call"})
    BY <1>2, <1>8, UnpublishGoes DEF Ahead
  <2>2. IF \A e \in Edges : a[e] = "removed" THEN Goes(Tail(handler.todo), handler.row)
        ELSE Diverts(row)
    BY <1>8, <2>1 DEF Heard, Ahead, Continues
  <2>3. row \in Row \cup {None}
    BY <1>3 DEF Row, Status
  <2>4. CASE \A e \in Edges : a[e] = "removed"
    BY <1>2, <1>8, <2>1, <2>2, <2>4, UnpublishGoes DEF Hearing
  <2>5. CASE ~\A e \in Edges : a[e] = "removed"
    <3>1. Turns("record", row)
      BY <1>8, <2>1, <2>2, <2>3, <2>5, UnpublishGoes DEF Ahead
    <3>. QED  BY <1>8, <2>1, <3>1 DEF Hearing
  <2>. QED  BY <2>4, <2>5
<1>9. CASE handler.kind = "canary"
  <2>1. Ahead({"verify"})
    BY <1>2, <1>9, CanaryGoes
  <2>2. Goes(Tail(handler.todo), handler.row)
    BY <1>9, <2>1 DEF Heard, Ahead, Continues
  <2>. QED  BY <1>2, <1>9, <2>1, <2>2, CanaryGoes DEF Hearing
<1>10. handler.kind \notin {"sweep", "normalize"}
  BY <1>2, CleanupGoes DEF Ahead
<1>. QED  BY <1>2, <1>4, <1>5, <1>6, <1>7, <1>8, <1>9, <1>10 DEF Kind

(* What the step ahead asks of the agent.                                  *)
Asked ==
  CASE Head(handler.todo) = "call" ->
         IF handler.kind \in {"cleanup", "unpublish"} THEN "unpublish" ELSE "publish"
    [] Head(handler.todo) = "recall" ->
         IF handler.kind = "publish" THEN "unpublish" ELSE "publish"
    [] OTHER -> "canary"

LEMMA CallsSteps ==
  ASSUME ShapeInv, Calls
  PROVE  /\ handler.kind # "none" /\ Ahead({"call", "recall", "verify"}) /\ ~handler.sent
         /\ UNCHANGED <<database, edges, agent, console>>
         /\ \/ /\ ~handler.cancelled /\ UNCHANGED <<answer, faults>>
               /\ queue' = Append(queue, Asked) /\ asked'
               /\ handler' = [handler EXCEPT !.sent = TRUE]
            \/ /\ Failing("away") /\ UNCHANGED socket /\ Hearing(Unavailable)
<1>1. handler.kind # "none" /\ Ahead({"call", "recall", "verify"}) /\ ~handler.sent
  BY AtFacts DEF Calls, Ahead
<1>2. Asks = Asked
  BY <1>1 DEF Asks, Asked, At, Ahead
<1>3. ASSUME Heard(Unavailable) PROVE Hearing(Unavailable)
  BY <1>1, <1>3, HeardSteps, UnavailableFacts
<1>. QED  BY <1>1, <1>2, <1>3 DEF Calls, Fault, Failing

LEMMA HearsSteps ==
  ASSUME ShapeInv, Hears
  PROVE  /\ handler.kind # "none" /\ handler.sent /\ Ahead({"call", "recall", "verify"})
         /\ answer \in Answer /\ answer' = None /\ Hearing(answer)
         /\ UNCHANGED <<database, edges, queue, asked, agent, faults, console>>
<1>1. handler.kind # "none" /\ Ahead({"call", "recall", "verify"})
  BY DEF ShapeInv, HandlerOK, NoHandler, Hears
<1>2. answer \in Answer
  BY DEF ShapeInv, TypeOK, Hears
<1>. QED  BY <1>1, <1>2, HeardSteps DEF Hears

LEMMA TimesOutSteps ==
  ASSUME ShapeInv, TimesOut
  PROVE  /\ handler.kind # "none" /\ handler.sent /\ asked
         /\ Ahead({"call", "recall", "verify"})
         /\ ~asked' /\ Hearing(Unavailable)
         /\ faults < MaxFaults /\ faults' = faults + 1
         /\ UNCHANGED <<database, edges, queue, answer, agent, console>>
<1>1. handler.kind # "none" /\ Ahead({"call", "recall", "verify"})
  BY DEF ShapeInv, HandlerOK, NoHandler, TimesOut
<1>. QED  BY <1>1, HeardSteps, UnavailableFacts DEF TimesOut, Fault

LEMMA SkipsSteps ==
  ASSUME ShapeInv, Skips
  PROVE  /\ handler.kind \in {"publish", "refresh"} /\ Ahead({"verify"}) /\ ~handler.sent
         /\ handler' = NoHandler
         /\ UNCHANGED <<database, edges, socket, agent, faults, console>>
<1>1. handler.kind # "none" /\ Ahead({"verify"}) /\ ~handler.sent
  BY AtFacts DEF Skips
<1>2. handler.row \in Row \cup {None} /\ handler.kind \in Kind
  BY <1>1, HandlerFacts
<1>3. handler.kind \in {"publish", "refresh"}
  BY <1>1, <1>2, UpdateGoes, CleanupGoes, UnpublishGoes DEF Kind, Ahead, Skips
<1>. QED  BY <1>1, <1>2, <1>3, PublishGoes, RefreshGoes DEF Skips, Continues, Ahead

(* A request begins.                                                       *)
Starts(kind, step, plan, row) ==
  /\ handler' \in Handler /\ handler'.kind = kind
  /\ handler'.todo \in Todos[kind] /\ Leads(handler'.todo, step)
  /\ handler'.plan = plan /\ handler'.was = node /\ handler'.row = row
  /\ ~handler'.sent /\ ~handler'.cancelled

LEMMA BeginsFacts ==
  ASSUME TypeOK, NEW kind \in Kind, NEW plan \in Lines \cup {None}, Begins(kind, plan)
  PROVE  /\ kind = "publish" => Starts(kind, "mark", plan, pub)
         /\ kind = "refresh" => Starts(kind, "mark", plan, pub)
         /\ kind = "update" => Starts(kind, "retarget", plan, pub)
         /\ kind = "cleanup" => Starts(kind, "call", plan, pub)
         /\ kind = "sweep" => Starts(kind, "drop", plan, pub)
         /\ kind = "unpublish" => Starts(kind, "mark", plan, pub)
         /\ kind = "normalize" => Starts(kind, "settle", plan, pub)
         /\ kind = "canary" => Starts(kind, "verify", plan, pub)
<1>1. Program(kind) \in Todos[kind]
  BY DEF Program, Todos, Kind, PublishTodos, RefreshTodos, UpdateTodos, CleanupTodos, SweepTodos,
         UnpublishTodos, NormalizeTodos, CanaryTodos
<1>2. /\ kind = "publish" => Leads(Program(kind), "mark")
      /\ kind = "refresh" => Leads(Program(kind), "mark")
      /\ kind = "update" => Leads(Program(kind), "retarget")
      /\ kind = "cleanup" => Leads(Program(kind), "call")
  BY PublishHeads1, RefreshHeads, UpdateHeads1, CleanupHeads DEF Program, Kind, FirstPublication
<1>3. /\ kind = "sweep" => Leads(Program(kind), "drop")
      /\ kind = "unpublish" => Leads(Program(kind), "mark")
      /\ kind = "normalize" => Leads(Program(kind), "settle")
      /\ kind = "canary" => Leads(Program(kind), "verify")
  BY CleanupHeads, UnpublishHeads, UpdateHeads2, PublishHeads2 DEF Program, Kind
<1>4. Program(kind) \in Seq(Step) /\ node \in Lines \cup {None} /\ pub \in Row \cup {None}
  BY <1>1, TodosFacts DEF TypeOK
<1>. DEFINE todo == Program(kind)
<1>5. handler' = [kind |-> kind, todo |-> todo, plan |-> plan, was |-> node, row |-> pub,
                  sent |-> FALSE, cancelled |-> FALSE]
  BY DEF Begins, NoHandler
<1>6. /\ handler' \in Handler /\ handler'.kind = kind /\ handler'.todo = todo
      /\ handler'.plan = plan /\ handler'.was = node /\ handler'.row = pub
      /\ ~handler'.sent /\ ~handler'.cancelled
  <2>. HIDE DEF todo
  <2>. QED  BY <1>4, <1>5 DEF Handler, todo
<1>. QED  BY <1>1, <1>2, <1>3, <1>6 DEF Starts

LEMMA BeginSteps ==
  ASSUME ShapeInv, HandlerBegins
  PROVE  /\ Free /\ node # None
         /\ UNCHANGED <<node, route, edges, socket, agent, faults, console>>
         /\ \/ /\ ~Reported("published") /\ route = None
               /\ \/ (pub = None \/ Reported("failed")) /\ UNCHANGED pub
                  \/ pub # None /\ pub.clean /\ pub' = NewRow("saved")
               /\ \E plan \in Lines : ("save" \notin Overlap => plan = node)
                                      /\ Starts("publish", "mark", plan, pub)
            \/ /\ Reported("published") /\ UNCHANGED pub
               /\ Starts("refresh", "mark", node, pub)
            \/ /\ Reported("published") /\ route # None /\ UNCHANGED pub
               /\ \E next \in Lines \ {node} : Starts("update", "retarget", next, pub)
            \/ /\ (Reported("published") => Direct) /\ pub # None /\ ~pub.clean /\ UNCHANGED pub
               /\ Starts("cleanup", "call", None, pub)
            \/ /\ (Reported("published") => Direct) /\ (pub # None => pub.clean) /\ UNCHANGED pub
               /\ Starts("sweep", "drop", None, pub)
            \/ /\ pub # None /\ pub.clean /\ route = None /\ UNCHANGED pub
               /\ Starts("normalize", "settle", None, pub)
            \/ /\ Reported("published") /\ UNCHANGED pub
               /\ Starts("unpublish", "mark", None, pub)
            \/ /\ Reported("published") /\ UNCHANGED pub
               /\ Starts("canary", "verify", None, pub)
<1>. USE DEF ShapeInv
<1>. DEFINE Same == UNCHANGED <<node, route, edges, socket, agent, faults, console>>
<1>1. TypeOK
  OBVIOUS
<1>2. node \in Lines \cup {None}
  BY <1>1 DEF TypeOK
<1>3. CASE PublishBegins
  <2>1. PICK plan \in Lines : ("save" \notin Overlap => plan = node) /\ Begins("publish", plan)
    BY <1>2, <1>3 DEF PublishBegins
  <2>2. Starts("publish", "mark", plan, pub)
    BY <1>1, <2>1, BeginsFacts DEF Kind
  <2>3. \/ (pub = None \/ Reported("failed")) /\ UNCHANGED pub
        \/ pub # None /\ pub.clean /\ pub' = NewRow("saved")
    BY <1>3 DEF PublishBegins
  <2>4. Free /\ node # None /\ Same /\ ~Reported("published") /\ route = None
    BY <1>3 DEF PublishBegins
  <2>. QED  BY <2>1, <2>2, <2>3, <2>4
<1>4. CASE RefreshBegins
  BY <1>1, <1>2, <1>4, BeginsFacts DEF RefreshBegins, Kind, database
<1>5. CASE UpdateBegins
  <2>1. PICK next \in Lines \ {node} : Begins("update", next)
    BY <1>5 DEF UpdateBegins
  <2>2. Starts("update", "retarget", next, pub)
    BY <1>1, <2>1, BeginsFacts DEF Kind
  <2>3. Free /\ node # None /\ Same /\ Reported("published") /\ route # None /\ UNCHANGED pub
    BY <1>5 DEF UpdateBegins, database
  <2>. QED  BY <2>1, <2>2, <2>3
<1>6. CASE CleanupBegins
  <2>1. Free /\ node # None /\ Same /\ (Reported("published") => Direct) /\ UNCHANGED pub
    BY <1>6 DEF CleanupBegins, database
  <2>2. CASE pub # None /\ ~pub.clean
    <3>1. Starts("cleanup", "call", None, pub)
      BY <1>1, <1>6, <2>2, BeginsFacts DEF CleanupBegins, Kind
    <3>. QED  BY <2>1, <2>2, <3>1
  <2>3. CASE ~(pub # None /\ ~pub.clean)
    <3>1. Starts("sweep", "drop", None, pub)
      BY <1>1, <1>6, <2>3, BeginsFacts DEF CleanupBegins, Kind
    <3>. QED  BY <2>1, <2>3, <3>1
  <2>. QED  BY <2>2, <2>3
<1>7. CASE NormalizeBegins
  BY <1>1, <1>7, BeginsFacts DEF NormalizeBegins, Kind, database, Artifacts
<1>8. CASE UnpublishBegins
  BY <1>1, <1>8, BeginsFacts DEF UnpublishBegins, Kind, database
<1>9. CASE CanaryBegins
  BY <1>1, <1>9, BeginsFacts DEF CanaryBegins, Kind, database
<1>. QED  BY <1>3, <1>4, <1>5, <1>6, <1>7, <1>8, <1>9 DEF HandlerBegins

-----------------------------------------------------------------------------
\* The helper and the agent

(* What a run of the helper leaves on an edge, and what it says.  Only a   *)
(* publish that worked says synced, and only a removal that worked says    *)
(* removed or absent.                                                      *)
Kept(e, o) == o.file = files[e] /\ o.loaded \in {loaded[e], files[e]} /\ o.result = "failed"
Put(e, m, o) ==
  o.file = m /\ o.loaded = (IF files[e] = m THEN loaded[e] ELSE m) /\ o.result \in {"synced", "failed"}
Took(e, m, o) ==
  \/ files[e] = m /\ o.file = None /\ o.loaded = None /\ o.result \in {"removed", "failed"}
  \/ files[e] = None /\ o.file = None /\ o.loaded = loaded[e] /\ o.result \in {"absent", "failed"}

Helps(e, do, m, o) ==
  \/ Kept(e, o)
  \/ do = "publish" /\ Put(e, m, o)
  \/ do = "unpublish" /\ Took(e, m, o)

LEMMA RunsHelps ==
  ASSUME NEW e, NEW do \in {"publish", "unpublish"}, NEW m
  PROVE  /\ Helps(e, do, m, Runs(e, do, m))
         /\ Helps(e, do, m, [Runs(e, do, m) EXCEPT !.result = "failed"])
         /\ Helps(e, do, m, Unchanged(e))
         /\ do = "publish" => Runs(e, do, m).result = "synced"
<1>1. CASE do = "publish"
  BY <1>1 DEF Runs, Helps, Kept, Put, Unchanged
<1>2. CASE do = "unpublish" /\ files[e] = None
  BY <1>2 DEF Runs, Helps, Kept, Took, Unchanged
<1>3. CASE do = "unpublish" /\ files[e] # None /\ files[e] = m
  BY <1>3 DEF Runs, Helps, Kept, Took, Unchanged
<1>4. CASE do = "unpublish" /\ files[e] # None /\ files[e] # m
  BY <1>4 DEF Runs, Helps, Kept, Took, Unchanged
<1>. QED  BY <1>1, <1>2, <1>3, <1>4

LEMMA BreaksHelps ==
  ASSUME NEW e, NEW do \in {"publish", "unpublish"}, NEW m, NEW o \in Breaks(e, do, m)
  PROVE  Helps(e, do, m, o)
<1>1. Helps(e, do, m, Unchanged(e)) /\ Helps(e, do, m, [Unchanged(e) EXCEPT !.loaded = files[e]])
  BY DEF Helps, Kept, Unchanged
<1>2. Helps(e, do, m, [Runs(e, do, m) EXCEPT !.result = "failed"])
  BY RunsHelps
<1>3. o \in {Unchanged(e), [Unchanged(e) EXCEPT !.loaded = files[e]],
             [Runs(e, do, m) EXCEPT !.result = "failed"]}
  BY DEF Breaks
<1>. QED  BY <1>1, <1>2, <1>3

LEMMA DroppedHelps ==
  ASSUME NEW do \in {"publish", "unpublish"}, NEW m, NEW o \in Dropped(do, m)
  PROVE  Helps("nosla", do, m, o)
<1>1. /\ Helps("nosla", do, m, Unchanged("nosla"))
      /\ Helps("nosla", do, m, [Runs("nosla", do, m) EXCEPT !.result = "failed"])
  BY RunsHelps
<1>2. o \in {Unchanged("nosla"), [Runs("nosla", do, m) EXCEPT !.result = "failed"]}
  BY DEF Dropped
<1>. QED  BY <1>1, <1>2

LEMMA InvokeSteps ==
  ASSUME NEW e, NEW do \in {"publish", "unpublish"}, NEW m, NEW o, Invoke(e, do, m, o)
  PROVE  /\ Helps(e, do, m, o) /\ Leaves(e, o)
         /\ \/ o = Runs(e, do, m) /\ UNCHANGED faults
            \/ faults < MaxFaults /\ faults' = faults + 1
<1>0. Helps(e, do, m, Runs(e, do, m))
  BY RunsHelps
<1>1. o = Runs(e, do, m) => Helps(e, do, m, o)
  BY <1>0
<1>2. o \in Breaks(e, do, m) => Helps(e, do, m, o)
  BY BreaksHelps
<1>3. e = "nosla" /\ o \in Dropped(do, m) => Helps(e, do, m, o)
  BY DroppedHelps
<1>. QED  BY <1>1, <1>2, <1>3 DEF Invoke, Fault

(* A helper that is killed may also leave a fragment that is not loaded.   *)
LEMMA KilledHelps ==
  ASSUME NEW e, NEW do \in {"publish", "unpublish"}, NEW m, m # None, NEW o \in Killed(e, do, m)
  PROVE  \/ Helps(e, do, m, o)
         \/ do = "publish" /\ o.file = m /\ o.loaded = loaded[e]
         \/ do = "unpublish" /\ files[e] = m /\ o.file = None /\ o.loaded = loaded[e]
<1>0. Helps(e, do, m, Unchanged(e)) /\ Helps(e, do, m, Runs(e, do, m))
  BY RunsHelps
<1>1. o \in {Unchanged(e), Runs(e, do, m)} => Helps(e, do, m, o)
  BY <1>0
<1>2. CASE o = [Runs(e, do, m) EXCEPT !.loaded = loaded[e]]
  <2>1. CASE do = "publish"
    BY <1>2, <2>1 DEF Runs
  <2>2. CASE do = "unpublish" /\ files[e] = None
    <3>1. Runs(e, do, m) = [result |-> "absent", file |-> None, loaded |-> loaded[e]]
      BY <2>2 DEF Runs
    <3>2. o = Runs(e, do, m)
      BY <1>2, <3>1
    <3>. QED  BY <1>1, <3>2
  <2>3. CASE do = "unpublish" /\ files[e] # None /\ files[e] = m
    BY <1>2, <2>3 DEF Runs
  <2>4. CASE do = "unpublish" /\ files[e] # None /\ files[e] # m
    <3>1. o = Unchanged(e)
      BY <1>2, <2>4 DEF Runs, Unchanged
    <3>. QED  BY <1>1, <3>1
  <2>. QED  BY <2>1, <2>2, <2>3, <2>4
<1>. QED  BY <1>1, <1>2 DEF Killed

EdgesTyped == files \in [Edges -> File] /\ loaded \in [Edges -> File]

LEMMA LeavesTyped ==
  ASSUME EdgesTyped, NEW e \in Edges, NEW o, Leaves(e, o), o.file \in File, o.loaded \in File
  PROVE  /\ EdgesTyped'
         /\ files'[e] = o.file /\ loaded'[e] = o.loaded
         /\ \A other \in Edges : other # e => files'[other] = files[other] /\ loaded'[other] = loaded[other]
BY DEF EdgesTyped, Leaves

LEMMA HelpsTyped ==
  ASSUME EdgesTyped, NEW e \in Edges, NEW do \in {"publish", "unpublish"}, NEW m \in File, NEW o,
         Helps(e, do, m, o)
  PROVE  o.file \in File /\ o.loaded \in File /\ o.result \in Result
<1>1. files[e] \in File /\ loaded[e] \in File /\ None \in File
  BY DEF EdgesTyped, File
<1>. QED  BY <1>1 DEF Helps, Kept, Put, Took, Result

LEMMA AnswersTyped ==
  ASSUME asked \in BOOLEAN, answer \in Answer \cup {None},
         NEW bwg \in Result, NEW nosla \in Result, Answers(bwg, nosla)
  PROVE  /\ asked' \in BOOLEAN /\ answer' \in Answer \cup {None}
         /\ \/ /\ asked /\ queue' = <<>> /\ ~asked' /\ answer' \in Answer
               /\ answer'["bwg"] = bwg /\ answer'["nosla"] = nosla
            \/ (~asked \/ queue' # <<>>) /\ UNCHANGED <<asked, answer>>
BY DEF Answers, Answer, Edges

LEMMA QueueFacts ==
  ASSUME queue \in Seq(Request), queue # <<>>
  PROVE  Tail(queue) \in Seq(Request) /\ Head(queue) \in Request
OBVIOUS

LEMMA AgentFacts ==
  ASSUME ShapeInv
  PROVE  /\ EdgesTyped /\ agent \in Agent /\ queue \in Seq(Request) /\ asked \in BOOLEAN
         /\ answer \in Answer \cup {None} /\ found \in BOOLEAN /\ faults \in Nat /\ MaxFaults \in Nat
         /\ faults <= MaxFaults /\ Verb \in {"publish", "unpublish"}
         /\ agent.new \in File /\ agent.old \in File /\ agent.bwg \in Result
         /\ Idle \in Agent /\ Idle.do = "idle" /\ Idle.at = "bwg"
BY FaultsAssumption DEF ShapeInv, TypeOK, EdgesTyped, Verb, Agent, Idle, File, Result

(* What the agent leaves alone.                                            *)
LEMMA AgentFrame ==
  ASSUME AgentNext
  PROVE  UNCHANGED database
BY DEF AgentNext, AgentRuns, Takes, Probes, OnBWG, OnNOSLA, UndoesBWG, Stores, AgentRestarts

AgentTypes ==
  /\ found \in BOOLEAN /\ EdgesTyped /\ queue \in Seq(Request) /\ asked \in BOOLEAN
  /\ answer \in Answer \cup {None} /\ agent \in Agent /\ faults \in 0..MaxFaults

LEMMA TakesShape ==
  ASSUME ShapeInv, Takes
  PROVE  AgentTypes' /\ AgentOK'
<1>1. agent = Idle /\ AgentTypes /\ node \in Lines \cup {None}
  BY AgentFacts DEF ShapeInv, AgentOK, TypeOK, Takes, AgentTypes
<1>2. queue' \in Seq(Request) /\ Head(queue) \in Request
  BY <1>1, QueueFacts DEF Takes, AgentTypes
<1>3. CASE Answers("failed", "failed") /\ UNCHANGED agent
  <2>1. asked' \in BOOLEAN /\ answer' \in Answer \cup {None}
    BY <1>1, <1>3, AnswersTyped DEF Result, AgentTypes
  <2>. QED  BY <1>1, <1>2, <1>3, <2>1 DEF Takes, AgentTypes, AgentOK, Idle, EdgesTyped, edges
<1>4. CASE /\ node # None
           /\ agent' = IF Head(queue) = "canary"
                       THEN [Idle EXCEPT !.do = "update", !.at = "probe",
                                         !.old = Manifest, !.new = Manifest]
                       ELSE [Idle EXCEPT !.do = Head(queue), !.new = Manifest]
           /\ UNCHANGED <<asked, answer>>
  <2>1. Manifest \in Fragment
    BY <1>1, <1>4 DEF Manifest, Fragment, AgentTypes
  <2>2. agent' \in Agent /\ AgentOK'
    BY <1>2, <1>4, <2>1 DEF Agent, Idle, AgentOK, Request, File, Result
  <2>. QED  BY <1>1, <1>2, <1>4, <2>2 DEF Takes, AgentTypes, EdgesTyped, edges
<1>. QED  BY <1>3, <1>4 DEF Takes

LEMMA ProbesShape ==
  ASSUME ShapeInv, Probes
  PROVE  AgentTypes' /\ AgentOK'
<1>1. AgentTypes /\ AgentOK /\ Idle \in Agent
  BY AgentFacts DEF ShapeInv, TypeOK, AgentTypes
<1>2. CASE Answers("synced", "synced") /\ agent' = Idle
  <2>1. asked' \in BOOLEAN /\ answer' \in Answer \cup {None}
    BY <1>1, <1>2, AnswersTyped DEF Result, AgentTypes
  <2>. QED  BY <1>1, <1>2, <2>1 DEF Probes, AgentTypes, AgentOK, Idle, EdgesTyped, edges
<1>3. CASE /\ agent' = [agent EXCEPT !.at = "bwg", !.new.found = TRUE]
           /\ UNCHANGED <<asked, answer>>
  <2>1. agent.do = "update" /\ agent.new \in Fragment /\ agent.old \in Fragment
    BY <1>1 DEF AgentOK, Probes
  <2>2. [agent.new EXCEPT !.found = TRUE] \in Fragment
    BY <2>1 DEF Fragment
  <2>3. agent' = [agent EXCEPT !.at = "bwg", !.new = [agent.new EXCEPT !.found = TRUE]]
    BY <1>1, <1>3 DEF Agent, AgentTypes
  <2>4. agent' \in Agent /\ agent'.do = "update" /\ agent'.at = "bwg"
        /\ agent'.new \in Fragment /\ agent'.old \in Fragment
    BY <1>1, <2>1, <2>2, <2>3 DEF Agent, File, AgentTypes
  <2>. QED  BY <1>1, <1>3, <2>4 DEF Probes, AgentTypes, AgentOK, EdgesTyped, edges
<1>. QED  BY <1>2, <1>3 DEF Probes

LEMMA FaultTyped ==
  ASSUME faults \in 0..MaxFaults,
         faults' = faults \/ (faults < MaxFaults /\ faults' = faults + 1)
  PROVE  faults' \in 0..MaxFaults
BY FaultsAssumption

LEMMA OnBWGShape ==
  ASSUME ShapeInv, OnBWG
  PROVE  AgentTypes' /\ AgentOK'
<1>1. AgentTypes /\ AgentOK /\ Idle \in Agent /\ Verb \in {"publish", "unpublish"} /\ agent.new \in File
  BY AgentFacts DEF ShapeInv, TypeOK, AgentTypes
<1>2. PICK o \in Outcome :
        /\ Invoke("bwg", Verb, agent.new, o)
        /\ IF agent.do = "unpublish" \/ o.result = "synced"
           THEN /\ agent' = [agent EXCEPT !.at = "nosla", !.bwg = o.result]
                /\ UNCHANGED <<asked, answer>>
           ELSE Answers(o.result, "failed") /\ agent' = Idle
  BY DEF OnBWG
<1>3. Helps("bwg", Verb, agent.new, o) /\ Leaves("bwg", o) /\ faults' \in 0..MaxFaults
  BY <1>1, <1>2, InvokeSteps, FaultTyped DEF AgentTypes
<1>4. o.file \in File /\ o.loaded \in File /\ o.result \in Result
  BY DEF Outcome
<1>5. EdgesTyped'
  BY <1>1, <1>3, <1>4, LeavesTyped DEF AgentTypes, Edges
<1>6. CASE /\ agent' = [agent EXCEPT !.at = "nosla", !.bwg = o.result]
           /\ UNCHANGED <<asked, answer>>
  <2>1. agent' \in Agent /\ AgentOK'
    BY <1>1, <1>4, <1>6 DEF Agent, AgentOK, AgentTypes, OnBWG
  <2>. QED  BY <1>1, <1>3, <1>5, <1>6, <2>1 DEF OnBWG, AgentTypes
<1>7. CASE Answers(o.result, "failed") /\ agent' = Idle
  <2>1. asked' \in BOOLEAN /\ answer' \in Answer \cup {None}
    BY <1>1, <1>4, <1>7, AnswersTyped DEF Result, AgentTypes
  <2>. QED  BY <1>1, <1>3, <1>5, <1>7, <2>1 DEF OnBWG, AgentTypes, AgentOK, Idle
<1>. QED  BY <1>2, <1>6, <1>7

LEMMA OnNOSLAShape ==
  ASSUME ShapeInv, OnNOSLA
  PROVE  AgentTypes' /\ AgentOK'
<1>1. AgentTypes /\ AgentOK /\ Idle \in Agent /\ Verb \in {"publish", "unpublish"} /\ agent.new \in File
      /\ agent.bwg \in Result
  BY AgentFacts DEF ShapeInv, TypeOK, AgentTypes
<1>2. PICK o \in Outcome :
        /\ Invoke("nosla", Verb, agent.new, o)
        /\ CASE agent.do # "unpublish" /\ o.result # "synced" ->
                  /\ agent' = [agent EXCEPT !.at = "undo"]
                  /\ UNCHANGED <<asked, answer>>
             [] agent.do = "update" /\ o.result = "synced" ->
                  /\ agent' = [agent EXCEPT !.at = "store"]
                  /\ UNCHANGED <<asked, answer>>
             [] OTHER -> Answers(agent.bwg, o.result) /\ agent' = Idle
  BY DEF OnNOSLA
<1>3. Leaves("nosla", o) /\ faults' \in 0..MaxFaults
  BY <1>1, <1>2, InvokeSteps, FaultTyped DEF AgentTypes
<1>4. o.file \in File /\ o.loaded \in File /\ o.result \in Result
  BY DEF Outcome
<1>5. EdgesTyped'
  BY <1>1, <1>3, <1>4, LeavesTyped DEF AgentTypes, Edges
<1>6. agent.do # "idle"
  BY <1>1 DEF AgentOK, OnNOSLA, Idle
<1>7. CASE /\ agent.do # "unpublish" /\ agent' = [agent EXCEPT !.at = "undo"]
           /\ UNCHANGED <<asked, answer>>
  <2>1. agent' \in Agent /\ AgentOK'
    BY <1>1, <1>6, <1>7 DEF Agent, AgentOK, AgentTypes
  <2>. QED  BY <1>1, <1>3, <1>5, <1>7, <2>1 DEF OnNOSLA, AgentTypes
<1>8. CASE /\ agent.do = "update" /\ agent' = [agent EXCEPT !.at = "store"]
           /\ UNCHANGED <<asked, answer>>
  <2>1. agent' \in Agent /\ AgentOK'
    BY <1>1, <1>6, <1>8 DEF Agent, AgentOK, AgentTypes
  <2>. QED  BY <1>1, <1>3, <1>5, <1>8, <2>1 DEF OnNOSLA, AgentTypes
<1>9. CASE Answers(agent.bwg, o.result) /\ agent' = Idle
  <2>1. asked' \in BOOLEAN /\ answer' \in Answer \cup {None}
    BY <1>1, <1>4, <1>9, AnswersTyped DEF AgentTypes
  <2>. QED  BY <1>1, <1>3, <1>5, <1>9, <2>1 DEF OnNOSLA, AgentTypes, AgentOK, Idle
<1>. QED  BY <1>2, <1>7, <1>8, <1>9

LEMMA UndoesBWGShape ==
  ASSUME ShapeInv, UndoesBWG
  PROVE  AgentTypes' /\ AgentOK'
<1>1. AgentTypes /\ AgentOK /\ Idle \in Agent /\ agent.new \in File
  BY AgentFacts DEF ShapeInv, TypeOK, AgentTypes
<1>2. PICK o \in Outcome :
        /\ IF agent.do = "publish"
           THEN Invoke("bwg", "unpublish", agent.new, o)
           ELSE Invoke("bwg", "publish", agent.old, o)
        /\ Answers(o.result, "failed")
  BY DEF UndoesBWG
<1>3. Leaves("bwg", o) /\ faults' \in 0..MaxFaults
  BY <1>1, <1>2, InvokeSteps, FaultTyped DEF AgentTypes
<1>4. o.file \in File /\ o.loaded \in File /\ o.result \in Result
  BY DEF Outcome
<1>5. EdgesTyped'
  BY <1>1, <1>3, <1>4, LeavesTyped DEF AgentTypes, Edges
<1>6. asked' \in BOOLEAN /\ answer' \in Answer \cup {None}
  BY <1>1, <1>2, <1>4, AnswersTyped DEF AgentTypes, Result
<1>. QED  BY <1>1, <1>3, <1>5, <1>6 DEF UndoesBWG, AgentTypes, AgentOK, Idle

LEMMA StoresShape ==
  ASSUME ShapeInv, Stores
  PROVE  AgentTypes' /\ AgentOK'
<1>1. AgentTypes /\ AgentOK /\ Idle \in Agent
  BY AgentFacts DEF ShapeInv, TypeOK, AgentTypes
<1>2. CASE found' = TRUE /\ Answers("synced", "synced") /\ agent' = Idle /\ UNCHANGED faults
  <2>1. asked' \in BOOLEAN /\ answer' \in Answer \cup {None}
    BY <1>1, <1>2, AnswersTyped DEF Result, AgentTypes
  <2>. QED  BY <1>1, <1>2, <2>1 DEF Stores, AgentTypes, AgentOK, Idle, EdgesTyped
<1>3. CASE /\ Fault("save") /\ UNCHANGED <<found, asked, answer>>
           /\ agent' = [agent EXCEPT !.do = "restore", !.at = "bwg",
                                     !.new = agent.old, !.old = agent.new]
  <2>1. agent.new \in Fragment /\ agent.old \in Fragment
    BY <1>1 DEF AgentOK, Stores
  <2>2. agent' \in Agent /\ AgentOK'
    BY <1>1, <1>3, <2>1 DEF Agent, AgentOK, AgentTypes, File
  <2>3. faults' \in 0..MaxFaults
    BY <1>1, <1>3, FaultTyped DEF Fault, AgentTypes
  <2>. QED  BY <1>1, <1>3, <2>2, <2>3 DEF Stores, AgentTypes, EdgesTyped
<1>. QED  BY <1>2, <1>3 DEF Stores

LEMMA AgentRestartsShape ==
  ASSUME ShapeInv, AgentRestarts
  PROVE  AgentTypes' /\ AgentOK'
<1>1. AgentTypes /\ AgentOK /\ Idle \in Agent /\ Verb \in {"publish", "unpublish"}
      /\ agent.new \in File /\ agent.old \in File
  BY AgentFacts DEF ShapeInv, TypeOK, AgentTypes
<1>2. faults' \in 0..MaxFaults
  BY <1>1, FaultTyped DEF Fault, AgentRestarts, AgentTypes
<1>3. asked' \in BOOLEAN /\ answer' \in Answer \cup {None} /\ queue' \in Seq(Request)
      /\ agent' \in Agent /\ AgentOK'
  <2>1. <<>> \in Seq(Request) /\ Unavailable \in Answer
    BY UnavailableFacts
  <2>2. answer' \in {Unavailable, answer} /\ agent' = Idle /\ queue' = <<>> /\ asked' = FALSE
    BY DEF AgentRestarts
  <2>3. AgentOK'
    BY <2>2 DEF AgentOK, Idle
  <2>. QED  BY <1>1, <2>1, <2>2, <2>3 DEF AgentTypes
<1>4. EdgesTyped' /\ found' \in BOOLEAN
  <2>1. CASE agent.do # "idle" /\ agent.at \in {"bwg", "undo"}
    <3>. DEFINE do == IF agent.at = "undo" /\ agent.do = "publish" THEN "unpublish" ELSE Verb
                m == IF agent.at = "undo" /\ agent.do # "publish" THEN agent.old ELSE agent.new
    <3>1. do \in {"publish", "unpublish"} /\ m \in File /\ m # None
      BY <1>1, <2>1, NoneFacts DEF AgentOK
    <3>2. PICK o \in Killed("bwg", do, m) : Leaves("bwg", o)
      BY <2>1 DEF AgentRestarts
    <3>3. UNCHANGED found
      BY <2>1 DEF AgentRestarts
    <3>. HIDE DEF do, m
    <3>4. files["bwg"] \in File /\ loaded["bwg"] \in File /\ None \in File
      BY <1>1 DEF AgentTypes, EdgesTyped, File, Edges
    <3>5. o.file \in File /\ o.loaded \in File
      <4>1. \/ Helps("bwg", do, m, o)
            \/ do = "publish" /\ o.file = m /\ o.loaded = loaded["bwg"]
            \/ do = "unpublish" /\ o.file = None /\ o.loaded = loaded["bwg"]
        BY <3>1, KilledHelps
      <4>2. Helps("bwg", do, m, o) => o.file \in File /\ o.loaded \in File
        BY <1>1, <3>1, HelpsTyped DEF AgentTypes, Edges
      <4>. QED  BY <3>1, <3>4, <4>1, <4>2
    <3>. QED  BY <1>1, <3>2, <3>3, <3>5, LeavesTyped DEF AgentTypes, Edges
  <2>2. CASE agent.at = "nosla"
    <3>1. PICK o \in Dropped(Verb, agent.new) : Leaves("nosla", o)
      BY <2>2 DEF AgentRestarts
    <3>2. UNCHANGED found
      BY <2>2 DEF AgentRestarts
    <3>3. Helps("nosla", Verb, agent.new, o)
      BY <1>1, DroppedHelps
    <3>4. o.file \in File /\ o.loaded \in File
      BY <1>1, <3>3, HelpsTyped DEF AgentTypes, Edges
    <3>. QED  BY <1>1, <3>1, <3>2, <3>4, LeavesTyped DEF AgentTypes, Edges
  <2>3. CASE agent.at = "store"
    BY <1>1, <2>3 DEF AgentRestarts, AgentTypes, EdgesTyped
  <2>4. CASE ~(agent.do # "idle" /\ agent.at \in {"bwg", "undo"}) /\ agent.at \notin {"nosla", "store"}
    BY <1>1, <2>4 DEF AgentRestarts, AgentTypes, EdgesTyped, edges
  <2>. QED  BY <2>1, <2>2, <2>3, <2>4
<1>. QED  BY <1>2, <1>3, <1>4 DEF AgentTypes

(* Nothing that a handler or the console keeps depends on the agent.       *)
LEMMA AgentShape ==
  ASSUME ShapeInv, AgentNext, UNCHANGED <<handler, console>>
  PROVE  ShapeInv'
<1>1. AgentTypes' /\ AgentOK'
  BY TakesShape, ProbesShape, OnBWGShape, OnNOSLAShape, UndoesBWGShape, StoresShape,
     AgentRestartsShape DEF AgentNext, AgentRuns
<1>2. UNCHANGED <<node, pub, route, handler, console>>
  BY AgentFrame DEF database
<1>3. TypeOK'
  BY <1>1, <1>2 DEF ShapeInv, TypeOK, AgentTypes, EdgesTyped
<1>4. HandlerOK' /\ ConsoleOK'
  BY <1>2 DEF ShapeInv, HandlerOK, ConsoleOK, Doing, Ahead
<1>. QED  BY <1>1, <1>3, <1>4 DEF ShapeInv

-----------------------------------------------------------------------------
\* Types are kept

(* The row of a step that is turned to is one to record.                   *)
LEMMA TurnsShape ==
  ASSUME ShapeInv, handler.kind # "none", NEW step, NEW row, Turns(step, row),
         row \in Row \/ (row = handler.row /\ (handler.kind = "publish" => step \notin {"redrop", "record"})),
         handler.kind = "update" => route' \in Route
  PROVE  HandlerOK' /\ handler' \in Handler
BY DEF ShapeInv, HandlerOK, Turns, Leads, Doing, Ahead

LEMMA NoHandlerShape ==
  ASSUME handler' = NoHandler
  PROVE  HandlerOK' /\ handler' \in Handler /\ (\A kinds, steps : ~Ahead(steps)' /\ ~Doing(kinds, steps)')
BY DEF HandlerOK, NoHandler, Handler, Doing, Ahead

DataTypes == node \in Lines \cup {None} /\ pub \in Row \cup {None} /\ route \in Route \cup {None}

LEMMA ShapeFrame ==
  ASSUME ShapeInv, UNCHANGED <<edges, agent>>, DataTypes', HandlerOK' /\ handler' \in Handler,
         queue' \in Seq(Request), asked' \in BOOLEAN, answer' \in Answer \cup {None},
         faults' \in 0..MaxFaults, console' \in Console, ConsoleOK'
  PROVE  ShapeInv'
<1>1. TypeOK'
  BY DEF ShapeInv, TypeOK, DataTypes, edges
<1>2. AgentOK'
  BY DEF ShapeInv, AgentOK
<1>. QED  BY <1>1, <1>2 DEF ShapeInv

LEMMA FailingTyped ==
  ASSUME ShapeInv, faults' = faults \/ Failing("save") \/ Failing("away")
  PROVE  faults' \in 0..MaxFaults
BY FaultTyped DEF ShapeInv, TypeOK, Failing

LEMMA RowFacts ==
  ASSUME NEW status \in Status
  PROVE  /\ NewRow(status) \in Row /\ NewRow(status).status = status
         /\ ~NewRow(status).stale /\ (NewRow(status).clean <=> status = "saved")
         /\ handler.row \in Row =>
              /\ Pending(status) \in Row /\ Pending(status).status = status /\ ~Pending(status).clean
              /\ Pending(status).stale = handler.row.stale
BY DEF NewRow, Row, Pending

(* The steps that save.                                                    *)
LEMMA SavesFrame ==
  ASSUME ShapeInv, UNCHANGED <<edges, socket, agent, console>>, DataTypes',
         HandlerOK' /\ handler' \in Handler, faults' = faults \/ Failing("save")
  PROVE  ShapeInv'
<1>1. faults' \in 0..MaxFaults
  BY FailingTyped
<1>2. queue' \in Seq(Request) /\ asked' \in BOOLEAN /\ answer' \in Answer \cup {None}
      /\ console' \in Console /\ ConsoleOK'
  BY DEF ShapeInv, TypeOK, socket, ConsoleOK
<1>. QED  BY <1>1, <1>2, ShapeFrame

LEMMA MarkShape ==
  ASSUME ShapeInv, Mark
  PROVE  ShapeInv'
<1>1. handler.kind # "none" /\ DataTypes /\ (handler.kind \in {"refresh", "update", "unpublish"} => handler.row \in Row)
      /\ (handler.kind = "update" => route' \in Route)
  BY MarkSteps DEF ShapeInv, HandlerOK, TypeOK, DataTypes
<1>2. HandlerOK' /\ handler' \in Handler
  <2>1. \/ handler' = NoHandler
        \/ \E step \in {"stage", "call", "reline", "renode"} : Turns(step, handler.row)
    BY MarkSteps
  <2>. QED  BY <1>1, <2>1, NoHandlerShape, TurnsShape
<1>3. DataTypes'
  BY <1>1, MarkSteps, RowFacts DEF DataTypes, Status
<1>4. UNCHANGED <<edges, socket, agent, console>> /\ (faults' = faults \/ Failing("save"))
  BY MarkSteps
<1>. QED  BY <1>2, <1>3, <1>4, SavesFrame

LEMMA RouteFacts ==
  ASSUME NEW lines \in Lines, NEW public \in BOOLEAN
  PROVE  [lines |-> lines, public |-> public] \in Route
BY DEF Route

LEMMA StageShape ==
  ASSUME ShapeInv, Stage
  PROVE  ShapeInv'
<1>1. handler.kind = "publish" /\ handler.plan \in Lines /\ DataTypes
  BY StageSteps DEF ShapeInv, HandlerOK, TypeOK, DataTypes
<1>2. HandlerOK' /\ handler' \in Handler
  <2>1. NewRow("failed") \in Row
    BY RowFacts DEF Status
  <2>. QED  BY <1>1, <2>1, StageSteps, TurnsShape
<1>3. DataTypes'
  BY <1>1, StageSteps, RouteFacts DEF DataTypes
<1>4. UNCHANGED <<edges, socket, agent, console>> /\ (faults' = faults \/ Failing("save"))
  BY StageSteps
<1>. QED  BY <1>2, <1>3, <1>4, SavesFrame

LEMMA CommitShape ==
  ASSUME ShapeInv, Commit
  PROVE  ShapeInv'
<1>1. handler.kind = "publish" /\ handler.plan \in Lines /\ DataTypes
  BY CommitSteps DEF ShapeInv, HandlerOK, TypeOK, DataTypes
<1>2. HandlerOK' /\ handler' \in Handler
  BY <1>1, CommitSteps, TurnsShape
<1>3. DataTypes'
  BY <1>1, CommitSteps, RouteFacts DEF DataTypes
<1>4. UNCHANGED <<edges, socket, agent, console>> /\ (faults' = faults \/ Failing("save"))
  BY CommitSteps
<1>. QED  BY <1>2, <1>3, <1>4, SavesFrame

LEMMA SettleShape ==
  ASSUME ShapeInv, Settle
  PROVE  ShapeInv'
<1>1. handler.kind # "none" /\ DataTypes /\ (handler.kind = "update" => route' \in Route)
  BY SettleSteps DEF ShapeInv, HandlerOK, TypeOK, DataTypes, Kind
<1>2. HandlerOK' /\ handler' \in Handler
  <2>1. \/ handler' = NoHandler
        \/ \E step \in {"verify", "recall", "renode"} : Turns(step, handler.row)
    BY SettleSteps
  <2>. QED  BY <1>1, <2>1, NoHandlerShape, TurnsShape
<1>3. DataTypes'
  BY <1>1, SettleSteps, RowFacts DEF DataTypes, Status
<1>4. UNCHANGED <<edges, socket, agent, console>> /\ (faults' = faults \/ Failing("save"))
  BY SettleSteps
<1>. QED  BY <1>2, <1>3, <1>4, SavesFrame

LEMMA RetargetShape ==
  ASSUME ShapeInv, Retarget
  PROVE  ShapeInv'
<1>1. handler.kind = "update" /\ handler.plan \in Lines /\ DataTypes /\ route' \in Route
  BY RetargetSteps DEF ShapeInv, HandlerOK, TypeOK, DataTypes
<1>2. HandlerOK' /\ handler' \in Handler
  BY <1>1, RetargetSteps, TurnsShape, NoHandlerShape
<1>3. DataTypes'
  BY <1>1, RetargetSteps DEF DataTypes
<1>4. UNCHANGED <<edges, socket, agent, console>> /\ (faults' = faults \/ Failing("save"))
  BY RetargetSteps
<1>. QED  BY <1>2, <1>3, <1>4, SavesFrame

LEMMA RelineShape ==
  ASSUME ShapeInv, Reline
  PROVE  ShapeInv'
<1>1. handler.kind = "update" /\ handler.plan \in Lines /\ DataTypes /\ route \in Route
  BY RelineSteps DEF ShapeInv, HandlerOK, TypeOK, DataTypes
<1>2. route' \in Route
  BY <1>1, RelineSteps, RouteFacts DEF Route
<1>3. HandlerOK' /\ handler' \in Handler
  BY <1>1, <1>2, RelineSteps, TurnsShape
<1>4. DataTypes'
  BY <1>1, <1>2, RelineSteps DEF DataTypes
<1>5. UNCHANGED <<edges, socket, agent, console>> /\ (faults' = faults \/ Failing("save"))
  BY RelineSteps
<1>. QED  BY <1>3, <1>4, <1>5, SavesFrame

LEMMA DropShape ==
  ASSUME ShapeInv, Drop
  PROVE  ShapeInv'
<1>1. handler.kind \in {"cleanup", "sweep", "unpublish"} /\ DataTypes
  BY DropSteps DEF ShapeInv, TypeOK, DataTypes
<1>2. HandlerOK' /\ handler' \in Handler
  <2>1. [NewRow("failed") EXCEPT !.clean = TRUE] \in Row
    BY DEF NewRow, Row, Status
  <2>. QED  BY <1>1, <2>1, DropSteps, TurnsShape, NoHandlerShape
<1>3. DataTypes'
  BY <1>1, DropSteps DEF DataTypes
<1>4. UNCHANGED <<edges, socket, agent, console>> /\ (faults' = faults \/ Failing("save"))
  BY DropSteps
<1>. QED  BY <1>2, <1>3, <1>4, SavesFrame

LEMMA RedropShape ==
  ASSUME ShapeInv, Redrop
  PROVE  ShapeInv'
<1>1. handler.kind = "publish" /\ handler.row \in Row /\ DataTypes
  BY RedropSteps DEF ShapeInv, TypeOK, DataTypes, HandlerOK, Doing, Ahead
<1>2. HandlerOK' /\ handler' \in Handler
  <2>1. [handler.row EXCEPT !.status = "needs_sync"] \in Row
    BY <1>1 DEF Row, Status
  <2>. QED  BY <1>1, <2>1, RedropSteps, TurnsShape
<1>3. DataTypes'
  BY <1>1, RedropSteps DEF DataTypes
<1>4. UNCHANGED <<edges, socket, agent, console>> /\ (faults' = faults \/ Failing("save"))
  BY RedropSteps
<1>. QED  BY <1>2, <1>3, <1>4, SavesFrame

LEMMA RenodeShape ==
  ASSUME ShapeInv, Renode
  PROVE  ShapeInv'
<1>1. handler.kind = "update" /\ handler.was \in Lines /\ DataTypes /\ route' \in Route
  BY RenodeSteps DEF ShapeInv, HandlerOK, TypeOK, DataTypes
<1>2. HandlerOK' /\ handler' \in Handler
  BY <1>1, RenodeSteps, TurnsShape, NoHandlerShape
<1>3. DataTypes'
  BY <1>1, RenodeSteps DEF DataTypes
<1>4. UNCHANGED <<edges, socket, agent, console>> /\ (faults' = faults \/ Failing("save"))
  BY RenodeSteps
<1>. QED  BY <1>2, <1>3, <1>4, SavesFrame

LEMMA RerouteShape ==
  ASSUME ShapeInv, Reroute
  PROVE  ShapeInv'
<1>1. handler.kind = "update" /\ handler.was \in Lines /\ DataTypes /\ route \in Route
  BY RerouteSteps DEF ShapeInv, HandlerOK, TypeOK, DataTypes
<1>2. route' \in Route
  BY <1>1, RerouteSteps, RouteFacts DEF Route
<1>3. HandlerOK' /\ handler' \in Handler
  BY <1>1, <1>2, RerouteSteps, TurnsShape
<1>4. DataTypes'
  BY <1>1, <1>2, RerouteSteps DEF DataTypes
<1>5. UNCHANGED <<edges, socket, agent, console>> /\ (faults' = faults \/ Failing("save"))
  BY RerouteSteps
<1>. QED  BY <1>3, <1>4, <1>5, SavesFrame

LEMMA RerowShape ==
  ASSUME ShapeInv, Rerow
  PROVE  ShapeInv'
<1>1. handler.kind \in {"publish", "refresh", "update", "unpublish"} /\ handler.row \in Row /\ DataTypes
  BY RerowSteps DEF ShapeInv, HandlerOK, TypeOK, DataTypes, Doing, Ahead
<1>2. handler.kind = "update" => route' \in Route
  BY RerowSteps DEF ShapeInv, HandlerOK
<1>3. HandlerOK' /\ handler' \in Handler
  BY <1>1, <1>2, RerowSteps, TurnsShape, NoHandlerShape
<1>4. DataTypes'
  BY <1>1, RerowSteps, RowFacts DEF DataTypes, Status
<1>5. UNCHANGED <<edges, socket, agent, console>> /\ (faults' = faults \/ Failing("save"))
  BY RerowSteps
<1>. QED  BY <1>3, <1>4, <1>5, SavesFrame

LEMMA HearingShape ==
  ASSUME ShapeInv, handler.kind # "none", NEW a \in Answer, Hearing(a), UNCHANGED route
  PROVE  HandlerOK' /\ handler' \in Handler
<1>1. \/ handler' = NoHandler
      \/ handler.kind = "publish" /\ \E step \in {"commit", "recall"} : Turns(step, handler.row)
      \/ handler.kind \in {"refresh", "cleanup", "unpublish"}
         /\ \E step \in {"settle", "drop"} : Turns(step, handler.row)
      \/ handler.kind = "update" /\ \E step \in {"settle", "renode", "record"} : Turns(step, handler.row)
      \/ handler.kind = "publish" /\ Turns("redrop", Undone(a))
      \/ handler.kind = "refresh" /\ Turns("record", [handler.row EXCEPT !.stale = TRUE])
      \/ handler.kind = "unpublish"
         /\ Turns("record", [status |-> "needs_sync", stale |-> FALSE, clean |-> Clean(a)])
  BY DEF Hearing
<1>2. Undone(a) \in Row /\ [status |-> "needs_sync", stale |-> FALSE, clean |-> Clean(a)] \in Row
  BY DEF Undone, Row, Status, Clean
<1>3. handler.kind = "refresh" => [handler.row EXCEPT !.stale = TRUE] \in Row
  BY DEF ShapeInv, HandlerOK, Row
<1>4. handler.kind = "update" => route' \in Route
  BY DEF ShapeInv, HandlerOK
<1>. QED  BY <1>1, <1>2, <1>3, <1>4, NoHandlerShape, TurnsShape

LEMMA SocketTyped ==
  ASSUME ShapeInv
  PROVE  queue \in Seq(Request) /\ asked \in BOOLEAN /\ answer \in Answer \cup {None}
         /\ console \in Console /\ ConsoleOK /\ DataTypes /\ faults \in 0..MaxFaults
BY DEF ShapeInv, TypeOK, DataTypes

LEMMA CallsShape ==
  ASSUME ShapeInv, Calls
  PROVE  ShapeInv'
<1>1. UNCHANGED <<edges, agent, console>> /\ UNCHANGED <<node, pub, route>> /\ handler.kind # "none"
  BY CallsSteps DEF database
<1>2. DataTypes' /\ console' \in Console /\ ConsoleOK'
  BY <1>1, SocketTyped DEF DataTypes, ConsoleOK
<1>3. faults' \in 0..MaxFaults
  BY CallsSteps, FailingTyped
<1>4. CASE /\ UNCHANGED <<answer, faults>> /\ queue' = Append(queue, Asked) /\ asked'
           /\ handler' = [handler EXCEPT !.sent = TRUE]
  <2>1. Asked \in Request
    BY DEF Asked, Request
  <2>2. queue' \in Seq(Request) /\ asked' \in BOOLEAN /\ answer' \in Answer \cup {None}
    BY <1>4, <2>1, SocketTyped DEF Calls
  <2>3. handler \in Handler /\ Ahead({"call", "recall", "verify"})
    BY CallsSteps, HandlerFacts
  <2>4. handler' \in Handler /\ HandlerOK'
    BY <1>1, <1>4, <2>3 DEF Handler, HandlerOK, ShapeInv, Ahead, Doing
  <2>. QED  BY <1>1, <1>2, <1>3, <2>2, <2>4, ShapeFrame
<1>5. CASE UNCHANGED socket /\ Hearing(Unavailable)
  <2>1. queue' \in Seq(Request) /\ asked' \in BOOLEAN /\ answer' \in Answer \cup {None}
    BY <1>5, SocketTyped DEF socket
  <2>2. HandlerOK' /\ handler' \in Handler
    BY <1>1, <1>5, HearingShape, UnavailableFacts
  <2>. QED  BY <1>1, <1>2, <1>3, <2>1, <2>2, ShapeFrame
<1>. QED  BY <1>4, <1>5, CallsSteps

LEMMA HearsShape ==
  ASSUME ShapeInv, Hears
  PROVE  ShapeInv'
<1>1. /\ UNCHANGED <<edges, agent, console>> /\ UNCHANGED <<node, pub, route>>
      /\ UNCHANGED <<queue, asked, faults>> /\ answer' = None
  BY HearsSteps DEF database
<1>2. DataTypes' /\ console' \in Console /\ ConsoleOK' /\ queue' \in Seq(Request)
      /\ asked' \in BOOLEAN /\ answer' \in Answer \cup {None} /\ faults' \in 0..MaxFaults
  BY <1>1, SocketTyped DEF DataTypes, ConsoleOK
<1>3. HandlerOK' /\ handler' \in Handler
  BY <1>1, HearsSteps, HearingShape
<1>. QED  BY <1>1, <1>2, <1>3, ShapeFrame

LEMMA TimesOutShape ==
  ASSUME ShapeInv, TimesOut
  PROVE  ShapeInv'
<1>1. /\ UNCHANGED <<edges, agent, console>> /\ UNCHANGED <<node, pub, route>>
      /\ UNCHANGED <<queue, answer>> /\ asked' = FALSE
  BY TimesOutSteps DEF database, TimesOut
<1>2. DataTypes' /\ console' \in Console /\ ConsoleOK' /\ queue' \in Seq(Request)
      /\ asked' \in BOOLEAN /\ answer' \in Answer \cup {None}
  BY <1>1, SocketTyped DEF DataTypes, ConsoleOK
<1>3. faults' \in 0..MaxFaults
  BY SocketTyped, TimesOutSteps, FaultTyped
<1>4. HandlerOK' /\ handler' \in Handler
  BY <1>1, TimesOutSteps, HearingShape, UnavailableFacts
<1>. QED  BY <1>1, <1>2, <1>3, <1>4, ShapeFrame

LEMMA SkipsShape ==
  ASSUME ShapeInv, Skips
  PROVE  ShapeInv'
<1>1. UNCHANGED <<edges, socket, agent, console>> /\ UNCHANGED faults /\ UNCHANGED <<node, pub, route>>
  BY SkipsSteps DEF database
<1>2. DataTypes'
  BY <1>1, SocketTyped DEF DataTypes
<1>. QED  BY <1>1, <1>2, SkipsSteps, NoHandlerShape, SavesFrame

LEMMA StartsShape ==
  ASSUME ShapeInv, NEW kind \in Kind, NEW step, NEW plan, NEW row, Starts(kind, step, plan, row),
         kind \in {"publish", "update"} => plan \in Lines,
         kind \in {"refresh", "update", "unpublish"} => row \in Row,
         kind = "update" => node \in Lines /\ route' \in Route,
         step \notin {"redrop", "record"}
  PROVE  HandlerOK' /\ handler' \in Handler
BY DEF Starts, HandlerOK, Leads, Doing, Ahead, Kind

LEMMA BeginShape ==
  ASSUME ShapeInv, HandlerBegins
  PROVE  ShapeInv'
<1>1. UNCHANGED <<node, route, edges, socket, agent, faults, console>> /\ node # None
  BY BeginSteps
<1>2. DataTypes /\ node \in Lines
  BY <1>1, SocketTyped DEF DataTypes
<1>3. DataTypes'
  BY <1>1, <1>2, BeginSteps, RowFacts DEF DataTypes, Status
<1>4. HandlerOK' /\ handler' \in Handler
  <2>1. \/ \E plan \in Lines : Starts("publish", "mark", plan, pub)
        \/ pub \in Row /\ Starts("refresh", "mark", node, pub)
        \/ pub \in Row /\ route' \in Route
           /\ \E next \in Lines \ {node} : Starts("update", "retarget", next, pub)
        \/ Starts("cleanup", "call", None, pub)
        \/ Starts("sweep", "drop", None, pub)
        \/ Starts("normalize", "settle", None, pub)
        \/ pub \in Row /\ Starts("unpublish", "mark", None, pub)
        \/ Starts("canary", "verify", None, pub)
    BY <1>1, <1>2, BeginSteps DEF DataTypes, Reported
  <2>. QED  BY <1>2, <2>1, StartsShape DEF Kind
<1>. QED  BY <1>1, <1>3, <1>4, SavesFrame

LEMMA ClientLeavesShape ==
  ASSUME ShapeInv, ClientLeaves
  PROVE  ShapeInv'
<1>1. UNCHANGED <<edges, socket, agent, console>> /\ UNCHANGED <<node, pub, route>>
  BY DEF ClientLeaves, database
<1>2. DataTypes' /\ queue' \in Seq(Request) /\ asked' \in BOOLEAN /\ answer' \in Answer \cup {None}
      /\ console' \in Console /\ ConsoleOK'
  BY <1>1, SocketTyped DEF DataTypes, socket, ConsoleOK
<1>3. faults' \in 0..MaxFaults
  BY SocketTyped, FaultTyped DEF ClientLeaves, Fault
<1>4. handler \in Handler /\ handler.kind # "none" /\ HandlerOK
  BY DEF ShapeInv, TypeOK, ClientLeaves
<1>5. handler' \in Handler /\ HandlerOK'
  BY <1>1, <1>4 DEF ClientLeaves, Handler, HandlerOK, Ahead, Doing
<1>. QED  BY <1>1, <1>2, <1>3, <1>5, ShapeFrame

LEMMA ControllerCrashesShape ==
  ASSUME ShapeInv, ControllerCrashes
  PROVE  ShapeInv'
<1>1. UNCHANGED <<edges, agent>> /\ UNCHANGED <<node, pub, route, queue>> /\ handler' = NoHandler
      /\ asked' = FALSE /\ answer' = None /\ console' = NoConsole
  BY DEF ControllerCrashes, database
<1>2. DataTypes' /\ queue' \in Seq(Request) /\ asked' \in BOOLEAN /\ answer' \in Answer \cup {None}
  BY <1>1, SocketTyped DEF DataTypes
<1>3. console' \in Console /\ ConsoleOK'
  BY <1>1 DEF NoConsole, Console, ConsoleOK
<1>4. faults' \in 0..MaxFaults
  BY SocketTyped, FaultTyped DEF ControllerCrashes, Fault
<1>. QED  BY <1>1, <1>2, <1>3, <1>4, NoHandlerShape, ShapeFrame

LEMMA ConsoleReadsShape ==
  ASSUME ShapeInv, ConsoleReads
  PROVE  ShapeInv'
<1>1. UNCHANGED <<edges, socket, agent, faults, handler>> /\ UNCHANGED <<node, pub, route>>
  BY DEF ConsoleReads, database
<1>2. PICK do \in Edit : \E next \in Lines \cup {None} :
            /\ CASE do = "save" -> Unpublished /\ next \in Lines
                 [] do = "delete" -> Unpublished /\ next = None
                 [] do = "tag" -> next = node /\ next # None
            /\ console' = [do |-> do, next |-> next]
  BY DEF ConsoleReads
<1>3. PICK next \in Lines \cup {None} :
            /\ CASE do = "save" -> Unpublished /\ next \in Lines
                 [] do = "delete" -> Unpublished /\ next = None
                 [] do = "tag" -> next = node /\ next # None
            /\ console' = [do |-> do, next |-> next]
  BY <1>2
<1>4. console' \in Console /\ ConsoleOK'
  BY <1>3 DEF Console, ConsoleOK, Edit
<1>5. DataTypes' /\ queue' \in Seq(Request) /\ asked' \in BOOLEAN /\ answer' \in Answer \cup {None}
      /\ faults' \in 0..MaxFaults
  BY <1>1, SocketTyped DEF DataTypes, socket
<1>6. handler' \in Handler /\ HandlerOK'
  BY <1>1 DEF ShapeInv, TypeOK, HandlerOK, Ahead, Doing
<1>. QED  BY <1>1, <1>4, <1>5, <1>6, ShapeFrame

LEMMA ConsoleWritesShape ==
  ASSUME ShapeInv, ConsoleWrites
  PROVE  ShapeInv'
<1>1. UNCHANGED <<route, edges, socket, agent, handler>> /\ console' = NoConsole
  BY DEF ConsoleWrites
<1>2. console.next \in Lines \cup {None}
  BY SocketTyped DEF Console
<1>3. DataTypes' /\ faults' \in 0..MaxFaults
  BY <1>1, <1>2, SocketTyped, FaultTyped DEF ConsoleWrites, DataTypes, Fault
<1>4. console' \in Console /\ ConsoleOK'
  BY <1>1 DEF NoConsole, Console, ConsoleOK
<1>5. queue' \in Seq(Request) /\ asked' \in BOOLEAN /\ answer' \in Answer \cup {None}
  BY <1>1, SocketTyped DEF socket
<1>6. handler' \in Handler /\ HandlerOK'
  BY <1>1 DEF ShapeInv, TypeOK, HandlerOK, Ahead, Doing
<1>. QED  BY <1>1, <1>3, <1>4, <1>5, <1>6, ShapeFrame

LEMMA ShapeInit ==
  ASSUME Init
  PROVE  ShapeInv
<1>1. Idle \in Agent /\ None \in File /\ NoHandler \in Handler /\ NoConsole \in Console
  BY DEF Idle, Agent, File, Result, NoHandler, Handler, NoConsole, Console
<1>2. TypeOK
  <2>1. <<>> \in Seq(Request) /\ 0 \in 0..MaxFaults
    BY FaultsAssumption
  <2>2. [e \in Edges |-> None] \in [Edges -> File]
    BY <1>1
  <2>3. node = None /\ pub = None /\ route = None /\ found = FALSE /\ agent = Idle
        /\ files = [e \in Edges |-> None] /\ loaded = [e \in Edges |-> None]
        /\ queue = <<>> /\ asked = FALSE /\ answer = None /\ faults = 0
        /\ handler = NoHandler /\ console = NoConsole
    BY DEF Init, AgentInit
  <2>. QED  BY <1>1, <2>1, <2>2, <2>3 DEF TypeOK
<1>. QED  BY <1>2 DEF Init, AgentInit, ShapeInv, HandlerOK, AgentOK, ConsoleOK, NoHandler, NoConsole,
               Idle, Doing, Ahead

LEMMA ShapeStutter ==
  ASSUME ShapeInv, UNCHANGED vars
  PROVE  ShapeInv'
BY DEF ShapeInv, TypeOK, HandlerOK, AgentOK, ConsoleOK, Doing, Ahead, vars, database, edges, socket

LEMMA ShapeStep ==
  ASSUME ShapeInv, [Next]_vars
  PROVE  ShapeInv'
<1>1. CASE HandlerBegins
  BY <1>1, BeginShape
<1>2. CASE HandlerRuns
  BY <1>2, MarkShape, StageShape, CommitShape, SettleShape, RetargetShape, RelineShape, DropShape,
     RedropShape, RenodeShape, RerouteShape, RerowShape, CallsShape, SkipsShape, HearsShape,
     TimesOutShape DEF HandlerRuns
<1>3. CASE Failures
  BY <1>3, ClientLeavesShape, ControllerCrashesShape DEF Failures
<1>4. CASE ConsoleReads \/ ConsoleWrites
  BY <1>4, ConsoleReadsShape, ConsoleWritesShape
<1>5. CASE AgentNext /\ UNCHANGED <<handler, console>>
  BY <1>5, AgentShape
<1>. QED  BY <1>1, <1>2, <1>3, <1>4, <1>5, ShapeStutter DEF Next

(* Every variable keeps its type, whatever the requests, the console and   *)
(* the failures do.                                                        *)
THEOREM PublicationTypeCorrect == Spec => []TypeOK
<1>1. Init => ShapeInv
  BY ShapeInit
<1>2. ShapeInv /\ [Next]_vars => ShapeInv'
  BY ShapeStep
<1>3. ShapeInv => TypeOK
  BY DEF ShapeInv
<1>. QED  BY <1>1, <1>2, <1>3, PTL DEF Spec

-----------------------------------------------------------------------------
\* What each step of the agent does

(* The answer goes to the request that was asked last, if it still waits.  *)
Replies(bwg, nosla) ==
  \/ /\ asked /\ queue' = <<>> /\ ~asked' /\ answer' \in Answer
     /\ answer'["bwg"] = bwg /\ answer'["nosla"] = nosla
  \/ (~asked \/ queue' # <<>>) /\ UNCHANGED <<asked, answer>>

(* The request goes on at this point.                                      *)
Moves(at, bwg) ==
  /\ agent'.do = agent.do /\ agent'.new = agent.new /\ agent'.old = agent.old
  /\ agent'.at = at /\ agent'.bwg = bwg
  /\ UNCHANGED <<asked, answer>>

(* One edge is left so; the other one is left alone.                       *)
Only(e, o) ==
  /\ EdgesTyped' /\ files'[e] = o.file /\ loaded'[e] = o.loaded
  /\ \A other \in Edges : other # e => files'[other] = files[other] /\ loaded'[other] = loaded[other]

Counted(good) ==
  \/ good /\ faults' = faults
  \/ faults < MaxFaults /\ faults' = faults + 1

LEMMA RepliesFacts ==
  ASSUME ShapeInv, NEW bwg \in Result, NEW nosla \in Result, Answers(bwg, nosla)
  PROVE  Replies(bwg, nosla)
<1>1. asked \in BOOLEAN /\ answer \in Answer \cup {None}
  BY AgentFacts
<1>. QED  BY <1>1, AnswersTyped DEF Replies

LEMMA OnlyFacts ==
  ASSUME ShapeInv, NEW e \in Edges, NEW o, Leaves(e, o), o.file \in File, o.loaded \in File
  PROVE  Only(e, o)
<1>1. EdgesTyped
  BY AgentFacts
<1>. QED  BY <1>1, LeavesTyped DEF Only

LEMMA TakesSteps ==
  ASSUME ShapeInv, Takes
  PROVE  /\ agent = Idle /\ queue # <<>> /\ queue' = Tail(queue) /\ Head(queue) \in Request
         /\ UNCHANGED <<database, edges, faults>>
         /\ \/ /\ node = None \/ (Head(queue) = "publish" /\ ~Staged)
               /\ agent' = Idle /\ Replies("failed", "failed")
            \/ /\ node \in Lines /\ (Head(queue) = "publish" => Staged)
               /\ Manifest \in Fragment /\ Manifest.lines = node
               /\ agent'.new = Manifest
               /\ \/ Head(queue) = "canary" /\ agent'.do = "update" /\ agent'.at = "probe"
                     /\ agent'.old = Manifest
                  \/ Head(queue) # "canary" /\ agent'.do = Head(queue) /\ agent'.at = "bwg"
               /\ UNCHANGED <<asked, answer>>
<1>1. agent = Idle /\ queue # <<>> /\ queue' = Tail(queue) /\ node \in Lines \cup {None}
      /\ found \in BOOLEAN /\ queue \in Seq(Request)
  BY AgentFacts DEF ShapeInv, AgentOK, TypeOK, Takes
<1>2. Head(queue) \in Request
  BY <1>1, QueueFacts
<1>3. CASE /\ node = None \/ (Head(queue) = "publish" /\ ~Staged)
           /\ Answers("failed", "failed") /\ UNCHANGED agent
  <2>1. Replies("failed", "failed")
    BY <1>3, RepliesFacts DEF Result
  <2>2. agent' = Idle
    BY <1>1, <1>3
  <2>. QED  BY <1>1, <1>2, <1>3, <2>1, <2>2 DEF Takes
<1>4. CASE /\ ~(node = None \/ (Head(queue) = "publish" /\ ~Staged))
           /\ agent' = IF Head(queue) = "canary"
                       THEN [Idle EXCEPT !.do = "update", !.at = "probe",
                                         !.old = Manifest, !.new = Manifest]
                       ELSE [Idle EXCEPT !.do = Head(queue), !.new = Manifest]
           /\ UNCHANGED <<asked, answer>>
  <2>1. node \in Lines /\ (Head(queue) = "publish" => Staged)
        /\ Manifest \in Fragment /\ Manifest.lines = node
    BY <1>1, <1>4 DEF Manifest, Fragment
  <2>2. /\ agent'.new = Manifest
        /\ \/ Head(queue) = "canary" /\ agent'.do = "update" /\ agent'.at = "probe"
              /\ agent'.old = Manifest
           \/ Head(queue) # "canary" /\ agent'.do = Head(queue) /\ agent'.at = "bwg"
    BY <1>4 DEF Idle
  <2>. QED  BY <1>1, <1>2, <1>4, <2>1, <2>2 DEF Takes
<1>. QED  BY <1>3, <1>4 DEF Takes

LEMMA ProbesSteps ==
  ASSUME ShapeInv, Probes
  PROVE  /\ agent.do = "update" /\ agent.at = "probe" /\ agent.new \in Fragment /\ agent.old \in Fragment
         /\ UNCHANGED <<database, edges, queue, faults>>
         /\ \/ agent' = Idle /\ Replies("synced", "synced")
            \/ /\ agent'.do = "update" /\ agent'.at = "bwg" /\ agent'.old = agent.old
               /\ agent'.new.lines = agent.new.lines
               /\ UNCHANGED <<asked, answer>>
<1>1. agent.do = "update" /\ agent.at = "probe" /\ agent.new \in Fragment /\ agent.old \in Fragment
      /\ agent \in Agent
  BY AgentFacts DEF ShapeInv, AgentOK, Probes
<1>2. CASE Answers("synced", "synced") /\ agent' = Idle
  BY <1>1, <1>2, RepliesFacts DEF Result, Probes
<1>3. CASE /\ agent' = [agent EXCEPT !.at = "bwg", !.new.found = TRUE]
           /\ UNCHANGED <<asked, answer>>
  <2>1. agent' = [agent EXCEPT !.at = "bwg", !.new = [agent.new EXCEPT !.found = TRUE]]
    BY <1>1, <1>3 DEF Agent
  <2>2. [agent.new EXCEPT !.found = TRUE].lines = agent.new.lines
    BY <1>1 DEF Fragment
  <2>. DEFINE fragment == [agent.new EXCEPT !.found = TRUE]
  <2>3. agent'.do = "update" /\ agent'.at = "bwg" /\ agent'.old = agent.old /\ agent'.new = fragment
    <3>. HIDE DEF fragment
    <3>1. agent' = [agent EXCEPT !.at = "bwg", !.new = fragment]
      BY <2>1 DEF fragment
    <3>. QED  BY <1>1, <3>1 DEF Agent
  <2>. QED  BY <1>1, <1>3, <2>2, <2>3 DEF Probes
<1>. QED  BY <1>2, <1>3 DEF Probes

LEMMA OnBWGSteps ==
  ASSUME ShapeInv, OnBWG
  PROVE  \E o \in Outcome :
           /\ Helps("bwg", Verb, agent.new, o) /\ Only("bwg", o)
           /\ Counted(o = Runs("bwg", Verb, agent.new))
           /\ agent.at = "bwg" /\ agent.do # "idle" /\ agent.new \in Fragment
           /\ UNCHANGED <<database, found, queue>>
           /\ \/ /\ agent.do = "unpublish" \/ o.result = "synced"
                 /\ Moves("nosla", o.result)
              \/ /\ agent.do # "unpublish" /\ o.result # "synced"
                 /\ agent' = Idle /\ Replies(o.result, "failed")
<1>1. agent \in Agent /\ Verb \in {"publish", "unpublish"} /\ agent.new \in Fragment /\ EdgesTyped
      /\ agent.at = "bwg" /\ agent.do # "idle"
  BY AgentFacts DEF ShapeInv, AgentOK, OnBWG
<1>2. PICK o \in Outcome :
        /\ Invoke("bwg", Verb, agent.new, o)
        /\ IF agent.do = "unpublish" \/ o.result = "synced"
           THEN /\ agent' = [agent EXCEPT !.at = "nosla", !.bwg = o.result]
                /\ UNCHANGED <<asked, answer>>
           ELSE Answers(o.result, "failed") /\ agent' = Idle
  BY DEF OnBWG
<1>3. Helps("bwg", Verb, agent.new, o) /\ Leaves("bwg", o) /\ Counted(o = Runs("bwg", Verb, agent.new))
  BY <1>1, <1>2, InvokeSteps DEF Counted
<1>4. o.file \in File /\ o.loaded \in File /\ o.result \in Result
  BY DEF Outcome
<1>5. Only("bwg", o)
  BY <1>3, <1>4, OnlyFacts DEF Edges
<1>6. CASE agent.do = "unpublish" \/ o.result = "synced"
  <2>1. Moves("nosla", o.result)
    BY <1>1, <1>2, <1>6 DEF Moves, Agent
  <2>. QED  BY <1>1, <1>3, <1>5, <1>6, <2>1 DEF OnBWG
<1>7. CASE ~(agent.do = "unpublish" \/ o.result = "synced")
  <2>1. agent' = Idle /\ Replies(o.result, "failed")
    BY <1>2, <1>4, <1>7, RepliesFacts DEF Result
  <2>. QED  BY <1>1, <1>3, <1>5, <1>7, <2>1 DEF OnBWG
<1>. QED  BY <1>6, <1>7

LEMMA OnNOSLASteps ==
  ASSUME ShapeInv, OnNOSLA
  PROVE  \E o \in Outcome :
           /\ Helps("nosla", Verb, agent.new, o) /\ Only("nosla", o)
           /\ Counted(o = Runs("nosla", Verb, agent.new))
           /\ agent.at = "nosla" /\ agent.do # "idle" /\ agent.new \in Fragment
           /\ UNCHANGED <<database, found, queue>>
           /\ \/ agent.do # "unpublish" /\ o.result # "synced" /\ Moves("undo", agent.bwg)
              \/ agent.do = "update" /\ o.result = "synced" /\ Moves("store", agent.bwg)
              \/ /\ agent.do = "unpublish" \/ (agent.do # "update" /\ o.result = "synced")
                 /\ agent' = Idle /\ Replies(agent.bwg, o.result)
<1>1. agent \in Agent /\ Verb \in {"publish", "unpublish"} /\ agent.new \in Fragment /\ EdgesTyped
      /\ agent.at = "nosla" /\ agent.do # "idle" /\ agent.bwg \in Result
  BY AgentFacts DEF ShapeInv, AgentOK, OnNOSLA
<1>2. PICK o \in Outcome :
        /\ Invoke("nosla", Verb, agent.new, o)
        /\ CASE agent.do # "unpublish" /\ o.result # "synced" ->
                  /\ agent' = [agent EXCEPT !.at = "undo"]
                  /\ UNCHANGED <<asked, answer>>
             [] agent.do = "update" /\ o.result = "synced" ->
                  /\ agent' = [agent EXCEPT !.at = "store"]
                  /\ UNCHANGED <<asked, answer>>
             [] OTHER -> Answers(agent.bwg, o.result) /\ agent' = Idle
  BY DEF OnNOSLA
<1>3. Helps("nosla", Verb, agent.new, o) /\ Leaves("nosla", o)
      /\ Counted(o = Runs("nosla", Verb, agent.new))
  BY <1>1, <1>2, InvokeSteps DEF Counted
<1>4. o.file \in File /\ o.loaded \in File /\ o.result \in Result
  BY DEF Outcome
<1>5. Only("nosla", o)
  BY <1>3, <1>4, OnlyFacts DEF Edges
<1>6. CASE agent.do # "unpublish" /\ o.result # "synced"
  <2>1. Moves("undo", agent.bwg)
    BY <1>1, <1>2, <1>6 DEF Moves, Agent
  <2>. QED  BY <1>1, <1>3, <1>5, <1>6, <2>1 DEF OnNOSLA
<1>7. CASE agent.do = "update" /\ o.result = "synced"
  <2>1. Moves("store", agent.bwg)
    BY <1>1, <1>2, <1>7 DEF Moves, Agent
  <2>. QED  BY <1>1, <1>3, <1>5, <1>7, <2>1 DEF OnNOSLA
<1>8. CASE agent.do = "unpublish" \/ (agent.do # "update" /\ o.result = "synced")
  <2>1. agent' = Idle /\ Replies(agent.bwg, o.result)
    BY <1>1, <1>2, <1>4, <1>8, RepliesFacts
  <2>. QED  BY <1>1, <1>3, <1>5, <1>8, <2>1 DEF OnNOSLA
<1>. QED  BY <1>6, <1>7, <1>8

LEMMA UndoesBWGSteps ==
  ASSUME ShapeInv, UndoesBWG
  PROVE  \E o \in Outcome :
           /\ \/ agent.do = "publish" /\ Helps("bwg", "unpublish", agent.new, o)
              \/ /\ agent.do \in {"update", "restore"} /\ agent.old \in Fragment
                 /\ Helps("bwg", "publish", agent.old, o)
           /\ Only("bwg", o) /\ Counted(TRUE)
           /\ agent.at = "undo" /\ agent.new \in Fragment /\ UNCHANGED <<database, found, queue>>
           /\ agent' = Idle /\ Replies(o.result, "failed")
<1>1. agent.do \in {"publish", "update", "restore"} /\ agent.new \in Fragment
      /\ (agent.do # "publish" => agent.old \in Fragment)
  BY AgentFacts DEF ShapeInv, AgentOK, UndoesBWG
<1>2. PICK o \in Outcome :
        /\ IF agent.do = "publish"
           THEN Invoke("bwg", "unpublish", agent.new, o)
           ELSE Invoke("bwg", "publish", agent.old, o)
        /\ Answers(o.result, "failed")
  BY DEF UndoesBWG
<1>3. /\ \/ agent.do = "publish" /\ Helps("bwg", "unpublish", agent.new, o)
         \/ agent.do # "publish" /\ Helps("bwg", "publish", agent.old, o)
      /\ Leaves("bwg", o) /\ Counted(TRUE)
  BY <1>2, InvokeSteps DEF Counted
<1>4. o.file \in File /\ o.loaded \in File /\ o.result \in Result
  BY DEF Outcome
<1>5. Only("bwg", o)
  BY <1>3, <1>4, OnlyFacts DEF Edges
<1>6. Replies(o.result, "failed")
  BY <1>2, <1>4, RepliesFacts DEF Result
<1>. QED  BY <1>1, <1>3, <1>5, <1>6 DEF UndoesBWG

LEMMA StoresSteps ==
  ASSUME ShapeInv, Stores
  PROVE  /\ agent.do = "update" /\ agent.at = "store" /\ agent.new \in Fragment /\ agent.old \in Fragment
         /\ UNCHANGED <<database, files, loaded, queue>>
         /\ \/ agent' = Idle /\ Replies("synced", "synced") /\ UNCHANGED faults
            \/ /\ agent'.do = "restore" /\ agent'.at = "bwg"
               /\ agent'.new = agent.old /\ agent'.old = agent.new
               /\ UNCHANGED <<asked, answer>> /\ faults < MaxFaults /\ faults' = faults + 1
<1>1. agent.do = "update" /\ agent.new \in Fragment /\ agent.old \in Fragment /\ agent \in Agent
  BY AgentFacts DEF ShapeInv, AgentOK, Stores
<1>2. CASE found' = TRUE /\ Answers("synced", "synced") /\ agent' = Idle /\ UNCHANGED faults
  BY <1>1, <1>2, RepliesFacts DEF Stores, Result
<1>3. CASE /\ Fault("save") /\ UNCHANGED <<found, asked, answer>>
           /\ agent' = [agent EXCEPT !.do = "restore", !.at = "bwg",
                                     !.new = agent.old, !.old = agent.new]
  BY <1>1, <1>3 DEF Stores, Agent, Fault
<1>. QED  BY <1>2, <1>3 DEF Stores

(* When the agent stops an edge may keep a fragment that is not loaded.    *)
LEMMA AgentRestartsSteps ==
  ASSUME ShapeInv, AgentRestarts
  PROVE  /\ agent # Idle \/ queue # <<>>
         /\ faults < MaxFaults /\ faults' = faults + 1 /\ UNCHANGED database
         /\ agent' = Idle /\ queue' = <<>> /\ ~asked'
         /\ asked => answer' = Unavailable
         /\ ~asked => answer' = answer
         /\ \/ /\ agent.do # "idle" /\ agent.at \in {"bwg", "undo"}
               /\ \E o : /\ Only("bwg", o)
                         /\ \/ Helps("bwg", "publish", agent.new, o) /\ agent.at = "bwg"
                               /\ agent.do # "unpublish"
                            \/ Helps("bwg", "unpublish", agent.new, o)
                               /\ (agent.at = "bwg" => agent.do = "unpublish")
                               /\ (agent.at = "undo" => agent.do = "publish")
                            \/ Helps("bwg", "publish", agent.old, o) /\ agent.at = "undo"
                               /\ agent.do # "publish"
                            \/ o.file \in {agent.new, agent.old} /\ o.loaded = loaded["bwg"]
                               /\ (agent.at = "bwg" => o.file = agent.new /\ agent.do # "unpublish")
                               /\ (agent.at = "undo" => o.file = agent.old /\ agent.do # "publish")
                            \/ o.file = None /\ files["bwg"] = agent.new /\ o.loaded = loaded["bwg"]
                               /\ (agent.at = "bwg" => agent.do = "unpublish")
                               /\ (agent.at = "undo" => agent.do = "publish")
            \/ /\ agent.do # "idle" /\ agent.at = "nosla"
               /\ \E o : Only("nosla", o) /\ Helps("nosla", Verb, agent.new, o)
            \/ UNCHANGED <<files, loaded>>
<1>1. ShapeInv /\ EdgesTyped /\ agent \in Agent /\ Verb \in {"publish", "unpublish"}
      /\ agent.new \in File /\ agent.old \in File /\ AgentOK
  BY AgentFacts DEF ShapeInv
<1>2. /\ agent # Idle \/ queue # <<>>
      /\ faults < MaxFaults /\ faults' = faults + 1 /\ UNCHANGED database
      /\ agent' = Idle /\ queue' = <<>> /\ ~asked'
      /\ asked => answer' = Unavailable
      /\ ~asked => answer' = answer
  BY <1>1 DEF AgentRestarts, Fault, Idle
<1>3. CASE agent.do # "idle" /\ agent.at \in {"bwg", "undo"}
  <2>. DEFINE do == IF agent.at = "undo" /\ agent.do = "publish" THEN "unpublish" ELSE Verb
              m == IF agent.at = "undo" /\ agent.do # "publish" THEN agent.old ELSE agent.new
  <2>1. do \in {"publish", "unpublish"} /\ m \in File /\ m # None
    BY <1>1, <1>3, NoneFacts DEF AgentOK
  <2>2. PICK o \in Killed("bwg", do, m) : Leaves("bwg", o)
    BY <1>3 DEF AgentRestarts
  <2>3. /\ agent.at = "bwg" => do = Verb /\ m = agent.new /\ (do = "unpublish" <=> agent.do = "unpublish")
        /\ agent.at = "undo" /\ agent.do = "publish" => do = "unpublish" /\ m = agent.new
        /\ agent.at = "undo" /\ agent.do # "publish" => do = "publish" /\ m = agent.old
    BY <1>1, <1>3 DEF AgentOK, Verb
  <2>. HIDE DEF do, m
  <2>4. \/ Helps("bwg", do, m, o)
        \/ do = "publish" /\ o.file = m /\ o.loaded = loaded["bwg"]
        \/ do = "unpublish" /\ files["bwg"] = m /\ o.file = None /\ o.loaded = loaded["bwg"]
    BY <2>1, KilledHelps
  <2>5. o.file \in File /\ o.loaded \in File
    <3>1. Helps("bwg", do, m, o) => o.file \in File /\ o.loaded \in File
      BY <1>1, <2>1, HelpsTyped DEF Edges
    <3>2. loaded["bwg"] \in File /\ None \in File
      BY <1>1 DEF EdgesTyped, File, Edges
    <3>. QED  BY <2>1, <2>4, <3>1, <3>2
  <2>6. Only("bwg", o)
    BY <2>2, <2>5, OnlyFacts DEF Edges
  <2>7. CASE agent.at = "bwg"
    BY <1>2, <1>3, <2>1, <2>3, <2>4, <2>6, <2>7
  <2>8. CASE agent.at = "undo" /\ agent.do = "publish"
    BY <1>2, <1>3, <2>1, <2>3, <2>4, <2>6, <2>8
  <2>9. CASE agent.at = "undo" /\ agent.do # "publish"
    BY <1>2, <1>3, <2>1, <2>3, <2>4, <2>6, <2>9
  <2>. QED  BY <1>3, <2>7, <2>8, <2>9
<1>4. CASE agent.at = "nosla"
  <2>1. PICK o \in Dropped(Verb, agent.new) : Leaves("nosla", o)
    BY <1>4 DEF AgentRestarts
  <2>2. Helps("nosla", Verb, agent.new, o)
    BY <1>1, DroppedHelps
  <2>3. Only("nosla", o)
    BY <1>1, <2>1, <2>2, HelpsTyped, OnlyFacts DEF Edges
  <2>4. agent.do # "idle"
    BY <1>1, <1>4 DEF AgentOK, Idle
  <2>. QED  BY <1>2, <1>4, <2>2, <2>3, <2>4
<1>5. CASE ~(agent.do # "idle" /\ agent.at \in {"bwg", "undo"}) /\ agent.at # "nosla"
  <2>1. UNCHANGED <<files, loaded>>
    <3>1. agent.at = "store" => UNCHANGED <<files, loaded>>
      BY DEF AgentRestarts
    <3>2. agent.at # "store" => UNCHANGED edges
      BY <1>5 DEF AgentRestarts
    <3>. QED  BY <3>1, <3>2 DEF edges
  <2>. QED  BY <1>2, <2>1
<1>. QED  BY <1>3, <1>4, <1>5

-----------------------------------------------------------------------------
\* Calls and their answers

Quiet == agent = Idle /\ queue = <<>>

Does(request) == IF request = "canary" THEN {"update", "restore"} ELSE {request}

(* A handler that waits for an answer asked last, and an answer comes when *)
(* the agent has nothing left to do.                                       *)
SocketOK ==
  /\ asked \/ answer # None => handler.sent
  /\ answer # None => ~asked /\ Quiet
  /\ asked /\ queue = <<>> => agent.do \in Does(Asked)
  /\ asked /\ queue # <<>> => Last(queue) = Asked

(* What the agent says of an edge is so.                                   *)
EdgesOK ==
  /\ agent.at = "nosla" /\ agent.bwg \in Removed => files["bwg"] = None
  /\ agent.at = "nosla" /\ agent.do # "unpublish" =>
       agent.bwg = "synced" /\ files["bwg"] = agent.new
  /\ agent.at = "store" => \A e \in Edges : files[e] = agent.new
  /\ answer # None => \A e \in Edges : answer[e] \in Removed => files[e] = None
  /\ answer # None /\ Asked = "publish" /\ Synced(answer) =>
       \E m \in Fragment : \A e \in Edges : files[e] = m

CallInv == ShapeInv /\ SocketOK /\ EdgesOK

CallOK == SocketOK /\ EdgesOK

(* Nobody waits any more.                                                  *)
LEMMA NobodyWaits ==
  ASSUME CallInv, UNCHANGED <<edges, queue, agent>>, ~asked', answer' = None
  PROVE  CallOK'
BY DEF CallInv, CallOK, SocketOK, EdgesOK, edges

LEMMA SavingCalls ==
  ASSUME CallInv, ~handler.sent, UNCHANGED <<edges, socket, agent>>
  PROVE  CallOK'
<1>1. ~asked /\ answer = None
  BY DEF CallInv, SocketOK
<1>. QED  BY <1>1, NobodyWaits DEF socket

LEMMA WaitingCalls ==
  ASSUME CallInv, UNCHANGED <<edges, socket, agent>>, handler'.sent = handler.sent,
         handler'.todo = handler.todo, handler'.kind = handler.kind
  PROVE  CallOK'
BY DEF CallInv, CallOK, SocketOK, EdgesOK, edges, socket, Asked, Quiet

LEMMA AppendFacts ==
  ASSUME queue \in Seq(Request), NEW request \in Request
  PROVE  Append(queue, request) # <<>> /\ Last(Append(queue, request)) = request
BY DEF Last

LEMMA TailFacts ==
  ASSUME queue \in Seq(Request), queue # <<>>
  PROVE  /\ Tail(queue) = <<>> => Last(queue) = Head(queue)
         /\ Tail(queue) # <<>> => Last(Tail(queue)) = Last(queue)
<1>1. Len(queue) \in Nat \ {0} /\ Len(Tail(queue)) = Len(queue) - 1
  OBVIOUS
<1>2. CASE Tail(queue) = <<>>
  <2>1. Len(queue) = 1
    BY <1>1, <1>2
  <2>. QED  BY <1>2, <2>1 DEF Last
<1>3. CASE Tail(queue) # <<>>
  <2>1. Len(queue) > 1
    BY <1>1, <1>3
  <2>2. Tail(queue)[Len(queue) - 1] = queue[Len(queue)]
    BY <1>1, <2>1
  <2>. QED  BY <1>1, <1>3, <2>1, <2>2 DEF Last
<1>. QED  BY <1>2, <1>3

LEMMA CallsCalls ==
  ASSUME CallInv, Calls
  PROVE  CallOK'
<1>1. ShapeInv /\ ~handler.sent /\ UNCHANGED <<edges, agent>>
  BY CallsSteps DEF CallInv
<1>2. CASE UNCHANGED socket
  BY <1>1, <1>2, SavingCalls
<1>3. CASE /\ UNCHANGED answer /\ queue' = Append(queue, Asked) /\ asked'
           /\ handler' = [handler EXCEPT !.sent = TRUE]
  <2>1. answer = None
    BY <1>1 DEF CallInv, SocketOK
  <2>2. handler \in Handler
    BY <1>1, CallsSteps, HandlerFacts
  <2>3. handler'.sent /\ Asked' = Asked
    BY <1>3, <2>2 DEF Asked, Handler
  <2>4. Asked \in Request /\ queue \in Seq(Request)
    BY <1>1, AgentFacts DEF Asked, Request
  <2>5. queue' # <<>> /\ Last(queue') = Asked
    BY <1>3, <2>4, AppendFacts
  <2>. QED  BY <1>1, <1>3, <2>1, <2>3, <2>5 DEF CallInv, CallOK, SocketOK, EdgesOK, edges
<1>. QED  BY <1>1, <1>2, <1>3, CallsSteps

LEMMA HandlerCalls ==
  ASSUME CallInv, HandlerBegins \/ HandlerRuns \/ Failures \/ ConsoleReads \/ ConsoleWrites
  PROVE  CallOK'
<1>. USE DEF CallInv
<1>1. CASE HandlerBegins
  <2>1. ~handler.sent
    BY <1>1 DEF HandlerBegins, PublishBegins, RefreshBegins, UpdateBegins, CleanupBegins,
           NormalizeBegins, UnpublishBegins, CanaryBegins, Free, ShapeInv, HandlerOK, NoHandler
  <2>. QED  BY <1>1, <2>1, BeginSteps, SavingCalls
<1>2. CASE Mark \/ Stage \/ Commit \/ Settle
  BY <1>2, MarkSteps, StageSteps, CommitSteps, SettleSteps, SavingCalls
<1>3. CASE Retarget \/ Reline \/ Drop \/ Redrop
  BY <1>3, RetargetSteps, RelineSteps, DropSteps, RedropSteps, SavingCalls
<1>4. CASE Renode \/ Reroute \/ Rerow \/ Skips
  BY <1>4, RenodeSteps, RerouteSteps, RerowSteps, SkipsSteps, SavingCalls
<1>5. CASE Calls
  BY <1>5, CallsCalls
<1>6. CASE Hears
  <2>1. asked \in BOOLEAN /\ ~asked
    BY <1>6, AgentFacts DEF SocketOK, Hears
  <2>. QED  BY <1>6, <2>1, HearsSteps, NobodyWaits
<1>7. CASE TimesOut
  <2>1. answer = None
    BY <1>7 DEF SocketOK, TimesOut
  <2>. QED  BY <1>7, <2>1, TimesOutSteps, NobodyWaits
<1>8. CASE ClientLeaves
  <2>1. handler \in Handler
    BY DEF ShapeInv, TypeOK
  <2>2. handler'.sent = handler.sent /\ handler'.todo = handler.todo /\ handler'.kind = handler.kind
    BY <1>8, <2>1 DEF ClientLeaves, Handler
  <2>. QED  BY <1>8, <2>2, WaitingCalls DEF ClientLeaves
<1>9. CASE ControllerCrashes
  BY <1>9, NobodyWaits DEF ControllerCrashes
<1>10. CASE ConsoleReads \/ ConsoleWrites
  BY <1>10, WaitingCalls DEF ConsoleReads, ConsoleWrites
<1>. QED  BY <1>1, <1>2, <1>3, <1>4, <1>5, <1>6, <1>7, <1>8, <1>9, <1>10
          DEF HandlerRuns, Failures

(* The agent moves only while it has something to do.                      *)
LEMMA AgentBusy ==
  ASSUME ShapeInv, AgentNext
  PROVE  ~Quiet
<1>1. AgentOK
  BY DEF ShapeInv
<1>2. Takes \/ OnBWG \/ AgentRestarts => agent.do # "idle" \/ queue # <<>>
  BY DEF Takes, OnBWG, AgentRestarts
<1>3. Probes \/ Stores => agent.do # "idle"
  BY <1>1 DEF Probes, Stores, AgentOK
<1>4. OnNOSLA \/ UndoesBWG => agent.do # "idle"
  BY <1>1 DEF OnNOSLA, UndoesBWG, AgentOK, Idle
<1>5. agent.do # "idle" \/ queue # <<>>
  BY <1>2, <1>3, <1>4 DEF AgentNext, AgentRuns
<1>. QED  BY <1>5 DEF Quiet, Idle

(* And so no answer waits to be heard.                                     *)
LEMMA NoAnswer ==
  ASSUME CallInv, AgentNext
  PROVE  answer = None
BY AgentBusy DEF CallInv, SocketOK

(* An answer that is given is the one to what was asked.                   *)
LEMMA RepliesSocket ==
  ASSUME CallInv, answer = None, UNCHANGED handler, agent' = Idle, UNCHANGED queue,
         NEW bwg, NEW nosla, Replies(bwg, nosla)
  PROVE  /\ SocketOK'
         /\ answer' # None => asked /\ queue = <<>> /\ agent.do \in Does(Asked)
                              /\ answer'["bwg"] = bwg /\ answer'["nosla"] = nosla
<1>1. Asked' = Asked
  BY DEF Asked
<1>2. CASE /\ asked /\ queue' = <<>> /\ ~asked' /\ answer' \in Answer
           /\ answer'["bwg"] = bwg /\ answer'["nosla"] = nosla
  BY <1>1, <1>2 DEF CallInv, SocketOK, Quiet
<1>3. CASE (~asked \/ queue' # <<>>) /\ UNCHANGED <<asked, answer>>
  BY <1>1, <1>3 DEF CallInv, SocketOK, Quiet
<1>. QED  BY <1>2, <1>3 DEF Replies

LEMMA WaitingSocket ==
  ASSUME CallInv, answer = None, UNCHANGED <<handler, asked, answer, queue>>,
         agent'.do = agent.do \/ (agent.do = "update" /\ agent'.do = "restore")
  PROVE  SocketOK'
<1>1. Asked' = Asked
  BY DEF Asked
<1>2. asked /\ queue = <<>> => agent'.do \in Does(Asked)
  BY DEF CallInv, SocketOK, Does, Asked
<1>. QED  BY <1>1, <1>2 DEF CallInv, SocketOK

LEMMA TakesCalls ==
  ASSUME CallInv, Takes, UNCHANGED handler
  PROVE  CallOK'
<1>1. ShapeInv /\ answer = None /\ Asked' = Asked
  BY NoAnswer DEF CallInv, AgentNext, AgentRuns, Asked
<1>2. queue \in Seq(Request) /\ queue # <<>> /\ queue' = Tail(queue)
  BY <1>1, AgentFacts, TakesSteps
<1>3. /\ queue' = <<>> => Last(queue) = Head(queue)
      /\ queue' # <<>> => Last(queue') = Last(queue)
  BY <1>2, TailFacts
<1>4. asked => Last(queue) = Asked /\ handler.sent
  BY <1>2 DEF CallInv, SocketOK
<1>5. agent = Idle /\ UNCHANGED files
  BY <1>1, TakesSteps DEF edges
<1>6. CASE agent' = Idle /\ Replies("failed", "failed")
  <2>1. CASE /\ asked /\ queue' = <<>> /\ ~asked' /\ answer' \in Answer
             /\ answer'["bwg"] = "failed" /\ answer'["nosla"] = "failed"
    <3>1. SocketOK'
      BY <1>4, <1>6, <2>1 DEF SocketOK, Quiet
    <3>2. \A e \in Edges : answer'[e] = "failed"
      BY <2>1 DEF Edges
    <3>3. EdgesOK'
      BY <1>6, <3>2 DEF EdgesOK, Idle, Synced, Removed, Edges
    <3>. QED  BY <3>1, <3>3 DEF CallOK
  <2>2. CASE (~asked \/ queue' # <<>>) /\ UNCHANGED <<asked, answer>>
    BY <1>1, <1>3, <1>4, <1>6, <2>2 DEF CallOK, SocketOK, EdgesOK, Idle
  <2>. QED  BY <1>6, <2>1, <2>2 DEF Replies
<1>7. CASE /\ \/ Head(queue) = "canary" /\ agent'.do = "update" /\ agent'.at = "probe"
              \/ Head(queue) # "canary" /\ agent'.do = Head(queue) /\ agent'.at = "bwg"
           /\ UNCHANGED <<asked, answer>>
  <2>1. agent'.do \in Does(Head(queue))
    BY <1>7 DEF Does
  <2>2. SocketOK'
    BY <1>1, <1>3, <1>4, <1>7, <2>1 DEF SocketOK
  <2>3. EdgesOK'
    BY <1>1, <1>7 DEF EdgesOK
  <2>. QED  BY <2>2, <2>3 DEF CallOK
<1>. QED  BY <1>1, <1>6, <1>7, TakesSteps

LEMMA ProbesCalls ==
  ASSUME CallInv, Probes, UNCHANGED handler
  PROVE  CallOK'
<1>1. ShapeInv /\ answer = None /\ Asked' = Asked
  BY NoAnswer DEF CallInv, AgentNext, AgentRuns, Asked
<1>2. agent.do = "update" /\ UNCHANGED <<files, queue>>
  BY <1>1, ProbesSteps DEF edges
<1>3. CASE agent' = Idle /\ Replies("synced", "synced")
  <2>1. SocketOK' /\ (answer' # None => "update" \in Does(Asked))
    BY <1>1, <1>2, <1>3, RepliesSocket
  <2>2. answer' # None => \A e \in Edges : answer'[e] = "synced"
    BY <1>1, <1>2, <1>3, RepliesSocket DEF Edges
  <2>3. EdgesOK'
    BY <1>1, <1>3, <2>1, <2>2 DEF EdgesOK, Idle, Removed, Does
  <2>. QED  BY <2>1, <2>3 DEF CallOK
<1>4. CASE /\ agent'.do = "update" /\ agent'.at = "bwg" /\ UNCHANGED <<asked, answer>>
  <2>1. SocketOK'
    BY <1>1, <1>2, <1>4, WaitingSocket
  <2>. QED  BY <1>1, <1>4, <2>1 DEF CallOK, EdgesOK
<1>. QED  BY <1>1, <1>3, <1>4, ProbesSteps

(* A helper tells the truth.                                               *)
LEMMA HelpsTruth ==
  ASSUME NEW e, NEW do \in {"publish", "unpublish"}, NEW m, NEW o, Helps(e, do, m, o)
  PROVE  /\ o.result \in Removed => do = "unpublish" /\ o.file = None
         /\ o.result = "synced" => do = "publish" /\ Put(e, m, o)
         /\ do = "publish" /\ o.result # "synced" => o.result = "failed"
BY DEF Helps, Kept, Put, Took, Removed

LEMMA OnBWGCalls ==
  ASSUME CallInv, OnBWG, UNCHANGED handler
  PROVE  CallOK'
<1>1. ShapeInv /\ answer = None /\ Asked' = Asked /\ Verb \in {"publish", "unpublish"}
      /\ (Verb = "unpublish" <=> agent.do = "unpublish")
  BY NoAnswer, AgentFacts DEF CallInv, AgentNext, AgentRuns, Asked, Verb
<1>2. PICK o \in Outcome :
           /\ Helps("bwg", Verb, agent.new, o) /\ Only("bwg", o)
           /\ agent.at = "bwg" /\ agent.do # "idle" /\ UNCHANGED queue
           /\ \/ /\ agent.do = "unpublish" \/ o.result = "synced"
                 /\ Moves("nosla", o.result)
              \/ /\ agent.do # "unpublish" /\ o.result # "synced"
                 /\ agent' = Idle /\ Replies(o.result, "failed")
  BY <1>1, OnBWGSteps
<1>3. /\ o.result \in Removed => o.file = None
      /\ o.result = "synced" => Put("bwg", agent.new, o)
      /\ agent.do # "unpublish" /\ o.result # "synced" => o.result = "failed"
  BY <1>1, <1>2, HelpsTruth
<1>4. files'["bwg"] = o.file
  BY <1>2 DEF Only
<1>5. CASE (agent.do = "unpublish" \/ o.result = "synced") /\ Moves("nosla", o.result)
  <2>1. SocketOK'
    BY <1>1, <1>2, <1>5, WaitingSocket DEF Moves
  <2>2. EdgesOK'
    BY <1>1, <1>3, <1>4, <1>5 DEF EdgesOK, Moves, Put
  <2>. QED  BY <2>1, <2>2 DEF CallOK
<1>6. CASE /\ agent.do # "unpublish" /\ o.result # "synced"
           /\ agent' = Idle /\ Replies(o.result, "failed")
  <2>1. SocketOK' /\ (answer' # None => answer'["bwg"] = "failed" /\ answer'["nosla"] = "failed")
    BY <1>1, <1>2, <1>3, <1>6, RepliesSocket
  <2>2. EdgesOK'
    BY <1>6, <2>1 DEF EdgesOK, Idle, Removed, Edges, Synced
  <2>. QED  BY <2>1, <2>2 DEF CallOK
<1>. QED  BY <1>2, <1>5, <1>6

LEMMA OnNOSLACalls ==
  ASSUME CallInv, OnNOSLA, UNCHANGED handler
  PROVE  CallOK'
<1>1. ShapeInv /\ answer = None /\ Asked' = Asked /\ Verb \in {"publish", "unpublish"}
      /\ (Verb = "unpublish" <=> agent.do = "unpublish")
  BY NoAnswer, AgentFacts DEF CallInv, AgentNext, AgentRuns, Asked, Verb
<1>2. PICK o \in Outcome :
           /\ Helps("nosla", Verb, agent.new, o) /\ Only("nosla", o)
           /\ agent.at = "nosla" /\ agent.do # "idle" /\ agent.new \in Fragment /\ UNCHANGED queue
           /\ \/ agent.do # "unpublish" /\ o.result # "synced" /\ Moves("undo", agent.bwg)
              \/ agent.do = "update" /\ o.result = "synced" /\ Moves("store", agent.bwg)
              \/ /\ agent.do = "unpublish" \/ (agent.do # "update" /\ o.result = "synced")
                 /\ agent' = Idle /\ Replies(agent.bwg, o.result)
  BY <1>1, OnNOSLASteps
<1>3. /\ o.result \in Removed => o.file = None
      /\ o.result = "synced" => agent.do # "unpublish" /\ Put("nosla", agent.new, o)
  BY <1>1, <1>2, HelpsTruth
<1>4. /\ files'["nosla"] = o.file /\ files'["bwg"] = files["bwg"]
      /\ agent.bwg \in Removed => files["bwg"] = None
      /\ agent.do # "unpublish" => agent.bwg = "synced" /\ files["bwg"] = agent.new
  BY <1>2 DEF Only, CallInv, EdgesOK, Edges
<1>5. CASE agent.do # "unpublish" /\ o.result # "synced" /\ Moves("undo", agent.bwg)
  <2>1. SocketOK'
    BY <1>1, <1>2, <1>5, WaitingSocket DEF Moves
  <2>. QED  BY <1>1, <1>5, <2>1 DEF CallOK, EdgesOK, Moves
<1>6. CASE agent.do = "update" /\ o.result = "synced" /\ Moves("store", agent.bwg)
  <2>1. SocketOK'
    BY <1>1, <1>2, <1>6, WaitingSocket DEF Moves
  <2>2. \A e \in Edges : files'[e] = agent.new
    BY <1>3, <1>4, <1>6 DEF Edges, Put
  <2>. QED  BY <1>1, <1>6, <2>1, <2>2 DEF CallOK, EdgesOK, Moves
<1>7. CASE /\ agent.do = "unpublish" \/ (agent.do # "update" /\ o.result = "synced")
           /\ agent' = Idle /\ Replies(agent.bwg, o.result)
  <2>1. SocketOK' /\ (answer' # None => agent.do \in Does(Asked)
                                        /\ answer'["bwg"] = agent.bwg /\ answer'["nosla"] = o.result)
    BY <1>1, <1>2, <1>7, RepliesSocket
  <2>2. answer' # None => \A e \in Edges : answer'[e] \in Removed => files'[e] = None
    BY <1>3, <1>4, <2>1 DEF Edges
  <2>3. answer' # None /\ Asked = "publish" /\ Synced(answer') =>
          \E m \in Fragment : \A e \in Edges : files'[e] = m
    <3>1. SUFFICES ASSUME answer' # None, Synced(answer')
                   PROVE  \E m \in Fragment : \A e \in Edges : files'[e] = m
      OBVIOUS
    <3>2. o.result = "synced"
      BY <2>1, <3>1 DEF Synced, Edges
    <3>3. \A e \in Edges : files'[e] = agent.new
      BY <1>3, <1>4, <3>2 DEF Edges, Put
    <3>. QED  BY <1>2, <3>3
  <2>. QED  BY <1>1, <1>7, <2>1, <2>2, <2>3 DEF CallOK, EdgesOK, Idle
<1>. QED  BY <1>2, <1>5, <1>6, <1>7

LEMMA UndoesBWGCalls ==
  ASSUME CallInv, UndoesBWG, UNCHANGED handler
  PROVE  CallOK'
<1>1. ShapeInv /\ answer = None /\ Asked' = Asked
  BY NoAnswer DEF CallInv, AgentNext, AgentRuns, Asked
<1>2. PICK o \in Outcome :
           /\ \/ Helps("bwg", "unpublish", agent.new, o)
              \/ Helps("bwg", "publish", agent.old, o)
           /\ Only("bwg", o) /\ UNCHANGED queue
           /\ agent' = Idle /\ Replies(o.result, "failed")
  BY <1>1, UndoesBWGSteps
<1>3. o.result \in Removed => o.file = None
  BY <1>2, HelpsTruth
<1>4. SocketOK' /\ (answer' # None => answer'["bwg"] = o.result /\ answer'["nosla"] = "failed")
  BY <1>1, <1>2, RepliesSocket
<1>5. files'["bwg"] = o.file
  BY <1>2 DEF Only
<1>6. answer' # None => \A e \in Edges : answer'[e] \in Removed => files'[e] = None
  BY <1>3, <1>4, <1>5 DEF Edges, Removed
<1>7. answer' # None => ~Synced(answer')
  BY <1>4 DEF Synced, Edges
<1>. QED  BY <1>2, <1>4, <1>6, <1>7 DEF CallOK, EdgesOK, Idle

LEMMA StoresCalls ==
  ASSUME CallInv, Stores, UNCHANGED handler
  PROVE  CallOK'
<1>1. ShapeInv /\ answer = None /\ Asked' = Asked
  BY NoAnswer DEF CallInv, AgentNext, AgentRuns, Asked
<1>2. agent.do = "update" /\ UNCHANGED <<files, queue>>
  BY <1>1, StoresSteps
<1>3. CASE agent' = Idle /\ Replies("synced", "synced")
  <2>1. SocketOK' /\ (answer' # None => "update" \in Does(Asked))
    BY <1>1, <1>2, <1>3, RepliesSocket
  <2>2. answer' # None => \A e \in Edges : answer'[e] = "synced"
    BY <1>1, <1>2, <1>3, RepliesSocket DEF Edges
  <2>3. EdgesOK'
    BY <1>1, <1>3, <2>1, <2>2 DEF EdgesOK, Idle, Removed, Does
  <2>. QED  BY <2>1, <2>3 DEF CallOK
<1>4. CASE agent'.do = "restore" /\ agent'.at = "bwg" /\ UNCHANGED <<asked, answer>>
  <2>1. SocketOK'
    BY <1>1, <1>2, <1>4, WaitingSocket
  <2>. QED  BY <1>1, <1>4, <2>1 DEF CallOK, EdgesOK
<1>. QED  BY <1>1, <1>3, <1>4, StoresSteps

LEMMA AgentRestartsCalls ==
  ASSUME CallInv, AgentRestarts, UNCHANGED handler
  PROVE  CallOK'
<1>1. ShapeInv /\ answer = None
  BY NoAnswer DEF CallInv, AgentNext
<1>2. agent' = Idle /\ queue' = <<>> /\ ~asked' /\ answer' \in {None, Unavailable}
      /\ (answer' # None => asked)
  BY <1>1, AgentRestartsSteps
<1>3. SocketOK'
  BY <1>2 DEF CallInv, SocketOK, Quiet
<1>4. answer' # None => \A e \in Edges : answer'[e] = "failed"
  BY <1>2 DEF Unavailable
<1>5. EdgesOK'
  BY <1>2, <1>4 DEF EdgesOK, Idle, Removed, Synced, Edges
<1>. QED  BY <1>3, <1>5 DEF CallOK

LEMMA CallInit ==
  ASSUME Init
  PROVE  CallInv
BY ShapeInit DEF CallInv, Init, AgentInit, SocketOK, EdgesOK, Idle

LEMMA CallStep ==
  ASSUME CallInv, [Next]_vars
  PROVE  CallInv'
<1>1. ShapeInv'
  BY ShapeStep DEF CallInv
<1>2. CASE HandlerBegins \/ HandlerRuns \/ Failures \/ ConsoleReads \/ ConsoleWrites
  BY <1>1, <1>2, HandlerCalls DEF CallInv, CallOK
<1>3. CASE AgentNext /\ UNCHANGED <<handler, console>>
  BY <1>1, <1>3, TakesCalls, ProbesCalls, OnBWGCalls, OnNOSLACalls, UndoesBWGCalls, StoresCalls,
     AgentRestartsCalls DEF CallInv, CallOK, AgentNext, AgentRuns
<1>4. CASE UNCHANGED vars
  <2>1. CallOK'
    BY <1>4, WaitingCalls DEF vars
  <2>. QED  BY <1>1, <2>1 DEF CallInv, CallOK
<1>. QED  BY <1>2, <1>3, <1>4 DEF Next

-----------------------------------------------------------------------------
\* Nothing is forgotten

Empty == \A e \in Edges : files[e] = None
Clear == Quiet /\ Empty

(* A row that is not settled is not clean, and a saved one is.             *)
PubOK ==
  pub # None =>
    /\ pub.status \in {"publishing", "published", "unpublishing"} => ~pub.clean
    /\ pub.status = "saved" => pub.clean

(* Where a handler is, and what the database says of it.                   *)
PhaseOK ==
  /\ Doing("publish", {"mark", "stage"}) => route = None
  /\ Doing("publish", {"mark"}) => ~Reported("published")
  /\ Doing("publish", {"stage", "call", "commit", "settle", "recall", "redrop", "record"}) =>
       Reported("publishing")
  /\ Doing("refresh", {"mark"}) \/ Doing("update", {"retarget", "mark"})
       \/ Doing("unpublish", {"mark"}) => Reported("published") /\ handler.row = pub
  /\ Doing("refresh", {"call", "settle", "record"}) => Reported("publishing")
  /\ Doing("update", {"reline", "call", "settle", "reroute", "remark", "recall", "record"}) =>
       Reported("publishing")
  /\ handler.kind = "update" /\ handler.todo = RenodeOnly => Reported("published")
  /\ handler.kind = "update" /\ handler.todo \in {RenodeThenRecord, RestoreLines} =>
       Reported("publishing")
  /\ Ahead({"verify"}) => Reported("published")
  /\ Doing("unpublish", {"call", "drop", "settle", "record"}) => Reported("unpublishing")
  /\ handler.kind = "cleanup" => pub # None /\ ~pub.clean
  /\ handler.kind = "sweep" => pub = None \/ pub.clean
  /\ handler.kind = "normalize" => pub # None /\ pub.clean
  /\ Ahead({"settle"}) /\ handler.kind \in {"cleanup", "sweep", "unpublish", "normalize"} =>
       route = None
  /\ Doing("cleanup", {"drop", "settle"}) \/ Doing("unpublish", {"drop", "settle"}) => Clear

(* The row that a handler may go back to or record.                        *)
RecordOK ==
  /\ handler.kind \in {"refresh", "update"} => handler.row.status = "published" /\ ~handler.row.clean
  /\ Doing("publish", {"redrop", "record"}) \/ Doing("unpublish", {"record"}) =>
       /\ handler.row.status \in {"failed", "needs_sync"}
       /\ handler.row.clean => Clear

(* A server that is being published is not deleted.                        *)
PeaceOK ==
  /\ console.do = "delete" => handler.kind = "none" /\ Unpublished
  /\ handler.kind # "none" => node # None

(* What Accounted says, and that nothing is under way that could undo it.  *)
ClearOK == pub = None \/ pub.clean \/ node = None => Clear
RouteOK == Unpublished \/ node = None => route = None

AccountOK == PubOK /\ PhaseOK /\ RecordOK /\ PeaceOK /\ ClearOK /\ RouteOK
AccountedInv == CallInv /\ AccountOK

(* A request that ends leaves nothing to say of where it is.               *)
LEMMA RestsOK ==
  ASSUME handler' = NoHandler
  PROVE  PhaseOK' /\ RecordOK'
<1>1. RenodeOnly # <<>> /\ RenodeThenRecord # <<>> /\ RestoreLines # <<>>
  BY UpdateHeads2 DEF RenodeOnly, RenodeThenRecord, RestoreLines, Leads
<1>. QED  BY <1>1, NoHandlerShape DEF PhaseOK, RecordOK, NoHandler

(* The agent has something to do only where an edge need not be clear.     *)
LEMMA AgentAccounts ==
  ASSUME AccountedInv, AgentNext, UNCHANGED <<handler, console>>
  PROVE  AccountOK'
<1>1. ~Quiet
  BY AgentBusy DEF AccountedInv, CallInv
<1>2. UNCHANGED <<node, pub, route>>
  BY AgentFrame DEF database
<1>3. ~Clear
  BY <1>1 DEF Clear
<1>4. PubOK' /\ PeaceOK' /\ ClearOK' /\ RouteOK'
  BY <1>2, <1>3 DEF AccountedInv, AccountOK, PubOK, PeaceOK, ClearOK, RouteOK, Unpublished
<1>5. PhaseOK'
  BY <1>2, <1>3 DEF AccountedInv, AccountOK, PhaseOK, Doing, Ahead, Reported
<1>6. RecordOK'
  BY <1>2, <1>3 DEF AccountedInv, AccountOK, RecordOK, Doing, Ahead
<1>. QED  BY <1>4, <1>5, <1>6 DEF AccountOK

LEMMA ClearFrame ==
  ASSUME UNCHANGED <<edges, queue, agent>>
  PROVE  Clear' <=> Clear
BY DEF Clear, Quiet, Empty, edges

(* The console waits while a handler runs, except where it may overlap,    *)
(* and a server is not deleted then.                                       *)
LEMMA PeaceFrame ==
  ASSUME AccountedInv, handler.kind # "none", UNCHANGED console, node' # None
  PROVE  PeaceOK'
BY DEF AccountedInv, AccountOK, PeaceOK

LEMMA MarkAccounts ==
  ASSUME AccountedInv, Mark
  PROVE  AccountOK'
<1>1. ShapeInv /\ Clear' = Clear /\ UNCHANGED <<node, route, console>> /\ handler.kind # "none"
      /\ Ahead({"mark"}) /\ node # None
  BY MarkSteps, ClearFrame DEF AccountedInv, CallInv, AccountOK, PeaceOK, socket, Clear, Quiet, Empty, edges
<1>2. PeaceOK'
  BY <1>1, PeaceFrame
<1>3. /\ Doing("publish", {"mark"}) => route = None /\ ~Reported("published")
      /\ Doing("refresh", {"mark"}) \/ Doing("update", {"retarget", "mark"})
           \/ Doing("unpublish", {"mark"}) => Reported("published") /\ handler.row = pub
      /\ handler.kind \in {"refresh", "update"} => handler.row.status = "published" /\ ~handler.row.clean
  BY DEF AccountedInv, AccountOK, PhaseOK, RecordOK, Doing, Ahead
<1>4. CASE ~handler.cancelled /\ handler.kind = "publish" /\ Turns("stage", handler.row)
           /\ pub' = NewRow("publishing")
  <2>1. pub'.status = "publishing" /\ ~pub'.clean /\ pub' # None
    BY <1>4, RowFacts, NoneFacts DEF Status
  <2>2. route = None
    BY <1>1, <1>3, <1>4 DEF Doing
  <2>3. PhaseOK'
    BY <1>1, <1>4, <2>1, <2>2 DEF PhaseOK, Turns, Leads, Doing, Ahead, Reported
  <2>4. RecordOK'
    BY <1>4 DEF RecordOK, Turns, Leads, Doing, Ahead
  <2>. QED  BY <1>1, <1>2, <2>1, <2>2, <2>3, <2>4 DEF AccountOK, PubOK, ClearOK, RouteOK, Unpublished
<1>5. CASE handler.kind = "refresh" /\ Turns("call", handler.row) /\ pub' = Pending("publishing")
  <2>1. pub'.status = "publishing" /\ ~pub'.clean /\ pub' # None
    BY <1>1, <1>5, RowFacts, NoneFacts DEF Status, ShapeInv, HandlerOK
  <2>2. PhaseOK'
    BY <1>1, <1>5, <2>1 DEF PhaseOK, Turns, Leads, Doing, Ahead, Reported
  <2>3. RecordOK'
    BY <1>3, <1>5 DEF RecordOK, Turns, Leads, Doing, Ahead
  <2>. QED  BY <1>1, <1>2, <2>1, <2>2, <2>3 DEF AccountOK, PubOK, ClearOK, RouteOK, Unpublished
<1>6. CASE handler.kind = "update" /\ Turns("reline", handler.row) /\ pub' = Pending("publishing")
  <2>1. pub'.status = "publishing" /\ ~pub'.clean /\ pub' # None
    BY <1>1, <1>6, RowFacts, NoneFacts DEF Status, ShapeInv, HandlerOK
  <2>2. handler'.todo # RenodeOnly
    BY <1>6, UpdateHeads2 DEF Turns, Leads, RenodeOnly
  <2>3. PhaseOK'
    BY <1>1, <1>6, <2>1, <2>2 DEF PhaseOK, Turns, Leads, Doing, Ahead, Reported
  <2>4. RecordOK'
    BY <1>3, <1>6 DEF RecordOK, Turns, Leads, Doing, Ahead
  <2>. QED  BY <1>1, <1>2, <2>1, <2>3, <2>4 DEF AccountOK, PubOK, ClearOK, RouteOK, Unpublished
<1>7. CASE handler.kind = "unpublish" /\ Turns("call", handler.row) /\ pub' = Pending("unpublishing")
  <2>1. pub'.status = "unpublishing" /\ ~pub'.clean /\ pub' # None
    BY <1>1, <1>7, RowFacts, NoneFacts DEF Status, ShapeInv, HandlerOK
  <2>2. PhaseOK'
    BY <1>1, <1>7, <2>1 DEF PhaseOK, Turns, Leads, Doing, Ahead, Reported
  <2>3. RecordOK'
    BY <1>7 DEF RecordOK, Turns, Leads, Doing, Ahead
  <2>. QED  BY <1>1, <1>2, <2>1, <2>2, <2>3 DEF AccountOK, PubOK, ClearOK, RouteOK, Unpublished
<1>8. CASE UNCHANGED pub /\ handler' = NoHandler
  BY <1>1, <1>2, <1>8, RestsOK
     DEF AccountedInv, AccountOK, PubOK, ClearOK, RouteOK, Unpublished
<1>9. CASE UNCHANGED pub /\ handler.kind = "update" /\ Turns("renode", handler.row)
           /\ handler'.todo = RenodeOnly
  <2>1. Reported("published")
    BY <1>1, <1>3, <1>9 DEF Doing, Ahead
  <2>2. PhaseOK'
    BY <1>9, <2>1, ThreeRenodes DEF PhaseOK, Turns, Leads, Doing, Ahead, Reported
  <2>3. RecordOK'
    BY <1>3, <1>9 DEF RecordOK, Turns, Leads, Doing, Ahead
  <2>. QED  BY <1>1, <1>2, <1>9, <2>2, <2>3
            DEF AccountedInv, AccountOK, PubOK, ClearOK, RouteOK, Unpublished
<1>. QED  BY <1>1, <1>4, <1>5, <1>6, <1>7, <1>8, <1>9, MarkSteps

(* What a step that saves finds.                                           *)
LEMMA SavingFacts ==
  ASSUME AccountedInv, handler.kind # "none", UNCHANGED <<edges, socket, agent, console>>, node' # None
  PROVE  ShapeInv /\ (Clear' <=> Clear) /\ node # None /\ PeaceOK'
BY ClearFrame, PeaceFrame DEF AccountedInv, CallInv, AccountOK, PeaceOK, socket

LEMMA StageAccounts ==
  ASSUME AccountedInv, Stage
  PROVE  AccountOK'
<1>1. /\ handler.kind = "publish" /\ Ahead({"stage"})
      /\ UNCHANGED <<node, pub, edges, socket, agent, console>>
  BY StageSteps DEF AccountedInv, CallInv
<1>2. ShapeInv /\ (Clear' <=> Clear) /\ node # None /\ PeaceOK'
  BY <1>1, SavingFacts DEF AccountedInv, AccountOK, PeaceOK
<1>3. Reported("publishing") /\ route = None
  BY <1>1 DEF AccountedInv, AccountOK, PhaseOK, Doing, Ahead
<1>4. PubOK' /\ ClearOK' /\ RouteOK'
  BY <1>1, <1>2, <1>3 DEF AccountedInv, AccountOK, PubOK, ClearOK, RouteOK, Unpublished, Reported
<1>5. PhaseOK'
  BY <1>1, <1>3, StageSteps, <1>2 DEF PhaseOK, Turns, Leads, Doing, Ahead, Reported
<1>6. RecordOK'
  BY <1>1, <1>2, StageSteps, RowFacts DEF RecordOK, Turns, Leads, Doing, Ahead, Status
<1>. QED  BY <1>2, <1>4, <1>5, <1>6 DEF AccountOK

LEMMA CommitAccounts ==
  ASSUME AccountedInv, Commit
  PROVE  AccountOK'
<1>1. /\ handler.kind = "publish" /\ Ahead({"commit"})
      /\ UNCHANGED <<node, pub, edges, socket, agent, console>>
  BY CommitSteps DEF AccountedInv, CallInv
<1>2. ShapeInv /\ (Clear' <=> Clear) /\ node # None /\ PeaceOK'
  BY <1>1, SavingFacts DEF AccountedInv, AccountOK, PeaceOK
<1>3. Reported("publishing")
  BY <1>1 DEF AccountedInv, AccountOK, PhaseOK, Doing, Ahead
<1>4. PubOK' /\ ClearOK' /\ RouteOK'
  BY <1>1, <1>2, <1>3 DEF AccountedInv, AccountOK, PubOK, ClearOK, RouteOK, Unpublished, Reported
<1>5. PhaseOK'
  BY <1>1, <1>3, CommitSteps, <1>2 DEF PhaseOK, Turns, Leads, Doing, Ahead, Reported
<1>6. RecordOK'
  BY <1>1, <1>2, CommitSteps DEF RecordOK, Turns, Leads, Doing, Ahead
<1>. QED  BY <1>2, <1>4, <1>5, <1>6 DEF AccountOK

LEMMA SettleAccounts ==
  ASSUME AccountedInv, Settle
  PROVE  AccountOK'
<1>1. /\ handler.kind \in Kind \ {"canary"} /\ Ahead({"settle"}) /\ handler.kind # "none"
      /\ UNCHANGED <<node, route, edges, socket, agent, console>>
  BY SettleSteps DEF AccountedInv, CallInv, Kind
<1>2. ShapeInv /\ (Clear' <=> Clear) /\ node # None /\ PeaceOK'
  BY <1>1, SavingFacts DEF AccountedInv, AccountOK, PeaceOK
<1>3. /\ handler.kind \in {"publish", "refresh", "update"} => Reported("publishing")
      /\ handler.kind \in {"cleanup", "sweep", "unpublish", "normalize"} => route = None /\ Clear
      /\ handler.kind = "update" => handler.row.status = "published" /\ ~handler.row.clean
      /\ handler.kind = "refresh" => handler.row.status = "published" /\ ~handler.row.clean
  BY <1>1 DEF AccountedInv, AccountOK, PhaseOK, RecordOK, ClearOK, Doing, Ahead
<1>4. CASE handler.kind \in {"publish", "refresh"} /\ Turns("verify", handler.row)
           /\ pub' = NewRow("published")
  <2>1. pub'.status = "published" /\ ~pub'.clean /\ pub' # None
    BY <1>4, RowFacts, NoneFacts DEF Status
  <2>2. PubOK' /\ ClearOK' /\ RouteOK'
    BY <1>1, <1>2, <2>1 DEF PubOK, ClearOK, RouteOK, Unpublished
  <2>3. PhaseOK'
    BY <1>4, <2>1 DEF PhaseOK, Turns, Leads, Doing, Ahead, Reported
  <2>4. RecordOK'
    BY <1>3, <1>4 DEF RecordOK, Turns, Leads, Doing, Ahead
  <2>. QED  BY <1>2, <2>2, <2>3, <2>4 DEF AccountOK
<1>5. CASE handler' = NoHandler /\ pub' = NewRow("published")
  <2>1. pub'.status = "published" /\ ~pub'.clean /\ pub' # None
    BY <1>5, RowFacts, NoneFacts DEF Status
  <2>2. PubOK' /\ ClearOK' /\ RouteOK'
    BY <1>1, <1>2, <2>1 DEF PubOK, ClearOK, RouteOK, Unpublished
  <2>. QED  BY <1>2, <1>5, <2>2, RestsOK DEF AccountOK
<1>6. CASE handler.kind \in {"cleanup", "sweep", "unpublish", "normalize"}
           /\ handler' = NoHandler /\ pub' = NewRow("saved")
  <2>1. pub'.status = "saved" /\ pub'.clean
    BY <1>6, RowFacts DEF Status
  <2>2. PubOK' /\ ClearOK' /\ RouteOK'
    BY <1>1, <1>2, <1>3, <1>6, <2>1 DEF PubOK, ClearOK, RouteOK, Unpublished
  <2>. QED  BY <1>2, <1>6, <2>2, RestsOK DEF AccountOK
<1>7. CASE UNCHANGED pub
  <2>1. PubOK' /\ ClearOK' /\ RouteOK'
    BY <1>1, <1>2, <1>7 DEF AccountedInv, AccountOK, PubOK, ClearOK, RouteOK, Unpublished
  <2>2. CASE handler' = NoHandler
    BY <1>2, <2>1, <2>2, RestsOK DEF AccountOK
  <2>3. CASE handler.kind = "publish" /\ Turns("recall", handler.row)
    <3>1. PhaseOK'
      BY <1>3, <1>7, <2>3 DEF PhaseOK, Turns, Leads, Doing, Ahead, Reported
    <3>2. RecordOK'
      BY <2>3 DEF RecordOK, Turns, Leads, Doing, Ahead
    <3>. QED  BY <1>2, <2>1, <3>1, <3>2 DEF AccountOK
  <2>4. CASE handler.kind = "update" /\ Turns("renode", handler.row) /\ handler'.todo = RestoreLines
    <3>1. PhaseOK'
      BY <1>3, <1>7, <2>4, ThreeRenodes DEF PhaseOK, Turns, Leads, Doing, Ahead, Reported
    <3>2. RecordOK'
      BY <1>3, <2>4 DEF RecordOK, Turns, Leads, Doing, Ahead
    <3>. QED  BY <1>2, <2>1, <3>1, <3>2 DEF AccountOK
  <2>5. \/ handler' = NoHandler
        \/ handler.kind = "publish" /\ Turns("recall", handler.row)
        \/ handler.kind = "update" /\ Turns("renode", handler.row) /\ handler'.todo = RestoreLines
        \/ pub' = NewRow("published") /\ handler.kind \in {"publish", "refresh"} /\ Turns("verify", handler.row)
    BY <1>2, SettleSteps
  <2>. QED  BY <1>4, <2>2, <2>3, <2>4, <2>5
<1>. QED  BY <1>2, <1>4, <1>5, <1>6, <1>7, SettleSteps

LEMMA RetargetAccounts ==
  ASSUME AccountedInv, Retarget
  PROVE  AccountOK'
<1>1. /\ handler.kind = "update" /\ Ahead({"retarget"}) /\ ShapeInv
      /\ UNCHANGED <<pub, route, edges, socket, agent, console>>
  BY RetargetSteps DEF AccountedInv, CallInv
<1>2. node' # None
  BY <1>1, RetargetSteps, NoneFacts DEF ShapeInv, HandlerOK, AccountedInv, AccountOK, PeaceOK
<1>3. (Clear' <=> Clear) /\ node # None /\ PeaceOK'
  BY <1>1, <1>2, SavingFacts
<1>4. Reported("published") /\ handler.row = pub
  BY <1>1 DEF AccountedInv, AccountOK, PhaseOK, Doing, Ahead
<1>5. PubOK' /\ ClearOK' /\ RouteOK'
  BY <1>1, <1>2, <1>3 DEF AccountedInv, AccountOK, PubOK, ClearOK, RouteOK, Unpublished
<1>6. CASE handler' = NoHandler
  BY <1>3, <1>5, <1>6, RestsOK DEF AccountOK
<1>7. CASE Turns("mark", handler.row)
  <2>1. handler'.todo \notin {RenodeOnly, RenodeThenRecord, RestoreLines}
    BY <1>7, UpdateHeads2 DEF Turns, Leads, RenodeOnly, RenodeThenRecord, RestoreLines
  <2>2. PhaseOK'
    BY <1>1, <1>4, <1>7, <2>1 DEF PhaseOK, Turns, Leads, Doing, Ahead, Reported
  <2>3. RecordOK'
    BY <1>1, <1>7 DEF AccountedInv, AccountOK, RecordOK, Turns, Leads, Doing, Ahead
  <2>. QED  BY <1>3, <1>5, <2>2, <2>3 DEF AccountOK
<1>. QED  BY <1>1, <1>6, <1>7, RetargetSteps

LEMMA RelineAccounts ==
  ASSUME AccountedInv, Reline
  PROVE  AccountOK'
<1>1. /\ handler.kind = "update" /\ Ahead({"reline"}) /\ ShapeInv
      /\ UNCHANGED <<node, pub, edges, socket, agent, console>>
  BY RelineSteps DEF AccountedInv, CallInv
<1>2. (Clear' <=> Clear) /\ node # None /\ PeaceOK'
  BY <1>1, SavingFacts DEF AccountedInv, AccountOK, PeaceOK
<1>3. Reported("publishing")
  BY <1>1 DEF AccountedInv, AccountOK, PhaseOK, Doing, Ahead
<1>4. PubOK' /\ ClearOK' /\ RouteOK'
  BY <1>1, <1>2, <1>3 DEF AccountedInv, AccountOK, PubOK, ClearOK, RouteOK, Unpublished, Reported
<1>5. RecordOK'
  BY <1>1, RelineSteps DEF AccountedInv, AccountOK, RecordOK, Turns, Leads, Doing, Ahead
<1>6. CASE Turns("call", handler.row)
  <2>1. handler'.todo \notin {RenodeOnly, RenodeThenRecord, RestoreLines}
    BY <1>6, UpdateHeads2 DEF Turns, Leads, RenodeOnly, RenodeThenRecord, RestoreLines
  <2>2. PhaseOK'
    BY <1>1, <1>3, <1>6, <2>1 DEF PhaseOK, Turns, Leads, Doing, Ahead, Reported
  <2>. QED  BY <1>2, <1>4, <1>5, <2>2 DEF AccountOK
<1>7. CASE Turns("renode", handler.row) /\ handler'.todo = RenodeThenRecord
  <2>2. PhaseOK'
    BY <1>1, <1>3, <1>7, ThreeRenodes DEF PhaseOK, Turns, Leads, Doing, Ahead, Reported
  <2>. QED  BY <1>2, <1>4, <1>5, <2>2 DEF AccountOK
<1>. QED  BY <1>1, <1>6, <1>7, RelineSteps

LEMMA DropAccounts ==
  ASSUME AccountedInv, Drop
  PROVE  AccountOK'
<1>1. /\ handler.kind \in {"cleanup", "sweep", "unpublish"} /\ Ahead({"drop"}) /\ ShapeInv
      /\ UNCHANGED <<node, pub, edges, socket, agent, console>>
  BY DropSteps DEF AccountedInv, CallInv
<1>2. (Clear' <=> Clear) /\ node # None /\ PeaceOK'
  BY <1>1, SavingFacts DEF AccountedInv, AccountOK, PeaceOK
<1>3. /\ handler.kind = "unpublish" => Reported("unpublishing") /\ Clear
      /\ handler.kind = "cleanup" => pub # None /\ ~pub.clean /\ Clear
      /\ handler.kind = "sweep" => pub = None \/ pub.clean
  BY <1>1 DEF AccountedInv, AccountOK, PhaseOK, Doing, Ahead
<1>4. PubOK' /\ ClearOK' /\ RouteOK'
  <2>1. route' = route \/ route' = None
    BY <1>1, DropSteps
  <2>. QED  BY <1>1, <1>2, <2>1 DEF AccountedInv, AccountOK, PubOK, ClearOK, RouteOK, Unpublished
<1>5. CASE handler' = NoHandler
  BY <1>2, <1>4, <1>5, RestsOK DEF AccountOK
<1>6. CASE Turns("settle", handler.row) /\ route' = None
  <2>1. PhaseOK'
    BY <1>1, <1>2, <1>3, <1>6 DEF PhaseOK, Turns, Leads, Doing, Ahead, Reported
  <2>2. RecordOK'
    BY <1>1, <1>6 DEF RecordOK, Turns, Leads, Doing, Ahead
  <2>. QED  BY <1>2, <1>4, <2>1, <2>2 DEF AccountOK
<1>7. CASE /\ handler.kind = "unpublish"
           /\ Turns("record", [NewRow("failed") EXCEPT !.clean = TRUE])
  <2>. DEFINE row == [NewRow("failed") EXCEPT !.clean = TRUE]
  <2>1. row.status = "failed"
    BY DEF NewRow
  <2>2. Turns("record", row)
    BY <1>7
  <2>. HIDE DEF row
  <2>3. PhaseOK'
    BY <1>1, <1>2, <1>3, <1>7, <2>2 DEF PhaseOK, Turns, Leads, Doing, Ahead, Reported
  <2>4. RecordOK'
    BY <1>2, <1>3, <1>7, <2>1, <2>2 DEF RecordOK, Turns, Leads, Doing, Ahead
  <2>. QED  BY <1>2, <1>4, <2>3, <2>4 DEF AccountOK
<1>. QED  BY <1>1, <1>5, <1>6, <1>7, DropSteps

LEMMA RedropAccounts ==
  ASSUME AccountedInv, Redrop
  PROVE  AccountOK'
<1>1. /\ handler.kind = "publish" /\ Ahead({"redrop"}) /\ ShapeInv
      /\ UNCHANGED <<node, pub, edges, socket, agent, console>>
  BY RedropSteps DEF AccountedInv, CallInv
<1>2. (Clear' <=> Clear) /\ node # None /\ PeaceOK'
  BY <1>1, SavingFacts DEF AccountedInv, AccountOK, PeaceOK
<1>3. /\ Reported("publishing") /\ handler.row.status \in {"failed", "needs_sync"}
      /\ handler.row.clean => Clear
      /\ handler.row \in Row
  BY <1>1 DEF AccountedInv, AccountOK, PhaseOK, RecordOK, Doing, Ahead, ShapeInv, HandlerOK
<1>4. PubOK' /\ ClearOK' /\ RouteOK'
  BY <1>1, <1>2, <1>3 DEF AccountedInv, AccountOK, PubOK, ClearOK, RouteOK, Unpublished, Reported
<1>5. PICK row : /\ Turns("record", row) /\ row.status \in {"failed", "needs_sync"}
                 /\ row.clean => Clear
  <2>1. CASE Turns("record", handler.row)
    BY <1>3, <2>1
  <2>2. CASE Turns("record", [handler.row EXCEPT !.status = "needs_sync"])
    <3>. DEFINE row == [handler.row EXCEPT !.status = "needs_sync"]
    <3>1. row.status = "needs_sync" /\ row.clean = handler.row.clean
      BY <1>3 DEF Row
    <3>. QED  BY <1>3, <2>2, <3>1
  <2>. QED  BY <1>1, <2>1, <2>2, RedropSteps
<1>6. PhaseOK'
  BY <1>1, <1>3, <1>5 DEF PhaseOK, Turns, Leads, Doing, Ahead, Reported
<1>7. RecordOK'
  BY <1>1, <1>2, <1>5 DEF RecordOK, Turns, Leads, Doing, Ahead
<1>. QED  BY <1>2, <1>4, <1>6, <1>7 DEF AccountOK

LEMMA RenodeAccounts ==
  ASSUME AccountedInv, Renode
  PROVE  AccountOK'
<1>1. /\ handler.kind = "update" /\ Ahead({"renode"}) /\ ShapeInv
      /\ UNCHANGED <<pub, route, edges, socket, agent, console>>
  BY RenodeSteps DEF AccountedInv, CallInv
<1>2. node' # None
  BY <1>1, RenodeSteps, NoneFacts DEF ShapeInv, HandlerOK, AccountedInv, AccountOK, PeaceOK
<1>3. (Clear' <=> Clear) /\ node # None /\ PeaceOK'
  BY <1>1, <1>2, SavingFacts
<1>4. handler.todo \in {RenodeThenRecord, RestoreLines} => Reported("publishing")
  BY <1>1 DEF AccountedInv, AccountOK, PhaseOK
<1>5. PubOK' /\ ClearOK' /\ RouteOK'
  BY <1>1, <1>2, <1>3 DEF AccountedInv, AccountOK, PubOK, ClearOK, RouteOK, Unpublished
<1>6. CASE handler' = NoHandler
  BY <1>3, <1>5, <1>6, RestsOK DEF AccountOK
<1>7. ASSUME NEW step \in {"record", "reroute"}, Turns(step, handler.row), Reported("publishing")
      PROVE  AccountOK'
  <2>1. handler'.todo # RenodeOnly
    BY <1>7, UpdateHeads2 DEF Turns, Leads, RenodeOnly
  <2>2. PhaseOK'
    BY <1>1, <1>7, <2>1 DEF PhaseOK, Turns, Leads, Doing, Ahead, Reported
  <2>3. RecordOK'
    BY <1>1, <1>7 DEF AccountedInv, AccountOK, RecordOK, Turns, Leads, Doing, Ahead
  <2>. QED  BY <1>3, <1>5, <2>2, <2>3 DEF AccountOK
<1>. QED  BY <1>1, <1>4, <1>6, <1>7, RenodeSteps

LEMMA RerouteAccounts ==
  ASSUME AccountedInv, Reroute
  PROVE  AccountOK'
<1>1. /\ handler.kind = "update" /\ Ahead({"reroute"}) /\ ShapeInv
      /\ UNCHANGED <<node, pub, edges, socket, agent, console>> /\ Turns("remark", handler.row)
  BY RerouteSteps DEF AccountedInv, CallInv
<1>2. (Clear' <=> Clear) /\ node # None /\ PeaceOK'
  BY <1>1, SavingFacts DEF AccountedInv, AccountOK, PeaceOK
<1>3. Reported("publishing")
  BY <1>1 DEF AccountedInv, AccountOK, PhaseOK, Doing, Ahead
<1>4. PubOK' /\ ClearOK' /\ RouteOK'
  BY <1>1, <1>2, <1>3 DEF AccountedInv, AccountOK, PubOK, ClearOK, RouteOK, Unpublished, Reported
<1>5. RecordOK'
  BY <1>1 DEF AccountedInv, AccountOK, RecordOK, Turns, Leads, Doing, Ahead
<1>6. handler'.todo # RenodeOnly
  BY <1>1, UpdateHeads2 DEF Turns, Leads, RenodeOnly
<1>7. PhaseOK'
  BY <1>1, <1>3, <1>6 DEF PhaseOK, Turns, Leads, Doing, Ahead, Reported
<1>. QED  BY <1>2, <1>4, <1>5, <1>7 DEF AccountOK

LEMMA RerowAccounts ==
  ASSUME AccountedInv, Rerow
  PROVE  AccountOK'
<1>1. /\ handler.kind \in {"publish", "refresh", "update", "unpublish"} /\ ShapeInv
      /\ Ahead({"record", "remark"}) /\ handler.kind # "none"
      /\ UNCHANGED <<node, route, edges, socket, agent, console>>
  BY RerowSteps DEF AccountedInv, CallInv, Ahead
<1>2. (Clear' <=> Clear) /\ node # None /\ PeaceOK'
  BY <1>1, SavingFacts DEF AccountedInv, AccountOK, PeaceOK
<1>3. /\ handler.row \in Row
      /\ Ahead({"record"}) => /\ handler.row.status \in {"failed", "needs_sync", "published"}
                              /\ handler.row.status = "published" => ~handler.row.clean
                              /\ handler.row.clean => Clear
      /\ handler.kind = "update" => Reported("publishing")
  <2>1. handler.row \in Row
    BY <1>1, RerowSteps DEF ShapeInv, HandlerOK, Doing, Ahead
  <2>2. handler.kind = "update" => Reported("publishing")
    BY <1>1 DEF AccountedInv, AccountOK, PhaseOK, Doing, Ahead
  <2>3. Ahead({"record"}) => /\ handler.row.status \in {"failed", "needs_sync", "published"}
                             /\ handler.row.status = "published" => ~handler.row.clean
                             /\ handler.row.clean => Clear
    BY <1>1 DEF AccountedInv, AccountOK, RecordOK, Doing, Ahead
  <2>. QED  BY <2>1, <2>2, <2>3
<1>4. CASE Ahead({"record"}) /\ handler' = NoHandler /\ pub' \in {handler.row, pub}
  <2>1. PubOK' /\ ClearOK' /\ RouteOK'
    <3>1. CASE UNCHANGED pub
      BY <1>1, <1>2, <3>1 DEF AccountedInv, AccountOK, PubOK, ClearOK, RouteOK, Unpublished
    <3>2. CASE pub' = handler.row
      <4>1. pub' # None
        BY <1>3, <3>2, NoneFacts
      <4>. QED  BY <1>1, <1>2, <1>3, <1>4, <3>2, <4>1 DEF PubOK, ClearOK, RouteOK, Unpublished
    <3>. QED  BY <1>4, <3>1, <3>2
  <2>. QED  BY <1>2, <1>4, <2>1, RestsOK DEF AccountOK
<1>5. CASE handler.kind = "update" /\ Turns("recall", handler.row)
           /\ pub' \in {Pending("publishing"), pub}
  <2>1. Reported("publishing")' /\ ~pub'.clean
    <3>1. CASE UNCHANGED pub
      BY <1>3, <1>5, <3>1 DEF AccountedInv, AccountOK, PubOK, Reported
    <3>2. CASE pub' = Pending("publishing")
      BY <1>3, <3>2, RowFacts, NoneFacts DEF Status, Reported
    <3>. QED  BY <1>5, <3>1, <3>2
  <2>2. PubOK' /\ ClearOK' /\ RouteOK'
    BY <1>1, <1>2, <2>1 DEF PubOK, ClearOK, RouteOK, Unpublished, Reported
  <2>3. handler'.todo # RenodeOnly
    BY <1>5, UpdateHeads2 DEF Turns, Leads, RenodeOnly
  <2>4. PhaseOK'
    BY <1>5, <2>1, <2>3 DEF PhaseOK, Turns, Leads, Doing, Ahead, Reported
  <2>5. RecordOK'
    BY <1>5 DEF AccountedInv, AccountOK, RecordOK, Turns, Leads, Doing, Ahead
  <2>. QED  BY <1>2, <2>2, <2>4, <2>5 DEF AccountOK
<1>. QED  BY <1>1, <1>4, <1>5, RerowSteps

(* The requests that call the agent.                                       *)
LEMMA CallKinds ==
  ASSUME ShapeInv, handler.kind # "none", Ahead({"call", "recall", "verify"})
  PROVE  \/ Doing("publish", {"call", "recall", "verify"}) \/ Doing("refresh", {"call", "verify"})
         \/ Doing("update", {"call", "recall"}) \/ Doing("cleanup", {"call"})
         \/ Doing("unpublish", {"call"}) \/ Doing("canary", {"verify"})
<1>1. handler.kind \in Kind /\ handler.row \in Row \cup {None}
  BY HandlerFacts
<1>2. CASE handler.kind \in {"publish", "refresh", "update", "unpublish"}
  BY <1>1, <1>2, RefreshGoes, UpdateGoes, UnpublishGoes DEF Doing, Ahead
<1>3. CASE handler.kind \in {"cleanup", "sweep", "normalize"}
  BY <1>1, <1>3, CleanupGoes DEF Doing, Ahead
<1>4. CASE handler.kind = "canary"
  BY <1>1, <1>4, CanaryGoes DEF Doing, Ahead
<1>. QED  BY <1>1, <1>2, <1>3, <1>4 DEF Kind

LEMMA HearingAccounts ==
  ASSUME AccountedInv, handler.kind # "none", NEW a \in Answer, Hearing(a),
         UNCHANGED <<node, pub, route, edges, queue, agent, console>>, Clean(a) => Clear
  PROVE  AccountOK'
<1>1. (Clear' <=> Clear) /\ node # None /\ PeaceOK'
  BY ClearFrame, PeaceFrame DEF AccountedInv, AccountOK, PeaceOK
<1>2. PubOK' /\ ClearOK' /\ RouteOK'
  BY <1>1 DEF AccountedInv, AccountOK, PubOK, ClearOK, RouteOK, Unpublished
<1>3. CASE handler' = NoHandler
  BY <1>1, <1>2, <1>3, RestsOK DEF AccountOK
<1>4. CASE handler.kind = "publish" /\ Ahead({"call"})
           /\ \E step \in {"commit", "recall"} : Turns(step, handler.row)
  <2>1. Reported("publishing")
    BY <1>4 DEF AccountedInv, AccountOK, PhaseOK, Doing, Ahead
  <2>2. PhaseOK' /\ RecordOK'
    BY <1>4, <2>1 DEF PhaseOK, RecordOK, Turns, Leads, Doing, Ahead, Reported
  <2>. QED  BY <1>1, <1>2, <2>2 DEF AccountOK
<1>5. CASE handler.kind = "publish" /\ Ahead({"recall"}) /\ Turns("redrop", Undone(a))
  <2>1. Reported("publishing")
    BY <1>5 DEF AccountedInv, AccountOK, PhaseOK, Doing, Ahead
  <2>2. Undone(a).status \in {"failed", "needs_sync"} /\ (Undone(a).clean => Clear)
    BY DEF Undone
  <2>3. PhaseOK'
    BY <1>5, <2>1 DEF PhaseOK, Turns, Leads, Doing, Ahead, Reported
  <2>4. RecordOK'
    BY <1>1, <1>5, <2>2 DEF RecordOK, Turns, Leads, Doing, Ahead
  <2>. QED  BY <1>1, <1>2, <2>3, <2>4 DEF AccountOK
<1>6. CASE handler.kind = "refresh" /\ Ahead({"call"})
  <2>1. /\ Reported("publishing") /\ handler.row \in Row
        /\ handler.row.status = "published" /\ ~handler.row.clean
    BY <1>6 DEF AccountedInv, AccountOK, PhaseOK, RecordOK, Doing, Ahead, CallInv, ShapeInv, HandlerOK
  <2>. DEFINE row == [handler.row EXCEPT !.stale = TRUE]
  <2>2. row.status = "published" /\ ~row.clean
    BY <2>1 DEF Row
  <2>3. Turns("settle", handler.row) \/ Turns("record", row)
    BY <1>6 DEF Hearing, Ahead
  <2>. HIDE DEF row
  <2>4. PhaseOK'
    BY <1>6, <2>1, <2>3 DEF PhaseOK, Turns, Leads, Doing, Ahead, Reported
  <2>5. RecordOK'
    BY <1>6, <2>1, <2>2, <2>3 DEF RecordOK, Turns, Leads, Doing, Ahead
  <2>. QED  BY <1>1, <1>2, <2>4, <2>5 DEF AccountOK
<1>7. CASE handler.kind = "update" /\ Ahead({"call", "recall"})
  <2>1. Reported("publishing") /\ handler.row.status = "published" /\ ~handler.row.clean
    BY <1>7 DEF AccountedInv, AccountOK, PhaseOK, RecordOK, Doing, Ahead
  <2>2. \/ Turns("settle", handler.row) \/ Turns("record", handler.row)
        \/ Turns("renode", handler.row) /\ handler'.todo = RestoreLines
    BY <1>7 DEF Hearing, Ahead
  <2>3. handler'.todo # RenodeOnly
    BY <2>2, ThreeRenodes, UpdateHeads2 DEF Turns, Leads, RenodeOnly
  <2>4. PhaseOK'
    BY <1>7, <2>1, <2>2, <2>3 DEF PhaseOK, Turns, Leads, Doing, Ahead, Reported
  <2>5. RecordOK'
    BY <1>7, <2>1, <2>2 DEF RecordOK, Turns, Leads, Doing, Ahead
  <2>. QED  BY <1>1, <1>2, <2>4, <2>5 DEF AccountOK
<1>8. CASE handler.kind = "cleanup" /\ Clean(a) /\ Turns("drop", handler.row)
  <2>1. pub # None /\ ~pub.clean
    BY <1>8 DEF AccountedInv, AccountOK, PhaseOK
  <2>2. PhaseOK' /\ RecordOK'
    BY <1>1, <1>8, <2>1 DEF PhaseOK, RecordOK, Turns, Leads, Doing, Ahead
  <2>. QED  BY <1>1, <1>2, <2>2 DEF AccountOK
<1>9. CASE handler.kind = "unpublish" /\ Ahead({"call"})
  <2>1. Reported("unpublishing")
    BY <1>9 DEF AccountedInv, AccountOK, PhaseOK, Doing, Ahead
  <2>2. (\A e \in Edges : a[e] = "removed") => Clean(a)
    BY DEF Clean, Removed
  <2>. DEFINE row == [status |-> "needs_sync", stale |-> FALSE, clean |-> Clean(a)]
  <2>3. row.status = "needs_sync" /\ (row.clean => Clear)
    OBVIOUS
  <2>4. (Clear /\ Turns("drop", handler.row)) \/ Turns("record", row)
    BY <1>9, <2>2 DEF Hearing, Ahead
  <2>. HIDE DEF row
  <2>5. PhaseOK'
    BY <1>1, <1>9, <2>1, <2>4 DEF PhaseOK, Turns, Leads, Doing, Ahead, Reported
  <2>6. RecordOK'
    BY <1>1, <1>9, <2>3, <2>4 DEF RecordOK, Turns, Leads, Doing, Ahead
  <2>. QED  BY <1>1, <1>2, <2>5, <2>6 DEF AccountOK
<1>. QED  BY <1>3, <1>4, <1>5, <1>6, <1>7, <1>8, <1>9 DEF Hearing, Ahead

LEMMA CallsAccounts ==
  ASSUME AccountedInv, Calls
  PROVE  AccountOK'
<1>1. ShapeInv /\ handler.kind # "none" /\ Ahead({"call", "recall", "verify"})
      /\ UNCHANGED <<node, pub, route, edges, agent, console>>
  BY CallsSteps DEF AccountedInv, CallInv, database
<1>2. CASE UNCHANGED socket /\ Hearing(Unavailable)
  BY <1>1, <1>2, HearingAccounts, UnavailableFacts DEF socket
<1>3. CASE handler' = [handler EXCEPT !.sent = TRUE]
  <2>1. pub # None /\ ~pub.clean /\ node # None
    <3>1. \/ Reported("publishing") \/ Reported("published") \/ Reported("unpublishing")
          \/ pub # None /\ ~pub.clean
      BY <1>1, CallKinds DEF AccountedInv, AccountOK, PhaseOK, Doing, Ahead
    <3>. QED  BY <1>1, <3>1 DEF AccountedInv, AccountOK, PubOK, PeaceOK, Reported
  <2>2. handler \in Handler
    BY <1>1, HandlerFacts
  <2>3. /\ handler'.kind = handler.kind /\ handler'.todo = handler.todo /\ handler'.row = handler.row
    BY <1>3, <2>2 DEF Handler
  <2>4. PubOK' /\ ClearOK' /\ RouteOK' /\ PeaceOK'
    BY <1>1, <2>1, <2>3 DEF AccountedInv, AccountOK, PubOK, ClearOK, RouteOK, PeaceOK, Unpublished
  <2>5. PhaseOK' /\ RecordOK'
    BY <1>1, <2>3 DEF AccountedInv, AccountOK, PhaseOK, RecordOK, Doing, Ahead, Reported
  <2>. QED  BY <2>4, <2>5 DEF AccountOK
<1>. QED  BY <1>1, <1>2, <1>3, CallsSteps

LEMMA HearsAccounts ==
  ASSUME AccountedInv, Hears
  PROVE  AccountOK'
<1>1. ShapeInv /\ handler.kind # "none" /\ answer \in Answer /\ answer # None /\ Hearing(answer)
      /\ UNCHANGED <<node, pub, route, edges, queue, agent, console>>
  BY HearsSteps, NoneFacts DEF AccountedInv, CallInv, database
<1>2. Clean(answer) => Clear
  BY <1>1 DEF AccountedInv, CallInv, SocketOK, EdgesOK, Clean, Clear, Empty
<1>. QED  BY <1>1, <1>2, HearingAccounts

LEMMA TimesOutAccounts ==
  ASSUME AccountedInv, TimesOut
  PROVE  AccountOK'
<1>1. handler.kind # "none" /\ Hearing(Unavailable)
      /\ UNCHANGED <<node, pub, route, edges, queue, agent, console>>
  BY TimesOutSteps DEF AccountedInv, CallInv, database
<1>. QED  BY <1>1, HearingAccounts, UnavailableFacts

LEMMA SkipsAccounts ==
  ASSUME AccountedInv, Skips
  PROVE  AccountOK'
<1>1. handler.kind # "none" /\ handler' = NoHandler
      /\ UNCHANGED <<node, pub, route>> /\ UNCHANGED <<edges, socket, agent, console>>
  BY SkipsSteps DEF AccountedInv, CallInv, database
<1>2. (Clear' <=> Clear) /\ node # None /\ PeaceOK'
  BY <1>1, SavingFacts DEF AccountedInv, AccountOK, PeaceOK
<1>3. PubOK' /\ ClearOK' /\ RouteOK'
  BY <1>1, <1>2 DEF AccountedInv, AccountOK, PubOK, ClearOK, RouteOK, Unpublished
<1>. QED  BY <1>1, <1>2, <1>3, RestsOK DEF AccountOK

LEMMA BeginAccounts ==
  ASSUME AccountedInv, HandlerBegins, "delete" \notin Overlap
  PROVE  AccountOK'
<1>1. /\ ShapeInv /\ Free /\ node # None
      /\ UNCHANGED <<node, route, edges, socket, agent, faults, console>>
  BY BeginSteps DEF AccountedInv, CallInv
<1>2. (Clear' <=> Clear) /\ PeaceOK' /\ pub \in Row \cup {None}
  BY <1>1, ClearFrame DEF AccountedInv, AccountOK, PeaceOK, Free, socket, ShapeInv, TypeOK
<1>3. PubOK' /\ ClearOK' /\ RouteOK' /\ (UNCHANGED pub \/ (pub' = NewRow("saved") /\ route = None))
  <2>1. CASE UNCHANGED pub
    BY <1>1, <1>2, <2>1 DEF AccountedInv, AccountOK, PubOK, ClearOK, RouteOK, Unpublished
  <2>2. CASE pub # None /\ pub.clean /\ pub' = NewRow("saved") /\ route = None
    <3>1. pub'.status = "saved" /\ pub'.clean
      BY <2>2, RowFacts DEF Status
    <3>. QED  BY <1>1, <1>2, <2>2, <3>1
              DEF AccountedInv, AccountOK, PubOK, ClearOK, RouteOK, Unpublished
  <2>. QED  BY <1>1, <2>1, <2>2, BeginSteps
<1>4. PhaseOK' /\ RecordOK'
  <2>1. CASE \E plan : Starts("publish", "mark", plan, pub)
    <3>1. route = None /\ ~Reported("published")'
      <4>1. CASE UNCHANGED pub
        BY <1>1, <2>1, <4>1, BeginSteps DEF Starts, Reported
      <4>2. CASE pub' = NewRow("saved") /\ route = None
        BY <4>2, RowFacts DEF Status, Reported
      <4>. QED  BY <1>3, <4>1, <4>2
    <3>. QED  BY <1>1, <2>1, <3>1 DEF PhaseOK, RecordOK, Starts, Leads, Doing, Ahead
  <2>2. CASE Reported("published") /\ UNCHANGED pub
             /\ \/ Starts("refresh", "mark", node, pub) \/ Starts("unpublish", "mark", None, pub)
                \/ Starts("canary", "verify", None, pub)
    <3>1. pub.status = "published" /\ ~pub.clean
      BY <2>2 DEF AccountedInv, AccountOK, PubOK, Reported
    <3>2. PhaseOK'
      BY <2>2 DEF PhaseOK, Starts, Leads, Doing, Ahead, Reported
    <3>3. RecordOK'
      BY <2>2, <3>1 DEF RecordOK, Starts, Leads, Doing, Ahead
    <3>. QED  BY <3>2, <3>3
  <2>3. CASE Reported("published") /\ UNCHANGED pub
             /\ \E next : Starts("update", "retarget", next, pub)
    <3>1. pub.status = "published" /\ ~pub.clean
      BY <2>3 DEF AccountedInv, AccountOK, PubOK, Reported
    <3>2. handler'.todo \notin {RenodeOnly, RenodeThenRecord, RestoreLines}
      BY <2>3, UpdateHeads2 DEF Starts, Leads, RenodeOnly, RenodeThenRecord, RestoreLines
    <3>3. PhaseOK'
      BY <2>3, <3>2 DEF PhaseOK, Starts, Leads, Doing, Ahead, Reported
    <3>4. RecordOK'
      BY <2>3, <3>1 DEF RecordOK, Starts, Leads, Doing, Ahead
    <3>. QED  BY <3>3, <3>4
  <2>4. CASE pub # None /\ ~pub.clean /\ UNCHANGED pub /\ Starts("cleanup", "call", None, pub)
    BY <2>4 DEF PhaseOK, RecordOK, Starts, Leads, Doing, Ahead
  <2>5. CASE (pub # None => pub.clean) /\ UNCHANGED pub /\ Starts("sweep", "drop", None, pub)
    BY <2>5 DEF PhaseOK, RecordOK, Starts, Leads, Doing, Ahead
  <2>6. CASE pub # None /\ pub.clean /\ route = None /\ UNCHANGED pub
             /\ Starts("normalize", "settle", None, pub)
    BY <1>1, <2>6 DEF PhaseOK, RecordOK, Starts, Leads, Doing, Ahead
  <2>. QED  BY <1>1, <2>1, <2>2, <2>3, <2>4, <2>5, <2>6, BeginSteps
<1>. QED  BY <1>2, <1>3, <1>4 DEF AccountOK

LEMMA OthersAccounts ==
  ASSUME AccountedInv, Failures \/ ConsoleReads \/ ConsoleWrites, "delete" \notin Overlap
  PROVE  AccountOK'
<1>. USE DEF AccountedInv, AccountOK
<1>1. CASE ClientLeaves
  <2>1. UNCHANGED <<node, pub, route>> /\ UNCHANGED <<edges, socket, agent, console>>
    BY <1>1 DEF ClientLeaves, database
  <2>2. handler \in Handler
    BY DEF CallInv, ShapeInv, TypeOK
  <2>3. handler'.kind = handler.kind /\ handler'.todo = handler.todo /\ handler'.row = handler.row
    BY <1>1, <2>2 DEF ClientLeaves, Handler
  <2>4. Clear' <=> Clear
    BY <2>1, ClearFrame DEF socket
  <2>5. PubOK' /\ ClearOK' /\ RouteOK' /\ PeaceOK'
    BY <2>1, <2>3, <2>4 DEF PubOK, ClearOK, RouteOK, PeaceOK, Unpublished
  <2>6. PhaseOK' /\ RecordOK'
    BY <2>1, <2>3, <2>4 DEF PhaseOK, RecordOK, Doing, Ahead, Reported
  <2>. QED  BY <2>5, <2>6
<1>2. CASE ControllerCrashes
  <2>1. UNCHANGED <<node, pub, route>> /\ UNCHANGED <<edges, queue, agent>>
        /\ handler' = NoHandler /\ console' = NoConsole
    BY <1>2 DEF ControllerCrashes, database
  <2>2. Clear' <=> Clear
    BY <2>1, ClearFrame
  <2>3. PubOK' /\ ClearOK' /\ RouteOK' /\ PeaceOK'
    BY <2>1, <2>2 DEF PubOK, ClearOK, RouteOK, PeaceOK, Unpublished, NoHandler, NoConsole
  <2>. QED  BY <2>1, <2>3, RestsOK
<1>3. CASE ConsoleReads
  <2>1. UNCHANGED <<node, pub, route>> /\ UNCHANGED <<edges, socket, agent, handler>>
    BY <1>3 DEF ConsoleReads, database
  <2>2. Clear' <=> Clear
    BY <2>1, ClearFrame DEF socket
  <2>3. console'.do = "delete" => handler.kind = "none" /\ Unpublished
    BY <1>3 DEF ConsoleReads, Edit
  <2>4. PubOK' /\ ClearOK' /\ RouteOK' /\ PeaceOK'
    BY <2>1, <2>2, <2>3 DEF PubOK, ClearOK, RouteOK, PeaceOK, Unpublished
  <2>5. PhaseOK' /\ RecordOK'
    BY <2>1, <2>2 DEF PhaseOK, RecordOK, Doing, Ahead, Reported
  <2>. QED  BY <2>4, <2>5
<1>4. CASE ConsoleWrites
  <2>1. UNCHANGED route /\ UNCHANGED <<edges, socket, agent, handler>> /\ console' = NoConsole
        /\ console.do # "none"
    BY <1>4 DEF ConsoleWrites
  <2>2. Clear' <=> Clear
    BY <2>1, ClearFrame DEF socket
  <2>3. CASE console.do # "delete"
    <3>1. console.next \in Lines /\ UNCHANGED pub /\ node' \in {node, console.next}
      BY <1>4, <2>1, <2>3 DEF ConsoleWrites, CallInv, ShapeInv, TypeOK, Console, ConsoleOK, Edit
    <3>2. node' = None => node = None
      BY <3>1, NoneFacts
    <3>3. PubOK' /\ ClearOK' /\ RouteOK' /\ PeaceOK'
      BY <2>1, <2>2, <3>1, <3>2 DEF PubOK, ClearOK, RouteOK, PeaceOK, Unpublished, NoConsole
    <3>4. PhaseOK' /\ RecordOK'
      BY <2>1, <2>2, <3>1 DEF PhaseOK, RecordOK, Doing, Ahead, Reported
    <3>. QED  BY <3>3, <3>4
  <2>4. CASE console.do = "delete"
    <3>1. handler.kind = "none" /\ handler = NoHandler /\ Unpublished
      BY <2>4 DEF PeaceOK, CallInv, ShapeInv, HandlerOK
    <3>2. pub' \in {pub, None} /\ (pub = None \/ pub.clean)
      BY <1>4, <3>1 DEF ConsoleWrites, Unpublished, PubOK
    <3>3. Clear /\ route = None
      BY <3>1, <3>2 DEF ClearOK, RouteOK
    <3>4. PubOK' /\ ClearOK' /\ RouteOK' /\ PeaceOK'
      BY <2>1, <2>2, <3>1, <3>2, <3>3 DEF PubOK, ClearOK, RouteOK, PeaceOK, Unpublished, NoConsole
    <3>. QED  BY <2>1, <3>1, <3>4, RestsOK
  <2>. QED  BY <2>3, <2>4
<1>. QED  BY <1>1, <1>2, <1>3, <1>4 DEF Failures

LEMMA AccountedInit ==
  ASSUME Init
  PROVE  AccountedInv
<1>1. Clear /\ CallInv /\ route = None /\ pub = None /\ handler = NoHandler /\ console = NoConsole
  BY CallInit DEF Init, AgentInit, Clear, Quiet, Empty
<1>2. PhaseOK /\ RecordOK
  <2>1. RenodeOnly # <<>> /\ RenodeThenRecord # <<>> /\ RestoreLines # <<>>
    BY UpdateHeads2 DEF RenodeOnly, RenodeThenRecord, RestoreLines, Leads
  <2>. QED  BY <1>1, <2>1 DEF PhaseOK, RecordOK, Doing, Ahead, NoHandler
<1>. QED  BY <1>1, <1>2 DEF AccountedInv, AccountOK, PubOK, PeaceOK, ClearOK, RouteOK, NoHandler, NoConsole

LEMMA AccountedStep ==
  ASSUME AccountedInv, [Next]_vars, "delete" \notin Overlap
  PROVE  AccountedInv'
<1>1. CallInv'
  BY CallStep DEF AccountedInv
<1>. SUFFICES AccountOK'
  BY <1>1 DEF AccountedInv
<1>2. CASE HandlerBegins
  BY <1>2, BeginAccounts
<1>3. CASE HandlerRuns
  BY <1>3, MarkAccounts, StageAccounts, CommitAccounts, SettleAccounts, RetargetAccounts,
     RelineAccounts, DropAccounts, RedropAccounts, RenodeAccounts, RerouteAccounts, RerowAccounts,
     CallsAccounts, SkipsAccounts, HearsAccounts, TimesOutAccounts DEF HandlerRuns
<1>4. CASE Failures \/ ConsoleReads \/ ConsoleWrites
  BY <1>4, OthersAccounts
<1>5. CASE AgentNext /\ UNCHANGED <<handler, console>>
  BY <1>5, AgentAccounts
<1>6. CASE UNCHANGED vars
  <2>1. UNCHANGED <<node, pub, route>> /\ UNCHANGED <<edges, queue, agent>> /\ UNCHANGED <<handler, console>>
    BY <1>6 DEF vars, database, socket
  <2>2. Clear' <=> Clear
    BY <2>1, ClearFrame
  <2>3. PubOK' /\ ClearOK' /\ RouteOK' /\ PeaceOK'
    BY <2>1, <2>2 DEF AccountedInv, AccountOK, PubOK, ClearOK, RouteOK, PeaceOK, Unpublished
  <2>4. PhaseOK' /\ RecordOK'
    BY <2>1, <2>2 DEF AccountedInv, AccountOK, PhaseOK, RecordOK, Doing, Ahead, Reported
  <2>. QED  BY <2>3, <2>4 DEF AccountOK
<1>. QED  BY <1>2, <1>3, <1>4, <1>5, <1>6 DEF Next

(* Where no server is deleted while a request runs, whatever else the      *)
(* console saves then: what is on an edge belongs to a server that exists  *)
(* and whose row says so, and so does a route.  A row that says clean,     *)
(* which is what a delete asks for, speaks for both edges, for any number  *)
(* of failures and late requests of the agent (publications.go).           *)
THEOREM NothingIsForgotten ==
  ASSUME "delete" \notin Overlap
  PROVE  Spec => []Accounted
<1>1. Init => AccountedInv
  BY AccountedInit
<1>2. AccountedInv /\ [Next]_vars => AccountedInv'
  BY AccountedStep
<1>3. AccountedInv => Accounted
  BY DEF AccountedInv, AccountOK, ClearOK, RouteOK, Clear, Empty, Accounted
<1>. QED  BY <1>1, <1>2, <1>3, PTL DEF Spec

-----------------------------------------------------------------------------
\* A route is public only when it is served

(* Nothing but removals is under way, and there is nothing to remove.      *)
Harmless ==
  /\ Empty /\ agent.do \in {"idle", "unpublish"}
  /\ \A i \in 1..Len(queue) : queue[i] = "unpublish"

(* Both edges run with the lines of the route.                             *)
Loaded ==
  route # None /\ \A e \in Edges : files[e] # None /\ loaded[e] = files[e] /\ files[e].lines = route.lines

(* A first publication finds the edges without fragments, and no request   *)
(* that could bring one.                                                   *)
PreparedOK ==
  /\ Reported("failed") => Harmless
  /\ Doing("publish", {"redrop", "record"}) /\ handler.row.status = "failed" => Harmless
  /\ Doing("unpublish", {"record"}) /\ handler.row.status = "failed" => Harmless
  /\ Doing("publish", {"mark", "stage"}) => Harmless
  /\ Doing("publish", {"call"}) /\ ~handler.sent => Harmless

(* Until the agent takes its call nothing changes that, and then the agent *)
(* writes what the route says.                                             *)
WrittenOK ==
  /\ Doing("publish", {"call", "commit"}) => route = [lines |-> handler.plan, public |-> FALSE]
  /\ Doing("publish", {"call"}) /\ asked /\ queue # <<>> =>
       /\ Empty /\ agent.do \in {"idle", "unpublish"}
       /\ \A i \in 1..(Len(queue) - 1) : queue[i] = "unpublish"
  /\ Doing("publish", {"call"}) /\ asked /\ queue = <<>> =>
       /\ agent.new.lines = route.lines
       /\ agent.at = "bwg" => Empty
       /\ agent.at = "nosla" => /\ files["nosla"] = None
                                /\ files["bwg"] = agent.new /\ loaded["bwg"] = agent.new
  /\ Doing("publish", {"call"}) /\ answer # None /\ Synced(answer) => Loaded
  /\ Doing("publish", {"commit"}) => Loaded /\ Quiet

ServedOK == PreparedOK /\ WrittenOK
ServedInv == AccountedInv /\ ServedOK

LEMMA ClearHarmless ==
  ASSUME Clear
  PROVE  Harmless
BY DEF Clear, Quiet, Empty, Harmless, Idle

LEMMA HarmlessFrame ==
  ASSUME UNCHANGED <<edges, queue, agent>>
  PROVE  Harmless' <=> Harmless
BY DEF Harmless, Empty, edges

LEMMA AppendHarmless ==
  ASSUME ShapeInv, Harmless, UNCHANGED <<edges, agent>>, queue' = Append(queue, "unpublish")
  PROVE  Harmless'
<1>1. queue \in Seq(Request)
  BY AgentFacts
<1>2. \A i \in 1..Len(queue') : queue'[i] = "unpublish"
  BY <1>1 DEF Harmless
<1>. QED  BY <1>2 DEF Harmless, Empty, edges

(* A removal of nothing leaves nothing.                                    *)
LEMMA NothingRemoved ==
  ASSUME Empty, NEW e \in Edges, NEW m \in Fragment, NEW o, Only(e, o),
         Helps(e, "unpublish", m, o) \/ o.file = None
  PROVE  Empty'
<1>1. files[e] = None /\ m # None
  BY NoneFacts DEF Empty
<1>2. o.file = None
  BY <1>1 DEF Helps, Kept, Took
<1>. QED  BY <1>1, <1>2 DEF Empty, Only

LEMMA HarmlessAgent ==
  ASSUME ShapeInv, AgentNext, Harmless
  PROVE  Harmless'
<1>1. queue \in Seq(Request) /\ agent.do \in {"idle", "unpublish"} /\ Empty /\ AgentOK
      /\ \A i \in 1..Len(queue) : queue[i] = "unpublish"
  BY AgentFacts DEF Harmless, ShapeInv
<1>2. CASE Takes
  <2>1. Head(queue) = "unpublish" /\ \A i \in 1..Len(Tail(queue)) : Tail(queue)[i] = "unpublish"
    BY <1>1, <1>2 DEF Takes
  <2>2. agent'.do \in {"idle", "unpublish"} /\ UNCHANGED edges /\ queue' = Tail(queue)
    BY <1>2, <2>1, TakesSteps DEF Idle
  <2>. QED  BY <1>1, <2>1, <2>2 DEF Harmless, Empty, edges
<1>3. CASE OnBWG
  <2>1. Verb = "unpublish" /\ agent.do = "unpublish"
    BY <1>1, <1>3 DEF Verb, OnBWG
  <2>2. PICK o : Helps("bwg", "unpublish", agent.new, o) /\ Only("bwg", o) /\ agent.new \in Fragment
                 /\ UNCHANGED queue /\ Moves("nosla", o.result)
    BY <1>3, <2>1, OnBWGSteps
  <2>3. Empty'
    BY <1>1, <2>2, NothingRemoved DEF Edges
  <2>. QED  BY <1>1, <2>1, <2>2, <2>3 DEF Harmless, Moves
<1>4. CASE OnNOSLA
  <2>1. Verb = "unpublish" /\ agent.do = "unpublish"
    BY <1>1, <1>4 DEF Verb, OnNOSLA, AgentOK, Idle
  <2>2. PICK o : Helps("nosla", "unpublish", agent.new, o) /\ Only("nosla", o) /\ agent.new \in Fragment
                 /\ UNCHANGED queue /\ agent' = Idle
    BY <1>4, <2>1, OnNOSLASteps
  <2>3. Empty'
    BY <1>1, <2>2, NothingRemoved DEF Edges
  <2>. QED  BY <1>1, <2>2, <2>3 DEF Harmless, Idle
<1>5. CASE Probes \/ UndoesBWG \/ Stores
  BY <1>1, <1>5 DEF Probes, UndoesBWG, Stores, AgentOK
<1>6. CASE AgentRestarts
  <2>1. Empty'
    <3>1. CASE UNCHANGED <<files, loaded>>
      BY <1>1, <3>1 DEF Empty
    <3>2. CASE agent.do # "idle" /\ agent.at = "nosla"
               /\ \E o : Only("nosla", o) /\ Helps("nosla", Verb, agent.new, o)
      <4>1. Verb = "unpublish" /\ agent.new \in Fragment
        BY <1>1, <3>2 DEF Verb, AgentOK
      <4>. QED  BY <1>1, <3>2, <4>1, NothingRemoved DEF Edges
    <3>3. ASSUME agent.do # "idle", agent.at \in {"bwg", "undo"}, NEW o, Only("bwg", o),
                 \/ Helps("bwg", "publish", agent.new, o) /\ agent.do # "unpublish"
                 \/ Helps("bwg", "unpublish", agent.new, o)
                 \/ Helps("bwg", "publish", agent.old, o) /\ agent.at = "undo"
                 \/ (agent.at = "bwg" => agent.do # "unpublish")
                 \/ o.file = None
          PROVE  Empty'
      <4>1. agent.at = "bwg" /\ agent.do = "unpublish" /\ agent.new \in Fragment
        BY <1>1, <3>3 DEF AgentOK
      <4>2. Helps("bwg", "unpublish", agent.new, o) \/ o.file = None
        BY <3>3, <4>1
      <4>. QED  BY <1>1, <3>3, <4>1, <4>2, NothingRemoved DEF Edges
    <3>. QED  BY <1>6, <3>1, <3>2, <3>3, AgentRestartsSteps
  <2>2. agent' = Idle /\ queue' = <<>>
    BY <1>6 DEF AgentRestarts
  <2>. QED  BY <2>1, <2>2 DEF Harmless, Idle
<1>. QED  BY <1>2, <1>3, <1>4, <1>5, <1>6 DEF AgentNext, AgentRuns

(* The agent does not change what a first publication may rely on.         *)
LEMMA AgentPrepared ==
  ASSUME ServedInv, AgentNext, UNCHANGED <<handler, console>>
  PROVE  PreparedOK'
<1>1. UNCHANGED <<node, pub, route>> /\ ShapeInv
  BY AgentFrame DEF database, ServedInv, AccountedInv, CallInv
<1>2. Harmless => Harmless'
  BY <1>1, HarmlessAgent
<1>. QED  BY <1>1, <1>2 DEF ServedInv, ServedOK, PreparedOK, Doing, Ahead, Reported

(* The call of a first publication, while it waits.                        *)
Awaits == Doing("publish", {"call"}) /\ asked

LEMMA AwaitsFacts ==
  ASSUME ServedInv, AgentNext, UNCHANGED <<handler, console>>
  PROVE  /\ ShapeInv /\ SocketOK /\ answer = None /\ UNCHANGED <<node, pub, route>>
         /\ (Doing("publish", {"call"}) => route \in Route /\ Asked = "publish")
         /\ ~Doing("publish", {"commit"})
<1>1. ShapeInv /\ SocketOK /\ answer = None /\ UNCHANGED <<node, pub, route>>
  BY NoAnswer, AgentFrame DEF ServedInv, AccountedInv, CallInv, database
<1>2. Doing("publish", {"call"}) => Asked = "publish"
  BY DEF Doing, Ahead, Asked
<1>3. ASSUME Doing("publish", {"call"}) PROVE route \in Route
  <2>1. route = [lines |-> handler.plan, public |-> FALSE]
    BY <1>3 DEF ServedInv, ServedOK, WrittenOK, Doing, Ahead
  <2>2. handler.plan \in Lines
    BY <1>1, <1>3 DEF ShapeInv, HandlerOK, Doing
  <2>. QED  BY <2>1, <2>2, RouteFacts
<1>4. ~Doing("publish", {"commit"})
  BY <1>1, AgentBusy DEF ServedInv, ServedOK, WrittenOK, Doing, Ahead
<1>. QED  BY <1>1, <1>2, <1>3, <1>4

(* What remains to be seen of a step of the agent.                         *)
LEMMA AgentWritten ==
  ASSUME ServedInv, AgentNext, UNCHANGED <<handler, console>>,
         Awaits => /\ asked' /\ queue' # <<>> =>
                        /\ Empty' /\ agent'.do \in {"idle", "unpublish"}
                        /\ \A i \in 1..(Len(queue') - 1) : queue'[i] = "unpublish"
                   /\ asked' /\ queue' = <<>> =>
                        /\ agent'.new.lines = route.lines
                        /\ agent'.at = "bwg" => Empty'
                        /\ agent'.at = "nosla" =>
                             /\ files'["nosla"] = None
                             /\ files'["bwg"] = agent'.new /\ loaded'["bwg"] = agent'.new
                   /\ answer' # None /\ Synced(answer') => Loaded',
         ~asked => ~asked' /\ answer' = None
  PROVE  WrittenOK'
<1>1. /\ answer = None /\ UNCHANGED <<node, pub, route>>
      /\ ~Doing("publish", {"commit"})
  BY AwaitsFacts
<1>2. (Doing("publish", {"call"})' <=> Doing("publish", {"call"}))
      /\ (Doing("publish", {"commit"})' <=> Doing("publish", {"commit"}))
      /\ (Doing("publish", {"call", "commit"})' <=> Doing("publish", {"call", "commit"}))
  BY DEF Doing, Ahead
<1>. QED  BY <1>1, <1>2 DEF ServedInv, ServedOK, WrittenOK, Awaits

LEMMA RepliesUnasked ==
  ASSUME answer = None, ~asked, NEW bwg, NEW nosla, Replies(bwg, nosla)
  PROVE  ~asked' /\ answer' = None
BY DEF Replies

LEMMA RepliesFailed ==
  ASSUME answer = None, NEW bwg, Replies(bwg, "failed")
  PROVE  answer' # None => ~Synced(answer')
BY DEF Replies, Synced, Edges

(* The write of a first publication, action by action of the agent.        *)
LEMMA TakesWrites ==
  ASSUME ServedInv, Takes, UNCHANGED <<handler, console>>
  PROVE  WrittenOK'
<1>1. /\ ShapeInv /\ SocketOK /\ answer = None /\ UNCHANGED <<node, pub, route>> /\ AgentNext
      /\ (Doing("publish", {"call"}) => Asked = "publish")
  BY AwaitsFacts DEF AgentNext, AgentRuns
<1>2. queue # <<>> /\ queue' = Tail(queue) /\ UNCHANGED edges /\ queue \in Seq(Request)
  BY <1>1, TakesSteps, AgentFacts
<1>3. ASSUME Awaits
      PROVE  /\ Empty' /\ (queue' = <<>> => Head(queue) = "publish")
             /\ queue' # <<>> => Head(queue) = "unpublish"
             /\ \A i \in 1..(Len(queue') - 1) : queue'[i] = "unpublish"
  <2>1. Empty /\ \A i \in 1..(Len(queue) - 1) : queue[i] = "unpublish"
    BY <1>2, <1>3 DEF Awaits, ServedInv, ServedOK, WrittenOK
  <2>2. Empty'
    BY <1>2, <2>1 DEF Empty, edges
  <2>3. queue' = <<>> => Head(queue) = "publish"
    BY <1>1, <1>2, <1>3, TailFacts DEF Awaits, SocketOK
  <2>4. queue' # <<>> => Head(queue) = "unpublish"
    BY <1>2, <2>1
  <2>5. \A i \in 1..(Len(queue') - 1) : queue'[i] = "unpublish"
    BY <1>2, <2>1
  <2>. QED  BY <2>2, <2>3, <2>4, <2>5
<1>4. CASE agent' = Idle /\ Replies("failed", "failed")
  <2>1. answer' # None => ~Synced(answer')
    BY <1>1, <1>4, RepliesFailed
  <2>2. ~asked => ~asked' /\ answer' = None
    BY <1>1, <1>4, RepliesUnasked
  <2>3. asked' => queue' # <<>>
    BY <1>4 DEF Replies
  <2>. QED  BY <1>1, <1>3, <1>4, <2>1, <2>2, <2>3, AgentWritten DEF Idle
<1>5. CASE /\ (Head(queue) = "publish" => Staged) /\ Manifest.lines = node /\ agent'.new = Manifest
           /\ \/ Head(queue) = "canary" /\ agent'.do = "update" /\ agent'.at = "probe"
              \/ Head(queue) # "canary" /\ agent'.do = Head(queue) /\ agent'.at = "bwg"
           /\ UNCHANGED <<asked, answer>>
  <2>1. Head(queue) = "publish" => agent'.new.lines = route.lines /\ agent'.at = "bwg"
    BY <1>5 DEF Staged
  <2>2. Head(queue) = "unpublish" => agent'.do = "unpublish"
    BY <1>5
  <2>. QED  BY <1>1, <1>3, <1>5, <2>1, <2>2, AgentWritten
<1>. QED  BY <1>1, <1>4, <1>5, TakesSteps

(* While it waits the agent either removes nothing or has its request.     *)
LEMMA AwaitsServed ==
  ASSUME ServedInv, Awaits, AgentNext, UNCHANGED <<handler, console>>
  PROVE  /\ queue # <<>> => /\ Empty /\ agent.do \in {"idle", "unpublish"}
                            /\ \A i \in 1..(Len(queue) - 1) : queue[i] = "unpublish"
         /\ queue = <<>> => /\ agent.do = "publish" /\ agent.new.lines = route.lines
                            /\ agent.at = "bwg" => Empty
                            /\ agent.at = "nosla" => /\ files["nosla"] = None
                                  /\ files["bwg"] = agent.new /\ loaded["bwg"] = agent.new
<1>1. SocketOK /\ Asked = "publish" /\ asked /\ Doing("publish", {"call"})
  BY AwaitsFacts DEF Awaits
<1>2. queue = <<>> => agent.do = "publish"
  BY <1>1 DEF SocketOK, Does
<1>. QED  BY <1>1, <1>2 DEF ServedInv, ServedOK, WrittenOK

LEMMA ProbesWrites ==
  ASSUME ServedInv, Probes, UNCHANGED <<handler, console>>
  PROVE  WrittenOK'
<1>1. ShapeInv /\ answer = None /\ AgentNext
  BY AwaitsFacts DEF AgentNext, AgentRuns
<1>2. ~Awaits
  BY <1>1, AwaitsServed, ProbesSteps
<1>3. ~asked => ~asked' /\ answer' = None
  BY <1>1, ProbesSteps, RepliesUnasked
<1>. QED  BY <1>1, <1>2, <1>3, AgentWritten

LEMMA StoresWrites ==
  ASSUME ServedInv, Stores, UNCHANGED <<handler, console>>
  PROVE  WrittenOK'
<1>1. ShapeInv /\ answer = None /\ AgentNext
  BY AwaitsFacts DEF AgentNext, AgentRuns
<1>2. ~Awaits
  BY <1>1, AwaitsServed, StoresSteps
<1>3. ~asked => ~asked' /\ answer' = None
  BY <1>1, StoresSteps, RepliesUnasked
<1>. QED  BY <1>1, <1>2, <1>3, AgentWritten

LEMMA OnBWGWrites ==
  ASSUME ServedInv, OnBWG, UNCHANGED <<handler, console>>
  PROVE  WrittenOK'
<1>1. ShapeInv /\ answer = None /\ AgentNext
  BY AwaitsFacts DEF AgentNext, AgentRuns
<1>2. PICK o : /\ Helps("bwg", Verb, agent.new, o) /\ Only("bwg", o)
               /\ agent.at = "bwg" /\ agent.do # "idle" /\ agent.new \in Fragment
               /\ UNCHANGED queue
               /\ \/ /\ agent.do = "unpublish" \/ o.result = "synced"
                     /\ Moves("nosla", o.result)
                  \/ agent' = Idle /\ Replies(o.result, "failed")
  BY <1>1, OnBWGSteps
<1>3. ~asked => ~asked' /\ answer' = None
  BY <1>1, <1>2, RepliesUnasked DEF Moves
<1>4. agent' = Idle /\ answer' # None => ~Synced(answer')
  BY <1>1, <1>2, RepliesFailed DEF Moves
<1>5. ASSUME Awaits, queue # <<>>
      PROVE  Empty' /\ agent'.do \in {"idle", "unpublish"}
             /\ \A i \in 1..(Len(queue') - 1) : queue'[i] = "unpublish"
  <2>1. agent.do = "unpublish" /\ Verb = "unpublish" /\ Empty
        /\ \A i \in 1..(Len(queue) - 1) : queue[i] = "unpublish"
    BY <1>1, <1>2, <1>5, AwaitsServed DEF Verb
  <2>2. Empty'
    BY <1>2, <2>1, NothingRemoved DEF Edges
  <2>. QED  BY <1>2, <2>1, <2>2 DEF Moves, Idle
<1>6. ASSUME Awaits, queue = <<>>, asked'
      PROVE  /\ agent'.new.lines = route.lines /\ agent'.at = "nosla" /\ files'["nosla"] = None
             /\ files'["bwg"] = agent'.new /\ loaded'["bwg"] = agent'.new
  <2>1. agent.do = "publish" /\ Verb = "publish" /\ Empty /\ agent.new.lines = route.lines
    BY <1>1, <1>2, <1>6, AwaitsServed DEF Verb
  <2>2. o.result = "synced" /\ Moves("nosla", o.result)
    BY <1>2, <1>6, <2>1 DEF Replies
  <2>3. o.file = agent.new /\ o.loaded = agent.new
    BY <1>2, <2>1, <2>2, HelpsTruth, NoneFacts DEF Put, Empty, Edges
  <2>. QED  BY <1>2, <2>1, <2>2, <2>3 DEF Moves, Only, Empty, Edges
<1>7. Awaits /\ answer' # None => ~Synced(answer')
  BY <1>1, <1>2, <1>4 DEF Moves
<1>. QED  BY <1>1, <1>2, <1>3, <1>5, <1>6, <1>7, AgentWritten

LEMMA OnNOSLAWrites ==
  ASSUME ServedInv, OnNOSLA, UNCHANGED <<handler, console>>
  PROVE  WrittenOK'
<1>1. ShapeInv /\ answer = None /\ AgentNext /\ UNCHANGED route
      /\ (Doing("publish", {"call"}) => route \in Route)
  BY AwaitsFacts DEF AgentNext, AgentRuns
<1>2. PICK o : /\ Helps("nosla", Verb, agent.new, o) /\ Only("nosla", o)
               /\ agent.at = "nosla" /\ agent.do # "idle" /\ agent.new \in Fragment
               /\ UNCHANGED queue
               /\ \/ agent.do # "unpublish" /\ o.result # "synced" /\ Moves("undo", agent.bwg)
                  \/ agent.do = "update" /\ o.result = "synced" /\ Moves("store", agent.bwg)
                  \/ agent' = Idle /\ Replies(agent.bwg, o.result)
  BY <1>1, OnNOSLASteps
<1>3. ~asked => ~asked' /\ answer' = None
  BY <1>1, <1>2, RepliesUnasked DEF Moves
<1>4. answer' # None => queue = <<>>
  BY <1>1, <1>2 DEF Moves, Replies
<1>5. ASSUME Awaits, queue # <<>>
      PROVE  Empty' /\ agent'.do \in {"idle", "unpublish"}
             /\ \A i \in 1..(Len(queue') - 1) : queue'[i] = "unpublish"
  <2>1. agent.do = "unpublish" /\ Verb = "unpublish" /\ Empty
        /\ \A i \in 1..(Len(queue) - 1) : queue[i] = "unpublish"
    BY <1>1, <1>2, <1>5, AwaitsServed DEF Verb
  <2>2. Empty'
    BY <1>2, <2>1, NothingRemoved DEF Edges
  <2>. QED  BY <1>2, <2>1, <2>2 DEF Moves, Idle
<1>6. Awaits /\ queue = <<>> =>
        /\ agent.do = "publish" /\ Verb = "publish" /\ agent.new.lines = route.lines
        /\ files["nosla"] = None /\ files["bwg"] = agent.new /\ loaded["bwg"] = agent.new
  BY <1>1, <1>2, AwaitsServed DEF Verb
<1>7. Awaits /\ queue = <<>> /\ asked' => agent'.new.lines = route.lines /\ agent'.at = "undo"
  BY <1>2, <1>6 DEF Moves, Replies
<1>8. ASSUME Awaits, answer' # None, Synced(answer')
      PROVE  Loaded'
  <2>1. o.result = "synced"
    BY <1>1, <1>2, <1>8 DEF Moves, Replies, Synced, Edges
  <2>2. o.file = agent.new /\ o.loaded = agent.new
    BY <1>2, <1>4, <1>6, <1>8, <2>1, HelpsTruth, NoneFacts DEF Put
  <2>3. route' # None /\ agent.new # None /\ agent.new.lines = route'.lines
    BY <1>1, <1>2, <1>4, <1>6, <1>8, NoneFacts DEF Awaits
  <2>4. files'["nosla"] = agent.new /\ loaded'["nosla"] = agent.new
        /\ files'["bwg"] = agent.new /\ loaded'["bwg"] = agent.new
    BY <1>2, <1>4, <1>6, <1>8, <2>2 DEF Only, Edges
  <2>. QED  BY <2>3, <2>4 DEF Loaded, Edges
<1>. QED  BY <1>1, <1>2, <1>3, <1>5, <1>7, <1>8, AgentWritten

LEMMA UndoesBWGWrites ==
  ASSUME ServedInv, UndoesBWG, UNCHANGED <<handler, console>>
  PROVE  WrittenOK'
<1>1. ShapeInv /\ answer = None /\ AgentNext
  BY AwaitsFacts DEF AgentNext, AgentRuns
<1>2. PICK o : agent' = Idle /\ Replies(o.result, "failed") /\ agent.at = "undo" /\ UNCHANGED queue
  BY <1>1, UndoesBWGSteps
<1>3. ~asked => ~asked' /\ answer' = None
  BY <1>1, <1>2, RepliesUnasked
<1>4. answer' # None => ~Synced(answer')
  BY <1>1, <1>2, RepliesFailed
<1>5. Awaits => queue = <<>>
  BY <1>1, <1>2, AwaitsServed, AgentFacts DEF ShapeInv, AgentOK
<1>6. Awaits => ~asked'
  BY <1>2, <1>5 DEF Awaits, Replies
<1>. QED  BY <1>1, <1>3, <1>4, <1>6, AgentWritten

LEMMA AgentRestartsWrites ==
  ASSUME ServedInv, AgentRestarts, UNCHANGED <<handler, console>>
  PROVE  WrittenOK'
<1>1. ShapeInv /\ answer = None /\ AgentNext
  BY AwaitsFacts DEF AgentNext, AgentRuns
<1>2. ~asked' /\ (asked => answer' = Unavailable) /\ (~asked => answer' = answer)
  BY <1>1, AgentRestartsSteps
<1>. QED  BY <1>1, <1>2, UnavailableFacts, AgentWritten

LEMMA AgentServes ==
  ASSUME ServedInv, AgentNext, UNCHANGED <<handler, console>>
  PROVE  ServedOK'
<1>1. WrittenOK'
  BY TakesWrites, ProbesWrites, OnBWGWrites, OnNOSLAWrites, UndoesBWGWrites, StoresWrites,
     AgentRestartsWrites DEF AgentNext, AgentRuns
<1>. QED  BY <1>1, AgentPrepared DEF ServedOK

(* A step that does not lead into the steps of a first publication.        *)
LEMMA ElseServes ==
  ASSUME ServedInv, UNCHANGED <<edges, queue, agent>>,
         ~Doing("publish", {"mark", "stage", "call", "commit", "redrop", "record"})',
         Doing("unpublish", {"record"})' => handler'.row.status # "failed" \/ Harmless,
         Reported("failed")' => Reported("failed") \/ Harmless
  PROVE  ServedOK'
<1>1. ~Doing("publish", {"redrop", "record"})' /\ ~Doing("publish", {"mark", "stage"})'
      /\ ~Doing("publish", {"call"})' /\ ~Doing("publish", {"commit"})'
      /\ ~Doing("publish", {"call", "commit"})'
  BY DEF Doing, Ahead
<1>2. (Harmless' <=> Harmless) /\ (Reported("failed") => Harmless)
  BY HarmlessFrame DEF ServedInv, ServedOK, PreparedOK
<1>3. PreparedOK'
  BY <1>1, <1>2 DEF PreparedOK
<1>4. WrittenOK'
  BY <1>1 DEF WrittenOK
<1>. QED  BY <1>3, <1>4 DEF ServedOK

(* A step that changes no more than what the console may change.           *)
LEMMA FrameServes ==
  ASSUME ServedInv, UNCHANGED <<route, edges, socket, agent>>, pub' \in {pub, None},
         handler'.kind = handler.kind, handler'.todo = handler.todo, handler'.row = handler.row,
         handler'.plan = handler.plan, handler'.sent = handler.sent
  PROVE  ServedOK'
<1>1. (Harmless' <=> Harmless) /\ (Reported("failed")' => Reported("failed"))
  BY HarmlessFrame DEF socket, Reported
<1>2. \A kind, steps : Doing(kind, steps)' <=> Doing(kind, steps)
  BY DEF Doing, Ahead
<1>3. (Empty' <=> Empty) /\ (Loaded' <=> Loaded) /\ (Quiet' <=> Quiet)
  BY DEF Empty, Loaded, Quiet, socket, edges
<1>4. PreparedOK'
  BY <1>1, <1>2 DEF ServedInv, ServedOK, PreparedOK
<1>5. WrittenOK'
  BY <1>2, <1>3 DEF ServedInv, ServedOK, WrittenOK, socket, edges
<1>. QED  BY <1>4, <1>5 DEF ServedOK

LEMMA ReturnServes ==
  ASSUME ServedInv, UNCHANGED <<edges, queue, agent>>, handler' = NoHandler,
         Reported("failed")' => Reported("failed") \/ Harmless
  PROVE  ServedOK'
<1>1. \A kind, steps : ~Doing(kind, steps)'
  BY NoHandlerShape
<1>. QED  BY <1>1, ElseServes

LEMMA MarkServes ==
  ASSUME ServedInv, Mark
  PROVE  ServedOK'
<1>1. ShapeInv /\ UNCHANGED <<edges, queue, agent>> /\ Ahead({"mark"})
      /\ (Harmless' <=> Harmless)
  BY MarkSteps, HarmlessFrame DEF ServedInv, AccountedInv, CallInv, socket
<1>2. Reported("failed")' => Reported("failed")
  <2>1. \/ pub' = pub \/ pub' = NewRow("publishing")
        \/ handler.kind \in {"refresh", "update", "unpublish"}
           /\ pub' \in {Pending("publishing"), Pending("unpublishing")}
    BY <1>1, MarkSteps
  <2>2. handler.kind \in {"refresh", "update", "unpublish"} => handler.row \in Row
    BY <1>1 DEF ShapeInv, HandlerOK
  <2>. QED  BY <2>1, <2>2, RowFacts DEF Status, Reported
<1>3. CASE handler.kind = "publish" /\ Turns("stage", handler.row) /\ pub' = NewRow("publishing")
  <2>1. Harmless /\ ~Reported("failed")'
    BY <1>1, <1>3, RowFacts DEF ServedInv, ServedOK, PreparedOK, Doing, Ahead, Status, Reported
  <2>2. PreparedOK'
    BY <1>1, <1>3, <2>1 DEF PreparedOK, Turns, Leads, Doing, Ahead
  <2>3. WrittenOK'
    BY <1>3 DEF WrittenOK, Turns, Leads, Doing, Ahead
  <2>. QED  BY <2>2, <2>3 DEF ServedOK
<1>4. CASE handler' = NoHandler
  BY <1>1, <1>2, <1>4, ReturnServes
<1>5. CASE handler.kind # "publish" /\ \E step \in {"call", "reline", "renode"} : Turns(step, handler.row)
  <2>1. ~Doing("unpublish", {"record"})' /\ handler'.kind # "publish"
    BY <1>5 DEF Turns, Leads, Doing, Ahead
  <2>. QED  BY <1>1, <1>2, <2>1, ElseServes DEF Doing
<1>. QED  BY <1>1, <1>3, <1>4, <1>5, MarkSteps

LEMMA StageServes ==
  ASSUME ServedInv, Stage
  PROVE  ServedOK'
<1>1. ShapeInv /\ UNCHANGED pub /\ UNCHANGED <<edges, socket, agent>> /\ handler.kind = "publish"
      /\ Ahead({"stage"}) /\ (Harmless' <=> Harmless) /\ ~handler.sent
  BY StageSteps, HarmlessFrame DEF ServedInv, AccountedInv, CallInv, socket
<1>2. Harmless /\ ~asked /\ answer = None
  BY <1>1 DEF ServedInv, ServedOK, PreparedOK, AccountedInv, CallInv, SocketOK, Doing, Ahead
<1>3. ~Reported("failed")'
  BY <1>1 DEF ServedInv, AccountedInv, AccountOK, PhaseOK, Doing, Ahead, Reported
<1>4. CASE Turns("call", handler.row) /\ route' = [lines |-> handler.plan, public |-> FALSE]
  <2>1. PreparedOK'
    BY <1>1, <1>2 DEF PreparedOK, Turns, Leads, Doing, Ahead
  <2>2. WrittenOK'
    BY <1>1, <1>2, <1>4 DEF WrittenOK, Turns, Leads, Doing, Ahead, socket
  <2>. QED  BY <2>1, <2>2 DEF ServedOK
<1>5. CASE Turns("record", NewRow("failed"))
  <2>1. PreparedOK'
    BY <1>1, <1>2 DEF PreparedOK
  <2>2. WrittenOK'
    BY <1>5 DEF WrittenOK, Turns, Leads, Doing, Ahead
  <2>. QED  BY <2>1, <2>2 DEF ServedOK
<1>. QED  BY <1>1, <1>4, <1>5, StageSteps

LEMMA SavingServes ==
  ASSUME ServedInv, Commit \/ Settle \/ Retarget \/ Reline \/ Drop \/ Renode \/ Reroute
  PROVE  ServedOK'
<1>1. ShapeInv
  BY DEF ServedInv, AccountedInv, CallInv
<1>2. UNCHANGED <<edges, queue, agent>>
  BY <1>1, CommitSteps, SettleSteps, RetargetSteps, RelineSteps, DropSteps, RenodeSteps, RerouteSteps
     DEF socket
<1>3. Reported("failed")' => Reported("failed")
  <2>1. pub' = pub \/ pub' = NewRow("published") \/ pub' = NewRow("saved")
    BY <1>1, CommitSteps, SettleSteps, RetargetSteps, RelineSteps, DropSteps, RenodeSteps, RerouteSteps
  <2>. QED  BY <2>1, RowFacts DEF Status, Reported
<1>4. CASE handler' = NoHandler
  BY <1>2, <1>3, <1>4, ReturnServes
<1>5. CASE \E step \in {"settle", "recall", "verify", "renode", "mark", "call", "reroute", "remark",
                        "record"} :
             Turns(step, handler.row) /\ (step \in {"mark", "call", "record"} => handler.kind = "update")
  <2>1. ~Doing("publish", {"mark", "stage", "call", "commit", "redrop", "record"})'
        /\ ~Doing("unpublish", {"record"})'
    BY <1>5 DEF Turns, Leads, Doing, Ahead
  <2>. QED  BY <1>2, <1>3, <2>1, ElseServes
<1>6. CASE Drop /\ \E row : Turns("record", row)
  <2>1. handler.kind = "unpublish" /\ Ahead({"drop"})
    BY <1>1, <1>6, DropSteps, NoHandlerShape DEF Turns, Leads, Ahead
  <2>2. Harmless
    BY <2>1, ClearHarmless DEF ServedInv, AccountedInv, AccountOK, PhaseOK, Doing, Ahead
  <2>3. ~Doing("publish", {"mark", "stage", "call", "commit", "redrop", "record"})'
    BY <1>6, <2>1 DEF Turns, Doing
  <2>. QED  BY <1>2, <1>3, <2>2, <2>3, ElseServes
<1>7. CASE Commit
  BY <1>1, <1>5, <1>7, CommitSteps
<1>8. CASE Settle
  BY <1>1, <1>4, <1>5, <1>8, SettleSteps
<1>9. CASE Retarget
  BY <1>1, <1>4, <1>5, <1>9, RetargetSteps
<1>10. CASE Reline
  BY <1>1, <1>5, <1>10, RelineSteps
<1>11. CASE Drop
  BY <1>1, <1>4, <1>5, <1>6, <1>11, DropSteps
<1>12. CASE Renode
  BY <1>1, <1>4, <1>5, <1>12, RenodeSteps
<1>13. CASE Reroute
  BY <1>1, <1>5, <1>13, RerouteSteps
<1>. QED  BY <1>7, <1>8, <1>9, <1>10, <1>11, <1>12, <1>13

LEMMA RedropServes ==
  ASSUME ServedInv, Redrop
  PROVE  ServedOK'
<1>1. ShapeInv /\ UNCHANGED pub /\ UNCHANGED <<edges, queue, agent>> /\ handler.kind = "publish"
      /\ Ahead({"redrop"}) /\ (Harmless' <=> Harmless)
  BY RedropSteps, HarmlessFrame DEF ServedInv, AccountedInv, CallInv, socket
<1>2. handler.row \in Row
  BY <1>1 DEF ShapeInv, HandlerOK, Doing, Ahead
<1>3. handler.row.status = "failed" => Harmless
  BY <1>1 DEF ServedInv, ServedOK, PreparedOK, Doing, Ahead
<1>4. \E row : Turns("record", row) /\ (row.status = "failed" => Harmless)
  BY <1>1, <1>2, <1>3, RedropSteps DEF Row
<1>5. Reported("failed")' => Harmless
  BY <1>1 DEF ServedInv, ServedOK, PreparedOK, Reported
<1>6. PreparedOK'
  BY <1>1, <1>4, <1>5 DEF PreparedOK, Turns, Leads, Doing, Ahead
<1>7. WrittenOK'
  BY <1>4 DEF WrittenOK, Turns, Leads, Doing, Ahead
<1>. QED  BY <1>6, <1>7 DEF ServedOK

LEMMA RerowServes ==
  ASSUME ServedInv, Rerow
  PROVE  ServedOK'
<1>1. ShapeInv /\ UNCHANGED <<edges, queue, agent>>
  BY RerowSteps DEF ServedInv, AccountedInv, CallInv, socket
<1>2. CASE handler.kind \in {"publish", "refresh", "update", "unpublish"}
           /\ Ahead({"record"}) /\ handler' = NoHandler /\ pub' \in {handler.row, pub}
  <2>1. Reported("failed")' => Reported("failed") \/ handler.row.status = "failed"
    BY <1>2 DEF Reported
  <2>2. handler.row.status = "failed" => Harmless
    BY <1>2 DEF ServedInv, ServedOK, PreparedOK, AccountedInv, AccountOK, RecordOK, Doing, Ahead
  <2>. QED  BY <1>1, <1>2, <2>1, <2>2, ReturnServes
<1>3. CASE handler.kind = "update" /\ Turns("recall", handler.row) /\ pub' \in {pub, Pending("publishing")}
  <2>1. handler.row \in Row
    BY <1>1, <1>3 DEF ShapeInv, HandlerOK
  <2>2. Reported("failed")' => Reported("failed")
    BY <1>3, <2>1, RowFacts DEF Status, Reported
  <2>3. handler'.kind = "update"
    BY <1>3 DEF Turns
  <2>. QED  BY <1>1, <2>2, <2>3, ElseServes DEF Doing
<1>. QED  BY <1>1, <1>2, <1>3, RerowSteps

(* Where a first publication goes with an answer, and where the others do. *)
LEMMA HearingServes ==
  ASSUME ServedInv, handler.kind # "none", NEW a \in Answer, Hearing(a),
         UNCHANGED <<node, pub, route, edges, queue, agent, console>>, Clean(a) => Clear,
         Doing("publish", {"call"}) /\ Synced(a) => Loaded /\ Quiet
  PROVE  ServedOK'
<1>1. UNCHANGED <<edges, queue, agent>> /\ (Reported("failed")' => Reported("failed"))
      /\ (Harmless' <=> Harmless)
  BY HarmlessFrame DEF Reported
<1>2. CASE handler' = NoHandler
  BY <1>1, <1>2, ReturnServes
<1>3. CASE \/ handler.kind = "publish" /\ Ahead({"call"}) /\ Turns("recall", handler.row)
           \/ /\ handler.kind \in {"refresh", "update", "cleanup"}
              /\ \E step \in Step : \E row : Turns(step, row)
           \/ handler.kind = "unpublish" /\ Turns("drop", handler.row)
  <2>1. ~Doing("publish", {"mark", "stage", "call", "commit", "redrop", "record"})'
        /\ ~Doing("unpublish", {"record"})'
    BY <1>3 DEF Turns, Leads, Doing, Ahead
  <2>. QED  BY <1>1, <2>1, ElseServes
<1>4. CASE handler.kind = "unpublish" /\ \E row : Turns("record", row) /\ row.status = "needs_sync"
  <2>1. ~Doing("publish", {"mark", "stage", "call", "commit", "redrop", "record"})'
        /\ handler'.row.status # "failed"
    BY <1>4 DEF Turns, Doing
  <2>. QED  BY <1>1, <2>1, ElseServes
<1>5. CASE handler.kind = "publish" /\ Ahead({"call"}) /\ Synced(a) /\ Turns("commit", handler.row)
  <2>1. Loaded /\ Quiet /\ route = [lines |-> handler.plan, public |-> FALSE]
    BY <1>5 DEF ServedInv, ServedOK, WrittenOK, Doing, Ahead
  <2>2. Loaded' /\ Quiet'
    BY <2>1 DEF Loaded, Quiet, edges
  <2>3. WrittenOK'
    BY <1>5, <2>1, <2>2 DEF WrittenOK, Turns, Leads, Doing, Ahead
  <2>4. Reported("failed") => Harmless
    BY DEF ServedInv, ServedOK, PreparedOK
  <2>5. PreparedOK'
    BY <1>1, <1>5, <2>4 DEF PreparedOK, Turns, Leads, Doing, Ahead
  <2>. QED  BY <2>3, <2>5 DEF ServedOK
<1>6. CASE handler.kind = "publish" /\ Ahead({"recall"}) /\ Turns("redrop", Undone(a))
  <2>1. Undone(a).status = "failed" => Harmless
    BY ClearHarmless DEF Undone
  <2>2. WrittenOK'
    BY <1>6 DEF WrittenOK, Turns, Leads, Doing, Ahead
  <2>3. Reported("failed") => Harmless
    BY DEF ServedInv, ServedOK, PreparedOK
  <2>. HIDE DEF Undone
  <2>4. PreparedOK'
    BY <1>1, <1>6, <2>1, <2>3 DEF PreparedOK, Turns, Leads, Doing, Ahead
  <2>. QED  BY <2>2, <2>4 DEF ServedOK
<1>. QED  BY <1>2, <1>3, <1>4, <1>5, <1>6 DEF Hearing, Ahead, Step

LEMMA CallsServes ==
  ASSUME ServedInv, Calls
  PROVE  ServedOK'
<1>1. ShapeInv /\ SocketOK /\ handler.kind # "none" /\ Ahead({"call", "recall", "verify"})
      /\ ~handler.sent /\ UNCHANGED <<node, pub, route, edges, agent, console>>
  BY CallsSteps DEF ServedInv, AccountedInv, CallInv, database
<1>2. CASE UNCHANGED socket /\ Hearing(Unavailable)
  BY <1>1, <1>2, HearingServes, UnavailableFacts DEF socket
<1>3. CASE queue' = Append(queue, Asked) /\ asked' /\ UNCHANGED answer
           /\ handler' = [handler EXCEPT !.sent = TRUE]
  <2>1. handler \in Handler /\ queue \in Seq(Request) /\ answer = None
    BY <1>1, HandlerFacts, AgentFacts DEF SocketOK
  <2>2. /\ handler'.kind = handler.kind /\ handler'.todo = handler.todo /\ handler'.row = handler.row
        /\ handler'.plan = handler.plan /\ handler'.sent
    BY <1>3, <2>1 DEF Handler
  <2>3. \A kind, steps : Doing(kind, steps)' <=> Doing(kind, steps)
    BY <2>2 DEF Doing, Ahead
  <2>4. Ahead({"call", "recall", "verify"}) =>
          /\ ~Doing("publish", {"redrop", "record"}) /\ ~Doing("unpublish", {"record"})
          /\ ~Doing("publish", {"mark", "stage"}) /\ ~Doing("publish", {"commit"})
    BY DEF Doing, Ahead
  <2>5. ASSUME Reported("failed") PROVE Harmless'
    <3>1. Doing("cleanup", {"call"})
      BY <1>1, <2>5, CallKinds DEF ServedInv, AccountedInv, AccountOK, PhaseOK, Doing, Ahead, Reported
    <3>2. Asked = "unpublish"
      BY <3>1 DEF Asked, Doing, Ahead
    <3>3. Harmless
      BY <2>5 DEF ServedInv, ServedOK, PreparedOK
    <3>. QED  BY <1>1, <1>3, <3>2, <3>3, AppendHarmless
  <2>6. PreparedOK'
    BY <1>1, <2>2, <2>3, <2>4, <2>5 DEF PreparedOK, Reported
  <2>7. ASSUME Doing("publish", {"call"})
        PROVE  /\ queue' # <<>> /\ Empty' /\ agent'.do \in {"idle", "unpublish"}
               /\ \A i \in 1..(Len(queue') - 1) : queue'[i] = "unpublish"
    <3>1. Harmless
      BY <1>1, <2>7 DEF ServedInv, ServedOK, PreparedOK
    <3>2. Asked \in Request
      BY DEF Asked, Request
    <3>3. queue' # <<>> /\ \A i \in 1..(Len(queue') - 1) : queue'[i] = queue[i] /\ i \in 1..Len(queue)
      BY <1>3, <2>1, <3>2
    <3>. QED  BY <1>1, <3>1, <3>3 DEF Harmless, Empty, edges
  <2>8. WrittenOK'
    BY <1>1, <1>3, <2>1, <2>2, <2>3, <2>4, <2>7 DEF ServedInv, ServedOK, WrittenOK
  <2>. QED  BY <2>6, <2>8 DEF ServedOK
<1>. QED  BY <1>1, <1>2, <1>3, CallsSteps

LEMMA HearsServes ==
  ASSUME ServedInv, Hears
  PROVE  ServedOK'
<1>1. /\ ShapeInv /\ SocketOK /\ EdgesOK /\ handler.kind # "none" /\ answer \in Answer /\ Hearing(answer)
      /\ UNCHANGED <<node, pub, route, edges, queue, agent, console>>
  BY HearsSteps DEF ServedInv, AccountedInv, CallInv, database
<1>2. answer # None
  BY <1>1, NoneFacts
<1>3. Clean(answer) => Clear
  BY <1>1, <1>2 DEF SocketOK, EdgesOK, Clean, Clear, Empty
<1>4. Doing("publish", {"call"}) /\ Synced(answer) => Loaded /\ Quiet
  BY <1>1, <1>2 DEF ServedInv, ServedOK, WrittenOK, SocketOK
<1>. QED  BY <1>1, <1>3, <1>4, HearingServes

LEMMA TimesOutServes ==
  ASSUME ServedInv, TimesOut
  PROVE  ServedOK'
<1>1. /\ handler.kind # "none" /\ Hearing(Unavailable)
      /\ UNCHANGED <<node, pub, route, edges, queue, agent, console>>
  BY TimesOutSteps DEF ServedInv, AccountedInv, CallInv, database
<1>. QED  BY <1>1, UnavailableFacts, HearingServes

LEMMA SkipsServes ==
  ASSUME ServedInv, Skips
  PROVE  ServedOK'
<1>1. handler' = NoHandler /\ UNCHANGED <<edges, queue, agent>> /\ UNCHANGED pub
  BY SkipsSteps DEF ServedInv, AccountedInv, CallInv, database, socket
<1>. QED  BY <1>1, ReturnServes DEF Reported

LEMMA BeginServes ==
  ASSUME ServedInv, HandlerBegins
  PROVE  ServedOK'
<1>1. ShapeInv /\ UNCHANGED <<edges, queue, agent>> /\ (Harmless' <=> Harmless)
  BY BeginSteps, HarmlessFrame DEF ServedInv, AccountedInv, CallInv, socket
<1>2. Reported("failed")' => Reported("failed")
  <2>1. pub' = pub \/ pub' = NewRow("saved")
    BY <1>1, BeginSteps
  <2>. QED  BY <2>1, RowFacts DEF Status, Reported
<1>3. CASE \E plan \in Lines : Starts("publish", "mark", plan, pub)
  <2>1. pub = None \/ Reported("failed") \/ pub.clean
    BY <1>1, <1>3, BeginSteps DEF Starts
  <2>2. Harmless
    BY <2>1, ClearHarmless DEF ServedInv, ServedOK, PreparedOK, AccountedInv, AccountOK, ClearOK
  <2>3. PreparedOK'
    BY <1>1, <2>2 DEF PreparedOK
  <2>4. WrittenOK'
    BY <1>3 DEF WrittenOK, Starts, Leads, Doing, Ahead
  <2>. QED  BY <2>3, <2>4 DEF ServedOK
<1>4. CASE \E kind \in Kind \ {"publish"}, step \in Step \ {"record"} :
             \E plan, row : Starts(kind, step, plan, row)
  <2>1. handler'.kind # "publish" /\ ~Doing("unpublish", {"record"})'
    BY <1>4 DEF Starts, Leads, Doing, Ahead
  <2>. QED  BY <1>1, <1>2, <2>1, ElseServes DEF Doing
<1>. QED
  <2>1. \/ \E plan \in Lines : Starts("publish", "mark", plan, pub)
        \/ Starts("refresh", "mark", node, pub)
        \/ \E next : Starts("update", "retarget", next, pub)
        \/ Starts("cleanup", "call", None, pub)
        \/ Starts("sweep", "drop", None, pub)
        \/ Starts("normalize", "settle", None, pub)
        \/ Starts("unpublish", "mark", None, pub)
        \/ Starts("canary", "verify", None, pub)
    BY <1>1, BeginSteps
  <2>. QED  BY <1>3, <1>4, <2>1 DEF Kind, Step

LEMMA OthersServe ==
  ASSUME ServedInv, Failures \/ ConsoleReads \/ ConsoleWrites
  PROVE  ServedOK'
<1>1. CASE ClientLeaves
  <2>1. UNCHANGED <<route, edges, socket, agent>> /\ UNCHANGED pub /\ handler \in Handler
    BY <1>1 DEF ClientLeaves, database, ServedInv, AccountedInv, CallInv, ShapeInv, TypeOK
  <2>2. /\ handler'.kind = handler.kind /\ handler'.todo = handler.todo /\ handler'.row = handler.row
        /\ handler'.plan = handler.plan /\ handler'.sent = handler.sent
    BY <1>1, <2>1 DEF ClientLeaves, Handler
  <2>. QED  BY <2>1, <2>2, FrameServes
<1>2. CASE ControllerCrashes
  <2>1. UNCHANGED <<edges, queue, agent>> /\ UNCHANGED pub /\ handler' = NoHandler
    BY <1>2 DEF ControllerCrashes, database
  <2>. QED  BY <2>1, ReturnServes DEF Reported
<1>3. CASE ConsoleReads
  BY <1>3, FrameServes DEF ConsoleReads, database
<1>4. CASE ConsoleWrites
  BY <1>4, FrameServes DEF ConsoleWrites
<1>. QED  BY <1>1, <1>2, <1>3, <1>4 DEF Failures

LEMMA ServedInit ==
  ASSUME Init
  PROVE  ServedInv
<1>1. AccountedInv /\ pub = None /\ handler = NoHandler
  BY AccountedInit DEF Init
<1>2. \A kind, steps : ~Doing(kind, steps)
  BY <1>1 DEF Doing, Ahead, NoHandler
<1>. QED  BY <1>1, <1>2 DEF ServedInv, ServedOK, PreparedOK, WrittenOK, Reported

LEMMA ServedStep ==
  ASSUME ServedInv, [Next]_vars, "delete" \notin Overlap
  PROVE  ServedInv'
<1>1. AccountedInv'
  BY AccountedStep DEF ServedInv
<1>. SUFFICES ServedOK'
  BY <1>1 DEF ServedInv
<1>2. CASE HandlerBegins
  BY <1>2, BeginServes
<1>3. CASE HandlerRuns
  BY <1>3, MarkServes, StageServes, SavingServes, RedropServes, RerowServes, CallsServes, SkipsServes,
     HearsServes, TimesOutServes DEF HandlerRuns
<1>4. CASE Failures \/ ConsoleReads \/ ConsoleWrites
  BY <1>4, OthersServe
<1>5. CASE AgentNext /\ UNCHANGED <<handler, console>>
  BY <1>5, AgentServes
<1>6. CASE UNCHANGED vars
  BY <1>6, FrameServes DEF vars, database
<1>. QED  BY <1>2, <1>3, <1>4, <1>5, <1>6 DEF Next

(* The lines of a route are never changed into public ones.                *)
Opens == route' # None /\ route'.public /\ (route = None \/ ~route.public)

LEMMA OpensAtCommit ==
  ASSUME ShapeInv, [Next]_vars, Opens
  PROVE  Commit
<1>1. ~UNCHANGED route
  BY DEF Opens
<1>2. CASE AgentNext
  BY <1>1, <1>2, AgentFrame DEF database
<1>3. CASE HandlerBegins
  BY <1>1, <1>3, BeginSteps
<1>4. CASE HandlerRuns
  <2>1. Commit \/ Stage \/ Reline \/ Drop \/ Redrop \/ Reroute
    BY <1>1, <1>4, MarkSteps, SettleSteps, RetargetSteps, RenodeSteps, RerowSteps, CallsSteps,
       HearsSteps, TimesOutSteps, SkipsSteps DEF HandlerRuns, database
  <2>2. CASE Stage
    BY <1>1, <2>2, StageSteps DEF Opens
  <2>3. CASE Reline \/ Reroute
    <3>1. handler.kind = "update" /\ \E lines : route' = [lines |-> lines, public |-> route.public]
      BY <1>1, <2>3, RelineSteps, RerouteSteps
    <3>2. route \in Route
      BY <3>1 DEF ShapeInv, HandlerOK
    <3>. QED  BY <3>1, <3>2, NoneFacts DEF Opens
  <2>4. CASE Drop \/ Redrop
    BY <1>1, <2>4, DropSteps, RedropSteps DEF Opens
  <2>. QED  BY <2>1, <2>2, <2>3, <2>4
<1>5. ~Failures /\ ~ConsoleReads /\ ~ConsoleWrites /\ ~UNCHANGED vars
  BY <1>1 DEF Failures, ClientLeaves, ControllerCrashes, ConsoleReads, ConsoleWrites, database, vars
<1>. QED  BY <1>2, <1>3, <1>4, <1>5 DEF Next

LEMMA CommitServes ==
  ASSUME ServedInv, Commit, Opens
  PROVE  \A e \in Edges : Serves(e)'
<1>1. ShapeInv /\ handler.kind = "publish" /\ Ahead({"commit"}) /\ UNCHANGED <<edges, agent>>
  BY CommitSteps DEF ServedInv, AccountedInv, CallInv
<1>2. route' = [lines |-> handler.plan, public |-> TRUE]
  BY <1>1, CommitSteps DEF Opens
<1>3. Loaded /\ route = [lines |-> handler.plan, public |-> FALSE]
  BY <1>1 DEF ServedInv, ServedOK, WrittenOK, Doing, Ahead
<1>. QED  BY <1>1, <1>2, <1>3 DEF Loaded, Serves, edges, Opens

(* Where no server is deleted while a request runs: a route is made public *)
(* only when both edges serve its lines, for any number of failures, and   *)
(* although a request that was given up may still run beside the handler   *)
(* that commits the route (publications.go, agent.go).                     *)
THEOREM PublicOnceServed ==
  ASSUME "delete" \notin Overlap
  PROVE  Spec => PublicOnlyWhenServed
<1>1. Init => ServedInv
  BY ServedInit
<1>2. ServedInv /\ [Next]_vars => ServedInv'
  BY ServedStep
<1>3. ServedInv /\ [Next]_vars =>
        [(route' # None /\ route'.public /\ (route = None \/ ~route.public))
          => \A e \in Edges : Serves(e)']_vars
  BY OpensAtCommit, CommitServes DEF ServedInv, AccountedInv, CallInv, Opens
<1>. QED  BY <1>1, <1>2, <1>3, PTL DEF Spec, PublicOnlyWhenServed

-----------------------------------------------------------------------------
\* One failure leaves a published server served

(* The fragment on an edge, and the one that nginx runs with.              *)
On(e, lines) ==
  files[e] # None /\ loaded[e] # None /\ files[e].lines = lines /\ loaded[e].lines = lines
Serving(lines) == \A e \in Edges : On(e, lines)
InStep(lines) ==
  \A e \in Edges : files[e] # None /\ files[e].lines = lines => loaded[e] # None /\ loaded[e].lines = lines
AllInStep ==
  \A e \in Edges : files[e] # None => loaded[e] # None /\ loaded[e].lines = files[e].lines
Intact == Quiet /\ \E lines \in Lines : Serving(lines)

(* Nothing runs beside a request, and this is what the request works on.   *)
AloneOK ==
  /\ console.do # "none" => handler.kind = "none"
  /\ console.do \in {"save", "delete"} => Unpublished
  /\ console.do = "tag" => console.next = node

PlanOK ==
  /\ handler.kind = "publish" => handler.plan = node
  /\ Doing("publish", {"settle"}) => route # None /\ route.lines = node
  /\ handler.kind = "update" => handler.plan # handler.was
  /\ Doing("update", {"retarget"}) => node = handler.was
  /\ Doing("update", {"mark", "reline", "call", "settle"}) => node = handler.plan
  /\ Doing("update", {"call", "settle"}) => route.lines = node
  /\ handler.kind = "cleanup" => ~Reported("published")

NewOK ==
  /\ asked /\ queue = <<>> =>
       /\ agent.new.lines = node
       /\ agent.do \in {"update", "restore"} => agent.old.lines = node
  /\ answer # None /\ Asked = "publish" /\ Synced(answer) =>
       \A e \in Edges : files[e] # None /\ files[e].lines = node

(* What nothing overlaps with writes the lines that the server has.        *)
AloneInv == ServedInv /\ AloneOK /\ PlanOK /\ NewOK

(* Without a failure a call ends well, and so does the one that restores.  *)
Succeeds ==
  /\ asked /\ queue = <<>> => agent.at \in {"bwg", "nosla"}
  /\ answer # None => Synced(answer)

(* Without a failure a published server is served.                         *)
Base == IF handler.kind = "update" THEN handler.was ELSE node
Configured ==
  Reported("published") \/ Doing("update", {"reline"}) \/ Doing("refresh", {"call", "settle"})
Faithful == pub # None /\ ~pub.stale /\ route # None /\ route.lines = Base /\ Serving(Base)
Restoring == Doing("update", {"renode", "reroute", "remark", "recall", "record"})
Undoing == Restoring \/ Doing("refresh", {"record"})
UnfailedOK ==
  faults = 0 =>
    /\ ~handler.cancelled
    /\ asked /\ queue # <<>> => agent = Idle /\ Len(queue) = 1
    /\ ~asked => Quiet
    /\ Configured => Faithful
    /\ Doing("update", {"call"}) \/ Doing("refresh", {"call"}) => Succeeds
    /\ ~Undoing

UnfailedInv == AloneInv /\ UnfailedOK

(* The agent has nothing to do but canaries of these lines.                *)
Canaries(lines) ==
  /\ node = lines /\ \A i \in 1..Len(queue) : queue[i] = "canary"
  /\ \/ agent = Idle
     \/ agent.do \in {"update", "restore"} /\ agent.new.lines = lines /\ agent.old.lines = lines
Stable(lines) == Serving(lines) /\ (Quiet \/ Canaries(lines))

(* A canary brings other lines, which a save that failed has left.         *)
Converting ==
  /\ asked
  /\ \/ queue = <<"canary">> /\ agent = Idle /\ \E lines \in Lines : Serving(lines)
     \/ /\ queue = <<>> /\ agent.do = "update" /\ agent.at \in {"probe", "bwg", "nosla", "store"}
        /\ agent.at \in {"probe", "bwg"} => \E lines \in Lines : Serving(lines)
        /\ agent.at = "nosla" => On("bwg", node) /\ \E lines \in Lines : On("nosla", lines)
        /\ agent.at = "store" => Serving(node)

(* After one failure at most: wherever the row is, or may be put back to   *)
(* published, an edge that has a fragment runs with it.                    *)
Live ==
  \/ Reported("published") \/ handler.kind = "refresh" \/ Doing("update", {"reline", "settle"})
  \/ Doing("update", {"call"}) /\ (answer = None \/ Synced(answer))
LiveOK == Live => AllInStep
(* At rest a published server is served, and the agent has nothing left    *)
(* that changes it; but a canary may be on its way.                        *)
RestOK ==
  (handler.kind = "none" \/ Ahead({"verify"})) /\ Reported("published") /\ ~pub.stale =>
    \/ \E lines \in Lines : Stable(lines)
    \/ handler.sent /\ faults = 1 /\ Converting
(* A request whose client left has done nothing yet.                       *)
Untouched == Doing("refresh", {"mark"}) \/ Doing("update", {"retarget", "mark"}) \/ Doing("unpublish", {"mark"})
UntouchedOK == handler.cancelled /\ Untouched => Intact
(* What is about to be recorded as published is served.                    *)
SettleOK ==
  Ahead({"settle"}) /\ handler.kind \in {"publish", "refresh", "update"} => Quiet /\ Serving(node)
(* An update that is being taken back finds what it needs for that: the    *)
(* old lines where they are, or the edges as they were.                    *)
RestoreOK ==
  Restoring =>
    /\ handler.todo = RenodeOnly => Intact
    /\ handler.todo = RenodeThenRecord \/ Ahead({"record"}) => handler.cancelled \/ Intact
    /\ Ahead({"reroute", "remark", "recall"}) \/ handler.todo = RestoreLines => InStep(handler.was)
    /\ Ahead({"reroute", "remark", "recall"}) => handler.cancelled \/ node = handler.was
    /\ Ahead({"remark", "recall"}) => handler.cancelled \/ route.lines = handler.was
    /\ Ahead({"recall"}) => Succeeds /\ (handler.sent => ~handler.cancelled)
UpdateOK == Doing("update", {"call"}) => InStep(handler.was)
StaleOK == Doing("refresh", {"record"}) => handler.row.stale

OneOK ==
  faults <= 1 => LiveOK /\ RestOK /\ UntouchedOK /\ SettleOK /\ RestoreOK /\ UpdateOK /\ StaleOK
OneInv == UnfailedInv /\ OneOK

LEMMA RunsFacts ==
  ASSUME ShapeInv, HandlerRuns
  PROVE  handler.kind # "none" /\ UNCHANGED <<edges, agent, console>>
<1>1. CASE Mark \/ Stage \/ Commit \/ Settle \/ Retarget \/ Reline
  BY <1>1, MarkSteps, StageSteps, CommitSteps, SettleSteps, RetargetSteps, RelineSteps DEF Kind
<1>2. CASE Drop \/ Redrop \/ Renode \/ Reroute
  BY <1>2, DropSteps, RedropSteps, RenodeSteps, RerouteSteps
<1>3. CASE Rerow \/ Calls \/ Skips \/ Hears \/ TimesOut
  BY <1>3, RerowSteps, CallsSteps, SkipsSteps, HearsSteps, TimesOutSteps
<1>. QED  BY <1>1, <1>2, <1>3 DEF HandlerRuns

LEMMA AloneFacts ==
  ASSUME AloneInv
  PROVE  /\ ShapeInv /\ SocketOK /\ EdgesOK /\ AccountOK /\ ServedOK /\ AloneOK /\ PlanOK /\ NewOK
         /\ CallInv /\ AccountedInv /\ ServedInv
BY DEF AloneInv, ServedInv, AccountedInv, CallInv

LEMMA AloneStep ==
  ASSUME AloneInv, [Next]_vars, Overlap = {}
  PROVE  AloneOK'
<1>. USE AloneFacts
<1>1. CASE HandlerBegins
  <2>1. Free /\ UNCHANGED console
    BY <1>1, BeginSteps
  <2>2. console'.do = "none"
    BY <2>1 DEF Free
  <2>. QED  BY <2>2 DEF AloneOK
<1>2. CASE HandlerRuns
  <2>1. handler.kind # "none" /\ UNCHANGED console
    BY <1>2, RunsFacts
  <2>2. console'.do = "none"
    BY <2>1 DEF AloneOK
  <2>. QED  BY <2>2 DEF AloneOK
<1>3. CASE ClientLeaves
  <2>1. console.do = "none" /\ UNCHANGED console
    BY <1>3 DEF ClientLeaves, AloneOK
  <2>. QED  BY <2>1 DEF AloneOK
<1>4. CASE ControllerCrashes \/ ConsoleWrites
  BY <1>4 DEF ControllerCrashes, ConsoleWrites, AloneOK, NoConsole
<1>5. CASE ConsoleReads
  <2>1. handler.kind = "none" /\ UNCHANGED handler /\ UNCHANGED <<node, pub>>
    BY <1>5 DEF ConsoleReads, database
  <2>2. PICK do \in Edit, next \in Lines \cup {None} :
               /\ CASE do = "save" -> Unpublished /\ next \in Lines
                    [] do = "delete" -> Unpublished /\ next = None
                    [] do = "tag" -> next = node /\ next # None
               /\ console' = [do |-> do, next |-> next]
    BY <1>5 DEF ConsoleReads
  <2>. QED  BY <2>1, <2>2 DEF AloneOK, Edit, Unpublished
<1>6. CASE AgentNext /\ UNCHANGED <<handler, console>>
  BY <1>6, AgentFrame DEF AloneOK, Unpublished, database
<1>7. CASE UNCHANGED vars
  BY <1>7 DEF vars, database, AloneOK, Unpublished
<1>. QED  BY <1>1, <1>2, <1>3, <1>4, <1>5, <1>6, <1>7 DEF Next, Failures

LEMMA PlanRests ==
  ASSUME handler' = NoHandler
  PROVE  PlanOK'
<1>1. \A kind, steps : ~Doing(kind, steps)'
  BY NoHandlerShape
<1>. QED  BY <1>1 DEF PlanOK, NoHandler

LEMMA PlanFrame ==
  ASSUME PlanOK, UNCHANGED <<node, pub, route>>, handler'.kind = handler.kind,
         handler'.todo = handler.todo, handler'.plan = handler.plan, handler'.was = handler.was
  PROVE  PlanOK'
<1>1. \A kind, steps : Doing(kind, steps)' <=> Doing(kind, steps)
  BY DEF Doing, Ahead
<1>. QED  BY <1>1 DEF PlanOK, Reported

LEMMA PlanTurns ==
  ASSUME AloneInv, NEW step, NEW row, Turns(step, row),
         node' = node \/ handler.kind = "update", pub' = pub \/ handler.kind # "cleanup",
         handler.kind = "publish" /\ step = "settle" => route' # None /\ route'.lines = node,
         step # "retarget",
         handler.kind = "update" /\ step \in {"mark", "reline", "call", "settle"} => node' = handler.plan,
         handler.kind = "update" /\ step \in {"call", "settle"} => route'.lines = node'
  PROVE  PlanOK'
BY AloneFacts DEF PlanOK, Turns, Leads, Doing, Ahead, Reported

LEMMA SavingPlans ==
  ASSUME AloneInv, Mark \/ Stage \/ Commit \/ Settle \/ Retarget \/ Reline \/ Drop \/ Redrop
                     \/ Renode \/ Reroute \/ Rerow
  PROVE  PlanOK'
<1>. USE AloneFacts
<1>1. CASE Mark
  <2>1. UNCHANGED <<node, route>> /\ Ahead({"mark"})
    BY <1>1, MarkSteps
  <2>2. handler.kind = "update" => node = handler.plan
    BY <2>1 DEF PlanOK, Doing, Ahead
  <2>3. CASE handler.kind # "cleanup" /\ \E step \in {"stage", "call", "reline", "renode"} :
               Turns(step, handler.row) /\ (step = "call" => handler.kind # "update")
    BY <2>1, <2>2, <2>3, PlanTurns
  <2>. QED  BY <1>1, <2>3, PlanRests, MarkSteps
<1>2. CASE Stage \/ Commit
  <2>1. UNCHANGED <<node, pub>> /\ handler.kind = "publish"
    BY <1>2, StageSteps, CommitSteps
  <2>2. handler.plan = node /\ node # None
    BY <2>1 DEF PlanOK, AccountOK, PeaceOK
  <2>3. CASE Turns("settle", handler.row) /\ route' = [lines |-> handler.plan, public |-> TRUE]
    <3>1. handler.plan \in Lines
      BY <2>1 DEF ShapeInv, HandlerOK
    <3>2. route' # None /\ route'.lines = node
      BY <2>2, <2>3, <3>1, RouteFacts, NoneFacts
    <3>. QED  BY <2>1, <2>3, <3>2, PlanTurns
  <2>4. CASE \E step \in {"call", "recall", "record"}, row \in {handler.row, NewRow("failed")} : Turns(step, row)
    BY <2>1, <2>4, PlanTurns
  <2>. QED  BY <1>2, <2>3, <2>4, StageSteps, CommitSteps
<1>3. CASE Settle
  <2>1. UNCHANGED <<node, route>>
    BY <1>3, SettleSteps
  <2>2. CASE handler.kind # "cleanup" /\ \E step \in {"verify", "recall", "renode"} : Turns(step, handler.row)
    BY <2>1, <2>2, PlanTurns
  <2>. QED  BY <1>3, <2>2, PlanRests, SettleSteps
<1>4. CASE Retarget
  <2>1. handler.kind = "update"
    BY <1>4, RetargetSteps
  <2>2. CASE Turns("mark", handler.row) /\ node' = handler.plan
    BY <2>1, <2>2, PlanTurns
  <2>. QED  BY <1>4, <2>2, PlanRests, RetargetSteps
<1>5. CASE Reline
  <2>1. handler.kind = "update" /\ node' = node /\ node = handler.plan
    BY <1>5, RelineSteps DEF PlanOK, Doing, Ahead
  <2>2. CASE Turns("call", handler.row) /\ route' = [lines |-> handler.plan, public |-> route.public]
    <3>1. route'.lines = node'
      BY <2>1, <2>2
    <3>. QED  BY <2>1, <2>2, <3>1, PlanTurns
  <2>3. CASE Turns("renode", handler.row)
    BY <2>1, <2>3, PlanTurns
  <2>. QED  BY <1>5, <2>2, <2>3, RelineSteps
<1>6. CASE Drop \/ Redrop
  <2>1. UNCHANGED <<node, pub>> /\ handler.kind \in {"publish", "cleanup", "sweep", "unpublish"}
    BY <1>6, DropSteps, RedropSteps
  <2>2. CASE \E step, row : Turns(step, row) /\ step \in {"settle", "record"}
             /\ (step = "settle" => handler.kind # "publish")
    BY <2>1, <2>2, PlanTurns
  <2>. QED  BY <1>6, <2>2, PlanRests, DropSteps, RedropSteps
<1>7. CASE Renode \/ Reroute
  <2>1. handler.kind = "update"
    BY <1>7, RenodeSteps, RerouteSteps
  <2>2. CASE \E step \in {"record", "reroute", "remark"} : Turns(step, handler.row)
    BY <2>1, <2>2, PlanTurns
  <2>. QED  BY <1>7, <2>2, PlanRests, RenodeSteps, RerouteSteps
<1>8. CASE Rerow
  <2>1. CASE handler.kind = "update" /\ Turns("recall", handler.row)
    BY <1>8, <2>1, RerowSteps, PlanTurns
  <2>. QED  BY <1>8, <2>1, PlanRests, RerowSteps
<1>. QED  BY <1>1, <1>2, <1>3, <1>4, <1>5, <1>6, <1>7, <1>8

LEMMA HearingPlans ==
  ASSUME AloneInv, NEW a \in Answer, Hearing(a), UNCHANGED <<node, pub, route>>
  PROVE  PlanOK'
<1>. USE AloneFacts
<1>1. handler.kind = "update" /\ Ahead({"call"}) => node = handler.plan /\ route.lines = node
  BY DEF PlanOK, Doing, Ahead
<1>2. CASE \E step, row : Turns(step, row) /\ step \in {"commit", "recall", "redrop", "settle", "record", "renode", "drop"}
             /\ (step = "settle" => handler.kind # "publish" /\ (handler.kind = "update" => Ahead({"call"})))
  BY <1>1, <1>2, PlanTurns
<1>. QED  BY <1>2, PlanRests DEF Hearing

LEMMA CallingPlans ==
  ASSUME AloneInv, Calls \/ Skips \/ Hears \/ TimesOut
  PROVE  PlanOK'
<1>. USE AloneFacts
<1>1. UNCHANGED <<node, pub, route>>
  BY CallsSteps, SkipsSteps, HearsSteps, TimesOutSteps DEF database
<1>2. CASE handler' = [handler EXCEPT !.sent = TRUE] /\ handler.kind # "none"
  <2>1. handler \in Handler
    BY <1>2, HandlerFacts
  <2>. QED  BY <1>1, <1>2, <2>1, PlanFrame DEF Handler
<1>. QED  BY <1>1, <1>2, HearingPlans, PlanRests, UnavailableFacts, CallsSteps, SkipsSteps, HearsSteps,
             TimesOutSteps

LEMMA OthersPlan ==
  ASSUME AloneInv, HandlerBegins \/ Failures \/ ConsoleReads \/ ConsoleWrites, Overlap = {}, ~Direct
  PROVE  PlanOK'
<1>. USE AloneFacts
<1>1. CASE HandlerBegins
  <2>1. UNCHANGED <<node, route>>
    BY <1>1, BeginSteps
  <2>2. CASE Starts("publish", "mark", node, pub)
    BY <2>1, <2>2 DEF PlanOK, Starts, Leads, Doing, Ahead
  <2>3. CASE \E next \in Lines \ {node} : Starts("update", "retarget", next, pub)
    BY <2>1, <2>3 DEF PlanOK, Starts, Leads, Doing, Ahead
  <2>4. CASE ~Reported("published")' /\ Starts("cleanup", "call", None, pub)
    BY <2>1, <2>4 DEF PlanOK, Starts, Leads, Doing, Ahead
  <2>5. CASE \E kind \in Kind \ {"publish", "update", "cleanup"} : \E step, plan, row : Starts(kind, step, plan, row)
    BY <2>1, <2>5 DEF PlanOK, Starts, Leads, Doing, Ahead
  <2>6. \/ Starts("publish", "mark", node, pub)
        \/ \E next \in Lines \ {node} : Starts("update", "retarget", next, pub)
        \/ ~Reported("published")' /\ Starts("cleanup", "call", None, pub)
        \/ \E kind \in {"refresh", "sweep", "normalize", "unpublish", "canary"} :
             \E step, plan, row : Starts(kind, step, plan, row)
    BY <1>1, BeginSteps DEF Reported
  <2>. QED  BY <2>2, <2>3, <2>4, <2>5, <2>6 DEF Kind
<1>2. CASE ClientLeaves
  <2>1. handler \in Handler /\ UNCHANGED <<node, pub, route>>
    BY <1>2 DEF ClientLeaves, ShapeInv, TypeOK, database
  <2>. QED  BY <1>2, <2>1, PlanFrame DEF ClientLeaves, Handler
<1>3. CASE ControllerCrashes
  BY <1>3, PlanRests DEF ControllerCrashes
<1>4. CASE ConsoleReads
  BY <1>4, PlanFrame DEF ConsoleReads, database
<1>5. CASE ConsoleWrites
  <2>1. handler' = NoHandler
    BY <1>5 DEF ConsoleWrites, AloneOK, ShapeInv, HandlerOK
  <2>. QED  BY <2>1, PlanRests
<1>. QED  BY <1>1, <1>2, <1>3, <1>4, <1>5 DEF Failures

LEMMA PlanStep ==
  ASSUME AloneInv, [Next]_vars, Overlap = {}, ~Direct
  PROVE  PlanOK'
<1>1. CASE HandlerRuns
  BY <1>1, SavingPlans, CallingPlans DEF HandlerRuns
<1>2. CASE AgentNext /\ UNCHANGED <<handler, console>>
  BY <1>2, AgentFrame, AloneFacts, PlanFrame DEF database
<1>3. CASE UNCHANGED vars
  BY <1>3, AloneFacts, PlanFrame DEF vars, database
<1>. QED  BY <1>1, <1>2, <1>3, OthersPlan DEF Next

(* Nobody waits for an answer.                                             *)
LEMMA NobodyNew ==
  ASSUME ~asked', answer' = None
  PROVE  NewOK'
BY DEF NewOK

LEMMA SilentFacts ==
  ASSUME AloneInv, ~handler.sent
  PROVE  ~asked /\ answer = None
BY AloneFacts DEF SocketOK

LEMMA HandlerNew ==
  ASSUME AloneInv, HandlerBegins \/ HandlerRuns \/ Failures \/ ConsoleReads \/ ConsoleWrites
  PROVE  NewOK'
<1>. USE AloneFacts
<1>1. CASE HandlerBegins \/ ConsoleWrites
  <2>1. UNCHANGED socket /\ handler.kind = "none"
    BY <1>1, BeginSteps DEF Free, ConsoleWrites, AloneOK
  <2>2. ~handler.sent
    BY <2>1 DEF ShapeInv, HandlerOK, NoHandler
  <2>. QED  BY <2>1, <2>2, SilentFacts, NobodyNew DEF socket
<1>2. CASE Mark \/ Stage \/ Commit \/ Settle \/ Retarget \/ Reline \/ Drop \/ Redrop
             \/ Renode \/ Reroute \/ Rerow \/ Skips
  <2>1. UNCHANGED socket /\ ~handler.sent
    BY <1>2, MarkSteps, StageSteps, CommitSteps, SettleSteps, RetargetSteps, RelineSteps, DropSteps,
       RedropSteps, RenodeSteps, RerouteSteps, RerowSteps, SkipsSteps
  <2>. QED  BY <2>1, SilentFacts, NobodyNew DEF socket
<1>3. CASE Calls
  <2>1. ~handler.sent /\ queue \in Seq(Request) /\ Asked \in Request
    BY <1>3, CallsSteps, AgentFacts DEF Asked, Request
  <2>2. CASE UNCHANGED socket
    BY <2>1, <2>2, SilentFacts, NobodyNew DEF socket
  <2>3. CASE UNCHANGED answer /\ queue' = Append(queue, Asked)
    <3>1. queue' # <<>> /\ answer' = None
      BY <2>1, <2>3, SilentFacts, AppendFacts
    <3>. QED  BY <3>1 DEF NewOK
  <2>. QED  BY <1>3, <2>2, <2>3, CallsSteps
<1>4. CASE Hears
  <2>1. UNCHANGED asked /\ answer # None /\ answer' = None
    BY <1>4, HearsSteps, NoneFacts
  <2>2. ~asked
    BY <2>1 DEF SocketOK
  <2>. QED  BY <2>1, <2>2, NobodyNew
<1>5. CASE TimesOut
  <2>1. ~asked' /\ asked /\ UNCHANGED answer
    BY <1>5, TimesOutSteps
  <2>2. answer = None
    BY <2>1 DEF SocketOK
  <2>. QED  BY <2>1, <2>2, NobodyNew
<1>6. CASE ClientLeaves
  <2>1. handler \in Handler /\ UNCHANGED <<node, edges, socket, agent>>
    BY <1>6 DEF ClientLeaves, ShapeInv, TypeOK, database
  <2>2. handler'.kind = handler.kind /\ handler'.todo = handler.todo
    BY <1>6, <2>1 DEF ClientLeaves, Handler
  <2>. QED  BY <2>1, <2>2 DEF NewOK, Asked, edges, socket
<1>7. CASE ControllerCrashes
  BY <1>7, NobodyNew DEF ControllerCrashes
<1>8. CASE ConsoleReads
  BY <1>8 DEF ConsoleReads, NewOK, Asked, edges, socket, database
<1>. QED  BY <1>1, <1>2, <1>3, <1>4, <1>5, <1>6, <1>7, <1>8 DEF HandlerRuns, Failures

(* What is left to show of a step of the agent.                            *)
LEMMA AgentNew ==
  ASSUME AloneInv, AgentNext, UNCHANGED <<handler, console>>,
         asked' /\ queue' = <<>> =>
           /\ agent'.new.lines = node
           /\ agent'.do \in {"update", "restore"} => agent'.old.lines = node,
         answer' # None /\ Asked = "publish" =>
           ~Synced(answer') \/ \A e \in Edges : files'[e] # None /\ files'[e].lines = node
  PROVE  NewOK'
<1>1. UNCHANGED node /\ Asked' = Asked
  BY AgentFrame DEF database, Asked
<1>. QED  BY <1>1 DEF NewOK

LEMMA TakesNew ==
  ASSUME AloneInv, Takes, UNCHANGED <<handler, console>>
  PROVE  NewOK'
<1>. USE AloneFacts
<1>1. AgentNext /\ answer = None
  BY NoAnswer DEF AgentNext, AgentRuns
<1>2. CASE agent' = Idle /\ Replies("failed", "failed")
  BY <1>1, <1>2, AgentNew, RepliesFailed DEF Replies
<1>3. CASE /\ Manifest.lines = node /\ agent'.new = Manifest /\ UNCHANGED <<asked, answer>>
           /\ \/ agent'.do = "update" /\ agent'.old = Manifest
              \/ agent'.do \in {"publish", "unpublish"}
  <2>1. answer' = None
    BY <1>1, <1>3
  <2>2. /\ agent'.new.lines = node
        /\ agent'.do \in {"update", "restore"} => agent'.old.lines = node
    BY <1>3
  <2>. QED  BY <1>1, <2>1, <2>2, AgentNew
<1>. QED  BY <1>2, <1>3, TakesSteps DEF Request

LEMMA MovesNew ==
  ASSUME AloneInv, AgentNext, UNCHANGED <<handler, console, queue>>, NEW at, NEW bwg, Moves(at, bwg)
  PROVE  NewOK'
<1>1. answer' = None
  BY AloneFacts, NoAnswer DEF Moves
<1>2. asked' /\ queue' = <<>> =>
           /\ agent'.new.lines = node
           /\ agent'.do \in {"update", "restore"} => agent'.old.lines = node
  BY AloneFacts DEF NewOK, Moves
<1>. QED  BY <1>1, <1>2, AgentNew

LEMMA RepliesNew ==
  ASSUME AloneInv, AgentNext, UNCHANGED <<handler, console, queue>>, agent' = Idle,
         NEW bwg, NEW nosla, Replies(bwg, nosla),
         agent.do \in Does("publish") /\ bwg = "synced" /\ nosla = "synced" =>
           \A e \in Edges : files'[e] = agent.new /\ agent.new \in Fragment
  PROVE  NewOK'
<1>. USE AloneFacts
<1>1. answer = None
  BY NoAnswer
<1>2. ~(asked' /\ queue' = <<>>)
  BY DEF Replies
<1>3. ASSUME answer' # None, Asked = "publish", Synced(answer')
      PROVE  \A e \in Edges : files'[e] # None /\ files'[e].lines = node
  <2>1. asked /\ queue = <<>> /\ bwg = "synced" /\ nosla = "synced"
    BY <1>1, <1>3 DEF Replies, Synced, Edges
  <2>2. agent.do \in Does("publish") /\ agent.new.lines = node
    BY <1>3, <2>1 DEF SocketOK, NewOK
  <2>. QED  BY <2>1, <2>2, NoneFacts
<1>. QED  BY <1>2, <1>3, AgentNew

LEMMA ProbesNew ==
  ASSUME AloneInv, Probes, UNCHANGED <<handler, console>>
  PROVE  NewOK'
<1>. USE AloneFacts
<1>1. AgentNext /\ answer = None /\ UNCHANGED queue /\ agent.do = "update"
  BY NoAnswer, ProbesSteps DEF AgentNext, AgentRuns
<1>2. CASE agent' = Idle /\ Replies("synced", "synced")
  BY <1>1, <1>2, RepliesNew DEF Does
<1>3. CASE /\ agent'.do = "update" /\ agent'.old = agent.old /\ agent'.new.lines = agent.new.lines
           /\ UNCHANGED <<asked, answer>>
  BY <1>1, <1>3, AgentNew DEF NewOK
<1>. QED  BY <1>2, <1>3, ProbesSteps

LEMMA OnBWGNew ==
  ASSUME AloneInv, OnBWG, UNCHANGED <<handler, console>>
  PROVE  NewOK'
<1>. USE AloneFacts
<1>1. AgentNext /\ UNCHANGED queue
  BY OnBWGSteps DEF AgentNext, AgentRuns
<1>2. \/ \E bwg : Moves("nosla", bwg)
      \/ \E bwg : agent' = Idle /\ Replies(bwg, "failed")
  BY OnBWGSteps
<1>. QED  BY <1>1, <1>2, MovesNew, RepliesNew

LEMMA OnNOSLANew ==
  ASSUME AloneInv, OnNOSLA, UNCHANGED <<handler, console>>
  PROVE  NewOK'
<1>. USE AloneFacts
<1>1. AgentNext
  BY DEF AgentNext, AgentRuns
<1>2. PICK o : /\ Helps("nosla", Verb, agent.new, o) /\ Only("nosla", o)
               /\ agent.at = "nosla" /\ agent.new \in Fragment
               /\ UNCHANGED queue
               /\ \/ \E at : Moves(at, agent.bwg)
                  \/ agent' = Idle /\ Replies(agent.bwg, o.result)
  BY OnNOSLASteps
<1>3. ASSUME agent.do \in Does("publish"), o.result = "synced"
      PROVE  \A e \in Edges : files'[e] = agent.new
  <2>1. agent.do = "publish" /\ Verb = "publish" /\ files["bwg"] = agent.new
    BY <1>2, <1>3 DEF Does, Verb, EdgesOK
  <2>2. Helps("nosla", "publish", agent.new, o)
    BY <1>2, <2>1
  <2>3. Put("nosla", agent.new, o)
    BY <1>3, <2>2, HelpsTruth
  <2>. QED  BY <1>2, <2>1, <2>3 DEF Only, Edges, Put
<1>. QED  BY <1>1, <1>2, <1>3, MovesNew, RepliesNew

LEMMA UndoesBWGNew ==
  ASSUME AloneInv, UndoesBWG, UNCHANGED <<handler, console>>
  PROVE  NewOK'
<1>. USE AloneFacts
<1>1. AgentNext
  BY DEF AgentNext, AgentRuns
<1>2. UNCHANGED queue /\ \E bwg : agent' = Idle /\ Replies(bwg, "failed")
  BY UndoesBWGSteps
<1>. QED  BY <1>1, <1>2, RepliesNew

LEMMA StoresNew ==
  ASSUME AloneInv, Stores, UNCHANGED <<handler, console>>
  PROVE  NewOK'
<1>. USE AloneFacts
<1>1. AgentNext /\ answer = None /\ UNCHANGED queue /\ agent.do = "update"
  BY NoAnswer, StoresSteps DEF AgentNext, AgentRuns
<1>2. CASE agent' = Idle /\ Replies("synced", "synced")
  BY <1>1, <1>2, RepliesNew DEF Does
<1>3. CASE agent'.new = agent.old /\ agent'.old = agent.new /\ UNCHANGED <<asked, answer>>
  BY <1>1, <1>3, AgentNew DEF NewOK
<1>. QED  BY <1>2, <1>3, StoresSteps

LEMMA AgentRestartsNew ==
  ASSUME AloneInv, AgentRestarts, UNCHANGED <<handler, console>>
  PROVE  NewOK'
<1>. USE AloneFacts
<1>1. AgentNext /\ answer = None
  BY NoAnswer DEF AgentNext, AgentRuns
<1>2. ~asked' /\ answer' \in {Unavailable, None}
  BY <1>1, AgentRestartsSteps
<1>. QED  BY <1>1, <1>2, AgentNew, UnavailableFacts

LEMMA AloneInit ==
  ASSUME Init
  PROVE  AloneInv
<1>1. handler = NoHandler /\ console = NoConsole /\ asked = FALSE /\ answer = None /\ pub = None
  BY DEF Init, AgentInit
<1>2. \A kind, steps : ~Doing(kind, steps)
  BY <1>1 DEF Doing, Ahead, NoHandler
<1>. QED  BY <1>1, <1>2, ServedInit DEF AloneInv, AloneOK, PlanOK, NewOK, NoHandler, NoConsole

LEMMA AloneInvStep ==
  ASSUME AloneInv, [Next]_vars, Overlap = {}, ~Direct
  PROVE  AloneInv'
<1>1. ServedInv'
  BY AloneFacts, ServedStep
<1>2. NewOK'
  <2>1. CASE AgentNext /\ UNCHANGED <<handler, console>>
    BY <2>1, TakesNew, ProbesNew, OnBWGNew, OnNOSLANew, UndoesBWGNew, StoresNew, AgentRestartsNew
       DEF AgentNext, AgentRuns
  <2>2. CASE UNCHANGED vars
    BY <2>2, AloneFacts DEF vars, database, socket, edges, NewOK, Asked
  <2>. QED  BY <2>1, <2>2, HandlerNew DEF Next
<1>. QED  BY <1>1, <1>2, AloneStep, PlanStep DEF AloneInv

-----------------------------------------------------------------------------
\* What a run of the helper keeps

LEMMA FragmentFacts ==
  ASSUME NEW m \in Fragment
  PROVE  m # None /\ m.lines \in Lines
BY NoneFacts DEF Fragment

(* A fragment that is put on an edge where its lines are loaded, if they   *)
(* are there at all, is loaded.                                            *)
LEMMA PutOn ==
  ASSUME NEW e \in Edges, NEW m \in Fragment, NEW o, Put(e, m, o), Only(e, o), InStep(m.lines)
  PROVE  On(e, m.lines)'
<1>1. files'[e] = m /\ m # None
  BY NoneFacts DEF Put, Only
<1>2. loaded'[e] # None /\ loaded'[e].lines = m.lines
  <2>1. CASE files[e] = m
    BY <1>1, <2>1 DEF Put, Only, InStep
  <2>2. CASE files[e] # m
    BY <1>1, <2>2 DEF Put, Only
  <2>. QED  BY <2>1, <2>2
<1>. QED  BY <1>1, <1>2 DEF On

LEMMA OnlyOn ==
  ASSUME NEW e \in Edges, NEW o, Only(e, o), NEW x \in Edges, x # e, NEW lines
  PROVE  On(x, lines)' <=> On(x, lines)
BY DEF Only, On

LEMMA HelpsInStep ==
  ASSUME NEW e \in Edges, NEW do, NEW m \in Fragment, NEW o, Helps(e, do, m, o), Only(e, o),
         NEW lines, InStep(lines)
  PROVE  InStep(lines)'
<1>1. \A x \in Edges : x # e => files'[x] = files[x] /\ loaded'[x] = loaded[x]
  BY DEF Only
<1>2. files'[e] # None /\ files'[e].lines = lines => loaded'[e] # None /\ loaded'[e].lines = lines
  <2>1. CASE Kept(e, o)
    BY <2>1 DEF Kept, Only, InStep
  <2>2. CASE Put(e, m, o)
    BY <2>2, PutOn DEF On, Put, Only
  <2>3. CASE Took(e, m, o)
    BY <2>3 DEF Took, Only
  <2>. QED  BY <2>1, <2>2, <2>3 DEF Helps
<1>. QED  BY <1>1, <1>2 DEF InStep

LEMMA AllInStepFacts ==
  AllInStep <=> \A lines : InStep(lines)
BY DEF AllInStep, InStep

LEMMA HelpsAllInStep ==
  ASSUME NEW e \in Edges, NEW do, NEW m \in Fragment, NEW o, Helps(e, do, m, o), Only(e, o), AllInStep
  PROVE  AllInStep'
<1>1. \A lines : InStep(lines)
  BY AllInStepFacts
<1>2. \A lines : InStep(lines)'
  BY <1>1, HelpsInStep
<1>. QED  BY <1>2 DEF AllInStep, InStep

(* An edge that serves these lines still does when they are put there.     *)
LEMMA HelpsOn ==
  ASSUME NEW e \in Edges, NEW m \in Fragment, NEW o, Only(e, o), NEW lines, m.lines = lines,
         \/ Helps(e, "publish", m, o)
         \/ o.file = m /\ o.loaded = loaded[e],
         NEW x \in Edges, On(x, lines)
  PROVE  On(x, lines)'
<1>1. CASE x # e
  BY <1>1, OnlyOn
<1>2. CASE x = e /\ Kept(e, o)
  BY <1>2 DEF Kept, Only, On
<1>3. CASE x = e /\ (Put(e, m, o) \/ (o.file = m /\ o.loaded = loaded[e]))
  BY <1>3, NoneFacts DEF Put, Only, On
<1>. QED  BY <1>1, <1>2, <1>3 DEF Helps

LEMMA HelpsServing ==
  ASSUME NEW e \in Edges, NEW m \in Fragment, NEW o, Only(e, o), NEW lines, m.lines = lines,
         \/ Helps(e, "publish", m, o)
         \/ o.file = m /\ o.loaded = loaded[e],
         Serving(lines)
  PROVE  Serving(lines)'
BY HelpsOn DEF Serving

LEMMA HelpsNode ==
  ASSUME NEW e \in Edges, NEW m \in Fragment, NEW o, Only(e, o), m.lines = node, UNCHANGED node,
         \/ Helps(e, "publish", m, o)
         \/ o.file = m /\ o.loaded = loaded[e],
         Serving(node)
  PROVE  Serving(node)'
<1>1. Serving(m.lines)
  OBVIOUS
<1>2. Serving(m.lines)'
  BY <1>1, HelpsServing
<1>. QED  BY <1>2 DEF Serving, On

LEMMA ServingFrame ==
  ASSUME UNCHANGED <<files, loaded>>, NEW lines
  PROVE  /\ Serving(lines)' <=> Serving(lines)
         /\ InStep(lines)' <=> InStep(lines)
         /\ AllInStep' <=> AllInStep
         /\ \A e \in Edges : On(e, lines)' <=> On(e, lines)
BY DEF Serving, InStep, AllInStep, On

LEMMA ServingInStep ==
  ASSUME NEW lines, Serving(lines)
  PROVE  AllInStep
BY DEF Serving, On, AllInStep

LEMMA OneServing ==
  ASSUME NEW lines, NEW other, Serving(lines), Serving(other)
  PROVE  lines = other
BY DEF Serving, On, Edges

LEMMA ServingLines ==
  ASSUME AllInStep, NEW lines, \A e \in Edges : files[e] # None /\ files[e].lines = lines
  PROVE  Serving(lines)
BY DEF AllInStep, Serving, On

-----------------------------------------------------------------------------
\* Without a failure

LEMMA UnfailedFacts ==
  ASSUME UnfailedInv
  PROVE  /\ AloneInv /\ UnfailedOK /\ faults \in Nat
         /\ ShapeInv /\ SocketOK /\ EdgesOK /\ AccountOK /\ ServedOK /\ AloneOK /\ PlanOK /\ NewOK
         /\ CallInv /\ AccountedInv /\ ServedInv
BY AloneFacts, AgentFacts DEF UnfailedInv

LEMMA SilentUnfailed ==
  ASSUME UnfailedInv, faults = 0, ~handler.sent
  PROVE  ~asked /\ answer = None /\ Quiet /\ ~handler.cancelled
BY UnfailedFacts, SilentFacts DEF UnfailedOK

(* A step that is not about a call.                                        *)
LEMMA CalmUnfailed ==
  ASSUME UnfailedInv, faults' = faults, UNCHANGED <<socket, agent>>, ~handler.sent,
         faults = 0 => ~handler'.cancelled /\ ~Undoing' /\ (Configured' => Faithful')
  PROVE  UnfailedOK'
<1>. SUFFICES ASSUME faults = 0 PROVE UnfailedOK'
  BY DEF UnfailedOK
<1>1. ~asked' /\ answer' = None /\ Quiet'
  BY SilentUnfailed DEF socket, Quiet
<1>. QED  BY <1>1 DEF UnfailedOK, Succeeds

LEMMA FailedUnfailed ==
  ASSUME faults \in Nat, faults' = faults + 1
  PROVE  UnfailedOK'
BY DEF UnfailedOK

LEMMA RestsCalm ==
  ASSUME handler' = NoHandler
  PROVE  /\ ~handler'.cancelled /\ ~handler'.sent /\ ~Undoing' /\ Base' = node'
         /\ Configured' <=> Reported("published")'
<1>1. \A kind, steps : ~Doing(kind, steps)'
  BY NoHandlerShape
<1>. QED  BY <1>1 DEF NoHandler, Undoing, Restoring, Base, Configured

LEMMA TurnsCalm ==
  ASSUME NEW step, NEW row, Turns(step, row)
  PROVE  /\ handler'.cancelled = handler.cancelled /\ ~handler'.sent
         /\ Undoing' => \/ /\ handler.kind = "update"
                           /\ step \in {"renode", "reroute", "remark", "recall", "record"}
                        \/ handler.kind = "refresh" /\ step = "record"
         /\ Configured' => \/ Reported("published")' \/ (handler.kind = "update" /\ step = "reline")
                           \/ (handler.kind = "refresh" /\ step \in {"call", "settle"})
         /\ Base' = IF handler.kind = "update" THEN handler.was ELSE node'
BY DEF Turns, Undoing, Restoring, Configured, Base, Doing, Ahead, Leads

LEMMA FaithfulFrame ==
  ASSUME Faithful, UNCHANGED <<pub, route, edges>>, Base' = Base
  PROVE  Faithful'
<1>1. Serving(Base)' <=> Serving(Base)
  BY DEF Serving, On, edges
<1>. QED  BY <1>1 DEF Faithful

LEMMA MarkUnfailed ==
  ASSUME UnfailedInv, Mark
  PROVE  UnfailedOK'
<1>. USE UnfailedFacts
<1>1. /\ handler.kind # "none" /\ Ahead({"mark"}) /\ ~handler.sent
      /\ UNCHANGED <<node, route, edges, socket, agent>>
  BY MarkSteps
<1>2. CASE faults' = faults + 1
  BY <1>2, FailedUnfailed
<1>3. CASE handler.cancelled /\ UNCHANGED faults
  BY <1>3 DEF UnfailedOK
<1>4. ASSUME UNCHANGED faults, faults = 0, ~handler.cancelled,
             handler.kind \in {"refresh", "update"}, pub' = Pending("publishing"),
             \/ handler.kind = "refresh" /\ Turns("call", handler.row)
             \/ handler.kind = "update" /\ Turns("reline", handler.row)
      PROVE  UnfailedOK'
  <2>1. Reported("published") /\ handler.row = pub /\ handler.row \in Row
    BY <1>1, <1>4 DEF AccountOK, PhaseOK, ShapeInv, HandlerOK, Doing, Ahead
  <2>2. Faithful
    BY <1>4, <2>1 DEF UnfailedOK, Configured
  <2>3. pub' # None /\ ~pub'.stale
    BY <1>4, <2>1, <2>2, RowFacts, NoneFacts DEF Status, Faithful
  <2>4. Base' = Base /\ ~handler'.cancelled /\ ~Undoing'
    BY <1>1, <1>4, TurnsCalm DEF Base
  <2>5. Serving(Base)' <=> Serving(Base)
    BY <1>1, <2>4, ServingFrame DEF edges
  <2>6. Faithful'
    BY <1>1, <2>2, <2>3, <2>4, <2>5 DEF Faithful
  <2>. QED  BY <1>1, <1>4, <2>4, <2>6, CalmUnfailed
<1>5. ASSUME UNCHANGED faults, faults = 0, ~handler.cancelled,
             \/ handler.kind = "publish" /\ Turns("stage", handler.row) /\ pub' = NewRow("publishing")
             \/ handler.kind = "unpublish" /\ Turns("call", handler.row) /\ pub' = Pending("unpublishing")
      PROVE  UnfailedOK'
  <2>1. handler.kind = "unpublish" => handler.row \in Row
    BY DEF ShapeInv, HandlerOK
  <2>2. ~Reported("published")'
    BY <1>5, <2>1, RowFacts DEF Reported, Status
  <2>3. ~handler'.cancelled /\ ~Undoing' /\ ~Configured'
    BY <1>5, <2>2, TurnsCalm
  <2>. QED  BY <1>1, <1>5, <2>3, CalmUnfailed
<1>6. CASE faults # 0 /\ UNCHANGED faults
  BY <1>6 DEF UnfailedOK
<1>. QED  BY <1>2, <1>3, <1>4, <1>5, <1>6, MarkSteps DEF Failing

LEMMA SettleUnfailed ==
  ASSUME UnfailedInv, Settle, SettleOK
  PROVE  UnfailedOK'
<1>. USE UnfailedFacts
<1>1. Ahead({"settle"}) /\ ~handler.sent /\ UNCHANGED <<node, route, edges, socket, agent>>
  BY SettleSteps
<1>2. CASE faults' = faults + 1
  BY <1>2, FailedUnfailed
<1>3. CASE handler.cancelled /\ UNCHANGED faults
  BY <1>3 DEF UnfailedOK
<1>4. CASE faults # 0 /\ UNCHANGED faults
  BY <1>4 DEF UnfailedOK
<1>5. ASSUME UNCHANGED faults, faults = 0, ~handler.cancelled, pub' = NewRow("published"),
             \/ handler.kind \in {"publish", "refresh"} /\ Turns("verify", handler.row)
             \/ handler.kind = "update" /\ handler' = NoHandler
      PROVE  UnfailedOK'
  <2>1. Serving(node)
    BY <1>1, <1>5 DEF SettleOK
  <2>2. pub' # None /\ ~pub'.stale
    BY <1>5, RowFacts, NoneFacts DEF Status
  <2>3. Base' = node /\ ~handler'.cancelled /\ ~Undoing'
    BY <1>1, <1>5, TurnsCalm, RestsCalm
  <2>4. route # None /\ route.lines = node
    <3>1. CASE handler.kind = "publish"
      BY <1>1, <3>1 DEF PlanOK, Doing, Ahead
    <3>2. CASE handler.kind = "refresh"
      BY <1>1, <1>5, <3>2 DEF UnfailedOK, Configured, Faithful, Base, Doing, Ahead
    <3>3. CASE handler.kind = "update"
      BY <1>1, <3>3, NoneFacts DEF PlanOK, ShapeInv, HandlerOK, Doing, Ahead
    <3>. QED  BY <1>5, <3>1, <3>2, <3>3
  <2>5. Serving(node)' <=> Serving(node)
    BY <1>1, ServingFrame DEF edges
  <2>6. Faithful'
    BY <1>1, <2>1, <2>2, <2>3, <2>4, <2>5 DEF Faithful
  <2>. QED  BY <1>1, <1>5, <2>3, <2>6, CalmUnfailed
<1>6. ASSUME UNCHANGED faults, faults = 0, handler' = NoHandler, pub' = NewRow("saved")
      PROVE  UnfailedOK'
  <2>1. ~handler'.cancelled /\ ~Undoing' /\ ~Configured'
    BY <1>6, RestsCalm, RowFacts DEF Reported, Status
  <2>. QED  BY <1>1, <1>6, <2>1, CalmUnfailed
<1>. QED  BY <1>2, <1>3, <1>4, <1>5, <1>6, SettleSteps DEF Failing

LEMMA SavingUnfailed ==
  ASSUME UnfailedInv, Stage \/ Commit \/ Retarget \/ Reline \/ Drop \/ Redrop \/ Renode \/ Reroute \/ Rerow
  PROVE  UnfailedOK'
<1>. USE UnfailedFacts
<1>1. ~handler.sent /\ UNCHANGED <<edges, socket, agent>>
  BY StageSteps, CommitSteps, RetargetSteps, RelineSteps, DropSteps, RedropSteps, RenodeSteps,
     RerouteSteps, RerowSteps
<1>2. CASE faults' = faults + 1
  BY <1>2, FailedUnfailed
<1>3. CASE (handler.cancelled \/ faults # 0) /\ UNCHANGED faults
  BY <1>3 DEF UnfailedOK
<1>. SUFFICES ASSUME UNCHANGED faults, faults = 0, ~handler.cancelled
              PROVE  ~handler'.cancelled /\ ~Undoing' /\ (Configured' => Faithful')
  <2>1. faults' = faults + 1 \/ UNCHANGED faults
    BY StageSteps, CommitSteps, RetargetSteps, RelineSteps, DropSteps, RedropSteps, RenodeSteps,
       RerouteSteps, RerowSteps DEF Failing
  <2>. QED  BY <1>1, <1>2, <1>3, <2>1, CalmUnfailed
<1>4. ~Undoing /\ (Configured => Faithful) /\ ~Failing("save")
  BY DEF UnfailedOK, Failing
<1>5. CASE Stage \/ Commit
  <2>1. handler.kind = "publish" /\ Reported("publishing") /\ UNCHANGED pub
    BY <1>5, StageSteps, CommitSteps DEF AccountOK, PhaseOK, Doing, Ahead
  <2>2. \E step : Turns(step, handler.row)
    BY <1>4, <1>5, StageSteps, CommitSteps
  <2>. QED  BY <2>1, <2>2, TurnsCalm DEF Reported
<1>6. CASE Retarget
  <2>1. /\ handler.kind = "update" /\ UNCHANGED <<pub, route>> /\ Reported("published")
        /\ Turns("mark", handler.row)
    BY <1>4, <1>6, RetargetSteps DEF AccountOK, PhaseOK, Doing, Ahead
  <2>2. Faithful /\ Base' = Base
    BY <1>4, <2>1, TurnsCalm DEF Configured, Base
  <2>. QED  BY <1>1, <2>1, <2>2, TurnsCalm, FaithfulFrame
<1>7. CASE Reline
  <2>1. /\ handler.kind = "update" /\ UNCHANGED pub /\ Reported("publishing")
        /\ Turns("call", handler.row)
    BY <1>4, <1>7, RelineSteps DEF AccountOK, PhaseOK, Doing, Ahead
  <2>. QED  BY <2>1, TurnsCalm DEF Reported
<1>8. CASE Drop
  <2>1. /\ handler.kind \in {"cleanup", "sweep", "unpublish"} /\ UNCHANGED pub
        /\ Ahead({"drop"}) /\ Turns("settle", handler.row)
    BY <1>4, <1>8, DropSteps
  <2>2. ~Reported("published")
    BY <2>1 DEF AccountOK, PhaseOK, PubOK, PlanOK, Doing, Ahead, Reported
  <2>. QED  BY <2>1, <2>2, TurnsCalm DEF Reported
<1>9. CASE Redrop
  <2>1. handler.kind = "publish" /\ Reported("publishing") /\ UNCHANGED pub /\ Turns("record", handler.row)
    BY <1>4, <1>9, RedropSteps DEF AccountOK, PhaseOK, Doing, Ahead
  <2>. QED  BY <2>1, TurnsCalm DEF Reported
<1>10. CASE Renode \/ Reroute
  BY <1>4, <1>10, RenodeSteps, RerouteSteps DEF Undoing, Restoring, Doing, Ahead
<1>11. CASE Rerow
  <2>1. /\ handler.kind \in {"publish", "refresh", "unpublish"} /\ Ahead({"record"})
        /\ handler' = NoHandler /\ pub' = handler.row
    BY <1>4, <1>11, RerowSteps DEF Undoing, Restoring, Doing, Ahead
  <2>2. handler.kind # "refresh"
    BY <1>4, <2>1 DEF Undoing, Doing
  <2>3. CASE handler.kind \in {"publish", "unpublish"}
    <3>1. ~Reported("published")'
      BY <2>1, <2>3 DEF AccountOK, RecordOK, Reported, Doing, Ahead
    <3>. QED  BY <2>1, <3>1, RestsCalm
  <2>. QED  BY <2>1, <2>2, <2>3
<1>. QED  BY <1>5, <1>6, <1>7, <1>8, <1>9, <1>10, <1>11

LEMMA CallsUnfailed ==
  ASSUME UnfailedInv, Calls
  PROVE  UnfailedOK'
<1>. USE UnfailedFacts
<1>1. /\ handler.kind # "none" /\ ~handler.sent /\ UNCHANGED <<edges, agent>> /\ UNCHANGED <<node, pub, route>>
  BY CallsSteps DEF database
<1>2. CASE Failing("away")
  BY <1>2, FailedUnfailed DEF Failing, UnfailedOK
<1>3. CASE faults # 0 /\ UNCHANGED faults
  BY <1>3 DEF UnfailedOK
<1>4. ASSUME faults = 0, UNCHANGED <<answer, faults>>, queue' = Append(queue, Asked), asked',
             handler' = [handler EXCEPT !.sent = TRUE]
      PROVE  UnfailedOK'
  <2>1. ~asked /\ answer = None /\ Quiet /\ ~handler.cancelled
    BY <1>1, <1>4, SilentUnfailed
  <2>2. agent' = Idle /\ Len(queue') = 1 /\ queue' # <<>>
    BY <1>1, <1>4, <2>1 DEF Quiet
  <2>3. handler \in Handler
    BY <1>1, HandlerFacts
  <2>4. /\ handler'.kind = handler.kind /\ handler'.todo = handler.todo /\ handler'.was = handler.was
        /\ ~handler'.cancelled
    BY <1>4, <2>1, <2>3 DEF Handler
  <2>5. Undoing' <=> Undoing
    BY <2>4 DEF Undoing, Restoring, Doing, Ahead
  <2>6. Configured' <=> Configured
    BY <1>1, <2>4 DEF Configured, Doing, Ahead, Reported
  <2>7. Base' = Base
    BY <1>1, <2>4 DEF Base
  <2>8. Configured' => Faithful'
    BY <1>1, <1>4, <2>6, <2>7, FaithfulFrame DEF UnfailedOK
  <2>. QED  BY <1>4, <2>1, <2>2, <2>4, <2>5, <2>8 DEF UnfailedOK, Succeeds
<1>. QED  BY <1>2, <1>3, <1>4, CallsSteps

LEMMA HearsUnfailed ==
  ASSUME UnfailedInv, Hears
  PROVE  UnfailedOK'
<1>. USE UnfailedFacts
<1>1. /\ answer \in Answer /\ answer' = None /\ Hearing(answer) /\ UNCHANGED <<queue, asked, agent, faults>>
      /\ UNCHANGED <<node, pub, route, edges>>
  BY HearsSteps DEF database
<1>. SUFFICES ASSUME faults = 0 PROVE UnfailedOK'
  BY <1>1 DEF UnfailedOK
<1>2. answer # None /\ ~asked' /\ Quiet'
  BY <1>1, NoneFacts DEF SocketOK, Quiet
<1>3. /\ ~handler.cancelled /\ ~Undoing /\ (Configured => Faithful)
      /\ Doing("update", {"call"}) \/ Doing("refresh", {"call"}) => Synced(answer)
  BY <1>2 DEF UnfailedOK, Succeeds
<1>. SUFFICES ~handler'.cancelled /\ ~Undoing' /\ (Configured' => Faithful')
  BY <1>1, <1>2 DEF UnfailedOK, Succeeds
<1>4. Base' = Base /\ Faithful => Faithful'
  BY <1>1, FaithfulFrame
<1>5. CASE handler' = NoHandler /\ handler.kind # "update"
  <2>1. Configured' <=> Reported("published")
    BY <1>1, <1>5, RestsCalm DEF Reported
  <2>2. Base' = Base
    BY <1>1, <1>5, RestsCalm DEF Base
  <2>. QED  BY <1>3, <1>4, <1>5, <2>1, <2>2, RestsCalm DEF Configured
<1>6. CASE handler.kind = "refresh" /\ Ahead({"call"}) /\ Turns("settle", handler.row)
  <2>1. Base' = Base /\ Configured
    BY <1>1, <1>6, TurnsCalm DEF Base, Configured, Doing, Ahead
  <2>. QED  BY <1>3, <1>4, <1>6, <2>1, TurnsCalm
<1>7. CASE handler.kind \in {"publish", "cleanup", "unpublish"} /\ \E step, row : Turns(step, row)
  <2>1. Base' = Base /\ (Configured' => Configured)
    BY <1>1, <1>7, TurnsCalm DEF Base, Configured, Reported
  <2>. QED  BY <1>3, <1>4, <1>7, <2>1, TurnsCalm
<1>8. CASE handler.kind = "update" /\ Ahead({"call"}) /\ Turns("settle", handler.row)
  <2>1. Reported("publishing")
    BY <1>8 DEF AccountOK, PhaseOK, Doing, Ahead
  <2>2. ~Configured'
    BY <1>1, <1>8, <2>1, TurnsCalm DEF Reported
  <2>. QED  BY <1>3, <1>8, <2>2, TurnsCalm
<1>9. ~(handler.kind = "update" /\ Ahead({"recall"}))
  BY <1>3 DEF Undoing, Restoring, Doing, Ahead
<1>. QED  BY <1>1, <1>3, <1>5, <1>6, <1>7, <1>8, <1>9 DEF Hearing, Doing

LEMMA BeginUnfailed ==
  ASSUME UnfailedInv, HandlerBegins
  PROVE  UnfailedOK'
<1>. USE UnfailedFacts
<1>1. handler.kind = "none" /\ UNCHANGED <<node, route, edges, socket, agent, faults>>
  BY BeginSteps DEF Free
<1>2. ~handler.sent
  BY <1>1 DEF ShapeInv, HandlerOK, NoHandler
<1>3. \E kind \in Kind, step \in Step : \E plan, row :
        /\ Starts(kind, step, plan, row) /\ (kind = "update" => step = "retarget")
        /\ (kind = "refresh" => step = "mark")
        /\ UNCHANGED pub \/ pub' = NewRow("saved")
  <2>1. \/ \E plan : Starts("publish", "mark", plan, pub) /\ (UNCHANGED pub \/ pub' = NewRow("saved"))
        \/ Starts("refresh", "mark", node, pub) /\ UNCHANGED pub
        \/ \E next : Starts("update", "retarget", next, pub) /\ UNCHANGED pub
        \/ Starts("cleanup", "call", None, pub) /\ UNCHANGED pub
        \/ Starts("sweep", "drop", None, pub) /\ UNCHANGED pub
        \/ Starts("normalize", "settle", None, pub) /\ UNCHANGED pub
        \/ Starts("unpublish", "mark", None, pub) /\ UNCHANGED pub
        \/ Starts("canary", "verify", None, pub) /\ UNCHANGED pub
    BY BeginSteps
  <2>. QED  BY <2>1 DEF Kind, Step
<1>4. ~handler'.cancelled /\ ~Undoing' /\ Base' = Base
      /\ (Configured' <=> Reported("published")')
  BY <1>1, <1>3 DEF Starts, Leads, Undoing, Restoring, Configured, Base, Doing, Ahead
<1>5. Configured' => UNCHANGED pub /\ Configured
  BY <1>3, <1>4, RowFacts DEF Reported, Status, Configured
<1>6. faults = 0 => (Configured' => Faithful')
  BY <1>1, <1>4, <1>5, FaithfulFrame DEF UnfailedOK
<1>. QED  BY <1>1, <1>2, <1>4, <1>6, CalmUnfailed

LEMMA OthersUnfailed ==
  ASSUME UnfailedInv, TimesOut \/ Skips \/ Failures \/ ConsoleReads \/ ConsoleWrites
  PROVE  UnfailedOK'
<1>. USE UnfailedFacts
<1>1. CASE TimesOut \/ Failures
  <2>1. faults' = faults + 1
    BY <1>1, TimesOutSteps DEF Failures, ClientLeaves, ControllerCrashes, Fault
  <2>. QED  BY <2>1, FailedUnfailed
<1>2. CASE Skips
  <2>1. /\ handler.kind # "update" /\ ~handler.sent /\ handler' = NoHandler
        /\ UNCHANGED <<node, pub, route, edges>> /\ UNCHANGED <<socket, agent, faults>>
    BY <1>2, SkipsSteps DEF database
  <2>2. Base' = Base /\ (Configured' => Configured)
    BY <2>1, RestsCalm DEF Base, Configured, Reported
  <2>3. faults = 0 => (Configured' => Faithful')
    BY <2>1, <2>2, FaithfulFrame DEF UnfailedOK
  <2>. QED  BY <2>1, <2>3, RestsCalm, CalmUnfailed
<1>3. CASE ConsoleReads
  <2>1. UNCHANGED <<node, pub, route, edges>> /\ UNCHANGED <<socket, agent, faults, handler>>
    BY <1>3 DEF ConsoleReads, database
  <2>2. Base' = Base /\ (Configured' <=> Configured) /\ (Undoing' <=> Undoing)
    BY <2>1 DEF Base, Configured, Undoing, Restoring, Doing, Ahead, Reported
  <2>3. faults = 0 => (Configured' => Faithful')
    BY <2>1, <2>2, FaithfulFrame DEF UnfailedOK
  <2>. QED  BY <2>1, <2>2, <2>3 DEF UnfailedOK, Succeeds, socket, Quiet, Doing, Ahead
<1>4. CASE ConsoleWrites /\ faults' = faults + 1
  BY <1>4, FailedUnfailed
<1>5. CASE ConsoleWrites /\ UNCHANGED faults
  <2>1. /\ console.do # "none" /\ UNCHANGED <<route, edges, socket, agent, handler>>
        /\ node' = console.next /\ pub' = IF console.do = "delete" THEN None ELSE pub
    BY <1>5 DEF ConsoleWrites, Fault
  <2>2. handler = NoHandler /\ handler' = NoHandler
    BY <2>1 DEF AloneOK, ShapeInv, HandlerOK
  <2>3. ~handler.sent
    BY <2>2 DEF NoHandler
  <2>4. Configured' => Reported("published") /\ UNCHANGED <<node, pub>>
    <3>1. Configured' => Reported("published")'
      BY <2>2, RestsCalm
    <3>2. Reported("published")' => Reported("published") /\ UNCHANGED pub
      BY <2>1 DEF Reported
    <3>3. Reported("published") => console.do = "tag"
      BY <2>1 DEF Reported, AloneOK, Unpublished, ShapeInv, TypeOK, Console, Edit
    <3>. QED  BY <2>1, <3>1, <3>2, <3>3 DEF AloneOK
  <2>5. Base' = node' /\ Base = node
    BY <2>2, RestsCalm DEF Base, NoHandler
  <2>6. faults = 0 => (Configured' => Faithful')
    BY <2>1, <2>4, <2>5, FaithfulFrame DEF UnfailedOK, Configured
  <2>. QED  BY <1>5, <2>1, <2>2, <2>3, <2>6, RestsCalm, CalmUnfailed
<1>6. ConsoleWrites => faults' = faults \/ faults' = faults + 1
  BY DEF ConsoleWrites, Fault
<1>. QED  BY <1>1, <1>2, <1>3, <1>4, <1>5, <1>6

(* The agent is busy only with what is waited for.                         *)
LEMMA BusyUnfailed ==
  ASSUME UnfailedInv, faults = 0, AgentNext, UNCHANGED <<handler, console>>
  PROVE  /\ asked /\ answer = None /\ UNCHANGED <<node, pub, route>> /\ handler.kind # "none"
         /\ handler.sent /\ Ahead({"call", "recall", "verify"})
         /\ queue # <<>> => agent = Idle /\ Len(queue) = 1 /\ Last(queue) = Asked
         /\ queue = <<>> => /\ agent.do \in Does(Asked) /\ agent.new.lines = node
                            /\ agent.do \in {"update", "restore"} => agent.old.lines = node
         /\ Configured => Faithful /\ Base = node /\ (Doing("refresh", {"call"}) \/ Asked = "canary")
         /\ (Configured' <=> Configured) /\ Base' = Base /\ (Undoing' <=> Undoing) /\ Asked' = Asked
<1>. USE UnfailedFacts
<1>1. UNCHANGED <<node, pub, route>>
  BY AgentFrame DEF database
<1>2. asked /\ answer = None
  BY AgentBusy, NoAnswer DEF UnfailedOK
<1>3. handler.sent /\ Ahead({"call", "recall", "verify"}) /\ handler.kind # "none"
  BY <1>2 DEF SocketOK, ShapeInv, HandlerOK, NoHandler
<1>4. queue # <<>> => agent = Idle /\ Len(queue) = 1 /\ Last(queue) = Asked
  BY <1>2 DEF UnfailedOK, SocketOK
<1>5. queue = <<>> => /\ agent.do \in Does(Asked) /\ agent.new.lines = node
                      /\ agent.do \in {"update", "restore"} => agent.old.lines = node
  BY <1>2 DEF SocketOK, NewOK
<1>6. Configured => Faithful
  BY DEF UnfailedOK
<1>7. Configured => Base = node /\ (Doing("refresh", {"call"}) \/ Asked = "canary")
  <2>1. \/ Doing("publish", {"call", "recall", "verify"}) \/ Doing("refresh", {"call", "verify"})
        \/ Doing("update", {"call", "recall"}) \/ Doing("cleanup", {"call"})
        \/ Doing("unpublish", {"call"}) \/ Doing("canary", {"verify"})
    BY <1>3, CallKinds
  <2>2. CASE Doing("publish", {"call", "recall", "verify"})
    <3>1. Ahead({"verify"}) \/ Reported("publishing")
      BY <2>2 DEF AccountOK, PhaseOK, Doing, Ahead
    <3>. QED  BY <2>2, <3>1 DEF Configured, Reported, Doing, Ahead, Base, Asked
  <2>3. CASE Doing("refresh", {"call", "verify"}) \/ Doing("canary", {"verify"})
    BY <2>3 DEF Doing, Ahead, Base, Asked
  <2>4. CASE Doing("update", {"call", "recall"})
    <3>1. Reported("publishing")
      BY <2>4 DEF AccountOK, PhaseOK, Doing, Ahead
    <3>. QED  BY <2>4, <3>1 DEF Configured, Reported, Doing, Ahead
  <2>5. CASE Doing("cleanup", {"call"})
    BY <2>5 DEF Configured, PlanOK, Doing
  <2>6. CASE Doing("unpublish", {"call"})
    <3>1. Reported("unpublishing")
      BY <2>6 DEF AccountOK, PhaseOK, Doing, Ahead
    <3>. QED  BY <2>6, <3>1 DEF Configured, Reported, Doing
  <2>. QED  BY <2>1, <2>2, <2>3, <2>4, <2>5, <2>6
<1>8. (Configured' <=> Configured) /\ Base' = Base /\ (Undoing' <=> Undoing) /\ Asked' = Asked
  BY <1>1 DEF Configured, Base, Undoing, Restoring, Asked, Doing, Ahead, Reported
<1>. QED  BY <1>1, <1>2, <1>3, <1>4, <1>5, <1>6, <1>7, <1>8

(* The calls that must succeed are of publish.                             *)
Expected == Doing("update", {"call"}) \/ Doing("refresh", {"call"})

LEMMA ExpectedFacts ==
  ASSUME UnfailedInv, faults = 0, AgentNext, UNCHANGED <<handler, console>>, Expected
  PROVE  Asked = "publish" /\ (queue = <<>> => agent.do = "publish" /\ agent.at \in {"bwg", "nosla"})
<1>1. Asked = "publish"
  BY DEF Expected, Asked, Doing, Ahead
<1>. QED  BY <1>1, BusyUnfailed, UnfailedFacts DEF Does, UnfailedOK, Succeeds, Expected

(* What is left to show of a step of the agent that does not fail.         *)
LEMMA AgentUnfailed ==
  ASSUME UnfailedInv, AgentNext, UNCHANGED <<handler, console>>,
         faults = 0 /\ faults' = 0 =>
           /\ queue' = <<>> /\ (~asked' => agent' = Idle)
           /\ Configured => Serving(node)'
           /\ Expected => Succeeds',
         faults' = faults \/ faults' = faults + 1
  PROVE  UnfailedOK'
<1>. USE UnfailedFacts
<1>. SUFFICES ASSUME faults' = 0 PROVE UnfailedOK'
  BY DEF UnfailedOK
<1>1. faults = 0
  OBVIOUS
<1>2. Faithful /\ Configured => Faithful'
  BY <1>1, BusyUnfailed DEF Faithful
<1>3. ~handler'.cancelled /\ ~Undoing' /\ (Configured' => Faithful')
  BY <1>1, <1>2, BusyUnfailed DEF UnfailedOK
<1>4. (Doing("update", {"call"}) \/ Doing("refresh", {"call"}))' <=> Expected
  BY DEF Expected, Doing, Ahead
<1>. QED  BY <1>1, <1>3, <1>4 DEF UnfailedOK, Quiet

LEMMA TakesUnfailed ==
  ASSUME UnfailedInv, Takes, UNCHANGED <<handler, console>>
  PROVE  UnfailedOK'
<1>. USE UnfailedFacts
<1>1. AgentNext
  BY DEF AgentNext, AgentRuns
<1>2. /\ queue # <<>> /\ queue' = Tail(queue) /\ UNCHANGED <<files, loaded>> /\ UNCHANGED <<node, faults>>
      /\ queue \in Seq(Request)
  BY TakesSteps, AgentFacts DEF edges, database
<1>. SUFFICES ASSUME faults = 0, faults' = 0
              PROVE  /\ queue' = <<>> /\ (~asked' => agent' = Idle)
                     /\ Configured => Serving(node)'
                     /\ Expected => Succeeds'
  BY <1>1, <1>2, AgentUnfailed
<1>3. asked /\ answer = None /\ Len(queue) = 1 /\ Head(queue) = Asked
  <2>1. asked /\ answer = None /\ Len(queue) = 1 /\ Last(queue) = Asked
    BY <1>1, <1>2, BusyUnfailed
  <2>. QED  BY <1>2, <2>1 DEF Last
<1>4. queue' = <<>>
  BY <1>2, <1>3
<1>5. Configured => Serving(node)'
  BY <1>1, <1>2, BusyUnfailed, ServingFrame DEF Faithful
<1>6. Expected => Staged /\ node # None
  <2>1. CASE Doing("update", {"call"})
    BY <2>1, NoneFacts DEF PlanOK, AccountOK, PhaseOK, PeaceOK, ShapeInv, HandlerOK, Doing, Ahead, Staged, Reported
  <2>2. CASE Doing("refresh", {"call"})
    <3>1. Configured /\ Faithful /\ Base = node /\ Reported("publishing") /\ node # None
      BY <2>2 DEF UnfailedOK, Configured, Base, AccountOK, PhaseOK, PeaceOK, Doing, Ahead
    <3>. QED  BY <3>1 DEF Faithful, Staged, Reported
  <2>. QED  BY <2>1, <2>2 DEF Expected
<1>7. Expected => Asked = "publish"
  BY DEF Expected, Asked, Doing, Ahead
<1>8. Expected => Succeeds' /\ agent'.at = "bwg" /\ UNCHANGED <<asked, answer>>
  BY <1>3, <1>6, <1>7, TakesSteps DEF Succeeds
<1>9. ~asked' => agent' = Idle
  BY <1>3, TakesSteps
<1>. QED  BY <1>4, <1>5, <1>8, <1>9

LEMMA ProbesUnfailed ==
  ASSUME UnfailedInv, Probes, UNCHANGED <<handler, console>>
  PROVE  UnfailedOK'
<1>. USE UnfailedFacts
<1>1. AgentNext
  BY DEF AgentNext, AgentRuns
<1>2. /\ agent.do = "update" /\ UNCHANGED <<files, loaded, queue, faults>> /\ UNCHANGED node
      /\ (UNCHANGED asked \/ agent' = Idle)
  BY ProbesSteps DEF edges, database
<1>. SUFFICES ASSUME faults = 0, faults' = 0
              PROVE  /\ queue' = <<>> /\ (~asked' => agent' = Idle)
                     /\ Configured => Serving(node)'
                     /\ Expected => Succeeds'
  BY <1>1, <1>2, AgentUnfailed
<1>3. asked /\ queue = <<>>
  BY <1>1, <1>2, BusyUnfailed DEF Idle
<1>4. ~Expected
  BY <1>1, <1>2, <1>3, ExpectedFacts
<1>. QED  BY <1>1, <1>2, <1>3, <1>4, BusyUnfailed, ServingFrame DEF Faithful

LEMMA StoresUnfailed ==
  ASSUME UnfailedInv, Stores, UNCHANGED <<handler, console>>
  PROVE  UnfailedOK'
<1>. USE UnfailedFacts
<1>1. AgentNext
  BY DEF AgentNext, AgentRuns
<1>2. /\ agent.do = "update" /\ UNCHANGED <<files, loaded, queue, node>>
      /\ (UNCHANGED faults /\ agent' = Idle) \/ faults' = faults + 1
  BY StoresSteps DEF database
<1>. SUFFICES ASSUME faults = 0, faults' = 0
              PROVE  /\ queue' = <<>> /\ (~asked' => agent' = Idle)
                     /\ Configured => Serving(node)'
                     /\ Expected => Succeeds'
  BY <1>1, <1>2, AgentUnfailed
<1>3. asked /\ queue = <<>>
  BY <1>1, <1>2, BusyUnfailed DEF Idle
<1>4. ~Expected
  BY <1>1, <1>2, <1>3, ExpectedFacts
<1>. QED  BY <1>1, <1>2, <1>3, <1>4, BusyUnfailed, ServingFrame DEF Faithful

LEMMA OnBWGUnfailed ==
  ASSUME UnfailedInv, OnBWG, UNCHANGED <<handler, console>>
  PROVE  UnfailedOK'
<1>. USE UnfailedFacts
<1>1. AgentNext
  BY DEF AgentNext, AgentRuns
<1>2. PICK o \in Outcome :
           /\ Helps("bwg", Verb, agent.new, o) /\ Only("bwg", o)
           /\ Counted(o = Runs("bwg", Verb, agent.new))
           /\ agent.at = "bwg" /\ agent.do # "idle" /\ agent.new \in Fragment
           /\ UNCHANGED queue /\ UNCHANGED node
           /\ \/ /\ agent.do = "unpublish" \/ o.result = "synced"
                 /\ Moves("nosla", o.result)
              \/ /\ agent.do # "unpublish" /\ o.result # "synced"
                 /\ agent' = Idle /\ Replies(o.result, "failed")
  BY OnBWGSteps DEF database
<1>. SUFFICES ASSUME faults = 0, faults' = 0
              PROVE  /\ queue' = <<>> /\ (~asked' => agent' = Idle)
                     /\ Configured => Serving(node)'
                     /\ Expected => Succeeds'
  BY <1>1, <1>2, AgentUnfailed DEF Counted
<1>3. asked /\ answer = None /\ queue = <<>> /\ agent.do \in Does(Asked) /\ agent.new.lines = node
  BY <1>1, <1>2, BusyUnfailed DEF Idle
<1>4. o = Runs("bwg", Verb, agent.new)
  BY <1>2 DEF Counted
<1>5. agent.do # "unpublish" => Verb = "publish" /\ o.result = "synced"
  BY <1>4, RunsHelps DEF Verb
<1>6. Moves("nosla", o.result)
  BY <1>2, <1>5
<1>7. ASSUME Configured PROVE Serving(node)'
  <2>1. Serving(node) /\ agent.do # "unpublish"
    BY <1>1, <1>3, <1>7, BusyUnfailed, ExpectedFacts DEF Faithful, Does, Expected
  <2>2. Helps("bwg", "publish", agent.new, o)
    BY <1>2, <1>5, <2>1
  <2>. QED  BY <1>2, <1>3, <2>1, <2>2, HelpsNode DEF Edges
<1>. QED  BY <1>2, <1>3, <1>6, <1>7 DEF Moves, Succeeds

LEMMA OnNOSLAUnfailed ==
  ASSUME UnfailedInv, OnNOSLA, UNCHANGED <<handler, console>>
  PROVE  UnfailedOK'
<1>. USE UnfailedFacts
<1>1. AgentNext
  BY DEF AgentNext, AgentRuns
<1>2. PICK o \in Outcome :
           /\ Helps("nosla", Verb, agent.new, o) /\ Only("nosla", o)
           /\ Counted(o = Runs("nosla", Verb, agent.new))
           /\ agent.at = "nosla" /\ agent.do # "idle" /\ agent.new \in Fragment
           /\ UNCHANGED queue /\ UNCHANGED node
           /\ \/ agent.do # "unpublish" /\ o.result # "synced" /\ Moves("undo", agent.bwg)
              \/ agent.do = "update" /\ o.result = "synced" /\ Moves("store", agent.bwg)
              \/ /\ agent.do = "unpublish" \/ (agent.do # "update" /\ o.result = "synced")
                 /\ agent' = Idle /\ Replies(agent.bwg, o.result)
  BY OnNOSLASteps DEF database
<1>. SUFFICES ASSUME faults = 0, faults' = 0
              PROVE  /\ queue' = <<>> /\ (~asked' => agent' = Idle)
                     /\ Configured => Serving(node)'
                     /\ Expected => Succeeds'
  BY <1>1, <1>2, AgentUnfailed DEF Counted
<1>3. asked /\ answer = None /\ queue = <<>> /\ agent.do \in Does(Asked) /\ agent.new.lines = node
  BY <1>1, <1>2, BusyUnfailed DEF Idle
<1>4. o = Runs("nosla", Verb, agent.new)
  BY <1>2 DEF Counted
<1>5. agent.do # "unpublish" => Verb = "publish" /\ o.result = "synced"
  BY <1>4, RunsHelps DEF Verb
<1>6. \/ Moves("store", agent.bwg)
      \/ agent' = Idle /\ Replies(agent.bwg, o.result)
  BY <1>2, <1>5
<1>7. ASSUME Configured PROVE Serving(node)'
  <2>1. Serving(node) /\ agent.do # "unpublish"
    BY <1>1, <1>3, <1>7, BusyUnfailed, ExpectedFacts DEF Faithful, Does, Expected
  <2>2. Helps("nosla", "publish", agent.new, o)
    BY <1>2, <1>5, <2>1
  <2>. QED  BY <1>2, <1>3, <2>1, <2>2, HelpsNode DEF Edges
<1>8. ASSUME Expected PROVE Succeeds'
  <2>1. agent.do = "publish" /\ agent.bwg = "synced" /\ o.result = "synced"
    BY <1>1, <1>2, <1>3, <1>5, <1>8, ExpectedFacts DEF EdgesOK
  <2>2. agent' = Idle /\ Replies("synced", "synced")
    BY <1>2, <2>1
  <2>. QED  BY <1>3, <2>2 DEF Replies, Succeeds, Synced, Edges, Idle
<1>. QED  BY <1>2, <1>3, <1>6, <1>7, <1>8 DEF Moves

LEMMA UndoesBWGUnfailed ==
  ASSUME UnfailedInv, UndoesBWG, UNCHANGED <<handler, console>>
  PROVE  UnfailedOK'
<1>. USE UnfailedFacts
<1>1. AgentNext
  BY DEF AgentNext, AgentRuns
<1>2. PICK o \in Outcome :
           /\ \/ agent.do = "publish" /\ Helps("bwg", "unpublish", agent.new, o)
              \/ /\ agent.do \in {"update", "restore"} /\ agent.old \in Fragment
                 /\ Helps("bwg", "publish", agent.old, o)
           /\ Only("bwg", o) /\ Counted(TRUE)
           /\ agent.at = "undo" /\ UNCHANGED queue /\ UNCHANGED node
           /\ agent' = Idle
  BY UndoesBWGSteps DEF database
<1>. SUFFICES ASSUME faults = 0, faults' = 0
              PROVE  /\ queue' = <<>> /\ (~asked' => agent' = Idle)
                     /\ Configured => Serving(node)'
                     /\ Expected => Succeeds'
  BY <1>1, <1>2, AgentUnfailed DEF Counted
<1>3. asked /\ queue = <<>> /\ agent.do \in Does(Asked)
      /\ (agent.do \in {"update", "restore"} => agent.old.lines = node)
  BY <1>1, <1>2, BusyUnfailed DEF Idle
<1>4. ~Expected
  BY <1>1, <1>2, <1>3, ExpectedFacts
<1>5. ASSUME Configured PROVE Serving(node)'
  <2>1. Serving(node) /\ agent.do \in {"update", "restore"}
    BY <1>1, <1>3, <1>4, <1>5, BusyUnfailed DEF Faithful, Does, Expected
  <2>2. Helps("bwg", "publish", agent.old, o)
    BY <1>2, <2>1
  <2>. QED  BY <1>2, <1>3, <2>1, <2>2, HelpsNode DEF Edges
<1>. QED  BY <1>2, <1>3, <1>4, <1>5

LEMMA UnfailedStep ==
  ASSUME UnfailedInv, [Next]_vars, Overlap = {}, ~Direct, faults = 0 => SettleOK
  PROVE  UnfailedInv'
<1>1. AloneInv'
  BY AloneInvStep DEF UnfailedInv
<1>2. CASE Settle /\ faults = 0
  BY <1>1, <1>2, SettleUnfailed DEF UnfailedInv
<1>3. CASE Settle /\ faults # 0
  <2>1. faults' # 0
    BY <1>3, SettleSteps, UnfailedFacts DEF Failing
  <2>. QED  BY <1>1, <2>1 DEF UnfailedInv, UnfailedOK
<1>4. CASE AgentRestarts /\ UNCHANGED <<handler, console>>
  BY <1>1, <1>4, AgentRestartsSteps, UnfailedFacts, FailedUnfailed DEF UnfailedInv
<1>5. CASE AgentRuns /\ UNCHANGED <<handler, console>>
  BY <1>1, <1>5, TakesUnfailed, ProbesUnfailed, OnBWGUnfailed, OnNOSLAUnfailed, UndoesBWGUnfailed,
     StoresUnfailed DEF AgentRuns, UnfailedInv
<1>6. CASE HandlerRuns /\ ~Settle
  BY <1>1, <1>6, MarkUnfailed, SavingUnfailed, CallsUnfailed, HearsUnfailed, OthersUnfailed
     DEF HandlerRuns, UnfailedInv
<1>7. CASE HandlerBegins \/ Failures \/ ConsoleReads \/ ConsoleWrites
  BY <1>1, <1>7, BeginUnfailed, OthersUnfailed DEF UnfailedInv
<1>8. CASE UNCHANGED vars
  <2>1. UNCHANGED <<node, pub, route, edges>> /\ UNCHANGED <<socket, agent, faults, handler>>
    BY <1>8 DEF vars, database
  <2>2. Base' = Base /\ (Configured' <=> Configured) /\ (Undoing' <=> Undoing)
    BY <2>1 DEF Base, Configured, Undoing, Restoring, Doing, Ahead, Reported
  <2>3. faults = 0 => (Configured' => Faithful')
    BY <2>1, <2>2, FaithfulFrame DEF UnfailedInv, UnfailedOK
  <2>. QED  BY <1>1, <2>1, <2>2, <2>3 DEF UnfailedInv, UnfailedOK, Succeeds, socket, Quiet, Doing, Ahead
<1>. QED  BY <1>2, <1>3, <1>4, <1>5, <1>6, <1>7, <1>8 DEF Next, AgentNext, HandlerRuns

LEMMA UnfailedInit ==
  ASSUME Init
  PROVE  UnfailedInv
<1>1. /\ AloneInv /\ handler = NoHandler /\ pub = None /\ asked = FALSE /\ answer = None
      /\ agent = Idle /\ queue = <<>>
  BY AloneInit DEF Init, AgentInit
<1>2. \A kind, steps : ~Doing(kind, steps)
  BY <1>1 DEF Doing, Ahead, NoHandler
<1>. QED  BY <1>1, <1>2 DEF UnfailedInv, UnfailedOK, Undoing, Restoring, Configured, Reported, NoHandler, Quiet

-----------------------------------------------------------------------------
\* After one failure: the steps of a handler

LEMMA OneFacts ==
  ASSUME OneInv
  PROVE  /\ UnfailedInv /\ OneOK /\ AloneInv /\ UnfailedOK /\ faults \in Nat
         /\ ShapeInv /\ SocketOK /\ EdgesOK /\ AccountOK /\ ServedOK /\ AloneOK /\ PlanOK /\ NewOK
         /\ CallInv /\ AccountedInv /\ ServedInv
         /\ faults <= 1 => LiveOK /\ RestOK /\ UntouchedOK /\ SettleOK /\ RestoreOK /\ UpdateOK /\ StaleOK
         /\ faults <= 1 => faults \in {0, 1}
BY UnfailedFacts DEF OneInv, OneOK

(* Where a server is served there is nothing to wait for.                  *)
LEMMA IntactFacts ==
  ASSUME Intact
  PROVE  /\ Quiet /\ AllInStep /\ \E lines \in Lines : Serving(lines)
         /\ \E lines \in Lines : Stable(lines)
BY ServingInStep DEF Intact, Stable

(* A published server that nobody has begun to change.                     *)
LEMMA UntouchedFacts ==
  ASSUME OneInv, faults <= 1, ~handler.sent, handler.cancelled \/ faults = 0,
         Untouched \/ (Doing("update", {"reline"}) /\ faults = 0)
  PROVE  Intact
<1>. USE OneFacts
<1>1. CASE handler.cancelled /\ Untouched
  BY <1>1 DEF UntouchedOK
<1>2. CASE faults = 0
  <2>1. Quiet
    BY <1>2, SilentUnfailed
  <2>2. Configured
    BY DEF Untouched, Configured, AccountOK, PhaseOK, Doing, Ahead
  <2>3. Serving(Base)
    BY <1>2, <2>2 DEF UnfailedOK, Faithful
  <2>4. Base \in Lines
    <3>1. handler.kind \in {"refresh", "update", "unpublish"} /\ node # None
      BY DEF Untouched, Doing, AccountOK, PeaceOK
    <3>. QED  BY <3>1 DEF Base, ShapeInv, HandlerOK, TypeOK
  <2>. QED  BY <2>1, <2>3, <2>4 DEF Intact
<1>. QED  BY <1>1, <1>2 DEF UnfailedOK

LEMMA EdgesFrame ==
  ASSUME UNCHANGED <<files, loaded, agent, queue>>
  PROVE  /\ AllInStep' <=> AllInStep
         /\ Quiet' <=> Quiet
         /\ Intact' <=> Intact
         /\ \A lines : /\ Serving(lines)' <=> Serving(lines)
                       /\ InStep(lines)' <=> InStep(lines)
         /\ UNCHANGED node => \A lines : Stable(lines)' <=> Stable(lines)
BY ServingFrame DEF Quiet, Intact, Stable, Canaries

(* What is left to show of a step that ends a request.                     *)
LEMMA OneRests ==
  ASSUME handler' = NoHandler,
         Reported("published")' => AllInStep',
         Reported("published")' /\ ~pub'.stale => \E lines \in Lines : Stable(lines)'
  PROVE  OneOK'
<1>1. \A kind, steps : ~Doing(kind, steps)' /\ ~Ahead(steps)'
  BY NoHandlerShape
<1>2. LiveOK' /\ RestOK'
  BY <1>1 DEF LiveOK, Live, RestOK, NoHandler
<1>3. UntouchedOK' /\ SettleOK' /\ UpdateOK' /\ StaleOK'
  BY <1>1 DEF UntouchedOK, Untouched, SettleOK, UpdateOK, StaleOK
<1>4. RestoreOK'
  BY <1>1 DEF RestoreOK, Restoring
<1>. QED  BY <1>2, <1>3, <1>4 DEF OneOK

(* What is left to show of a step that goes on.                            *)
LEMMA OneTurns ==
  ASSUME ShapeInv, handler.kind # "none", NEW step, NEW row, Turns(step, row),
         step # "retarget",
         Reported("published")' \/ handler.kind = "refresh"
           \/ (handler.kind = "update" /\ step \in {"reline", "settle", "call"}) => AllInStep',
         step = "verify" => \E lines \in Lines : Stable(lines)',
         step = "mark" => ~handler.cancelled,
         step = "settle" /\ handler.kind \in {"publish", "refresh", "update"} => Quiet' /\ Serving(node)',
         handler.kind = "update" /\ step \in {"renode", "reroute", "remark", "recall", "record"} =>
           /\ handler'.todo = RenodeOnly => Intact'
           /\ (handler'.todo = RenodeThenRecord \/ step = "record") => handler.cancelled \/ Intact'
           /\ handler'.todo = RestoreLines \/ step \in {"reroute", "remark", "recall"} =>
                InStep(handler.was)'
           /\ step \in {"reroute", "remark", "recall"} => handler.cancelled \/ node' = handler.was
           /\ step \in {"remark", "recall"} => handler.cancelled \/ route'.lines = handler.was
           /\ step = "recall" => ~asked' /\ answer' = None,
         handler.kind = "update" /\ step = "call" => InStep(handler.was)',
         handler.kind = "refresh" /\ step = "record" => row.stale
  PROVE  OneOK'
<1>1. /\ handler'.kind = handler.kind /\ handler'.was = handler.was /\ handler'.row = row
      /\ ~handler'.sent /\ handler'.cancelled = handler.cancelled
      /\ \A steps : Ahead(steps)' <=> step \in steps
      /\ \A kind, steps : Doing(kind, steps)' <=> (handler.kind = kind /\ step \in steps)
  BY DEF Turns, Leads, Ahead, Doing
<1>2. LiveOK' /\ RestOK'
  BY <1>1 DEF LiveOK, Live, RestOK
<1>3. UntouchedOK' /\ SettleOK' /\ StaleOK'
  BY <1>1 DEF UntouchedOK, Untouched, SettleOK, StaleOK
<1>4. UpdateOK'
  BY <1>1 DEF UpdateOK
<1>5. RestoreOK'
  BY <1>1 DEF RestoreOK, Restoring, Succeeds
<1>. QED  BY <1>2, <1>3, <1>4, <1>5 DEF OneOK

(* A step that fails, with one failure at most, is of a request whose      *)
(* client has left, or it is the first one that fails.                     *)
LEMMA FailingOne ==
  ASSUME OneInv, faults' <= 1, NEW kind, Failing(kind)
  PROVE  faults <= 1 /\ (handler.cancelled \/ faults = 0)
BY OneFacts DEF Failing

LEMMA Undone0 ==
  ASSUME OneInv, faults = 0
  PROVE  ~Undoing /\ ~Restoring
BY OneFacts DEF UnfailedOK, Undoing

LEMMA RenodeTodos ==
  ASSUME NEW todo
  PROVE  /\ Leads(todo, "renode") \/ todo \notin {RenodeOnly, RenodeThenRecord, RestoreLines}
         /\ RenodeOnly # RenodeThenRecord /\ RenodeOnly # RestoreLines /\ RenodeThenRecord # RestoreLines
BY UpdateHeads2, ThreeRenodes DEF RenodeOnly, RenodeThenRecord, RestoreLines

(* What a step goes on with is not a renode, unless it says so.            *)
LEMMA TurnsTodo ==
  ASSUME NEW step, NEW row, Turns(step, row), step # "renode"
  PROVE  handler'.todo \notin {RenodeOnly, RenodeThenRecord, RestoreLines}
BY RenodeTodos DEF Turns, Leads

LEMMA MarkOne ==
  ASSUME OneInv, Mark, faults' <= 1
  PROVE  OneOK'
<1>. USE OneFacts
<1>1. /\ handler.kind # "none" /\ Ahead({"mark"}) /\ ~handler.sent
      /\ UNCHANGED <<node, route, files, loaded, queue, asked, answer, agent>>
  BY MarkSteps DEF edges, socket
<1>2. faults <= 1 /\ OneOK
  BY MarkSteps DEF Failing
<1>3. /\ handler.kind = "publish" => ~Reported("published")
      /\ handler.kind \in {"refresh", "update", "unpublish"} =>
           Reported("published") /\ AllInStep /\ Untouched /\ handler.row \in Row
  BY <1>1, <1>2 DEF AccountOK, PhaseOK, LiveOK, Live, Untouched, Doing, Ahead, ShapeInv, HandlerOK
<1>4. (AllInStep' <=> AllInStep) /\ (Intact' <=> Intact)
  BY <1>1, EdgesFrame
<1>5. CASE handler.kind = "publish" /\ Turns("stage", handler.row) /\ pub' = NewRow("publishing")
  <2>1. ~Reported("published")'
    BY <1>5, RowFacts DEF Reported, Status
  <2>. QED  BY <1>1, <1>5, <2>1, OneTurns
<1>6. CASE handler.kind = "refresh" /\ Turns("call", handler.row)
  BY <1>1, <1>3, <1>4, <1>6, OneTurns
<1>7. CASE handler.kind = "update" /\ Turns("reline", handler.row)
  BY <1>1, <1>3, <1>4, <1>7, OneTurns
<1>8. CASE handler.kind = "unpublish" /\ Turns("call", handler.row)
  BY <1>1, <1>3, <1>4, <1>8, OneTurns
<1>9. ASSUME Failing("save"), UNCHANGED pub, handler.kind \in {"publish", "refresh", "unpublish"},
             handler' = NoHandler
      PROVE  OneOK'
  <2>1. handler.kind # "publish" => Intact
    BY <1>1, <1>2, <1>3, <1>9, FailingOne, UntouchedFacts
  <2>2. Reported("published")' => Intact'
    BY <1>3, <1>4, <1>9, <2>1 DEF Reported
  <2>3. Intact' => AllInStep' /\ \E lines \in Lines : Stable(lines)'
    BY ServingInStep DEF Intact, Stable, AllInStep, Serving, On
  <2>. QED  BY <1>9, <2>2, <2>3, OneRests
<1>10. ASSUME Failing("save"), UNCHANGED pub, handler.kind = "update", Turns("renode", handler.row),
              handler'.todo = RenodeOnly
       PROVE  OneOK'
  <2>1. Intact'
    BY <1>1, <1>2, <1>3, <1>4, <1>10, FailingOne, UntouchedFacts
  <2>. QED  BY <1>1, <1>3, <1>4, <1>10, <2>1, RenodeTodos, OneTurns
<1>. QED  BY <1>5, <1>6, <1>7, <1>8, <1>9, <1>10, MarkSteps

(* A step after which nothing is said of what the edges serve.             *)
LEMMA OneElse ==
  ASSUME ShapeInv, handler.kind \notin {"none", "refresh", "update"}, NEW step, NEW row, Turns(step, row),
         step \notin {"retarget", "verify", "mark"}, ~Reported("published")',
         step = "settle" => handler.kind # "publish"
  PROVE  OneOK'
BY OneTurns

LEMMA StageOne ==
  ASSUME OneInv, Stage \/ Redrop
  PROVE  OneOK'
<1>. USE OneFacts
<1>1. handler.kind = "publish" /\ UNCHANGED pub /\ ~Reported("published")
  BY StageSteps, RedropSteps DEF AccountOK, PhaseOK, Doing, Ahead, Reported
<1>2. \E step, row : Turns(step, row) /\ step \in {"call", "record"}
  BY StageSteps, RedropSteps
<1>. QED  BY <1>1, <1>2, OneElse DEF Reported

LEMMA CommitOne ==
  ASSUME OneInv, Commit
  PROVE  OneOK'
<1>. USE OneFacts
<1>1. handler.kind = "publish" /\ Ahead({"commit"}) /\ UNCHANGED <<node, pub>>
      /\ UNCHANGED <<files, loaded, queue, agent>> /\ ~Reported("published")
  BY CommitSteps DEF AccountOK, PhaseOK, Doing, Ahead, Reported, edges, socket
<1>2. CASE Turns("recall", handler.row)
  BY <1>1, <1>2, OneElse DEF Reported
<1>3. CASE Turns("settle", handler.row)
  <2>1. Loaded /\ Quiet /\ route = [lines |-> handler.plan, public |-> FALSE] /\ handler.plan = node
    BY <1>1 DEF ServedOK, WrittenOK, Doing, Ahead, PlanOK
  <2>2. Serving(node)
    BY <2>1 DEF Loaded, Serving, On
  <2>3. Serving(node)' /\ Quiet'
    BY <1>1, <2>1, <2>2 DEF Serving, On, Quiet
  <2>. QED  BY <1>1, <1>3, <2>3, OneTurns DEF Reported
<1>. QED  BY <1>2, <1>3, CommitSteps

LEMMA SettleOne ==
  ASSUME OneInv, Settle, faults' <= 1
  PROVE  OneOK'
<1>. USE OneFacts
<1>1. /\ Ahead({"settle"}) /\ handler.kind # "none" /\ ~handler.sent
      /\ UNCHANGED <<node, route, files, loaded, queue, asked, answer, agent>>
  BY SettleSteps DEF edges, socket, Kind
<1>2. faults <= 1 /\ OneOK
  BY SettleSteps DEF Failing
<1>3. (AllInStep' <=> AllInStep) /\ (Quiet' <=> Quiet) /\ (Serving(node)' <=> Serving(node))
  BY <1>1, EdgesFrame, ServingFrame DEF Serving, On
<1>4. ASSUME handler.kind \in {"publish", "refresh", "update"}
      PROVE  Quiet' /\ Serving(node)' /\ AllInStep' /\ \E lines \in Lines : Stable(lines)'
  <2>1. Quiet /\ Serving(node) /\ node \in Lines
    BY <1>1, <1>2, <1>4 DEF SettleOK, AccountOK, PeaceOK, ShapeInv, TypeOK
  <2>2. AllInStep /\ Stable(node)
    BY <2>1, ServingInStep DEF Stable
  <2>3. \E lines \in Lines : Stable(lines)
    BY <2>1, <2>2
  <2>. QED  BY <1>1, <1>3, <2>1, <2>2, <2>3, EdgesFrame
<1>5. CASE handler.kind \in {"publish", "refresh"} /\ Turns("verify", handler.row)
  BY <1>1, <1>4, <1>5, OneTurns
<1>6. CASE handler.kind \in {"publish", "refresh", "update"} /\ handler' = NoHandler
  BY <1>4, <1>6, OneRests
<1>7. ASSUME handler.kind \in {"cleanup", "sweep", "unpublish", "normalize"}, handler' = NoHandler,
             UNCHANGED pub \/ pub' = NewRow("saved")
      PROVE  OneOK'
  <2>1. ~Reported("published")
    BY <1>1, <1>7 DEF AccountOK, PhaseOK, PubOK, PlanOK, Doing, Ahead, Reported
  <2>2. ~Reported("published")'
    BY <1>7, <2>1, RowFacts DEF Reported, Status
  <2>. QED  BY <1>7, <2>2, OneRests
<1>8. CASE handler.kind = "publish" /\ Turns("recall", handler.row) /\ UNCHANGED pub
  <2>1. ~Reported("published")'
    BY <1>1, <1>8 DEF AccountOK, PhaseOK, Doing, Ahead, Reported
  <2>. QED  BY <1>8, <2>1, OneElse
<1>9. ASSUME handler.kind = "update", Turns("renode", handler.row), handler'.todo = RestoreLines,
             UNCHANGED pub
      PROVE  OneOK'
  <2>1. ~Reported("published")'
    BY <1>1, <1>9 DEF AccountOK, PhaseOK, Doing, Ahead, Reported
  <2>2. InStep(handler.was)'
    BY <1>4, <1>9 DEF AllInStep, InStep
  <2>. QED  BY <1>1, <1>9, <2>1, <2>2, RenodeTodos, OneTurns
<1>. QED  BY <1>5, <1>6, <1>7, <1>8, <1>9, SettleSteps DEF Kind

LEMMA RetargetOne ==
  ASSUME OneInv, Retarget, faults' <= 1
  PROVE  OneOK'
<1>. USE OneFacts
<1>1. /\ handler.kind = "update" /\ Ahead({"retarget"}) /\ ~handler.sent
      /\ UNCHANGED <<pub, route, files, loaded, queue, agent>>
  BY RetargetSteps DEF edges, socket
<1>2. faults <= 1 /\ OneOK /\ Untouched /\ AllInStep
  BY <1>1, RetargetSteps DEF Failing, Untouched, LiveOK, Live, AccountOK, PhaseOK, Doing, Ahead
<1>3. (AllInStep' <=> AllInStep) /\ (Intact' <=> Intact)
  BY <1>1, EdgesFrame
<1>4. CASE ~handler.cancelled /\ Turns("mark", handler.row)
  BY <1>1, <1>2, <1>3, <1>4, OneTurns
<1>5. CASE Failing("save") /\ handler' = NoHandler
  <2>1. Intact'
    BY <1>1, <1>2, <1>3, <1>5, FailingOne, UntouchedFacts
  <2>2. AllInStep' /\ \E lines \in Lines : Stable(lines)'
    BY <1>2, <1>3, <2>1 DEF Intact, Stable
  <2>. QED  BY <1>5, <2>2, OneRests
<1>. QED  BY <1>4, <1>5, RetargetSteps

LEMMA RelineOne ==
  ASSUME OneInv, Reline, faults' <= 1
  PROVE  OneOK'
<1>. USE OneFacts
<1>1. /\ handler.kind = "update" /\ Ahead({"reline"}) /\ ~handler.sent
      /\ UNCHANGED <<node, pub, files, loaded, queue, agent>>
  BY RelineSteps DEF edges, socket
<1>2. faults <= 1 /\ OneOK /\ Doing("update", {"reline"}) /\ AllInStep /\ ~Reported("published")
  BY <1>1, RelineSteps DEF Failing, LiveOK, Live, AccountOK, PhaseOK, Doing, Ahead, Reported
<1>3. (AllInStep' <=> AllInStep) /\ (Intact' <=> Intact)
  BY <1>1, EdgesFrame
<1>4. CASE Turns("call", handler.row)
  <2>1. InStep(handler.was)'
    BY <1>2, <1>3 DEF AllInStep, InStep
  <2>. QED  BY <1>1, <1>2, <1>3, <1>4, <2>1, OneTurns
<1>5. CASE Failing("save") /\ Turns("renode", handler.row) /\ handler'.todo = RenodeThenRecord
  <2>1. handler.cancelled \/ Intact'
    BY <1>1, <1>2, <1>3, <1>5, FailingOne, UntouchedFacts
  <2>. QED  BY <1>1, <1>2, <1>5, <2>1, RenodeTodos, OneTurns DEF Reported
<1>. QED  BY <1>4, <1>5, RelineSteps

LEMMA DropOne ==
  ASSUME OneInv, Drop
  PROVE  OneOK'
<1>. USE OneFacts
<1>1. handler.kind \in {"cleanup", "sweep", "unpublish"} /\ Ahead({"drop"}) /\ UNCHANGED pub
  BY DropSteps
<1>2. ~Reported("published")'
  BY <1>1 DEF AccountOK, PhaseOK, PubOK, PlanOK, Doing, Ahead, Reported
<1>3. CASE handler' = NoHandler
  BY <1>2, <1>3, OneRests
<1>4. CASE \E step, row : Turns(step, row) /\ step \in {"settle", "record"}
  BY <1>1, <1>2, <1>4, OneElse
<1>. QED  BY <1>3, <1>4, DropSteps

LEMMA RenodeOne ==
  ASSUME OneInv, Renode, faults' <= 1
  PROVE  OneOK'
<1>. USE OneFacts
<1>1. /\ handler.kind = "update" /\ Ahead({"renode"}) /\ ~handler.sent
      /\ UNCHANGED <<pub, route, files, loaded, queue, agent>>
  BY RenodeSteps DEF edges, socket
<1>2. faults <= 1 /\ RestoreOK /\ Restoring
  BY <1>1, RenodeSteps DEF Failing, Restoring, Doing, Ahead
<1>3. (AllInStep' <=> AllInStep) /\ (Intact' <=> Intact)
  BY <1>1, EdgesFrame
<1>4. handler.cancelled \/ node' = handler.was
  <2>1. Failing("save") => handler.cancelled
    BY <1>2, FailingOne, Undone0
  <2>. QED  BY <2>1, RenodeSteps
<1>5. CASE handler.todo = RenodeOnly /\ handler' = NoHandler
  <2>1. Intact'
    BY <1>2, <1>3, <1>5 DEF RestoreOK
  <2>2. AllInStep' /\ \E lines \in Lines : Stable(lines)'
    <3>1. Intact' => AllInStep'
      BY <1>3, IntactFacts
    <3>. QED  BY <2>1, <3>1 DEF Intact, Stable
  <2>. QED  BY <1>5, <2>2, OneRests
<1>6. CASE handler.todo = RenodeThenRecord /\ Turns("record", handler.row)
  <2>1. ~Reported("published")'
    BY <1>1, <1>6 DEF AccountOK, PhaseOK, Reported
  <2>2. handler.cancelled \/ Intact'
    BY <1>2, <1>3, <1>6 DEF RestoreOK
  <2>. QED  BY <1>1, <1>6, <2>1, <2>2, TurnsTodo, OneTurns
<1>7. CASE handler.todo = RestoreLines /\ Turns("reroute", handler.row)
  <2>1. ~Reported("published")'
    BY <1>1, <1>7 DEF AccountOK, PhaseOK, Reported
  <2>2. InStep(handler.was)'
    <3>1. InStep(handler.was) /\ handler'.was = handler.was
      BY <1>2, <1>7 DEF RestoreOK, Turns
    <3>. QED  BY <1>1, <3>1 DEF InStep
  <2>. QED  BY <1>1, <1>4, <1>7, <2>1, <2>2, TurnsTodo, OneTurns
<1>. QED  BY <1>5, <1>6, <1>7, RenodeSteps

LEMMA RerouteOne ==
  ASSUME OneInv, Reroute, faults' <= 1
  PROVE  OneOK'
<1>. USE OneFacts
<1>1. /\ handler.kind = "update" /\ Ahead({"reroute"}) /\ ~handler.sent
      /\ UNCHANGED <<node, pub, files, loaded, queue, agent>> /\ Turns("remark", handler.row)
  BY RerouteSteps DEF edges, socket
<1>2. faults <= 1 /\ RestoreOK /\ Restoring
  BY <1>1, RerouteSteps DEF Failing, Restoring, Doing, Ahead
<1>3. handler.cancelled \/ route'.lines = handler.was
  <2>1. Failing("save") => handler.cancelled
    BY <1>2, FailingOne, Undone0
  <2>. QED  BY <2>1, RerouteSteps
<1>4. ~Reported("published")'
  BY <1>1 DEF AccountOK, PhaseOK, Reported, Doing, Ahead
<1>5. InStep(handler.was)' /\ (handler.cancelled \/ node' = handler.was)
  <2>1. InStep(handler.was) /\ (handler.cancelled \/ node = handler.was) /\ handler'.was = handler.was
    BY <1>1, <1>2 DEF RestoreOK, Ahead, Turns
  <2>. QED  BY <1>1, <2>1 DEF InStep
<1>. QED  BY <1>1, <1>3, <1>4, <1>5, TurnsTodo, OneTurns

LEMMA RerowOne ==
  ASSUME OneInv, Rerow, faults' <= 1
  PROVE  OneOK'
<1>. USE OneFacts
<1>1. ~handler.sent /\ UNCHANGED <<node, route, files, loaded, queue, agent, asked, answer>>
  BY RerowSteps DEF edges, socket
<1>2. faults <= 1 /\ OneOK
  BY RerowSteps DEF Failing
<1>3. (AllInStep' <=> AllInStep) /\ (Intact' <=> Intact)
  BY <1>1, EdgesFrame
<1>4. ASSUME handler.kind = "update", Ahead({"remark"}), Turns("recall", handler.row),
             pub' = Pending("publishing") \/ UNCHANGED pub
      PROVE  OneOK'
  <2>1. Reported("publishing") /\ handler.row \in Row /\ RestoreOK /\ Restoring
    BY <1>2, <1>4 DEF AccountOK, PhaseOK, ShapeInv, HandlerOK, Restoring, Doing, Ahead
  <2>2. ~Reported("published")'
    BY <1>4, <2>1, RowFacts DEF Reported, Status
  <2>3. InStep(handler.was)' /\ (handler.cancelled \/ node' = handler.was)
        /\ (handler.cancelled \/ route'.lines = handler.was)
    <3>1. /\ InStep(handler.was) /\ handler'.was = handler.was
          /\ handler.cancelled \/ node = handler.was
          /\ handler.cancelled \/ route.lines = handler.was
      BY <1>4, <2>1 DEF RestoreOK, Ahead, Turns
    <3>. QED  BY <1>1, <3>1 DEF InStep
  <2>4. ~asked' /\ answer' = None
    BY <1>1, SilentFacts
  <2>. QED  BY <1>1, <1>4, <2>2, <2>3, <2>4, TurnsTodo, OneTurns
<1>5. ASSUME handler.kind \in {"publish", "unpublish"}, Ahead({"record"}), handler' = NoHandler,
             pub' = handler.row \/ UNCHANGED pub
      PROVE  OneOK'
  <2>1. ~Reported("published")'
    BY <1>5 DEF AccountOK, PhaseOK, RecordOK, Reported, Doing, Ahead
  <2>. QED  BY <1>5, <2>1, OneRests
<1>6. ASSUME handler.kind \in {"refresh", "update"}, Ahead({"record"}), handler' = NoHandler, UNCHANGED pub
      PROVE  OneOK'
  <2>1. ~Reported("published")'
    BY <1>6 DEF AccountOK, PhaseOK, Reported, Doing, Ahead
  <2>. QED  BY <1>6, <2>1, OneRests
<1>7. ASSUME handler.kind = "refresh", Ahead({"record"}), handler' = NoHandler, pub' = handler.row
      PROVE  OneOK'
  <2>1. handler.row.stale /\ AllInStep'
    BY <1>2, <1>3, <1>7 DEF StaleOK, LiveOK, Live, Doing
  <2>. QED  BY <1>7, <2>1, OneRests
<1>8. ASSUME handler.kind = "update", Ahead({"record"}), handler' = NoHandler, ~handler.cancelled
      PROVE  OneOK'
  <2>1. Intact
    BY <1>2, <1>8 DEF RestoreOK, Restoring, Doing, Ahead
  <2>2. AllInStep' /\ \E lines \in Lines : Stable(lines)'
    <3>1. Intact' /\ AllInStep'
      BY <1>3, <2>1, IntactFacts
    <3>. QED  BY <3>1 DEF Intact, Stable
  <2>. QED  BY <1>8, <2>2, OneRests
<1>9. CASE /\ handler.kind \in {"publish", "refresh", "update", "unpublish"}
           /\ Ahead({"record"}) /\ handler' = NoHandler
           /\ \/ ~handler.cancelled /\ UNCHANGED faults /\ pub' = handler.row
              \/ Failing("save") /\ UNCHANGED pub
  BY <1>5, <1>6, <1>7, <1>8, <1>9
<1>. QED  BY <1>4, <1>9, RerowSteps

(* A published server that is not stale is served, unless a canary brings  *)
(* it other lines.                                                         *)
LEMMA RestFacts ==
  ASSUME OneInv, faults <= 1, Ahead({"verify"}), ~pub.stale, ~asked \/ faults = 0
  PROVE  \E lines \in Lines : Stable(lines)
<1>1. Reported("published") /\ RestOK
  BY OneFacts DEF AccountOK, PhaseOK
<1>2. CASE ~asked
  BY <1>1, <1>2 DEF RestOK, Converting
<1>3. CASE faults = 0
  BY <1>1, <1>3 DEF RestOK
<1>. QED  BY <1>2, <1>3

(* What an answer says is done.                                            *)
LEMMA SyncedFacts ==
  ASSUME OneInv, answer # None, Synced(answer), Asked = "publish", NEW lines, node = lines, InStep(lines)
  PROVE  Serving(lines)
BY OneFacts DEF NewOK, InStep, Serving, On

(* An answer is heard, or none will be.                                    *)
LEMMA HearingOne ==
  ASSUME OneInv, NEW a \in Answer, Hearing(a), handler.kind # "none", faults <= 1,
         UNCHANGED <<node, pub, route, files, loaded, queue, agent>>,
         ~asked',
         answer' = None,
         Synced(a) => answer = a /\ answer # None,
         ~asked \/ faults = 0,
         Doing("update", {"recall"}) => handler.cancelled \/ (handler.sent /\ answer # None)
  PROVE  OneOK'
<1>. USE OneFacts
<1>1. (AllInStep' <=> AllInStep) /\ (Intact' <=> Intact) /\ (Quiet' <=> Quiet)
      /\ (Serving(node)' <=> Serving(node))
  BY EdgesFrame, ServingFrame DEF Serving, On
<1>2. OneOK /\ node \in Lines
  BY DEF AccountOK, PeaceOK, ShapeInv, TypeOK
<1>3. CASE handler.kind \in {"publish", "cleanup", "unpublish"} /\ ~Ahead({"verify"})
  <2>1. ~Reported("published")'
    BY <1>3 DEF Hearing, AccountOK, PhaseOK, PlanOK, Doing, Ahead, Reported
  <2>2. \/ handler' = NoHandler
        \/ \E step, row : Turns(step, row) /\ step \in {"commit", "recall", "redrop", "drop", "record"}
    BY <1>3 DEF Hearing
  <2>. QED  BY <1>3, <2>1, <2>2, OneRests, OneElse
<1>4. CASE Ahead({"verify"}) /\ handler' = NoHandler
  <2>1. AllInStep /\ UNCHANGED pub
    BY <1>2, <1>4 DEF LiveOK, Live, AccountOK, PhaseOK
  <2>2. ~pub.stale => \E lines \in Lines : Stable(lines)
    BY <1>4, RestFacts
  <2>3. \A lines : Stable(lines)' <=> Stable(lines)
    BY EdgesFrame
  <2>. QED  BY <1>1, <1>4, <2>1, <2>2, <2>3, OneRests
<1>5. CASE handler.kind = "refresh" /\ Ahead({"call"})
  <2>1. AllInStep /\ Asked = "publish" /\ ~Reported("published")'
    BY <1>2, <1>5 DEF LiveOK, Live, Asked, AccountOK, PhaseOK, Doing, Ahead, Reported
  <2>2. CASE Synced(a) /\ Turns("settle", handler.row)
    <3>1. Quiet /\ Serving(node)
      <4>1. PICK lines : node = lines
        OBVIOUS
      <4>2. Serving(lines) /\ Quiet
        BY <2>1, <2>2, <4>1, AllInStepFacts, SyncedFacts DEF SocketOK
      <4>. QED  BY <4>1, <4>2
    <3>. QED  BY <1>1, <1>5, <2>1, <2>2, <3>1, OneTurns
  <2>3. ASSUME NEW row, Turns("record", row), row.stale PROVE OneOK'
    BY <1>1, <1>5, <2>1, <2>3, OneTurns
  <2>4. [handler.row EXCEPT !.stale = TRUE].stale
    <3>1. handler.row \in Row
      BY <1>5 DEF ShapeInv, HandlerOK
    <3>. QED  BY <3>1 DEF Row
  <2>5. Turns("record", [handler.row EXCEPT !.stale = TRUE]) => OneOK'
    BY <2>3, <2>4
  <2>. QED  BY <1>5, <2>2, <2>5 DEF Hearing, Ahead
<1>6. CASE handler.kind = "update" /\ Ahead({"call"})
  <2>1. Asked = "publish" /\ ~Reported("published")' /\ UpdateOK /\ Doing("update", {"call"})
    BY <1>2, <1>6 DEF Asked, AccountOK, PhaseOK, Doing, Ahead, Reported
  <2>2. CASE Synced(a) /\ Turns("settle", handler.row)
    <3>1. AllInStep
      BY <1>2, <2>1, <2>2 DEF LiveOK, Live
    <3>2. Quiet /\ Serving(node)
      <4>1. PICK lines : node = lines
        OBVIOUS
      <4>2. Serving(lines) /\ Quiet
        BY <2>1, <2>2, <3>1, <4>1, AllInStepFacts, SyncedFacts DEF SocketOK
      <4>. QED  BY <4>1, <4>2
    <3>. QED  BY <1>1, <1>6, <2>1, <2>2, <3>1, <3>2, OneTurns
  <2>3. CASE Turns("renode", handler.row) /\ handler'.todo = RestoreLines
    <3>1. InStep(handler.was)'
      <4>1. InStep(handler.was) /\ handler'.was = handler.was
        BY <2>1, <2>3 DEF UpdateOK, Turns
      <4>. QED  BY <4>1 DEF InStep
    <3>. QED  BY <1>6, <2>1, <2>3, <3>1, RenodeTodos, OneTurns
  <2>. QED  BY <1>6, <2>2, <2>3 DEF Hearing, Ahead
<1>7. CASE handler.kind = "update" /\ Ahead({"recall"}) /\ Turns("record", handler.row)
  <2>1. Asked = "publish" /\ ~Reported("published")' /\ RestoreOK /\ Restoring /\ handler.was \in Lines
    BY <1>2, <1>7 DEF Asked, AccountOK, PhaseOK, Doing, Ahead, Reported, Restoring, ShapeInv, HandlerOK
  <2>2. handler.cancelled \/ Intact
    <3>1. CASE handler.sent /\ answer # None
      <4>1. ~handler.cancelled /\ node = handler.was /\ InStep(handler.was) /\ Synced(answer) /\ Quiet
        BY <1>7, <2>1, <3>1 DEF RestoreOK, Succeeds, Ahead, SocketOK
      <4>2. Serving(handler.was)
        BY <2>1, <3>1, <4>1, SyncedFacts
      <4>. QED  BY <2>1, <4>1, <4>2 DEF Intact
    <3>. QED  BY <1>7, <3>1 DEF Doing
  <2>3. handler.cancelled \/ Intact'
    BY <1>1, <2>2
  <2>. QED  BY <1>7, <2>1, <2>3, TurnsTodo, OneTurns
<1>. QED  BY <1>3, <1>4, <1>5, <1>6, <1>7 DEF Hearing, Ahead

LEMMA HearsOne ==
  ASSUME OneInv, Hears, faults' <= 1
  PROVE  OneOK'
<1>. USE OneFacts
<1>1. /\ handler.kind # "none" /\ handler.sent /\ answer \in Answer /\ answer' = None /\ Hearing(answer)
      /\ UNCHANGED <<node, pub, route, files, loaded, queue, asked, agent, faults>>
  BY HearsSteps DEF database, edges
<1>2. answer # None /\ ~asked
  BY <1>1, NoneFacts DEF SocketOK
<1>. QED  BY <1>1, <1>2, HearingOne

LEMMA TimesOutOne ==
  ASSUME OneInv, TimesOut, faults' <= 1
  PROVE  OneOK'
<1>. USE OneFacts
<1>1. /\ handler.kind # "none" /\ asked /\ ~asked' /\ Hearing(Unavailable) /\ faults' = faults + 1
      /\ UNCHANGED <<node, pub, route, files, loaded, queue, answer, agent>>
  BY TimesOutSteps DEF database, edges
<1>2. answer = None /\ faults = 0
  BY <1>1 DEF SocketOK
<1>3. ~Doing("update", {"recall"})
  BY <1>2, Undone0 DEF Restoring, Doing, Ahead
<1>. QED  BY <1>1, <1>2, <1>3, UnavailableFacts, HearingOne

LEMMA SkipsOne ==
  ASSUME OneInv, Skips, faults' <= 1
  PROVE  OneOK'
<1>. USE OneFacts
<1>1. /\ Ahead({"verify"}) /\ ~handler.sent /\ handler' = NoHandler
      /\ UNCHANGED <<node, pub, route, files, loaded, queue, agent, faults>>
  BY SkipsSteps DEF database, edges, socket
<1>2. ~asked /\ AllInStep
  BY <1>1, SilentFacts DEF LiveOK, Live, AccountOK, PhaseOK
<1>3. ~pub.stale => \E lines \in Lines : Stable(lines)
  BY <1>1, <1>2, RestFacts
<1>4. (AllInStep' <=> AllInStep) /\ \A lines : Stable(lines)' <=> Stable(lines)
  BY <1>1, EdgesFrame
<1>. QED  BY <1>1, <1>2, <1>3, <1>4, OneRests

LEMMA CallsOne ==
  ASSUME OneInv, Calls, faults' <= 1
  PROVE  OneOK'
<1>. USE OneFacts
<1>1. /\ handler.kind # "none" /\ Ahead({"call", "recall", "verify"}) /\ ~handler.sent
      /\ UNCHANGED <<node, pub, route, files, loaded, agent>>
  BY CallsSteps DEF database, edges
<1>2. faults <= 1 /\ OneOK /\ ~asked /\ answer = None /\ queue \in Seq(Request)
  BY <1>1, CallsSteps, SilentFacts, AgentFacts DEF Failing
<1>3. CASE Failing("away") /\ UNCHANGED socket /\ Hearing(Unavailable)
  <2>1. Doing("update", {"recall"}) => handler.cancelled
    BY <1>2, <1>3, FailingOne, Undone0 DEF Restoring, Doing, Ahead
  <2>. QED  BY <1>1, <1>2, <1>3, <2>1, UnavailableFacts, HearingOne DEF socket
<1>4. ASSUME ~handler.cancelled, UNCHANGED <<answer, faults>>, queue' = Append(queue, Asked), asked',
             handler' = [handler EXCEPT !.sent = TRUE]
      PROVE  OneOK'
  <2>1. handler \in Handler
    BY <1>1, HandlerFacts
  <2>2. /\ handler'.kind = handler.kind /\ handler'.todo = handler.todo /\ handler'.was = handler.was
        /\ handler'.row = handler.row /\ handler'.sent /\ ~handler'.cancelled
    BY <1>4, <2>1 DEF Handler
  <2>3. /\ \A steps : Ahead(steps)' <=> Ahead(steps)
        /\ \A kind, steps : Doing(kind, steps)' <=> Doing(kind, steps)
    BY <2>2 DEF Ahead, Doing
  <2>4. queue' # <<>> /\ (AllInStep' <=> AllInStep) /\ (Reported("published")' <=> Reported("published"))
    BY <1>1, <1>2, <1>4, ServingFrame DEF Reported
  <2>5. InStep(handler.was)' <=> InStep(handler.was)
    BY <1>1, <2>2 DEF InStep
  <2>6. LiveOK'
    BY <1>2, <1>4, <2>2, <2>3, <2>4 DEF LiveOK, Live
  <2>7. UntouchedOK' /\ SettleOK'
    BY <1>1, <2>2, <2>3 DEF UntouchedOK, Untouched, SettleOK, Doing, Ahead
  <2>8. RestoreOK'
    <3>1. handler.todo \notin {RenodeOnly, RenodeThenRecord, RestoreLines} /\ ~Ahead({"record"})
      BY <1>1, RenodeTodos DEF Ahead, Leads
    <3>2. Restoring' <=> Restoring
      BY <2>3 DEF Restoring
    <3>3. Succeeds'
      BY <1>2, <1>4, <2>4 DEF Succeeds
    <3>4. handler'.todo \notin {RenodeOnly, RenodeThenRecord, RestoreLines} /\ ~Ahead({"record"})'
      BY <2>2, <2>3, <3>1
    <3>5. ASSUME Restoring, Ahead({"reroute", "remark", "recall"})
          PROVE  InStep(handler.was)' /\ (handler.cancelled \/ node = handler.was)
      BY <1>2, <2>5, <3>5 DEF RestoreOK
    <3>6. ASSUME Restoring, Ahead({"remark", "recall"})
          PROVE  handler.cancelled \/ route.lines = handler.was
      BY <1>2, <3>6 DEF RestoreOK
    <3>. QED  BY <1>1, <1>4, <2>2, <2>3, <3>2, <3>3, <3>4, <3>5, <3>6 DEF RestoreOK
  <2>9. UpdateOK' /\ StaleOK'
    BY <1>2, <2>2, <2>3, <2>5 DEF UpdateOK, StaleOK
  <2>10. ASSUME Ahead({"verify"}), ~pub.stale
         PROVE  \/ \E lines \in Lines : Stable(lines)'
                \/ handler'.sent /\ faults' = 1 /\ Converting'
    <3>1. PICK lines \in Lines : Stable(lines)
      BY <1>2, <2>10, RestFacts
    <3>2. Asked = "canary" /\ handler.kind # "update" /\ Reported("published")
      <4>1. handler.kind # "update"
        BY <2>10, UpdateGoes DEF Ahead
      <4>. QED  BY <2>10, <4>1 DEF Asked, Ahead, AccountOK, PhaseOK
    <3>3. Serving(lines)'
      BY <1>1, <3>1, ServingFrame DEF Stable
    <3>4. ASSUME node = lines PROVE Canaries(lines)'
      <4>1. Canaries(lines)
        BY <3>1, <3>4 DEF Stable, Canaries, Quiet
      <4>2. \A i \in 1..Len(queue') : queue'[i] = "canary"
        BY <1>2, <1>4, <3>2, <4>1 DEF Canaries
      <4>. QED  BY <1>1, <4>1, <4>2 DEF Canaries
    <3>5. ASSUME node # lines PROVE faults = 1 /\ Quiet
      <4>1. Quiet
        BY <3>1, <3>5 DEF Stable, Canaries
      <4>2. faults # 0
        <5>1. SUFFICES ASSUME faults = 0 PROVE FALSE
          OBVIOUS
        <5>2. Serving(node)
          BY <3>2, <5>1 DEF UnfailedOK, Configured, Faithful, Base
        <5>. QED  BY <3>1, <3>5, <5>2, OneServing DEF Stable
      <4>. QED  BY <1>2, <4>1, <4>2
    <3>6. ASSUME node # lines PROVE Converting'
      BY <1>1, <1>4, <3>2, <3>3, <3>5, <3>6 DEF Converting, Quiet
    <3>. QED  BY <1>4, <2>2, <3>3, <3>4, <3>5, <3>6 DEF Stable
  <2>11. RestOK'
    BY <1>1, <2>2, <2>3, <2>10 DEF RestOK
  <2>. QED  BY <2>6, <2>7, <2>8, <2>9, <2>11 DEF OneOK
<1>. QED  BY <1>3, <1>4, CallsSteps

LEMMA BeginOne ==
  ASSUME OneInv, HandlerBegins, faults' <= 1
  PROVE  OneOK'
<1>. USE OneFacts
<1>1. handler.kind = "none" /\ UNCHANGED <<node, route, files, loaded, queue, agent, faults>>
  BY BeginSteps DEF Free, edges, socket
<1>2. OneOK /\ ~handler.sent
  BY <1>1 DEF ShapeInv, HandlerOK, NoHandler
<1>3. PICK kind \in Kind, step \in {"mark", "retarget", "call", "drop", "settle", "verify"} :
        /\ \E plan, row : Starts(kind, step, plan, row)
        /\ kind = "refresh" => step = "mark"
        /\ kind = "update" => step = "retarget"
        /\ kind = "publish" => step = "mark"
        /\ UNCHANGED pub \/ pub' = NewRow("saved")
        /\ step = "verify" \/ kind = "refresh" => UNCHANGED pub /\ Reported("published")
  <2>1. \/ \E plan : Starts("publish", "mark", plan, pub) /\ (UNCHANGED pub \/ pub' = NewRow("saved"))
        \/ Starts("refresh", "mark", node, pub) /\ UNCHANGED pub /\ Reported("published")
        \/ \E next : Starts("update", "retarget", next, pub) /\ UNCHANGED pub
        \/ Starts("cleanup", "call", None, pub) /\ UNCHANGED pub
        \/ Starts("sweep", "drop", None, pub) /\ UNCHANGED pub
        \/ Starts("normalize", "settle", None, pub) /\ UNCHANGED pub
        \/ Starts("unpublish", "mark", None, pub) /\ UNCHANGED pub
        \/ Starts("canary", "verify", None, pub) /\ UNCHANGED pub /\ Reported("published")
    BY BeginSteps
  <2>. QED  BY <2>1 DEF Kind
<1>4. /\ handler'.kind = kind /\ ~handler'.sent /\ ~handler'.cancelled
      /\ \A steps : Ahead(steps)' <=> step \in steps
      /\ \A other, steps : Doing(other, steps)' <=> (kind = other /\ step \in steps)
  BY <1>3 DEF Starts, Leads, Ahead, Doing
<1>5. Reported("published")' => UNCHANGED pub /\ Reported("published")
  BY <1>3, RowFacts DEF Reported, Status
<1>6. (AllInStep' <=> AllInStep) /\ \A lines : Stable(lines)' <=> Stable(lines)
  BY <1>1, EdgesFrame
<1>7. LiveOK'
  BY <1>1, <1>2, <1>3, <1>4, <1>5, <1>6 DEF LiveOK, Live
<1>8. RestOK'
  BY <1>1, <1>2, <1>3, <1>4, <1>5, <1>6 DEF RestOK, Kind
<1>9. UntouchedOK' /\ SettleOK' /\ UpdateOK' /\ StaleOK' /\ RestoreOK'
  BY <1>3, <1>4 DEF UntouchedOK, SettleOK, UpdateOK, StaleOK, RestoreOK, Restoring
<1>. QED  BY <1>7, <1>8, <1>9 DEF OneOK

LEMMA ClientLeavesOne ==
  ASSUME OneInv, ClientLeaves, faults' <= 1
  PROVE  OneOK'
<1>. USE OneFacts
<1>1. /\ faults = 0 /\ faults' = 1 /\ handler.kind # "none"
      /\ UNCHANGED <<node, pub, route, files, loaded, queue, asked, answer, agent>>
  BY DEF ClientLeaves, Fault, database, edges, socket
<1>2. /\ handler'.kind = handler.kind /\ handler'.todo = handler.todo /\ handler'.was = handler.was
      /\ handler'.row = handler.row /\ handler'.sent = handler.sent
  <2>1. handler \in Handler
    BY <1>1, HandlerFacts
  <2>. QED  BY <2>1 DEF Handler, ClientLeaves
<1>3. /\ \A steps : Ahead(steps)' <=> Ahead(steps)
      /\ \A kind, steps : Doing(kind, steps)' <=> Doing(kind, steps)
      /\ (Untouched' <=> Untouched) /\ (Restoring' <=> Restoring)
  BY <1>2 DEF Ahead, Doing, Untouched, Restoring
<1>4. /\ (AllInStep' <=> AllInStep) /\ (Intact' <=> Intact) /\ (Quiet' <=> Quiet)
      /\ \A lines : Stable(lines)' <=> Stable(lines)
      /\ Serving(node)' <=> Serving(node)
      /\ InStep(handler.was)' <=> InStep(handler.was)
  BY <1>1, <1>2, EdgesFrame DEF Serving, On, InStep
<1>5. OneOK /\ ~Restoring /\ ~Undoing
  BY <1>1, Undone0
<1>6. LiveOK'
  BY <1>1, <1>2, <1>3, <1>4, <1>5 DEF LiveOK, Live, Reported
<1>7. RestOK'
  BY <1>1, <1>2, <1>3, <1>4, <1>5 DEF RestOK, Reported
<1>8. UntouchedOK'
  <2>1. Untouched => ~handler.sent
    BY DEF Untouched, Doing, Ahead, ShapeInv, HandlerOK
  <2>2. Untouched => Intact
    BY <1>1, <2>1, UntouchedFacts
  <2>. QED  BY <1>3, <1>4, <2>2 DEF UntouchedOK
<1>9. SettleOK' /\ UpdateOK' /\ StaleOK' /\ RestoreOK'
  <2>1. SettleOK' /\ StaleOK'
    BY <1>1, <1>2, <1>3, <1>4, <1>5 DEF SettleOK, StaleOK
  <2>2. UpdateOK'
    BY <1>1, <1>2, <1>3, <1>4, <1>5 DEF UpdateOK
  <2>. QED  BY <1>3, <1>5, <2>1, <2>2 DEF RestoreOK
<1>. QED  BY <1>6, <1>7, <1>8, <1>9 DEF OneOK

LEMMA CrashOne ==
  ASSUME OneInv, ControllerCrashes, faults' <= 1
  PROVE  OneOK'
<1>. USE OneFacts
<1>1. /\ faults = 0 /\ handler' = NoHandler
      /\ UNCHANGED <<node, pub, route, files, loaded, queue, agent>>
  BY DEF ControllerCrashes, Fault, database, edges
<1>2. (AllInStep' <=> AllInStep) /\ \A lines : Stable(lines)' <=> Stable(lines)
  BY <1>1, EdgesFrame
<1>3. Reported("published")' => Reported("published") /\ AllInStep
  BY <1>1 DEF Reported, LiveOK, Live
<1>4. ASSUME Reported("published"), ~pub.stale
      PROVE  \E lines \in Lines : Stable(lines)
  <2>1. CASE handler.sent
    <3>1. Ahead({"verify"})
      <4>1. handler.kind # "none" /\ Ahead({"call", "recall", "verify"})
        BY <2>1 DEF ShapeInv, HandlerOK, NoHandler
      <4>2. \/ Doing("publish", {"call", "recall", "verify"}) \/ Doing("refresh", {"call", "verify"})
            \/ Doing("update", {"call", "recall"}) \/ Doing("cleanup", {"call"})
            \/ Doing("unpublish", {"call"}) \/ Doing("canary", {"verify"})
        BY <4>1, CallKinds
      <4>. QED  BY <1>4, <4>2 DEF AccountOK, PhaseOK, PlanOK, Doing, Ahead, Reported
    <3>. QED  BY <1>1, <1>4, <3>1, RestFacts
  <2>2. CASE ~handler.sent
    <3>1. Quiet /\ Serving(Base)
      BY <1>1, <1>4, <2>2, SilentUnfailed DEF UnfailedOK, Configured, Faithful
    <3>2. Base \in Lines
      <4>1. handler.kind # "update" => node # None
        BY <1>1, <1>4 DEF AccountOK, RouteOK, UnfailedOK, Configured, Faithful
      <4>. QED  BY <4>1 DEF Base, ShapeInv, HandlerOK, TypeOK
    <3>. QED  BY <3>1, <3>2 DEF Stable
  <2>. QED  BY <2>1, <2>2
<1>5. Reported("published")' /\ ~pub'.stale => \E lines \in Lines : Stable(lines)'
  BY <1>1, <1>2, <1>4 DEF Reported
<1>. QED  BY <1>1, <1>2, <1>3, <1>5, OneRests

-----------------------------------------------------------------------------
\* After one failure: the steps of the agent and the console

LEMMA ConsoleOne ==
  ASSUME OneInv, ConsoleReads \/ ConsoleWrites, faults' <= 1
  PROVE  OneOK'
<1>. USE OneFacts
<1>1. CASE ConsoleReads
  <2>1. UNCHANGED <<node, pub, route, files, loaded, queue, agent, asked, answer, faults, handler>>
    BY <1>1 DEF ConsoleReads, database, edges, socket
  <2>2. /\ (AllInStep' <=> AllInStep) /\ (Intact' <=> Intact) /\ (Quiet' <=> Quiet)
        /\ \A lines : Stable(lines)' <=> Stable(lines)
        /\ (Serving(node)' <=> Serving(node)) /\ (InStep(handler.was)' <=> InStep(handler.was))
        /\ (Converting' <=> Converting) /\ (Succeeds' <=> Succeeds)
    BY <2>1, EdgesFrame DEF Serving, On, InStep, Converting, Succeeds
  <2>3. OneOK /\ \A kind, steps : (Ahead(steps)' <=> Ahead(steps)) /\ (Doing(kind, steps)' <=> Doing(kind, steps))
    BY <2>1 DEF Ahead, Doing
  <2>4. LiveOK' /\ RestOK'
    BY <2>1, <2>2, <2>3 DEF LiveOK, Live, RestOK, Reported
  <2>5. UntouchedOK' /\ SettleOK' /\ UpdateOK' /\ StaleOK'
    BY <2>1, <2>2, <2>3 DEF UntouchedOK, Untouched, SettleOK, UpdateOK, StaleOK
  <2>6. RestoreOK'
    BY <2>1, <2>2, <2>3 DEF RestoreOK, Restoring
  <2>. QED  BY <2>4, <2>5, <2>6 DEF OneOK
<1>2. CASE ConsoleWrites
  <2>1. /\ console.do # "none" /\ UNCHANGED <<route, files, loaded, queue, agent, handler>>
        /\ \/ /\ node' = console.next /\ UNCHANGED faults
              /\ pub' = IF console.do = "delete" THEN None ELSE pub
           \/ node' \in {node, console.next} /\ UNCHANGED pub /\ Fault("save")
    BY <1>2 DEF ConsoleWrites, edges, socket
  <2>2. handler = NoHandler /\ handler' = NoHandler
    BY <2>1 DEF AloneOK, ShapeInv, HandlerOK
  <2>3. faults <= 1 /\ handler.kind = "none" /\ ~handler.sent
    BY <2>1, <2>2 DEF Fault, NoHandler
  <2>4. Reported("published")' => Reported("published") /\ UNCHANGED <<node, pub>>
    <3>1. Reported("published")' => Reported("published") /\ UNCHANGED pub
      BY <2>1 DEF Reported
    <3>2. Reported("published") => console.do = "tag"
      BY <2>1 DEF Reported, AloneOK, Unpublished, ShapeInv, TypeOK, Console, Edit
    <3>. QED  BY <2>1, <3>1, <3>2 DEF AloneOK
  <2>5. (AllInStep' <=> AllInStep) /\ (UNCHANGED node => \A lines : Stable(lines)' <=> Stable(lines))
    BY <2>1, EdgesFrame
  <2>6. Reported("published") /\ ~pub.stale => \E lines \in Lines : Stable(lines)
    BY <2>3 DEF RestOK
  <2>7. Reported("published") => AllInStep
    BY <2>3 DEF LiveOK, Live
  <2>. QED  BY <2>2, <2>4, <2>5, <2>6, <2>7, OneRests
<1>. QED  BY <1>1, <1>2

(* What is left to show of a step of the agent.                            *)
LEMMA AgentOne ==
  ASSUME OneInv, AgentNext, UNCHANGED <<handler, console>>, faults <= 1,
         Live' /\ AllInStep => AllInStep',
         \A lines \in Lines : Stable(lines) => Stable(lines)',
         handler.sent /\ faults = 1 /\ Converting /\ Ahead({"verify"}) /\ node # None =>
           (Converting' /\ faults' = 1) \/ (\E lines \in Lines : Stable(lines)'),
         UpdateOK => UpdateOK',
         Restoring /\ InStep(handler.was) => InStep(handler.was)',
         Doing("update", {"recall"}) /\ RestoreOK => Succeeds'
  PROVE  OneOK'
<1>. USE OneFacts
<1>1. UNCHANGED <<node, pub, route, handler>> /\ answer = None /\ ~Quiet /\ OneOK
  BY AgentFrame, NoAnswer, AgentBusy DEF database
<1>2. \A kind, steps : (Ahead(steps)' <=> Ahead(steps)) /\ (Doing(kind, steps)' <=> Doing(kind, steps))
  BY <1>1 DEF Ahead, Doing
<1>3. Live' => Live
  BY <1>1, <1>2 DEF Live, Reported
<1>4. LiveOK'
  BY <1>1, <1>3 DEF LiveOK
<1>5. RestOK'
  <2>. SUFFICES ASSUME (handler.kind = "none" \/ Ahead({"verify"})), Reported("published"), ~pub.stale
                PROVE  \/ \E lines \in Lines : Stable(lines)'
                       \/ handler.sent /\ faults' = 1 /\ Converting'
    BY <1>1, <1>2 DEF RestOK, Reported
  <2>1. CASE \E lines \in Lines : Stable(lines)
    BY <2>1
  <2>2. CASE handler.sent /\ faults = 1 /\ Converting
    <3>1. handler.kind # "none"
      BY <2>2 DEF ShapeInv, HandlerOK, NoHandler
    <3>2. Ahead({"verify"}) /\ node # None
      BY <3>1 DEF AccountOK, PeaceOK
    <3>. QED  BY <2>2, <3>2
  <2>. QED  BY <2>1, <2>2 DEF RestOK
<1>6. UntouchedOK' /\ SettleOK'
  <2>1. ~Intact
    BY <1>1 DEF Intact
  <2>. QED  BY <1>1, <1>2, <2>1 DEF UntouchedOK, Untouched, SettleOK
<1>7. UpdateOK' /\ StaleOK'
  BY <1>1, <1>2 DEF StaleOK
<1>8. RestoreOK'
  <2>1. ~Intact
    BY <1>1 DEF Intact
  <2>2. Restoring' <=> Restoring
    BY <1>2 DEF Restoring
  <2>3. Restoring /\ Ahead({"recall"}) => Doing("update", {"recall"})
    BY DEF Restoring, Doing
  <2>. QED  BY <1>1, <1>2, <2>1, <2>2, <2>3 DEF RestoreOK
<1>. QED  BY <1>4, <1>5, <1>6, <1>7, <1>8 DEF OneOK

(* An agent that has only canaries of these lines to do leaves them.       *)
LEMMA StableStep ==
  ASSUME ShapeInv, AgentNext, NEW lines, Stable(lines)
  PROVE  Stable(lines)'
<1>1. Serving(lines) /\ Canaries(lines) /\ node' = node
  BY AgentBusy, AgentFrame DEF Stable, database
<1>2. node = lines /\ queue \in Seq(Request) /\ AgentOK
      /\ (agent = Idle \/ (agent.do \in {"update", "restore"} /\ agent.new.lines = lines
                             /\ agent.old.lines = lines /\ Verb = "publish"))
  BY <1>1, AgentFacts DEF Canaries, ShapeInv, Verb
<1>3. ASSUME UNCHANGED queue,
             \/ agent' = Idle
             \/ agent'.do \in {"update", "restore"} /\ agent'.new.lines = lines /\ agent'.old.lines = lines
      PROVE  Canaries(lines)'
  BY <1>1, <1>3 DEF Canaries
<1>4. CASE Takes
  <2>1. agent = Idle /\ queue # <<>> /\ queue' = Tail(queue) /\ UNCHANGED <<files, loaded>>
        /\ (agent' = Idle \/ (Manifest.lines = node /\ agent'.new = Manifest
             /\ ((Head(queue) = "canary" /\ agent'.do = "update" /\ agent'.old = Manifest)
                 \/ Head(queue) # "canary")))
    BY <1>4, TakesSteps DEF edges
  <2>2. Head(queue) = "canary" /\ \A i \in 1..Len(queue') : queue'[i] = "canary"
    BY <1>1, <1>2, <2>1 DEF Canaries
  <2>3. Serving(lines)'
    BY <1>1, <2>1, ServingFrame
  <2>. QED  BY <1>1, <1>2, <2>1, <2>2, <2>3 DEF Stable, Canaries
<1>5. CASE Probes
  <2>1. UNCHANGED <<files, loaded, queue>> /\ agent.do = "update"
        /\ (agent' = Idle \/ (agent'.do = "update" /\ agent'.old = agent.old
                                /\ agent'.new.lines = agent.new.lines))
    BY <1>5, ProbesSteps DEF edges
  <2>2. Serving(lines)'
    BY <1>1, <2>1, ServingFrame
  <2>3. Canaries(lines)'
    BY <1>2, <1>3, <2>1 DEF Idle
  <2>. QED  BY <2>2, <2>3 DEF Stable
<1>6. CASE OnBWG
  <2>1. PICK o \in Outcome : /\ Helps("bwg", Verb, agent.new, o) /\ Only("bwg", o)
                             /\ agent.do # "idle" /\ agent.new \in Fragment
                             /\ UNCHANGED queue
                             /\ (\E at, bwg : Moves(at, bwg)) \/ agent' = Idle
    BY <1>6, OnBWGSteps
  <2>2. Serving(lines)'
    BY <1>1, <1>2, <2>1, HelpsServing DEF Idle, Edges
  <2>3. Canaries(lines)'
    BY <1>2, <1>3, <2>1 DEF Idle, Moves
  <2>. QED  BY <2>2, <2>3 DEF Stable
<1>7. CASE OnNOSLA
  <2>1. PICK o \in Outcome : /\ Helps("nosla", Verb, agent.new, o) /\ Only("nosla", o)
                             /\ agent.do # "idle" /\ agent.new \in Fragment
                             /\ UNCHANGED queue
                             /\ (\E at, bwg : Moves(at, bwg)) \/ agent' = Idle
    BY <1>7, OnNOSLASteps
  <2>2. Serving(lines)'
    BY <1>1, <1>2, <2>1, HelpsServing DEF Idle, Edges
  <2>3. Canaries(lines)'
    BY <1>2, <1>3, <2>1 DEF Idle, Moves
  <2>. QED  BY <2>2, <2>3 DEF Stable
<1>8. CASE UndoesBWG
  <2>1. PICK o \in Outcome :
             /\ \/ agent.do = "publish" /\ Helps("bwg", "unpublish", agent.new, o)
                \/ /\ agent.do \in {"update", "restore"} /\ agent.old \in Fragment
                   /\ Helps("bwg", "publish", agent.old, o)
             /\ Only("bwg", o) /\ agent.at = "undo" /\ UNCHANGED queue
             /\ agent' = Idle
    BY <1>8, UndoesBWGSteps
  <2>2. agent.do \in {"update", "restore"} /\ agent.old \in Fragment /\ agent.old.lines = lines
        /\ Helps("bwg", "publish", agent.old, o)
    BY <1>2, <2>1 DEF Idle
  <2>3. Serving(lines)'
    BY <1>1, <2>1, <2>2, HelpsServing DEF Edges
  <2>4. Canaries(lines)'
    BY <1>3, <2>1
  <2>. QED  BY <2>3, <2>4 DEF Stable
<1>9. CASE Stores
  <2>1. UNCHANGED <<files, loaded, queue>> /\ agent.do = "update"
        /\ (agent' = Idle \/ (agent'.do = "restore" /\ agent'.old = agent.new /\ agent'.new = agent.old))
    BY <1>9, StoresSteps
  <2>2. Serving(lines)'
    BY <1>1, <2>1, ServingFrame
  <2>3. Canaries(lines)'
    BY <1>2, <1>3, <2>1 DEF Idle
  <2>. QED  BY <2>2, <2>3 DEF Stable
<1>10. CASE AgentRestarts
  <2>1. agent' = Idle /\ queue' = <<>>
    BY <1>10, AgentRestartsSteps
  <2>2. Serving(lines)'
    <3>1. CASE agent = Idle
      BY <1>1, <1>10, <3>1, AgentRestartsSteps, ServingFrame DEF Idle
    <3>2. ASSUME agent.do \in {"update", "restore"}, agent.new.lines = lines, agent.old.lines = lines,
                 Verb = "publish", agent.at = "bwg",
                 NEW o, Only("bwg", o), 
                 Helps("bwg", "publish", agent.new, o) \/ (o.file = agent.new /\ o.loaded = loaded["bwg"])
          PROVE  Serving(lines)'
      <4>1. agent.new \in Fragment
        BY <1>2, <3>2 DEF AgentOK
      <4>. QED  BY <1>1, <3>2, <4>1, HelpsServing DEF Edges
    <3>3. ASSUME agent.do \in {"update", "restore"}, agent.new.lines = lines, agent.old.lines = lines,
                 Verb = "publish", agent.at = "undo",
                 NEW o, Only("bwg", o), 
                 Helps("bwg", "publish", agent.old, o) \/ (o.file = agent.old /\ o.loaded = loaded["bwg"])
          PROVE  Serving(lines)'
      <4>1. agent.old \in Fragment
        BY <1>2, <3>3 DEF AgentOK
      <4>. QED  BY <1>1, <3>3, <4>1, HelpsServing DEF Edges
    <3>4. ASSUME agent.do \in {"update", "restore"}, agent.new.lines = lines,
                 NEW o, Only("nosla", o), Helps("nosla", "publish", agent.new, o)
          PROVE  Serving(lines)'
      <4>1. agent.new \in Fragment
        BY <1>2, <3>4 DEF AgentOK
      <4>. QED  BY <1>1, <3>4, <4>1, HelpsServing DEF Edges
    <3>5. CASE UNCHANGED <<files, loaded>>
      BY <1>1, <3>5, ServingFrame
    <3>6. \/ agent = Idle
          \/ UNCHANGED <<files, loaded>>
          \/ /\ agent.do \in {"update", "restore"} /\ agent.at = "bwg"
             /\ \E o : /\ Only("bwg", o)
                       /\ \/ Helps("bwg", "publish", agent.new, o)
                          \/ o.file = agent.new /\ o.loaded = loaded["bwg"]
          \/ /\ agent.do \in {"update", "restore"} /\ agent.at = "undo"
             /\ \E o : /\ Only("bwg", o)
                       /\ \/ Helps("bwg", "publish", agent.old, o)
                          \/ o.file = agent.old /\ o.loaded = loaded["bwg"]
          \/ /\ agent.do \in {"update", "restore"}
             /\ \E o : Only("nosla", o) /\ Helps("nosla", "publish", agent.new, o)
      BY <1>2, <1>10, AgentRestartsSteps
    <3>. QED  BY <1>2, <3>1, <3>2, <3>3, <3>4, <3>5, <3>6 DEF Idle
  <2>. QED  BY <2>1, <2>2 DEF Stable, Quiet
<1>. QED  BY <1>4, <1>5, <1>6, <1>7, <1>8, <1>9, <1>10 DEF AgentNext, AgentRuns

(* A run of the helper that ends keeps what is loaded in step.             *)
LEMMA RunsInStep ==
  ASSUME OneInv, AgentRuns
  PROVE  /\ AllInStep => AllInStep'
         /\ \A lines : InStep(lines) => InStep(lines)'
<1>. USE OneFacts
<1>1. CASE UNCHANGED <<files, loaded>>
  BY <1>1, ServingFrame
<1>2. ASSUME NEW e \in Edges, NEW do, NEW m \in Fragment, NEW o, Helps(e, do, m, o), Only(e, o)
      PROVE  /\ AllInStep => AllInStep'
             /\ \A lines : InStep(lines) => InStep(lines)'
  BY <1>2, HelpsInStep, HelpsAllInStep
<1>3. CASE Takes \/ Probes \/ Stores
  BY <1>1, <1>3, TakesSteps, ProbesSteps, StoresSteps DEF edges
<1>4. CASE OnBWG
  BY <1>2, <1>4, OnBWGSteps DEF Edges
<1>5. CASE OnNOSLA
  BY <1>2, <1>5, OnNOSLASteps DEF Edges
<1>6. CASE UndoesBWG
  <2>1. \E o \in Outcome, do \in {"publish", "unpublish"}, m \in Fragment :
           Helps("bwg", do, m, o) /\ Only("bwg", o)
    BY <1>6, UndoesBWGSteps
  <2>. QED  BY <1>2, <2>1 DEF Edges
<1>. QED  BY <1>3, <1>4, <1>5, <1>6 DEF AgentRuns

(* Only who waits for the last request gets an answer.                     *)
LEMMA AnswerSteps ==
  ASSUME ShapeInv, AgentRuns
  PROVE  UNCHANGED <<asked, answer>> \/ (asked /\ queue' = <<>>)
<1>1. CASE Takes \/ Probes
  BY <1>1, TakesSteps, ProbesSteps DEF Replies
<1>2. CASE Stores \/ UndoesBWG
  BY <1>2, StoresSteps, UndoesBWGSteps DEF Replies
<1>3. CASE OnBWG
  BY <1>3, OnBWGSteps DEF Replies, Moves
<1>4. CASE OnNOSLA
  BY <1>4, OnNOSLASteps DEF Replies, Moves
<1>. QED  BY <1>1, <1>2, <1>3, <1>4 DEF AgentRuns

(* The call that restores the edges succeeds.                              *)
LEMMA RecallSucceeds ==
  ASSUME OneInv, AgentRuns, UNCHANGED <<handler, console>>, faults = 1, faults' = 1,
         Doing("update", {"recall"}), RestoreOK
  PROVE  Succeeds'
<1>. USE OneFacts
<1>1. /\ Restoring /\ Ahead({"recall"}) /\ Succeeds /\ Asked = "publish" /\ Reported("publishing")
      /\ handler.sent => node = handler.was /\ route.lines = handler.was
      /\ route # None /\ node # None
  <2>1. Restoring /\ Ahead({"recall"}) /\ Reported("publishing") /\ route \in Route /\ node # None
    BY DEF Restoring, Doing, Ahead, AccountOK, PhaseOK, PeaceOK, ShapeInv, HandlerOK
  <2>2. Asked = "publish"
    BY DEF Asked, Doing, Ahead
  <2>. QED  BY <2>1, <2>2, NoneFacts DEF RestoreOK, Ahead
<1>2. answer = None
  BY NoAnswer DEF AgentNext
<1>3. CASE ~asked
  <2>1. ~asked' /\ answer' = None
    BY <1>2, <1>3, AnswerSteps
  <2>. QED  BY <2>1 DEF Succeeds
<1>4. CASE asked /\ queue' # <<>>
  <2>1. answer' = None
    BY <1>2, <1>4, AnswerSteps
  <2>. QED  BY <1>4, <2>1 DEF Succeeds
<1>5. CASE asked /\ queue' = <<>> /\ Takes
  <2>1. queue # <<>> /\ queue' = Tail(queue) /\ queue \in Seq(Request) /\ handler.sent
    BY <1>5, TakesSteps, AgentFacts DEF SocketOK
  <2>2. Head(queue) = "publish"
    BY <1>1, <1>5, <2>1, TailFacts DEF SocketOK
  <2>3. Staged
    BY <1>1, <2>1 DEF Staged, Reported
  <2>4. agent'.at = "bwg" /\ answer' = None
    BY <1>1, <1>2, <1>5, <2>2, <2>3, TakesSteps
  <2>. QED  BY <2>4 DEF Succeeds
<1>6. CASE asked /\ queue' = <<>> /\ ~Takes
  <2>1. queue = <<>>
    BY <1>6, ProbesSteps, OnBWGSteps, OnNOSLASteps, UndoesBWGSteps, StoresSteps DEF AgentRuns
  <2>2. agent.do = "publish" /\ agent.at \in {"bwg", "nosla"}
    BY <1>1, <1>6, <2>1 DEF SocketOK, Does, Succeeds
  <2>3. OnBWG \/ OnNOSLA
    BY <1>6, <2>2, ProbesSteps, UndoesBWGSteps, StoresSteps DEF AgentRuns
  <2>4. CASE OnBWG
    <3>1. PICK o \in Outcome : /\ o = Runs("bwg", Verb, agent.new)
                               /\ o.result # "synced" \/ Moves("nosla", o.result)
      BY <2>2, <2>4, OnBWGSteps DEF Counted
    <3>2. o.result = "synced"
      BY <2>2, <3>1, RunsHelps DEF Verb
    <3>. QED  BY <1>2, <3>1, <3>2 DEF Moves, Succeeds
  <2>5. CASE OnNOSLA
    <3>1. PICK o \in Outcome :
             /\ o = Runs("nosla", Verb, agent.new) /\ agent.at = "nosla"
             /\ o.result # "synced" \/ (agent' = Idle /\ Replies(agent.bwg, o.result))
      BY <2>2, <2>5, OnNOSLASteps DEF Counted
    <3>2. o.result = "synced"
      BY <2>2, <3>1, RunsHelps DEF Verb
    <3>3. agent.bwg = "synced"
      BY <2>2, <3>1 DEF EdgesOK
    <3>4. Replies("synced", "synced")
      BY <3>1, <3>2, <3>3
    <3>. QED  BY <1>6, <3>4 DEF Replies, Succeeds, Synced, Edges
  <2>. QED  BY <2>3, <2>4, <2>5
<1>. QED  BY <1>3, <1>4, <1>5, <1>6

(* A canary brings the new lines, or they stay the old ones.               *)
LEMMA ConvertingStep ==
  ASSUME OneInv, AgentRuns, UNCHANGED <<handler, console>>, faults = 1, faults' = 1,
         Ahead({"verify"}), node # None, Converting
  PROVE  Converting' \/ (\E lines \in Lines : Stable(lines)')
<1>. USE OneFacts
<1>1. UNCHANGED node /\ asked /\ AgentOK /\ node \in Lines
  BY AgentFrame DEF AgentNext, database, Converting, ShapeInv, TypeOK
<1>2. CASE queue = <<"canary">> /\ agent = Idle /\ \E lines \in Lines : Serving(lines)
  <2>1. Takes
    BY <1>2, ProbesSteps, OnBWGSteps, OnNOSLASteps, UndoesBWGSteps, StoresSteps DEF AgentRuns, Idle
  <2>2. Head(queue) = "canary" /\ Tail(queue) = <<>>
    BY <1>2
  <2>3. queue' = <<>> /\ agent'.do = "update" /\ agent'.at = "probe" /\ asked'
        /\ UNCHANGED <<files, loaded>>
    BY <1>1, <2>1, <2>2, TakesSteps DEF edges
  <2>4. \E lines \in Lines : Serving(lines)'
    BY <1>2, <2>3, ServingFrame
  <2>. QED  BY <2>3, <2>4 DEF Converting
<1>. SUFFICES ASSUME /\ queue = <<>> /\ agent.do = "update" /\ agent.at \in {"probe", "bwg", "nosla", "store"}
                     /\ agent.at \in {"probe", "bwg"} => \E lines \in Lines : Serving(lines)
                     /\ agent.at = "nosla" => On("bwg", node) /\ \E lines \in Lines : On("nosla", lines)
                     /\ agent.at = "store" => Serving(node)
              PROVE  Converting' \/ (\E lines \in Lines : Stable(lines)')
  BY <1>2 DEF Converting
<1>3. agent.new \in Fragment /\ agent.new.lines = node /\ Verb = "publish" /\ ~Takes
  BY <1>1 DEF AgentOK, NewOK, Verb, Takes
<1>4. CASE Probes
  <2>1. PICK lines \in Lines : Serving(lines)
    BY <1>4, ProbesSteps
  <2>2. /\ UNCHANGED <<files, loaded, queue>>
        /\ \/ agent' = Idle
           \/ agent'.do = "update" /\ agent'.at = "bwg" /\ UNCHANGED asked
    BY <1>4, ProbesSteps DEF edges
  <2>3. Serving(lines)'
    BY <2>1, <2>2, ServingFrame
  <2>. QED  BY <1>1, <2>2, <2>3 DEF Converting, Stable, Quiet
<1>5. CASE OnBWG
  <2>1. PICK o \in Outcome : /\ Helps("bwg", "publish", agent.new, o) /\ Only("bwg", o)
                             /\ o = Runs("bwg", "publish", agent.new) /\ agent.at = "bwg"
                             /\ UNCHANGED queue
                             /\ o.result = "synced" => Moves("nosla", o.result)
    BY <1>3, <1>5, OnBWGSteps DEF Counted
  <2>2. o.result = "synced"
    BY <2>1, RunsHelps
  <2>3. PICK lines \in Lines : Serving(lines)
    BY <2>1
  <2>4. PICK m \in Fragment : m = agent.new
    BY <1>3
  <2>5. InStep(m.lines) /\ Put("bwg", m, o)
    BY <2>1, <2>2, <2>3, <2>4, ServingInStep, AllInStepFacts, HelpsTruth
  <2>6. On("bwg", m.lines)'
    BY <2>1, <2>5, PutOn DEF Edges
  <2>7. On("bwg", node)'
    BY <1>1, <1>3, <2>4, <2>6 DEF On
  <2>8. On("nosla", lines)'
    BY <2>1, <2>3, OnlyOn DEF Serving, Edges
  <2>. QED  BY <1>1, <2>1, <2>2, <2>7, <2>8 DEF Moves, Converting
<1>6. CASE OnNOSLA
  <2>1. PICK o \in Outcome : /\ Helps("nosla", "publish", agent.new, o) /\ Only("nosla", o)
                             /\ o = Runs("nosla", "publish", agent.new) /\ agent.at = "nosla"
                             /\ UNCHANGED queue
                             /\ o.result = "synced" => Moves("store", agent.bwg)
    BY <1>3, <1>6, OnNOSLASteps DEF Counted
  <2>2. o.result = "synced"
    BY <2>1, RunsHelps
  <2>3. PICK m \in Fragment : m = agent.new
    BY <1>3
  <2>4. InStep(m.lines)
    BY <1>3, <2>1, <2>3 DEF On, InStep, Edges
  <2>5. On("nosla", m.lines)'
    BY <2>1, <2>2, <2>3, <2>4, PutOn, HelpsTruth DEF Edges
  <2>6. On("bwg", m.lines)'
    BY <1>3, <2>1, <2>3, OnlyOn DEF Edges
  <2>7. Serving(node)'
    BY <1>1, <1>3, <2>3, <2>5, <2>6 DEF Serving, On, Edges
  <2>. QED  BY <1>1, <2>1, <2>2, <2>7 DEF Moves, Converting
<1>7. CASE UndoesBWG
  BY <1>7, UndoesBWGSteps
<1>8. CASE Stores
  <2>1. UNCHANGED <<files, loaded, queue>> /\ agent' = Idle /\ agent.at = "store"
    BY <1>8, StoresSteps
  <2>2. PICK lines \in Lines : lines = node
    BY <1>1
  <2>3. Serving(lines)'
    BY <2>1, <2>2, ServingFrame
  <2>. QED  BY <2>1, <2>3 DEF Stable, Quiet
<1>. QED  BY <1>3, <1>4, <1>5, <1>6, <1>7, <1>8 DEF AgentRuns

LEMMA RunsOne ==
  ASSUME OneInv, AgentRuns, UNCHANGED <<handler, console>>, faults' <= 1
  PROVE  OneOK'
<1>. USE OneFacts
<1>1. AgentNext /\ faults <= 1 /\ faults' \in {faults, faults + 1}
  BY TakesSteps, ProbesSteps, OnBWGSteps, OnNOSLASteps, UndoesBWGSteps, StoresSteps
     DEF AgentRuns, AgentNext, Counted
<1>2. AllInStep => AllInStep'
  BY RunsInStep
<1>3. InStep(handler.was) => InStep(handler.was)'
  <2>1. PICK lines : lines = handler.was
    OBVIOUS
  <2>2. InStep(lines) => InStep(lines)'
    BY RunsInStep
  <2>. QED  BY <2>1, <2>2 DEF InStep
<1>4. \A lines \in Lines : Stable(lines) => Stable(lines)'
  BY <1>1, StableStep
<1>5. handler.sent /\ faults = 1 /\ Converting /\ Ahead({"verify"}) /\ node # None =>
        (Converting' /\ faults' = 1) \/ (\E lines \in Lines : Stable(lines)')
  BY <1>1, ConvertingStep
<1>6. UpdateOK => UpdateOK'
  BY <1>3 DEF UpdateOK, Doing, Ahead
<1>7. Doing("update", {"recall"}) /\ RestoreOK => Succeeds'
  <2>1. Doing("update", {"recall"}) => faults # 0
    BY Undone0 DEF Restoring, Doing, Ahead
  <2>. QED  BY <1>1, <2>1, RecallSucceeds
<1>. QED  BY <1>1, <1>2, <1>3, <1>4, <1>5, <1>6, <1>7, AgentOne

(* What a killed helper leaves is removed, or what it was to put there.    *)
LEMMA KilledSteps ==
  ASSUME ShapeInv, AgentRestarts
  PROVE  \/ UNCHANGED <<files, loaded>>
         \/ \E e \in Edges, do \in {"publish", "unpublish"}, m \in Fragment :
              \E o : Helps(e, do, m, o) /\ Only(e, o)
         \/ \E o : Only("bwg", o) /\ o.file = None
         \/ /\ agent.do # "idle"
            /\ \E o : /\ Only("bwg", o) /\ o.loaded = loaded["bwg"]
                      /\ \/ o.file = agent.new /\ agent.do # "unpublish" /\ agent.at = "bwg"
                         \/ o.file = agent.old /\ agent.do # "publish" /\ agent.at = "undo"
<1>1. AgentOK /\ Verb \in {"publish", "unpublish"}
  BY AgentFacts DEF ShapeInv
<1>2. agent.do # "idle" => agent.new \in Fragment
  BY <1>1 DEF AgentOK
<1>3. agent.at = "undo" /\ agent.do # "publish" => agent.old \in Fragment
  BY <1>1 DEF AgentOK
<1>4. CASE agent.do # "idle" /\ agent.at = "nosla" /\ \E o : Only("nosla", o) /\ Helps("nosla", Verb, agent.new, o)
  BY <1>1, <1>2, <1>4 DEF Edges
<1>5. ASSUME agent.do # "idle", agent.at \in {"bwg", "undo"}, NEW o, Only("bwg", o),
             \/ Helps("bwg", "publish", agent.new, o)
             \/ Helps("bwg", "unpublish", agent.new, o)
             \/ Helps("bwg", "publish", agent.old, o) /\ agent.at = "undo" /\ agent.do # "publish"
      PROVE  \E e \in Edges, do \in {"publish", "unpublish"}, m \in Fragment :
               \E p : Helps(e, do, m, p) /\ Only(e, p)
  <2>1. \E do \in {"publish", "unpublish"}, m \in Fragment : Helps("bwg", do, m, o)
    BY <1>2, <1>3, <1>5
  <2>. QED  BY <1>5, <2>1 DEF Edges
<1>6. ASSUME agent.do # "idle", agent.at \in {"bwg", "undo"}, NEW o, Only("bwg", o),
             \/ Helps("bwg", "publish", agent.new, o) /\ agent.at = "bwg" /\ agent.do # "unpublish"
             \/ Helps("bwg", "unpublish", agent.new, o)
             \/ Helps("bwg", "publish", agent.old, o) /\ agent.at = "undo" /\ agent.do # "publish"
             \/ o.file \in {agent.new, agent.old} /\ o.loaded = loaded["bwg"]
                /\ (agent.at = "bwg" => o.file = agent.new /\ agent.do # "unpublish")
                /\ (agent.at = "undo" => o.file = agent.old /\ agent.do # "publish")
             \/ o.file = None
      PROVE  \/ \E e \in Edges, do \in {"publish", "unpublish"}, m \in Fragment :
                  \E p : Helps(e, do, m, p) /\ Only(e, p)
             \/ o.file = None
             \/ /\ o.loaded = loaded["bwg"]
                /\ \/ o.file = agent.new /\ agent.do # "unpublish" /\ agent.at = "bwg"
                   \/ o.file = agent.old /\ agent.do # "publish" /\ agent.at = "undo"
  BY <1>5, <1>6
<1>. QED  BY <1>4, <1>6, AgentRestartsSteps

LEMMA RestartsOne ==
  ASSUME OneInv, AgentRestarts, UNCHANGED <<handler, console>>, faults' <= 1
  PROVE  OneOK'
<1>. USE OneFacts
<1>1. /\ AgentNext /\ faults = 0 /\ faults' = 1 /\ ~asked' /\ UNCHANGED <<node, pub, route>>
      /\ asked => answer' = Unavailable
  BY AgentRestartsSteps DEF AgentNext, database
<1>2. /\ asked /\ handler.kind # "none" /\ handler.sent /\ Ahead({"call", "recall", "verify"})
      /\ queue # <<>> => agent = Idle
      /\ queue = <<>> => /\ agent.do \in Does(Asked) /\ agent.new.lines = node
                         /\ agent.do \in {"update", "restore"} => agent.old.lines = node
      /\ Configured => Faithful /\ Base = node
  BY <1>1, BusyUnfailed
<1>3. ~Undoing /\ ~Restoring
  BY <1>1, Undone0
<1>4. ASSUME NEW e \in Edges, NEW do \in {"publish", "unpublish"}, NEW m \in Fragment, NEW o,
             Helps(e, do, m, o), Only(e, o)
      PROVE  (AllInStep => AllInStep') /\ \A lines : InStep(lines) => InStep(lines)'
  BY <1>4, HelpsInStep, HelpsAllInStep
<1>5. ASSUME NEW o, Only("bwg", o), o.file = None
      PROVE  (AllInStep => AllInStep') /\ \A lines : InStep(lines) => InStep(lines)'
  BY <1>5 DEF Only, Edges, AllInStep, InStep
<1>6. UNCHANGED <<files, loaded>> =>
        (AllInStep => AllInStep') /\ \A lines : InStep(lines) => InStep(lines)'
  BY ServingFrame
<1>7. \/ (AllInStep => AllInStep') /\ \A lines : InStep(lines) => InStep(lines)'
      \/ /\ agent.do # "idle"
         /\ \E m \in Fragment, o \in {[file |-> files'["bwg"], loaded |-> loaded'["bwg"]]} :
              /\ Only("bwg", o) /\ o.loaded = loaded["bwg"] /\ o.file = m /\ m.lines = node
  <2>1. ASSUME agent.do # "idle", NEW o, Only("bwg", o), o.loaded = loaded["bwg"],
               \/ o.file = agent.new /\ agent.do # "unpublish" /\ agent.at = "bwg"
               \/ o.file = agent.old /\ agent.do # "publish" /\ agent.at = "undo"
        PROVE  \E m \in Fragment, p \in {[file |-> files'["bwg"], loaded |-> loaded'["bwg"]]} :
                 /\ Only("bwg", p) /\ p.loaded = loaded["bwg"] /\ p.file = m /\ m.lines = node
    <3>1. AgentOK /\ queue = <<>>
      BY <1>2, <2>1 DEF ShapeInv, Idle
    <3>2. o.file \in Fragment /\ o.file.lines = node
      BY <1>2, <2>1, <3>1 DEF AgentOK
    <3>3. files'["bwg"] = o.file /\ loaded'["bwg"] = o.loaded
      BY <2>1 DEF Only
    <3>. DEFINE p == [file |-> files'["bwg"], loaded |-> loaded'["bwg"]]
    <3>4. Only("bwg", p) /\ p.loaded = loaded["bwg"] /\ p.file = o.file
      BY <2>1, <3>3 DEF Only
    <3>. QED  BY <3>2, <3>4
  <2>. QED  BY <1>4, <1>5, <1>6, <2>1, KilledSteps
<1>8. ASSUME Live', AllInStep PROVE AllInStep'
  <2>1. Configured
    <3>1. \/ Doing("publish", {"call", "recall", "verify"}) \/ Doing("refresh", {"call", "verify"})
          \/ Doing("update", {"call", "recall"}) \/ Doing("cleanup", {"call"})
          \/ Doing("unpublish", {"call"}) \/ Doing("canary", {"verify"})
      BY <1>2, CallKinds
    <3>2. ~Doing("update", {"call"})' /\ (Reported("published")' <=> Reported("published"))
      <4>1. Doing("update", {"call"})' => Reported("publishing")' /\ answer' = Unavailable
        BY <1>1, <1>2 DEF AccountOK, PhaseOK, Doing, Ahead, Reported
      <4>2. ~Doing("update", {"call"})'
        BY <1>1, <1>8, <4>1, UnavailableFacts, NoneFacts DEF Live, Doing, Ahead, Reported
      <4>. QED  BY <1>1, <4>2 DEF Reported
    <3>3. Reported("published") \/ handler.kind = "refresh"
      BY <1>2, <1>8, <3>2 DEF Live, Doing, Ahead
    <3>. QED  BY <3>1, <3>3 DEF Configured, Doing, Ahead, AccountOK, PhaseOK
  <2>2. Serving(node)
    BY <1>2, <2>1 DEF Faithful
  <2>3. ASSUME NEW m \in Fragment, NEW o, Only("bwg", o), o.loaded = loaded["bwg"], o.file = m,
               m.lines = node
        PROVE  AllInStep'
    <3>1. Serving(node)'
      BY <1>1, <2>2, <2>3, HelpsNode DEF Edges
    <3>. QED  BY <3>1 DEF Serving, On, AllInStep
  <2>. QED  BY <1>7, <1>8, <2>3
<1>9. \A lines \in Lines : Stable(lines) => Stable(lines)'
  BY <1>1, StableStep
<1>10. UpdateOK => UpdateOK'
  <2>. SUFFICES ASSUME Doing("update", {"call"}), InStep(handler.was) PROVE InStep(handler.was)'
    BY DEF UpdateOK, Doing, Ahead
  <2>1. node # handler.was
    BY DEF PlanOK, Doing, Ahead
  <2>2. PICK lines : lines = handler.was
    OBVIOUS
  <2>3. ASSUME NEW m \in Fragment, NEW o, Only("bwg", o), o.file = m, m.lines = node
        PROVE  InStep(lines)'
    BY <2>1, <2>2, <2>3 DEF InStep, Only, Edges
  <2>4. InStep(lines)'
    BY <1>7, <2>2, <2>3
  <2>. QED  BY <2>2, <2>4 DEF InStep
<1>11. Live' /\ AllInStep => AllInStep'
  BY <1>8
<1>12. handler.sent /\ faults = 1 /\ Converting /\ Ahead({"verify"}) /\ node # None =>
         (Converting' /\ faults' = 1) \/ (\E lines \in Lines : Stable(lines)')
  BY <1>1
<1>13. /\ Restoring /\ InStep(handler.was) => InStep(handler.was)'
       /\ Doing("update", {"recall"}) /\ RestoreOK => Succeeds'
  BY <1>3 DEF Restoring, Doing, Ahead
<1>14. AgentNext /\ UNCHANGED <<handler, console>> /\ faults <= 1
  BY <1>1 DEF AgentNext
<1>. QED  BY <1>9, <1>10, <1>11, <1>12, <1>13, <1>14, AgentOne

LEMMA OneStep ==
  ASSUME OneInv, [Next]_vars, Overlap = {}, ~Direct
  PROVE  OneInv'
<1>. USE OneFacts
<1>1. UnfailedInv'
  BY UnfailedStep
<1>. SUFFICES ASSUME faults' <= 1 PROVE OneOK'
  BY <1>1 DEF OneInv, OneOK
<1>2. CASE HandlerRuns
  <2>1. CASE Mark \/ Stage \/ Commit \/ Settle \/ Retarget \/ Reline \/ Drop \/ Redrop
    BY <2>1, MarkOne, StageOne, CommitOne, SettleOne, RetargetOne, RelineOne, DropOne
  <2>2. CASE Renode \/ Reroute \/ Rerow \/ Calls \/ Skips \/ Hears \/ TimesOut
    BY <2>2, RenodeOne, RerouteOne, RerowOne, CallsOne, SkipsOne, HearsOne, TimesOutOne
  <2>. QED  BY <1>2, <2>1, <2>2 DEF HandlerRuns
<1>3. CASE HandlerBegins \/ Failures \/ ConsoleReads \/ ConsoleWrites
  BY <1>3, BeginOne, ClientLeavesOne, CrashOne, ConsoleOne DEF Failures
<1>4. CASE AgentNext /\ UNCHANGED <<handler, console>>
  BY <1>4, RunsOne, RestartsOne DEF AgentNext
<1>5. CASE UNCHANGED vars
  <2>1. UNCHANGED <<node, pub, route, files, loaded, queue, agent, asked, answer, faults, handler, console>>
    BY <1>5 DEF vars, database, edges, socket
  <2>2. /\ (AllInStep' <=> AllInStep) /\ (Intact' <=> Intact) /\ (Quiet' <=> Quiet)
        /\ \A lines : Stable(lines)' <=> Stable(lines)
        /\ (Serving(node)' <=> Serving(node)) /\ (InStep(handler.was)' <=> InStep(handler.was))
        /\ (Converting' <=> Converting) /\ (Succeeds' <=> Succeeds)
    BY <2>1, EdgesFrame DEF Serving, On, InStep, Converting, Succeeds
  <2>3. OneOK /\ \A kind, steps : (Ahead(steps)' <=> Ahead(steps)) /\ (Doing(kind, steps)' <=> Doing(kind, steps))
    BY <2>1 DEF Ahead, Doing
  <2>4. LiveOK' /\ RestOK'
    BY <2>1, <2>2, <2>3 DEF LiveOK, Live, RestOK, Reported
  <2>5. UntouchedOK' /\ SettleOK' /\ UpdateOK' /\ StaleOK'
    BY <2>1, <2>2, <2>3 DEF UntouchedOK, Untouched, SettleOK, UpdateOK, StaleOK
  <2>6. RestoreOK'
    BY <2>1, <2>2, <2>3 DEF RestoreOK, Restoring
  <2>. QED  BY <2>4, <2>5, <2>6 DEF OneOK
<1>. QED  BY <1>2, <1>3, <1>4, <1>5 DEF Next

LEMMA OneInit ==
  ASSUME Init
  PROVE  OneInv
<1>1. UnfailedInv /\ handler = NoHandler /\ pub = None
  BY UnfailedInit DEF Init
<1>2. ~handler.sent /\ handler.kind = "none" /\ handler.todo = <<>>
  BY <1>1 DEF NoHandler
<1>3. (\A steps : ~Ahead(steps)) /\ (\A kind, steps : ~Doing(kind, steps)) /\ ~Reported("published")
  BY <1>1, <1>2 DEF Ahead, Doing, Reported
<1>4. LiveOK /\ RestOK
  BY <1>2, <1>3 DEF LiveOK, Live, RestOK
<1>5. UntouchedOK /\ SettleOK /\ UpdateOK /\ StaleOK /\ RestoreOK
  BY <1>3 DEF UntouchedOK, Untouched, SettleOK, UpdateOK, StaleOK, RestoreOK, Restoring
<1>. QED  BY <1>1, <1>4, <1>5 DEF OneInv, OneOK

(* One failure, of whatever kind and wherever it strikes, never leaves a   *)
(* server reported as configured that an edge does not serve: for every    *)
(* set of lines, every kind of failure and every request, when the console *)
(* changes nothing behind a handler's back and offers the cleanup of what  *)
(* is not published only (publications.go, agent.go).                      *)
THEOREM OneFailureIsSurvived ==
  ASSUME Overlap = {}, ~Direct
  PROVE  Spec => []OneFailureSurvived
<1>1. OneInv => OneFailureSurvived
  <2>. SUFFICES ASSUME OneInv, faults <= 1, handler.kind = "none", Reported("published"), ~pub.stale
                PROVE  \E lines \in Lines : \A e \in Edges : loaded[e] # None /\ loaded[e].lines = lines
    BY DEF OneFailureSurvived
  <2>1. ~handler.sent
    BY OneFacts DEF ShapeInv, HandlerOK, NoHandler
  <2>2. \E lines \in Lines : Stable(lines)
    BY <2>1, OneFacts DEF RestOK
  <2>. QED  BY <2>2 DEF Stable, Serving, On
<1>. QED  BY <1>1, OneInit, OneStep, PTL DEF Spec
==============================================================================
