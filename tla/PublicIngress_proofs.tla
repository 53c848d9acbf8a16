------------------------- MODULE PublicIngress_proofs -------------------------
(***************************************************************************)
(* Theorems about PublicIngress, for any number of nodes, addresses and    *)
(* faults: the types of its variables, the two safety properties that tie  *)
(* the database to the provider's record, that nothing overwrites what     *)
(* undoes an operation, unpins the entry or brings a dead node back, and   *)
(* that the switcher is a transaction where nobody else writes the record. *)
(***************************************************************************)
EXTENDS PublicIngress, TLAPS

(* The steps of a goroutine that works for a chosen target node, and those *)
(* of them that follow the first read of the record.                       *)
AfterRead ==
  {"cas", "put", "prune", "final", "readback", "submitted", "wait", "verify",
   "rollback", "rb_read", "rb_wait", "rc_wait"}
Targeted == AfterRead \cup {"preflight", "read"}

(* What the goroutine's variables hold at each step, whatever the record   *)
(* and the faults do: which ReplaceExactA it can be in, the target it      *)
(* works for, and the addresses the provider calls are made with.          *)
JobOK ==
  /\ job = "rollback" => pc \in {"cas", "put", "prune", "final", "rb_wait", "settle"}
  /\ job = "recover" =>
       pc \in {"cas", "put", "prune", "final", "submitted", "rc_wait", "settle"}
  /\ pc = "rc_wait" => job = "recover"
  /\ pc = "settle" /\ job # "switch" => loc.phase # "failed"

LocalsOK ==
  /\ pc \in Targeted => req.node \in Node
  /\ pc \in Targeted \cup {"rc_next"} => InFlight(loc)
  /\ pc \in AfterRead \cup {"read"} => loc.desired = AddrOf[req.node]
  /\ pc \in AfterRead \cup {"rc_next"} => loc.previous \in Address
  /\ pc = "rc_next" => seen \in Address
  /\ pc \in AfterRead /\ job = "recover" => seen \in Address /\ seen = loc.source
  /\ pc \in {"put", "prune", "final"} => From # To

TypeInv == TypeOK /\ JobOK /\ LocalsOK

(* The database follows the goroutine: in flight from the first save on,   *)
(* with the addresses and the owner that the goroutine has.                *)
StoreFollows ==
  /\ pc \in Targeted \cup {"rc_next"} =>
       InFlight(op) /\ op.active = loc.active /\ op.previous = loc.previous
  /\ pc \in {"preflight", "read"} => loc.previous = NoAddr
  /\ pc \in AfterRead \cup {"rc_next"} =>
       op.desired = loc.desired /\ op.source = loc.source
  /\ pc = "settle" =>
       /\ InFlight(op)
       /\ op.previous = loc.previous
       /\ InFlight(loc) =>
            /\ loc.previous # NoAddr /\ op.active = loc.active
            /\ op.desired = loc.desired /\ op.source = loc.source

(* An entry that is settled: provider and resolvers at node n.             *)
EntryAt(n) == n # NoNode => dns = {AddrOf[n]} /\ answers = dns

(* What the database says of the record while nobody else writes it.       *)
StoredRecord ==
  /\ ~InFlight(op) => EntryAt(op.active)
  /\ InFlight(op) /\ op.previous = NoAddr => EntryAt(op.active)
  /\ InFlight(op) /\ op.previous # NoAddr =>
       /\ dns \subseteq {op.previous, op.desired, op.source}
       /\ op.active # NoNode => op.previous = AddrOf[op.active]

(* What the goroutine knows of the record at each step.                    *)
StepRecord ==
  /\ pc \in {"cas", "put"} => dns = {From}
  /\ pc \in {"cas", "put"} /\ job = "switch" => EntryAt(loc.active)
  /\ pc = "prune" => To \in dns /\ dns \subseteq {From, To}
  /\ pc \in {"final", "submitted", "wait", "verify", "rc_wait"} => dns = {To}
  /\ pc = "rc_next" => dns = {seen}
  /\ pc = "readback" => To \in dns \/ EntryAt(loc.active)
  /\ pc = "settle" /\ ~InFlight(loc) =>
       /\ EntryAt(loc.active)
       /\ \/ loc.phase = "verified" /\ loc.active \in Node
          \/ /\ loc.active = op.active
             /\ loc.previous = NoAddr \/ dns = {loc.previous}

(* The inductive invariant: types, the database behind the goroutine, and, *)
(* as long as nobody else has written the record, the record behind both.  *)
IInv == TypeInv /\ StoreFollows /\ (~foreign => StoredRecord /\ StepRecord)

------------------------------------------------------------------------------
(* Types *)

(* A new record of an operation is typed when the changed fields are.      *)
LEMMA NoOperationType == NoOperation \in Operation /\ ~InFlight(NoOperation)
BY DEF NoOperation, Operation, Phase, Trigger, Mode, ErrorClass, InFlight, InFlightPhase

LEMMA NoRequestType == NoRequest \in Request
BY DEF NoRequest, Request, Trigger, Mode

(* Returning, with whatever the record, the database and the environment   *)
(* became, keeps the types.                                                *)
LEMMA ReleaseType ==
  ASSUME TypeOK, Release, RecordTypeOK', op' \in Operation, prior' \in Operation,
         answers' \in SUBSET Address, health' \in [Node -> HealthStates],
         up' \in [Node -> BOOLEAN], faults' \in Nat, foreign' \in BOOLEAN
  PROVE  TypeInv'
<1>1. TypeOK'
  BY NoOperationType, NoRequestType DEF TypeOK, Release, Goto, Pc, RecordTypeOK
<1>2. JobOK' /\ LocalsOK'
  BY DEF Release, Goto, JobOK, LocalsOK, Targeted, AfterRead
<1> QED BY <1>1, <1>2 DEF TypeInv

(* Settling on a typed record keeps the types.                             *)
LEMMA SettleType ==
  ASSUME TypeInv, NEW rec \in Operation, Settle(rec),
         job # "switch" => rec.phase # "failed",
         RecordTypeOK', faults' \in Nat, envSame
  PROVE  TypeInv'
<1>1. TypeOK'
  BY DEF TypeInv, TypeOK, Settle, Goto, Pc, RecordTypeOK, envSame, envVars
<1>2. JobOK' /\ LocalsOK'
  BY DEF Settle, Goto, JobOK, LocalsOK, Targeted, AfterRead
<1> QED BY <1>1, <1>2 DEF TypeInv

(* The initial states are typed.                                           *)
LEMMA InitType == Init => TypeInv
<1> SUFFICES ASSUME Init PROVE TypeInv
  OBVIOUS
<1>1. op \in Operation
  <2>1. ASSUME NEW n \in Node, NEW t \in {"admin_manual", "admin_fixed"},
               NEW m \in {"preferred", "fixed"}
        PROVE  VerifiedBy(n, t, m) \in Operation
    BY NoOperationType, NodeAssumption
    DEF VerifiedBy, Operation, Phase, Trigger, Mode, ErrorClass
  <2> QED BY <2>1, NoOperationType DEF Init
<1>2. dns \in SUBSET Address
  BY NodeAssumption DEF Init
<1>3. TypeOK
  BY <1>1, <1>2, NoOperationType, NoRequestType, EnvironmentAssumption
  DEF Init, TypeOK, RecordTypeOK, Pc
<1>4. JobOK /\ LocalsOK
  BY DEF Init, JobOK, LocalsOK, Targeted, AfterRead
<1> QED BY <1>3, <1>4 DEF TypeInv

LEMMA FaultType == ASSUME TypeOK, NEW f, Fault(f) PROVE faults' \in Nat
BY DEF TypeOK, Fault

(* Changing the phase, the error, the owner, ... of a typed record.        *)
LEMMA PhaseType ==
  ASSUME NEW o \in Operation, NEW p \in Phase, NEW e \in ErrorClass
  PROVE  /\ [o EXCEPT !.phase = p] \in Operation
         /\ [o EXCEPT !.phase = p, !.error = e] \in Operation
         /\ [o EXCEPT !.error = e] \in Operation
         /\ [o EXCEPT !.phase = p].phase = p
         /\ [o EXCEPT !.phase = p, !.error = e].phase = p
         /\ [o EXCEPT !.error = e].phase = o.phase
BY DEF Operation

LEMMA AddressOf == ASSUME NEW n \in Node PROVE AddrOf[n] \in Address /\ AddrOf[n] # NoAddr
BY NodeAssumption, NoAddrAssumption

(* switchToLocked up to the compare-and-swap.                              *)
LEMMA OpenOperationType ==
  ASSUME TypeInv, NEW r \in Request, r.node \in Node, NEW rest \in SUBSET Node,
         pc \in {"idle", "next"}, OpenOperation(r, rest)
  PROVE  TypeInv'
<1> DEFINE rec == [NoOperation EXCEPT !.phase = "preparing", !.trigger = r.trigger,
                                      !.mode = op.mode, !.active = op.active]
<1>1. rec \in Operation /\ InFlight(rec)
  BY NoOperationType
  DEF TypeInv, TypeOK, Request, Operation, Phase, InFlight, InFlightPhase
<1> USE DEF envSame, envVars
<1>2. CASE SaveLost /\ UNCHANGED prior /\ Release
  BY <1>2, ReleaseType, FaultType
  DEF OpenOperation, TypeInv, TypeOK, RecordTypeOK, SaveLost
<1>3. CASE ~(SaveLost /\ UNCHANGED prior /\ Release)
  <2> HIDE DEF rec
  <2>1. /\ Saved(rec) /\ loc' = rec /\ req' = r /\ todo' = rest
        /\ Goto("preflight") /\ UNCHANGED <<job, seen, dns>> /\ envSame
        /\ prior' \in {op, NoOperation}
    BY <1>3 DEF OpenOperation, rec
  <2>2. TypeOK'
    BY <1>1, <2>1, NoOperationType
    DEF TypeInv, TypeOK, RecordTypeOK, Saved, Goto, Pc
  <2>3. JobOK' /\ LocalsOK'
    BY <1>1, <2>1 DEF TypeInv, JobOK, LocalsOK, Goto, Targeted, AfterRead, InFlight
  <2> QED BY <2>2, <2>3 DEF TypeInv
<1> QED BY <1>2, <1>3

LEMMA PreflightType == TypeInv /\ Preflight => TypeInv'
<1> SUFFICES ASSUME TypeInv, Preflight PROVE TypeInv'
  OBVIOUS
<1> USE DEF envSame, envVars
<1> DEFINE target == [loc EXCEPT !.desired = AddrOf[req.node]]
           refused(rec) == [rec EXCEPT !.phase = "failed", !.error = "pre_dns"]
<1>1. req.node \in Node /\ job = "switch" /\ InFlight(loc)
  BY DEF Preflight, TypeInv, TypeOK, JobOK, LocalsOK, Targeted, AfterRead
<1>2. /\ target \in Operation /\ InFlight(target)
      /\ target.desired = AddrOf[req.node] /\ target.previous = loc.previous
  BY <1>1, AddressOf DEF TypeInv, TypeOK, Operation, InFlight
<1>3. refused(loc) \in Operation /\ refused(target) \in Operation
  <2> HIDE DEF target
  <2> QED BY <1>2, PhaseType DEF TypeInv, TypeOK, Phase, ErrorClass
<1>4. CASE Settle(refused(loc)) \/ Settle(refused(target))
  <2>1. faults' \in Nat /\ UNCHANGED dns /\ envSame
    BY <1>4, FaultType DEF Preflight, TypeInv, TypeOK
  <2> HIDE DEF target, refused
  <2> QED BY <1>1, <1>3, <1>4, <2>1, SettleType DEF TypeInv, TypeOK, RecordTypeOK
<1>5. CASE ~(Settle(refused(loc)) \/ Settle(refused(target)))
  <2>1. /\ loc' = target /\ Goto("read")
        /\ UNCHANGED <<dbVars, job, req, todo, seen, faults, dns>> /\ envSame
    BY <1>5 DEF Preflight
  <2> HIDE DEF target, refused
  <2>2. TypeOK'
    BY <1>2, <2>1 DEF TypeInv, TypeOK, RecordTypeOK, Goto, Pc, dbVars
  <2>3. JobOK' /\ LocalsOK'
    BY <1>1, <1>2, <2>1 DEF JobOK, LocalsOK, Goto, Targeted, AfterRead, InFlight
  <2> QED BY <2>2, <2>3 DEF TypeInv
<1> QED BY <1>4, <1>5

LEMMA FailType ==
  ASSUME TypeInv, Fail, job = "switch", RecordTypeOK', faults' \in Nat, envSame
  PROVE  TypeInv'
BY PhaseType, SettleType DEF Fail, TypeInv, TypeOK, Phase, ErrorClass

LEMMA ReadProviderType == TypeInv /\ ReadProvider => TypeInv'
<1> SUFFICES ASSUME TypeInv, ReadProvider PROVE TypeInv'
  OBVIOUS
<1> USE DEF envSame, envVars
<1>1. /\ req.node \in Node /\ job = "switch" /\ InFlight(loc)
      /\ loc.desired = AddrOf[req.node]
  BY DEF ReadProvider, TypeInv, TypeOK, JobOK, LocalsOK, Targeted, AfterRead
<1>2. faults' \in Nat /\ RecordTypeOK' /\ envSame /\ UNCHANGED dns
  BY FaultType DEF ReadProvider, TypeInv, TypeOK, RecordTypeOK, Saved, SaveLost
<1>3. CASE Fail
  BY <1>1, <1>2, <1>3, FailType
<1>4. CASE SaveLost /\ UNCHANGED prior /\ Release
  BY <1>2, <1>4, ReleaseType DEF TypeInv, TypeOK, SaveLost
<1>5. ASSUME NEW a \in Address, NEW rec,
             rec = [loc EXCEPT !.previous = a, !.phase = "submitting_dns"],
             Saved(rec), loc' = rec, Goto("cas"),
             UNCHANGED <<prior, job, req, todo, seen>>
      PROVE  TypeInv'
  <2>1. /\ rec \in Operation /\ InFlight(rec)
        /\ rec.previous = a /\ rec.desired = loc.desired
    BY <1>5 DEF TypeInv, TypeOK, Operation, Phase, InFlight, InFlightPhase
  <2>2. TypeOK'
    BY <1>2, <1>5, <2>1 DEF TypeInv, TypeOK, Saved, Goto, Pc
  <2>3. JobOK' /\ LocalsOK'
    BY <1>1, <1>5, <2>1 DEF JobOK, LocalsOK, Goto, Targeted, AfterRead, InFlight
  <2> QED BY <2>2, <2>3 DEF TypeInv
<1> QED BY <1>3, <1>4, <1>5 DEF ReadProvider

(* ReplaceExactA.                                                          *)
LEMMA ReplaceEndType ==
  ASSUME TypeInv, pc \in {"cas", "put", "prune", "final"},
         ReplaceDone \/ ReplaceFailed, RecordTypeOK', faults' \in Nat, envSame
  PROVE  TypeInv'
<1> USE DEF envSame, envVars
<1>1. pc \in Targeted /\ pc \in AfterRead /\ loc \in Operation /\ InFlight(loc)
  BY DEF TypeInv, TypeOK, LocalsOK, Targeted, AfterRead
<1>2. CASE ReplaceDone
  <2>1. TypeOK'
    BY <1>2 DEF TypeInv, TypeOK, ReplaceDone, Goto, Pc, dbVars
  <2>2. JobOK' /\ LocalsOK'
    BY <1>1, <1>2
    DEF TypeInv, TypeOK, JobOK, LocalsOK, ReplaceDone, Goto, Targeted, AfterRead, InFlight
  <2> QED BY <2>1, <2>2 DEF TypeInv
<1>3. CASE job = "switch" /\ ReplaceFailed
  <2>1. Goto("readback") /\ UNCHANGED <<dbVars, loc, job, req, todo, seen>>
    BY <1>3 DEF ReplaceFailed
  <2>2. TypeOK'
    BY <2>1 DEF TypeInv, TypeOK, Goto, Pc, dbVars
  <2>3. JobOK' /\ LocalsOK'
    BY <1>1, <1>3, <2>1
    DEF TypeInv, JobOK, LocalsOK, Goto, Targeted, AfterRead, InFlight
  <2> QED BY <2>2, <2>3 DEF TypeInv
<1>4. CASE job # "switch" /\ ReplaceFailed
  <2>1. "rollback_failed" \in Phase /\ "other" \in ErrorClass /\ loc.phase # "failed"
    BY <1>1 DEF Phase, ErrorClass, InFlight, InFlightPhase
  <2>2. CASE RollbackFailed
    BY <1>1, <2>1, <2>2, PhaseType, SettleType DEF RollbackFailed
  <2>3. CASE RecoveryFailed
    BY <1>1, <2>1, <2>3, PhaseType, SettleType DEF RecoveryFailed
  <2> QED BY <1>4, <2>2, <2>3 DEF ReplaceFailed
<1> QED BY <1>2, <1>3, <1>4

LEMMA FromToType ==
  ASSUME TypeInv, pc \in {"cas", "put", "prune", "final"}
  PROVE  From \in Address /\ To \in Address
BY AddressOf DEF TypeInv, TypeOK, JobOK, LocalsOK, Targeted, AfterRead, From, To

LEMMA ReplaceContinuesType ==
  ASSUME TypeInv, pc \in {"cas", "put", "prune"}, From # To,
         NEW p \in {"put", "prune", "final"}, ReplaceContinues(p),
         RecordTypeOK', faults' \in Nat, envSame
  PROVE  TypeInv'
<1>1. TypeOK'
  BY DEF TypeInv, TypeOK, ReplaceContinues, Goto, Pc, dbVars, envSame, envVars
<1>2. JobOK' /\ LocalsOK'
  BY DEF TypeInv, TypeOK, JobOK, LocalsOK, ReplaceContinues, Goto, Targeted, AfterRead,
         InFlight, From, To
<1> QED BY <1>1, <1>2 DEF TypeInv

LEMMA ReplaceType == TypeInv /\ Replace => TypeInv'
<1> SUFFICES ASSUME TypeInv, Replace PROVE TypeInv'
  OBVIOUS
<1>1. /\ pc \in {"cas", "put", "prune", "final"}
      /\ pc \in {"put", "prune", "final"} => From # To
      /\ envSame
  BY DEF Replace, ReplaceCompare, ReplacePut, ReplacePrune, ReplaceConfirm,
         TypeInv, LocalsOK
<1>2. From \in Address /\ To \in Address
  BY <1>1, FromToType
<1>3. faults' \in Nat
  BY FaultType
  DEF Replace, ReplaceCompare, ReplacePut, ReplacePrune, ReplaceConfirm, TypeInv, TypeOK
<1>4. RecordTypeOK'
  BY <1>2
  DEF Replace, ReplaceCompare, ReplacePut, ReplacePrune, ReplaceConfirm, PutA, DeleteA,
      TypeInv, TypeOK, RecordTypeOK
<1>5. CASE ReplaceDone \/ ReplaceFailed
  BY <1>1, <1>3, <1>4, <1>5, ReplaceEndType
<1>6. CASE ~(ReplaceDone \/ ReplaceFailed)
  <2>1. /\ pc \in {"cas", "put", "prune"} /\ From # To
        /\ \E p \in {"put", "prune", "final"} : ReplaceContinues(p)
    BY <1>1, <1>6 DEF Replace, ReplaceCompare, ReplacePut, ReplacePrune, ReplaceConfirm
  <2> QED BY <1>1, <1>3, <1>4, <2>1, ReplaceContinuesType
<1> QED BY <1>5, <1>6

(* The rest of switchToLocked, and rollback.                               *)
LEMMA MoveType ==
  ASSUME TypeInv, NEW p \in {"rollback", "rb_wait"}, pc \in AfterRead,
         Goto(p), UNCHANGED <<prior, loc, job, req, todo, seen>>,
         p = "rollback" => job = "switch", job # "recover",
         op' \in Operation, RecordTypeOK', faults' \in Nat, envSame
  PROVE  TypeInv'
<1>1. TypeOK'
  BY DEF TypeInv, TypeOK, Goto, Pc, envSame, envVars
<1>2. JobOK' /\ LocalsOK'
  BY DEF TypeInv, JobOK, LocalsOK, Goto, Targeted, AfterRead, InFlight
<1> QED BY <1>1, <1>2 DEF TypeInv

(* Saving the phase of the next step and moving on to it.                  *)
LEMMA AdvanceType ==
  ASSUME TypeInv, pc \in AfterRead, NEW rec \in Operation, InFlight(rec),
         rec.desired = loc.desired, rec.previous = loc.previous,
         rec.source = loc.source, op' \in Operation,
         NEW p \in {"wait", "verify", "rb_read", "rc_wait"}, Goto(p),
         IF p = "rc_wait" THEN job = "recover" ELSE job = "switch",
         loc' = rec, UNCHANGED <<prior, job, req, todo, seen>>,
         RecordTypeOK', faults' \in Nat, envSame
  PROVE  TypeInv'
<1>1. TypeOK'
  BY DEF TypeInv, TypeOK, Goto, Pc, envSame, envVars
<1>2. JobOK' /\ LocalsOK'
  BY DEF TypeInv, JobOK, LocalsOK, Goto, Targeted, AfterRead, InFlight
<1> QED BY <1>1, <1>2 DEF TypeInv

LEMMA NewPhase ==
  ASSUME NEW o \in Operation, NEW p \in InFlightPhase, NEW e \in ErrorClass
  PROVE  /\ [o EXCEPT !.phase = p] \in Operation
         /\ [o EXCEPT !.phase = p, !.error = e] \in Operation
         /\ InFlight([o EXCEPT !.phase = p])
         /\ InFlight([o EXCEPT !.phase = p, !.error = e])
BY DEF Operation, Phase, InFlight

LEMMA VerifiedType ==
  ASSUME TypeInv, NEW m \in Mode, req.node \in Node, Verified(m),
         RecordTypeOK', faults' \in Nat, envSame
  PROVE  TypeInv'
<1> DEFINE rec == [loc EXCEPT !.phase = "verified", !.mode = m, !.active = req.node,
                              !.error = "none", !.cooling = TRUE]
<1>1. rec \in Operation /\ rec.phase = "verified"
  BY DEF TypeInv, TypeOK, Operation, Phase, ErrorClass
<1>2. Settle(rec)
  BY DEF Verified
<1> HIDE DEF rec
<1> QED BY <1>1, <1>2, SettleType

LEMMA SubmittedType == TypeInv /\ Submitted => TypeInv'
<1> SUFFICES ASSUME TypeInv, Submitted PROVE TypeInv'
  OBVIOUS
<1> DEFINE rec == [loc EXCEPT !.phase = "waiting_recursive"]
<1>1. /\ pc = "submitted" /\ pc \in AfterRead /\ job \in {"switch", "recover"}
      /\ loc \in Operation /\ InFlight(loc) /\ op \in Operation
      /\ rec \in Operation /\ InFlight(rec)
      /\ rec.desired = loc.desired /\ rec.previous = loc.previous
      /\ rec.source = loc.source
  BY DEF Submitted, TypeInv, TypeOK, JobOK, LocalsOK, Targeted, AfterRead,
         Operation, Phase, InFlight, InFlightPhase
<1>2. faults' \in Nat /\ RecordTypeOK' /\ envSame
  BY FaultType DEF Submitted, TypeInv, TypeOK, RecordTypeOK, Saved, SaveLost
<1>3. CASE job = "switch" /\ Saved(rec)
  <2>1. loc' = rec /\ Goto("wait") /\ UNCHANGED <<prior, job, req, todo, seen>>
    BY <1>3 DEF Submitted, Saved, SaveLost, Fault, TypeInv, TypeOK
  <2> HIDE DEF rec
  <2> QED BY <1>1, <1>2, <1>3, <2>1, AdvanceType DEF Saved
<1>4. CASE job = "switch" /\ SaveLost /\ BeginRollback
  BY <1>1, <1>2, <1>4, MoveType DEF SaveLost, BeginRollback
<1>5. CASE job = "recover" /\ Saved(loc) /\ Goto("rc_wait")
           /\ UNCHANGED <<prior, loc, job, req, todo, seen>>
  BY <1>1, <1>2, <1>5, AdvanceType DEF Saved
<1>6. CASE SaveLost /\ UNCHANGED prior /\ Release
  BY <1>1, <1>2, <1>6, ReleaseType DEF TypeInv, TypeOK, SaveLost, envSame, envVars
<1> QED BY <1>1, <1>3, <1>4, <1>5, <1>6 DEF Submitted

LEMMA WaitRecursiveType == TypeInv /\ WaitRecursive => TypeInv'
<1> SUFFICES ASSUME TypeInv, WaitRecursive PROVE TypeInv'
  OBVIOUS
<1> DEFINE rec == [loc EXCEPT !.phase = "verifying_request"]
<1>1. /\ pc = "wait" /\ pc \in AfterRead /\ job = "switch"
      /\ loc \in Operation /\ InFlight(loc) /\ op \in Operation
      /\ rec \in Operation /\ InFlight(rec)
      /\ rec.desired = loc.desired /\ rec.previous = loc.previous
      /\ rec.source = loc.source
  BY DEF WaitRecursive, TypeInv, TypeOK, JobOK, LocalsOK, Targeted, AfterRead,
         Operation, Phase, InFlight, InFlightPhase
<1>2. faults' \in Nat /\ RecordTypeOK' /\ envSame
  BY FaultType DEF WaitRecursive, TypeInv, TypeOK, RecordTypeOK, Saved, SaveLost
<1>3. CASE Saved(rec) /\ loc' = rec /\ Goto("verify")
           /\ UNCHANGED <<prior, job, req, todo, seen>>
  <2> HIDE DEF rec
  <2> QED BY <1>1, <1>2, <1>3, AdvanceType DEF Saved
<1>4. CASE BeginRollback /\ UNCHANGED op
  BY <1>1, <1>2, <1>4, MoveType DEF BeginRollback
<1> QED BY <1>3, <1>4 DEF WaitRecursive, SaveLost

LEMMA ReadbackType == TypeInv /\ Readback => TypeInv'
<1> SUFFICES ASSUME TypeInv, Readback PROVE TypeInv'
  OBVIOUS
<1>1. /\ pc = "readback" /\ pc \in AfterRead /\ job = "switch"
      /\ loc \in Operation /\ op \in Operation
  BY DEF Readback, TypeInv, TypeOK, JobOK, AfterRead
<1>2. faults' \in Nat /\ RecordTypeOK' /\ envSame
  BY FaultType DEF Readback, TypeInv, TypeOK, RecordTypeOK
<1>3. CASE BeginRollback /\ UNCHANGED op
  BY <1>1, <1>2, <1>3, MoveType DEF BeginRollback
<1>4. CASE Fail
  BY <1>1, <1>2, <1>4, FailType
<1>5. CASE RecoveryRequired
  BY <1>1, <1>2, <1>5, PhaseType, SettleType DEF RecoveryRequired, Phase, InFlightPhase, ErrorClass
<1> QED BY <1>3, <1>4, <1>5 DEF Readback

LEMMA VerifyRequestType == TypeInv /\ VerifyRequest => TypeInv'
<1> SUFFICES ASSUME TypeInv, VerifyRequest PROVE TypeInv'
  OBVIOUS
<1>1. /\ pc = "verify" /\ pc \in AfterRead /\ job = "switch"
      /\ op \in Operation /\ req.node \in Node /\ req.mode \in Mode
  BY DEF VerifyRequest, TypeInv, TypeOK, JobOK, LocalsOK, Targeted, AfterRead, Request
<1>2. faults' \in Nat /\ RecordTypeOK' /\ envSame
  BY FaultType DEF VerifyRequest, TypeInv, TypeOK, RecordTypeOK
<1>3. CASE BeginRollback /\ UNCHANGED op
  BY <1>1, <1>2, <1>3, MoveType DEF BeginRollback
<1>4. CASE Verified(req.mode)
  BY <1>1, <1>2, <1>4, VerifiedType
<1> QED BY <1>3, <1>4 DEF VerifyRequest

LEMMA RollbackType == TypeInv /\ Rollback => TypeInv'
<1> SUFFICES ASSUME TypeInv, Rollback PROVE TypeInv'
  OBVIOUS
<1> DEFINE pending == [loc EXCEPT !.phase = "failover_pending", !.error = "other"]
           rolling == [loc EXCEPT !.phase = "rolling_back", !.error = "other"]
<1>1. /\ pc = "rollback" /\ pc \in AfterRead /\ job = "switch"
      /\ loc \in Operation /\ op \in Operation
  BY DEF Rollback, TypeInv, TypeOK, JobOK, AfterRead
<1>2. faults' \in Nat /\ RecordTypeOK' /\ envSame
  BY FaultType DEF Rollback, TypeInv, TypeOK, RecordTypeOK, Saved, SaveLost
<1>3. CASE Settle(pending)
  BY <1>1, <1>2, <1>3, PhaseType, SettleType DEF Phase, InFlightPhase, ErrorClass
<1>4. CASE (Saved(rolling) \/ SaveLost) /\ loc' = rolling /\ Goto("rb_read")
           /\ UNCHANGED <<prior, job, req, todo, seen>>
  <2>1. /\ rolling \in Operation /\ InFlight(rolling)
        /\ rolling.desired = loc.desired /\ rolling.previous = loc.previous
        /\ rolling.source = loc.source
    BY <1>1 DEF Operation, Phase, InFlight, InFlightPhase, ErrorClass
  <2> HIDE DEF rolling
  <2> QED BY <1>1, <1>2, <1>4, <2>1, AdvanceType DEF Saved, SaveLost
<1> QED BY <1>3, <1>4 DEF Rollback

LEMMA RollbackReadType == TypeInv /\ RollbackRead => TypeInv'
<1> SUFFICES ASSUME TypeInv, RollbackRead PROVE TypeInv'
  OBVIOUS
<1>1. /\ pc = "rb_read" /\ pc \in AfterRead /\ job = "switch"
      /\ loc \in Operation /\ op \in Operation
  BY DEF RollbackRead, TypeInv, TypeOK, JobOK, AfterRead
<1>2. faults' \in Nat /\ RecordTypeOK' /\ envSame
  BY FaultType DEF RollbackRead, TypeInv, TypeOK, RecordTypeOK
<1>3. CASE /\ job' = "rollback" /\ Goto("cas")
           /\ UNCHANGED <<dbVars, loc, req, todo, seen, faults>>
  <2>1. TypeOK'
    BY <1>2, <1>3 DEF TypeInv, TypeOK, Goto, Pc, dbVars, envSame, envVars
  <2>2. JobOK' /\ LocalsOK'
    BY <1>1, <1>3
    DEF TypeInv, JobOK, LocalsOK, Goto, Targeted, AfterRead, InFlight
  <2> QED BY <2>1, <2>2 DEF TypeInv
<1>4. CASE Goto("rb_wait") /\ UNCHANGED <<dbVars, loc, job, req, todo, seen>>
  BY <1>1, <1>2, <1>4, MoveType DEF dbVars
<1>5. CASE RollbackFailed
  BY <1>1, <1>2, <1>5, PhaseType, SettleType
  DEF RollbackFailed, Phase, InFlightPhase, ErrorClass
<1> QED BY <1>3, <1>4, <1>5 DEF RollbackRead

LEMMA RollbackVerifyType == TypeInv /\ RollbackVerify => TypeInv'
<1> SUFFICES ASSUME TypeInv, RollbackVerify PROVE TypeInv'
  OBVIOUS
<1>1. loc \in Operation /\ "rolled_back" \in Phase /\ "rollback_failed" \in Phase
      /\ "other" \in ErrorClass
  BY DEF TypeInv, TypeOK, Phase, InFlightPhase, ErrorClass
<1>2. faults' \in Nat /\ RecordTypeOK' /\ envSame
  BY FaultType DEF RollbackVerify, TypeInv, TypeOK, RecordTypeOK
<1>3. CASE Settle([loc EXCEPT !.phase = "rolled_back"])
  BY <1>1, <1>2, <1>3, PhaseType, SettleType
<1>4. CASE RollbackFailed
  BY <1>1, <1>2, <1>4, PhaseType, SettleType DEF RollbackFailed
<1> QED BY <1>3, <1>4 DEF RollbackVerify

LEMMA SettleStepType == TypeInv /\ SettleStep => TypeInv'
<1> SUFFICES ASSUME TypeInv, SettleStep PROVE TypeInv'
  OBVIOUS
<1>1. /\ op' \in Operation /\ prior' \in Operation /\ faults' \in Nat
      /\ UNCHANGED dns /\ envSame
  BY FaultType DEF SettleStep, TypeInv, TypeOK, Saved, SaveLost
<1>2. CASE Release
  BY <1>1, <1>2, ReleaseType DEF TypeInv, TypeOK, RecordTypeOK, envSame, envVars
<1>3. CASE ~Release
  <2>1. /\ loc.phase = "failed" /\ Goto("retry") /\ loc' = NoOperation
        /\ req' = [req EXCEPT !.node = NoNode] /\ UNCHANGED <<job, todo, seen>>
    BY <1>3 DEF SettleStep
  <2>2. TypeOK'
    BY <1>1, <2>1, NoOperationType
    DEF TypeInv, TypeOK, Goto, Pc, Request, RecordTypeOK, envSame, envVars
  <2>3. JobOK' /\ LocalsOK'
    BY <2>1 DEF SettleStep, TypeInv, TypeOK, JobOK, LocalsOK, Goto, Targeted, AfterRead
  <2> QED BY <2>2, <2>3 DEF TypeInv
<1> QED BY <1>2, <1>3

(* reconcile and the recovery of an interrupted failover.                  *)
LEMMA StartSwitchType ==
  ASSUME TypeInv, pc \in {"idle", "next"}, NEW r \in Request, r.node \in Node,
         NEW rest \in SUBSET Node, StartSwitch(r, rest)
  PROVE  TypeInv'
BY OpenOperationType DEF StartSwitch

LEMMA EvaluationType ==
  ASSUME TypeInv,
         RestoreVerified \/ RetryEnds \/ UpgradeLegacyPin \/ Evaluate
           \/ NextCandidate \/ NoCandidate
  PROVE  TypeInv'
<1> USE DEF envSame, envVars
<1>1. CASE RestoreVerified
  <2>1. TypeOK'
    BY <1>1, NoOperationType
    DEF RestoreVerified, TypeInv, TypeOK, RecordTypeOK, Saved, Goto, Pc
  <2>2. JobOK' /\ LocalsOK'
    BY <1>1 DEF RestoreVerified, TypeInv, TypeOK, JobOK, LocalsOK, Goto, Targeted, AfterRead
  <2> QED BY <2>1, <2>2 DEF TypeInv
<1>2. CASE RetryEnds
  BY <1>2, ReleaseType, FaultType DEF RetryEnds, TypeInv, TypeOK, RecordTypeOK, dbVars
<1>3. CASE UpgradeLegacyPin
  <2>1. [op EXCEPT !.mode = "preferred"] \in Operation
    BY DEF TypeInv, TypeOK, Operation, Mode
  <2>2. CASE SaveLost /\ Release
    BY <1>3, <2>2, ReleaseType, FaultType
    DEF UpgradeLegacyPin, SaveLost, TypeInv, TypeOK, RecordTypeOK
  <2>3. CASE Saved([op EXCEPT !.mode = "preferred"]) /\ Goto("evaluate")
               /\ UNCHANGED <<loc, job, req, todo, seen>>
    <3>1. TypeOK'
      BY <1>3, <2>1, <2>3
      DEF UpgradeLegacyPin, TypeInv, TypeOK, RecordTypeOK, Saved, Goto, Pc
    <3>2. JobOK' /\ LocalsOK'
      BY <1>3, <2>3
      DEF UpgradeLegacyPin, TypeInv, TypeOK, JobOK, LocalsOK, Goto, Targeted, AfterRead
    <3> QED BY <3>1, <3>2 DEF TypeInv
  <2> QED BY <1>3, <2>2, <2>3 DEF UpgradeLegacyPin
<1>4. CASE Evaluate
  <2>1. CASE Release
    BY <1>4, <2>1, ReleaseType DEF Evaluate, TypeInv, TypeOK, RecordTypeOK, dbVars
  <2>2. CASE ~Release
    <3>1. TypeOK'
      BY <1>4, <2>2, NoRequestType
      DEF Evaluate, TypeInv, TypeOK, RecordTypeOK, dbVars, Goto, Pc, Candidates, Request,
          Trigger, Automatic, Mode
    <3>2. JobOK' /\ LocalsOK'
      BY <1>4, <2>2
      DEF Evaluate, TypeInv, TypeOK, JobOK, LocalsOK, Goto, Targeted, AfterRead
    <3> QED BY <3>1, <3>2 DEF TypeInv
  <2> QED BY <2>1, <2>2
<1>5. CASE NextCandidate
  <2>1. PICK n \in First(todo) : StartSwitch([req EXCEPT !.node = n], todo \ {n})
    BY <1>5 DEF NextCandidate
  <2>2. /\ n \in Node /\ pc \in {"idle", "next"} /\ todo \ {n} \in SUBSET Node
        /\ [req EXCEPT !.node = n] \in Request
        /\ [req EXCEPT !.node = n].node \in Node
    BY <1>5, <2>1 DEF NextCandidate, First, TypeInv, TypeOK, Request
  <2> QED BY <2>1, <2>2, StartSwitchType
<1>6. CASE NoCandidate
  BY <1>6, ReleaseType DEF NoCandidate, TypeInv, TypeOK, RecordTypeOK, dbVars
<1> QED BY <1>1, <1>2, <1>3, <1>4, <1>5, <1>6

LEMMA ResumeType ==
  ASSUME TypeInv, pc = "rc_next", NEW n \in Node, Resume(n), UNCHANGED dns, envSame
  PROVE  TypeInv'
<1> USE DEF envSame, envVars
<1> DEFINE rec == [loc EXCEPT !.phase = "failover_pending", !.error = "none",
                              !.source = seen, !.desired = AddrOf[n]]
<1>1. seen \in Address /\ loc.previous \in Address /\ AddrOf[n] \in Address
  BY AddressOf DEF TypeInv, LocalsOK
<1>2. /\ rec \in Operation /\ InFlight(rec) /\ rec.previous = loc.previous
      /\ rec.desired = AddrOf[n] /\ rec.source = seen
  BY <1>1 DEF TypeInv, TypeOK, Operation, Phase, ErrorClass, InFlight, InFlightPhase
<1>3. CASE SaveLost /\ UNCHANGED prior /\ Release
  BY <1>3, ReleaseType, FaultType DEF SaveLost, TypeInv, TypeOK, RecordTypeOK
<1>4. CASE ~(SaveLost /\ UNCHANGED prior /\ Release)
  <2>1. /\ Saved(rec) /\ loc' = rec /\ req' = [req EXCEPT !.node = n]
        /\ job' = "recover" /\ UNCHANGED <<prior, todo, seen>>
        /\ pc' \in {"submitted", "cas"}
    BY <1>4 DEF Resume, Goto
  <2> HIDE DEF rec
  <2>2. req' \in Request /\ req'.node = n
    BY <2>1 DEF TypeInv, TypeOK, Request
  <2>3. TypeOK'
    BY <1>2, <2>1, <2>2 DEF TypeInv, TypeOK, RecordTypeOK, Saved, Pc
  <2>4. JobOK' /\ LocalsOK'
    BY <1>1, <1>2, <2>1, <2>2 DEF JobOK, LocalsOK, Targeted, AfterRead, InFlight
  <2> QED BY <2>3, <2>4 DEF TypeInv
<1> QED BY <1>3, <1>4

LEMMA RecoveryType ==
  ASSUME TypeInv, RecoverStart \/ RecoverNext \/ RecoverVerify
  PROVE  TypeInv'
<1> USE DEF envSame, envVars
<1>1. CASE RecoverStart
  <2>1. seen' \in Address /\ op.previous \in Address
    BY <1>1 DEF RecoverStart, Resumable, TypeInv, TypeOK, Operation
  <2>2. TypeOK'
    BY <1>1, <2>1, NoRequestType
    DEF RecoverStart, Resumable, TypeInv, TypeOK, RecordTypeOK, dbVars, Goto, Pc,
        Candidates, Request, Trigger, Automatic, Mode
  <2>3. JobOK' /\ LocalsOK'
    BY <1>1, <2>1
    DEF RecoverStart, Resumable, TypeInv, TypeOK, JobOK, LocalsOK, Goto, Targeted,
        AfterRead, InFlight
  <2> QED BY <2>2, <2>3 DEF TypeInv
<1>2. CASE RecoverNext
  <2>1. pc = "rc_next" /\ job = "switch" /\ loc \in Operation
        /\ UNCHANGED dns /\ envSame
    BY <1>2 DEF RecoverNext, TypeInv, TypeOK, JobOK
  <2>2. CASE /\ Settle([loc EXCEPT !.phase = "failover_pending", !.error = "other"])
             /\ UNCHANGED faults
    BY <2>1, <2>2, PhaseType, SettleType
    DEF TypeInv, TypeOK, RecordTypeOK, Phase, InFlightPhase, ErrorClass
  <2>3. CASE \E n \in First(todo) : Answers(n) /\ Resume(n)
    BY <2>1, <2>3, ResumeType DEF First, TypeInv, TypeOK
  <2>4. ASSUME NEW n \in First(todo),
               (~Answers(n) /\ UNCHANGED faults) \/ Fault("network"),
               todo' = todo \ {n}, UNCHANGED <<dbVars, loc, pc, job, req, seen>>
        PROVE  TypeInv'
    <3>1. TypeOK'
      BY <2>1, <2>4, FaultType DEF TypeInv, TypeOK, RecordTypeOK, dbVars
    <3>2. JobOK' /\ LocalsOK'
      BY <2>1, <2>4 DEF TypeInv, JobOK, LocalsOK, Targeted, AfterRead, InFlight
    <3> QED BY <3>1, <3>2 DEF TypeInv
  <2> QED BY <1>2, <2>2, <2>3, <2>4 DEF RecoverNext
<1>3. CASE RecoverVerify
  <2>1. /\ pc = "rc_wait" /\ pc \in AfterRead /\ req.node \in Node
        /\ loc \in Operation /\ loc.phase # "failed" /\ "other" \in ErrorClass
        /\ "preferred" \in Mode /\ "verified" \in Phase
    BY <1>3
    DEF RecoverVerify, TypeInv, TypeOK, LocalsOK, Targeted, AfterRead, InFlight,
        InFlightPhase, ErrorClass, Mode, Phase
  <2>2. faults' \in Nat /\ RecordTypeOK' /\ envSame
    BY <1>3, FaultType DEF RecoverVerify, TypeInv, TypeOK, RecordTypeOK
  <2>3. CASE Verified("preferred")
    BY <2>1, <2>2, <2>3, VerifiedType
  <2>4. CASE RecoveryFailed
    BY <2>1, <2>2, <2>4, PhaseType, SettleType DEF RecoveryFailed
  <2> QED BY <1>3, <2>3, <2>4 DEF RecoverVerify
<1> QED BY <1>1, <1>2, <1>3

(* The administrator and the environment.                                  *)
LEMMA AdminType ==
  ASSUME TypeInv, AdminSwitch \/ ConfirmPrevious
  PROVE  TypeInv'
<1> USE DEF envSame, envVars
<1>1. CASE AdminSwitch
  BY <1>1, StartSwitchType DEF AdminSwitch, Request, Trigger, Mode
<1>2. CASE ConfirmPrevious
  <2>1. [op EXCEPT !.phase = "rolled_back", !.error = "none"] \in Operation
    BY PhaseType DEF TypeInv, TypeOK, Phase, ErrorClass
  <2>2. TypeOK'
    BY <1>2, <2>1 DEF ConfirmPrevious, TypeInv, TypeOK, RecordTypeOK, Saved, swVars
  <2>3. JobOK' /\ LocalsOK'
    BY <1>2 DEF ConfirmPrevious, TypeInv, JobOK, LocalsOK, swVars, InFlight, From, To
  <2> QED BY <2>2, <2>3 DEF TypeInv
<1> QED BY <1>1, <1>2

LEMMA EnvironmentType == TypeInv /\ Environment => TypeInv'
<1> SUFFICES ASSUME TypeInv, Environment PROVE TypeInv'
  OBVIOUS
<1> USE DEF envSame, envVars
<1>1. CASE Crash
  BY <1>1, ReleaseType, FaultType DEF Crash, TypeInv, TypeOK, RecordTypeOK, dbVars
<1>2. CASE ~Crash
  <2>1. [op EXCEPT !.cooling = FALSE] \in Operation /\ [prior EXCEPT !.cooling = FALSE] \in Operation
    BY DEF TypeInv, TypeOK, Operation
  <2>2. TypeOK'
    BY <1>2, <2>1, FaultType
    DEF Environment, HealthChanges, NodeGoesUpOrDown, ForeignWrite, Propagate,
        CooldownExpires, TypeInv, TypeOK, RecordTypeOK, swVars, dbVars
  <2>3. UNCHANGED swVars
    BY <1>2
    DEF Environment, HealthChanges, NodeGoesUpOrDown, ForeignWrite, Propagate, CooldownExpires
  <2>4. JobOK' /\ LocalsOK'
    BY <2>3 DEF TypeInv, JobOK, LocalsOK, swVars, InFlight, From, To
  <2> QED BY <2>2, <2>4 DEF TypeInv
<1> QED BY <1>1, <1>2

LEMMA StepType == TypeInv /\ [Next]_vars => TypeInv'
<1> SUFFICES ASSUME TypeInv, [Next]_vars PROVE TypeInv'
  OBVIOUS
<1>1. CASE Reconcile
  BY <1>1, EvaluationType, RecoveryType DEF Reconcile
<1>2. CASE Replace
  BY <1>2, ReplaceType
<1>3. CASE Switch
  BY <1>3, PreflightType, ReadProviderType, ReadbackType, SubmittedType,
     WaitRecursiveType, VerifyRequestType, RollbackType, RollbackReadType,
     RollbackVerifyType, SettleStepType DEF Switch
<1>4. CASE Admin
  BY <1>4, AdminType DEF Admin
<1>5. CASE Environment
  BY <1>5, EnvironmentType
<1>6. CASE UNCHANGED vars
  BY <1>6
  DEF vars, swVars, dbVars, envVars, TypeInv, TypeOK, RecordTypeOK, JobOK, LocalsOK,
      InFlight, From, To
<1> QED BY <1>1, <1>2, <1>3, <1>4, <1>5, <1>6 DEF Next

(* Every variable of the switcher keeps its type in every reachable state: *)
(* in particular the provider is never asked to write the empty address    *)
(* and the database never holds a phase, mode or trigger of another kind.  *)
THEOREM TypeCorrect == Spec => []TypeOK
<1>1. Spec => []TypeInv
  BY InitType, StepType, PTL DEF Spec
<1> QED BY <1>1, PTL DEF TypeInv

------------------------------------------------------------------------------
(* The database follows the goroutine. *)

LEMMA SettleStore ==
  ASSUME NEW rec, Settle(rec), InFlight(op), op.previous = rec.previous,
         InFlight(rec) =>
           /\ rec.previous # NoAddr /\ op.active = rec.active
           /\ op.desired = rec.desired /\ op.source = rec.source
  PROVE  StoreFollows'
BY DEF Settle, Goto, StoreFollows, Targeted, AfterRead, InFlight

LEMMA ReleaseStore == Release => StoreFollows'
BY DEF Release, Goto, StoreFollows, Targeted, AfterRead

LEMMA AdvanceStore ==
  ASSUME pc' \in AfterRead \cup {"rc_next"}, InFlight(op'),
         op'.active = loc'.active, op'.previous = loc'.previous,
         op'.desired = loc'.desired, op'.source = loc'.source
  PROVE  StoreFollows'
BY DEF StoreFollows, Targeted, AfterRead, InFlight

LEMMA WorkingStore ==
  ASSUME TypeInv, StoreFollows, pc \in AfterRead \cup {"rc_next"}
  PROVE  /\ loc \in Operation /\ InFlight(op) /\ InFlight(loc)
         /\ op.active = loc.active /\ op.previous = loc.previous
         /\ op.desired = loc.desired /\ op.source = loc.source
         /\ loc.previous # NoAddr
BY NoAddrAssumption
DEF TypeInv, TypeOK, LocalsOK, StoreFollows, Targeted, AfterRead, InFlight

LEMMA SettledPhases ==
  /\ \A p \in {"failed", "verified", "rolled_back"} : p \notin InFlightPhase
  /\ \A p \in {"rollback_failed", "recovery_required", "failover_pending",
               "rolling_back", "waiting_recursive", "verifying_request"} :
       p \in InFlightPhase
BY DEF InFlightPhase

(* An operation past its first read ends: the database already has the     *)
(* addresses and the owner it ends with.                                   *)
LEMMA EndingStore ==
  ASSUME TypeInv, StoreFollows, pc \in AfterRead \cup {"rc_next"},
         Fail \/ RollbackFailed \/ RecoveryFailed \/ RecoveryRequired
           \/ Settle([loc EXCEPT !.phase = "rolled_back"])
           \/ Settle([loc EXCEPT !.phase = "failover_pending", !.error = "other"])
           \/ \E m \in Mode : Verified(m)
  PROVE  StoreFollows'
<1>1. /\ loc \in Operation /\ InFlight(op)
      /\ op.active = loc.active /\ op.previous = loc.previous
      /\ op.desired = loc.desired /\ op.source = loc.source
      /\ loc.previous # NoAddr
  BY WorkingStore
<1>2. ASSUME NEW p, NEW e,
             \/ Settle([loc EXCEPT !.phase = p])
             \/ Settle([loc EXCEPT !.phase = p, !.error = e])
             \/ Settle([loc EXCEPT !.error = e])
      PROVE  StoreFollows'
  <2> DEFINE x == [loc EXCEPT !.phase = p]
             y == [loc EXCEPT !.phase = p, !.error = e]
             z == [loc EXCEPT !.error = e]
  <2>1. \A r \in {x, y, z} : /\ r.active = loc.active /\ r.previous = loc.previous
                             /\ r.desired = loc.desired /\ r.source = loc.source
    BY <1>1 DEF Operation
  <2>2. Settle(x) \/ Settle(y) \/ Settle(z)
    BY <1>2
  <2> HIDE DEF x, y, z
  <2> QED BY <1>1, <2>1, <2>2, SettleStore
<1>3. ASSUME NEW m \in Mode, Verified(m)
      PROVE  StoreFollows'
  <2> DEFINE rec == [loc EXCEPT !.phase = "verified", !.mode = m, !.active = req.node,
                                !.error = "none", !.cooling = TRUE]
  <2>1. rec.previous = loc.previous /\ rec.phase = "verified"
    BY <1>1 DEF Operation
  <2>2. Settle(rec)
    BY <1>3 DEF Verified
  <2> HIDE DEF rec
  <2> QED BY <1>1, <2>1, <2>2, SettledPhases, SettleStore DEF InFlight
<1> QED BY <1>2, <1>3 DEF Fail, RollbackFailed, RecoveryFailed, RecoveryRequired

LEMMA OpenOperationStore ==
  ASSUME TypeInv, NEW r, NEW rest, OpenOperation(r, rest)
  PROVE  StoreFollows'
<1> DEFINE rec == [NoOperation EXCEPT !.phase = "preparing", !.trigger = r.trigger,
                                      !.mode = op.mode, !.active = op.active]
<1>1. InFlight(rec) /\ rec.previous = NoAddr
  BY DEF NoOperation, InFlight, InFlightPhase
<1>2. CASE Release
  BY <1>2, ReleaseStore
<1>3. CASE ~Release
  <2>1. op' = rec /\ loc' = rec /\ pc' = "preflight"
    BY <1>3 DEF OpenOperation, Saved, Goto
  <2> HIDE DEF rec
  <2> QED BY <1>1, <2>1 DEF StoreFollows, Targeted, AfterRead, InFlight
<1> QED BY <1>2, <1>3

LEMMA SwitchStore ==
  ASSUME TypeInv, StoreFollows, Switch
  PROVE  StoreFollows'
<1>1. CASE Preflight
  <2> DEFINE target == [loc EXCEPT !.desired = AddrOf[req.node]]
             refused(rec) == [rec EXCEPT !.phase = "failed", !.error = "pre_dns"]
  <2>1. /\ pc = "preflight" /\ loc \in Operation /\ InFlight(op) /\ InFlight(loc)
        /\ op.active = loc.active /\ op.previous = loc.previous
        /\ loc.previous = NoAddr
    BY <1>1
    DEF Preflight, TypeInv, TypeOK, LocalsOK, StoreFollows, Targeted, AfterRead
  <2>2. /\ target.active = loc.active /\ target.previous = loc.previous
        /\ refused(target).previous = loc.previous /\ refused(target).phase = "failed"
        /\ refused(loc).previous = loc.previous /\ refused(loc).phase = "failed"
    BY <2>1 DEF Operation
  <2>3. CASE Settle(refused(loc)) \/ Settle(refused(target))
    <3> HIDE DEF target, refused
    <3> QED BY <2>1, <2>2, <2>3, SettledPhases, SettleStore DEF InFlight
  <2>4. CASE loc' = target /\ Goto("read") /\ UNCHANGED <<dbVars, job, req, todo, seen, faults>>
    <3> HIDE DEF target, refused
    <3> QED BY <2>1, <2>2, <2>4
        DEF StoreFollows, Goto, dbVars, Targeted, AfterRead, InFlight
  <2> QED BY <1>1, <2>3, <2>4 DEF Preflight
<1>2. CASE ReadProvider
  <2>1. /\ pc = "read" /\ loc \in Operation /\ InFlight(op) /\ InFlight(loc)
        /\ op.active = loc.active /\ op.previous = loc.previous
        /\ loc.previous = NoAddr
    BY <1>2
    DEF ReadProvider, TypeInv, TypeOK, LocalsOK, StoreFollows, Targeted, AfterRead
  <2>2. CASE Fail
    <3> DEFINE rec == [loc EXCEPT !.phase = "failed", !.error = "other"]
    <3>1. rec.previous = loc.previous /\ rec.phase = "failed" /\ Settle(rec)
      BY <2>1, <2>2 DEF Operation, Fail
    <3> HIDE DEF rec
    <3> QED BY <2>1, <3>1, SettledPhases, SettleStore DEF InFlight
  <2>3. CASE SaveLost /\ UNCHANGED prior /\ Release
    BY <2>3, ReleaseStore
  <2>4. ASSUME NEW a \in Address, NEW rec,
               rec = [loc EXCEPT !.previous = a, !.phase = "submitting_dns"],
               Saved(rec), loc' = rec, Goto("cas")
        PROVE  StoreFollows'
    <3>1. InFlight(rec)
      BY <2>1, <2>4 DEF Operation, InFlight, InFlightPhase
    <3> QED BY <2>4, <3>1, AdvanceStore DEF Saved, Goto, AfterRead
  <2> QED BY <1>2, <2>2, <2>3, <2>4 DEF ReadProvider
<1>3. CASE SettleStep
  <2>1. pc' \in {"retry", "idle"}
    BY <1>3 DEF SettleStep, Release, Goto
  <2> QED BY <2>1 DEF StoreFollows, Targeted, AfterRead
<1>4. CASE Submitted \/ WaitRecursive \/ VerifyRequest \/ Readback
             \/ Rollback \/ RollbackRead \/ RollbackVerify
  <2>1. pc \in AfterRead
    BY <1>4 DEF Submitted, WaitRecursive, VerifyRequest, Readback, Rollback,
                RollbackRead, RollbackVerify, AfterRead
  <2>2. /\ loc \in Operation /\ InFlight(op) /\ InFlight(loc)
        /\ op.active = loc.active /\ op.previous = loc.previous
        /\ op.desired = loc.desired /\ op.source = loc.source
    BY <2>1, WorkingStore
  <2>3. CASE Fail \/ RollbackFailed \/ RecoveryRequired
               \/ Settle([loc EXCEPT !.phase = "rolled_back"])
               \/ Settle([loc EXCEPT !.phase = "failover_pending", !.error = "other"])
               \/ \E m \in Mode : Verified(m)
    BY <2>1, <2>3, EndingStore
  <2>4. CASE op' \in {op, loc} /\ UNCHANGED loc /\ pc' \in AfterRead
    BY <2>2, <2>4, AdvanceStore DEF InFlight
  <2>5. ASSUME NEW p \in {"waiting_recursive", "verifying_request"},
               NEW rec, rec = [loc EXCEPT !.phase = p],
               op' = rec, loc' = rec, pc' \in AfterRead
        PROVE  StoreFollows'
    BY <2>2, <2>5, SettledPhases, AdvanceStore DEF Operation, InFlight
  <2>6. ASSUME NEW rec, rec = [loc EXCEPT !.phase = "rolling_back", !.error = "other"],
               op' \in {op, rec}, loc' = rec, pc' \in AfterRead
        PROVE  StoreFollows'
    <3>1. /\ rec.active = loc.active /\ rec.previous = loc.previous
          /\ rec.desired = loc.desired /\ rec.source = loc.source
          /\ rec.phase = "rolling_back"
      BY <2>2, <2>6 DEF Operation
    <3> QED BY <2>2, <2>6, <3>1, SettledPhases, AdvanceStore DEF InFlight
  <2>7. CASE Release
    BY <2>7, ReleaseStore
  <2>8. CASE Submitted
    BY <2>4, <2>5, <2>7, <2>8
    DEF Submitted, Saved, SaveLost, BeginRollback, Goto, AfterRead
  <2>9. CASE WaitRecursive
    BY <2>4, <2>5, <2>9
    DEF WaitRecursive, Saved, SaveLost, BeginRollback, Goto, AfterRead
  <2>10. CASE VerifyRequest \/ Readback
    BY <2>3, <2>4, <2>10
    DEF VerifyRequest, Readback, BeginRollback, Goto, AfterRead, TypeInv, TypeOK, Request
  <2>11. CASE Rollback
    BY <2>3, <2>6, <2>11 DEF Rollback, Saved, SaveLost, Goto, AfterRead
  <2>12. CASE RollbackRead \/ RollbackVerify
    BY <2>3, <2>4, <2>12 DEF RollbackRead, RollbackVerify, Goto, AfterRead, dbVars
  <2> QED BY <1>4, <2>8, <2>9, <2>10, <2>11, <2>12
<1> QED BY <1>1, <1>2, <1>3, <1>4 DEF Switch

LEMMA ReplaceStore ==
  ASSUME TypeInv, StoreFollows, Replace
  PROVE  StoreFollows'
<1>1. pc \in AfterRead
  BY DEF Replace, ReplaceCompare, ReplacePut, ReplacePrune, ReplaceConfirm, AfterRead
<1>2. CASE RollbackFailed \/ RecoveryFailed
  BY <1>1, <1>2, EndingStore
<1>3. CASE UNCHANGED <<dbVars, loc>> /\ pc' \in AfterRead
  BY <1>1, <1>3, WorkingStore, AdvanceStore DEF dbVars, InFlight
<1> QED BY <1>2, <1>3
    DEF Replace, ReplaceCompare, ReplacePut, ReplacePrune, ReplaceConfirm,
        ReplaceDone, ReplaceFailed, ReplaceContinues, Goto, AfterRead

LEMMA ReconcileStore ==
  ASSUME TypeInv, StoreFollows, Reconcile
  PROVE  StoreFollows'
<1>1. CASE NextCandidate \/ Evaluate \/ RestoreVerified \/ RetryEnds \/ NoCandidate
  <2>1. CASE pc' \in {"idle", "evaluate", "next"}
    BY <2>1 DEF StoreFollows, Targeted, AfterRead
  <2>2. CASE NextCandidate /\ pc' \notin {"idle", "evaluate", "next"}
    <3>1. PICK r, rest : OpenOperation(r, rest)
      BY <2>2 DEF NextCandidate, StartSwitch
    <3> QED BY <2>2, <3>1, OpenOperationStore
  <2> QED BY <1>1, <2>1, <2>2
      DEF Evaluate, RestoreVerified, RetryEnds, NoCandidate, Release, Goto
<1>2. CASE UpgradeLegacyPin
  <2>1. pc' \in {"idle", "evaluate"}
    BY <1>2 DEF UpgradeLegacyPin, swVars, Release, Goto
  <2> QED BY <2>1 DEF StoreFollows, Targeted, AfterRead
<1>3. CASE RecoverStart
  BY <1>3, AdvanceStore DEF RecoverStart, Resumable, Goto, dbVars, InFlight
<1>4. CASE RecoverNext \/ RecoverVerify
  <2>1. pc \in AfterRead \cup {"rc_next"}
    BY <1>4 DEF RecoverNext, RecoverVerify, AfterRead
  <2>2. CASE RecoveryFailed \/ Verified("preferred")
               \/ Settle([loc EXCEPT !.phase = "failover_pending", !.error = "other"])
    BY <2>1, <2>2, EndingStore DEF Mode
  <2>3. CASE UNCHANGED <<dbVars, loc, pc>>
    BY <2>1, <2>3, WorkingStore, AdvanceStore DEF dbVars, InFlight
  <2>4. ASSUME NEW n, Resume(n)
        PROVE  StoreFollows'
    <3>1. CASE Release
      BY <3>1, ReleaseStore
    <3>2. ASSUME NEW rec,
                 rec = [loc EXCEPT !.phase = "failover_pending", !.error = "none",
                                   !.source = seen, !.desired = AddrOf[n]],
                 Saved(rec), loc' = rec, pc' \in AfterRead
          PROVE  StoreFollows'
      <4>1. InFlight(rec)
        BY <2>1, <3>2, WorkingStore DEF Operation, InFlight, InFlightPhase
      <4> QED BY <3>2, <4>1, AdvanceStore DEF Saved
    <3> QED BY <2>4, <3>1, <3>2 DEF Resume, Goto, AfterRead
  <2> QED BY <1>4, <2>2, <2>3, <2>4 DEF RecoverNext, RecoverVerify
<1> QED BY <1>1, <1>2, <1>3, <1>4 DEF Reconcile

LEMMA StepStore == TypeInv /\ StoreFollows /\ [Next]_vars => StoreFollows'
<1> SUFFICES ASSUME TypeInv, StoreFollows, [Next]_vars PROVE StoreFollows'
  OBVIOUS
<1>1. CASE Admin
  <2>1. CASE AdminSwitch
    BY <2>1, OpenOperationStore DEF AdminSwitch, StartSwitch
  <2>2. CASE ConfirmPrevious
    BY <2>2 DEF ConfirmPrevious, StoreFollows, swVars, Targeted, AfterRead
  <2> QED BY <1>1, <2>1, <2>2 DEF Admin
<1>2. CASE Environment
  <2>1. CASE Crash
    BY <2>1, ReleaseStore DEF Crash
  <2>2. CASE CooldownExpires
    <3>1. /\ op'.phase = op.phase /\ op'.active = op.active
          /\ op'.previous = op.previous /\ op'.desired = op.desired
          /\ op'.source = op.source
      BY <2>2 DEF CooldownExpires, TypeInv, TypeOK, Operation
    <3> QED BY <2>2, <3>1 DEF CooldownExpires, StoreFollows, swVars, InFlight
  <2>3. CASE UNCHANGED <<swVars, dbVars>>
    BY <2>3 DEF StoreFollows, swVars, dbVars, InFlight
  <2> QED BY <1>2, <2>1, <2>2, <2>3
      DEF Environment, HealthChanges, NodeGoesUpOrDown, ForeignWrite, Propagate
<1>3. CASE UNCHANGED vars
  BY <1>3 DEF vars, swVars, dbVars, StoreFollows, InFlight
<1> QED BY <1>1, <1>2, <1>3, SwitchStore, ReplaceStore, ReconcileStore DEF Next

------------------------------------------------------------------------------
(* The record behind the database. *)

(* At these steps the goroutine relies on nothing about the record.        *)
LEMMA QuietStep ==
  ASSUME pc' \in {"idle", "evaluate", "next", "retry", "preflight", "read",
                  "rollback", "rb_read", "rb_wait"}
  PROVE  StepRecord'
BY DEF StepRecord

LEMMA SettleInFlightStep ==
  ASSUME NEW rec, Settle(rec), InFlight(rec)
  PROVE  StepRecord'
BY DEF Settle, Goto, StepRecord, InFlight

LEMMA SettleStepRecord ==
  ASSUME NEW rec, Settle(rec), EntryAt(rec.active), UNCHANGED dns, envSame,
         \/ rec.phase = "verified" /\ rec.active \in Node
         \/ /\ rec.active = op.active
            /\ rec.previous = NoAddr \/ dns = {rec.previous}
  PROVE  StepRecord'
BY DEF Settle, Goto, StepRecord, EntryAt, InFlight, envSame, envVars

(* An operation in flight whose addresses account for the record.          *)
LEMMA InFlightStored ==
  ASSUME InFlight(op'), op'.previous # NoAddr,
         dns' \subseteq {op'.previous, op'.desired, op'.source},
         op'.active # NoNode => op'.previous = AddrOf[op'.active]
  PROVE  StoredRecord'
BY DEF StoredRecord, EntryAt, InFlight

(* The stored operation keeps its owner and addresses, the record its own. *)
LEMMA SameStored ==
  ASSUME StoredRecord, InFlight(op') <=> InFlight(op),
         op'.active = op.active, op'.previous = op.previous,
         op'.desired = op.desired, op'.source = op.source,
         UNCHANGED <<dns, answers>>
  PROVE  StoredRecord'
BY DEF StoredRecord, EntryAt, InFlight

(* What the invariant says of the record once the goroutine has read it.   *)
LEMMA WorkingRecord ==
  ASSUME TypeInv, StoreFollows, StoredRecord, pc \in AfterRead \cup {"rc_next"}
  PROVE  /\ dns \subseteq {loc.previous, loc.desired, loc.source}
         /\ loc.active # NoNode => loc.previous = AddrOf[loc.active]
BY WorkingStore DEF StoredRecord

LEMMA OpenOperationRecord ==
  ASSUME TypeInv, StoredRecord, ~InFlight(op), NEW r, NEW rest, OpenOperation(r, rest)
  PROVE  StoredRecord' /\ StepRecord'
<1> DEFINE rec == [NoOperation EXCEPT !.phase = "preparing", !.trigger = r.trigger,
                                      !.mode = op.mode, !.active = op.active]
<1>1. InFlight(rec) /\ rec.previous = NoAddr /\ rec.active = op.active
  BY DEF NoOperation, InFlight, InFlightPhase
<1>2. /\ op' = rec \/ op' = op
      /\ UNCHANGED <<dns, answers>>
      /\ pc' \in {"preflight", "idle"}
  BY DEF OpenOperation, Saved, SaveLost, Release, Goto, envSame, envVars
<1>3. StepRecord'
  BY <1>2, QuietStep
<1>4. StoredRecord'
  <2> HIDE DEF rec
  <2> QED BY <1>1, <1>2 DEF StoredRecord, EntryAt, InFlight
<1> QED BY <1>3, <1>4

LEMMA PreflightRecord ==
  ASSUME TypeInv, StoreFollows, StoredRecord, Preflight
  PROVE  StoredRecord' /\ StepRecord'
<1> DEFINE target == [loc EXCEPT !.desired = AddrOf[req.node]]
           refused(rec) == [rec EXCEPT !.phase = "failed", !.error = "pre_dns"]
<1>1. /\ loc \in Operation /\ InFlight(op) /\ op.active = loc.active
      /\ op.previous = NoAddr /\ loc.previous = NoAddr
  BY DEF Preflight, TypeInv, TypeOK, StoreFollows, Targeted
<1>2. EntryAt(loc.active) /\ UNCHANGED <<op, dns>> /\ envSame
  BY <1>1 DEF StoredRecord, Preflight, Settle, dbVars
<1>3. StoredRecord'
  BY <1>2, SameStored DEF envSame, envVars
<1>4. /\ refused(target).active = loc.active /\ refused(target).previous = NoAddr
      /\ refused(loc).active = loc.active /\ refused(loc).previous = NoAddr
  BY <1>1 DEF Operation
<1>5. Settle(refused(loc)) \/ Settle(refused(target)) \/ pc' = "read"
  BY DEF Preflight, Goto
<1> HIDE DEF target, refused
<1> QED BY <1>1, <1>2, <1>3, <1>4, <1>5, SettleStepRecord, QuietStep

LEMMA ReadProviderRecord ==
  ASSUME TypeInv, StoreFollows, StoredRecord, ReadProvider
  PROVE  StoredRecord' /\ StepRecord'
<1>1. /\ loc \in Operation /\ InFlight(op) /\ InFlight(loc) /\ op.active = loc.active
      /\ op.previous = NoAddr /\ loc.previous = NoAddr /\ job = "switch"
  BY DEF ReadProvider, TypeInv, TypeOK, JobOK, LocalsOK, StoreFollows, Targeted
<1>2. EntryAt(loc.active) /\ UNCHANGED dns /\ envSame /\ UNCHANGED answers
  BY <1>1 DEF StoredRecord, ReadProvider, envSame, envVars
<1>3. CASE Fail
  <2> DEFINE rec == [loc EXCEPT !.phase = "failed", !.error = "other"]
  <2>1. rec.active = loc.active /\ rec.previous = NoAddr /\ Settle(rec)
    BY <1>1, <1>3 DEF Operation, Fail
  <2> HIDE DEF rec
  <2>2. UNCHANGED op
    BY <2>1 DEF Settle
  <2> QED BY <1>1, <1>2, <2>1, <2>2, SettleStepRecord, SameStored
<1>4. CASE SaveLost /\ Release
  BY <1>2, <1>4, QuietStep, SameStored DEF SaveLost, Release, Goto
<1>5. ASSUME NEW a \in Address, NEW rec,
             rec = [loc EXCEPT !.previous = a, !.phase = "submitting_dns"],
             ExactRecord(a), op' = rec, loc' = rec, pc' = "cas", job' = job
      PROVE  StoredRecord' /\ StepRecord'
  <2>1. /\ InFlight(rec) /\ rec.previous = a /\ a # NoAddr /\ rec.active = loc.active
        /\ dns = {a}
    BY <1>1, <1>5, NoAddrAssumption
    DEF Operation, InFlight, InFlightPhase, ExactRecord
  <2>2. StoredRecord'
    BY <1>2, <1>5, <2>1, InFlightStored DEF EntryAt
  <2>3. StepRecord'
    BY <1>1, <1>2, <1>5, <2>1 DEF StepRecord, EntryAt, From
  <2> QED BY <2>2, <2>3
<1> QED BY <1>3, <1>4, <1>5 DEF ReadProvider, Saved, Goto

(* A step of ReplaceExactA that ends it, well or badly.                    *)
LEMMA ReplaceEndRecord ==
  ASSUME TypeInv, StoreFollows, StoredRecord, pc \in {"cas", "put", "prune", "final"},
         (ReplaceDone /\ dns' = {To}) \/ ReplaceFailed,
         dns' \subseteq dns \cup {To}, UNCHANGED answers,
         job = "switch" => To \in dns' \/ (UNCHANGED dns /\ EntryAt(loc.active))
  PROVE  StoredRecord' /\ StepRecord'
<1>1. /\ loc \in Operation /\ InFlight(op) /\ InFlight(loc) /\ op.active = loc.active
      /\ op.previous = loc.previous /\ op.desired = loc.desired
      /\ op.source = loc.source /\ loc.previous # NoAddr
  BY WorkingStore DEF AfterRead
<1>2. UNCHANGED op
  BY DEF ReplaceDone, ReplaceFailed, RollbackFailed, RecoveryFailed, Settle, dbVars
<1>3. StoredRecord'
  <2>1. To \in {loc.previous, loc.desired}
    BY DEF To
  <2>2. /\ dns \subseteq {loc.previous, loc.desired, loc.source}
        /\ loc.active # NoNode => loc.previous = AddrOf[loc.active]
    BY WorkingRecord DEF AfterRead
  <2> QED BY <1>1, <1>2, <2>1, <2>2, InFlightStored DEF InFlight
<1>4. CASE ReplaceDone /\ dns' = {To}
  <2>1. pc' \in {"rb_wait", "submitted"} /\ To' = To
    BY <1>4 DEF ReplaceDone, Goto, To
  <2> QED BY <1>3, <1>4, <2>1 DEF StepRecord
<1>5. CASE job = "switch" /\ ReplaceFailed
  <2>1. pc' = "readback" /\ UNCHANGED <<loc, job>>
    BY <1>5 DEF ReplaceFailed, Goto
  <2> QED BY <1>3, <1>5, <2>1 DEF StepRecord, To, EntryAt
<1>6. CASE RollbackFailed \/ RecoveryFailed
  <2> DEFINE x == [loc EXCEPT !.phase = "rollback_failed"]
             y == [loc EXCEPT !.error = "other"]
  <2>1. InFlight(x) /\ InFlight(y) /\ (Settle(x) \/ Settle(y))
    BY <1>1, <1>6, SettledPhases
    DEF Operation, InFlight, RollbackFailed, RecoveryFailed
  <2> HIDE DEF x, y
  <2> QED BY <1>3, <2>1, SettleInFlightStep
<1> QED BY <1>4, <1>5, <1>6 DEF ReplaceFailed

LEMMA ReplaceContinuesRecord ==
  ASSUME TypeInv, StoreFollows, StoredRecord, pc \in {"cas", "put", "prune"},
         NEW p \in {"put", "prune", "final"}, ReplaceContinues(p),
         dns' \subseteq dns \cup {To}, UNCHANGED answers,
         p = "put" => dns' = {From} /\ (job = "switch" => UNCHANGED dns /\ EntryAt(loc.active)),
         p = "prune" => To \in dns' /\ dns' \subseteq {From, To},
         p = "final" => dns' = {To}
  PROVE  StoredRecord' /\ StepRecord'
<1>1. /\ InFlight(op) /\ op.active = loc.active /\ op.previous = loc.previous
      /\ op.desired = loc.desired /\ op.source = loc.source /\ loc.previous # NoAddr
  BY WorkingStore DEF AfterRead
<1>2. StoredRecord'
  <2>1. To \in {loc.previous, loc.desired}
    BY DEF To
  <2>2. /\ dns \subseteq {loc.previous, loc.desired, loc.source}
        /\ loc.active # NoNode => loc.previous = AddrOf[loc.active]
    BY WorkingRecord DEF AfterRead
  <2>3. UNCHANGED op
    BY DEF ReplaceContinues, dbVars
  <2> QED BY <1>1, <2>1, <2>2, <2>3, InFlightStored DEF InFlight
<1>3. StepRecord'
  BY DEF ReplaceContinues, Goto, StepRecord, From, To, EntryAt
<1> QED BY <1>2, <1>3

LEMMA ReplaceRecord ==
  ASSUME TypeInv, StoreFollows, StoredRecord, StepRecord, Replace
  PROVE  StoredRecord' /\ StepRecord'
<1>1. UNCHANGED answers
  BY DEF Replace, ReplaceCompare, ReplacePut, ReplacePrune, ReplaceConfirm, envSame, envVars
<1>2. pc \in {"put", "prune", "final"} => From # To
  BY DEF TypeInv, LocalsOK
<1>3. CASE ReplaceCompare
  <2>1. pc = "cas" /\ dns = {From} /\ UNCHANGED dns
        /\ (job = "switch" => EntryAt(loc.active))
    BY <1>3 DEF ReplaceCompare, StepRecord
  <2>2. CASE ReplaceContinues("put")
    BY <1>1, <2>1, <2>2, ReplaceContinuesRecord
  <2>3. CASE (ReplaceDone /\ From = To) \/ ReplaceFailed
    BY <1>1, <2>1, <2>3, ReplaceEndRecord
  <2> QED BY <1>3, <2>2, <2>3 DEF ReplaceCompare
<1>4. CASE ReplacePut
  <2>1. pc = "put" /\ dns = {From} /\ (job = "switch" => EntryAt(loc.active))
    BY <1>4 DEF ReplacePut, StepRecord
  <2>2. CASE PutA(To) /\ ReplaceContinues("prune")
    BY <1>1, <2>1, <2>2, ReplaceContinuesRecord DEF PutA
  <2>3. CASE PutA(To) /\ ReplaceFailed
    BY <1>1, <2>1, <2>3, ReplaceEndRecord DEF PutA
  <2>4. CASE UNCHANGED dns /\ ReplaceFailed
    BY <1>1, <2>1, <2>4, ReplaceEndRecord
  <2> QED BY <1>4, <2>2, <2>3, <2>4 DEF ReplacePut
<1>5. CASE ReplacePrune
  <2>1. pc = "prune" /\ To \in dns /\ dns \subseteq {From, To} /\ From # To
    BY <1>2, <1>5 DEF ReplacePrune, StepRecord
  <2>2. CASE DeleteA(From) /\ ReplaceContinues("final")
    <3>1. dns' = {To}
      BY <2>1, <2>2 DEF DeleteA
    <3> QED BY <1>1, <2>1, <2>2, <3>1, ReplaceContinuesRecord
  <2>3. CASE DeleteA(From) /\ ReplaceFailed
    <3>1. dns' = {To}
      BY <2>1, <2>3 DEF DeleteA
    <3> QED BY <1>1, <2>1, <2>3, <3>1, ReplaceEndRecord
  <2>4. CASE UNCHANGED dns /\ ReplaceFailed
    BY <1>1, <2>1, <2>4, ReplaceEndRecord
  <2> QED BY <1>5, <2>2, <2>3, <2>4 DEF ReplacePrune
<1>6. CASE ReplaceConfirm
  <2>1. pc = "final" /\ dns = {To} /\ UNCHANGED dns
    BY <1>6 DEF ReplaceConfirm, StepRecord
  <2>2. ReplaceDone \/ ReplaceFailed
    BY <1>6 DEF ReplaceConfirm
  <2> QED BY <1>1, <2>1, <2>2, ReplaceEndRecord
<1> QED BY <1>3, <1>4, <1>5, <1>6 DEF Replace

(* The new node serves the entry: the record and the resolvers have its    *)
(* address, and it becomes the owner.                                      *)
LEMMA VerifiedRecord ==
  ASSUME TypeInv, StoreFollows, StoredRecord, pc \in {"verify", "rc_wait"},
         dns = {loc.desired}, Serves(req.node), UNCHANGED dns, envSame,
         NEW m \in Mode, Verified(m)
  PROVE  StoredRecord' /\ StepRecord'
<1> DEFINE rec == [loc EXCEPT !.phase = "verified", !.mode = m, !.active = req.node,
                              !.error = "none", !.cooling = TRUE]
<1>1. loc \in Operation /\ req.node \in Node /\ loc.desired = AddrOf[req.node]
  BY DEF TypeInv, TypeOK, LocalsOK, Targeted, AfterRead
<1>2. rec.phase = "verified" /\ rec.active = req.node /\ Settle(rec)
  BY <1>1 DEF Operation, Verified
<1> HIDE DEF rec
<1>3. EntryAt(rec.active)
  BY <1>1, <1>2 DEF EntryAt, Serves, Resolved
<1>4. StoredRecord'
  <2>1. UNCHANGED <<op, dns, answers>>
    BY <1>2 DEF Settle, envSame, envVars
  <2> QED BY <2>1, SameStored
<1> QED BY <1>1, <1>2, <1>3, <1>4, SettleStepRecord

(* Settling in flight: the database already accounts for the record.       *)
LEMMA PendingRecord ==
  ASSUME TypeInv, StoreFollows, StoredRecord, pc \in AfterRead \cup {"rc_next"},
         UNCHANGED dns, envSame,
         NEW p \in InFlightPhase, NEW e \in ErrorClass,
         \/ Settle([loc EXCEPT !.phase = p])
         \/ Settle([loc EXCEPT !.phase = p, !.error = e])
         \/ Settle([loc EXCEPT !.error = e])
  PROVE  StoredRecord' /\ StepRecord'
<1> DEFINE x == [loc EXCEPT !.phase = p]
           y == [loc EXCEPT !.phase = p, !.error = e]
           z == [loc EXCEPT !.error = e]
<1>1. InFlight(x) /\ InFlight(y) /\ InFlight(z)
  BY WorkingStore DEF Operation, InFlight
<1>2. Settle(x) \/ Settle(y) \/ Settle(z)
  OBVIOUS
<1> HIDE DEF x, y, z
<1>3. UNCHANGED <<op, dns, answers>>
  BY <1>2 DEF Settle, envSame, envVars
<1> QED BY <1>1, <1>2, <1>3, SettleInFlightStep, SameStored

LEMMA BeginRollbackRecord ==
  ASSUME StoredRecord, BeginRollback, UNCHANGED <<op, dns>>, envSame
  PROVE  StoredRecord' /\ StepRecord'
BY QuietStep, SameStored DEF BeginRollback, Goto, envSame, envVars

LEMMA ReleaseRecord ==
  ASSUME StoredRecord, Release, UNCHANGED <<op, dns, answers>>
  PROVE  StoredRecord' /\ StepRecord'
BY QuietStep, SameStored DEF Release, Goto

(* The same operation in another phase of its flight is stored.            *)
LEMMA SavedPhaseRecord ==
  ASSUME TypeInv, StoreFollows, StoredRecord, pc \in AfterRead \cup {"rc_next"},
         UNCHANGED dns, envSame, NEW p \in InFlightPhase, NEW e \in ErrorClass,
         \/ op' = loc \/ op' = [loc EXCEPT !.phase = p]
         \/ op' = [loc EXCEPT !.phase = p, !.error = e]
  PROVE  StoredRecord'
<1>1. /\ loc \in Operation /\ InFlight(op) /\ InFlight(loc)
      /\ op.active = loc.active /\ op.previous = loc.previous
      /\ op.desired = loc.desired /\ op.source = loc.source
  BY WorkingStore
<1>2. /\ InFlight(op') /\ op'.active = op.active /\ op'.previous = op.previous
      /\ op'.desired = op.desired /\ op'.source = op.source
  BY <1>1 DEF Operation, InFlight
<1> QED BY <1>1, <1>2, SameStored DEF envSame, envVars

LEMMA ReadbackRecord ==
  ASSUME TypeInv, StoreFollows, StoredRecord, StepRecord, Readback
  PROVE  StoredRecord' /\ StepRecord'
<1>1. /\ pc = "readback" /\ pc \in AfterRead /\ job = "switch"
      /\ UNCHANGED dns /\ envSame
  BY DEF Readback, TypeInv, TypeOK, JobOK, AfterRead
<1>2. /\ loc \in Operation /\ op.active = loc.active
  BY <1>1, WorkingStore
<1>3. CASE BeginRollback /\ UNCHANGED op
  BY <1>1, <1>3, BeginRollbackRecord
<1>4. CASE RecoveryRequired
  BY <1>1, <1>4, PendingRecord, SettledPhases DEF RecoveryRequired, ErrorClass
<1>5. CASE ExactRecord(loc.previous) /\ loc.previous # loc.desired /\ Fail
  <2> DEFINE rec == [loc EXCEPT !.phase = "failed", !.error = "other"]
  <2>1. rec.active = loc.active /\ rec.previous = loc.previous /\ Settle(rec)
    BY <1>2, <1>5 DEF Operation, Fail
  <2> HIDE DEF rec
  <2>2. EntryAt(loc.active) /\ dns = {loc.previous}
    BY <1>1, <1>5 DEF StepRecord, ExactRecord, To
  <2>3. UNCHANGED <<op, dns, answers>>
    BY <1>1, <2>1 DEF Settle, envSame, envVars
  <2> QED BY <1>1, <1>2, <2>1, <2>2, <2>3, SettleStepRecord, SameStored
<1> QED BY <1>3, <1>4, <1>5 DEF Readback

(* Recording that the provider accepted the target, and the two waits.     *)
LEMMA SubmittedRecord ==
  ASSUME TypeInv, StoreFollows, StoredRecord, StepRecord,
         Submitted \/ WaitRecursive \/ VerifyRequest
  PROVE  StoredRecord' /\ StepRecord'
<1>1. /\ pc \in {"submitted", "wait", "verify"} /\ pc \in AfterRead
      /\ UNCHANGED dns /\ envSame
  BY DEF Submitted, WaitRecursive, VerifyRequest, AfterRead
<1>2. job # "rollback" /\ loc \in Operation /\ dns = {loc.desired}
  BY <1>1 DEF TypeInv, TypeOK, JobOK, StepRecord, To
<1>3. CASE BeginRollback /\ UNCHANGED op
  BY <1>1, <1>3, BeginRollbackRecord
<1>4. CASE Release /\ UNCHANGED op
  BY <1>1, <1>4, ReleaseRecord DEF envSame, envVars
<1>5. ASSUME NEW p \in {"waiting_recursive", "verifying_request"},
             NEW rec, rec = [loc EXCEPT !.phase = p],
             op' = rec, loc' = rec, pc' \in {"wait", "verify"}, job' = job
      PROVE  StoredRecord' /\ StepRecord'
  <2>1. StoredRecord'
    BY <1>1, <1>5, SettledPhases, SavedPhaseRecord DEF ErrorClass
  <2>2. StepRecord'
    <3>1. rec.desired = loc.desired
      BY <1>2, <1>5 DEF Operation
    <3> QED BY <1>1, <1>2, <1>5, <3>1 DEF StepRecord, To
  <2> QED BY <2>1, <2>2
<1>6. CASE op' = loc /\ pc' = "rc_wait" /\ UNCHANGED <<loc, job>>
  <2>1. StoredRecord'
    BY <1>1, <1>6, SettledPhases, SavedPhaseRecord DEF ErrorClass
  <2> QED BY <1>1, <1>2, <1>6, <2>1 DEF StepRecord, To
<1>7. CASE Submitted
  BY <1>3, <1>4, <1>5, <1>6, <1>7 DEF Submitted, Saved, SaveLost, Goto
<1>8. CASE WaitRecursive
  BY <1>3, <1>5, <1>8 DEF WaitRecursive, Saved, SaveLost, Goto
<1>9. CASE VerifyRequest
  <2>1. CASE Serves(req.node) /\ Verified(req.mode)
    BY <1>1, <1>2, <1>9, <2>1, VerifiedRecord
    DEF VerifyRequest, TypeInv, TypeOK, Request
  <2> QED BY <1>3, <1>9, <2>1 DEF VerifyRequest
<1> QED BY <1>7, <1>8, <1>9

LEMMA RollbackRecord ==
  ASSUME TypeInv, StoreFollows, StoredRecord, StepRecord,
         Rollback \/ RollbackRead \/ RollbackVerify
  PROVE  StoredRecord' /\ StepRecord'
<1>1. /\ pc \in {"rollback", "rb_read", "rb_wait"} /\ pc \in AfterRead
      /\ UNCHANGED dns /\ envSame
  BY DEF Rollback, RollbackRead, RollbackVerify, AfterRead
<1>2. loc \in Operation /\ InFlight(op) /\ op.active = loc.active /\ loc.previous # NoAddr
  BY <1>1, WorkingStore
<1>3. CASE RollbackFailed \/ Settle([loc EXCEPT !.phase = "failover_pending", !.error = "other"])
  BY <1>1, <1>3, PendingRecord, SettledPhases DEF RollbackFailed, ErrorClass
<1>4. CASE pc' = "rb_wait" /\ UNCHANGED op
  BY <1>1, <1>4, QuietStep, SameStored DEF envSame, envVars
<1>5. CASE Rollback
  <2>1. CASE op' \in {op, [loc EXCEPT !.phase = "rolling_back", !.error = "other"]}
               /\ pc' = "rb_read"
    BY <1>1, <2>1, QuietStep, SavedPhaseRecord, SettledPhases, SameStored
    DEF ErrorClass, envSame, envVars
  <2> QED BY <1>3, <1>5, <2>1 DEF Rollback, Saved, SaveLost, Goto
<1>6. CASE RollbackRead
  <2>1. CASE ExactRecord(loc.desired) /\ job' = "rollback" /\ pc' = "cas"
               /\ UNCHANGED <<op, loc>>
    <3>1. StoredRecord'
      BY <1>1, <2>1, SameStored DEF envSame, envVars
    <3> QED BY <1>1, <2>1, <3>1 DEF StepRecord, ExactRecord, From
  <2> QED BY <1>3, <1>4, <1>6, <2>1 DEF RollbackRead, Goto, dbVars
<1>7. CASE RollbackVerify
  <2>1. CASE /\ Resolved(loc.previous) /\ ExactRecord(loc.previous)
             /\ Serves(loc.active)
             /\ Settle([loc EXCEPT !.phase = "rolled_back"])
    <3> DEFINE rec == [loc EXCEPT !.phase = "rolled_back"]
    <3>1. rec.active = loc.active /\ rec.previous = loc.previous /\ Settle(rec)
      BY <1>2, <2>1 DEF Operation
    <3> HIDE DEF rec
    <3>2. EntryAt(loc.active) /\ dns = {loc.previous}
      BY <2>1 DEF EntryAt, Serves, Resolved, ExactRecord
    <3>3. UNCHANGED <<op, dns, answers>>
      BY <1>1, <3>1 DEF Settle, envSame, envVars
    <3> QED BY <1>1, <1>2, <3>1, <3>2, <3>3, SettleStepRecord, SameStored
  <2> QED BY <1>3, <1>7, <2>1 DEF RollbackVerify
<1> QED BY <1>5, <1>6, <1>7

(* The settled operation is stored, or the one in flight stays.            *)
LEMMA SettleStepStepRecord ==
  ASSUME TypeInv, StoreFollows, StoredRecord, StepRecord, SettleStep
  PROVE  StoredRecord' /\ StepRecord'
<1>1. /\ pc = "settle" /\ op' \in {op, loc} /\ pc' \in {"retry", "idle"}
      /\ UNCHANGED <<dns, answers>>
  BY DEF SettleStep, Saved, SaveLost, Release, Goto, envSame, envVars
<1>2. StepRecord'
  BY <1>1, QuietStep
<1>3. StoredRecord'
  <2>1. CASE InFlight(loc)
    <3>1. InFlight(op') <=> InFlight(op)
      BY <1>1, <2>1 DEF StoreFollows, InFlight
    <3> QED BY <1>1, <2>1, <3>1, SameStored DEF StoreFollows
  <2>2. CASE ~InFlight(loc)
    BY <1>1, <2>2 DEF StoredRecord, StepRecord, EntryAt, InFlight
  <2> QED BY <2>1, <2>2
<1> QED BY <1>2, <1>3

LEMMA ReconcileRecord ==
  ASSUME TypeInv, StoreFollows, StoredRecord, StepRecord, Reconcile
  PROVE  StoredRecord' /\ StepRecord'
<1>1. UNCHANGED <<dns, answers>> /\ envSame
  <2> USE DEF envSame, envVars
  <2>1. CASE NextCandidate
    BY <2>1 DEF NextCandidate, StartSwitch, OpenOperation
  <2> QED BY <2>1
      DEF Reconcile, RestoreVerified, RetryEnds, UpgradeLegacyPin, Evaluate,
          NoCandidate, RecoverStart, RecoverNext, RecoverVerify
<1>2. CASE RestoreVerified
  <2>1. /\ ~InFlight(op) /\ op' = prior /\ ~InFlight(prior) /\ prior.active = op.active
        /\ pc' \in {"evaluate", "next"}
    BY <1>2
    DEF RestoreVerified, FailedBeforeDns, PriorStands, Saved, Goto, InFlight, InFlightPhase
  <2>2. StoredRecord'
    BY <1>1, <2>1 DEF StoredRecord, EntryAt, InFlight
  <2> QED BY <2>1, <2>2, QuietStep
<1>3. CASE UpgradeLegacyPin
  <2>1. /\ op' \in {op, [op EXCEPT !.mode = "preferred"]}
        /\ pc' \in {"idle", "evaluate"}
    BY <1>3 DEF UpgradeLegacyPin, Saved, SaveLost, swVars, Release, Goto
  <2>2. /\ op'.phase = op.phase /\ op'.active = op.active /\ op'.previous = op.previous
        /\ op'.desired = op.desired /\ op'.source = op.source
    BY <2>1 DEF TypeInv, TypeOK, Operation
  <2> QED BY <1>1, <2>1, <2>2, QuietStep, SameStored DEF InFlight
<1>4. CASE RetryEnds \/ NoCandidate \/ Evaluate
  <2>1. UNCHANGED op /\ pc' \in {"idle", "next"}
    BY <1>4 DEF RetryEnds, NoCandidate, Evaluate, dbVars, Release, Goto
  <2> QED BY <1>1, <2>1, QuietStep, SameStored
<1>5. CASE NextCandidate
  BY <1>5, OpenOperationRecord DEF NextCandidate, StartSwitch
<1>6. CASE RecoverStart
  <2>1. UNCHANGED op /\ pc' = "rc_next" /\ dns = {seen'}
    BY <1>6 DEF RecoverStart, dbVars, Goto, ExactRecord
  <2>2. StoredRecord'
    BY <1>1, <2>1, SameStored
  <2> QED BY <1>1, <2>1, <2>2 DEF StepRecord
<1>7. CASE RecoverNext
  <2>1. pc = "rc_next" /\ dns = {seen}
    BY <1>7 DEF RecoverNext, StepRecord
  <2>2. CASE Settle([loc EXCEPT !.phase = "failover_pending", !.error = "other"])
    BY <1>1, <2>1, <2>2, PendingRecord, SettledPhases DEF ErrorClass
  <2>3. CASE UNCHANGED <<dbVars, loc, pc, job, req, seen>>
    <3>1. StoredRecord'
      BY <1>1, <2>3, SameStored DEF dbVars
    <3> QED BY <1>1, <2>1, <2>3, <3>1 DEF StepRecord
  <2>4. ASSUME NEW n, Resume(n)
        PROVE  StoredRecord' /\ StepRecord'
    <3>1. CASE SaveLost /\ Release
      BY <1>1, <3>1, ReleaseRecord DEF SaveLost
    <3>2. ASSUME NEW rec,
                 rec = [loc EXCEPT !.phase = "failover_pending", !.error = "none",
                                   !.source = seen, !.desired = AddrOf[n]],
                 op' = rec, loc' = rec, job' = "recover", seen' = seen,
                 pc' = IF seen = AddrOf[n] THEN "submitted" ELSE "cas"
          PROVE  StoredRecord' /\ StepRecord'
      <4>1. /\ loc \in Operation /\ op.active = loc.active /\ loc.previous # NoAddr
            /\ loc.active # NoNode => loc.previous = AddrOf[loc.active]
        BY <2>1, WorkingStore, WorkingRecord
      <4>2. /\ InFlight(rec) /\ rec.active = loc.active /\ rec.previous = loc.previous
            /\ rec.source = seen /\ rec.desired = AddrOf[n]
        BY <3>2, <4>1 DEF Operation, InFlight, InFlightPhase
      <4>3. StoredRecord'
        BY <1>1, <2>1, <3>2, <4>1, <4>2, InFlightStored
      <4>4. StepRecord'
        BY <1>1, <2>1, <3>2, <4>2 DEF StepRecord, From, To
      <4> QED BY <4>3, <4>4
    <3> QED BY <2>4, <3>1, <3>2 DEF Resume, Saved, Goto
  <2> QED BY <1>7, <2>2, <2>3, <2>4 DEF RecoverNext
<1>8. CASE RecoverVerify
  <2>1. /\ pc = "rc_wait" /\ pc \in AfterRead /\ UNCHANGED dns
        /\ dns = {loc.desired}
    BY <1>8
    DEF RecoverVerify, AfterRead, TypeInv, JobOK, StepRecord, To
  <2>2. CASE RecoveryFailed
    BY <1>1, <2>1, <2>2, PendingRecord, SettledPhases DEF RecoveryFailed, ErrorClass
  <2>3. CASE Serves(req.node) /\ Verified("preferred")
    BY <1>1, <2>1, <2>3, VerifiedRecord DEF Mode
  <2> QED BY <1>8, <2>2, <2>3 DEF RecoverVerify
<1> QED BY <1>2, <1>3, <1>4, <1>5, <1>6, <1>7, <1>8 DEF Reconcile

LEMMA AdminRecord ==
  ASSUME TypeInv, StoreFollows, StoredRecord, StepRecord, Admin
  PROVE  StoredRecord' /\ StepRecord'
<1>1. CASE AdminSwitch
  BY <1>1, OpenOperationRecord DEF AdminSwitch, StartSwitch
<1>2. CASE ConfirmPrevious
  <2>1. /\ ~InFlight(op') /\ op'.active = op.active
        /\ UNCHANGED <<dns, answers>> /\ pc' = "idle"
    BY <1>2, SettledPhases
    DEF ConfirmPrevious, Saved, TypeInv, TypeOK, Operation, InFlight, swVars,
        envSame, envVars
  <2>2. EntryAt(op.active)
    BY <1>2 DEF ConfirmPrevious, ExactRecord, Resolved, Serves, EntryAt
  <2>3. StoredRecord'
    BY <2>1, <2>2 DEF StoredRecord, EntryAt, InFlight
  <2> QED BY <2>1, <2>3, QuietStep
<1> QED BY <1>1, <1>2 DEF Admin

LEMMA EnvironmentRecord ==
  ASSUME TypeInv, StoreFollows, StoredRecord, StepRecord, Environment, ~foreign'
  PROVE  StoredRecord' /\ StepRecord'
<1>1. CASE Crash
  BY <1>1, ReleaseRecord DEF Crash, dbVars, envSame, envVars
<1>2. CASE HealthChanges \/ NodeGoesUpOrDown
  <2>1. UNCHANGED <<swVars, dbVars, dns, answers>>
    BY <1>2 DEF HealthChanges, NodeGoesUpOrDown
  <2> QED BY <2>1
      DEF swVars, dbVars, StoredRecord, StepRecord, EntryAt, InFlight, From, To
<1>3. CASE ForeignWrite
  BY <1>3 DEF ForeignWrite
<1>4. CASE Propagate
  <2>1. UNCHANGED <<swVars, dbVars, dns>> /\ answers' = dns
    BY <1>4 DEF Propagate
  <2> QED BY <2>1
      DEF swVars, dbVars, StoredRecord, StepRecord, EntryAt, InFlight, From, To
<1>5. CASE CooldownExpires
  <2>1. /\ op'.phase = op.phase /\ op'.active = op.active
        /\ op'.previous = op.previous /\ op'.desired = op.desired
        /\ op'.source = op.source
    BY <1>5 DEF CooldownExpires, TypeInv, TypeOK, Operation
  <2>2. UNCHANGED <<swVars, dns, answers>>
    BY <1>5 DEF CooldownExpires, envVars
  <2>3. StoredRecord'
    BY <2>1, <2>2, SameStored DEF InFlight
  <2>4. StepRecord'
    BY <2>1, <2>2 DEF swVars, StepRecord, EntryAt, InFlight, From, To
  <2> QED BY <2>3, <2>4
<1> QED BY <1>1, <1>2, <1>3, <1>4, <1>5 DEF Environment

(* The history variable is set by the other writer, and by nobody else.    *)
LEMMA OtherWriter == [Next]_vars => UNCHANGED foreign \/ ForeignWrite
<1> SUFFICES ASSUME [Next]_vars PROVE UNCHANGED foreign \/ ForeignWrite
  OBVIOUS
<1> USE DEF envSame, envVars
<1>1. CASE Reconcile
  <2>1. CASE NextCandidate
    BY <2>1 DEF NextCandidate, StartSwitch, OpenOperation
  <2> QED BY <1>1, <2>1
      DEF Reconcile, RestoreVerified, RetryEnds, UpgradeLegacyPin, Evaluate,
          NoCandidate, RecoverStart, RecoverNext, RecoverVerify
<1>2. CASE Replace
  BY <1>2 DEF Replace, ReplaceCompare, ReplacePut, ReplacePrune, ReplaceConfirm
<1>3. CASE Switch
  BY <1>3
  DEF Switch, Preflight, ReadProvider, Readback, Submitted, WaitRecursive,
      VerifyRequest, Rollback, RollbackRead, RollbackVerify, SettleStep
<1>4. CASE Admin
  <2>1. CASE AdminSwitch
    BY <2>1 DEF AdminSwitch, StartSwitch, OpenOperation
  <2>2. CASE ConfirmPrevious
    BY <2>2 DEF ConfirmPrevious
  <2> QED BY <1>4, <2>1, <2>2 DEF Admin
<1>5. CASE Environment
  BY <1>5
  DEF Environment, Crash, HealthChanges, NodeGoesUpOrDown, Propagate, CooldownExpires
<1>6. CASE UNCHANGED vars
  BY <1>6 DEF vars
<1> QED BY <1>1, <1>2, <1>3, <1>4, <1>5, <1>6 DEF Next

LEMMA ForeignStays == [Next]_vars => (foreign => foreign')
BY OtherWriter DEF ForeignWrite

LEMMA InitEntry == Init => ~InFlight(op) /\ EntryAt(op.active)
<1> SUFFICES ASSUME Init PROVE ~InFlight(op) /\ EntryAt(op.active)
  OBVIOUS
<1>1. CASE op = NoOperation
  BY <1>1 DEF NoOperation, InFlight, InFlightPhase, EntryAt
<1>2. ASSUME NEW n \in Node, NEW t, NEW m, op = VerifiedBy(n, t, m),
             dns = {AddrOf[n]}
      PROVE  ~InFlight(op) /\ EntryAt(op.active)
  <2>1. op.phase = "verified" /\ op.active = n
    BY <1>2 DEF VerifiedBy, NoOperation
  <2> QED BY <1>2, <2>1, SettledPhases DEF Init, EntryAt, InFlight
<1> QED BY <1>1, <1>2 DEF Init

LEMMA InitInv == Init => IInv
<1> SUFFICES ASSUME Init PROVE IInv
  OBVIOUS
<1>1. TypeInv
  BY InitType
<1>2. StoreFollows
  BY DEF Init, StoreFollows, Targeted, AfterRead
<1>3. ~InFlight(op) /\ EntryAt(op.active)
  BY InitEntry
<1>4. StoredRecord /\ StepRecord
  BY <1>3 DEF Init, StoredRecord, StepRecord
<1> QED BY <1>1, <1>2, <1>4 DEF IInv

LEMMA StepInv == IInv /\ [Next]_vars => IInv'
<1> SUFFICES ASSUME IInv, [Next]_vars PROVE IInv'
  OBVIOUS
<1>1. TypeInv /\ StoreFollows
  BY DEF IInv
<1>2. TypeInv' /\ StoreFollows'
  BY <1>1, StepType, StepStore
<1>3. ASSUME ~foreign'
      PROVE  StoredRecord' /\ StepRecord'
  <2>1. StoredRecord /\ StepRecord
    BY <1>3, ForeignStays DEF IInv
  <2>2. CASE Switch
    BY <1>1, <2>1, <2>2, PreflightRecord, ReadProviderRecord, ReadbackRecord,
       SubmittedRecord, RollbackRecord, SettleStepStepRecord DEF Switch
  <2>3. CASE UNCHANGED vars
    BY <2>1, <2>3
    DEF vars, swVars, dbVars, envVars, StoredRecord, StepRecord, EntryAt, InFlight,
        From, To
  <2> QED BY <1>1, <1>3, <2>1, <2>2, <2>3, ReconcileRecord, ReplaceRecord,
             AdminRecord, EnvironmentRecord DEF Next
<1> QED BY <1>2, <1>3 DEF IInv

LEMMA Invariance == Spec => []IInv
BY InitInv, StepInv, PTL DEF Spec

(* Whatever fails, is lost or restarts: when no operation is in flight,    *)
(* the provider and the resolvers hold exactly the address of the node the *)
(* database calls active, unless another actor has written the record.     *)
THEOREM EntryIsOwners == Spec => []SettledOwner
<1>1. IInv => SettledOwner
  BY DEF IInv, StoredRecord, EntryAt, SettledOwner
<1> QED BY <1>1, Invariance, PTL

(* At every point of an operation, and after a restart at any of them, the *)
(* database accounts for every address the provider may hold.              *)
THEOREM IntentIsLogged == Spec => []IntentLogged
<1>1. IInv => IntentLogged
  BY DEF IInv, StoredRecord, EntryAt, IntentLogged
<1> QED BY <1>1, Invariance, PTL

------------------------------------------------------------------------------
(* Steps of the stored operation. *)

(* The owner and the address to return to stay as they are.                *)
Kept ==
  /\ InFlight(op') <=> InFlight(op)
  /\ op'.active = op.active /\ op'.previous = op.previous

Opened ==
  /\ ~InFlight(op) /\ InFlight(op')
  /\ op'.active = op.active /\ op'.previous = NoAddr

PreviousRead ==
  /\ InFlight(op) /\ InFlight(op') /\ op.previous = NoAddr
  /\ op'.active = op.active /\ op'.previous \in Address /\ ExactRecord(op'.previous)

Restored == ~InFlight(op) /\ ~InFlight(op') /\ op'.active = op.active

Settled == pc = "settle" /\ op' = loc /\ ~InFlight(loc)

LEMMA OpenOperationSteps ==
  ASSUME ~InFlight(op), NEW r, NEW rest, OpenOperation(r, rest)
  PROVE  Kept \/ Opened
<1> DEFINE rec == [NoOperation EXCEPT !.phase = "preparing", !.trigger = r.trigger,
                                      !.mode = op.mode, !.active = op.active]
<1>1. InFlight(rec) /\ rec.previous = NoAddr /\ rec.active = op.active
  BY DEF NoOperation, InFlight, InFlightPhase
<1>2. op' = rec \/ op' = op
  BY DEF OpenOperation, Saved, SaveLost
<1> HIDE DEF rec
<1> QED BY <1>1, <1>2 DEF Kept, Opened, InFlight

(* Past the first read, an operation is stored again as it is, or in       *)
(* another phase of its flight.                                            *)
LEMMA WorkingSteps ==
  ASSUME TypeInv, StoreFollows, pc \in AfterRead \cup {"rc_next"},
         NEW p \in InFlightPhase, NEW e, NEW s, NEW d,
         \/ op' \in {op, loc, [loc EXCEPT !.phase = p],
                     [loc EXCEPT !.phase = p, !.error = e]}
         \/ op' = [loc EXCEPT !.phase = p, !.error = e, !.source = s, !.desired = d]
  PROVE  Kept
<1>1. /\ loc \in Operation /\ InFlight(op) /\ InFlight(loc)
      /\ op.active = loc.active /\ op.previous = loc.previous
  BY WorkingStore
<1>2. InFlight(op') /\ op'.active = op.active /\ op'.previous = op.previous
  BY <1>1 DEF Operation, InFlight
<1> QED BY <1>1, <1>2 DEF Kept

LEMMA SwitchSteps ==
  ASSUME TypeInv, StoreFollows, Switch
  PROVE  Kept \/ PreviousRead \/ Settled
<1>1. CASE UNCHANGED op
  BY <1>1 DEF Kept, InFlight
<1>2. CASE ReadProvider
  <2>1. /\ loc \in Operation /\ InFlight(op) /\ InFlight(loc)
        /\ op.active = loc.active /\ op.previous = NoAddr
    BY <1>2
    DEF ReadProvider, TypeInv, TypeOK, LocalsOK, StoreFollows, Targeted, AfterRead
  <2>2. CASE Fail \/ SaveLost
    BY <1>1, <2>2 DEF Fail, Settle, SaveLost
  <2>3. ASSUME NEW a \in Address, ExactRecord(a),
               op' = [loc EXCEPT !.previous = a, !.phase = "submitting_dns"]
        PROVE  PreviousRead
    BY <2>1, <2>3 DEF PreviousRead, Operation, InFlight, InFlightPhase
  <2> QED BY <1>2, <2>2, <2>3 DEF ReadProvider, Saved
<1>3. CASE SettleStep
  <2>1. pc = "settle" /\ op' \in {op, loc}
    BY <1>3 DEF SettleStep, Saved, SaveLost
  <2>2. CASE InFlight(loc)
    BY <2>1, <2>2 DEF StoreFollows, Kept, InFlight
  <2> QED BY <1>1, <2>1, <2>2 DEF Settled
<1>4. CASE Submitted \/ WaitRecursive \/ Rollback
  <2>1. pc \in AfterRead
    BY <1>4 DEF Submitted, WaitRecursive, Rollback, AfterRead
  <2>2. \/ op' \in {op, loc} \/ op' = [loc EXCEPT !.phase = "waiting_recursive"]
        \/ op' = [loc EXCEPT !.phase = "verifying_request"]
        \/ op' = [loc EXCEPT !.phase = "rolling_back", !.error = "other"]
    BY <1>4 DEF Submitted, WaitRecursive, Rollback, Saved, SaveLost, Settle
  <2> QED BY <2>1, <2>2, WorkingSteps, SettledPhases
<1>5. CASE Preflight \/ Readback \/ VerifyRequest \/ RollbackRead \/ RollbackVerify
  BY <1>1, <1>5
  DEF Preflight, Readback, VerifyRequest, RollbackRead, RollbackVerify, dbVars,
      Settle, Fail, RecoveryRequired, RollbackFailed, Verified
<1> QED BY <1>2, <1>3, <1>4, <1>5 DEF Switch

LEMMA ReconcileSteps ==
  ASSUME TypeInv, StoreFollows, Reconcile
  PROVE  Kept \/ Opened \/ Restored
<1>1. CASE UNCHANGED op
  BY <1>1 DEF Kept, InFlight
<1>2. CASE RestoreVerified
  BY <1>2
  DEF RestoreVerified, FailedBeforeDns, PriorStands, Saved, Restored, InFlight, InFlightPhase
<1>3. CASE UpgradeLegacyPin
  <2>1. op' = op \/ op' = [op EXCEPT !.mode = "preferred"]
    BY <1>3 DEF UpgradeLegacyPin, Saved, SaveLost
  <2> QED BY <1>1, <2>1 DEF Kept, TypeInv, TypeOK, Operation, InFlight
<1>4. CASE NextCandidate
  BY <1>4, OpenOperationSteps DEF NextCandidate, StartSwitch
<1>5. CASE RecoverNext
  <2>1. pc = "rc_next"
    BY <1>5 DEF RecoverNext
  <2>2. ASSUME NEW n, Resume(n)
        PROVE  Kept
    <3>1. \/ op' = op
          \/ op' = [loc EXCEPT !.phase = "failover_pending", !.error = "none",
                               !.source = seen, !.desired = AddrOf[n]]
      BY <2>2 DEF Resume, Saved, SaveLost
    <3>2. "failover_pending" \in InFlightPhase
      BY SettledPhases
    <3>3. pc \in AfterRead \cup {"rc_next"}
      BY <2>1
    <3>4. CASE op' = [loc EXCEPT !.phase = "failover_pending", !.error = "none",
                                 !.source = seen, !.desired = AddrOf[n]]
      BY <3>2, <3>3, <3>4, WorkingSteps
    <3>5. CASE op' = op
      BY <3>5 DEF Kept, InFlight
    <3> QED BY <3>1, <3>4, <3>5
  <2> QED BY <1>1, <1>5, <2>2 DEF RecoverNext, Settle, dbVars
<1>6. CASE RetryEnds \/ Evaluate \/ NoCandidate \/ RecoverStart \/ RecoverVerify
  BY <1>1, <1>6
  DEF RetryEnds, Evaluate, NoCandidate, RecoverStart, RecoverVerify, dbVars,
      Verified, RecoveryFailed, Settle
<1> QED BY <1>2, <1>3, <1>4, <1>5, <1>6 DEF Reconcile

(* Every step of the stored operation is one of six.                       *)
LEMMA StoredSteps ==
  ASSUME TypeInv, StoreFollows, [Next]_vars
  PROVE  Kept \/ Opened \/ PreviousRead \/ Restored \/ Settled \/ ConfirmPrevious
<1>1. CASE UNCHANGED op
  BY <1>1 DEF Kept, InFlight
<1>2. CASE Replace
  BY <1>1, <1>2
  DEF Replace, ReplaceCompare, ReplacePut, ReplacePrune, ReplaceConfirm, ReplaceDone,
      ReplaceFailed, ReplaceContinues, RollbackFailed, RecoveryFailed, Settle, dbVars
<1>3. CASE AdminSwitch
  BY <1>3, OpenOperationSteps DEF AdminSwitch, StartSwitch
<1>4. CASE Environment
  <2>1. CASE CooldownExpires
    BY <2>1 DEF CooldownExpires, Kept, TypeInv, TypeOK, Operation, InFlight
  <2> QED BY <1>1, <1>4, <2>1
      DEF Environment, Crash, HealthChanges, NodeGoesUpOrDown, ForeignWrite,
          Propagate, dbVars
<1>5. CASE UNCHANGED vars
  BY <1>1, <1>5 DEF vars, dbVars
<1> QED BY <1>2, <1>3, <1>4, <1>5, SwitchSteps, ReconcileSteps DEF Next, Admin

(* While an operation is in flight nothing overwrites what undoes it: not  *)
(* the scheduler, not an administrator, not a resumed failover.            *)
THEOREM UndoIsKept == Spec => UndoKept
<1>1. ASSUME TypeInv, StoreFollows, [Next]_vars,
             InFlight(op), InFlight(op'), op.previous # NoAddr
      PROVE  op'.previous = op.previous /\ op'.active = op.active
  <2>1. ~ConfirmPrevious
    BY <1>1, SettledPhases
    DEF ConfirmPrevious, Saved, TypeInv, TypeOK, Operation, InFlight
  <2> QED BY <1>1, <2>1, StoredSteps
      DEF Kept, Opened, PreviousRead, Restored, Settled
<1>2. IInv /\ [Next]_vars =>
        [InFlight(op) /\ InFlight(op') /\ op.previous # NoAddr
           => op'.previous = op.previous /\ op'.active = op.active]_vars
  BY <1>1 DEF IInv
<1> QED BY <1>2, Invariance, PTL DEF Spec, UndoKept

------------------------------------------------------------------------------
(* The switcher implements IngressTransaction. *)

(* Nothing but the PUT and the DELETE of ReplaceExactA, or another writer, *)
(* changes the record.                                                     *)
LEMMA RecordWriters ==
  ASSUME [Next]_vars, ~ForeignWrite, dns' # dns
  PROVE  ReplacePut \/ ReplacePrune
<1> USE DEF envSame, envVars
<1>1. ~Reconcile
  <2>1. ~NextCandidate
    BY DEF NextCandidate, StartSwitch, OpenOperation
  <2> QED BY <2>1
      DEF Reconcile, RestoreVerified, RetryEnds, UpgradeLegacyPin, Evaluate,
          NoCandidate, RecoverStart, RecoverNext, RecoverVerify
<1>2. ~Switch
  BY DEF Switch, Preflight, ReadProvider, Readback, Submitted, WaitRecursive,
         VerifyRequest, Rollback, RollbackRead, RollbackVerify, SettleStep
<1>3. ~Admin
  BY DEF Admin, AdminSwitch, ConfirmPrevious, StartSwitch, OpenOperation
<1>4. ~Environment
  BY DEF Environment, Crash, HealthChanges, NodeGoesUpOrDown, Propagate, CooldownExpires
<1> QED BY <1>1, <1>2, <1>3, <1>4
    DEF Next, Replace, ReplaceCompare, ReplaceConfirm, vars

(* Without another writer only ReplaceExactA writes the record, while the  *)
(* stored operation stays as it is, and never leaves the name empty.       *)
LEMMA RecordSteps ==
  ASSUME IInv, ~foreign', [Next]_vars, dns' # dns
  PROVE  /\ UNCHANGED op /\ InFlight(op) /\ op.previous # NoAddr
         /\ dns' \in (SUBSET Address) \ {{}}
<1>1. ReplacePut \/ ReplacePrune
  BY RecordWriters DEF ForeignWrite
<1>2. /\ TypeInv /\ StoreFollows /\ ~foreign /\ StepRecord
  BY ForeignStays DEF IInv
<1>3. pc \in {"put", "prune"}
  BY <1>1 DEF ReplacePut, ReplacePrune
<1>4. InFlight(op) /\ op.previous # NoAddr
  BY <1>2, <1>3, WorkingStore DEF AfterRead
<1>5. UNCHANGED op
  BY <1>1
  DEF ReplacePut, ReplacePrune, ReplaceFailed, ReplaceContinues, RollbackFailed,
      RecoveryFailed, Settle, dbVars
<1>6. To \in Address /\ From # To /\ dns \subseteq Address
  BY <1>2, <1>3, FromToType DEF TypeInv, TypeOK, RecordTypeOK, LocalsOK
<1>7. To \in dns' /\ dns' \subseteq Address
  <2>1. CASE ReplacePut
    BY <1>6, <2>1 DEF ReplacePut, PutA
  <2>2. CASE ReplacePrune
    BY <1>2, <1>6, <2>2 DEF ReplacePrune, StepRecord, DeleteA
  <2> QED BY <1>1, <2>1, <2>2
<1> QED BY <1>4, <1>5, <1>7

(* A step of the switcher is a step of the transaction or leaves it alone. *)
LEMMA TransactionStep ==
  ASSUME IInv, IInv', ~foreign', [Next]_vars
  PROVE  [Transaction!TNext]_(Transaction!tvars)
<1> USE DEF Transaction!TNext, Transaction!tvars, Transaction!Open,
            Transaction!Write, Transaction!Commit, Transaction!Abort, InFlight
<1>1. TypeInv /\ StoreFollows /\ StoredRecord /\ StepRecord
  BY ForeignStays DEF IInv
<1>2. CASE dns' # dns
  BY <1>2, RecordSteps DEF InFlight
<1>3. CASE UNCHANGED dns
  <2>1. CASE Kept
    BY <1>3, <2>1 DEF Kept
  <2>2. CASE Opened
    BY <1>3, <2>2 DEF Opened
  <2>3. CASE PreviousRead
    BY <1>3, <2>3, NoAddrAssumption DEF PreviousRead, ExactRecord
  <2>4. CASE Restored
    BY <1>3, <2>4 DEF Restored
  <2>5. CASE Settled
    <3>1. /\ InFlight(op) /\ ~InFlight(op') /\ op.previous = loc.previous
          /\ op' = loc /\ EntryAt(loc.active)
          /\ \/ loc.active \in Node
             \/ /\ loc.active = op.active
                /\ loc.previous = NoAddr \/ dns = {loc.previous}
      BY <1>1, <2>5 DEF Settled, StoreFollows, StepRecord, InFlight
    <3>2. CASE loc.active \in Node
      BY <1>3, <3>1, <3>2, NodeAssumption DEF EntryAt
    <3>3. CASE loc.active = op.active /\ (loc.previous = NoAddr \/ dns = {loc.previous})
      BY <1>3, <3>1, <3>3
    <3> QED BY <3>1, <3>2, <3>3
  <2>6. CASE ConfirmPrevious
    <3>1. /\ InFlight(op) /\ ~InFlight(op') /\ op'.active = op.active
          /\ op.previous # NoAddr /\ dns = {op.previous}
      BY <2>6, <1>1, SettledPhases
      DEF ConfirmPrevious, ExactRecord, Saved, TypeInv, TypeOK, Operation, InFlight
    <3> QED BY <1>3, <3>1
  <2> QED BY <1>1, <2>1, <2>2, <2>3, <2>4, <2>5, <2>6, StoredSteps
<1> QED BY <1>2, <1>3

LEMMA TransactionInit == Init => Transaction!TInit
<1> SUFFICES ASSUME Init PROVE Transaction!TInit
  OBVIOUS
<1>1. ~InFlight(op) /\ EntryAt(op.active)
  BY InitEntry
<1>2. op.active \in Node \cup {NoNode}
  BY InitType DEF TypeInv, TypeOK, Operation
<1>3. dns \in {{a} : a \in Address}
  BY NodeAssumption DEF Init
<1> QED BY <1>1, <1>2, <1>3 DEF Transaction!TInit, EntryAt

(* Where nobody else writes the record, the switcher with its phases,      *)
(* retries, lost saves and restarts is a transaction: every change of      *)
(* entry ends committed or with the record as it was.                      *)
THEOREM Implementation ==
  ASSUME "foreign" \notin Faults
  PROVE  Spec => ImplementsTransaction
<1>1. Init => ~foreign
  BY DEF Init
<1>2. ~foreign /\ [Next]_vars => ~foreign'
  BY OtherWriter DEF ForeignWrite, Fault
<1>3. Spec => []~foreign
  BY <1>1, <1>2, PTL DEF Spec
<1>4. IInv /\ IInv' /\ ~foreign' /\ [Next]_vars
        => [Transaction!TNext]_(Transaction!tvars)
  BY TransactionStep
<1> QED BY <1>3, <1>4, Invariance, TransactionInit, PTL
    DEF Spec, ImplementsTransaction, Transaction!TSpec

------------------------------------------------------------------------------
(* A pinned entry changes only at an administrator's request. *)

(* Where no operation is under way; between two candidates of the          *)
(* scheduler's loop there is a request, but no target yet.                 *)
Quiet == {"idle", "evaluate"}
Untargeted == Quiet \cup {"next", "retry"}
Administrators == {"admin_manual", "admin_fixed"}

(* The request served is an administrator's, and what will be stored says  *)
(* so; or it is the scheduler's, and nothing it works with is pinned.      *)
Requested ==
  /\ pc \notin Untargeted
  /\ req.trigger \in Administrators /\ loc.trigger = req.trigger

Scheduled ==
  /\ req.trigger \in Automatic
  /\ req.mode # "fixed" /\ op.mode # "fixed" /\ loc.mode # "fixed"

PinInv == IF pc \in Quiet THEN loc.mode # "fixed" ELSE Requested \/ Scheduled

(* A step of a goroutine that works for a target: the request stays, and   *)
(* the database is given what the goroutine has.                           *)
AtWork ==
  /\ pc \notin Untargeted /\ pc' \notin Untargeted
  /\ req'.trigger = req.trigger /\ req'.mode = req.mode
  /\ loc'.trigger = loc.trigger /\ loc'.mode \in {loc.mode, req.mode, "preferred"}
  /\ op' = op \/ (op'.trigger = loc.trigger /\ op'.mode = loc.mode)

(* A save was lost, and the handler gave up.                               *)
Dropped == Release /\ UNCHANGED op

LEMMA AtWorkPin == PinInv /\ AtWork => PinInv'
BY DEF PinInv, AtWork, Requested, Scheduled, Untargeted, Quiet

LEMMA ReleasePin == Release => PinInv'
BY DEF Release, Goto, NoOperation, PinInv, Quiet

LEMMA SettleWorks ==
  ASSUME pc \notin Untargeted, NEW rec, Settle(rec),
         rec.trigger = loc.trigger, rec.mode \in {loc.mode, req.mode, "preferred"}
  PROVE  AtWork
BY DEF Settle, Goto, AtWork, Untargeted, Quiet, dbVars

LEMMA SettledWorks ==
  ASSUME TypeOK, pc \notin Untargeted,
         Fail \/ RollbackFailed \/ RecoveryFailed \/ RecoveryRequired
           \/ Settle([loc EXCEPT !.phase = "rolled_back"])
           \/ Settle([loc EXCEPT !.phase = "failover_pending", !.error = "other"])
           \/ Verified(req.mode) \/ Verified("preferred")
  PROVE  AtWork
<1>1. loc \in Operation
  BY DEF TypeOK
<1>2. ASSUME NEW p, NEW e,
             \/ Settle([loc EXCEPT !.phase = p])
             \/ Settle([loc EXCEPT !.phase = p, !.error = e])
             \/ Settle([loc EXCEPT !.error = e])
      PROVE  AtWork
  <2> DEFINE x == [loc EXCEPT !.phase = p]
             y == [loc EXCEPT !.phase = p, !.error = e]
             z == [loc EXCEPT !.error = e]
  <2>1. \A r \in {x, y, z} : r.trigger = loc.trigger /\ r.mode = loc.mode
    BY <1>1 DEF Operation
  <2>2. Settle(x) \/ Settle(y) \/ Settle(z)
    BY <1>2
  <2> HIDE DEF x, y, z
  <2> QED BY <2>1, <2>2, SettleWorks
<1>3. ASSUME NEW m \in {req.mode, "preferred"}, Verified(m)
      PROVE  AtWork
  <2> DEFINE rec == [loc EXCEPT !.phase = "verified", !.mode = m, !.active = req.node,
                                !.error = "none", !.cooling = TRUE]
  <2>1. rec.trigger = loc.trigger /\ rec.mode = m
    BY <1>1 DEF Operation
  <2>2. Settle(rec)
    BY <1>3 DEF Verified
  <2> HIDE DEF rec
  <2> QED BY <1>3, <2>1, <2>2, SettleWorks
<1>4. CASE Verified(req.mode) \/ Verified("preferred")
  BY <1>3, <1>4
<1>5. CASE Fail \/ RecoveryRequired
  BY <1>2, <1>5, Zenon DEF Fail, RecoveryRequired
<1>6. CASE RollbackFailed \/ RecoveryFailed
  BY <1>2, <1>6, Zenon DEF RollbackFailed, RecoveryFailed
<1>7. CASE Settle([loc EXCEPT !.phase = "rolled_back"])
  BY <1>2, <1>7, Zenon
<1>8. CASE Settle([loc EXCEPT !.phase = "failover_pending", !.error = "other"])
  BY <1>2, <1>8, Zenon
<1> QED BY <1>4, <1>5, <1>6, <1>7, <1>8

LEMMA OpenOperationPin ==
  ASSUME TypeOK, NEW r \in Request, NEW rest, OpenOperation(r, rest),
         r.trigger \in Administrators \/
           (r.trigger \in Automatic /\ r.mode # "fixed" /\ op.mode # "fixed")
  PROVE  PinInv'
<1> DEFINE rec == [NoOperation EXCEPT !.phase = "preparing", !.trigger = r.trigger,
                                      !.mode = op.mode, !.active = op.active]
<1>1. rec.trigger = r.trigger /\ rec.mode = op.mode
  BY DEF NoOperation
<1>2. CASE Release
  BY <1>2, ReleasePin
<1>3. CASE ~Release
  <2>1. op' = rec /\ loc' = rec /\ req' = r /\ pc' = "preflight"
    BY <1>3 DEF OpenOperation, Saved, Goto
  <2> HIDE DEF rec
  <2> QED BY <1>1, <2>1 DEF PinInv, Requested, Scheduled, Untargeted, Quiet
<1> QED BY <1>2, <1>3

LEMMA ReplacePin ==
  ASSUME TypeOK, Replace
  PROVE  AtWork
<1>1. pc \in {"cas", "put", "prune", "final"}
  BY DEF Replace, ReplaceCompare, ReplacePut, ReplacePrune, ReplaceConfirm
<1>2. pc \notin Untargeted
  BY <1>1 DEF Untargeted, Quiet
<1>3. ASSUME NEW p \in {"put", "prune", "final", "readback", "rb_wait", "submitted"},
             Goto(p), UNCHANGED <<dbVars, loc, job, req, todo, seen>>
      PROVE  AtWork
  BY <1>2, <1>3 DEF AtWork, Goto, Untargeted, Quiet, dbVars
<1>4. ReplaceDone => AtWork
  BY <1>3 DEF ReplaceDone
<1>5. ReplaceFailed => AtWork
  BY <1>2, <1>3, SettledWorks DEF ReplaceFailed
<1>6. \A p \in {"put", "prune", "final"} : ReplaceContinues(p) => AtWork
  BY <1>3 DEF ReplaceContinues
<1> QED BY <1>4, <1>5, <1>6
    DEF Replace, ReplaceCompare, ReplacePut, ReplacePrune, ReplaceConfirm

(* A stored record of the goroutine's own: what it has, in another phase.  *)
LEMMA AdvancedWorks ==
  ASSUME TypeOK, pc \notin Untargeted, pc' \notin Untargeted, UNCHANGED req,
         NEW rec, rec.trigger = loc.trigger, rec.mode = loc.mode,
         loc' = rec, op' \in {op, rec}
  PROVE  AtWork
BY DEF AtWork

LEMMA BeginRollbackWorks ==
  ASSUME pc \notin Untargeted, BeginRollback, op' = op \/ op' = loc
         \/ (op'.trigger = loc.trigger /\ op'.mode = loc.mode)
  PROVE  AtWork
BY DEF BeginRollback, Goto, AtWork, Untargeted, Quiet

LEMMA PhasesWork ==
  ASSUME TypeOK, NEW p, NEW e
  PROVE  /\ [loc EXCEPT !.phase = p].trigger = loc.trigger
         /\ [loc EXCEPT !.phase = p].mode = loc.mode
         /\ [loc EXCEPT !.phase = p, !.error = e].trigger = loc.trigger
         /\ [loc EXCEPT !.phase = p, !.error = e].mode = loc.mode
BY DEF TypeOK, Operation

LEMMA PreflightWorks == TypeOK /\ Preflight => AtWork
<1> SUFFICES ASSUME TypeOK, Preflight PROVE AtWork
  OBVIOUS
<1> DEFINE target == [loc EXCEPT !.desired = AddrOf[req.node]]
           refused(rec) == [rec EXCEPT !.phase = "failed", !.error = "pre_dns"]
<1>1. /\ \A r \in {target, refused(loc), refused(target)} :
             r.trigger = loc.trigger /\ r.mode = loc.mode
      /\ pc \notin Untargeted
  BY DEF TypeOK, Operation, Preflight, Untargeted, Quiet
<1>2. \/ Settle(refused(loc)) \/ Settle(refused(target))
      \/ loc' = target /\ Goto("read") /\ UNCHANGED <<dbVars, job, req, todo, seen>>
  BY DEF Preflight
<1> HIDE DEF target, refused
<1>3. CASE Settle(refused(loc)) \/ Settle(refused(target))
  BY <1>1, <1>3, SettleWorks
<1>4. CASE loc' = target /\ Goto("read") /\ UNCHANGED <<dbVars, job, req, todo, seen>>
  BY <1>1, <1>4 DEF AtWork, Goto, Untargeted, Quiet, dbVars
<1> QED BY <1>2, <1>3, <1>4

LEMMA ReadProviderWorks ==
  ASSUME TypeOK, ReadProvider
  PROVE  AtWork \/ Dropped
<1>1. pc = "read" /\ loc \in Operation
  BY DEF ReadProvider, TypeOK
<1>2. pc \notin Untargeted
  BY <1>1 DEF Untargeted, Quiet
<1>3. CASE Fail
  BY <1>2, <1>3, SettledWorks
<1>4. ASSUME NEW a \in Address, NEW rec,
             rec = [loc EXCEPT !.previous = a, !.phase = "submitting_dns"],
             Saved(rec), loc' = rec, Goto("cas"), UNCHANGED req
      PROVE  AtWork
  <2>1. rec.trigger = loc.trigger /\ rec.mode = loc.mode
    BY <1>4 DEF TypeOK, Operation
  <2>2. op' = rec /\ pc' = "cas"
    BY <1>4 DEF Saved, Goto
  <2> QED BY <1>2, <1>4, <2>1, <2>2, AdvancedWorks DEF Untargeted, Quiet
<1>5. CASE SaveLost /\ UNCHANGED prior /\ Release
  BY <1>5 DEF SaveLost, Dropped
<1> QED BY <1>1, <1>3, <1>4, <1>5 DEF ReadProvider, Saved, SaveLost

LEMMA SubmittedWorks == TypeOK /\ Submitted => AtWork \/ Dropped
<1> SUFFICES ASSUME TypeOK, Submitted, ~Dropped PROVE AtWork
  OBVIOUS
<1> DEFINE rec == [loc EXCEPT !.phase = "waiting_recursive"]
<1>1. pc \notin Untargeted
  BY DEF Submitted, Untargeted, Quiet
<1>2. rec.trigger = loc.trigger /\ rec.mode = loc.mode
  BY PhasesWork
<1>3. \/ op' = rec /\ loc' = rec /\ pc' = "wait" /\ UNCHANGED req
      \/ op' = op /\ BeginRollback
      \/ op' = loc /\ pc' = "rc_wait" /\ UNCHANGED <<loc, req>>
  BY DEF Submitted, Saved, SaveLost, Goto, Dropped
<1> HIDE DEF rec
<1>4. CASE op' = op /\ BeginRollback
  BY <1>1, <1>4, BeginRollbackWorks
<1>5. CASE op' = rec /\ loc' = rec /\ pc' = "wait" /\ UNCHANGED req
  BY <1>1, <1>2, <1>5, AdvancedWorks DEF Untargeted, Quiet
<1>6. CASE op' = loc /\ pc' = "rc_wait" /\ UNCHANGED <<loc, req>>
  BY <1>1, <1>6 DEF AtWork, Untargeted, Quiet
<1> QED BY <1>3, <1>4, <1>5, <1>6

LEMMA WaitRecursiveWorks == TypeOK /\ WaitRecursive => AtWork
<1> SUFFICES ASSUME TypeOK, WaitRecursive PROVE AtWork
  OBVIOUS
<1> DEFINE rec == [loc EXCEPT !.phase = "verifying_request"]
<1>1. pc \notin Untargeted
  BY DEF WaitRecursive, Untargeted, Quiet
<1>2. rec.trigger = loc.trigger /\ rec.mode = loc.mode
  BY PhasesWork
<1>3. \/ op' = rec /\ loc' = rec /\ pc' = "verify" /\ UNCHANGED req
      \/ op' = op /\ BeginRollback
  BY DEF WaitRecursive, Saved, SaveLost, Goto
<1> HIDE DEF rec
<1>4. CASE op' = op /\ BeginRollback
  BY <1>1, <1>4, BeginRollbackWorks
<1>5. CASE op' = rec /\ loc' = rec /\ pc' = "verify" /\ UNCHANGED req
  BY <1>1, <1>2, <1>5, AdvancedWorks DEF Untargeted, Quiet
<1> QED BY <1>3, <1>4, <1>5

LEMMA ChecksWork == TypeOK /\ (Readback \/ VerifyRequest) => AtWork
<1> SUFFICES ASSUME TypeOK, Readback \/ VerifyRequest PROVE AtWork
  OBVIOUS
<1>1. pc \notin Untargeted
  BY DEF Readback, VerifyRequest, Untargeted, Quiet
<1>2. \/ BeginRollback /\ UNCHANGED op
      \/ Fail \/ RecoveryRequired \/ Verified(req.mode)
  BY DEF Readback, VerifyRequest
<1> QED BY <1>1, <1>2, BeginRollbackWorks, SettledWorks

LEMMA RollbackWorks == TypeOK /\ Rollback => AtWork
<1> SUFFICES ASSUME TypeOK, Rollback PROVE AtWork
  OBVIOUS
<1> DEFINE pending == [loc EXCEPT !.phase = "failover_pending", !.error = "other"]
           rolling == [loc EXCEPT !.phase = "rolling_back", !.error = "other"]
<1>1. pc \notin Untargeted
  BY DEF Rollback, Untargeted, Quiet
<1>2. \A r \in {pending, rolling} : r.trigger = loc.trigger /\ r.mode = loc.mode
  BY DEF TypeOK, Operation
<1>3. \/ Settle(pending)
      \/ op' \in {op, rolling} /\ loc' = rolling /\ pc' = "rb_read" /\ UNCHANGED req
  BY DEF Rollback, Saved, SaveLost, Goto
<1> HIDE DEF pending, rolling
<1>4. CASE Settle(pending)
  BY <1>1, <1>2, <1>4, SettleWorks
<1>5. CASE op' \in {op, rolling} /\ loc' = rolling /\ pc' = "rb_read" /\ UNCHANGED req
  BY <1>1, <1>2, <1>5, AdvancedWorks DEF Untargeted, Quiet
<1> QED BY <1>3, <1>4, <1>5

LEMMA RollbackStepsWork == TypeOK /\ (RollbackRead \/ RollbackVerify) => AtWork
<1> SUFFICES ASSUME TypeOK, RollbackRead \/ RollbackVerify PROVE AtWork
  OBVIOUS
<1>1. pc \notin Untargeted
  BY DEF RollbackRead, RollbackVerify, Untargeted, Quiet
<1>2. \/ pc' \in {"cas", "rb_wait"} /\ UNCHANGED <<op, loc, req>>
      \/ RollbackFailed \/ Settle([loc EXCEPT !.phase = "rolled_back"])
  BY DEF RollbackRead, RollbackVerify, Goto, dbVars
<1>3. CASE pc' \in {"cas", "rb_wait"} /\ UNCHANGED <<op, loc, req>>
  BY <1>1, <1>3 DEF AtWork, Untargeted, Quiet
<1> QED BY <1>1, <1>2, <1>3, SettledWorks

LEMMA RecoveryWorks ==
  ASSUME TypeOK, RecoverNext \/ RecoverVerify
  PROVE  AtWork \/ Dropped
<1>1. pc \notin Untargeted
  BY DEF RecoverNext, RecoverVerify, Untargeted, Quiet
<1>2. ASSUME NEW n \in Node, Resume(n), ~Dropped
      PROVE  AtWork
  <2> DEFINE rec == [loc EXCEPT !.phase = "failover_pending", !.error = "none",
                                !.source = seen, !.desired = AddrOf[n]]
             for == [req EXCEPT !.node = n]
  <2>1. /\ rec.trigger = loc.trigger /\ rec.mode = loc.mode
        /\ for.trigger = req.trigger /\ for.mode = req.mode
    BY DEF TypeOK, Operation, Request
  <2>2. op' = rec /\ loc' = rec /\ req' = for /\ pc' \in {"submitted", "cas"}
    BY <1>2 DEF Resume, Saved, SaveLost, Goto, Dropped
  <2> HIDE DEF rec, for
  <2> QED BY <1>1, <2>1, <2>2 DEF AtWork, Untargeted, Quiet
<1>3. CASE RecoverVerify
  BY <1>1, <1>3, SettledWorks DEF RecoverVerify
<1>4. CASE RecoverNext
  <2>1. \/ Settle([loc EXCEPT !.phase = "failover_pending", !.error = "other"])
        \/ \E n \in First(todo) : Resume(n)
        \/ UNCHANGED <<op, loc, pc, req>>
    BY <1>4 DEF RecoverNext, dbVars
  <2>2. CASE UNCHANGED <<op, loc, pc, req>>
    BY <1>1, <2>2 DEF AtWork
  <2>3. First(todo) \subseteq Node
    BY DEF First, TypeOK
  <2> QED BY <1>1, <1>2, <2>1, <2>2, <2>3, SettledWorks
<1> QED BY <1>3, <1>4

(* The other steps: an operation ends, the scheduler evaluates or starts.  *)
LEMMA SettleStepPin ==
  ASSUME TypeOK, PinInv, SettleStep
  PROVE  PinInv'
<1>1. CASE Release
  BY <1>1, ReleasePin
<1>2. CASE ~Release
  <2>1. /\ pc = "settle" /\ pc' = "retry" /\ loc' = NoOperation
        /\ req.trigger \in Automatic /\ req' = [req EXCEPT !.node = NoNode]
        /\ op' \in {op, loc}
    BY <1>2 DEF SettleStep, Goto, Saved, SaveLost
  <2>2. req'.trigger = req.trigger /\ req'.mode = req.mode
    BY <2>1 DEF TypeOK, Request
  <2>3. Scheduled
    BY <2>1 DEF PinInv, Requested, Scheduled, Quiet, Automatic, Administrators
  <2>4. loc'.mode # "fixed"
    BY <2>1 DEF NoOperation
  <2> QED BY <2>1, <2>2, <2>3, <2>4 DEF PinInv, Scheduled, Quiet
<1> QED BY <1>1, <1>2

LEMMA ReconcilePin ==
  ASSUME TypeOK, PinInv, Reconcile
  PROVE  PinInv'
<1>1. CASE RestoreVerified
  BY <1>1
  DEF RestoreVerified, PriorStands, Saved, Goto, PinInv, Requested, Scheduled,
      Untargeted, Quiet
<1>2. CASE RetryEnds \/ NoCandidate
  BY <1>2, ReleasePin DEF RetryEnds, NoCandidate
<1>3. CASE UpgradeLegacyPin
  BY <1>3, ReleasePin DEF UpgradeLegacyPin, Goto, PinInv, Quiet
<1>4. CASE Evaluate
  <2>1. CASE Release
    BY <2>1, ReleasePin
  <2>2. CASE ~Release
    <3> DEFINE asked(t) == [NoRequest EXCEPT !.trigger = t, !.mode = "preferred"]
    <3>1. PICK t \in Automatic : req' = asked(t)
      BY <1>4, <2>2 DEF Evaluate, Automatic
    <3>2. asked(t).trigger = t /\ asked(t).mode = "preferred"
      BY DEF NoRequest
    <3>3. /\ pc \in Quiet /\ pc' = "next" /\ op' = op /\ loc' = loc
          /\ op.mode # "fixed"
      BY <1>4, <2>2
      DEF Evaluate, HealthReason, QuotaReason, Automated, Goto, Quiet, dbVars
    <3> HIDE DEF asked
    <3> QED BY <3>1, <3>2, <3>3 DEF PinInv, Scheduled, Quiet
  <2> QED BY <2>1, <2>2
<1>5. CASE NextCandidate
  <2>1. PICK n \in First(todo) : OpenOperation([req EXCEPT !.node = n], todo \ {n})
    BY <1>5 DEF NextCandidate, StartSwitch
  <2> DEFINE for == [req EXCEPT !.node = n]
  <2>2. /\ n \in Node /\ for \in Request
        /\ for.trigger = req.trigger /\ for.mode = req.mode
    BY <2>1 DEF First, TypeOK, Request
  <2>3. Scheduled
    BY <1>5 DEF NextCandidate, PinInv, Requested, Untargeted, Quiet
  <2> HIDE DEF for
  <2>4. OpenOperation(for, todo \ {n})
    BY <2>1 DEF for
  <2> QED BY <2>2, <2>3, <2>4, OpenOperationPin DEF Scheduled
<1>6. CASE RecoverStart
  <2> DEFINE asked == [NoRequest EXCEPT !.trigger = op.trigger, !.mode = op.mode]
  <2>1. asked.trigger = op.trigger /\ asked.mode = op.mode
    BY DEF NoRequest
  <2>2. /\ req' = asked /\ loc' = op /\ op' = op /\ pc' = "rc_next"
        /\ op.trigger = "automatic_health" /\ op.mode = "preferred"
    BY <1>6 DEF RecoverStart, Resumable, Goto, dbVars
  <2> HIDE DEF asked
  <2> QED BY <2>1, <2>2 DEF PinInv, Scheduled, Quiet, Automatic
<1>7. CASE RecoverNext \/ RecoverVerify
  BY <1>7, RecoveryWorks, AtWorkPin, ReleasePin DEF Dropped
<1> QED BY <1>1, <1>2, <1>3, <1>4, <1>5, <1>6, <1>7 DEF Reconcile

LEMMA SwitchWorks ==
  ASSUME TypeOK, Switch
  PROVE  AtWork \/ Dropped \/ SettleStep
BY PreflightWorks, ReadProviderWorks, SubmittedWorks, WaitRecursiveWorks, ChecksWork,
   RollbackWorks, RollbackStepsWork
DEF Switch

LEMMA PinStep == TypeInv /\ PinInv /\ [Next]_vars => PinInv'
<1> SUFFICES ASSUME TypeOK, PinInv, [Next]_vars PROVE PinInv'
  BY DEF TypeInv
<1>1. CASE Replace
  BY <1>1, ReplacePin, AtWorkPin
<1>2. CASE Switch
  BY <1>2, SwitchWorks, SettleStepPin, AtWorkPin, ReleasePin DEF Dropped
<1>3. CASE UNCHANGED <<op, loc, pc, req>>
  BY <1>3 DEF PinInv, Requested, Scheduled, Untargeted, Quiet
<1>4. CASE AdminSwitch
  <2>1. PICK n \in Node, c \in {<<"admin_manual", "preferred">>, <<"admin_fixed", "fixed">>} :
          OpenOperation([node |-> n, trigger |-> c[1], mode |-> c[2]], {})
    BY <1>4 DEF AdminSwitch, StartSwitch
  <2> DEFINE r == [node |-> n, trigger |-> c[1], mode |-> c[2]]
  <2>2. r \in Request /\ r.trigger \in Administrators
    BY DEF Request, Trigger, Mode, Administrators
  <2> HIDE DEF r
  <2>3. OpenOperation(r, {})
    BY <2>1 DEF r
  <2> QED BY <2>2, <2>3, OpenOperationPin
<1>5. CASE ConfirmPrevious
  BY <1>5 DEF ConfirmPrevious, swVars, PinInv, Quiet
<1>6. CASE Environment
  <2>1. CASE CooldownExpires
    <3>1. op'.mode = op.mode /\ UNCHANGED <<loc, pc, req>>
      BY <2>1 DEF CooldownExpires, TypeOK, Operation, swVars
    <3> QED BY <3>1 DEF PinInv, Requested, Scheduled, Untargeted, Quiet
  <2>2. CASE Crash
    BY <2>2, ReleasePin DEF Crash
  <2> QED BY <1>3, <1>6, <2>1, <2>2
      DEF Environment, HealthChanges, NodeGoesUpOrDown, ForeignWrite, Propagate,
          dbVars, swVars
<1>7. CASE UNCHANGED vars
  BY <1>3, <1>7 DEF vars, swVars, dbVars
<1> QED BY <1>1, <1>2, <1>4, <1>5, <1>6, <1>7, ReconcilePin DEF Next, Admin

LEMMA PinInit == Init => PinInv
BY DEF Init, NoOperation, PinInv, Quiet

(* What a step may do to the stored entry: keep its node and its mode, or  *)
(* store what a goroutine at work has.                                     *)
LEMMA EntrySteps ==
  ASSUME TypeOK, [Next]_vars, ~LegacyPin
  PROVE  \/ op'.mode = op.mode /\ op'.active = op.active
         \/ pc \notin Untargeted /\ op'.trigger = loc.trigger
<1>1. CASE UNCHANGED op
  BY <1>1
<1>2. ASSUME NEW r, NEW rest, OpenOperation(r, rest)
      PROVE  op'.mode = op.mode /\ op'.active = op.active
  <2> DEFINE rec == [NoOperation EXCEPT !.phase = "preparing", !.trigger = r.trigger,
                                        !.mode = op.mode, !.active = op.active]
  <2>1. rec.mode = op.mode /\ rec.active = op.active
    BY DEF NoOperation
  <2>2. op' = rec \/ op' = op
    BY <1>2 DEF OpenOperation, Saved, SaveLost
  <2> HIDE DEF rec
  <2> QED BY <2>1, <2>2
<1>3. AtWork => op' = op \/ (pc \notin Untargeted /\ op'.trigger = loc.trigger)
  BY DEF AtWork
<1>4. CASE Reconcile
  <2>1. CASE RestoreVerified
    BY <2>1 DEF RestoreVerified, PriorStands, Saved
  <2>2. CASE NextCandidate
    BY <1>2, <2>2 DEF NextCandidate, StartSwitch
  <2>3. CASE RecoverNext \/ RecoverVerify
    BY <1>1, <1>3, <2>3, RecoveryWorks DEF Dropped
  <2>4. ~UpgradeLegacyPin
    BY DEF UpgradeLegacyPin
  <2> QED BY <1>1, <1>4, <2>1, <2>2, <2>3, <2>4
      DEF Reconcile, RetryEnds, Evaluate, NoCandidate, RecoverStart, dbVars
<1>5. CASE Replace
  BY <1>1, <1>3, <1>5, ReplacePin
<1>6. CASE Switch
  <2>1. CASE SettleStep
    BY <2>1 DEF SettleStep, Saved, SaveLost, Untargeted, Quiet
  <2> QED BY <1>1, <1>3, <1>6, <2>1, SwitchWorks DEF Dropped
<1>7. CASE Admin
  <2>1. CASE AdminSwitch
    BY <1>2, <2>1 DEF AdminSwitch, StartSwitch
  <2>2. CASE ConfirmPrevious
    BY <2>2 DEF ConfirmPrevious, Saved, TypeOK, Operation
  <2> QED BY <1>7, <2>1, <2>2 DEF Admin
<1>8. CASE Environment
  <2>1. CASE CooldownExpires
    BY <2>1 DEF CooldownExpires, TypeOK, Operation
  <2> QED BY <1>1, <1>8, <2>1
      DEF Environment, Crash, HealthChanges, NodeGoesUpOrDown, ForeignWrite,
          Propagate, dbVars
<1>9. CASE UNCHANGED vars
  BY <1>1, <1>9 DEF vars, dbVars
<1> QED BY <1>4, <1>5, <1>6, <1>7, <1>8, <1>9 DEF Next

(* Once an administrator has pinned the entry to a node, neither a failed  *)
(* health check nor a resumed failover, a rollback, a restart or a lost    *)
(* save unpins it or moves it: only an administrator's switch does.  (The  *)
(* manual switches of old UI versions, which look like pins, are excepted: *)
(* the scheduler upgrades those.)                                          *)
THEOREM PinIsKept == Spec => PinnedStaysPinned
<1>1. ASSUME TypeInv, PinInv, [Next]_vars, op.mode = "fixed", ~LegacyPin,
             op'.mode # "fixed" \/ op'.active # op.active
      PROVE  op'.trigger \in Administrators
  <2>1. pc \notin Untargeted /\ op'.trigger = loc.trigger
    BY <1>1, EntrySteps DEF TypeInv
  <2> QED BY <1>1, <2>1 DEF PinInv, Requested, Scheduled, Untargeted
<1>2. TypeInv /\ PinInv /\ [Next]_vars =>
        [op.mode = "fixed" /\ ~LegacyPin /\ (op'.mode # "fixed" \/ op'.active # op.active)
           => op'.trigger \in {"admin_manual", "admin_fixed"}]_vars
  BY <1>1 DEF Administrators
<1> QED BY <1>2, InitType, StepType, PinInit, PinStep, PTL DEF Spec, PinnedStaysPinned

------------------------------------------------------------------------------
(* A health failover does not go back to the node it leaves. *)

(* The candidates leave the active node out; the node the goroutine works  *)
(* for is one of them; and what a health failover rolls back is given back *)
(* to a node that serves.                                                  *)
RollingBack ==
  pc \in {"rb_read", "rb_wait"} \/ (pc \in Targeted /\ job = "rollback")

AwayInv ==
  /\ pc \in Quiet => todo = {}
  /\ pc # "settle" => op.active \notin todo
  /\ pc = "settle" /\ loc.phase = "failed" =>
       loc.active = op.active /\ op.active \notin todo
  /\ pc \in Targeted /\ loc.trigger = "automatic_health" => req.node # loc.active
  /\ RollingBack /\ loc.trigger = "automatic_health" => Trusted(loc.active)

(* A goroutine at work keeps its request and its candidates.               *)
LEMMA RequestStays ==
  ASSUME TypeOK, Switch \/ Replace \/ RecoverVerify
  PROVE  UNCHANGED <<todo, req>> \/ Dropped \/ SettleStep
<1>1. CASE Switch
  BY <1>1
  DEF Switch, Preflight, ReadProvider, Readback, Submitted, WaitRecursive, VerifyRequest,
      Rollback, RollbackRead, RollbackVerify, Settle, Fail, RecoveryRequired,
      RollbackFailed, Verified, BeginRollback, SaveLost, Dropped
<1>2. CASE Replace \/ RecoverVerify
  BY <1>2
  DEF Replace, ReplaceCompare, ReplacePut, ReplacePrune, ReplaceConfirm, ReplaceDone,
      ReplaceFailed, ReplaceContinues, RecoverVerify, Settle, RecoveryFailed,
      RollbackFailed, Verified
<1> QED BY <1>1, <1>2

(* An operation fails with the owner it began with.                        *)
LEMMA FailsAsItWas ==
  ASSUME TypeInv, StoreFollows, Switch \/ Replace \/ RecoverVerify,
         pc' = "settle", loc'.phase = "failed"
  PROVE  loc'.active = loc.active /\ pc \in Targeted
<1>1. loc \in Operation
  BY DEF TypeInv, TypeOK
<1>2. pc \in Targeted
  BY DEF Switch, Preflight, ReadProvider, Readback, Submitted, WaitRecursive,
         VerifyRequest, Rollback, RollbackRead, RollbackVerify, SettleStep, Release, Goto,
         Replace, ReplaceCompare, ReplacePut, ReplacePrune, ReplaceConfirm, RecoverVerify,
         Targeted, AfterRead
<1> SUFFICES loc'.active = loc.active
  BY <1>2
<1>3. ASSUME NEW rec, Settle(rec), rec.active = loc.active \/ rec.phase # "failed"
      PROVE  loc'.active = loc.active
  BY <1>3 DEF Settle
<1>4. ASSUME NEW m, Verified(m)
      PROVE  loc'.active = loc.active
  <2>1. [loc EXCEPT !.phase = "verified", !.mode = m, !.active = req.node,
                    !.error = "none", !.cooling = TRUE].phase # "failed"
    BY <1>1 DEF Operation
  <2> QED BY <1>3, <1>4, <2>1 DEF Verified
<1>5. ASSUME NEW p, NEW e,
             \/ Settle([loc EXCEPT !.phase = p])
             \/ Settle([loc EXCEPT !.phase = p, !.error = e])
             \/ Settle([loc EXCEPT !.error = e])
      PROVE  loc'.active = loc.active
  <2> DEFINE x == [loc EXCEPT !.phase = p]
             y == [loc EXCEPT !.phase = p, !.error = e]
             z == [loc EXCEPT !.error = e]
  <2>1. \A r \in {x, y, z} : r.active = loc.active
    BY <1>1 DEF Operation
  <2>2. Settle(x) \/ Settle(y) \/ Settle(z)
    BY <1>5
  <2> HIDE DEF x, y, z
  <2> QED BY <1>3, <2>1, <2>2
<1>6. Fail \/ RecoveryRequired => loc'.active = loc.active
  BY <1>5, Zenon DEF Fail, RecoveryRequired
<1>7. RollbackFailed \/ RecoveryFailed => loc'.active = loc.active
  BY <1>5, Zenon DEF RollbackFailed, RecoveryFailed
<1>8. CASE Preflight
  <2> DEFINE target == [loc EXCEPT !.desired = AddrOf[req.node]]
             refused(rec) == [rec EXCEPT !.phase = "failed", !.error = "pre_dns"]
  <2>1. \A r \in {target, refused(loc), refused(target)} : r.active = loc.active
    BY <1>1 DEF Operation
  <2>2. Settle(refused(loc)) \/ Settle(refused(target)) \/ loc' = target
    BY <1>8 DEF Preflight
  <2> HIDE DEF target, refused
  <2> QED BY <1>3, <2>1, <2>2
<1>9. CASE Rollback
  <2>1. \/ Settle([loc EXCEPT !.phase = "failover_pending", !.error = "other"])
        \/ pc' = "rb_read"
    BY <1>9 DEF Rollback, Goto
  <2> QED BY <1>5, <2>1, Zenon
<1>10. CASE ReadProvider \/ Readback \/ VerifyRequest \/ RollbackRead \/ RollbackVerify
  <2>1. \/ Fail \/ RecoveryRequired \/ RollbackFailed \/ Verified(req.mode)
        \/ Settle([loc EXCEPT !.phase = "rolled_back"])
        \/ pc' \in {"cas", "idle", "rollback", "rb_wait"}
    BY <1>10
    DEF ReadProvider, Readback, VerifyRequest, RollbackRead, RollbackVerify,
        BeginRollback, Release, Goto, TypeInv, TypeOK
  <2>2. CASE Settle([loc EXCEPT !.phase = "rolled_back"])
    BY <1>5, <2>2, Zenon
  <2> QED BY <1>4, <1>6, <1>7, <2>1, <2>2
<1>11. CASE Submitted \/ WaitRecursive \/ SettleStep
  BY <1>11
  DEF Submitted, WaitRecursive, SettleStep, BeginRollback, Release, Goto
<1>12. CASE Replace
  <2>1. UNCHANGED loc \/ RollbackFailed \/ RecoveryFailed
    BY <1>12
    DEF Replace, ReplaceCompare, ReplacePut, ReplacePrune, ReplaceConfirm, ReplaceDone,
        ReplaceFailed, ReplaceContinues
  <2> QED BY <1>7, <2>1
<1>13. CASE RecoverVerify
  BY <1>4, <1>7, <1>13 DEF RecoverVerify
<1> QED BY <1>2, <1>8, <1>9, <1>10, <1>11, <1>12, <1>13 DEF Switch

LEMMA ReleaseAway == Release => AwayInv'
BY DEF Release, Goto, NoOperation, AwayInv, Quiet, RollingBack, Targeted, AfterRead

(* When a rollback begins or goes on.                                      *)
LEMMA RollingBackSteps ==
  ASSUME TypeInv, Switch \/ Replace \/ RecoverVerify, RollingBack'
  PROVE  RollingBack \/ (Rollback /\ ~StaysPending)
<1>1. CASE Replace
  BY <1>1
  DEF Replace, ReplaceCompare, ReplacePut, ReplacePrune, ReplaceConfirm, ReplaceDone,
      ReplaceFailed, ReplaceContinues, Settle, RollbackFailed, RecoveryFailed, Goto,
      RollingBack, Targeted, AfterRead
<1>2. CASE Rollback
  <2>1. StaysPending \/ Settle([loc EXCEPT !.phase = "failover_pending", !.error = "other"])
          => pc' = "settle"
    BY <1>2 DEF Rollback, Settle, Goto
  <2> QED BY <1>2, <2>1 DEF RollingBack, Targeted, AfterRead
<1>3. CASE RollbackRead \/ RollbackVerify
  BY <1>3 DEF RollbackRead, RollbackVerify, RollingBack
<1>4. CASE Preflight \/ ReadProvider \/ Readback
  BY <1>4
  DEF Preflight, ReadProvider, Readback, BeginRollback, Fail, RecoveryRequired, Settle,
      Release, Goto, TypeInv, TypeOK, JobOK, RollingBack, Targeted, AfterRead
<1>5. CASE Submitted \/ WaitRecursive \/ VerifyRequest \/ SettleStep \/ RecoverVerify
  BY <1>5
  DEF Submitted, WaitRecursive, VerifyRequest, SettleStep, RecoverVerify, BeginRollback,
      Verified, RecoveryFailed, Settle, Release, Goto, TypeInv, TypeOK, JobOK,
      RollingBack, Targeted, AfterRead
<1> QED BY <1>1, <1>2, <1>3, <1>4, <1>5 DEF Switch

(* A step of a goroutine that works for a target.                          *)
LEMMA WorkAway ==
  ASSUME TypeInv, StoreFollows, StoreFollows', AwayInv, UNCHANGED health,
         Switch \/ Replace \/ RecoverVerify, ~SettleStep
  PROVE  AwayInv'
<1>1. CASE Dropped
  BY <1>1, ReleaseAway DEF Dropped
<1>2. CASE ~Dropped
  <2>1. UNCHANGED <<todo, req>>
    BY <1>2, RequestStays DEF TypeInv
  <2>2. AtWork
    <3>1. CASE RecoverVerify
      BY <1>2, <3>1, RecoveryWorks DEF TypeInv
    <3> QED BY <1>2, <3>1, SwitchWorks, ReplacePin DEF TypeInv
  <2>3. pc \in Targeted
    BY <1>2
    DEF Switch, Preflight, ReadProvider, Readback, Submitted, WaitRecursive,
        VerifyRequest, Rollback, RollbackRead, RollbackVerify, Replace, ReplaceCompare,
        ReplacePut, ReplacePrune, ReplaceConfirm, RecoverVerify, Targeted, AfterRead
  <2>4. op.active = loc.active /\ op.active \notin todo
    BY <2>3 DEF StoreFollows, AwayInv, Targeted, AfterRead
  <2>5. op'.active = op.active
    <3>1. CASE Switch
      BY <2>3, <3>1, SwitchSteps DEF Kept, PreviousRead, Settled, Targeted, AfterRead
    <3>2. CASE Replace \/ RecoverVerify
      BY <3>2
      DEF Replace, ReplaceCompare, ReplacePut, ReplacePrune, ReplaceConfirm, ReplaceDone,
          ReplaceFailed, ReplaceContinues, RecoverVerify, Settle, RecoveryFailed,
          RollbackFailed, Verified, dbVars
    <3> QED BY <3>1, <3>2
  <2>6. loc'.trigger = loc.trigger /\ pc' \notin Quiet
    BY <2>2 DEF AtWork, Untargeted
  <2>7. pc' \in Targeted => loc'.active = loc.active
    BY <2>4, <2>5 DEF StoreFollows
  <2>8. pc' = "settle" /\ loc'.phase = "failed" =>
          loc'.active = op'.active /\ op'.active \notin todo'
    BY <2>1, <2>4, <2>5, FailsAsItWas
  <2>9. pc' \in Targeted /\ loc'.trigger = "automatic_health" => req'.node # loc'.active
    BY <2>1, <2>3, <2>6, <2>7 DEF AwayInv
  <2>10. ASSUME RollingBack', loc'.trigger = "automatic_health"
         PROVE  Trusted(loc.active)
    BY <2>6, <2>10, RollingBackSteps DEF AwayInv, StaysPending
  <2>11. RollingBack' => pc' \in Targeted
    BY DEF RollingBack, Targeted, AfterRead
  <2>12. Trusted(loc.active) /\ loc'.active = loc.active => Trusted(loc.active)'
    BY DEF Trusted, Eligible
  <2> QED BY <2>1, <2>4, <2>5, <2>6, <2>7, <2>8, <2>9, <2>10, <2>11, <2>12 DEF AwayInv
<1> QED BY <1>1, <1>2

LEMMA SettleStepAway ==
  ASSUME TypeOK, AwayInv, SettleStep
  PROVE  AwayInv'
<1>1. CASE Release
  BY <1>1, ReleaseAway
<1>2. CASE ~Release
  <2>1. /\ pc = "settle" /\ pc' = "retry" /\ loc' = NoOperation
        /\ loc.phase = "failed" /\ todo' = todo /\ op' \in {op, loc}
    BY <1>2 DEF SettleStep, Goto, Saved, SaveLost
  <2>2. op'.active \notin todo'
    BY <2>1 DEF AwayInv
  <2>3. loc'.trigger # "automatic_health"
    BY <2>1 DEF NoOperation
  <2> QED BY <2>1, <2>2, <2>3 DEF AwayInv, Quiet, Targeted, AfterRead
<1> QED BY <1>1, <1>2

LEMMA OpenOperationAway ==
  ASSUME TypeOK, pc \in {"idle", "next"}, JobOK, AwayInv,
         NEW r, NEW rest \in SUBSET todo, OpenOperation(r, rest),
         r.trigger = "automatic_health" => r.node # op.active
  PROVE  AwayInv'
<1> DEFINE rec == [NoOperation EXCEPT !.phase = "preparing", !.trigger = r.trigger,
                                      !.mode = op.mode, !.active = op.active]
<1>1. rec.active = op.active /\ rec.trigger = r.trigger
  BY DEF NoOperation
<1>2. CASE Release
  BY <1>2, ReleaseAway
<1>3. CASE ~Release
  <2>1. /\ op' = rec /\ loc' = rec /\ req' = r /\ pc' = "preflight" /\ todo' = rest
        /\ UNCHANGED job
    BY <1>3 DEF OpenOperation, Saved, Goto
  <2>2. job # "rollback" /\ op.active \notin rest
    BY DEF JobOK, AwayInv
  <2> HIDE DEF rec
  <2> QED BY <1>1, <2>1, <2>2 DEF AwayInv, Quiet, RollingBack
<1> QED BY <1>2, <1>3

LEMMA RecoverNextAway ==
  ASSUME TypeInv, StoreFollows, AwayInv, RecoverNext
  PROVE  AwayInv'
<1>1. /\ pc = "rc_next" /\ loc \in Operation /\ op.active = loc.active
      /\ op.active \notin todo
  BY DEF RecoverNext, TypeInv, TypeOK, StoreFollows, AwayInv
<1>2. CASE Settle([loc EXCEPT !.phase = "failover_pending", !.error = "other"])
  <2> DEFINE rec == [loc EXCEPT !.phase = "failover_pending", !.error = "other"]
  <2>1. rec.phase # "failed"
    BY <1>1 DEF Operation
  <2>2. loc' = rec /\ pc' = "settle" /\ UNCHANGED <<op, todo>>
    BY <1>2 DEF Settle, Goto
  <2> HIDE DEF rec
  <2> QED BY <2>1, <2>2 DEF AwayInv, Quiet, RollingBack, Targeted, AfterRead
<1>3. CASE \E n \in First(todo) : todo' = todo \ {n} /\ UNCHANGED <<op, loc, pc>>
  BY <1>1, <1>3 DEF AwayInv, Quiet, RollingBack, Targeted, AfterRead
<1>4. ASSUME NEW n \in First(todo), Resume(n), ~Release
      PROVE  AwayInv'
  <2> DEFINE rec == [loc EXCEPT !.phase = "failover_pending", !.error = "none",
                                !.source = seen, !.desired = AddrOf[n]]
             for == [req EXCEPT !.node = n]
  <2>1. rec.active = loc.active /\ for.node = n
    BY <1>1 DEF TypeInv, TypeOK, Operation, Request
  <2>2. /\ op' = rec /\ loc' = rec /\ req' = for /\ pc' \in {"submitted", "cas"}
        /\ job' = "recover" /\ UNCHANGED todo
    BY <1>4 DEF Resume, Saved, Goto
  <2>3. n # op.active
    BY <1>1 DEF First
  <2> HIDE DEF rec, for
  <2> QED BY <1>1, <2>1, <2>2, <2>3 DEF AwayInv, Quiet, RollingBack
<1>5. \/ Settle([loc EXCEPT !.phase = "failover_pending", !.error = "other"])
      \/ \E n \in First(todo) : todo' = todo \ {n} /\ UNCHANGED <<op, loc, pc>>
      \/ \E n \in First(todo) : Resume(n)
  BY DEF RecoverNext, dbVars
<1> QED BY <1>2, <1>3, <1>4, <1>5, ReleaseAway

LEMMA ReconcileAway ==
  ASSUME TypeInv, StoreFollows, StoreFollows', AwayInv, UNCHANGED health, Reconcile
  PROVE  AwayInv'
<1>1. CASE RestoreVerified
  <2>1. /\ op'.active = op.active /\ UNCHANGED <<loc, todo>>
        /\ pc \in {"idle", "retry"} /\ pc' = IF pc = "idle" THEN "evaluate" ELSE "next"
    BY <1>1 DEF RestoreVerified, PriorStands, Saved, Goto
  <2> QED BY <2>1 DEF AwayInv, Quiet, RollingBack, Targeted, AfterRead
<1>2. CASE RetryEnds \/ NoCandidate
  BY <1>2, ReleaseAway DEF RetryEnds, NoCandidate
<1>3. CASE UpgradeLegacyPin
  <2>1. CASE Release
    BY <2>1, ReleaseAway
  <2>2. CASE ~Release
    <3>1. /\ op' = [op EXCEPT !.mode = "preferred"] /\ op \in Operation
          /\ pc \in Quiet /\ pc' = "evaluate" /\ UNCHANGED <<loc, todo>>
      BY <1>3, <2>2 DEF UpgradeLegacyPin, Saved, Goto, Quiet, TypeInv, TypeOK
    <3>2. op'.active = op.active
      BY <3>1 DEF Operation
    <3> QED BY <3>1, <3>2 DEF AwayInv, Quiet, RollingBack, Targeted, AfterRead
  <2> QED BY <2>1, <2>2
<1>4. CASE Evaluate
  <2>1. CASE Release
    BY <2>1, ReleaseAway
  <2>2. CASE ~Release
    <3>1. todo' = Candidates(op.active) /\ pc' = "next" /\ op' = op
      BY <1>4, <2>2 DEF Evaluate, Goto, dbVars
    <3> QED BY <3>1 DEF Candidates, AwayInv, Quiet, RollingBack, Targeted, AfterRead
  <2> QED BY <2>1, <2>2
<1>5. CASE NextCandidate
  <2>1. PICK n \in First(todo) : OpenOperation([req EXCEPT !.node = n], todo \ {n})
    BY <1>5 DEF NextCandidate, StartSwitch
  <2> DEFINE for == [req EXCEPT !.node = n]
  <2>2. for.node = n
    BY DEF TypeInv, TypeOK, Request
  <2>3. pc = "next" /\ n # op.active
    BY <1>5 DEF NextCandidate, First, AwayInv
  <2> HIDE DEF for
  <2>4. OpenOperation(for, todo \ {n})
    BY <2>1 DEF for
  <2> QED BY <2>2, <2>3, <2>4, OpenOperationAway DEF TypeInv
<1>6. CASE RecoverStart
  <2>1. /\ op' = op /\ pc' = "rc_next" /\ todo' = Candidates(op.active)
    BY <1>6 DEF RecoverStart, Goto, dbVars
  <2> QED BY <2>1 DEF Candidates, AwayInv, Quiet, RollingBack, Targeted, AfterRead
<1>7. CASE RecoverNext
  BY <1>7, RecoverNextAway
<1>8. CASE RecoverVerify
  <2>1. ~SettleStep
    BY <1>8 DEF RecoverVerify, SettleStep
  <2> QED BY <1>8, <2>1, WorkAway
<1> QED BY <1>1, <1>2, <1>3, <1>4, <1>5, <1>6, <1>7, <1>8 DEF Reconcile

LEMMA AwayStep ==
  ASSUME "health" \notin Faults, TypeInv, StoreFollows, StoreFollows', AwayInv,
         [Next]_vars
  PROVE  AwayInv'
<1>1. UNCHANGED health
  <2> USE DEF envSame, envVars
  <2>1. Reconcile \/ Replace \/ Switch => UNCHANGED health
    BY DEF Reconcile, RestoreVerified, RetryEnds, UpgradeLegacyPin, Evaluate,
           NextCandidate, StartSwitch, OpenOperation, NoCandidate, RecoverStart,
           RecoverNext, RecoverVerify, Replace, ReplaceCompare, ReplacePut, ReplacePrune,
           ReplaceConfirm, Switch, Preflight, ReadProvider, Readback, Submitted,
           WaitRecursive, VerifyRequest, Rollback, RollbackRead, RollbackVerify, SettleStep
  <2>2. Admin \/ Environment \/ UNCHANGED vars => UNCHANGED health
    BY DEF Admin, AdminSwitch, StartSwitch, OpenOperation, ConfirmPrevious, Environment,
           Crash, HealthChanges, NodeGoesUpOrDown, ForeignWrite, Propagate,
           CooldownExpires, vars
  <2> QED BY <2>1, <2>2 DEF Next
<1>2. CASE Replace
  <2>1. ~SettleStep
    BY <1>2
    DEF Replace, ReplaceCompare, ReplacePut, ReplacePrune, ReplaceConfirm, SettleStep
  <2> QED BY <1>1, <1>2, <2>1, WorkAway
<1>3. CASE Switch
  BY <1>1, <1>3, WorkAway, SettleStepAway DEF TypeInv
<1>4. CASE op'.active = op.active /\ UNCHANGED <<loc, pc, job, req, todo>>
  <2>1. Trusted(loc.active) => Trusted(loc.active)'
    BY <1>1, <1>4 DEF Trusted, Eligible
  <2> QED BY <1>4, <2>1 DEF AwayInv, RollingBack
<1>5. CASE AdminSwitch
  <2>1. PICK n \in Node, c \in {<<"admin_manual", "preferred">>, <<"admin_fixed", "fixed">>} :
          OpenOperation([node |-> n, trigger |-> c[1], mode |-> c[2]], {})
    BY <1>5 DEF AdminSwitch, StartSwitch
  <2> DEFINE r == [node |-> n, trigger |-> c[1], mode |-> c[2]]
  <2>2. r.trigger # "automatic_health" /\ pc = "idle"
    BY <1>5 DEF AdminSwitch
  <2> HIDE DEF r
  <2>3. OpenOperation(r, {})
    BY <2>1 DEF r
  <2> QED BY <2>2, <2>3, OpenOperationAway DEF TypeInv
<1>6. CASE ConfirmPrevious
  <2>1. op'.active = op.active
    BY <1>6 DEF ConfirmPrevious, Saved, TypeInv, TypeOK, Operation
  <2> QED BY <1>4, <1>6, <2>1 DEF ConfirmPrevious, swVars
<1>7. CASE Environment
  <2>1. CASE CooldownExpires
    <3>1. op'.active = op.active
      BY <2>1 DEF CooldownExpires, TypeInv, TypeOK, Operation
    <3> QED BY <1>4, <2>1, <3>1 DEF CooldownExpires, swVars
  <2>2. CASE Crash
    BY <2>2, ReleaseAway DEF Crash
  <2> QED BY <1>4, <1>7, <2>1, <2>2
      DEF Environment, HealthChanges, NodeGoesUpOrDown, ForeignWrite, Propagate,
          dbVars, swVars
<1>8. CASE UNCHANGED vars
  BY <1>4, <1>8 DEF vars, swVars, dbVars
<1> QED BY <1>1, <1>2, <1>3, <1>5, <1>6, <1>7, <1>8, ReconcileAway DEF Next, Admin

LEMMA AwayInit == Init => AwayInv
BY DEF Init, NoOperation, AwayInv, Quiet, RollingBack, Targeted, AfterRead

(* While no node changes its health and nobody else writes the record, no  *)
(* path of a health failover, neither its rollback nor a resumed one, puts *)
(* the address of the dead node it leaves back into DNS.  (A node that     *)
(* fails between the check of a rollback and its PUT is not noticed: the   *)
(* two hypotheses are those of the run that checks the property.)          *)
THEOREM DeadNodeIsLeft ==
  ASSUME "health" \notin Faults, "foreign" \notin Faults
  PROVE  Spec => NoReturnToDeadNode
<1>1. ASSUME TypeInv, AwayInv, [Next]_vars, loc.trigger = "automatic_health",
             loc.active # NoNode, pc # "idle", ~Trusted(loc.active),
             AddrOf[loc.active] \notin dns
      PROVE  AddrOf[loc.active] \notin dns'
  <2>1. CASE UNCHANGED dns
    BY <1>1, <2>1
  <2>2. CASE ReplacePrune
    BY <1>1, <2>2 DEF ReplacePrune, DeleteA
  <2>3. CASE ReplacePut
    <3>1. /\ pc = "put" /\ loc.desired = AddrOf[req.node] /\ req.node \in Node
          /\ loc.active \in Node
      BY <1>1, <2>3
      DEF ReplacePut, TypeInv, TypeOK, LocalsOK, Targeted, AfterRead, Operation
    <3>2. job # "rollback" /\ req.node # loc.active
      BY <1>1, <3>1 DEF AwayInv, RollingBack, Targeted, AfterRead
    <3>3. To = AddrOf[req.node] /\ AddrOf[req.node] # AddrOf[loc.active]
      BY <3>1, <3>2, NodeAssumption DEF To
    <3> QED BY <1>1, <2>3, <3>3 DEF ReplacePut, PutA
  <2>4. ~ForeignWrite
    BY DEF ForeignWrite, Fault
  <2> QED BY <1>1, <2>1, <2>2, <2>3, <2>4, RecordWriters
<1>2. TypeInv /\ AwayInv /\ [Next]_vars =>
        [loc.trigger = "automatic_health" /\ loc.active # NoNode /\ pc # "idle"
           /\ ~Trusted(loc.active) /\ AddrOf[loc.active] \notin dns
         => AddrOf[loc.active] \notin dns']_vars
  BY <1>1
<1>3. TypeInv /\ StoreFollows /\ AwayInv /\ [Next]_vars
        => (TypeInv /\ StoreFollows /\ AwayInv)'
  BY StepType, StepStore, AwayStep
<1>4. Init => TypeInv /\ StoreFollows /\ AwayInv
  BY InitInv, AwayInit DEF IInv
<1> QED BY <1>2, <1>3, <1>4, PTL DEF Spec, NoReturnToDeadNode
==============================================================================
