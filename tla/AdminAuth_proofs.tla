-------------------------- MODULE AdminAuth_proofs --------------------------
(***************************************************************************)
(* Theorems about AdminAuth, for any set of requests, any lifetimes, limit *)
(* and window: what a request is granted follows from the enrolment of     *)
(* now, a code is accepted once, guesses are limited, and a logout ends    *)
(* its family.                                                             *)
(***************************************************************************)
EXTENDS AdminAuth, FiniteSetTheorems, SequenceTheorems, TLAPS

Kinds == {"none", "login", "begin", "token", "confirm", "disable"}
Phases == {"done", "waiting", "code", "compare", "save", "grant", "replace", "authorised"}
Requests == [kind : Kinds, phase : Phases, code : Int, epoch : Nat, session : Nat, setup : Nat]
Configs == [enrolled : {FALSE}] \cup [enrolled : {TRUE}, lastUsed : Int]
Sessions == [expires : Nat, family : Nat, active : BOOLEAN, epoch : Nat]
Setups == [session : Nat, expires : Nat]
Failures == [n : 0..FailureLimit, at : Nat]

OfSession == {"begin", "confirm", "disable"}

(* Requests are in phases of their kind.                                   *)
FlowOK ==
    /\ auFlow \in [AuthRequests -> Requests]
    /\ \A r \in AuthRequests :
          /\ In(r, "done") => auFlow[r].kind = "none"
          /\ auFlow[r].phase \in {"code", "compare", "save"} =>
                auFlow[r].kind \in {"login", "begin", "disable"}
          /\ In(r, "authorised") => auFlow[r].kind = "token"
          /\ In(r, "grant") => auFlow[r].kind \in {"login", "begin", "confirm", "disable"}
          /\ In(r, "replace") => auFlow[r].kind \in Writers
          /\ auFlow[r].kind \in OfSession => auFlow[r].session \in DOMAIN auIssued

DataOK ==
    /\ auNow \in 2..MaxAuthNow /\ auEmergency \in BOOLEAN
    /\ auConfig \in Configs /\ auEpoch \in Nat /\ auAccepted \subseteq Int
    /\ auIssued \in Seq(Nat)
    /\ \A s \in DOMAIN auSessions :
          /\ s \in DOMAIN auIssued /\ auSessions[s] \in Sessions
          /\ auSessions[s].family = auIssued[s]
    /\ auSetupCount \in Nat
    /\ \A i \in DOMAIN auSetups :
          /\ i \in 1..auSetupCount /\ auSetups[i] \in Setups
          /\ auSetups[i].session \in DOMAIN auIssued
    /\ auTokenFails \in Failures /\ auTotpFails \in Failures

(* authStateMu: a writer is alone.                                         *)
LockOK ==
    \A r, q \in AuthRequests :
        r # q /\ Holds(r, Writers) => ~Holds(q, Readers \cup Writers)

(* What a request was told of the enrolment when it took the lock holds.   *)
EnforcedOK ==
    \A r \in AuthRequests :
        /\ In(r, "authorised") => ~Enforced
        /\ auFlow[r].phase \in {"code", "compare", "save"} => Enforced

(* totpMu: one request saves its step, later than those used before.       *)
TotpOK ==
    /\ \A r, q \in AuthRequests : In(r, "save") /\ In(q, "save") => r = q
    /\ \A r \in AuthRequests : In(r, "save") => Fresh(auFlow[r].code)
    /\ auAccepted # {} => auConfig.enrolled
    /\ \A step \in auAccepted : step <= auConfig.lastUsed

(* The counter counts the guesses of the window.                           *)
GuessOK ==
    /\ auGuesses \in Seq(Nat)
    /\ Len(auGuesses) <= auTotpFails.n
    /\ \A i \in DOMAIN auGuesses : auGuesses[i] <= auTotpFails.at
    /\ auTotpFails.at <= auNow

(* Unless they are being replaced, the sessions in use are of this         *)
(* enrolment, and so is a login with the lock.                             *)
EpochOK ==
    /\ \A r \in AuthRequests : Holds(r, {"login"}) => auFlow[r].epoch = auEpoch
    /\ (\A r \in AuthRequests : ~In(r, "replace")) =>
           \A s \in DOMAIN auSessions : ActiveSession(s) => auSessions[s].epoch = auEpoch

(* Every session of a family is known, or expired with the whole family.   *)
Covered(family) ==
    \A s \in DOMAIN auIssued : auIssued[s] = family => s \in DOMAIN auSessions \cup auLapsed

FamilyOK ==
    /\ \A s \in DOMAIN auIssued : auIssued[s] <= s
    /\ \A family \in auEnded : family \in Nat /\ family <= Len(auIssued)
    /\ \A s \in DOMAIN auSessions : ActiveSession(s) => Covered(auIssued[s])
    /\ \A a, s \in DOMAIN auSessions :
          auSessions[a].active /\ auIssued[s] = auIssued[a] =>
              auSessions[a].expires <= auSessions[s].expires
    /\ \A r \in AuthRequests : Holds(r, Writers) =>
          /\ Covered(auIssued[auFlow[r].session])
          /\ auIssued[auFlow[r].session] \notin auEnded

AuthInv ==
    /\ FlowOK /\ DataOK /\ LockOK
    /\ EnforcedOK /\ TotpOK /\ GuessOK
    /\ EpochOK
    /\ FamilyOK /\ LogoutEndsFamily

-----------------------------------------------------------------------------
(* Requests                                                                *)

(* The request r moves, the others stay.                                   *)
Moved(r) ==
    /\ auFlow' \in [AuthRequests -> Requests]
    /\ \A q \in AuthRequests : q # r => auFlow'[q] = auFlow[q]
MovedTo(r, phase) ==
    /\ Moved(r)
    /\ auFlow'[r].kind = auFlow[r].kind /\ auFlow'[r].session = auFlow[r].session
    /\ auFlow'[r].phase = phase
Ended(r) == Moved(r) /\ auFlow'[r].kind = "none" /\ auFlow'[r].phase = "done"

LEMMA Numbers ==
  /\ SessionTTL \in Nat /\ SetupTTL \in Nat /\ FailureLimit \in Nat /\ FailureWindow \in Nat
  /\ MaxAuthNow \in Nat /\ MaxAuthNow >= 2
BY AuthAssumption

(* The ways a request moves.                                               *)
LEMMA FlowMoves ==
  ASSUME FlowOK, NEW r \in AuthRequests, NEW p \in Phases, NEW c \in Int, auEpoch \in Nat
  PROVE  /\ Goes(r, p) => MovedTo(r, p) /\ auFlow'[r].code = auFlow[r].code
                                        /\ auFlow'[r].epoch = auFlow[r].epoch
         /\ Enters(r, p) => MovedTo(r, p) /\ auFlow'[r].epoch = auEpoch
         /\ GoesWith(r, p, c) => MovedTo(r, p) /\ auFlow'[r].code = c
                                               /\ auFlow'[r].epoch = auFlow[r].epoch
         /\ EndsFlow(r) => Ended(r)
<1> USE DEF MovedTo, Moved
<1>1. auFlow \in [AuthRequests -> Requests] /\ auFlow[r] \in Requests
  BY DEF FlowOK
<1>2. ASSUME Goes(r, p)
      PROVE  MovedTo(r, p) /\ auFlow'[r].code = auFlow[r].code
                           /\ auFlow'[r].epoch = auFlow[r].epoch
  <2> DEFINE new == [auFlow[r] EXCEPT !.phase = p]
  <2>1. /\ new \in Requests /\ new.phase = p /\ new.kind = auFlow[r].kind
        /\ new.session = auFlow[r].session /\ new.code = auFlow[r].code
        /\ new.epoch = auFlow[r].epoch
    BY <1>1 DEF Requests
  <2>2. auFlow' = [auFlow EXCEPT ![r] = new]
    BY <1>2 DEF Goes
  <2> HIDE DEF new
  <2>3. QED
    BY <1>1, <2>1, <2>2
<1>3. ASSUME Enters(r, p)
      PROVE  MovedTo(r, p) /\ auFlow'[r].epoch = auEpoch
  <2> DEFINE new == [auFlow[r] EXCEPT !.phase = p, !.epoch = auEpoch]
  <2>1. /\ new \in Requests /\ new.phase = p /\ new.kind = auFlow[r].kind
        /\ new.session = auFlow[r].session /\ new.epoch = auEpoch
    BY <1>1 DEF Requests
  <2>2. auFlow' = [auFlow EXCEPT ![r] = new]
    BY <1>1, <1>3 DEF Enters, Requests
  <2> HIDE DEF new
  <2>3. QED
    BY <1>1, <2>1, <2>2
<1>4. ASSUME GoesWith(r, p, c)
      PROVE  MovedTo(r, p) /\ auFlow'[r].code = c /\ auFlow'[r].epoch = auFlow[r].epoch
  <2> DEFINE new == [auFlow[r] EXCEPT !.phase = p, !.code = c]
  <2>1. /\ new \in Requests /\ new.phase = p /\ new.kind = auFlow[r].kind
        /\ new.session = auFlow[r].session /\ new.code = c /\ new.epoch = auFlow[r].epoch
    BY <1>1 DEF Requests
  <2>2. auFlow' = [auFlow EXCEPT ![r] = new]
    BY <1>1, <1>4 DEF GoesWith, Requests
  <2> HIDE DEF new
  <2>3. QED
    BY <1>1, <2>1, <2>2
<1>5. ASSUME EndsFlow(r) PROVE Ended(r)
  <2>1. /\ NoRequest \in Requests /\ NoRequest.kind = "none" /\ NoRequest.phase = "done"
    BY DEF NoRequest, RequestFor, Requests, Kinds, Phases
  <2>2. QED
    BY <1>1, <1>5, <2>1 DEF EndsFlow, Ended
<1>6. QED
  BY <1>2, <1>3, <1>4, <1>5

LEMMA SessionKept ==
  ASSUME FlowOK, NEW r \in AuthRequests, NEW p, MovedTo(r, p)
  PROVE  auFlow'[r].kind \in OfSession => auFlow'[r].session \in DOMAIN auIssued
BY DEF MovedTo, FlowOK

(* The phases of a kind.                                                   *)
PhaseOfKind(kind, phase) ==
    /\ phase = "done" => kind = "none"
    /\ phase \in {"code", "compare", "save"} => kind \in {"login", "begin", "disable"}
    /\ phase = "authorised" => kind = "token"
    /\ phase = "grant" => kind \in {"login", "begin", "confirm", "disable"}
    /\ phase = "replace" => kind \in Writers

(* A request keeps its right to the lock, gives it up, or takes it when it *)
(* may.                                                                    *)
LockMove(r) ==
    \/ auFlow'[r].kind = "none" \/ auFlow'[r].phase = "waiting"
    \/ auFlow'[r].kind = auFlow[r].kind /\ ~In(r, "waiting")
    \/ auFlow'[r].kind \in Readers /\ MayRead
    \/ auFlow'[r].kind \in Writers /\ MayWrite

LEMMA FlowKept ==
  ASSUME FlowOK, LockOK, NEW r \in AuthRequests, Moved(r),
         PhaseOfKind(auFlow'[r].kind, auFlow'[r].phase), LockMove(r),
         auFlow'[r].kind \in OfSession => auFlow'[r].session \in DOMAIN auIssued,
         DOMAIN auIssued \subseteq DOMAIN auIssued'
  PROVE  FlowOK' /\ LockOK'
<1>1. FlowOK'
  BY DEF FlowOK, Moved, PhaseOfKind, In
<1>2. LockOK'
  <2> SUFFICES ASSUME NEW p \in AuthRequests, NEW q \in AuthRequests, p # q,
                      Holds(p, Writers)'
               PROVE  ~Holds(q, Readers \cup Writers)'
    BY DEF LockOK
  <2>1. CASE p # r /\ q # r
    BY <2>1 DEF LockOK, Moved, Holds, In
  <2>2. CASE p = r
    BY <2>2 DEF LockOK, Moved, Holds, In, LockMove, MayRead, MayWrite, Readers, Writers
  <2>3. CASE q = r
    BY <2>3 DEF LockOK, Moved, Holds, In, LockMove, MayRead, MayWrite, Readers, Writers
  <2>4. QED
    BY <2>1, <2>2, <2>3
<1>3. QED
  BY <1>1, <1>2

enrolmentVars == <<auNow, auEmergency, authStored, authSessionVars, authSetupVars>>

(* A request that moves and changes nothing but the failure counters,      *)
(* into a phase that is right for what is so.                              *)
LEMMA PureMove ==
  ASSUME AuthInv, NEW r \in AuthRequests, Moved(r), UNCHANGED enrolmentVars,
         auTokenFails' \in Failures, auTotpFails' \in Failures, GuessOK',
         PhaseOfKind(auFlow'[r].kind, auFlow'[r].phase), LockMove(r),
         auFlow'[r].kind \in OfSession => auFlow'[r].session \in DOMAIN auIssued,
         ~In(r, "replace"),
         auFlow'[r].phase = "authorised" => ~Enforced,
         auFlow'[r].phase \in {"code", "compare", "save"} => Enforced,
         auFlow'[r].phase = "save" => TotpFree /\ Fresh(auFlow'[r].code),
         Holds(r, {"login"})' => auFlow'[r].epoch = auEpoch,
         Holds(r, Writers)' =>
            /\ Covered(auIssued[auFlow'[r].session])
            /\ auIssued[auFlow'[r].session] \notin auEnded
  PROVE  AuthInv'
<1> USE DEF Moved, enrolmentVars, authStored, authSessionVars, authSetupVars
<1>1. FlowOK' /\ LockOK'
  BY FlowKept DEF AuthInv
<1>2. DataOK'
  BY DEF AuthInv, DataOK
<1>3. EnforcedOK'
  <2>1. Enforced' = Enforced
    BY DEF Enforced
  <2>2. QED
    BY <2>1 DEF AuthInv, EnforcedOK, In
<1>4. TotpOK'
  BY DEF AuthInv, TotpOK, TotpFree, Fresh, In
<1>5. EpochOK'
  <2>1. \A s : ActiveSession(s)' = ActiveSession(s)
    BY DEF ActiveSession
  <2>2. ASSUME NEW q \in AuthRequests, Holds(q, {"login"})' PROVE auFlow'[q].epoch = auEpoch'
    BY <2>2 DEF AuthInv, EpochOK, Holds, In
  <2>3. (\A q \in AuthRequests : ~In(q, "replace")') => \A q \in AuthRequests : ~In(q, "replace")
    BY DEF In
  <2>4. QED
    BY <2>1, <2>2, <2>3 DEF AuthInv, EpochOK
<1>6. FamilyOK' /\ LogoutEndsFamily'
  <2>1. \A s : ActiveSession(s)' = ActiveSession(s)
    BY DEF ActiveSession
  <2>2. \A f : Covered(f)' = Covered(f)
    BY DEF Covered
  <2>3. ASSUME NEW q \in AuthRequests, Holds(q, Writers)'
        PROVE  /\ Covered(auIssued[auFlow'[q].session])
               /\ auIssued[auFlow'[q].session] \notin auEnded
    BY <2>3 DEF AuthInv, FamilyOK, Holds, In
  <2>4. FamilyOK'
    BY <2>1, <2>2, <2>3 DEF AuthInv, FamilyOK
  <2>5. LogoutEndsFamily'
    BY <2>1 DEF AuthInv, LogoutEndsFamily
  <2>6. QED
    BY <2>4, <2>5
<1>7. QED
  BY <1>1, <1>2, <1>3, <1>4, <1>5, <1>6 DEF AuthInv

(* A request that ends.                                                    *)
LEMMA PureEnd ==
  ASSUME AuthInv, NEW r \in AuthRequests, EndsFlow(r), UNCHANGED enrolmentVars,
         auTokenFails' \in Failures, auTotpFails' \in Failures, GuessOK',
         ~In(r, "replace")
  PROVE  AuthInv'
<1>1. Ended(r)
  BY FlowMoves DEF AuthInv, DataOK, Phases
<1>2. PhaseOfKind(auFlow'[r].kind, auFlow'[r].phase) /\ LockMove(r)
  BY <1>1 DEF Ended, PhaseOfKind, LockMove
<1>3. ~Holds(r, {"login"})' /\ ~Holds(r, Writers)'
  BY <1>1 DEF Ended, Holds, Writers
<1>4. QED
  BY <1>1, <1>2, <1>3, PureMove DEF Ended, OfSession

-----------------------------------------------------------------------------
(* Counters                                                                *)

LEMMA FailureRecorded ==
  ASSUME AuthInv
  PROVE  /\ RecordFailure(auTokenFails) \in Failures
         /\ RecordFailure(auTotpFails) \in Failures
         /\ NoFailures \in Failures
         /\ ~FailureLimited(auTotpFails) =>
              RecordFailure(auTotpFails).n = auTotpFails.n + 1
         /\ RecordFailure(auTotpFails).n >= auTotpFails.n
         /\ RecordFailure(auTotpFails).at \in {auTotpFails.at, auNow}
         /\ auTotpFails.n \in Nat /\ auTotpFails.at \in Nat /\ auNow \in Nat
         /\ ~FailureLimited(auTotpFails) => RecordFailure(auTotpFails).at = auNow
<1>1. /\ auTokenFails \in Failures /\ auTotpFails \in Failures /\ auNow \in Nat
  BY Numbers DEF AuthInv, DataOK
<1>2. ASSUME NEW rec \in Failures
      PROVE  /\ RecordFailure(rec) \in Failures
             /\ rec.n \in Nat /\ rec.at \in Nat
             /\ ~FailureLimited(rec) => RecordFailure(rec).n = rec.n + 1
             /\ ~FailureLimited(rec) => RecordFailure(rec).at = auNow
             /\ FailureLimited(rec) => RecordFailure(rec) = rec
  BY <1>1, Numbers DEF RecordFailure, FailureLimited, Failures
<1>3. NoFailures \in Failures
  BY Numbers DEF NoFailures, Failures
<1>4. QED
  BY <1>1, <1>2, <1>3

(* More failures counted, no more guesses.                                 *)
LEMMA GuessFrame ==
  ASSUME AuthInv, UNCHANGED <<auGuesses, auNow>>,
         auTotpFails' = auTotpFails \/ auTotpFails' = RecordFailure(auTotpFails)
  PROVE  GuessOK'
<1>1. /\ auTotpFails.n \in Nat /\ auTotpFails.at \in Nat /\ auNow \in Nat
      /\ auTotpFails'.n \in Nat /\ auTotpFails'.n >= auTotpFails.n
      /\ auTotpFails'.at \in {auTotpFails.at, auNow}
  BY FailureRecorded DEF Failures
<1>2. /\ auGuesses \in Seq(Nat) /\ Len(auGuesses) <= auTotpFails.n
      /\ \A i \in DOMAIN auGuesses : auGuesses[i] \in Nat /\ auGuesses[i] <= auTotpFails.at
      /\ auTotpFails.at <= auNow
  BY DEF AuthInv, GuessOK
<1>3. QED
  BY <1>1, <1>2 DEF GuessOK

(* A wrong code is compared only below the limit, and counted.             *)
LEMMA GuessCounted ==
  ASSUME AuthInv, ~FailureLimited(auTotpFails), auNow' = auNow,
         auTotpFails' = RecordFailure(auTotpFails), auGuesses' = Append(auGuesses, auNow)
  PROVE  GuessOK'
<1>1. /\ auTotpFails.n \in Nat /\ auTotpFails.at \in Nat /\ auNow \in Nat
      /\ auTotpFails'.n = auTotpFails.n + 1 /\ auTotpFails'.at = auNow
  BY FailureRecorded
<1>2. /\ auGuesses \in Seq(Nat) /\ Len(auGuesses) \in Nat /\ Len(auGuesses) <= auTotpFails.n
      /\ DOMAIN auGuesses = 1..Len(auGuesses)
      /\ \A i \in 1..Len(auGuesses) : auGuesses[i] \in Nat /\ auGuesses[i] <= auTotpFails.at
      /\ auTotpFails.at <= auNow
  BY DEF AuthInv, GuessOK
<1>3. /\ auGuesses' \in Seq(Nat) /\ Len(auGuesses') = Len(auGuesses) + 1
      /\ DOMAIN auGuesses' = 1..Len(auGuesses) + 1
      /\ auGuesses'[Len(auGuesses) + 1] = auNow
      /\ \A i \in 1..Len(auGuesses) : auGuesses'[i] = auGuesses[i]
  BY <1>1, <1>2
<1>4. \A i \in DOMAIN auGuesses' : auGuesses'[i] <= auNow
  BY <1>1, <1>2, <1>3
<1>5. QED
  BY <1>1, <1>2, <1>3, <1>4 DEF GuessOK

-----------------------------------------------------------------------------
(* The steps of a request that grant nothing                               *)

(* A new request waits for the lock.                                       *)
LEMMA SubmitKeeps ==
  ASSUME AuthInv, NEW r \in AuthRequests, NEW kind \in Kinds, NEW s \in Nat, NEW id \in Nat,
         kind # "none", kind \in OfSession => s \in DOMAIN auIssued,
         \/ TokenRequest(r, RequestFor(kind, "waiting", s, id))
         \/ ConfirmRequest(r, RequestFor(kind, "waiting", s, id))
  PROVE  AuthInv'
<1> DEFINE request == RequestFor(kind, "waiting", s, id)
<1>1. /\ request \in Requests /\ request.kind = kind /\ request.phase = "waiting"
      /\ request.session = s
  BY DEF RequestFor, Requests, Phases
<1> HIDE DEF request
<1>2. /\ In(r, "done") /\ auFlow' = [auFlow EXCEPT ![r] = request]
      /\ UNCHANGED <<enrolmentVars, auTotpFails, auGuesses>>
      /\ auTokenFails' \in {auTokenFails, NoFailures}
  BY DEF TokenRequest, ConfirmRequest, Submit, enrolmentVars, authFails, request
<1>3. Moved(r) /\ auFlow'[r] = request
  BY <1>1, <1>2 DEF Moved, AuthInv, FlowOK
<1>4. /\ PhaseOfKind(auFlow'[r].kind, auFlow'[r].phase) /\ LockMove(r)
      /\ ~Holds(r, {"login"})' /\ ~Holds(r, Writers)' /\ ~In(r, "replace")
  BY <1>1, <1>2, <1>3 DEF PhaseOfKind, LockMove, Holds, In
<1>5. auTokenFails' \in Failures /\ auTotpFails' \in Failures
  BY <1>2, FailureRecorded DEF AuthInv, DataOK
<1>6. GuessOK'
  BY <1>2, GuessFrame DEF enrolmentVars
<1>7. QED
  BY <1>1, <1>2, <1>3, <1>4, <1>5, <1>6, PureMove

LEMMA ArrivesKeeps ==
  ASSUME AuthInv, NEW r \in AuthRequests, Arrives(r)
  PROVE  AuthInv'
<1>1. IssuedSessions \subseteq Nat /\ auSetupCount \in Nat
  BY DEF AuthInv, DataOK, IssuedSessions
<1>2. /\ {"token", "login", "begin", "disable", "confirm"} \subseteq Kinds
      /\ "token" \notin OfSession /\ "login" \notin OfSession
  BY DEF Kinds, OfSession
<1>3. CASE TokenRequest(r, RequestFor("token", "waiting", 0, 0))
  BY <1>2, <1>3, SubmitKeeps
<1>4. CASE TokenRequest(r, RequestFor("login", "waiting", 0, 0))
  BY <1>2, <1>4, SubmitKeeps
<1>5. ASSUME NEW s \in IssuedSessions, TokenRequest(r, RequestFor("begin", "waiting", s, 0))
      PROVE  AuthInv'
  BY <1>1, <1>2, <1>5, SubmitKeeps DEF IssuedSessions
<1>6. ASSUME NEW s \in IssuedSessions, TokenRequest(r, RequestFor("disable", "waiting", s, 0))
      PROVE  AuthInv'
  BY <1>1, <1>2, <1>6, SubmitKeeps DEF IssuedSessions
<1>7. ASSUME NEW s \in IssuedSessions, NEW id \in 1..auSetupCount,
             ConfirmRequest(r, RequestFor("confirm", "waiting", s, id))
      PROVE  AuthInv'
  BY <1>1, <1>2, <1>7, SubmitKeeps DEF IssuedSessions
<1>8. QED
  BY <1>3, <1>4, <1>5, <1>6, <1>7 DEF Arrives

(* A writer whose session is active may end and extend its family.         *)
LEMMA ActiveFamily ==
  ASSUME AuthInv, NEW s, ActiveSession(s)
  PROVE  s \in DOMAIN auIssued /\ Covered(auIssued[s]) /\ auIssued[s] \notin auEnded
BY DEF AuthInv, FamilyOK, LogoutEndsFamily, DataOK, ActiveSession

LEMMA EntersReadingKeeps ==
  ASSUME AuthInv, NEW r \in AuthRequests, EntersReading(r)
  PROVE  AuthInv'
<1> USE DEF Readers, Writers
<1>1. /\ In(r, "waiting") /\ auFlow[r].kind \in Readers /\ MayRead /\ ~In(r, "replace")
      /\ UNCHANGED <<enrolmentVars, authFails>>
  BY DEF EntersReading, enrolmentVars, In
<1>2. auTokenFails' \in Failures /\ auTotpFails' \in Failures /\ GuessOK'
  BY <1>1, GuessFrame DEF AuthInv, DataOK, authFails, enrolmentVars
<1>3. CASE EndsFlow(r)
  BY <1>1, <1>2, <1>3, PureEnd
<1>4. ASSUME NEW p \in Phases, Enters(r, p), PhaseOfKind(auFlow[r].kind, p),
             p = "authorised" => ~Enforced,
             p \in {"code", "compare", "save"} => Enforced, p # "save"
      PROVE  AuthInv'
  <2>1. MovedTo(r, p) /\ auFlow'[r].epoch = auEpoch
    BY <1>4, FlowMoves, 0 \in Int DEF AuthInv, DataOK
  <2>2. LockMove(r) /\ ~Holds(r, Writers)'
    BY <1>1, <2>1 DEF MovedTo, LockMove, Holds
  <2>3. QED
    BY <1>1, <1>2, <1>4, <2>1, <2>2, SessionKept, PureMove DEF MovedTo, AuthInv
<1>5. {"authorised", "code", "grant"} \subseteq Phases
  BY DEF Phases
<1>6. CASE auFlow[r].kind = "token"
  BY <1>3, <1>4, <1>5, <1>6 DEF EntersReading, PhaseOfKind
<1>7. CASE auFlow[r].kind \in {"login", "begin"}
  <2>1. EndsFlow(r) \/ Enters(r, IF Enforced THEN "code" ELSE "grant")
    BY <1>7 DEF EntersReading
  <2>2. CASE Enforced /\ Enters(r, "code")
    BY <1>4, <1>5, <1>7, <2>2 DEF PhaseOfKind
  <2>3. CASE ~Enforced /\ Enters(r, "grant")
    BY <1>4, <1>5, <1>7, <2>3 DEF PhaseOfKind
  <2>4. QED
    BY <1>3, <2>1, <2>2, <2>3
<1>8. QED
  BY <1>1, <1>6, <1>7

LEMMA EntersDisablingKeeps ==
  ASSUME AuthInv, NEW r \in AuthRequests, EntersDisabling(r)
  PROVE  AuthInv'
<1> USE DEF Readers, Writers
<1>1. /\ In(r, "waiting") /\ auFlow[r].kind = "disable" /\ MayWrite /\ ~In(r, "replace")
      /\ UNCHANGED <<enrolmentVars, authFails>>
  BY DEF EntersDisabling, enrolmentVars, In
<1>2. auTokenFails' \in Failures /\ auTotpFails' \in Failures /\ GuessOK'
  BY <1>1, GuessFrame DEF AuthInv, DataOK, authFails, enrolmentVars
<1>3. CASE EndsFlow(r)
  BY <1>1, <1>2, <1>3, PureEnd
<1>4. ASSUME NEW p \in {"code", "grant"}, Goes(r, p), p = "code" => Enforced,
             ActiveSession(auFlow[r].session)
      PROVE  AuthInv'
  <2>1. MovedTo(r, p)
    BY <1>4, FlowMoves, 0 \in Int DEF AuthInv, DataOK, Phases
  <2>2. LockMove(r) /\ ~Holds(r, {"login"})' /\ PhaseOfKind(auFlow'[r].kind, auFlow'[r].phase)
    BY <1>1, <1>4, <2>1 DEF MovedTo, LockMove, Holds, PhaseOfKind
  <2>3. QED
    BY <1>1, <1>2, <1>4, <2>1, <2>2, SessionKept, PureMove, ActiveFamily DEF MovedTo, AuthInv
<1>5. QED
  BY <1>3, <1>4 DEF EntersDisabling

LEMMA EntersConfirmingKeeps ==
  ASSUME AuthInv, NEW r \in AuthRequests, EntersConfirming(r)
  PROVE  AuthInv'
<1> USE DEF Readers, Writers
<1>1. /\ In(r, "waiting") /\ auFlow[r].kind = "confirm" /\ MayWrite /\ ~In(r, "replace")
      /\ UNCHANGED <<enrolmentVars, auTokenFails, auGuesses>>
      /\ auTotpFails' \in {auTotpFails, RecordFailure(auTotpFails)}
  BY DEF EntersConfirming, enrolmentVars, In
<1>2. auTokenFails' \in Failures /\ auTotpFails' \in Failures /\ GuessOK'
  BY <1>1, GuessFrame, FailureRecorded DEF AuthInv, DataOK, enrolmentVars
<1>3. CASE EndsFlow(r)
  BY <1>1, <1>2, <1>3, PureEnd
<1>4. ASSUME NEW code \in CurrentSteps, GoesWith(r, "grant", code),
             ActiveSession(auFlow[r].session)
      PROVE  AuthInv'
  <2>1. MovedTo(r, "grant")
    BY <1>4, FlowMoves DEF AuthInv, DataOK, Phases, CurrentSteps
  <2>2. LockMove(r) /\ ~Holds(r, {"login"})' /\ PhaseOfKind(auFlow'[r].kind, auFlow'[r].phase)
    BY <1>1, <2>1 DEF MovedTo, LockMove, Holds, PhaseOfKind
  <2>3. QED
    BY <1>1, <1>2, <1>4, <2>1, <2>2, SessionKept, PureMove, ActiveFamily DEF MovedTo, AuthInv
<1>5. QED
  BY <1>3, <1>4 DEF EntersConfirming

(* A request that has the lock and keeps it.                               *)
LEMMA HeldMove ==
  ASSUME AuthInv, NEW r \in AuthRequests, NEW p \in {"compare", "save", "grant"},
         MovedTo(r, p), auFlow'[r].epoch = auFlow[r].epoch,
         auFlow[r].phase \in {"code", "compare", "save"},
         UNCHANGED <<enrolmentVars>>,
         auTokenFails' \in Failures, auTotpFails' \in Failures, GuessOK',
         p = "save" => TotpFree /\ Fresh(auFlow'[r].code)
  PROVE  AuthInv'
<1>1. Enforced /\ ~In(r, "replace") /\ ~In(r, "waiting")
      /\ auFlow[r].kind \in {"login", "begin", "disable"}
  BY DEF AuthInv, EnforcedOK, FlowOK, In
<1>2. PhaseOfKind(auFlow'[r].kind, auFlow'[r].phase) /\ LockMove(r)
  BY <1>1 DEF MovedTo, PhaseOfKind, LockMove
<1>3. Holds(r, {"login"})' => auFlow'[r].epoch = auEpoch
  BY <1>1 DEF MovedTo, Holds, AuthInv, EpochOK
<1>4. Holds(r, Writers)' => Holds(r, Writers)
  BY <1>1 DEF MovedTo, Holds
<1>5. QED
  BY <1>1, <1>2, <1>3, <1>4, SessionKept, PureMove DEF MovedTo, AuthInv, FamilyOK

LEMMA ChecksLimitKeeps ==
  ASSUME AuthInv, NEW r \in AuthRequests, ChecksLimit(r)
  PROVE  AuthInv'
<1>1. /\ In(r, "code") /\ ~In(r, "replace")
      /\ UNCHANGED <<enrolmentVars, auTokenFails, auGuesses>>
      /\ auTotpFails' \in {auTotpFails, RecordFailure(auTotpFails)}
  BY DEF ChecksLimit, enrolmentVars, In
<1>2. auTokenFails' \in Failures /\ auTotpFails' \in Failures /\ GuessOK'
  BY <1>1, GuessFrame, FailureRecorded DEF AuthInv, DataOK, enrolmentVars
<1>3. CASE EndsFlow(r)
  BY <1>1, <1>2, <1>3, PureEnd
<1>4. CASE Goes(r, "compare")
  <2>1. MovedTo(r, "compare") /\ auFlow'[r].epoch = auFlow[r].epoch
    BY <1>4, FlowMoves, 0 \in Int DEF AuthInv, DataOK, Phases
  <2>2. QED
    BY <1>1, <1>2, <2>1, HeldMove DEF In
<1>5. QED
  BY <1>3, <1>4 DEF ChecksLimit

LEMMA ComparesCodeKeeps ==
  ASSUME AuthInv, NEW r \in AuthRequests, ComparesCode(r)
  PROVE  AuthInv'
<1>1. /\ In(r, "compare") /\ ~In(r, "replace") /\ TotpFree
      /\ UNCHANGED <<enrolmentVars, auTokenFails>>
  BY DEF ComparesCode, enrolmentVars, In
<1>2. ASSUME UNCHANGED <<auTotpFails, auGuesses>>
      PROVE  auTokenFails' \in Failures /\ auTotpFails' \in Failures /\ GuessOK'
  BY <1>1, <1>2, GuessFrame DEF AuthInv, DataOK, enrolmentVars
<1>3. CASE EndsFlow(r) /\ UNCHANGED <<auTotpFails, auGuesses>>
  BY <1>1, <1>2, <1>3, PureEnd
<1>4. ASSUME NEW code \in CurrentSteps, Fresh(code), GoesWith(r, "save", code),
             UNCHANGED <<auTotpFails, auGuesses>>
      PROVE  AuthInv'
  <2>1. MovedTo(r, "save") /\ auFlow'[r].epoch = auFlow[r].epoch /\ auFlow'[r].code = code
    BY <1>4, FlowMoves DEF AuthInv, DataOK, Phases, CurrentSteps
  <2>2. QED
    BY <1>1, <1>2, <1>4, <2>1, HeldMove DEF In
<1>5. CASE /\ EndsFlow(r) /\ ~FailureLimited(auTotpFails)
           /\ auTotpFails' = RecordFailure(auTotpFails)
           /\ auGuesses' = Append(auGuesses, auNow)
  <2>1. GuessOK'
    BY <1>1, <1>5, GuessCounted DEF enrolmentVars
  <2>2. auTokenFails' \in Failures /\ auTotpFails' \in Failures
    BY <1>1, <1>5, FailureRecorded DEF AuthInv, DataOK
  <2>3. QED
    BY <1>1, <1>5, <2>1, <2>2, PureEnd
<1>6. QED
  BY <1>3, <1>4, <1>5 DEF ComparesCode, LimitedWithLock

LEMMA DispatchedKeeps ==
  ASSUME AuthInv, NEW r \in AuthRequests, Dispatched(r)
  PROVE  AuthInv'
<1>1. EndsFlow(r) /\ ~In(r, "replace") /\ UNCHANGED <<enrolmentVars, authFails>>
  BY DEF Dispatched, enrolmentVars, In
<1>2. auTokenFails' \in Failures /\ auTotpFails' \in Failures /\ GuessOK'
  BY <1>1, GuessFrame DEF AuthInv, DataOK, authFails, enrolmentVars
<1>3. QED
  BY <1>1, <1>2, PureEnd

LEMMA WrongTokenKeeps ==
  ASSUME AuthInv, WrongToken
  PROVE  AuthInv'
<1>1. UNCHANGED <<enrolmentVars, auTotpFails, auGuesses, auFlow>>
      /\ auTokenFails' = RecordFailure(auTokenFails)
  BY DEF WrongToken, enrolmentVars
<1>2. auTokenFails' \in Failures
  BY <1>1, FailureRecorded
<1>3. QED
  BY <1>1, <1>2
     DEF AuthInv, FlowOK, DataOK, LockOK, EnforcedOK, TotpOK, GuessOK, EpochOK, FamilyOK,
         LogoutEndsFamily, enrolmentVars, authStored, authSessionVars, authSetupVars,
         Enforced, In, Holds, ActiveSession, Covered, Fresh

-----------------------------------------------------------------------------
(* The steps of a request that grant something                             *)

(* While a writer has the lock, no other request is past waiting for it.   *)
LEMMA WriterAlone ==
  ASSUME AuthInv, NEW r \in AuthRequests, Holds(r, Writers),
         NEW q \in AuthRequests, q # r
  PROVE  /\ ~Holds(q, Readers \cup Writers) /\ ~Holds(q, {"login"}) /\ ~Holds(q, Writers)
         /\ auFlow[q].phase \notin {"authorised", "code", "compare", "save", "grant", "replace"}
BY DEF AuthInv, LockOK, FlowOK, Holds, In, Readers, Writers

(* A session issued: the newest, in a family that has it.                  *)
LEMMA SessionIssued ==
  ASSUME AuthInv, NEW sessions, NEW family \in Nat, NEW epoch \in Nat,
         DOMAIN sessions \subseteq DOMAIN auSessions, IssueSession(sessions, family, epoch)
  PROVE  /\ Len(auIssued) \in Nat /\ DOMAIN auIssued = 1..Len(auIssued)
         /\ Len(auIssued) + 1 \notin DOMAIN auIssued
         /\ DOMAIN auIssued' = DOMAIN auIssued \cup {Len(auIssued) + 1}
         /\ auIssued' \in Seq(Nat) /\ Len(auIssued') = Len(auIssued) + 1
         /\ auIssued'[Len(auIssued) + 1] = family
         /\ \A s \in DOMAIN auIssued : auIssued'[s] = auIssued[s]
         /\ DOMAIN auSessions' = DOMAIN sessions \cup {Len(auIssued) + 1}
         /\ auSessions'[Len(auIssued) + 1] =
              [expires |-> auNow + SessionTTL, family |-> family, active |-> TRUE, epoch |-> epoch]
         /\ auSessions'[Len(auIssued) + 1] \in Sessions
         /\ auSessions'[Len(auIssued) + 1].family = family
         /\ auSessions'[Len(auIssued) + 1].epoch = epoch
         /\ \A s \in DOMAIN sessions :
              s \in DOMAIN auIssued /\ s # Len(auIssued) + 1 /\ auSessions'[s] = sessions[s]
<1> DEFINE n == Len(auIssued) + 1
           new == [expires |-> auNow + SessionTTL, family |-> family, active |-> TRUE,
                   epoch |-> epoch]
<1>1. auIssued \in Seq(Nat) /\ Len(auIssued) \in Nat /\ DOMAIN auIssued = 1..Len(auIssued)
  BY DEF AuthInv, DataOK
<1>2. n \notin DOMAIN auIssued /\ DOMAIN sessions \subseteq DOMAIN auIssued
  BY <1>1 DEF AuthInv, DataOK
<1>3. auNow \in Nat
  BY Numbers DEF AuthInv, DataOK
<1>4. new \in Sessions /\ new.family = family /\ new.epoch = epoch
  BY <1>3, Numbers DEF Sessions
<1> HIDE DEF new
<1>5. auSessions' = [k \in DOMAIN sessions \cup {n} |-> IF k = n THEN new ELSE sessions[k]]
  BY DEF IssueSession, Added, new
<1>6. auIssued' = Append(auIssued, family)
  BY DEF IssueSession
<1>7. /\ DOMAIN auIssued' = DOMAIN auIssued \cup {n}
      /\ auIssued' \in Seq(Nat) /\ Len(auIssued') = n
      /\ auIssued'[n] = family
      /\ \A s \in DOMAIN auIssued : auIssued'[s] = auIssued[s]
  BY <1>1, <1>6
<1>8. /\ DOMAIN auSessions' = DOMAIN sessions \cup {n} /\ auSessions'[n] = new
      /\ \A s \in DOMAIN sessions :
           s \in DOMAIN auIssued /\ s # n /\ auSessions'[s] = sessions[s]
  BY <1>2, <1>5
<1>9. QED
  BY <1>1, <1>2, <1>4, <1>7, <1>8 DEF new

(* A step that changes no session and not the time.                        *)
LEMMA FamilyFrame ==
  ASSUME AuthInv, NEW r \in AuthRequests, Moved(r), UNCHANGED <<auNow, authSessionVars>>,
         Holds(r, Writers)' => Holds(r, Writers) /\ auFlow'[r].session = auFlow[r].session
  PROVE  FamilyOK' /\ LogoutEndsFamily'
<1> USE DEF authSessionVars
<1>1. \A s : ActiveSession(s)' = ActiveSession(s)
  BY DEF ActiveSession
<1>2. \A f : Covered(f)' = Covered(f)
  BY DEF Covered
<1>3. ASSUME NEW q \in AuthRequests, Holds(q, Writers)'
      PROVE  Covered(auIssued[auFlow'[q].session]) /\ auIssued[auFlow'[q].session] \notin auEnded
  BY <1>3 DEF AuthInv, FamilyOK, Holds, In, Moved
<1>4. FamilyOK'
  BY <1>1, <1>2, <1>3 DEF AuthInv, FamilyOK
<1>5. LogoutEndsFamily'
  BY <1>1 DEF AuthInv, LogoutEndsFamily
<1>6. QED
  BY <1>4, <1>5

(* Counters and guesses start again.                                       *)
LEMMA GuessReset ==
  ASSUME AuthInv, auNow' = auNow, auTotpFails' = NoFailures, auGuesses' = <<>>
  PROVE  GuessOK' /\ auTotpFails' \in Failures
<1>1. auNow \in Nat /\ NoFailures \in Failures
  BY FailureRecorded
<1>2. QED
  BY <1>1 DEF GuessOK, NoFailures

(* The code that is saved is later than all that were accepted.            *)
LEMMA SavesStepKeeps ==
  ASSUME AuthInv, NEW r \in AuthRequests, SavesStep(r)
  PROVE  AuthInv'
<1>1. /\ In(r, "save") /\ ~In(r, "replace") /\ ~In(r, "waiting")
      /\ UNCHANGED <<auNow, auEmergency, auEpoch, authSessionVars, authSetupVars, auTokenFails>>
  BY DEF SavesStep, In
<1>2. CASE EndsFlow(r) /\ UNCHANGED <<auConfig, auAccepted, auTotpFails, auGuesses>>
  <2>1. UNCHANGED enrolmentVars
    BY <1>1, <1>2 DEF enrolmentVars, authStored
  <2>2. auTokenFails' \in Failures /\ auTotpFails' \in Failures /\ GuessOK'
    BY <1>1, <1>2, GuessFrame DEF AuthInv, DataOK
  <2>3. QED
    BY <1>1, <1>2, <2>1, <2>2, PureEnd
<1>3. CASE /\ Goes(r, "grant")
           /\ auConfig' = [auConfig EXCEPT !.lastUsed = auFlow[r].code]
           /\ auAccepted' = auAccepted \cup {auFlow[r].code}
           /\ auTotpFails' = NoFailures /\ auGuesses' = <<>>
  <2>1. MovedTo(r, "grant") /\ auFlow'[r].epoch = auFlow[r].epoch
    BY <1>3, FlowMoves, 0 \in Int DEF AuthInv, DataOK, Phases
  <2>2. Enforced /\ auFlow[r].kind \in {"login", "begin", "disable"} /\ auFlow[r] \in Requests
    BY <1>1 DEF AuthInv, EnforcedOK, FlowOK, In
  <2>3. auConfig \in [enrolled : {TRUE}, lastUsed : Int]
    BY <2>2 DEF Enforced, AuthInv, DataOK, Configs
  <2>4. auFlow[r].code \in Int /\ auFlow[r].code > auConfig.lastUsed
    BY <1>1, <2>2 DEF AuthInv, TotpOK, Fresh, Requests
  <2>5. /\ auConfig' \in [enrolled : {TRUE}, lastUsed : Int]
        /\ auConfig'.lastUsed = auFlow[r].code /\ auConfig'.enrolled = TRUE
        /\ auConfig.enrolled = TRUE
    BY <1>3, <2>3, <2>4
  <2>6. FlowOK' /\ LockOK'
    <3>1. PhaseOfKind(auFlow'[r].kind, auFlow'[r].phase) /\ LockMove(r)
      BY <1>1, <2>1, <2>2 DEF PhaseOfKind, LockMove, MovedTo
    <3>2. QED
      BY <1>1, <2>1, <3>1, SessionKept, FlowKept DEF AuthInv, MovedTo, authSessionVars
  <2>7. GuessOK' /\ auTotpFails' \in Failures
    BY <1>1, <1>3, GuessReset
  <2>8. DataOK'
    BY <1>1, <1>3, <2>4, <2>5, <2>7
       DEF AuthInv, DataOK, Configs, authSessionVars, authSetupVars
  <2>9. EnforcedOK'
    <3>1. Enforced' = Enforced
      BY <1>1, <2>5 DEF Enforced
    <3>2. QED
      BY <2>1, <2>2, <3>1 DEF AuthInv, EnforcedOK, MovedTo, Moved, In
  <2>10. TotpOK'
    <3>1. \A q \in AuthRequests : ~In(q, "save")'
      BY <1>1, <2>1 DEF AuthInv, TotpOK, MovedTo, Moved, In
    <3>2. \A step \in auAccepted' : step <= auConfig'.lastUsed
      <4> SUFFICES ASSUME NEW step \in auAccepted' PROVE step <= auFlow[r].code
        BY <2>5
      <4>1. step \in auAccepted \/ step = auFlow[r].code
        BY <1>3
      <4>2. CASE step \in auAccepted
        <5>1. step \in Int /\ step <= auConfig.lastUsed /\ auConfig.lastUsed \in Int
          BY <4>2, <2>3 DEF AuthInv, TotpOK, DataOK
        <5>2. QED
          BY <5>1, <2>4
      <4>3. QED
        BY <4>1, <4>2, <2>4
    <3>3. QED
      BY <3>1, <3>2, <2>5 DEF TotpOK
  <2>11. EpochOK'
    <3>1. \A s : ActiveSession(s)' = ActiveSession(s)
      BY <1>1 DEF ActiveSession, authSessionVars
    <3>2. ASSUME NEW q \in AuthRequests, Holds(q, {"login"})' PROVE auFlow'[q].epoch = auEpoch
      BY <1>1, <2>1, <3>2 DEF AuthInv, EpochOK, Holds, In, MovedTo, Moved
    <3>3. (\A q \in AuthRequests : ~In(q, "replace")') =>
             \A q \in AuthRequests : ~In(q, "replace")
      BY <1>1, <2>1 DEF In, MovedTo, Moved
    <3>4. QED
      BY <1>1, <3>1, <3>2, <3>3 DEF AuthInv, EpochOK, authSessionVars
  <2>12. FamilyOK' /\ LogoutEndsFamily'
    BY <1>1, <2>1, FamilyFrame DEF MovedTo, Holds
  <2>13. QED
    BY <2>6, <2>7, <2>8, <2>9, <2>10, <2>11, <2>12 DEF AuthInv
<1>4. QED
  BY <1>2, <1>3 DEF SavesStep

(* A changed enrolment, by a writer that goes on to replace the sessions.  *)
LEMMA EnrolmentChanges ==
  ASSUME AuthInv, NEW r \in AuthRequests, In(r, "grant"), auFlow[r].kind \in Writers,
         Goes(r, "replace"), auEpoch' = auEpoch + 1,
         UNCHANGED <<auNow, auEmergency, authSessionVars, authSetupVars, auTokenFails>>,
         auConfig' \in Configs, auAccepted' \subseteq Int,
         auAccepted' # {} => auConfig'.enrolled,
         \A step \in auAccepted' : step <= auConfig'.lastUsed,
         auTotpFails' \in Failures, GuessOK'
  PROVE  AuthInv'
<1>1. MovedTo(r, "replace")
  BY FlowMoves, 0 \in Int DEF AuthInv, DataOK, Phases
<1>2. ~In(r, "waiting") /\ Holds(r, Writers)
  BY DEF In, Holds
<1>3. FlowOK' /\ LockOK'
  <2>1. PhaseOfKind(auFlow'[r].kind, auFlow'[r].phase) /\ LockMove(r)
    BY <1>1, <1>2 DEF PhaseOfKind, LockMove, MovedTo
  <2>2. QED
    BY <1>1, <2>1, SessionKept, FlowKept DEF AuthInv, MovedTo, authSessionVars
<1>4. DataOK'
  BY DEF AuthInv, DataOK, authSessionVars, authSetupVars
<1>5. \A q \in AuthRequests :
        /\ auFlow'[q].phase \notin {"authorised", "code", "compare", "save"}
        /\ ~Holds(q, {"login"})'
  <2> SUFFICES ASSUME NEW q \in AuthRequests
               PROVE  /\ auFlow'[q].phase \notin {"authorised", "code", "compare", "save"}
                      /\ ~Holds(q, {"login"})'
    OBVIOUS
  <2>1. CASE q = r
    BY <1>1, <2>1 DEF MovedTo, Holds, Writers
  <2>2. CASE q # r
    BY <1>1, <1>2, <2>2, WriterAlone DEF MovedTo, Moved, Holds, In
  <2>3. QED
    BY <2>1, <2>2
<1>6. EnforcedOK' /\ TotpOK'
  BY <1>5 DEF EnforcedOK, TotpOK, In
<1>7. EpochOK'
  BY <1>1, <1>5 DEF EpochOK, MovedTo, In
<1>8. FamilyOK' /\ LogoutEndsFamily'
  BY <1>1, <1>2, FamilyFrame DEF MovedTo
<1>9. QED
  BY <1>3, <1>4, <1>6, <1>7, <1>8 DEF AuthInv

LEMMA StoresEnrolmentKeeps ==
  ASSUME AuthInv, NEW r \in AuthRequests, StoresEnrolment(r)
  PROVE  AuthInv'
<1>1. /\ In(r, "grant") /\ auFlow[r].kind = "confirm" /\ ~In(r, "replace")
      /\ UNCHANGED <<auNow, auEmergency, authSessionVars, authSetupVars, auTokenFails>>
  BY DEF StoresEnrolment, Granted, In
<1>2. CASE EndsFlow(r) /\ UNCHANGED <<authStored, auTotpFails, auGuesses>>
  <2>1. UNCHANGED enrolmentVars
    BY <1>1, <1>2 DEF enrolmentVars
  <2>2. auTokenFails' \in Failures /\ auTotpFails' \in Failures /\ GuessOK'
    BY <1>1, <1>2, GuessFrame DEF AuthInv, DataOK
  <2>3. QED
    BY <1>1, <1>2, <2>1, <2>2, PureEnd
<1>3. CASE /\ Goes(r, "replace")
           /\ auConfig' = [enrolled |-> TRUE, lastUsed |-> auFlow[r].code]
           /\ auAccepted' = {auFlow[r].code}
           /\ auEpoch' = auEpoch + 1
           /\ auTotpFails' = NoFailures /\ auGuesses' = <<>>
  <2>1. auFlow[r].code \in Int
    BY DEF AuthInv, FlowOK, Requests
  <2>2. auConfig' \in Configs /\ auConfig'.lastUsed = auFlow[r].code /\ auConfig'.enrolled
    BY <1>3, <2>1 DEF Configs
  <2>3. \A step \in auAccepted' : step <= auConfig'.lastUsed
    BY <1>3, <2>1, <2>2
  <2>4. GuessOK' /\ auTotpFails' \in Failures
    BY <1>1, <1>3, GuessReset
  <2>5. QED
    BY <1>1, <1>3, <2>1, <2>2, <2>3, <2>4, EnrolmentChanges DEF Writers
<1>4. QED
  BY <1>2, <1>3 DEF StoresEnrolment

LEMMA DeletesEnrolmentKeeps ==
  ASSUME AuthInv, NEW r \in AuthRequests, DeletesEnrolment(r)
  PROVE  AuthInv'
<1>1. /\ In(r, "grant") /\ auFlow[r].kind = "disable" /\ ~In(r, "replace")
      /\ UNCHANGED <<auNow, auEmergency, authSessionVars, authSetupVars, authFails>>
  BY DEF DeletesEnrolment, Granted, In
<1>2. auTokenFails' \in Failures /\ auTotpFails' \in Failures /\ GuessOK'
  BY <1>1, GuessFrame DEF AuthInv, DataOK, authFails
<1>3. CASE EndsFlow(r) /\ UNCHANGED authStored
  BY <1>1, <1>2, <1>3, PureEnd DEF enrolmentVars
<1>4. CASE /\ Goes(r, "replace")
           /\ auConfig' = NotEnrolled /\ auEpoch' = auEpoch + 1 /\ auAccepted' = {}
  <2>1. auConfig' \in Configs
    BY <1>4 DEF NotEnrolled, Configs
  <2>2. QED
    BY <1>1, <1>2, <1>4, <2>1, EnrolmentChanges DEF Writers, authFails
<1>5. QED
  BY <1>3, <1>4 DEF DeletesEnrolment

LEMMA CreatesSetupKeeps ==
  ASSUME AuthInv, NEW r \in AuthRequests, CreatesSetup(r)
  PROVE  AuthInv'
<1> DEFINE id == auSetupCount + 1
           setup == [session |-> auFlow[r].session, expires |-> auNow + SetupTTL]
<1>1. /\ In(r, "grant") /\ auFlow[r].kind = "begin" /\ ~In(r, "replace") /\ EndsFlow(r)
      /\ auSetups' = Added(Unexpired(auSetups), id, setup) /\ auSetupCount' = id
      /\ UNCHANGED <<auNow, auEmergency, authStored, authSessionVars, authFails>>
  BY DEF CreatesSetup, Granted, In
<1>2. Ended(r)
  BY <1>1, FlowMoves DEF AuthInv, DataOK, Phases
<1>3. auFlow[r].session \in DOMAIN auIssued /\ auFlow[r].session \in Nat
      /\ auSetupCount \in Nat /\ auNow \in Nat
  BY <1>1, Numbers DEF AuthInv, DataOK, FlowOK, OfSession, Requests
<1>4. setup \in Setups /\ setup.session = auFlow[r].session
  BY <1>3, Numbers DEF Setups
<1> HIDE DEF setup
<1>5. ASSUME NEW i \in DOMAIN auSetups'
      PROVE  /\ i \in 1..auSetupCount' /\ auSetups'[i] \in Setups
             /\ auSetups'[i].session \in DOMAIN auIssued
  <2>1. i = id \/ (i \in DOMAIN auSetups /\ i # id /\ auSetups'[i] = auSetups[i])
        \/ (i \in DOMAIN auSetups /\ i = id)
    BY <1>1 DEF Added, Unexpired
  <2>2. i = id => auSetups'[i] = setup
    BY <1>1, <1>5 DEF Added
  <2>3. i \in DOMAIN auSetups => /\ i \in 1..auSetupCount /\ auSetups[i] \in Setups
                                 /\ auSetups[i].session \in DOMAIN auIssued
    BY DEF AuthInv, DataOK
  <2>4. QED
    BY <1>1, <1>3, <1>4, <2>1, <2>2, <2>3
<1>6. FlowOK' /\ LockOK'
  BY <1>1, <1>2, FlowKept
     DEF AuthInv, Ended, PhaseOfKind, LockMove, authSessionVars, OfSession
<1>7. DataOK'
  BY <1>1, <1>3, <1>5 DEF AuthInv, DataOK, authStored, authSessionVars, authFails
<1>8. EnforcedOK' /\ TotpOK'
  BY <1>1, <1>2
     DEF AuthInv, EnforcedOK, TotpOK, Enforced, Fresh, In, Ended, Moved, authStored
<1>9. GuessOK'
  BY <1>1 DEF AuthInv, GuessOK, authFails
<1>10. EpochOK'
  <2>1. \A s : ActiveSession(s)' = ActiveSession(s)
    BY <1>1 DEF ActiveSession, authSessionVars
  <2>2. ASSUME NEW q \in AuthRequests, Holds(q, {"login"})' PROVE auFlow'[q].epoch = auEpoch
    BY <1>2, <2>2 DEF AuthInv, EpochOK, Holds, In, Ended, Moved
  <2>3. (\A q \in AuthRequests : ~In(q, "replace")') => \A q \in AuthRequests : ~In(q, "replace")
    BY <1>1, <1>2 DEF In, Ended, Moved
  <2>4. QED
    BY <1>1, <2>1, <2>2, <2>3 DEF AuthInv, EpochOK, authSessionVars, authStored
<1>11. FamilyOK' /\ LogoutEndsFamily'
  BY <1>1, <1>2, FamilyFrame DEF Ended, Holds, Writers
<1>12. QED
  BY <1>6, <1>7, <1>8, <1>9, <1>10, <1>11 DEF AuthInv

(* What creating a session and replacing the sessions have in common: all  *)
(* but what is said of sessions.                                           *)
LEMMA IssuingKeeps ==
  ASSUME AuthInv, NEW r \in AuthRequests, EndsFlow(r), ~In(r, "waiting"),
         NEW sessions, NEW family \in Nat, NEW epoch \in Nat,
         DOMAIN sessions \subseteq DOMAIN auSessions,
         \A s \in DOMAIN sessions :
            sessions[s] \in Sessions /\ sessions[s].family = auSessions[s].family,
         IssueSession(sessions, family, epoch),
         UNCHANGED <<auNow, auEmergency, authStored, auSetupCount, authFails>>,
         auSetups' = auSetups \/ auSetups' = <<>>
  PROVE  /\ FlowOK' /\ DataOK' /\ LockOK' /\ EnforcedOK' /\ TotpOK' /\ GuessOK'
         /\ Ended(r)
<1>1. Ended(r)
  BY FlowMoves DEF AuthInv, DataOK, Phases
<1>2. FlowOK' /\ LockOK'
  BY <1>1, FlowKept, SessionIssued DEF AuthInv, Ended, PhaseOfKind, LockMove, OfSession
<1>0. /\ DOMAIN auIssued' = DOMAIN auIssued \cup {Len(auIssued) + 1}
      /\ auIssued'[Len(auIssued) + 1] = family
      /\ \A s \in DOMAIN auIssued : auIssued'[s] = auIssued[s]
      /\ DOMAIN auSessions' = DOMAIN sessions \cup {Len(auIssued) + 1}
      /\ auSessions'[Len(auIssued) + 1] \in Sessions
      /\ auSessions'[Len(auIssued) + 1].family = family
      /\ \A s \in DOMAIN sessions : s \in DOMAIN auIssued /\ auSessions'[s] = sessions[s]
  BY SessionIssued
<1>3. ASSUME NEW s \in DOMAIN auSessions'
      PROVE  /\ s \in DOMAIN auIssued' /\ auSessions'[s] \in Sessions
             /\ auSessions'[s].family = auIssued'[s]
  <2>1. CASE s = Len(auIssued) + 1
    BY <1>0, <2>1
  <2>2. CASE s \in DOMAIN sessions
    <3>1. /\ s \in DOMAIN auIssued' /\ auSessions'[s] = sessions[s]
          /\ auIssued'[s] = auIssued[s]
      BY <1>0, <2>2
    <3>2. auSessions[s].family = auIssued[s]
      BY <2>2 DEF AuthInv, DataOK
    <3>3. sessions[s] \in Sessions /\ sessions[s].family = auSessions[s].family
      BY <2>2
    <3>4. QED
      BY <3>1, <3>2, <3>3
  <2>3. QED
    BY <1>0, <2>1, <2>2
<1>4. auIssued' \in Seq(Nat) /\ DOMAIN auIssued \subseteq DOMAIN auIssued'
  BY SessionIssued
<1>5. DataOK'
  BY <1>3, <1>4 DEF AuthInv, DataOK, authStored, authFails
<1>6. EnforcedOK' /\ TotpOK'
  BY <1>1 DEF AuthInv, EnforcedOK, TotpOK, Enforced, Fresh, In, Ended, Moved, authStored
<1>7. GuessOK'
  BY DEF AuthInv, GuessOK, authFails
<1>8. QED
  BY <1>1, <1>2, <1>5, <1>6, <1>7

(* A login starts a family of its own.                                     *)
LEMMA CreatesSessionKeeps ==
  ASSUME AuthInv, NEW r \in AuthRequests, CreatesSession(r)
  PROVE  AuthInv'
<1> DEFINE n == Len(auIssued) + 1
           kept == Unexpired(auSessions)
<1>1. /\ In(r, "grant") /\ auFlow[r].kind = "login" /\ ~In(r, "waiting") /\ EndsFlow(r)
      /\ IssueSession(kept, n, auFlow[r].epoch)
      /\ UNCHANGED <<auNow, auEmergency, authStored, auLapsed, auEnded, authSetupVars, authFails>>
  BY DEF CreatesSession, Granted, In
<1>2. auFlow[r].epoch = auEpoch /\ auEpoch \in Nat
  BY <1>1 DEF AuthInv, EpochOK, DataOK, Holds
<1>3. /\ DOMAIN kept = {s \in DOMAIN auSessions : auNow < auSessions[s].expires}
      /\ \A s \in DOMAIN kept : kept[s] = auSessions[s]
  BY DEF Unexpired
<1> HIDE DEF kept
<1>4. \A s \in DOMAIN auSessions : auSessions[s] \in Sessions
  BY DEF AuthInv, DataOK
<1>5. n \in Nat
  BY DEF AuthInv, DataOK
<1>6. /\ FlowOK' /\ DataOK' /\ LockOK' /\ EnforcedOK' /\ TotpOK' /\ GuessOK' /\ Ended(r)
  BY <1>1, <1>2, <1>3, <1>4, <1>5, IssuingKeeps DEF authSetupVars
<1>7. /\ DOMAIN auIssued = 1..Len(auIssued) /\ n \notin DOMAIN auIssued
      /\ DOMAIN auIssued' = DOMAIN auIssued \cup {n} /\ auIssued'[n] = n
      /\ \A s \in DOMAIN auIssued : auIssued'[s] = auIssued[s]
      /\ DOMAIN auSessions' = DOMAIN kept \cup {n}
      /\ auSessions'[n].epoch = auEpoch
      /\ \A s \in DOMAIN kept : s \in DOMAIN auIssued /\ s # n /\ auSessions'[s] = auSessions[s]
      /\ Len(auIssued') = n /\ Len(auIssued) \in Nat
  <2>1. DOMAIN kept \subseteq DOMAIN auSessions /\ IssueSession(kept, n, auEpoch)
    BY <1>1, <1>2, <1>3
  <2>2. auEpoch \in Nat
    BY <1>2
  <2> HIDE DEF n
  <2>3. /\ Len(auIssued) \in Nat /\ DOMAIN auIssued = 1..Len(auIssued)
        /\ Len(auIssued) + 1 \notin DOMAIN auIssued
        /\ DOMAIN auIssued' = DOMAIN auIssued \cup {Len(auIssued) + 1}
        /\ Len(auIssued') = Len(auIssued) + 1 /\ auIssued'[Len(auIssued) + 1] = n
        /\ \A s \in DOMAIN auIssued : auIssued'[s] = auIssued[s]
        /\ DOMAIN auSessions' = DOMAIN kept \cup {Len(auIssued) + 1}
        /\ auSessions'[Len(auIssued) + 1].epoch = auEpoch
        /\ \A s \in DOMAIN kept : /\ s \in DOMAIN auIssued /\ s # Len(auIssued) + 1
                                  /\ auSessions'[s] = kept[s]
    BY <1>5, <2>1, <2>2, SessionIssued
  <2>4. QED
    BY <1>3, <2>3 DEF n
<1>8. \A s \in DOMAIN auIssued : auIssued[s] \in Nat /\ auIssued[s] <= s /\ auIssued[s] # n
  BY <1>7 DEF AuthInv, FamilyOK, DataOK
<1>9. \A s \in DOMAIN kept : ActiveSession(s)' = ActiveSession(s) /\ s \in DOMAIN auSessions
  BY <1>1, <1>3, <1>7 DEF ActiveSession
<1>10. \A q \in AuthRequests : ~Holds(q, Writers)'
  <2> SUFFICES ASSUME NEW q \in AuthRequests PROVE ~Holds(q, Writers)'
    OBVIOUS
  <2>1. CASE q = r
    BY <1>6, <2>1 DEF Ended, Holds, Writers
  <2>2. CASE q # r
    BY <1>1, <1>6, <2>2 DEF Ended, Moved, Holds, In, AuthInv, LockOK, Readers, Writers
  <2>3. QED
    BY <2>1, <2>2
<1>11. EpochOK'
  <2>1. ASSUME NEW q \in AuthRequests, Holds(q, {"login"})' PROVE auFlow'[q].epoch = auEpoch
    BY <1>6, <2>1 DEF AuthInv, EpochOK, Holds, In, Ended, Moved
  <2>2. \A q \in AuthRequests : ~In(q, "replace")
    BY <1>1 DEF AuthInv, LockOK, FlowOK, Holds, In, Readers, Writers
  <2>3. ASSUME NEW s \in DOMAIN auSessions', ActiveSession(s)'
        PROVE  auSessions'[s].epoch = auEpoch
    BY <1>7, <1>9, <2>2, <2>3 DEF AuthInv, EpochOK
  <2>4. QED
    BY <1>1, <2>1, <2>3 DEF EpochOK, authStored
<1>12. FamilyOK'
  <2>1. \A s \in DOMAIN auIssued' : auIssued'[s] <= s
    BY <1>7, <1>8
  <2>2. \A family \in auEnded' : family \in Nat /\ family <= Len(auIssued')
    BY <1>1, <1>7 DEF AuthInv, FamilyOK
  <2>3. ASSUME NEW s \in DOMAIN auSessions', ActiveSession(s)', NEW q \in DOMAIN auIssued',
               auIssued'[q] = auIssued'[s]
        PROVE  q \in DOMAIN auSessions' \cup auLapsed'
    <3>1. CASE s = n
      BY <2>3, <3>1, <1>7, <1>8
    <3>2. CASE s \in DOMAIN kept
      <4>1. /\ s \in DOMAIN auSessions /\ s \in DOMAIN auIssued /\ ActiveSession(s)
            /\ q \in DOMAIN auIssued /\ auIssued[q] = auIssued[s]
        BY <2>3, <3>2, <1>7, <1>8, <1>9
      <4>2. q \in DOMAIN auSessions \cup auLapsed
        BY <4>1 DEF AuthInv, FamilyOK, Covered
      <4>3. CASE q \in DOMAIN auSessions
        <5>1. auSessions[s].expires <= auSessions[q].expires /\ auNow < auSessions[s].expires
          BY <4>1, <4>3 DEF AuthInv, FamilyOK, ActiveSession
        <5>2. /\ auSessions[s].expires \in Nat /\ auSessions[q].expires \in Nat
              /\ auNow \in Nat
          BY <4>1, <4>3, <1>4, Numbers DEF Sessions, AuthInv, DataOK
        <5>3. q \in DOMAIN kept
          BY <5>1, <5>2, <4>3, <1>3
        <5>4. QED
          BY <5>3, <1>7
      <4>4. QED
        BY <4>2, <4>3, <1>1
    <3>3. QED
      BY <3>1, <3>2, <1>7
  <2>4. ASSUME NEW a \in DOMAIN auSessions', NEW s \in DOMAIN auSessions',
               auSessions'[a].active, auIssued'[s] = auIssued'[a]
        PROVE  auSessions'[a].expires <= auSessions'[s].expires
    <3>1. CASE a = n \/ s = n
      <4>1. a = n /\ s = n
        BY <3>1, <2>4, <1>7, <1>8
      <4>2. auSessions'[n].expires \in Nat
        BY <1>6, <4>1 DEF DataOK, Sessions
      <4>3. QED
        BY <4>1, <4>2
    <3>2. CASE a # n /\ s # n
      BY <3>2, <2>4, <1>7, <1>9 DEF AuthInv, FamilyOK
    <3>3. QED
      BY <3>1, <3>2
  <2>5. QED
    BY <2>1, <2>2, <2>3, <2>4, <1>10 DEF FamilyOK, Covered
<1>13. LogoutEndsFamily'
  <2>1. n \notin auEnded
    BY <1>7 DEF AuthInv, FamilyOK
  <2>2. QED
    BY <2>1, <1>1, <1>7, <1>9 DEF AuthInv, LogoutEndsFamily
<1>14. QED
  BY <1>6, <1>11, <1>12, <1>13 DEF AuthInv

(* A replaced session is inactive, and lives on in the writer's family.    *)
LEMMA ReplacedSessions ==
  ASSUME AuthInv, NEW family
  PROVE  /\ DOMAIN Replaced(family) =
              {s \in DOMAIN auSessions : auSessions[s].family = family
                                         \/ auNow < auSessions[s].expires}
         /\ \A s \in DOMAIN Replaced(family) :
              /\ Replaced(family)[s] \in Sessions /\ ~Replaced(family)[s].active
              /\ Replaced(family)[s].family = auSessions[s].family
              /\ auSessions[s].family = family =>
                   Replaced(family)[s].expires = auNow + SessionTTL
<1>1. DOMAIN Replaced(family) =
        {s \in DOMAIN auSessions : auSessions[s].family = family
                                   \/ auNow < auSessions[s].expires}
  BY DEF Replaced
<1>2. ASSUME NEW s \in DOMAIN Replaced(family)
      PROVE  /\ Replaced(family)[s] \in Sessions /\ ~Replaced(family)[s].active
             /\ Replaced(family)[s].family = auSessions[s].family
             /\ auSessions[s].family = family =>
                  Replaced(family)[s].expires = auNow + SessionTTL
  <2> DEFINE old == auSessions[s]
             until == IF old.family = family THEN auNow + SessionTTL ELSE old.expires
             new == [old EXCEPT !.active = FALSE, !.expires = until]
  <2>1. old \in Sessions /\ auNow \in Nat
    BY <1>1, Numbers DEF AuthInv, DataOK
  <2>2. until \in Nat /\ (old.family = family => until = auNow + SessionTTL)
    BY <2>1, Numbers DEF Sessions
  <2>3. Replaced(family)[s] = new
    BY <1>1 DEF Replaced
  <2> HIDE DEF old, until
  <2>4. new \in Sessions /\ ~new.active /\ new.family = old.family /\ new.expires = until
    BY <2>1, <2>2 DEF Sessions
  <2> HIDE DEF new
  <2>5. QED
    BY <2>2, <2>3, <2>4 DEF old
<1>3. QED
  BY <1>1, <1>2

(* The sessions that were in use are not any more, but one; the others of  *)
(* its family expire when it does.                                         *)
LEMMA ReplacesSessionsKeeps ==
  ASSUME AuthInv, NEW r \in AuthRequests, ReplacesSessions(r)
  PROVE  AuthInv'
<1> DEFINE n == Len(auIssued) + 1
           f == auIssued[auFlow[r].session]
           kept == Replaced(f)
<1>1. /\ In(r, "replace") /\ ~In(r, "waiting") /\ EndsFlow(r)
      /\ IssueSession(kept, f, auEpoch) /\ auSetups' = <<>>
      /\ UNCHANGED <<auNow, auEmergency, authStored, auLapsed, auEnded, auSetupCount, authFails>>
  BY DEF ReplacesSessions, In
<1>2. Holds(r, Writers)
  BY <1>1 DEF AuthInv, FlowOK, Holds, In
<1>3. auFlow[r].session \in DOMAIN auIssued /\ f \in Nat /\ auEpoch \in Nat
      /\ Covered(f) /\ f \notin auEnded
  BY <1>2 DEF AuthInv, FlowOK, DataOK, FamilyOK, Holds, Writers, OfSession
<1>4. /\ DOMAIN kept = {s \in DOMAIN auSessions : auSessions[s].family = f
                                                  \/ auNow < auSessions[s].expires}
      /\ \A s \in DOMAIN kept :
              /\ kept[s] \in Sessions /\ ~kept[s].active
              /\ kept[s].family = auSessions[s].family
              /\ auSessions[s].family = f => kept[s].expires = auNow + SessionTTL
  BY ReplacedSessions
<1> HIDE DEF kept, f
<1>5. FlowOK' /\ DataOK' /\ LockOK' /\ EnforcedOK' /\ TotpOK' /\ GuessOK' /\ Ended(r)
  BY <1>1, <1>3, <1>4, IssuingKeeps
<1>6. /\ DOMAIN auIssued = 1..Len(auIssued) /\ n \notin DOMAIN auIssued
      /\ DOMAIN auIssued' = DOMAIN auIssued \cup {n} /\ auIssued'[n] = f
      /\ \A s \in DOMAIN auIssued : auIssued'[s] = auIssued[s]
      /\ DOMAIN auSessions' = DOMAIN kept \cup {n}
      /\ auSessions'[n] =
           [expires |-> auNow + SessionTTL, family |-> f, active |-> TRUE, epoch |-> auEpoch]
      /\ auSessions'[n].epoch = auEpoch
      /\ \A s \in DOMAIN kept : s \in DOMAIN auIssued /\ s # n /\ auSessions'[s] = kept[s]
      /\ Len(auIssued') = n /\ Len(auIssued) \in Nat
  <2>1. DOMAIN kept \subseteq DOMAIN auSessions /\ IssueSession(kept, f, auEpoch)
    BY <1>1, <1>4
  <2>2. f \in Nat /\ auEpoch \in Nat
    BY <1>3
  <2>3. QED
    BY <2>1, <2>2, SessionIssued
<1>7. auSessions'[n].expires = auNow + SessionTTL /\ auNow + SessionTTL \in Nat
  BY <1>6, Numbers DEF AuthInv, DataOK
<1>8. \A s \in DOMAIN auSessions' : auSessions'[s].active => s = n
  BY <1>4, <1>6
<1>9. ASSUME NEW s \in DOMAIN auSessions', auIssued'[s] = f
      PROVE  auSessions'[s].expires = auNow + SessionTTL
  <2>1. CASE s = n
    BY <2>1, <1>7
  <2>2. CASE s \in DOMAIN kept
    <3>1. s \in DOMAIN auSessions /\ auIssued[s] = f /\ auSessions'[s] = kept[s]
      BY <2>2, <1>4, <1>6, <1>9
    <3>2. auSessions[s].family = f
      BY <3>1 DEF AuthInv, DataOK
    <3>3. QED
      BY <2>2, <3>1, <3>2, <1>4
  <2>3. QED
    BY <2>1, <2>2, <1>6
<1>10. \A q \in AuthRequests : ~Holds(q, Writers)' /\ ~Holds(q, {"login"})'
  <2> SUFFICES ASSUME NEW q \in AuthRequests
               PROVE  ~Holds(q, Writers)' /\ ~Holds(q, {"login"})'
    OBVIOUS
  <2>1. CASE q = r
    BY <1>5, <2>1 DEF Ended, Holds, Writers
  <2>2. CASE q # r
    BY <1>2, <1>5, <2>2, WriterAlone DEF Ended, Moved, Holds, In
  <2>3. QED
    BY <2>1, <2>2
<1>11. EpochOK'
  BY <1>1, <1>6, <1>8, <1>10 DEF EpochOK, ActiveSession, authStored
<1>12. FamilyOK'
  <2>1. \A s \in DOMAIN auIssued' : auIssued'[s] <= s
    <3>1. f <= auFlow[r].session /\ auFlow[r].session \in 1..Len(auIssued) /\ f \in Nat
      BY <1>3, <1>6 DEF AuthInv, FamilyOK, f
    <3>2. QED
      BY <3>1, <1>6 DEF AuthInv, FamilyOK
  <2>2. \A family \in auEnded' : family \in Nat /\ family <= Len(auIssued')
    BY <1>1, <1>6 DEF AuthInv, FamilyOK
  <2>3. ASSUME NEW q \in DOMAIN auIssued', auIssued'[q] = f
        PROVE  q \in DOMAIN auSessions' \cup auLapsed'
    <3>1. CASE q = n
      BY <3>1, <1>6
    <3>2. CASE q # n
      <4>1. q \in DOMAIN auIssued /\ auIssued[q] = f
        BY <2>3, <3>2, <1>6
      <4>2. q \in DOMAIN auSessions \cup auLapsed
        BY <4>1, <1>3 DEF Covered
      <4>3. q \in DOMAIN auSessions => q \in DOMAIN kept
        BY <4>1, <1>4 DEF AuthInv, DataOK
      <4>4. QED
        BY <4>2, <4>3, <1>1, <1>6
    <3>3. QED
      BY <3>1, <3>2
  <2>4. ASSUME NEW a \in DOMAIN auSessions', NEW s \in DOMAIN auSessions',
               auSessions'[a].active, auIssued'[s] = auIssued'[a]
        PROVE  auSessions'[a].expires <= auSessions'[s].expires
    BY <2>4, <1>6, <1>7, <1>8, <1>9
  <2>5. \A s \in DOMAIN auSessions' : ActiveSession(s)' => auIssued'[s] = f
    BY <1>6, <1>8 DEF ActiveSession
  <2>6. QED
    BY <2>1, <2>2, <2>3, <2>4, <2>5, <1>10 DEF FamilyOK, Covered
<1>13. LogoutEndsFamily'
  BY <1>1, <1>3, <1>6, <1>8 DEF LogoutEndsFamily, ActiveSession
<1>14. QED
  BY <1>5, <1>11, <1>12, <1>13 DEF AuthInv

-----------------------------------------------------------------------------
(* Steps of no request                                                     *)

(* Sessions that are deleted or no longer active.                          *)
LEMMA FewerSessions ==
  ASSUME AuthInv, UNCHANGED <<auNow, auEmergency, authStored, auIssued, auSetupCount,
                              authFails, auFlow>>,
         DOMAIN auSessions' \subseteq DOMAIN auSessions,
         \A s \in DOMAIN auSessions' :
            /\ auSessions'[s] \in Sessions
            /\ auSessions'[s].family = auSessions[s].family
            /\ auSessions'[s].expires = auSessions[s].expires
            /\ auSessions'[s].epoch = auSessions[s].epoch
            /\ auSessions'[s].active => auSessions[s].active,
         DOMAIN auSetups' \subseteq DOMAIN auSetups,
         \A i \in DOMAIN auSetups' : auSetups'[i] = auSetups[i],
         \A family \in auEnded' : family \in Nat /\ family <= Len(auIssued),
         \A s \in DOMAIN auSessions' :
            ActiveSession(s)' => Covered(auIssued[s])' /\ auIssued[s] \notin auEnded',
         \A r \in AuthRequests : Holds(r, Writers) =>
            Covered(auIssued[auFlow[r].session])' /\ auIssued[auFlow[r].session] \notin auEnded'
  PROVE  AuthInv'
<1> USE DEF authStored, authFails
<1>1. FlowOK' /\ LockOK' /\ EnforcedOK' /\ TotpOK' /\ GuessOK'
  BY DEF AuthInv, FlowOK, LockOK, EnforcedOK, TotpOK, GuessOK, Enforced, Fresh, In, Holds
<1>2. DataOK'
  BY DEF AuthInv, DataOK
<1>3. \A s \in DOMAIN auSessions' : ActiveSession(s)' => ActiveSession(s)
  BY DEF ActiveSession
<1>4. EpochOK'
  BY <1>3 DEF AuthInv, EpochOK, In, Holds
<1>5. \A a, s \in DOMAIN auSessions' :
        auSessions'[a].active /\ auIssued'[s] = auIssued'[a] =>
           auSessions'[a].expires <= auSessions'[s].expires
  BY DEF AuthInv, FamilyOK
<1>6. \A r \in AuthRequests : Holds(r, Writers)' = Holds(r, Writers)
  BY DEF Holds, In
<1>7. FamilyOK'
  BY <1>5, <1>6 DEF AuthInv, FamilyOK
<1>8. LogoutEndsFamily'
  BY DEF LogoutEndsFamily
<1>9. QED
  BY <1>1, <1>2, <1>4, <1>7, <1>8 DEF AuthInv

(* What a session that is deleted leaves behind is no family in use.       *)
LEMMA ExpiredFamily ==
  ASSUME AuthInv, NEW a, ActiveSession(a), NEW s \in DOMAIN auSessions,
         ~(auNow < auSessions[s].expires)
  PROVE  auIssued[s] # auIssued[a]
<1> SUFFICES ASSUME auIssued[s] = auIssued[a] PROVE FALSE
  OBVIOUS
<1>1. auSessions[a].expires <= auSessions[s].expires /\ auNow < auSessions[a].expires
      /\ a \in DOMAIN auSessions
  BY DEF AuthInv, FamilyOK, ActiveSession
<1>2. /\ auSessions[s] \in Sessions /\ auSessions[a] \in Sessions /\ auNow \in Nat
  BY <1>1, Numbers DEF AuthInv, DataOK
<1>3. auSessions[s].expires \in Nat /\ auSessions[a].expires \in Nat
  BY <1>2 DEF Sessions
<1>4. QED
  BY <1>1, <1>2, <1>3

LEMMA LogoutKeeps ==
  ASSUME AuthInv, NEW s \in IssuedSessions, Logout(s)
  PROVE  AuthInv'
<1> DEFINE family == auSessions[s].family
           known == s \in DOMAIN auSessions /\ auNow < auSessions[s].expires
<1>1. /\ MayWrite /\ s \in DOMAIN auIssued
      /\ auEnded' = (IF s \in auLapsed THEN auEnded ELSE auEnded \cup {auIssued[s]})
      /\ UNCHANGED <<auNow, auEmergency, authStored, auIssued, auLapsed, auSetupCount,
                     authFails, auFlow>>
  BY DEF Logout, IssuedSessions
<1>2. \A r \in AuthRequests : ~Holds(r, Writers)
  BY <1>1 DEF MayWrite, Holds
<1>3. \A f \in auEnded' : f \in Nat /\ f <= Len(auIssued)
  <2>1. /\ auIssued[s] \in Nat /\ auIssued[s] <= s /\ s \in Nat /\ s <= Len(auIssued)
        /\ Len(auIssued) \in Nat
    BY <1>1 DEF AuthInv, DataOK, FamilyOK
  <2>2. QED
    BY <1>1, <2>1 DEF AuthInv, FamilyOK
<1>4. /\ DOMAIN auSetups' \subseteq DOMAIN auSetups
      /\ \A i \in DOMAIN auSetups' : auSetups'[i] = auSetups[i]
  BY DEF Logout
<1>5. ASSUME NEW q, ActiveSession(q)
      PROVE  Covered(auIssued[q]) /\ auIssued[q] \notin auEnded
             /\ q \in DOMAIN auSessions /\ auSessions[q].family = auIssued[q]
  BY <1>5, ActiveFamily DEF ActiveSession, AuthInv, DataOK
<1>6. CASE known
  <2>1. auSessions' = [q \in DOMAIN auSessions |->
                         [auSessions[q] EXCEPT !.active = @ /\ auSessions[q].family # family]]
    BY <1>6 DEF Logout
  <2>2. ASSUME NEW q \in DOMAIN auSessions'
        PROVE  /\ auSessions'[q] \in Sessions
               /\ auSessions'[q].family = auSessions[q].family
               /\ auSessions'[q].expires = auSessions[q].expires
               /\ auSessions'[q].epoch = auSessions[q].epoch
               /\ auSessions'[q].active =>
                     auSessions[q].active /\ auSessions[q].family # family
    <3> DEFINE old == auSessions[q]
               active == old.active /\ old.family # family
               new == [old EXCEPT !.active = active]
    <3>1. old \in Sessions
      BY <2>1 DEF AuthInv, DataOK
    <3>2. auSessions'[q] = new
      BY <2>1
    <3>3. active \in BOOLEAN
      OBVIOUS
    <3> HIDE DEF old, active, family
    <3>4. /\ new \in Sessions /\ new.family = old.family /\ new.expires = old.expires
          /\ new.epoch = old.epoch /\ new.active = active
      BY <3>1, <3>3 DEF Sessions
    <3> HIDE DEF new
    <3>5. QED
      BY <3>2, <3>4 DEF old, active
  <2>3. DOMAIN auSessions' = DOMAIN auSessions
    BY <2>1
  <2>4. family = auIssued[s]
    BY <1>6 DEF AuthInv, DataOK
  <2>5. ASSUME NEW q \in DOMAIN auSessions', ActiveSession(q)'
        PROVE  Covered(auIssued[q])' /\ auIssued[q] \notin auEnded'
    <3>1. ActiveSession(q) /\ auSessions[q].family # family
      BY <1>1, <2>2, <2>3, <2>5 DEF ActiveSession
    <3>2. QED
      BY <1>1, <1>5, <2>3, <2>4, <3>1 DEF Covered
  <2> HIDE DEF family
  <2>6. QED
    BY <1>1, <1>2, <1>3, <1>4, <2>2, <2>3, <2>5, FewerSessions
<1>7. CASE ~known
  <2>1. auSessions' = [q \in DOMAIN auSessions \ {s} |-> auSessions[q]]
    BY <1>7 DEF Logout
  <2>2. /\ DOMAIN auSessions' = DOMAIN auSessions \ {s}
        /\ \A q \in DOMAIN auSessions' :
             auSessions'[q] = auSessions[q] /\ auSessions[q] \in Sessions
    BY <2>1 DEF AuthInv, DataOK
  <2>3. ASSUME NEW q \in DOMAIN auSessions', ActiveSession(q)'
        PROVE  Covered(auIssued[q])' /\ auIssued[q] \notin auEnded'
    <3>1. ActiveSession(q) /\ q # s
      BY <1>1, <2>2, <2>3 DEF ActiveSession
    <3>2. s \in auLapsed \/ auIssued[s] # auIssued[q]
      <4>1. SUFFICES ASSUME auIssued[s] = auIssued[q] PROVE s \in auLapsed
        OBVIOUS
      <4>2. s \in DOMAIN auSessions \cup auLapsed
        BY <1>1, <1>5, <3>1, <4>1 DEF Covered
      <4>3. s \notin DOMAIN auSessions
        BY <1>7, <3>1, <4>1, ExpiredFamily
      <4>4. QED
        BY <4>2, <4>3
    <3>3. QED
      BY <1>1, <1>5, <2>2, <3>1, <3>2 DEF Covered
  <2>4. QED
    BY <1>1, <1>2, <1>3, <1>4, <2>2, <2>3, FewerSessions
<1>8. QED
  BY <1>6, <1>7

LEMMA ForgetExpiredKeeps ==
  ASSUME AuthInv, NEW s \in DOMAIN auSessions, ForgetExpired(s)
  PROVE  AuthInv'
<1>1. /\ auNow >= auSessions[s].expires
      /\ auSessions' = [q \in DOMAIN auSessions \ {s} |-> auSessions[q]]
      /\ auLapsed' = (IF InUse(auSessions[s].family) THEN auLapsed ELSE auLapsed \cup {s})
      /\ UNCHANGED <<auNow, auEmergency, authStored, auIssued, auEnded, authSetupVars,
                     authFails, auFlow>>
  BY DEF ForgetExpired
<1>2. /\ DOMAIN auSessions' = DOMAIN auSessions \ {s}
      /\ \A q \in DOMAIN auSessions' :
           auSessions'[q] = auSessions[q] /\ auSessions[q] \in Sessions
  BY <1>1 DEF AuthInv, DataOK
<1>3. ~(auNow < auSessions[s].expires)
  <2>1. auSessions[s] \in Sessions /\ auNow \in Nat
    BY Numbers DEF AuthInv, DataOK
  <2>2. QED
    BY <1>1, <2>1 DEF Sessions
<1>4. auLapsed' = auLapsed \cup {s}
  <2>1. ~InUse(auSessions[s].family)
    <3> SUFFICES ASSUME NEW a \in DOMAIN auSessions, ActiveSession(a),
                        auSessions[a].family = auSessions[s].family
                 PROVE  FALSE
      BY DEF InUse
    <3>1. auIssued[a] = auIssued[s]
      BY DEF AuthInv, DataOK
    <3>2. QED
      BY <1>3, <3>1, ExpiredFamily
  <2>2. QED
    BY <1>1, <2>1
<1>5. \A f : Covered(f) => Covered(f)'
  BY <1>1, <1>2, <1>4 DEF Covered
<1>6. \A q \in DOMAIN auSessions' : ActiveSession(q)' => ActiveSession(q)
  BY <1>1, <1>2 DEF ActiveSession
<1>7. QED
  BY <1>1, <1>2, <1>5, <1>6, FewerSessions, ActiveFamily
     DEF AuthInv, FamilyOK, authSetupVars

LEMMA RestartKeeps ==
  ASSUME AuthInv, AuthRestart
  PROVE  AuthInv'
<1>1. /\ auEmergency' \in BOOLEAN /\ auSessions' = <<>> /\ auSetups' = <<>>
      /\ auTokenFails' = NoFailures /\ auTotpFails' = NoFailures /\ auGuesses' = <<>>
      /\ auFlow' = [r \in AuthRequests |-> NoRequest]
      /\ auIssued' = [s \in DOMAIN auIssued |-> NoFamily]
      /\ auLapsed' = {} /\ auEnded' = {} /\ auEpoch' = 0
      /\ UNCHANGED <<auNow, auConfig, auAccepted, auSetupCount>>
  BY DEF AuthRestart
<1>2. NoRequest \in Requests /\ NoRequest.kind = "none" /\ NoRequest.phase = "done"
  BY DEF NoRequest, RequestFor, Requests, Kinds, Phases
<1>3. /\ auFlow' \in [AuthRequests -> Requests]
      /\ \A r \in AuthRequests : auFlow'[r].kind = "none" /\ auFlow'[r].phase = "done"
  BY <1>1, <1>2
<1>4. FlowOK' /\ LockOK' /\ EnforcedOK'
  BY <1>3 DEF FlowOK, LockOK, EnforcedOK, In, Holds, Readers, Writers, OfSession
<1>5. auIssued' \in Seq(Nat) /\ DOMAIN auIssued' = DOMAIN auIssued
      /\ \A s \in DOMAIN auIssued : s \in Nat /\ auIssued'[s] = 0
  BY <1>1 DEF AuthInv, DataOK, NoFamily
<1>6. GuessOK' /\ auTotpFails' \in Failures /\ auTokenFails' \in Failures
  BY <1>1, GuessReset
<1>7. DOMAIN auSessions' = {} /\ DOMAIN auSetups' = {}
  BY <1>1
<1>8. DataOK'
  BY <1>1, <1>5, <1>6, <1>7 DEF AuthInv, DataOK
<1>9. TotpOK'
  BY <1>1, <1>3 DEF AuthInv, TotpOK, In
<1>10. EpochOK' /\ LogoutEndsFamily'
  BY <1>3, <1>7 DEF EpochOK, LogoutEndsFamily, Holds
<1>11. FamilyOK'
  BY <1>1, <1>3, <1>5, <1>7 DEF FamilyOK, Holds, Writers
<1>12. QED
  BY <1>4, <1>6, <1>8, <1>9, <1>10, <1>11 DEF AuthInv

(* What is left of a sequence without its first k elements.                *)
LEMMA SequenceRest ==
  ASSUME NEW times \in Seq(Nat), NEW k \in 0..Len(times)
  PROVE  /\ SubSeq(times, 1 + k, Len(times)) \in Seq(Nat)
         /\ Len(SubSeq(times, 1 + k, Len(times))) = Len(times) - k
         /\ \A i \in 1..Len(times) - k :
              /\ i + k \in 1..Len(times)
              /\ SubSeq(times, 1 + k, Len(times))[i] = times[i + k]
<1> DEFINE n == Len(times)
           m == 1 + k
<1>1. /\ times \in Seq(Nat) /\ n \in Int /\ m \in Int /\ k \in Int
      /\ m = 1 + k /\ k >= 0 /\ k <= n
      /\ \A i \in m..n : times[i] \in Nat
  OBVIOUS
<1> HIDE DEF n, m
<1>2. /\ SubSeq(times, m, n) \in Seq(Nat)
      /\ Len(SubSeq(times, m, n)) = IF m <= n THEN n - m + 1 ELSE 0
      /\ \A i \in 1..n - m + 1 : SubSeq(times, m, n)[i] = times[m + i - 1]
  <2>1. SubSeq(times, m, n) \in Seq(Nat)
    BY <1>1, SubSeqProperties
  <2>2. Len(SubSeq(times, m, n)) = IF m <= n THEN n - m + 1 ELSE 0
    BY <1>1, SubSeqProperties
  <2>3. \A i \in 1..n - m + 1 : SubSeq(times, m, n)[i] = times[m + i - 1]
    BY <1>1
  <2>4. QED
    BY <2>1, <2>2, <2>3
<1>3. n - m + 1 = n - k
  BY <1>1
<1>4. Len(SubSeq(times, m, n)) = n - k
  <2>1. CASE m <= n
    BY <1>2, <1>3, <2>1
  <2>2. CASE ~(m <= n)
    BY <1>1, <1>2, <2>2
  <2>3. QED
    BY <2>1, <2>2
<1>5. \A i \in 1..n - k : i + k \in 1..n /\ SubSeq(times, m, n)[i] = times[i + k]
  <2> SUFFICES ASSUME NEW i \in 1..n - k
               PROVE  i + k \in 1..n /\ SubSeq(times, m, n)[i] = times[i + k]
    OBVIOUS
  <2>1. m + i - 1 = i + k /\ i + k \in 1..n
    BY <1>1
  <2>2. QED
    BY <1>2, <1>3, <2>1
<1>6. QED
  BY <1>2, <1>4, <1>5 DEF n, m

(* Of the times in order, those that are left out are the first.           *)
LEMMA TimesLeft ==
  ASSUME NEW times \in Seq(Nat), NEW moment \in Int
  PROVE  /\ TimesFrom(times, moment) \in Seq(Nat)
         /\ Len(TimesFrom(times, moment)) <= Len(times)
         /\ \A i \in DOMAIN TimesFrom(times, moment) :
              \E j \in DOMAIN times : TimesFrom(times, moment)[i] = times[j]
         /\ (\A i \in DOMAIN times : times[i] < moment) =>
              Len(TimesFrom(times, moment)) = 0
<1> DEFINE past == {i \in DOMAIN times : times[i] < moment}
           k == Cardinality(past)
<1>1. Len(times) \in Nat /\ DOMAIN times = 1..Len(times)
  OBVIOUS
<1>2. IsFiniteSet(1..Len(times)) /\ Cardinality(1..Len(times)) = Len(times)
  <2>1. \A n \in Nat : 1 \in Int /\ n \in Int /\ (IF 1 > n THEN 0 ELSE n - 1 + 1) = n
    OBVIOUS
  <2>2. /\ IsFiniteSet(1..Len(times))
        /\ Cardinality(1..Len(times)) = IF 1 > Len(times) THEN 0 ELSE Len(times) - 1 + 1
    BY <1>1, <2>1, FS_Interval, Zenon
  <2> QED
    BY <1>1, <2>1, <2>2, Zenon
<1>3. IsFiniteSet(past) /\ k <= Len(times)
  BY <1>1, <1>2, FS_Subset
<1>4. k \in Nat
  BY <1>3, FS_CardinalityType
<1>5. (\A i \in DOMAIN times : times[i] < moment) => k = Len(times)
  BY <1>1, <1>2
<1>6. k \in 0..Len(times)
  BY <1>1, <1>3, <1>4
<1> DEFINE left == SubSeq(times, 1 + k, Len(times))
<1>7. TimesFrom(times, moment) = left
  BY DEF TimesFrom
<1>8. /\ left \in Seq(Nat) /\ Len(left) = Len(times) - k
      /\ \A i \in 1..Len(times) - k : i + k \in 1..Len(times) /\ left[i] = times[i + k]
  BY <1>6, SequenceRest
<1> HIDE DEF left, k
<1>9. DOMAIN left = 1..Len(times) - k
  BY <1>8
<1>10. \A i \in DOMAIN left : \E j \in DOMAIN times : left[i] = times[j]
  BY <1>1, <1>8, <1>9
<1>11. Len(left) <= Len(times) /\ (k = Len(times) => Len(left) = 0)
  BY <1>1, <1>6, <1>8
<1>12. QED
  BY <1>5, <1>7, <1>8, <1>10, <1>11

LEMMA TickKeeps ==
  ASSUME AuthInv, AuthTick
  PROVE  AuthInv'
<1> USE DEF authSessionVars, authSetupVars
<1>1. /\ auNow < MaxAuthNow /\ auNow' = auNow + 1
      /\ auAccepted' = {step \in auAccepted : step >= auNow}
      /\ auTokenFails' = Kept(auTokenFails) /\ auTotpFails' = Kept(auTotpFails)
      /\ auGuesses' = TimesFrom(auGuesses, auNow + 1 - FailureWindow)
      /\ UNCHANGED <<auEmergency, auConfig, auEpoch, authSessionVars, authSetupVars, auFlow>>
  BY DEF AuthTick
<1>2. auNow \in Nat /\ auNow' \in 2..MaxAuthNow
  BY <1>1, Numbers DEF AuthInv, DataOK
<1>3. auTokenFails' \in Failures /\ auTotpFails' \in Failures
  BY <1>1, FailureRecorded DEF Kept, AuthInv, DataOK
<1>4. FlowOK' /\ LockOK' /\ EnforcedOK' /\ TotpOK'
  BY <1>1 DEF AuthInv, FlowOK, LockOK, EnforcedOK, TotpOK, Enforced, Fresh, In, Holds
<1>5. DataOK'
  BY <1>1, <1>2, <1>3 DEF AuthInv, DataOK
<1>6. GuessOK'
  <2> DEFINE moment == auNow + 1 - FailureWindow
  <2>1. /\ auTotpFails.n \in Nat /\ auTotpFails.at \in Nat
        /\ auGuesses \in Seq(Nat) /\ Len(auGuesses) <= auTotpFails.n
        /\ \A i \in DOMAIN auGuesses : auGuesses[i] \in Nat /\ auGuesses[i] <= auTotpFails.at
        /\ auTotpFails.at <= auNow
    BY FailureRecorded DEF AuthInv, GuessOK
  <2>2. moment \in Int
    BY <1>2, Numbers
  <2>3. /\ auGuesses' \in Seq(Nat) /\ Len(auGuesses') <= Len(auGuesses)
        /\ \A i \in DOMAIN auGuesses' : \E j \in DOMAIN auGuesses : auGuesses'[i] = auGuesses[j]
        /\ (\A i \in DOMAIN auGuesses : auGuesses[i] < moment) => Len(auGuesses') = 0
    BY <1>1, <2>1, <2>2, TimesLeft
  <2>4. CASE auNow - auTotpFails.at >= FailureWindow
    <3>1. \A i \in DOMAIN auGuesses : auGuesses[i] < moment
      BY <1>2, <2>1, <2>4, Numbers
    <3>2. Len(auGuesses') = 0 /\ DOMAIN auGuesses' = {}
      BY <2>3, <3>1
    <3>3. auTotpFails'.n = 0 /\ auTotpFails'.at = 0
      BY <1>1, <2>4 DEF Kept, NoFailures
    <3>4. QED
      BY <1>2, <2>3, <3>2, <3>3 DEF GuessOK
  <2>5. CASE ~(auNow - auTotpFails.at >= FailureWindow)
    <3>1. auTotpFails' = auTotpFails
      BY <1>1, <2>5 DEF Kept
    <3>2. Len(auGuesses') \in Nat /\ Len(auGuesses) \in Nat
      BY <2>1, <2>3
    <3>3. \A i \in DOMAIN auGuesses' : auGuesses'[i] <= auTotpFails.at
      BY <2>1, <2>3
    <3>4. QED
      BY <1>1, <1>2, <2>1, <2>3, <3>1, <3>2, <3>3 DEF GuessOK
  <2>6. QED
    BY <2>4, <2>5
<1>7. \A s \in DOMAIN auSessions : ActiveSession(s)' => ActiveSession(s)
  <2> SUFFICES ASSUME NEW s \in DOMAIN auSessions, ActiveSession(s)' PROVE ActiveSession(s)
    OBVIOUS
  <2>1. auSessions[s].expires \in Nat
    BY DEF AuthInv, DataOK, Sessions
  <2>2. QED
    BY <1>1, <1>2, <2>1 DEF ActiveSession
<1>8. EpochOK'
  BY <1>1, <1>7 DEF AuthInv, EpochOK, In, Holds
<1>9. FamilyOK' /\ LogoutEndsFamily'
  BY <1>1, <1>7 DEF AuthInv, FamilyOK, LogoutEndsFamily, Covered, Holds, In
<1>10. QED
  BY <1>4, <1>5, <1>6, <1>8, <1>9 DEF AuthInv

-----------------------------------------------------------------------------
(* Authentication keeps its invariant.                                     *)
LEMMA AuthStarts == AuthInit => AuthInv
<1> SUFFICES ASSUME AuthInit PROVE AuthInv
  OBVIOUS
<1>1. NoRequest \in Requests /\ NoRequest.kind = "none" /\ NoRequest.phase = "done"
  BY DEF NoRequest, RequestFor, Requests, Kinds, Phases
<1>2. /\ auFlow \in [AuthRequests -> Requests]
      /\ \A r \in AuthRequests : auFlow[r].kind = "none" /\ auFlow[r].phase = "done"
  BY <1>1 DEF AuthInit
<1>3. FlowOK /\ LockOK /\ EnforcedOK
  BY <1>2 DEF FlowOK, LockOK, EnforcedOK, In, Holds, Readers, Writers, OfSession
<1>4. NoFailures \in Failures /\ NoFailures.n = 0 /\ NoFailures.at = 0
  BY Numbers DEF NoFailures, Failures
<1>5. auConfig \in Configs /\ auNow \in 2..MaxAuthNow
  BY Numbers DEF AuthInit, NotEnrolled, Configs
<1>6. /\ auIssued = <<>> /\ auIssued \in Seq(Nat) /\ DOMAIN auIssued = {}
      /\ DOMAIN auSessions = {} /\ DOMAIN auSetups = {}
      /\ auGuesses \in Seq(Nat) /\ Len(auGuesses) = 0 /\ DOMAIN auGuesses = {}
  BY DEF AuthInit
<1>7. DataOK
  BY <1>4, <1>5, <1>6 DEF AuthInit, DataOK
<1>8. GuessOK
  BY <1>4, <1>5, <1>6 DEF AuthInit, GuessOK
<1>9. TotpOK /\ EpochOK /\ FamilyOK /\ LogoutEndsFamily
  BY <1>2, <1>6 DEF AuthInit, TotpOK, EpochOK, FamilyOK, LogoutEndsFamily, In, Holds, Writers
<1>10. QED
  BY <1>3, <1>7, <1>8, <1>9 DEF AuthInv

LEMMA ProceedsKeeps ==
  ASSUME AuthInv, NEW r \in AuthRequests, Proceeds(r)
  PROVE  AuthInv'
<1>1. CASE EntersReading(r) \/ EntersDisabling(r) \/ EntersConfirming(r)
  BY <1>1, EntersReadingKeeps, EntersDisablingKeeps, EntersConfirmingKeeps
<1>2. CASE ChecksLimit(r) \/ ComparesCode(r) \/ SavesStep(r)
  BY <1>2, ChecksLimitKeeps, ComparesCodeKeeps, SavesStepKeeps
<1>3. CASE CreatesSession(r) \/ CreatesSetup(r)
  BY <1>3, CreatesSessionKeeps, CreatesSetupKeeps
<1>4. CASE StoresEnrolment(r) \/ DeletesEnrolment(r) \/ ReplacesSessions(r)
  BY <1>4, StoresEnrolmentKeeps, DeletesEnrolmentKeeps, ReplacesSessionsKeeps
<1>5. CASE Dispatched(r)
  BY <1>5, DispatchedKeeps
<1>6. QED
  BY <1>1, <1>2, <1>3, <1>4, <1>5 DEF Proceeds

LEMMA AuthStays == AuthInv /\ [AuthNext]_authVars => AuthInv'
<1> SUFFICES ASSUME AuthInv, [AuthNext]_authVars PROVE AuthInv'
  OBVIOUS
<1>1. CASE UNCHANGED authVars
  BY <1>1
     DEF AuthInv, FlowOK, DataOK, LockOK, EnforcedOK, TotpOK, GuessOK, EpochOK, FamilyOK,
         LogoutEndsFamily, Enforced, In, Holds, ActiveSession, Covered, Fresh,
         authVars, authStored, authSessionVars, authSetupVars, authFails
<1>2. ASSUME NEW r \in AuthRequests, Arrives(r) \/ Proceeds(r) PROVE AuthInv'
  BY <1>2, ArrivesKeeps, ProceedsKeeps
<1>3. CASE \E s \in IssuedSessions : Logout(s)
  BY <1>3, LogoutKeeps
<1>4. CASE \E s \in DOMAIN auSessions : ForgetExpired(s)
  BY <1>4, ForgetExpiredKeeps
<1>5. CASE WrongToken \/ AuthRestart \/ AuthTick
  BY <1>5, WrongTokenKeeps, RestartKeeps, TickKeeps
<1>6. QED
  BY <1>1, <1>2, <1>3, <1>4, <1>5 DEF AuthNext, AuthOperation

LEMMA AuthSafe == AuthSpec => []AuthInv
BY AuthStarts, AuthStays, PTL DEF AuthSpec

(* Every value of the authentication keeps its type.                       *)
THEOREM AuthTypeCorrect == AuthSpec => []AuthTypeOK
<1>1. AuthInv => AuthTypeOK
  <2> SUFFICES ASSUME AuthInv PROVE AuthTypeOK
    OBVIOUS
  <2>1. /\ auTokenFails.n \in 0..FailureLimit /\ auTotpFails.n \in 0..FailureLimit
    BY DEF AuthInv, DataOK, Failures
  <2>2. \A r \in AuthRequests : auFlow[r].phase \in Phases
    BY DEF AuthInv, FlowOK, Requests
  <2>3. \A i \in DOMAIN auSetups : i <= auSetupCount /\ auSetups[i].session \in DOMAIN auIssued
    BY DEF AuthInv, DataOK
  <2>4. QED
    BY <2>1, <2>2, <2>3 DEF AuthInv, DataOK, TotpOK, AuthTypeOK, IssuedSessions, Phases
<1>2. QED
  BY <1>1, AuthSafe, PTL

(* verifyStoredTOTP and ConfirmTwoFactorSetup: a code that was accepted is *)
(* not on its way to be accepted again, for any number of requests.        *)
THEOREM CodesAreUsedOnce == AuthSpec => []CodeUsedOnce
<1>1. AuthInv => CodeUsedOnce
  <2> SUFFICES ASSUME AuthInv, NEW r \in AuthRequests, In(r, "save"),
                      auFlow[r].code \in auAccepted
               PROVE  FALSE
    BY DEF CodeUsedOnce
  <2>1. /\ auFlow[r].code \in Int
        /\ auFlow[r].code > auConfig.lastUsed /\ auFlow[r].code <= auConfig.lastUsed
    BY DEF AuthInv, TotpOK, Fresh, DataOK
  <2>2. auConfig.lastUsed \in Int
    BY DEF AuthInv, TotpOK, DataOK, Configs
  <2>3. QED
    BY <2>1, <2>2
<1>2. QED
  BY <1>1, AuthSafe, PTL

(* invalidTOTPResultForKey: the wrong codes compared within a window are   *)
(* no more than the limit, however requests overlap.                       *)
THEOREM GuessesAreLimited == AuthSpec => []GuessLimit
<1>1. AuthInv => GuessLimit
  <2> SUFFICES ASSUME AuthInv PROVE GuessLimit
    OBVIOUS
  <2>1. auGuesses \in Seq(Nat) /\ Len(auGuesses) <= auTotpFails.n
    BY DEF AuthInv, GuessOK
  <2>2. auTotpFails.n \in 0..FailureLimit
    BY DEF AuthInv, DataOK, Failures
  <2>3. QED
    BY <2>1, <2>2, Numbers DEF GuessLimit
<1>2. QED
  BY <1>1, AuthSafe, PTL

(* CheckWithStateGuard and replaceAllSessionsWith: what a request does     *)
(* with a bare token, and every session in use, is of the enrolment of     *)
(* now.                                                                    *)
THEOREM GrantsStayCurrent == AuthSpec => []GrantsAreCurrent
<1>1. AuthInv => GrantsAreCurrent
  <2> SUFFICES ASSUME AuthInv PROVE GrantsAreCurrent
    OBVIOUS
  <2>1. TokenNeverBypasses
    BY DEF AuthInv, EnforcedOK, TokenNeverBypasses
  <2>2. MayRead => \A r \in AuthRequests : ~In(r, "replace")
    BY DEF AuthInv, FlowOK, MayRead, Holds, In
  <2>3. SessionsOfThisEnrolment
    BY <2>2 DEF AuthInv, EpochOK, SessionsOfThisEnrolment
  <2>4. QED
    BY <2>1, <2>3 DEF GrantsAreCurrent
<1>2. QED
  BY <1>1, AuthSafe, PTL

(* Logout: no session of a family that was ended is active, whichever of   *)
(* its cookies ended it.                                                   *)
THEOREM LogoutIsFinal == AuthSpec => []LogoutEndsFamily
<1>1. AuthInv => LogoutEndsFamily
  BY DEF AuthInv
<1>2. QED
  BY <1>1, AuthSafe, PTL
==============================================================================
