----------------------------- MODULE AdminAuth -----------------------------
(***************************************************************************)
(* Administrator authentication (internal/auth, its handlers in            *)
(* internal/admin/admin.go and storage/admin_2fa.go).                      *)
(*                                                                         *)
(* authStateMu is a reader/writer lock: a login, the beginning of a setup  *)
(* and an API request that shows only the token read under it, confirming  *)
(* and disabling two-factor authentication and a logout write under it.    *)
(* totpMu covers the comparison of a code and the save of the step it was  *)
(* used for.  A request is a flow through the phases below; what it does   *)
(* without a lock, and between two of them, interleaves with the others.   *)
(* Sessions, setups and failure counters are in memory, the two-factor     *)
(* configuration is a row of the database, whose writes may fail.          *)
(*                                                                         *)
(* Time is counted in steps of the code (30 s).  The code of a request is  *)
(* chosen when it is looked at: the step it is for, or one that is wrong.  *)
(* All requests come from one client address, the key of the counters.     *)
(***************************************************************************)
EXTENDS Integers, Sequences, FiniteSets

CONSTANTS
    AuthRequests,     \* requests in flight at a time
    SessionTTL, SetupTTL,
    FailureLimit, FailureWindow,
    MaxAuthNow, MaxSessions, MaxSetups, \* bounds of a behaviour
    AuthScopes        \* bound: what else than logins, setups and logouts it has

ASSUME AuthAssumption ==
    /\ {SessionTTL, SetupTTL, FailureLimit, FailureWindow} \subseteq Nat
    /\ MaxAuthNow \in Nat /\ MaxAuthNow >= 2

VARIABLES
    auNow,        \* the clock
    auEmergency,  \* ADMIN_2FA_DISABLED, read at the start of the process
    auConfig,     \* the stored enrolment and the last step used with it
    auSessions,   \* session -> expiry, family, whether it is active
    auSetups,     \* pending setup -> session and expiry; its secret is new
    auTokenFails, auTotpFails,  \* failure counters
    auFlow,       \* the request each flow is at
    auScope,      \* the further requests of this behaviour
    \* history (of this process, except auAccepted)
    auIssued,     \* family of every session issued, in order
    auSetupCount, \* number of setups made
    auAccepted,   \* the recent steps whose codes of its secret were accepted
    auGuesses,    \* times of the wrong codes compared in the last window
    auLapsed,     \* sessions deleted when their family had expired
    auEnded,      \* families a logout has ended
    auEpoch       \* number of changes of the enrolment

authStored == <<auConfig, auEpoch, auAccepted>>
authSessionVars == <<auSessions, auIssued, auLapsed, auEnded>>
authSetupVars == <<auSetups, auSetupCount>>
authFails == <<auTokenFails, auTotpFails, auGuesses>>
authVars == <<auNow, auEmergency, authStored, authSessionVars, authSetupVars,
              authFails, auFlow, auScope>>

NotEnrolled == [enrolled |-> FALSE]
NoFamily == 0
NoFailures == [n |-> 0, at |-> 0]
\* No code yet, no epoch yet; session and setup are 0 in a request without one.
RequestFor(kind, phase, session, setup) ==
    [kind |-> kind, phase |-> phase, code |-> 0, epoch |-> 0, session |-> session, setup |-> setup]
NoRequest == RequestFor("none", "done", 0, 0)
Readers == {"login", "begin", "token"}
Writers == {"confirm", "disable"}

AuthInit ==
    /\ auNow = 2 /\ auEmergency = FALSE
    /\ auConfig = NotEnrolled /\ auEpoch = 0 /\ auAccepted = {}
    /\ auSessions = <<>> /\ auIssued = <<>> /\ auLapsed = {} /\ auEnded = {}
    /\ auSetups = <<>> /\ auSetupCount = 0
    /\ auTokenFails = NoFailures /\ auTotpFails = NoFailures /\ auGuesses = <<>>
    /\ auFlow = [r \in AuthRequests |-> NoRequest]
    /\ auScope \in AuthScopes

Enforced == auConfig.enrolled /\ ~auEmergency

-----------------------------------------------------------------------------
\* Failure counters: the window starts again at every counted failure, and a
\* failure beyond the limit is not counted.
FailureLimited(rec) == rec.n >= FailureLimit
RecordFailure(rec) ==
    IF FailureLimited(rec) THEN rec ELSE [n |-> rec.n + 1, at |-> auNow]

ActiveSession(s) ==
    /\ s \in DOMAIN auSessions
    /\ auNow < auSessions[s].expires
    /\ auSessions[s].active

CurrentSteps == auNow - 1..auNow + 1

-----------------------------------------------------------------------------
\* Requests

In(r, phase) == auFlow[r].phase = phase
Goes(r, phase) == auFlow' = [auFlow EXCEPT ![r].phase = phase]
Enters(r, phase) == auFlow' = [auFlow EXCEPT ![r].phase = phase, ![r].epoch = auEpoch]
GoesWith(r, phase, code) == auFlow' = [auFlow EXCEPT ![r].phase = phase, ![r].code = code]
EndsFlow(r) == auFlow' = [auFlow EXCEPT ![r] = NoRequest]

Submit(r, request) == In(r, "done") /\ auFlow' = [auFlow EXCEPT ![r] = request]

\* verifyAdminCredential and CheckWithStateGuard, the token being right: it
\* clears the counter, unless that has reached its limit.
TokenRequest(r, request) ==
    /\ Submit(r, request)
    /\ ~FailureLimited(auTokenFails)
    /\ auTokenFails' = NoFailures
    /\ UNCHANGED <<auNow, auEmergency, authStored, authSessionVars, authSetupVars,
                   auTotpFails, auGuesses>>

WrongToken ==
    /\ auTokenFails' = RecordFailure(auTokenFails)
    /\ UNCHANGED <<auNow, auEmergency, authStored, authSessionVars, authSetupVars,
                   auTotpFails, auGuesses, auFlow>>

\* The handler of a confirmation has checked the session only.
ConfirmRequest(r, request) ==
    /\ Submit(r, request)
    /\ UNCHANGED <<auNow, auEmergency, authStored, authSessionVars, authSetupVars, authFails>>

Holds(r, kinds) == auFlow[r].kind \in kinds /\ ~In(r, "waiting")
MayRead == \A q \in AuthRequests : ~Holds(q, Writers)
(* Mutant: the lock of a login is released before its session is created.  *)
MayWriteOverLogin == \A q \in AuthRequests : ~Holds(q, {"begin", "token"} \cup Writers)
MayWrite == \A q \in AuthRequests : ~Holds(q, Readers \cup Writers)
EntersReading(r) ==
    /\ In(r, "waiting") /\ auFlow[r].kind \in Readers /\ MayRead
    /\ CASE auFlow[r].kind = "token" -> IF Enforced THEN EndsFlow(r) ELSE Enters(r, "authorised")
         [] auFlow[r].kind = "login" -> Enters(r, IF Enforced THEN "code" ELSE "grant")
         [] OTHER -> IF ~ActiveSession(auFlow[r].session) THEN EndsFlow(r)
                     ELSE Enters(r, IF Enforced THEN "code" ELSE "grant")
    /\ UNCHANGED <<auNow, auEmergency, authStored, authSessionVars, authSetupVars, authFails>>

EntersDisabling(r) ==
    /\ In(r, "waiting") /\ auFlow[r].kind = "disable" /\ MayWrite
    /\ IF ~ActiveSession(auFlow[r].session) THEN EndsFlow(r)
       ELSE Goes(r, IF Enforced THEN "code" ELSE "grant")
    /\ UNCHANGED <<auNow, auEmergency, authStored, authSessionVars, authSetupVars, authFails>>

\* ConfirmTwoFactorSetup up to the result of validateTOTPCode, which compares
\* the code before it looks at the counter.
EntersConfirming(r) ==
    LET request == auFlow[r]
        live == /\ ActiveSession(request.session)
                /\ request.setup \in DOMAIN auSetups
                /\ auSetups[request.setup].session = request.session
                /\ auNow < auSetups[request.setup].expires
    IN  /\ In(r, "waiting") /\ request.kind = "confirm" /\ MayWrite
        /\ \/ ~live /\ EndsFlow(r) /\ UNCHANGED auTotpFails
           \/ live /\ EndsFlow(r) /\ auTotpFails' = RecordFailure(auTotpFails)
           \/ /\ live /\ UNCHANGED auTotpFails
              /\ \E code \in CurrentSteps : GoesWith(r, "grant", code)
        /\ UNCHANGED <<auNow, auEmergency, authStored, authSessionVars, authSetupVars,
                       auTokenFails, auGuesses>>

\* verifyStoredTOTP before it takes totpMu.
ChecksLimit(r) ==
    /\ In(r, "code")
    /\ \/ FailureLimited(auTotpFails) /\ EndsFlow(r) /\ UNCHANGED auTotpFails
       \/ /\ ~FailureLimited(auTotpFails)
          /\ \/ Goes(r, "compare") /\ UNCHANGED auTotpFails
             \/ EndsFlow(r) /\ auTotpFails' = RecordFailure(auTotpFails)  \* malformed
    /\ UNCHANGED <<auNow, auEmergency, authStored, authSessionVars, authSetupVars,
                   auTokenFails, auGuesses>>

\* With totpMu held, the limit is checked again and the code compared.
(* Mutant: the limit is checked once, before the lock.                     *)
LimitedAsChecked == FALSE
LimitedWithLock == FailureLimited(auTotpFails)
Fresh(code) == code > auConfig.lastUsed

(* Mutant: no totpMu.                                                      *)
TotpShared == TRUE

TotpFree == \A q \in AuthRequests : ~In(q, "save")

ComparesCode(r) ==
    /\ In(r, "compare") /\ TotpFree
    /\ \/ LimitedWithLock /\ EndsFlow(r) /\ UNCHANGED <<auTotpFails, auGuesses>>
       \/ /\ ~LimitedWithLock
          /\ \/ /\ \E code \in CurrentSteps : Fresh(code) /\ GoesWith(r, "save", code)
                /\ UNCHANGED <<auTotpFails, auGuesses>>
             \/ /\ EndsFlow(r)  \* wrong, or used before
                /\ auTotpFails' = RecordFailure(auTotpFails)
                /\ auGuesses' = Append(auGuesses, auNow)
    /\ UNCHANGED <<auNow, auEmergency, authStored, authSessionVars, authSetupVars, auTokenFails>>

\* The step is saved, then the counter cleared and totpMu released.
SavesStep(r) ==
    /\ In(r, "save")
    /\ \/ /\ Goes(r, "grant")
          /\ auConfig' = [auConfig EXCEPT !.lastUsed = auFlow[r].code]
          /\ auAccepted' = auAccepted \cup {auFlow[r].code}
          /\ auTotpFails' = NoFailures /\ auGuesses' = <<>>
       \/ EndsFlow(r) /\ UNCHANGED <<auConfig, auAccepted, auTotpFails, auGuesses>>
    /\ UNCHANGED <<auNow, auEmergency, auEpoch, authSessionVars, authSetupVars, auTokenFails>>

-----------------------------------------------------------------------------
\* What a request was made for

Granted(r, kind) == In(r, "grant") /\ auFlow[r].kind = kind

Added(records, key, record) ==
    [k \in DOMAIN records \cup {key} |-> IF k = key THEN record ELSE records[k]]

IssueSession(sessions, family, epoch) ==
    /\ auSessions' = Added(sessions, Len(auIssued) + 1,
           [expires |-> auNow + SessionTTL, family |-> family, active |-> TRUE, epoch |-> epoch])
    /\ auIssued' = Append(auIssued, family)

Unexpired(records) ==
    [k \in {k \in DOMAIN records : auNow < records[k].expires} |-> records[k]]

CreatesSession(r) ==
    /\ Granted(r, "login")
    /\ IssueSession(Unexpired(auSessions), Len(auIssued) + 1, auFlow[r].epoch)
    /\ EndsFlow(r)
    /\ UNCHANGED <<auNow, auEmergency, authStored, auLapsed, auEnded, authSetupVars, authFails>>

CreatesSetup(r) ==
    LET id == auSetupCount + 1
    IN  /\ Granted(r, "begin")
        /\ auSetups' = Added(Unexpired(auSetups), id,
               [session |-> auFlow[r].session, expires |-> auNow + SetupTTL])
        /\ auSetupCount' = id
        /\ EndsFlow(r)
        /\ UNCHANGED <<auNow, auEmergency, authStored, authSessionVars, authFails>>

StoresEnrolment(r) ==
    /\ Granted(r, "confirm")
    /\ \/ /\ Goes(r, "replace")
          /\ auConfig' = [enrolled |-> TRUE, lastUsed |-> auFlow[r].code]
          /\ auAccepted' = {auFlow[r].code}
          /\ auEpoch' = auEpoch + 1
          /\ auTotpFails' = NoFailures /\ auGuesses' = <<>>
       \/ EndsFlow(r) /\ UNCHANGED <<authStored, auTotpFails, auGuesses>>
    /\ UNCHANGED <<auNow, auEmergency, authSessionVars, authSetupVars, auTokenFails>>

DeletesEnrolment(r) ==
    /\ Granted(r, "disable")
    /\ \/ /\ Goes(r, "replace")
          /\ auConfig' = NotEnrolled /\ auEpoch' = auEpoch + 1 /\ auAccepted' = {}
       \/ EndsFlow(r) /\ UNCHANGED authStored
    /\ UNCHANGED <<auNow, auEmergency, authSessionVars, authSetupVars, authFails>>

(* Mutant: the sessions of the family keep their expiry.                   *)
ReplacedUnextended(family) ==
    [s \in {s \in DOMAIN auSessions : auSessions[s].family = family
                                      \/ auNow < auSessions[s].expires} |->
        [auSessions[s] EXCEPT !.active = FALSE]]

\* replaceAllSessionsWith: the sessions of the family live as long as the new
\* one, so that any cookie of it can still log the family out.
Replaced(family) ==
    [s \in {s \in DOMAIN auSessions : auSessions[s].family = family
                                      \/ auNow < auSessions[s].expires} |->
        [auSessions[s] EXCEPT
            !.active = FALSE,
            !.expires = IF auSessions[s].family = family THEN auNow + SessionTTL ELSE @]]

ReplacesSessions(r) ==
    LET family == auIssued[auFlow[r].session]
    IN  /\ In(r, "replace")
        /\ IssueSession(Replaced(family), family, auEpoch)
        /\ auSetups' = <<>>
        /\ EndsFlow(r)
        /\ UNCHANGED <<auNow, auEmergency, authStored, auLapsed, auEnded, auSetupCount, authFails>>

\* A bare-token request keeps the lock until its action has run.
Dispatched(r) ==
    /\ In(r, "authorised")
    /\ EndsFlow(r)
    /\ UNCHANGED <<auNow, auEmergency, authStored, authSessionVars, authSetupVars, authFails>>

\* A cookie that is unknown or has expired ends only itself.
Logout(s) ==
    LET family == auSessions[s].family
    IN  /\ auIssued[s] # NoFamily  \* else the process knows nothing of it
        /\ MayWrite
        /\ IF s \in DOMAIN auSessions /\ auNow < auSessions[s].expires
           THEN /\ auSessions' = [q \in DOMAIN auSessions |->
                      [auSessions[q] EXCEPT !.active = @ /\ auSessions[q].family # family]]
                /\ auSetups' = [i \in {i \in DOMAIN auSetups :
                                   auSetups[i].session \in DOMAIN auSessions =>
                                       auSessions[auSetups[i].session].family # family} |->
                                auSetups[i]]
           ELSE /\ auSessions' = [q \in DOMAIN auSessions \ {s} |-> auSessions[q]]
                /\ auSetups' = [i \in {i \in DOMAIN auSetups : auSetups[i].session # s} |->
                                auSetups[i]]
        /\ auEnded' = IF s \in auLapsed THEN auEnded ELSE auEnded \cup {auIssued[s]}
        /\ UNCHANGED <<auNow, auEmergency, authStored, auIssued, auLapsed, auSetupCount,
                       authFails, auFlow>>

InUse(family) == \E s \in DOMAIN auSessions : ActiveSession(s) /\ auSessions[s].family = family

\* A request whose session has expired, or a cleanup, deletes it.
ForgetExpired(s) ==
    /\ auNow >= auSessions[s].expires
    /\ auSessions' = [q \in DOMAIN auSessions \ {s} |-> auSessions[q]]
    /\ auLapsed' = IF InUse(auSessions[s].family) THEN auLapsed ELSE auLapsed \cup {s}
    /\ UNCHANGED <<auNow, auEmergency, authStored, auIssued, auEnded, authSetupVars,
                   authFails, auFlow>>

\* The process dies; the operator may have changed ADMIN_2FA_DISABLED.
AuthRestart ==
    /\ auEmergency' \in IF "emergency" \in auScope THEN BOOLEAN ELSE {FALSE}
    /\ auSessions' = <<>> /\ auSetups' = <<>>
    /\ auTokenFails' = NoFailures /\ auTotpFails' = NoFailures /\ auGuesses' = <<>>
    /\ auFlow' = [r \in AuthRequests |-> NoRequest]
    /\ auIssued' = [s \in DOMAIN auIssued |-> NoFamily]
    /\ auLapsed' = {} /\ auEnded' = {} /\ auEpoch' = 0
    /\ UNCHANGED <<auNow, auConfig, auAccepted, auSetupCount>>

\* A counter whose window is over is as none (cleanupFailures deletes it).
Kept(rec) == IF auNow - rec.at >= FailureWindow THEN NoFailures ELSE rec

\* Of times in order, those from a moment on.
TimesFrom(times, moment) ==
    SubSeq(times, 1 + Cardinality({i \in DOMAIN times : times[i] < moment}), Len(times))

AuthTick ==
    /\ auNow < MaxAuthNow
    /\ auNow' = auNow + 1
    /\ auAccepted' = {step \in auAccepted : step >= auNow}
    /\ auTokenFails' = Kept(auTokenFails) /\ auTotpFails' = Kept(auTotpFails)
    /\ auGuesses' = TimesFrom(auGuesses, auNow + 1 - FailureWindow)
    /\ UNCHANGED <<auEmergency, auConfig, auEpoch, authSessionVars, authSetupVars, auFlow>>

IssuedSessions == DOMAIN auIssued

Arrives(r) ==
    LET request(kind, session, setup) == RequestFor(kind, "waiting", session, setup)
    IN  \/ "token" \in auScope /\ TokenRequest(r, request("token", 0, 0))
        \/ Len(auIssued) < MaxSessions /\ TokenRequest(r, request("login", 0, 0))
        \/ \E s \in IssuedSessions :
             /\ ActiveSession(s)
             /\ \/ auSetupCount < MaxSetups /\ TokenRequest(r, request("begin", s, 0))
                \/ /\ "disable" \in auScope /\ Len(auIssued) < MaxSessions
                   /\ TokenRequest(r, request("disable", s, 0))
                \/ /\ Len(auIssued) < MaxSessions
                   /\ \E id \in 1..auSetupCount :
                        ConfirmRequest(r, request("confirm", s, id))

Proceeds(r) ==
    \/ EntersReading(r) \/ EntersDisabling(r) \/ EntersConfirming(r)
    \/ ChecksLimit(r) \/ ComparesCode(r) \/ SavesStep(r)
    \/ CreatesSession(r) \/ CreatesSetup(r)
    \/ StoresEnrolment(r) \/ DeletesEnrolment(r) \/ ReplacesSessions(r)
    \/ Dispatched(r)

AuthOperation ==
    \/ \E r \in AuthRequests : Arrives(r) \/ Proceeds(r)
    \/ \E s \in IssuedSessions : Logout(s)
    \/ \E s \in DOMAIN auSessions : ForgetExpired(s)
    \/ "wrong token" \in auScope /\ WrongToken
    \/ AuthRestart \/ AuthTick

AuthNext == AuthOperation /\ UNCHANGED auScope

AuthSpec == AuthInit /\ [][AuthNext]_authVars

-----------------------------------------------------------------------------
AuthTypeOK ==
    /\ auNow \in 2..MaxAuthNow /\ auEmergency \in BOOLEAN
    /\ auAccepted # {} => auConfig.enrolled
    /\ DOMAIN auSessions \subseteq IssuedSessions
    /\ \A s \in DOMAIN auSessions : auSessions[s].family = auIssued[s]
    /\ \A i \in DOMAIN auSetups : i <= auSetupCount /\ auSetups[i].session \in IssuedSessions
    /\ auTokenFails.n \in 0..FailureLimit /\ auTotpFails.n \in 0..FailureLimit
    /\ \A r \in AuthRequests :
          auFlow[r].phase \in {"done", "waiting", "code", "compare", "save", "grant",
                               "replace", "authorised"}

\* CheckWithStateGuard: while a request that showed only the token is being
\* served, two-factor authentication is not enforced.
TokenNeverBypasses ==
    \A r \in AuthRequests : In(r, "authorised") => ~Enforced

\* verifyStoredTOTP and ConfirmTwoFactorSetup: a code that was accepted once, by
\* any request, is not on its way to be accepted again.
CodeUsedOnce ==
    \A r \in AuthRequests :
        In(r, "save") => auFlow[r].code \notin auAccepted

\* invalidTOTPResultForKey: a window of time sees no more wrong codes compared
\* with the stored secret than the limit, however requests overlap.
GuessLimit == Len(auGuesses) <= FailureLimit

\* replaceAllSessionsWith: a session in use was given out under the enrolment
\* of now, not before it was confirmed or disabled.
SessionsOfThisEnrolment ==
    MayRead => \A s \in DOMAIN auSessions : ActiveSession(s) => auSessions[s].epoch = auEpoch

\* Both: what a request is granted follows from the enrolment of now.
GrantsAreCurrent == TokenNeverBypasses /\ SessionsOfThisEnrolment

\* Logout: with any cookie ever given to a family, the one in use or one that
\* was replaced, it ends that family for good.
LogoutEndsFamily ==
    \A s \in DOMAIN auSessions : ActiveSession(s) => auIssued[s] \notin auEnded
=============================================================================
