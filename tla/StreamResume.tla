---------------------------- MODULE StreamResume ----------------------------
(***************************************************************************)
(* The resumption of a broken media stream (internal/proxy/resume.go).     *)
(*                                                                         *)
(* The length and the status of a response are sent to the client before   *)
(* its body is copied.  When the upstream connection breaks, the proxy     *)
(* asks for the rest with a range request and appends it, if the answer    *)
(* looks like the rest of the same resource.  The resource may be replaced *)
(* at any time, the upstream may ignore the range or the If-Range of a     *)
(* request, and a connection may break after any byte.                     *)
(*                                                                         *)
(* A byte is the version of the resource it is of and its offset.  Time is *)
(* counted in ticks of which TicksPerSecond make a second, the resolution  *)
(* of the Date and Last-Modified headers.                                  *)
(***************************************************************************)
EXTENDS Integers, Sequences

CONSTANTS
    StreamSizes,      \* sizes a version of the resource may have
    Validators,       \* what the upstream sends: "etag", "modified"
    MaxAttempts,      \* streamResumeMaxAttempts
    TicksPerSecond,
    MaxStreamNow, MaxVersions  \* bounds of a behaviour

(* streamResumeMaxAttempts is 2, and newStreamResumeValidator knows these  *)
(* two validators only.                                                    *)
ASSUME StreamAssumption ==
    /\ StreamSizes \subseteq Nat /\ MaxAttempts \in Nat
    /\ Validators \subseteq {"etag", "modified"}
    /\ TicksPerSecond \in Nat \ {0}

VARIABLES
    srNow,
    srVersions,   \* size of every version of the resource so far
    srChanged,    \* time the current version appeared
    srValidator,  \* the validator the upstream sends
    srPhase,      \* of the one request: "new", "copying", "broken", "done"
    srPlan,       \* streamResumePlan of the first response
    srCurrent,    \* the response whose body is copied
    srSent,       \* bytes sent to the client
    srAttempts

streamVars == <<srNow, srVersions, srChanged, srValidator, srPhase, srPlan,
                srCurrent, srSent, srAttempts>>

NoPlan == [resumable |-> FALSE]
NoResponse == [version |-> 0, from |-> 0, to |-> -1]

StreamInit ==
    /\ srNow = 0 /\ srChanged = 0
    /\ srVersions \in {<<size>> : size \in StreamSizes}
    /\ srValidator \in Validators
    /\ srPhase = "new" /\ srPlan = NoPlan /\ srCurrent = NoResponse
    /\ srSent = <<>> /\ srAttempts = 0

Version == Len(srVersions)
Size == srVersions[Version]
Second(tick) == tick \div TicksPerSecond

\* The headers of a response of the current version.
Headers ==
    [tag |-> Version, modified |-> Second(srChanged), date |-> Second(srNow)]

\* newStreamResumeValidator: a strong ETag, or a time of modification that
\* was over when the response was sent.  Any other stream is not resumed.
(* Mutant: any time of modification is taken.                              *)
UsableWithoutDate(headers) == TRUE
UsableValidator(headers) ==
    srValidator = "modified" => headers.date >= headers.modified + 1

\* validator.matches.
Matches(headers) ==
    CASE srValidator = "etag" -> headers.tag = srPlan.tag
      [] srValidator = "modified" -> headers.modified = srPlan.modified

\* streamResumePlan of a 200 with the whole resource or a 206 with a range,
\* which the client receives as it is.
FirstResponse(first, last) ==
    /\ srPhase = "new"
    /\ srCurrent' = [version |-> Version, from |-> first, to |-> last]
    /\ srPlan' = [resumable |-> UsableValidator(Headers), start |-> first,
                  end |-> last, total |-> Size,
                  tag |-> Headers.tag, modified |-> Headers.modified]
    /\ srPhase' = "copying"
    /\ UNCHANGED <<srNow, srVersions, srChanged, srValidator, srSent, srAttempts>>

Expected == srPlan.end - srPlan.start + 1

\* copyResponseBodyWithResume: a byte of the body, of which no more is read
\* than is still missing.
CopiesByte ==
    /\ srPhase = "copying" /\ srCurrent.from <= srCurrent.to
    /\ Len(srSent) < Expected
    /\ srSent' = Append(srSent, <<srCurrent.version, srCurrent.from>>)
    /\ srCurrent' = [srCurrent EXCEPT !.from = @ + 1]
    /\ srPhase' = IF Len(srSent') = Expected THEN "done" ELSE "copying"
    /\ UNCHANGED <<srNow, srVersions, srChanged, srValidator, srPlan, srAttempts>>

\* The connection breaks, or the body ends before what was announced.
Breaks ==
    /\ srPhase = "copying"
    /\ srPhase' = IF srPlan.resumable /\ srAttempts < MaxAttempts THEN "broken" ELSE "done"
    /\ UNCHANGED <<srNow, srVersions, srChanged, srValidator, srPlan, srCurrent,
                   srSent, srAttempts>>

NextStart == srPlan.start + Len(srSent)

\* validateStreamResumeResponse of a 206: the validator, then the range.
ValidResume(range) ==
    /\ Matches(Headers)
    /\ range.from = NextStart
    /\ range.to = srPlan.end
    /\ range.total = srPlan.total

\* What an upstream may answer a request for the bytes from NextStart on
\* with: these, those of a larger or of a smaller range; a 200, which it
\* sends when it honours If-Range and the version has changed, an error or
\* no answer end the stream like a range that does not fit.
AnswerRanges ==
    {[from |-> a, to |-> b, total |-> Size] : a \in 0..Size - 1, b \in 0..Size - 1}

ResumeAnswered(range) ==
    /\ srPhase = "broken" /\ srAttempts' = srAttempts + 1
    /\ range \in AnswerRanges /\ range.from <= range.to
    /\ IF ValidResume(range)
       THEN /\ srCurrent' = [version |-> Version, from |-> range.from, to |-> range.to]
            /\ srPhase' = "copying"
       ELSE srPhase' = "done" /\ UNCHANGED srCurrent
    /\ UNCHANGED <<srNow, srVersions, srChanged, srValidator, srPlan, srSent>>

ResumeFails ==
    /\ srPhase = "broken" /\ srAttempts' = srAttempts + 1
    /\ srPhase' = "done"
    /\ UNCHANGED <<srNow, srVersions, srChanged, srValidator, srPlan, srCurrent, srSent>>

\* streamResumeReadError: nobody is left to resume for.
StreamClientLeaves ==
    /\ srPhase \in {"copying", "broken"} /\ srPhase' = "done"
    /\ UNCHANGED <<srNow, srVersions, srChanged, srValidator, srPlan, srCurrent,
                   srSent, srAttempts>>

ResourceReplaced(size) ==
    /\ Version < MaxVersions
    /\ srVersions' = Append(srVersions, size) /\ srChanged' = srNow
    /\ UNCHANGED <<srNow, srValidator, srPhase, srPlan, srCurrent, srSent, srAttempts>>

StreamTick ==
    /\ srNow < MaxStreamNow /\ srNow' = srNow + 1
    /\ UNCHANGED <<srVersions, srChanged, srValidator, srPhase, srPlan, srCurrent,
                   srSent, srAttempts>>

StreamNext ==
    \/ \E first \in 0..Size - 1 : \E last \in first..Size - 1 : FirstResponse(first, last)
    \/ CopiesByte \/ Breaks \/ ResumeFails \/ StreamClientLeaves \/ StreamTick
    \/ \E range \in AnswerRanges : ResumeAnswered(range)
    \/ \E size \in StreamSizes : ResourceReplaced(size)

StreamSpec == StreamInit /\ [][StreamNext]_streamVars

-----------------------------------------------------------------------------
\* What a client receives is a run of consecutive bytes of one version of
\* the resource, and never more of them than was announced, however often
\* the stream broke and the resource was replaced (resume.go: the checks of
\* newStreamResumeValidator and validateStreamResumeResponse).
OneResource ==
    /\ \A i \in DOMAIN srSent :
           /\ srSent[i][1] = srSent[1][1]
           /\ srSent[i][2] = srPlan.start + i - 1
    /\ srSent # <<>> => Len(srSent) <= Expected
=============================================================================
