------------------------- MODULE RequestPath_proofs --------------------------
(***************************************************************************)
(* Theorems about the components on the path of a playback request, for    *)
(* any number of requests, lines, versions and events: what a client gets  *)
(* of a stream that broke is of one resource, what the image cache serves  *)
(* is whole, who waits for a fill is led by one who does not, a line fails *)
(* only for what went wrong on it and the active one is left only then.    *)
(***************************************************************************)
EXTENDS StreamResume, ImageCache, LineRouting, FiniteSetTheorems, SequenceTheorems, TLAPS

-----------------------------------------------------------------------------
(* StreamResume: the client gets one resource                              *)

StreamPhases == {"new", "copying", "broken", "done"}
Plan == [resumable : BOOLEAN, start : Nat, end : Nat, total : Nat, tag : Nat, modified : Int]
Response == [version : Nat, from : Int, to : Int]

StreamTypeOK ==
    /\ srNow \in Nat /\ srChanged \in Nat /\ srAttempts \in Nat
    /\ srVersions \in Seq(Nat) /\ srVersions # <<>>
    /\ srValidator \in {"etag", "modified"}
    /\ srPhase \in StreamPhases
    /\ srPhase # "new" => srPlan \in Plan
    /\ srCurrent \in Response
    /\ srSent \in Seq(Nat \X Int)

(* Nothing has been sent before the first response.                        *)
NewOK == srPhase = "new" => srSent = <<>>

(* The plan is one of a version there was, and of one or more bytes; only  *)
(* a stream with a validator breaks and goes on.                           *)
PlanOK ==
    srPhase # "new" =>
        /\ srPlan.tag <= Version
        /\ srPlan.start <= srPlan.end
        /\ srPhase = "broken" => srPlan.resumable

(* A time of modification that was over when the response was sent is over *)
(* for good, and no later version has it.                                  *)
TimeOK ==
    srPhase # "new" /\ srValidator = "modified" /\ srPlan.resumable =>
        /\ srPlan.modified < Second(srNow)
        /\ srPlan.tag < Version => srPlan.modified < Second(srChanged)

(* What has been sent is the run of bytes of the plan up to here, and what *)
(* is copied goes on with it.                                              *)
SentOK ==
    srPhase # "new" =>
        /\ \A i \in DOMAIN srSent : srSent[i] = <<srPlan.tag, srPlan.start + i - 1>>
        /\ Len(srSent) <= Expected
CopyOK ==
    srPhase = "copying" => srCurrent.version = srPlan.tag /\ srCurrent.from = NextStart

StreamInv == StreamTypeOK /\ NewOK /\ PlanOK /\ TimeOK /\ SentOK /\ CopyOK

(* The second of a later tick is no earlier one.                           *)
LEMMA SecondsAdvance ==
  ASSUME NEW s \in Nat, NEW t \in Nat, s <= t
  PROVE  Second(s) \in Int /\ Second(t) \in Int /\ Second(s) <= Second(t)
<1>. DEFINE k == TicksPerSecond
<1>1. k \in Nat /\ k > 0
  BY StreamAssumption
<1>. HIDE DEF k
<1>2. s \div k \in Int /\ t \div k \in Int /\ s \div k <= t \div k
  BY <1>1
<1>. QED  BY <1>2 DEF Second, k

(* There is a current version, of a size.                                  *)
LEMMA VersionFacts ==
  ASSUME StreamTypeOK
  PROVE  Version \in Nat /\ Version >= 1 /\ Size \in Nat
BY DEF StreamTypeOK, Version, Size

(* At first nothing has been asked.                                        *)
LEMMA InitStream == StreamInit => StreamInv
<1>. SUFFICES ASSUME StreamInit  PROVE StreamInv
  OBVIOUS
<1>1. PICK size \in StreamSizes : srVersions = <<size>>
  BY DEF StreamInit
<1>2. srVersions \in Seq(Nat) /\ srVersions # <<>>
  BY <1>1, StreamAssumption
<1>3. srPhase = "new" /\ srCurrent \in Response /\ srSent = <<>> /\ srSent \in Seq(Nat \X Int)
  BY DEF StreamInit, NoResponse, Response
<1>4. srValidator \in {"etag", "modified"}
  BY StreamAssumption DEF StreamInit
<1>5. StreamTypeOK
  BY <1>2, <1>3, <1>4 DEF StreamInit, StreamTypeOK, StreamPhases
<1>. QED  BY <1>3, <1>5 DEF StreamInv, NewOK, PlanOK, TimeOK, SentOK, CopyOK

(* The first response makes the plan.                                      *)
LEMMA FirstResponseStep ==
  ASSUME StreamInv, NEW first \in 0..Size - 1, NEW last \in first..Size - 1,
         FirstResponse(first, last)
  PROVE  StreamInv'
<1>1. Version \in Nat /\ Version >= 1 /\ Size \in Nat
  BY VersionFacts DEF StreamInv
<1>2. Second(srNow) \in Int /\ Second(srChanged) \in Int
  BY SecondsAdvance DEF StreamInv, StreamTypeOK
<1>. DEFINE usable == UsableValidator(Headers)
<1>3. usable \in BOOLEAN
  BY DEF UsableValidator
<1>4. usable /\ srValidator = "modified" => Second(srNow) > Second(srChanged)
  BY <1>2 DEF UsableValidator, Headers
<1>. HIDE DEF usable
<1>5. srPlan' = [resumable |-> usable, start |-> first, end |-> last, total |-> Size,
                 tag |-> Version, modified |-> Second(srChanged)]
  BY DEF FirstResponse, Headers, usable
<1>6. first \in Nat /\ last \in Nat /\ first <= last
  BY <1>1
<1>7. srPlan' \in Plan
  BY <1>1, <1>2, <1>3, <1>5, <1>6 DEF Plan
<1>8. /\ srPhase' = "copying" /\ srSent' = <<>>
      /\ srCurrent' = [version |-> Version, from |-> first, to |-> last]
      /\ UNCHANGED <<srNow, srVersions, srChanged, srValidator, srSent, srAttempts>>
  BY DEF FirstResponse, StreamInv, NewOK
<1>9. Version' = Version /\ Second(srNow)' = Second(srNow)
      /\ Second(srChanged)' = Second(srChanged)
  BY <1>8 DEF Version, Second
<1>10. StreamTypeOK'
  <2>1. srCurrent' \in Response
    BY <1>1, <1>6, <1>8 DEF Response
  <2>. QED  BY <1>7, <1>8, <2>1 DEF StreamInv, StreamTypeOK, StreamPhases
<1>11. PlanOK' /\ TimeOK'
  BY <1>1, <1>2, <1>4, <1>5, <1>6, <1>8, <1>9 DEF PlanOK, TimeOK
<1>12. SentOK' /\ CopyOK' /\ NewOK'
  BY <1>5, <1>6, <1>8 DEF SentOK, CopyOK, NewOK, NextStart, Expected
<1>. QED  BY <1>10, <1>11, <1>12 DEF StreamInv

(* A byte that is copied is the next one of the plan.                      *)
LEMMA CopiesByteStep ==
  ASSUME StreamInv, CopiesByte
  PROVE  StreamInv'
<1>. DEFINE byte == <<srCurrent.version, srCurrent.from>>
<1>1. /\ srPhase = "copying" /\ Len(srSent) < Expected
      /\ srSent' = Append(srSent, byte)
      /\ srCurrent' = [srCurrent EXCEPT !.from = srCurrent.from + 1]
      /\ srPhase' \in {"copying", "done"}
      /\ UNCHANGED <<srNow, srVersions, srChanged, srValidator, srPlan, srAttempts>>
  BY DEF CopiesByte
<1>2. /\ srPlan \in Plan /\ srCurrent \in Response /\ srSent \in Seq(Nat \X Int)
      /\ Len(srSent) \in Nat
  BY <1>1 DEF StreamInv, StreamTypeOK
<1>3. /\ srPlan.start \in Nat /\ srPlan.end \in Nat /\ srPlan.tag \in Nat
      /\ srCurrent.version \in Nat /\ srCurrent.from \in Int /\ srCurrent.to \in Int
  BY <1>2 DEF Plan, Response
<1>4. byte \in Nat \X Int
  BY <1>3
<1>5. byte = <<srPlan.tag, srPlan.start + Len(srSent)>>
  BY <1>1 DEF StreamInv, CopyOK, NextStart
<1>. HIDE DEF byte
<1>6. /\ srSent' \in Seq(Nat \X Int) /\ Len(srSent') = Len(srSent) + 1
      /\ \A i \in 1..Len(srSent) : srSent'[i] = srSent[i]
      /\ srSent'[Len(srSent) + 1] = byte
      /\ DOMAIN srSent' = 1..(Len(srSent) + 1) /\ DOMAIN srSent = 1..Len(srSent)
  BY <1>1, <1>2, <1>4
<1>7. /\ srCurrent' \in Response /\ srCurrent'.version = srCurrent.version
      /\ srCurrent'.from = srCurrent.from + 1
  BY <1>1, <1>2, <1>3 DEF Response
<1>8. StreamTypeOK'
  BY <1>1, <1>6, <1>7 DEF StreamInv, StreamTypeOK, StreamPhases
<1>9. NewOK' /\ PlanOK' /\ TimeOK'
  BY <1>1 DEF StreamInv, NewOK, PlanOK, TimeOK, Version, Second
<1>10. SentOK'
  <2>1. \A i \in DOMAIN srSent' : srSent'[i] = <<srPlan.tag, srPlan.start + i - 1>>
    <3>. SUFFICES ASSUME NEW i \in DOMAIN srSent'
                  PROVE  srSent'[i] = <<srPlan.tag, srPlan.start + i - 1>>
      OBVIOUS
    <3>1. CASE i = Len(srSent) + 1
      BY <1>2, <1>3, <1>5, <1>6, <3>1
    <3>2. CASE i # Len(srSent) + 1
      <4>1. i \in DOMAIN srSent /\ i \in 1..Len(srSent)
        BY <1>2, <1>6, <3>2
      <4>. QED  BY <1>1, <1>6, <4>1 DEF StreamInv, SentOK
    <3>. QED  BY <3>1, <3>2
  <2>2. Len(srSent') <= Expected
    BY <1>1, <1>2, <1>3, <1>6 DEF Expected
  <2>. QED  BY <1>1, <2>1, <2>2 DEF SentOK, Expected
<1>11. CopyOK'
  <2>1. srCurrent.version = srPlan.tag /\ srCurrent.from = srPlan.start + Len(srSent)
    BY <1>1 DEF StreamInv, CopyOK, NextStart
  <2>2. srCurrent'.from = srPlan.start + (Len(srSent) + 1)
    <3>1. \A a, b \in Int : (a + b) + 1 = a + (b + 1)
      OBVIOUS
    <3>2. srCurrent'.from = (srPlan.start + Len(srSent)) + 1
      BY <1>7, <2>1
    <3>3. srPlan.start \in Int /\ Len(srSent) \in Int
      BY <1>2, <1>3
    <3>4. (srPlan.start + Len(srSent)) + 1 = srPlan.start + (Len(srSent) + 1)
      BY <3>1, <3>3, Zenon
    <3>. QED  BY <3>2, <3>4, Zenon
  <2>3. NextStart' = srPlan.start + (Len(srSent) + 1)
    BY <1>1, <1>6 DEF NextStart
  <2>. QED  BY <1>7, <2>1, <2>2, <2>3, <1>1 DEF CopyOK
<1>. QED  BY <1>8, <1>9, <1>10, <1>11 DEF StreamInv

(* A stream that ends or breaks leaves what has been sent.                 *)
LEMMA EndsStep ==
  ASSUME StreamInv, srPhase # "new", srPhase' \in {"broken", "done"},
         srPhase' = "broken" => srPlan.resumable, srAttempts' \in Nat,
         UNCHANGED <<srNow, srVersions, srChanged, srValidator, srPlan, srCurrent, srSent>>
  PROVE  StreamInv'
BY DEF StreamInv, StreamTypeOK, NewOK, PlanOK, TimeOK, SentOK, CopyOK, StreamPhases,
       Version, Second, Expected

(* An answer with the validator of the plan is of the version of the plan. *)
LEMMA MatchIsSame ==
  ASSUME StreamInv, srPhase = "broken", Matches(Headers)
  PROVE  Version = srPlan.tag
<1>1. Version \in Nat /\ srPlan \in Plan /\ srPlan.tag \in Nat /\ srPlan.modified \in Int
  BY VersionFacts DEF StreamInv, StreamTypeOK, Plan
<1>2. Second(srChanged) \in Int
  BY SecondsAdvance DEF StreamInv, StreamTypeOK
<1>3. srPlan.resumable /\ srPlan.tag <= Version
  BY DEF StreamInv, PlanOK
<1>4. CASE srValidator = "etag"
  BY <1>4 DEF Matches, Headers
<1>5. CASE srValidator = "modified"
  <2>1. Second(srChanged) = srPlan.modified
    BY <1>5 DEF Matches, Headers
  <2>2. srPlan.tag < Version => srPlan.modified < Second(srChanged)
    BY <1>3, <1>5 DEF StreamInv, TimeOK
  <2>. QED  BY <1>1, <1>2, <1>3, <2>1, <2>2
<1>. QED  BY <1>4, <1>5 DEF StreamInv, StreamTypeOK

(* An answer goes on where the stream broke, or ends it.                   *)
LEMMA ResumeAnsweredStep ==
  ASSUME StreamInv, NEW range \in AnswerRanges, ResumeAnswered(range)
  PROVE  StreamInv'
<1>1. /\ srPhase = "broken" /\ srAttempts' = srAttempts + 1
      /\ UNCHANGED <<srNow, srVersions, srChanged, srValidator, srPlan, srSent>>
  BY DEF ResumeAnswered
<1>2. srAttempts' \in Nat
  BY <1>1 DEF StreamInv, StreamTypeOK
<1>3. CASE ~ValidResume(range)
  <2>1. srPhase' = "done" /\ UNCHANGED srCurrent
    BY <1>3 DEF ResumeAnswered
  <2>. QED  BY <1>1, <1>2, <2>1, EndsStep
<1>4. CASE ValidResume(range)
  <2>1. /\ srPhase' = "copying"
        /\ srCurrent' = [version |-> Version, from |-> range.from, to |-> range.to]
    BY <1>4 DEF ResumeAnswered
  <2>2. Version = srPlan.tag
    BY <1>1, <1>4, MatchIsSame DEF ValidResume
  <2>3. range.from = NextStart /\ range.to = srPlan.end
    BY <1>4 DEF ValidResume
  <2>4. srPlan \in Plan /\ srPlan.start \in Nat /\ srPlan.end \in Nat /\ srPlan.tag \in Nat
        /\ Len(srSent) \in Nat
    BY <1>1 DEF StreamInv, StreamTypeOK, Plan
  <2>5. srCurrent' \in Response /\ srCurrent'.version = srPlan.tag
        /\ srCurrent'.from = NextStart
    BY <2>1, <2>2, <2>3, <2>4 DEF Response, NextStart
  <2>6. StreamTypeOK'
    BY <1>1, <1>2, <2>1, <2>5 DEF StreamInv, StreamTypeOK, StreamPhases
  <2>7. NewOK' /\ PlanOK' /\ TimeOK' /\ SentOK'
    BY <1>1, <2>1 DEF StreamInv, NewOK, PlanOK, TimeOK, SentOK, Version, Second, Expected
  <2>8. CopyOK'
    BY <1>1, <2>5 DEF CopyOK, NextStart
  <2>. QED  BY <2>6, <2>7, <2>8 DEF StreamInv
<1>. QED  BY <1>3, <1>4

(* A new version has a time of modification no plan can have taken.        *)
LEMMA ReplacedStep ==
  ASSUME StreamInv, NEW size \in StreamSizes, ResourceReplaced(size)
  PROVE  StreamInv'
<1>1. /\ srVersions' = Append(srVersions, size) /\ srChanged' = srNow
      /\ UNCHANGED <<srNow, srValidator, srPhase, srPlan, srCurrent, srSent, srAttempts>>
  BY DEF ResourceReplaced
<1>2. size \in Nat /\ srVersions \in Seq(Nat)
  BY StreamAssumption DEF StreamInv, StreamTypeOK
<1>3. srVersions' \in Seq(Nat) /\ srVersions' # <<>> /\ Version' = Version + 1
      /\ Version \in Nat
  BY <1>1, <1>2 DEF Version
<1>4. StreamTypeOK'
  BY <1>1, <1>3 DEF StreamInv, StreamTypeOK
<1>5. NewOK' /\ SentOK' /\ CopyOK'
  BY <1>1 DEF StreamInv, NewOK, SentOK, CopyOK, NextStart, Expected
<1>6. PlanOK'
  <2>1. srPhase # "new" => srPlan.tag \in Nat
    BY DEF StreamInv, StreamTypeOK, Plan
  <2>. QED  BY <1>1, <1>3, <2>1 DEF StreamInv, PlanOK
<1>7. TimeOK'
  BY <1>1 DEF StreamInv, TimeOK, Second
<1>. QED  BY <1>4, <1>5, <1>6, <1>7 DEF StreamInv

(* Time goes on.                                                           *)
LEMMA StreamTickStep ==
  ASSUME StreamInv, StreamTick
  PROVE  StreamInv'
<1>1. /\ srNow' = srNow + 1 /\ srNow \in Nat
      /\ UNCHANGED <<srVersions, srChanged, srValidator, srPhase, srPlan, srCurrent,
                     srSent, srAttempts>>
  BY DEF StreamTick, StreamInv, StreamTypeOK
<1>2. Second(srNow) \in Int /\ Second(srNow)' \in Int /\ Second(srNow) <= Second(srNow)'
  <2>1. Second(srNow)' = Second(srNow + 1)
    BY <1>1 DEF Second
  <2>. QED  BY <1>1, <2>1, SecondsAdvance
<1>3. StreamTypeOK' /\ NewOK' /\ PlanOK' /\ SentOK' /\ CopyOK'
  BY <1>1 DEF StreamInv, StreamTypeOK, NewOK, PlanOK, SentOK, CopyOK, NextStart, Expected, Version
<1>4. TimeOK'
  <2>1. srPhase # "new" => srPlan.modified \in Int
    BY DEF StreamInv, StreamTypeOK, Plan
  <2>2. Second(srChanged)' = Second(srChanged) /\ Version' = Version
    BY <1>1 DEF Second, Version
  <2>. QED  BY <1>1, <1>2, <2>1, <2>2 DEF StreamInv, TimeOK
<1>. QED  BY <1>3, <1>4 DEF StreamInv

(* Every step keeps the invariant.                                         *)
LEMMA StreamStep ==
  ASSUME StreamInv, [StreamNext]_streamVars
  PROVE  StreamInv'
<1>1. CASE UNCHANGED streamVars
  BY <1>1 DEF streamVars, StreamInv, StreamTypeOK, NewOK, PlanOK, TimeOK, SentOK, CopyOK,
              Version, Second, NextStart, Expected
<1>2. ASSUME NEW first \in 0..Size - 1, NEW last \in first..Size - 1,
             FirstResponse(first, last)
      PROVE  StreamInv'
  BY <1>2, FirstResponseStep
<1>3. CASE CopiesByte
  BY <1>3, CopiesByteStep
<1>4. CASE Breaks
  <2>1. srPhase = "copying" /\ srPhase' \in {"broken", "done"}
        /\ (srPhase' = "broken" => srPlan.resumable)
    BY <1>4 DEF Breaks
  <2>. QED  BY <1>4, <2>1, EndsStep DEF Breaks, StreamInv, StreamTypeOK
<1>5. CASE ResumeFails
  BY <1>5, EndsStep DEF ResumeFails, StreamInv, StreamTypeOK
<1>6. CASE StreamClientLeaves
  BY <1>6, EndsStep DEF StreamClientLeaves, StreamInv, StreamTypeOK
<1>7. CASE StreamTick
  BY <1>7, StreamTickStep
<1>8. ASSUME NEW range \in AnswerRanges, ResumeAnswered(range)
      PROVE  StreamInv'
  BY <1>8, ResumeAnsweredStep
<1>9. ASSUME NEW size \in StreamSizes, ResourceReplaced(size)
      PROVE  StreamInv'
  BY <1>9, ReplacedStep
<1>. QED  BY <1>1, <1>2, <1>3, <1>4, <1>5, <1>6, <1>7, <1>8, <1>9 DEF StreamNext

(* The bytes of the plan are consecutive and of one version.               *)
LEMMA PlanIsOneResource == StreamInv => OneResource
<1>. SUFFICES ASSUME StreamInv  PROVE OneResource
  OBVIOUS
<1>1. CASE srSent = <<>>
  BY <1>1 DEF OneResource
<1>2. CASE srSent # <<>>
  <2>1. srPhase # "new" /\ srSent \in Seq(Nat \X Int)
    BY <1>2 DEF StreamInv, NewOK, StreamTypeOK
  <2>2. 1 \in DOMAIN srSent
    BY <1>2, <2>1
  <2>3. /\ \A i \in DOMAIN srSent : srSent[i] = <<srPlan.tag, srPlan.start + i - 1>>
        /\ Len(srSent) <= Expected
    BY <2>1 DEF StreamInv, SentOK
  <2>4. \A i \in DOMAIN srSent : srSent[i][1] = srPlan.tag
                                 /\ srSent[i][2] = srPlan.start + i - 1
    BY <2>3
  <2>. QED  BY <2>2, <2>3, <2>4 DEF OneResource
<1>. QED  BY <1>1, <1>2

(* A client never gets bytes of two versions of a resource, bytes out of   *)
(* their order or more bytes than were announced, whatever the sizes of    *)
(* the versions, however often the stream breaks and the resource is       *)
(* replaced, and whether the upstream sends an ETag or a time.             *)
THEOREM ResumedStreamIsOne == StreamSpec => []OneResource
<1>1. StreamInv /\ [StreamNext]_streamVars => StreamInv'
  BY StreamStep
<1>2. StreamSpec => []StreamInv
  BY InitStream, <1>1, PTL DEF StreamSpec
<1>. QED  BY <1>2, PlanIsOneResource, PTL

-----------------------------------------------------------------------------
(* ImageCache: what is served is whole, and waiters are led                *)

FetchPhases == {"lookup", "again", "open", "reopen", "fill", "wait", "slot", "queue",
                "turn", "asleep", "fetch", "copy", "commit"}
FetchRecords ==
    [phase : FetchPhases, cache : ImageObjects, limiter : Int, leader : ImageRequests,
     wake : Int, file : BOOLEAN, sized : BOOLEAN, read : Nat, written : Nat, failed : BOOLEAN]

(* Of what a request has read it has written every chunk, or the write of  *)
(* one has failed: the file is the body as far as it is read.              *)
BusyFetches == {f \in FetchRecords : f.failed \/ f.written = f.read}
Fetches == BusyFetches \cup {NoFetch}

ImageTypeOK ==
    /\ icNow \in Int
    /\ icCache \in ImageObjects /\ icLimiter \in ImageObjects
    /\ icFetch \in [ImageRequests -> Fetches]
    /\ icFills \in [ImageObjects -> SUBSET ImageRequests]
    /\ icNextStart \in [ImageObjects -> Int] /\ icBackoffUntil \in [ImageObjects -> Int]

(* The limiter a request stands at is an object, until it gives it back.   *)
LimitedPhases == {"queue", "turn", "asleep", "fetch"}
LimiterOK ==
    \A r \in ImageRequests :
        icFetch[r].phase \in LimitedPhases => icFetch[r].limiter \in ImageObjects

(* From the start of a fill to its end, its leader is on the way from the  *)
(* limiter to the commit, with the cache it started with.                  *)
LeadingPhases == {"slot", "queue", "turn", "asleep", "fetch", "copy", "commit"}
FillsOK ==
    \A c \in ImageObjects : \A r \in icFills[c] :
        icFetch[r].phase \in LeadingPhases /\ icFetch[r].cache = c

(* Who waits, waits for a fill of its cache that is under way.             *)
WaitsOK ==
    \A r \in ImageRequests :
        icFetch[r].phase = "wait" => icFetch[r].leader \in icFills[icFetch[r].cache]

FetchInv == ImageTypeOK /\ LimiterOK /\ FillsOK /\ WaitsOK

(* A body whose end was announced takes its place on disk as a whole only. *)
BodyOK ==
    /\ \A body \in icBody : body.sized => body.bytes = ImageSize
    /\ ServedWhole

ImageInv == FetchInv /\ BodyOK

(* A request under way has a record of every field.                        *)
LEMMA BusyFacts ==
  ASSUME NEW f \in Fetches, f.phase # "done"
  PROVE  /\ f \in BusyFetches /\ f.phase \in FetchPhases
         /\ f.cache \in ImageObjects /\ f.limiter \in Int /\ f.leader \in ImageRequests
         /\ f.wake \in Int /\ f.file \in BOOLEAN /\ f.sized \in BOOLEAN
         /\ f.read \in Nat /\ f.written \in Nat /\ f.failed \in BOOLEAN
         /\ f.failed \/ f.written = f.read
<1>1. f # NoFetch
  BY DEF NoFetch
<1>2. f \in BusyFetches
  BY <1>1 DEF Fetches
<1>. QED  BY <1>2 DEF BusyFetches, FetchRecords

(* The request that is none is over.                                       *)
LEMMA NoFetchFacts == NoFetch \in Fetches /\ NoFetch.phase = "done"
BY DEF Fetches, NoFetch

(* A record with another phase is one of the same request.                 *)
LEMMA Rephased ==
  ASSUME NEW f \in BusyFetches, NEW p \in FetchPhases
  PROVE  /\ [f EXCEPT !.phase = p] \in BusyFetches
         /\ [f EXCEPT !.phase = p].phase = p
         /\ [f EXCEPT !.phase = p].cache = f.cache
         /\ [f EXCEPT !.phase = p].limiter = f.limiter
         /\ [f EXCEPT !.phase = p].leader = f.leader
BY DEF BusyFetches, FetchRecords

(* So is one with a file in the place of its limiter.                      *)
LEMMA Copying ==
  ASSUME NEW f \in BusyFetches, NEW sized \in BOOLEAN, NEW next,
         next = [f EXCEPT !.phase = "copy", !.file = TRUE, !.limiter = 0, !.sized = sized]
  PROVE  next \in BusyFetches /\ next.phase = "copy" /\ next.cache = f.cache
<1>1. next = [phase |-> "copy", cache |-> f.cache, limiter |-> 0, leader |-> f.leader,
              wake |-> f.wake, file |-> TRUE, sized |-> sized, read |-> f.read,
              written |-> f.written, failed |-> f.failed]
  BY DEF BusyFetches, FetchRecords
<1>2. next \in FetchRecords
  <2>1. /\ f.cache \in ImageObjects /\ f.leader \in ImageRequests /\ f.wake \in Int
        /\ f.read \in Nat /\ f.written \in Nat /\ f.failed \in BOOLEAN
    BY DEF BusyFetches, FetchRecords
  <2>2. "copy" \in FetchPhases
    BY DEF FetchPhases
  <2>3. [phase |-> "copy", cache |-> f.cache, limiter |-> 0, leader |-> f.leader,
         wake |-> f.wake, file |-> TRUE, sized |-> sized, read |-> f.read,
         written |-> f.written, failed |-> f.failed] \in FetchRecords
    BY <2>1, <2>2 DEF FetchRecords
  <2>. QED  BY <1>1, <2>3
<1>3. next.failed = f.failed /\ next.written = f.written /\ next.read = f.read
  BY <1>1
<1>4. f.failed \/ f.written = f.read
  BY DEF BusyFetches
<1>5. next.failed \/ next.written = next.read
  BY <1>3, <1>4
<1>6. next \in BusyFetches
  BY <1>2, <1>5 DEF BusyFetches
<1>. QED  BY <1>1, <1>6

(* And one that has read a chunk more, whether or not it could write it.   *)
LEMMA ChunkFacts ==
  ASSUME NEW f \in BusyFetches, NEW works \in BOOLEAN, NEW next, next = Chunk(f, works)
  PROVE  /\ next \in BusyFetches
         /\ next.phase = f.phase /\ next.cache = f.cache
<1>1. f \in FetchRecords /\ (~f.failed => f.written = f.read)
  BY DEF BusyFetches
<1>2. CASE works /\ ~f.failed
  <2>1. next = [f EXCEPT !.read = f.read + 1, !.written = f.written + 1]
    BY <1>1, <1>2 DEF Chunk, FetchRecords
  <2>2. next = [phase |-> f.phase, cache |-> f.cache, limiter |-> f.limiter,
                leader |-> f.leader, wake |-> f.wake, file |-> f.file, sized |-> f.sized,
                read |-> f.read + 1, written |-> f.written + 1, failed |-> f.failed]
    BY <1>1, <2>1 DEF FetchRecords
  <2>3. f.read + 1 \in Nat /\ f.written + 1 \in Nat
    BY <1>1 DEF FetchRecords
  <2>4. /\ next \in FetchRecords /\ next.phase = f.phase /\ next.cache = f.cache
        /\ next.read = f.read + 1 /\ next.written = f.written + 1
    BY <1>1, <2>2, <2>3 DEF FetchRecords
  <2>. QED  BY <1>1, <1>2, <2>4 DEF BusyFetches
<1>3. CASE ~(works /\ ~f.failed)
  <2>1. next = [f EXCEPT !.read = f.read + 1, !.failed = TRUE]
    BY <1>1, <1>3 DEF Chunk, FetchRecords
  <2>2. next = [phase |-> f.phase, cache |-> f.cache, limiter |-> f.limiter,
                leader |-> f.leader, wake |-> f.wake, file |-> f.file, sized |-> f.sized,
                read |-> f.read + 1, written |-> f.written, failed |-> TRUE]
    BY <1>1, <2>1 DEF FetchRecords
  <2>3. f.read + 1 \in Nat
    BY <1>1 DEF FetchRecords
  <2>4. /\ next \in FetchRecords /\ next.phase = f.phase /\ next.cache = f.cache
        /\ next.failed
    BY <1>1, <2>2, <2>3 DEF FetchRecords
  <2>. QED  BY <2>4 DEF BusyFetches
<1>. QED  BY <1>2, <1>3

(* At first nobody asks for an image.                                      *)
LEMMA InitImage == ImageInit => ImageInv
<1>. SUFFICES ASSUME ImageInit  PROVE ImageInv
  OBVIOUS
<1>1. ImageTypeOK
  BY ImageAssumption, NoFetchFacts DEF ImageInit, ImageTypeOK, ImageObjects
<1>2. \A r \in ImageRequests : icFetch[r].phase = "done"
  BY NoFetchFacts DEF ImageInit
<1>3. LimiterOK /\ WaitsOK
  BY <1>2 DEF LimiterOK, WaitsOK, LimitedPhases
<1>4. FillsOK
  BY DEF ImageInit, FillsOK
<1>5. BodyOK
  BY DEF ImageInit, BodyOK, ServedWhole
<1>. QED  BY <1>1, <1>3, <1>4, <1>5 DEF ImageInv, FetchInv

(* A request moves, and may start a fill, but leaves none it leads.        *)
LEMMA RequestMoves ==
  ASSUME FetchInv, NEW r \in ImageRequests, NEW next \in Fetches,
         icFetch' = [icFetch EXCEPT ![r] = next],
         icFills' \in [ImageObjects -> SUBSET ImageRequests],
         \A c \in ImageObjects : /\ icFills[c] \subseteq icFills'[c]
                                 /\ icFills'[c] \subseteq icFills[c] \cup {r},
         \A c \in ImageObjects :
             r \in icFills'[c] => next.phase \in LeadingPhases /\ next.cache = c,
         next.phase \in LimitedPhases => next.limiter \in ImageObjects,
         next.phase = "wait" => next.cache \in ImageObjects
                                /\ next.leader \in icFills'[next.cache],
         UNCHANGED <<icNow, icCache, icLimiter>>,
         icNextStart' \in [ImageObjects -> Int], icBackoffUntil' \in [ImageObjects -> Int]
  PROVE  FetchInv'
<1>1. /\ icFetch \in [ImageRequests -> Fetches] /\ icFills \in [ImageObjects -> SUBSET ImageRequests]
      /\ icFetch' \in [ImageRequests -> Fetches]
      /\ icFetch'[r] = next
      /\ \A q \in ImageRequests : q # r => icFetch'[q] = icFetch[q]
  BY DEF FetchInv, ImageTypeOK
<1>2. ImageTypeOK'
  BY <1>1 DEF FetchInv, ImageTypeOK
<1>3. LimiterOK'
  <2>. SUFFICES ASSUME NEW q \in ImageRequests, icFetch'[q].phase \in LimitedPhases
                PROVE  icFetch'[q].limiter \in ImageObjects
    BY DEF LimiterOK
  <2>. QED  BY <1>1 DEF FetchInv, LimiterOK
<1>4. FillsOK'
  <2>. SUFFICES ASSUME NEW c \in ImageObjects, NEW q \in icFills'[c]
                PROVE  icFetch'[q].phase \in LeadingPhases /\ icFetch'[q].cache = c
    BY DEF FillsOK
  <2>1. CASE q = r
    BY <1>1, <2>1
  <2>2. CASE q # r
    <3>1. q \in icFills[c] /\ q \in ImageRequests
      BY <1>1, <2>2
    <3>. QED  BY <1>1, <2>2, <3>1 DEF FetchInv, FillsOK
  <2>. QED  BY <2>1, <2>2
<1>5. WaitsOK'
  <2>. SUFFICES ASSUME NEW q \in ImageRequests, icFetch'[q].phase = "wait"
                PROVE  icFetch'[q].leader \in icFills'[icFetch'[q].cache]
    BY DEF WaitsOK
  <2>1. CASE q = r
    BY <1>1, <2>1
  <2>2. CASE q # r
    <3>1. icFetch'[q] = icFetch[q] /\ icFetch[q] \in Fetches
      BY <1>1, <2>2
    <3>2. icFetch[q].leader \in icFills[icFetch[q].cache]
      BY <3>1 DEF FetchInv, WaitsOK
    <3>3. icFetch[q].cache \in ImageObjects
      BY <3>1, BusyFacts
    <3>. QED  BY <3>1, <3>2, <3>3
  <2>. QED  BY <2>1, <2>2
<1>. QED  BY <1>2, <1>3, <1>4, <1>5 DEF FetchInv

(* The leader of a fill is a request of its cache.                         *)
LEMMA LeaderFacts ==
  ASSUME FetchInv, NEW r \in ImageRequests, NEW c \in ImageObjects, r \in icFills[c]
  PROVE  /\ icFetch[r].phase \in LeadingPhases /\ icFetch[r].cache = c
         /\ icFetch[r].phase \notin {"wait", "done"}
<1>1. icFetch[r].phase \in LeadingPhases /\ icFetch[r].cache = c
  BY DEF FetchInv, FillsOK
<1>. QED  BY <1>1 DEF LeadingPhases

(* A step of one request to another phase, with the fills as they are.     *)
LEMMA PhaseMoves ==
  ASSUME FetchInv, NEW r \in ImageRequests, NEW p \in FetchPhases, FetchTo(r, p),
         icFetch[r].phase # "done", p # "wait",
         icFetch[r].phase \in LeadingPhases => p \in LeadingPhases,
         p \in LimitedPhases => icFetch[r].phase \in LimitedPhases,
         UNCHANGED <<icNow, icCache, icLimiter, icFills>>,
         icNextStart' \in [ImageObjects -> Int], icBackoffUntil' \in [ImageObjects -> Int]
  PROVE  FetchInv'
<1>1. icFetch \in [ImageRequests -> Fetches] /\ icFills \in [ImageObjects -> SUBSET ImageRequests]
  BY DEF FetchInv, ImageTypeOK
<1>. DEFINE old == icFetch[r]
            next == [old EXCEPT !.phase = p]
<1>2. icFetch' = [icFetch EXCEPT ![r] = next]
  BY <1>1 DEF FetchTo
<1>3. old \in BusyFetches
  BY <1>1, BusyFacts
<1>4. next \in Fetches /\ next.phase = p /\ next.cache = old.cache /\ next.limiter = old.limiter
  BY <1>3, Rephased DEF Fetches
<1>. HIDE DEF next
<1>5. \A c \in ImageObjects : r \in icFills'[c] => next.phase \in LeadingPhases /\ next.cache = c
  BY <1>4, LeaderFacts
<1>6. next.phase \in LimitedPhases => next.limiter \in ImageObjects
  BY <1>4 DEF FetchInv, LimiterOK
<1>. QED  BY <1>1, <1>2, <1>4, <1>5, <1>6, RequestMoves

(* The end of a fill: its waiters look again, and its leader is out of it. *)
LEMMA FillFinishes ==
  ASSUME FetchInv, NEW r \in ImageRequests, FinishesFill(r, NoFetch),
         UNCHANGED <<icNow, icCache, icLimiter>>,
         icNextStart' \in [ImageObjects -> Int], icBackoffUntil' \in [ImageObjects -> Int]
  PROVE  FetchInv'
<1>1. icFetch \in [ImageRequests -> Fetches] /\ icFills \in [ImageObjects -> SUBSET ImageRequests]
  BY DEF FetchInv, ImageTypeOK
<1>. DEFINE Led(q) == FetchIn(q, "wait") /\ icFetch[q].leader = r
            again(q) == [icFetch[q] EXCEPT !.phase = "again", !.leader = q]
<1>2. icFills' = [c \in ImageObjects |-> icFills[c] \ {r}]
  BY DEF FinishesFill
<1>3. ASSUME NEW q \in ImageRequests
      PROVE  /\ q = r => icFetch'[q] = NoFetch
             /\ q # r /\ Led(q) => icFetch'[q] = again(q)
             /\ q # r /\ ~Led(q) => icFetch'[q] = icFetch[q]
  BY DEF FinishesFill
<1>4. ASSUME NEW q \in ImageRequests, Led(q)
      PROVE  again(q) \in Fetches /\ again(q).phase = "again"
  <2>1. icFetch[q] \in BusyFetches
    BY <1>1, <1>4, BusyFacts DEF FetchIn
  <2>2. "again" \in FetchPhases
    BY DEF FetchPhases
  <2>3. again(q) \in BusyFetches /\ again(q).phase = "again"
    BY <2>1, <2>2 DEF BusyFetches, FetchRecords
  <2>. QED  BY <2>3 DEF Fetches
<1>5. icFetch' \in [ImageRequests -> Fetches]
  <2>1. DOMAIN icFetch' = ImageRequests /\ icFetch' = [q \in ImageRequests |-> icFetch'[q]]
    BY DEF FinishesFill
  <2>2. ASSUME NEW q \in ImageRequests  PROVE icFetch'[q] \in Fetches
    BY <1>1, <1>3, <1>4, NoFetchFacts
  <2>. QED  BY <2>1, <2>2
<1>. HIDE DEF again
<1>6. ImageTypeOK'
  BY <1>1, <1>2, <1>5 DEF FetchInv, ImageTypeOK
<1>7. LimiterOK'
  <2>. SUFFICES ASSUME NEW q \in ImageRequests, icFetch'[q].phase \in LimitedPhases
                PROVE  icFetch'[q].limiter \in ImageObjects
    BY DEF LimiterOK
  <2>1. q # r /\ ~Led(q)
    BY <1>3, <1>4, NoFetchFacts DEF LimitedPhases
  <2>. QED  BY <1>3, <2>1 DEF FetchInv, LimiterOK
<1>8. FillsOK'
  <2>. SUFFICES ASSUME NEW c \in ImageObjects, NEW q \in icFills'[c]
                PROVE  icFetch'[q].phase \in LeadingPhases /\ icFetch'[q].cache = c
    BY DEF FillsOK
  <2>1. q \in icFills[c] /\ q # r /\ q \in ImageRequests
    BY <1>1, <1>2
  <2>2. /\ icFetch[q].phase \in LeadingPhases /\ icFetch[q].cache = c
        /\ icFetch[q].phase # "wait"
    BY <2>1, LeaderFacts
  <2>3. icFetch'[q] = icFetch[q]
    BY <1>3, <2>1, <2>2 DEF FetchIn
  <2>. QED  BY <2>2, <2>3
<1>9. WaitsOK'
  <2>. SUFFICES ASSUME NEW q \in ImageRequests, icFetch'[q].phase = "wait"
                PROVE  icFetch'[q].leader \in icFills'[icFetch'[q].cache]
    BY DEF WaitsOK
  <2>1. q # r /\ ~Led(q) /\ icFetch'[q] = icFetch[q]
    BY <1>3, <1>4, NoFetchFacts
  <2>2. icFetch[q].leader \in icFills[icFetch[q].cache] /\ icFetch[q].leader # r
    BY <2>1 DEF FetchInv, WaitsOK, FetchIn
  <2>3. icFetch[q].cache \in ImageObjects
    BY <1>1, <2>1, BusyFacts
  <2>. QED  BY <1>2, <2>1, <2>2, <2>3
<1>. QED  BY <1>6, <1>7, <1>8, <1>9 DEF FetchInv

(* A request arrives, looks its image up, opens a body.                    *)
LEMMA ImageArrivesStep ==
  ASSUME ImageInv, NEW r \in ImageRequests, ImageArrives(r)
  PROVE  ImageInv'
<1>. DEFINE next == [phase |-> "lookup", cache |-> icCache, limiter |-> 0, leader |-> r,
                     wake |-> 0, file |-> FALSE, sized |-> FALSE, read |-> 0, written |-> 0,
                     failed |-> FALSE]
<1>1. /\ icFetch[r].phase = "done" /\ icFetch' = [icFetch EXCEPT ![r] = next]
      /\ UNCHANGED <<icNow, icCache, icLimiter, icFills, icNextStart, icBackoffUntil,
                     icBody, icServed>>
  BY DEF ImageArrives, FetchIn, icObjects, icDisk, icLimits
<1>2. next \in Fetches /\ next.phase = "lookup"
  BY DEF ImageInv, FetchInv, ImageTypeOK, Fetches, BusyFetches, FetchRecords, FetchPhases
<1>. HIDE DEF next
<1>3. \A c \in ImageObjects : r \notin icFills'[c]
  BY <1>1, LeaderFacts DEF ImageInv
<1>4. FetchInv'
  BY <1>1, <1>2, <1>3, RequestMoves DEF ImageInv, FetchInv, ImageTypeOK, LimitedPhases
<1>. QED  BY <1>1, <1>4 DEF ImageInv, BodyOK, ServedWhole

LEMMA LooksUpStep ==
  ASSUME ImageInv, NEW r \in ImageRequests, LooksUp(r)
  PROVE  ImageInv'
<1>1. /\ FetchIn(r, "lookup") \/ FetchIn(r, "again")
      /\ UNCHANGED <<icNow, icCache, icLimiter, icFills, icNextStart, icBackoffUntil, icServed>>
  BY DEF LooksUp, icObjects, icLimits
<1>2. icFetch[r].phase \in {"lookup", "again"}
  BY <1>1 DEF FetchIn
<1>3. PICK p \in {"open", "reopen", "slot", "fill"} : FetchTo(r, p)
  <2>1. icFetch \in [ImageRequests -> Fetches]
    BY DEF ImageInv, FetchInv, ImageTypeOK
  <2>2. \/ icFetch' = [icFetch EXCEPT ![r].phase = IF @ = "again" THEN "reopen" ELSE "open"]
        \/ LookupMissed(r)
    BY DEF LooksUp
  <2>3. CASE LookupMissed(r)
    BY <2>3 DEF LookupMissed
  <2>4. CASE icFetch' = [icFetch EXCEPT ![r].phase = IF @ = "again" THEN "reopen" ELSE "open"]
    BY <2>1, <2>4 DEF FetchTo
  <2>. QED  BY <2>2, <2>3, <2>4
<1>4. FetchInv'
  <2>1. p \in FetchPhases /\ p # "wait" /\ p \notin LimitedPhases
    BY DEF FetchPhases, LimitedPhases
  <2>2. icFetch[r].phase \notin LeadingPhases /\ icFetch[r].phase # "done"
    BY <1>2 DEF LeadingPhases
  <2>. QED  BY <1>1, <1>3, <2>1, <2>2, PhaseMoves DEF ImageInv, FetchInv, ImageTypeOK
<1>5. icBody' = icBody \/ icBody' = {}
  BY DEF LooksUp, EntryRemoved
<1>. QED  BY <1>1, <1>4, <1>5 DEF ImageInv, BodyOK, ServedWhole

LEMMA OpensBodyStep ==
  ASSUME ImageInv, NEW r \in ImageRequests, OpensBody(r)
  PROVE  ImageInv'
<1>1. /\ icFetch[r].phase \in {"open", "reopen"}
      /\ UNCHANGED <<icNow, icCache, icLimiter, icFills, icNextStart, icBackoffUntil>>
  BY DEF OpensBody, FetchIn, icObjects, icLimits
<1>2. CASE icBody # {} /\ icFetch' = [icFetch EXCEPT ![r] = NoFetch]
           /\ icServed' = icBody /\ UNCHANGED icDisk
  <2>1. \A c \in ImageObjects : r \notin icFills'[c]
    BY <1>1, LeaderFacts DEF ImageInv, LeadingPhases
  <2>2. FetchInv'
    BY <1>1, <1>2, <2>1, NoFetchFacts, RequestMoves
       DEF ImageInv, FetchInv, ImageTypeOK, LimitedPhases
  <2>. QED  BY <1>2, <2>2 DEF ImageInv, BodyOK, ServedWhole, icDisk
<1>3. CASE /\ icBody' = {} /\ UNCHANGED icServed
           /\ FetchTo(r, IF FetchIn(r, "reopen") THEN "slot" ELSE "fill")
  <2>1. PICK p \in {"slot", "fill"} : FetchTo(r, p)
    BY <1>3
  <2>2. p \in FetchPhases /\ p # "wait" /\ p \notin LimitedPhases
        /\ icFetch[r].phase \notin LeadingPhases /\ icFetch[r].phase # "done"
    BY <1>1 DEF FetchPhases, LimitedPhases, LeadingPhases
  <2>3. FetchInv'
    BY <1>1, <2>1, <2>2, PhaseMoves DEF ImageInv, FetchInv, ImageTypeOK
  <2>. QED  BY <1>3, <2>3 DEF ImageInv, BodyOK, ServedWhole
<1>. QED  BY <1>2, <1>3 DEF OpensBody, EntryRemoved

(* A fill has no leader yet and gets this one, or this request waits.      *)
LEMMA BeginsFillStep ==
  ASSUME ImageInv, NEW r \in ImageRequests, BeginsFill(r)
  PROVE  ImageInv'
<1>. DEFINE old == icFetch[r]
<1>1. /\ old.phase = "fill"
      /\ UNCHANGED <<icNow, icCache, icLimiter, icNextStart, icBackoffUntil, icBody, icServed>>
  BY DEF BeginsFill, FetchIn, icObjects, icDisk, icLimits
<1>2. icFetch \in [ImageRequests -> Fetches] /\ icFills \in [ImageObjects -> SUBSET ImageRequests]
  BY DEF ImageInv, FetchInv, ImageTypeOK
<1>3. old \in BusyFetches /\ old.cache \in ImageObjects
  BY <1>1, <1>2, BusyFacts
<1>4. \A c \in ImageObjects : r \notin icFills[c]
  BY <1>1, LeaderFacts DEF ImageInv, LeadingPhases
<1>5. CASE icFills[old.cache] = {} /\ icFills' = [icFills EXCEPT ![old.cache] = {r}]
           /\ FetchTo(r, "slot")
  <2>. DEFINE next == [old EXCEPT !.phase = "slot"]
  <2>1. icFetch' = [icFetch EXCEPT ![r] = next]
    BY <1>2, <1>5 DEF FetchTo
  <2>2. next \in Fetches /\ next.phase = "slot" /\ next.cache = old.cache
    BY <1>3, Rephased DEF Fetches, FetchPhases
  <2>. HIDE DEF next
  <2>3. /\ icFills' \in [ImageObjects -> SUBSET ImageRequests]
        /\ \A c \in ImageObjects : /\ icFills[c] \subseteq icFills'[c]
                                   /\ icFills'[c] \subseteq icFills[c] \cup {r}
        /\ \A c \in ImageObjects : r \in icFills'[c] => c = old.cache
    BY <1>2, <1>3, <1>4, <1>5
  <2>4. FetchInv'
    BY <1>1, <2>1, <2>2, <2>3, RequestMoves
       DEF ImageInv, FetchInv, ImageTypeOK, LeadingPhases, LimitedPhases
  <2>. QED  BY <1>1, <2>4 DEF ImageInv, BodyOK, ServedWhole
<1>6. ASSUME NEW q \in icFills[old.cache], UNCHANGED icFills,
             icFetch' = [icFetch EXCEPT ![r].phase = "wait", ![r].leader = q]
      PROVE  ImageInv'
  <2>. DEFINE next == [old EXCEPT !.phase = "wait", !.leader = q]
  <2>1. icFetch' = [icFetch EXCEPT ![r] = next]
    BY <1>2, <1>6
  <2>2. q \in ImageRequests
    BY <1>2, <1>3
  <2>3. "wait" \in FetchPhases
    BY DEF FetchPhases
  <2>4. next \in Fetches /\ next.phase = "wait" /\ next.cache = old.cache /\ next.leader = q
    BY <1>3, <2>2, <2>3 DEF Fetches, BusyFetches, FetchRecords
  <2>. HIDE DEF next
  <2>5. FetchInv'
    BY <1>1, <1>2, <1>3, <1>4, <1>6, <2>1, <2>4, RequestMoves
       DEF ImageInv, FetchInv, ImageTypeOK, LimitedPhases
  <2>. QED  BY <1>1, <2>5 DEF ImageInv, BodyOK, ServedWhole
<1>. QED  BY <1>5, <1>6 DEF BeginsFill

(* A request goes on, and neither the fills nor the limits change.         *)
LEMMA RequestAdvances ==
  ASSUME FetchInv, NEW r \in ImageRequests, NEW next \in Fetches,
         icFetch' = [icFetch EXCEPT ![r] = next],
         \A c \in ImageObjects :
             r \in icFills'[c] => next.phase \in LeadingPhases /\ next.cache = c,
         next.phase \in LimitedPhases => next.limiter \in ImageObjects,
         next.phase # "wait",
         UNCHANGED <<icNow, icCache, icLimiter, icFills, icNextStart, icBackoffUntil>>
  PROVE  FetchInv'
<1>1. /\ icFills' = icFills /\ icFills \in [ImageObjects -> SUBSET ImageRequests]
      /\ icNextStart' = icNextStart /\ icNextStart \in [ImageObjects -> Int]
      /\ icBackoffUntil' = icBackoffUntil /\ icBackoffUntil \in [ImageObjects -> Int]
  BY DEF FetchInv, ImageTypeOK
<1>2. \A c \in ImageObjects : /\ icFills[c] \subseteq icFills'[c]
                              /\ icFills'[c] \subseteq icFills[c] \cup {r}
  BY <1>1
<1>3. /\ icFills' \in [ImageObjects -> SUBSET ImageRequests]
      /\ icNextStart' \in [ImageObjects -> Int] /\ icBackoffUntil' \in [ImageObjects -> Int]
  BY <1>1
<1>. QED  BY <1>2, <1>3, RequestMoves

(* A request takes the limiter of the moment and a slot of it.             *)
LEMMA TakesLimiterStep ==
  ASSUME ImageInv, NEW r \in ImageRequests, TakesLimiter(r)
  PROVE  ImageInv'
<1>. DEFINE old == icFetch[r]
            next == [old EXCEPT !.phase = "queue", !.limiter = icLimiter]
<1>1. /\ old.phase = "slot"
      /\ UNCHANGED <<icNow, icCache, icLimiter, icFills, icNextStart, icBackoffUntil,
                     icBody, icServed>>
  BY DEF TakesLimiter, FetchIn, icObjects, icDisk, icLimits
<1>2. /\ icFetch \in [ImageRequests -> Fetches] /\ icFills \in [ImageObjects -> SUBSET ImageRequests]
      /\ icLimiter \in ImageObjects /\ icLimiter \in Int
  BY DEF ImageInv, FetchInv, ImageTypeOK, ImageObjects
<1>3. old \in BusyFetches /\ "queue" \in FetchPhases
  BY <1>1, <1>2, BusyFacts DEF FetchPhases
<1>4. icFetch' = [icFetch EXCEPT ![r] = next]
  BY <1>2 DEF TakesLimiter
<1>5. /\ next \in Fetches /\ next.phase = "queue" /\ next.cache = old.cache
      /\ next.limiter = icLimiter
  BY <1>2, <1>3 DEF Fetches, BusyFetches, FetchRecords
<1>. HIDE DEF next
<1>6. \A c \in ImageObjects : r \in icFills'[c] => next.phase \in LeadingPhases /\ next.cache = c
  BY <1>1, <1>5, LeaderFacts DEF ImageInv, LeadingPhases
<1>7. FetchInv
  BY DEF ImageInv
<1>8. FetchInv'
  BY <1>1, <1>2, <1>4, <1>5, <1>6, <1>7, RequestAdvances
<1>. QED  BY <1>1, <1>8 DEF ImageInv, BodyOK, ServedWhole

(* A request with its limiter goes to sleep, wakes up, starts.             *)
LEMMA LimitedStep ==
  ASSUME ImageInv, NEW r \in ImageRequests, NEW p \in LimitedPhases, NEW time \in Int,
         icFetch[r].phase \in LimitedPhases,
         \/ FetchTo(r, p)
         \/ icFetch' = [icFetch EXCEPT ![r].phase = p, ![r].wake = time],
         UNCHANGED <<icNow, icCache, icLimiter, icFills, icBody, icServed>>,
         icNextStart' \in [ImageObjects -> Int], icBackoffUntil' \in [ImageObjects -> Int]
  PROVE  ImageInv'
<1>. DEFINE old == icFetch[r]
            next == [old EXCEPT !.phase = p, !.wake = time]
<1>1. p \in FetchPhases /\ p \in LeadingPhases /\ p # "wait" /\ old.phase # "done"
  BY DEF FetchPhases, LeadingPhases, LimitedPhases
<1>2. /\ icFetch \in [ImageRequests -> Fetches] /\ icFills \in [ImageObjects -> SUBSET ImageRequests]
      /\ old.limiter \in ImageObjects
  BY DEF ImageInv, FetchInv, ImageTypeOK, LimiterOK
<1>3. CASE FetchTo(r, p)
  <2>1. FetchInv'
    BY <1>1, <1>3, PhaseMoves DEF ImageInv
  <2>. QED  BY <2>1 DEF ImageInv, BodyOK, ServedWhole
<1>4. CASE icFetch' = [icFetch EXCEPT ![r].phase = p, ![r].wake = time]
  <2>1. old \in BusyFetches
    BY <1>1, <1>2, BusyFacts
  <2>2. icFetch' = [icFetch EXCEPT ![r] = next]
    BY <1>2, <1>4
  <2>3. /\ next \in Fetches /\ next.phase = p /\ next.cache = old.cache
        /\ next.limiter = old.limiter
    BY <1>1, <2>1 DEF Fetches, BusyFetches, FetchRecords
  <2>. HIDE DEF next
  <2>4. \A c \in ImageObjects : r \in icFills'[c] => next.phase \in LeadingPhases /\ next.cache = c
    BY <1>1, <2>3, LeaderFacts DEF ImageInv
  <2>5. FetchInv'
    BY <1>1, <1>2, <2>2, <2>3, <2>4, RequestMoves DEF ImageInv
  <2>. QED  BY <2>5 DEF ImageInv, BodyOK, ServedWhole
<1>. QED  BY <1>3, <1>4

(* The times of a limiter are times.                                       *)
LEMMA LimitTimes ==
  ASSUME ImageInv, NEW l \in ImageObjects
  PROVE  StartAt(l) \in Int /\ icNow + StartInterval \in Int /\ icNow + Backoff \in Int
         /\ icBackoffUntil[l] \in Int
BY ImageAssumption DEF ImageInv, FetchInv, ImageTypeOK, StartAt

(* The steps of a request that stands at its limiter.                      *)
LEMMA LimiterSteps ==
  ASSUME ImageInv, NEW r \in ImageRequests,
         TakesSlot(r) \/ SleepsFor(r) \/ StartsFetch(r) \/ WakesUp(r)
  PROVE  ImageInv'
<1>. DEFINE l == icFetch[r].limiter
<1>1. icFetch[r].phase \in LimitedPhases
  BY DEF TakesSlot, SleepsFor, StartsFetch, WakesUp, FetchIn, LimitedPhases
<1>2. l \in ImageObjects
  BY <1>1 DEF ImageInv, FetchInv, LimiterOK
<1>3. StartAt(l) \in Int /\ icNow + StartInterval \in Int /\ 0 \in Int
  BY <1>2, LimitTimes
<1>4. {"turn", "asleep", "fetch"} \subseteq LimitedPhases
  BY DEF LimitedPhases
<1>5. icNextStart \in [ImageObjects -> Int] /\ icBackoffUntil \in [ImageObjects -> Int]
  BY DEF ImageInv, FetchInv, ImageTypeOK
<1>6. UNCHANGED <<icNow, icCache, icLimiter, icFills, icBody, icServed>>
  BY DEF TakesSlot, SleepsFor, StartsFetch, WakesUp, icObjects, icDisk
<1>7. CASE TakesSlot(r)
  BY <1>1, <1>3, <1>4, <1>5, <1>6, <1>7, LimitedStep DEF TakesSlot, icLimits
<1>8. CASE SleepsFor(r)
  BY <1>1, <1>3, <1>4, <1>5, <1>6, <1>8, LimitedStep DEF SleepsFor, icLimits
<1>9. CASE StartsFetch(r)
  <2>1. icNextStart' = [icNextStart EXCEPT ![l] = icNow + StartInterval]
        /\ FetchTo(r, "fetch") /\ UNCHANGED icBackoffUntil
    BY <1>9 DEF StartsFetch, StartsNow
  <2>2. icNextStart' \in [ImageObjects -> Int]
    BY <1>3, <1>5, <2>1
  <2>. QED  BY <1>1, <1>3, <1>4, <1>5, <1>6, <2>1, <2>2, LimitedStep
<1>10. CASE WakesUp(r)
  BY <1>1, <1>3, <1>4, <1>5, <1>6, <1>10, LimitedStep DEF WakesUp, icLimits
<1>. QED  BY <1>7, <1>8, <1>9, <1>10

(* A fill ends without a body, or with one that took its place before.     *)
LEMMA FillEndsSteps ==
  ASSUME ImageInv, NEW r \in ImageRequests,
         FetchEnds(r) \/ RateLimited(r) \/ AbortsCopy(r) \/ CommitsMeta(r)
  PROVE  ImageInv'
<1>1. /\ FinishesFill(r, NoFetch)
      /\ UNCHANGED <<icNow, icCache, icLimiter, icNextStart, icServed>>
  BY DEF FetchEnds, RateLimited, AbortsCopy, CommitsMeta, icObjects, icLimits
<1>2. icBackoffUntil' \in [ImageObjects -> Int]
  <2>1. icBackoffUntil \in [ImageObjects -> Int] /\ icLimiter \in ImageObjects
    BY DEF ImageInv, FetchInv, ImageTypeOK
  <2>2. icBackoffUntil[icLimiter] \in Int /\ icNow + Backoff \in Int
    BY <2>1, LimitTimes
  <2>3. CASE RateLimited(r)
    BY <2>1, <2>2, <2>3 DEF RateLimited
  <2>. QED  BY <2>1, <2>3 DEF FetchEnds, AbortsCopy, CommitsMeta, icLimits
<1>3. icBody' = icBody \/ icBody' = {}
  BY DEF FetchEnds, RateLimited, AbortsCopy, CommitsMeta, icDisk
<1>4. FetchInv'
  BY <1>1, <1>2, FillFinishes DEF ImageInv, FetchInv, ImageTypeOK
<1>. QED  BY <1>1, <1>3, <1>4 DEF ImageInv, BodyOK, ServedWhole

(* A request that has no limiter yet or any more, and leads a fill, goes   *)
(* on with it.                                                             *)
LEMMA FillGoesOn ==
  ASSUME ImageInv, NEW r \in ImageRequests, icFetch[r].phase # "done",
         NEW next \in BusyFetches, icFetch' = [icFetch EXCEPT ![r] = next],
         next.phase \in {"copy", "commit"}, next.cache = icFetch[r].cache,
         UNCHANGED <<icNow, icCache, icLimiter, icFills, icNextStart, icBackoffUntil>>
  PROVE  FetchInv'
<1>1. FetchInv /\ next \in Fetches
  BY DEF ImageInv, Fetches
<1>2. next.phase \in LeadingPhases /\ next.phase \notin LimitedPhases /\ next.phase # "wait"
  BY DEF LeadingPhases, LimitedPhases
<1>3. \A c \in ImageObjects : r \in icFills'[c] => next.phase \in LeadingPhases /\ next.cache = c
  BY <1>1, <1>2, LeaderFacts
<1>. QED  BY <1>1, <1>2, <1>3, RequestAdvances

(* The answer gives the slot back and keeps the fill.                      *)
LEMMA FetchAnsweredStep ==
  ASSUME ImageInv, NEW r \in ImageRequests, FetchAnswered(r)
  PROVE  ImageInv'
<1>1. /\ icFetch[r].phase = "fetch"
      /\ UNCHANGED <<icNow, icCache, icLimiter, icFills, icNextStart, icBackoffUntil,
                     icBody, icServed>>
  BY DEF FetchAnswered, FetchIn, icObjects, icDisk, icLimits
<1>2. icFetch \in [ImageRequests -> Fetches]
  BY DEF ImageInv, FetchInv, ImageTypeOK
<1>3. icFetch[r] \in BusyFetches
  BY <1>1, <1>2, BusyFacts
<1>4. PICK sized \in BOOLEAN :
          icFetch' = [icFetch EXCEPT ![r].phase = "copy", ![r].file = TRUE, ![r].limiter = 0,
                                     ![r].sized = sized]
  BY DEF FetchAnswered
<1>. DEFINE old == icFetch[r]
            next == [old EXCEPT !.phase = "copy", !.file = TRUE, !.limiter = 0, !.sized = sized]
<1>5. icFetch' = [icFetch EXCEPT ![r] = next]
  BY <1>2, <1>4
<1>6. next \in BusyFetches /\ next.phase = "copy" /\ next.cache = old.cache
  <2>1. ASSUME NEW copy, copy = next
        PROVE  copy \in BusyFetches /\ copy.phase = "copy" /\ copy.cache = old.cache
    BY <1>3, <2>1, Copying
  <2>. QED  BY <2>1
<1>. HIDE DEF next
<1>7. FetchInv'
  BY <1>1, <1>5, <1>6, FillGoesOn
<1>. QED  BY <1>1, <1>7 DEF ImageInv, BodyOK, ServedWhole

(* A chunk is read, and written or lost.                                   *)
LEMMA ReadsChunkStep ==
  ASSUME ImageInv, NEW r \in ImageRequests, ReadsChunk(r)
  PROVE  ImageInv'
<1>1. /\ icFetch[r].phase = "copy"
      /\ UNCHANGED <<icNow, icCache, icLimiter, icFills, icNextStart, icBackoffUntil,
                     icBody, icServed>>
  BY DEF ReadsChunk, FetchIn, icObjects, icDisk, icLimits
<1>2. icFetch \in [ImageRequests -> Fetches]
  BY DEF ImageInv, FetchInv, ImageTypeOK
<1>3. icFetch[r] \in BusyFetches
  BY <1>1, <1>2, BusyFacts
<1>4. PICK works \in BOOLEAN : icFetch' = [icFetch EXCEPT ![r] = Chunk(@, works)]
  BY DEF ReadsChunk
<1>. DEFINE next == Chunk(icFetch[r], works)
<1>5. icFetch' = [icFetch EXCEPT ![r] = next]
  BY <1>2, <1>4
<1>6. next \in BusyFetches /\ next.phase = "copy" /\ next.cache = icFetch[r].cache
  BY <1>1, <1>3, ChunkFacts
<1>. HIDE DEF next
<1>7. FetchInv'
  BY <1>1, <1>5, <1>6, FillGoesOn
<1>. QED  BY <1>1, <1>7 DEF ImageInv, BodyOK, ServedWhole

(* What takes its place is all that was read, and all there is to read     *)
(* where the end was announced.                                            *)
LEMMA CommitsBodyStep ==
  ASSUME ImageInv, NEW r \in ImageRequests, CommitsBody(r)
  PROVE  ImageInv'
<1>. DEFINE f == icFetch[r]
            body == [bytes |-> f.written, sized |-> f.sized]
<1>1. /\ f.phase = "copy" /\ FetchTo(r, "commit") /\ icBody' = {body}
      /\ AtEnd(f) /\ ~f.failed
      /\ UNCHANGED <<icNow, icCache, icLimiter, icFills, icNextStart, icBackoffUntil, icServed>>
  BY DEF CommitsBody, FetchIn, icObjects, icLimits
<1>2. "commit" \in FetchPhases /\ "commit" \in LeadingPhases /\ "commit" \notin LimitedPhases
  BY DEF FetchPhases, LeadingPhases, LimitedPhases
<1>3. FetchInv'
  BY <1>1, <1>2, PhaseMoves DEF ImageInv, FetchInv, ImageTypeOK
<1>4. f.written = f.read
  BY <1>1, BusyFacts DEF ImageInv, FetchInv, ImageTypeOK
<1>5. body.sized => body.bytes = ImageSize
  BY <1>1, <1>4 DEF AtEnd
<1>6. \A b \in icBody' : b.sized => b.bytes = ImageSize
  BY <1>1, <1>5
<1>. QED  BY <1>1, <1>3, <1>6 DEF ImageInv, BodyOK, ServedWhole

(* Clear takes their files from the copies, and nothing else.              *)
LEMMA ClearsCacheStep ==
  ASSUME ImageInv, ClearsCache
  PROVE  ImageInv'
<1>1. /\ icBody' = {}
      /\ UNCHANGED <<icNow, icCache, icLimiter, icFills, icNextStart, icBackoffUntil, icServed>>
  BY DEF ClearsCache, icObjects, icLimits
<1>2. icFetch \in [ImageRequests -> Fetches] /\ icFills \in [ImageObjects -> SUBSET ImageRequests]
  BY DEF ImageInv, FetchInv, ImageTypeOK
<1>3. ASSUME NEW r \in ImageRequests
      PROVE  /\ icFetch'[r] \in Fetches
             /\ icFetch'[r].phase = icFetch[r].phase
             /\ icFetch'[r].cache = icFetch[r].cache
             /\ icFetch'[r].limiter = icFetch[r].limiter
             /\ icFetch'[r].leader = icFetch[r].leader
  <2>1. CASE icFetch[r].phase = "copy"
    <3>1. icFetch[r] \in BusyFetches
      BY <1>2, <2>1, BusyFacts
    <3>2. icFetch'[r] = [icFetch[r] EXCEPT !.file = FALSE]
      BY <2>1 DEF ClearsCache, FetchIn
    <3>. QED  BY <3>1, <3>2 DEF Fetches, BusyFetches, FetchRecords
  <2>2. CASE icFetch[r].phase # "copy"
    <3>1. icFetch'[r] = icFetch[r]
      BY <2>2 DEF ClearsCache, FetchIn
    <3>. QED  BY <1>2, <3>1
  <2>. QED  BY <2>1, <2>2
<1>4. icFetch' \in [ImageRequests -> Fetches]
  <2>1. icFetch' = [r \in ImageRequests |-> icFetch'[r]]
    BY DEF ClearsCache
  <2>. QED  BY <1>3, <2>1
<1>5. ImageTypeOK' /\ LimiterOK'
  BY <1>1, <1>3, <1>4 DEF ImageInv, FetchInv, ImageTypeOK, LimiterOK
<1>6. FillsOK'
  BY <1>1, <1>2, <1>3 DEF ImageInv, FetchInv, FillsOK
<1>7. WaitsOK'
  BY <1>1, <1>3 DEF ImageInv, FetchInv, WaitsOK
<1>. QED  BY <1>1, <1>5, <1>6, <1>7 DEF ImageInv, FetchInv, BodyOK, ServedWhole

(* The settings replace an object, an entry gets old, time goes on.        *)
LEMMA AroundSteps ==
  ASSUME ImageInv, EntryExpires \/ ReplacesCache \/ ReplacesLimiter \/ ImageTick
  PROVE  ImageInv'
<1>1. UNCHANGED <<icFetch, icFills, icBody, icNextStart, icBackoffUntil, icServed>>
  BY DEF EntryExpires, ReplacesCache, ReplacesLimiter, ImageTick, icObjects, icDisk, icLimits
<1>2. icNow' \in Int
  BY DEF EntryExpires, ReplacesCache, ReplacesLimiter, ImageTick, ImageInv, FetchInv, ImageTypeOK
<1>3. icCache' \in ImageObjects /\ icLimiter' \in ImageObjects
  <2>1. icCache \in ImageObjects /\ icLimiter \in ImageObjects
    BY DEF ImageInv, FetchInv, ImageTypeOK
  <2>2. CASE EntryExpires \/ ImageTick
    BY <2>1, <2>2 DEF EntryExpires, ImageTick, icObjects
  <2>3. CASE ReplacesCache \/ ReplacesLimiter
    BY <2>1, <2>3, ImageAssumption DEF ReplacesCache, ReplacesLimiter, ImageObjects
  <2>. QED  BY <2>2, <2>3
<1>. QED  BY <1>1, <1>2, <1>3
     DEF ImageInv, FetchInv, ImageTypeOK, LimiterOK, FillsOK, WaitsOK, BodyOK, ServedWhole

(* After a restart nobody asks for an image; the body on disk is left.     *)
LEMMA ImageRestartStep ==
  ASSUME ImageInv, ImageRestart
  PROVE  ImageInv'
<1>1. /\ UNCHANGED <<icNow, icCache, icLimiter, icBody, icServed>>
      /\ icFetch' = [r \in ImageRequests |-> NoFetch]
      /\ icFills' = [c \in ImageObjects |-> {}]
      /\ icNextStart' = [l \in ImageObjects |-> 0]
      /\ icBackoffUntil' = [l \in ImageObjects |-> 0]
  BY DEF ImageRestart, icObjects
<1>2. ImageTypeOK'
  BY <1>1, NoFetchFacts DEF ImageInv, FetchInv, ImageTypeOK
<1>3. LimiterOK' /\ FillsOK' /\ WaitsOK'
  BY <1>1, NoFetchFacts DEF LimiterOK, FillsOK, WaitsOK, LimitedPhases
<1>. QED  BY <1>1, <1>2, <1>3 DEF ImageInv, FetchInv, BodyOK, ServedWhole

(* Every step keeps the invariant.                                         *)
LEMMA ImageStep ==
  ASSUME ImageInv, [ImageNext]_imageVars
  PROVE  ImageInv'
<1>1. CASE UNCHANGED imageVars
  BY <1>1 DEF imageVars, icObjects, icDisk, icLimits, ImageInv, FetchInv, ImageTypeOK, LimiterOK,
              FillsOK, WaitsOK, BodyOK, ServedWhole
<1>2. ASSUME NEW r \in ImageRequests,
             \/ ImageArrives(r) \/ LooksUp(r) \/ OpensBody(r) \/ BeginsFill(r)
             \/ TakesLimiter(r)
      PROVE  ImageInv'
  BY <1>2, ImageArrivesStep, LooksUpStep, OpensBodyStep, BeginsFillStep, TakesLimiterStep
<1>3. ASSUME NEW r \in ImageRequests,
             TakesSlot(r) \/ SleepsFor(r) \/ StartsFetch(r) \/ WakesUp(r)
      PROVE  ImageInv'
  BY <1>3, LimiterSteps
<1>4. ASSUME NEW r \in ImageRequests,
             FetchEnds(r) \/ RateLimited(r) \/ AbortsCopy(r) \/ CommitsMeta(r)
      PROVE  ImageInv'
  BY <1>4, FillEndsSteps
<1>5. ASSUME NEW r \in ImageRequests, FetchAnswered(r) \/ ReadsChunk(r) \/ CommitsBody(r)
      PROVE  ImageInv'
  BY <1>5, FetchAnsweredStep, ReadsChunkStep, CommitsBodyStep
<1>6. ASSUME ClearsCache \/ EntryExpires \/ ReplacesCache \/ ReplacesLimiter
             \/ ImageRestart \/ ImageTick
      PROVE  ImageInv'
  BY <1>6, ClearsCacheStep, AroundSteps, ImageRestartStep
<1>. QED  BY <1>1, <1>2, <1>3, <1>4, <1>5, <1>6 DEF ImageNext

(* Whatever any number of requests, the administrator and a restart do to  *)
(* a fill, a body whose end was announced is served whole, and whoever     *)
(* waits for a fill is led by a request that does not wait for one itself. *)
LEMMA ImageInvImplies == ImageInv => ServedWhole /\ WaitersAreLed
<1>. SUFFICES ASSUME ImageInv  PROVE ServedWhole /\ WaitersAreLed
  OBVIOUS
<1>1. ServedWhole
  BY DEF ImageInv, BodyOK
<1>2. ASSUME NEW r \in ImageRequests, icFetch[r].phase = "wait"
      PROVE  LET leader == icFetch[r].leader
             IN  /\ leader \in icFills[icFetch[r].cache]
                 /\ icFetch[leader].phase \notin {"done", "wait"}
                 /\ \A l \in ImageObjects : ~HasSlot(r, l)
  <2>. DEFINE leader == icFetch[r].leader
  <2>1. leader \in icFills[icFetch[r].cache]
    BY <1>2 DEF ImageInv, FetchInv, WaitsOK
  <2>2. icFetch[r].cache \in ImageObjects /\ leader \in ImageRequests
    BY <1>2, BusyFacts DEF ImageInv, FetchInv, ImageTypeOK
  <2>3. icFetch[leader].phase \notin {"done", "wait"}
    BY <2>1, <2>2, LeaderFacts DEF ImageInv
  <2>4. \A l \in ImageObjects : ~HasSlot(r, l)
    BY <1>2 DEF HasSlot
  <2>. QED  BY <2>1, <2>3, <2>4
<1>. QED  BY <1>1, <1>2 DEF WaitersAreLed

(* Of an image whose end the upstream announced, the cache serves the      *)
(* whole: no write that fails, body that breaks off, client that leaves,   *)
(* clearing, change of the settings or restart leaves a part of it on disk *)
(* for the next request, because a copy commits only at the end of the     *)
(* body and only if every chunk it read was written.                       *)
THEOREM ServesWholeBodies == ImageSpec => []ServedWhole
<1>1. ImageInv /\ [ImageNext]_imageVars => ImageInv'
  BY ImageStep
<1>2. ImageSpec => []ImageInv
  BY InitImage, <1>1, PTL DEF ImageSpec
<1>. QED  BY <1>2, ImageInvImplies, PTL

(* No request waits for a fill that nobody leads or that is led by one who *)
(* waits: every way out of a fill tells those who wait for it.             *)
THEOREM WaitersHaveALeader == ImageSpec => []WaitersAreLed
<1>1. ImageInv /\ [ImageNext]_imageVars => ImageInv'
  BY ImageStep
<1>2. ImageSpec => []ImageInv
  BY InitImage, <1>1, PTL DEF ImageSpec
<1>. QED  BY <1>2, ImageInvImplies, PTL

-----------------------------------------------------------------------------
(* LineRouting: a failure is earned, and the active line left for a reason *)

WalkFields == {"kind", "phase", "list", "from", "left", "form", "tried", "pass", "since"}
WalkPhases == {"ended", "order", "line", "throttle", "starts", "sent", "failed"}
WalkingPhases == {"line", "throttle", "starts", "sent", "failed"}
SendingPhases == {"throttle", "starts", "sent"}

(* A line failed an attempt no longer ago than a ban lasts.                *)
Spent(failed, l, since) == failed[l] >= since - BanTime

(* Every line of the list is still to come or spent.  The one the walk     *)
(* started from comes next as long as it is not spent.                     *)
Covers(walk, failed) ==
    /\ \A i \in DOMAIN walk.list :
           \/ \E j \in DOMAIN walk.left : walk.left[j] = walk.list[i]
           \/ Spent(failed, walk.list[i], walk.since)
    /\ walk.left # <<>> => walk.left[1] = walk.from \/ Spent(failed, walk.from, walk.since)

WalkOK(walk, now, failed) ==
    /\ DOMAIN walk = WalkFields /\ walk.phase \in WalkPhases
    /\ walk.phase # "ended" =>
           walk.list \in Lists /\ walk.since \in Int /\ walk.since <= now
    /\ walk.phase \in WalkingPhases =>
           /\ Configured(walk.from, walk.list)
           /\ walk.left \in Seq(Lines)
           /\ Covers(walk, failed)
    /\ walk.phase \in SendingPhases => walk.left # <<>>
    /\ walk.phase = "failed" => walk.left = <<>> /\ walk.tried > 0

(* A ban is of a failure.                                                  *)
BansOK ==
    /\ lrNow \in Int /\ lrNow >= 0
    /\ lrBans \in [Lines -> Int] /\ lrFailedAt \in [Lines -> Int]
    /\ \A l \in Lines : lrBans[l] <= lrFailedAt[l] + BanTime /\ lrFailedAt[l] <= lrNow

(* The first walk of a node gives it an active line, for good.             *)
ActiveOK ==
    /\ lrTargets \in Lists /\ lrActive \in Lines \cup {NoLine}
    /\ \A r \in LineRequests :
           lrWalk[r].phase \in WalkingPhases => lrActive # NoLine

LineInv ==
    /\ DOMAIN lrWalk = LineRequests
    /\ \A r \in LineRequests : WalkOK(lrWalk[r], lrNow, lrFailedAt)
    /\ BansOK /\ ActiveOK

(* A list of the node has a line, and lines only.                          *)
LEMMA ListFacts ==
  ASSUME NEW list \in Lists
  PROVE  /\ list \in Seq(Lines) /\ list # <<>>
         /\ Len(list) \in Nat /\ Len(list) >= 1 /\ DOMAIN list = 1..Len(list)
         /\ list[1] \in Lines /\ Configured(list[1], list)
         /\ \A l : Configured(l, list) => l \in Lines
<1>1. list \in Seq(Lines) \ {<<>>}
  <2>1. PICK i \in DOMAIN TargetLists : list = TargetLists[i]
    BY DEF Lists
  <2>2. TargetLists \in Seq(Seq(Lines) \ {<<>>})
    BY LinesAssumption
  <2>. QED  BY <2>1, <2>2
<1>2. /\ Len(list) \in Nat /\ Len(list) >= 1 /\ DOMAIN list = 1..Len(list)
      /\ \A i \in DOMAIN list : list[i] \in Lines
  BY <1>1
<1>3. 1 \in DOMAIN list
  BY <1>2
<1>. QED  BY <1>1, <1>2, <1>3 DEF Configured

(* targetOrder starts with the active line and leaves no line out.         *)
LEMMA TurnedList ==
  ASSUME NEW list \in Lists, NEW active, Configured(active, list)
  PROVE  /\ Ordered(list, active) \in Seq(Lines) /\ Ordered(list, active) # <<>>
         /\ Ordered(list, active)[1] = active
         /\ \A i \in DOMAIN list :
               \E j \in DOMAIN Ordered(list, active) : Ordered(list, active)[j] = list[i]
<1>. DEFINE k == CHOOSE i \in DOMAIN list : list[i] = active
            n == Len(list)
            e == k - 1
            front == SubSeq(list, k, n)
            back == SubSeq(list, 1, e)
            turned == front \o back
<1>1. /\ list \in Seq(Lines) /\ n \in Nat /\ n >= 1 /\ DOMAIN list = 1..n
      /\ \A i \in 1..n : list[i] \in Lines
  BY ListFacts
<1>2. k \in DOMAIN list /\ list[k] = active
  BY DEF Configured
<1>3. k \in Int /\ k >= 1 /\ k <= n /\ e \in Int /\ e = k - 1
  BY <1>1, <1>2
<1>4. Ordered(list, active) = turned
  BY DEF Ordered
<1>. HIDE DEF k, n, e
<1>5. /\ front \in Seq(Lines) /\ Len(front) = n - k + 1
      /\ \A i \in 1..n - k + 1 : front[i] = list[k + i - 1]
  <2>1. \A i \in k..n : list[i] \in Lines
    BY <1>1, <1>3
  <2>2. front \in Seq(Lines) /\ Len(front) = IF k <= n THEN n - k + 1 ELSE 0
    BY <1>1, <1>3, <2>1, SubSeqProperties
  <2>3. \A i \in 1..n - k + 1 : front[i] = list[k + i - 1]
    BY <1>1, <1>3, <2>1, SubSeqProperties
  <2>. QED  BY <1>3, <2>2, <2>3
<1>6. /\ back \in Seq(Lines) /\ Len(back) = e
      /\ \A i \in 1..e : back[i] = list[i]
  <2>1. \A i \in 1..e : list[i] \in Lines
    BY <1>1, <1>3
  <2>2. back \in Seq(Lines) /\ Len(back) = IF 1 <= e THEN e - 1 + 1 ELSE 0
    BY <1>1, <1>3, <2>1, SubSeqProperties
  <2>3. \A i \in 1..e - 1 + 1 : back[i] = list[1 + i - 1]
    BY <1>1, <1>3, <2>1, SubSeqProperties
  <2>4. \A i \in 1..e : back[i] = list[i]
    <3>. TAKE i \in 1..e
    <3>1. i \in 1..e - 1 + 1 /\ 1 + i - 1 = i
      BY <1>3
    <3>. QED  BY <2>3, <3>1
  <2>. QED  BY <1>3, <2>2, <2>4
<1>. DEFINE m == Len(front)
<1>7. m = n - k + 1 /\ m \in Nat /\ m >= 1
  BY <1>1, <1>3, <1>5
<1>8. /\ turned \in Seq(Lines) /\ Len(turned) = m + e
      /\ \A i \in 1..m + e : turned[i] = IF i <= m THEN front[i] ELSE back[i - m]
  <2>1. front \in Seq(Lines) /\ back \in Seq(Lines) /\ Len(back) = e
    BY <1>5, <1>6
  <2>. HIDE DEF front, back
  <2>2. /\ turned \in Seq(Lines) /\ Len(turned) = Len(front) + Len(back)
        /\ \A i \in 1..Len(front) + Len(back) :
              turned[i] = IF i <= Len(front) THEN front[i] ELSE back[i - Len(front)]
    BY <2>1, ConcatProperties, Zenon
  <2>. QED  BY <2>1, <2>2
<1>. HIDE DEF front, back, turned, m
<1>9. DOMAIN turned = 1..m + e /\ turned # <<>>
  BY <1>3, <1>7, <1>8
<1>10. turned[1] = active
  <2>1. 1 \in 1..m + e /\ 1 \in 1..n - k + 1 /\ k + 1 - 1 = k
    BY <1>1, <1>3, <1>7
  <2>2. turned[1] = front[1]
    BY <1>7, <1>8, <2>1
  <2>3. front[1] = list[k + 1 - 1]
    BY <1>5, <2>1
  <2>. QED  BY <1>2, <2>1, <2>2, <2>3
<1>11. ASSUME NEW i \in DOMAIN list
       PROVE  \E j \in DOMAIN turned : turned[j] = list[i]
  <2>1. i \in 1..n
    BY <1>1
  <2>2. CASE i >= k
    <3>. DEFINE j == i - k + 1
    <3>1. j \in 1..m /\ j \in 1..n - k + 1 /\ k + j - 1 = i /\ j \in 1..m + e
      BY <1>1, <1>3, <1>7, <2>1, <2>2
    <3>. HIDE DEF j
    <3>2. turned[j] = front[j]
      BY <1>8, <3>1
    <3>3. front[j] = list[i]
      BY <1>5, <3>1
    <3>. QED  BY <1>9, <3>1, <3>2, <3>3
  <2>3. CASE i < k
    <3>. DEFINE j == m + i
    <3>1. j \in 1..m + e /\ ~(j <= m) /\ j - m = i /\ i \in 1..e
      BY <1>1, <1>3, <1>7, <2>1, <2>3
    <3>. HIDE DEF j
    <3>2. turned[j] = back[i]
      BY <1>8, <3>1
    <3>. QED  BY <1>6, <1>9, <3>1, <3>2
  <2>. QED  BY <1>1, <1>3, <2>1, <2>2, <2>3
<1>. QED  BY <1>4, <1>8, <1>9, <1>10, <1>11

(* What a walk has covered stays covered while time goes on and lines fail.*)
LEMMA WalkStays ==
  ASSUME NEW now \in Int, NEW later \in Int, now <= later,
         NEW failed \in [Lines -> Int], NEW failedLater \in [Lines -> Int],
         \A l \in Lines : failed[l] <= failedLater[l],
         NEW walk, WalkOK(walk, now, failed)
  PROVE  WalkOK(walk, later, failedLater)
<1>1. walk.phase # "ended" =>
          walk.list \in Lists /\ walk.since \in Int /\ walk.since <= later
  BY DEF WalkOK
<1>2. ASSUME walk.phase \in WalkingPhases  PROVE Covers(walk, failedLater)
  <2>1. walk.list \in Lists /\ walk.since \in Int /\ Configured(walk.from, walk.list)
        /\ Covers(walk, failed)
    BY <1>2 DEF WalkOK, WalkingPhases
  <2>2. ASSUME NEW l \in Lines, Spent(failed, l, walk.since)
        PROVE  Spent(failedLater, l, walk.since)
    <3>1. failed[l] \in Int /\ failedLater[l] \in Int /\ failed[l] <= failedLater[l]
      OBVIOUS
    <3>. QED  BY <2>1, <2>2, <3>1, LinesAssumption DEF Spent
  <2>3. walk.from \in Lines
    BY <2>1, ListFacts
  <2>4. \A i \in DOMAIN walk.list : walk.list[i] \in Lines
    BY <2>1, ListFacts DEF Configured
  <2>. QED  BY <2>1, <2>2, <2>3, <2>4 DEF Covers
<1>. QED  BY <1>1, <1>2 DEF WalkOK

(* A walk that is none is over.                                            *)
LEMMA NoWalkOK ==
  ASSUME NEW now, NEW failed
  PROVE  WalkOK(NoWalk, now, failed) /\ NoWalk.phase = "ended"
BY DEF WalkOK, NoWalk, WalkFields, WalkPhases, WalkingPhases, SendingPhases

(* A walk goes on with the lines it has left.                              *)
LEMMA WalkGoesOn ==
  ASSUME NEW now, NEW failed, NEW walk, WalkOK(walk, now, failed),
         walk.phase \in WalkingPhases,
         NEW next, DOMAIN next = WalkFields, next.phase \in WalkingPhases,
         next.list = walk.list, next.from = walk.from, next.left = walk.left,
         next.since = walk.since,
         next.phase \in SendingPhases => walk.left # <<>>,
         next.phase = "failed" => walk.left = <<>> /\ next.tried > 0
  PROVE  WalkOK(next, now, failed)
BY DEF WalkOK, Covers, WalkPhases, WalkingPhases

(* A walk leaves the first line it has left, which is spent.               *)
LEMMA WalkPassesLine ==
  ASSUME NEW now, NEW failed, NEW walk, WalkOK(walk, now, failed),
         walk.phase \in WalkingPhases, walk.left # <<>>,
         Spent(failed, Head(walk.left), walk.since),
         NEW next, DOMAIN next = WalkFields, next.phase = "line",
         next.list = walk.list, next.from = walk.from, next.left = Tail(walk.left),
         next.since = walk.since
  PROVE  WalkOK(next, now, failed)
<1>1. /\ walk.left \in Seq(Lines) /\ Covers(walk, failed)
      /\ walk.list \in Lists /\ walk.since \in Int /\ walk.since <= now
      /\ Configured(walk.from, walk.list)
  BY DEF WalkOK, WalkingPhases
<1>2. /\ Len(walk.left) \in Nat /\ Len(walk.left) >= 1
      /\ DOMAIN walk.left = 1..Len(walk.left) /\ Head(walk.left) = walk.left[1]
  BY <1>1
<1>3. /\ next.left \in Seq(Lines) /\ Len(next.left) = Len(walk.left) - 1
      /\ \A i \in 1..Len(next.left) : next.left[i] = walk.left[i + 1]
      /\ DOMAIN next.left = 1..Len(next.left)
  BY <1>1, HeadTailProperties
<1>4. ASSUME NEW i \in DOMAIN walk.list
      PROVE  \/ \E j \in DOMAIN next.left : next.left[j] = walk.list[i]
             \/ Spent(failed, walk.list[i], walk.since)
  <2>1. CASE Spent(failed, walk.list[i], walk.since)
    BY <2>1
  <2>2. ASSUME NEW j \in DOMAIN walk.left, walk.left[j] = walk.list[i]
        PROVE  \/ \E h \in DOMAIN next.left : next.left[h] = walk.list[i]
               \/ Spent(failed, walk.list[i], walk.since)
    <3>1. CASE j = 1
      BY <1>2, <2>2, <3>1
    <3>2. CASE j # 1
      <4>. DEFINE h == j - 1
      <4>1. h \in 1..Len(next.left) /\ h + 1 = j
        BY <1>2, <1>3, <3>2
      <4>. HIDE DEF h
      <4>2. next.left[h] = walk.list[i]
        BY <1>3, <2>2, <4>1
      <4>. QED  BY <1>3, <4>1, <4>2
    <3>. QED  BY <3>1, <3>2
  <2>. QED  BY <1>1, <2>1, <2>2 DEF Covers
<1>5. Spent(failed, walk.from, walk.since)
  BY <1>1, <1>2 DEF Covers
<1>6. Covers(next, failed)
  BY <1>4, <1>5 DEF Covers
<1>. QED  BY <1>1, <1>3, <1>6 DEF WalkOK, WalkPhases, WalkingPhases, SendingPhases

(* At first no request is on its way and no line has failed.               *)
LEMMA InitLine == LineInit => LineInv
<1>. SUFFICES ASSUME LineInit  PROVE LineInv
  OBVIOUS
<1>1. BansOK
  BY LinesAssumption DEF LineInit, BansOK, Never
<1>2. lrTargets \in Lists
  <2>1. 1 \in DOMAIN TargetLists
    BY LinesAssumption
  <2>. QED  BY <2>1 DEF LineInit, Lists
<1>3. \A r \in LineRequests : lrWalk[r] = NoWalk
  BY DEF LineInit
<1>4. \A r \in LineRequests : WalkOK(lrWalk[r], lrNow, lrFailedAt) /\ lrWalk[r].phase = "ended"
  BY <1>3, NoWalkOK
<1>5. ActiveOK
  BY <1>2, <1>4 DEF LineInit, ActiveOK, WalkingPhases
<1>. QED  BY <1>1, <1>4, <1>5 DEF LineInit, LineInv

(* What the other walks have covered, a step of this one leaves covered.   *)
LEMMA OneWalks ==
  ASSUME LineInv, NEW r \in LineRequests, NEW next, Walks(r, next),
         UNCHANGED <<lrNow, lrTargets>>, BansOK',
         \A l \in Lines : lrFailedAt[l] <= lrFailedAt'[l],
         WalkOK(next, lrNow, lrFailedAt'),
         lrActive' \in Lines \/ lrActive' = lrActive,
         lrActive' \in Lines \/ (next.phase \in WalkingPhases => lrWalk[r].phase \in WalkingPhases)
  PROVE  LineInv'
<1>1. /\ DOMAIN lrWalk' = LineRequests /\ lrWalk'[r] = next
      /\ \A q \in LineRequests : q # r => lrWalk'[q] = lrWalk[q]
  BY DEF LineInv, Walks
<1>2. ASSUME NEW q \in LineRequests  PROVE WalkOK(lrWalk'[q], lrNow', lrFailedAt')
  <2>1. CASE q = r
    BY <1>1, <2>1
  <2>2. CASE q # r
    <3>1. /\ lrNow \in Int /\ lrFailedAt \in [Lines -> Int] /\ lrFailedAt' \in [Lines -> Int]
          /\ WalkOK(lrWalk[q], lrNow, lrFailedAt)
      BY DEF LineInv, BansOK
    <3>2. WalkOK(lrWalk[q], lrNow, lrFailedAt')
      BY <3>1, WalkStays
    <3>. QED  BY <1>1, <2>2, <3>2
  <2>. QED  BY <2>1, <2>2
<1>3. ActiveOK'
  <2>1. lrTargets' \in Lists /\ lrActive' \in Lines \cup {NoLine}
    BY DEF LineInv, ActiveOK
  <2>2. ASSUME NEW q \in LineRequests, lrWalk'[q].phase \in WalkingPhases
        PROVE  lrActive' # NoLine
    <3>1. CASE lrActive' \in Lines
      BY <3>1, LinesAssumption
    <3>2. CASE lrActive' \notin Lines
      BY <1>1, <2>2, <3>2 DEF LineInv, ActiveOK
    <3>. QED  BY <3>1, <3>2
  <2>. QED  BY <2>1, <2>2 DEF ActiveOK
<1>. QED  BY <1>1, <1>2, <1>3 DEF LineInv

(* A step that fails no line.                                              *)
LEMMA OneGoes ==
  ASSUME LineInv, NEW r \in LineRequests, NEW next, Walks(r, next),
         UNCHANGED <<lrNow, lrTargets, lrBans, lrFailedAt>>,
         WalkOK(next, lrNow, lrFailedAt),
         lrActive' \in Lines \/ lrActive' = lrActive,
         lrActive' \in Lines \/ (next.phase \in WalkingPhases => lrWalk[r].phase \in WalkingPhases)
  PROVE  LineInv'
<1>1. BansOK'
  BY DEF LineInv, BansOK
<1>2. \A l \in Lines : lrFailedAt[l] <= lrFailedAt'[l]
  BY DEF LineInv, BansOK
<1>. QED  BY <1>1, <1>2, OneWalks

(* What is known of a walk under way.                                      *)
LEMMA WalkingFacts ==
  ASSUME LineInv, NEW r \in LineRequests, lrWalk[r].phase \in WalkingPhases
  PROVE  /\ WalkOK(lrWalk[r], lrNow, lrFailedAt) /\ DOMAIN lrWalk[r] = WalkFields
         /\ lrWalk[r].list \in Lists /\ lrWalk[r].left \in Seq(Lines)
         /\ lrWalk[r].since \in Int /\ lrWalk[r].since <= lrNow
         /\ Configured(lrWalk[r].from, lrWalk[r].list) /\ lrWalk[r].from \in Lines
         /\ Covers(lrWalk[r], lrFailedAt)
         /\ lrActive \in Lines
<1>1. WalkOK(lrWalk[r], lrNow, lrFailedAt)
  BY DEF LineInv
<1>2. /\ lrWalk[r].list \in Lists /\ Configured(lrWalk[r].from, lrWalk[r].list)
      /\ lrWalk[r].since \in Int /\ lrWalk[r].since <= lrNow
      /\ lrWalk[r].left \in Seq(Lines) /\ Covers(lrWalk[r], lrFailedAt)
      /\ DOMAIN lrWalk[r] = WalkFields
  BY <1>1 DEF WalkOK, WalkingPhases
<1>3. lrWalk[r].from \in Lines
  BY <1>2, ListFacts
<1>4. lrActive \in Lines
  BY DEF LineInv, ActiveOK
<1>. QED  BY <1>1, <1>2, <1>3, <1>4

(* The next line of a walk that has one is a line.                         *)
LEMMA FirstLineFacts ==
  ASSUME LineInv, NEW r \in LineRequests, lrWalk[r].phase \in WalkingPhases,
         lrWalk[r].left # <<>>
  PROVE  FirstLine(r) \in Lines /\ FirstLine(r) = lrWalk[r].left[1]
<1>1. lrWalk[r].left \in Seq(Lines)
  BY WalkingFacts
<1>. QED  BY <1>1 DEF FirstLine

(* While it is sent, a request has a line.                                 *)
LEMMA SendingFacts ==
  ASSUME LineInv, NEW r \in LineRequests, lrWalk[r].phase \in SendingPhases
  PROVE  /\ lrWalk[r].phase \in WalkingPhases /\ lrWalk[r].left # <<>>
         /\ FirstLine(r) \in Lines /\ FirstLine(r) = lrWalk[r].left[1]
<1>1. lrWalk[r].phase \in WalkingPhases
  BY DEF WalkingPhases, SendingPhases
<1>2. lrWalk[r].left # <<>>
  BY DEF LineInv, WalkOK
<1>. QED  BY <1>1, <1>2, FirstLineFacts

(* A request arrives with the list of the moment.                          *)
LEMMA LineArrivesStep ==
  ASSUME LineInv, NEW r \in LineRequests, NEW kind, LineArrives(r, kind)
  PROVE  LineInv'
<1>. DEFINE next == [NoWalk EXCEPT !.kind = kind, !.phase = "order", !.list = lrTargets,
                                   !.since = lrNow]
<1>1. Walks(r, next)
      /\ UNCHANGED <<lrNow, lrTargets, lrActive, lrBans, lrThrottle, lrUp, lrFailedAt>>
  BY DEF LineArrives
<1>2. /\ DOMAIN next = WalkFields /\ next.phase = "order" /\ next.list = lrTargets
      /\ next.since = lrNow
  BY DEF NoWalk, WalkFields
<1>. HIDE DEF next
<1>3. WalkOK(next, lrNow, lrFailedAt) /\ next.phase \notin WalkingPhases
  BY <1>2 DEF WalkOK, LineInv, ActiveOK, BansOK, WalkPhases, WalkingPhases, SendingPhases
<1>. QED  BY <1>1, <1>3, OneGoes

(* The walk begins with all the lines, the active one first.               *)
LEMMA TakesOrderStep ==
  ASSUME LineInv, NEW r \in LineRequests, TakesOrder(r)
  PROVE  LineInv'
<1>. DEFINE walk == lrWalk[r]
            list == walk.list
            active == ActiveOf(list)
            turned == Ordered(list, active)
            next == [walk EXCEPT !.phase = "line", !.from = active, !.left = turned, !.pass = 1]
<1>1. /\ walk.phase = "order" /\ lrActive' = active /\ Walks(r, next)
      /\ UNCHANGED <<lrNow, lrTargets, lrBans, lrThrottle, lrUp, lrFailedAt>>
  BY DEF TakesOrder, WalkAt
<1>2. DOMAIN walk = WalkFields /\ list \in Lists /\ walk.since \in Int /\ walk.since <= lrNow
  BY <1>1 DEF LineInv, WalkOK
<1>3. Configured(active, list) /\ active \in Lines
  BY <1>2, ListFacts DEF ActiveOf
<1>4. /\ turned \in Seq(Lines) /\ turned # <<>> /\ turned[1] = active
      /\ \A i \in DOMAIN list : \E j \in DOMAIN turned : turned[j] = list[i]
  BY <1>2, <1>3, TurnedList
<1>. HIDE DEF turned, active
<1>5. /\ DOMAIN next = WalkFields /\ next.phase = "line" /\ next.list = list
      /\ next.from = active /\ next.left = turned /\ next.since = walk.since
  BY <1>2 DEF WalkFields
<1>. HIDE DEF next
<1>6. Covers(next, lrFailedAt)
  BY <1>4, <1>5 DEF Covers
<1>7. WalkOK(next, lrNow, lrFailedAt)
  BY <1>2, <1>3, <1>4, <1>5, <1>6 DEF WalkOK, WalkPhases, WalkingPhases, SendingPhases
<1>. QED  BY <1>1, <1>3, <1>7, OneGoes

(* A banned line is spent for a walk under way.                            *)
LEMMA BannedIsSpent ==
  ASSUME LineInv, NEW l \in Lines, Banned(l), NEW since \in Int, since <= lrNow
  PROVE  Spent(lrFailedAt, l, since)
<1>1. /\ lrNow \in Int /\ lrBans[l] \in Int /\ lrFailedAt[l] \in Int
      /\ lrBans[l] <= lrFailedAt[l] + BanTime /\ BanTime \in Int
  BY LinesAssumption DEF LineInv, BansOK
<1>2. lrNow <= lrBans[l]
  BY DEF Banned, Lives
<1>. QED  BY <1>1, <1>2 DEF Spent

(* The loops: a line is passed over, sent to, or there is none left.       *)
LEMMA NextLineStep ==
  ASSUME LineInv, NEW r \in LineRequests, NextLine(r)
  PROVE  LineInv'
<1>. DEFINE walk == lrWalk[r]
<1>1. /\ walk.phase = "line" /\ walk.phase \in WalkingPhases
      /\ UNCHANGED <<lrNow, lrTargets, lrActive, lrBans, lrThrottle, lrUp, lrFailedAt>>
  BY DEF NextLine, WalkAt, WalkingPhases
<1>2. /\ WalkOK(walk, lrNow, lrFailedAt) /\ DOMAIN walk = WalkFields
      /\ walk.list \in Lists /\ walk.since \in Int /\ walk.since <= lrNow
      /\ walk.left \in Seq(Lines)
      /\ Configured(walk.from, walk.list) /\ Covers(walk, lrFailedAt) /\ lrActive \in Lines
  BY <1>1, WalkingFacts
<1>3. ASSUME walk.left # <<>>, PassesOver(walk, FirstLine(r)),
             Walks(r, [walk EXCEPT !.left = Tail(@)])
      PROVE  LineInv'
  <2>. DEFINE next == [walk EXCEPT !.left = Tail(walk.left)]
  <2>1. FirstLine(r) \in Lines
    BY <1>1, <1>3, FirstLineFacts
  <2>2. Spent(lrFailedAt, FirstLine(r), walk.since)
    BY <1>2, <1>3, <2>1, BannedIsSpent DEF PassesOver
  <2>3. Walks(r, next)
    BY <1>3
  <2>4. /\ DOMAIN next = WalkFields /\ next.phase = "line" /\ next.list = walk.list
        /\ next.from = walk.from /\ next.left = Tail(walk.left) /\ next.since = walk.since
    BY <1>1, <1>2 DEF WalkFields
  <2>. HIDE DEF next
  <2>5. WalkOK(next, lrNow, lrFailedAt)
    BY <1>1, <1>2, <1>3, <2>2, <2>4, WalkPassesLine DEF FirstLine
  <2>. QED  BY <1>1, <2>3, <2>5, OneGoes
<1>4. ASSUME walk.left # <<>>,
             Walks(r, [walk EXCEPT !.phase = Starts(walk.kind), !.tried = @ + 1, !.form = 1])
      PROVE  LineInv'
  <2>. DEFINE next == [walk EXCEPT !.phase = Starts(walk.kind), !.tried = walk.tried + 1,
                                   !.form = 1]
  <2>1. Walks(r, next)
    BY <1>4
  <2>2. Starts(walk.kind) \in SendingPhases
    BY DEF Starts, SendingPhases
  <2>3. /\ DOMAIN next = WalkFields /\ next.phase \in SendingPhases /\ next.list = walk.list
        /\ next.from = walk.from /\ next.left = walk.left /\ next.since = walk.since
    BY <1>2, <2>2 DEF WalkFields
  <2>. HIDE DEF next
  <2>4. next.phase \in WalkingPhases /\ next.phase # "failed"
    BY <2>3 DEF SendingPhases, WalkingPhases
  <2>5. WalkOK(next, lrNow, lrFailedAt)
    BY <1>1, <1>2, <1>4, <2>3, <2>4, WalkGoesOn
  <2>. QED  BY <1>1, <2>1, <2>5, OneGoes
<1>5. ASSUME walk.left = <<>>, walk.tried > 0, Walks(r, [walk EXCEPT !.phase = "failed"])
      PROVE  LineInv'
  <2>. DEFINE next == [walk EXCEPT !.phase = "failed"]
  <2>1. /\ DOMAIN next = WalkFields /\ next.phase = "failed" /\ next.list = walk.list
        /\ next.from = walk.from /\ next.left = walk.left /\ next.since = walk.since
        /\ next.tried = walk.tried
    BY <1>2 DEF WalkFields
  <2>2. Walks(r, next)
    BY <1>5
  <2>. HIDE DEF next
  <2>3. WalkOK(next, lrNow, lrFailedAt)
    BY <1>1, <1>2, <1>5, <2>1, WalkGoesOn DEF SendingPhases, WalkingPhases
  <2>. QED  BY <1>1, <2>2, <2>3, OneGoes
<1>6. ASSUME walk.left = <<>>, NEW left, left \in Seq(Lines),
             Walks(r, [walk EXCEPT !.pass = 2, !.left = left])
      PROVE  LineInv'
  <2>. DEFINE next == [walk EXCEPT !.pass = 2, !.left = left]
  <2>1. /\ DOMAIN next = WalkFields /\ next.phase = "line" /\ next.list = walk.list
        /\ next.from = walk.from /\ next.left = left /\ next.since = walk.since
    BY <1>1, <1>2 DEF WalkFields
  <2>2. Walks(r, next)
    BY <1>6
  <2>. HIDE DEF next
  <2>3. \A i \in DOMAIN walk.list : Spent(lrFailedAt, walk.list[i], walk.since)
    <3>1. DOMAIN walk.left = {}
      BY <1>6
    <3>. QED  BY <1>2, <3>1 DEF Covers
  <2>4. Spent(lrFailedAt, walk.from, walk.since)
    BY <1>2, <2>3 DEF Configured
  <2>5. Covers(next, lrFailedAt)
    BY <2>1, <2>3, <2>4 DEF Covers
  <2>6. WalkOK(next, lrNow, lrFailedAt)
    BY <1>2, <1>6, <2>1, <2>5 DEF WalkOK, WalkPhases, WalkingPhases, SendingPhases
  <2>. QED  BY <1>1, <2>2, <2>6, OneGoes
<1>7. CASE /\ walk.left = <<>> /\ walk.tried = 0
           /\ LET again == Ordered(walk.list, walk.from)
              IN  Walks(r, [walk EXCEPT !.pass = 2,
                  !.left = IF walk.kind = "socket" THEN <<again[1]>> ELSE again])
  <2>. DEFINE again == Ordered(walk.list, walk.from)
              left == IF walk.kind = "socket" THEN <<again[1]>> ELSE again
  <2>1. again \in Seq(Lines) /\ again[1] \in Lines
    BY <1>2, TurnedList, ListFacts
  <2>2. left \in Seq(Lines)
    BY <2>1
  <2>. QED  BY <1>6, <1>7, <2>2
<1>. QED  BY <1>3, <1>4, <1>5, <1>7 DEF NextLine

(* An answer of a line ends the walk; the active line stays a line.        *)
LEMMA SucceedsStep ==
  ASSUME LineInv, NEW r \in LineRequests, lrWalk[r].phase \in SendingPhases, Succeeds(r),
         UNCHANGED <<lrNow, lrTargets, lrBans, lrFailedAt>>
  PROVE  LineInv'
<1>1. FirstLine(r) \in Lines /\ lrActive \in Lines
  BY SendingFacts, WalkingFacts
<1>2. lrActive' \in Lines /\ Walks(r, NoWalk)
  BY <1>1 DEF Succeeds, HealthyActive
<1>. QED  BY <1>2, NoWalkOK, OneGoes

(* A failure is noted, the line perhaps banned, and the walk goes on.      *)
LEMMA FailsStep ==
  ASSUME LineInv, NEW r \in LineRequests, lrWalk[r].phase \in SendingPhases, Fails(r),
         UNCHANGED <<lrNow, lrTargets, lrActive>>
  PROVE  LineInv'
<1>. DEFINE walk == lrWalk[r]
            l == FirstLine(r)
            next == [walk EXCEPT !.phase = "line", !.left = Tail(walk.left), !.form = 0]
<1>1. walk.phase \in WalkingPhases /\ walk.left # <<>> /\ l \in Lines /\ l = Head(walk.left)
  BY SendingFacts DEF FirstLine
<1>2. /\ WalkOK(walk, lrNow, lrFailedAt) /\ DOMAIN walk = WalkFields
      /\ walk.since \in Int /\ walk.since <= lrNow /\ lrActive \in Lines
  BY <1>1, WalkingFacts
<1>3. /\ lrFailedAt' = [lrFailedAt EXCEPT ![l] = lrNow]
      /\ Walks(r, next)
      /\ \/ \E end \in EntersTable(lrBans[l], BanTime) : lrBans' = [lrBans EXCEPT ![l] = end]
         \/ UNCHANGED lrBans
  BY DEF Fails
<1>4. /\ lrNow \in Int /\ lrNow >= 0 /\ BanTime \in Nat
      /\ lrBans \in [Lines -> Int] /\ lrFailedAt \in [Lines -> Int]
      /\ \A k \in Lines : lrBans[k] <= lrFailedAt[k] + BanTime /\ lrFailedAt[k] <= lrNow
  BY LinesAssumption DEF LineInv, BansOK
<1>5. /\ DOMAIN next = WalkFields /\ next.phase = "line" /\ next.list = walk.list
      /\ next.from = walk.from /\ next.left = Tail(walk.left) /\ next.since = walk.since
  BY <1>2 DEF WalkFields
<1>. HIDE DEF l, next
<1>6. /\ lrFailedAt' \in [Lines -> Int] /\ lrFailedAt'[l] = lrNow
      /\ \A k \in Lines : lrFailedAt[k] <= lrFailedAt'[k] /\ lrFailedAt'[k] <= lrNow
  BY <1>1, <1>3, <1>4
<1>7. BansOK'
  <2>1. CASE UNCHANGED lrBans
    <3>1. ASSUME NEW k \in Lines  PROVE lrBans[k] <= lrFailedAt'[k] + BanTime
      <4>1. /\ lrBans[k] \in Int /\ lrFailedAt[k] \in Int /\ lrFailedAt'[k] \in Int
            /\ lrBans[k] <= lrFailedAt[k] + BanTime /\ lrFailedAt[k] <= lrFailedAt'[k]
        BY <1>4, <1>6
      <4>. QED  BY <1>4, <4>1
    <3>. QED  BY <1>4, <1>6, <2>1, <3>1 DEF BansOK
  <2>2. ASSUME NEW end \in EntersTable(lrBans[l], BanTime),
               lrBans' = [lrBans EXCEPT ![l] = end]
        PROVE  BansOK'
    <3>1. end = lrNow + BanTime \/ end = lrBans[l]
      BY <2>2 DEF EntersTable
    <3>2. lrBans[l] \in Int /\ lrFailedAt[l] \in Int /\ lrBans[l] <= lrFailedAt[l] + BanTime
          /\ lrFailedAt[l] <= lrNow
      BY <1>1, <1>4
    <3>3. end \in Int /\ end <= lrNow + BanTime
      BY <1>4, <3>1, <3>2
    <3>4. lrBans' \in [Lines -> Int] /\ lrBans'[l] = end
          /\ \A k \in Lines : k # l => lrBans'[k] = lrBans[k]
      BY <1>1, <1>4, <2>2, <3>3
    <3>5. ASSUME NEW k \in Lines  PROVE lrBans'[k] <= lrFailedAt'[k] + BanTime
      <4>1. /\ lrBans[k] \in Int /\ lrFailedAt[k] \in Int /\ lrFailedAt'[k] \in Int
            /\ lrBans[k] <= lrFailedAt[k] + BanTime /\ lrFailedAt[k] <= lrFailedAt'[k]
        BY <1>4, <1>6
      <4>2. CASE k = l
        BY <1>6, <3>3, <3>4, <4>2
      <4>3. CASE k # l
        BY <1>4, <3>4, <4>1, <4>3
      <4>. QED  BY <4>2, <4>3
    <3>. QED  BY <1>4, <1>6, <3>4, <3>5 DEF BansOK
  <2>. QED  BY <1>3, <2>1, <2>2
<1>8. WalkOK(walk, lrNow, lrFailedAt')
  BY <1>2, <1>4, <1>6, WalkStays
<1>9. Spent(lrFailedAt', l, walk.since)
  BY <1>2, <1>4, <1>6 DEF Spent
<1>10. WalkOK(next, lrNow, lrFailedAt')
  BY <1>1, <1>5, <1>8, <1>9, WalkPassesLine
<1>. QED  BY <1>2, <1>3, <1>6, <1>7, <1>10, OneWalks

(* A report waits for the throttle and passes it.                          *)
LEMMA ThrottleSteps ==
  ASSUME LineInv, NEW r \in LineRequests, PassesThrottle(r) \/ StartsThrottle(r)
  PROVE  LineInv'
<1>. DEFINE walk == lrWalk[r]
<1>1. PICK p \in {"starts", "sent"} : Walks(r, [walk EXCEPT !.phase = p])
  BY DEF PassesThrottle, StartsThrottle
<1>. DEFINE next == [walk EXCEPT !.phase = p]
<1>2. walk.phase \in SendingPhases
      /\ UNCHANGED <<lrNow, lrTargets, lrActive, lrBans, lrFailedAt>>
  BY DEF PassesThrottle, StartsThrottle, WalkAt, SendingPhases
<1>3. walk.phase \in WalkingPhases /\ walk.left # <<>>
  BY <1>2, SendingFacts
<1>4. WalkOK(walk, lrNow, lrFailedAt) /\ DOMAIN walk = WalkFields
  BY <1>3, WalkingFacts
<1>5. /\ DOMAIN next = WalkFields /\ next.phase = p /\ next.list = walk.list
      /\ next.from = walk.from /\ next.left = walk.left /\ next.since = walk.since
  BY <1>4 DEF WalkFields
<1>6. Walks(r, next)
  BY <1>1
<1>. HIDE DEF next
<1>7. WalkOK(next, lrNow, lrFailedAt)
  BY <1>3, <1>4, <1>5, WalkGoesOn DEF WalkingPhases
<1>. QED  BY <1>2, <1>3, <1>6, <1>7, OneGoes

(* What an answer makes of the attempt.                                    *)
LEMMA LineAnswersStep ==
  ASSUME LineInv, NEW r \in LineRequests, NEW answer, LineAnswers(r, answer)
  PROVE  LineInv'
<1>. DEFINE walk == lrWalk[r]
            form == FormsOf(walk.kind)[walk.form][answer]
            next == [walk EXCEPT !.form = form]
<1>1. walk.phase = "sent" /\ walk.phase \in SendingPhases
      /\ UNCHANGED <<lrNow, lrTargets, lrThrottle, lrUp>>
  BY DEF LineAnswers, WalkAt, SendingPhases
<1>2. \/ Walks(r, next) /\ UNCHANGED <<lrActive, lrBans, lrFailedAt>>
      \/ Succeeds(r) /\ UNCHANGED <<lrBans, lrFailedAt>>
      \/ Walks(r, NoWalk) /\ UNCHANGED <<lrActive, lrBans, lrFailedAt>>
      \/ Fails(r) /\ UNCHANGED lrActive
  BY DEF LineAnswers
<1>3. CASE Walks(r, next) /\ UNCHANGED <<lrActive, lrBans, lrFailedAt>>
  <2>1. walk.phase \in WalkingPhases /\ walk.left # <<>>
    BY <1>1, SendingFacts
  <2>2. WalkOK(walk, lrNow, lrFailedAt) /\ DOMAIN walk = WalkFields
    BY <2>1, WalkingFacts
  <2>3. /\ DOMAIN next = WalkFields /\ next.phase = walk.phase /\ next.list = walk.list
        /\ next.from = walk.from /\ next.left = walk.left /\ next.since = walk.since
    BY <2>2 DEF WalkFields
  <2>. HIDE DEF next
  <2>4. WalkOK(next, lrNow, lrFailedAt)
    BY <1>1, <2>1, <2>2, <2>3, WalkGoesOn
  <2>. QED  BY <1>1, <1>3, <2>1, <2>4, OneGoes
<1>4. CASE Succeeds(r) /\ UNCHANGED <<lrBans, lrFailedAt>>
  BY <1>1, <1>4, SucceedsStep
<1>5. CASE Walks(r, NoWalk) /\ UNCHANGED <<lrActive, lrBans, lrFailedAt>>
  BY <1>1, <1>5, NoWalkOK, OneGoes DEF WalkingPhases
<1>6. CASE Fails(r) /\ UNCHANGED lrActive
  BY <1>1, <1>6, FailsStep
<1>. QED  BY <1>2, <1>3, <1>4, <1>5, <1>6

(* Every step of a walk keeps the invariant.                               *)
LEMMA WalkSteps ==
  ASSUME LineInv, NEW r \in LineRequests, WalkStep(r)
  PROVE  LineInv'
<1>1. CASE Throttled(r)
  BY <1>1, SucceedsStep DEF Throttled, WalkAt, SendingPhases
<1>2. CASE ClientLeaves(r)
  BY <1>2, FailsStep DEF ClientLeaves, WalkAt, SendingPhases
<1>3. CASE WalkEnds(r)
  BY <1>3, NoWalkOK, OneGoes DEF WalkEnds, WalkingPhases
<1>. QED  BY <1>1, <1>2, <1>3, LineArrivesStep, TakesOrderStep, NextLineStep, ThrottleSteps,
            LineAnswersStep DEF WalkStep

(* Lines, lists and time change around the walks.                          *)
LEMMA AroundWalks ==
  ASSUME LineInv, \/ LineTick
                  \/ \E l \in Lines : LineChanges(l)
                  \/ \E list \in Lists : EditsLines(list)
  PROVE  LineInv'
<1>1. UNCHANGED <<lrActive, lrBans, lrWalk, lrFailedAt>>
  BY DEF LineTick, LineChanges, EditsLines
<1>2. lrTargets' \in Lists
  BY DEF LineTick, LineChanges, EditsLines, LineInv, ActiveOK
<1>3. /\ lrNow \in Int /\ lrNow' \in Int /\ lrNow <= lrNow' /\ lrNow' >= 0
      /\ lrFailedAt \in [Lines -> Int] /\ \A l \in Lines : lrFailedAt[l] \in Int
  BY DEF LineTick, LineChanges, EditsLines, LineInv, BansOK
<1>4. BansOK'
  BY <1>1, <1>3 DEF LineInv, BansOK
<1>5. \A r \in LineRequests : WalkOK(lrWalk[r], lrNow', lrFailedAt)
  BY <1>3, WalkStays DEF LineInv
<1>6. ActiveOK'
  BY <1>1, <1>2 DEF LineInv, ActiveOK
<1>. QED  BY <1>1, <1>4, <1>5, <1>6 DEF LineInv

LEMMA LineStep ==
  ASSUME LineInv, [LineNext]_lineVars
  PROVE  LineInv'
<1>1. CASE UNCHANGED lineVars
  BY <1>1 DEF lineVars, LineInv, BansOK, ActiveOK
<1>2. CASE LineNext
  BY <1>2, WalkSteps, AroundWalks DEF LineNext
<1>. QED  BY <1>1, <1>2

(* When no line is left, all of them are spent.                            *)
LEMMA NoLineLeft == LineInv => FailureIsEarned
<1>. SUFFICES ASSUME LineInv, NEW r \in LineRequests, lrWalk[r].phase = "failed"
              PROVE  /\ lrWalk[r].tried > 0
                     /\ \A i \in DOMAIN lrWalk[r].list :
                           lrFailedAt[lrWalk[r].list[i]] >= lrWalk[r].since - BanTime
  BY DEF FailureIsEarned
<1>1. lrWalk[r].left = <<>> /\ lrWalk[r].tried > 0
  BY DEF LineInv, WalkOK
<1>2. Covers(lrWalk[r], lrFailedAt)
  BY WalkingFacts DEF WalkingPhases
<1>3. DOMAIN lrWalk[r].left = {}
  BY <1>1
<1>. QED  BY <1>1, <1>2, <1>3 DEF Covers, Spent

(* An answer moves the active line only from where the walk started.       *)
LEMMA AnswerMovesActive ==
  ASSUME LineInv, NEW r \in LineRequests, lrWalk[r].phase \in SendingPhases, Succeeds(r),
         lrActive' # lrActive
  PROVE  lrFailedAt[lrActive] >= lrWalk[r].since - BanTime
<1>1. /\ lrWalk[r].phase \in WalkingPhases /\ lrWalk[r].left # <<>>
      /\ FirstLine(r) = lrWalk[r].left[1]
  BY SendingFacts
<1>2. lrActive \in Lines /\ Covers(lrWalk[r], lrFailedAt)
  BY <1>1, WalkingFacts
<1>3. lrActive # NoLine
  BY <1>2, LinesAssumption
<1>4. lrActive = lrWalk[r].from /\ FirstLine(r) # lrWalk[r].from
  BY <1>3 DEF Succeeds, HealthyActive
<1>5. Spent(lrFailedAt, lrWalk[r].from, lrWalk[r].since)
  BY <1>1, <1>2, <1>4 DEF Covers
<1>. QED  BY <1>4, <1>5 DEF Spent

(* No other step of a walk that ends moves the active line.                *)
LEMMA ActiveLeftStep ==
  ASSUME LineInv, [LineNext]_lineVars, NEW r \in LineRequests,
         ~WalkAt(r, "ended"), lrWalk'[r] = NoWalk, lrActive' # lrActive
  PROVE  lrFailedAt[lrActive] >= lrWalk[r].since - BanTime
<1>1. PICK q \in LineRequests : WalkStep(q)
  BY DEF LineNext, lineVars, LineTick, LineChanges, EditsLines
<1>2. DOMAIN lrWalk = LineRequests
  BY DEF LineInv
<1>3. NoWalk.phase = "ended"
  BY DEF NoWalk
<1>4. \/ TakesOrder(q)
      \/ /\ Succeeds(q) /\ lrWalk[q].phase \in SendingPhases
  <2>1. CASE Throttled(q)
    BY <2>1 DEF Throttled, WalkAt, SendingPhases
  <2>2. ASSUME NEW answer, LineAnswers(q, answer)
        PROVE  Succeeds(q) /\ lrWalk[q].phase \in SendingPhases
    <3>1. lrWalk[q].phase \in SendingPhases
      BY <2>2 DEF LineAnswers, WalkAt, SendingPhases
    <3>2. Succeeds(q) \/ UNCHANGED lrActive
      BY <2>2 DEF LineAnswers
    <3>. QED  BY <3>1, <3>2
  <2>. QED  BY <1>1, <2>1, <2>2
       DEF WalkStep, LineArrives, NextLine, PassesThrottle, StartsThrottle, ClientLeaves, WalkEnds
<1>5. CASE TakesOrder(q)
  <2>1. lrWalk' = [lrWalk EXCEPT ![q] = [lrWalk[q] EXCEPT !.phase = "line",
                      !.from = ActiveOf(lrWalk[q].list),
                      !.left = Ordered(lrWalk[q].list, ActiveOf(lrWalk[q].list)), !.pass = 1]]
    BY <1>5 DEF TakesOrder, Walks
  <2>2. DOMAIN lrWalk[q] = WalkFields
    BY DEF LineInv, WalkOK
  <2>3. lrWalk'[q].phase = "line"
    BY <1>2, <2>1, <2>2 DEF WalkFields
  <2>4. q # r
    BY <1>3, <2>3
  <2>5. lrWalk'[r] = lrWalk[r]
    BY <1>2, <2>1, <2>4
  <2>. QED  BY <1>3, <2>5 DEF WalkAt
<1>6. CASE Succeeds(q) /\ lrWalk[q].phase \in SendingPhases
  <2>1. lrWalk' = [lrWalk EXCEPT ![q] = NoWalk]
    BY <1>6 DEF Succeeds, Walks
  <2>2. CASE q = r
    BY <1>6, <2>2, AnswerMovesActive
  <2>3. CASE q # r
    <3>1. lrWalk'[r] = lrWalk[r]
      BY <1>2, <2>1, <2>3
    <3>. QED  BY <1>3, <3>1 DEF WalkAt
  <2>. QED  BY <2>2, <2>3
<1>. QED  BY <1>4, <1>5, <1>6

(* A request fails only after it contacted a line and when every line of   *)
(* its list has failed lately: for any lists, any number of requests and   *)
(* whatever their walks, the lines and the edits of the list do meanwhile. *)
THEOREM FailuresAreEarned == LineSpec => []FailureIsEarned
<1>1. LineInv /\ [LineNext]_lineVars => LineInv'
  BY LineStep
<1>2. LineSpec => []LineInv
  BY InitLine, <1>1, PTL DEF LineSpec
<1>. QED  BY <1>2, NoLineLeft, PTL

(* The active line of a node is left only after it failed: no slow walk    *)
(* that began with an older one undoes a switch made meanwhile.            *)
THEOREM ActiveLineIsKept == LineSpec => LeftAfterFailure
<1>1. LineInv /\ [LineNext]_lineVars => LineInv'
  BY LineStep
<1>2. LineInv /\ [LineNext]_lineVars
      => [\A r \in LineRequests :
            ~WalkAt(r, "ended") /\ lrWalk'[r] = NoWalk /\ lrActive' # lrActive
            => lrFailedAt[lrActive] >= lrWalk[r].since - BanTime]_lineVars
  BY ActiveLeftStep
<1>. QED  BY InitLine, <1>1, <1>2, PTL DEF LineSpec, LeftAfterFailure
=============================================================================
