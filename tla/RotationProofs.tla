------------------------------ MODULE RotationProofs ------------------------------
(***************************************************************************)
(* Theorems about ProviderRotation: its run checks the same properties on  *)
(* three calls and two providers, here they hold for any number of calls,  *)
(* threads, providers and candidates and for every choice of the times.    *)
(***************************************************************************)
EXTENDS ProviderRotation, SequenceTheorems, TLAPS

-----------------------------------------------------------------------------
(* Constants *)

\* The constants that are numbers.
LEMMA Naturals ==
  /\ AttemptTime \in Nat /\ AttemptTime > 0
  /\ Budget \in Nat /\ Budget > 0
  /\ MaxCount \in Nat /\ MaxCount > 0
  /\ ShortTime \in Nat /\ DailyBase \in Nat /\ DailyMax \in Nat /\ BrokenTime \in Nat
BY RotationAssumption DEF RotationAssumption

\* No cooldown is longer than the longest one.
LEMMA LongestBounds ==
  /\ LongestCooldown \in Nat
  /\ ShortTime <= LongestCooldown
  /\ DailyMax <= LongestCooldown
  /\ BrokenTime <= LongestCooldown
<1> DEFINE Delays == {ShortTime, DailyMax, BrokenTime}
<1>1. \E t \in Delays : \A u \in Delays : u <= t
  BY Naturals
<1>2. /\ LongestCooldown \in Delays
      /\ \A u \in Delays : u <= LongestCooldown
  BY <1>1 DEF LongestCooldown
<1> QED
  BY <1>2, Naturals

\* The escalating cooldown stays below its cap.
LEMMA DailyDelayBound ==
  ASSUME NEW n \in 1..MaxCount
  PROVE  DailyDelay(n) \in 0..LongestCooldown
<1>1. n - 1 \in 0..MaxCount
  BY Naturals
<1>2. 2 ^ (n - 1) \in Nat
  BY <1>1, RotationAssumption DEF RotationAssumption
<1>3. DailyBase * 2 ^ (n - 1) \in Nat
  BY <1>2, Naturals
<1> QED
  BY <1>3, LongestBounds, Naturals DEF DailyDelay, Shortest

\* Every provider has a candidate.
LEMMA ChainType ==
  ASSUME NEW p \in DOMAIN Chain
  PROVE  /\ Chain[p] \in Seq(Candidates)
         /\ Chain[p] # << >>
         /\ Range(Chain[p]) \subseteq Candidates
         /\ Range(Chain[p]) # {}
<1>1. Chain[p] \in Seq(Candidates) /\ Chain[p] # << >>
  BY RotationAssumption DEF RotationAssumption
<1>2. Range(Chain[p]) \subseteq Candidates
  BY DEF Candidates
<1>3. 1 \in DOMAIN Chain[p]
  BY <1>1
<1>4. Chain[p][1] \in Range(Chain[p])
  BY <1>3 DEF Range
<1> QED
  BY <1>1, <1>2, <1>4

\* There is a first provider.
LEMMA ChainDomain ==
  /\ 1 \in DOMAIN Chain
  /\ DOMAIN Chain = 1..Len(Chain)
  /\ Len(Chain) \in Nat
BY RotationAssumption DEF RotationAssumption

\* What a rotation may try: every candidate of the provider at worst.
LEMMA FilterType ==
  ASSUME NEW p \in DOMAIN Chain
  PROVE  /\ FilterAvailable(p) \subseteq Candidates
         /\ FilterAvailable(p) \subseteq Range(Chain[p])
         /\ FilterAvailable(p) # {}
BY ChainType DEF FilterAvailable

\* A candidate still to try is the next one, or one of the others.
LEMMA HeadAndTail ==
  ASSUME NEW S, NEW s \in Seq(S), s # << >>
  PROVE  /\ Head(s) \in S
         /\ Tail(s) \in Seq(S)
         /\ Head(s) \in Range(s)
         /\ \A x \in Range(s) : x = Head(s) \/ x \in Range(Tail(s))
         /\ Range(Tail(s)) \subseteq Range(s)
<1>1. /\ Head(s) \in S /\ Tail(s) \in Seq(S)
      /\ Len(Tail(s)) = Len(s) - 1
      /\ \A i \in 1..Len(Tail(s)) : Tail(s)[i] = s[i + 1]
  BY HeadTailProperties
<1>2. Head(s) = s[1] /\ 1 \in DOMAIN s
  OBVIOUS
<1>3. DOMAIN s = 1..Len(s) /\ DOMAIN Tail(s) = 1..(Len(s) - 1) /\ Len(s) \in Nat
  BY <1>1
<1>4. ASSUME NEW i \in DOMAIN s
      PROVE  s[i] = Head(s) \/ s[i] \in Range(Tail(s))
  <2>1. CASE i = 1
    BY <2>1, <1>2
  <2>2. CASE i # 1
    <3>1. i - 1 \in 1..Len(Tail(s)) /\ (i - 1) + 1 = i
      BY <2>2, <1>1, <1>3
    <3>2. s[i] = Tail(s)[i - 1]
      BY <3>1, <1>1
    <3> QED
      BY <3>1, <3>2, <1>1, <1>3 DEF Range
  <2> QED
    BY <2>1, <2>2
<1>5. ASSUME NEW i \in DOMAIN Tail(s)
      PROVE  Tail(s)[i] \in Range(s)
  <2>1. i + 1 \in DOMAIN s /\ Tail(s)[i] = s[i + 1]
    BY <1>1, <1>3
  <2> QED
    BY <2>1 DEF Range
<1> QED
  BY <1>1, <1>2, <1>4, <1>5 DEF Range

-----------------------------------------------------------------------------
(* Types *)

TrackerType ==
  /\ cooling \in [Candidates -> 0..LongestCooldown]
  /\ daily \in [Candidates -> 0..MaxCount]

CallType ==
  /\ call \in [Calls -> Call]
  /\ result \in [Calls -> Results]
  /\ model \in [Calls -> Candidates \cup {None}]
  /\ tried \in [Calls -> SUBSET Candidates]

\* What a failure makes of the tracker is typed.
LEMMA ClassifyTyped ==
  ASSUME TrackerType, NEW c \in Candidates, Classify(c)
  PROVE  TrackerType'
<1>1. CASE UNCHANGED tracker
  BY <1>1 DEF TrackerType, tracker
<1>2. CASE MarkPermanentlyBroken(c)
  BY <1>2, LongestBounds, Naturals DEF TrackerType, MarkPermanentlyBroken
<1>3. ASSUME NEW perDay \in BOOLEAN, MarkRateLimited(c, perDay)
      PROVE  TrackerType'
  <2> DEFINE count == Shortest(daily[c] + 1, MaxCount)
  <2>1. count \in 1..MaxCount
    BY Naturals DEF TrackerType, Shortest
  <2>2. DailyDelay(count) \in 0..LongestCooldown
    BY <2>1, DailyDelayBound
  <2>3. CASE perDay
    BY <1>3, <2>1, <2>2, <2>3, Naturals DEF TrackerType, MarkRateLimited
  <2>4. CASE ~perDay
    BY <1>3, <2>4, LongestBounds, Naturals DEF TrackerType, MarkRateLimited
  <2> QED
    BY <2>3, <2>4
<1> QED
  BY <1>1, <1>2, <1>3 DEF Classify

\* A success clears what is held against the candidate.
LEMMA SuccessTyped ==
  ASSUME TrackerType, NEW c \in Candidates, MarkSuccess(c)
  PROVE  TrackerType'
BY LongestBounds, Naturals DEF TrackerType, MarkSuccess

LEMMA FreeCallTyped == FreeCall \in Call
BY ChainDomain, Naturals DEF FreeCall, Call, Phases

LEMMA CallUpdates ==
  ASSUME NEW c \in Call
  PROVE  /\ \A a \in Phases, l \in Int : [c EXCEPT !.at = a, !.left = l] \in Call
         /\ \A r \in Seq(Candidates) :
              [c EXCEPT !.at = "pick", !.age = 0, !.rest = r] \in Call
<1>1. ASSUME NEW a \in Phases, NEW l \in Int
      PROVE  [c EXCEPT !.at = a, !.left = l] \in Call
  BY DEF Call
<1>2. ASSUME NEW r \in Seq(Candidates)
      PROVE  [c EXCEPT !.at = "pick", !.age = 0, !.rest = r] \in Call
  <2>1. 0 \in 0..AttemptTime /\ "pick" \in Phases
    BY Naturals DEF Phases
  <2> QED
    BY <2>1 DEF Call
<1> QED
  BY <1>1, <1>2

LEMMA GotoTyped ==
  ASSUME CallType, NEW k \in Calls, NEW place \in Phases, Goto(k, place)
  PROVE  call' \in [Calls -> Call]
BY DEF CallType, Goto, Call

LEMMA RotateTyped ==
  ASSUME CallType, NEW k \in Calls, NEW p \in DOMAIN Chain, Rotate(k, p)
  PROVE  call' \in [Calls -> Call]
<1>1. Chain[p] \in Seq(Candidates)
  BY ChainType
<1>2. FilterAvailable(p) \subseteq Candidates
  BY FilterType
<1>3. 0 \in 0..AttemptTime
  BY Naturals
<1> DEFINE c == [call[k] EXCEPT !.at = "pick", !.age = 0, !.provider = p,
                             !.rest = Chain[p], !.available = FilterAvailable(p)]
<1>4. c \in Call
  <2>1. call[k] \in Call
    BY DEF CallType
  <2> QED
    BY <2>1, <1>1, <1>2, <1>3 DEF Call, Phases
<1>5. call' = [call EXCEPT ![k] = c]
  BY DEF Rotate
<1> QED
  BY <1>4, <1>5 DEF CallType

LEMMA ReturnTyped ==
  ASSUME CallType, NEW k \in Calls, NEW outcome \in Results, Return(k, outcome)
  PROVE  CallType'
BY FreeCallTyped DEF CallType, Return

LEMMA RaiseTyped ==
  ASSUME CallType, NEW k \in Calls, Raise(k)
  PROVE  CallType'
<1>1. CASE /\ call[k].provider < Len(Chain)
           /\ Rotate(k, call[k].provider + 1)
           /\ UNCHANGED <<result, model, tried>>
  <2>1. call[k].provider + 1 \in DOMAIN Chain
    BY <1>1, ChainDomain DEF CallType, Call
  <2>2. call' \in [Calls -> Call]
    BY <1>1, <2>1, RotateTyped
  <2> QED
    BY <1>1, <2>2 DEF CallType
<1>2. CASE Return(k, "failed")
  BY <1>2, ReturnTyped DEF Results
<1> QED
  BY <1>1, <1>2 DEF Raise

-----------------------------------------------------------------------------
(* The inductive invariant *)

Serves(k, p) == tried[k] \cap Range(Chain[p]) # {}

\* A call waits for a thread with time left; an attempt begins before the
\* deadline, so its age is the most it can be behind; a caller gives up at it.
OnTime(k) ==
  /\ call[k].at = "queued" => result[k] = "none" /\ call[k].left >= 0
  /\ call[k].at = "pick" => call[k].age = 0
  /\ call[k].at = "calling" => call[k].left + call[k].age >= 0
  /\ InThread(k) => call[k].left + AttemptTime >= 0
  /\ InThread(k) /\ result[k] = "timeout" => Expired(k)

\* A request is for the head of what is left, and its model is the one noted.
Named(k) ==
  /\ call[k].at \in {"calling", "won", "named"} => call[k].rest # << >>
  /\ call[k].at = "named" => model[k] = Winner(k)

\* Before the deadline, a rotation that is over has tried its provider, and
\* one that runs has tried it or has an available candidate left.
Tries(k) ==
  InThread(k) =>
    /\ Range(call[k].rest) \subseteq Range(Chain[call[k].provider])
    /\ IF call[k].at = "pick"
       THEN Serves(k, call[k].provider) \/ Range(call[k].rest) \cap call[k].available # {}
       ELSE Serves(k, call[k].provider)
    /\ \A p \in 1..(call[k].provider - 1) : Expired(k) \/ Serves(k, p)

CallInv(k) == OnTime(k) /\ Named(k) /\ Tries(k)

RotationInv == TypeOK /\ \A k \in Calls : CallInv(k)

\* A step of one call leaves what is said of another alone.
SameCall(k) ==
  /\ call'[k] = call[k] /\ result'[k] = result[k]
  /\ model'[k] = model[k] /\ tried'[k] = tried[k]

\* What is said of a call survives a step that does not concern it.
LEMMA Frame ==
  ASSUME NEW k \in Calls, CallInv(k), SameCall(k)
  PROVE  CallInv(k)'
BY DEF CallInv, OnTime, Named, Tries, SameCall, InThread, Expired, Winner, Serves

LEMMA TypeParts == TypeOK <=> TrackerType /\ CallType
BY DEF TypeOK, TrackerType, CallType

LEMMA WinnerTyped ==
  ASSUME CallType, NEW k \in Calls, call[k].rest # << >>
  PROVE  Winner(k) \in Candidates
<1>1. call[k].rest \in Seq(Candidates)
  BY DEF CallType, Call
<1> QED
  BY <1>1, HeadAndTail DEF Winner

\* Every step of a call keeps the types.
LEMMA TypeStep ==
  ASSUME RotationInv, NEW k \in Calls, Step(k)
  PROVE  TypeOK'
<1> USE DEF tracker
<1> SUFFICES TrackerType' /\ CallType'
  BY DEF TypeOK, TrackerType, CallType
<1>0. /\ TrackerType /\ CallType /\ Named(k)
      /\ call[k] \in Call
  BY TypeParts DEF RotationInv, CallInv, CallType
<1>1. CASE Submit(k)
  <2>1. [FreeCall EXCEPT !.at = "queued", !.left = Budget] \in Call
    <3>1. "queued" \in Phases /\ Budget \in Int
      BY Naturals DEF Phases
    <3> QED
      BY <3>1, FreeCallTyped, CallUpdates
  <2> QED
    BY <1>0, <1>1, <2>1 DEF Submit, CallType, TrackerType, Results
<1>2. CASE GiveUp(k)
  BY <1>0, <1>2, FreeCallTyped DEF GiveUp, CallType, TrackerType, Results
<1>3. CASE Start(k)
  <2>1. call' \in [Calls -> Call]
    BY <1>0, <1>3, RotateTyped, ChainDomain DEF Start
  <2> QED
    BY <1>0, <1>3, <2>1 DEF Start, CallType, TrackerType
<1>4. CASE Attempt(k)
  <2>1. call' \in [Calls -> Call]
    BY <1>0, <1>4, GotoTyped DEF Attempt, Phases
  <2>2. Head(call[k].rest) \in Candidates
    BY <1>0, <1>4, WinnerTyped DEF Attempt, Winner
  <2> QED
    BY <1>0, <1>4, <2>1, <2>2 DEF Attempt, CallType, TrackerType
<1>5. CASE Skip(k)
  <2>1. Tail(call[k].rest) \in Seq(Candidates)
    BY <1>0, <1>5, HeadAndTail DEF Skip, Call
  <2>2. call' \in [Calls -> Call]
    BY <1>0, <1>5, <2>1 DEF Skip, CallType, Call
  <2> QED
    BY <1>0, <1>5, <2>2 DEF Skip, CallType, TrackerType
<1>6. CASE StopRotation(k)
  BY <1>0, <1>6, RaiseTyped DEF StopRotation, TrackerType
<1>7. CASE Fail(k)
  <2>1. Head(call[k].rest) \in Candidates
    BY <1>0, <1>7, WinnerTyped DEF Fail, Winner, Named
  <2>2. TrackerType'
    BY <1>0, <1>7, <2>1, ClassifyTyped DEF Fail
  <2>3. CASE Expired(k)
    BY <1>0, <1>7, <2>2, <2>3, RaiseTyped DEF Fail
  <2>4. CASE ~Expired(k)
    <3> DEFINE c == [call[k] EXCEPT !.at = "pick", !.age = 0,
                                 !.rest = Tail(call[k].rest)]
    <3>1. Tail(call[k].rest) \in Seq(Candidates)
      BY <1>0, <1>7, HeadAndTail DEF Fail, Named, Call
    <3>2. c \in Call
      BY <1>0, <3>1, CallUpdates
    <3>3. call' = [call EXCEPT ![k] = c] /\ UNCHANGED <<result, model, tried>>
      BY <1>7, <2>4 DEF Fail
    <3> QED
      BY <1>0, <2>2, <3>2, <3>3 DEF CallType
  <2> QED
    BY <2>3, <2>4
<1>8. CASE Succeed(k)
  <2>1. Winner(k) \in Candidates
    BY <1>0, <1>8, WinnerTyped DEF Succeed, Named
  <2>2. TrackerType'
    BY <1>0, <1>8, <2>1, SuccessTyped DEF Succeed
  <2>3. call' \in [Calls -> Call]
    BY <1>0, <1>8, GotoTyped DEF Succeed, Phases
  <2> QED
    BY <1>0, <1>8, <2>2, <2>3 DEF Succeed, CallType
<1>9. CASE NoteModel(k)
  <2>1. Winner(k) \in Candidates
    BY <1>0, <1>9, WinnerTyped DEF NoteModel, Named
  <2>2. call' \in [Calls -> Call]
    BY <1>0, <1>9, GotoTyped DEF NoteModel, Phases
  <2> QED
    BY <1>0, <1>9, <2>1, <2>2 DEF NoteModel, InstanceOf, CallType, TrackerType
<1>10. CASE Answer(k)
  <2>1. model[k] \in Results
    BY <1>0, <1>10, WinnerTyped DEF Answer, Named, Results
  <2> QED
    BY <1>0, <1>10, <2>1, ReturnTyped DEF Answer, InstanceOf, TrackerType
<1> QED
  BY <1>1, <1>2, <1>3, <1>4, <1>5, <1>6, <1>7, <1>8, <1>9, <1>10 DEF Step

\* Time passes: nobody is between two requests or past a limit.
LEMMA TickStep ==
  ASSUME RotationInv, Tick
  PROVE  RotationInv'
<1>1. ASSUME NEW k \in Calls
      PROVE  /\ call[k] \in Call
             /\ call'[k] = Older(call[k])
             /\ result'[k] = result[k] /\ model'[k] = model[k] /\ tried'[k] = tried[k]
             /\ CallInv(k) /\ ~Urgent(k)
  BY DEF RotationInv, TypeOK, Tick
<1>2. ASSUME NEW k \in Calls
      PROVE  \/ /\ call[k].at = "free"
                /\ call'[k] = call[k]
             \/ /\ call[k].at = "queued" /\ call[k].left > 0
                /\ call'[k] = [call[k] EXCEPT !.left = @ - 1]
             \/ /\ call[k].at = "calling" /\ call[k].age < AttemptTime
                /\ call'[k] = [call[k] EXCEPT !.left = @ - 1, !.age = @ + 1]
  <2>1. call[k].at \in {"free", "queued", "calling"}
    BY <1>1 DEF Urgent, Call, Phases
  <2>2. CASE call[k].at = "queued"
    <3>1. Older(call[k]) = [call[k] EXCEPT !.left = @ - 1]
      BY <2>2 DEF Older
    <3>2. result[k] = "none" /\ ~Expired(k)
      BY <1>1, <2>2 DEF CallInv, OnTime, Urgent, Waiting
    <3>3. call[k].left > 0
      BY <1>1, <3>2 DEF Expired, Call
    <3> QED
      BY <1>1, <2>2, <3>1, <3>3
  <2>3. CASE call[k].at = "calling"
    <3>1. Older(call[k]) = [call[k] EXCEPT !.left = @ - 1, !.age = @ + 1]
      BY <2>3 DEF Older
    <3>2. call[k].age # AttemptTime
      BY <1>1, <2>3 DEF Urgent
    <3>3. call[k].age < AttemptTime
      BY <1>1, <3>2, Naturals DEF Call
    <3> QED
      BY <1>1, <2>3, <3>1, <3>3
  <2> QED
    BY <1>1, <2>1, <2>2, <2>3 DEF Older
<1>3. TypeOK'
  <2>1. cooling' \in [Candidates -> 0..LongestCooldown]
    BY LongestBounds DEF RotationInv, TypeOK, Tick, Available
  <2>2. ASSUME NEW k \in Calls
        PROVE  call'[k] \in Call
    <3>1. CASE call[k].at = "free" /\ call'[k] = call[k]
      BY <1>1, <3>1
    <3>2. CASE call'[k] = [call[k] EXCEPT !.left = @ - 1]
      BY <1>1, <3>2 DEF Call
    <3>3. CASE /\ call[k].age < AttemptTime
               /\ call'[k] = [call[k] EXCEPT !.left = @ - 1, !.age = @ + 1]
      <4>1. call[k].left - 1 \in Int /\ call[k].age + 1 \in 0..AttemptTime
        BY <1>1, <3>3, Naturals DEF Call
      <4> QED
        BY <1>1, <3>3, <4>1 DEF Call
    <3> QED
      BY <1>2, <3>1, <3>2, <3>3
  <2>3. call' \in [Calls -> Call]
    BY <2>2 DEF Tick
  <2> QED
    BY <2>1, <2>3 DEF RotationInv, TypeOK, Tick
<1>4. ASSUME NEW k \in Calls
      PROVE  CallInv(k)'
  <2>1. CASE call[k].at = "free" /\ call'[k] = call[k]
    BY <1>1, <2>1, Frame DEF SameCall
  <2>2. CASE /\ call[k].at = "queued" /\ call[k].left > 0
             /\ call'[k] = [call[k] EXCEPT !.left = @ - 1]
    <3>1. call'[k].at = "queued" /\ call'[k].left >= 0
      BY <1>1, <2>2 DEF Call
    <3> QED
      BY <1>1, <2>2, <3>1 DEF CallInv, OnTime, Named, Tries, InThread
  <2>3. CASE /\ call[k].at = "calling" /\ call[k].age < AttemptTime
             /\ call'[k] = [call[k] EXCEPT !.left = @ - 1, !.age = @ + 1]
    <3>1. /\ call[k].left \in Int /\ call[k].age \in 0..AttemptTime
          /\ call'[k].at = "calling"
          /\ call'[k].left = call[k].left - 1 /\ call'[k].age = call[k].age + 1
          /\ call'[k].rest = call[k].rest /\ call'[k].provider = call[k].provider
          /\ call'[k].available = call[k].available
      BY <1>1, <2>3 DEF Call
    <3>2. OnTime(k)'
      BY <1>1, <2>3, <3>1, Naturals DEF CallInv, OnTime, InThread, Expired
    <3>3. Named(k)'
      BY <1>1, <2>3, <3>1 DEF CallInv, Named
    <3>4. Tries(k)'
      BY <1>1, <2>3, <3>1 DEF CallInv, Tries, InThread, Expired, Serves
    <3> QED
      BY <3>2, <3>3, <3>4 DEF CallInv
  <2> QED
    BY <1>2, <2>1, <2>2, <2>3
<1> QED
  BY <1>3, <1>4 DEF RotationInv

\* A step of one call changes no other, nor what others noted.
LEMMA StepsTouchOneCall ==
  ASSUME CallType, NEW k \in Calls, Step(k), NEW j \in Calls, j # k
  PROVE  SameCall(j)
BY DEF CallType, Step, SameCall, Submit, GiveUp, Start, Attempt, Skip, StopRotation, Fail,
       Succeed, NoteModel, Answer, Goto, Rotate, Raise, Return, InstanceOf

\* A returned call says nothing any more.
LEMMA ReturnStep ==
  ASSUME CallType, NEW k \in Calls, NEW outcome, Return(k, outcome)
  PROVE  CallInv(k)'
<1>1. call'[k] = FreeCall
  BY DEF Return, CallType
<1>2. call'[k].at = "free"
  BY <1>1 DEF FreeCall
<1> QED
  BY <1>2 DEF CallInv, OnTime, Named, Tries, InThread

\* A rotation starts with every candidate of its provider before it, one of
\* them available, and only after the providers before it.
LEMMA RotateStep ==
  ASSUME CallType, NEW k \in Calls, NEW p \in DOMAIN Chain, Rotate(k, p),
         UNCHANGED <<result, model, tried>>,
         call[k].left + AttemptTime >= 0,
         result[k] = "timeout" => Expired(k),
         \A q \in 1..(p - 1) : Expired(k) \/ Serves(k, q)
  PROVE  CallInv(k)'
<1>1. /\ call'[k].at = "pick" /\ call'[k].age = 0 /\ call'[k].provider = p
      /\ call'[k].rest = Chain[p] /\ call'[k].available = FilterAvailable(p)
      /\ call'[k].left = call[k].left
  BY DEF Rotate, CallType, Call
<1>2. Range(Chain[p]) \cap FilterAvailable(p) # {}
  BY FilterType
<1>3. OnTime(k)'
  BY <1>1 DEF OnTime, InThread, Expired
<1>4. Named(k)'
  BY <1>1 DEF Named
<1>5. Tries(k)'
  BY <1>1, <1>2 DEF Tries, InThread, Expired, Serves
<1> QED
  BY <1>3, <1>4, <1>5 DEF CallInv

\* A rotation that raises leaves the next provider to try, or a failure.
LEMMA RaiseStep ==
  ASSUME RotationInv, NEW k \in Calls, InThread(k), Raise(k),
         Expired(k) \/ Serves(k, call[k].provider)
  PROVE  CallInv(k)'
<1>0. CallType /\ CallInv(k)
  BY TypeParts DEF RotationInv
<1>1. CASE /\ call[k].provider < Len(Chain)
           /\ Rotate(k, call[k].provider + 1)
           /\ UNCHANGED <<result, model, tried>>
  <2> DEFINE p == call[k].provider
  <2>1. p \in DOMAIN Chain /\ p + 1 \in DOMAIN Chain
    BY <1>0, <1>1, ChainDomain DEF CallType, Call
  <2>2. ASSUME NEW q \in 1..((p + 1) - 1)
        PROVE  Expired(k) \/ Serves(k, q)
    <3>1. q = p \/ q \in 1..(p - 1)
      BY <2>1, ChainDomain
    <3> QED
      BY <1>0, <3>1 DEF CallInv, Tries
  <2>3. call[k].left + AttemptTime >= 0 /\ (result[k] = "timeout" => Expired(k))
    BY <1>0 DEF CallInv, OnTime
  <2> QED
    BY <1>0, <1>1, <2>1, <2>2, <2>3, RotateStep
<1>2. CASE Return(k, "failed")
  BY <1>0, <1>2, ReturnStep
<1> QED
  BY <1>1, <1>2 DEF Raise

\* A step of a call keeps what is said of it.
LEMMA CallStep ==
  ASSUME RotationInv, NEW k \in Calls, Step(k)
  PROVE  CallInv(k)'
<1>0. /\ CallType /\ CallInv(k) /\ call[k] \in Call
      /\ call[k].left \in Int /\ result[k] \in Results
  BY TypeParts DEF RotationInv, CallType, Call
<1>1. CASE Submit(k)
  <2>1. call'[k].at = "queued" /\ call'[k].left = Budget /\ result'[k] = "none"
    BY <1>0, <1>1 DEF Submit, CallType, FreeCall
  <2> QED
    BY <2>1, Naturals DEF CallInv, OnTime, Named, Tries, InThread
<1>2. CASE GiveUp(k)
  <2>1. CASE call[k].at = "queued"
    <3>1. call'[k].at = "free"
      BY <1>0, <1>2, <2>1 DEF GiveUp, CallType, FreeCall
    <3> QED
      BY <3>1 DEF CallInv, OnTime, Named, Tries, InThread
  <2>2. CASE call[k].at # "queued"
    <3>1. /\ call'[k] = call[k] /\ model'[k] = model[k] /\ tried'[k] = tried[k]
          /\ call[k].left <= 0
      BY <1>0, <1>2, <2>2 DEF GiveUp, CallType, Expired
    <3> QED
      BY <1>0, <2>2, <3>1 DEF CallInv, OnTime, Named, Tries, InThread, Expired, Winner, Serves
  <2> QED
    BY <2>1, <2>2
<1>3. CASE Start(k)
  <2>1. call[k].left >= 0 /\ result[k] = "none"
    BY <1>0, <1>3 DEF Start, CallInv, OnTime
  <2>2. call[k].left + AttemptTime >= 0
    BY <1>0, <2>1, Naturals
  <2> QED
    BY <1>0, <1>3, <2>1, <2>2, ChainDomain, RotateStep DEF Start
<1>4. CASE Attempt(k)
  <2>1. /\ call'[k].at = "calling" /\ call'[k].left = call[k].left /\ call'[k].age = call[k].age
        /\ call'[k].provider = call[k].provider /\ call'[k].rest = call[k].rest
        /\ result'[k] = result[k] /\ tried'[k] = tried[k] \cup {Head(call[k].rest)}
        /\ call[k].rest # << >> /\ call[k].age = 0 /\ call[k].left > 0
    BY <1>0, <1>4 DEF Attempt, Goto, CallType, Call, CallInv, OnTime, Expired
  <2>2. Head(call[k].rest) \in Range(Chain[call[k].provider])
    BY <1>0, <1>4, <2>1, HeadAndTail DEF Call, CallInv, Tries, Attempt, InThread
  <2>3. OnTime(k)'
    BY <1>0, <1>4, <2>1, Naturals DEF OnTime, CallInv, Attempt, InThread, Expired
  <2>4. Named(k)'
    BY <2>1 DEF Named
  <2>5. Tries(k)'
    BY <1>0, <1>4, <2>1, <2>2 DEF Tries, CallInv, Attempt, InThread, Expired, Serves
  <2> QED
    BY <2>3, <2>4, <2>5 DEF CallInv
<1>5. CASE Skip(k)
  <2>1. /\ call'[k].at = "pick" /\ call'[k].left = call[k].left /\ call'[k].age = call[k].age
        /\ call'[k].provider = call[k].provider /\ call'[k].rest = Tail(call[k].rest)
        /\ call'[k].available = call[k].available /\ call[k].rest # << >>
        /\ result'[k] = result[k] /\ tried'[k] = tried[k]
    BY <1>0, <1>5 DEF Skip, CallType, Call
  <2>2. /\ Range(Tail(call[k].rest)) \subseteq Range(call[k].rest)
        /\ \A x \in Range(call[k].rest) :
             x = Head(call[k].rest) \/ x \in Range(Tail(call[k].rest))
    BY <1>0, <2>1, HeadAndTail DEF Call
  <2>3. OnTime(k)'
    BY <1>0, <1>5, <2>1 DEF OnTime, CallInv, Skip, InThread, Expired
  <2>4. Named(k)'
    BY <2>1 DEF Named
  <2>5. Tries(k)'
    BY <1>0, <1>5, <2>1, <2>2 DEF Tries, CallInv, Skip, InThread, Expired, Serves
  <2> QED
    BY <2>3, <2>4, <2>5 DEF CallInv
<1>6. CASE StopRotation(k)
  <2>1. call[k].rest = << >> => Range(call[k].rest) = {}
    BY DEF Range
  <2>2. Expired(k) \/ Serves(k, call[k].provider)
    BY <1>0, <1>6, <2>1 DEF StopRotation, CallInv, Tries, InThread
  <2> QED
    BY <1>6, <2>2, RaiseStep DEF StopRotation, InThread
<1>7. CASE Fail(k)
  <2>1. CASE Expired(k)
    BY <1>7, <2>1, RaiseStep DEF Fail, InThread
  <2>2. CASE ~Expired(k)
    <3>1. /\ call'[k].at = "pick" /\ call'[k].left = call[k].left /\ call'[k].age = 0
          /\ call'[k].provider = call[k].provider /\ call'[k].rest = Tail(call[k].rest)
          /\ call'[k].available = call[k].available /\ call[k].rest # << >>
          /\ result'[k] = result[k] /\ tried'[k] = tried[k]
      <4>1. call'[k] = [call[k] EXCEPT !.at = "pick", !.age = 0,
                                       !.rest = Tail(call[k].rest)]
        BY <1>0, <1>7, <2>2 DEF Fail, CallType
      <4> QED
        BY <1>0, <1>7, <2>2, <4>1 DEF Fail, Call, CallInv, Named
    <3>2. Range(Tail(call[k].rest)) \subseteq Range(call[k].rest)
      BY <1>0, <3>1, HeadAndTail DEF Call
    <3>3. OnTime(k)'
      BY <1>0, <1>7, <3>1 DEF OnTime, CallInv, Fail, InThread, Expired
    <3>4. Named(k)'
      BY <3>1 DEF Named
    <3>5. Tries(k)'
      BY <1>0, <1>7, <3>1, <3>2 DEF Tries, CallInv, Fail, InThread, Expired, Serves
    <3> QED
      BY <3>3, <3>4, <3>5 DEF CallInv
  <2> QED
    BY <2>1, <2>2
<1>8. CASE Succeed(k)
  <2>1. /\ call'[k] = [call[k] EXCEPT !.at = "won"]
        /\ result'[k] = result[k] /\ tried'[k] = tried[k]
    BY <1>0, <1>8 DEF Succeed, Goto, CallType
  <2>2. /\ call'[k].at = "won" /\ call'[k].left = call[k].left
        /\ call'[k].provider = call[k].provider /\ call'[k].rest = call[k].rest
    BY <1>0, <2>1 DEF Call
  <2> QED
    BY <1>0, <1>8, <2>1, <2>2 DEF Succeed, CallInv, OnTime, Named, Tries, InThread, Expired, Serves
<1>9. CASE NoteModel(k)
  <2>1. /\ call'[k] = [call[k] EXCEPT !.at = "named"] /\ model'[k] = Winner(k)
        /\ result'[k] = result[k] /\ tried'[k] = tried[k]
    BY <1>0, <1>9 DEF NoteModel, InstanceOf, Goto, CallType
  <2>2. /\ call'[k].at = "named" /\ call'[k].left = call[k].left
        /\ call'[k].provider = call[k].provider /\ call'[k].rest = call[k].rest
    BY <1>0, <2>1 DEF Call
  <2> QED
    BY <1>0, <1>9, <2>1, <2>2
      DEF NoteModel, CallInv, OnTime, Named, Tries, InThread, Expired, Winner, Serves
<1>10. CASE Answer(k)
  BY <1>0, <1>10, ReturnStep DEF Answer
<1> QED
  BY <1>1, <1>2, <1>3, <1>4, <1>5, <1>6, <1>7, <1>8, <1>9, <1>10 DEF Step

\* No call is under way at first.
LEMMA InitInv == Init => RotationInv
<1> SUFFICES ASSUME Init PROVE RotationInv
  OBVIOUS
<1>1. TypeOK
  BY FreeCallTyped, LongestBounds, Naturals DEF Init, TypeOK, Results
<1>2. ASSUME NEW k \in Calls
      PROVE  CallInv(k)
  <2>1. call[k].at = "free"
    BY DEF Init, FreeCall
  <2> QED
    BY <2>1 DEF CallInv, OnTime, Named, Tries, InThread
<1> QED
  BY <1>1, <1>2 DEF RotationInv

\* Every step, the passing of time included, keeps the invariant.
LEMMA InvStep == RotationInv /\ [Next]_vars => RotationInv'
<1> SUFFICES ASSUME RotationInv, [Next]_vars PROVE RotationInv'
  OBVIOUS
<1>1. CASE Tick
  BY <1>1, TickStep
<1>2. ASSUME NEW k \in Calls, Step(k)
      PROVE  RotationInv'
  <2>1. TypeOK'
    BY <1>2, TypeStep
  <2>2. ASSUME NEW j \in Calls
        PROVE  CallInv(j)'
    <3>1. CASE j = k
      BY <1>2, <3>1, CallStep
    <3>2. CASE j # k
      BY <1>2, <3>2, TypeParts, StepsTouchOneCall, Frame DEF RotationInv
    <3> QED
      BY <3>1, <3>2
  <2> QED
    BY <2>1, <2>2 DEF RotationInv
<1>3. CASE UNCHANGED vars
  <2>1. TypeOK'
    BY <1>3 DEF RotationInv, TypeOK, vars, tracker
  <2>2. ASSUME NEW k \in Calls
        PROVE  CallInv(k)'
    BY <1>3, Frame DEF RotationInv, SameCall, vars
  <2> QED
    BY <2>1, <2>2 DEF RotationInv
<1> QED
  BY <1>1, <1>2, <1>3 DEF Next

\* The invariant holds in every behaviour.
LEMMA InvariantHolds == Spec => []RotationInv
BY InitInv, InvStep, PTL DEF Spec

-----------------------------------------------------------------------------
(* Theorems *)

\* Every cooldown and every call stays within its type, and the model an
\* answer is logged under is a configured candidate.
THEOREM TypeCorrect == Spec => []TypeOK
<1>1. RotationInv => TypeOK
  BY DEF RotationInv
<1> QED
  BY <1>1, InvariantHolds, PTL

\* However many providers, keys and models a call goes through, its thread is
\* back in the pool one attempt after the deadline (run_with_rotation).
THEOREM ThreadsReturnInTime == Spec => []ThreadsEndInTime
<1>1. RotationInv => ThreadsEndInTime
  BY DEF RotationInv, CallInv, OnTime, ThreadsEndInTime
<1> QED
  BY <1>1, InvariantHolds, PTL

\* A call whose caller has timed out sends no further request.
THEOREM TimedOutIsSilent == Spec => NoRequestAfterTimeout
<1> DEFINE Silent(j) == result[j] = "timeout" /\ call[j].at # "calling" => call'[j].at # "calling"
<1>1. ASSUME RotationInv, [Next]_vars, NEW j \in Calls
      PROVE  Silent(j)
  <2>0. /\ CallType /\ CallInv(j) /\ call[j] \in Call
    BY <1>1, TypeParts DEF RotationInv, CallType
  <2>1. CASE Tick
    <3>1. call'[j] = Older(call[j])
      BY <1>1, <2>1 DEF Tick
    <3>2. CASE call[j].at # "calling"
      <4>1. call'[j] = call[j] \/ call'[j] = [call[j] EXCEPT !.left = @ - 1]
        BY <3>1, <3>2 DEF Older
      <4> QED
        BY <2>0, <3>2, <4>1 DEF Call
    <3> QED
      BY <3>2
  <2>2. ASSUME NEW k \in Calls, Step(k)
        PROVE  Silent(j)
    <3>1. CASE j # k
      BY <2>0, <2>2, <3>1, StepsTouchOneCall DEF SameCall
    <3>2. CASE j = k /\ Attempt(k)
      <4>1. InThread(j) /\ ~Expired(j)
        BY <3>2 DEF Attempt, InThread
      <4> QED
        BY <2>0, <4>1 DEF CallInv, OnTime
    <3>3. CASE j = k /\ ~Attempt(k)
      <4>1. CASE Submit(k)
        <5>1. call'[k].at = "queued"
          BY <2>0, <4>1 DEF CallType, Submit, FreeCall
        <5> QED
          BY <3>3, <5>1
      <4>0. CASE GiveUp(k)
        <5>1. call'[k] \in {FreeCall, call[k]} /\ FreeCall.at = "free"
          BY <2>0, <4>0 DEF CallType, GiveUp, FreeCall
        <5> QED
          BY <3>3, <5>1
      <4>2. ASSUME NEW p, Rotate(k, p)
            PROVE  call'[j].at = "pick"
        BY <2>0, <3>3, <4>2 DEF CallType, Rotate, Call
      <4>3. ASSUME NEW outcome, Return(k, outcome)
            PROVE  call'[j].at = "free"
        BY <2>0, <3>3, <4>3 DEF CallType, Return, FreeCall
      <4>4. CASE Start(k) \/ StopRotation(k)
        BY <4>2, <4>3, <4>4 DEF Start, StopRotation, Raise
      <4>5. CASE Skip(k) \/ NoteModel(k)
        BY <2>0, <3>3, <4>5 DEF CallType, Skip, NoteModel, Goto, Call
      <4>6. CASE Fail(k) \/ Succeed(k)
        BY <3>3, <4>6 DEF Fail, Succeed
      <4>7. CASE Answer(k)
        BY <4>3, <4>7 DEF Answer
      <4> QED
        BY <2>2, <3>3, <4>0, <4>1, <4>4, <4>5, <4>6, <4>7 DEF Step
    <3> QED
      BY <3>1, <3>2, <3>3
  <2>3. CASE UNCHANGED vars
    BY <2>3 DEF vars
  <2> QED
    BY <1>1, <2>1, <2>2, <2>3 DEF Next
<1>2. RotationInv /\ [Next]_vars =>
        [\A k \in Calls :
           result[k] = "timeout" /\ call[k].at # "calling" => call'[k].at # "calling"]_vars
  BY <1>1
<1> QED
  BY <1>2, InvariantHolds, PTL DEF Spec, NoRequestAfterTimeout

\* A result is set for the call that takes the step, and only once.
LEMMA ResultStep ==
  ASSUME RotationInv, [Next]_vars, NEW j \in Calls,
         result[j] = "none", result'[j] \notin {"none", "timeout"}
  PROVE  \/ /\ call[j].at = "named" /\ result'[j] = model[j]
         \/ /\ call[j].at \in {"pick", "calling"} /\ result'[j] = "failed"
            /\ call[j].provider = Len(Chain)
            /\ Expired(j) \/ (call[j].at = "pick" /\ call[j].rest = << >>)
<1>0. CallType /\ CallInv(j)
  BY TypeParts DEF RotationInv
<1>1. ~Tick /\ vars' # vars
  BY DEF Tick, vars
<1>2. PICK k \in Calls : Step(k)
  BY <1>1 DEF Next
<1>3. j = k
  BY <1>0, <1>2, StepsTouchOneCall DEF SameCall
<1>4. \/ StopRotation(k) \/ Fail(k) \/ Answer(k)
  BY <1>0, <1>2, <1>3
    DEF CallType, Step, Submit, GiveUp, Start, Attempt, Skip, Succeed, NoteModel
<1>5. CASE Answer(k)
  BY <1>0, <1>3, <1>5 DEF Answer, Return, CallType, InstanceOf
<1>6. CASE StopRotation(k)
  BY <1>0, <1>3, <1>6 DEF StopRotation, Raise, Return, CallType
<1>7. CASE Fail(k)
  BY <1>0, <1>3, <1>7 DEF Fail, Raise, Return, CallType
<1> QED
  BY <1>4, <1>5, <1>6, <1>7

\* Cooldowns are guesses: a call that fails before its deadline has sent a
\* request to every provider of the chain, cooling or not (filter_available).
THEOREM CooldownsFailNoCall == Spec => FailsOnlyAfterTrying
<1> DEFINE Tried(j) ==
      result[j] = "none" /\ result'[j] = "failed" /\ ~Expired(j) =>
         \A p \in DOMAIN Chain : tried[j] \cap Range(Chain[p]) # {}
<1>1. ASSUME RotationInv, [Next]_vars, NEW j \in Calls
      PROVE  Tried(j)
  <2> SUFFICES ASSUME result[j] = "none", result'[j] = "failed", ~Expired(j),
                      NEW p \in DOMAIN Chain
               PROVE  Serves(j, p)
    BY DEF Serves
  <2>0. CallInv(j) /\ CallType
    BY <1>1, TypeParts DEF RotationInv
  <2>1. \/ call[j].at = "named" /\ model[j] = "failed"
        \/ /\ call[j].at = "pick" /\ call[j].rest = << >>
           /\ call[j].provider = Len(Chain)
    BY <1>1, ResultStep
  <2>2. CASE call[j].at = "pick" /\ call[j].rest = << >> /\ call[j].provider = Len(Chain)
    <3>1. Range(call[j].rest) = {}
      BY <2>2 DEF Range
    <3>2. Serves(j, Len(Chain)) /\ \A q \in 1..(Len(Chain) - 1) : Serves(j, q)
      BY <2>0, <2>2, <3>1 DEF CallInv, Tries, InThread
    <3>3. p = Len(Chain) \/ p \in 1..(Len(Chain) - 1)
      BY ChainDomain
    <3> QED
      BY <3>2, <3>3
  <2>3. CASE call[j].at = "named" /\ model[j] = "failed"
    <3>1. Winner(j) = "failed" /\ Winner(j) \in Candidates
      BY <2>0, <2>3, WinnerTyped DEF CallInv, Named
    <3> QED
      BY <3>1, RotationAssumption DEF RotationAssumption
  <2> QED
    BY <2>1, <2>2, <2>3
<1>2. RotationInv /\ [Next]_vars =>
        [\A k \in Calls :
           result[k] = "none" /\ result'[k] = "failed" /\ ~Expired(k) =>
             \A p \in DOMAIN Chain : tried[k] \cap Range(Chain[p]) # {}]_vars
  BY <1>1
<1> QED
  BY <1>2, InvariantHolds, PTL DEF Spec, FailsOnlyAfterTrying

\* The model a decision is logged under is the one that made it, however many
\* decisions are under way (guard.py, one provider object per call).
THEOREM DecisionsNameTheirModel == Spec => ReportedModelDecided
<1> DEFINE Right(j) ==
      result[j] = "none" /\ result'[j] \notin {"none", "failed", "timeout"} =>
         result'[j] = Winner(j)
<1>1. ASSUME RotationInv, [Next]_vars, NEW j \in Calls
      PROVE  Right(j)
  <2> SUFFICES ASSUME result[j] = "none", result'[j] \notin {"none", "failed", "timeout"}
               PROVE  result'[j] = Winner(j)
    OBVIOUS
  <2>1. call[j].at = "named" /\ result'[j] = model[j]
    BY <1>1, ResultStep
  <2> QED
    BY <1>1, <2>1 DEF RotationInv, CallInv, Named
<1>2. RotationInv /\ [Next]_vars =>
        [\A k \in Calls :
           result[k] = "none" /\ result'[k] \notin {"none", "failed", "timeout"} =>
             result'[k] = Winner(k)]_vars
  BY <1>1
<1> QED
  BY <1>2, InvariantHolds, PTL DEF Spec, ReportedModelDecided
===================================================================================
