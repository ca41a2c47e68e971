---------------------------- MODULE ProviderRotation ----------------------------
(***************************************************************************)
(* LLM calls: app/llm/rotation.py and rate_limit_tracker.py, the provider  *)
(* chain over them (llm/manager.py; notification_guard/guard.py has the    *)
(* same loop) and the way both are called: asyncio.to_thread under         *)
(* call_with_timeout, with a deadline for the rotation.                    *)
(*                                                                         *)
(* A call is a slot: submitted, queued for a thread of the event loop's    *)
(* executor, run there, and free again once the thread has returned, which *)
(* may be after its caller has given up.  The threads share the tracker.   *)
(* Time is kept as time left, so no behaviour has to end: Tick takes one   *)
(* unit from every deadline and cooldown.  Steps of a thread between two   *)
(* requests take none.                                                     *)
(***************************************************************************)
EXTENDS Integers, Sequences, FiniteSets, Functions

CONSTANTS
  Calls,        \* slots: bound on the calls alive at a time
  Chain,        \* the providers in order, each the sequence of its candidates
  Decommissioned, \* candidates whose provider marks unknown failures as permanent
  Workers,      \* threads of the executor
  Budget,       \* external_call_timeout_seconds
  AttemptTime,  \* longest attempt: retry_attempts HTTP timeouts and the waits
  ShortTime,    \* a parsed or default retry delay
  DailyBase, DailyMax,  \* the escalating cooldown of a daily quota
  BrokenTime,   \* the cooldown of a permanently broken candidate
  MaxCount,     \* where counting daily failures stops making a difference
  None

Candidates == UNION {Range(Chain[p]) : p \in DOMAIN Chain}

ASSUME RotationAssumption ==
  /\ {None, "none", "failed", "timeout"} \cap Candidates = {}
  /\ Chain \in Seq(Seq(Candidates)) \ {<< >>}
  /\ \A p \in DOMAIN Chain : Chain[p] # << >>
  /\ Decommissioned \subseteq Candidates
  /\ {Workers, Budget, AttemptTime, ShortTime, DailyBase, DailyMax,
      BrokenTime, MaxCount} \subseteq Nat \ {0}
  /\ \A n \in 0..MaxCount : 2 ^ n \in Nat
  /\ DailyBase * 2 ^ (MaxCount - 1) >= DailyMax

Shortest(a, b) == IF a < b THEN a ELSE b

VARIABLES
  cooling,   \* tracker: time left of a candidate's cooldown, 0 if available
  daily,     \* tracker: its consecutive daily-quota failures
  call,      \* [Calls -> Call]: where a call is
  result,    \* what its caller got: an answer is the model it is logged under
  model,     \* the model field of the provider object a call built
  tried      \* history: candidates the call has sent a request to

tracker == <<cooling, daily>>
vars    == <<tracker, call, result, model, tried>>

Phases  == {"free", "queued", "pick", "calling", "won", "named"}
Results == {"none", "failed", "timeout"} \cup Candidates

\* Time left to the deadline (negative once it is over), age of the running
\* attempt, provider whose rotation runs, candidates it has still to look at,
\* and those that were available when it began.
Call == [at : Phases, left : Int, age : 0..AttemptTime, provider : DOMAIN Chain,
         rest : Seq(Candidates), available : SUBSET Candidates]

FreeCall == [at |-> "free", left |-> 0, age |-> 0, provider |-> 1,
             rest |-> << >>, available |-> {}]

LongestCooldown ==
  CHOOSE t \in {ShortTime, DailyMax, BrokenTime} :
    \A u \in {ShortTime, DailyMax, BrokenTime} : u <= t

TypeOK ==
  /\ cooling \in [Candidates -> 0..LongestCooldown]
  /\ daily \in [Candidates -> 0..MaxCount]
  /\ call \in [Calls -> Call]
  /\ result \in [Calls -> Results]
  /\ model \in [Calls -> Candidates \cup {None}]
  /\ tried \in [Calls -> SUBSET Candidates]

InThread(k) == call[k].at \notin {"free", "queued"}
Expired(k)  == call[k].left <= 0
Waiting(k)  == call[k].at # "free" /\ result[k] = "none"
ThreadFree  == Cardinality({k \in Calls : InThread(k)}) < Workers

Goto(k, place) == call' = [call EXCEPT ![k].at = place]

-----------------------------------------------------------------------------
(* The tracker *)

Available(c) == cooling[c] = 0

\* Mutant: nothing is tried while every candidate is cooling.
FilterStrictly(p) == {c \in Range(Chain[p]) : Available(c)}

FilterAvailable(p) ==
  LET available == {c \in Range(Chain[p]) : Available(c)}
  IN  IF available = {} THEN Range(Chain[p]) ELSE available

DailyDelay(n) == Shortest(DailyBase * 2 ^ (n - 1), DailyMax)

MarkRateLimited(c, perDay) ==
  LET count == Shortest(daily[c] + 1, MaxCount)
  IN  IF perDay
      THEN /\ daily' = [daily EXCEPT ![c] = count]
           /\ cooling' = [cooling EXCEPT ![c] = DailyDelay(count)]
      ELSE /\ cooling' = [cooling EXCEPT ![c] = ShortTime]
           /\ UNCHANGED daily

MarkPermanentlyBroken(c) ==
  /\ cooling' = [cooling EXCEPT ![c] = BrokenTime]
  /\ UNCHANGED daily

MarkSuccess(c) ==
  /\ daily' = [daily EXCEPT ![c] = 0]
  /\ cooling' = [cooling EXCEPT ![c] = 0]

-----------------------------------------------------------------------------
(* The caller *)

Submit(k) ==
  /\ call[k].at = "free"
  /\ call' = [call EXCEPT ![k] = [FreeCall EXCEPT !.at = "queued", !.left = Budget]]
  /\ result' = [result EXCEPT ![k] = "none"]
  /\ UNCHANGED <<tracker, model, tried>>

\* wait_for cancels a call that is still queued, and abandons a running one.
GiveUp(k) ==
  /\ Waiting(k) /\ Expired(k)
  /\ result' = [result EXCEPT ![k] = "timeout"]
  /\ call' = [call EXCEPT ![k] = IF @.at = "queued" THEN FreeCall ELSE @]
  /\ UNCHANGED <<tracker, model, tried>>

\* The thread returns; what it has is dropped when the caller has given up.
Return(k, outcome) ==
  /\ call' = [call EXCEPT ![k] = FreeCall]
  /\ result' = [result EXCEPT ![k] = IF @ = "none" THEN outcome ELSE @]
  /\ model' = [model EXCEPT ![k] = None]
  /\ tried' = [tried EXCEPT ![k] = {}]

-----------------------------------------------------------------------------
(* The thread of a call *)

\* run_with_rotation begins: the candidates are filtered once, up front.
Rotate(k, p) ==
  call' = [call EXCEPT ![k] = [@ EXCEPT !.at = "pick", !.age = 0, !.provider = p,
                                        !.rest = Chain[p],
                                        !.available = FilterAvailable(p)]]

Start(k) ==
  /\ call[k].at = "queued" /\ ThreadFree
  /\ Rotate(k, 1)
  /\ UNCHANGED <<tracker, result, model, tried>>

\* A rotation raises: the chain goes on to the next provider, or fails.
Raise(k) ==
  \/ /\ call[k].provider < Len(Chain)
     /\ Rotate(k, call[k].provider + 1)
     /\ UNCHANGED <<result, model, tried>>
  \/ /\ call[k].provider = Len(Chain)
     /\ Return(k, "failed")

\* Mutant: the rotation checks its deadline only after a failed attempt.
AttemptUnchecked(k) ==
  /\ call[k].at = "pick" /\ call[k].rest # << >>
  /\ Head(call[k].rest) \in call[k].available
  /\ Goto(k, "calling")
  /\ tried' = [tried EXCEPT ![k] = @ \cup {Head(call[k].rest)}]
  /\ UNCHANGED <<tracker, result, model>>

Attempt(k) ==
  /\ call[k].at = "pick" /\ call[k].rest # << >> /\ ~Expired(k)
  /\ Head(call[k].rest) \in call[k].available
  /\ Goto(k, "calling")
  /\ tried' = [tried EXCEPT ![k] = @ \cup {Head(call[k].rest)}]
  /\ UNCHANGED <<tracker, result, model>>

Skip(k) ==
  /\ call[k].at = "pick" /\ call[k].rest # << >> /\ ~Expired(k)
  /\ Head(call[k].rest) \notin call[k].available
  /\ call' = [call EXCEPT ![k].rest = Tail(@)]
  /\ UNCHANGED <<tracker, result, model, tried>>

\* No candidate is left, or the deadline is over before the next one.
StopRotation(k) ==
  /\ call[k].at = "pick"
  /\ call[k].rest = << >> \/ Expired(k)
  /\ Raise(k)
  /\ UNCHANGED tracker

\* What a failure says about the candidate: nothing (a truncated answer, an
\* overload), a rate limit, a daily quota, or something unknown.
Classify(c) ==
  \/ UNCHANGED tracker
  \/ \E perDay \in BOOLEAN : MarkRateLimited(c, perDay)
  \/ c \in Decommissioned /\ MarkPermanentlyBroken(c)

Fail(k) ==
  /\ call[k].at = "calling"
  /\ Classify(Head(call[k].rest))
  /\ IF Expired(k)
     THEN Raise(k)
     ELSE /\ call' = [call EXCEPT ![k] = [@ EXCEPT !.at = "pick", !.age = 0,
                                             !.rest = Tail(call[k].rest)]]
          /\ UNCHANGED <<result, model, tried>>

Winner(k) == Head(call[k].rest)

Succeed(k) ==
  /\ call[k].at = "calling"
  /\ MarkSuccess(Winner(k))
  /\ Goto(k, "won")
  /\ UNCHANGED <<result, model, tried>>

\* Mutant: one provider object serves all calls.
SharedInstance(k) == CHOOSE j \in Calls : TRUE

\* The factory of a guard provider builds an object for each call.
InstanceOf(k) == k

\* The provider object notes the model that won.
NoteModel(k) ==
  /\ call[k].at = "won"
  /\ model' = [model EXCEPT ![InstanceOf(k)] = Winner(k)]
  /\ Goto(k, "named")
  /\ UNCHANGED <<tracker, result, tried>>

\* The chain reads the model from the object and returns it with the answer.
Answer(k) ==
  /\ call[k].at = "named"
  /\ Return(k, model[InstanceOf(k)])
  /\ UNCHANGED tracker

-----------------------------------------------------------------------------
(* Time *)

\* Mutant: the SDK client has no HTTP timeout of its own.
UrgentButUnbounded(k) ==
  \/ call[k].at \in {"pick", "won", "named"}
  \/ call[k].at = "queued" /\ ThreadFree
  \/ Waiting(k) /\ Expired(k)

\* Time does not pass: a thread is between two requests or can start, the
\* HTTP timeout ends an attempt, wait_for's timer fires.
Urgent(k) ==
  \/ call[k].at \in {"pick", "won", "named"}
  \/ call[k].at = "calling" /\ call[k].age = AttemptTime
  \/ call[k].at = "queued" /\ ThreadFree
  \/ Waiting(k) /\ Expired(k)

Older(c) ==
  CASE c.at = "free"    -> c
    [] c.at = "calling" -> [c EXCEPT !.left = @ - 1, !.age = @ + 1]
    [] OTHER            -> [c EXCEPT !.left = @ - 1]

Tick ==
  /\ \A k \in Calls : ~Urgent(k)
  /\ cooling' = [c \in Candidates |-> IF Available(c) THEN 0 ELSE cooling[c] - 1]
  /\ call' = [k \in Calls |-> Older(call[k])]
  /\ UNCHANGED <<daily, result, model, tried>>

Init ==
  /\ cooling = [c \in Candidates |-> 0]
  /\ daily = [c \in Candidates |-> 0]
  /\ call = [k \in Calls |-> FreeCall]
  /\ result = [k \in Calls |-> "none"]
  /\ model = [k \in Calls |-> None]
  /\ tried = [k \in Calls |-> {}]

Step(k) ==
  \/ Submit(k) \/ GiveUp(k) \/ Start(k)
  \/ Attempt(k) \/ Skip(k) \/ StopRotation(k)
  \/ Fail(k) \/ Succeed(k) \/ NoteModel(k) \/ Answer(k)

Next == Tick \/ \E k \in Calls : Step(k)

Spec == Init /\ [][Next]_vars

-----------------------------------------------------------------------------
(* Properties *)

\* A thread is back in the pool at most one attempt after the deadline of its
\* call, whatever the number of providers, keys and models (rotation.py:127).
ThreadsEndInTime == \A k \in Calls : InThread(k) => call[k].left + AttemptTime >= 0

\* Once its caller has given up, a call sends no further request.
NoRequestAfterTimeout ==
  [][\A k \in Calls :
       result[k] = "timeout" /\ call[k].at # "calling" => call'[k].at # "calling"]_vars

\* A call that fails before its deadline has tried every provider: cooldowns,
\* which are guesses, never make it fail without a request (filter_available).
FailsOnlyAfterTrying ==
  [][\A k \in Calls :
       result[k] = "none" /\ result'[k] = "failed" /\ ~Expired(k) =>
         \A p \in DOMAIN Chain : tried[k] \cap Range(Chain[p]) # {}]_vars

\* The model a decision is logged under is the one that made it, also when
\* several decisions are under way (guard.py, _evaluate_guard_with_category).
ReportedModelDecided ==
  [][\A k \in Calls :
       result[k] = "none" /\ result'[k] \notin {"none", "failed", "timeout"} =>
         result'[k] = Winner(k)]_vars
=============================================================================
