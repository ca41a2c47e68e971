---------------------------- MODULE TelegramChannel ----------------------------
(***************************************************************************)
(* One Telegram channel as app/adapters/sources/telegram.py serves it:     *)
(* live handlers, one task per NewMessage event; the start-up recovery;    *)
(* the retry watcher that re-runs the recovery while the channel's barrier *)
(* is up; and the reconnect loop that rebuilds all of them.  The channel   *)
(* lock is asyncio's, so its waiters are served in FIFO order.             *)
(*                                                                         *)
(* Lock, barrier, wake event and watermark are all per channel; that the   *)
(* start-up recovery takes the channels one after another only delays it.  *)
(* Messages are their ids, 1, 2, ...; process_message is a step that       *)
(* returns True, returns False, or raises.                                 *)
(***************************************************************************)
EXTENDS Naturals, Sequences

CONSTANTS
  MaxMsg,       \* bound on the messages ever posted to the channel
  Caps,         \* values of telegram_max_messages, the cap of one pass
  Orders,       \* whether get_chat answers in arrival order (both, or one)
  StartPosts,   \* numbers of messages in the channel at the first start
  MaxFailures,  \* bound on failed or raising messages, fetches and saves
  MaxDrops,     \* bound on disconnects and crashes
  MaxLogs,      \* bound on failed writes of the error log
  Worker,       \* the recovery task (start-up, then watcher) at the lock
  Nobody

Msgs == 1..MaxMsg

ASSUME ChannelAssumption ==
  /\ MaxMsg \in Nat /\ Caps \subseteq Nat \ {0}
  /\ Orders \subseteq BOOLEAN
  /\ StartPosts \subseteq 0..MaxMsg
  /\ MaxFailures \in Nat /\ MaxDrops \in Nat /\ MaxLogs \in Nat
  /\ Worker \notin Msgs /\ Nobody \notin Msgs /\ Worker # Nobody

HandlerStates == {"none", "chat", "lock", "set", "log"}
WorkerStates  == {"down", "startup", "watch", "idle", "backoff", "retry",
                  "dead"}

\* A recovery pass: the snapshot it walks is next..last, "full" when it holds
\* as many messages as the cap lets it fetch.
Walk   == [step : {"none", "fetch", "process", "set", "log"},
           next : 0..MaxMsg, last : 0..MaxMsg, full : BOOLEAN]
NoWalk == [step |-> "none", next |-> 0, last |-> 0, full |-> FALSE]

VARIABLES
  posted,      \* the channel holds messages 1..posted
  watermark,   \* durable last message id, 0 when the channel is untracked
  done,        \* messages process_job has finished with
  base,        \* history: where the first start seeded the watermark
  held,        \* history: messages whose failure raised the barrier
  unreported,  \* history: messages whose failure could not be logged
  handler,     \* [Msgs -> HandlerStates]: the live handler of a message
  holder,      \* holder of the channel lock
  queue,       \* FIFO of its waiters
  blocked,     \* recovery_blocked: live messages leave the watermark alone
  generation,  \* failure_generation
  wake,        \* the watcher's wake event
  worker,      \* where the recovery task is
  walk,        \* its recovery pass
  startGen,    \* generation_at_start of its retry
  cap,         \* telegram_max_messages
  orderly, failures, drops, logs  \* what the environment may still do

chan    == <<cap, posted, watermark, done>>
hist    == <<base, held, unreported>>
lock    == <<holder, queue>>
barrier == <<blocked, generation, wake>>
task    == <<worker, walk, startGen>>
env     == <<orderly, failures, drops, logs>>
vars    == <<chan, hist, handler, lock, barrier, task, env>>

-----------------------------------------------------------------------------
(* The channel lock *)

Acquire(x) == IF holder = Nobody
              THEN holder' = x /\ UNCHANGED queue
              ELSE queue' = Append(queue, x) /\ UNCHANGED holder
Release == IF queue = <<>>
           THEN holder' = Nobody /\ UNCHANGED queue
           ELSE holder' = Head(queue) /\ queue' = Tail(queue)

-----------------------------------------------------------------------------
(* Live messages: handler and _handle_live_message *)

\* Telethon starts a task for every message that arrives while a handler is
\* registered.
\* Mutant: the handler is registered after the start-up recovery.
PostUnheard ==
  /\ posted < MaxMsg
  /\ posted' = posted + 1
  /\ handler' = IF worker \in {"down", "startup"} THEN handler
                ELSE [handler EXCEPT ![posted + 1] = "chat"]
  /\ UNCHANGED <<cap, watermark, done, hist, lock, barrier, task, env>>
Post == /\ posted < MaxMsg
        /\ posted' = posted + 1
        /\ handler' = IF worker = "down" THEN handler
                      ELSE [handler EXCEPT ![posted + 1] = "chat"]
        /\ UNCHANGED <<cap, watermark, done, hist, lock, barrier, task, env>>

\* event.get_chat answers, fails or times out, then the lock is asked for.
GetChat(m) == /\ handler[m] = "chat"
              /\ orderly => \A k \in 1..(m - 1) : handler[k] # "chat"
              /\ handler' = [handler EXCEPT ![m] = "lock"]
              /\ Acquire(m)
              /\ UNCHANGED <<chan, hist, barrier, task, env>>

Leave(m) == handler' = [handler EXCEPT ![m] = "none"] /\ Release
Turn(m, label) == /\ handler' = [handler EXCEPT ![m] = label]
                  /\ UNCHANGED lock

Hold(m) == held' = IF watermark < m THEN held \cup {m} ELSE held
\* Mutants: a failed live message leaves the barrier down; it raises it but
\* does not wake the watcher.
RaiseNothing(m) == UNCHANGED barrier /\ Hold(m)
RaiseSilently(m) == /\ blocked' = TRUE
                    /\ generation' = generation + 1
                    /\ UNCHANGED wake
                    /\ Hold(m)
RaiseBarrier(m) == /\ blocked' = TRUE /\ wake' = TRUE
                   /\ generation' = generation + 1
                   /\ Hold(m)

Fail == failures > 0 /\ failures' = failures - 1

\* process_message is called under the lock.  It raises only when writing its
\* own error log fails.
Process(m) ==
  /\ handler[m] = "lock" /\ holder = m
  /\ \/ /\ done' = done \cup {m}
        /\ IF blocked THEN Leave(m) ELSE Turn(m, "set")
        /\ UNCHANGED <<barrier, held, failures, logs>>
     \/ /\ Fail
        /\ RaiseBarrier(m) /\ Leave(m)
        /\ UNCHANGED <<done, logs>>
     \/ /\ Fail /\ logs > 0 /\ logs' = logs - 1
        /\ Turn(m, "log")
        /\ UNCHANGED <<done, barrier, held>>
  /\ UNCHANGED <<cap, posted, watermark, base, unreported, task, orderly, drops>>

\* async_set_last_message_id stores whatever id it is given; when it raises,
\* the id may have been stored or not.
SetMark(m) ==
  /\ handler[m] = "set"
  /\ \/ /\ watermark' = m
        /\ Leave(m) /\ UNCHANGED failures
     \/ /\ Fail
        /\ watermark' \in {watermark, m}
        /\ Turn(m, "log")
  /\ UNCHANGED <<cap, posted, done, hist, barrier, task, orderly, drops, logs>>

\* The except branch: log_error is awaited before the barrier is raised.
LogFailure(m) ==
  /\ handler[m] = "log"
  /\ \/ /\ RaiseBarrier(m)
        /\ UNCHANGED <<unreported, logs>>
     \/ /\ logs > 0 /\ logs' = logs - 1
        /\ unreported' = unreported \cup {m}
        /\ UNCHANGED <<barrier, held>>
  /\ Leave(m)
  /\ UNCHANGED <<chan, base, task, orderly, failures, drops>>

-----------------------------------------------------------------------------
(* The recovery pass: _recover_channel *)

\* What the caller does with the outcome: the start-up recovery and the
\* watcher release the barrier on COMPLETE only, the watcher only when no
\* live message failed since it looked.
\* Mutant: a capped pass counts as caught up.
ReleaseOnCapped(outcome) ==
  /\ worker' = "watch" /\ walk' = NoWalk
  /\ blocked' = (blocked /\ outcome = "failed")
  /\ Release /\ UNCHANGED <<startGen, generation, wake>>
EndPass(outcome) ==
  LET caughtUp == /\ outcome = "complete"
                  /\ worker = "startup" \/ generation = startGen IN
  /\ worker' = "watch" /\ walk' = NoWalk
  /\ blocked' = (blocked /\ ~caughtUp)
  /\ Release /\ UNCHANGED <<startGen, generation, wake>>

Recovering(step) == /\ worker \in {"startup", "retry"} /\ holder = Worker
                    /\ walk.step = step
Step(w) == walk' = w /\ UNCHANGED <<worker, startGen, lock, barrier>>

\* An untracked channel is seeded with its newest id and recovers nothing.
Seed ==
  /\ Recovering("fetch") /\ watermark = 0
  /\ watermark' = posted
  /\ base' = IF worker = "startup" THEN posted ELSE base
  /\ EndPass("complete")
  /\ UNCHANGED <<cap, posted, done, held, unreported, handler, env>>

\* The snapshot: at most cap messages after the watermark, oldest first.
Fetch ==
  LET n == IF watermark + cap < posted THEN watermark + cap ELSE posted IN
  /\ Recovering("fetch") /\ watermark # 0
  /\ \/ /\ watermark >= posted
        /\ EndPass("complete")
     \/ /\ watermark < posted
        /\ Step([step |-> "process", next |-> watermark + 1, last |-> n,
                 full |-> n = watermark + cap])
  /\ UNCHANGED <<chan, hist, handler, env>>

\* The watcher catches a fetch that raises and logs it; an error log that
\* fails too ends the watcher for this connection.
FetchRaises ==
  /\ Recovering("fetch") /\ worker = "retry"
  /\ Fail
  /\ \/ EndPass("failed") /\ UNCHANGED logs
     \/ /\ logs > 0 /\ logs' = logs - 1
        /\ worker' = "dead" /\ walk' = NoWalk
        /\ Release /\ UNCHANGED <<startGen, barrier>>
  /\ UNCHANGED <<chan, hist, handler, orderly, drops>>

Recover ==
  LET m == walk.next IN
  /\ Recovering("process")
  /\ \/ /\ done' = done \cup {m}
        /\ Step([walk EXCEPT !.step = "set"])
        /\ UNCHANGED <<held, failures, logs>>
     \/ /\ Fail
        /\ Hold(m) /\ EndPass("failed")
        /\ UNCHANGED <<done, logs>>
     \/ /\ Fail /\ logs > 0 /\ logs' = logs - 1
        /\ Step([walk EXCEPT !.step = "log"])
        /\ UNCHANGED <<done, held>>
  /\ UNCHANGED <<cap, posted, watermark, base, unreported, handler, orderly,
                 drops>>

\* Mutant: the walk goes on past the end of its snapshot.
RecoverMarkPastEnd ==
  LET m == walk.next IN
  /\ Recovering("set")
  /\ watermark' = m
  /\ IF m > walk.last
     THEN EndPass(IF walk.full THEN "capped" ELSE "complete")
     ELSE Step([walk EXCEPT !.step = "process", !.next = m + 1])
  /\ UNCHANGED <<cap, posted, done, hist, handler, env>>
RecoverMark ==
  LET m == walk.next IN
  /\ Recovering("set")
  /\ \/ /\ watermark' = m
        /\ IF m = walk.last
           THEN EndPass(IF walk.full THEN "capped" ELSE "complete")
           ELSE Step([walk EXCEPT !.step = "process", !.next = m + 1])
        /\ UNCHANGED failures
     \/ /\ Fail
        /\ watermark' \in {watermark, m}
        /\ Step([walk EXCEPT !.step = "log"])
  /\ UNCHANGED <<cap, posted, done, hist, handler, orderly, drops, logs>>

Reset == /\ handler' = [m \in Msgs |-> "none"]
         /\ holder' = Nobody /\ queue' = <<>>
         /\ worker' = "down" /\ walk' = NoWalk

\* The except branch of the walk.  A log that fails leaves _recover_channel:
\* at start-up the whole loop, in a retry the watcher's own except, whose log
\* may fail as well.
RecoverLog ==
  /\ Recovering("log")
  /\ \/ /\ EndPass("failed") /\ Hold(walk.next)
        /\ UNCHANGED <<handler, logs>>
     \/ /\ logs > 0 /\ logs' = logs - 1
        /\ worker = "retry"
        /\ EndPass("failed") /\ Hold(walk.next)
        /\ UNCHANGED handler
     \/ /\ logs > 1 /\ logs' = logs - 2
        /\ worker = "retry"
        /\ worker' = "dead" /\ walk' = NoWalk
        /\ Release /\ UNCHANGED <<startGen, barrier, held, handler>>
     \/ /\ logs > 0 /\ logs' = logs - 1
        /\ worker = "startup"
        /\ Reset /\ UNCHANGED <<startGen, barrier, held>>
  /\ UNCHANGED <<chan, base, unreported, orderly, failures, drops>>

-----------------------------------------------------------------------------
(* The retry watcher: _retry_recovery_channel *)

Watch ==
  /\ worker = "watch"
  /\ \/ /\ blocked
        /\ startGen' = generation
        /\ worker' = "backoff"
        /\ UNCHANGED wake
     \/ /\ ~blocked
        /\ wake' = FALSE
        /\ worker' = "idle"
        /\ UNCHANGED startGen
  /\ UNCHANGED <<chan, hist, handler, lock, blocked, generation, walk, env>>

Woken ==
  /\ worker = "idle" /\ wake
  /\ worker' = "watch"
  /\ UNCHANGED <<chan, hist, handler, lock, barrier, walk, startGen, env>>

\* The backoff runs out, or a live failure cuts it short.
BackedOff ==
  /\ worker = "backoff"
  /\ wake' = FALSE
  /\ worker' = "retry" /\ walk' = [NoWalk EXCEPT !.step = "fetch"]
  /\ Acquire(Worker)
  /\ UNCHANGED <<chan, hist, handler, blocked, generation, startGen, env>>

-----------------------------------------------------------------------------
(* The connection: TelegramChannelWorker.run, _run_telegram_loop *)

\* The lock is taken before the handler is registered and the recovery runs.
Connect ==
  /\ worker = "down"
  /\ worker' = "startup" /\ walk' = [NoWalk EXCEPT !.step = "fetch"]
  /\ startGen' = 0
  /\ blocked' = TRUE /\ generation' = 0 /\ wake' = FALSE
  /\ Acquire(Worker)
  /\ UNCHANGED <<chan, hist, handler, env>>

\* The connection drops, the start-up raises, or the process dies.  Handlers
\* are cancelled with their client, the watcher by the loop; a save that was
\* under way and still reaches the disk is that step followed by this one.
Disconnect ==
  /\ worker # "down" /\ drops > 0
  /\ drops' = drops - 1
  /\ Reset
  /\ UNCHANGED <<chan, hist, barrier, startGen, orderly, failures, logs>>

-----------------------------------------------------------------------------
Init ==
  /\ cap \in Caps
  /\ posted \in StartPosts
  /\ watermark \in {0, posted}
  /\ done = {} /\ base = watermark
  /\ held = {} /\ unreported = {}
  /\ handler = [m \in Msgs |-> "none"]
  /\ holder = Nobody /\ queue = <<>>
  /\ blocked = TRUE /\ generation = 0 /\ wake = FALSE
  /\ worker = "down" /\ walk = NoWalk /\ startGen = 0
  /\ orderly \in Orders
  /\ failures = MaxFailures /\ drops = MaxDrops /\ logs \in {0, MaxLogs}

HandlerStep(m) == GetChat(m) \/ Process(m) \/ SetMark(m) \/ LogFailure(m)
WorkerStep == \/ Connect \/ Seed \/ Fetch \/ FetchRaises \/ Recover
              \/ RecoverMark \/ RecoverLog \/ Watch \/ Woken \/ BackedOff

Progress == WorkerStep \/ \E m \in Msgs : HandlerStep(m)

Next == Post \/ Disconnect \/ Progress

Spec == Init /\ [][Next]_vars

\* Every await of the handlers and of the recovery is bounded by a timeout,
\* the lock is fair, the backoff and the reconnect delay are finite: while
\* any task can move, one of them does.
FairSpec == Spec /\ WF_vars(Progress)

-----------------------------------------------------------------------------
(* Properties *)

\* Every variable keeps its type; the lock's holder and waiters are tasks of
\* the current connection.
TypeOK ==
  /\ cap \in Nat \ {0}
  /\ posted \in 0..MaxMsg /\ watermark \in 0..MaxMsg /\ base \in 0..MaxMsg
  /\ done \subseteq Msgs /\ held \subseteq Msgs /\ unreported \subseteq Msgs
  /\ handler \in [Msgs -> HandlerStates]
  /\ holder \in Msgs \cup {Worker, Nobody}
  /\ queue \in Seq(Msgs \cup {Worker})
  /\ blocked \in BOOLEAN /\ generation \in Nat /\ wake \in BOOLEAN
  /\ worker \in WorkerStates /\ walk \in Walk /\ startGen \in Nat
  /\ orderly \in BOOLEAN
  /\ failures \in Nat /\ drops \in Nat /\ logs \in Nat

\* What the watermark has passed without processing it.
Skipped == {m \in Msgs : base < m /\ m <= watermark} \ done

\* As long as the events' metadata arrives in order, the watermark passes a
\* message unprocessed only when even its failure could not be logged: not by
\* a live success behind a failure, a capped pass, a retry that raced a new
\* failure, or a reconnect in the middle of any of them.
SkipsOnlyUnreported == orderly => Skipped \subseteq unreported

\* Once a failure has raised the barrier before its message, no later step
\* takes the watermark over it, in whatever order messages arrive: not the
\* next live success, a capped recovery, a reconnect.
BarrierProtects ==
  [][\A m \in held \ done : watermark < m => watermark' < m]_vars

\* The start-up race is closed: what is posted after the recovery's snapshot
\* has a live handler, so no message waits for the next restart.
NobodyForgotten ==
  orderly /\ worker \in {"watch", "idle"} /\ ~blocked =>
    \A m \in Msgs : base < m /\ m <= posted /\ m \notin done \cup unreported =>
      handler[m] # "none"

\* Every message posted after the channel was first tracked is processed in
\* the end, through live handling, retry or reconnect, when failures stop and
\* the error log works.
EveryMessageProcessed ==
  orderly /\ logs = 0 =>
    \A m \in Msgs : m <= posted ~> m \in done \/ m <= base

-----------------------------------------------------------------------------
(* What the repository says of the channel and the code does not keep; the  *)
(* README says on which instance TLC refutes it.                            *)

\* The watermark never leaves behind a message nobody will process:
\* "Locking per channel forces messages from the same channel to be processed,
\* and their watermarks advanced, strictly in arrival order", and one that
\* "raises is treated exactly like a failed startup-recovery message"
\* (_handle_live_message).
NoMessageLost == \A m \in Skipped : handler[m] # "none"
=============================================================================
