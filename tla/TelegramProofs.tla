---------------------------- MODULE TelegramProofs ----------------------------
(***************************************************************************)
(* Theorems about TelegramChannel, for every number of messages, every cap *)
(* of a recovery pass, and any number of failures, disconnects and failed  *)
(* log writes.                                                             *)
(***************************************************************************)
EXTENDS TelegramChannel, TLAPS

-----------------------------------------------------------------------------
(* Who has the channel lock, and where a recovery pass is.                  *)

InPass == walk.step \in {"process", "set", "log"}

\* A handler past its lock label has the lock; so has a pass past its fetch,
\* and the start-up recovery throughout.  Without a connection nothing runs.
LockOK ==
  /\ \A m \in Msgs : handler[m] \in {"set", "log"} => holder = m
  /\ InPass \/ worker = "startup" => holder = Worker
  /\ worker = "down" => /\ \A m \in Msgs : handler[m] = "none"
                        /\ holder = Nobody /\ queue = <<>>

\* A pass is somewhere in its snapshot, one message ahead of the watermark.
PassOK ==
  /\ worker \in {"startup", "retry"} <=> walk.step # "none"
  /\ InPass => /\ 1 <= walk.next /\ walk.next <= walk.last
               /\ walk.last <= posted
  /\ walk.step \in {"process", "set"} => walk.next = watermark + 1
  /\ walk.step = "set" => walk.next \in done

LaneInv == TypeOK /\ LockOK /\ PassOK

LEMMA LockTyped ==
  ASSUME TypeOK, NEW x \in Msgs \cup {Worker}
  PROVE  /\ Acquire(x) => /\ holder' \in Msgs \cup {Worker, Nobody}
                          /\ queue' \in Seq(Msgs \cup {Worker})
         /\ Release    => /\ holder' \in Msgs \cup {Worker, Nobody}
                          /\ queue' \in Seq(Msgs \cup {Worker})
<1>1. queue \in Seq(Msgs \cup {Worker}) /\ holder \in Msgs \cup {Worker, Nobody}
  BY DEF TypeOK
<1>2. Acquire(x) => /\ holder' \in Msgs \cup {Worker, Nobody}
                    /\ queue' \in Seq(Msgs \cup {Worker})
  BY <1>1 DEF Acquire
<1>3. CASE queue = <<>>
  BY <1>1, <1>2, <1>3 DEF Release
<1>4. CASE queue # <<>>
  <2>1. Head(queue) \in Msgs \cup {Worker} /\ Tail(queue) \in Seq(Msgs \cup {Worker})
    BY <1>1, <1>4
  <2> QED BY <1>2, <1>4, <2>1 DEF Release
<1> QED BY <1>3, <1>4

LEMMA NoWalkTyped == /\ NoWalk \in Walk /\ NoWalk.step = "none"
                     /\ [NoWalk EXCEPT !.step = "fetch"] \in Walk
                     /\ [NoWalk EXCEPT !.step = "fetch"].step = "fetch"
<1>1. 0 \in 0..MaxMsg
  BY ChannelAssumption
<1> QED BY <1>1 DEF NoWalk, Walk

LEMMA TypeStep ==
  ASSUME LaneInv, [Next]_vars PROVE TypeOK'
<1> USE DEF TypeOK, HandlerStates, WorkerStates
<1>0. /\ MaxMsg \in Nat /\ Caps \subseteq Nat \ {0}
      /\ TypeOK /\ LockOK /\ PassOK /\ walk \in Walk
      /\ walk.next \in 0..MaxMsg /\ walk.last \in 0..MaxMsg
      /\ walk.full \in BOOLEAN
  BY ChannelAssumption DEF LaneInv, Walk
<1>a. ASSUME NEW m \in Msgs, Hold(m) PROVE held' \subseteq Msgs
  BY <1>0, <1>a DEF Hold
<1>b. ASSUME NEW m \in Msgs, RaiseBarrier(m)
      PROVE  /\ held' \subseteq Msgs /\ blocked' \in BOOLEAN
             /\ generation' \in Nat /\ wake' \in BOOLEAN
  BY <1>0, <1>a, <1>b DEF RaiseBarrier
<1>c. ASSUME NEW m \in Msgs, Leave(m)
      PROVE  /\ handler' \in [Msgs -> HandlerStates]
             /\ holder' \in Msgs \cup {Worker, Nobody}
             /\ queue' \in Seq(Msgs \cup {Worker})
  BY <1>0, <1>c, LockTyped DEF Leave
<1>d. ASSUME NEW m \in Msgs, NEW l \in HandlerStates, Turn(m, l)
      PROVE  /\ handler' \in [Msgs -> HandlerStates]
             /\ holder' \in Msgs \cup {Worker, Nobody}
             /\ queue' \in Seq(Msgs \cup {Worker})
  BY <1>0, <1>d DEF Turn, lock
<1>e. ASSUME NEW o, EndPass(o)
      PROVE  /\ holder' \in Msgs \cup {Worker, Nobody}
             /\ queue' \in Seq(Msgs \cup {Worker})
             /\ blocked' \in BOOLEAN /\ generation' \in Nat
             /\ wake' \in BOOLEAN /\ worker' \in WorkerStates
             /\ walk' \in Walk /\ startGen' \in Nat
  BY <1>0, <1>e, LockTyped, NoWalkTyped DEF EndPass
<1>f. ASSUME NEW w \in Walk, Step(w)
      PROVE  /\ holder' \in Msgs \cup {Worker, Nobody}
             /\ queue' \in Seq(Msgs \cup {Worker})
             /\ blocked' \in BOOLEAN /\ generation' \in Nat
             /\ wake' \in BOOLEAN /\ worker' \in WorkerStates
             /\ walk' \in Walk /\ startGen' \in Nat
  BY <1>0, <1>f DEF Step, lock, barrier
<1>g. ASSUME Release /\ worker' = "dead" /\ walk' = NoWalk
             /\ UNCHANGED <<startGen, barrier>>
      PROVE  /\ holder' \in Msgs \cup {Worker, Nobody}
             /\ queue' \in Seq(Msgs \cup {Worker})
             /\ blocked' \in BOOLEAN /\ generation' \in Nat
             /\ wake' \in BOOLEAN /\ worker' \in WorkerStates
             /\ walk' \in Walk /\ startGen' \in Nat
  BY <1>0, <1>g, LockTyped, NoWalkTyped DEF barrier
<1>h. ASSUME Reset
      PROVE  /\ handler' \in [Msgs -> HandlerStates]
             /\ holder' \in Msgs \cup {Worker, Nobody}
             /\ queue' \in Seq(Msgs \cup {Worker})
             /\ worker' \in WorkerStates /\ walk' \in Walk
  BY <1>0, <1>h, NoWalkTyped DEF Reset
<1>i. \A s \in {"set", "log"} : [walk EXCEPT !.step = s] \in Walk
  BY <1>0 DEF Walk
<1>1. CASE UNCHANGED vars
  BY <1>0, <1>1 DEF vars, chan, hist, lock, barrier, task, env
<1>2. CASE Post
  BY <1>0, <1>2 DEF Post, hist, lock, barrier, task, env, Msgs
<1>3. CASE Disconnect
  BY <1>0, <1>3, <1>h DEF Disconnect, chan, hist, barrier
<1>4. ASSUME NEW m \in Msgs, GetChat(m) PROVE TypeOK'
  BY <1>0, <1>4, LockTyped DEF GetChat, chan, hist, barrier, task, env
<1>5. ASSUME NEW m \in Msgs, Process(m) PROVE TypeOK'
  <2>1. /\ handler' \in [Msgs -> HandlerStates]
        /\ holder' \in Msgs \cup {Worker, Nobody}
        /\ queue' \in Seq(Msgs \cup {Worker})
    BY <1>5, <1>c, <1>d DEF Process
  <2>2. /\ held' \subseteq Msgs /\ blocked' \in BOOLEAN
        /\ generation' \in Nat /\ wake' \in BOOLEAN
    BY <1>0, <1>5, <1>b DEF Process, barrier
  <2>3. /\ done' \subseteq Msgs /\ failures' \in Nat /\ logs' \in Nat
    BY <1>0, <1>5 DEF Process, Fail
  <2> QED BY <1>0, <1>5, <2>1, <2>2, <2>3 DEF Process, task
<1>6. ASSUME NEW m \in Msgs, SetMark(m) PROVE TypeOK'
  <2>1. /\ handler' \in [Msgs -> HandlerStates]
        /\ holder' \in Msgs \cup {Worker, Nobody}
        /\ queue' \in Seq(Msgs \cup {Worker})
    BY <1>6, <1>c, <1>d DEF SetMark
  <2>2. watermark' \in 0..MaxMsg /\ failures' \in Nat
    BY <1>0, <1>6 DEF SetMark, Fail, Msgs
  <2> QED BY <1>0, <1>6, <2>1, <2>2 DEF SetMark, task, hist, barrier
<1>7. ASSUME NEW m \in Msgs, LogFailure(m) PROVE TypeOK'
  <2>1. /\ handler' \in [Msgs -> HandlerStates]
        /\ holder' \in Msgs \cup {Worker, Nobody}
        /\ queue' \in Seq(Msgs \cup {Worker})
    BY <1>7, <1>c DEF LogFailure
  <2>2. /\ held' \subseteq Msgs /\ blocked' \in BOOLEAN
        /\ generation' \in Nat /\ wake' \in BOOLEAN
        /\ unreported' \subseteq Msgs /\ logs' \in Nat
    BY <1>0, <1>7, <1>b DEF LogFailure, barrier
  <2> QED BY <1>0, <1>7, <2>1, <2>2 DEF LogFailure, task, chan
<1>8. CASE Connect
  BY <1>0, <1>8, LockTyped, NoWalkTyped DEF Connect, chan, hist, env
<1>10. CASE Seed
  BY <1>0, <1>e, <1>10 DEF Seed, env
<1>11. CASE Fetch
  <2>1. CASE EndPass("complete") /\ UNCHANGED <<chan, hist, handler, env>>
    BY <1>0, <1>e, <2>1 DEF chan, hist, env
  <2>2. CASE ~EndPass("complete")
    <3> DEFINE n == IF watermark + cap < posted THEN watermark + cap ELSE posted
               w == [step |-> "process", next |-> watermark + 1, last |-> n,
                     full |-> n = watermark + cap]
    <3>1. /\ Step(w) /\ watermark < posted
          /\ UNCHANGED <<chan, hist, handler, env>>
      BY <1>11, <2>2 DEF Fetch
    <3>2. n \in 0..MaxMsg /\ watermark + 1 \in 0..MaxMsg
      BY <1>0, <3>1
    <3>3. w \in Walk
      BY <3>2 DEF Walk
    <3> QED BY <1>0, <1>f, <3>1, <3>3 DEF chan, hist, env
  <2> QED BY <1>11, <2>1, <2>2 DEF Fetch
<1>12. CASE FetchRaises
  <2>1. /\ holder' \in Msgs \cup {Worker, Nobody}
        /\ queue' \in Seq(Msgs \cup {Worker})
        /\ blocked' \in BOOLEAN /\ generation' \in Nat
        /\ wake' \in BOOLEAN /\ worker' \in WorkerStates
        /\ walk' \in Walk /\ startGen' \in Nat
    BY <1>12, <1>e, <1>g DEF FetchRaises
  <2>2. failures' \in Nat /\ logs' \in Nat
    BY <1>0, <1>12 DEF FetchRaises, Fail
  <2> QED BY <1>0, <1>12, <2>1, <2>2 DEF FetchRaises, chan, hist
<1>13. CASE Recover
  <2>1. walk.next \in Msgs
    BY <1>0, <1>13 DEF Recover, Recovering, PassOK, InPass, Msgs
  <2>2. /\ holder' \in Msgs \cup {Worker, Nobody}
        /\ queue' \in Seq(Msgs \cup {Worker})
        /\ blocked' \in BOOLEAN /\ generation' \in Nat
        /\ wake' \in BOOLEAN /\ worker' \in WorkerStates
        /\ walk' \in Walk /\ startGen' \in Nat
    BY <1>13, <1>e, <1>f, <1>i DEF Recover
  <2>3. /\ done' \subseteq Msgs /\ failures' \in Nat /\ logs' \in Nat
        /\ held' \subseteq Msgs
    BY <1>0, <1>13, <1>a, <2>1 DEF Recover, Fail
  <2> QED BY <1>0, <1>13, <2>2, <2>3 DEF Recover
<1>14. CASE RecoverMark
  <2>1. /\ walk.next \in Msgs /\ walk.next <= walk.last
        /\ watermark' \in 0..MaxMsg /\ failures' \in Nat
    BY <1>0, <1>14 DEF RecoverMark, Recovering, PassOK, InPass, Msgs, Fail
  <2>2. walk.next # walk.last =>
          [walk EXCEPT !.step = "process", !.next = walk.next + 1] \in Walk
    <3> SUFFICES ASSUME walk.next # walk.last
                 PROVE  [walk EXCEPT !.step = "process",
                                     !.next = walk.next + 1] \in Walk
      OBVIOUS
    <3>1. walk.next + 1 \in 0..MaxMsg
      BY <1>0, <2>1 DEF Msgs
    <3> QED BY <1>0, <3>1 DEF Walk
  <2>3. /\ holder' \in Msgs \cup {Worker, Nobody}
        /\ queue' \in Seq(Msgs \cup {Worker})
        /\ blocked' \in BOOLEAN /\ generation' \in Nat
        /\ wake' \in BOOLEAN /\ worker' \in WorkerStates
        /\ walk' \in Walk /\ startGen' \in Nat
    BY <1>14, <1>e, <1>f, <1>i, <2>2 DEF RecoverMark
  <2> QED BY <1>0, <1>14, <2>1, <2>3 DEF RecoverMark, hist
<1>15. CASE RecoverLog
  <2>1. walk.next \in Msgs
    BY <1>0, <1>15 DEF RecoverLog, Recovering, PassOK, InPass, Msgs
  <2>2. /\ holder' \in Msgs \cup {Worker, Nobody}
        /\ queue' \in Seq(Msgs \cup {Worker})
        /\ worker' \in WorkerStates /\ walk' \in Walk
        /\ handler' \in [Msgs -> HandlerStates]
    BY <1>0, <1>15, <1>e, <1>g, <1>h DEF RecoverLog
  <2>3. /\ blocked' \in BOOLEAN /\ generation' \in Nat
        /\ wake' \in BOOLEAN /\ startGen' \in Nat
    BY <1>0, <1>15, <1>e DEF RecoverLog, barrier
  <2>4. held' \subseteq Msgs /\ logs' \in Nat
    BY <1>0, <1>15, <1>a, <2>1 DEF RecoverLog
  <2> QED BY <1>0, <1>15, <2>2, <2>3, <2>4 DEF RecoverLog, chan
<1>16. CASE Watch \/ Woken
  BY <1>0, <1>16 DEF Watch, Woken, chan, hist, lock, barrier, env
<1>17. CASE BackedOff
  BY <1>0, <1>17, LockTyped, NoWalkTyped DEF BackedOff, chan, hist, env
<1> QED BY <1>1, <1>2, <1>3, <1>4, <1>5, <1>6, <1>7, <1>8, <1>10, <1>11,
           <1>12, <1>13, <1>14, <1>15, <1>16, <1>17
        DEF Next, Progress, HandlerStep, WorkerStep

LEMMA NoWalkFields == /\ NoWalk.step = "none" /\ NoWalk.full = FALSE
                      /\ [NoWalk EXCEPT !.step = "fetch"].step = "fetch"
BY DEF NoWalk

\* Who runs when a handler, or the recovery, makes a step under the lock.
LEMMA OneRuns ==
  ASSUME LaneInv
  PROVE  /\ \A m \in Msgs : holder = m => ~InPass /\ worker # "startup"
         /\ \A m \in Msgs : handler[m] \in {"set", "log"} =>
              /\ ~InPass /\ worker \notin {"startup", "down"}
              /\ \A k \in Msgs : handler[k] \in {"set", "log"} => k = m
         /\ holder = Worker =>
              \A m \in Msgs : handler[m] \notin {"set", "log"}
         /\ \A m \in Msgs : handler[m] # "none" => worker # "down"
BY ChannelAssumption DEF LaneInv, LockOK

LEMMA LockStep ==
  ASSUME LaneInv, [Next]_vars PROVE LockOK'
<1>0. /\ LockOK /\ TypeOK /\ handler \in [Msgs -> HandlerStates]
      /\ Worker \notin Msgs
  BY ChannelAssumption DEF LaneInv, TypeOK
<1>a. ASSUME NEW m \in Msgs, Leave(m), holder = m,
             UNCHANGED <<worker, walk>>, handler[m] # "none"
      PROVE  LockOK'
  BY <1>0, <1>a, OneRuns DEF Leave, LockOK, InPass
<1>b. ASSUME NEW m \in Msgs, NEW l \in HandlerStates, Turn(m, l), holder = m,
             UNCHANGED <<worker, walk>>, handler[m] # "none"
      PROVE  LockOK'
  BY <1>0, <1>b, OneRuns DEF Turn, LockOK, InPass, lock
<1>c. ASSUME holder = Worker, worker' \in {"watch", "dead"}, walk' = NoWalk,
             UNCHANGED handler
      PROVE  LockOK'
  BY <1>0, <1>c, OneRuns, NoWalkFields DEF LockOK, InPass
<1>d. ASSUME Reset PROVE LockOK'
  BY <1>0, <1>d, NoWalkFields DEF LockOK, Reset, InPass
<1>e. ASSUME NEW w, Step(w), holder = Worker, UNCHANGED handler,
             worker # "down"
      PROVE  LockOK'
  BY <1>0, <1>e, OneRuns DEF LockOK, Step, lock, InPass
<1>1. CASE UNCHANGED vars
  BY <1>0, <1>1 DEF vars, lock, task, LockOK, InPass
<1>2. CASE Post
  <2>1. posted' = posted + 1 /\ UNCHANGED <<holder, queue, worker, walk>>
    BY <1>2 DEF Post, lock, task
  <2>2. \A m \in Msgs : \/ handler'[m] = handler[m]
                        \/ worker # "down" /\ handler'[m] = "chat"
    BY <1>0, <1>2 DEF Post
  <2> QED BY <1>0, <2>1, <2>2 DEF LockOK, InPass
<1>3. CASE Disconnect
  BY <1>3, <1>d DEF Disconnect
<1>4. ASSUME NEW m \in Msgs, GetChat(m) PROVE LockOK'
  <2>1. /\ \A k \in Msgs : \/ handler'[k] = handler[k]
                           \/ handler'[k] = "lock"
        /\ holder' = holder \/ holder = Nobody
        /\ UNCHANGED <<worker, walk>> /\ worker # "down"
    BY <1>0, <1>4, OneRuns DEF GetChat, Acquire, task
  <2> QED BY <1>0, <2>1, ChannelAssumption DEF LockOK, InPass
<1>5. ASSUME NEW m \in Msgs, Process(m) PROVE LockOK'
  BY <1>5, <1>a, <1>b DEF Process, task, HandlerStates
<1>6. ASSUME NEW m \in Msgs, SetMark(m) PROVE LockOK'
  <2>1. holder = m
    BY <1>0, <1>6 DEF SetMark, LockOK
  <2> QED BY <1>6, <1>a, <1>b, <2>1 DEF SetMark, task, HandlerStates
<1>7. ASSUME NEW m \in Msgs, LogFailure(m) PROVE LockOK'
  <2>1. holder = m
    BY <1>0, <1>7 DEF LogFailure, LockOK
  <2> QED BY <1>7, <1>a, <2>1 DEF LogFailure, task
<1>8. CASE Connect
  <2>1. holder' = Worker /\ worker' = "startup" /\ UNCHANGED handler
    BY <1>0, <1>8 DEF Connect, LockOK, Acquire
  <2> QED BY <1>0, <1>8, <2>1 DEF LockOK, Connect
<1>9. CASE Seed
  BY <1>9, <1>c DEF Seed, Recovering, EndPass
<1>10. CASE Fetch
  BY <1>10, <1>c, <1>e DEF Fetch, Recovering, EndPass
<1>11. CASE FetchRaises
  BY <1>11, <1>c DEF FetchRaises, Recovering, EndPass
<1>12. CASE Recover
  BY <1>12, <1>c, <1>e DEF Recover, Recovering, EndPass
<1>13. CASE RecoverMark
  BY <1>13, <1>c, <1>e DEF RecoverMark, Recovering, EndPass
<1>14. CASE RecoverLog
  BY <1>14, <1>c, <1>d DEF RecoverLog, Recovering, EndPass
<1>15. CASE Watch \/ Woken
  BY <1>0, <1>15 DEF Watch, Woken, LockOK, InPass, lock
<1>16. CASE BackedOff
  <2>1. walk'.step = "fetch" /\ worker' = "retry" /\ UNCHANGED handler
    BY <1>16, NoWalkFields DEF BackedOff
  <2>2. holder' = holder \/ holder = Nobody
    BY <1>16 DEF BackedOff, Acquire
  <2> QED BY <1>0, <2>1, <2>2, ChannelAssumption DEF LockOK, InPass
<1> QED BY <1>1, <1>2, <1>3, <1>4, <1>5, <1>6, <1>7, <1>8, <1>9, <1>10,
           <1>11, <1>12, <1>13, <1>14, <1>15, <1>16
        DEF Next, Progress, HandlerStep, WorkerStep

LEMMA PassStep ==
  ASSUME LaneInv, [Next]_vars PROVE PassOK'
<1>0. /\ LockOK /\ PassOK /\ walk \in Walk /\ watermark \in Nat /\ posted \in Nat
      /\ cap \in Nat \ {0}
      /\ walk.next \in Nat /\ walk.last \in Nat
  BY ChannelAssumption DEF LaneInv, TypeOK, Walk
<1>a. ASSUME worker' \in {"watch", "dead", "down"}, walk' = NoWalk
      PROVE  PassOK'
  BY <1>a, NoWalkFields DEF PassOK, InPass
<1>b. ASSUME walk'.step = "fetch", worker' \in {"startup", "retry"}
      PROVE  PassOK'
  BY <1>b DEF PassOK, InPass
\* Out of a pass, the watermark moves freely.
<1>c. ASSUME UNCHANGED <<worker, walk>>, posted' \in Nat, posted <= posted',
             done \subseteq done', ~InPass \/ UNCHANGED watermark
      PROVE  PassOK'
  BY <1>0, <1>c DEF PassOK, InPass
<1>1. CASE UNCHANGED vars
  BY <1>0, <1>1, <1>c DEF vars, chan, task
<1>2. CASE Post
  BY <1>0, <1>2, <1>c DEF Post, task
<1>3. CASE Disconnect
  BY <1>3, <1>a DEF Disconnect, Reset
<1>4. ASSUME NEW m \in Msgs, HandlerStep(m) PROVE PassOK'
  <2>1. /\ UNCHANGED <<worker, walk, posted>> /\ done \subseteq done'
        /\ ~InPass \/ UNCHANGED watermark
    BY <1>4, OneRuns
       DEF HandlerStep, GetChat, Process, SetMark, LogFailure, chan, task
  <2> QED BY <1>0, <1>c, <2>1
<1>5. CASE Connect \/ BackedOff
  BY <1>5, <1>b, NoWalkFields DEF Connect, BackedOff
<1>6. CASE Seed \/ FetchRaises
  BY <1>6, <1>a DEF Seed, FetchRaises, EndPass
<1>7. CASE Fetch
  <2>1. CASE EndPass("complete")
    BY <1>a, <2>1 DEF EndPass
  <2>2. CASE ~EndPass("complete")
    <3>1. /\ walk'.step = "process" /\ walk'.next = watermark + 1
          /\ walk'.last = IF watermark + cap < posted THEN watermark + cap
                          ELSE posted
          /\ watermark < posted
          /\ UNCHANGED <<worker, watermark, posted, done>>
          /\ worker \in {"startup", "retry"}
      BY <1>7, <2>2 DEF Fetch, Recovering, Step, chan
    <3> QED BY <1>0, <3>1 DEF PassOK, InPass
  <2> QED BY <2>1, <2>2
<1>8. CASE Recover
  <2>1. CASE EndPass("failed")
    BY <1>a, <2>1 DEF EndPass
  <2>2. CASE ~EndPass("failed")
    <3>1. /\ walk'.step \in {"set", "log"} /\ walk'.next = walk.next
          /\ walk'.last = walk.last
          /\ walk'.step = "set" => walk.next \in done'
          /\ walk.step = "process"
          /\ UNCHANGED <<worker, watermark, posted>>
          /\ worker \in {"startup", "retry"}
      BY <1>0, <1>8, <2>2 DEF Recover, Recovering, Step, Walk
    <3> QED BY <1>0, <3>1 DEF PassOK, InPass
  <2> QED BY <2>1, <2>2
<1>9. CASE RecoverMark
  <2>1. CASE walk'.step = "process"
    <3>1. /\ walk'.next = walk.next + 1 /\ walk'.last = walk.last
          /\ walk.next # walk.last /\ walk.step = "set"
          /\ UNCHANGED <<worker, posted>> /\ watermark' = walk.next
          /\ worker \in {"startup", "retry"}
      BY <1>0, <1>9, <2>1, NoWalkFields
         DEF RecoverMark, Recovering, Step, EndPass, Walk
    <3> QED BY <1>0, <2>1, <3>1 DEF PassOK, InPass
  <2>2. CASE walk' = NoWalk /\ worker' = "watch"
    BY <1>a, <2>2
  <2>3. CASE walk'.step = "log" /\ UNCHANGED <<worker, posted>>
    <3>1. /\ walk'.next = walk.next /\ walk'.last = walk.last
          /\ walk.step = "set" /\ worker \in {"startup", "retry"}
      BY <1>0, <1>9, <2>3, NoWalkFields
         DEF RecoverMark, Recovering, Step, EndPass, Walk
    <3> QED BY <1>0, <2>3, <3>1 DEF PassOK, InPass
  <2> QED BY <1>0, <1>9, <2>1, <2>2, <2>3
          DEF RecoverMark, Step, EndPass, Walk
<1>10. CASE RecoverLog
  BY <1>10, <1>a DEF RecoverLog, EndPass, Reset
<1>11. CASE Watch \/ Woken
  <2>1. /\ UNCHANGED <<walk, posted, watermark, done>>
        /\ worker \in {"watch", "idle"} /\ worker' \in {"watch", "idle", "backoff"}
    BY <1>11 DEF Watch, Woken, chan
  <2> QED BY <1>0, <2>1 DEF PassOK, InPass
<1> QED BY <1>1, <1>2, <1>3, <1>4, <1>5, <1>6, <1>7, <1>8, <1>9, <1>10, <1>11
        DEF Next, Progress, WorkerStep

LEMMA LaneInit == Init => LaneInv
<1> SUFFICES ASSUME Init PROVE LaneInv
  OBVIOUS
<1>1. TypeOK
  <2>1. /\ posted \in 0..MaxMsg /\ watermark \in 0..MaxMsg
        /\ base \in 0..MaxMsg /\ cap \in Nat \ {0} /\ orderly \in BOOLEAN
        /\ failures \in Nat /\ drops \in Nat /\ logs \in Nat
    BY ChannelAssumption DEF Init
  <2>2. /\ walk \in Walk /\ worker \in WorkerStates
        /\ handler \in [Msgs -> HandlerStates]
    BY NoWalkTyped DEF Init, HandlerStates, WorkerStates
  <2>3. /\ queue \in Seq(Msgs \cup {Worker})
        /\ holder \in Msgs \cup {Worker, Nobody}
    BY DEF Init
  <2>4. /\ done \subseteq Msgs /\ held \subseteq Msgs
        /\ unreported \subseteq Msgs
        /\ blocked \in BOOLEAN /\ generation \in Nat /\ wake \in BOOLEAN
        /\ startGen \in Nat
    BY DEF Init
  <2> QED BY <2>1, <2>2, <2>3, <2>4 DEF TypeOK
<1>2. LockOK /\ PassOK
  BY NoWalkFields DEF Init, LockOK, PassOK, InPass
<1> QED BY <1>1, <1>2 DEF LaneInv

LEMMA LaneStep == LaneInv /\ [Next]_vars => LaneInv'
BY TypeStep, LockStep, PassStep DEF LaneInv

\* Every variable keeps its type: the lock's holder and its waiters are tasks
\* of the current connection, and a recovery pass stays inside its snapshot.
THEOREM LaneHolds == Spec => []LaneInv
BY LaneInit, LaneStep, PTL DEF Spec

THEOREM ChannelTyped == Spec => []TypeOK
<1>1. LaneInv => TypeOK
  BY DEF LaneInv
<1> QED BY <1>1, LaneHolds, PTL

-----------------------------------------------------------------------------
(* The barrier.  A message whose failure raised it stays in front of the    *)
(* watermark, with the barrier up, until it is processed.                   *)

\* The channel held a message when it was first connected.  Otherwise its
\* watermark is 0, which the code reads as untracked: a failed first message
\* is then covered by the next seeding.
Tracked == 0 \notin StartPosts

\* The messages the barrier is up for.
Owing == held \ done

PostedOK ==
  /\ \A m \in Msgs : handler[m] # "none" => m <= posted
  /\ \A m \in held : m <= posted
  /\ 1 <= posted /\ watermark <= posted
  /\ watermark = 0 => /\ held = {}
                      /\ \/ worker = "down"
                         \/ worker = "startup" /\ walk.step = "fetch"

\* An uncapped pass has every such message in its snapshot, so that it may
\* release the barrier when it has walked it.
BarrierOK ==
  /\ worker \in {"startup", "backoff", "retry"} => blocked
  /\ Owing # {} => blocked
  /\ \A m \in Owing : watermark < m
  /\ \A k \in Msgs : handler[k] = "set" => Owing = {}
  /\ InPass /\ ~walk.full => \A m \in Owing : m <= walk.last

BarrierInv == LaneInv /\ PostedOK /\ BarrierOK

LEMMA PostedStep ==
  ASSUME BarrierInv, [Next]_vars PROVE PostedOK'
<1>0. /\ LaneInv /\ PostedOK /\ PassOK /\ LockOK
      /\ watermark \in Nat /\ posted \in Nat /\ walk \in Walk
      /\ MaxMsg \in Nat
      /\ handler \in [Msgs -> HandlerStates] /\ held \subseteq Msgs
  BY ChannelAssumption DEF BarrierInv, LaneInv, TypeOK
<1>00. walk.next \in Nat /\ walk.last \in Nat
  BY <1>0, ChannelAssumption DEF Walk
<1>01. \A m \in Msgs : m \in Nat /\ 1 <= m
  BY <1>0 DEF Msgs
<1>z. watermark = 0 => /\ worker \in {"down", "startup"} /\ ~InPass
                       /\ \A m \in Msgs : holder # m
                       /\ \A m \in Msgs : handler[m] \notin {"set", "log"}
  BY <1>0, ChannelAssumption DEF PostedOK, LockOK, InPass
\* What the failure of a message that was posted leaves.
<1>a. ASSUME UNCHANGED posted, held' \subseteq held \cup {m \in Msgs : m <= posted},
             watermark' <= posted, watermark' # 0,
             \A k \in Msgs : handler'[k] # "none" => handler[k] # "none"
      PROVE  PostedOK'
  BY <1>0, <1>a DEF PostedOK
<1>1. CASE UNCHANGED vars
  BY <1>0, <1>1 DEF vars, chan, hist, task, PostedOK
<1>2. CASE Post
  <2>1. /\ posted' = posted + 1 /\ UNCHANGED <<watermark, held, worker, walk>>
    BY <1>2 DEF Post, hist, task
  <2>2. \A m \in Msgs : \/ handler'[m] = handler[m]
                        \/ m = posted + 1
    BY <1>0, <1>2 DEF Post
  <2> QED BY <1>0, <1>01, <2>1, <2>2 DEF PostedOK
<1>3. CASE Disconnect
  <2>1. UNCHANGED <<posted, watermark, held>> /\ worker' = "down"
    BY <1>3 DEF Disconnect, Reset, chan, hist
  <2>2. \A m \in Msgs : handler'[m] = "none"
    BY <1>3 DEF Disconnect, Reset
  <2> QED BY <1>0, <2>1, <2>2 DEF PostedOK
<1>4. ASSUME NEW m \in Msgs, GetChat(m) PROVE PostedOK'
  <2>1. /\ UNCHANGED <<posted, watermark, held, worker, walk>>
        /\ \A k \in Msgs : handler'[k] # "none" => handler[k] # "none"
    BY <1>0, <1>4 DEF GetChat, chan, hist, task
  <2> QED BY <1>0, <2>1 DEF PostedOK
<1>5. ASSUME NEW m \in Msgs, Process(m) \/ SetMark(m) \/ LogFailure(m)
      PROVE  PostedOK'
  <2>1. handler[m] # "none" /\ holder = m
    BY <1>0, <1>5 DEF Process, SetMark, LogFailure, LockOK
  <2>2. m <= posted /\ watermark # 0 /\ watermark <= posted
    BY <1>0, <1>z, <2>1 DEF PostedOK
  <2>3. /\ UNCHANGED posted
        /\ \A k \in Msgs : handler'[k] # "none" => handler[k] # "none"
    BY <1>0, <1>5, <2>1
       DEF Process, SetMark, LogFailure, Leave, Turn, chan
  <2>4. held' \subseteq held \cup {m}
    BY <1>5 DEF Process, SetMark, LogFailure, RaiseBarrier, Hold, hist
  <2>5. watermark' \in {watermark, m}
    BY <1>5 DEF Process, SetMark, LogFailure, chan
  <2> QED BY <1>01, <1>a, <2>2, <2>3, <2>4, <2>5
<1>6. CASE Connect
  <2>1. /\ UNCHANGED <<posted, watermark, held, handler>>
        /\ worker' = "startup" /\ walk'.step = "fetch"
    BY <1>6, NoWalkFields DEF Connect, chan, hist
  <2> QED BY <1>0, <2>1 DEF PostedOK
<1>7. CASE Seed
  BY <1>0, <1>7, <1>a DEF Seed, PostedOK
<1>8. CASE Fetch \/ FetchRaises
  <2>1. watermark # 0
    BY <1>0, <1>8 DEF Fetch, FetchRaises, PostedOK
  <2> QED BY <1>0, <1>8, <1>a, <2>1
          DEF Fetch, FetchRaises, PostedOK, chan, hist
<1>9. CASE Recover \/ RecoverMark \/ RecoverLog
  <2>1. /\ InPass /\ watermark # 0 /\ walk.next \in Msgs
        /\ 1 <= walk.next /\ walk.next <= posted /\ watermark <= posted
    <3>1. InPass
      BY <1>9 DEF Recover, RecoverMark, RecoverLog, Recovering, InPass
    <3>2. /\ 1 <= walk.next /\ walk.next <= posted /\ watermark # 0
          /\ watermark <= posted
      BY <1>0, <1>00, <1>z, <3>1 DEF PassOK, PostedOK
    <3>3. posted <= MaxMsg
      BY <1>0 DEF LaneInv, TypeOK
    <3> QED BY <1>0, <1>00, <3>1, <3>2, <3>3 DEF Msgs
  <2>2. UNCHANGED posted /\ held' \subseteq held \cup {walk.next}
    BY <1>9 DEF Recover, RecoverMark, RecoverLog, Hold, chan, hist
  <2>3. watermark' \in {watermark, walk.next}
    BY <1>9 DEF Recover, RecoverMark, RecoverLog, chan
  <2>4. \A k \in Msgs : handler'[k] # "none" => handler[k] # "none"
    BY <1>0, <1>9 DEF Recover, RecoverMark, RecoverLog, Reset
  <2> QED BY <1>00, <1>a, <2>1, <2>2, <2>3, <2>4
<1>10. CASE Watch \/ Woken \/ BackedOff
  <2>1. /\ UNCHANGED <<posted, watermark, held, handler>>
        /\ worker \notin {"down", "startup"}
    BY <1>10 DEF Watch, Woken, BackedOff, chan, hist
  <2>2. watermark # 0
    BY <1>z, <2>1
  <2> QED BY <1>0, <2>1, <2>2 DEF PostedOK
<1> QED BY <1>1, <1>2, <1>3, <1>4, <1>5, <1>6, <1>7, <1>8, <1>9, <1>10
        DEF Next, Progress, HandlerStep, WorkerStep

LEMMA BarrierStep ==
  ASSUME BarrierInv, [Next]_vars PROVE BarrierOK'
<1>0. /\ LaneInv /\ PostedOK /\ BarrierOK /\ PassOK /\ LockOK
      /\ watermark \in Nat /\ posted \in Nat /\ walk \in Walk
      /\ handler \in [Msgs -> HandlerStates] /\ held \subseteq Msgs
      /\ cap \in Nat
  BY ChannelAssumption DEF BarrierInv, LaneInv, TypeOK
<1>00. walk.next \in Nat /\ walk.last \in Nat
  BY <1>0, ChannelAssumption DEF Walk
<1>01. \A m \in Msgs : m \in Nat /\ 1 <= m
  BY <1>0, ChannelAssumption DEF Msgs
<1>a. ASSUME NEW o, EndPass(o), holder = Worker, UNCHANGED handler,
             blocked, \A m \in Owing' : watermark' < m,
             o = "complete" => Owing' = {}
      PROVE  BarrierOK'
  <2>1. /\ worker' = "watch" /\ walk'.step = "none"
        /\ Owing' # {} => blocked'
    BY <1>a, NoWalkFields DEF EndPass
  <2> QED BY <1>0, <1>a, <2>1, OneRuns DEF BarrierOK, InPass
\* Steps that neither hold a message nor move the watermark nor lower the
\* barrier.
<1>b. ASSUME held' \subseteq held, done \subseteq done', UNCHANGED watermark,
             blocked => blocked',
             worker' \in {"startup", "backoff", "retry"} => blocked',
             \A k \in Msgs : handler'[k] = "set" =>
               handler[k] = "set" \/ ~blocked,
             InPass' => InPass /\ walk'.full = walk.full /\ walk'.last = walk.last
      PROVE  BarrierOK'
  <2>1. Owing' \subseteq Owing
    BY <1>b DEF Owing
  <2> QED BY <1>0, <1>b, <2>1 DEF BarrierOK
\* A message that fails under the lock.
<1>c. ASSUME NEW m \in Msgs, holder = m, RaiseBarrier(m), Leave(m),
             UNCHANGED <<watermark, done, worker, walk>>, handler[m] # "none"
      PROVE  BarrierOK'
  <2>1. /\ blocked' = TRUE /\ held' \subseteq held \cup {m}
        /\ m \in held' \ held => watermark < m
    BY <1>c DEF RaiseBarrier, Hold
  <2>2. \A k \in Msgs : handler'[k] # "set"
    BY <1>0, <1>c DEF Leave, LockOK
  <2>3. ~InPass'
    BY <1>0, <1>c, OneRuns DEF InPass
  <2>4. \A k \in Owing' : watermark' < k
    BY <1>0, <1>c, <2>1 DEF Owing, BarrierOK
  <2> QED BY <2>1, <2>2, <2>3, <2>4 DEF BarrierOK
<1>1. CASE UNCHANGED vars
  BY <1>0, <1>1 DEF vars, chan, hist, barrier, task, BarrierOK, Owing, InPass
<1>2. CASE Post
  <2>1. \A k \in Msgs : handler'[k] = "set" => handler[k] = "set"
    BY <1>0, <1>2 DEF Post
  <2> QED BY <1>0, <1>2, <1>b, <2>1 DEF Post, hist, barrier, task, BarrierOK,
                                        InPass
<1>3. CASE Disconnect
  <2>1. \A k \in Msgs : handler'[k] # "set"
    BY <1>3 DEF Disconnect, Reset
  <2> QED BY <1>0, <1>3, <1>b, <2>1, NoWalkFields
          DEF Disconnect, Reset, chan, hist, barrier, InPass
<1>4. ASSUME NEW m \in Msgs, GetChat(m) PROVE BarrierOK'
  <2>1. \A k \in Msgs : handler'[k] = "set" => handler[k] = "set"
    BY <1>0, <1>4 DEF GetChat
  <2> QED BY <1>0, <1>4, <1>b, <2>1 DEF GetChat, chan, hist, barrier, task,
                                        BarrierOK, InPass
<1>5. ASSUME NEW m \in Msgs, Process(m) PROVE BarrierOK'
  <2>1. CASE RaiseBarrier(m) /\ Leave(m) /\ UNCHANGED done
    BY <1>5, <1>c, <2>1 DEF Process, task
  <2>2. CASE UNCHANGED <<barrier, held>> /\ done \subseteq done'
    <3>1. \A k \in Msgs : handler'[k] = "set" => handler[k] = "set" \/ ~blocked
      BY <1>0, <1>5 DEF Process, Leave, Turn
    <3> QED BY <1>0, <1>5, <1>b, <2>2, <3>1 DEF Process, task, barrier,
                                                BarrierOK, InPass
  <2> QED BY <1>5, <2>1, <2>2 DEF Process
<1>6. ASSUME NEW m \in Msgs, SetMark(m) PROVE BarrierOK'
  <2>1. Owing = {} /\ handler[m] = "set"
    BY <1>0, <1>6 DEF SetMark, BarrierOK
  <2>2. /\ Owing' = {}
        /\ UNCHANGED <<blocked, worker, walk>>
    BY <1>6, <2>1 DEF SetMark, hist, barrier, task, Owing
  <2> QED BY <1>0, <2>2 DEF BarrierOK
<1>7. ASSUME NEW m \in Msgs, LogFailure(m) PROVE BarrierOK'
  <2>0. holder = m /\ handler[m] # "none"
    BY <1>0, <1>7 DEF LogFailure, LockOK
  <2>1. CASE RaiseBarrier(m)
    BY <1>7, <1>c, <2>0, <2>1 DEF LogFailure, task, chan
  <2>2. CASE UNCHANGED <<barrier, held>>
    <3>1. \A k \in Msgs : handler'[k] = "set" => handler[k] = "set" \/ ~blocked
      BY <1>0, <1>7 DEF LogFailure, Leave
    <3> QED BY <1>0, <1>7, <1>b, <2>2, <3>1 DEF LogFailure, task, chan, barrier,
                                                BarrierOK, InPass
  <2> QED BY <1>7, <2>1, <2>2 DEF LogFailure
<1>8. CASE Connect
  BY <1>0, <1>8, <1>b, NoWalkFields DEF Connect, chan, hist, InPass
<1>9. CASE Seed
  <2>1. held = {} /\ blocked /\ holder = Worker
    BY <1>0, <1>9 DEF Seed, Recovering, PostedOK, BarrierOK
  <2>2. Owing' = {} /\ UNCHANGED handler /\ EndPass("complete")
    BY <1>9, <2>1 DEF Seed, Owing
  <2> QED BY <1>a, <2>1, <2>2
<1>10. CASE Fetch
  <2>0. /\ blocked /\ holder = Worker /\ watermark # 0
        /\ UNCHANGED <<handler, held, done, watermark, posted>>
        /\ \A m \in Owing' : watermark' < m /\ m <= posted /\ m \in Nat
    BY <1>0, <1>01, <1>10
       DEF Fetch, Recovering, BarrierOK, PostedOK, chan, hist, Owing
  <2>1. CASE watermark >= posted /\ EndPass("complete")
    <3>1. Owing' = {}
      BY <1>0, <2>0, <2>1
    <3> QED BY <1>a, <2>0, <2>1, <3>1
  <2>2. CASE ~(watermark >= posted /\ EndPass("complete"))
    <3> DEFINE n == IF watermark + cap < posted THEN watermark + cap ELSE posted
    <3>0. /\ Step([step |-> "process", next |-> watermark + 1, last |-> n,
                   full |-> n = watermark + cap])
          /\ watermark < posted
      BY <1>10, <2>0, <2>2 DEF Fetch
    <3>1. /\ UNCHANGED <<worker, blocked>>
          /\ ~walk'.full => walk'.last = posted
      BY <1>0, <3>0 DEF Step, barrier
    <3> QED BY <1>0, <2>0, <3>1 DEF BarrierOK, Owing
  <2> QED BY <2>1, <2>2
<1>11. CASE FetchRaises
  <2>0. /\ blocked /\ holder = Worker
        /\ UNCHANGED <<handler, held, done, watermark>>
        /\ \A m \in Owing' : watermark' < m
    BY <1>0, <1>11
       DEF FetchRaises, Recovering, BarrierOK, chan, hist, Owing
  <2>1. CASE EndPass("failed")
    BY <1>a, <2>0, <2>1
  <2>2. CASE ~EndPass("failed")
    BY <1>0, <1>11, <1>b, <2>0, <2>2, NoWalkFields
       DEF FetchRaises, InPass, barrier
  <2> QED BY <2>1, <2>2
<1>12. CASE Recover
  <2>0. /\ blocked /\ holder = Worker /\ InPass
        /\ UNCHANGED <<handler, watermark>> /\ done \subseteq done'
    BY <1>0, <1>12 DEF Recover, Recovering, BarrierOK, InPass
  <2>1. CASE EndPass("failed") /\ Hold(walk.next)
    <3>1. \A m \in Owing' : watermark' < m
      BY <1>0, <2>0, <2>1 DEF Owing, Hold, BarrierOK
    <3> QED BY <1>a, <2>0, <2>1, <3>1
  <2>2. CASE ~(EndPass("failed") /\ Hold(walk.next))
    <3>1. /\ UNCHANGED <<held, blocked, worker>>
          /\ walk'.full = walk.full /\ walk'.last = walk.last
      BY <1>0, <1>12, <2>2 DEF Recover, Step, barrier, Walk
    <3> QED BY <1>0, <1>b, <2>0, <3>1 DEF BarrierOK
  <2> QED BY <2>1, <2>2
<1>13. CASE RecoverMark
  <2>0. /\ blocked /\ holder = Worker /\ InPass
        /\ UNCHANGED <<handler, held, done>>
        /\ walk.next = watermark + 1 /\ walk.next \in done
        /\ watermark' \in {watermark, walk.next}
    BY <1>0, <1>13
       DEF RecoverMark, Recovering, BarrierOK, InPass, PassOK, hist
  <2>1. \A m \in Owing' : watermark' < m /\ m # walk.next /\ m \in Nat
    BY <1>0, <1>00, <1>01, <2>0 DEF Owing, BarrierOK
  <2>2. ASSUME NEW o, EndPass(o), o = "complete" =>
                  ~walk.full /\ walk.next = walk.last /\ watermark' = walk.next
        PROVE  BarrierOK'
    <3>1. o = "complete" => Owing' = {}
      BY <1>0, <1>00, <2>0, <2>1, <2>2 DEF Owing, BarrierOK
    <3> QED BY <1>a, <2>0, <2>1, <2>2, <3>1
  <2>3. ASSUME NEW w, Step(w), w.full = walk.full, w.last = walk.last
        PROVE  BarrierOK'
    BY <1>0, <2>0, <2>1, <2>3 DEF BarrierOK, Step, barrier, Owing
  <2>4. /\ [walk EXCEPT !.step = "log"].full = walk.full
        /\ [walk EXCEPT !.step = "log"].last = walk.last
        /\ [walk EXCEPT !.step = "process", !.next = walk.next + 1].full
             = walk.full
        /\ [walk EXCEPT !.step = "process", !.next = walk.next + 1].last
             = walk.last
    BY <1>0 DEF Walk
  <2> QED BY <1>13, <2>2, <2>3, <2>4 DEF RecoverMark
<1>14. CASE RecoverLog
  <2>0. /\ blocked /\ holder = Worker
        /\ UNCHANGED <<watermark, done>>
    BY <1>0, <1>14 DEF RecoverLog, Recovering, BarrierOK, chan
  <2>1. CASE EndPass("failed") /\ Hold(walk.next)
    <3>1. \A m \in Owing' : watermark' < m
      BY <1>0, <2>0, <2>1 DEF Owing, Hold, BarrierOK
    <3>2. UNCHANGED handler
      BY <1>14, <2>1 DEF RecoverLog, EndPass, Reset
    <3> QED BY <1>a, <2>0, <2>1, <3>1, <3>2
  <2>2. CASE ~(EndPass("failed") /\ Hold(walk.next))
    <3>1. /\ UNCHANGED <<held, blocked>> /\ worker' \in {"dead", "down"}
          /\ walk' = NoWalk
      BY <1>14, <2>2 DEF RecoverLog, Reset, barrier
    <3>2. \A k \in Msgs : handler'[k] = "set" => handler[k] = "set"
      BY <1>14, <2>2 DEF RecoverLog, Reset
    <3> QED BY <1>0, <1>b, <2>0, <3>1, <3>2, NoWalkFields DEF InPass
  <2> QED BY <2>1, <2>2
<1>15. CASE Watch \/ Woken \/ BackedOff
  <2>1. /\ UNCHANGED <<handler, held, done, watermark, blocked>>
        /\ worker' \in {"startup", "backoff", "retry"} => blocked
        /\ InPass' => InPass /\ UNCHANGED walk
    BY <1>0, <1>15, NoWalkFields
       DEF Watch, Woken, BackedOff, BarrierOK, chan, hist, barrier, InPass
  <2> QED BY <1>b, <2>1
<1> QED BY <1>1, <1>2, <1>3, <1>4, <1>5, <1>6, <1>7, <1>8, <1>9, <1>10,
           <1>11, <1>12, <1>13, <1>14, <1>15
        DEF Next, Progress, HandlerStep, WorkerStep

LEMMA BarrierInit == ASSUME Tracked, Init PROVE BarrierInv
<1>1. LaneInv
  BY LaneInit
<1>2. posted \in Nat /\ posted # 0
  BY ChannelAssumption DEF Init, Tracked
<1>3. PostedOK
  BY <1>2 DEF Init, PostedOK
<1>4. BarrierOK
  BY NoWalkFields DEF Init, BarrierOK, Owing, InPass
<1> QED BY <1>1, <1>3, <1>4 DEF BarrierInv

LEMMA BarrierKept == BarrierInv /\ [Next]_vars => BarrierInv'
BY LaneStep, PostedStep, BarrierStep DEF BarrierInv

THEOREM BarrierHolds == ASSUME Tracked PROVE Spec => []BarrierInv
BY BarrierInit, BarrierKept, PTL DEF Spec

\* Once a failure has raised the barrier before its message, no later step
\* takes the watermark over it: not the next live success, a capped recovery,
\* a retry that raced it, or a reconnect, in whatever order messages arrive.
THEOREM BarrierKeepsWatermark ==
  ASSUME Tracked PROVE Spec => BarrierProtects
<1> DEFINE Kept == \A m \in held \ done : watermark < m => watermark' < m
<1>1. BarrierInv /\ [Next]_vars => [Kept]_vars
  <2> SUFFICES ASSUME BarrierInv, [Next]_vars, NEW m \in held \ done
               PROVE  watermark' < m
    OBVIOUS
  <2>1. watermark < m
    BY DEF BarrierInv, BarrierOK, Owing
  <2>2. BarrierInv' /\ held \subseteq held'
    BY BarrierKept
       DEF Next, Progress, HandlerStep, WorkerStep, vars, hist, chan, Post,
           Disconnect, GetChat, Process, SetMark, LogFailure, Connect, Seed,
           Fetch, FetchRaises, Recover, RecoverMark, RecoverLog, Watch, Woken,
           BackedOff, RaiseBarrier, Hold
  <2>3. UNCHANGED done \/ UNCHANGED watermark
    BY DEF Next, Progress, HandlerStep, WorkerStep, vars, hist, chan, Post,
           Disconnect, GetChat, Process, SetMark, LogFailure, Connect, Seed,
           Fetch, FetchRaises, Recover, RecoverMark, RecoverLog, Watch, Woken,
           BackedOff
  <2> QED BY <2>1, <2>2, <2>3 DEF BarrierInv, BarrierOK, Owing
<1>2. Spec => []BarrierInv
  BY BarrierHolds
<1>3. Spec => [][Kept]_vars
  BY <1>1, <1>2, PTL DEF Spec
<1> QED BY <1>3 DEF BarrierProtects

-----------------------------------------------------------------------------
(* Arrival order.  While the events' metadata arrives in order, so do the   *)
(* handlers at the lock, whose queue is FIFO; a message that is passed over *)
(* is then behind the barrier or has a handler of its own.                  *)

InLock == {"lock", "set", "log"}

OrderOK == orderly =>
  /\ \A k, m \in Msgs : handler[m] = "chat" /\ handler[k] \in InLock => k < m
  /\ \A i, j \in 1..Len(queue) :
       i < j /\ queue[i] \in Msgs /\ queue[j] \in Msgs => queue[i] < queue[j]
  /\ \A i \in 1..Len(queue) :
       queue[i] \in Msgs /\ holder \in Msgs => holder < queue[i]
  /\ \A m \in Msgs : handler[m] = "lock" =>
       m = holder \/ \E i \in 1..Len(queue) : queue[i] = m
  /\ \A i \in 1..Len(queue) : queue[i] \in Msgs => handler[queue[i]] = "lock"
  /\ holder \in Msgs => handler[holder] \in InLock
  /\ holder = Nobody => queue = <<>>

\* A message nobody has finished with or given up.
Open(m) == base < m /\ m <= posted /\ m \notin done \cup unreported

\* No open message is behind the watermark, or behind one about to move it.
\* With the barrier down each has a live handler, and so has what arrived
\* since the snapshot of an uncapped pass.
TrailOK == orderly =>
  /\ \A m \in Msgs : Open(m) => watermark < m
  /\ \A k \in Msgs : handler[k] = "set" =>
       k \in done /\ \A m \in Msgs : m < k => ~Open(m)
  /\ ~blocked /\ worker # "down" =>
       \A m \in Msgs : Open(m) => handler[m] # "none"
  /\ InPass /\ ~walk.full =>
       \A m \in Msgs : walk.last < m /\ m <= posted => handler[m] # "none"

OrderInv == BarrierInv /\ OrderOK /\ TrailOK

LEMMA QueueMoves ==
  ASSUME TypeOK
  PROVE  /\ Len(queue) \in Nat
         /\ \A i \in 1..Len(queue) : queue[i] \in Msgs \cup {Worker}
         /\ \A x \in Msgs \cup {Worker} :
              /\ Len(Append(queue, x)) = Len(queue) + 1
              /\ Append(queue, x)[Len(queue) + 1] = x
              /\ \A i \in 1..Len(queue) : Append(queue, x)[i] = queue[i]
         /\ queue # <<>> =>
              /\ 1 <= Len(queue) /\ Head(queue) = queue[1]
              /\ Len(Tail(queue)) = Len(queue) - 1
              /\ \A i \in 1..(Len(queue) - 1) : Tail(queue)[i] = queue[i + 1]
         /\ queue = <<>> => Len(queue) = 0
<1>1. queue \in Seq(Msgs \cup {Worker})
  BY DEF TypeOK
<1> QED BY <1>1

\* The next waiter gets the lock from a handler that ends, or from a pass.
LEMMA ReleaseOrder ==
  ASSUME OrderInv, Release, NEW x \in Msgs \cup {Worker}, holder = x,
         UNCHANGED orderly,
         \A k \in Msgs : handler'[k] = IF k = x THEN "none" ELSE handler[k]
  PROVE  OrderOK'
<1> SUFFICES ASSUME orderly PROVE OrderOK'
  BY DEF OrderOK
<1>0. /\ OrderOK /\ TypeOK /\ Worker \notin Msgs /\ Nobody \notin Msgs
      /\ Worker # Nobody
      /\ \A m \in Msgs : m \in Nat
  BY ChannelAssumption DEF OrderInv, BarrierInv, LaneInv, Msgs
<1>1. CASE queue = <<>>
  <2>1. holder' = Nobody /\ queue' = <<>> /\ Len(queue) = 0 /\ queue' = queue
    BY <1>0, <1>1, QueueMoves DEF Release
  <2> QED BY <1>0, <2>1 DEF OrderOK, InLock
<1>2. CASE queue # <<>>
  <2> DEFINE n == Len(queue)
  <2>1. /\ n \in Nat /\ 1 <= n /\ holder' = queue[1] /\ Len(queue') = n - 1
        /\ \A i \in 1..(n - 1) : queue'[i] = queue[i + 1] /\ i + 1 \in 1..n
        /\ \A i \in 1..n : queue[i] \in Msgs \cup {Worker}
    <3>1. holder' = Head(queue) /\ queue' = Tail(queue)
      BY <1>2 DEF Release
    <3>2. /\ n \in Nat /\ 1 <= n /\ Head(queue) = queue[1]
          /\ Len(Tail(queue)) = n - 1
          /\ \A i \in 1..(n - 1) : Tail(queue)[i] = queue[i + 1]
          /\ \A i \in 1..n : queue[i] \in Msgs \cup {Worker}
      BY <1>0, <1>2, QueueMoves
    <3> HIDE DEF n
    <3>3. \A i \in 1..(n - 1) : i + 1 \in 1..n
      BY <3>2
    <3> QED BY <3>1, <3>2, <3>3
  <2>a. 1 \in 1..n
    BY <2>1
  <2>2. \A i \in 1..n : queue[i] \in Msgs => queue[i] # x /\ handler[queue[i]] = "lock"
    BY <1>0, <2>1 DEF OrderOK
  <2>3. \A i \in 1..n : queue[i] \in Msgs => handler'[queue[i]] = "lock"
    BY <2>2
  <2> HIDE DEF n
  <2>4. \A k, m \in Msgs : handler'[m] = "chat" /\ handler'[k] \in InLock => k < m
    BY <1>0 DEF OrderOK, InLock
  <2>5. \A i, j \in 1..(n - 1) :
          i < j /\ queue'[i] \in Msgs /\ queue'[j] \in Msgs
            => queue'[i] < queue'[j]
    <3> SUFFICES ASSUME NEW i \in 1..(n - 1), NEW j \in 1..(n - 1), i < j,
                        queue'[i] \in Msgs, queue'[j] \in Msgs
                 PROVE  queue'[i] < queue'[j]
      OBVIOUS
    <3>1. i + 1 \in 1..n /\ j + 1 \in 1..n /\ i + 1 < j + 1
      BY <2>1
    <3> QED BY <1>0, <2>1, <3>1 DEF OrderOK, n
  <2>6. \A i \in 1..(n - 1) :
          queue'[i] \in Msgs /\ holder' \in Msgs => holder' < queue'[i]
    <3> SUFFICES ASSUME NEW i \in 1..(n - 1), queue'[i] \in Msgs,
                        holder' \in Msgs
                 PROVE  holder' < queue'[i]
      OBVIOUS
    <3>1. i + 1 \in 1..n /\ 1 < i + 1
      BY <2>1
    <3> QED BY <1>0, <2>1, <2>a, <3>1 DEF OrderOK, n
  <2>7. \A m \in Msgs : handler'[m] = "lock" =>
          m = holder' \/ \E i \in 1..(n - 1) : queue'[i] = m
    <3> SUFFICES ASSUME NEW m \in Msgs, handler'[m] = "lock"
                 PROVE  m = holder' \/ \E i \in 1..(n - 1) : queue'[i] = m
      OBVIOUS
    <3>1. m # x /\ handler[m] = "lock"
      OBVIOUS
    <3>2. PICK i \in 1..n : queue[i] = m
      BY <1>0, <3>1 DEF OrderOK, n
    <3>3. i = 1 \/ (i - 1 \in 1..(n - 1) /\ (i - 1) + 1 = i)
      BY <2>1
    <3> QED BY <2>1, <3>2, <3>3
  <2>8. \A i \in 1..(n - 1) : queue'[i] \in Msgs => handler'[queue'[i]] = "lock"
    <3> SUFFICES ASSUME NEW i \in 1..(n - 1), queue'[i] \in Msgs
                 PROVE  handler'[queue'[i]] = "lock"
      OBVIOUS
    <3>1. i + 1 \in 1..n /\ queue'[i] = queue[i + 1]
      BY <2>1
    <3> QED BY <2>3, <3>1
  <2>9. /\ holder' \in Msgs => handler'[holder'] \in InLock
        /\ holder' # Nobody
    BY <1>0, <2>1, <2>3, <2>a DEF InLock
  <2> QED BY <2>1, <2>4, <2>5, <2>6, <2>7, <2>8, <2>9 DEF OrderOK
<1> QED BY <1>1, <1>2

\* A handler, or a pass, that asks for the lock waits behind earlier messages.
LEMMA AcquireOrder ==
  ASSUME OrderInv, NEW x \in Msgs \cup {Worker}, Acquire(x), UNCHANGED orderly,
         orderly => \A k \in Msgs : handler[k] \in InLock => k # x,
         orderly /\ x \in Msgs =>
           \A k \in Msgs : /\ handler[k] \in InLock => k < x
                           /\ handler[k] = "chat" /\ k # x => x < k,
         \A k \in Msgs : handler'[k] = IF k = x THEN "lock" ELSE handler[k]
  PROVE  OrderOK'
<1> SUFFICES ASSUME orderly PROVE OrderOK'
  BY DEF OrderOK
<1>0. /\ OrderOK /\ TypeOK /\ Worker \notin Msgs /\ Nobody \notin Msgs
      /\ Worker # Nobody
      /\ \A m \in Msgs : m \in Nat
  BY ChannelAssumption DEF OrderInv, BarrierInv, LaneInv, Msgs
<1>1. \A k, m \in Msgs : handler'[m] = "chat" /\ handler'[k] \in InLock => k < m
  BY <1>0 DEF OrderOK, InLock
<1>2. CASE holder = Nobody
  <2>1. holder' = x /\ queue' = <<>> /\ queue = <<>> /\ Len(queue') = 0
    BY <1>0, <1>2, QueueMoves DEF Acquire, OrderOK
  <2> QED BY <1>0, <1>1, <1>2, <2>1 DEF OrderOK, InLock
<1>3. CASE holder # Nobody
  <2> DEFINE n == Len(queue)
  <2>1. /\ n \in Nat /\ holder' = holder /\ Len(queue') = n + 1
        /\ queue'[n + 1] = x
        /\ \A i \in 1..n : queue'[i] = queue[i]
        /\ \A i \in 1..n : queue[i] \in Msgs \cup {Worker}
    BY <1>0, <1>3, QueueMoves DEF Acquire
  <2>2. \A i \in 1..n : queue[i] \in Msgs =>
          /\ handler[queue[i]] = "lock" /\ queue[i] # x
          /\ x \in Msgs => queue[i] < x
    BY <1>0 DEF OrderOK, InLock
  <2>3. holder \in Msgs => /\ handler[holder] \in InLock /\ holder # x
                           /\ x \in Msgs => holder < x
    BY <1>0 DEF OrderOK
  <2>4. \A i, j \in 1..n :
          i < j /\ queue[i] \in Msgs /\ queue[j] \in Msgs => queue[i] < queue[j]
    BY <1>0 DEF OrderOK
  <2>5. \A i \in 1..n : queue[i] \in Msgs /\ holder \in Msgs => holder < queue[i]
    BY <1>0 DEF OrderOK
  <2>6. \A m \in Msgs : handler[m] = "lock" =>
          m = holder \/ \E i \in 1..n : queue[i] = m
    BY <1>0 DEF OrderOK
  <2> HIDE DEF n
  <2>7. \A i \in 1..(n + 1) : i = n + 1 \/ i \in 1..n
    BY <2>1
  <2>8. \A i, j \in 1..(n + 1) :
          i < j /\ queue'[i] \in Msgs /\ queue'[j] \in Msgs
            => queue'[i] < queue'[j]
    <3> SUFFICES ASSUME NEW i \in 1..(n + 1), NEW j \in 1..(n + 1), i < j,
                        queue'[i] \in Msgs, queue'[j] \in Msgs
                 PROVE  queue'[i] < queue'[j]
      OBVIOUS
    <3>1. i \in 1..n
      BY <2>1
    <3> QED BY <2>1, <2>2, <2>4, <2>7, <3>1
  <2>9. \A i \in 1..(n + 1) :
          queue'[i] \in Msgs /\ holder' \in Msgs => holder' < queue'[i]
    BY <2>1, <2>3, <2>5, <2>7
  <2>10. \A m \in Msgs : handler'[m] = "lock" =>
           m = holder' \/ \E i \in 1..(n + 1) : queue'[i] = m
    <3> SUFFICES ASSUME NEW m \in Msgs, handler'[m] = "lock", m # holder
                 PROVE  \E i \in 1..(n + 1) : queue'[i] = m
      BY <2>1
    <3>1. CASE m = x
      <4>1. n + 1 \in 1..(n + 1)
        BY <2>1
      <4> QED BY <2>1, <3>1, <4>1
    <3>2. CASE m # x
      <4>1. PICK i \in 1..n : queue[i] = m
        BY <2>6, <3>2
      <4>2. i \in 1..(n + 1)
        BY <2>1
      <4> QED BY <2>1, <4>1, <4>2
    <3> QED BY <3>1, <3>2
  <2>11. \A i \in 1..(n + 1) : queue'[i] \in Msgs => handler'[queue'[i]] = "lock"
    BY <2>1, <2>2, <2>7
  <2>12. holder' \in Msgs => handler'[holder'] \in InLock
    BY <2>1, <2>3
  <2> QED BY <1>1, <1>3, <2>1, <2>8, <2>9, <2>10, <2>11, <2>12 DEF OrderOK
<1> QED BY <1>2, <1>3

LEMMA OrderStep ==
  ASSUME OrderInv, [Next]_vars PROVE OrderOK'
<1>0. /\ OrderOK /\ LaneInv /\ LockOK /\ PostedOK /\ TypeOK
      /\ handler \in [Msgs -> HandlerStates]
      /\ Worker \notin Msgs /\ Nobody \notin Msgs /\ Worker # Nobody
  BY ChannelAssumption DEF OrderInv, BarrierInv, LaneInv, TypeOK
<1>01. \A m \in Msgs : m \in Nat
  BY ChannelAssumption DEF Msgs
\* Steps that leave the lock to whom it belongs.
<1>a. ASSUME UNCHANGED <<orderly, holder, queue>>,
             \A k \in Msgs :
               \/ handler'[k] = handler[k]
               \/ handler[k] = "lock" /\ k = holder /\ handler'[k] \in InLock
               \/ handler[k] \in {"set", "log"} /\ handler'[k] \in {"set", "log"}
      PROVE  OrderOK'
  <2> SUFFICES ASSUME orderly PROVE OrderOK'
    BY <1>a DEF OrderOK
  <2>1. \A k \in Msgs : /\ handler'[k] \in InLock <=> handler[k] \in InLock
                        /\ handler'[k] = "chat" <=> handler[k] = "chat"
                        /\ handler'[k] = "lock" => handler[k] = "lock"
                        /\ handler[k] = "lock" /\ k # holder => handler'[k] = "lock"
    BY <1>a DEF InLock
  <2>2. \A i \in 1..Len(queue) : queue[i] \in Msgs => queue[i] # holder
    BY <1>0, <1>01 DEF OrderOK
  <2> QED BY <1>0, <1>a, <2>1, <2>2 DEF OrderOK
<1>b. ASSUME NEW m \in Msgs, Leave(m), holder = m, UNCHANGED orderly
      PROVE  OrderOK'
  <2>1. \A k \in Msgs : handler'[k] = IF k = m THEN "none" ELSE handler[k]
    BY <1>0, <1>b DEF Leave
  <2>2. Release
    BY <1>b DEF Leave
  <2> QED BY <1>b, <2>1, <2>2, ReleaseOrder
<1>c. ASSUME NEW m \in Msgs, NEW l \in InLock \ {"lock"}, Turn(m, l),
             holder = m, UNCHANGED orderly, handler[m] \in InLock
      PROVE  OrderOK'
  <2>1. /\ UNCHANGED <<holder, queue>>
        /\ \A k \in Msgs : handler'[k] = IF k = m THEN l ELSE handler[k]
    BY <1>0, <1>c DEF Turn, lock
  <2> QED BY <1>a, <1>c, <2>1 DEF InLock
\* Steps of the recovery.
<1>d. ASSUME Release, holder = Worker, UNCHANGED <<orderly, handler>>
      PROVE  OrderOK'
  BY <1>0, <1>d, ReleaseOrder
<1>e. ASSUME Acquire(Worker), UNCHANGED <<orderly, handler>>
      PROVE  OrderOK'
  BY <1>0, <1>e, AcquireOrder
<1>f. ASSUME Reset PROVE OrderOK'
  <2>1. /\ holder' = Nobody /\ queue' = <<>> /\ Len(queue') = 0
        /\ \A k \in Msgs : handler'[k] = "none"
    BY <1>f DEF Reset
  <2> QED BY <1>0, <2>1 DEF OrderOK, InLock
<1>1. CASE UNCHANGED vars
  BY <1>1, <1>a DEF vars, lock, env
<1>2. CASE Post
  <2> SUFFICES ASSUME orderly PROVE OrderOK'
    BY <1>2 DEF OrderOK, Post, env
  <2>1. UNCHANGED <<orderly, holder, queue>>
    BY <1>2 DEF Post, lock, env
  <2>2. \A k \in Msgs : \/ handler'[k] = handler[k]
                        \/ k = posted + 1 /\ handler'[k] = "chat"
    BY <1>0, <1>2 DEF Post
  <2>3. posted \in Nat /\ \A k \in Msgs : handler[k] # "none" => k <= posted
    BY <1>0, ChannelAssumption DEF TypeOK, PostedOK
  <2>4. \A k \in Msgs : /\ handler[k] # "none" => handler'[k] = handler[k]
                        /\ handler'[k] \in InLock => handler[k] \in InLock
    BY <1>01, <2>2, <2>3 DEF InLock
  <2>5. \A k, m \in Msgs : handler'[m] = "chat" /\ handler'[k] \in InLock => k < m
    <3> SUFFICES ASSUME NEW k \in Msgs, NEW m \in Msgs, handler'[m] = "chat",
                        handler'[k] \in InLock
                 PROVE  k < m
      OBVIOUS
    <3>1. handler[k] \in InLock /\ k <= posted
      BY <2>3, <2>4 DEF InLock
    <3> QED BY <1>0, <1>01, <2>2, <2>3, <3>1 DEF OrderOK
  <2>6. \A k \in Msgs : handler'[k] = "lock" => handler[k] = "lock"
    BY <2>2
  <2> QED BY <1>0, <2>1, <2>4, <2>5, <2>6 DEF OrderOK, InLock
<1>3. CASE Disconnect
  BY <1>3, <1>f DEF Disconnect
<1>4. ASSUME NEW m \in Msgs, GetChat(m) PROVE OrderOK'
  <2>1. /\ Acquire(m) /\ UNCHANGED orderly /\ handler[m] = "chat"
        /\ \A k \in Msgs : handler'[k] = IF k = m THEN "lock" ELSE handler[k]
    BY <1>0, <1>4 DEF GetChat, env
  <2>2. orderly => \A k \in Msgs : /\ handler[k] \in InLock => k < m
                                   /\ handler[k] = "chat" /\ k # m => m < k
    <3> SUFFICES ASSUME orderly, NEW k \in Msgs
                 PROVE  /\ handler[k] \in InLock => k < m
                        /\ handler[k] = "chat" /\ k # m => m < k
      OBVIOUS
    <3>1. k < m => k \in 1..(m - 1)
      BY ChannelAssumption DEF Msgs
    <3> QED BY <1>0, <1>01, <1>4, <2>1, <3>1 DEF OrderOK, GetChat
  <2>3. orderly => \A k \in Msgs : handler[k] \in InLock => k # m
    BY <1>01, <2>2
  <2> QED BY <2>1, <2>2, <2>3, AcquireOrder
<1>5. ASSUME NEW m \in Msgs, Process(m) PROVE OrderOK'
  BY <1>5, <1>b, <1>c DEF Process, InLock
<1>6. ASSUME NEW m \in Msgs, SetMark(m) PROVE OrderOK'
  <2>1. holder = m
    BY <1>0, <1>6 DEF SetMark, LockOK
  <2> QED BY <1>6, <1>b, <1>c, <2>1 DEF SetMark, InLock
<1>7. ASSUME NEW m \in Msgs, LogFailure(m) PROVE OrderOK'
  <2>1. holder = m
    BY <1>0, <1>7 DEF LogFailure, LockOK
  <2> QED BY <1>7, <1>b, <2>1 DEF LogFailure
<1>8. CASE Connect \/ BackedOff
  BY <1>8, <1>e DEF Connect, BackedOff, env
<1>9. CASE Seed
  BY <1>9, <1>d DEF Seed, Recovering, EndPass, env
<1>10. CASE Fetch
  BY <1>0, <1>10, <1>a, <1>d DEF Fetch, Recovering, EndPass, Step, lock, env
<1>11. CASE FetchRaises
  BY <1>11, <1>d DEF FetchRaises, Recovering, EndPass
<1>12. CASE Recover
  BY <1>0, <1>12, <1>a, <1>d DEF Recover, Recovering, EndPass, Step, lock
<1>13. CASE RecoverMark
  BY <1>0, <1>13, <1>a, <1>d DEF RecoverMark, Recovering, EndPass, Step, lock
<1>14. CASE RecoverLog
  BY <1>14, <1>d, <1>f DEF RecoverLog, Recovering, EndPass
<1>15. CASE Watch \/ Woken
  BY <1>15, <1>a DEF Watch, Woken, lock, env
<1> QED BY <1>1, <1>2, <1>3, <1>4, <1>5, <1>6, <1>7, <1>8, <1>9, <1>10,
           <1>11, <1>12, <1>13, <1>14, <1>15
        DEF Next, Progress, HandlerStep, WorkerStep

LEMMA TrailStep ==
  ASSUME OrderInv, [Next]_vars PROVE TrailOK'
<1>0. /\ OrderOK /\ TrailOK /\ LaneInv /\ LockOK /\ PassOK /\ PostedOK /\ TypeOK
      /\ BarrierOK
      /\ handler \in [Msgs -> HandlerStates]
      /\ posted \in Nat /\ watermark \in Nat /\ cap \in Nat /\ base \in Nat
      /\ Worker \notin Msgs
  BY ChannelAssumption DEF OrderInv, BarrierInv, LaneInv, TypeOK
<1>00. walk.next \in Nat /\ walk.last \in Nat /\ walk \in Walk
  BY <1>0, ChannelAssumption DEF Walk, TypeOK
<1>01. \A m \in Msgs : m \in Nat /\ 1 <= m
  BY <1>0, ChannelAssumption DEF Msgs
\* Nothing opens, the watermark stays, and no handler of an open message ends
\* unless the barrier goes up or the connection is lost.
<1>a. ASSUME UNCHANGED orderly, UNCHANGED watermark,
             \A m \in Msgs : Open(m)' => Open(m),
             done \subseteq done',
             \A k \in Msgs : handler'[k] = "set" => handler[k] = "set",
             ~blocked' /\ worker' # "down" =>
               /\ ~blocked /\ worker # "down"
               /\ \A k \in Msgs : handler'[k] = "none" =>
                    handler[k] = "none" \/ ~Open(k)',
             InPass' => /\ InPass /\ UNCHANGED <<handler, posted>>
                        /\ walk'.full = walk.full /\ walk'.last = walk.last
      PROVE  TrailOK'
  <2> SUFFICES ASSUME orderly PROVE TrailOK'
    BY <1>a DEF TrailOK
  <2>1. \A m \in Msgs : Open(m)' => watermark' < m
    BY <1>0, <1>a DEF TrailOK
  <2>2. \A k \in Msgs : handler'[k] = "set" =>
          k \in done' /\ \A m \in Msgs : m < k => ~Open(m)'
    BY <1>0, <1>a DEF TrailOK
  <2>3. ~blocked' /\ worker' # "down" =>
          \A m \in Msgs : Open(m)' => handler'[m] # "none"
    BY <1>0, <1>a DEF TrailOK
  <2>4. InPass' /\ ~walk'.full =>
          \A m \in Msgs : walk'.last < m /\ m <= posted' => handler'[m] # "none"
    BY <1>0, <1>a DEF TrailOK
  <2> QED BY <2>1, <2>2, <2>3, <2>4 DEF TrailOK
\* A pass that ends.
<1>b. ASSUME NEW o, EndPass(o), holder = Worker, UNCHANGED <<orderly, handler>>,
             orderly => \A m \in Msgs : Open(m)' => watermark' < m,
             orderly /\ o = "complete" =>
               \A m \in Msgs : Open(m)' => handler[m] # "none",
             blocked
      PROVE  TrailOK'
  <2>1. /\ \A k \in Msgs : handler[k] # "set"
        /\ ~InPass' /\ o # "complete" => blocked'
    BY <1>0, <1>b, OneRuns, NoWalkFields DEF EndPass, InPass
  <2>2. o # "complete" => blocked'
    BY <1>b DEF EndPass
  <2>3. ~InPass'
    BY <1>b, NoWalkFields DEF EndPass, InPass
  <2> QED BY <1>b, <2>1, <2>2, <2>3 DEF TrailOK
<1>1. CASE UNCHANGED vars
  BY <1>1, <1>a DEF vars, chan, hist, barrier, task, env, Open, InPass
<1>2. CASE Post
  <2> SUFFICES ASSUME orderly PROVE TrailOK'
    BY <1>2 DEF TrailOK, Post, env
  <2>1. /\ posted' = posted + 1
        /\ UNCHANGED <<watermark, done, base, unreported, blocked, worker, walk>>
    BY <1>2 DEF Post, hist, barrier, task
  <2>2. \A k \in Msgs :
          /\ k # posted + 1 => handler'[k] = handler[k]
          /\ handler'[k] = "set" => handler[k] = "set"
          /\ k = posted + 1 /\ worker # "down" => handler'[k] = "chat"
    BY <1>0, <1>2 DEF Post
  <2>3. \A k \in Msgs : Open(k)' => Open(k) \/ k = posted + 1
    BY <1>0, <1>01, <2>1 DEF Open
  <2>4. /\ watermark <= posted
        /\ \A k \in Msgs : handler[k] # "none" => k <= posted
        /\ InPass => worker # "down"
    BY <1>0 DEF PostedOK, PassOK, InPass
  <2>5. \A m \in Msgs : Open(m)' => watermark' < m
    BY <1>0, <1>01, <2>1, <2>3, <2>4 DEF TrailOK
  <2>6. \A k \in Msgs : handler'[k] = "set" =>
          k \in done' /\ \A m \in Msgs : m < k => ~Open(m)'
    BY <1>0, <1>01, <2>1, <2>2, <2>3, <2>4 DEF TrailOK
  <2>7. ~blocked' /\ worker' # "down" =>
          \A m \in Msgs : Open(m)' => handler'[m] # "none"
    BY <1>0, <2>1, <2>2, <2>3 DEF TrailOK
  <2>8. InPass' /\ ~walk'.full =>
          \A m \in Msgs : walk'.last < m /\ m <= posted' => handler'[m] # "none"
    BY <1>0, <1>01, <2>1, <2>2, <2>4 DEF TrailOK, InPass
  <2> QED BY <2>5, <2>6, <2>7, <2>8 DEF TrailOK
<1>3. CASE Disconnect
  <2>1. \A k \in Msgs : handler'[k] # "set"
    BY <1>3 DEF Disconnect, Reset
  <2> QED BY <1>3, <1>a, <2>1, NoWalkFields
          DEF Disconnect, Reset, chan, hist, InPass, Open
<1>4. ASSUME NEW m \in Msgs, GetChat(m) PROVE TrailOK'
  <2>1. \A k \in Msgs : /\ handler'[k] = "none" <=> handler[k] = "none"
                        /\ handler'[k] = "set" <=> handler[k] = "set"
    BY <1>0, <1>4 DEF GetChat
  <2>2. /\ UNCHANGED <<orderly, watermark, done, posted, base, unreported,
                       blocked, worker, walk>>
        /\ \A k \in Msgs : Open(k)' <=> Open(k)
    BY <1>4 DEF GetChat, chan, hist, barrier, task, env, Open
  <2> QED BY <1>0, <2>1, <2>2 DEF TrailOK, InPass
<1>5. ASSUME NEW m \in Msgs, Process(m) PROVE TrailOK'
  <2>0. /\ UNCHANGED <<orderly, watermark, posted, base, unreported, worker, walk>>
        /\ done \subseteq done' /\ ~InPass' /\ holder = m /\ handler[m] = "lock"
        /\ worker # "down"
    BY <1>0, <1>5, OneRuns DEF Process, task, InPass
  <2>1. \A k \in Msgs : Open(k)' => Open(k)
    BY <2>0 DEF Open
  <2>2. CASE Turn(m, "set") /\ ~blocked /\ done' = done \cup {m}
              /\ UNCHANGED blocked
    <3> SUFFICES ASSUME orderly PROVE TrailOK'
      BY <2>0 DEF TrailOK
    <3>1. \A k \in Msgs : handler'[k] = IF k = m THEN "set" ELSE handler[k]
      BY <1>0, <2>2 DEF Turn
    <3>2. \A k \in Msgs : k < m => ~Open(k)
      <4> SUFFICES ASSUME NEW k \in Msgs, k < m, Open(k) PROVE FALSE
        OBVIOUS
      <4>1. handler[k] # "none" /\ k # holder
        BY <1>0, <1>01, <2>0, <2>2 DEF TrailOK
      <4>2. handler[k] \notin {"set", "log", "chat"}
        BY <1>0, <1>01, <2>0, <4>1 DEF LockOK, OrderOK, InLock
      <4>3. handler[k] = "lock"
        BY <1>0, <4>1, <4>2 DEF HandlerStates
      <4>4. PICK i \in 1..Len(queue) : queue[i] = k
        BY <1>0, <4>1, <4>3 DEF OrderOK
      <4>5. m < k
        BY <1>0, <2>0, <4>4 DEF OrderOK
      <4> QED BY <1>01, <4>5
    <3>3. \A k \in Msgs : handler'[k] = "set" => k = m
      BY <1>0, <2>0, <3>1 DEF LockOK
    <3> QED BY <1>0, <2>0, <2>1, <2>2, <3>1, <3>2, <3>3 DEF TrailOK
  <2>3. CASE Leave(m) /\ blocked'
    <3>1. \A k \in Msgs : handler'[k] = "set" => handler[k] = "set"
      BY <1>0, <2>3 DEF Leave
    <3> QED BY <1>a, <2>0, <2>1, <2>3, <3>1
  <2>4. CASE Turn(m, "log") /\ UNCHANGED blocked
    <3>1. \A k \in Msgs : handler'[k] = IF k = m THEN "log" ELSE handler[k]
      BY <1>0, <2>4 DEF Turn
    <3> QED BY <1>a, <2>0, <2>1, <2>4, <3>1
  <2> QED BY <1>5, <2>2, <2>3, <2>4 DEF Process, RaiseBarrier, barrier
<1>6. ASSUME NEW m \in Msgs, SetMark(m) PROVE TrailOK'
  <2> SUFFICES ASSUME orderly PROVE TrailOK'
    BY <1>6 DEF TrailOK, SetMark
  <2>0. /\ UNCHANGED <<posted, base, done, unreported, blocked, worker, walk>>
        /\ ~InPass' /\ holder = m /\ handler[m] = "set"
        /\ watermark' \in {watermark, m}
        /\ \A k \in Msgs : Open(k)' <=> Open(k)
    BY <1>0, <1>6, OneRuns DEF SetMark, LockOK, task, hist, barrier, InPass, Open
  <2>1. \A k \in Msgs : k # m => handler'[k] = handler[k]
    BY <1>0, <1>6 DEF SetMark, Leave, Turn
  <2>2. m \in done /\ ~Open(m) /\ \A k \in Msgs : k < m => ~Open(k)
    BY <1>0, <2>0 DEF TrailOK, Open
  <2>3. \A k \in Msgs : Open(k)' => watermark' < k
    BY <1>0, <1>01, <2>0, <2>2 DEF TrailOK
  <2>4. \A k \in Msgs : handler'[k] # "set"
    BY <1>0, <1>6, <2>0, <2>1 DEF LockOK, SetMark, Leave, Turn
  <2>5. ~blocked' /\ worker' # "down" =>
          \A k \in Msgs : Open(k)' => handler'[k] # "none"
    BY <1>0, <2>0, <2>1, <2>2 DEF TrailOK
  <2> QED BY <2>0, <2>3, <2>4, <2>5 DEF TrailOK
<1>7. ASSUME NEW m \in Msgs, LogFailure(m) PROVE TrailOK'
  <2>1. /\ UNCHANGED <<orderly, watermark, done, worker>>
        /\ \A k \in Msgs : Open(k)' => Open(k)
        /\ ~InPass' /\ worker # "down"
    BY <1>0, <1>7, OneRuns DEF LogFailure, chan, task, InPass, Open
  <2>2. \A k \in Msgs : /\ handler'[k] = "set" => handler[k] = "set"
                        /\ handler'[k] = "none" => handler[k] = "none" \/ k = m
    BY <1>0, <1>7 DEF LogFailure, Leave
  <2>3. ~blocked' => ~blocked /\ m \in unreported'
    BY <1>7 DEF LogFailure, RaiseBarrier, barrier
  <2>4. ~blocked' => ~Open(m)'
    BY <2>3 DEF Open
  <2> QED BY <1>a, <2>1, <2>2, <2>3, <2>4
<1>8. CASE Connect
  BY <1>0, <1>8, <1>a, NoWalkFields DEF Connect, chan, hist, env, InPass, Open
<1>9. CASE Seed
  <2>1. /\ worker = "startup" /\ blocked /\ holder = Worker
    BY <1>0, <1>9 DEF Seed, Recovering, PostedOK, BarrierOK
  <2>2. \A m \in Msgs : ~Open(m)'
    BY <1>0, <1>01, <1>9, <2>1 DEF Seed, Open
  <2> QED BY <1>9, <1>b, <2>1, <2>2 DEF Seed, env
<1>10. CASE Fetch
  <2>0. /\ blocked /\ holder = Worker
        /\ UNCHANGED <<handler, orderly, done, watermark, posted, base, unreported>>
    BY <1>0, <1>10 DEF Fetch, Recovering, BarrierOK, chan, hist, env
  <2>1. \A m \in Msgs : Open(m)' <=> Open(m)
    BY <2>0 DEF Open
  <2>2. CASE EndPass("complete") /\ watermark >= posted
    <3>1. orderly => \A m \in Msgs : ~Open(m)
      BY <1>0, <1>01, <2>2 DEF TrailOK, Open
    <3> QED BY <1>b, <2>0, <2>1, <2>2, <3>1
  <2>3. CASE ~(EndPass("complete") /\ watermark >= posted)
    <3> DEFINE n == IF watermark + cap < posted THEN watermark + cap ELSE posted
    <3>0. /\ Step([step |-> "process", next |-> watermark + 1, last |-> n,
                   full |-> n = watermark + cap])
          /\ watermark < posted
      BY <1>10, <2>3 DEF Fetch
    <3>1. /\ UNCHANGED <<worker, blocked>>
          /\ ~walk'.full => walk'.last = posted
      BY <1>0, <3>0 DEF Step, barrier
    <3>2. \A k \in Msgs : ~(posted < k /\ k <= posted)
      BY <1>0, <1>01
    <3> QED BY <1>0, <2>0, <2>1, <3>1, <3>2 DEF TrailOK
  <2> QED BY <2>2, <2>3
<1>11. CASE FetchRaises
  <2>0. /\ blocked /\ holder = Worker
        /\ UNCHANGED <<handler, orderly, done, watermark, posted, base, unreported>>
    BY <1>0, <1>11 DEF FetchRaises, Recovering, BarrierOK, chan, hist
  <2>1. \A m \in Msgs : Open(m)' <=> Open(m)
    BY <2>0 DEF Open
  <2>2. /\ \A k \in Msgs : handler'[k] = "set" => handler[k] = "set"
        /\ blocked' /\ ~InPass'
    BY <1>11, <2>0, NoWalkFields DEF FetchRaises, EndPass, InPass, barrier
  <2> QED BY <1>a, <2>0, <2>1, <2>2
<1>12. CASE Recover
  <2>0. /\ blocked /\ InPass
        /\ UNCHANGED <<handler, orderly, watermark, posted, base, unreported>>
        /\ done \subseteq done'
    BY <1>0, <1>12 DEF Recover, Recovering, BarrierOK, InPass
  <2>1. \A m \in Msgs : Open(m)' => Open(m)
    BY <2>0 DEF Open
  <2>2. blocked'
    BY <1>12, <2>0 DEF Recover, EndPass, Step, barrier
  <2>3. InPass' => walk'.full = walk.full /\ walk'.last = walk.last
    BY <1>00, <1>12, NoWalkFields DEF Recover, EndPass, Step, Walk, InPass
  <2> QED BY <1>a, <2>0, <2>1, <2>2, <2>3
<1>13. CASE RecoverMark
  <2>0. /\ blocked /\ holder = Worker /\ InPass /\ worker # "down"
        /\ UNCHANGED <<handler, orderly, done, posted, base, unreported>>
        /\ walk.next = watermark + 1 /\ walk.next \in done
        /\ watermark' \in {watermark, walk.next}
    BY <1>0, <1>13
       DEF RecoverMark, Recovering, BarrierOK, InPass, PassOK, hist
  <2>1. \A m \in Msgs : Open(m)' <=> Open(m)
    BY <2>0 DEF Open
  <2>2. orderly => \A m \in Msgs : Open(m)' => watermark' < m
    <3> SUFFICES ASSUME orderly, NEW m \in Msgs, Open(m) PROVE watermark' < m
      BY <2>1
    <3>1. watermark < m /\ m # walk.next
      BY <1>0, <2>0 DEF TrailOK, Open
    <3> QED BY <1>0, <1>01, <2>0, <3>1
  <2>3. ASSUME NEW o, EndPass(o), o = "complete" =>
                  ~walk.full /\ walk.next = walk.last /\ watermark' = walk.next
        PROVE  TrailOK'
    <3>1. orderly /\ o = "complete" =>
            \A m \in Msgs : Open(m)' => handler[m] # "none"
      <4> SUFFICES ASSUME orderly, o = "complete", NEW m \in Msgs, Open(m)'
                   PROVE  handler[m] # "none"
        OBVIOUS
      <4>1. walk.last < m /\ m <= posted
        BY <2>0, <2>1, <2>2, <2>3 DEF Open
      <4> QED BY <1>0, <2>0, <2>3, <4>1 DEF TrailOK
    <3> QED BY <1>b, <2>0, <2>2, <2>3, <3>1
  <2>4. ASSUME NEW w, Step(w), w.full = walk.full, w.last = walk.last
        PROVE  TrailOK'
    <3> SUFFICES ASSUME orderly PROVE TrailOK'
      BY <2>0 DEF TrailOK
    <3>1. UNCHANGED <<worker, blocked>> /\ walk'.full = walk.full
          /\ walk'.last = walk.last
      BY <2>4 DEF Step, barrier
    <3> QED BY <1>0, <2>0, <2>1, <2>2, <3>1 DEF TrailOK
  <2>5. /\ [walk EXCEPT !.step = "log"].full = walk.full
        /\ [walk EXCEPT !.step = "log"].last = walk.last
        /\ [walk EXCEPT !.step = "process", !.next = walk.next + 1].full
             = walk.full
        /\ [walk EXCEPT !.step = "process", !.next = walk.next + 1].last
             = walk.last
    BY <1>00 DEF Walk
  <2> QED BY <1>13, <2>3, <2>4, <2>5 DEF RecoverMark
<1>14. CASE RecoverLog
  <2>0. /\ blocked /\ UNCHANGED <<orderly, watermark, posted, done, base, unreported>>
    BY <1>0, <1>14 DEF RecoverLog, Recovering, BarrierOK, chan
  <2>1. \A m \in Msgs : Open(m)' <=> Open(m)
    BY <2>0 DEF Open
  <2>2. /\ blocked' /\ ~InPass'
    BY <1>14, <2>0, NoWalkFields
       DEF RecoverLog, EndPass, Reset, InPass, barrier
  <2>3. \A k \in Msgs : handler'[k] = "set" => handler[k] = "set"
    BY <1>14 DEF RecoverLog, Reset
  <2> QED BY <1>a, <2>0, <2>1, <2>2, <2>3
<1>15. CASE Watch \/ Woken \/ BackedOff
  <2>0. /\ UNCHANGED <<handler, orderly, watermark, posted, done, base, unreported,
                       blocked>>
        /\ worker # "down" /\ ~InPass'
    BY <1>0, <1>15, NoWalkFields
       DEF Watch, Woken, BackedOff, chan, hist, barrier, env, InPass, PassOK
  <2>1. \A m \in Msgs : Open(m)' <=> Open(m)
    BY <2>0 DEF Open
  <2> QED BY <1>a, <2>0, <2>1
<1> QED BY <1>1, <1>2, <1>3, <1>4, <1>5, <1>6, <1>7, <1>8, <1>9, <1>10,
           <1>11, <1>12, <1>13, <1>14, <1>15
        DEF Next, Progress, HandlerStep, WorkerStep

LEMMA OrderInit == ASSUME Tracked, Init PROVE OrderInv
<1>1. BarrierInv
  BY BarrierInit
<1>2. Len(queue) = 0 /\ Nobody \notin Msgs
  BY ChannelAssumption DEF Init
<1>3. OrderOK
  BY <1>2 DEF Init, OrderOK, InLock
<1>4. TrailOK
  BY NoWalkFields DEF Init, TrailOK, Open, InPass
<1> QED BY <1>1, <1>3, <1>4 DEF OrderInv

LEMMA OrderKept == OrderInv /\ [Next]_vars => OrderInv'
BY BarrierKept, OrderStep, TrailStep DEF OrderInv

THEOREM OrderHolds == ASSUME Tracked PROVE Spec => []OrderInv
BY OrderInit, OrderKept, PTL DEF Spec

\* As long as the events' metadata arrives in order, the watermark passes a
\* message unprocessed only when even its failure could not be logged.
THEOREM NothingSkippedSilently ==
  ASSUME Tracked PROVE Spec => []SkipsOnlyUnreported
<1>1. OrderInv => SkipsOnlyUnreported
  <2> SUFFICES ASSUME OrderInv, orderly, NEW m \in Skipped
               PROVE  m \in unreported
    BY DEF SkipsOnlyUnreported
  <2>1. /\ m \in Msgs /\ base < m /\ m <= watermark /\ m \notin done
        /\ m \in Nat /\ watermark \in Nat
    BY ChannelAssumption
       DEF Skipped, Msgs, OrderInv, BarrierInv, LaneInv, TypeOK
  <2>2. watermark <= posted /\ posted \in Nat
    BY ChannelAssumption
       DEF OrderInv, BarrierInv, LaneInv, TypeOK, PostedOK
  <2> QED BY <2>1, <2>2 DEF OrderInv, TrailOK, Open
<1>2. Spec => []OrderInv
  BY OrderHolds
<1> QED BY <1>1, <1>2, PTL

\* Whenever the recovery is over and the barrier is down, every message that
\* is neither processed nor given up has a live handler: what is posted during
\* the start-up recovery or a retry is not left for the next restart.
THEOREM NobodyIsForgotten ==
  ASSUME Tracked PROVE Spec => []NobodyForgotten
<1>1. OrderInv => NobodyForgotten
  BY DEF OrderInv, TrailOK, NobodyForgotten, Open
<1>2. Spec => []OrderInv
  BY OrderHolds
<1> QED BY <1>1, <1>2, PTL

=============================================================================
