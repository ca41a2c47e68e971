------------------------------- MODULE CallsProofs -------------------------------
(***************************************************************************)
(* Proofs about PersistenceCalls, for every set of clients and of threads, *)
(* every timeout and every bound on the writes: its types, and that what a *)
(* caller was told is written stays written.                               *)
(*                                                                         *)
(* The second needs to know that a write in a thread is always the last    *)
(* one its client asked for. That holds because a client with a write in a *)
(* thread either waits for it or abandoned it, and then the store is in    *)
(* quarantine and refuses the client's next call.                          *)
(***************************************************************************)
EXTENDS PersistenceCalls, TLAPS

Busy(t, c) == thread[t] # Free /\ thread[t].by = c

\* A client has one write in the threads at most, and it is the last it asked for.
OneWrite ==
  /\ \A t \in Threads : thread[t] # Free => thread[t].value = asked[thread[t].by]
  /\ \A c \in Clients, t, u \in Threads : Busy(t, c) /\ Busy(u, c) => t = u

\* Where the client of a write in a thread can be.
Abandoned ==
  \A c \in Clients, t \in Threads : Busy(t, c) =>
    call[c].phase = "running" \/ (call[c].phase = "idle" /\ quarantined)

\* What was confirmed was stored, and only what was asked for is stored.
Ordered ==
  \A c \in Clients :
    /\ confirmed[c] <= stored[c] /\ stored[c] <= asked[c]
    /\ call[c].phase = "done" => stored[c] = asked[c]
    /\ call[c].phase # "idle" => asked[c] > 0

CallsInv == TypeOK /\ OneWrite /\ Abandoned /\ Ordered

-----------------------------------------------------------------------------

\* Initially nothing is asked, stored or executed.
LEMMA CallsInit == Init => CallsInv
<1> SUFFICES ASSUME Init PROVE CallsInv
  OBVIOUS
<1> USE DEF Init, Idle
<1>1. 0 \in 0..Max /\ 0 \in 0..Timeout /\ "idle" \in Phases
  BY CallsAssumption DEF Phases
<1>2. TypeOK
  BY <1>1 DEF TypeOK
<1>3. OneWrite /\ Abandoned
  BY DEF OneWrite, Abandoned, Busy
<1>4. Ordered
  <2> SUFFICES ASSUME NEW c \in Clients
      PROVE  /\ confirmed[c] <= stored[c] /\ stored[c] <= asked[c]
             /\ call[c].phase = "done" => stored[c] = asked[c]
             /\ call[c].phase # "idle" => asked[c] > 0
    BY DEF Ordered
  <2>1. confirmed[c] = 0 /\ stored[c] = 0 /\ asked[c] = 0 /\ call[c].phase = "idle"
    OBVIOUS
  <2> QED
    BY <2>1
<1> QED
  BY <1>2, <1>3, <1>4 DEF CallsInv

\* A call is queued: its client has no write in a thread, since the store is
\* not in quarantine.
LEMMA RunStep ==
  ASSUME CallsInv, NEW c \in Clients, Run(c)
  PROVE  CallsInv'
<1> USE CallsAssumption DEF Run, CallsInv
<1>1. TypeOK'
  BY DEF TypeOK, Phases
<1>2. \A t \in Threads : ~Busy(t, c)
  BY DEF Abandoned, Refused
<1>3. OneWrite'
  BY <1>2 DEF OneWrite, Busy, TypeOK
<1>4. Abandoned'
  BY <1>2 DEF Abandoned, Busy, TypeOK
<1>5. Ordered'
  BY DEF Ordered, TypeOK
<1> QED
  BY <1>1, <1>3, <1>4, <1>5

\* A queued call gets a thread: none had its write.
LEMMA StartStep ==
  ASSUME CallsInv, NEW t \in Threads, NEW c \in Clients, Start(t, c)
  PROVE  CallsInv'
<1> USE CallsAssumption DEF Start, CallsInv, To
<1>1. asked[c] \in 1..Max
  BY DEF Ordered, TypeOK
<1>2. TypeOK'
  BY <1>1 DEF TypeOK, Phases
<1>3. /\ thread' = [thread EXCEPT ![t] = [by |-> c, value |-> asked[c]]]
      /\ thread'[t] = [by |-> c, value |-> asked[c]]
      /\ \A u \in Threads \ {t} : thread'[u] = thread[u]
      /\ \A u \in Threads : ~Busy(u, c)
  BY DEF TypeOK, Abandoned
<1>4. OneWrite'
  BY <1>3 DEF OneWrite, Busy, TypeOK
<1>5. call'[c].phase = "running" /\ \A d \in Clients \ {c} : call'[d] = call[d]
  BY DEF TypeOK
<1>6. Abandoned'
  BY <1>3, <1>5 DEF Abandoned, Busy, TypeOK
<1>7. Ordered'
  BY <1>1, <1>5 DEF Ordered, TypeOK
<1> QED
  BY <1>2, <1>4, <1>6, <1>7

\* A write leaves its thread: who waited for it has its outcome, who abandoned
\* it is not concerned, and nobody else is.
LEMMA EndsStep ==
  ASSUME CallsInv, NEW t \in Threads, NEW phase \in {"done", "failed"}, Ends(t, phase)
  PROVE  /\ thread[t].by \in Clients /\ thread[t].value \in 1..Max
         /\ thread[t].value = asked[thread[t].by]
         /\ call' \in [Clients -> [phase : Phases, left : 0..Timeout]]
         /\ \A c \in Clients : call'[c].phase # call[c].phase =>
              c = thread[t].by /\ call[c].phase = "running" /\ call'[c].phase = phase
         /\ thread' \in [Threads -> [by : Clients, value : 1..Max] \cup {Free}]
         /\ OneWrite' /\ Abandoned'
<1> USE CallsAssumption DEF Ends, CallsInv, To
<1> DEFINE b == thread[t].by
<1>1. thread[t] # Free /\ b \in Clients /\ thread[t].value \in 1..Max
  BY DEF TypeOK
<1>2. thread[t].value = asked[b]
  BY <1>1 DEF OneWrite
<1>3. call' \in [Clients -> [phase : Phases, left : 0..Timeout]]
  <2>1. CASE Awaited(t)
    <3>1. phase \in Phases
      BY DEF Phases
    <3>2. call' = [call EXCEPT ![b].phase = phase]
      BY <2>1
    <3> QED
      BY <1>1, <3>1, <3>2 DEF TypeOK
  <2>2. CASE ~Awaited(t)
    BY <2>2 DEF TypeOK
  <2> QED
    BY <2>1, <2>2
<1>4. \A c \in Clients : call'[c].phase # call[c].phase =>
        c = b /\ call[c].phase = "running" /\ call'[c].phase = phase
  BY <1>1 DEF TypeOK, Awaited
<1>5. /\ thread' \in [Threads -> [by : Clients, value : 1..Max] \cup {Free}]
      /\ thread'[t] = Free /\ \A u \in Threads \ {t} : thread'[u] = thread[u]
  BY DEF TypeOK
<1>6. OneWrite'
  BY <1>5 DEF OneWrite, Busy
<1>7. Abandoned'
  <2> SUFFICES ASSUME NEW c \in Clients, NEW u \in Threads, Busy(u, c)'
      PROVE  call'[c].phase = "running" \/ (call'[c].phase = "idle" /\ quarantined)
    BY DEF Abandoned
  <2>1. u # t /\ Busy(u, c)
    BY <1>5 DEF Busy
  <2>2. c # b
    BY <1>1, <2>1 DEF OneWrite, Busy
  <2> QED
    BY <1>4, <2>1, <2>2 DEF Abandoned
<1> QED
  BY <1>1, <1>2, <1>3, <1>4, <1>5, <1>6, <1>7

\* A write lands: it is the last one its client asked for.
LEMMA WriteStep ==
  ASSUME CallsInv, NEW t \in Threads, Write(t)
  PROVE  CallsInv'
<1> USE CallsAssumption DEF Write, CallsInv
<1>1. /\ thread[t].by \in Clients /\ thread[t].value \in 1..Max
      /\ thread[t].value = asked[thread[t].by]
      /\ call' \in [Clients -> [phase : Phases, left : 0..Timeout]]
      /\ \A c \in Clients : call'[c].phase # call[c].phase =>
           c = thread[t].by /\ call[c].phase = "running" /\ call'[c].phase = "done"
      /\ thread' \in [Threads -> [by : Clients, value : 1..Max] \cup {Free}]
      /\ OneWrite' /\ Abandoned'
  BY EndsStep
<1>2. UNCHANGED <<quarantined, beat, asked, confirmed>>
  BY DEF Ends
<1>3. /\ stored'[thread[t].by] = asked[thread[t].by]
      /\ \A c \in Clients \ {thread[t].by} : stored'[c] = stored[c]
      /\ stored' \in [Clients -> 0..Max]
  BY <1>1 DEF TypeOK
<1>4. TypeOK'
  BY <1>1, <1>2, <1>3 DEF TypeOK
<1>5. Ordered'
  <2> SUFFICES ASSUME NEW c \in Clients
      PROVE  /\ confirmed[c] <= stored'[c] /\ stored'[c] <= asked[c]
             /\ call'[c].phase = "done" => stored'[c] = asked[c]
             /\ call'[c].phase # "idle" => asked[c] > 0
    BY <1>2 DEF Ordered
  <2>1. asked[c] \in Nat /\ stored[c] \in Nat /\ confirmed[c] \in Nat
    BY DEF TypeOK
  <2>2. CASE c = thread[t].by
    BY <1>1, <1>3, <2>1, <2>2 DEF Ordered
  <2>3. CASE c # thread[t].by
    BY <1>1, <1>3, <2>1, <2>3 DEF Ordered
  <2> QED
    BY <2>2, <2>3
<1> QED
  BY <1>1, <1>4, <1>5

\* A thread raises: nothing is stored.
LEMMA RaiseStep ==
  ASSUME CallsInv, NEW t \in Threads, Raise(t)
  PROVE  CallsInv'
<1> USE CallsAssumption DEF Raise, CallsInv
<1>1. /\ call' \in [Clients -> [phase : Phases, left : 0..Timeout]]
      /\ \A c \in Clients : call'[c].phase # call[c].phase =>
           c = thread[t].by /\ call[c].phase = "running" /\ call'[c].phase = "failed"
      /\ thread' \in [Threads -> [by : Clients, value : 1..Max] \cup {Free}]
      /\ OneWrite' /\ Abandoned'
  BY EndsStep
<1>2. UNCHANGED <<quarantined, beat, asked, confirmed, stored>>
  BY DEF Ends
<1>3. TypeOK'
  BY <1>1, <1>2 DEF TypeOK
<1>4. Ordered'
  BY <1>1, <1>2 DEF Ordered
<1> QED
  BY <1>1, <1>3, <1>4

\* A caller gets its result, and with it a beat.
LEMMA ReturnStep ==
  ASSUME CallsInv, NEW c \in Clients, Return(c) \/ ReturnError(c)
  PROVE  CallsInv'
<1> USE CallsAssumption DEF Return, ReturnError, CallsInv, Idle
<1>1. /\ call' = [call EXCEPT ![c] = [phase |-> "idle", left |-> 0]]
      /\ UNCHANGED <<thread, stored, quarantined, asked>>
      /\ call[c].phase \in {"done", "failed"} /\ beat' \in {"none", "alive", "dead"}
      /\ confirmed' = confirmed
           \/ (confirmed' = [confirmed EXCEPT ![c] = asked[c]] /\ stored[c] = asked[c])
  BY DEF TypeOK, Ordered
<1>2. TypeOK'
  <2>1. 0 \in 0..Timeout /\ "idle" \in Phases
    BY DEF Phases
  <2> QED
    BY <1>1, <2>1 DEF TypeOK
<1>3. \A t \in Threads : ~Busy(t, c)
  BY <1>1 DEF Abandoned
<1>4. OneWrite' /\ Abandoned'
  BY <1>1, <1>3 DEF OneWrite, Abandoned, Busy, TypeOK
<1>5. Ordered'
  BY <1>1 DEF Ordered, TypeOK
<1> QED
  BY <1>2, <1>4, <1>5

\* A call times out: its client is let go, and the store is in quarantine.
LEMMA TimeOutStep ==
  ASSUME CallsInv, NEW c \in Clients, TimeOut(c)
  PROVE  CallsInv'
<1> USE CallsAssumption DEF TimeOut, CallsInv, Idle
<1>1. TypeOK'
  <2>1. 0 \in 0..Timeout /\ "idle" \in Phases
    BY DEF Phases
  <2> QED
    BY <2>1 DEF TypeOK
<1>2. call'[c].phase = "idle" /\ \A d \in Clients \ {c} : call'[d] = call[d]
  BY DEF TypeOK
<1>3. OneWrite' /\ Abandoned'
  BY <1>2 DEF OneWrite, Abandoned, Busy
<1>4. Ordered'
  BY <1>2 DEF Ordered
<1> QED
  BY <1>1, <1>3, <1>4

\* The process starts again with nothing in its threads.
LEMMA RestartStep ==
  ASSUME CallsInv, Restart
  PROVE  CallsInv'
<1> USE CallsAssumption DEF Restart, CallsInv, Idle
<1>1. TypeOK'
  <2>1. 0 \in 0..Timeout /\ "idle" \in Phases
    BY DEF Phases
  <2> QED
    BY <2>1 DEF TypeOK
<1>2. OneWrite' /\ Abandoned'
  BY DEF OneWrite, Abandoned, Busy
<1>3. Ordered'
  BY DEF Ordered
<1> QED
  BY <1>1, <1>2, <1>3

\* Time passes: no call changes its place.
LEMMA TickStep ==
  ASSUME CallsInv, Tick
  PROVE  CallsInv'
<1> USE CallsAssumption DEF Tick, Pass, CallsInv
<1>1. \A c \in Clients : /\ call'[c].phase = call[c].phase
                         /\ call'[c] \in [phase : Phases, left : 0..Timeout]
  <2> SUFFICES ASSUME NEW c \in Clients
      PROVE  /\ call'[c].phase = call[c].phase
             /\ call'[c] \in [phase : Phases, left : 0..Timeout]
    OBVIOUS
  <2>1. call[c] \in [phase : Phases, left : 0..Timeout]
    BY DEF TypeOK
  <2>2. CASE call[c].phase = "idle"
    BY <2>1, <2>2
  <2>3. CASE call[c].phase # "idle"
    BY <2>1, <2>3
  <2> QED
    BY <2>2, <2>3
<1>2. TypeOK'
  BY <1>1 DEF TypeOK
<1>3. OneWrite' /\ Abandoned'
  BY <1>1 DEF OneWrite, Abandoned, Busy
<1>4. Ordered'
  BY <1>1 DEF Ordered
<1> QED
  BY <1>2, <1>3, <1>4

-----------------------------------------------------------------------------

\* Every step keeps the invariant.
LEMMA CallsNext == CallsInv /\ [Next]_vars => CallsInv'
<1> SUFFICES ASSUME CallsInv, [Next]_vars PROVE CallsInv'
  OBVIOUS
<1>1. ASSUME NEW c \in Clients, Run(c) PROVE CallsInv'
  BY <1>1, RunStep
<1>2. ASSUME NEW c \in Clients, Return(c) \/ ReturnError(c) PROVE CallsInv'
  BY <1>2, ReturnStep
<1>3. ASSUME NEW c \in Clients, TimeOut(c) PROVE CallsInv'
  BY <1>3, TimeOutStep
<1>4. ASSUME NEW t \in Threads, Write(t) PROVE CallsInv'
  BY <1>4, WriteStep
<1>5. ASSUME NEW t \in Threads, Raise(t) PROVE CallsInv'
  BY <1>5, RaiseStep
<1>6. ASSUME NEW t \in Threads, NEW c \in Clients, Start(t, c) PROVE CallsInv'
  BY <1>6, StartStep
<1>7. CASE Restart
  BY <1>7, RestartStep
<1>8. CASE Tick
  BY <1>8, TickStep
<1>9. CASE UNCHANGED vars
  BY <1>9 DEF CallsInv, TypeOK, OneWrite, Abandoned, Ordered, Busy, vars
<1> QED
  BY <1>1, <1>2, <1>3, <1>4, <1>5, <1>6, <1>7, <1>8, <1>9 DEF Next

\* The invariant holds in every behaviour.
THEOREM CallsInvariant == Spec => []CallsInv
<1> QED
  BY CallsInit, CallsNext, PTL DEF Spec

\* Every variable keeps its type; in particular no call outlives its timer.
THEOREM CallsTyped == Spec => []TypeOK
<1>1. CallsInv => TypeOK
  BY DEF CallsInv
<1> QED
  BY <1>1, CallsInvariant, PTL

\* PostgresRepository.run and StateManager.run: what a caller was told is
\* written is not undone by a write that was given up before it.
THEOREM ConfirmedWritesStay == Spec => []ConfirmedIsKept
<1>1. CallsInv => ConfirmedIsKept
  BY DEF CallsInv, Ordered, ConfirmedIsKept
<1> QED
  BY <1>1, CallsInvariant, PTL
=============================================================================
