----------------------------- MODULE PersistenceCalls ----------------------------
(***************************************************************************)
(* How the bot calls its two stores: PostgresRepository.run on a pool of   *)
(* threads, StateManager.run on a single one. A call that is not back in   *)
(* time quarantines the store, because its thread cannot be killed: the    *)
(* write it was asked for may still land, at any later time, and no call   *)
(* made after it may be overtaken by it.                                   *)
(*                                                                         *)
(* Each client writes a row of its own, under the lock of its job, and the *)
(* n-th write it asks for stores the value n.                              *)
(***************************************************************************)
EXTENDS Naturals

CONSTANTS
  Clients,  \* who calls
  Threads,  \* of the executor
  Timeout,  \* in units of time, how long a call may take
  Max       \* bound on the writes a client asks for

ASSUME CallsAssumption == Timeout \in Nat \ {0} /\ Max \in Nat

VARIABLES
  call,         \* [Clients]: where a client's call is, and the time it has left
  thread,       \* [Threads]: the write a thread is executing
  stored,       \* [Clients -> Nat]: what the store holds
  quarantined,  \* _quarantined, _EXECUTOR_POISONED
  beat,         \* what the registry says of the store: db_worker, state_worker
  asked,        \* history: the writes each client asked for
  confirmed     \* history: the last write each client saw succeed

vars == <<call, thread, stored, quarantined, beat, asked, confirmed>>

Free   == [by |-> "nobody", value |-> 0]
Phases == {"idle", "queued", "running", "done", "failed"}

TypeOK ==
  /\ call \in [Clients -> [phase : Phases, left : 0..Timeout]]
  /\ thread \in [Threads -> [by : Clients, value : 1..Max] \cup {Free}]
  /\ stored \in [Clients -> 0..Max]
  /\ quarantined \in BOOLEAN
  /\ beat \in {"none", "alive", "dead"}
  /\ asked \in [Clients -> 0..Max] /\ confirmed \in [Clients -> 0..Max]

Idle == [phase |-> "idle", left |-> 0]

Init ==
  /\ call = [c \in Clients |-> Idle]
  /\ thread = [t \in Threads |-> Free]
  /\ stored = [c \in Clients |-> 0]
  /\ quarantined = FALSE
  /\ beat = "none"
  /\ asked = [c \in Clients |-> 0] /\ confirmed = [c \in Clients |-> 0]

\* Who is still waiting for what a thread executes: nobody, if it was abandoned.
Awaited(t) ==
  LET c == thread[t].by
  IN  call[c].phase = "running" /\ thread[t].value = asked[c]

To(c, phase) == call' = [call EXCEPT ![c].phase = phase]

-----------------------------------------------------------------------------

\* Mutant: a store that timed out is called again.
NeverRefused == FALSE

Refused == quarantined

\* Refused in quarantine, by an error that changes nothing.
Run(c) ==
  /\ call[c].phase = "idle" /\ asked[c] < Max /\ ~Refused
  /\ call' = [call EXCEPT ![c] = [phase |-> "queued", left |-> Timeout]]
  /\ asked' = [asked EXCEPT ![c] = @ + 1]
  /\ UNCHANGED <<thread, stored, quarantined, beat, confirmed>>

\* A free thread takes the oldest call of the queue: all were given the same
\* time, so the oldest has the least of it left.
Start(t, c) ==
  /\ thread[t] = Free /\ call[c].phase = "queued"
  /\ \A d \in Clients : call[d].phase = "queued" => call[c].left <= call[d].left
  /\ thread' = [thread EXCEPT ![t] = [by |-> c, value |-> asked[c]]]
  /\ To(c, "running")
  /\ UNCHANGED <<stored, quarantined, beat, asked, confirmed>>

Ends(t, phase) ==
  /\ thread[t] # Free
  /\ IF Awaited(t) THEN To(thread[t].by, phase) ELSE UNCHANGED call
  /\ thread' = [thread EXCEPT ![t] = Free]
  /\ UNCHANGED <<quarantined, beat, asked, confirmed>>

\* The write lands, awaited or not.
Write(t) ==
  /\ Ends(t, "done")
  /\ stored' = [stored EXCEPT ![thread[t].by] = thread[t].value]

\* The thread raises and its transaction is rolled back.
Raise(t) == Ends(t, "failed") /\ UNCHANGED stored

\* The event loop resumes the caller.
Return(c) ==
  /\ call[c].phase = "done"
  /\ call' = [call EXCEPT ![c] = Idle]
  /\ beat' = "alive"
  /\ confirmed' = [confirmed EXCEPT ![c] = asked[c]]
  /\ UNCHANGED <<thread, stored, quarantined, asked>>

\* Its error reaches the caller; nothing is beaten.
ReturnError(c) ==
  /\ call[c].phase = "failed"
  /\ call' = [call EXCEPT ![c] = Idle]
  /\ UNCHANGED <<thread, stored, quarantined, beat, asked, confirmed>>

\* wait_for cancels a call that is still queued, and abandons one that runs.
\* A call that has ended may lose the race against its timer.
TimeOut(c) ==
  /\ call[c].phase # "idle" /\ call[c].left = 0
  /\ call' = [call EXCEPT ![c] = Idle]
  /\ quarantined' = TRUE
  /\ beat' = "dead"
  /\ UNCHANGED <<thread, stored, asked, confirmed>>

\* The process is started again, with a fresh executor; what its threads had
\* not written is gone with them.
Restart ==
  /\ quarantined
  /\ call' = [c \in Clients |-> Idle] /\ thread' = [t \in Threads |-> Free]
  /\ quarantined' = FALSE /\ beat' = "none"
  /\ UNCHANGED <<stored, asked, confirmed>>

Pass ==
  /\ call' = [c \in Clients |->
       IF call[c].phase = "idle" THEN call[c] ELSE [call[c] EXCEPT !.left = @ - 1]]
  /\ UNCHANGED <<thread, stored, quarantined, beat, asked, confirmed>>

\* Mutant: a call waits for its thread, however long that takes.
UntimedTick == (\E c \in Clients : call[c].phase # "idle") /\ Pass

\* Timers fire, and callers are resumed, before more time passes.
Tick ==
  /\ \E c \in Clients : call[c].phase # "idle"
  /\ \A c \in Clients :
       call[c].phase # "idle" => call[c].left > 0 /\ call[c].phase \notin {"done", "failed"}
  /\ Pass

Next ==
  \/ \E c \in Clients : Run(c) \/ Return(c) \/ ReturnError(c) \/ TimeOut(c)
  \/ \E t \in Threads : Write(t) \/ Raise(t) \/ \E c \in Clients : Start(t, c)
  \/ Restart \/ Tick

Spec == Init /\ [][Next]_vars

-----------------------------------------------------------------------------

\* What a caller was told is written stays written: a write whose caller gave
\* up never lands on top of one that was asked for after it.
ConfirmedIsKept == \A c \in Clients : confirmed[c] <= stored[c]

\* A store in quarantine is reported dead, until the restart: "this dead state
\* can never be silently overwritten back to alive" (postgres.py:353, state.py:202).
\* Refuted: a call under way when another one times out returns after it.
QuarantineShows == quarantined => beat = "dead"
=============================================================================
