------------------------------- MODULE Supervision ------------------------------
(***************************************************************************)
(* How the container notices that it stopped working: the registry of the  *)
(* workers' beats and the heartbeat file (infra/heartbeat.py), the probe   *)
(* that reads the file from outside (infra/healthcheck.py), the task group *)
(* of the workers (wiring/workers.py) and the workers as far as they beat: *)
(* a source (source_worker.py), the scraper scheduler                      *)
(* (scraper_scheduler.py), Telegram (adapters/sources/telegram.py).        *)
(*                                                                         *)
(* Time passes in units; what is due happens before more of it passes,     *)
(* unless the event loop is blocked.                                       *)
(***************************************************************************)
EXTENDS Integers, Sequences, FiniteSets

CONSTANTS
  Cadence,      \* LIVENESS_BEAT_CADENCE_SECONDS
  Interval,     \* heartbeat_interval_seconds
  MaxAge,       \* heartbeat_max_age_seconds
  Backoff,      \* the wait before a reconnect
  Threshold,    \* CONSECUTIVE_FAILURE_THRESHOLD
  MaxFaults     \* bound on deaths, blocked loops and quarantines

StaleAfter == 3 * Interval

ASSUME SupervisionAssumption ==
  /\ {Cadence, Interval, MaxAge, Backoff, Threshold} \subseteq Nat \ {0}
  /\ MaxFaults \in Nat
  /\ Interval <= MaxAge     \* checked by runtime_config

\* The workers beat often enough for the window, as they do at the default interval
\* (source_worker.py, heartbeat.py); no configuration is checked for it.
BeatsInTime == Cadence <= StaleAfter

VARIABLES
  up,        \* the process runs
  task,      \* [Workers]: what a worker's task is doing
  due,       \* [Workers -> Nat]: time until it wakes up
  registry,  \* liveness: state of each known worker, and the age of its last beat
  fails,     \* consecutive failed scrapes, up to the threshold
  file,      \* the heartbeat file: its age and the registry it holds
  blocked,   \* something blocks the event loop
  faults,
  since,     \* history: for how long something has been dead in the registry
  calm       \* history: for how long nothing has been wrong

vars == <<up, task, due, registry, fails, file, blocked, faults, since, calm>>

Order == <<"telegram", "__heartbeat__", "source", "scraper_scheduler">>
Workers  == {Order[i] : i \in DOMAIN Order}
Critical == Workers
States   == {"alive", "reconnecting", "dead", "shutdown"}

Over    == {"ended", "raised", "cancelled"}
\* It waits for an operation, without a beat and for as long as that takes.
Silent  == {"poll", "scrape", "connecting", "closing"}
Tasks   == {"new", "idle", "process", "sleep", "connected", "backoff"} \cup Silent \cup Over
Capped(n, cap) == IF n < cap THEN n ELSE cap

TypeOK ==
  /\ up \in BOOLEAN /\ blocked \in BOOLEAN
  /\ task \in [Workers -> Tasks]
  /\ \A w \in Workers :
       due[w] <= IF task[w] \in Silent THEN 0
                 ELSE IF task[w] = "backoff" THEN Backoff
                 ELSE IF w = "__heartbeat__" \/ task[w] = "connected" THEN Interval
                 ELSE Cadence
  /\ DOMAIN registry \subseteq Workers \cup {"db_worker"}
  /\ \A w \in DOMAIN registry : registry[w].state \in States
  /\ fails \in 0..Threshold
  /\ file.age \in 0..(MaxAge + 1) /\ DOMAIN file.workers \subseteq Workers \cup {"db_worker"}
  /\ faults \in 0..MaxFaults

Fault == faults < MaxFaults /\ faults' = faults + 1

StoreDead == "db_worker" \in DOMAIN registry /\ registry["db_worker"].state = "dead"

\* Dead in the registry: a worker that returned, an ingestion that fails run
\* after run, a database in quarantine as long as its beat says so.
Dead ==
  \/ (up /\ \E w \in Workers : task[w] = "ended")
  \/ (fails >= Threshold /\ task["scraper_scheduler"] \notin Over)
  \/ StoreDead

-----------------------------------------------------------------------------
(* WorkerLiveness *)

Entry(state, age) == [state |-> state, age |-> age]

Put(w, entry) ==
  [v \in DOMAIN registry \cup {w} |-> IF v = w THEN entry ELSE registry[v]]

Register(w) == IF w \in DOMAIN registry THEN registry ELSE Put(w, Entry("alive", 0))

Beat(w, state) == Put(w, Entry(state, 0))

\* A state without a beat.
SetState(w, state) ==
  Put(w, Entry(state, IF w \in DOMAIN registry THEN registry[w].age ELSE 0))

\* The task group knows the heartbeat loop by another name than its beats, an
\* entry the probe does not ask for.
Track(w, state) == IF w = "__heartbeat__" THEN registry ELSE SetState(w, state)

\* Mutant: a worker sleeps through its whole interval.
WholeSleep == StaleAfter + 1

\* sleep_with_beats and _idle_loop sleep in short steps.
BeatStep == Cadence

Goes(w, to, next) == task' = [task EXCEPT ![w] = to] /\ due' = [due EXCEPT ![w] = next]

Running(w) == up /\ ~blocked /\ task[w] \notin Over \cup {"new"}
At(w, where) == Running(w) /\ task[w] = where

-----------------------------------------------------------------------------
(* The heartbeat file *)

\* The file holds the beats and the time it was written, so that what the probe
\* makes of their difference is settled with the snapshot.
Late(entry) == entry.age > StaleAfter

WriteHeartbeat(reg) ==
  file' = [age |-> 0,
           workers |-> [w \in DOMAIN reg |-> [state |-> reg[w].state, late |-> Late(reg[w])]]]

HeartbeatLoop ==
  LET w == "__heartbeat__"
  IN  /\ At(w, "sleep") /\ due[w] = 0
      /\ WriteHeartbeat(registry)
      /\ registry' = Beat(w, "alive") /\ Goes(w, "sleep", Interval)
      /\ UNCHANGED <<up, fails, blocked, faults, since, calm>>

-----------------------------------------------------------------------------
(* The workers *)

\* The tasks of the group take their first step in the order of registration:
\* the heartbeat is written before the sources are registered.
Started(i) == \A k \in 1..(i - 1) : task[Order[k]] # "new"

StartWorker ==
  /\ up /\ ~blocked /\ \A w \in Workers : task[w] # "raised"
  /\ \E i \in DOMAIN Order :
       LET w == Order[i]
       IN  /\ task[w] = "new" /\ Started(i)
           /\ CASE w = "__heartbeat__" ->
                     Goes(w, "sleep", Interval) /\ registry' = Beat(w, "alive")
                       /\ WriteHeartbeat(Beat(w, "alive"))
                [] w = "telegram" ->
                     Goes(w, "connecting", 0) /\ registry' = Register(w) /\ UNCHANGED file
                [] w = "source" ->
                     Goes(w, "poll", 0) /\ registry' = Beat(w, "alive") /\ UNCHANGED file
                [] w = "scraper_scheduler" ->
                     Goes(w, "scrape", 0) /\ registry' = Register(w) /\ UNCHANGED file
  /\ UNCHANGED <<up, fails, blocked, faults, since, calm>>

\* The poll returns or raises.
EndPoll ==
  LET w == "source"
  IN  /\ At(w, "poll")
      /\ \E to \in {"process", "idle"} : Goes(w, to, BeatStep)
      /\ registry' = Beat(w, "alive")
      /\ UNCHANGED <<up, fails, file, blocked, faults, since, calm>>

\* A job is done, or takes long enough for another beat.
SourceProcesses ==
  LET w == "source"
  IN  /\ At(w, "process")
      /\ \E to \in {"process", "idle"} : Goes(w, to, BeatStep)
      /\ registry' = Beat(w, "alive")
      /\ UNCHANGED <<up, fails, file, blocked, faults, since, calm>>

\* There is no beat at the end of the idle time.
SourceIdles ==
  LET w == "source"
  IN  /\ At(w, "idle") /\ due[w] = 0
      /\ \/ Goes(w, "idle", BeatStep) /\ registry' = Beat(w, "alive")
         \/ Goes(w, "poll", 0) /\ UNCHANGED registry
      /\ UNCHANGED <<up, fails, file, blocked, faults, since, calm>>

\* Mutant: the beats of the sleep say alive, whatever the last runs did.
SleepsAlive(n) == "alive"

LoopState(n) == IF n >= Threshold THEN "dead" ELSE "alive"

EndScrape(failed) ==
  LET w == "scraper_scheduler"
  IN  /\ At(w, "scrape")
      /\ fails' = IF failed THEN Capped(fails + 1, Threshold) ELSE 0
      /\ registry' = Beat(w, LoopState(fails')) /\ Goes(w, "sleep", BeatStep)
      /\ UNCHANGED <<up, file, blocked, faults, calm>>
      /\ since' = IF Dead' THEN since ELSE 0

SchedulerSleeps ==
  LET w == "scraper_scheduler"
  IN  /\ At(w, "sleep") /\ due[w] = 0
      /\ registry' = Beat(w, LoopState(fails))
      /\ \/ Goes(w, "sleep", BeatStep)
         \/ Goes(w, "scrape", 0)
      /\ UNCHANGED <<up, fails, file, blocked, faults, since, calm>>

TelegramStep ==
  LET w == "telegram"
  IN  /\ At(w, "connecting") \/ (At(w, "connected") /\ due[w] = 0)
      /\ Goes(w, "connected", Interval) /\ registry' = Beat(w, "alive")
      /\ UNCHANGED <<up, fails, file, blocked, faults, since, calm>>

\* It is disconnected, or cannot connect, and closes what is left of its client.
Disconnect ==
  LET w == "telegram"
  IN  /\ At(w, "connecting") \/ At(w, "connected")
      /\ Goes(w, "closing", 0)
      /\ UNCHANGED <<up, registry, fails, file, blocked, faults, since, calm>>

BackOff ==
  LET w == "telegram"
  IN  /\ At(w, "closing") /\ Goes(w, "backoff", Backoff) /\ registry' = Beat(w, "reconnecting")
      /\ UNCHANGED <<up, fails, file, blocked, faults, since, calm>>

Reconnect ==
  LET w == "telegram"
  IN  /\ At(w, "backoff") /\ due[w] = 0 /\ Goes(w, "connecting", 0)
      /\ UNCHANGED <<up, registry, fails, file, blocked, faults, since, calm>>

-----------------------------------------------------------------------------
(* What goes wrong *)

\* A worker returns, or raises; the heartbeat loop does when it cannot write.
Dies(how) ==
  /\ \E w \in Workers : Running(w) /\ Goes(w, how, 0) /\ registry' = Track(w, "dead")
  /\ Fault
  /\ UNCHANGED <<up, fails, file, blocked, since, calm>>

\* A timed-out operation quarantines the database.
Quarantine ==
  /\ up /\ ~blocked /\ Fault /\ registry' = Beat("db_worker", "dead") /\ calm' = 0
  /\ UNCHANGED <<up, task, due, fails, file, blocked, since>>

\* A call that was under way when another one timed out returns after it: its
\* beat hides the quarantine (PersistenceCalls: QuarantineShows).
LateReturn ==
  /\ up /\ ~blocked /\ StoreDead /\ registry' = Beat("db_worker", "alive")
  /\ UNCHANGED <<up, task, due, fails, file, blocked, faults, calm>>
  /\ since' = IF Dead' THEN since ELSE 0

BlockLoop   == up /\ ~blocked /\ blocked' = TRUE /\ Fault
                 /\ UNCHANGED <<up, task, due, registry, fails, file, since, calm>>
UnblockLoop == blocked /\ blocked' = FALSE
                 /\ UNCHANGED <<up, task, due, registry, fails, file, faults, since, calm>>

Aborting == \E w \in Workers : task[w] = "raised"

\* An exception cancels the other tasks of the group.
CancelSibling ==
  /\ up /\ ~blocked /\ Aborting
  /\ \E w \in Workers :
       /\ task[w] \notin Over /\ Goes(w, "cancelled", 0)
       /\ registry' = IF task[w] = "new" THEN registry ELSE Track(w, "shutdown")
  /\ UNCHANGED <<up, fails, file, blocked, faults, since, calm>>

\* When all are over the hooks run and the process ends.
Exit ==
  /\ up /\ ~blocked /\ \A w \in Workers : task[w] \in Over
  /\ up' = FALSE
  /\ registry' = << >> /\ fails' = 0 /\ since' = 0 /\ calm' = 0
  /\ UNCHANGED <<task, due, file, blocked, faults>>

\* The container starts it again; the file of the last process is still there.
Restart ==
  /\ ~up /\ up' = TRUE
  /\ task' = [w \in Workers |-> "new"] /\ due' = [w \in Workers |-> 0]
  /\ UNCHANGED <<registry, fails, file, blocked, faults, since, calm>>

-----------------------------------------------------------------------------
(* Time *)

\* An operation has kept the worker from beating for longer than the window.
Overlong(w) == task[w] \in Silent /\ registry[w].state = "alive" /\ Late(registry[w])

Fine ==
  /\ up /\ ~blocked /\ ~Dead
  /\ \A w \in Workers : task[w] \notin Over \cup {"new"} /\ ~Overlong(w)

Pending ==
  \/ Aborting
  \/ \A w \in Workers : task[w] \in Over
  \/ \E w \in Workers :
       task[w] = "new" \/ (task[w] \notin Over \cup Silent /\ due[w] = 0)

Older(entry, n) == [entry EXCEPT !.age = Capped(@ + 1, n)]

\* The probe asks for the age of the workers' beats only.
Aged(w) == IF w \in Workers THEN Older(registry[w], StaleAfter + MaxAge + 1) ELSE registry[w]

Tick ==
  /\ ~up \/ blocked \/ ~Pending
  /\ UNCHANGED <<up, task, fails, blocked, faults>>
  /\ due' = [w \in Workers |-> IF due[w] = 0 THEN 0 ELSE due[w] - 1]
  /\ registry' = [w \in DOMAIN registry |-> Aged(w)]
  /\ file' = Older(file, MaxAge + 1)
  /\ since' = IF Dead THEN Capped(since + 1, MaxAge + 1) ELSE 0
  /\ calm' = IF Fine' THEN Capped(calm + 1, Interval + 1) ELSE 0

-----------------------------------------------------------------------------

Init ==
  /\ up = TRUE
  /\ task = [w \in Workers |-> "new"] /\ due = [w \in Workers |-> 0]
  /\ registry = << >> /\ fails = 0
  /\ file = [age |-> MaxAge + 1, workers |-> << >>]
  /\ blocked = FALSE /\ faults = 0 /\ since = 0 /\ calm = 0

Next ==
  \/ StartWorker \/ HeartbeatLoop
  \/ EndPoll \/ SourceProcesses \/ SourceIdles
  \/ EndScrape(TRUE) \/ EndScrape(FALSE) \/ SchedulerSleeps
  \/ TelegramStep \/ Disconnect \/ BackOff \/ Reconnect
  \/ Dies("ended") \/ Dies("raised") \/ Quarantine \/ LateReturn \/ BlockLoop \/ UnblockLoop
  \/ CancelSibling \/ Exit \/ Restart \/ Tick

Spec == Init /\ [][Next]_vars

-----------------------------------------------------------------------------
(* The probe *)

Missing == Critical \ DOMAIN file.workers
StateOf(w) == file.workers[w].state
BadState == \E w \in Critical : StateOf(w) \notin {"alive", "reconnecting", "shutdown"}
Stale == \E w \in Critical : StateOf(w) = "alive" /\ file.workers[w].late
Quarantined == "db_worker" \in DOMAIN file.workers /\ StateOf("db_worker") = "dead"

\* check_worker_runtime_health: the verdict of a probe made now.
Health ==
  IF file.age > MaxAge \/ Quarantined \/ Missing # {} THEN "UNHEALTHY"
  ELSE IF BadState \/ Stale THEN "UNHEALTHY"
  ELSE IF \E w \in Critical : StateOf(w) = "reconnecting" THEN "DEGRADED"
  ELSE "HEALTHY"

-----------------------------------------------------------------------------
(* Properties *)

\* What stopped working is not reported healthy: a death, sustained scraper
\* failures or a quarantine no longer than until the next snapshot, a worker
\* that hangs in an operation no longer than the staleness window after that.
ReportedInTime ==
  Health = "HEALTHY" =>
    /\ Dead => since <= file.age
    /\ \A w \in Critical : task[w] \in Silent => registry[w].age <= StaleAfter + file.age

\* An alarm has a cause: a container is reported unhealthy only if within the last
\* heartbeat interval something was dead or blocked, or an operation had kept its
\* worker from beating for longer than the window. A sleep, a job in work, an idle
\* connection or a backoff never looks like a hang, and after trouble that
\* passed the verdict is right with the next snapshot.
NoFalseAlarm == Fine /\ calm > Interval => Health # "UNHEALTHY"
=============================================================================
