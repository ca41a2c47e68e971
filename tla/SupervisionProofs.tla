--------------------------- MODULE SupervisionProofs ---------------------------
(***************************************************************************)
(* Theorems about Supervision, for every cadence, interval, age and        *)
(* backoff, operations of any duration and any number of faults.           *)
(***************************************************************************)
EXTENDS Supervision, TLAPS

-----------------------------------------------------------------------------
(* A worker and its entry in the registry                                   *)

TeleW  == "telegram"
HeartW == "__heartbeat__"
SourceW == "source"
ScrapeW == "scraper_scheduler"
Everyone == Workers \cup {"db_worker"}

Known(w) == w \in DOMAIN registry

Places(w) ==
  Over \cup {"new"} \cup
    CASE w = TeleW   -> {"connecting", "connected", "closing", "backoff"}
      [] w = HeartW  -> {"sleep"}
      [] w = SourceW -> {"poll", "process", "idle"}
      [] w = ScrapeW -> {"scrape", "sleep"}

\* What the registry says of a worker that is not over.
Says(w) ==
  CASE w = ScrapeW -> {LoopState(fails)}
    [] w = TeleW -> IF task[w] = "backoff" THEN {"reconnecting"}
                    ELSE IF task[w] = "connected" THEN {"alive"}
                    ELSE {"alive", "reconnecting"}
    [] OTHER -> {"alive"}

Longest(w) ==
  IF task[w] \in Silent THEN 0
  ELSE IF task[w] = "backoff" THEN Backoff
  ELSE IF w = HeartW \/ task[w] = "connected" THEN Interval ELSE Cadence

\* A beat is at most this old when the worker's next one is due; in an operation
\* it is within the window.
Fresh(w) == IF task[w] \in Silent THEN BeatsInTime => ~Late(registry[w])
            ELSE registry[w].age + due[w] <= Longest(w)

\* Unless the loop was blocked, or the operation takes longer than the window.
Excused(w) == calm = 0 /\ due[w] = 0

WorkerOK(w) ==
  /\ task[w] \in Places(w)
  /\ due[w] \in Nat /\ due[w] <= Longest(w)
  /\ task[w] = "new" => ~Known(w) /\ calm = 0
  /\ up /\ task[w] \notin {"new", "cancelled"} => Known(w)
  /\ Known(w) /\ task[w] \in {"ended", "raised"} /\ w # HeartW => registry[w].state = "dead"
  /\ Known(w) /\ task[w] \notin Over =>
       /\ registry[w].state \in Says(w)
       /\ registry[w].state = "alive" => Fresh(w) \/ Excused(w)

GlobalOK ==
  /\ up \in BOOLEAN /\ blocked \in BOOLEAN
  /\ task \in [Workers -> Tasks] /\ due \in [Workers -> Nat]
  /\ DOMAIN registry \subseteq Everyone
  /\ \A w \in DOMAIN registry : registry[w] \in [state : States, age : Nat]
  /\ fails \in 0..Threshold /\ faults \in 0..MaxFaults
  /\ since \in 0..(MaxAge + 1) /\ calm \in 0..(Interval + 1)
  /\ ~up => /\ DOMAIN registry = {} /\ fails = 0 /\ calm = 0 /\ since = 0
            /\ \A w \in Workers : task[w] \in Over
  /\ StoreDead => calm = 0
  /\ fails > 0 => task[ScrapeW] # "new"
  /\ fails >= Threshold /\ task[ScrapeW] \notin Over =>
       calm = 0 \/ (task[ScrapeW] = "sleep" /\ due[ScrapeW] = Cadence)
  /\ since > 0 => Dead \/ Aborting

WorkersOK == GlobalOK /\ \A w \in Workers : WorkerOK(w)

Alarm == Missing # {} \/ Quarantined \/ BadState
Sound == Missing = {} /\ ~Quarantined /\ ~BadState /\ ~Stale
Well == /\ up /\ ~Dead
        /\ \A w \in Workers : task[w] \notin Over \cup {"new"}

FileOK ==
  /\ file.age \in 0..(MaxAge + 1) /\ DOMAIN file.workers \subseteq Everyone
  /\ file \in [age : Nat, workers : {file.workers}]
  /\ up /\ task[HeartW] = "sleep" /\ (due[HeartW] > 0 \/ calm > 0)
       => file.age + due[HeartW] = Interval
  /\ since > file.age => Alarm
  /\ \A w \in Workers :
       Known(w) /\ task[w] # "cancelled" /\ registry[w].age > StaleAfter + file.age =>
         /\ w \in DOMAIN file.workers
         /\ StateOf(w) # "shutdown"
         /\ StateOf(w) = "alive" => file.workers[w].late
  /\ BeatsInTime /\ Well /\ calm > file.age => Sound

SuperInv == WorkersOK /\ FileOK

-----------------------------------------------------------------------------
(* Facts about the constants and the registry                               *)

LEMMA Names ==
  /\ Workers = {TeleW, HeartW, SourceW, ScrapeW} /\ Everyone = Workers \cup {"db_worker"}
  /\ "db_worker" \notin Workers
  /\ TeleW # HeartW /\ TeleW # SourceW /\ TeleW # ScrapeW
  /\ HeartW # SourceW /\ HeartW # ScrapeW /\ SourceW # ScrapeW
BY DEF Workers, Order, TeleW, HeartW, SourceW, ScrapeW, Everyone

LEMMA Times ==
  /\ Cadence \in Nat /\ Interval \in Nat /\ MaxAge \in Nat
  /\ Backoff \in Nat /\ Threshold \in Nat /\ MaxFaults \in Nat
  /\ Cadence >= 1 /\ Interval >= 1 /\ MaxAge >= 1 /\ Threshold >= 1
  /\ Interval <= MaxAge /\ StaleAfter = 3 * Interval /\ StaleAfter \in Nat
  /\ BeatsInTime => Cadence <= StaleAfter
BY SupervisionAssumption DEF StaleAfter, BeatsInTime

LEMMA PutFacts ==
  ASSUME NEW w, NEW e
  PROVE  /\ DOMAIN Put(w, e) = DOMAIN registry \cup {w}
         /\ Put(w, e)[w] = e
         /\ \A v \in DOMAIN registry : v # w => Put(w, e)[v] = registry[v]
BY DEF Put

LEMMA EntryFacts ==
  ASSUME NEW s, NEW a
  PROVE  Entry(s, a).state = s /\ Entry(s, a).age = a
BY DEF Entry

\* What a step makes of the entry of w, the only one it may touch.
Puts(w, s, a) == registry' = Put(w, Entry(s, a))
Touches(w) == registry' = registry \/ \E s \in States, a \in Nat : Puts(w, s, a)

Same(v) == /\ task'[v] = task[v] /\ due'[v] = due[v]
           /\ Known(v)' <=> Known(v)
           /\ Known(v) => registry'[v] = registry[v]

LEMMA Touched ==
  ASSUME GlobalOK, NEW w \in Everyone, Touches(w)
  PROVE  /\ DOMAIN registry' \subseteq Everyone
         /\ \A v \in DOMAIN registry' : registry'[v] \in [state : States, age : Nat]
         /\ \A v \in Everyone : v # w =>
              /\ Known(v)' <=> Known(v)
              /\ Known(v) => registry'[v] = registry[v]
         /\ w # "db_worker" => (StoreDead' <=> StoreDead)
<1>1. /\ DOMAIN registry \subseteq Everyone
      /\ \A v \in DOMAIN registry : registry[v] \in [state : States, age : Nat]
  BY DEF GlobalOK
<1>2. CASE registry' = registry
  BY <1>1, <1>2 DEF Known, StoreDead
<1>3. ASSUME NEW s \in States, NEW a \in Nat, Puts(w, s, a)
      PROVE  /\ DOMAIN registry' \subseteq Everyone
             /\ \A v \in DOMAIN registry' : registry'[v] \in [state : States, age : Nat]
             /\ \A v \in Everyone : v # w =>
                  /\ Known(v)' <=> Known(v)
                  /\ Known(v) => registry'[v] = registry[v]
             /\ w # "db_worker" => (StoreDead' <=> StoreDead)
  <2>1. /\ DOMAIN registry' = DOMAIN registry \cup {w} /\ registry'[w] = Entry(s, a)
        /\ \A v \in DOMAIN registry : v # w => registry'[v] = registry[v]
    BY <1>3 DEF Puts, Put
  <2>2. Entry(s, a) \in [state : States, age : Nat]
    BY DEF Entry
  <2>3. "db_worker" \in Everyone
    BY DEF Everyone
  <2> QED BY <1>1, <2>1, <2>2, <2>3 DEF Known, StoreDead
<1> QED BY <1>2, <1>3 DEF Touches

LEMMA Gone ==
  ASSUME GlobalOK, NEW w \in Workers, NEW to \in Tasks, NEW next \in Nat,
         Goes(w, to, next)
  PROVE  /\ task' \in [Workers -> Tasks] /\ due' \in [Workers -> Nat]
         /\ task'[w] = to /\ due'[w] = next
         /\ \A v \in Workers : v # w => task'[v] = task[v] /\ due'[v] = due[v]
BY DEF Goes, GlobalOK

\* A worker whose own part of the state stays.
LEMMA WorkerKept ==
  ASSUME NEW v \in Workers, WorkerOK(v), Same(v), up' => up,
         v = ScrapeW => fails' = fails, calm' = calm \/ calm' = 0,
         calm \in Nat
  PROVE  WorkerOK(v)'
<1>1. /\ Places(v)' = Places(v) /\ Longest(v)' = Longest(v) /\ Says(v)' = Says(v)
  BY DEF Same, Places, Longest, Says, LoopState
<1>2. Known(v) => (Fresh(v)' <=> Fresh(v))
  BY <1>1 DEF Same, Fresh, Late
<1>3. Excused(v) => Excused(v)'
  BY DEF Same, Excused
<1> QED BY <1>1, <1>2, <1>3 DEF WorkerOK, Same

-----------------------------------------------------------------------------
(* A step of one worker                                                     *)

Moves(w, to, next) ==
  /\ Goes(w, to, next) /\ Touches(w) /\ to \in Tasks \ {"new"} /\ next \in Nat
  /\ task[w] \notin Over /\ up /\ UNCHANGED <<up, calm>>

LEMMA OthersKept ==
  ASSUME WorkersOK, NEW w \in Workers, NEW to, NEW next, Moves(w, to, next),
         w # ScrapeW => fails' = fails
  PROVE  \A v \in Workers : v # w => Same(v) /\ WorkerOK(v)'
<1> SUFFICES ASSUME NEW v \in Workers, v # w PROVE Same(v) /\ WorkerOK(v)'
  OBVIOUS
<1>1. v \in Everyone /\ w \in Everyone
  BY DEF Everyone
<1>2. Same(v)
  BY <1>1, Gone, Touched DEF Moves, Same, WorkersOK
<1>3. WorkerOK(v) /\ calm \in Nat
  BY Times DEF WorkersOK, GlobalOK
<1>4. v = ScrapeW => fails' = fails
  OBVIOUS
<1> QED BY <1>2, <1>3, <1>4, WorkerKept DEF Moves

\* What is dead stays dead, but the scheduler's failures end with its task.
LEMMA DeadStays ==
  ASSUME WorkersOK, NEW w \in Workers, NEW to, NEW next, Moves(w, to, next),
         fails' = fails
  PROVE  /\ Dead => Dead' \/ (w = ScrapeW /\ to \in Over)
         /\ Dead' => Dead \/ to \in Over
         /\ (Dead \/ Aborting) /\ (to = "cancelled" => Aborting) => Dead' \/ Aborting'
<1>1. /\ task'[w] = to
      /\ \A v \in Workers : v # w => task'[v] = task[v]
      /\ StoreDead' <=> StoreDead
  <2>1. w \in Everyone /\ w # "db_worker"
    BY Names DEF Everyone
  <2> QED BY <2>1, Gone, Touched DEF Moves, WorkersOK
<1>2. task[w] \notin Over /\ up /\ up' /\ ScrapeW \in Workers
  BY Names DEF Moves
<1>3. Aborting => Aborting'
  BY <1>1, <1>2 DEF Aborting, Over
<1>4. (\E v \in Workers : task[v] = "ended") => \E v \in Workers : task'[v] = "ended"
  BY <1>1, <1>2 DEF Over
<1>5. (\E v \in Workers : task'[v] = "ended") => to = "ended" \/ \E v \in Workers : task[v] = "ended"
  BY <1>1
<1>6. /\ fails >= Threshold /\ task[ScrapeW] \notin Over
           => (fails' >= Threshold /\ task'[ScrapeW] \notin Over) \/ (w = ScrapeW /\ to \in Over)
      /\ fails' >= Threshold /\ task'[ScrapeW] \notin Over
           => fails >= Threshold /\ task[ScrapeW] \notin Over
  BY <1>1, <1>2
<1>7. /\ Dead <=> \/ \E v \in Workers : task[v] = "ended"
                  \/ fails >= Threshold /\ task[ScrapeW] \notin Over
                  \/ StoreDead
      /\ Dead' <=> \/ \E v \in Workers : task'[v] = "ended"
                   \/ fails' >= Threshold /\ task'[ScrapeW] \notin Over
                   \/ StoreDead'
  BY <1>2 DEF Dead, ScrapeW
<1>8. to \in Over => \/ to = "ended" /\ Dead'
                     \/ to = "raised" /\ Aborting'
                     \/ to = "cancelled"
  BY <1>1, <1>7 DEF Over, Aborting
<1>9. to = "ended" => to \in Over
  BY DEF Over
<1> QED BY <1>1, <1>3, <1>4, <1>5, <1>6, <1>7, <1>8, <1>9

LEMMA GlobalMoves ==
  ASSUME WorkersOK, NEW w \in Workers, NEW to, NEW next, Moves(w, to, next),
         blocked' = blocked, faults' \in 0..MaxFaults,
         fails' = fails, since' = since,
         w = ScrapeW /\ fails >= Threshold => calm = 0 \/ to \in Over,
         to = "cancelled" => Aborting
  PROVE  GlobalOK'
<1>0. GlobalOK
  BY DEF WorkersOK
<1>1. /\ task' \in [Workers -> Tasks] /\ due' \in [Workers -> Nat]
      /\ task'[w] = to
      /\ \A v \in Workers : v # w => task'[v] = task[v] /\ due'[v] = due[v]
  BY <1>0, Gone DEF Moves
<1>2. /\ DOMAIN registry' \subseteq Everyone
      /\ \A v \in DOMAIN registry' : registry'[v] \in [state : States, age : Nat]
      /\ StoreDead' <=> StoreDead
  <2>1. w \in Everyone /\ w # "db_worker"
    BY Names DEF Everyone
  <2> QED BY <1>0, <2>1, Touched DEF Moves
<1>3. up /\ up' /\ calm' = calm /\ to # "new" /\ task[w] \notin Over
  BY DEF Moves
<1>4. since' > 0 => Dead' \/ Aborting'
  BY <1>0, DeadStays DEF GlobalOK
<1>5. fails' > 0 => task'[ScrapeW] # "new"
  BY <1>0, <1>1, <1>3, Names DEF GlobalOK
<1>6. fails' >= Threshold /\ task'[ScrapeW] \notin Over =>
        calm' = 0 \/ (task'[ScrapeW] = "sleep" /\ due'[ScrapeW] = Cadence)
  BY <1>0, <1>1, <1>3, Names DEF GlobalOK
<1> QED BY <1>0, <1>1, <1>2, <1>3, <1>4, <1>5, <1>6 DEF GlobalOK

\* The heartbeat file stays as it is.
LEMMA FileKept ==
  ASSUME SuperInv, NEW w \in Workers, NEW to, NEW next, Moves(w, to, next),
         file' = file, since' = since \/ since' = 0,
         fails' = fails \/ (w = ScrapeW /\ (calm = 0 \/ (Well' => Well))),
         w = HeartW => to \in Over,
         task[w] = "new" => calm = 0 \/ to \in Over,
         Known(w)' => registry'[w].age = 0 \/ (Known(w) /\ registry'[w].age = registry[w].age),
         task[w] = "new" => (Known(w)' => registry'[w].age = 0)
  PROVE  FileOK'
<1>0. GlobalOK /\ FileOK /\ Interval \in Nat /\ StaleAfter \in Nat
  BY Times DEF SuperInv, WorkersOK
<1>1. /\ task'[w] = to
      /\ \A v \in Workers : v # w => task'[v] = task[v] /\ due'[v] = due[v]
      /\ \A v \in Workers : v # w => Same(v)
  BY <1>0, Gone, OthersKept, Names DEF Moves, SuperInv
<1>2. up /\ up' /\ calm' = calm /\ task[w] \notin Over /\ calm \in Nat /\ file.age \in Nat
  BY <1>0 DEF Moves, GlobalOK, FileOK
<1>3. up' /\ task'[HeartW] = "sleep" /\ (due'[HeartW] > 0 \/ calm' > 0)
       => file'.age + due'[HeartW] = Interval
  BY <1>0, <1>1, <1>2, Names DEF FileOK, Over
<1>4. since' > file'.age => Alarm'
  <2>1. since' > file'.age => since > file.age
    BY <1>2
  <2>2. Alarm' <=> Alarm
    BY DEF Alarm, Missing, Quarantined, BadState, StateOf
  <2> QED BY <1>0, <2>1, <2>2 DEF FileOK
<1>5. ASSUME NEW v \in Workers, Known(v)', task'[v] # "cancelled",
             registry'[v].age > StaleAfter + file'.age
      PROVE  /\ v \in DOMAIN file'.workers
             /\ StateOf(v)' # "shutdown"
             /\ StateOf(v)' = "alive" => file'.workers[v].late
  <2>1. CASE v # w
    BY <1>0, <1>1, <1>5, <2>1 DEF FileOK, Same, StateOf
  <2>2. CASE v = w
    <3>1. Known(w) /\ registry[w].age > StaleAfter + file.age
      BY <1>0, <1>2, <1>5, <2>2
    <3>2. task[w] # "cancelled"
      BY <1>2 DEF Over
    <3> QED BY <1>0, <2>2, <3>1, <3>2 DEF FileOK, StateOf
  <2> QED BY <2>1, <2>2
<1>6. Well' => Well \/ calm = 0
  <2>1. CASE fails' = fails
    <3>1. SUFFICES ASSUME Well' PROVE Well \/ calm = 0
      OBVIOUS
    <3>2. to \notin Over \cup {"new"} /\ ~Dead'
      BY <1>1, <3>1 DEF Well
    <3>3. ~Dead
      BY <2>1, <3>2, DeadStays DEF SuperInv
    <3>4. \A v \in Workers : v # w => task[v] \notin Over \cup {"new"}
      BY <1>1, <3>1 DEF Well
    <3> QED BY <1>2, <3>2, <3>3, <3>4 DEF Well
  <2> QED BY <2>1
<1>7. BeatsInTime /\ Well' /\ calm' > file'.age => Sound'
  <2>1. Sound' <=> Sound
    BY DEF Sound, Missing, Quarantined, BadState, Stale, StateOf
  <2> QED BY <1>0, <1>2, <1>6, <2>1 DEF FileOK
<1>8. /\ file'.age \in 0..(MaxAge + 1) /\ DOMAIN file'.workers \subseteq Everyone
      /\ file' \in [age : Nat, workers : {file'.workers}]
  BY <1>0 DEF FileOK
<1> QED BY <1>3, <1>4, <1>5, <1>7, <1>8 DEF FileOK

LEMMA BeatFacts ==
  ASSUME NEW w, NEW s \in States, registry' = Beat(w, s)
  PROVE  /\ Touches(w) /\ Known(w)'
         /\ registry'[w].state = s /\ registry'[w].age = 0
<1>1. registry' = Put(w, Entry(s, 0)) /\ 0 \in Nat
  BY DEF Beat
<1>2. Known(w)' /\ registry'[w] = Entry(s, 0)
  BY <1>1 DEF Put, Known
<1> QED BY <1>1, <1>2, EntryFacts DEF Touches, Puts

LEMMA StateFacts ==
  ASSUME GlobalOK, NEW w \in Workers, NEW s \in States, registry' = SetState(w, s)
  PROVE  /\ Touches(w) /\ Known(w)' /\ registry'[w].state = s
         /\ registry'[w].age = 0 \/ (Known(w) /\ registry'[w].age = registry[w].age)
         /\ ~Known(w) => registry'[w].age = 0
<1> DEFINE a == IF w \in DOMAIN registry THEN registry[w].age ELSE 0
<1>1. a \in Nat
  BY DEF GlobalOK
<1>2. a = 0 \/ (Known(w) /\ a = registry[w].age)
  BY DEF Known
<1>3. ~Known(w) => a = 0
  BY DEF Known
<1>4. registry' = Put(w, Entry(s, a))
  BY DEF SetState
<1> HIDE DEF a
<1>5. Known(w)' /\ registry'[w] = Entry(s, a)
  BY <1>4 DEF Put, Known
<1> QED BY <1>1, <1>2, <1>3, <1>4, <1>5, EntryFacts DEF Touches, Puts

LEMMA StepKeeps ==
  ASSUME SuperInv, NEW w \in Workers, NEW to, NEW next, Moves(w, to, next),
         WorkerOK(w)', blocked' = blocked, faults' \in 0..MaxFaults,
         UNCHANGED <<fails, since, file>>,
         w = ScrapeW /\ fails >= Threshold => calm = 0 \/ to \in Over,
         to = "cancelled" => Aborting,
         w = HeartW => to \in Over,
         Known(w)' => registry'[w].age = 0 \/ (Known(w) /\ registry'[w].age = registry[w].age)
  PROVE  SuperInv'
<1>1. WorkersOK /\ WorkerOK(w)
  BY DEF SuperInv, WorkersOK
<1>2. GlobalOK'
  BY <1>1, GlobalMoves
<1>3. \A v \in Workers : WorkerOK(v)'
  BY <1>1, OthersKept
<1>4. task[w] = "new" => calm = 0 /\ ~Known(w)
  BY <1>1 DEF WorkerOK
<1>5. FileOK'
  BY <1>4, FileKept
<1> QED BY <1>2, <1>3, <1>5 DEF SuperInv, WorkersOK

\* After a beat the next one is due in time.
LEMMA Beaten ==
  ASSUME WorkersOK, NEW w \in Workers, NEW to, NEW next, Goes(w, to, next),
         NEW s \in States, registry' = Beat(w, s),
         to \in Tasks \ (Over \cup {"new"}), next \in Nat, to \in Places(w)',
         s \in Says(w)', next <= Longest(w)'
  PROVE  WorkerOK(w)'
<1>1. task'[w] = to /\ due'[w] = next
  BY Gone DEF WorkersOK
<1>2. Known(w)' /\ registry'[w].state = s /\ registry'[w].age = 0
  BY BeatFacts
<1>3. Fresh(w)'
  BY <1>1, <1>2, Times DEF Fresh, Late
<1> QED BY <1>1, <1>2, <1>3 DEF WorkerOK, Over

\* A worker whose last beat is fresh begins an operation.
LEMMA Waits ==
  ASSUME WorkersOK, NEW w \in Workers, NEW to, Moves(w, to, 0), registry' = registry,
         to \in Silent, to \in Places(w)', Says(w) \subseteq Says(w)',
         task[w] # "new", task[w] = "backoff" => registry[w].state # "alive"
  PROVE  WorkerOK(w)' /\ Known(w) /\ (Known(w)' <=> Known(w))
<1>1. task'[w] = to /\ due'[w] = 0 /\ task[w] \notin Over /\ up /\ calm' = calm
  BY Gone DEF Moves, WorkersOK
<1>2. WorkerOK(w)
  BY DEF WorkersOK
<1>3. Known(w) /\ Known(w)' /\ registry'[w] = registry[w]
  BY <1>1, <1>2 DEF WorkerOK, Known, Over
<1>4. Longest(w)' = 0
  <2>1. task'[w] # "backoff" /\ task'[w] \in Silent
    BY <1>1 DEF Silent
  <2> QED BY <2>1 DEF Longest
<1>5. registry[w].state = "alive" => Fresh(w)' \/ Excused(w)'
  <2>1. SUFFICES ASSUME registry[w].state = "alive" PROVE Fresh(w)' \/ Excused(w)'
    OBVIOUS
  <2>2. Fresh(w) \/ Excused(w)
    BY <1>1, <1>2, <1>3, <2>1 DEF WorkerOK
  <2>3. CASE Excused(w)
    BY <1>1, <2>3 DEF Excused
  <2>4. CASE Fresh(w) /\ task[w] \in Silent
    BY <1>1, <1>3, <2>4 DEF Fresh, Late
  <2>5. CASE Fresh(w) /\ task[w] \notin Silent
    <3>1. registry[w].age \in Nat /\ due[w] \in Nat
      BY <1>2, <1>3 DEF WorkersOK, GlobalOK, WorkerOK, Known
    <3>2. Longest(w) \in {Interval, Cadence}
      BY <2>1, <2>5 DEF Longest
    <3>3. registry[w].age + due[w] <= Longest(w)
      BY <2>5 DEF Fresh
    <3>4. BeatsInTime => registry[w].age <= StaleAfter
      BY <3>1, <3>2, <3>3, Times
    <3>5. BeatsInTime => ~(registry[w].age > StaleAfter)
      BY <3>1, <3>4, Times
    <3> QED BY <1>1, <1>3, <3>5 DEF Fresh, Late
  <2> QED BY <2>2, <2>3, <2>4, <2>5
<1>6. registry[w].state \in Says(w)'
  BY <1>1, <1>2, <1>3 DEF WorkerOK
<1>7. to \notin Over \cup {"new"}
  BY DEF Silent, Over
<1> QED BY <1>1, <1>3, <1>4, <1>5, <1>6, <1>7 DEF WorkerOK, Over

LEMMA TeleSteps ==
  ASSUME SuperInv, TelegramStep \/ Disconnect \/ BackOff \/ Reconnect
  PROVE  SuperInv'
<1>0. /\ WorkersOK /\ GlobalOK /\ TeleW \in Workers /\ WorkerOK(TeleW)
      /\ TeleW # ScrapeW /\ TeleW # HeartW /\ TeleW # SourceW
      /\ faults' \in 0..MaxFaults /\ blocked' = blocked
      /\ UNCHANGED <<up, calm, fails, since, file>>
  BY Names DEF SuperInv, WorkersOK, GlobalOK, TelegramStep, Disconnect, BackOff, Reconnect
<1>1. /\ up /\ task[TeleW] \in {"connecting", "connected", "closing", "backoff"}
  BY DEF TelegramStep, Disconnect, BackOff, Reconnect, At, Running, TeleW
<1>2. task[TeleW] \notin Over /\ task[TeleW] # "new"
  BY <1>1 DEF Over
<1>3. /\ {"connecting", "connected", "closing", "backoff"} \subseteq Tasks \ (Over \cup {"new"})
      /\ {"connecting", "connected", "closing", "backoff"} \subseteq Places(TeleW)'
      /\ {"alive", "reconnecting"} \subseteq States
      /\ {"connecting", "closing"} \subseteq Silent
  BY <1>0 DEF Tasks, Over, Silent, Places, States
<1>4. CASE TelegramStep
  <2>1. Goes(TeleW, "connected", Interval) /\ registry' = Beat(TeleW, "alive")
    BY <1>4 DEF TelegramStep, TeleW
  <2>2. /\ Touches(TeleW) /\ registry'[TeleW].age = 0
    BY <1>0, <1>3, <2>1, BeatFacts
  <2>3. Moves(TeleW, "connected", Interval)
    BY <1>0, <1>1, <1>2, <1>3, <2>1, <2>2, Times DEF Moves
  <2>4. task'[TeleW] = "connected"
    BY <1>0, <2>1, <1>3, Times, Gone
  <2>5. WorkerOK(TeleW)'
    <3>1. "alive" \in Says(TeleW)' /\ Longest(TeleW)' = Interval
      BY <1>0, <2>4 DEF Says, Longest, Silent
    <3> QED BY <1>0, <1>3, <2>1, <3>1, Beaten, Times
  <2> QED BY <1>0, <1>1, <2>2, <2>3, <2>5, StepKeeps
<1>5. CASE BackOff
  <2>1. Goes(TeleW, "backoff", Backoff) /\ registry' = Beat(TeleW, "reconnecting")
    BY <1>5 DEF BackOff, TeleW
  <2>2. /\ Touches(TeleW) /\ registry'[TeleW].age = 0
    BY <1>0, <1>3, <2>1, BeatFacts
  <2>3. Moves(TeleW, "backoff", Backoff)
    BY <1>0, <1>1, <1>2, <1>3, <2>1, <2>2, Times DEF Moves
  <2>4. task'[TeleW] = "backoff"
    BY <1>0, <2>1, <1>3, Times, Gone
  <2>5. WorkerOK(TeleW)'
    <3>1. "reconnecting" \in Says(TeleW)' /\ Longest(TeleW)' = Backoff
      BY <1>0, <2>4 DEF Says, Longest, Silent
    <3> QED BY <1>0, <1>3, <2>1, <3>1, Beaten, Times
  <2> QED BY <1>0, <1>1, <2>2, <2>3, <2>5, StepKeeps
<1>6. ASSUME NEW to \in {"connecting", "closing"}, Goes(TeleW, to, 0), registry' = registry,
             task[TeleW] = "backoff" => to = "connecting"
      PROVE  SuperInv'
  <2>1. Moves(TeleW, to, 0)
    BY <1>0, <1>1, <1>2, <1>3, <1>6 DEF Moves, Touches
  <2>2. task'[TeleW] = to
    BY <1>0, <1>6, <1>3, Gone
  <2>3. Says(TeleW) \subseteq Says(TeleW)'
    BY <1>0, <1>6, <2>2 DEF Says
  <2>4. task[TeleW] = "backoff" => registry[TeleW].state # "alive"
    <3>1. SUFFICES ASSUME task[TeleW] = "backoff" PROVE registry[TeleW].state # "alive"
      OBVIOUS
    <3>2. Known(TeleW)
      BY <1>0, <1>1, <3>1 DEF WorkerOK
    <3>3. registry[TeleW].state \in Says(TeleW)
      BY <1>0, <1>2, <3>2 DEF WorkerOK
    <3> QED BY <1>0, <3>1, <3>3 DEF Says
  <2>5. WorkerOK(TeleW)' /\ Known(TeleW)
    BY <1>0, <1>2, <1>3, <1>6, <2>1, <2>3, <2>4, Waits
  <2>6. Known(TeleW)' => Known(TeleW) /\ registry'[TeleW].age = registry[TeleW].age
    BY <1>6, <2>5
  <2> QED BY <1>0, <1>1, <1>2, <1>6, <2>1, <2>5, <2>6, StepKeeps
<1>7. CASE Disconnect
  <2>1. Goes(TeleW, "closing", 0) /\ registry' = registry /\ task[TeleW] # "backoff"
    BY <1>7 DEF Disconnect, TeleW, At
  <2> QED BY <1>6, <2>1
<1>8. CASE Reconnect
  BY <1>6, <1>8 DEF Reconnect, TeleW
<1> QED BY <1>4, <1>5, <1>7, <1>8

LEMMA SourceSteps ==
  ASSUME SuperInv, EndPoll \/ SourceProcesses \/ SourceIdles
  PROVE  SuperInv'
<1>0. /\ WorkersOK /\ GlobalOK /\ SourceW \in Workers /\ WorkerOK(SourceW)
      /\ SourceW # ScrapeW /\ SourceW # HeartW /\ SourceW # TeleW
      /\ faults' \in 0..MaxFaults /\ blocked' = blocked
      /\ UNCHANGED <<up, calm, fails, since, file>>
  BY Names DEF SuperInv, WorkersOK, GlobalOK, EndPoll, SourceProcesses, SourceIdles
<1>1. /\ up /\ task[SourceW] \in {"poll", "process", "idle"}
  BY DEF EndPoll, SourceProcesses, SourceIdles, At, Running, SourceW
<1>2. task[SourceW] \notin Over
  BY <1>1 DEF Over
<1>3. /\ {"poll", "process", "idle"} \subseteq Tasks \ (Over \cup {"new"})
      /\ {"poll", "process", "idle"} \subseteq Places(SourceW)'
      /\ "alive" \in States /\ "poll" \in Silent
  BY <1>0 DEF Tasks, Over, Silent, Places, States
<1>4. ASSUME NEW to \in {"process", "idle"}, Goes(SourceW, to, Cadence),
             registry' = Beat(SourceW, "alive")
      PROVE  SuperInv'
  <2>1. /\ Touches(SourceW) /\ registry'[SourceW].age = 0
    BY <1>0, <1>3, <1>4, BeatFacts
  <2>2. Moves(SourceW, to, Cadence)
    BY <1>0, <1>1, <1>2, <1>3, <1>4, <2>1, Times DEF Moves
  <2>3. task'[SourceW] = to
    BY <1>0, <1>4, <1>3, Times, Gone
  <2>4. WorkerOK(SourceW)'
    <3>1. "alive" \in Says(SourceW)' /\ Longest(SourceW)' = Cadence
      BY <1>0, <2>3 DEF Says, Longest, Silent
    <3> QED BY <1>0, <1>3, <1>4, <3>1, Beaten, Times
  <2> QED BY <1>0, <1>1, <2>1, <2>2, <2>4, StepKeeps
<1>5. ASSUME Goes(SourceW, "poll", 0), registry' = registry
      PROVE  SuperInv'
  <2>1. Moves(SourceW, "poll", 0)
    BY <1>0, <1>1, <1>2, <1>3, <1>5 DEF Moves, Touches
  <2>2. Says(SourceW) \subseteq Says(SourceW)'
    BY <1>0 DEF Says
  <2>3. task[SourceW] # "new" /\ task[SourceW] # "backoff"
    BY <1>1
  <2>4. WorkerOK(SourceW)' /\ Known(SourceW)
    BY <1>0, <1>3, <1>5, <2>1, <2>2, <2>3, Waits
  <2>5. Known(SourceW)' => Known(SourceW) /\ registry'[SourceW].age = registry[SourceW].age
    BY <1>5, <2>4
  <2>6. "poll" # "cancelled"
    OBVIOUS
  <2> QED BY <1>0, <1>1, <2>1, <2>3, <2>4, <2>5, <2>6, StepKeeps
<1>6. CASE EndPoll \/ SourceProcesses
  BY <1>4, <1>6 DEF EndPoll, SourceProcesses, SourceW, BeatStep
<1>7. CASE SourceIdles
  BY <1>4, <1>5, <1>7 DEF SourceIdles, SourceW, BeatStep, At
<1> QED BY <1>6, <1>7

LEMMA SchedulerSteps ==
  ASSUME SuperInv, SchedulerSleeps
  PROVE  SuperInv'
<1>0. /\ WorkersOK /\ GlobalOK /\ ScrapeW \in Workers /\ WorkerOK(ScrapeW)
      /\ ScrapeW # SourceW /\ ScrapeW # HeartW /\ ScrapeW # TeleW
      /\ blocked' = blocked /\ UNCHANGED <<up, calm, fails, since, file>>
      /\ fails \in Nat
  BY Names, Times DEF SuperInv, WorkersOK, GlobalOK, SchedulerSleeps
<1>00. faults' \in 0..MaxFaults
  <2>1. faults \in 0..MaxFaults
    BY <1>0 DEF GlobalOK
  <2> QED BY <2>1 DEF SchedulerSleeps
<1>1. /\ up /\ task[ScrapeW] = "sleep" /\ due[ScrapeW] = 0
  BY DEF SchedulerSleeps, At, Running, ScrapeW
<1>2. task[ScrapeW] \notin Over
  BY <1>1 DEF Over
<1>3. /\ {"scrape", "sleep"} \subseteq Tasks \ (Over \cup {"new"})
      /\ {"scrape", "sleep"} \subseteq Places(ScrapeW)'
      /\ LoopState(fails) \in States
  BY <1>0 DEF Tasks, Over, Silent, Places, States, LoopState
<1>4. fails >= Threshold => calm = 0
  BY <1>0, <1>1, <1>2, Times DEF GlobalOK
<1>5. ASSUME NEW to, NEW next,
             (to = "sleep" /\ next = Cadence) \/ (to = "scrape" /\ next = 0),
             Goes(ScrapeW, to, next), registry' = Beat(ScrapeW, LoopState(fails))
      PROVE  SuperInv'
  <2>0. next \in Nat /\ to \in {"scrape", "sleep"}
    BY <1>5, Times
  <2>1. /\ Touches(ScrapeW) /\ registry'[ScrapeW].age = 0
    BY <1>0, <1>3, <1>5, BeatFacts
  <2>2. Moves(ScrapeW, to, next)
    BY <1>0, <1>1, <1>2, <1>3, <1>5, <2>0, <2>1 DEF Moves
  <2>3. task'[ScrapeW] = to
    BY <1>0, <1>5, <1>3, <2>0, Gone
  <2>4. WorkerOK(ScrapeW)'
    <3>1. LoopState(fails) \in Says(ScrapeW)'
      BY <1>0 DEF Says
    <3>2. Longest(ScrapeW)' = next
      BY <1>0, <1>5, <2>3 DEF Longest, Silent
    <3> QED BY <1>0, <1>3, <1>5, <2>0, <3>1, <3>2, Beaten
  <2>5. to # "cancelled"
    BY <1>5
  <2> QED BY <1>0, <1>00, <1>1, <1>4, <2>1, <2>2, <2>4, <2>5, StepKeeps
<1> QED BY <1>5 DEF SchedulerSleeps, ScrapeW, BeatStep

LEMMA TroubleSteps ==
  ASSUME SuperInv, Dies("ended") \/ Dies("raised") \/ CancelSibling
  PROVE  SuperInv'
<1>0. /\ WorkersOK /\ GlobalOK /\ blocked' = blocked
      /\ UNCHANGED <<up, calm, fails, since, file>>
  BY DEF SuperInv, WorkersOK, Dies, CancelSibling
<1>00. faults' \in 0..MaxFaults
  <2>1. faults \in 0..MaxFaults
    BY <1>0 DEF GlobalOK
  <2> QED BY <2>1, Times DEF Dies, CancelSibling, Fault
<1>1. Over \subseteq Tasks \ {"new"} /\ 0 \in Nat
  BY DEF Over, Tasks
\* A worker ends; nothing more is expected of it.
<1>2. ASSUME NEW w \in Workers, NEW to \in Over, Goes(w, to, 0), up, task[w] \notin Over,
             to = "cancelled" => Aborting,
             \/ registry' = registry /\ task[w] = "new" /\ to = "cancelled"
             \/ registry' = registry /\ w = HeartW /\ task[w] # "new"
             \/ \E s \in {"dead", "shutdown"} :
                  registry' = SetState(w, s) /\ (to # "cancelled" => s = "dead")
      PROVE  SuperInv'
  <2>1. WorkerOK(w) /\ to \in Tasks
    BY <1>0, <1>1 DEF WorkersOK
  <2>2. task'[w] = to /\ due'[w] = 0
    BY <1>0, <1>2, <2>1, Gone
  <2>3. CASE registry' = registry /\ task[w] = "new" /\ to = "cancelled"
    <3>1. Moves(w, to, 0)
      BY <1>0, <1>1, <1>2, <2>3 DEF Moves, Touches
    <3>2. ~Known(w)'
      BY <2>1, <2>3 DEF WorkerOK, Known
    <3>3. WorkerOK(w)'
      <4>1. Longest(w)' \in Nat
        BY <2>2, <2>3, Times DEF Longest, Silent
      <4> QED BY <2>2, <2>3, <3>2, <4>1 DEF WorkerOK, Places, Over
    <3> QED BY <1>0, <1>00, <1>2, <3>1, <3>2, <3>3, StepKeeps
  <2>4. ASSUME NEW s \in {"dead", "shutdown"}, registry' = SetState(w, s),
               to # "cancelled" => s = "dead"
        PROVE  SuperInv'
    <3>1. /\ Touches(w) /\ Known(w)' /\ registry'[w].state = s
          /\ registry'[w].age = 0 \/ (Known(w) /\ registry'[w].age = registry[w].age)
      BY <1>0, <2>4, StateFacts DEF States
    <3>2. Moves(w, to, 0)
      BY <1>0, <1>1, <1>2, <3>1 DEF Moves
    <3>3. WorkerOK(w)'
      <4>1. Longest(w)' \in Nat
        BY <1>2, <2>2, Times DEF Longest, Silent, Over
      <4>2. to \in Places(w)' /\ to # "new" /\ to \in Over
        BY <1>2 DEF Places, Over
      <4> QED BY <2>2, <2>4, <3>1, <4>1, <4>2 DEF WorkerOK, Over
    <3> QED BY <1>0, <1>00, <1>2, <3>1, <3>2, <3>3, StepKeeps
\* The heartbeat loop leaves its last beat.
  <2>5. CASE registry' = registry /\ w = HeartW /\ task[w] # "new"
    <3>1. Moves(w, to, 0)
      BY <1>0, <1>1, <1>2, <2>5 DEF Moves, Touches
    <3>2. Known(w) /\ (Known(w)' <=> Known(w)) /\ registry'[w].age = registry[w].age
      BY <1>2, <2>1, <2>5 DEF WorkerOK, Known, Over
    <3>3. WorkerOK(w)'
      <4>1. Longest(w)' \in Nat
        BY Times DEF Longest
      <4>2. to \in Places(w)' /\ to # "new" /\ to \in Over
        BY <1>2 DEF Places, Over
      <4> QED BY <2>2, <2>5, <3>2, <4>1, <4>2 DEF WorkerOK, Over
    <3> QED BY <1>0, <1>00, <1>2, <3>1, <3>2, <3>3, StepKeeps
  <2> QED BY <1>2, <2>3, <2>4, <2>5
<1>4. ASSUME NEW how \in {"ended", "raised"}, Dies(how) PROVE SuperInv'
  <2>1. PICK w \in Workers : Running(w) /\ Goes(w, how, 0) /\ registry' = Track(w, "dead")
    BY <1>4 DEF Dies
  <2>2. \/ registry' = registry /\ w = HeartW /\ task[w] # "new"
        \/ registry' = SetState(w, "dead")
    BY <2>1 DEF Track, HeartW, Running
  <2> QED BY <1>2, <1>4, <2>1, <2>2 DEF Running, Over
<1>5. CASE CancelSibling
  <2>1. PICK w \in Workers :
          /\ task[w] \notin Over /\ Goes(w, "cancelled", 0)
          /\ registry' = IF task[w] = "new" THEN registry ELSE Track(w, "shutdown")
    BY <1>5 DEF CancelSibling
  <2>2. up /\ Aborting
    BY <1>5 DEF CancelSibling
  <2>3. \/ registry' = registry /\ task[w] = "new"
        \/ registry' = registry /\ w = HeartW /\ task[w] # "new"
        \/ registry' = SetState(w, "shutdown")
    BY <2>1 DEF Track, HeartW
  <2> QED BY <1>2, <2>1, <2>2, <2>3 DEF Over
<1> QED BY <1>4, <1>5

-----------------------------------------------------------------------------
(* The heartbeat file                                                       *)

LEMMA InTime ==
  ASSUME WorkersOK, NEW w \in Workers, Known(w), task[w] \notin Over \cup {"new"},
         registry[w].state = "alive", calm > 0, BeatsInTime
  PROVE  ~Late(registry[w])
<1>1. /\ WorkerOK(w) /\ registry[w].age \in Nat /\ calm \in Nat /\ due[w] \in Nat
      /\ StaleAfter \in Nat
  BY Times DEF WorkersOK, GlobalOK, WorkerOK, Known
<1>2. Fresh(w)
  BY <1>1, Times DEF WorkerOK, Excused
<1>3. CASE task[w] \in Silent
  BY <1>2, <1>3 DEF Fresh
<1>4. CASE task[w] \notin Silent
  <2>1. task[w] # "backoff"
    BY <1>1, Names DEF WorkerOK, Says, Places, Over
  <2>2. Longest(w) \in {Interval, Cadence}
    BY <1>4, <2>1 DEF Longest
  <2>3. registry[w].age + due[w] <= Longest(w)
    BY <1>2, <1>4 DEF Fresh
  <2>4. ~(registry[w].age > StaleAfter)
    BY <1>1, <2>2, <2>3, Times
  <2> QED BY <2>4 DEF Late
<1> QED BY <1>3, <1>4

LEMMA Writes ==
  ASSUME SuperInv, Goes(HeartW, "sleep", Interval), registry' = Beat(HeartW, "alive"),
         NEW STATE reg, WriteHeartbeat(reg), reg \in {registry, Beat(HeartW, "alive")},
         UNCHANGED <<up, fails, calm, since>>, up,
         task[HeartW] = "new" \/ (task[HeartW] = "sleep" /\ reg = registry)
  PROVE  FileOK'
<1>0. /\ WorkersOK /\ GlobalOK /\ FileOK /\ HeartW \in Workers /\ HeartW \in Everyone
      /\ HeartW # ScrapeW /\ HeartW # "db_worker" /\ ScrapeW \in Workers
      /\ Workers \subseteq Everyone /\ "db_worker" \in Everyone
      /\ calm \in Nat /\ calm' = calm /\ since \in Nat /\ up' /\ fails \in Nat
  BY Names, Times DEF SuperInv, WorkersOK, GlobalOK, Everyone
<1>1. \A v \in Workers : WorkerOK(v)
  BY <1>0 DEF WorkersOK
<1>2. /\ task'[HeartW] = "sleep" /\ due'[HeartW] = Interval
      /\ \A v \in Workers : v # HeartW => task'[v] = task[v]
  BY <1>0, Gone, Times DEF Tasks
<1>3. /\ Known(HeartW)' /\ registry'[HeartW].age = 0 /\ Touches(HeartW)
      /\ registry'[HeartW].state = "alive"
  BY <1>0, BeatFacts DEF States
<1>4. /\ DOMAIN registry' \subseteq Everyone
      /\ \A v \in DOMAIN registry' : registry'[v] \in [state : States, age : Nat]
      /\ \A v \in Everyone : v # HeartW => /\ Known(v)' <=> Known(v)
                                           /\ Known(v) => registry'[v] = registry[v]
      /\ StoreDead' <=> StoreDead
  BY <1>0, <1>3, Touched
<1>5. /\ DOMAIN reg \subseteq Everyone
      /\ \A v \in DOMAIN reg : reg[v] \in [state : States, age : Nat]
      /\ \A v \in Everyone : v # HeartW => /\ v \in DOMAIN reg <=> Known(v)
                                           /\ Known(v) => reg[v] = registry[v]
  <2>1. CASE reg = registry
    BY <1>0, <2>1 DEF GlobalOK, Known
  <2>2. CASE reg = registry'
    BY <1>4, <2>2 DEF Known
  <2> QED BY <2>1, <2>2
<1>6. /\ file'.age = 0 /\ DOMAIN file'.workers = DOMAIN reg
      /\ \A v \in DOMAIN reg : /\ StateOf(v)' = reg[v].state
                               /\ file'.workers[v].state = reg[v].state
                               /\ file'.workers[v].late = Late(reg[v])
      /\ file' \in [age : Nat, workers : {file'.workers}]
  BY DEF WriteHeartbeat, StateOf
\* A worker of the registry, as the file now shows it.
<1>7. ASSUME NEW v \in Workers, v # HeartW, Known(v)
      PROVE  /\ v \in DOMAIN file'.workers
             /\ StateOf(v)' = registry[v].state
             /\ file'.workers[v].late = Late(registry[v])
  BY <1>0, <1>5, <1>6, <1>7
<1>8. since' > file'.age => Alarm'
  <2>1. SUFFICES ASSUME since > 0 PROVE Alarm'
    BY <1>6
  <2>2. Dead \/ Aborting
    BY <1>0, <2>1 DEF GlobalOK
  <2>3. ASSUME NEW v \in Workers, v # HeartW, Known(v), registry[v].state = "dead"
        PROVE  Alarm'
    <3>1. StateOf(v)' = "dead"
      BY <1>7, <2>3
    <3> QED BY <3>1 DEF Alarm, BadState, Critical
  <2>4. ASSUME NEW v \in Workers, task[v] \in {"ended", "raised"} PROVE Alarm'
    <3>1. v # HeartW /\ Known(v) /\ registry[v].state = "dead"
      BY <1>1, <2>4 DEF WorkerOK
    <3> QED BY <2>3, <3>1
  <2>5. ASSUME fails >= Threshold, task[ScrapeW] \notin Over PROVE Alarm'
    <3>1. task[ScrapeW] # "new"
      BY <1>0, <2>5, Times DEF GlobalOK
    <3>2. Known(ScrapeW) /\ registry[ScrapeW].state \in Says(ScrapeW)
      BY <1>0, <1>1, <2>5, <3>1 DEF WorkerOK, Over
    <3>3. registry[ScrapeW].state = "dead"
      BY <1>0, <2>5, <3>2, Names DEF Says, LoopState
    <3> QED BY <1>0, <2>3, <3>2, <3>3
  <2>6. ASSUME StoreDead PROVE Alarm'
    <3>1. Known("db_worker") /\ registry["db_worker"].state = "dead"
      BY <2>6 DEF StoreDead, Known
    <3>2. "db_worker" \in DOMAIN reg /\ reg["db_worker"].state = "dead"
      BY <1>0, <1>5, <3>1
    <3> QED BY <1>6, <3>2 DEF Alarm, Quarantined
  <2> QED BY <2>2, <2>4, <2>5, <2>6 DEF Dead, Aborting, ScrapeW
<1>9. ASSUME NEW v \in Workers, Known(v)', task'[v] # "cancelled",
             registry'[v].age > StaleAfter + file'.age
      PROVE  /\ v \in DOMAIN file'.workers
             /\ StateOf(v)' # "shutdown"
             /\ StateOf(v)' = "alive" => file'.workers[v].late
  <2>1. StaleAfter \in Nat
    BY Times
  <2>2. v # HeartW
    BY <1>3, <1>6, <1>9, <2>1
  <2>3. Known(v) /\ registry[v].age > StaleAfter /\ task[v] # "cancelled"
    BY <1>0, <1>2, <1>4, <1>6, <1>9, <2>1, <2>2
  <2>4. registry[v].state # "shutdown"
    <3>1. WorkerOK(v)
      BY <1>1
    <3>2. CASE task[v] \in Over
      BY <2>3, <3>1, <3>2 DEF WorkerOK, Over
    <3>3. CASE task[v] \notin Over
      BY <2>3, <3>1, <3>3 DEF WorkerOK, Says, LoopState
    <3> QED BY <3>2, <3>3
  <2> QED BY <1>7, <2>2, <2>3, <2>4 DEF Late
<1>10. BeatsInTime /\ Well' /\ calm' > file'.age => Sound'
  <2>1. SUFFICES ASSUME BeatsInTime, Well', calm > 0 PROVE Sound'
    BY <1>0, <1>6, Times
  <2>2. task[HeartW] = "sleep" /\ reg = registry
    BY <1>0, <1>1, <2>1, Times DEF WorkerOK
  <2>3. \A v \in Workers : task[v] \notin Over \cup {"new"}
    BY <1>2, <2>1, <2>2 DEF Well
  <2>4. \A v \in Workers : Known(v) /\ registry[v].state \in Says(v)
    BY <1>1, <2>3 DEF WorkerOK, Over
  <2>5. fails < Threshold /\ ~StoreDead
    BY <1>0, <1>4, <2>1, <2>3, <1>2, Times DEF Well, Dead, ScrapeW
  <2>6. \A v \in Workers : registry[v].state \in {"alive", "reconnecting"}
    BY <1>0, <2>4, <2>5, Times DEF Says, LoopState
  <2>7. \A v \in Workers : registry[v].state = "alive" => ~Late(registry[v])
    BY <1>0, <2>1, <2>3, <2>4, InTime
  <2>8. Missing' = {}
    BY <1>6, <2>2, <2>4 DEF Missing, Critical, Known
  <2>9. ~Quarantined'
    BY <1>6, <2>2, <2>5 DEF Quarantined, StoreDead
  <2>10. ~BadState' /\ ~Stale'
    BY <1>6, <2>2, <2>4, <2>6, <2>7 DEF BadState, Stale, Critical, Known
  <2> QED BY <2>8, <2>9, <2>10 DEF Sound
<1>11. file'.age + due'[HeartW] = Interval /\ file'.age \in 0..(MaxAge + 1)
  BY <1>2, <1>6, Times
<1> QED BY <1>5, <1>6, <1>8, <1>9, <1>10, <1>11 DEF FileOK

LEMMA HeartSteps ==
  ASSUME SuperInv,
         Goes(HeartW, "sleep", Interval), registry' = Beat(HeartW, "alive"),
         NEW STATE reg, WriteHeartbeat(reg), reg \in {registry, Beat(HeartW, "alive")},
         UNCHANGED <<up, fails, blocked, faults, since, calm>>, up,
         task[HeartW] = "new" \/ (task[HeartW] = "sleep" /\ reg = registry)
  PROVE  SuperInv'
<1>0. /\ WorkersOK /\ GlobalOK /\ HeartW \in Workers /\ HeartW # ScrapeW
      /\ HeartW # TeleW /\ HeartW # SourceW /\ Interval \in Nat
      /\ faults' \in 0..MaxFaults
  BY Names, Times DEF SuperInv, WorkersOK, GlobalOK
<1>1. FileOK'
  BY Writes
<1>2. Touches(HeartW)
  BY <1>0, BeatFacts DEF States
<1>3. "sleep" \in Tasks \ (Over \cup {"new"}) /\ "sleep" \in Places(HeartW)'
      /\ "sleep" # "cancelled"
  BY <1>0 DEF Tasks, Over, Silent, Places
<1>4. Moves(HeartW, "sleep", Interval)
  BY <1>0, <1>2, <1>3 DEF Moves, Over
<1>5. task'[HeartW] = "sleep"
  BY <1>0, <1>3, Gone
<1>6. WorkerOK(HeartW)'
  <2>1. /\ "alive" \in Says(HeartW)' /\ Longest(HeartW)' = Interval /\ "alive" \in States
    BY <1>0, <1>5 DEF Says, Longest, Silent, States
  <2> QED BY <1>0, <1>3, <2>1, Beaten
<1>7. GlobalOK'
  BY <1>0, <1>3, <1>4, GlobalMoves
<1>8. \A v \in Workers : WorkerOK(v)'
  BY <1>0, <1>4, <1>6, OthersKept
<1> QED BY <1>1, <1>7, <1>8 DEF SuperInv, WorkersOK

LEMMA StartSteps ==
  ASSUME SuperInv, StartWorker PROVE SuperInv'
<1>0. /\ WorkersOK /\ GlobalOK /\ up /\ UNCHANGED <<up, fails, blocked, faults, since, calm>>
      /\ "alive" \in States /\ faults' \in 0..MaxFaults
  BY DEF SuperInv, WorkersOK, GlobalOK, StartWorker, States
<1>1. PICK i \in DOMAIN Order :
        /\ task[Order[i]] = "new"
        /\ CASE Order[i] = HeartW ->
                  Goes(Order[i], "sleep", Interval) /\ registry' = Beat(Order[i], "alive")
                    /\ WriteHeartbeat(Beat(Order[i], "alive"))
             [] Order[i] = TeleW ->
                  Goes(Order[i], "connecting", 0) /\ registry' = Register(Order[i])
                    /\ UNCHANGED file
             [] Order[i] = SourceW ->
                  Goes(Order[i], "poll", 0) /\ registry' = Beat(Order[i], "alive")
                    /\ UNCHANGED file
             [] Order[i] = ScrapeW ->
                  Goes(Order[i], "scrape", 0) /\ registry' = Register(Order[i])
                    /\ UNCHANGED file
  BY DEF StartWorker, HeartW, TeleW, SourceW, ScrapeW
<1> DEFINE w == Order[i]
<1>2. w \in Workers /\ task[w] = "new"
  BY <1>1 DEF Workers
<1>3. CASE w = HeartW
  <2>1. /\ Goes(HeartW, "sleep", Interval) /\ registry' = Beat(HeartW, "alive")
        /\ WriteHeartbeat(Beat(HeartW, "alive"))
    BY <1>1, <1>3, Names
  <2> QED BY <1>0, <1>2, <1>3, <2>1, HeartSteps
<1>4. CASE w # HeartW
  <2>1. PICK to \in {"connecting", "poll", "scrape"} :
          /\ Goes(w, to, 0) /\ registry' \in {Beat(w, "alive"), Register(w)}
          /\ UNCHANGED file
          /\ \/ w = TeleW /\ to = "connecting"
             \/ w = SourceW /\ to = "poll"
             \/ w = ScrapeW /\ to = "scrape"
    <3>1. w \in {TeleW, SourceW, ScrapeW}
      BY <1>2, <1>4, Names
    <3>2. CASE w = TeleW
      BY <1>1, <3>2, Names
    <3>3. CASE w = SourceW
      BY <1>1, <3>3, Names
    <3>4. CASE w = ScrapeW
      BY <1>1, <3>4, Names
    <3> QED BY <3>1, <3>2, <3>3, <3>4
  <2> HIDE DEF w
  <2>2. WorkerOK(w) /\ ~Known(w)
    BY <1>0, <1>2 DEF WorkersOK, WorkerOK
  <2>3. registry' = Beat(w, "alive")
    BY <2>1, <2>2 DEF Register, Beat, Known
  <2>4. /\ Touches(w) /\ registry'[w].age = 0
    BY <1>0, <1>2, <2>3, BeatFacts
  <2>5. /\ to \in Tasks \ (Over \cup {"new"}) /\ to \in Places(w)'
        /\ to # "cancelled" /\ to \in Silent
    BY <2>1, Names DEF Tasks, Over, Silent, Places
  <2>6. Moves(w, to, 0)
    BY <1>0, <1>2, <2>1, <2>4, <2>5, Times DEF Moves, Over
  <2>7. task'[w] = to
    BY <1>0, <1>2, <2>1, <2>5, Times, Gone
  <2>8. fails = 0 \/ w # ScrapeW
    BY <1>0, <1>2 DEF GlobalOK
  <2>9. WorkerOK(w)'
    <3>1. "alive" \in Says(w)'
      BY <1>0, <2>1, <2>7, <2>8, Names, Times DEF Says, LoopState
    <3>2. Longest(w)' = 0
      BY <1>4, <2>5, <2>7 DEF Longest, Silent
    <3> QED BY <1>0, <1>2, <2>1, <2>3, <2>5, <3>1, <3>2, Beaten, Times
  <2>10. w = ScrapeW /\ fails >= Threshold => calm = 0
    BY <2>8, Times
  <2> QED BY <1>0, <1>2, <1>4, <2>1, <2>4, <2>5, <2>6, <2>9, <2>10, StepKeeps
<1> QED BY <1>3, <1>4

LEMMA ScrapeEnds ==
  ASSUME SuperInv, NEW failed \in BOOLEAN, EndScrape(failed) PROVE SuperInv'
<1>0. /\ WorkersOK /\ GlobalOK /\ ScrapeW \in Workers /\ WorkerOK(ScrapeW)
      /\ ScrapeW # SourceW /\ ScrapeW # HeartW /\ ScrapeW # TeleW
      /\ UNCHANGED <<up, file, blocked, faults, calm>>
      /\ fails \in Nat /\ fails <= Threshold /\ since \in 0..(MaxAge + 1)
      /\ ScrapeW \in Everyone /\ ScrapeW # "db_worker"
  BY Names, Times DEF SuperInv, WorkersOK, GlobalOK, EndScrape, Everyone
<1>1. /\ up /\ task[ScrapeW] = "scrape" /\ task[ScrapeW] \notin Over
      /\ task[ScrapeW] \notin {"new", "sleep"}
  BY DEF EndScrape, At, Running, ScrapeW, Over
<1>2. /\ fails' \in 0..Threshold /\ Goes(ScrapeW, "sleep", Cadence)
      /\ registry' = Beat(ScrapeW, LoopState(fails'))
      /\ since' = IF Dead' THEN since ELSE 0
  BY <1>0, Times DEF EndScrape, ScrapeW, BeatStep, Capped
<1>3. LoopState(fails') \in States
  BY DEF LoopState, States
<1>4. "sleep" \in Tasks \ (Over \cup {"new"}) /\ "sleep" \in Places(ScrapeW)'
  BY <1>0 DEF Tasks, Over, Silent, Places
<1>5. Touches(ScrapeW) /\ registry'[ScrapeW].age = 0 /\ Known(ScrapeW)'
  BY <1>0, <1>2, <1>3, BeatFacts
<1>6. Moves(ScrapeW, "sleep", Cadence)
  BY <1>0, <1>1, <1>2, <1>4, <1>5, Times DEF Moves
<1>7. /\ task' \in [Workers -> Tasks] /\ due' \in [Workers -> Nat]
      /\ task'[ScrapeW] = "sleep" /\ due'[ScrapeW] = Cadence
      /\ \A v \in Workers : v # ScrapeW => task'[v] = task[v] /\ due'[v] = due[v]
  BY <1>0, <1>2, <1>4, Times, Gone
<1>8. WorkerOK(ScrapeW)'
  <2>1. LoopState(fails') \in Says(ScrapeW)'
    BY <1>0 DEF Says
  <2>2. Longest(ScrapeW)' = Cadence
    BY <1>0, <1>7 DEF Longest, Silent
  <2> QED BY <1>0, <1>2, <1>3, <1>4, <2>1, <2>2, Beaten, Times
<1>9. \A v \in Workers : WorkerOK(v)'
  BY <1>0, <1>6, <1>8, OthersKept
<1>10. /\ DOMAIN registry' \subseteq Everyone
       /\ \A v \in DOMAIN registry' : registry'[v] \in [state : States, age : Nat]
       /\ StoreDead' <=> StoreDead
  BY <1>0, <1>5, Touched
<1>11. GlobalOK'
  <2>1. since' \in 0..(MaxAge + 1) /\ (since' > 0 => Dead')
    BY <1>0, <1>2, Times
  <2> QED BY <1>0, <1>1, <1>2, <1>7, <1>10, <2>1 DEF GlobalOK, Over
\* A run that ends well takes the death off the scheduler only after a wait.
<1>12. calm = 0 \/ (Well' => Well)
  <2>1. SUFFICES ASSUME calm # 0, Well' PROVE Well
    OBVIOUS
  <2>2. fails < Threshold
    BY <1>0, <1>1, <2>1, Times DEF GlobalOK
  <2>3. \A v \in Workers : task[v] \notin Over \cup {"new"}
    BY <1>1, <1>7, <2>1 DEF Well
  <2>4. ~StoreDead
    BY <1>10, <2>1 DEF Well, Dead
  <2>5. ~Dead
    BY <1>0, <2>2, <2>3, <2>4, Times DEF Dead, Over
  <2> QED BY <1>1, <2>3, <2>5 DEF Well
<1>13. FileOK'
  <2>1. since' = since \/ since' = 0
    BY <1>2
  <2> QED BY <1>0, <1>1, <1>5, <1>6, <1>12, <2>1, FileKept
<1> QED BY <1>9, <1>11, <1>13 DEF SuperInv, WorkersOK

-----------------------------------------------------------------------------
(* Steps of no worker                                                       *)

LEMMA NothingMoves ==
  ASSUME SuperInv, UNCHANGED <<up, task, due, registry, fails, file, since, calm>>,
         blocked' \in BOOLEAN, faults' \in 0..MaxFaults
  PROVE  SuperInv'
<1>1. \A v \in Workers : WorkerOK(v)'
  BY DEF SuperInv, WorkersOK, WorkerOK, Places, Says, Longest, Fresh, Excused,
         Known, LoopState, Late
<1>2. (Dead' <=> Dead) /\ (Aborting' <=> Aborting) /\ (StoreDead' <=> StoreDead)
  BY DEF Dead, Aborting, StoreDead
<1>3. GlobalOK'
  BY <1>2 DEF SuperInv, WorkersOK, GlobalOK
<1>4. /\ (Alarm' <=> Alarm) /\ (Sound' <=> Sound) /\ (Well' <=> Well)
      /\ \A v \in Workers : StateOf(v)' = StateOf(v) /\ (Known(v)' <=> Known(v))
  BY <1>2 DEF Alarm, Sound, Well, Missing, Quarantined, BadState, Stale, StateOf, Known
<1>5. FileOK'
  BY <1>4 DEF SuperInv, FileOK
<1> QED BY <1>1, <1>3, <1>5 DEF SuperInv, WorkersOK

LEMMA BlockSteps ==
  ASSUME SuperInv, BlockLoop \/ UnblockLoop \/ UNCHANGED vars PROVE SuperInv'
<1>1. faults \in 0..MaxFaults /\ blocked \in BOOLEAN
  BY DEF SuperInv, WorkersOK, GlobalOK
<1>2. faults' \in 0..MaxFaults /\ blocked' \in BOOLEAN
  <2>1. CASE BlockLoop
    BY <1>1, <2>1, Times DEF BlockLoop, Fault
  <2>2. CASE UnblockLoop
    BY <1>1, <2>2 DEF UnblockLoop
  <2>3. CASE UNCHANGED vars
    BY <1>1, <2>3 DEF vars
  <2> QED BY <2>1, <2>2, <2>3
<1>3. UNCHANGED <<up, task, due, registry, fails, file, since, calm>>
  BY DEF BlockLoop, UnblockLoop, vars
<1> QED BY <1>2, <1>3, NothingMoves

LEMMA StoreBeats ==
  ASSUME SuperInv, NEW s \in {"dead", "alive"}, registry' = Beat("db_worker", s),
         UNCHANGED <<up, task, due, fails, file, blocked>>, up, calm' = 0,
         faults' \in 0..MaxFaults, since' = since \/ since' = 0,
         since' > 0 => Dead' \/ Aborting'
  PROVE  SuperInv'
<1>0. /\ WorkersOK /\ GlobalOK /\ FileOK /\ "db_worker" \in Everyone
      /\ Workers \subseteq Everyone /\ "db_worker" \notin Workers /\ ScrapeW \in Workers
      /\ s \in States /\ file.age \in Nat /\ calm \in Nat
      /\ since \in 0..(MaxAge + 1) /\ MaxAge \in Nat /\ HeartW \in Workers
  BY Names, Times DEF SuperInv, WorkersOK, GlobalOK, FileOK, Everyone, States
<1>1. Touches("db_worker")
  BY <1>0, BeatFacts
<1>2. /\ DOMAIN registry' \subseteq Everyone
      /\ \A v \in DOMAIN registry' : registry'[v] \in [state : States, age : Nat]
      /\ \A v \in Workers : Same(v)
  BY <1>0, <1>1, Touched DEF Same
<1>3. ASSUME NEW v \in Workers PROVE WorkerOK(v)'
  <2>1. WorkerOK(v) /\ Same(v)
    BY <1>0, <1>2 DEF WorkersOK
  <2> QED BY <1>0, <2>1, WorkerKept
<1>4. GlobalOK'
  BY <1>0, <1>2, Times DEF GlobalOK
<1>5. FileOK'
  <2>1. /\ (Alarm' <=> Alarm)
        /\ \A v \in Workers : StateOf(v)' = StateOf(v) /\ (Known(v)' <=> Known(v))
    BY <1>2 DEF Alarm, Missing, Quarantined, BadState, StateOf, Same
  <2>2. ~(calm' > file'.age) /\ ~(calm' > 0)
    BY <1>0
  <2>3. since' > file'.age => since > file.age
    BY <1>0
  <2>4. \A v \in Workers : Known(v) => registry'[v] = registry[v]
    BY <1>2 DEF Same
  <2> QED BY <1>0, <2>1, <2>2, <2>3, <2>4 DEF FileOK
<1> QED BY <1>3, <1>4, <1>5 DEF SuperInv, WorkersOK

LEMMA StoreSteps ==
  ASSUME SuperInv, Quarantine \/ LateReturn PROVE SuperInv'
<1>0. /\ GlobalOK /\ faults \in 0..MaxFaults
      /\ "db_worker" \in Everyone /\ {"dead", "alive"} \subseteq States
  BY DEF SuperInv, WorkersOK, GlobalOK, Everyone, States
<1>1. CASE Quarantine
  <2>1. registry' = Beat("db_worker", "dead")
    BY <1>1 DEF Quarantine
  <2>2. StoreDead'
    <3>1. Known("db_worker")' /\ registry'["db_worker"].state = "dead"
      BY <1>0, <2>1, BeatFacts
    <3> QED BY <3>1 DEF StoreDead, Known
  <2> QED BY <1>0, <1>1, <2>1, <2>2, StoreBeats, Times DEF Quarantine, Fault, Dead
<1>2. CASE LateReturn
  <2>1. /\ registry' = Beat("db_worker", "alive") /\ calm' = 0
        /\ since' = IF Dead' THEN since ELSE 0
    BY <1>0, <1>2 DEF LateReturn, GlobalOK
  <2>2. /\ since' = since \/ since' = 0
        /\ since' > 0 => Dead'
    BY <2>1
  <2> QED BY <1>0, <1>2, <2>1, <2>2, StoreBeats DEF LateReturn
<1> QED BY <1>1, <1>2

LEMMA RestartSteps ==
  ASSUME SuperInv, Exit \/ Restart PROVE SuperInv'
<1>0. /\ WorkersOK /\ GlobalOK /\ FileOK /\ UNCHANGED <<file, blocked, faults>>
      /\ HeartW \in Workers /\ ScrapeW \in Workers /\ file.age \in Nat
  BY Names, Times DEF SuperInv, WorkersOK, Exit, Restart, FileOK
<1>1. CASE Exit
  <2>1. /\ up' = FALSE /\ registry' = << >> /\ fails' = 0 /\ since' = 0 /\ calm' = 0
        /\ task' = task /\ due' = due /\ \A w \in Workers : task[w] \in Over
    BY <1>1 DEF Exit
  <2>2. DOMAIN registry' = {}
    BY <2>1
  <2>3. ASSUME NEW w \in Workers PROVE WorkerOK(w)'
    <3>1. WorkerOK(w) /\ ~Known(w)' /\ task[w] # "new"
      BY <1>0, <2>1, <2>2 DEF WorkersOK, Known, Over
    <3>2. Places(w)' = Places(w) /\ Longest(w)' = Longest(w)
      BY <2>1 DEF Places, Longest
    <3> QED BY <2>1, <3>1, <3>2 DEF WorkerOK
  <2>4. GlobalOK'
    <3>1. ~StoreDead' /\ ~(fails' > 0) /\ ~(fails' >= Threshold) /\ ~(since' > 0)
      BY <2>1, <2>2, Times DEF StoreDead
    <3>2. fails' \in 0..Threshold /\ since' \in 0..(MaxAge + 1) /\ calm' \in 0..(Interval + 1)
      BY <2>1, Times
    <3> QED BY <1>0, <2>1, <2>2, <3>1, <3>2 DEF GlobalOK
  <2>5. FileOK'
    <3>1. ~Well' /\ \A w \in Workers : ~Known(w)'
      BY <2>1, <2>2 DEF Well, Known
    <3> QED BY <1>0, <2>1, <3>1 DEF FileOK
  <2> QED BY <2>3, <2>4, <2>5 DEF SuperInv, WorkersOK
<1>2. CASE Restart
  <2>1. /\ up' = TRUE /\ UNCHANGED <<registry, fails, since, calm>>
        /\ task' = [w \in Workers |-> "new"] /\ due' = [w \in Workers |-> 0]
        /\ DOMAIN registry = {} /\ fails = 0 /\ calm = 0 /\ since = 0
    BY <1>0, <1>2 DEF Restart, GlobalOK
  <2>2. ASSUME NEW w \in Workers PROVE WorkerOK(w)'
    <3>1. task'[w] = "new" /\ due'[w] = 0 /\ ~Known(w)'
      BY <2>1 DEF Known
    <3>2. Longest(w)' \in Nat
      BY <3>1, Times DEF Longest, Silent
    <3> QED BY <2>1, <3>1, <3>2 DEF WorkerOK, Places, Over
  <2>3. GlobalOK'
    BY <1>0, <2>1, Times DEF GlobalOK, StoreDead, Tasks
  <2>4. FileOK'
    <3>1. /\ ~Well' /\ \A w \in Workers : ~Known(w)'
          /\ task'[HeartW] = "new"
      BY <1>0, <2>1 DEF Well, Known
    <3> QED BY <1>0, <2>1, <3>1 DEF FileOK
  <2> QED BY <2>2, <2>3, <2>4 DEF SuperInv, WorkersOK
<1> QED BY <1>1, <1>2

-----------------------------------------------------------------------------
(* Time                                                                     *)

LEMMA CappedNat ==
  ASSUME NEW n \in Nat, NEW cap \in Nat
  PROVE  /\ Capped(n + 1, cap) \in 0..cap
         /\ Capped(n + 1, cap) <= n + 1
         /\ Capped(n + 1, cap) = n + 1 \/ (Capped(n + 1, cap) = cap /\ n + 1 > cap)
BY DEF Capped

\* How one unit of time ages the state.
LEMMA Ticks ==
  ASSUME SuperInv, Tick
  PROVE  /\ DOMAIN registry' = DOMAIN registry
         /\ \A w \in Workers : due'[w] = IF due[w] = 0 THEN 0 ELSE due[w] - 1
         /\ \A w \in Workers : Known(w) =>
              /\ registry'[w] \in [state : States, age : Nat]
              /\ registry'[w].state = registry[w].state
              /\ registry'[w].age = Capped(registry[w].age + 1, StaleAfter + MaxAge + 1)
         /\ Known("db_worker") => registry'["db_worker"] = registry["db_worker"]
         /\ file'.age = Capped(file.age + 1, MaxAge + 1)
         /\ file'.workers = file.workers
         /\ file' \in [age : Nat, workers : {file'.workers}]
<1>0. /\ \A v \in DOMAIN registry : registry[v] \in [state : States, age : Nat]
      /\ file \in [age : Nat, workers : {file.workers}] /\ "db_worker" \notin Workers
      /\ registry' = [w \in DOMAIN registry |-> Aged(w)]
      /\ due' = [w \in Workers |-> IF due[w] = 0 THEN 0 ELSE due[w] - 1]
      /\ file' = Older(file, MaxAge + 1)
      /\ StaleAfter + MaxAge + 1 \in Nat /\ MaxAge + 1 \in Nat
  <2>1. \A v \in DOMAIN registry : registry[v] \in [state : States, age : Nat]
    BY DEF SuperInv, WorkersOK, GlobalOK
  <2>2. file \in [age : Nat, workers : {file.workers}]
    BY DEF SuperInv, FileOK
  <2>3. /\ registry' = [w \in DOMAIN registry |-> Aged(w)]
        /\ due' = [w \in Workers |-> IF due[w] = 0 THEN 0 ELSE due[w] - 1]
        /\ file' = Older(file, MaxAge + 1)
    BY DEF Tick
  <2>4. StaleAfter + MaxAge + 1 \in Nat /\ MaxAge + 1 \in Nat
    BY Times
  <2> QED BY <2>1, <2>2, <2>3, <2>4, Names
<1>1. ASSUME NEW r \in [state : States, age : Nat], NEW n \in Nat
      PROVE  /\ Older(r, n) \in [state : States, age : Nat]
             /\ Older(r, n).state = r.state
             /\ Older(r, n).age = Capped(r.age + 1, n)
  BY CappedNat DEF Older
<1>2. /\ file'.age = Capped(file.age + 1, MaxAge + 1)
      /\ file'.workers = file.workers
      /\ file' \in [age : Nat, workers : {file'.workers}]
  BY <1>0, CappedNat DEF Older
<1>3. ASSUME NEW w \in Workers, Known(w)
      PROVE  /\ registry'[w] \in [state : States, age : Nat]
             /\ registry'[w].state = registry[w].state
             /\ registry'[w].age = Capped(registry[w].age + 1, StaleAfter + MaxAge + 1)
  <2>1. /\ registry'[w] = Older(registry[w], StaleAfter + MaxAge + 1)
        /\ registry[w] \in [state : States, age : Nat]
    BY <1>0, <1>3 DEF Aged, Known
  <2> QED BY <1>0, <1>1, <2>1
<1>4. Known("db_worker") => registry'["db_worker"] = registry["db_worker"]
  BY <1>0 DEF Aged, Known
<1> QED BY <1>0, <1>2, <1>3, <1>4

LEMMA TickSteps ==
  ASSUME SuperInv, Tick PROVE SuperInv'
<1>0. /\ WorkersOK /\ GlobalOK /\ FileOK /\ UNCHANGED <<up, task, fails, blocked, faults>>
      /\ HeartW \in Workers /\ ScrapeW \in Workers /\ "db_worker" \notin Workers
      /\ calm \in 0..(Interval + 1) /\ since \in 0..(MaxAge + 1) /\ Interval \in Nat
      /\ MaxAge \in Nat /\ StaleAfter \in Nat /\ file.age \in Nat
      /\ calm' = (IF Fine' THEN Capped(calm + 1, Interval + 1) ELSE 0)
      /\ since' = (IF Dead THEN Capped(since + 1, MaxAge + 1) ELSE 0)
  <2>1. WorkersOK /\ GlobalOK /\ FileOK
    BY DEF SuperInv, WorkersOK
  <2>2. calm \in 0..(Interval + 1) /\ since \in 0..(MaxAge + 1)
    BY <2>1 DEF GlobalOK
  <2>3. file.age \in Nat
    BY <2>1 DEF FileOK
  <2>4. /\ UNCHANGED <<up, task, fails, blocked, faults>>
        /\ calm' = (IF Fine' THEN Capped(calm + 1, Interval + 1) ELSE 0)
        /\ since' = (IF Dead THEN Capped(since + 1, MaxAge + 1) ELSE 0)
    BY DEF Tick
  <2>5. /\ HeartW \in Workers /\ ScrapeW \in Workers /\ "db_worker" \notin Workers
        /\ Interval \in Nat /\ MaxAge \in Nat /\ StaleAfter \in Nat
    BY Names, Times
  <2> QED BY <2>1, <2>2, <2>3, <2>4, <2>5
<1>1. /\ calm' \in 0..(Interval + 1) /\ calm' <= calm + 1 /\ (~Fine' => calm' = 0)
      /\ since' \in 0..(MaxAge + 1) /\ since' <= since + 1 /\ (~Dead => since' = 0)
  BY <1>0, CappedNat
<1>2. /\ file'.age \in 0..(MaxAge + 1) /\ file'.age <= file.age + 1
      /\ file'.age = file.age + 1 \/ file'.age = MaxAge + 1
  BY <1>0, Ticks, CappedNat
<1>3. /\ \A w \in Workers \cup {"db_worker"} : Known(w)' <=> Known(w)
      /\ StoreDead' <=> StoreDead
  BY Ticks DEF Known, StoreDead
<1>4. (Dead' <=> Dead) /\ (Well' <=> Well) /\ (Aborting' <=> Aborting)
  BY <1>0, <1>3 DEF Dead, Well, Aborting
\* What is due has happened, unless the loop is blocked.
<1>5. ASSUME NEW w \in Workers, task[w] \notin Over \cup Silent, due[w] = 0, up
      PROVE  calm' = 0
  <2>1. blocked
    BY <1>5 DEF Tick, Pending
  <2> QED BY <1>0, <1>1, <2>1 DEF Fine
<1>6. ASSUME NEW w \in Workers PROVE WorkerOK(w)'
  <2>0. /\ WorkerOK(w) /\ due[w] \in Nat /\ calm \in Nat
        /\ due'[w] = IF due[w] = 0 THEN 0 ELSE due[w] - 1
        /\ Places(w)' = Places(w) /\ Says(w)' = Says(w) /\ Longest(w)' = Longest(w)
    <3>1. WorkerOK(w) /\ due[w] \in Nat /\ calm \in Nat
      BY <1>0 DEF WorkersOK, WorkerOK
    <3>2. due'[w] = IF due[w] = 0 THEN 0 ELSE due[w] - 1
      BY Ticks
    <3>3. Places(w)' = Places(w)
      BY <1>0 DEF Places
    <3>4. Says(w)' = Says(w)
      BY <1>0 DEF Says, LoopState
    <3>5. Longest(w)' = Longest(w)
      BY <1>0 DEF Longest
    <3> QED BY <3>1, <3>2, <3>3, <3>4, <3>5
  <2>1. due'[w] \in Nat /\ due'[w] <= Longest(w)'
    <3>1. Longest(w) \in Nat
      BY Times DEF Longest
    <3> QED BY <2>0, <3>1 DEF WorkerOK
  <2>2. task'[w] = "new" => ~Known(w)' /\ calm' = 0
    BY <1>0, <1>1, <1>3, <2>0 DEF WorkerOK, Fine
  <2>3. ASSUME Known(w), task[w] \notin Over, registry[w].state = "alive"
        PROVE  Fresh(w)' \/ Excused(w)'
    <3>0. /\ registry[w].age \in Nat /\ registry'[w].age \in Nat
          /\ registry'[w].age <= registry[w].age + 1 /\ up
      <4>1. registry[w].age \in Nat
        BY <1>0, <2>3 DEF GlobalOK, Known
      <4>2. up
        BY <1>0, <2>3 DEF GlobalOK, Known
      <4>3. /\ registry'[w] \in [state : States, age : Nat]
            /\ registry'[w].age = Capped(registry[w].age + 1, StaleAfter + MaxAge + 1)
        BY <2>3, Ticks
      <4>4. StaleAfter + MaxAge + 1 \in Nat
        BY <1>0
      <4>5. Capped(registry[w].age + 1, StaleAfter + MaxAge + 1) <= registry[w].age + 1
        BY <4>1, <4>4, CappedNat
      <4> QED BY <4>1, <4>2, <4>3, <4>5
    <3>1. CASE task[w] \in Silent
      <4>1. due'[w] = 0
        <5>1. due[w] = 0
          <6>1. task[w] # "backoff"
            BY <3>1 DEF Silent
          <6>2. Longest(w) = 0
            BY <3>1, <6>1 DEF Longest
          <6> QED BY <2>0, <6>2 DEF WorkerOK
        <5> QED BY <2>0, <5>1
      <4>2. CASE Late(registry'[w])
        <5>1. registry'[w].state = "alive"
          BY <2>3, Ticks
        <5>2. ~Fine'
          BY <1>0, <3>1, <4>2, <5>1 DEF Fine, Overlong, Late
        <5> QED BY <1>1, <4>1, <5>2 DEF Excused
      <4>3. CASE ~Late(registry'[w])
        BY <1>0, <3>1, <4>3 DEF Fresh, Late
      <4> QED BY <4>2, <4>3
    <3>2. CASE due[w] = 0 /\ task[w] \notin Silent
      <4>1. calm' = 0 /\ due'[w] = 0
        BY <1>5, <2>0, <2>3, <3>0, <3>2
      <4> QED BY <1>0, <4>1 DEF Excused
    <3>3. CASE due[w] # 0 /\ task[w] \notin Silent
      <4>1. due'[w] = due[w] - 1 /\ due[w] >= 1
        BY <2>0, <3>3
      <4>2. Fresh(w)
        BY <2>0, <2>3, <3>3 DEF WorkerOK, Excused
      <4>3. Longest(w) \in Nat
        BY Times DEF Longest
      <4> QED BY <1>0, <2>0, <3>0, <3>3, <4>1, <4>2, <4>3 DEF Fresh
    <3> QED BY <3>1, <3>2, <3>3
  <2>4. Known(w) => registry'[w].state = registry[w].state
    BY Ticks
  <2> QED BY <1>0, <1>3, <2>0, <2>1, <2>2, <2>3, <2>4 DEF WorkerOK
<1>7. GlobalOK'
  <2>1. /\ DOMAIN registry' \subseteq Everyone
        /\ \A v \in DOMAIN registry' : registry'[v] \in [state : States, age : Nat]
    BY <1>0, Ticks DEF GlobalOK, Known, Everyone
  <2>2. due' \in [Workers -> Nat]
    BY <1>0 DEF GlobalOK, Tick
  <2>3. ~up => /\ DOMAIN registry' = {} /\ calm' = 0 /\ since' = 0
    <3>1. SUFFICES ASSUME ~up PROVE DOMAIN registry' = {} /\ calm' = 0 /\ since' = 0
      OBVIOUS
    <3>2. DOMAIN registry = {} /\ fails = 0
      BY <1>0, <3>1 DEF GlobalOK
    <3>3. ~Dead /\ ~Fine'
      BY <1>0, <3>1, <3>2, Times DEF Dead, StoreDead, Fine
    <3> QED BY <1>1, <3>2, <3>3, Ticks
  <2>4. StoreDead \/ (fails >= Threshold /\ task[ScrapeW] \notin Over) => calm' = 0
    BY <1>1, <1>4 DEF Fine, Dead, ScrapeW
  <2>5. since' > 0 => Dead'
    BY <1>1, <1>4
  <2> QED BY <1>0, <1>1, <1>3, <2>1, <2>2, <2>3, <2>4, <2>5 DEF GlobalOK
<1>8. FileOK'
  <2>1. /\ (Alarm' <=> Alarm) /\ (Sound' <=> Sound)
        /\ \A w \in Workers : StateOf(w)' = StateOf(w)
    BY Ticks DEF Alarm, Sound, Missing, Quarantined, BadState, Stale, StateOf
  <2>2. up' /\ task'[HeartW] = "sleep" /\ (due'[HeartW] > 0 \/ calm' > 0)
          => file'.age + due'[HeartW] = Interval
    <3>1. SUFFICES ASSUME up, task[HeartW] = "sleep", due'[HeartW] > 0 \/ calm' > 0
                   PROVE  file'.age + due'[HeartW] = Interval
      BY <1>0
    <3>2. due[HeartW] \in Nat /\ due'[HeartW] = IF due[HeartW] = 0 THEN 0 ELSE due[HeartW] - 1
      BY <1>0, Ticks DEF WorkersOK, WorkerOK
    <3>3. due[HeartW] > 0
      <4>1. SUFFICES ASSUME due[HeartW] = 0 PROVE FALSE
        BY <3>2
      <4>2. HeartW \in Workers /\ task[HeartW] \notin Over \cup Silent
        BY <1>0, <3>1 DEF Over, Silent
      <4>3. calm' = 0
        BY <1>5, <3>1, <4>1, <4>2
      <4> QED BY <3>1, <3>2, <4>1, <4>3
    <3>4. file.age + due[HeartW] = Interval
      BY <1>0, <3>1, <3>3 DEF FileOK
    <3> QED BY <1>0, <1>2, <3>2, <3>3, <3>4, Times
  <2>3. since' > file'.age => since > file.age
    BY <1>0, <1>1, <1>2
  <2>4. \A w \in Workers : Known(w) /\ registry'[w].age > StaleAfter + file'.age
          => registry[w].age > StaleAfter + file.age
    <3> SUFFICES ASSUME NEW w \in Workers, Known(w),
                        registry'[w].age > StaleAfter + file'.age
                 PROVE  registry[w].age > StaleAfter + file.age
      OBVIOUS
    <3>1. registry[w].age \in Nat
      BY <1>0 DEF GlobalOK, Known
    <3>2. /\ registry'[w].age \in 0..(StaleAfter + MaxAge + 1)
          /\ registry'[w].age <= registry[w].age + 1
      BY <1>0, <3>1, Ticks, CappedNat
    <3> QED BY <1>0, <1>2, <3>1, <3>2
  <2>5. calm' > file'.age => calm > file.age
    BY <1>0, <1>1, <1>2, Times
  <2>6. /\ file' \in [age : Nat, workers : {file'.workers}] /\ file'.workers = file.workers
    BY Ticks
  <2> QED BY <1>0, <1>2, <1>3, <1>4, <2>1, <2>2, <2>3, <2>4, <2>5, <2>6 DEF FileOK
<1> QED BY <1>6, <1>7, <1>8 DEF SuperInv, WorkersOK

-----------------------------------------------------------------------------
(* The invariant                                                            *)

LEMMA SuperInit == Init => SuperInv
<1> SUFFICES ASSUME Init PROVE SuperInv
  OBVIOUS
<1>1. /\ up = TRUE /\ blocked = FALSE /\ fails = 0 /\ faults = 0 /\ since = 0 /\ calm = 0
      /\ task = [w \in Workers |-> "new"] /\ due = [w \in Workers |-> 0]
      /\ DOMAIN registry = {}
  BY DEF Init
<1>2. file.age = MaxAge + 1 /\ DOMAIN file.workers = {}
  BY DEF Init
<1>3. file \in [age : Nat, workers : {file.workers}]
  <2>1. MaxAge + 1 \in Nat
    BY Times
  <2> QED BY <2>1 DEF Init
<1>4. HeartW \in Workers /\ ScrapeW \in Workers
  BY Names
<1>5. ASSUME NEW w \in Workers PROVE WorkerOK(w)
  <2>1. task[w] = "new" /\ due[w] = 0 /\ ~Known(w)
    BY <1>1 DEF Known
  <2>2. Longest(w) \in Nat
    BY Times DEF Longest
  <2> QED BY <1>1, <2>1, <2>2 DEF WorkerOK, Places, Over
<1>6. GlobalOK
  <2>1. task \in [Workers -> Tasks] /\ due \in [Workers -> Nat]
    BY <1>1 DEF Tasks
  <2>2. ~StoreDead
    BY <1>1 DEF StoreDead
  <2>3. /\ fails \in 0..Threshold /\ faults \in 0..MaxFaults /\ since \in 0..(MaxAge + 1)
        /\ calm \in 0..(Interval + 1) /\ ~(fails > 0) /\ ~(since > 0) /\ ~(fails >= Threshold)
    BY <1>1, Times
  <2> QED BY <1>1, <2>1, <2>2, <2>3 DEF GlobalOK
<1>7. FileOK
  <2>1. /\ ~Well /\ \A w \in Workers : ~Known(w)
        /\ task[HeartW] = "new"
    BY <1>1, <1>4 DEF Well, Known
  <2> QED BY <1>1, <1>2, <1>3, <2>1, Times DEF FileOK
<1> QED BY <1>5, <1>6, <1>7 DEF SuperInv, WorkersOK

LEMMA SuperStep == SuperInv /\ [Next]_vars => SuperInv'
<1> SUFFICES ASSUME SuperInv, [Next]_vars PROVE SuperInv'
  OBVIOUS
<1>1. CASE StartWorker
  BY <1>1, StartSteps
<1>2. CASE HeartbeatLoop
  <2>1. /\ Goes(HeartW, "sleep", Interval) /\ registry' = Beat(HeartW, "alive")
        /\ WriteHeartbeat(registry) /\ registry \in {registry, Beat(HeartW, "alive")}
        /\ UNCHANGED <<up, fails, blocked, faults, since, calm>> /\ up
        /\ task[HeartW] = "sleep"
    BY <1>2 DEF HeartbeatLoop, At, Running, HeartW
  <2> QED BY <2>1, HeartSteps
<1>3. CASE EndPoll \/ SourceProcesses \/ SourceIdles
  BY <1>3, SourceSteps
<1>4. CASE EndScrape(TRUE) \/ EndScrape(FALSE)
  BY <1>4, ScrapeEnds
<1>5. CASE SchedulerSleeps
  BY <1>5, SchedulerSteps
<1>6. CASE TelegramStep \/ Disconnect \/ BackOff \/ Reconnect
  BY <1>6, TeleSteps
<1>7. CASE Dies("ended") \/ Dies("raised") \/ CancelSibling
  BY <1>7, TroubleSteps
<1>8. CASE Quarantine \/ LateReturn
  BY <1>8, StoreSteps
<1>9. CASE BlockLoop \/ UnblockLoop \/ UNCHANGED vars
  BY <1>9, BlockSteps
<1>10. CASE Exit \/ Restart
  BY <1>10, RestartSteps
<1>11. CASE Tick
  BY <1>11, TickSteps
<1> QED BY <1>1, <1>2, <1>3, <1>4, <1>5, <1>6, <1>7, <1>8, <1>9, <1>10, <1>11 DEF Next

\* The inductive invariant holds in every reachable state: what a worker of
\* WorkerLiveness, the registry and the heartbeat file say of one another.
THEOREM SuperHolds == Spec => []SuperInv
BY SuperInit, SuperStep, PTL DEF Spec

-----------------------------------------------------------------------------
(* What the runs check                                                      *)

\* Every state has the types of the model, and no worker sleeps longer than the
\* step between two beats, or its backoff, lasts.
THEOREM SupervisionTyped == Spec => []TypeOK
<1>1. SuperInv => TypeOK
  <2> SUFFICES ASSUME SuperInv PROVE TypeOK
    OBVIOUS
  <2>1. GlobalOK /\ FileOK /\ \A w \in Workers : due[w] <= Longest(w)
    BY DEF SuperInv, WorkersOK, WorkerOK
  <2>2. \A w \in Workers :
          due[w] <= IF task[w] \in Silent THEN 0
                    ELSE IF task[w] = "backoff" THEN Backoff
                    ELSE IF w = "__heartbeat__" \/ task[w] = "connected" THEN Interval
                    ELSE Cadence
    BY <2>1 DEF Longest, HeartW
  <2>3. \A w \in DOMAIN registry : registry[w].state \in States
    BY <2>1 DEF GlobalOK
  <2>4. file.age \in 0..(MaxAge + 1) /\ DOMAIN file.workers \subseteq Workers \cup {"db_worker"}
    BY <2>1 DEF FileOK, Everyone
  <2>5. /\ up \in BOOLEAN /\ blocked \in BOOLEAN /\ task \in [Workers -> Tasks]
        /\ DOMAIN registry \subseteq Workers \cup {"db_worker"}
        /\ fails \in 0..Threshold /\ faults \in 0..MaxFaults
    BY <2>1 DEF GlobalOK, Everyone
  <2> QED BY <2>2, <2>3, <2>4, <2>5 DEF TypeOK
<1> QED BY <1>1, SuperHolds, PTL

\* A death, sustained scraper failures or a quarantine make the probe of
\* healthcheck.py fail from the next snapshot of heartbeat.py on, a worker that
\* hangs from the end of the staleness window after its last beat.
THEOREM DeathsAreReported == Spec => []ReportedInTime
<1>1. SuperInv => ReportedInTime
  <2> SUFFICES ASSUME SuperInv, Health = "HEALTHY"
               PROVE  /\ Dead => since <= file.age
                      /\ \A w \in Critical :
                           task[w] \in Silent => registry[w].age <= StaleAfter + file.age
    BY DEF ReportedInTime
  <2>1. ~Alarm /\ ~Stale /\ Missing = {}
    BY DEF Health, Alarm
  <2>2. /\ GlobalOK /\ FileOK /\ StaleAfter \in Nat /\ since \in Nat /\ file.age \in Nat
    <3>1. GlobalOK /\ FileOK /\ StaleAfter \in Nat
      BY Times DEF SuperInv, WorkersOK
    <3>2. since \in Nat /\ file.age \in Nat
      BY <3>1, Times DEF GlobalOK, FileOK
    <3> QED BY <3>1, <3>2
  <2>3. since <= file.age
    BY <2>1, <2>2 DEF FileOK
  <2>4. ASSUME NEW w \in Critical, task[w] \in Silent
        PROVE  registry[w].age <= StaleAfter + file.age
    <3>1. w \in Workers /\ WorkerOK(w)
      BY <2>4 DEF Critical, SuperInv, WorkersOK
    <3>2. Known(w)
      <4>1. up
        BY <2>2, <2>4, <3>1 DEF GlobalOK, Over, Silent
      <4> QED BY <2>4, <3>1, <4>1 DEF WorkerOK, Silent
    <3>3. registry[w].age \in Nat
      BY <2>2, <3>2 DEF GlobalOK, Known
    <3>4. ~(registry[w].age > StaleAfter + file.age)
      <4>1. SUFFICES ASSUME registry[w].age > StaleAfter + file.age PROVE FALSE
        OBVIOUS
      <4>2. /\ StateOf(w) # "shutdown"
            /\ StateOf(w) = "alive" => file.workers[w].late
        BY <2>2, <2>4, <3>1, <3>2, <4>1 DEF FileOK, Silent
      <4>3. StateOf(w) = "alive"
        <5>1. StateOf(w) \in {"alive", "reconnecting", "shutdown"}
          BY <2>1, <2>4 DEF Alarm, BadState
        <5>2. StateOf(w) # "reconnecting"
          BY <2>1, <2>4 DEF Health, Alarm
        <5> QED BY <4>2, <5>1, <5>2
      <4> QED BY <2>1, <2>4, <4>2, <4>3 DEF Stale
    <3> QED BY <2>2, <3>3, <3>4
  <2> QED BY <2>3, <2>4
<1> QED BY <1>1, SuperHolds, PTL

\* With a cadence that fits into the window, the probe of healthcheck.py fails only
\* if within a heartbeat interval something was dead or blocked, or an operation
\* kept its worker from beating for longer than the window, for operations of any
\* length: sleeps, jobs, connections and backoffs never look like a hang.
THEOREM NoAlarmWhenFine ==
  ASSUME BeatsInTime
  PROVE  Spec => []NoFalseAlarm
<1>1. SuperInv => NoFalseAlarm
  <2> SUFFICES ASSUME SuperInv, Fine, calm > Interval PROVE Health # "UNHEALTHY"
    BY DEF NoFalseAlarm
  <2>1. GlobalOK /\ FileOK /\ HeartW \in Workers /\ WorkerOK(HeartW)
    BY Names DEF SuperInv, WorkersOK
  <2>2. Well /\ up
    BY DEF Fine, Well
  <2>3. task[HeartW] = "sleep"
    <3>1. task[HeartW] \in Over \cup {"new", "sleep"}
      BY <2>1, Names DEF WorkerOK, Places
    <3> QED BY <2>1, <3>1 DEF Fine
  <2>4. calm \in Nat /\ file.age \in Nat /\ due[HeartW] \in Nat
    <3>1. calm \in Nat
      BY <2>1, Times DEF GlobalOK
    <3>2. file.age \in Nat
      BY <2>1, Times DEF FileOK
    <3> QED BY <2>1, <3>1, <3>2 DEF WorkerOK
  <2>5. file.age + due[HeartW] = Interval
    <3>1. calm > 0
      BY <2>4, Times
    <3> QED BY <2>1, <2>2, <2>3, <3>1 DEF FileOK
  <2>6. file.age <= MaxAge /\ calm > file.age
    BY <2>4, <2>5, Times
  <2>7. Sound
    BY <2>1, <2>2, <2>6 DEF FileOK
  <2>8. ~(file.age > MaxAge)
    BY <2>4, <2>6, Times
  <2> QED BY <2>7, <2>8 DEF Sound, Health
<1> QED BY <1>1, SuperHolds, PTL

=============================================================================
