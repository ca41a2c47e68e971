---------------------------- MODULE FreeHubSource ----------------------------
(***************************************************************************)
(* One platform of the FreeHub source (app/services/freehub.py), driven by *)
(* the source worker of app/wiring/source_worker.py: a poll discovers      *)
(* projects page by page and records them as pending, the worker hands     *)
(* them to process_job one by one, and mark_project_seen retires those it  *)
(* accepted.  Polling and marking alternate in one task, platforms share   *)
(* nothing but the state file.                                             *)
(*                                                                         *)
(* Projects are numbered in the order they are posted.  FreeHub lists      *)
(* newest first, so every new project shifts the pages.                    *)
(***************************************************************************)
EXTENDS StateFile, Lists, Integers, SequencesExt

CONSTANTS
  MaxPosted,    \* bound on the projects ever posted
  PageSize,     \* freehub_page_size
  MaxPages,     \* _MAX_BACKFILL_PAGES
  MaxSeen,      \* _SEEN_MAXLEN
  MaxFailures,  \* bound on failing requests, saves and process_job calls
  MaxCrashes    \* bound on process crashes

ASSUME FreeHubAssumption ==
  /\ MaxPosted \in Nat
  /\ PageSize \in Nat \ {0} /\ MaxPages \in Nat \ {0}
  /\ MaxSeen \in Nat /\ MaxSeen >= PageSize * MaxPages
  /\ MaxFailures \in Nat /\ MaxCrashes \in Nat

Projects == 1..MaxPosted
Labels   == {"idle", "page1", "seed", "walk", "caught_up", "record",
             "process", "seen", "unpend"}

\* The FreeHub part of the state file.
Saved == [seen : Seq(Projects), pending : Seq(Projects), page : Nat \ {0, 1}]
\* Local variables of poll_source: the pending list it read, the projects on
\* the pages it fetched, the next page and the number of pages fetched.
Walk  == [known : Seq(Projects), items : SUBSET Projects,
          page : Nat \ {0, 1}, fetched : 0..MaxPages]

VARIABLES
  cache,      \* _seen: the bounded deque of this process
  posted,     \* the feed lists projects posted..1
  processed,  \* history: projects process_job returned for
  base,       \* history: newest project the first poll took for known
  capped,     \* history: some walk has hit the page cap
  pc, walk,
  queue,      \* the rest of the batch the worker works through
  failures, crashes

hist  == <<processed, base, capped>>
poll  == <<cache, walk, queue>>
vars  == <<stateFile, poll, pc, posted, hist, failures, crashes>>

NoWalk == [known |-> <<>>, items |-> {}, page |-> 2, fetched |-> 0]

-----------------------------------------------------------------------------
(* Helpers *)

PageAt(n) == {p \in 1..posted : /\ p > posted - n * PageSize
                                /\ p <= posted - (n - 1) * PageSize}

\* Mutant: one known project ends the walk.
PagePartlySeen(items) == \E p \in items : p \in Range(cache)
PageFullySeen(items) == items # {} /\ items \subseteq Range(cache)

NewestFirst(S) == Reverse(Ascending(S))

\* deque(maxlen=_SEEN_MAXLEN)
Push(s, p) == IF Len(s) < MaxSeen THEN Append(s, p) ELSE Append(Tail(s), p)

Fail == failures > 0 /\ failures' = failures - 1

\* A save that raises.
Raised(d) == \/ Refused /\ UNCHANGED failures
             \/ Unstored(d) /\ Fail

Goto(label) == pc' = label
Emit(batch) == queue' = batch /\ walk' = NoWalk /\ Goto("process")
Abandon     == walk' = NoWalk /\ UNCHANGED queue /\ Goto("idle")

-----------------------------------------------------------------------------
(* poll_once *)

\* Pending projects are emitted again with whatever the poll discovers.
Poll == /\ pc = "idle" /\ ~quarantined
        /\ walk' = [NoWalk EXCEPT !.known = data.pending]
        /\ Goto("page1")
        /\ UNCHANGED <<stateFile, cache, queue, posted, hist, failures, crashes>>

\* One HTTP request; what it raises ends this platform's poll.
FetchFails == /\ pc \in {"page1", "walk"} /\ walk.fetched < MaxPages
              /\ Fail /\ Abandon
              /\ UNCHANGED <<stateFile, cache, posted, hist, crashes>>

FetchFirst ==
  LET items == PageAt(1) IN
  /\ pc = "page1"
  /\ \/ /\ items = {}
        /\ Emit(walk.known)
     \/ /\ items # {} /\ cache = <<>>
        /\ walk' = [walk EXCEPT !.items = items]
        /\ Goto("seed") /\ UNCHANGED queue
     \/ /\ cache # <<>> /\ PageFullySeen(items)
        /\ Goto("caught_up") /\ UNCHANGED <<walk, queue>>
     \/ /\ items # {} /\ cache # <<>> /\ ~PageFullySeen(items)
        /\ walk' = [walk EXCEPT !.items = items, !.page = data.page,
                                !.fetched = 1]
        /\ Goto("walk") /\ UNCHANGED queue
  /\ UNCHANGED <<stateFile, cache, posted, hist, failures, crashes>>

\* The first poll ever takes page 1 for known; the deque stands even when the
\* save fails.
Seed ==
  LET s == NewestFirst(walk.items) IN
  /\ pc = "seed"
  /\ cache' = s
  /\ base' = Max(walk.items)
  /\ \/ /\ Stored([data EXCEPT !.seen = s])
        /\ Emit(walk.known)
        /\ UNCHANGED failures
     \/ Raised([data EXCEPT !.seen = s]) /\ Abandon
  /\ UNCHANGED <<posted, processed, capped, crashes>>

\* The loop over older pages, from the persisted continuation page on.
FetchNext ==
  LET items == PageAt(walk.page) IN
  /\ pc = "walk" /\ walk.fetched < MaxPages
  /\ \/ /\ items = {} \/ PageFullySeen(items)
        /\ Goto("caught_up") /\ UNCHANGED walk
     \/ /\ items # {} /\ ~PageFullySeen(items)
        /\ walk' = [walk EXCEPT !.items = @ \cup items, !.page = @ + 1,
                                !.fetched = @ + 1]
        /\ UNCHANGED pc
  /\ UNCHANGED <<stateFile, cache, queue, posted, hist, failures, crashes>>

New == walk.items \ (Range(cache) \cup Range(walk.known))

\* What was discovered is recorded as pending before it is emitted.
\* Mutant: the pending projects of earlier polls are not emitted again.
DiscoverOnly == IF New = {} THEN Emit(<<>>)
                ELSE Goto("record") /\ UNCHANGED <<walk, queue>>
Discover == IF New = {} THEN Emit(walk.known)
            ELSE Goto("record") /\ UNCHANGED <<walk, queue>>

\* Mutant: the continuation page is kept as an offset from page 2.
SaveOffset(n) == LET d == [data EXCEPT !.page = n - 2] IN
  \/ Stored(d) /\ Discover /\ UNCHANGED failures
  \/ Raised(d) /\ Abandon
SavePage(n) == LET d == [data EXCEPT !.page = n] IN
  \/ Stored(d) /\ Discover /\ UNCHANGED failures
  \/ Raised(d) /\ Abandon

CaughtUp == /\ pc = "caught_up"
            /\ SavePage(2)
            /\ UNCHANGED <<cache, posted, hist, crashes>>

HitCap == /\ pc = "walk" /\ walk.fetched = MaxPages
          /\ SavePage(walk.page)
          /\ capped' = TRUE
          /\ UNCHANGED <<cache, posted, processed, base, crashes>>

\* Mutant: the new list replaces the old one.
RecordNew ==
  LET all == Ascending(New) IN
  /\ pc = "record"
  /\ \/ /\ Stored([data EXCEPT !.pending = all])
        /\ Emit(walk.known \o all)
        /\ UNCHANGED failures
     \/ Raised([data EXCEPT !.pending = all]) /\ Abandon
  /\ UNCHANGED <<cache, posted, hist, crashes>>
Record ==
  LET all == walk.known \o Ascending(New) IN
  /\ pc = "record"
  /\ \/ /\ Stored([data EXCEPT !.pending = all])
        /\ Emit(all)
        /\ UNCHANGED failures
     \/ Raised([data EXCEPT !.pending = all]) /\ Abandon
  /\ UNCHANGED <<cache, posted, hist, crashes>>

-----------------------------------------------------------------------------
(* The source worker's batch and mark_project_seen *)

NextJob == queue' = Tail(queue) /\ Goto("process")

\* Mutant: a project whose processing failed is marked seen as well.
ProcessAndForget ==
  /\ pc = "process" /\ queue # <<>>
  /\ \/ processed' = processed \cup {Head(queue)} /\ UNCHANGED failures
     \/ Fail /\ UNCHANGED processed
  /\ Goto("seen") /\ UNCHANGED queue
  /\ UNCHANGED <<stateFile, cache, walk, posted, base, capped, crashes>>
\* process_job returns or raises; what raised stays pending.
Process ==
  /\ pc = "process" /\ queue # <<>>
  /\ \/ /\ processed' = processed \cup {Head(queue)}
        /\ Goto("seen") /\ UNCHANGED <<queue, failures>>
     \/ Fail /\ NextJob /\ UNCHANGED processed
  /\ UNCHANGED <<stateFile, cache, walk, posted, base, capped, crashes>>

EndBatch == /\ pc = "process" /\ queue = <<>>
            /\ Goto("idle")
            /\ UNCHANGED <<stateFile, poll, posted, hist, failures, crashes>>

MarkSeen ==
  LET p == Head(queue)
      d == [data EXCEPT !.seen = Push(cache, p)] IN
  /\ pc = "seen"
  /\ \/ /\ p \in Range(cache)
        /\ Goto("unpend")
        /\ UNCHANGED <<stateFile, cache, queue, failures>>
     \/ /\ p \notin Range(cache)
        /\ cache' = Push(cache, p)
        /\ \/ Stored(d) /\ Goto("unpend") /\ UNCHANGED <<queue, failures>>
           \/ Raised(d) /\ NextJob
  /\ UNCHANGED <<walk, posted, hist, crashes>>

RemovePending ==
  LET p == Head(queue)
      rest == Without(data.pending, p)
      d == [data EXCEPT !.pending = rest] IN
  /\ pc = "unpend"
  /\ \/ rest = data.pending /\ UNCHANGED <<stateFile, failures>>
     \/ rest # data.pending /\ Stored(d) /\ UNCHANGED failures
     \/ rest # data.pending /\ Raised(d)
  /\ NextJob
  /\ UNCHANGED <<cache, walk, posted, hist, crashes>>

-----------------------------------------------------------------------------
(* Environment *)

Post == /\ posted < MaxPosted
        /\ posted' = posted + 1
        /\ UNCHANGED <<stateFile, poll, pc, hist, failures, crashes>>

\* A new process loads the state file and fills its deque from it.
Reboot == /\ Load(disk)
          /\ cache' = disk.seen
          /\ walk' = NoWalk /\ queue' = <<>> /\ Goto("idle")
          /\ UNCHANGED <<posted, hist, failures>>

Crash == crashes > 0 /\ crashes' = crashes - 1 /\ Reboot

\* Restarting is the only way out of the quarantine.
Restart == quarantined /\ pc = "idle" /\ Reboot /\ UNCHANGED crashes

Others == OtherSave /\ UNCHANGED <<poll, pc, posted, hist, failures, crashes>>

-----------------------------------------------------------------------------
Init ==
  /\ posted = 0
  /\ data = [seen |-> <<>>, pending |-> <<>>, page |-> 2]
  /\ disk = data /\ quarantined = FALSE
  /\ cache = <<>>
  /\ processed = {} /\ base = 0 /\ capped = FALSE
  /\ pc = "idle" /\ walk = NoWalk /\ queue = <<>>
  /\ failures = MaxFailures /\ crashes = MaxCrashes

Progress == \/ Poll \/ FetchFirst \/ Seed \/ FetchNext \/ CaughtUp \/ HitCap
            \/ Record \/ Process \/ EndBatch \/ MarkSeen \/ RemovePending

Next == Progress \/ FetchFails \/ Post \/ Others \/ Crash \/ Restart

Spec == Init /\ [][Next]_vars

\* The worker's loop runs on, every await in it being bounded by a timeout,
\* and an operator restarts a quarantined process.
FairSpec == Spec /\ WF_vars(Progress) /\ WF_vars(Restart)

-----------------------------------------------------------------------------
(* Properties *)

\* Every variable keeps its type; the continuation page is 2 or later.
TypeOK ==
  /\ data \in Saved /\ disk \in Saved /\ quarantined \in BOOLEAN
  /\ cache \in Seq(Projects) /\ Len(cache) <= MaxSeen
  /\ posted \in 0..MaxPosted /\ base \in 0..MaxPosted
  /\ processed \subseteq Projects /\ capped \in BOOLEAN
  /\ pc \in Labels /\ walk \in Walk /\ queue \in Seq(Projects)
  /\ failures \in Nat /\ crashes \in Nat

\* Nothing is known as seen, in this process or in the next one, that was not
\* processed or part of the very first page.
SeenWasProcessed ==
  \A s \in {cache, data.seen, disk.seen} :
    Range(s) \subseteq processed \cup 1..base

\* A discovered project stays in the durable pending list until process_job
\* has returned for it, over failed saves, failed jobs and restarts.
PendingIsKept ==
  [][\A p \in Range(disk.pending) \ processed' : p \in Range(disk'.pending)]_vars

Found(p) == p \in processed \cup Range(walk.known)
FoundNothingNew == FetchFirst /\ pc' = "caught_up"

\* "When the very first page is already fully seen, there is nothing further
\* back that could possibly be new" (poll_once), while no walk was cut short.
StopsOnlyWhenCaughtUp ==
  [][FoundNothingNew /\ ~capped =>
       \A p \in (base + 1)..posted : Found(p)]_vars

\* Every project posted after the first poll is processed in the end, unless
\* more of them arrived between two polls than a walk may fetch.
EveryProjectProcessed ==
  \A p \in Projects : p <= posted ~> p \in processed \/ p <= base \/ capped

-----------------------------------------------------------------------------
(* What the repository says of the source and the code does not keep.       *)

\* The same without the condition: "Hitting the page cap persists a
\* continuation for the next poll" (tests/test_freehub.py), which then finds
\* the projects behind it.
NothingFurtherBack ==
  [][FoundNothingNew =>
       \A p \in (base + 1)..posted : Found(p)]_vars
=============================================================================
