------------------------- MODULE JobPipelineProofs -------------------------
(***************************************************************************)
(* Theorems about JobPipeline, for every set of jobs and tasks and any     *)
(* number of crashes, failed saves and provider errors. What rests on the  *)
(* database alone is proved for every number of processes; what rests on a *)
(* process's memory and state file, where OneProcess runs the pipeline.    *)
(***************************************************************************)
EXTENDS JobPipeline, TLAPS

\* One `loki` process runs every call: the deployment README.md allows
\* (README.md:488-491: not scaled to replicas that share the state volume).
OneProcess == \A t, u \in Tasks : ProcOf[t] = ProcOf[u]

(* Typing of the operators the actions are built from. *)

LEMMA GotoTyped ==
  ASSUME CtlType, NEW t \in Tasks, job[t] \in Jobs,
         NEW label \in Labels, Goto(t, label)
  PROVE  CtlType'
BY DEF CtlType, Goto

LEMMA GotoWithTyped ==
  ASSUME CtlType, NEW t \in Tasks, job[t] \in Jobs,
         NEW label \in Labels, NEW m \in Memo, GotoWith(t, label, m)
  PROVE  CtlType'
BY DEF CtlType, GotoWith

LEMMA BlankMemoTyped == BlankMemo \in Memo
BY DEF BlankMemo, Memo, Finals, Methods, Cats, Chosen

LEMMA DropTyped ==
  ASSUME CtlType, NEW t \in Tasks, Drop(t), seen' \in [Tasks -> SUBSET Jobs]
  PROVE  CtlType'
BY BlankMemoTyped DEF CtlType, Drop, Labels

LEMMA ReturnTyped ==
  ASSUME CtlType, NEW t \in Tasks, job[t] \in Jobs, Return(t)
  PROVE  CtlType'
<1>1. CASE RoleOf[t] = "source"
  BY <1>1, GotoWithTyped, BlankMemoTyped DEF Return, Labels
<1>2. CASE RoleOf[t] # "source"
  <2>1. Drop(t) /\ seen' \in [Tasks -> SUBSET Jobs]
    BY <1>2 DEF Return, CtlType
  <2> QED BY <2>1, DropTyped
<1> QED BY <1>1, <1>2

LEMMA RaiseTyped ==
  ASSUME CtlType, NEW t \in Tasks, Raise(t)
  PROVE  CtlType'
<1>1. Drop(t) /\ seen' \in [Tasks -> SUBSET Jobs]
  BY DEF Raise, CtlType
<1> QED BY <1>1, DropTyped

LEMMA UpdateJobTyped ==
  ASSUME StoreType, NEW j \in Jobs, NEW r \in Row, UpdateJob(j, r)
  PROVE  StoreType'
BY DEF StoreType, UpdateJob

LEMMA AppendGuardTyped ==
  ASSUME StoreType, NEW j \in Jobs, NEW g \in GuardRow, AppendGuard(j, g)
  PROVE  StoreType'
BY DEF StoreType, AppendGuard

LEMMA VerdictTyped ==
  ASSUME StoreType, NEW j \in Jobs
  PROVE  Verdict(j).cat \in Cats
<1>1. guardlog[j] \in Seq(GuardRow)
  BY DEF StoreType
<1>2. CASE guardlog[j] = <<>>
  BY <1>2 DEF Verdict, NoVerdict, Cats
<1>3. CASE guardlog[j] # <<>>
  <2>1. Len(guardlog[j]) \in 1..Len(guardlog[j])
    BY <1>1, <1>3
  <2>2. guardlog[j][Len(guardlog[j])] \in GuardRow
    BY <1>1, <2>1
  <2> QED BY <1>3, <2>2 DEF Verdict, GuardRow
<1> QED BY <1>2, <1>3

\* A row with typed fields replaced is a row.
LEMMA RowUpdateTyped ==
  ASSUME StoreType, NEW j \in Jobs
  PROVE  /\ row[j] \in Row
         /\ \A x \in Finals : [row[j] EXCEPT !.final = x] \in Row
         /\ \A x \in Statuses : [row[j] EXCEPT !.status = x] \in Row
         /\ \A x \in BOOLEAN : /\ [row[j] EXCEPT !.short = x] \in Row
                               /\ [row[j] EXCEPT !.waiting = x] \in Row
                               /\ [row[j] EXCEPT !.guardClaim = x] \in Row
BY DEF StoreType, Row

(* Each group of actions keeps the types. *)

\* What the caller of a finished call does keeps the types.
LEMMA CallerTyped ==
  ASSUME TypeOK, NEW t \in Tasks,
         \/ \E j \in Jobs : Deliver(t, j) \/ NextRow(t, j)
         \/ Sweep(t) \/ MarkSeen(t)
  PROVE  StoreType' /\ OutType' /\ CtlType' /\ EnvType'
<1> USE DEF TypeOK
<1>1. ASSUME NEW j \in Jobs, Deliver(t, j)
      PROVE  StoreType' /\ OutType' /\ CtlType' /\ EnvType'
  BY <1>1 DEF Deliver, Begin, Labels, CtlType, StoreType, OutType, EnvType,
              store, out, env
<1>2. ASSUME NEW j \in Jobs, NextRow(t, j)
      PROVE  StoreType' /\ OutType' /\ CtlType' /\ EnvType'
  <2>1. CtlType'
    BY <1>2 DEF NextRow, Begin, Labels, LockedLabels, CtlType
  <2> QED BY <1>2, <2>1 DEF NextRow, StoreType, OutType, EnvType, store, out,
                            env
<1>3. CASE Sweep(t)
  <2>1. DueClassifications \subseteq Jobs /\ DueNotifications \subseteq Jobs
    BY DEF DueClassifications, DueNotifications, StoreType
  <2>2. CtlType'
    BY <1>3, <2>1 DEF Sweep, CtlType
  <2> QED BY <1>3, <2>2 DEF Sweep, StoreType, OutType, EnvType, store, out,
                            env
<1>4. CASE MarkSeen(t)
  <2>1. job[t] \in Jobs
    BY <1>4 DEF MarkSeen, CtlType
  <2>2. Drop(t) /\ seen' \in [Tasks -> SUBSET Jobs]
    BY <1>4, <2>1 DEF MarkSeen, CtlType
  <2>3. CtlType'
    BY <2>2, DropTyped
  <2> QED BY <1>4, <2>3 DEF MarkSeen, StoreType, OutType, EnvType, store, out,
                            env
<1> QED BY <1>1, <1>2, <1>3, <1>4

LEMMA DecideTyped ==
  ASSUME CtlType, NEW t \in Tasks, job[t] \in Jobs, Decide(t)
  PROVE  CtlType'
<1>1. mem[t] \in Memo
  BY DEF CtlType
<1>2. [mem[t] EXCEPT !.final = "Rejected"] \in Memo
  BY <1>1 DEF Memo, Finals
<1>3. [mem[t] EXCEPT !.final = "Accepted", !.cat = FilterCat(job[t]),
                     !.method = FilterMethod(job[t])] \in Memo
  BY <1>1 DEF Memo, Finals, Cats, Chosen, Methods, FilterCat, FilterMethod
<1>4. {"finalize", "llm"} \subseteq Labels
  BY DEF Labels, AttemptLabels
<1> QED BY <1>2, <1>3, <1>4, GotoTyped, GotoWithTyped DEF Decide

\* A claim is a job's.
LEMMA TakeTyped ==
  ASSUME NEW t \in Tasks, job[t] \in Jobs, TakeProject(t),
         owner \in [Procs -> [Projects -> Jobs \cup {None}]]
  PROVE  owner' \in [Procs -> [Projects -> Jobs \cup {None}]]
<1>1. ProcOf[t] \in Procs
  BY DEF Procs
<1>2. [owner[ProcOf[t]] EXCEPT ![ProjectOf[job[t]]] = job[t]]
        \in [Projects -> Jobs \cup {None}]
  BY <1>1
<1> QED BY <1>1, <1>2 DEF TakeProject

\* process_job up to and including the arbitration.
LEMMA ClassifyTyped ==
  ASSUME TypeOK, NEW t \in Tasks,
         \/ GetJob(t) \/ ClaimPending(t) \/ ResumeAccepted(t) \/ CreateJob(t)
         \/ RereadLoser(t) \/ ClaimProject(t) \/ RejectDuplicate(t)
         \/ Arbitrate(t) \/ RecordLLMError(t)
  PROVE  StoreType' /\ OutType' /\ CtlType' /\ EnvType'
<1> USE DEF TypeOK
<1> DEFINE j == job[t]
<1>j. j \in Jobs /\ mem[t] \in Memo
  BY DEF CtlType, GetJob, ClaimPending, ResumeAccepted, CreateJob,
         RereadLoser, ClaimProject, ClaimUnsaved, RejectDuplicate, Arbitrate, RecordLLMError
<1>r. row[j] \in Row
  BY <1>j, RowUpdateTyped
<1>l. /\ {"idle", "get_job", "create", "reread", "claim", "accepted",
          "status", "shorten", "lock", "mark_seen"} \subseteq Labels
      /\ AttemptLabels \subseteq Labels
  BY DEF Labels
<1>s. UNCHANGED store => StoreType'
  BY DEF StoreType, store
<1>o. UNCHANGED out => OutType'
  BY DEF OutType, out
<1>b. UNCHANGED env => EnvType'
  BY DEF EnvType, env
<1>1. CASE GetJob(t)
  <2>1. [BlankMemo EXCEPT !.recheck = (row[j].reason = "Guard Fallback")]
          \in Memo
    BY BlankMemoTyped DEF Memo
  <2>2. CtlType'
    BY <1>1, <1>j, <1>l, <2>1, GotoTyped, GotoWithTyped, ReturnTyped
       DEF GetJob, AttemptLabels
  <2> QED BY <1>1, <1>s, <1>o, <1>b, <2>2 DEF GetJob
<1>2. CASE ClaimPending(t)
  <2>1. StoreType'
    BY <1>2, <1>j, <1>s, RowUpdateTyped, UpdateJobTyped DEF ClaimPending
  <2>2. CtlType'
    BY <1>2, <1>j, <1>l, GotoTyped, RaiseTyped DEF ClaimPending, AttemptLabels
  <2> QED BY <1>2, <1>o, <1>b, <2>1, <2>2 DEF ClaimPending
<1>3. CASE ResumeAccepted(t)
  <2>1. StoreType'
    BY <1>3, <1>j, RowUpdateTyped, UpdateJobTyped DEF ResumeAccepted, Statuses
  <2>2. CtlType'
    BY <1>3, <1>j, <1>l, GotoTyped DEF ResumeAccepted
  <2> QED BY <1>3, <1>o, <1>b, <2>1, <2>2 DEF ResumeAccepted
<1>4. CASE CreateJob(t)
  <2>1. [BlankRow EXCEPT !.cat = FilterCat(j), !.method = FilterMethod(j)]
          \in Row
    BY DEF BlankRow, Row, Finals, Reasons, Methods, Cats, Chosen, Statuses,
           FilterCat, FilterMethod
  <2>2. StoreType'
    BY <1>4, <1>j, <1>s, <2>1 DEF CreateJob, StoreType
  <2>3. CtlType'
    BY <1>4, <1>j, <1>l, GotoTyped DEF CreateJob, AttemptLabels
  <2> QED BY <1>4, <1>o, <1>b, <2>2, <2>3 DEF CreateJob
<1>5. CASE RereadLoser(t)
  <2>1. CtlType'
    BY <1>5, <1>j, <1>l, GotoTyped, ReturnTyped DEF RereadLoser
  <2> QED BY <1>5, <1>s, <1>o, <1>b, <2>1 DEF RereadLoser
<1>6. CASE ClaimProject(t)
  <2>1. CtlType'
    BY <1>6, <1>j, <1>l, GotoTyped, DecideTyped DEF ClaimProject, AttemptLabels
  <2>2. OutType'
    <3>1. /\ owner \in [Procs -> [Projects -> Jobs \cup {None}]]
          /\ saved \in [Procs -> [Projects -> Jobs \cup {None}]]
      BY DEF OutType
    <3>2. CASE UNCHANGED claims
      BY <1>6, <3>2 DEF ClaimProject, OutType, claims
    <3>3. CASE ~UNCHANGED claims
      <4>1. /\ ProjectOf[j] \in Projects /\ TakeProject(t)
            /\ saved' = [saved EXCEPT ![ProcOf[t]] = owner'[ProcOf[t]]]
            /\ UNCHANGED <<lapsed, events, publishes>>
        BY <1>6, <1>j, <3>3 DEF ClaimProject, Projects
      <4>2. owner' \in [Procs -> [Projects -> Jobs \cup {None}]]
        BY <1>j, <3>1, <4>1, TakeTyped
      <4>3. ProcOf[t] \in Procs
        BY DEF Procs
      <4> QED BY <3>1, <4>1, <4>2, <4>3 DEF OutType
    <3> QED BY <3>2, <3>3
  <2> QED BY <1>6, <1>s, <1>b, <2>1, <2>2 DEF ClaimProject
<1>7. CASE RejectDuplicate(t)
  <2>1. [row[j] EXCEPT !.final = "Rejected", !.reason = "final"] \in Row
    BY <1>r DEF Row, Finals, Reasons
  <2>2. StoreType'
    BY <1>7, <1>j, <2>1, UpdateJobTyped DEF RejectDuplicate
  <2>3. CtlType'
    BY <1>7, <1>j, ReturnTyped DEF RejectDuplicate
  <2> QED BY <1>7, <1>o, <1>b, <2>2, <2>3 DEF RejectDuplicate
<1>8. CASE Arbitrate(t)
  <2>1. /\ [mem[t] EXCEPT !.final = "Rejected"] \in Memo
        /\ \A c \in Chosen : [mem[t] EXCEPT !.final = "Accepted", !.cat = c,
                                            !.method = "llm"] \in Memo
    BY <1>j DEF Memo, Finals, Cats, Methods
  <2>2. CtlType'
    BY <1>8, <1>j, <1>l, <2>1, GotoTyped, GotoWithTyped
       DEF Arbitrate, AttemptLabels
  <2>3. EnvType'
    <3>1. /\ shape' = shape /\ crashes' = crashes
          /\ \/ errors' = errors
             \/ errors > 0 /\ errors' = errors - 1
      BY <1>8 DEF Arbitrate
    <3> QED BY <3>1 DEF EnvType
  <2> QED BY <1>8, <1>s, <1>o, <2>2, <2>3 DEF Arbitrate
<1>9. CASE RecordLLMError(t)
  <2>1. [row[j] EXCEPT !.final = "Pending", !.reason = "LLM Error",
                       !.cat = "", !.method = "", !.waiting = TRUE] \in Row
    BY <1>r DEF Row, Finals, Reasons, Cats, Methods
  <2>2. StoreType'
    BY <1>9, <1>j, <2>1, UpdateJobTyped DEF RecordLLMError
  <2>3. CtlType'
    BY <1>9, RaiseTyped DEF RecordLLMError
  <2> QED BY <1>9, <1>o, <1>b, <2>2, <2>3 DEF RecordLLMError
<1> QED BY <1>1, <1>2, <1>3, <1>4, <1>5, <1>6, <1>7, <1>8, <1>9

\* process_job from the arbitration's outcome to the notification lock.
LEMMA DecisionTyped ==
  ASSUME TypeOK, NEW t \in Tasks,
         LogRescue(t) \/ LogGemini(t) \/ Finalize(t) \/ MarkPending(t)
         \/ Shorten(t)
  PROVE  StoreType' /\ OutType' /\ CtlType' /\ EnvType'
<1> USE DEF TypeOK
<1> DEFINE j == job[t]
<1>j. j \in Jobs /\ mem[t] \in Memo
  BY DEF CtlType, LogRescue, LogGemini, Finalize, MarkPending, Shorten
<1>r. row[j] \in Row
  BY <1>j, RowUpdateTyped
<1>l. {"audit", "finalize", "status", "shorten", "lock"} \subseteq Labels
  BY DEF Labels, AttemptLabels
<1>o. UNCHANGED out => OutType'
  BY DEF OutType, out
<1>b. UNCHANGED env => EnvType'
  BY DEF EnvType, env
<1>1. CASE LogRescue(t)
  <2>1. [verdict |-> "notify", cat |-> mem[t].cat, by |-> "rescue"]
          \in GuardRow
    BY <1>j DEF GuardRow, Memo
  <2>2. StoreType'
    BY <1>1, <1>j, <2>1, AppendGuardTyped DEF LogRescue
  <2>3. CtlType'
    BY <1>1, <1>j, <1>l, GotoTyped DEF LogRescue
  <2> QED BY <1>1, <1>o, <1>b, <2>2, <2>3 DEF LogRescue
<1>2. CASE LogGemini(t)
  <2>1. CtlType'
    BY <1>2, <1>j, <1>l, GotoTyped DEF LogGemini
  <2>2. StoreType'
    BY <1>2, <1>j DEF LogGemini, StoreType, Memo, Cats
  <2> QED BY <1>2, <1>o, <1>b, <2>1, <2>2 DEF LogGemini
<1>3. CASE Finalize(t)
  <2>1. [row[j] EXCEPT !.final = mem[t].final, !.reason = "final",
                       !.cat = mem[t].cat, !.method = mem[t].method] \in Row
    BY <1>r, <1>j DEF Row, Memo, Reasons
  <2>2. StoreType'
    BY <1>3, <1>j, <2>1, UpdateJobTyped DEF Finalize
  <2>3. CtlType'
    BY <1>3, <1>j, <1>l, BlankMemoTyped, GotoWithTyped, ReturnTyped
       DEF Finalize
  <2> QED BY <1>3, <1>o, <1>b, <2>2, <2>3 DEF Finalize
<1>4. CASE MarkPending(t)
  <2>1. StoreType'
    BY <1>4, <1>j, RowUpdateTyped, UpdateJobTyped DEF MarkPending, Statuses
  <2>2. CtlType'
    BY <1>4, <1>j, <1>l, GotoTyped DEF MarkPending
  <2> QED BY <1>4, <1>o, <1>b, <2>1, <2>2 DEF MarkPending
<1>5. CASE Shorten(t)
  <2>1. StoreType'
    <3>1. CASE UNCHANGED store
      BY <3>1 DEF StoreType, store
    <3>2. CASE UpdateJob(j, [row[j] EXCEPT !.short = TRUE])
      BY <3>2, <1>j, RowUpdateTyped, UpdateJobTyped
    <3> QED BY <1>5, <3>1, <3>2 DEF Shorten
  <2>2. CtlType'
    BY <1>5, <1>j, <1>l, GotoTyped DEF Shorten
  <2> QED BY <1>5, <1>o, <1>b, <2>1, <2>2 DEF Shorten
<1> QED BY <1>1, <1>2, <1>3, <1>4, <1>5

\* _resume_pending_notifications and the guard.
LEMMA ResumeTyped ==
  ASSUME TypeOK, NEW t \in Tasks,
         \/ AcquireAndRead(t) \/ ResolveCategory(t) \/ ClaimGuard(t)
         \/ PollVerdict(t) \/ EvaluateGuard(t) \/ Reclassify(t)
         \/ GuardAllow(t) \/ ReadVerdict(t) \/ GuardFallback(t) \/ Suppress(t)
         \/ FetchFinal(t) \/ Publish(t) \/ MarkComplete(t)
  PROVE  StoreType' /\ OutType' /\ CtlType' /\ EnvType'
<1> USE DEF TypeOK
<1> DEFINE j == job[t]
<1>j. j \in Jobs /\ mem[t] \in Memo
  BY DEF CtlType, AcquireAndRead, ResolveCategory, ClaimGuard, PollVerdict,
         EvaluateGuard, Reclassify, GuardAllow, ReadVerdict, GuardFallback,
         Suppress, FetchFinal, Publish, MarkComplete
<1>r. row[j] \in Row
  BY <1>j, RowUpdateTyped
<1>v. Verdict(j).cat \in Cats
  BY <1>j, VerdictTyped
<1>m. \A c \in Cats : [mem[t] EXCEPT !.cat = c] \in Memo
  BY <1>j DEF Memo
<1>l. LockedLabels \subseteq Labels
  BY DEF Labels
<1>s. UNCHANGED store => StoreType'
  BY DEF StoreType, store
<1>o. UNCHANGED out => OutType'
  BY DEF OutType, out
<1>b. UNCHANGED env => EnvType'
  BY DEF EnvType, env
<1>1. CASE AcquireAndRead(t)
  <2>1. [BlankMemo EXCEPT !.cat = row[j].cat, !.method = row[j].method]
          \in Memo
    BY <1>r, BlankMemoTyped DEF Memo, Row
  <2>2. CtlType'
    BY <1>1, <1>j, <1>l, <2>1, GotoWithTyped, ReturnTyped
       DEF AcquireAndRead, LockedLabels
  <2> QED BY <1>1, <1>s, <1>o, <1>b, <2>2 DEF AcquireAndRead
<1>2. CASE ResolveCategory(t)
  <2>1. mem[t].cat \in Cats
    BY <1>j DEF Memo
  <2>2. CtlType'
    BY <1>2, <1>j, <1>l, <1>v, <1>m, <2>1, GotoTyped, GotoWithTyped
       DEF ResolveCategory, LockedLabels
  <2> QED BY <1>2, <1>s, <1>o, <1>b, <2>2 DEF ResolveCategory
<1>3. CASE ClaimGuard(t)
  <2>1. StoreType'
    BY <1>3, <1>j, <1>s, RowUpdateTyped, UpdateJobTyped DEF ClaimGuard
  <2>2. CtlType'
    BY <1>3, <1>j, <1>l, GotoTyped DEF ClaimGuard, LockedLabels
  <2> QED BY <1>3, <1>o, <1>b, <2>1, <2>2 DEF ClaimGuard
<1>4. CASE PollVerdict(t)
  <2>1. CtlType'
    BY <1>4, <1>j, <1>l, <1>v, <1>m, GotoTyped, GotoWithTyped
       DEF PollVerdict, LockedLabels
  <2> QED BY <1>4, <1>s, <1>o, <1>b, <2>1 DEF PollVerdict
<1>5. CASE EvaluateGuard(t)
  <2>1. mem[t].cat \in Cats /\ "full_stack" \in Cats /\ "" \in Cats
    BY <1>j DEF Memo, Cats, Chosen
  <2>2. /\ \A c \in Cats : [verdict |-> "notify", cat |-> c, by |-> "guard"]
                             \in GuardRow
        /\ [verdict |-> "do_not_notify", cat |-> "", by |-> "guard"]
             \in GuardRow
        /\ [verdict |-> "error", cat |-> "", by |-> "guard"] \in GuardRow
    BY <2>1 DEF GuardRow
  <2>3. \E g \in GuardRow : AppendGuard(j, g)
    BY <1>5, <2>1, <2>2 DEF EvaluateGuard
  <2>4. StoreType'
    BY <1>j, <2>3, AppendGuardTyped
  <2>5. CtlType'
    BY <1>5, <1>j, <1>l, <1>m, <2>1, GotoTyped, GotoWithTyped
       DEF EvaluateGuard, LockedLabels
  <2>6. shape' = shape /\ crashes' = crashes
    BY <1>5 DEF EvaluateGuard
  <2>7. errors' \in Nat
    <3>1. CASE UNCHANGED errors
      BY <3>1 DEF EnvType
    <3>2. CASE errors > 0 /\ errors' = errors - 1
      BY <3>2 DEF EnvType
    <3> QED BY <1>5, <3>1, <3>2, Zenon DEF EvaluateGuard
  <2>8. EnvType'
    BY <2>6, <2>7 DEF EnvType
  <2> QED BY <1>5, <1>o, <2>4, <2>5, <2>8 DEF EvaluateGuard
<1>6. CASE Reclassify(t)
  <2>1. [row[j] EXCEPT !.cat = mem[t].cat, !.method = "llm"] \in Row
    BY <1>j, <1>r DEF Row, Memo, Methods
  <2>2. StoreType'
    BY <1>6, <1>j, <2>1, UpdateJobTyped DEF Reclassify
  <2>3. CtlType'
    BY <1>6, <1>j, <1>l, GotoTyped DEF Reclassify, LockedLabels
  <2> QED BY <1>6, <1>o, <1>b, <2>2, <2>3 DEF Reclassify
<1>7. CASE GuardAllow(t)
  <2>1. CtlType'
    BY <1>7, <1>j, <1>l, GotoTyped DEF GuardAllow, LockedLabels
  <2> QED BY <1>7, <1>s, <1>o, <1>b, <2>1 DEF GuardAllow
<1>8. CASE ReadVerdict(t)
  <2>1. CtlType'
    BY <1>8, <1>j, <1>l, GotoTyped, ReturnTyped DEF ReadVerdict, LockedLabels
  <2> QED BY <1>8, <1>s, <1>o, <1>b, <2>1 DEF ReadVerdict
<1>9. CASE GuardFallback(t)
  <2>1. [row[j] EXCEPT !.final = "Pending", !.status = "",
                       !.reason = "Guard Fallback", !.waiting = TRUE] \in Row
    BY <1>r DEF Row, Finals, Statuses, Reasons
  <2>2. StoreType'
    BY <1>9, <1>j, <2>1, UpdateJobTyped DEF GuardFallback
  <2>3. CtlType'
    BY <1>9, <1>j, ReturnTyped DEF GuardFallback
  <2> QED BY <1>9, <1>o, <1>b, <2>2, <2>3 DEF GuardFallback
<1>10. CASE Suppress(t)
  <2>1. StoreType'
    BY <1>10, <1>j, RowUpdateTyped, UpdateJobTyped DEF Suppress, Statuses
  <2>2. CtlType'
    BY <1>10, <1>j, ReturnTyped DEF Suppress
  <2> QED BY <1>10, <1>o, <1>b, <2>1, <2>2 DEF Suppress
<1>11. CASE FetchFinal(t)
  <2>1. [mem[t] EXCEPT !.cat = row[j].cat, !.short = row[j].short] \in Memo
    BY <1>j, <1>r DEF Memo, Row
  <2>2. CtlType'
    BY <1>11, <1>j, <1>l, <2>1, GotoWithTyped DEF FetchFinal, LockedLabels
  <2> QED BY <1>11, <1>s, <1>o, <1>b, <2>2 DEF FetchFinal
<1>12. CASE Publish(t)
  <2>1. [cat |-> mem[t].cat, short |-> mem[t].short] \in Event
    BY <1>j DEF Memo, Event
  <2>2. OutType'
    <3>1. UNCHANGED <<owner, saved, lapsed>>
      BY <1>12 DEF Publish, claims
    <3>2. events' \in [Jobs -> SUBSET Event]
      BY <1>12, <1>j, <2>1 DEF Publish, OutType
    <3>3. publishes' \in [Jobs -> 0..2]
      BY <1>12, <1>j DEF Publish, OutType
    <3> QED BY <3>1, <3>2, <3>3 DEF OutType
  <2>3. CtlType'
    BY <1>12, <1>j, <1>l, GotoTyped DEF Publish, LockedLabels
  <2> QED BY <1>12, <1>s, <1>b, <2>2, <2>3 DEF Publish
<1>13. CASE MarkComplete(t)
  <2>1. StoreType'
    BY <1>13, <1>j, RowUpdateTyped, UpdateJobTyped DEF MarkComplete, Statuses
  <2>2. CtlType'
    BY <1>13, <1>j, ReturnTyped DEF MarkComplete
  <2> QED BY <1>13, <1>o, <1>b, <2>1, <2>2 DEF MarkComplete
<1> QED BY <1>1, <1>2, <1>3, <1>4, <1>5, <1>6, <1>7, <1>8, <1>9, <1>10,
           <1>11, <1>12, <1>13

\* The state file and the age of a claim concern nothing but the claims.
LEMMA ClaimsOnly ==
  ASSUME ClaimsNext
  PROVE  UNCHANGED <<store, events, publishes, ctl, env>>
BY DEF ClaimsNext, SaveState, ClaimRunsOut

\* Exceptions, crashes and time.
LEMMA FailureTyped ==
  ASSUME TypeOK, \/ \E t \in Tasks : TaskRaises(t) \/ ClaimUnsaved(t)
                 \/ \E p \in Procs : Crash(p)
                 \/ TimeNext \/ ClaimsNext
  PROVE  StoreType' /\ OutType' /\ CtlType' /\ EnvType'
<1> USE DEF TypeOK
<1>1. ASSUME NEW t \in Tasks, TaskRaises(t)
      PROVE  StoreType' /\ OutType' /\ CtlType' /\ EnvType'
  <2>1. CtlType'
    BY <1>1, RaiseTyped DEF TaskRaises
  <2> QED BY <1>1, <2>1 DEF TaskRaises, StoreType, OutType, EnvType, store,
                            out
<1>2. ASSUME NEW p \in Procs, Crash(p)
      PROVE  StoreType' /\ OutType' /\ CtlType' /\ EnvType'
  <2>1. CtlType'
    BY <1>2, BlankMemoTyped DEF Crash, CtlType, Labels
  <2>2. OutType'
    <3>1. /\ owner' = [owner EXCEPT ![p] = saved[p]]
          /\ lapsed' \subseteq lapsed \cup Projects
          /\ UNCHANGED <<saved, events, publishes>>
      BY <1>2 DEF Crash
    <3> QED BY <1>2, <3>1 DEF OutType
  <2> QED BY <1>2, <2>1, <2>2 DEF Crash, StoreType, EnvType, store
<1>3. ASSUME NEW j \in Jobs, RetryWindowElapses(j) \/ GuardLeaseElapses(j)
      PROVE  StoreType' /\ OutType' /\ CtlType' /\ EnvType'
  <2>1. StoreType'
    BY <1>3, RowUpdateTyped, UpdateJobTyped
       DEF RetryWindowElapses, GuardLeaseElapses
  <2> QED BY <1>3, <2>1 DEF RetryWindowElapses, GuardLeaseElapses, OutType,
                            CtlType, EnvType, out, ctl, env
<1>4. ASSUME NEW t \in Tasks, ClaimUnsaved(t)
      PROVE  StoreType' /\ OutType' /\ CtlType' /\ EnvType'
  <2>1. CtlType' /\ EnvType' /\ StoreType'
    BY <1>4, RaiseTyped DEF ClaimUnsaved, EnvType, StoreType, store, env
  <2>2. job[t] \in Jobs
    BY <1>4 DEF ClaimUnsaved, CtlType
  <2>3. owner' \in [Procs -> [Projects -> Jobs \cup {None}]]
    BY <1>4, <2>2, TakeTyped DEF ClaimUnsaved, OutType
  <2> QED BY <1>4, <2>1, <2>3 DEF ClaimUnsaved, OutType
<1>5. CASE ClaimsNext
  <2>1. StoreType' /\ CtlType' /\ EnvType'
    BY <1>5, ClaimsOnly DEF StoreType, CtlType, EnvType, store, ctl, env
  <2>2. ASSUME NEW p \in Procs, SaveState(p) PROVE OutType'
    BY <2>2 DEF SaveState, OutType
  <2>3. ASSUME NEW p \in Procs, NEW q \in Projects, ClaimRunsOut(p, q) PROVE OutType'
    <3>1. /\ [owner[p] EXCEPT ![q] = None] \in [Projects -> Jobs \cup {None}]
          /\ [saved[p] EXCEPT ![q] = None] \in [Projects -> Jobs \cup {None}]
      BY DEF OutType
    <3> QED BY <2>3, <3>1 DEF ClaimRunsOut, OutType
  <2> QED BY <1>5, <2>1, <2>2, <2>3 DEF ClaimsNext
<1> QED BY <1>1, <1>2, <1>3, <1>4, <1>5 DEF TimeNext

\* The type invariant: rows, audit tables, stream and the memory of every
\* running call keep their types for all jobs, tasks and failures.
THEOREM TypeCorrect == Spec => []TypeOK
<1>1. Init => TypeOK
  <2> SUFFICES ASSUME Init PROVE TypeOK
    OBVIOUS
  <2>1. BlankRow \in Row
    BY DEF BlankRow, Row, Finals, Reasons, Methods, Cats, Chosen, Statuses
  <2>2. StoreType
    BY <2>1 DEF Init, InitKnowing, StoreType
  <2>3. OutType
    BY DEF Init, InitKnowing, OutType
  <2>4. CtlType
    BY BlankMemoTyped DEF Init, InitKnowing, CtlType, Labels
  <2>5. EnvType
    BY PipelineAssumption DEF Init, InitKnowing, EnvType
  <2> QED BY <2>2, <2>3, <2>4, <2>5 DEF TypeOK
<1>2. TypeOK /\ [Next]_vars => TypeOK'
  <2> SUFFICES ASSUME TypeOK, [Next]_vars
               PROVE  StoreType' /\ OutType' /\ CtlType' /\ EnvType'
    BY DEF TypeOK
  <2>1. CASE UNCHANGED vars
    BY <2>1 DEF vars, store, out, ctl, env, TypeOK, StoreType, OutType,
                CtlType, EnvType
  <2>2. ASSUME NEW t \in Tasks, TaskNext(t)
        PROVE  StoreType' /\ OutType' /\ CtlType' /\ EnvType'
    BY <2>2, CallerTyped, ClassifyTyped, DecisionTyped, ResumeTyped,
       FailureTyped DEF TaskNext, TaskStep
  <2> QED BY <2>1, <2>2, FailureTyped DEF Next
<1> QED BY <1>1, <1>2, PTL DEF Spec

-----------------------------------------------------------------------------
(* Publish before Complete. *)

\* CompleteWasPublished is not inductive alone: the call that is about to
\* write Complete has just published.
CompleteInv ==
  /\ CompleteWasPublished
  /\ \A t \in Tasks : pc[t] = "complete" => publishes[job[t]] > 0

\* Control operators other than to "complete" start no call there.
LEMMA CompleteControl ==
  ASSUME CtlType, NEW t \in Tasks, NEW label, label # "complete", NEW m,
         \/ Goto(t, label) \/ GotoWith(t, label, m) \/ Return(t) \/ Raise(t)
         \/ Drop(t)
  PROVE  \A u \in Tasks : pc'[u] = "complete" =>
           pc[u] = "complete" /\ job'[u] = job[u]
BY DEF CtlType, Goto, GotoWith, Return, Raise, Drop

\* A row update that writes another status, or none.
LEMMA StatusUpdate ==
  ASSUME StoreType, NEW j \in Jobs, NEW r \in Row, UpdateJob(j, r),
         r.status = row[j].status \/ r.status # "Complete"
  PROVE  \A i \in Jobs : row'[i].status = "Complete" =>
           row[i].status = "Complete"
BY DEF StoreType, UpdateJob

\* Every step of the pipeline keeps CompleteInv.
LEMMA CompleteStep ==
  ASSUME TypeOK, CompleteInv, NEW t \in Tasks, TaskNext(t)
  PROVE  CompleteInv'
<1> USE DEF TypeOK
<1> SUFFICES /\ \A j \in Jobs : row'[j].status = "Complete" =>
                  publishes'[j] > 0
             /\ \A u \in Tasks : pc'[u] = "complete" =>
                  publishes'[job'[u]] > 0
  BY DEF CompleteInv, CompleteWasPublished
<1> DEFINE j == job[t]
<1>1. pc[t] # "idle" => j \in Jobs /\ row[j] \in Row /\ mem[t] \in Memo
  BY RowUpdateTyped DEF CtlType
<1>2. \A u \in Tasks : pc[u] = "complete" => job[u] \in Jobs
  BY DEF CtlType
<1> USE <1>1, <1>2
<1>3. ASSUME NEW i \in Jobs, Deliver(t, i) \/ NextRow(t, i)
      PROVE  CompleteInv'
  BY <1>3 DEF Deliver, NextRow, Begin, store, out, CompleteInv,
            CompleteWasPublished, CtlType
<1>4. CASE Sweep(t)
  BY <1>4 DEF Sweep, store, out, CompleteInv, CompleteWasPublished
<1>5. CASE MarkSeen(t)
  BY <1>5, CompleteControl DEF MarkSeen, store, out, CompleteInv,
                            CompleteWasPublished
<1>6. CASE GetJob(t)
  BY <1>6, CompleteControl DEF GetJob, store, out, CompleteInv,
                            CompleteWasPublished
<1>7. CASE RereadLoser(t)
  BY <1>7, CompleteControl DEF RereadLoser, store, out, CompleteInv,
                            CompleteWasPublished
<1>8. CASE ClaimProject(t)
  BY <1>8, CompleteControl DEF ClaimProject, Decide, store, out, CompleteInv,
                            CompleteWasPublished
<1>9. CASE Arbitrate(t)
  BY <1>9, CompleteControl DEF Arbitrate, store, out, CompleteInv,
                            CompleteWasPublished
<1>10. CASE ResolveCategory(t)
  BY <1>10, CompleteControl DEF ResolveCategory, store, out, CompleteInv,
                            CompleteWasPublished
<1>11. CASE PollVerdict(t)
  BY <1>11, CompleteControl DEF PollVerdict, store, out, CompleteInv,
                            CompleteWasPublished
<1>12. CASE GuardAllow(t)
  BY <1>12, CompleteControl DEF GuardAllow, store, out, CompleteInv,
                            CompleteWasPublished
<1>13. CASE ReadVerdict(t)
  BY <1>13, CompleteControl DEF ReadVerdict, store, out, CompleteInv,
                            CompleteWasPublished
<1>14. CASE FetchFinal(t)
  BY <1>14, CompleteControl DEF FetchFinal, store, out, CompleteInv,
                            CompleteWasPublished
<1>15. CASE AcquireAndRead(t)
  BY <1>15, CompleteControl DEF AcquireAndRead, store, out, CompleteInv,
                            CompleteWasPublished
<1>16. CASE TaskRaises(t)
  BY <1>16 DEF TaskRaises, Raise, Drop, store, out, CompleteInv,
             CompleteWasPublished, CtlType
<1>17. CASE LogRescue(t)
  BY <1>17, CompleteControl DEF LogRescue, AppendGuard, out, CompleteInv,
                            CompleteWasPublished
<1>18. CASE LogGemini(t)
  BY <1>18, CompleteControl DEF LogGemini, AppendGuard, out, CompleteInv,
                            CompleteWasPublished
<1>19. CASE EvaluateGuard(t)
  BY <1>19, CompleteControl DEF EvaluateGuard, AppendGuard, out, CompleteInv,
                            CompleteWasPublished
<1>20. CASE ClaimPending(t)
  <2>1. \A u \in Tasks : pc'[u] = "complete" =>
          pc[u] = "complete" /\ job'[u] = job[u]
    BY <1>20, CompleteControl DEF ClaimPending
  <2>2. \A i \in Jobs : row'[i].status = "Complete" =>
          row[i].status = "Complete"
    BY <1>20, StatusUpdate, RowUpdateTyped DEF ClaimPending, Row, store
  <2> QED BY <1>20, <2>1, <2>2 DEF ClaimPending, out, CompleteInv,
                                CompleteWasPublished
<1>21. CASE ResumeAccepted(t)
  BY <1>21, CompleteControl DEF ResumeAccepted, UpdateJob, out, store, CompleteInv,
                            CompleteWasPublished, StoreType, Row, BlankRow
<1>22. CASE CreateJob(t)
  <2>1. \A u \in Tasks : pc'[u] = "complete" =>
          pc[u] = "complete" /\ job'[u] = job[u]
    BY <1>22, CompleteControl DEF CreateJob
  <2>2. \A i \in Jobs : row'[i].status = "Complete" =>
          row[i].status = "Complete"
    BY <1>22 DEF CreateJob, BlankRow, StoreType, store
  <2> QED BY <1>22, <2>1, <2>2 DEF CreateJob, out, CompleteInv,
                                CompleteWasPublished
<1>23. CASE RejectDuplicate(t)
  BY <1>23, CompleteControl DEF RejectDuplicate, UpdateJob, out, store, CompleteInv,
                            CompleteWasPublished, StoreType, Row, BlankRow
<1>24. CASE RecordLLMError(t)
  BY <1>24, CompleteControl DEF RecordLLMError, UpdateJob, out, store, CompleteInv,
                            CompleteWasPublished, StoreType, Row, BlankRow
<1>25. CASE Finalize(t)
  BY <1>25, CompleteControl DEF Finalize, UpdateJob, out, store, CompleteInv,
                            CompleteWasPublished, StoreType, Row, BlankRow
<1>26. CASE MarkPending(t)
  BY <1>26, CompleteControl DEF MarkPending, UpdateJob, out, store, CompleteInv,
                            CompleteWasPublished, StoreType, Row, BlankRow
<1>27. CASE Shorten(t)
  <2>1. \A u \in Tasks : pc'[u] = "complete" =>
          pc[u] = "complete" /\ job'[u] = job[u]
    BY <1>27, CompleteControl DEF Shorten
  <2>2. \A i \in Jobs : row'[i].status = "Complete" =>
          row[i].status = "Complete"
    BY <1>27, StatusUpdate, RowUpdateTyped DEF Shorten, Row, store
  <2> QED BY <1>27, <2>1, <2>2 DEF Shorten, out, CompleteInv,
                                CompleteWasPublished
<1>28. CASE ClaimGuard(t)
  <2>1. \A u \in Tasks : pc'[u] = "complete" =>
          pc[u] = "complete" /\ job'[u] = job[u]
    BY <1>28, CompleteControl DEF ClaimGuard
  <2>2. \A i \in Jobs : row'[i].status = "Complete" =>
          row[i].status = "Complete"
    BY <1>28, StatusUpdate, RowUpdateTyped DEF ClaimGuard, Row, store
  <2> QED BY <1>28, <2>1, <2>2 DEF ClaimGuard, out, CompleteInv,
                                CompleteWasPublished
<1>29. CASE Reclassify(t)
  BY <1>29, CompleteControl DEF Reclassify, UpdateJob, out, store, CompleteInv,
                            CompleteWasPublished, StoreType, Row, BlankRow
<1>30. CASE GuardFallback(t)
  BY <1>30, CompleteControl DEF GuardFallback, UpdateJob, out, store, CompleteInv,
                            CompleteWasPublished, StoreType, Row, BlankRow
<1>31. CASE Suppress(t)
  BY <1>31, CompleteControl DEF Suppress, UpdateJob, out, store, CompleteInv,
                            CompleteWasPublished, StoreType, Row, BlankRow
<1>32. CASE Publish(t)
  BY <1>32 DEF Publish, Goto, store, OutType, CompleteInv, CompleteWasPublished,
            CtlType
<1>33. CASE MarkComplete(t)
  BY <1>33, CompleteControl DEF MarkComplete, UpdateJob, out, CompleteInv,
                             CompleteWasPublished, StoreType, Row
<1>34. CASE ClaimUnsaved(t)
  BY <1>34, CompleteControl DEF ClaimUnsaved, store, CompleteInv,
                             CompleteWasPublished
<1> QED BY <1>3, <1>4, <1>5, <1>6, <1>7, <1>8, <1>9, <1>10, <1>11, <1>12, <1>13, <1>14, <1>15, <1>16, <1>17, <1>18, <1>19, <1>20, <1>21, <1>22, <1>23, <1>24, <1>25, <1>26, <1>27, <1>28, <1>29, <1>30, <1>31, <1>32, <1>33, <1>34 DEF TaskNext, TaskStep, CompleteInv,
  CompleteWasPublished

\* A Complete row's event is in the stream, for all jobs, whatever crashes.
THEOREM CompleteImpliesPublished == Spec => []CompleteWasPublished
<1>1. Init => CompleteInv
  <2> SUFFICES ASSUME Init PROVE CompleteInv
    OBVIOUS
  <2>1. \A j \in Jobs : row[j].status = ""
    BY DEF Init, InitKnowing, BlankRow
  <2>2. \A t \in Tasks : pc[t] = "idle"
    BY DEF Init, InitKnowing
  <2> QED BY <2>1, <2>2 DEF CompleteInv, CompleteWasPublished
<1>2. TypeOK /\ CompleteInv /\ [Next]_vars => CompleteInv'
  <2> SUFFICES ASSUME TypeOK, CompleteInv, [Next]_vars PROVE CompleteInv'
    OBVIOUS
  <2>1. CASE UNCHANGED vars
    BY <2>1 DEF vars, store, out, ctl, CompleteInv, CompleteWasPublished
  <2>2. ASSUME NEW t \in Tasks, TaskNext(t) PROVE CompleteInv'
    BY <2>2, CompleteStep
  <2>3. ASSUME NEW p \in Procs, Crash(p) PROVE CompleteInv'
    BY <2>3 DEF Crash, store, CompleteInv, CompleteWasPublished, TypeOK,
                CtlType
  <2>4. ASSUME NEW j \in Jobs, RetryWindowElapses(j) \/ GuardLeaseElapses(j)
        PROVE  CompleteInv'
    <3>1. \A i \in Jobs : row'[i].status = row[i].status
      <4>1. row[j] \in Row /\ row \in [Jobs -> Row]
        BY DEF TypeOK, StoreType
      <4>2. \E r \in {[row[j] EXCEPT !.waiting = FALSE],
                      [row[j] EXCEPT !.guardClaim = FALSE]} :
              row' = [row EXCEPT ![j] = r]
        BY <2>4 DEF RetryWindowElapses, GuardLeaseElapses, UpdateJob
      <4> QED BY <4>1, <4>2 DEF Row
    <3> QED BY <2>4, <3>1 DEF RetryWindowElapses, GuardLeaseElapses, out, ctl,
                              CompleteInv, CompleteWasPublished
  <2>5. CASE ClaimsNext
    BY <2>5, ClaimsOnly DEF store, ctl, CompleteInv, CompleteWasPublished
  <2> QED BY <2>1, <2>2, <2>3, <2>4, <2>5 DEF Next, TimeNext
<1>3. CompleteInv => CompleteWasPublished
  BY DEF CompleteInv
<1> QED BY TypeCorrect, <1>1, <1>2, <1>3, PTL DEF Spec

-----------------------------------------------------------------------------
(* The guard is fail-closed. *)

\* Why a published job is approved: a call is sent towards the stream only by
\* the guard's verdict, by an arbitrated row, or by a composition without a
\* guard, and a row or a call counts as arbitrated only after the LLM's
\* choice is in the gemini table, or the guard's verdict in its own.
RowApproved == \A j \in Jobs : row[j].method = "llm" => Approved(j)
Heading(t) == \/ pc[t] \in {"fetch", "publish", "reclassify"}
              \/ pc[t] = "finalize" /\ mem[t].method = "llm"
CallOK(t) ==
  /\ \A j \in Jobs : job[t] = j /\ Heading(t) => Approved(j)
  /\ pc[t] \in {"rescue", "audit"} /\ mem[t].method = "llm" =>
       mem[t].final = "Accepted" /\ mem[t].cat \in Chosen
  /\ pc[t] \in {"idle", "get_job", "create", "reread", "claim", "dedup",
                "llm"} => mem[t].method # "llm"
CallApproved == \A t \in Tasks : CallOK(t)
ApprovalInv == PublishedWasApproved /\ RowApproved /\ CallApproved

\* Both audit tables are append-only.
LEMMA AuditGrows ==
  ASSUME TypeOK, [Next]_vars, NEW j \in Jobs
  PROVE  /\ gemini[j] \subseteq gemini'[j]
         /\ \/ guardlog'[j] = guardlog[j]
            \/ \E g \in GuardRow : guardlog'[j] = Append(guardlog[j], g)
<1> USE DEF TypeOK
<1>1. CASE UNCHANGED vars
  BY <1>1 DEF vars, store
<1>2. CASE (\E p \in Procs : Crash(p)) \/ TimeNext
  BY <1>2 DEF Crash, TimeNext, RetryWindowElapses, GuardLeaseElapses,
              UpdateJob, store
<1>3. ASSUME NEW t \in Tasks, TaskNext(t)
      PROVE  /\ gemini[j] \subseteq gemini'[j]
             /\ \/ guardlog'[j] = guardlog[j]
                \/ \E g \in GuardRow : guardlog'[j] = Append(guardlog[j], g)
  <2>1. pc[t] # "idle" => job[t] \in Jobs /\ mem[t] \in Memo
    BY DEF CtlType
  <2>2. CASE LogRescue(t) \/ EvaluateGuard(t)
    <3>1. PICK g \in GuardRow : AppendGuard(job[t], g)
      <4>1. /\ mem[t].cat \in Cats /\ "full_stack" \in Cats /\ "" \in Cats
            /\ job[t] \in Jobs
        BY <2>1, <2>2 DEF LogRescue, EvaluateGuard, Memo, Cats, Chosen
      <4>2. /\ \A c \in Cats, b \in {"guard", "rescue"} :
                 [verdict |-> "notify", cat |-> c, by |-> b] \in GuardRow
            /\ [verdict |-> "do_not_notify", cat |-> "", by |-> "guard"]
                 \in GuardRow
            /\ [verdict |-> "error", cat |-> "", by |-> "guard"] \in GuardRow
        BY <4>1 DEF GuardRow
      <4>3. CASE LogRescue(t)
        BY <4>1, <4>2, <4>3 DEF LogRescue
      <4>4. CASE EvaluateGuard(t)
        BY <4>1, <4>2, <4>4 DEF EvaluateGuard
      <4> QED BY <2>2, <4>3, <4>4
    <3> QED BY <3>1 DEF AppendGuard, StoreType
  <2>3. CASE LogGemini(t)
    BY <2>1, <2>3 DEF LogGemini, StoreType
  <2>4. CASE \/ \E i \in Jobs : Deliver(t, i) \/ NextRow(t, i)
             \/ Sweep(t) \/ AcquireAndRead(t) \/ TaskRaises(t) \/ ClaimUnsaved(t)
             \/ MarkSeen(t) \/ GetJob(t) \/ RereadLoser(t) \/ ClaimProject(t)
             \/ Arbitrate(t) \/ ResolveCategory(t) \/ PollVerdict(t)
             \/ GuardAllow(t) \/ ReadVerdict(t) \/ FetchFinal(t) \/ Publish(t)
    BY <2>4 DEF Deliver, NextRow, Sweep, AcquireAndRead, TaskRaises, MarkSeen,
       GetJob, RereadLoser, ClaimProject, ClaimUnsaved, Arbitrate, ResolveCategory,
       PollVerdict, GuardAllow, ReadVerdict, FetchFinal, Publish, store
  <2>5. CASE \/ ClaimPending(t) \/ ResumeAccepted(t) \/ CreateJob(t)
             \/ RejectDuplicate(t) \/ RecordLLMError(t) \/ Finalize(t)
             \/ MarkPending(t) \/ Shorten(t) \/ ClaimGuard(t) \/ Reclassify(t)
             \/ GuardFallback(t) \/ Suppress(t) \/ MarkComplete(t)
    BY <2>5 DEF ClaimPending, ResumeAccepted, CreateJob, RejectDuplicate,
       RecordLLMError, Finalize, MarkPending, Shorten, ClaimGuard, Reclassify,
       GuardFallback, Suppress, MarkComplete, UpdateJob, store
  <2> QED BY <1>3, <2>2, <2>3, <2>4, <2>5 DEF TaskNext, TaskStep
<1>4. CASE ClaimsNext
  BY <1>4, ClaimsOnly DEF store
<1> QED BY <1>1, <1>2, <1>3, <1>4 DEF Next

\* Approval is never withdrawn.
LEMMA ApprovedStays ==
  ASSUME TypeOK, [Next]_vars, NEW j \in Jobs, Approved(j)
  PROVE  Approved(j)'
<1>1. /\ gemini[j] \subseteq gemini'[j]
      /\ \/ guardlog'[j] = guardlog[j]
         \/ \E g \in GuardRow : guardlog'[j] = Append(guardlog[j], g)
  BY AuditGrows
<1>2. guardlog[j] \in Seq(GuardRow)
  BY DEF TypeOK, StoreType
<1>3. \A i \in DOMAIN guardlog[j] : /\ i \in DOMAIN guardlog'[j]
                                    /\ guardlog'[j][i] = guardlog[j][i]
  BY <1>1, <1>2
<1> QED BY <1>1, <1>3 DEF Approved, LLMCats

\* What a step of t leaves to be shown: every other call is as it was.
LEMMA OtherCallsOK ==
  ASSUME TypeOK, CallApproved, [Next]_vars, NEW t \in Tasks, CallOK(t)',
         \A u \in Tasks \ {t} : pc'[u] = pc[u] /\ job'[u] = job[u]
                                /\ mem'[u] = mem[u]
  PROVE  CallApproved'
<1> SUFFICES ASSUME NEW u \in Tasks \ {t} PROVE CallOK(u)'
  BY DEF CallApproved
<1>1. CallOK(u) /\ pc'[u] = pc[u] /\ job'[u] = job[u] /\ mem'[u] = mem[u]
  BY DEF CallApproved
<1>2. \A j \in Jobs : Approved(j) => Approved(j)'
  BY ApprovedStays
<1> QED BY <1>1, <1>2 DEF CallOK, Heading

\* The four things a step of t has to establish.
LEMMA ApprovalFrame ==
  ASSUME TypeOK, ApprovalInv, [Next]_vars, NEW t \in Tasks, CallOK(t)',
         \A u \in Tasks \ {t} : pc'[u] = pc[u] /\ job'[u] = job[u]
                                /\ mem'[u] = mem[u],
         \A j \in Jobs : row'[j].method = "llm" =>
                           row[j].method = "llm" \/ Approved(j)',
         \A j \in Jobs : publishes'[j] > 0 =>
                           publishes[j] > 0 \/ Approved(j)'
  PROVE  ApprovalInv'
<1>1. \A j \in Jobs : Approved(j) => Approved(j)'
  BY ApprovedStays
<1>2. CallApproved'
  BY OtherCallsOK DEF ApprovalInv
<1>3. RowApproved'
  BY <1>1 DEF RowApproved, ApprovalInv
<1>4. PublishedWasApproved'
  BY <1>1 DEF PublishedWasApproved, ApprovalInv
<1> QED BY <1>2, <1>3, <1>4 DEF ApprovalInv

\* A notify verdict on record approves its job.
LEMMA NotifyApproves ==
  ASSUME StoreType, NEW j \in Jobs, Verdict(j).verdict = "notify"
  PROVE  Approved(j)
<1>1. guardlog[j] \in Seq(GuardRow)
  BY DEF StoreType
<1>2. guardlog[j] # <<>>
  BY DEF Verdict, NoVerdict
<1>3. Len(guardlog[j]) \in DOMAIN guardlog[j]
  BY <1>1, <1>2
<1> QED BY <1>2, <1>3 DEF Verdict, Approved

\* Decide leads to the LLM or to the write of a decision, and gives no job the
\* method llm.
LEMMA DecideMoves ==
  ASSUME CtlType, NEW t \in Tasks, mem[t].method # "llm", Decide(t)
  PROVE  /\ pc'[t] \in {"finalize", "llm"} /\ mem'[t].method # "llm"
         /\ \A u \in Tasks \ {t} : pc'[u] = pc[u] /\ job'[u] = job[u]
                                   /\ mem'[u] = mem[u]
<1>1. mem[t] \in Memo /\ FilterMethod(job[t]) # "llm"
  BY DEF CtlType, FilterMethod
<1>2. CASE GotoWith(t, "finalize", [mem[t] EXCEPT !.final = "Rejected"])
  BY <1>1, <1>2 DEF GotoWith, CtlType, Memo
<1>3. CASE Goto(t, "llm")
  BY <1>3 DEF Goto, CtlType
<1>4. CASE GotoWith(t, "finalize",
                    [mem[t] EXCEPT !.final = "Accepted",
                                   !.cat = FilterCat(job[t]),
                                   !.method = FilterMethod(job[t])])
  BY <1>1, <1>4 DEF GotoWith, CtlType, Memo
<1> QED BY <1>2, <1>3, <1>4 DEF Decide

\* Every step of the pipeline keeps ApprovalInv.
LEMMA ApprovalStep ==
  ASSUME TypeOK, ApprovalInv, [Next]_vars, NEW t \in Tasks, TaskNext(t)
  PROVE  ApprovalInv'
<1> DEFINE
      Others == \A u \in Tasks \ {t} : pc'[u] = pc[u] /\ job'[u] = job[u]
                                       /\ mem'[u] = mem[u]
      Rows == \A i \in Jobs : row'[i].method = "llm" =>
                                row[i].method = "llm" \/ Approved(i)'
      Streamed == \A i \in Jobs : publishes'[i] > 0 =>
                                    publishes[i] > 0 \/ Approved(i)'
<1>1. CtlType /\ StoreType /\ OutType
  BY DEF TypeOK
<1>2. /\ pc[t] # "idle" => /\ job[t] \in Jobs /\ row[job[t]] \in Row
                           /\ mem[t] \in Memo
      /\ \A i \in Jobs : Approved(i) => Approved(i)'
  BY <1>1, ApprovedStays DEF CtlType, StoreType
<1>3. CallOK(t) /\ RowApproved
  BY DEF ApprovalInv, CallApproved
<1>4. BlankMemo.method = ""
  BY DEF BlankMemo
<1>5. UNCHANGED row => Rows
  OBVIOUS
<1>6. UNCHANGED publishes => Streamed
  OBVIOUS
<1>38. ASSUME pc[t] # "idle", NEW r, UpdateJob(job[t], r),
              r.method = row[job[t]].method
       PROVE  Rows
  BY <1>38, <1>1, <1>2 DEF UpdateJob, StoreType
<1> SUFFICES CallOK(t)' /\ Others /\ Rows /\ Streamed
  BY ApprovalFrame
<1>7. ASSUME NEW i \in Jobs, Deliver(t, i) \/ NextRow(t, i)
      PROVE  CallOK(t)' /\ Others /\ Rows /\ Streamed
  <2>1. CallOK(t)' /\ Others
    BY <1>7, <1>1, <1>3 DEF Deliver, NextRow, Begin, CallOK, Heading, CtlType
  <2> QED BY <1>7, <1>5, <1>6, <2>1 DEF Deliver, NextRow, store, out
<1>8. CASE Sweep(t)
  BY <1>8, <1>2, <1>3, <1>5, <1>6 DEF Sweep, CallOK, Heading, store, out
<1>9. CASE MarkSeen(t)
  <2>1. CallOK(t)' /\ Others
    BY <1>9, <1>1, <1>2, <1>3, <1>4
       DEF MarkSeen, CallOK, Heading, Drop, CtlType
  <2> QED BY <1>9, <1>5, <1>6, <2>1 DEF MarkSeen, store, out
<1>10. CASE RereadLoser(t)
  <2>1. CallOK(t)' /\ Others
    BY <1>10, <1>1, <1>2, <1>3, <1>4
       DEF RereadLoser, CallOK, Heading, Goto, Return, GotoWith, Drop, CtlType
  <2> QED BY <1>10, <1>5, <1>6, <2>1 DEF RereadLoser, store, out
<1>11. CASE ClaimProject(t)
  <2>1. CallOK(t)' /\ Others
    <3>1. pc[t] = "dedup" /\ mem[t] \in Memo /\ mem[t].method # "llm"
      BY <1>11, <1>1, <1>3 DEF ClaimProject, CallOK, CtlType
    <3>2. CASE Goto(t, "duplicate")
      BY <3>1, <3>2, <1>1 DEF Goto, CtlType, CallOK, Heading
    <3>3. CASE Decide(t)
      BY <3>1, <3>3, <1>1, DecideMoves DEF CallOK, Heading
    <3> QED BY <1>11, <3>2, <3>3 DEF ClaimProject
  <2> QED BY <1>11, <1>5, <1>6, <2>1 DEF ClaimProject, store, out
<1>12. CASE Arbitrate(t)
  <2>1. CallOK(t)' /\ Others
    <3>1. mem[t] \in Memo /\ pc[t] = "llm" /\ mem[t].method # "llm"
      BY <1>12, <1>1, <1>3 DEF Arbitrate, CallOK, CtlType
    <3>2. CASE Goto(t, "llm_error")
      BY <3>1, <3>2, <1>1 DEF Goto, CtlType, CallOK, Heading
    <3>3. CASE GotoWith(t, "audit", [mem[t] EXCEPT !.final = "Rejected"])
      BY <3>1, <3>3, <1>1 DEF GotoWith, CtlType, CallOK, Heading, Memo
    <3>4. ASSUME NEW c \in Chosen,
                 GotoWith(t, IF mem[t].recheck THEN "rescue" ELSE "audit",
                          [mem[t] EXCEPT !.final = "Accepted", !.cat = c,
                                         !.method = "llm"])
          PROVE  CallOK(t)' /\ Others
      BY <3>1, <3>4, <1>1 DEF GotoWith, CtlType, CallOK, Heading, Memo
    <3> QED BY <1>12, <3>2, <3>3, <3>4 DEF Arbitrate
  <2> QED BY <1>12, <1>5, <1>6, <2>1 DEF Arbitrate, store, out
<1>13. CASE ResolveCategory(t)
  <2>1. CallOK(t)' /\ Others
    <3>1. pc[t] = "resolve" /\ job[t] \in Jobs
      BY <1>13, <1>1 DEF ResolveCategory, CtlType
    <3>2. ASSUME Verdict(job[t]).verdict = "notify",
                 NEW label \in {"allow", "reclassify"}, NEW m,
                 GotoWith(t, label, m)
          PROVE  CallOK(t)' /\ Others
      <4>1. Approved(job[t])
        BY <3>1, <3>2, <1>1, NotifyApproves
      <4>2. \A i \in Jobs : job[t] = i => Approved(i)'
        BY <1>2, <4>1
      <4> QED BY <3>2, <4>2, <1>1 DEF GotoWith, CtlType, CallOK, Heading
    <3>3. ASSUME NEW label \in {"allow", "claim_guard"}, Goto(t, label)
          PROVE  CallOK(t)' /\ Others
      BY <3>3, <1>1 DEF Goto, CtlType, CallOK, Heading
    <3> QED BY <1>13, <3>2, <3>3 DEF ResolveCategory
  <2> QED BY <1>13, <1>5, <1>6, <2>1 DEF ResolveCategory, store, out
<1>14. CASE PollVerdict(t)
  <2>1. CallOK(t)' /\ Others
    BY <1>14, <1>1, <1>2, <1>3, <1>4
       DEF PollVerdict, CallOK, Heading, Goto, GotoWith, CtlType
  <2> QED BY <1>14, <1>5, <1>6, <2>1 DEF PollVerdict, store, out
<1>15. CASE GuardAllow(t)
  <2>1. CallOK(t)' /\ Others
    <3>1. pc[t] = "allow" /\ job[t] \in Jobs
      BY <1>15, <1>1 DEF GuardAllow, CtlType
    <3>2. CASE Verdict(job[t]).verdict = "notify"
      <4>1. Approved(job[t])
        BY <3>1, <3>2, <1>1, NotifyApproves
      <4>2. \A i \in Jobs : job[t] = i => Approved(i)'
        BY <1>2, <4>1
      <4> QED BY <1>15, <3>2, <4>2, <1>1 DEF GuardAllow, Goto, CtlType, CallOK,
                                          Heading
    <3>3. CASE Verdict(job[t]).verdict # "notify"
      BY <1>15, <3>3, <1>1 DEF GuardAllow, Goto, CtlType, CallOK, Heading
    <3> QED BY <3>2, <3>3
  <2> QED BY <1>15, <1>5, <1>6, <2>1 DEF GuardAllow, store, out
<1>16. CASE ReadVerdict(t)
  <2>1. CallOK(t)' /\ Others
    BY <1>16, <1>1, <1>2, <1>3, <1>4
       DEF ReadVerdict, CallOK, Heading, Goto, Return, GotoWith, Drop, CtlType
  <2> QED BY <1>16, <1>5, <1>6, <2>1 DEF ReadVerdict, store, out
<1>17. CASE FetchFinal(t)
  <2>1. CallOK(t)' /\ Others
    BY <1>17, <1>1, <1>2, <1>3, <1>4
       DEF FetchFinal, CallOK, Heading, GotoWith, CtlType
  <2> QED BY <1>17, <1>5, <1>6, <2>1 DEF FetchFinal, store, out
<1>18. CASE AcquireAndRead(t)
  <2>1. CallOK(t)' /\ Others
    <3>1. pc[t] = "lock" /\ job[t] \in Jobs
      BY <1>18, <1>1 DEF AcquireAndRead, CtlType
    <3>2. CASE Return(t)
      BY <3>2, <1>1, <1>4 DEF Return, GotoWith, Drop, CtlType, CallOK, Heading
    <3>3. ASSUME NEW label \in {"fetch", "resolve", "allow"}, NEW m,
                 GotoWith(t, label, m),
                 label = "fetch" => row[job[t]].method = "llm" \/ ~GuardEnabled
          PROVE  CallOK(t)' /\ Others
      <4>1. label = "fetch" => Approved(job[t])
        BY <3>1, <3>3, <1>3 DEF RowApproved, Approved
      <4>2. label = "fetch" => \A i \in Jobs : job[t] = i => Approved(i)'
        BY <1>2, <4>1
      <4> QED BY <3>3, <4>2, <1>1 DEF GotoWith, CtlType, CallOK, Heading
    <3> QED BY <1>18, <3>2, <3>3 DEF AcquireAndRead
  <2> QED BY <1>18, <1>5, <1>6, <2>1 DEF AcquireAndRead, store, out
<1>19. CASE TaskRaises(t)
  <2>1. CallOK(t)' /\ Others
    BY <1>19, <1>1, <1>2, <1>3, <1>4
       DEF TaskRaises, CallOK, Heading, Raise, Drop, CtlType
  <2> QED BY <1>19, <1>5, <1>6, <2>1 DEF TaskRaises, store, out
<1>20. CASE GetJob(t)
  <2>1. CallOK(t)' /\ Others
    <3>1. pc[t] = "get_job" /\ mem[t].method # "llm"
      BY <1>20, <1>3 DEF GetJob, CallOK
    <3>2. CASE Return(t)
      BY <3>2, <1>1, <1>4 DEF Return, GotoWith, Drop, CtlType, CallOK, Heading
    <3>3. ASSUME NEW label \in {"create", "lock", "accepted", "dedup"},
                 Goto(t, label)
          PROVE  CallOK(t)' /\ Others
      BY <3>1, <3>3, <1>1 DEF Goto, CtlType, CallOK, Heading
    <3>4. CASE GotoWith(t, "claim", [BlankMemo EXCEPT !.recheck =
                                     (row[job[t]].reason = "Guard Fallback")])
      BY <3>4, <1>1 DEF GotoWith, BlankMemo, CtlType, CallOK, Heading
    <3> QED BY <1>20, <3>2, <3>3, <3>4 DEF GetJob
  <2> QED BY <1>20, <1>5, <1>6, <2>1 DEF GetJob, store, out
<1>21. CASE LogRescue(t)
  <2>1. CallOK(t)' /\ Others
    BY <1>21, <1>1, <1>2, <1>3, <1>4
       DEF LogRescue, CallOK, Heading, Goto, CtlType
  <2> QED BY <1>21, <1>5, <1>6, <2>1 DEF LogRescue, AppendGuard, out
<1>22. CASE LogGemini(t)
  <2>1. CallOK(t)' /\ Others
    <3>1. pc[t] = "audit" /\ job[t] \in Jobs /\ mem[t] \in Memo
      BY <1>22, <1>1 DEF LogGemini, CtlType
    <3>2. /\ pc'[t] = "finalize" /\ job'[t] = job[t] /\ mem'[t] = mem[t]
          /\ Others
      BY <1>22, <1>1 DEF LogGemini, Goto, CtlType
    <3>3. ASSUME NEW i \in Jobs, job[t] = i, mem[t].method = "llm"
          PROVE  Approved(i)'
      <4>1. mem[t].final = "Accepted" /\ mem[t].cat \in Chosen
        BY <3>1, <3>3, <1>3 DEF CallOK
      <4>2. gemini' = [gemini EXCEPT ![i] = @ \cup {mem[t].cat}]
        BY <1>22, <3>3, <4>1 DEF LogGemini
      <4>3. mem[t].cat \in gemini'[i] \cap Chosen
        BY <1>1, <3>3, <4>1, <4>2 DEF StoreType
      <4> QED BY <4>3 DEF Approved, LLMCats
    <3> QED BY <3>2, <3>3 DEF CallOK, Heading
  <2> QED BY <1>22, <1>5, <1>6, <2>1 DEF LogGemini, AppendGuard, out
<1>23. CASE EvaluateGuard(t)
  <2>1. CallOK(t)' /\ Others
    <3>1. pc[t] = "evaluate" /\ job[t] \in Jobs
      BY <1>23, <1>1 DEF EvaluateGuard, CtlType
    <3>2. ASSUME NEW c, NEW label \in {"allow", "reclassify"}, NEW m,
                 AppendGuard(job[t], [verdict |-> "notify", cat |-> c,
                                      by |-> "guard"]),
                 GotoWith(t, label, m)
          PROVE  CallOK(t)' /\ Others
      <4>1. ASSUME NEW i \in Jobs, job[t] = i PROVE Approved(i)'
        <5> DEFINE g == [verdict |-> "notify", cat |-> c, by |-> "guard"]
        <5>1. guardlog[i] \in Seq(GuardRow)
          BY <1>1 DEF StoreType
        <5>2. guardlog'[i] = Append(guardlog[i], g)
          BY <3>2, <4>1, <1>1 DEF AppendGuard, StoreType
        <5>3. /\ Len(guardlog[i]) + 1 \in DOMAIN guardlog'[i]
              /\ guardlog'[i][Len(guardlog[i]) + 1] = g
          BY <5>1, <5>2
        <5> QED BY <5>3 DEF Approved
      <4> QED BY <3>2, <4>1, <1>1 DEF GotoWith, CtlType, CallOK, Heading
    <3>3. CASE Goto(t, "allow")
      BY <3>3, <1>1 DEF Goto, CtlType, CallOK, Heading
    <3> QED BY <1>23, <3>2, <3>3 DEF EvaluateGuard
  <2> QED BY <1>23, <1>5, <1>6, <2>1 DEF EvaluateGuard, AppendGuard, out
<1>24. CASE ClaimPending(t)
  <2>1. CallOK(t)' /\ Others
    BY <1>24, <1>1, <1>2, <1>3, <1>4
       DEF ClaimPending, CallOK, Heading, Goto, Raise, Drop, CtlType
  <2>2. Rows
    BY <1>24, <1>2, <1>5, <1>38 DEF ClaimPending, Row, store
  <2> QED BY <1>24, <1>6, <2>1, <2>2 DEF ClaimPending, out
<1>25. CASE ResumeAccepted(t)
  <2>1. CallOK(t)' /\ Others
    BY <1>25, <1>1, <1>2, <1>3, <1>4
       DEF ResumeAccepted, CallOK, Heading, Goto, CtlType
  <2>2. Rows
    BY <1>25, <1>2, <1>38 DEF ResumeAccepted, Row
  <2> QED BY <1>25, <1>6, <2>1, <2>2 DEF ResumeAccepted, out
<1>26. CASE CreateJob(t)
  <2>1. CallOK(t)' /\ Others
    BY <1>26, <1>1, <1>2, <1>3, <1>4
       DEF CreateJob, CallOK, Heading, Goto, CtlType
  <2>2. Rows
    <3>1. CASE UNCHANGED store
      BY <3>1, <1>5 DEF store
    <3>2. CASE row' = [row EXCEPT ![job[t]] =
                        [BlankRow EXCEPT !.cat = FilterCat(job[t]),
                                         !.method = FilterMethod(job[t])]]
      <4>1. [BlankRow EXCEPT !.cat = FilterCat(job[t]),
                             !.method = FilterMethod(job[t])].method # "llm"
        BY DEF BlankRow, FilterMethod
      <4> QED BY <3>2, <4>1, <1>1 DEF StoreType
    <3> QED BY <1>26, <3>1, <3>2 DEF CreateJob
  <2> QED BY <1>26, <1>6, <2>1, <2>2 DEF CreateJob, out
<1>27. CASE RejectDuplicate(t)
  <2>1. CallOK(t)' /\ Others
    BY <1>27, <1>1, <1>2, <1>3, <1>4
       DEF RejectDuplicate, CallOK, Heading, Return, GotoWith, Drop, CtlType
  <2>2. Rows
    BY <1>27, <1>2, <1>38 DEF RejectDuplicate, Row
  <2> QED BY <1>27, <1>6, <2>1, <2>2 DEF RejectDuplicate, out
<1>28. CASE RecordLLMError(t)
  <2>1. CallOK(t)' /\ Others
    BY <1>28, <1>1, <1>2, <1>3, <1>4
       DEF RecordLLMError, CallOK, Heading, Raise, Drop, CtlType
  <2>2. Rows
    BY <1>28, <1>1, <1>2, <1>3 DEF RecordLLMError, UpdateJob, StoreType, Row, store, CallOK, Heading, RowApproved
  <2> QED BY <1>28, <1>6, <2>1, <2>2 DEF RecordLLMError, out
<1>29. CASE Finalize(t)
  <2>1. CallOK(t)' /\ Others
    BY <1>29, <1>1, <1>2, <1>3, <1>4
       DEF Finalize, CallOK, Heading, GotoWith, Return, Drop, CtlType
  <2>2. Rows
    BY <1>29, <1>1, <1>2, <1>3 DEF Finalize, UpdateJob, StoreType, Row, store, CallOK, Heading, RowApproved
  <2> QED BY <1>29, <1>6, <2>1, <2>2 DEF Finalize, out
<1>30. CASE MarkPending(t)
  <2>1. CallOK(t)' /\ Others
    BY <1>30, <1>1, <1>2, <1>3, <1>4
       DEF MarkPending, CallOK, Heading, Goto, CtlType
  <2>2. Rows
    BY <1>30, <1>2, <1>38 DEF MarkPending, Row
  <2> QED BY <1>30, <1>6, <2>1, <2>2 DEF MarkPending, out
<1>31. CASE Shorten(t)
  <2>1. CallOK(t)' /\ Others
    BY <1>31, <1>1, <1>2, <1>3, <1>4
       DEF Shorten, CallOK, Heading, Goto, CtlType
  <2>2. Rows
    BY <1>31, <1>2, <1>5, <1>38 DEF Shorten, Row, store
  <2> QED BY <1>31, <1>6, <2>1, <2>2 DEF Shorten, out
<1>32. CASE ClaimGuard(t)
  <2>1. CallOK(t)' /\ Others
    BY <1>32, <1>1, <1>2, <1>3, <1>4
       DEF ClaimGuard, CallOK, Heading, Goto, CtlType
  <2>2. Rows
    BY <1>32, <1>2, <1>5, <1>38 DEF ClaimGuard, Row, store
  <2> QED BY <1>32, <1>6, <2>1, <2>2 DEF ClaimGuard, out
<1>33. CASE Reclassify(t)
  <2>1. CallOK(t)' /\ Others
    BY <1>33, <1>1, <1>2, <1>3, <1>4
       DEF Reclassify, CallOK, Heading, Goto, CtlType
  <2>2. Rows
    BY <1>33, <1>1, <1>2, <1>3 DEF Reclassify, UpdateJob, StoreType, Row, store, CallOK, Heading, RowApproved
  <2> QED BY <1>33, <1>6, <2>1, <2>2 DEF Reclassify, out
<1>34. CASE GuardFallback(t)
  <2>1. CallOK(t)' /\ Others
    BY <1>34, <1>1, <1>2, <1>3, <1>4
       DEF GuardFallback, CallOK, Heading, Return, GotoWith, Drop, CtlType
  <2>2. Rows
    BY <1>34, <1>2, <1>38 DEF GuardFallback, Row
  <2> QED BY <1>34, <1>6, <2>1, <2>2 DEF GuardFallback, out
<1>35. CASE Suppress(t)
  <2>1. CallOK(t)' /\ Others
    BY <1>35, <1>1, <1>2, <1>3, <1>4
       DEF Suppress, CallOK, Heading, Return, GotoWith, Drop, CtlType
  <2>2. Rows
    BY <1>35, <1>2, <1>38 DEF Suppress, Row
  <2> QED BY <1>35, <1>6, <2>1, <2>2 DEF Suppress, out
<1>36. CASE MarkComplete(t)
  <2>1. CallOK(t)' /\ Others
    BY <1>36, <1>1, <1>2, <1>3, <1>4
       DEF MarkComplete, CallOK, Heading, Return, GotoWith, Drop, CtlType
  <2>2. Rows
    BY <1>36, <1>2, <1>38 DEF MarkComplete, Row
  <2> QED BY <1>36, <1>6, <2>1, <2>2 DEF MarkComplete, out
<1>37. CASE Publish(t)
  <2>1. CallOK(t)' /\ Others
    BY <1>37, <1>1, <1>2, <1>3, <1>4
       DEF Publish, CallOK, Heading, Goto, CtlType
  <2>2. Streamed
    BY <1>37, <1>1, <1>2, <1>3 DEF Publish, OutType, CallOK, Heading
  <2> QED BY <1>37, <1>5, <2>1, <2>2 DEF Publish, store
<1>39. CASE ClaimUnsaved(t)
  <2>1. CallOK(t)' /\ Others
    BY <1>39, <1>1, <1>2, <1>3, <1>4
       DEF ClaimUnsaved, CallOK, Heading, Raise, Drop, CtlType
  <2> QED BY <1>39, <1>5, <1>6, <2>1 DEF ClaimUnsaved, store
<1> HIDE DEF Others, Rows, Streamed
<1> QED BY <1>7, <1>8, <1>9, <1>10, <1>11, <1>12, <1>13, <1>14, <1>15, <1>16, <1>17, <1>18, <1>19, <1>20, <1>21, <1>22, <1>23, <1>24, <1>25, <1>26, <1>27, <1>28, <1>29, <1>30, <1>31, <1>32, <1>33, <1>34, <1>35, <1>36, <1>37, <1>39 DEF TaskNext, TaskStep

\* Crashes and the passing of time send no call towards the stream.
LEMMA ApprovalOutside ==
  ASSUME TypeOK, ApprovalInv, [Next]_vars,
         (\E p \in Procs : Crash(p)) \/ TimeNext
  PROVE  ApprovalInv'
<1>1. \A i \in Jobs : Approved(i) => Approved(i)'
  BY ApprovedStays
<1>2. publishes' = publishes
  BY DEF Crash, TimeNext, RetryWindowElapses, GuardLeaseElapses, out
<1>3. \A i \in Jobs : row'[i].method = row[i].method
  <2>1. CASE \E p \in Procs : Crash(p)
    BY <2>1 DEF Crash, store
  <2>2. ASSUME NEW j \in Jobs, RetryWindowElapses(j) \/ GuardLeaseElapses(j)
        PROVE  \A i \in Jobs : row'[i].method = row[i].method
    <3>1. row[j] \in Row /\ row \in [Jobs -> Row]
      BY DEF TypeOK, StoreType
    <3>2. \E r \in {[row[j] EXCEPT !.waiting = FALSE],
                    [row[j] EXCEPT !.guardClaim = FALSE]} :
            row' = [row EXCEPT ![j] = r]
      BY <2>2 DEF RetryWindowElapses, GuardLeaseElapses, UpdateJob
    <3> QED BY <3>1, <3>2 DEF Row
  <2> QED BY <2>1, <2>2 DEF TimeNext
<1>4. ASSUME NEW t \in Tasks PROVE CallOK(t)'
  <2>0. CallOK(t)
    BY DEF ApprovalInv, CallApproved
  <2>1. CASE pc'[t] = pc[t] /\ job'[t] = job[t] /\ mem'[t] = mem[t]
    BY <1>1, <2>0, <2>1 DEF CallOK, Heading
  <2>2. CASE pc'[t] = "idle" /\ mem'[t] = BlankMemo
    <3>1. BlankMemo.method = ""
      BY DEF BlankMemo
    <3>2. mem'[t].method = ""
      BY <2>2, <3>1
    <3> QED BY <2>2, <3>2 DEF CallOK, Heading
  <2> QED BY <2>1, <2>2 DEF Crash, TimeNext, RetryWindowElapses,
                            GuardLeaseElapses, ctl, TypeOK, CtlType
<1> QED BY <1>1, <1>2, <1>3, <1>4
        DEF ApprovalInv, PublishedWasApproved, RowApproved, CallApproved

\* ApprovalInv holds of every reachable state.
LEMMA ApprovalCorrect == Spec => []ApprovalInv
<1>1. Init => ApprovalInv
  <2> SUFFICES ASSUME Init PROVE ApprovalInv
    OBVIOUS
  <2>1. /\ \A j \in Jobs : row[j].method = "" /\ publishes[j] = 0
        /\ \A t \in Tasks : pc[t] = "idle" /\ mem[t].method = ""
    BY DEF Init, InitKnowing, BlankRow, BlankMemo
  <2>2. \A t \in Tasks : CallOK(t)
    BY <2>1 DEF CallOK, Heading
  <2>3. PublishedWasApproved
    <3>1. ASSUME NEW j \in Jobs PROVE ~(publishes[j] > 0)
      <4>1. publishes[j] = 0
        BY <2>1
      <4> QED BY <4>1
    <3> QED BY <3>1 DEF PublishedWasApproved
  <2>4. RowApproved
    BY <2>1 DEF RowApproved
  <2> QED BY <2>2, <2>3, <2>4 DEF ApprovalInv, CallApproved
<1>2. TypeOK /\ ApprovalInv /\ [Next]_vars => ApprovalInv'
  <2> SUFFICES ASSUME TypeOK, ApprovalInv, [Next]_vars PROVE ApprovalInv'
    OBVIOUS
  <2>1. CASE UNCHANGED vars
    BY <2>1 DEF vars, store, out, ctl, ApprovalInv, PublishedWasApproved,
       RowApproved, CallApproved, CallOK, Heading, Approved, LLMCats
  <2>2. ASSUME NEW t \in Tasks, TaskNext(t) PROVE ApprovalInv'
    BY <2>2, ApprovalStep
  <2>3. CASE ClaimsNext
    BY <2>3, ClaimsOnly DEF store, ctl, ApprovalInv, PublishedWasApproved,
       RowApproved, CallApproved, CallOK, Heading, Approved, LLMCats
  <2> QED BY <2>1, <2>2, <2>3, ApprovalOutside DEF Next
<1> QED BY TypeCorrect, <1>1, <1>2, PTL DEF Spec

\* The guard is fail-closed for any number of jobs, tasks, processes, crashes
\* and provider errors: no event is in the stream for a job that neither a
\* durable guard verdict nor a durable LLM selection let through
\* (NotificationGuardIntegration.allow, _publish_and_mark_complete).
THEOREM FailClosed == Spec => []PublishedWasApproved
<1>1. ApprovalInv => PublishedWasApproved
  BY DEF ApprovalInv
<1> QED BY ApprovalCorrect, <1>1, PTL

-----------------------------------------------------------------------------
(* What one step may touch. *)

\* Steps that decide nothing: the tables stay as they are.
Reads(t) ==
  \/ \E j \in Jobs : Deliver(t, j) \/ NextRow(t, j)
  \/ Sweep(t) \/ AcquireAndRead(t) \/ TaskRaises(t) \/ MarkSeen(t)
  \/ GetJob(t) \/ RereadLoser(t) \/ ClaimProject(t) \/ ClaimUnsaved(t)
  \/ Arbitrate(t) \/ ResolveCategory(t) \/ PollVerdict(t) \/ GuardAllow(t)
  \/ ReadVerdict(t) \/ FetchFinal(t)

\* Steps that write the job's row.
Writes(t) ==
  \/ ClaimPending(t) \/ ResumeAccepted(t) \/ CreateJob(t)
  \/ RejectDuplicate(t) \/ RecordLLMError(t) \/ Finalize(t) \/ MarkPending(t)
  \/ Shorten(t) \/ ClaimGuard(t) \/ Reclassify(t) \/ GuardFallback(t)
  \/ Suppress(t) \/ MarkComplete(t)

\* Steps that append to an audit table.
Audits(t) == LogRescue(t) \/ LogGemini(t) \/ EvaluateGuard(t)

LEMMA StepKinds ==
  ASSUME NEW t \in Tasks, TaskNext(t)
  PROVE  Reads(t) \/ Writes(t) \/ Audits(t) \/ Publish(t)
BY DEF TaskNext, TaskStep, Reads, Writes, Audits

LEMMA ReadsLeave ==
  ASSUME NEW t \in Tasks, Reads(t)
  PROVE  UNCHANGED store /\ UNCHANGED <<events, publishes>>
BY DEF Reads, Deliver, NextRow, Sweep, AcquireAndRead, TaskRaises, MarkSeen,
       GetJob, RereadLoser, ClaimProject, ClaimUnsaved, Arbitrate, ResolveCategory,
       PollVerdict, GuardAllow, ReadVerdict, FetchFinal, store, out

\* A write is to the row of the job the call works on.
LEMMA WritesOneRow ==
  ASSUME TypeOK, NEW t \in Tasks, Writes(t)
  PROVE  /\ job[t] \in Jobs
         /\ UNCHANGED <<guardlog, gemini>> /\ UNCHANGED out
         /\ \A i \in Jobs \ {job[t]} : row'[i] = row[i]
<1>1. job[t] \in Jobs /\ row \in [Jobs -> Row]
  BY DEF Writes, ClaimPending, ResumeAccepted, CreateJob, RejectDuplicate,
     RecordLLMError, Finalize, MarkPending, Shorten, ClaimGuard, Reclassify,
     GuardFallback, Suppress, MarkComplete, TypeOK, CtlType, StoreType
<1>2. UNCHANGED <<guardlog, gemini>> /\ UNCHANGED out
  BY DEF Writes, ClaimPending, ResumeAccepted, CreateJob, RejectDuplicate,
     RecordLLMError, Finalize, MarkPending, Shorten, ClaimGuard, Reclassify,
     GuardFallback, Suppress, MarkComplete, UpdateJob, store
<1>3. row' = row \/ \E r : row' = [row EXCEPT ![job[t]] = r]
  BY DEF Writes, ClaimPending, ResumeAccepted, CreateJob, RejectDuplicate,
     RecordLLMError, Finalize, MarkPending, Shorten, ClaimGuard, Reclassify,
     GuardFallback, Suppress, MarkComplete, UpdateJob, store
<1> QED BY <1>1, <1>2, <1>3

LEMMA AuditsOneLog ==
  ASSUME TypeOK, NEW t \in Tasks, Audits(t)
  PROVE  /\ job[t] \in Jobs
         /\ UNCHANGED <<created, row>> /\ UNCHANGED out
         /\ \A i \in Jobs \ {job[t]} : /\ guardlog'[i] = guardlog[i]
                                       /\ gemini'[i] = gemini[i]
<1>1. /\ job[t] \in Jobs
      /\ guardlog \in [Jobs -> Seq(GuardRow)]
      /\ gemini \in [Jobs -> SUBSET (Cats \cup {"none"})]
  BY DEF Audits, LogRescue, LogGemini, EvaluateGuard, TypeOK, CtlType,
         StoreType
<1>2. UNCHANGED <<created, row>> /\ UNCHANGED out
  BY DEF Audits, LogRescue, LogGemini, EvaluateGuard, AppendGuard, out
<1>3. /\ guardlog' = guardlog \/ \E g : guardlog' = [guardlog EXCEPT ![job[t]] = g]
      /\ gemini' = gemini \/ \E g : gemini' = [gemini EXCEPT ![job[t]] = g]
  BY DEF Audits, LogRescue, LogGemini, EvaluateGuard, AppendGuard
<1> QED BY <1>1, <1>2, <1>3

\* A step of t moves no other call.
LEMMA OthersStay ==
  ASSUME TypeOK, NEW t \in Tasks, TaskNext(t)
  PROVE  \A u \in Tasks \ {t} : /\ pc'[u] = pc[u] /\ job'[u] = job[u]
                                /\ mem'[u] = mem[u] /\ todo'[u] = todo[u]
                                /\ seen'[u] = seen[u]
<1> USE DEF TypeOK, CtlType, Goto, GotoWith, Begin, Drop, Return, Raise, Decide
<1>1. CASE Reads(t)
  BY <1>1 DEF Reads, Deliver, NextRow, Sweep, AcquireAndRead, TaskRaises,
     MarkSeen, GetJob, RereadLoser, ClaimProject, ClaimUnsaved, Arbitrate, ResolveCategory,
     PollVerdict, GuardAllow, ReadVerdict, FetchFinal
<1>2. CASE Writes(t)
  BY <1>2 DEF Writes, ClaimPending, ResumeAccepted, CreateJob,
     RejectDuplicate, RecordLLMError, Finalize, MarkPending, Shorten,
     ClaimGuard, Reclassify, GuardFallback, Suppress, MarkComplete
<1>3. CASE Audits(t) \/ Publish(t)
  BY <1>3 DEF Audits, LogRescue, LogGemini, EvaluateGuard, Publish
<1> QED BY <1>1, <1>2, <1>3, StepKinds

\* Crashes and the passing of time write no row but for its two leases.
LEMMA OutsideRows ==
  ASSUME TypeOK, (\E p \in Procs : Crash(p)) \/ TimeNext, NEW i \in Jobs
  PROVE  /\ row'[i].final = row[i].final /\ row'[i].reason = row[i].reason
         /\ row'[i].method = row[i].method /\ row'[i].cat = row[i].cat
         /\ row'[i].status = row[i].status /\ row'[i].short = row[i].short
<1>1. CASE \E p \in Procs : Crash(p)
  BY <1>1 DEF Crash, store
<1>2. ASSUME NEW j \in Jobs, RetryWindowElapses(j) \/ GuardLeaseElapses(j)
      PROVE  \E r \in {[row[j] EXCEPT !.waiting = FALSE],
                       [row[j] EXCEPT !.guardClaim = FALSE]} :
               row' = [row EXCEPT ![j] = r]
  BY <1>2 DEF RetryWindowElapses, GuardLeaseElapses, UpdateJob
<1>3. row \in [Jobs -> Row]
  BY DEF TypeOK, StoreType
<1> QED BY <1>1, <1>2, <1>3 DEF TimeNext, Row

-----------------------------------------------------------------------------
(* One job of a project is streamed. *)

\* Why: a call that has passed the cross-source check works on a job that
\* owns its project in some process, a row records such a job from its decision
\* on, and so does the list of a notification sweep.  An owner is not replaced
\* unless its claim runs out or is lost.
Owns(j) == \/ ProjectOf[j] = None
           \/ ProjectOf[j] \in lapsed
           \/ \E p \in Procs : owner[p][ProjectOf[j]] = j
OwningLabels == LockedLabels \cup {"accepted", "llm", "llm_error", "rescue",
                  "audit", "finalize", "status", "shorten", "lock"}
Decided(j) == \/ row[j].status # "" \/ row[j].final \in {"Pending", "Accepted"}
              \/ publishes[j] > 0
CallOwns(t) == /\ \A j \in Jobs : job[t] = j /\ pc[t] \in OwningLabels => Owns(j)
               /\ RoleOf[t] # "classification" => \A j \in todo[t] : Owns(j)
OwnerInv == /\ \A j \in Jobs : Decided(j) => Owns(j)
            /\ \A t \in Tasks : CallOwns(t)

\* A call claims a project nobody has, in its own process.
Takes(t) == /\ ProjectOf[job[t]] \in Projects
            /\ owner[ProcOf[t]][ProjectOf[job[t]]] = None
            /\ TakeProject(t)

\* What a step makes of the claims: a call takes one, a crash takes back those
\* that were not saved, or one runs out.
LEMMA OwnerChange ==
  ASSUME TypeOK, [Next]_vars
  PROVE  \/ UNCHANGED <<owner, lapsed>>
         \/ lapsed' = lapsed /\ \E t \in Tasks : Takes(t) /\ job[t] \in Jobs
         \/ \E p \in Procs : Crash(p)
         \/ \E p \in Procs, q \in Projects : ClaimRunsOut(p, q)
<1>1. CASE UNCHANGED vars
  BY <1>1 DEF vars, out
<1>2. ASSUME NEW t \in Tasks, TaskNext(t)
      PROVE  \/ UNCHANGED <<owner, lapsed>>
             \/ lapsed' = lapsed /\ Takes(t) /\ job[t] \in Jobs
  <2>1. CASE ClaimProject(t) \/ ClaimUnsaved(t)
    <3>1. job[t] \in Jobs
      BY <2>1 DEF ClaimProject, ClaimUnsaved, TypeOK, CtlType
    <3>2. ProjectOf[job[t]] = None \/ ProjectOf[job[t]] \in Projects
      BY <3>1 DEF Projects
    <3> QED BY <2>1, <3>1, <3>2 DEF ClaimProject, ClaimUnsaved, Takes, claims
  <2>2. CASE Reads(t) /\ ~ClaimProject(t) /\ ~ClaimUnsaved(t)
    BY <2>2 DEF Reads, Deliver, NextRow, Sweep, AcquireAndRead,
       TaskRaises, MarkSeen, GetJob, RereadLoser, Arbitrate,
       ResolveCategory, PollVerdict, GuardAllow, ReadVerdict, FetchFinal, out
  <2>3. CASE Writes(t) \/ Audits(t)
    BY <2>3, WritesOneRow, AuditsOneLog DEF out
  <2>4. CASE Publish(t)
    BY <2>4 DEF Publish, claims
  <2> QED BY <1>2, <2>1, <2>2, <2>3, <2>4, StepKinds
<1>3. CASE TimeNext
  BY <1>3 DEF TimeNext, RetryWindowElapses, GuardLeaseElapses, out
<1>4. CASE ClaimsNext
  BY <1>4 DEF ClaimsNext, SaveState
<1> QED BY <1>1, <1>2, <1>3, <1>4 DEF Next

\* What has lapsed stays so.
LEMMA LapsedGrows ==
  ASSUME TypeOK, [Next]_vars
  PROVE  lapsed \subseteq lapsed'
BY OwnerChange DEF Crash, ClaimRunsOut

\* An owner is not replaced while its claim is good.
LEMMA OwnsStays ==
  ASSUME TypeOK, [Next]_vars, NEW j \in Jobs, Owns(j)
  PROVE  Owns(j)'
<1>1. j # None /\ owner \in [Procs -> [Projects -> Jobs \cup {None}]]
      /\ saved \in [Procs -> [Projects -> Jobs \cup {None}]]
  BY PipelineAssumption DEF TypeOK, OutType
<1>2. CASE ProjectOf[j] = None
  BY <1>2 DEF Owns
<1>3. lapsed \subseteq lapsed'
  BY LapsedGrows
<1>4. CASE ProjectOf[j] \in lapsed
  BY <1>3, <1>4 DEF Owns
<1>5. ASSUME NEW p \in Procs, owner[p][ProjectOf[j]] = j, ProjectOf[j] \in Projects
      PROVE  Owns(j)'
  <2>1. CASE UNCHANGED <<owner, lapsed>>
    BY <1>5, <2>1 DEF Owns
  <2>2. ASSUME NEW t \in Tasks, Takes(t) PROVE Owns(j)'
    <3>1. CASE ProcOf[t] = p /\ ProjectOf[job[t]] = ProjectOf[j]
      BY <1>1, <1>5, <2>2, <3>1 DEF Takes
    <3>2. CASE ~(ProcOf[t] = p /\ ProjectOf[job[t]] = ProjectOf[j])
      <4>1. owner'[p][ProjectOf[j]] = owner[p][ProjectOf[j]]
        <5>1. CASE ProcOf[t] # p
          BY <1>1, <2>2, <5>1 DEF Takes, TakeProject
        <5>2. CASE ProcOf[t] = p
          <6>1. owner'[p] = [owner[p] EXCEPT ![ProjectOf[job[t]]] = job[t]]
            BY <1>1, <2>2, <5>2 DEF Takes, TakeProject
          <6>2. owner[p] \in [Projects -> Jobs \cup {None}]
            BY <1>1
          <6> QED BY <1>5, <3>2, <5>2, <6>1, <6>2
        <5> QED BY <5>1, <5>2
      <4> QED BY <1>5, <4>1 DEF Owns
    <3> QED BY <3>1, <3>2
  <2>3. ASSUME NEW r \in Procs, Crash(r) PROVE Owns(j)'
    <3>1. /\ owner' = [owner EXCEPT ![r] = saved[r]]
          /\ lapsed' = lapsed \cup {q \in Projects : saved[r][q] # owner[r][q]}
      BY <2>3 DEF Crash
    <3>2. CASE owner'[p][ProjectOf[j]] = j
      BY <3>2 DEF Owns
    <3>3. CASE owner'[p][ProjectOf[j]] # j
      <4>1. p = r /\ saved[r][ProjectOf[j]] # owner[r][ProjectOf[j]]
        BY <1>1, <1>5, <3>1, <3>3
      <4>2. ProjectOf[j] \in lapsed'
        BY <1>5, <3>1, <4>1
      <4> QED BY <4>2 DEF Owns
    <3> QED BY <3>2, <3>3
  <2>4. ASSUME NEW r \in Procs, NEW q \in Projects, ClaimRunsOut(r, q) PROVE Owns(j)'
    <3>1. /\ owner' = [owner EXCEPT ![r] = [@ EXCEPT ![q] = None]]
          /\ lapsed' = lapsed \cup {q}
      BY <2>4 DEF ClaimRunsOut
    <3>2. CASE q = ProjectOf[j]
      BY <3>1, <3>2 DEF Owns
    <3>3. CASE q # ProjectOf[j]
      <4>1. owner'[p][ProjectOf[j]] = owner[p][ProjectOf[j]]
        <5>1. owner[r] \in [Projects -> Jobs \cup {None}]
          BY <1>1
        <5> QED BY <1>1, <1>5, <3>1, <3>3, <5>1
      <4> QED BY <1>5, <4>1 DEF Owns
    <3> QED BY <3>2, <3>3
  <2> QED BY <2>1, <2>2, <2>3, <2>4, OwnerChange
<1>6. ProjectOf[j] = None \/ ProjectOf[j] \in Projects
  BY DEF Projects
<1> QED BY <1>2, <1>4, <1>5, <1>6 DEF Owns

\* Where a decision of the deterministic tier leads.
LEMMA DecideGoes ==
  ASSUME TypeOK, NEW t \in Tasks, Decide(t)
  PROVE  /\ pc'[t] \in {"finalize", "llm"}
         /\ job' = job /\ todo' = todo /\ seen' = seen
BY DEF Decide, Goto, GotoWith, TypeOK, CtlType

\* A call that ends works on nothing, and changes no list.
LEMMA ReturnEnds ==
  ASSUME TypeOK, NEW t \in Tasks, Return(t) \/ Raise(t)
  PROVE  pc'[t] \in {"idle", "mark_seen"} /\ todo' = todo
BY DEF Return, Raise, GotoWith, Drop, TypeOK, CtlType

\* A call comes to own only by the cross-source claim or by what a row says.
LEMMA OwnerCall ==
  ASSUME TypeOK, OwnerInv, [Next]_vars, NEW t \in Tasks, TaskNext(t)
  PROVE  CallOwns(t)'
<1>0. /\ pc[t] # "idle" => job[t] \in Jobs
      /\ todo[t] \subseteq Jobs
      /\ pc \in [Tasks -> Labels] /\ job \in [Tasks -> Jobs \cup {None}]
      /\ todo \in [Tasks -> SUBSET Jobs] /\ mem \in [Tasks -> Memo]
  BY DEF TypeOK, CtlType
<1>s. \A j \in Jobs : Owns(j) => Owns(j)'
  BY OwnsStays
<1>c. CallOwns(t) /\ \A j \in Jobs : Decided(j) => Owns(j)
  BY DEF OwnerInv
<1>1. ASSUME job'[t] = job[t], todo'[t] \subseteq todo[t],
             pc[t] \in OwningLabels
      PROVE  CallOwns(t)'
  BY <1>0, <1>s, <1>c, <1>1 DEF CallOwns
<1>2. ASSUME pc'[t] \notin OwningLabels, todo'[t] \subseteq todo[t]
      PROVE  CallOwns(t)'
  BY <1>0, <1>s, <1>c, <1>2 DEF CallOwns
<1>3. ASSUME job'[t] = job[t], todo'[t] \subseteq todo[t], job[t] \in Jobs,
             Decided(job[t])
      PROVE  CallOwns(t)'
  BY <1>0, <1>s, <1>c, <1>3 DEF CallOwns
<1>4. \A x \in {"idle", "mark_seen", "get_job", "create", "reread", "claim",
                "dedup", "duplicate"} : x \notin OwningLabels
  BY DEF OwningLabels, LockedLabels
<1>5. ASSUME NEW j \in Jobs, Deliver(t, j)
      PROVE  CallOwns(t)'
  BY <1>0, <1>2, <1>4, <1>5 DEF Deliver, Begin
<1>6. ASSUME NEW j \in Jobs, NextRow(t, j)
      PROVE  CallOwns(t)'
  <2>1. /\ todo'[t] \subseteq todo[t] /\ j \in todo[t] /\ job'[t] = j
        /\ RoleOf[t] = "classification" => pc'[t] = "get_job"
    BY <1>0, <1>6 DEF NextRow, Begin
  <2> QED BY <2>1, <1>0, <1>s, <1>c, <1>4 DEF CallOwns
<1>7. CASE Sweep(t)
  <2>1. /\ pc[t] = "idle" /\ pc' = pc
        /\ RoleOf[t] # "classification" =>
             \A j \in todo'[t] : j \in Jobs /\ row[j].status # ""
    BY <1>0, <1>7 DEF Sweep, DueNotifications, TypeOK, StoreType
  <2> QED BY <2>1, <1>s, <1>c, <1>4 DEF CallOwns, Decided
<1>8. CASE GetJob(t)
  <2>1. CASE Return(t)
    BY <2>1, <1>2, <1>4, ReturnEnds
  <2>2. CASE ~Return(t)
    BY <2>2, <1>8, <1>0, <1>2, <1>3, <1>4
       DEF GetJob, Goto, GotoWith, Decided
  <2> QED BY <2>1, <2>2
<1>9. CASE RereadLoser(t)
  <2>1. CASE Return(t)
    BY <2>1, <1>2, <1>4, ReturnEnds
  <2>2. CASE ~Return(t)
    BY <2>2, <1>9, <1>0, <1>3 DEF RereadLoser, Goto, Decided
  <2> QED BY <2>1, <2>2
<1>10. CASE ClaimProject(t)
  <2>1. todo' = todo /\ job' = job /\ job[t] \in Jobs
    BY <1>10, <1>0, DecideGoes DEF ClaimProject, Goto
  <2>2. CASE pc'[t] = "duplicate"
    BY <1>2, <1>4, <2>1, <2>2
  <2>3. CASE pc'[t] # "duplicate"
    <3>1. \/ ProjectOf[job[t]] = None
          \/ owner[ProcOf[t]][ProjectOf[job[t]]] = job[t] /\ UNCHANGED owner
          \/ TakeProject(t)
      BY <1>10, <2>3, <1>0 DEF ClaimProject, Goto, claims
    <3>2. ProjectOf[job[t]] = None \/ ProjectOf[job[t]] \in Projects
      BY <2>1 DEF Projects
    <3>3. ProcOf[t] \in Procs /\ owner \in [Procs -> [Projects -> Jobs \cup {None}]]
      BY DEF Procs, TypeOK, OutType
    <3>4. Owns(job[t])'
      <4>1. CASE ProjectOf[job[t]] = None
        BY <2>1, <4>1 DEF Owns
      <4>2. CASE owner[ProcOf[t]][ProjectOf[job[t]]] = job[t] /\ UNCHANGED owner
        BY <2>1, <3>3, <4>2 DEF Owns
      <4>3. CASE TakeProject(t) /\ ProjectOf[job[t]] \in Projects
        <5>1. owner'[ProcOf[t]][ProjectOf[job[t]]] = job[t]
          <6>1. owner'[ProcOf[t]] = [owner[ProcOf[t]] EXCEPT ![ProjectOf[job[t]]] = job[t]]
            BY <3>3, <4>3 DEF TakeProject
          <6>2. owner[ProcOf[t]] \in [Projects -> Jobs \cup {None}]
            BY <3>3
          <6> QED BY <4>3, <6>1, <6>2
        <5> QED BY <2>1, <3>3, <5>1 DEF Owns
      <4> QED BY <3>1, <3>2, <4>1, <4>2, <4>3
    <3> QED BY <1>0, <1>s, <1>c, <2>1, <3>4 DEF CallOwns
  <2> QED BY <2>2, <2>3
<1>11. CASE MarkSeen(t) \/ TaskRaises(t) \/ RejectDuplicate(t) \/ ClaimUnsaved(t)
  BY <1>11, <1>0, <1>2, <1>4, ReturnEnds
     DEF MarkSeen, Drop, TaskRaises, RejectDuplicate, ClaimUnsaved
<1>12. CASE ClaimPending(t) \/ CreateJob(t)
  BY <1>12, <1>0, <1>2, <1>4, ReturnEnds DEF ClaimPending, CreateJob, Goto
<1>13. CASE \/ AcquireAndRead(t) \/ Arbitrate(t) \/ RecordLLMError(t)
            \/ ResolveCategory(t) \/ PollVerdict(t) \/ GuardAllow(t)
            \/ ReadVerdict(t) \/ FetchFinal(t) \/ ResumeAccepted(t)
            \/ Finalize(t) \/ MarkPending(t) \/ Shorten(t) \/ ClaimGuard(t)
            \/ Reclassify(t) \/ GuardFallback(t) \/ Suppress(t)
            \/ MarkComplete(t) \/ Audits(t) \/ Publish(t)
  <2>1. pc[t] \in OwningLabels
    BY <1>13 DEF AcquireAndRead, Arbitrate, RecordLLMError, ResolveCategory,
       PollVerdict, GuardAllow, ReadVerdict, FetchFinal, ResumeAccepted,
       Finalize, MarkPending, Shorten, ClaimGuard, Reclassify, GuardFallback,
       Suppress, MarkComplete, Audits, LogRescue, LogGemini, EvaluateGuard,
       Publish, OwningLabels, LockedLabels
  <2>2. CASE Return(t) \/ Raise(t)
    BY <2>2, <1>2, <1>4, ReturnEnds
  <2>3. CASE ~(Return(t) \/ Raise(t))
    <3>1. todo' = todo /\ job' = job
      BY <1>13, <2>3 DEF AcquireAndRead, Arbitrate, RecordLLMError,
         ResolveCategory, PollVerdict, GuardAllow, ReadVerdict, FetchFinal,
         ResumeAccepted, Finalize, MarkPending, Shorten, ClaimGuard,
         Reclassify, GuardFallback, Suppress, MarkComplete, Audits, LogRescue,
         LogGemini, EvaluateGuard, Publish, Goto, GotoWith
    <3> QED BY <1>1, <2>1, <3>1
  <2> QED BY <2>2, <2>3
<1> QED BY <1>5, <1>6, <1>7, <1>8, <1>9, <1>10, <1>11, <1>12, <1>13
        DEF TaskNext, TaskStep, Audits

\* A row is decided only by a call that owns the project.
LEMMA OwnerRow ==
  ASSUME TypeOK, OwnerInv, [Next]_vars, NEW t \in Tasks, TaskNext(t),
         NEW j \in Jobs, Decided(j)'
  PROVE  Owns(j)'
<1>1. /\ row \in [Jobs -> Row] /\ publishes \in [Jobs -> 0..2]
      /\ pc[t] # "idle" => job[t] \in Jobs
  BY DEF TypeOK, StoreType, OutType, CtlType
<1>2. Owns(j) => Owns(j)'
  BY OwnsStays
<1>3. Decided(j) => Owns(j)
  BY DEF OwnerInv
<1>4. job[t] = j /\ pc[t] \in OwningLabels => Owns(j)
  BY DEF OwnerInv, CallOwns
<1>5. CASE row'[j] = row[j] /\ publishes'[j] = publishes[j]
  BY <1>2, <1>3, <1>5 DEF Decided
<1>6. CASE ClaimPending(t) \/ CreateJob(t) \/ RejectDuplicate(t)
  <2>1. /\ job[t] \in Jobs /\ publishes' = publishes
        /\ j # job[t] => row'[j] = row[j]
    BY <1>6, WritesOneRow DEF Writes, out
  <2>2. j = job[t] => row'[j].final \in {row[j].final, "", "Rejected"}
                      /\ row'[j].status \in {row[j].status, ""}
    <3>1. CASE ClaimPending(t)
      <4>1. \/ row' = row
            \/ row' = [row EXCEPT ![job[t]] =
                         [row[job[t]] EXCEPT !.waiting = TRUE]]
        BY <3>1 DEF ClaimPending, UpdateJob, store
      <4>2. LET r == [row[job[t]] EXCEPT !.waiting = TRUE] IN
              r.final = row[job[t]].final /\ r.status = row[job[t]].status
        BY <1>1, <2>1 DEF Row
      <4> QED BY <1>1, <2>1, <4>1, <4>2
    <3>2. CASE CreateJob(t)
      BY <1>1, <2>1, <3>2 DEF CreateJob, BlankRow, store
    <3>3. CASE RejectDuplicate(t)
      BY <1>1, <2>1, <3>3 DEF RejectDuplicate, UpdateJob, Row
    <3> QED BY <1>6, <3>1, <3>2, <3>3
  <2> QED BY <1>1, <1>2, <1>3, <2>1, <2>2 DEF Decided, Row, Finals
<1>7. CASE \/ ResumeAccepted(t) \/ RecordLLMError(t) \/ Finalize(t)
           \/ MarkPending(t) \/ Shorten(t) \/ ClaimGuard(t) \/ Reclassify(t)
           \/ GuardFallback(t) \/ Suppress(t) \/ MarkComplete(t)
  <2>1. pc[t] \in OwningLabels
    BY <1>7 DEF ResumeAccepted, RecordLLMError, Finalize, MarkPending,
       Shorten, ClaimGuard, Reclassify, GuardFallback, Suppress, MarkComplete,
       OwningLabels, LockedLabels
  <2>2. publishes' = publishes /\ (j # job[t] => row'[j] = row[j])
    BY <1>7, WritesOneRow DEF Writes, out
  <2> QED BY <1>2, <1>4, <1>5, <2>1, <2>2
<1>8. CASE Publish(t)
  <2>1. /\ pc[t] \in OwningLabels /\ row' = row /\ job[t] \in Jobs
        /\ j # job[t] => publishes'[j] = publishes[j]
    BY <1>1, <1>8 DEF Publish, OwningLabels, LockedLabels, store
  <2> QED BY <1>2, <1>4, <1>5, <2>1
<1>9. CASE Reads(t) \/ Audits(t)
  BY <1>5, <1>9, ReadsLeave, AuditsOneLog DEF store, out
<1> QED BY <1>6, <1>7, <1>8, <1>9, StepKinds DEF Writes

\* OwnerInv holds of every reachable state.
LEMMA OwnerCorrect == Spec => []OwnerInv
<1>1. Init => OwnerInv
  <2> SUFFICES ASSUME Init PROVE OwnerInv
    OBVIOUS
  <2>1. /\ \A j \in Jobs : row[j].status = "" /\ row[j].final = ""
                           /\ publishes[j] = 0
        /\ \A t \in Tasks : pc[t] = "idle" /\ todo[t] = {}
    BY DEF Init, InitKnowing, BlankRow
  <2>2. \A j \in Jobs : ~Decided(j)
    <3> SUFFICES ASSUME NEW j \in Jobs PROVE ~Decided(j)
      OBVIOUS
    <3>1. row[j].status = "" /\ row[j].final = "" /\ ~(publishes[j] > 0)
      <4>1. publishes[j] = 0
        BY <2>1
      <4>2. ~(publishes[j] > 0)
        BY <4>1
      <4> QED BY <2>1, <4>2
    <3> QED BY <3>1 DEF Decided
  <2> QED BY <2>1, <2>2 DEF OwnerInv, CallOwns, OwningLabels, LockedLabels
<1>2. TypeOK /\ OwnerInv /\ [Next]_vars => OwnerInv'
  <2> SUFFICES ASSUME TypeOK, OwnerInv, [Next]_vars PROVE OwnerInv'
    OBVIOUS
  <2>1. CASE UNCHANGED vars
    BY <2>1 DEF vars, store, out, ctl, OwnerInv, CallOwns, Decided, Owns
  <2>2. ASSUME NEW t \in Tasks, TaskNext(t) PROVE OwnerInv'
    <3>1. ASSUME NEW u \in Tasks \ {t} PROVE CallOwns(u)'
      <4>1. CallOwns(u) /\ todo[u] \subseteq Jobs
        BY DEF OwnerInv, TypeOK, CtlType
      <4>2. pc'[u] = pc[u] /\ job'[u] = job[u] /\ todo'[u] = todo[u]
        BY <2>2, OthersStay
      <4>3. \A j \in Jobs : Owns(j) => Owns(j)'
        BY OwnsStays
      <4> QED BY <4>1, <4>2, <4>3 DEF CallOwns
    <3> QED BY <2>2, <3>1, OwnerCall, OwnerRow DEF OwnerInv
  <2>3. CASE (\E p \in Procs : Crash(p)) \/ TimeNext
    <3>1. publishes' = publishes
      BY <2>3 DEF Crash, TimeNext, RetryWindowElapses, GuardLeaseElapses, out
    <3>2. \A j \in Jobs : /\ row'[j].status = row[j].status
                          /\ row'[j].final = row[j].final
      BY <2>3, OutsideRows
    <3>3. \A t \in Tasks :
            \/ pc'[t] = "idle" /\ todo'[t] = {}
            \/ pc'[t] = pc[t] /\ job'[t] = job[t] /\ todo'[t] = todo[t]
      <4>1. CASE TimeNext
        BY <4>1 DEF TimeNext, RetryWindowElapses, GuardLeaseElapses, ctl
      <4>2. ASSUME NEW p \in Procs, Crash(p), NEW t \in Tasks
            PROVE  \/ pc'[t] = "idle" /\ todo'[t] = {}
                   \/ pc'[t] = pc[t] /\ job'[t] = job[t] /\ todo'[t] = todo[t]
        <5>1. CASE ProcOf[t] = p
          BY <4>2, <5>1 DEF Crash
        <5>2. CASE ProcOf[t] # p
          BY <4>2, <5>2 DEF Crash
        <5> QED BY <5>1, <5>2
      <4> QED BY <2>3, <4>1, <4>2
    <3>4. \A j \in Jobs : Decided(j)' => Decided(j)
      BY <3>1, <3>2 DEF Decided
    <3>5. \A j \in Jobs : Owns(j) => Owns(j)'
      BY OwnsStays
    <3>6. \A t \in Tasks : CallOwns(t) /\ todo[t] \subseteq Jobs
      BY DEF OwnerInv, TypeOK, CtlType
    <3>7. \A t \in Tasks : CallOwns(t)'
      BY <3>3, <3>5, <3>6 DEF CallOwns, OwningLabels, LockedLabels
    <3> QED BY <3>4, <3>5, <3>7 DEF OwnerInv
  <2>4. CASE ClaimsNext
    <3>1. \A j \in Jobs : Decided(j)' <=> Decided(j)
      BY <2>4, ClaimsOnly DEF Decided, store
    <3>2. \A t \in Tasks : pc'[t] = pc[t] /\ job'[t] = job[t] /\ todo'[t] = todo[t]
      BY <2>4, ClaimsOnly DEF ctl
    <3>3. \A j \in Jobs : Owns(j) => Owns(j)'
      BY OwnsStays
    <3>4. \A t \in Tasks : CallOwns(t) /\ todo[t] \subseteq Jobs
      BY DEF OwnerInv, TypeOK, CtlType
    <3> QED BY <3>1, <3>2, <3>3, <3>4 DEF OwnerInv, CallOwns
  <2> QED BY <2>1, <2>2, <2>3, <2>4 DEF Next
<1> QED BY TypeCorrect, <1>1, <1>2, PTL DEF Spec

\* Of two jobs with one project at most one reaches the stream, for every number
\* of tasks, crashes and failed saves, in one process (claim_cross_source_project
\* of state.py) and as long as no claim of the project ran out, or was lost in a
\* crash before it was saved.
THEOREM OnePerProject ==
  ASSUME OneProcess
  PROVE  Spec => []OnePublishPerProject
<1>1. TypeOK /\ OwnerInv => OnePublishPerProject
  <2> SUFFICES ASSUME TypeOK, OwnerInv, NEW i \in Jobs, NEW j \in Jobs,
                      ProjectOf[i] # None, ProjectOf[i] = ProjectOf[j],
                      publishes[i] > 0, publishes[j] > 0,
                      ProjectOf[i] \notin lapsed
               PROVE  i = j
    BY DEF OnePublishPerProject
  <2>1. Owns(i) /\ Owns(j)
    BY DEF OwnerInv, Decided
  <2>2. PICK p \in Procs, q \in Procs :
          owner[p][ProjectOf[i]] = i /\ owner[q][ProjectOf[i]] = j
    BY <2>1 DEF Owns
  <2>3. p = q
    BY DEF Procs, OneProcess
  <2> QED BY <2>2, <2>3
<1> QED BY TypeCorrect, OwnerCorrect, <1>1, PTL

-----------------------------------------------------------------------------
(* The pipeline implements the delivery contract. *)

\* The contract's variables follow what a job's row, its audit rows and its
\* events say: nothing of it changes when these do not, but for what it forgets.
LEMMA ContractStutter ==
  ASSUME \A j \in Jobs : /\ Approved(j)' <=> Approved(j)
                         /\ publishes'[j] > 0 <=> publishes[j] > 0
                         /\ row'[j].status = "Complete"
                              <=> row[j].status = "Complete",
         lapsed \subseteq lapsed'
  PROVE  [C!ContractNext]_(C!cvars)
<1>1. UNCHANGED <<approvedJobs, streamedJobs, completeJobs>>
  BY DEF approvedJobs, streamedJobs, completeJobs
<1>2. C!Forget
  BY <1>1 DEF C!Forget
<1> QED BY <1>2 DEF C!ContractNext

\* A write of the row completes, reopens, or is invisible to the contract.
LEMMA WritesContract ==
  ASSUME TypeOK, CompleteWasPublished', NEW t \in Tasks, Writes(t)
  PROVE  [C!ContractNext]_(C!cvars)
<1>1. /\ job[t] \in Jobs /\ UNCHANGED <<guardlog, gemini, publishes, lapsed>>
      /\ \A i \in Jobs \ {job[t]} : row'[i] = row[i]
  BY WritesOneRow DEF out
<1>2. \A j \in Jobs : Approved(j)' <=> Approved(j)
  BY <1>1 DEF Approved, LLMCats
<1>3. CASE row'[job[t]].status = "Complete" /\ row[job[t]].status # "Complete"
  <2>1. publishes[job[t]] > 0
    BY <1>1, <1>3 DEF CompleteWasPublished
  <2>2. C!Complete(job[t])
    BY <1>1, <1>2, <1>3, <2>1
       DEF C!Complete, approvedJobs, streamedJobs, completeJobs
  <2> QED BY <1>1, <2>2 DEF C!ContractNext
<1>4. CASE row'[job[t]].status # "Complete" /\ row[job[t]].status = "Complete"
  <2>1. C!Reopen(job[t])
    BY <1>1, <1>2, <1>4
       DEF C!Reopen, approvedJobs, streamedJobs, completeJobs
  <2> QED BY <1>1, <2>1 DEF C!ContractNext
<1>5. CASE row'[job[t]].status = "Complete" <=> row[job[t]].status = "Complete"
  BY <1>1, <1>2, <1>5, ContractStutter
<1> QED BY <1>3, <1>4, <1>5

\* An audit row can only approve its job.
LEMMA AuditsContract ==
  ASSUME TypeOK, [Next]_vars, NEW t \in Tasks, Audits(t)
  PROVE  [C!ContractNext]_(C!cvars)
<1>1. /\ job[t] \in Jobs /\ UNCHANGED <<row, publishes, lapsed>>
      /\ \A i \in Jobs \ {job[t]} : /\ guardlog'[i] = guardlog[i]
                                    /\ gemini'[i] = gemini[i]
  BY AuditsOneLog DEF out
<1>2. PICK j \in Jobs : job[t] = j
  BY <1>1
<1>3. \A i \in Jobs \ {j} : Approved(i)' <=> Approved(i)
  BY <1>1, <1>2 DEF Approved, LLMCats
<1>4. CASE Approved(j)' <=> Approved(j)
  <2>1. \A i \in Jobs : Approved(i)' <=> Approved(i)
    BY <1>3, <1>4
  <2> QED BY <1>1, <2>1, ContractStutter
<1>5. CASE Approved(j)' /\ ~Approved(j)
  <2>1. approvedJobs' = approvedJobs \cup {j}
    BY <1>3, <1>5 DEF approvedJobs
  <2>2. C!Approve(j)
    BY <1>1, <2>1 DEF C!Approve, streamedJobs, completeJobs
  <2> QED BY <2>2 DEF C!ContractNext
<1>6. Approved(j) => Approved(j)'
  BY ApprovedStays
<1> QED BY <1>4, <1>5, <1>6

\* A publish streams an approved job, the only one of its project.
LEMMA PublishContract ==
  ASSUME TypeOK, ApprovalInv, OnePublishPerProject', [Next]_vars,
         NEW t \in Tasks, Publish(t)
  PROVE  [C!ContractNext]_(C!cvars)
<1>1. pc[t] = "publish" /\ job[t] \in Jobs /\ publishes \in [Jobs -> 0..2]
  BY DEF Publish, TypeOK, CtlType, OutType
<1>2. /\ UNCHANGED <<row, guardlog, gemini, lapsed>>
      /\ publishes' = [publishes EXCEPT ![job[t]] = IF @ = 0 THEN 1 ELSE 2]
  BY DEF Publish, store, claims
<1>3. \A j \in Jobs : Approved(j)' <=> Approved(j)
  BY <1>2 DEF Approved, LLMCats
<1>4. Approved(job[t])
  BY <1>1 DEF ApprovalInv, CallApproved, CallOK, Heading
<1>5. /\ publishes'[job[t]] > 0
      /\ \A i \in Jobs : publishes[i] > 0 => publishes'[i] > 0
      /\ \A i \in Jobs \ {job[t]} : publishes'[i] = publishes[i]
  BY <1>1, <1>2
<1>6. \A i \in streamedJobs :
        C!SameProject(i, job[t]) => i = job[t] \/ ProjectOf[job[t]] \in lapsed
  BY <1>1, <1>2, <1>5 DEF OnePublishPerProject, streamedJobs, C!SameProject
<1>7. streamedJobs' = streamedJobs \cup {job[t]}
  BY <1>1, <1>5 DEF streamedJobs
<1>8. C!Stream(job[t])
  BY <1>1, <1>2, <1>3, <1>4, <1>6, <1>7
     DEF C!Stream, approvedJobs, completeJobs
<1> QED BY <1>1, <1>8 DEF C!ContractNext

\* The pipeline, in one process, implements the delivery contract: whatever the
\* interleaving, the crashes and the retries, every step approves, streams,
\* completes or reopens a job as the contract allows, forgets a project's claim,
\* or is invisible to the consumers.
THEOREM ImplementsContract ==
  ASSUME OneProcess
  PROVE  Spec => Delivered
<1>1. Init => C!ContractInit
  <2> SUFFICES ASSUME Init PROVE C!ContractInit
    OBVIOUS
  <2>1. \A j \in Jobs : /\ row[j].status = "" /\ publishes[j] = 0
                        /\ guardlog[j] = <<>> /\ gemini[j] = {}
    BY DEF Init, InitKnowing, BlankRow
  <2>2. \A j \in Jobs : ~(publishes[j] > 0)
    <3> SUFFICES ASSUME NEW j \in Jobs PROVE ~(publishes[j] > 0)
      OBVIOUS
    <3>1. publishes[j] = 0
      BY <2>1
    <3> QED BY <3>1
  <2>3. \A j \in Jobs : Approved(j) <=> ~GuardEnabled
    <3> SUFFICES ASSUME NEW j \in Jobs PROVE Approved(j) <=> ~GuardEnabled
      OBVIOUS
    <3>1. guardlog[j] = <<>> /\ gemini[j] = {}
      BY <2>1
    <3>2. DOMAIN guardlog[j] = {} /\ LLMCats(j) = {}
      BY <3>1 DEF LLMCats
    <3> QED BY <3>2 DEF Approved
  <2> QED BY <2>1, <2>2, <2>3
          DEF Init, InitKnowing, C!ContractInit, approvedJobs, streamedJobs,
              completeJobs
<1>2. /\ TypeOK /\ ApprovalInv /\ CompleteWasPublished'
      /\ OnePublishPerProject' /\ [Next]_vars
      => [C!ContractNext]_(C!cvars)
  <2> SUFFICES ASSUME TypeOK, ApprovalInv, CompleteWasPublished',
                      OnePublishPerProject', [Next]_vars
               PROVE  [C!ContractNext]_(C!cvars)
    OBVIOUS
  <2>1. CASE UNCHANGED vars
    BY <2>1, ContractStutter DEF vars, store, out, Approved, LLMCats
  <2>2. ASSUME NEW t \in Tasks, TaskNext(t)
        PROVE  [C!ContractNext]_(C!cvars)
    <3>1. CASE Reads(t)
      <4>1. UNCHANGED <<row, guardlog, gemini, publishes>>
        BY <3>1, ReadsLeave DEF store
      <4> QED BY <4>1, LapsedGrows, ContractStutter DEF Approved, LLMCats
    <3> QED BY <2>2, <3>1, StepKinds, WritesContract, AuditsContract,
               PublishContract
  <2>3. CASE (\E p \in Procs : Crash(p)) \/ TimeNext
    <3>1. UNCHANGED <<guardlog, gemini, publishes>>
      BY <2>3 DEF Crash, TimeNext, RetryWindowElapses, GuardLeaseElapses,
                  UpdateJob, store, out
    <3>2. \A j \in Jobs : row'[j].status = row[j].status
      BY <2>3, OutsideRows
    <3> QED BY <3>1, <3>2, LapsedGrows, ContractStutter DEF Approved, LLMCats
  <2>4. CASE ClaimsNext
    BY <2>4, ClaimsOnly, LapsedGrows, ContractStutter DEF store, Approved, LLMCats
  <2> QED BY <2>1, <2>2, <2>3, <2>4 DEF Next
<1> QED BY TypeCorrect, ApprovalCorrect, CompleteImpliesPublished,
           OnePerProject, <1>1, <1>2, PTL DEF Spec, Delivered, C!Contract

-----------------------------------------------------------------------------
(***************************************************************************)
(* What the durable claims and the per-job lock of the pipeline protect:   *)
(* the guard's verdict, the LLM arbitration, the record of a suppression,  *)
(* and the rows a source has turned its back on.                           *)
(*                                                                         *)
(* First, action by action, what one step does to the call that takes it   *)
(* and to the job it works on; the invariants are proved from that alone.  *)
(***************************************************************************)

-----------------------------------------------------------------------------
(* What a step does to the job's row. *)

Becomes(j, final, reason, method, cat, status, waiting, guardClaim) ==
  /\ row'[j].final = final /\ row'[j].reason = reason
  /\ row'[j].method = method /\ row'[j].cat = cat
  /\ row'[j].status = status /\ row'[j].waiting = waiting
  /\ row'[j].guardClaim = guardClaim

\* The writes of a call of t that works on j, by the label it stands at.
RowMoves(t, j) ==
  LET r == row[j]  m == mem[t] IN
  /\ job[t] = j
  /\ \/ /\ pc[t] = "claim" /\ pc'[t] = "dedup"
        /\ r.final = "Pending" /\ ~r.waiting
        /\ Becomes(j, r.final, r.reason, r.method, r.cat, r.status, TRUE,
                   r.guardClaim)
     \/ /\ pc[t] \in {"accepted", "status"}
        /\ Becomes(j, r.final, r.reason, r.method, r.cat, "Pending",
                   r.waiting, r.guardClaim)
     \/ /\ pc[t] = "create" /\ pc'[t] = "dedup"
        /\ j \notin created /\ j \in created'
        /\ Becomes(j, "", "filter", FilterMethod(j), FilterCat(j), "", FALSE,
                   FALSE)
     \/ /\ pc[t] = "duplicate"
        /\ Becomes(j, "Rejected", "final", r.method, r.cat, r.status,
                   r.waiting, r.guardClaim)
     \/ /\ pc[t] = "llm_error" /\ pc'[t] = "idle"
        /\ Becomes(j, "Pending", "LLM Error", "", "", r.status, TRUE,
                   r.guardClaim)
     \/ /\ pc[t] = "finalize"
        /\ Becomes(j, m.final, "final", m.method, m.cat, r.status, r.waiting,
                   r.guardClaim)
     \/ /\ pc[t] = "shorten"
        /\ Becomes(j, r.final, r.reason, r.method, r.cat, r.status, r.waiting,
                   r.guardClaim)
     \/ /\ pc[t] = "claim_guard" /\ pc'[t] = "evaluate" /\ ~r.guardClaim
        /\ Becomes(j, r.final, r.reason, r.method, r.cat, r.status, r.waiting,
                   TRUE)
     \/ /\ pc[t] = "reclassify"
        /\ Becomes(j, r.final, r.reason, "llm", m.cat, r.status, r.waiting,
                   r.guardClaim)
     \/ /\ pc[t] = "fallback"
        /\ Becomes(j, "Pending", "Guard Fallback", r.method, r.cat, "", TRUE,
                   r.guardClaim)
     \/ /\ pc[t] = "suppress"
        /\ Becomes(j, r.final, r.reason, r.method, r.cat, "Suppressed",
                   r.waiting, r.guardClaim)
     \/ /\ pc[t] = "complete"
        /\ Becomes(j, r.final, r.reason, r.method, r.cat, "Complete",
                   r.waiting, r.guardClaim)

\* A row changes only by one of these writes.
LEMMA RowStep ==
  ASSUME TypeOK, NEW t \in Tasks, TaskNext(t), NEW j \in Jobs
  PROVE  row'[j] = row[j] \/ RowMoves(t, j)
<1>1. /\ row \in [Jobs -> Row] /\ pc \in [Tasks -> Labels]
      /\ pc[t] # "idle" => job[t] \in Jobs
  BY DEF TypeOK, StoreType, CtlType
<1>2. CASE ~Writes(t)
  BY <1>2, StepKinds, ReadsLeave, AuditsOneLog DEF Publish, store
<1>3. CASE Writes(t) /\ job[t] # j
  BY <1>3, WritesOneRow
<1>4. CASE Writes(t) /\ job[t] = j
  <2>1. row[j] \in Row
    BY <1>1
  <2>2. ASSUME NEW r, UpdateJob(job[t], r) PROVE row'[j] = r
    BY <2>2, <1>1, <1>4 DEF UpdateJob
  <2>3. CASE ClaimPending(t)
    BY <2>3, <2>1, <2>2, <1>1, <1>4
       DEF ClaimPending, Goto, store, Row, RowMoves, Becomes
  <2>4. CASE ResumeAccepted(t) \/ MarkPending(t)
    BY <2>4, <2>1, <2>2, <1>1, <1>4
       DEF ResumeAccepted, MarkPending, Row, RowMoves, Becomes
  <2>5. CASE CreateJob(t)
    <3>1. CASE j \in created
      BY <2>5, <3>1, <1>4 DEF CreateJob, store
    <3>2. CASE j \notin created
      <4>1. row'[j] = [BlankRow EXCEPT !.cat = FilterCat(j),
                                       !.method = FilterMethod(j)]
        BY <2>5, <3>2, <1>1, <1>4 DEF CreateJob
      <4>2. Becomes(j, "", "filter", FilterMethod(j), FilterCat(j), "", FALSE,
                    FALSE)
        BY <4>1 DEF BlankRow, Becomes
      <4>3. pc[t] = "create" /\ pc'[t] = "dedup" /\ j \in created'
        BY <2>5, <3>2, <1>1, <1>4 DEF CreateJob, Goto
      <4> QED BY <1>4, <3>2, <4>2, <4>3 DEF RowMoves
    <3> QED BY <3>1, <3>2
  <2>6. CASE RejectDuplicate(t)
    BY <2>6, <2>1, <2>2, <1>1, <1>4 DEF RejectDuplicate, Row, RowMoves, Becomes
  <2>7. CASE RecordLLMError(t)
    BY <2>7, <2>1, <2>2, <1>1, <1>4
       DEF RecordLLMError, Raise, Drop, Row, RowMoves, Becomes
  <2>8. CASE Finalize(t)
    BY <2>8, <2>1, <2>2, <1>1, <1>4 DEF Finalize, Row, RowMoves, Becomes
  <2>9. CASE Shorten(t)
    BY <2>9, <2>1, <2>2, <1>1, <1>4 DEF Shorten, Row, RowMoves, Becomes, store
  <2>10. CASE ClaimGuard(t)
    BY <2>10, <2>1, <2>2, <1>1, <1>4
       DEF ClaimGuard, Goto, Row, RowMoves, Becomes, store
  <2>11. CASE Reclassify(t)
    BY <2>11, <2>1, <2>2, <1>1, <1>4 DEF Reclassify, Row, RowMoves, Becomes
  <2>12. CASE GuardFallback(t)
    BY <2>12, <2>1, <2>2, <1>1, <1>4 DEF GuardFallback, Row, RowMoves, Becomes
  <2>13. CASE Suppress(t) \/ MarkComplete(t)
    BY <2>13, <2>1, <2>2, <1>1, <1>4
       DEF Suppress, MarkComplete, Row, RowMoves, Becomes
  <2> QED BY <1>4, <2>3, <2>4, <2>5, <2>6, <2>7, <2>8, <2>9, <2>10, <2>11,
             <2>12, <2>13 DEF Writes
<1> QED BY <1>2, <1>3, <1>4

-----------------------------------------------------------------------------
(* What a step does to the logs, the stream and the created rows. *)

Entries(j) == {guardlog[j][i] : i \in DOMAIN guardlog[j]}

\* The two appends, by the label of the call that makes them.
LogMoves(t, j, g) ==
  /\ job[t] = j /\ g \in GuardRow
  /\ guardlog'[j] = Append(guardlog[j], g)
  /\ \/ /\ pc[t] = "rescue" /\ pc'[t] = "audit"
        /\ g.verdict = "notify" /\ g.by = "rescue"
     \/ /\ pc[t] = "evaluate" /\ pc'[t] \in {"allow", "reclassify"}
        /\ g.by = "guard"
        /\ \/ /\ g.verdict = "notify" /\ g.cat \in {mem[t].cat, "full_stack"}
              /\ mem'[t].cat = g.cat
              /\ pc'[t] = "allow" <=> g.cat = mem[t].cat
           \/ g.verdict # "notify" /\ pc'[t] = "allow"

LEMMA LogStep ==
  ASSUME TypeOK, NEW t \in Tasks, TaskNext(t), NEW j \in Jobs
  PROVE  guardlog'[j] = guardlog[j] \/ \E g : LogMoves(t, j, g)
<1>1. /\ guardlog \in [Jobs -> Seq(GuardRow)] /\ pc \in [Tasks -> Labels]
      /\ mem \in [Tasks -> Memo]
      /\ pc[t] # "idle" => job[t] \in Jobs
  BY DEF TypeOK, StoreType, CtlType
<1>2. CASE ~(LogRescue(t) \/ EvaluateGuard(t))
  BY <1>2, StepKinds, ReadsLeave, WritesOneRow
     DEF Publish, store, Audits, LogGemini
<1>3. CASE LogRescue(t) \/ EvaluateGuard(t)
  <2>1. job[t] \in Jobs /\ mem[t] \in Memo
    BY <1>1, <1>3 DEF LogRescue, EvaluateGuard
  <2>2. ASSUME NEW g, AppendGuard(job[t], g)
        PROVE  IF job[t] = j THEN guardlog'[j] = Append(guardlog[j], g)
                             ELSE guardlog'[j] = guardlog[j]
    BY <2>2, <2>1, <1>1 DEF AppendGuard
  <2>3. ASSUME NEW v \in {"notify", "do_not_notify", "error"}, NEW c \in Cats,
               NEW b \in {"guard", "rescue"}
        PROVE  [verdict |-> v, cat |-> c, by |-> b] \in GuardRow
    BY DEF GuardRow
  <2>4. CASE LogRescue(t)
    <3> DEFINE g == [verdict |-> "notify", cat |-> mem[t].cat,
                     by |-> "rescue"]
    <3>1. g \in GuardRow
      BY <2>1, <2>3 DEF Memo
    <3>2. AppendGuard(job[t], g) /\ pc[t] = "rescue" /\ pc'[t] = "audit"
      BY <2>4, <1>1 DEF LogRescue, Goto
    <3> QED BY <2>2, <3>1, <3>2 DEF LogMoves
  <2>5. CASE EvaluateGuard(t)
    <3>1. pc[t] = "evaluate"
      BY <2>5 DEF EvaluateGuard
    <3>2. ASSUME NEW c \in {mem[t].cat, "full_stack"},
                 AppendGuard(job[t], [verdict |-> "notify", cat |-> c,
                                      by |-> "guard"]),
                 GotoWith(t, IF c = mem[t].cat THEN "allow" ELSE "reclassify",
                          [mem[t] EXCEPT !.cat = c])
          PROVE  guardlog'[j] = guardlog[j] \/ \E g : LogMoves(t, j, g)
      <4> DEFINE g == [verdict |-> "notify", cat |-> c, by |-> "guard"]
      <4>1. g \in GuardRow
        BY <2>1, <2>3 DEF Memo, Cats, Chosen
      <4>2. /\ pc'[t] = IF c = mem[t].cat THEN "allow" ELSE "reclassify"
            /\ mem'[t].cat = c
        BY <3>2, <1>1, <2>1 DEF GotoWith, Memo
      <4>3. g.verdict = "notify" /\ g.cat = c /\ g.by = "guard"
        OBVIOUS
      <4> HIDE DEF g
      <4> QED BY <2>2, <3>1, <3>2, <4>1, <4>2, <4>3 DEF LogMoves, g
    <3>3. ASSUME NEW v \in {"do_not_notify", "error"},
                 AppendGuard(job[t], [verdict |-> v, cat |-> "",
                                      by |-> "guard"]),
                 Goto(t, "allow")
          PROVE  guardlog'[j] = guardlog[j] \/ \E g : LogMoves(t, j, g)
      <4> DEFINE g == [verdict |-> v, cat |-> "", by |-> "guard"]
      <4>1. g \in GuardRow
        BY <2>3 DEF Cats
      <4>2. pc'[t] = "allow"
        BY <3>3, <1>1 DEF Goto
      <4>3. g.verdict # "notify" /\ g.by = "guard"
        OBVIOUS
      <4> HIDE DEF g
      <4> QED BY <2>2, <3>1, <3>3, <4>1, <4>2, <4>3 DEF LogMoves, g
    <3> QED BY <2>5, <3>2, <3>3 DEF EvaluateGuard
  <2> QED BY <1>3, <2>4, <2>5
<1> QED BY <1>2, <1>3

\* What an append does to what is read from the log.
LEMMA LogAppended ==
  ASSUME TypeOK, NEW j \in Jobs, NEW g \in GuardRow,
         guardlog'[j] = Append(guardlog[j], g)
  PROVE  Entries(j)' = Entries(j) \cup {g} /\ Verdict(j)' = g
<1>1. guardlog[j] \in Seq(GuardRow)
  BY DEF TypeOK, StoreType
<1>2. /\ DOMAIN guardlog'[j] = 1..Len(guardlog[j]) + 1
      /\ guardlog'[j] # <<>> /\ Len(guardlog'[j]) = Len(guardlog[j]) + 1
      /\ guardlog'[j][Len(guardlog[j]) + 1] = g
      /\ \A i \in DOMAIN guardlog[j] : guardlog'[j][i] = guardlog[j][i]
      /\ DOMAIN guardlog[j] = 1..Len(guardlog[j])
      /\ Len(guardlog[j]) \in Nat
  BY <1>1
<1>3. Entries(j)' = Entries(j) \cup {g}
  BY <1>2 DEF Entries
<1>4. Verdict(j)' = g
  BY <1>2 DEF Verdict
<1> QED BY <1>3, <1>4

LEMMA LogKept ==
  ASSUME NEW j \in Jobs, guardlog'[j] = guardlog[j]
  PROVE  Entries(j)' = Entries(j) /\ Verdict(j)' = Verdict(j)
BY DEF Entries, Verdict

\* What is read from the log, in terms of its entries.
LEMMA LogRead ==
  ASSUME TypeOK, NEW j \in Jobs
  PROVE  /\ Entries(j) \subseteq GuardRow
         /\ Rejected(j) <=> \E g \in Entries(j) : g.verdict = "do_not_notify"
         /\ NotifyCats(j) =
              {g.cat : g \in {h \in Entries(j) : h.verdict = "notify"}}
         /\ Entries(j) = {} => Verdict(j) = NoVerdict
         /\ Entries(j) # {} => Verdict(j) \in Entries(j)
<1>1. guardlog[j] \in Seq(GuardRow)
  BY DEF TypeOK, StoreType
<1>2. Entries(j) \subseteq GuardRow
  BY <1>1 DEF Entries
<1>3. Rejected(j) <=> \E g \in Entries(j) : g.verdict = "do_not_notify"
  BY DEF Rejected, Entries
<1>4. NotifyCats(j) = {g.cat : g \in {h \in Entries(j) : h.verdict = "notify"}}
  BY DEF NotifyCats, Entries
<1>5. CASE guardlog[j] = <<>>
  <2>1. Entries(j) = {} /\ Verdict(j) = NoVerdict
    BY <1>5 DEF Entries, Verdict
  <2> QED BY <1>2, <1>3, <1>4, <2>1
<1>6. CASE guardlog[j] # <<>>
  <2>1. Len(guardlog[j]) \in DOMAIN guardlog[j]
    BY <1>1, <1>6
  <2>2. Verdict(j) \in Entries(j)
    BY <1>6, <2>1 DEF Verdict, Entries
  <2> QED BY <1>2, <1>3, <1>4, <2>2
<1> QED BY <1>5, <1>6

\* The two calls do not go on without their append.
LEMMA LogAdvance ==
  ASSUME TypeOK, NEW t \in Tasks, TaskNext(t), NEW j \in Jobs, job[t] = j,
         \/ pc[t] = "rescue" /\ pc'[t] = "audit"
         \/ pc[t] = "evaluate" /\ pc'[t] \in {"allow", "reclassify"}
  PROVE  \E g : LogMoves(t, j, g)
<1>1. pc'[t] # "idle"
  OBVIOUS
<1>2. LogRescue(t) \/ EvaluateGuard(t)
  BY <1>1 DEF TaskNext, TaskStep, Deliver, NextRow, Sweep, AcquireAndRead,
     MarkSeen, GetJob, ClaimPending, ResumeAccepted, CreateJob, RereadLoser,
     ClaimProject, ClaimUnsaved, RejectDuplicate, Arbitrate, RecordLLMError, LogGemini,
     Finalize, MarkPending, Shorten, ResolveCategory, ClaimGuard, PollVerdict,
     Reclassify, GuardAllow, ReadVerdict, GuardFallback, Suppress, FetchFinal,
     Publish, MarkComplete, TaskRaises, Raise, Drop, TypeOK, CtlType
<1>3. guardlog \in [Jobs -> Seq(GuardRow)] /\ guardlog[j] \in Seq(GuardRow)
  BY DEF TypeOK, StoreType
<1>4. \E g : guardlog'[j] = Append(guardlog[j], g)
  BY <1>2, <1>3 DEF LogRescue, EvaluateGuard, AppendGuard
<1>5. guardlog'[j] # guardlog[j]
  <2>1. PICK g : guardlog'[j] = Append(guardlog[j], g)
    BY <1>4
  <2>2. Len(guardlog'[j]) = Len(guardlog[j]) + 1 /\ Len(guardlog[j]) \in Nat
    BY <1>3, <2>1
  <2> QED BY <2>2
<1> QED BY <1>5, LogStep

LEMMA GeminiStep ==
  ASSUME TypeOK, NEW t \in Tasks, TaskNext(t), NEW j \in Jobs
  PROVE  \/ gemini'[j] = gemini[j]
         \/ /\ job[t] = j /\ pc[t] = "audit"
            /\ gemini'[j] = gemini[j] \cup
                 {IF mem[t].final = "Rejected" THEN "none" ELSE mem[t].cat}
<1>1. CASE ~LogGemini(t)
  BY <1>1, StepKinds, ReadsLeave, WritesOneRow
     DEF Publish, store, Audits, LogRescue, EvaluateGuard, AppendGuard
<1>2. CASE LogGemini(t)
  BY <1>2 DEF LogGemini, TypeOK, StoreType
<1> QED BY <1>1, <1>2

LEMMA StreamStep ==
  ASSUME TypeOK, NEW t \in Tasks, TaskNext(t), NEW j \in Jobs
  PROVE  \/ publishes'[j] = publishes[j] /\ events'[j] = events[j]
         \/ /\ job[t] = j /\ pc[t] = "publish"
            /\ events'[j] = events[j] \cup
                 {[cat |-> mem[t].cat, short |-> mem[t].short]}
<1>1. CASE ~Publish(t)
  BY <1>1, StepKinds, ReadsLeave, WritesOneRow, AuditsOneLog DEF out
<1>2. CASE Publish(t)
  BY <1>2 DEF Publish, TypeOK, OutType
<1> QED BY <1>1, <1>2

LEMMA CreatedStep ==
  ASSUME TypeOK, NEW t \in Tasks, TaskNext(t)
  PROVE  \/ created' = created
         \/ pc[t] = "create" /\ created' = created \cup {job[t]}
<1>1. CASE ~CreateJob(t)
  BY <1>1, StepKinds, ReadsLeave, AuditsOneLog
     DEF Publish, store, Writes, UpdateJob, ClaimPending, ResumeAccepted,
         RejectDuplicate, RecordLLMError, Finalize, MarkPending, Shorten,
         ClaimGuard, Reclassify, GuardFallback, Suppress, MarkComplete
<1>2. CASE CreateJob(t)
  BY <1>2 DEF CreateJob, store
<1> QED BY <1>1, <1>2

-----------------------------------------------------------------------------
(* What a step does to the call that takes it. *)

\* The call goes on to a label with what it now remembers.
With(t, label, recheck, final, method, cat) ==
  /\ pc'[t] = label /\ job'[t] = job[t]
  /\ mem'[t].recheck = recheck /\ mem'[t].final = final
  /\ mem'[t].method = method /\ mem'[t].cat = cat
To(t, label) == With(t, label, mem[t].recheck, mem[t].final, mem[t].method,
                     mem[t].cat)
Stops(t) == pc'[t] = "idle" /\ job'[t] = None /\ mem'[t] = BlankMemo
Marks(t) == /\ RoleOf[t] = "source"
            /\ pc'[t] = "mark_seen" /\ job'[t] = job[t] /\ mem'[t] = BlankMemo

\* An idle task takes up a job, or a list of jobs.
StartMoves(t) ==
  /\ pc[t] = "idle"
  /\ \/ /\ RoleOf[t] = "source" /\ job'[t] \in Delivers[t]
        /\ pc'[t] = "get_job" /\ mem'[t] = mem[t] /\ todo'[t] = todo[t]
     \/ /\ job'[t] \in todo[t] /\ todo'[t] \subseteq todo[t]
        /\ pc'[t] = IF RoleOf[t] = "classification" THEN "get_job" ELSE "lock"
        /\ mem'[t] = mem[t]
     \/ /\ RoleOf[t] # "source" /\ UNCHANGED <<pc, job, mem>>
        /\ todo'[t] = IF RoleOf[t] = "classification"
                      THEN DueClassifications ELSE DueNotifications

\* A call of a source ends normally.
EndMoves(t) ==
  LET r == row[job[t]] IN
  /\ Marks(t)
  /\ \/ pc[t] = "get_job" /\ job[t] \notin created /\ job[t] \in Legacy
     \/ pc[t] = "get_job" /\ r.status = "" /\ r.final = "Rejected"
     \/ pc[t] = "reread"
     \/ pc[t] = "duplicate" /\ row'[job[t]].final = "Rejected"
     \/ /\ pc[t] = "finalize" /\ mem[t].final # "Accepted"
        /\ row'[job[t]].final = mem[t].final
     \/ pc[t] = "lock" /\ r.status \in {"Complete", "Suppressed"}
     \/ pc[t] \in {"verdict", "fallback", "suppress", "complete"}

\* process_job up to the cross-source check.
EntryMoves(t) ==
  LET r == row[job[t]] IN
  \/ pc[t] = "get_job" /\ job[t] \notin created /\ To(t, "create")
  \/ /\ pc[t] = "get_job" /\ job[t] \in created
     /\ \/ r.status # "" /\ To(t, "lock")
        \/ /\ r.status = "" /\ r.final = "Pending"
           /\ With(t, "claim", r.reason = "Guard Fallback", "", "", "")
        \/ r.status = "" /\ r.final = "Accepted" /\ To(t, "accepted")
        \/ r.status = "" /\ r.final = "" /\ To(t, "dedup")
  \/ /\ pc[t] = "claim" /\ r.final = "Pending" /\ ~r.waiting
     /\ row'[job[t]].waiting /\ To(t, "dedup")
  \/ pc[t] = "accepted" /\ row'[job[t]].status = "Pending" /\ To(t, "lock")
  \/ /\ pc[t] = "create" /\ job[t] \notin created /\ job[t] \in created'
     /\ To(t, "dedup")
  \/ pc[t] = "create" /\ job[t] \in created /\ To(t, "reread")
  \/ pc[t] = "reread" /\ r.status # "" /\ To(t, "lock")

\* The classification attempt.
AttemptMoves(t) ==
  LET j == job[t]  m == mem[t] IN
  \/ pc[t] = "dedup" /\ To(t, "duplicate")
  \/ /\ pc[t] = "dedup" /\ shape[j] = "none"
     /\ With(t, "finalize", m.recheck, "Rejected", m.method, m.cat)
  \/ /\ pc[t] = "dedup" /\ (shape[j] = "ambiguous" \/ m.recheck)
     /\ shape[j] # "none" /\ To(t, "llm")
  \/ /\ pc[t] = "dedup" /\ shape[j] \in {"direct", "tiebreak"} /\ ~m.recheck
     /\ With(t, "finalize", m.recheck, "Accepted", FilterMethod(j),
             FilterCat(j))
  \/ pc[t] = "llm" /\ To(t, "llm_error")
  \/ /\ pc[t] = "llm"
     /\ With(t, "audit", m.recheck, "Rejected", m.method, m.cat)
  \/ /\ pc[t] = "llm"
     /\ \E c \in Chosen : With(t, IF m.recheck THEN "rescue" ELSE "audit",
                               m.recheck, "Accepted", "llm", c)
  \/ pc[t] = "rescue" /\ To(t, "audit")
  \/ /\ pc[t] = "audit" /\ To(t, "finalize")
     /\ gemini'[j] = gemini[j] \cup
                        {IF m.final = "Rejected" THEN "none" ELSE m.cat}
  \/ /\ pc[t] = "finalize" /\ m.final = "Accepted"
     /\ row'[j].final = "Accepted"
     /\ pc'[t] = "status" /\ job'[t] = job[t] /\ mem'[t] = BlankMemo
  \/ pc[t] = "status" /\ row'[j].status = "Pending" /\ To(t, "shorten")
  \/ pc[t] = "shorten" /\ To(t, "lock")

\* The notification workflow under the per-job lock.
LockedMoves(t) ==
  LET j == job[t]  r == row[job[t]]  m == mem[t]  v == Verdict(job[t]) IN
  \/ /\ pc[t] = "lock" /\ LockFree(t)
     /\ r.status \notin {"Complete", "Suppressed"}
     /\ With(t, IF r.method = "llm" \/ ~GuardEnabled THEN "fetch"
                ELSE IF r.cat # "" THEN "resolve" ELSE "allow",
             FALSE, "", r.method, r.cat)
  \/ /\ pc[t] = "resolve" /\ v.verdict = "notify"
     /\ \E c \in {IF v.cat = "" THEN m.cat ELSE v.cat} :
          With(t, IF c = m.cat THEN "allow" ELSE "reclassify",
               m.recheck, m.final, m.method, c)
  \/ pc[t] = "resolve" /\ v.verdict = "do_not_notify" /\ To(t, "allow")
  \/ /\ pc[t] = "resolve" /\ v.verdict \notin {"notify", "do_not_notify"}
     /\ To(t, "claim_guard")
  \/ /\ pc[t] = "claim_guard" /\ ~r.guardClaim /\ row'[j].guardClaim
     /\ To(t, "evaluate")
  \/ pc[t] = "claim_guard" /\ r.guardClaim /\ To(t, "poll")
  \/ /\ pc[t] = "poll"
     /\ \/ v.verdict = "notify" /\ v.cat # ""
           /\ With(t, "allow", m.recheck, m.final, m.method, v.cat)
        \/ To(t, "allow")
  \/ /\ pc[t] = "evaluate"
     /\ \/ \E c \in {m.cat, "full_stack"} :
             With(t, IF c = m.cat THEN "allow" ELSE "reclassify",
                  m.recheck, m.final, m.method, c)
        \/ To(t, "allow")
  \/ pc[t] = "reclassify" /\ row'[j].cat = m.cat /\ To(t, "allow")
  \/ pc[t] = "allow" /\ v.verdict = "notify" /\ To(t, "fetch")
  \/ pc[t] = "allow" /\ v.verdict # "notify" /\ To(t, "verdict")
  \/ /\ pc[t] = "verdict" /\ v.verdict = "do_not_notify"
     /\ To(t, IF m.method = "keyword_direct_tiebreak" THEN "fallback"
              ELSE "suppress")
  \/ /\ pc[t] = "fetch"
     /\ With(t, "publish", m.recheck, m.final, m.method, r.cat)
  \/ pc[t] = "publish" /\ To(t, "complete")

CallMoves(t) ==
  \/ StartMoves(t)
  \/ /\ pc[t] # "idle" /\ job[t] \in Jobs /\ todo'[t] = todo[t]
     /\ \/ Stops(t) \/ EndMoves(t) \/ EntryMoves(t) \/ AttemptMoves(t)
        \/ LockedMoves(t)

\* The control operators, on the call of t alone.
LEMMA ControlPoint ==
  ASSUME TypeOK, NEW t \in Tasks
  PROVE  /\ mem[t] \in Memo
         /\ \A label : Goto(t, label) =>
              pc'[t] = label /\ job'[t] = job[t] /\ mem'[t] = mem[t]
         /\ \A label, m : GotoWith(t, label, m) =>
              pc'[t] = label /\ job'[t] = job[t] /\ mem'[t] = m
         /\ Return(t) => Marks(t) \/ Stops(t)
         /\ Raise(t) => Stops(t)
         /\ \A label : Goto(t, label) => todo'[t] = todo[t]
         /\ \A label, m : GotoWith(t, label, m) => todo'[t] = todo[t]
         /\ Return(t) \/ Raise(t) \/ Drop(t) => todo'[t] = todo[t]
         /\ Drop(t) => Stops(t)
BY DEF TypeOK, CtlType, Goto, GotoWith, Return, Raise, Drop, Marks, Stops

\* Every step of a call is one of these moves.
LEMMA CallStep ==
  ASSUME TypeOK, NEW t \in Tasks, TaskNext(t)
  PROVE  CallMoves(t)
<1>t. /\ pc \in [Tasks -> Labels] /\ job \in [Tasks -> Jobs \cup {None}]
      /\ mem \in [Tasks -> Memo] /\ todo \in [Tasks -> SUBSET Jobs]
      /\ row \in [Jobs -> Row] /\ shape \in [Jobs -> Shapes]
      /\ Shapes \subseteq AllShapes /\ mem[t] \in Memo
      /\ pc[t] # "idle" => job[t] \in Jobs /\ row[job[t]] \in Row
  BY PipelineAssumption DEF TypeOK, StoreType, CtlType, EnvType
<1>c. /\ \A label : Goto(t, label) =>
           pc'[t] = label /\ job'[t] = job[t] /\ mem'[t] = mem[t]
      /\ \A label, m : GotoWith(t, label, m) =>
           pc'[t] = label /\ job'[t] = job[t] /\ mem'[t] = m
      /\ Return(t) => Marks(t) \/ Stops(t)
      /\ Raise(t) => Stops(t)
      /\ \A label : Goto(t, label) => todo'[t] = todo[t]
      /\ \A label, m : GotoWith(t, label, m) => todo'[t] = todo[t]
      /\ Return(t) \/ Raise(t) \/ Drop(t) => todo'[t] = todo[t]
      /\ Drop(t) => Stops(t)
  BY ControlPoint
<1>w. ASSUME pc[t] # "idle", NEW r, UpdateJob(job[t], r)
      PROVE  row'[job[t]] = r
  BY <1>w, <1>t DEF UpdateJob
<1>g. ASSUME NEW label, Goto(t, label) PROVE To(t, label)
  BY <1>g, <1>c DEF To, With
<1>k. ASSUME NEW label, NEW c, GotoWith(t, label, [mem[t] EXCEPT !.cat = c])
      PROVE  With(t, label, mem[t].recheck, mem[t].final, mem[t].method, c)
  BY <1>k, <1>t, <1>c DEF With, Memo
<1>1. ASSUME NEW j \in Jobs, Deliver(t, j) PROVE CallMoves(t)
  BY <1>1, <1>t DEF Deliver, Begin, CallMoves, StartMoves
<1>2. ASSUME NEW j \in Jobs, NextRow(t, j) PROVE CallMoves(t)
  BY <1>2, <1>t DEF NextRow, Begin, CallMoves, StartMoves
<1>3. CASE Sweep(t)
  BY <1>3, <1>t DEF Sweep, CallMoves, StartMoves
<1>4. CASE GetJob(t)
  <2>1. pc[t] = "get_job" /\ job[t] \in Jobs /\ row[job[t]] \in Row
    BY <1>4, <1>t DEF GetJob
  <2>2. ASSUME GotoWith(t, "claim", [BlankMemo EXCEPT
                 !.recheck = (row[job[t]].reason = "Guard Fallback")])
        PROVE  /\ With(t, "claim", row[job[t]].reason = "Guard Fallback",
                       "", "", "")
               /\ todo'[t] = todo[t]
    <3>1. /\ pc'[t] = "claim" /\ job'[t] = job[t] /\ todo'[t] = todo[t]
          /\ mem'[t] = [BlankMemo EXCEPT
                          !.recheck = (row[job[t]].reason = "Guard Fallback")]
      BY <2>2, <1>c
    <3> QED BY <3>1 DEF With, BlankMemo
  <2>3. \/ EndMoves(t) \/ EntryMoves(t) \/ Stops(t)
    BY <1>4, <1>c, <1>g, <2>1, <2>2 DEF GetJob, EntryMoves, EndMoves
  <2>4. todo'[t] = todo[t]
    BY <1>4, <1>c, <2>2 DEF GetJob
  <2> QED BY <2>1, <2>3, <2>4 DEF CallMoves
<1>5. CASE ClaimPending(t)
  BY <1>5, <1>t, <1>c, <1>w DEF ClaimPending, CallMoves, EntryMoves, With,
     To, Memo, Row
<1>6. CASE ResumeAccepted(t)
  BY <1>6, <1>t, <1>c, <1>w DEF ResumeAccepted, CallMoves, EntryMoves, With,
     To, Memo, Row
<1>7. CASE CreateJob(t)
  BY <1>7, <1>t, <1>c, <1>w DEF CreateJob, CallMoves, EntryMoves, With, To,
     Memo, Row
<1>8. CASE RereadLoser(t)
  BY <1>8, <1>t, <1>c, <1>w DEF RereadLoser, CallMoves, EntryMoves,
     EndMoves, With, To, Memo, Row
<1>9. CASE ClaimProject(t)
  <2>1. pc[t] = "dedup" /\ job[t] \in Jobs /\ shape[job[t]] \in AllShapes
    BY <1>9, <1>t DEF ClaimProject
  <2>2. CASE Goto(t, "duplicate")
    BY <2>1, <2>2, <1>c, <1>g DEF CallMoves, AttemptMoves
  <2>3. CASE Decide(t)
    <3>1. ASSUME shape[job[t]] = "none",
                 GotoWith(t, "finalize", [mem[t] EXCEPT !.final = "Rejected"])
          PROVE  CallMoves(t)
      <4>1. With(t, "finalize", mem[t].recheck, "Rejected", mem[t].method,
                 mem[t].cat)
        BY <3>1, <1>c, <1>t DEF With, Memo
      <4> QED BY <2>1, <3>1, <4>1, <1>c DEF CallMoves, AttemptMoves
    <3>2. ASSUME shape[job[t]] # "none", Goto(t, "llm"),
                 shape[job[t]] = "ambiguous" \/ mem[t].recheck
          PROVE  CallMoves(t)
      BY <2>1, <3>2, <1>c, <1>g DEF CallMoves, AttemptMoves
    <3>3. ASSUME shape[job[t]] \in {"direct", "tiebreak"}, ~mem[t].recheck,
                 GotoWith(t, "finalize", [mem[t] EXCEPT !.final = "Accepted",
                   !.cat = FilterCat(job[t]), !.method = FilterMethod(job[t])])
          PROVE  CallMoves(t)
      <4>1. With(t, "finalize", mem[t].recheck, "Accepted",
                 FilterMethod(job[t]), FilterCat(job[t]))
        <5>1. /\ pc'[t] = "finalize" /\ job'[t] = job[t]
              /\ mem'[t] = [mem[t] EXCEPT !.final = "Accepted",
                  !.cat = FilterCat(job[t]), !.method = FilterMethod(job[t])]
          BY <3>3, <1>c
        <5> QED BY <5>1, <1>t DEF With, Memo
      <4> QED BY <2>1, <3>3, <4>1, <1>c DEF CallMoves, AttemptMoves
    <3> QED BY <2>1, <2>3, <3>1, <3>2, <3>3 DEF Decide, AllShapes
  <2> QED BY <1>9, <2>2, <2>3 DEF ClaimProject
<1>10. CASE RejectDuplicate(t)
  <2>1. /\ pc[t] = "duplicate" /\ job[t] \in Jobs /\ todo'[t] = todo[t]
        /\ Marks(t) \/ Stops(t)
    BY <1>10, <1>t, <1>c DEF RejectDuplicate
  <2>2. row'[job[t]].final = "Rejected"
    BY <1>10, <1>t, <1>w, <2>1 DEF RejectDuplicate, Row
  <2> QED BY <2>1, <2>2 DEF CallMoves, EndMoves
<1>11. CASE Arbitrate(t)
  <2>1. pc[t] = "llm" /\ job[t] \in Jobs
    BY <1>11, <1>t DEF Arbitrate
  <2>2. CASE Goto(t, "llm_error")
    BY <2>1, <2>2, <1>c, <1>g DEF CallMoves, AttemptMoves
  <2>3. CASE GotoWith(t, "audit", [mem[t] EXCEPT !.final = "Rejected"])
    <3>1. With(t, "audit", mem[t].recheck, "Rejected", mem[t].method,
               mem[t].cat)
      BY <2>3, <1>c, <1>t DEF With, Memo
    <3> QED BY <2>1, <2>3, <3>1, <1>c DEF CallMoves, AttemptMoves
  <2>4. ASSUME NEW c \in Chosen,
               GotoWith(t, IF mem[t].recheck THEN "rescue" ELSE "audit",
                        [mem[t] EXCEPT !.final = "Accepted", !.cat = c,
                                       !.method = "llm"])
        PROVE  CallMoves(t)
    <3>1. With(t, IF mem[t].recheck THEN "rescue" ELSE "audit",
               mem[t].recheck, "Accepted", "llm", c)
      <4>1. /\ pc'[t] = (IF mem[t].recheck THEN "rescue" ELSE "audit")
            /\ job'[t] = job[t]
            /\ mem'[t] = [mem[t] EXCEPT !.final = "Accepted", !.cat = c,
                                        !.method = "llm"]
        BY <2>4, <1>c
      <4> QED BY <4>1, <1>t DEF With, Memo
    <3> QED BY <2>1, <2>4, <3>1, <1>c DEF CallMoves, AttemptMoves
  <2> QED BY <1>11, <2>2, <2>3, <2>4 DEF Arbitrate
<1>12. CASE RecordLLMError(t)
  BY <1>12, <1>t, <1>c, <1>w DEF RecordLLMError, CallMoves, Memo, Row
<1>13. CASE LogRescue(t)
  BY <1>13, <1>t, <1>c, <1>w DEF LogRescue, CallMoves, AttemptMoves, With,
     To, Memo, Row
<1>14. CASE LogGemini(t)
  <2>1. /\ pc[t] = "audit" /\ job[t] \in Jobs /\ todo'[t] = todo[t]
        /\ To(t, "finalize")
    BY <1>14, <1>t, <1>c, <1>g DEF LogGemini
  <2>2. gemini'[job[t]] = gemini[job[t]] \cup
          {IF mem[t].final = "Rejected" THEN "none" ELSE mem[t].cat}
    BY <1>14, <2>1 DEF LogGemini, TypeOK, StoreType
  <2> QED BY <2>1, <2>2 DEF CallMoves, AttemptMoves
<1>15. CASE Finalize(t)
  <2>1. pc[t] = "finalize" /\ job[t] \in Jobs
    BY <1>15, <1>t DEF Finalize
  <2>2. row'[job[t]].final = mem[t].final
    BY <1>15, <1>t, <1>w, <2>1 DEF Finalize, Row
  <2>3. CASE /\ mem[t].final = "Accepted"
             /\ GotoWith(t, "status", BlankMemo)
    BY <1>c, <2>1, <2>2, <2>3 DEF CallMoves, AttemptMoves
  <2>4. CASE mem[t].final # "Accepted" /\ Return(t)
    BY <1>c, <2>1, <2>2, <2>4 DEF CallMoves, EndMoves
  <2> QED BY <1>15, <2>3, <2>4 DEF Finalize
<1>16. CASE MarkPending(t)
  BY <1>16, <1>t, <1>c, <1>w DEF MarkPending, CallMoves, AttemptMoves, With,
     To, Memo, Row
<1>17. CASE Shorten(t)
  BY <1>17, <1>t, <1>c, <1>w DEF Shorten, CallMoves, AttemptMoves, With, To,
     Memo, Row
<1>18. CASE AcquireAndRead(t)
  <2>1. pc[t] = "lock" /\ LockFree(t) /\ job[t] \in Jobs
    BY <1>18, <1>t DEF AcquireAndRead
  <2>2. CASE Return(t) /\ row[job[t]].status \in {"Complete", "Suppressed"}
    BY <2>1, <2>2, <1>c DEF CallMoves, EndMoves
  <2>3. ASSUME row[job[t]].status \notin {"Complete", "Suppressed"},
               NEW label, label =
                 IF row[job[t]].method = "llm" \/ ~GuardEnabled THEN "fetch"
                 ELSE IF row[job[t]].cat # "" THEN "resolve" ELSE "allow",
               GotoWith(t, label, [BlankMemo EXCEPT !.cat = row[job[t]].cat,
                                          !.method = row[job[t]].method])
        PROVE  CallMoves(t)
    <3>1. With(t, label, FALSE, "", row[job[t]].method, row[job[t]].cat)
      <4>1. /\ pc'[t] = label /\ job'[t] = job[t]
            /\ mem'[t] = [BlankMemo EXCEPT !.cat = row[job[t]].cat,
                                           !.method = row[job[t]].method]
        BY <2>3, <1>c
      <4> QED BY <4>1 DEF With, BlankMemo
    <3> QED BY <2>1, <2>3, <3>1, <1>c DEF CallMoves, LockedMoves
  <2> QED BY <1>18, <2>2, <2>3 DEF AcquireAndRead
<1>19. CASE ResolveCategory(t)
  <2>1. pc[t] # "idle" /\ job[t] \in Jobs
    BY <1>19, <1>t DEF ResolveCategory
  <2>2. LockedMoves(t)
    BY <1>19, <1>g, <1>k DEF ResolveCategory, LockedMoves
  <2>3. todo'[t] = todo[t]
    BY <1>19, <1>c DEF ResolveCategory
  <2> QED BY <2>1, <2>2, <2>3 DEF CallMoves
<1>20. CASE ClaimGuard(t)
  BY <1>20, <1>t, <1>c, <1>w DEF ClaimGuard, CallMoves, LockedMoves, With,
     To, Memo, Row
<1>21. CASE PollVerdict(t)
  <2>1. pc[t] # "idle" /\ job[t] \in Jobs
    BY <1>21, <1>t DEF PollVerdict
  <2>2. LockedMoves(t)
    BY <1>21, <1>g, <1>k DEF PollVerdict, LockedMoves
  <2>3. todo'[t] = todo[t]
    BY <1>21, <1>c DEF PollVerdict
  <2> QED BY <2>1, <2>2, <2>3 DEF CallMoves
<1>22. CASE EvaluateGuard(t)
  <2>1. pc[t] # "idle" /\ job[t] \in Jobs
    BY <1>22, <1>t DEF EvaluateGuard
  <2>2. LockedMoves(t)
    BY <1>22, <1>g, <1>k DEF EvaluateGuard, LockedMoves
  <2>3. todo'[t] = todo[t]
    BY <1>22, <1>c DEF EvaluateGuard
  <2> QED BY <2>1, <2>2, <2>3 DEF CallMoves
<1>23. CASE Reclassify(t)
  <2>1. /\ pc[t] = "reclassify" /\ job[t] \in Jobs /\ todo'[t] = todo[t]
        /\ To(t, "allow")
    BY <1>23, <1>t, <1>c, <1>g DEF Reclassify
  <2>2. row'[job[t]].cat = mem[t].cat
    BY <1>23, <1>t, <1>w, <2>1 DEF Reclassify, Row
  <2> QED BY <2>1, <2>2 DEF CallMoves, LockedMoves
<1>24. CASE GuardAllow(t)
  BY <1>24, <1>t, <1>c, <1>w DEF GuardAllow, CallMoves, LockedMoves, With,
     To, Memo, Row
<1>25. CASE ReadVerdict(t)
  BY <1>25, <1>t, <1>c, <1>w DEF ReadVerdict, CallMoves, LockedMoves,
     EndMoves, With, To, Memo, Row
<1>26. CASE GuardFallback(t)
  BY <1>26, <1>t, <1>c, <1>w DEF GuardFallback, CallMoves, EndMoves, Memo,
     Row
<1>27. CASE Suppress(t)
  BY <1>27, <1>t, <1>c, <1>w DEF Suppress, CallMoves, EndMoves, Memo, Row
<1>28. CASE FetchFinal(t)
  <2>1. pc[t] = "fetch" /\ job[t] \in Jobs /\ todo'[t] = todo[t]
    BY <1>28, <1>t, <1>c DEF FetchFinal
  <2>2. With(t, "publish", mem[t].recheck, mem[t].final, mem[t].method,
             row[job[t]].cat)
    <3>1. /\ pc'[t] = "publish" /\ job'[t] = job[t]
          /\ mem'[t] = [mem[t] EXCEPT !.cat = row[job[t]].cat,
                                      !.short = row[job[t]].short]
      BY <1>28, <1>c DEF FetchFinal
    <3> QED BY <3>1, <1>t DEF With, Memo
  <2> QED BY <2>1, <2>2 DEF CallMoves, LockedMoves
<1>29. CASE Publish(t)
  BY <1>29, <1>t, <1>c, <1>w DEF Publish, CallMoves, LockedMoves, With, To,
     Memo, Row
<1>30. CASE MarkComplete(t)
  BY <1>30, <1>t, <1>c, <1>w DEF MarkComplete, CallMoves, EndMoves, Memo,
     Row
<1>31. CASE TaskRaises(t)
  BY <1>31, <1>t, <1>c, <1>w DEF TaskRaises, CallMoves, Memo, Row
<1>32. CASE MarkSeen(t)
  BY <1>32, <1>t, <1>c, <1>w DEF MarkSeen, CallMoves, Memo, Row
<1>33. CASE ClaimUnsaved(t)
  BY <1>33, <1>t, <1>c, <1>w DEF ClaimUnsaved, CallMoves, Memo, Row
<1> QED BY <1>1, <1>2, <1>3, <1>4, <1>5, <1>6, <1>7, <1>8, <1>9, <1>10,
     <1>11, <1>12, <1>13, <1>14, <1>15, <1>16, <1>17, <1>18, <1>19, <1>20,
     <1>21, <1>22, <1>23, <1>24, <1>25, <1>26, <1>27, <1>28, <1>29, <1>30,
     <1>31, <1>32, <1>33 DEF TaskNext, TaskStep

-----------------------------------------------------------------------------
(* What happens outside the calls: crashes, and time. *)

Quiet ==
  /\ \A u \in Tasks :
       /\ seen'[u] = seen[u]
       /\ \/ /\ pc'[u] = pc[u] /\ job'[u] = job[u] /\ mem'[u] = mem[u]
             /\ todo'[u] = todo[u]
          \/ Stops(u) /\ todo'[u] = {}
  /\ UNCHANGED <<created, guardlog, gemini, events, publishes, shape>>
  /\ \A j \in Jobs :
       /\ row'[j].final = row[j].final /\ row'[j].reason = row[j].reason
       /\ row'[j].method = row[j].method /\ row'[j].cat = row[j].cat
       /\ row'[j].status = row[j].status
       /\ \/ row'[j].waiting = row[j].waiting
          \/ Timely => \A t \in Tasks : job[t] = j => pc[t] \notin AttemptLabels
       /\ \/ row'[j].guardClaim = row[j].guardClaim
          \/ Timely => \A t \in Tasks :
                         job[t] = j => pc[t] \notin {"claim_guard", "evaluate"}
       /\ row'[j] = row[j] \/ row[j].waiting \/ row[j].guardClaim

LEMMA QuietStep ==
  ASSUME TypeOK, [Next]_vars, \A t \in Tasks : ~TaskNext(t)
  PROVE  Quiet
<1>1. CASE UNCHANGED vars
  BY <1>1 DEF vars, store, out, ctl, env, Quiet
<1>2. ASSUME NEW p \in Procs, Crash(p) PROVE Quiet
  <2>1. \A u \in Tasks :
          /\ seen'[u] = seen[u]
          /\ \/ /\ pc'[u] = pc[u] /\ job'[u] = job[u] /\ mem'[u] = mem[u]
                /\ todo'[u] = todo[u]
             \/ Stops(u) /\ todo'[u] = {}
    BY <1>2 DEF Crash, Stops
  <2> QED BY <1>2, <2>1 DEF Crash, store, Quiet
<1>3. ASSUME NEW i \in Jobs, RetryWindowElapses(i) PROVE Quiet
  <2>1. /\ row[i] \in Row /\ row \in [Jobs -> Row] /\ row[i].waiting
        /\ row' = [row EXCEPT ![i] = [row[i] EXCEPT !.waiting = FALSE]]
        /\ Timely => \A t \in Tasks : job[t] = i => pc[t] \notin AttemptLabels
        /\ UNCHANGED <<created, guardlog, gemini, events, publishes, shape, ctl>>
    BY <1>3 DEF RetryWindowElapses, UpdateJob, env, out, TypeOK, StoreType
  <2>2. \A j \in Jobs :
          /\ row'[j].final = row[j].final /\ row'[j].reason = row[j].reason
          /\ row'[j].method = row[j].method /\ row'[j].cat = row[j].cat
          /\ row'[j].status = row[j].status
          /\ row'[j].guardClaim = row[j].guardClaim
          /\ j # i => row'[j] = row[j]
    BY <2>1 DEF Row
  <2> QED BY <2>1, <2>2 DEF Quiet, ctl
<1>4. ASSUME NEW i \in Jobs, GuardLeaseElapses(i) PROVE Quiet
  <2>1. /\ row[i] \in Row /\ row \in [Jobs -> Row] /\ row[i].guardClaim
        /\ row' = [row EXCEPT ![i] = [row[i] EXCEPT !.guardClaim = FALSE]]
        /\ Timely => \A t \in Tasks :
                       job[t] = i => pc[t] \notin {"claim_guard", "evaluate"}
        /\ UNCHANGED <<created, guardlog, gemini, events, publishes, shape, ctl>>
    BY <1>4 DEF GuardLeaseElapses, UpdateJob, env, out, TypeOK, StoreType
  <2>2. \A j \in Jobs :
          /\ row'[j].final = row[j].final /\ row'[j].reason = row[j].reason
          /\ row'[j].method = row[j].method /\ row'[j].cat = row[j].cat
          /\ row'[j].status = row[j].status
          /\ row'[j].waiting = row[j].waiting
          /\ j # i => row'[j] = row[j]
    BY <2>1 DEF Row
  <2> QED BY <2>1, <2>2 DEF Quiet, ctl
<1>5. CASE ClaimsNext
  BY <1>5, ClaimsOnly DEF store, ctl, env, Quiet
<1> QED BY <1>1, <1>2, <1>3, <1>4, <1>5 DEF Next, TimeNext

LEMMA ShapeStep ==
  ASSUME TypeOK, NEW t \in Tasks, TaskNext(t)
  PROVE  shape' = shape
<1>1. CASE Reads(t)
  BY <1>1 DEF Reads, Deliver, NextRow, Sweep, AcquireAndRead, TaskRaises,
     MarkSeen, GetJob, RereadLoser, ClaimProject, ClaimUnsaved, Arbitrate, ResolveCategory,
     PollVerdict, GuardAllow, ReadVerdict, FetchFinal, env
<1>2. CASE Writes(t)
  BY <1>2 DEF Writes, ClaimPending, ResumeAccepted, CreateJob,
     RejectDuplicate, RecordLLMError, Finalize, MarkPending, Shorten,
     ClaimGuard, Reclassify, GuardFallback, Suppress, MarkComplete, env
<1>3. CASE Audits(t) \/ Publish(t)
  BY <1>3 DEF Audits, LogRescue, LogGemini, EvaluateGuard, Publish, env
<1> QED BY <1>1, <1>2, <1>3, StepKinds

\* The marks of a source, by the label that sets them.
LEMMA SeenStep ==
  ASSUME TypeOK, NEW t \in Tasks, TaskNext(t)
  PROVE  \/ seen'[t] = seen[t]
         \/ pc[t] = "mark_seen" /\ seen'[t] = seen[t] \cup {job[t]}
<1>1. CASE MarkSeen(t)
  BY <1>1 DEF MarkSeen, TypeOK, CtlType
<1> USE DEF Goto, GotoWith, Begin, Drop, Return, Raise, Decide
<1>2. CASE Reads(t) /\ ~MarkSeen(t)
  BY <1>2 DEF Reads, Deliver, NextRow, Sweep, AcquireAndRead, TaskRaises,
     GetJob, RereadLoser, ClaimProject, ClaimUnsaved, Arbitrate, ResolveCategory,
     PollVerdict, GuardAllow, ReadVerdict, FetchFinal
<1>3. CASE Writes(t)
  BY <1>3 DEF Writes, ClaimPending, ResumeAccepted, CreateJob,
     RejectDuplicate, RecordLLMError, Finalize, MarkPending, Shorten,
     ClaimGuard, Reclassify, GuardFallback, Suppress, MarkComplete
<1>4. CASE Audits(t) \/ Publish(t)
  BY <1>4 DEF Audits, LogRescue, LogGemini, EvaluateGuard, Publish
<1> QED BY <1>1, <1>2, <1>3, <1>4, StepKinds

-----------------------------------------------------------------------------
(* A call past its first repository calls works on a job that has a row. *)

Unwritten == {"idle", "get_job", "create", "mark_seen"}
Early     == {"idle", "get_job", "create", "reread"}
Untouched(j) == /\ row[j] = BlankRow /\ guardlog[j] = <<>> /\ gemini[j] = {}
                /\ publishes[j] = 0 /\ events[j] = {}
CallRow(t) ==
  /\ pc[t] \notin Unwritten => job[t] \in created
  /\ todo[t] \subseteq created
  /\ RoleOf[t] = "source" => todo[t] = {}
  /\ RoleOf[t] = "source" /\ pc[t] # "idle" => job[t] \in Delivers[t]
  /\ RoleOf[t] = "classification" /\ pc[t] # "idle" => job[t] \in created
  /\ pc[t] = "create" => RoleOf[t] = "source"
  /\ RoleOf[t] = "notification" => pc[t] \in {"idle", "lock"} \cup LockedLabels
  /\ pc[t] \in Early => ~mem[t].recheck
  /\ pc[t] \in Early \cup {"claim", "dedup", "duplicate", "llm", "llm_error"}
       => mem[t].final = "" /\ mem[t].method = "" /\ mem[t].cat = ""
RowInv == /\ \A j \in Jobs \ created : Untouched(j)
          /\ \A t \in Tasks : CallRow(t)

LEMMA RowCall ==
  ASSUME TypeOK, RowInv, NEW t \in Tasks, TaskNext(t)
  PROVE  CallRow(t)'
<1>1. CallMoves(t) /\ CallRow(t) /\ created \subseteq created'
  BY CallStep, CreatedStep DEF RowInv
<1>2. /\ RoleOf[t] \in Roles /\ created \subseteq Jobs /\ pc[t] \in Labels
      /\ DueClassifications \subseteq created
      /\ DueNotifications \subseteq created
  BY PipelineAssumption
     DEF DueClassifications, DueNotifications, TypeOK, StoreType, CtlType
<1>3. /\ ~BlankMemo.recheck /\ BlankMemo.final = "" /\ BlankMemo.method = ""
      /\ BlankMemo.cat = ""
  BY DEF BlankMemo
<1>4. CASE StartMoves(t)
  BY <1>1, <1>2, <1>4 DEF StartMoves, CallRow, Unwritten, Early, Roles,
                          LockedLabels
<1>5. CASE Stops(t) \/ EndMoves(t)
  BY <1>1, <1>2, <1>3, <1>5 DEF CallMoves, StartMoves, Stops, EndMoves, Marks,
     CallRow, Unwritten, Early
<1>6. CASE EntryMoves(t) /\ todo'[t] = todo[t]
  <2>1. /\ job'[t] = job[t] /\ pc[t] \in {"get_job", "claim", "accepted",
                                          "create", "reread"}
        /\ pc'[t] \in {"create", "lock", "claim", "accepted", "dedup",
                       "reread"}
        /\ pc'[t] = "create" => pc[t] = "get_job" /\ job[t] \notin created
    BY <1>6 DEF EntryMoves, With, To
  <2>2. /\ pc'[t] \in {"create", "reread"} => pc[t] \in {"get_job", "create"}
        /\ pc'[t] # "create" => job[t] \in created'
    BY <1>1, <1>6 DEF EntryMoves, With, To, CallRow, Unwritten
  <2>3. \/ /\ mem'[t].recheck = mem[t].recheck /\ mem'[t].final = mem[t].final
           /\ mem'[t].method = mem[t].method /\ mem'[t].cat = mem[t].cat
        \/ /\ pc'[t] = "claim" /\ mem'[t].final = ""
           /\ mem'[t].method = "" /\ mem'[t].cat = ""
    BY <1>6 DEF EntryMoves, With, To
  <2>4. RoleOf[t] # "notification"
    BY <1>1, <2>1 DEF CallRow, LockedLabels
  <2>5. pc[t] = "accepted" => pc'[t] = "lock"
    BY <1>6 DEF EntryMoves, With, To
  <2> QED BY <1>1, <1>2, <1>6, <2>1, <2>2, <2>3, <2>4, <2>5
          DEF CallRow, Unwritten, Early, Roles
<1>7. CASE AttemptMoves(t) /\ todo'[t] = todo[t]
  BY <1>1, <1>2, <1>3, <1>7 DEF AttemptMoves, With, To, CallRow, Unwritten,
                          Early, LockedLabels
<1>8. CASE LockedMoves(t) /\ todo'[t] = todo[t]
  BY <1>1, <1>2, <1>8 DEF LockedMoves, With, To, CallRow, Unwritten, Early,
                          LockedLabels
<1> QED BY <1>1, <1>4, <1>5, <1>6, <1>7, <1>8 DEF CallMoves

LEMMA RowCorrect == Spec => []RowInv
<1>1. Init => RowInv
  <2> SUFFICES ASSUME Init PROVE RowInv
    OBVIOUS
  <2>1. \A j \in Jobs : Untouched(j)
    BY DEF Init, InitKnowing, Untouched
  <2>2. \A t \in Tasks : pc[t] = "idle" /\ todo[t] = {} /\ mem[t] = BlankMemo
    BY DEF Init, InitKnowing
  <2>3. /\ ~BlankMemo.recheck /\ BlankMemo.final = "" /\ BlankMemo.method = ""
        /\ BlankMemo.cat = ""
    BY DEF BlankMemo
  <2>4. \A t \in Tasks : CallRow(t)
    BY <2>2, <2>3 DEF CallRow, Unwritten, Early
  <2> QED BY <2>1, <2>4 DEF RowInv
<1>2. TypeOK /\ RowInv /\ [Next]_vars => RowInv'
  <2> SUFFICES ASSUME TypeOK, RowInv, [Next]_vars PROVE RowInv'
    OBVIOUS
  <2>1. ASSUME NEW t \in Tasks, TaskNext(t) PROVE RowInv'
    <3>1. CallRow(t)'
      BY <2>1, RowCall
    <3>2. created \subseteq created'
      BY <2>1, CreatedStep
    <3>3. ASSUME NEW u \in Tasks \ {t} PROVE CallRow(u)'
      <4>1. /\ pc'[u] = pc[u] /\ job'[u] = job[u] /\ mem'[u] = mem[u]
            /\ todo'[u] = todo[u] /\ CallRow(u)
        BY <2>1, OthersStay DEF RowInv
      <4> QED BY <3>2, <4>1 DEF CallRow
    <3>4. ASSUME NEW j \in Jobs, j \notin created' PROVE Untouched(j)'
      <4>1. Untouched(j) /\ CallRow(t)
        BY <3>2, <3>4 DEF RowInv
      <4>2. job[t] = j => pc[t] \in Unwritten
        BY <3>2, <3>4, <4>1 DEF CallRow
      <4>3. row'[j] = row[j]
        BY <2>1, <3>4, <4>2, RowStep DEF RowMoves, Unwritten
      <4>4. guardlog'[j] = guardlog[j] /\ gemini'[j] = gemini[j]
        BY <2>1, <4>2, LogStep, GeminiStep DEF LogMoves, Unwritten
      <4>5. publishes'[j] = publishes[j] /\ events'[j] = events[j]
        BY <2>1, <4>2, StreamStep DEF Unwritten
      <4> QED BY <4>1, <4>3, <4>4, <4>5 DEF Untouched
    <3> QED BY <3>1, <3>3, <3>4 DEF RowInv
  <2>2. CASE \A t \in Tasks : ~TaskNext(t)
    <3>1. Quiet
      BY <2>2, QuietStep
    <3>2. \A j \in Jobs \ created : Untouched(j)'
      <4> SUFFICES ASSUME NEW j \in Jobs, j \notin created
                   PROVE  Untouched(j)'
        OBVIOUS
      <4>1. ~row[j].waiting /\ ~row[j].guardClaim /\ Untouched(j)
        <5>1. Untouched(j)
          BY DEF RowInv
        <5>2. row[j] = BlankRow
          BY <5>1 DEF Untouched
        <5>3. ~BlankRow.waiting /\ ~BlankRow.guardClaim
          BY DEF BlankRow
        <5> QED BY <5>1, <5>2, <5>3
      <4> QED BY <3>1, <4>1 DEF Quiet, Untouched, out
    <3>3. ASSUME NEW u \in Tasks PROVE CallRow(u)'
      <4>1. /\ ~BlankMemo.recheck /\ BlankMemo.final = ""
            /\ BlankMemo.method = "" /\ BlankMemo.cat = ""
        BY DEF BlankMemo
      <4>2. /\ CallRow(u) /\ created' = created
            /\ \/ /\ pc'[u] = pc[u] /\ job'[u] = job[u] /\ mem'[u] = mem[u]
                  /\ todo'[u] = todo[u]
               \/ Stops(u) /\ todo'[u] = {}
        BY <3>1 DEF Quiet, RowInv
      <4> QED BY <4>1, <4>2 DEF CallRow, Stops, Unwritten, Early
    <3> QED BY <3>1, <3>2, <3>3 DEF RowInv, Quiet
  <2> QED BY <2>1, <2>2
<1> QED BY TypeCorrect, <1>1, <1>2, PTL DEF Spec

-----------------------------------------------------------------------------
(* The evaluation claim: a job has one verdict. *)

\* A claim that its holder never outlives keeps a second call out of
\* EvaluateGuard, and a call that reaches the claim has seen no verdict.
ByGuard(g)     == g.by = "guard" /\ g.verdict # "error"
HasVerdict(j)  == \E g \in Entries(j) : ByGuard(g)
At(t, j, S)    == job[t] = j /\ pc[t] \in S
JobVerdict(j)  ==
  /\ HasVerdict(j) => Verdict(j).verdict \in {"notify", "do_not_notify"}
  /\ \A g, h \in Entries(j) :
       ByGuard(g) /\ ByGuard(h) => g.verdict = h.verdict
CallVerdict(t, j) ==
  /\ At(t, j, {"evaluate"}) => row[j].guardClaim /\ ~HasVerdict(j)
  /\ At(t, j, {"claim_guard"}) => row[j].guardClaim \/ ~HasVerdict(j)
OneEvaluator(j) == \A t, u \in Tasks :
  At(t, j, {"evaluate"}) /\ At(u, j, {"evaluate"}) => t = u
VerdictInv == \A j \in Jobs : /\ JobVerdict(j) /\ OneEvaluator(j)
                              /\ \A t \in Tasks : CallVerdict(t, j)

\* A step that appends nothing to the log of j.
LEMMA VerdictUnlogged ==
  ASSUME TypeOK, RowInv, VerdictInv, NEW t \in Tasks, TaskNext(t),
         NEW j \in Jobs, guardlog'[j] = guardlog[j]
  PROVE  JobVerdict(j)' /\ OneEvaluator(j)' /\ \A u \in Tasks : CallVerdict(u, j)'
<1>1. /\ Entries(j)' = Entries(j) /\ Verdict(j)' = Verdict(j)
      /\ HasVerdict(j)' <=> HasVerdict(j)
  BY LogKept DEF HasVerdict
<1>2. /\ JobVerdict(j) /\ OneEvaluator(j)
      /\ \A u \in Tasks : CallVerdict(u, j)
  BY DEF VerdictInv
<1>3. JobVerdict(j)'
  BY <1>1, <1>2 DEF JobVerdict
<1>4. \A u \in Tasks \ {t} : pc'[u] = pc[u] /\ job'[u] = job[u]
  BY OthersStay
<1>5. /\ pc[t] \in Labels /\ (pc[t] # "idle" => job[t] \in Jobs)
      /\ \A u \in Tasks : pc[u] = "evaluate" => job[u] \in created
      /\ pc[t] = "claim_guard" \/ pc[t] = "evaluate" => job[t] \in created
  BY DEF TypeOK, CtlType, RowInv, CallRow, Unwritten
<1>6. \/ row'[j].guardClaim = row[j].guardClaim
      \/ At(t, j, {"claim_guard"}) /\ ~row[j].guardClaim /\ row'[j].guardClaim
      \/ j \notin created
  <2>1. CASE RowMoves(t, j)
    BY <2>1 DEF RowMoves, Becomes, At
  <2> QED BY <2>1, RowStep
<1>7. pc'[t] = "evaluate" =>
        /\ pc[t] = "claim_guard" /\ job'[t] = job[t]
        /\ ~row[job[t]].guardClaim /\ row'[job[t]].guardClaim
  BY CallStep DEF CallMoves, StartMoves, Stops, EndMoves, Marks, EntryMoves,
     AttemptMoves, LockedMoves, With, To
<1>8. pc'[t] = "claim_guard" =>
        /\ pc[t] = "resolve" /\ job'[t] = job[t] /\ job[t] \in created
        /\ Verdict(job[t]).verdict \notin {"notify", "do_not_notify"}
  BY <1>5, CallStep DEF CallMoves, StartMoves, Stops, EndMoves, Marks,
     EntryMoves, AttemptMoves, LockedMoves, With, To, RowInv, CallRow, Unwritten
<1>9. OneEvaluator(j)'
  BY <1>2, <1>4, <1>7 DEF OneEvaluator, At, CallVerdict
<1>10. ASSUME NEW u \in Tasks PROVE CallVerdict(u, j)'
  <2>1. CASE u = t
    BY <1>1, <1>2, <1>5, <1>6, <1>7, <1>8, <2>1
       DEF CallVerdict, At, JobVerdict
  <2>2. CASE u # t
    BY <1>1, <1>2, <1>4, <1>5, <1>6, <2>2 DEF CallVerdict, At, RowInv, CallRow,
                                             Unwritten
  <2> QED BY <2>1, <2>2
<1> QED BY <1>3, <1>9, <1>10

\* A step that appends to the log of j.
LEMMA VerdictLogged ==
  ASSUME TypeOK, VerdictInv, NEW t \in Tasks, TaskNext(t),
         NEW j \in Jobs, NEW g, LogMoves(t, j, g)
  PROVE  JobVerdict(j)' /\ OneEvaluator(j)' /\ \A u \in Tasks : CallVerdict(u, j)'
<1>1. /\ Entries(j)' = Entries(j) \cup {g} /\ Verdict(j)' = g
      /\ job[t] = j /\ g \in GuardRow
  BY LogAppended DEF LogMoves
<1>2. /\ JobVerdict(j) /\ OneEvaluator(j)
      /\ \A u \in Tasks : CallVerdict(u, j)
  BY DEF VerdictInv
<1>3. \/ pc[t] = "rescue" /\ pc'[t] = "audit" /\ ~ByGuard(g)
         /\ g.verdict = "notify"
      \/ pc[t] = "evaluate" /\ pc'[t] \in {"allow", "reclassify"}
         /\ ~HasVerdict(j)
  BY <1>1, <1>2 DEF LogMoves, ByGuard, CallVerdict, At
<1>4. g.verdict \in {"notify", "do_not_notify"} \/ ~ByGuard(g)
  BY <1>1 DEF ByGuard, GuardRow
<1>5. HasVerdict(j)' <=> HasVerdict(j) \/ ByGuard(g)
  BY <1>1 DEF HasVerdict
<1>6. JobVerdict(j)'
  BY <1>1, <1>2, <1>3, <1>4, <1>5 DEF JobVerdict, HasVerdict
<1>7. row' = row
  BY <1>3, StepKinds, ReadsLeave, AuditsOneLog DEF store, Publish, Writes,
     ClaimPending, ResumeAccepted, CreateJob, RejectDuplicate, RecordLLMError,
     Finalize, MarkPending, Shorten, ClaimGuard, Reclassify, GuardFallback,
     Suppress, MarkComplete
<1>8. \A u \in Tasks \ {t} : pc'[u] = pc[u] /\ job'[u] = job[u]
  BY OthersStay
<1>9. OneEvaluator(j)'
  BY <1>2, <1>3, <1>8 DEF OneEvaluator, At
<1>10. ASSUME NEW u \in Tasks PROVE CallVerdict(u, j)'
  <2>1. CASE u = t
    BY <1>3, <2>1 DEF CallVerdict, At
  <2>2. CASE u # t
    <3>1. pc[t] = "evaluate" => ~At(u, j, {"evaluate"})
      BY <1>1, <1>2, <2>2 DEF OneEvaluator, At
    <3>2. pc[t] = "evaluate" => row[j].guardClaim
      BY <1>1, <1>2 DEF CallVerdict, At
    <3> QED BY <1>2, <1>3, <1>5, <1>7, <1>8, <2>2, <3>1, <3>2
            DEF CallVerdict, At
  <2> QED BY <2>1, <2>2
<1> QED BY <1>6, <1>9, <1>10

\* Only time ends the evaluation claim, and never under its holder.
LEMMA VerdictQuiet ==
  ASSUME Timely, VerdictInv, Quiet, NEW j \in Jobs
  PROVE  JobVerdict(j)' /\ OneEvaluator(j)' /\ \A u \in Tasks : CallVerdict(u, j)'
<1>1. /\ Entries(j)' = Entries(j) /\ Verdict(j)' = Verdict(j)
      /\ HasVerdict(j)' <=> HasVerdict(j)
  BY LogKept DEF HasVerdict, Quiet
<1>2. /\ JobVerdict(j) /\ OneEvaluator(j)
      /\ \A u \in Tasks : CallVerdict(u, j)
  BY DEF VerdictInv
<1>3. JobVerdict(j)'
  BY <1>1, <1>2 DEF JobVerdict
<1>4. \A u \in Tasks : \/ pc'[u] = "idle"
                       \/ pc'[u] = pc[u] /\ job'[u] = job[u]
  BY DEF Quiet, Stops
<1>5. OneEvaluator(j)'
  BY <1>2, <1>4 DEF OneEvaluator, At
<1>6. ASSUME NEW u \in Tasks PROVE CallVerdict(u, j)'
  <2>1. \/ row'[j].guardClaim = row[j].guardClaim
        \/ ~At(u, j, {"claim_guard", "evaluate"})
    BY DEF Quiet, At
  <2> QED BY <1>1, <1>2, <1>4, <2>1 DEF CallVerdict, At
<1> QED BY <1>3, <1>5, <1>6

\* VerdictInv holds of every reachable state when no claim is outlived.
LEMMA VerdictCorrect ==
  ASSUME Timely
  PROVE  Spec => []VerdictInv
<1>1. Init => VerdictInv
  <2> SUFFICES ASSUME Init, NEW j \in Jobs
               PROVE  /\ JobVerdict(j) /\ OneEvaluator(j)
                      /\ \A t \in Tasks : CallVerdict(t, j)
    BY DEF VerdictInv
  <2>1. guardlog[j] = <<>> /\ \A t \in Tasks : pc[t] = "idle"
    BY DEF Init, InitKnowing
  <2>2. Entries(j) = {}
    BY <2>1 DEF Entries
  <2> QED BY <2>1, <2>2 DEF JobVerdict, OneEvaluator, CallVerdict, At,
                            HasVerdict
<1>2. TypeOK /\ RowInv /\ VerdictInv /\ [Next]_vars => VerdictInv'
  <2> SUFFICES ASSUME TypeOK, RowInv, VerdictInv, [Next]_vars, NEW j \in Jobs
               PROVE  /\ JobVerdict(j)' /\ OneEvaluator(j)'
                      /\ \A t \in Tasks : CallVerdict(t, j)'
    BY DEF VerdictInv
  <2>1. ASSUME NEW t \in Tasks, TaskNext(t)
        PROVE  /\ JobVerdict(j)' /\ OneEvaluator(j)'
               /\ \A u \in Tasks : CallVerdict(u, j)'
    BY <2>1, LogStep, VerdictUnlogged, VerdictLogged
  <2>2. CASE \A t \in Tasks : ~TaskNext(t)
    BY <2>2, QuietStep, VerdictQuiet
  <2> QED BY <2>1, <2>2
<1> QED BY TypeCorrect, RowCorrect, <1>1, <1>2, PTL DEF Spec

\* Under claims that are not outlived (the guard's timeouts are shorter than
\* its 90 s lease), a valid verdict is the last question a job ever raises:
\* for every number of tasks and processes, and whatever crashes in between.
THEOREM VerdictsAreFinal ==
  ASSUME Timely
  PROVE  Spec => VerdictIsFinal
<1> DEFINE Final == \A t \in Tasks : EvaluateGuard(t) =>
                      ~ \E i \in DOMAIN guardlog[job[t]] :
                          /\ guardlog[job[t]][i].by = "guard"
                          /\ guardlog[job[t]][i].verdict # "error"
<1>1. TypeOK /\ VerdictInv => Final
  <2> SUFFICES ASSUME TypeOK, VerdictInv, NEW t \in Tasks, EvaluateGuard(t)
               PROVE  ~ \E i \in DOMAIN guardlog[job[t]] :
                          /\ guardlog[job[t]][i].by = "guard"
                          /\ guardlog[job[t]][i].verdict # "error"
    OBVIOUS
  <2>1. job[t] \in Jobs /\ pc[t] = "evaluate"
    BY DEF EvaluateGuard, TypeOK, CtlType
  <2>2. ~HasVerdict(job[t])
    BY <2>1 DEF VerdictInv, CallVerdict, At
  <2> QED BY <2>2 DEF HasVerdict, Entries, ByGuard
<1>2. Spec => [][Final]_vars
  BY TypeCorrect, VerdictCorrect, <1>1, PTL
<1> QED BY <1>2 DEF VerdictIsFinal

-----------------------------------------------------------------------------
(* What each shape of job can meet: no guard and no rescue for a job with   *)
(* no keyword category, no LLM for a clean single-candidate pick.           *)

Unguarded(j) == shape[j] \in {"none", "ambiguous"}
JobShape(j) ==
  /\ Plain(j) => /\ row[j].method # "keyword_direct_tiebreak"
                 /\ row[j].reason # "Guard Fallback"
                 /\ \A g \in Entries(j) : g.by = "guard"
  /\ shape[j] = "direct" => LLMCats(j) = {}
  /\ Unguarded(j) => /\ Entries(j) = {}
                     /\ row[j].cat # "" => row[j].method = "llm"
  /\ ~GuardEnabled => \A g \in Entries(j) : g.by = "rescue"
CallShape(t, j) == job[t] = j =>
  /\ Plain(j) => /\ ~mem[t].recheck
                 /\ mem[t].method # "keyword_direct_tiebreak"
                 /\ pc[t] \notin {"rescue", "fallback"}
  /\ shape[j] = "direct" => pc[t] \notin {"llm", "llm_error", "audit"}
  /\ Unguarded(j) =>
       /\ pc[t] \notin {"resolve", "claim_guard", "evaluate", "poll",
                        "reclassify", "suppress"}
       /\ pc[t] \in AttemptLabels /\ mem[t].cat # "" => mem[t].method = "llm"
  /\ ~GuardEnabled => pc[t] \notin LockedLabels \ {"fetch", "publish",
                                                   "complete"}
ShapeInv == \A j \in Jobs : JobShape(j) /\ \A t \in Tasks : CallShape(t, j)

LEMMA ShapeCall ==
  ASSUME TypeOK, RowInv, ShapeInv, NEW t \in Tasks, TaskNext(t),
         NEW j \in Jobs
  PROVE  CallShape(t, j)'
<1>1. /\ CallMoves(t) /\ JobShape(j) /\ CallShape(t, j) /\ CallRow(t)
      /\ shape' = shape
  BY CallStep, ShapeStep DEF RowInv, ShapeInv
<1>2. /\ shape[j] \in AllShapes
      /\ Unguarded(j)' <=> Unguarded(j)
      /\ Plain(j)' <=> Plain(j)
      /\ Unguarded(j) => Plain(j) /\ Entries(j) = {}
  BY <1>1, PipelineAssumption DEF TypeOK, EnvType, Unguarded, Plain, JobShape
<1>3. /\ ~BlankMemo.recheck /\ BlankMemo.method = "" /\ BlankMemo.cat = ""
  BY DEF BlankMemo
<1>4. Unguarded(j) => Verdict(j).verdict \notin {"notify", "do_not_notify"}
  <2>1. Unguarded(j) => Verdict(j) = NoVerdict
    BY <1>2, LogRead
  <2>2. NoVerdict.verdict = ""
    BY DEF NoVerdict
  <2> QED BY <2>1, <2>2
<1>5. CASE StartMoves(t)
  BY <1>1, <1>2, <1>5 DEF StartMoves, CallRow, CallShape, Early, LockedLabels,
                          AttemptLabels, Plain
<1>6. CASE Stops(t) \/ EndMoves(t)
  BY <1>1, <1>2, <1>3, <1>6 DEF Stops, EndMoves, Marks, CallShape,
                                LockedLabels, AttemptLabels, Plain
<1>7. CASE EntryMoves(t)
  <2>1. /\ job'[t] = job[t]
        /\ pc[t] \in {"get_job", "claim", "accepted", "create", "reread"}
        /\ pc'[t] \in {"create", "lock", "claim", "accepted", "dedup",
                       "reread"}
    BY <1>7 DEF EntryMoves, With, To
  <2>2. \/ /\ mem'[t].recheck = mem[t].recheck
           /\ mem'[t].method = mem[t].method /\ mem'[t].cat = mem[t].cat
        \/ /\ mem'[t].method = "" /\ mem'[t].cat = ""
           /\ mem'[t].recheck = (row[job[t]].reason = "Guard Fallback")
    BY <1>7 DEF EntryMoves, With, To
  <2>3. pc'[t] \in AttemptLabels => mem'[t].cat = mem[t].cat
                                   /\ mem[t].cat = ""
    BY <1>1, <1>7 DEF EntryMoves, With, To, CallRow, Early, AttemptLabels
  <2>4. job[t] = j => (mem'[t].recheck => mem[t].recheck \/ ~Plain(j))
    BY <1>1, <2>2 DEF JobShape
  <2>5. mem'[t].method \in {mem[t].method, ""}
    BY <2>2
  <2> QED BY <1>1, <1>2, <2>1, <2>3, <2>4, <2>5 DEF CallShape, LockedLabels
<1>8. CASE AttemptMoves(t)
  BY <1>1, <1>2, <1>3, <1>8 DEF AttemptMoves, With, To, CallShape, CallRow,
     LockedLabels, AttemptLabels, Plain, Unguarded, AllShapes, FilterCat,
     FilterMethod
<1>9. CASE LockedMoves(t)
  BY <1>1, <1>2, <1>4, <1>9 DEF LockedMoves, With, To, CallShape, JobShape,
     LockedLabels, AttemptLabels, Plain
<1> QED BY <1>1, <1>5, <1>6, <1>7, <1>8, <1>9 DEF CallMoves

LEMMA ShapeJob ==
  ASSUME TypeOK, RowInv, ShapeInv, NEW t \in Tasks, TaskNext(t),
         NEW j \in Jobs
  PROVE  JobShape(j)'
<1>1. JobShape(j) /\ CallShape(t, j) /\ CallRow(t) /\ shape' = shape
  BY ShapeStep DEF RowInv, ShapeInv
<1>2. /\ shape[j] \in AllShapes
      /\ Unguarded(j)' <=> Unguarded(j)
      /\ Plain(j)' <=> Plain(j)
      /\ Unguarded(j) => Plain(j)
  BY <1>1, PipelineAssumption DEF TypeOK, EnvType, Unguarded, Plain
<1>3. Plain(j) => /\ row'[j].method # "keyword_direct_tiebreak"
                  /\ row'[j].reason # "Guard Fallback"
  <2>1. CASE RowMoves(t, j)
    BY <1>1, <1>2, <2>1 DEF RowMoves, Becomes, JobShape, CallShape,
                            FilterMethod, Plain
  <2> QED BY <1>1, <2>1, RowStep DEF JobShape
<1>4. Unguarded(j) => (row'[j].cat # "" => row'[j].method = "llm")
  <2>1. CASE RowMoves(t, j)
    BY <1>1, <1>2, <2>1 DEF RowMoves, Becomes, JobShape, CallShape,
                            FilterCat, Unguarded, AttemptLabels
  <2> QED BY <1>1, <2>1, RowStep DEF JobShape
<1>5. shape[j] = "direct" => LLMCats(j)' = {}
  BY <1>1, GeminiStep DEF JobShape, CallShape, LLMCats
<1>6. CASE guardlog'[j] = guardlog[j]
  BY <1>1, <1>2, <1>3, <1>4, <1>5, <1>6, LogKept DEF JobShape
<1>7. ASSUME NEW g, LogMoves(t, j, g) PROVE JobShape(j)'
  <2>1. /\ Entries(j)' = Entries(j) \cup {g}
        /\ Plain(j) => g.by = "guard"
        /\ Unguarded(j) => FALSE
        /\ ~GuardEnabled => g.by = "rescue"
    BY <1>1, <1>2, <1>7, LogAppended DEF LogMoves, CallShape, LockedLabels
  <2> QED BY <1>1, <1>2, <1>3, <1>4, <1>5, <2>1 DEF JobShape
<1> QED BY <1>6, <1>7, LogStep

LEMMA ShapeCorrect == Spec => []ShapeInv
<1>1. Init => ShapeInv
  <2> SUFFICES ASSUME Init, NEW j \in Jobs
               PROVE  JobShape(j) /\ \A t \in Tasks : CallShape(t, j)
    BY DEF ShapeInv
  <2>1. /\ row[j] = BlankRow /\ guardlog[j] = <<>> /\ gemini[j] = {}
        /\ \A t \in Tasks : job[t] = None
    BY DEF Init, InitKnowing
  <2>2. /\ BlankRow.method = "" /\ BlankRow.reason = "filter"
        /\ BlankRow.cat = ""
    BY DEF BlankRow
  <2>3. Entries(j) = {} /\ LLMCats(j) = {}
    BY <2>1 DEF Entries, LLMCats
  <2>4. JobShape(j)
    BY <2>1, <2>2, <2>3 DEF JobShape
  <2> QED BY <2>1, <2>4, PipelineAssumption DEF CallShape
<1>2. TypeOK /\ RowInv /\ ShapeInv /\ [Next]_vars => ShapeInv'
  <2> SUFFICES ASSUME TypeOK, RowInv, ShapeInv, [Next]_vars, NEW j \in Jobs
               PROVE  JobShape(j)' /\ \A t \in Tasks : CallShape(t, j)'
    BY DEF ShapeInv
  <2>1. JobShape(j) /\ \A t \in Tasks : CallShape(t, j)
    BY DEF ShapeInv
  <2>2. ASSUME NEW t \in Tasks, TaskNext(t)
        PROVE  JobShape(j)' /\ \A u \in Tasks : CallShape(u, j)'
    <3>1. ASSUME NEW u \in Tasks \ {t} PROVE CallShape(u, j)'
      <4>1. /\ pc'[u] = pc[u] /\ job'[u] = job[u] /\ mem'[u] = mem[u]
            /\ shape' = shape
        BY <2>2, OthersStay, ShapeStep
      <4> QED BY <2>1, <4>1 DEF CallShape, Plain, Unguarded
    <3> QED BY <2>2, <3>1, ShapeCall, ShapeJob
  <2>3. CASE \A t \in Tasks : ~TaskNext(t)
    <3>1. Quiet
      BY <2>3, QuietStep
    <3>2. JobShape(j)'
      BY <2>1, <3>1, LogKept DEF Quiet, JobShape, Plain, Unguarded, LLMCats
    <3>3. ASSUME NEW u \in Tasks PROVE CallShape(u, j)'
      <4>1. /\ \/ job'[u] = None
               \/ pc'[u] = pc[u] /\ job'[u] = job[u] /\ mem'[u] = mem[u]
            /\ shape' = shape
        BY <3>1 DEF Quiet, Stops
      <4>2. j # None
        BY PipelineAssumption
      <4>3. CASE job'[u] = None
        BY <4>2, <4>3 DEF CallShape
      <4>4. CASE pc'[u] = pc[u] /\ job'[u] = job[u] /\ mem'[u] = mem[u]
        BY <2>1, <4>1, <4>4 DEF CallShape, Plain, Unguarded
      <4> QED BY <4>1, <4>3, <4>4
    <3> QED BY <3>2, <3>3
  <2> QED BY <2>2, <2>3
<1> QED BY TypeCorrect, RowCorrect, <1>1, <1>2, PTL DEF Spec

\* A clean single-candidate pick that the guard rejected is in no event, by
\* whichever call, sweep, restart or replica: the LLM is never asked about it
\* and the guard answers once (the direct tier of process_job, and
\* _resume_pending_notifications_unlocked).
THEOREM DirectRejectionHolds ==
  ASSUME Timely
  PROVE  Spec => []DirectRejectionIsFinal
<1>1. TypeOK /\ ApprovalInv /\ VerdictInv /\ ShapeInv => DirectRejectionIsFinal
  <2> SUFFICES ASSUME TypeOK, ApprovalInv, VerdictInv, ShapeInv, NEW j \in Jobs,
                      shape[j] = "direct", Rejected(j), publishes[j] # 0
               PROVE  FALSE
    BY DEF DirectRejectionIsFinal
  <2>1. JobShape(j) /\ JobVerdict(j) /\ Entries(j) \subseteq GuardRow
    BY LogRead DEF ShapeInv, VerdictInv
  <2>2. PICK g \in Entries(j) : g.verdict = "do_not_notify"
    BY LogRead
  <2>3. g.by = "guard" /\ ByGuard(g) /\ GuardEnabled
    BY <2>1, <2>2 DEF JobShape, Plain, ByGuard
  <2>4. publishes[j] > 0
    BY DEF TypeOK, OutType
  <2>5. PICK h \in Entries(j) : h.verdict = "notify"
    BY <2>1, <2>3, <2>4 DEF ApprovalInv, PublishedWasApproved, Approved,
                            JobShape, Entries
  <2>6. ByGuard(h)
    BY <2>1, <2>5 DEF JobShape, Plain, ByGuard
  <2> QED BY <2>1, <2>2, <2>3, <2>5, <2>6 DEF JobVerdict
<1> QED BY TypeCorrect, ApprovalCorrect, VerdictCorrect, ShapeCorrect, <1>1, PTL

-----------------------------------------------------------------------------
(* The rescue: a pick the guard rejected reaches the LLM once more, and its *)
(* audit row ends the log in favour of the job.                             *)

NotifyLast(j) == Verdict(j).verdict = "notify"
JobRescue(j) ==
  /\ row[j].reason = "Guard Fallback" => Rejected(j)
  /\ \A g \in Entries(j) : /\ g.by = "rescue" => Rejected(j)
                           /\ g.verdict = "do_not_notify" => g.by = "guard"
                           /\ g.verdict = "notify" => NotifyLast(j)
  /\ shape[j] = "tiebreak" /\ LLMCats(j) # {} => NotifyLast(j)
CallRescue(t, j) == job[t] = j =>
  /\ pc[t] \in {"fallback", "suppress"} \/ mem[t].recheck => Rejected(j)
  /\ shape[j] = "tiebreak" /\ pc[t] \in {"llm", "llm_error", "rescue", "audit"}
       => mem[t].recheck
  /\ pc[t] = "rescue" => mem[t].recheck /\ mem[t].final = "Accepted"
  /\ pc[t] = "audit" => /\ mem[t].final \in {"Accepted", "Rejected"}
                        /\ mem[t].recheck /\ mem[t].final = "Accepted"
                             => NotifyLast(j)
RescueInv == \A j \in Jobs : JobRescue(j) /\ \A t \in Tasks : CallRescue(t, j)

\* A rejection stays on record, and the guard is not asked about a job whose
\* log ends in a notify.
LEMMA RescueLog ==
  ASSUME TypeOK, VerdictInv, RescueInv, NEW t \in Tasks, TaskNext(t),
         NEW j \in Jobs
  PROVE  /\ Rejected(j) => Rejected(j)'
         /\ NotifyLast(j) => NotifyLast(j)'
         /\ \A g \in Entries(j)' :
              /\ g.by = "rescue" => Rejected(j)'
              /\ g.verdict = "do_not_notify" => g.by = "guard"
              /\ g.verdict = "notify" => NotifyLast(j)'
<1>1. /\ Rejected(j) <=> \E g \in Entries(j) : g.verdict = "do_not_notify"
      /\ Rejected(j)' <=> \E g \in Entries(j)' : g.verdict = "do_not_notify"
  BY DEF Rejected, Entries
<1>2. JobRescue(j) /\ CallRescue(t, j) /\ CallVerdict(t, j)
  BY DEF RescueInv, VerdictInv
<1>3. CASE guardlog'[j] = guardlog[j]
  <2>1. Entries(j)' = Entries(j) /\ Verdict(j)' = Verdict(j)
    BY <1>3, LogKept
  <2> QED BY <1>1, <1>2, <2>1 DEF JobRescue, NotifyLast
<1>4. ASSUME NEW g, LogMoves(t, j, g)
      PROVE  /\ Rejected(j) => Rejected(j)'
             /\ NotifyLast(j) => NotifyLast(j)'
             /\ \A h \in Entries(j)' :
                  /\ h.by = "rescue" => Rejected(j)'
                  /\ h.verdict = "do_not_notify" => h.by = "guard"
                  /\ h.verdict = "notify" => NotifyLast(j)'
  <2>1. /\ Entries(j)' = Entries(j) \cup {g} /\ Verdict(j)' = g
        /\ job[t] = j
    BY <1>4, LogAppended DEF LogMoves
  <2>2. CASE pc[t] = "rescue" /\ g.verdict = "notify"
    BY <1>1, <1>2, <2>1, <2>2 DEF CallRescue, JobRescue, NotifyLast
  <2>3. CASE pc[t] = "evaluate" /\ g.by = "guard"
    <3>1. ~HasVerdict(j)
      BY <1>2, <2>1, <2>3 DEF CallVerdict, At
    <3>2. ~Rejected(j)
      BY <1>1, <1>2, <3>1 DEF HasVerdict, ByGuard, JobRescue
    <3>3. \A h \in Entries(j) : h.verdict # "notify"
      <4> SUFFICES ASSUME NEW h \in Entries(j), h.verdict = "notify"
                   PROVE  FALSE
        OBVIOUS
      <4>1. h \in GuardRow
        BY LogRead
      <4>2. h.by \in {"guard", "rescue"}
        BY <4>1 DEF GuardRow
      <4> QED BY <1>2, <3>1, <3>2, <4>2 DEF HasVerdict, ByGuard, JobRescue
    <3>4. ~NotifyLast(j)
      <4>1. NoVerdict.verdict = ""
        BY DEF NoVerdict
      <4> QED BY <3>3, <4>1, LogRead DEF NotifyLast
    <3> QED BY <1>1, <1>2, <2>1, <2>3, <3>2, <3>3, <3>4
            DEF JobRescue, NotifyLast
  <2> QED BY <1>4, <2>2, <2>3 DEF LogMoves
<1> QED BY <1>3, <1>4, LogStep

LEMMA RescueCall ==
  ASSUME TypeOK, RowInv, VerdictInv, RescueInv, NEW t \in Tasks, TaskNext(t),
         NEW j \in Jobs
  PROVE  CallRescue(t, j)'
<1>1. /\ CallMoves(t) /\ JobRescue(j) /\ CallRescue(t, j) /\ CallRow(t)
      /\ shape' = shape
  BY CallStep, ShapeStep DEF RowInv, RescueInv
<1>2. /\ Rejected(j) => Rejected(j)'
      /\ NotifyLast(j) => NotifyLast(j)'
  BY RescueLog
<1>3. ~BlankMemo.recheck
  BY DEF BlankMemo
<1>4. Verdict(j).verdict = "do_not_notify" => Rejected(j)
  <2>1. NoVerdict.verdict = ""
    BY DEF NoVerdict
  <2> QED BY <2>1, LogRead
<1>5. CASE StartMoves(t)
  <2>1. /\ ~mem[t].recheck
        /\ pc'[t] \in {"idle", "get_job", "lock"} /\ mem'[t] = mem[t]
    BY <1>1, <1>5 DEF StartMoves, CallRow, Early
  <2> QED BY <2>1 DEF CallRescue
<1>6. CASE Stops(t) \/ EndMoves(t)
  <2>1. ~mem'[t].recheck /\ pc'[t] \in {"idle", "mark_seen"}
    BY <1>3, <1>6 DEF Stops, EndMoves, Marks
  <2> QED BY <2>1 DEF CallRescue
<1>7. CASE EntryMoves(t)
  <2>1. /\ job'[t] = job[t]
        /\ pc'[t] \in {"create", "lock", "claim", "accepted", "dedup",
                       "reread"}
        /\ \/ mem'[t].recheck = mem[t].recheck
           \/ mem'[t].recheck = (row[job[t]].reason = "Guard Fallback")
    BY <1>7 DEF EntryMoves, With, To
  <2>2. job[t] = j => (mem'[t].recheck => Rejected(j))
    BY <1>1, <2>1 DEF CallRescue, JobRescue
  <2> QED BY <1>2, <2>1, <2>2 DEF CallRescue
<1>8. CASE AttemptMoves(t)
  <2>1. CASE job'[t] = j /\ pc'[t] = "audit" /\ pc[t] = "rescue"
    <3>1. /\ To(t, "audit") /\ job[t] = j
      BY <1>8, <2>1 DEF AttemptMoves, With, To
    <3>2. NotifyLast(j)'
      <4>1. PICK g : LogMoves(t, j, g)
        BY <2>1, <3>1, LogAdvance
      <4>2. Verdict(j)' = g
        BY <4>1, LogAppended DEF LogMoves
      <4> QED BY <2>1, <4>1, <4>2 DEF LogMoves, NotifyLast
    <3> QED BY <1>1, <1>2, <2>1, <3>1, <3>2 DEF CallRescue, With, To
  <2>2. CASE ~(pc'[t] = "audit" /\ pc[t] = "rescue")
    BY <1>1, <1>2, <1>3, <1>8, <2>2 DEF AttemptMoves, With, To, CallRescue,
                                        CallRow
  <2>3. job'[t] = job[t]
    BY <1>8 DEF AttemptMoves, With, To
  <2> QED BY <2>1, <2>2, <2>3 DEF CallRescue
<1>9. CASE LockedMoves(t)
  <2>1. job'[t] = job[t] /\ (mem'[t].recheck => mem[t].recheck)
    BY <1>9 DEF LockedMoves, With, To
  <2>2. pc'[t] \notin {"llm", "llm_error", "rescue", "audit"}
    BY <1>9 DEF LockedMoves, With, To
  <2>3. pc'[t] \in {"fallback", "suppress"} =>
          Verdict(job[t]).verdict = "do_not_notify"
    BY <1>9 DEF LockedMoves, With, To
  <2> QED BY <1>1, <1>2, <1>4, <2>1, <2>2, <2>3 DEF CallRescue
<1> QED BY <1>1, <1>5, <1>6, <1>7, <1>8, <1>9 DEF CallMoves

LEMMA RescueJob ==
  ASSUME TypeOK, VerdictInv, RescueInv, NEW t \in Tasks, TaskNext(t),
         NEW j \in Jobs
  PROVE  JobRescue(j)'
<1>1. JobRescue(j) /\ CallRescue(t, j) /\ shape' = shape
  BY ShapeStep DEF RescueInv
<1>2. row'[j].reason = "Guard Fallback" => Rejected(j)
  <2>1. CASE RowMoves(t, j)
    BY <1>1, <2>1 DEF RowMoves, Becomes, JobRescue, CallRescue
  <2> QED BY <1>1, <2>1, RowStep DEF JobRescue
<1>3. shape[j] = "tiebreak" /\ LLMCats(j)' # {} => NotifyLast(j)
  <2>1. "none" \notin Chosen
    BY DEF Chosen
  <2>2. CASE gemini'[j] = gemini[j]
    BY <1>1, <2>2 DEF JobRescue, LLMCats
  <2>3. CASE /\ job[t] = j /\ pc[t] = "audit"
             /\ gemini'[j] = gemini[j] \cup
                  {IF mem[t].final = "Rejected" THEN "none" ELSE mem[t].cat}
    <3>1. shape[j] = "tiebreak" /\ mem[t].final # "Rejected" => NotifyLast(j)
      BY <1>1, <2>3 DEF CallRescue
    <3>2. mem[t].final = "Rejected" => LLMCats(j)' = LLMCats(j)
      BY <2>1, <2>3 DEF LLMCats
    <3> QED BY <1>1, <3>1, <3>2 DEF JobRescue
  <2> QED BY <2>2, <2>3, GeminiStep
<1> QED BY <1>1, <1>2, <1>3, RescueLog DEF JobRescue

LEMMA RescueCorrect == ASSUME Timely PROVE Spec => []RescueInv
<1>1. Init => RescueInv
  <2> SUFFICES ASSUME Init, NEW j \in Jobs
               PROVE  JobRescue(j) /\ \A t \in Tasks : CallRescue(t, j)
    BY DEF RescueInv
  <2>1. /\ row[j] = BlankRow /\ guardlog[j] = <<>> /\ gemini[j] = {}
        /\ \A t \in Tasks : job[t] = None
    BY DEF Init, InitKnowing
  <2>2. BlankRow.reason = "filter"
    BY DEF BlankRow
  <2>3. Entries(j) = {} /\ LLMCats(j) = {}
    BY <2>1 DEF Entries, LLMCats
  <2> QED BY <2>1, <2>2, <2>3, PipelineAssumption DEF JobRescue, CallRescue
<1>2. TypeOK /\ RowInv /\ VerdictInv /\ RescueInv /\ [Next]_vars => RescueInv'
  <2> SUFFICES ASSUME TypeOK, RowInv, VerdictInv, RescueInv, [Next]_vars,
                      NEW j \in Jobs
               PROVE  JobRescue(j)' /\ \A t \in Tasks : CallRescue(t, j)'
    BY DEF RescueInv
  <2>1. JobRescue(j) /\ \A t \in Tasks : CallRescue(t, j)
    BY DEF RescueInv
  <2>2. ASSUME NEW t \in Tasks, TaskNext(t)
        PROVE  JobRescue(j)' /\ \A u \in Tasks : CallRescue(u, j)'
    <3>1. ASSUME NEW u \in Tasks \ {t} PROVE CallRescue(u, j)'
      <4>1. /\ pc'[u] = pc[u] /\ job'[u] = job[u] /\ mem'[u] = mem[u]
            /\ shape' = shape
        BY <2>2, OthersStay, ShapeStep
      <4>2. /\ Rejected(j) => Rejected(j)'
            /\ NotifyLast(j) => NotifyLast(j)'
        BY <2>2, RescueLog
      <4> QED BY <2>1, <4>1, <4>2 DEF CallRescue
    <3> QED BY <2>2, <3>1, RescueCall, RescueJob
  <2>3. CASE \A t \in Tasks : ~TaskNext(t)
    <3>1. Quiet
      BY <2>3, QuietStep
    <3>2. /\ Entries(j)' = Entries(j) /\ LLMCats(j)' = LLMCats(j)
          /\ Rejected(j)' <=> Rejected(j)
          /\ NotifyLast(j)' <=> NotifyLast(j)
          /\ row'[j].reason = row[j].reason /\ shape' = shape
      BY <3>1, LogKept DEF Quiet, Rejected, NotifyLast, LLMCats
    <3>3. JobRescue(j)'
      BY <2>1, <3>2 DEF JobRescue
    <3>4. ASSUME NEW u \in Tasks PROVE CallRescue(u, j)'
      <4>1. \/ job'[u] = None
            \/ pc'[u] = pc[u] /\ job'[u] = job[u] /\ mem'[u] = mem[u]
        BY <3>1 DEF Quiet, Stops
      <4>2. j # None
        BY PipelineAssumption
      <4>3. CASE job'[u] = None
        BY <4>2, <4>3 DEF CallRescue
      <4>4. CASE pc'[u] = pc[u] /\ job'[u] = job[u] /\ mem'[u] = mem[u]
        BY <2>1, <3>2, <4>4 DEF CallRescue
      <4> QED BY <4>1, <4>3, <4>4
    <3> QED BY <3>3, <3>4
  <2> QED BY <2>2, <2>3
<1> QED BY TypeCorrect, RowCorrect, VerdictCorrect, <1>1, <1>2, PTL DEF Spec

-----------------------------------------------------------------------------
(* The per-job lock: within one process no two calls are inside the         *)
(* notification workflow of one job.                                        *)

LockInv == \A t, u \in Tasks :
  (/\ pc[t] \in LockedLabels /\ pc[u] \in LockedLabels
   /\ job[t] = job[u] /\ ProcOf[t] = ProcOf[u]) => t = u

\* A call enters the workflow through the lock and keeps its job in it.
LEMMA LockEntry ==
  ASSUME TypeOK, NEW t \in Tasks, TaskNext(t), pc'[t] \in LockedLabels
  PROVE  /\ job'[t] = job[t]
         /\ \/ pc[t] \in LockedLabels
            \/ /\ pc[t] = "lock" /\ LockFree(t)
               /\ row[job[t]].status \notin {"Complete", "Suppressed"}
BY CallStep DEF CallMoves, StartMoves, Stops, EndMoves, Marks, EntryMoves,
   AttemptMoves, LockedMoves, With, To, LockedLabels

LEMMA LockCorrect == Spec => []LockInv
<1>1. Init => LockInv
  BY DEF Init, InitKnowing, LockInv, LockedLabels
<1>2. TypeOK /\ LockInv /\ [Next]_vars => LockInv'
  <2> SUFFICES ASSUME TypeOK, LockInv, [Next]_vars PROVE LockInv'
    OBVIOUS
  <2>1. ASSUME NEW t \in Tasks, TaskNext(t) PROVE LockInv'
    <3>1. \A u \in Tasks \ {t} : pc'[u] = pc[u] /\ job'[u] = job[u]
      BY <2>1, OthersStay
    <3>2. ASSUME pc'[t] \in LockedLabels, NEW u \in Tasks \ {t},
                 pc'[u] \in LockedLabels, job'[t] = job'[u],
                 ProcOf[t] = ProcOf[u]
          PROVE  FALSE
      BY <2>1, <3>1, <3>2, LockEntry DEF LockInv, LockFree
    <3> QED BY <3>1, <3>2 DEF LockInv
  <2>2. CASE \A t \in Tasks : ~TaskNext(t)
    <3>1. \A u \in Tasks : \/ pc'[u] = pc[u] /\ job'[u] = job[u]
                           \/ pc'[u] = "idle"
      BY <2>2, QuietStep DEF Quiet, Stops
    <3>2. "idle" \notin LockedLabels
      BY DEF LockedLabels
    <3> QED BY <3>1, <3>2 DEF LockInv
  <2> QED BY <2>1, <2>2
<1> QED BY TypeCorrect, <1>1, <1>2, PTL DEF Spec

-----------------------------------------------------------------------------
(* Where one process runs the pipeline, a suppression is final.             *)

CallSuppress(t, j) ==
  /\ At(t, j, {"suppress"}) => publishes[j] = 0
  /\ At(t, j, LockedLabels) => row[j].status \notin {"Suppressed", "Complete"}
SuppressInv ==
  SuppressedNeverPublished /\ \A t \in Tasks, j \in Jobs : CallSuppress(t, j)

\* A job whose last verdict is a rejection has not been published.
LEMMA RejectedUnpublished ==
  ASSUME TypeOK, ApprovalInv, RescueInv, ShapeInv, NEW t \in Tasks,
         NEW j \in Jobs, job[t] = j, pc[t] = "verdict",
         Verdict(j).verdict = "do_not_notify"
  PROVE  publishes[j] = 0
<1> SUFFICES ASSUME publishes[j] # 0 PROVE FALSE
  OBVIOUS
<1>1. /\ JobRescue(j) /\ JobShape(j) /\ CallShape(t, j)
      /\ shape[j] \in AllShapes /\ publishes[j] > 0
  BY PipelineAssumption
     DEF RescueInv, ShapeInv, TypeOK, OutType, EnvType
<1>2. GuardEnabled /\ ~NotifyLast(j) /\ Approved(j)
  BY <1>1 DEF CallShape, LockedLabels, NotifyLast, ApprovalInv,
              PublishedWasApproved
<1>3. Entries(j) # {}
  <2>1. NoVerdict.verdict = ""
    BY DEF NoVerdict
  <2> QED BY <2>1, LogRead
<1>4. LLMCats(j) = {}
  BY <1>1, <1>2, <1>3 DEF JobRescue, JobShape, Unguarded, AllShapes
<1>5. PICK g \in Entries(j) : g.verdict = "notify"
  BY <1>2, <1>4 DEF Approved, Entries
<1> QED BY <1>1, <1>2, <1>5 DEF JobRescue

LEMMA SuppressCall ==
  ASSUME OneProcess, TypeOK, ApprovalInv, RescueInv, ShapeInv, LockInv,
         SuppressInv, NEW t \in Tasks, TaskNext(t), NEW u \in Tasks,
         NEW j \in Jobs
  PROVE  CallSuppress(u, j)'
<1>1. CallSuppress(u, j) /\ CallSuppress(t, j)
  BY DEF SuppressInv
<1>2. pc[t] \in LockedLabels /\ pc[u] \in LockedLabels /\ job[t] = job[u]
        => t = u
  BY DEF LockInv, OneProcess
<1>3. \/ publishes'[j] = publishes[j]
      \/ job[t] = j /\ pc[t] = "publish"
  BY StreamStep
<1>4. \/ row'[j].status = row[j].status \/ row'[j].status \in {"", "Pending"}
      \/ job[t] = j /\ pc[t] \in {"suppress", "complete"}
  <2>1. CASE RowMoves(t, j)
    BY <2>1 DEF RowMoves, Becomes
  <2> QED BY <2>1, RowStep
<1>5. CASE u # t
  BY <1>1, <1>2, <1>3, <1>4, <1>5, OthersStay
     DEF CallSuppress, At, LockedLabels
<1>6. CASE u = t
  <2>1. pc[t] \in {"suppress", "complete"} => pc'[t] \notin LockedLabels
    BY CallStep DEF CallMoves, StartMoves, Stops, EndMoves, Marks, EntryMoves,
       AttemptMoves, LockedMoves, With, To, LockedLabels
  <2>2. pc'[t] = "suppress" =>
          /\ pc[t] = "verdict" /\ job'[t] = job[t]
          /\ Verdict(job[t]).verdict = "do_not_notify"
    BY CallStep DEF CallMoves, StartMoves, Stops, EndMoves, Marks, EntryMoves,
       AttemptMoves, LockedMoves, With, To
  <2>3. ASSUME pc'[t] = "suppress", job'[t] = j PROVE publishes'[j] = 0
    <3>1. /\ job[t] = j /\ pc[t] = "verdict"
          /\ Verdict(j).verdict = "do_not_notify"
      BY <2>2, <2>3
    <3> QED BY <1>3, <3>1, RejectedUnpublished
  <2>4. ASSUME pc'[t] \in LockedLabels, job'[t] = j
        PROVE  row'[j].status \notin {"Suppressed", "Complete"}
    BY <1>1, <1>4, <2>1, <2>4, LockEntry DEF CallSuppress, At
  <2> QED BY <1>6, <2>3, <2>4 DEF CallSuppress, At
<1> QED BY <1>5, <1>6

LEMMA SuppressJob ==
  ASSUME TypeOK, SuppressInv, NEW t \in Tasks, TaskNext(t), NEW j \in Jobs,
         row'[j].status = "Suppressed"
  PROVE  publishes'[j] = 0
<1>1. CallSuppress(t, j) /\ (row[j].status = "Suppressed" => publishes[j] = 0)
  BY DEF SuppressInv, SuppressedNeverPublished
<1>2. row[j].status = "Suppressed" \/ At(t, j, {"suppress"})
  <2>1. CASE RowMoves(t, j)
    BY <2>1 DEF RowMoves, Becomes, At
  <2> QED BY <2>1, RowStep
<1>3. publishes[j] = 0
  BY <1>1, <1>2 DEF CallSuppress
<1>4. \/ publishes'[j] = publishes[j]
      \/ At(t, j, {"publish"})
  BY StreamStep DEF At
<1> QED BY <1>1, <1>2, <1>3, <1>4 DEF CallSuppress, At, LockedLabels

LEMMA SuppressCorrect ==
  ASSUME Timely, OneProcess PROVE Spec => []SuppressInv
<1>1. Init => SuppressInv
  <2> SUFFICES ASSUME Init PROVE SuppressInv
    OBVIOUS
  <2>1. /\ \A t \in Tasks : pc[t] = "idle"
        /\ \A j \in Jobs : publishes[j] = 0
    BY DEF Init, InitKnowing
  <2> QED BY <2>1 DEF SuppressInv, SuppressedNeverPublished, CallSuppress, At,
                      LockedLabels
<1>2. /\ TypeOK /\ ApprovalInv /\ RescueInv /\ ShapeInv /\ LockInv
      /\ SuppressInv /\ [Next]_vars
      => SuppressInv'
  <2> SUFFICES ASSUME TypeOK, ApprovalInv, RescueInv, ShapeInv, LockInv,
                      SuppressInv, [Next]_vars
               PROVE  SuppressInv'
    OBVIOUS
  <2>1. ASSUME NEW t \in Tasks, TaskNext(t) PROVE SuppressInv'
    BY <2>1, SuppressCall, SuppressJob
       DEF SuppressInv, SuppressedNeverPublished
  <2>2. CASE \A t \in Tasks : ~TaskNext(t)
    <3>1. /\ \A j \in Jobs : row'[j].status = row[j].status
          /\ publishes' = publishes
          /\ \A u \in Tasks : \/ pc'[u] = pc[u] /\ job'[u] = job[u]
                              \/ pc'[u] = "idle"
      BY <2>2, QuietStep DEF Quiet, Stops, out
    <3>2. \A u \in Tasks, j \in Jobs : CallSuppress(u, j)'
      BY <3>1 DEF SuppressInv, CallSuppress, At, LockedLabels
    <3> QED BY <3>1, <3>2 DEF SuppressInv, SuppressedNeverPublished
  <2> QED BY <2>1, <2>2
<1> QED BY TypeCorrect, ApprovalCorrect, RescueCorrect, ShapeCorrect,
           LockCorrect, <1>1, <1>2, PTL DEF Spec

\* A job recorded as Suppressed is in no event, whatever sweeps, resumes and
\* crashes ran over it, as long as one process runs the pipeline: the per-job
\* lock of _resume_pending_notifications is an asyncio lock of the process.
THEOREM SuppressionHolds ==
  ASSUME Timely, OneProcess
  PROVE  Spec => []SuppressedNeverPublished
<1>1. SuppressInv => SuppressedNeverPublished
  BY DEF SuppressInv
<1> QED BY SuppressCorrect, <1>1, PTL

-----------------------------------------------------------------------------
(* The classification claim: one attempt at a time on one row.              *)

\* No two source tasks hand over the same job: its identity is derived from
\* the source it was found on (job_uuid).
NoSourceShared == \A t, u \in Tasks :
  RoleOf[t] = "source" /\ RoleOf[u] = "source" /\ t # u
    => Delivers[t] \cap Delivers[u] = {}

\* Labels a call reaches only with a decision on the row.
LateLabels == LockedLabels \cup {"accepted", "status", "shorten", "lock"}
Arbitrable(j) == \/ row[j].final = ""
                 \/ row[j].final = "Pending" /\ row[j].waiting
CallClaim(t, j) ==
  /\ At(t, j, LateLabels) => row[j].final # ""
  /\ job[t] = j /\ RoleOf[t] = "classification" => row[j].final # ""
  /\ j \in todo[t] => row[j].final # ""
  /\ At(t, j, AttemptLabels) => Arbitrable(j)
  /\ At(t, j, {"rescue", "audit", "finalize"}) =>
       mem[t].final \in {"Accepted", "Rejected"}
  /\ At(t, j, {"create"}) => j \notin created
  /\ pc[t] # "reread"
OneAttempt(j) == \A t, u \in Tasks :
  At(t, j, AttemptLabels) /\ At(u, j, AttemptLabels) => t = u
ClaimInv == \A j \in Jobs : /\ row[j].status # "" => row[j].final # ""
                            /\ OneAttempt(j)
                            /\ \A t \in Tasks : CallClaim(t, j)

\* Two source tasks are never on the same job.
LEMMA OneSource ==
  ASSUME NoSourceShared, RowInv, NEW t \in Tasks, NEW u \in Tasks,
         RoleOf[t] = "source", RoleOf[u] = "source",
         pc[t] # "idle", pc[u] # "idle", job[t] = job[u]
  PROVE  t = u
<1>1. CallRow(t) /\ CallRow(u)
  BY DEF RowInv
<1>2. job[t] \in Delivers[t] \cap Delivers[u]
  BY <1>1 DEF CallRow
<1> QED BY <1>2 DEF NoSourceShared

\* A decision is not undone, and only the attempt's own call, or a fallback
\* of a row that waits, rewrites it.
LEMMA DecisionStep ==
  ASSUME TypeOK, RowInv, ClaimInv, NEW t \in Tasks, TaskNext(t), NEW j \in Jobs
  PROVE  /\ row[j].final # "" => row'[j].final # ""
         /\ \/ row'[j].final = row[j].final
               /\ (row[j].waiting => row'[j].waiting)
            \/ row'[j].final = "Pending" /\ row'[j].waiting /\ row[j].final # ""
            \/ At(t, j, AttemptLabels)
            \/ j \notin created
         /\ row'[j].status # "" => row'[j].final # ""
<1>1. /\ CallClaim(t, j) /\ CallRow(t)
      /\ row[j].status # "" => row[j].final # ""
  BY DEF ClaimInv, RowInv
<1>2. j \notin created => row[j].final = ""
  <2>1. BlankRow.final = ""
    BY DEF BlankRow
  <2> QED BY <2>1 DEF RowInv, Untouched
<1>3. CASE RowMoves(t, j)
  BY <1>1, <1>2, <1>3 DEF RowMoves, Becomes, CallClaim, At, LateLabels,
     LockedLabels, AttemptLabels
<1> QED BY <1>1, <1>3, RowStep

\* How an attempt begins.
LEMMA AttemptEntry ==
  ASSUME TypeOK, NEW t \in Tasks, TaskNext(t), pc'[t] \in AttemptLabels
  PROVE  /\ job'[t] = job[t]
         /\ \/ pc[t] \in AttemptLabels
            \/ /\ pc[t] = "get_job" /\ job[t] \in created
               /\ row[job[t]].final = ""
            \/ /\ pc[t] = "claim" /\ row[job[t]].final = "Pending"
               /\ ~row[job[t]].waiting /\ row'[job[t]].waiting
            \/ pc[t] = "create" /\ job[t] \notin created
<1>1. CASE EntryMoves(t)
  BY <1>1 DEF EntryMoves, With, To, AttemptLabels
<1>2. CASE AttemptMoves(t)
  BY <1>2 DEF AttemptMoves, With, To, AttemptLabels
<1>3. CASE LockedMoves(t)
  BY <1>3 DEF LockedMoves, With, To, AttemptLabels
<1>4. CASE StartMoves(t) \/ Stops(t) \/ EndMoves(t)
  BY <1>4 DEF StartMoves, Stops, EndMoves, Marks, AttemptLabels
<1> QED BY <1>1, <1>2, <1>3, <1>4, CallStep DEF CallMoves

\* Inside an attempt the row stays as it is until the attempt's last write.
LEMMA AttemptRow ==
  ASSUME TypeOK, NEW t \in Tasks, TaskNext(t), pc[t] \in AttemptLabels,
         pc'[t] \in AttemptLabels
  PROVE  row'[job[t]] = row[job[t]]
<1>1. job[t] \in Jobs
  BY DEF TypeOK, CtlType, AttemptLabels
<1>2. pc[t] \notin {"llm_error", "duplicate", "finalize"}
  BY CallStep DEF CallMoves, StartMoves, Stops, EndMoves, Marks, EntryMoves,
     AttemptMoves, LockedMoves, With, To, AttemptLabels
<1> QED BY <1>1, <1>2, RowStep DEF RowMoves, AttemptLabels

LEMMA ClaimCall ==
  ASSUME NoSourceShared, TypeOK, RowInv, ClaimInv, NEW t \in Tasks,
         TaskNext(t), NEW j \in Jobs
  PROVE  CallClaim(t, j)'
<1>1. /\ CallMoves(t) /\ CallRow(t) /\ CallClaim(t, j)
      /\ row[j].status # "" => row[j].final # ""
      /\ created' = created \/ job[t] \in created'
  BY CallStep, CreatedStep DEF RowInv, ClaimInv
<1>2. row[j].final # "" => row'[j].final # ""
  BY DecisionStep
<1>3. At(t, j, LateLabels)' => row'[j].final # ""
  <2> SUFFICES ASSUME job'[t] = j, pc'[t] \in LateLabels
               PROVE  row'[j].final # ""
    BY DEF At
  <2>1. \/ pc[t] \in LateLabels /\ job[t] = j
        \/ pc[t] = "get_job" /\ row[j].status # "" /\ job[t] = j
        \/ pc[t] = "get_job" /\ row[j].final = "Accepted" /\ job[t] = j
        \/ j \in todo[t]
        \/ pc[t] = "finalize" /\ row'[j].final = "Accepted" /\ job[t] = j
    BY <1>1 DEF CallMoves, StartMoves, Stops, EndMoves, Marks, EntryMoves,
       AttemptMoves, LockedMoves, With, To, LateLabels, LockedLabels, CallClaim
  <2> QED BY <1>1, <1>2, <2>1 DEF CallClaim, At
<1>4. job'[t] = j /\ RoleOf[t] = "classification" => row'[j].final # ""
  <2> SUFFICES ASSUME job'[t] = j, RoleOf[t] = "classification"
               PROVE  row'[j].final # ""
    OBVIOUS
  <2>1. j # None
    BY PipelineAssumption
  <2>2. job[t] = j \/ j \in todo[t]
    BY <1>1, <2>1 DEF CallMoves, StartMoves, Stops, EndMoves, Marks,
       EntryMoves, AttemptMoves, LockedMoves, With, To
  <2> QED BY <1>1, <1>2, <2>2 DEF CallClaim
<1>5. j \in todo'[t] => row'[j].final # ""
  <2>1. j \in todo'[t] => \/ j \in todo[t] \/ j \in DueClassifications
                          \/ j \in DueNotifications
    BY <1>1 DEF CallMoves, StartMoves
  <2> QED BY <1>1, <1>2, <2>1 DEF CallClaim, DueClassifications,
                                  DueNotifications
<1>6. At(t, j, AttemptLabels)' => Arbitrable(j)'
  <2> SUFFICES ASSUME job'[t] = j, pc'[t] \in AttemptLabels
               PROVE  Arbitrable(j)'
    BY DEF At
  <2>1. CASE pc[t] \in AttemptLabels
    BY <1>1, <2>1, AttemptEntry, AttemptRow DEF CallClaim, At, Arbitrable
  <2>2. CASE pc[t] = "get_job"
    BY <2>2, AttemptEntry, RowStep DEF Arbitrable, RowMoves, AttemptLabels
  <2>3. CASE pc[t] = "claim" \/ pc[t] = "create"
    <3>1. row'[j] = row[j] \/ RowMoves(t, j)
      BY RowStep
    <3>2. job[t] = j
      BY AttemptEntry
    <3>3. pc[t] = "claim" => /\ row[j].final = "Pending" /\ row'[j].waiting
      BY <3>2, AttemptEntry DEF AttemptLabels
    <3>4. pc[t] = "create" => row[j].final = ""
      <4>1. BlankRow.final = ""
        BY DEF BlankRow
      <4> QED BY <1>1, <3>2, <4>1 DEF RowInv, Untouched, CallClaim, At
    <3> QED BY <2>3, <3>1, <3>3, <3>4 DEF RowMoves, Becomes, Arbitrable
  <2> QED BY <2>1, <2>2, <2>3, AttemptEntry
<1>7. At(t, j, {"rescue", "audit", "finalize"})' =>
        mem'[t].final \in {"Accepted", "Rejected"}
  BY <1>1 DEF CallMoves, StartMoves, Stops, EndMoves, Marks, EntryMoves,
     AttemptMoves, LockedMoves, With, To, At, CallClaim
<1>8. At(t, j, {"create"})' => j \notin created'
  <2> SUFFICES ASSUME job'[t] = j, pc'[t] = "create" PROVE j \notin created'
    BY DEF At
  <2>1. job[t] = j /\ pc[t] = "get_job" /\ j \notin created
    BY <1>1 DEF CallMoves, StartMoves, Stops, EndMoves, Marks, EntryMoves,
       AttemptMoves, LockedMoves, With, To
  <2> QED BY <2>1, CreatedStep
<1>9. pc'[t] # "reread"
  <2>1. pc[t] = "create" => job[t] \notin created
    BY DEF ClaimInv, CallClaim, At, TypeOK, CtlType
  <2> QED BY <1>1, <2>1 DEF CallMoves, StartMoves, Stops, EndMoves, Marks,
       EntryMoves, AttemptMoves, LockedMoves, With, To, CallClaim
<1> QED BY <1>3, <1>4, <1>5, <1>6, <1>7, <1>8, <1>9 DEF CallClaim

\* The other calls on the row.
LEMMA ClaimOthers ==
  ASSUME NoSourceShared, TypeOK, RowInv, ClaimInv, NEW t \in Tasks,
         TaskNext(t), NEW u \in Tasks \ {t}, NEW j \in Jobs
  PROVE  CallClaim(u, j)'
<1>1. /\ CallClaim(u, j) /\ CallRow(u) /\ CallRow(t) /\ OneAttempt(j)
      /\ pc'[u] = pc[u] /\ job'[u] = job[u] /\ mem'[u] = mem[u]
      /\ todo'[u] = todo[u]
  BY OthersStay DEF RowInv, ClaimInv
<1>2. row[j].final # "" => row'[j].final # ""
  BY DecisionStep
<1>3. ASSUME At(u, j, AttemptLabels) PROVE Arbitrable(j)'
  <2>1. j \in created
    BY <1>1, <1>3 DEF At, CallRow, Unwritten, AttemptLabels
  <2>2. ~At(t, j, AttemptLabels)
    BY <1>1, <1>3 DEF OneAttempt
  <2> QED BY <1>1, <1>3, <2>1, <2>2, DecisionStep DEF CallClaim, Arbitrable
<1>4. ASSUME At(u, j, {"create"}) PROVE j \notin created'
  <2>1. j \notin created /\ RoleOf[u] = "source"
    BY <1>1, <1>4 DEF CallClaim, CallRow, At
  <2>2. ~At(t, j, {"create"})
    BY <1>1, <1>4, <2>1, OneSource DEF CallRow, At
  <2> QED BY <2>1, <2>2, CreatedStep DEF At
<1> QED BY <1>1, <1>2, <1>3, <1>4 DEF CallClaim, At

LEMMA ClaimOne ==
  ASSUME NoSourceShared, TypeOK, RowInv, ClaimInv, NEW t \in Tasks,
         TaskNext(t), NEW j \in Jobs
  PROVE  OneAttempt(j)'
<1> SUFFICES ASSUME NEW u \in Tasks \ {t}, At(t, j, AttemptLabels)',
                    At(u, j, AttemptLabels)'
             PROVE  FALSE
  <2>1. \A u \in Tasks \ {t} : pc'[u] = pc[u] /\ job'[u] = job[u]
    BY OthersStay
  <2> QED BY <2>1 DEF ClaimInv, OneAttempt, At
<1>1. /\ At(u, j, AttemptLabels) /\ Arbitrable(j) /\ OneAttempt(j)
      /\ CallRow(t) /\ CallRow(u) /\ CallClaim(t, j) /\ CallClaim(u, j)
  BY OthersStay DEF ClaimInv, RowInv, CallClaim, At
<1>2. job[t] = j /\ job'[t] = j
  BY AttemptEntry DEF At
<1>3. j \in created
  BY <1>1 DEF At, CallRow, Unwritten, AttemptLabels
<1>4. CASE pc[t] \in AttemptLabels
  BY <1>1, <1>2, <1>4 DEF OneAttempt, At
<1>5. CASE pc[t] = "get_job" /\ row[j].final = ""
  <2>1. RoleOf[t] \in Roles /\ RoleOf[u] \in Roles
    BY PipelineAssumption
  <2>2. RoleOf[t] = "source" /\ RoleOf[u] = "source"
    BY <1>1, <1>2, <1>5, <2>1 DEF CallClaim, CallRow, At, Roles, LockedLabels,
                                  AttemptLabels
  <2> QED BY <1>1, <1>2, <1>5, <2>2, OneSource DEF At, AttemptLabels
<1>6. CASE /\ row[j].final = "Pending" /\ ~row[j].waiting
  BY <1>1, <1>6 DEF Arbitrable
<1> QED BY <1>2, <1>3, <1>4, <1>5, <1>6, AttemptEntry DEF At

LEMMA ClaimCorrect ==
  ASSUME Timely, NoSourceShared PROVE Spec => []ClaimInv
<1>1. Init => ClaimInv
  <2> SUFFICES ASSUME Init, NEW j \in Jobs
               PROVE  /\ row[j].status # "" => row[j].final # ""
                      /\ OneAttempt(j)
                      /\ \A t \in Tasks : CallClaim(t, j)
    BY DEF ClaimInv
  <2>1. /\ row[j] = BlankRow
        /\ \A t \in Tasks : job[t] = None /\ pc[t] = "idle" /\ todo[t] = {}
    BY DEF Init, InitKnowing
  <2>2. BlankRow.status = ""
    BY DEF BlankRow
  <2>3. j # None
    BY PipelineAssumption
  <2>4. row[j].status = "" /\ OneAttempt(j)
    BY <2>1, <2>2, <2>3 DEF OneAttempt, At
  <2>5. \A t \in Tasks : CallClaim(t, j)
    BY <2>1, <2>3 DEF CallClaim, At
  <2> QED BY <2>4, <2>5
<1>2. TypeOK /\ RowInv /\ ClaimInv /\ [Next]_vars => ClaimInv'
  <2> SUFFICES ASSUME TypeOK, RowInv, ClaimInv, [Next]_vars PROVE ClaimInv'
    OBVIOUS
  <2>1. ASSUME NEW t \in Tasks, TaskNext(t) PROVE ClaimInv'
    BY <2>1, ClaimCall, ClaimOthers, ClaimOne, DecisionStep DEF ClaimInv
  <2>2. CASE \A t \in Tasks : ~TaskNext(t)
    <3>1. Quiet
      BY <2>2, QuietStep
    <3> SUFFICES ASSUME NEW j \in Jobs
                 PROVE  /\ row'[j].status # "" => row'[j].final # ""
                        /\ OneAttempt(j)'
                        /\ \A t \in Tasks : CallClaim(t, j)'
      BY DEF ClaimInv
    <3>2. /\ row'[j].status = row[j].status /\ row'[j].final = row[j].final
          /\ created' = created
          /\ \/ row'[j].waiting = row[j].waiting
             \/ \A t \in Tasks : ~At(t, j, AttemptLabels)
      BY <3>1 DEF Quiet, At
    <3>3. \A u \in Tasks :
            \/ /\ pc'[u] = pc[u] /\ job'[u] = job[u] /\ mem'[u] = mem[u]
               /\ todo'[u] = todo[u]
            \/ pc'[u] = "idle" /\ job'[u] = None /\ todo'[u] = {}
      BY <3>1 DEF Quiet, Stops
    <3>4. "idle" \notin AttemptLabels /\ "idle" \notin LateLabels /\ j # None
      BY PipelineAssumption DEF AttemptLabels, LateLabels, LockedLabels
    <3>5. /\ row[j].status # "" => row[j].final # ""
          /\ OneAttempt(j) /\ \A t \in Tasks : CallClaim(t, j)
      BY DEF ClaimInv
    <3>6. OneAttempt(j)'
      BY <3>3, <3>4, <3>5 DEF OneAttempt, At
    <3>7. ASSUME NEW u \in Tasks PROVE CallClaim(u, j)'
      <4>1. CASE pc'[u] = "idle" /\ job'[u] = None /\ todo'[u] = {}
        BY <3>4, <4>1 DEF CallClaim, At
      <4>2. CASE /\ pc'[u] = pc[u] /\ job'[u] = job[u] /\ mem'[u] = mem[u]
                 /\ todo'[u] = todo[u]
        BY <3>2, <3>5, <4>2 DEF CallClaim, At, Arbitrable
      <4> QED BY <3>3, <4>1, <4>2
    <3> QED BY <3>2, <3>5, <3>6, <3>7
  <2> QED BY <2>1, <2>2
<1> QED BY TypeCorrect, RowCorrect, <1>1, <1>2, PTL DEF Spec

\* Source rediscovery, the retry sweep and a restart never arbitrate one row
\* at the same time: the primary key decides who creates it, and the claim on
\* a pending row is a conditional write no attempt outlives.
THEOREM ArbitrationIsSingle ==
  ASSUME Timely, NoSourceShared
  PROVE  Spec => []SingleArbitration
<1>1. TypeOK /\ ClaimInv => SingleArbitration
  <2> SUFFICES ASSUME TypeOK, ClaimInv, NEW t \in Tasks, NEW u \in Tasks,
                      pc[t] = "llm", pc[u] = "llm", job[t] = job[u]
               PROVE  t = u
    BY DEF SingleArbitration
  <2>1. job[t] \in Jobs
    BY DEF TypeOK, CtlType
  <2> QED BY <2>1 DEF ClaimInv, OneAttempt, At, AttemptLabels
<1> QED BY TypeCorrect, ClaimCorrect, <1>1, PTL

-----------------------------------------------------------------------------
(* What a source turns its back on: a plain job is marked seen only with a  *)
(* row that is settled or that the notification sweep can select.           *)

Safe(j) == row[j].status # "" \/ row[j].final = "Rejected"
JobSeen(j) ==
  /\ Plain(j) /\ row[j].status # "" => row[j].final = "Accepted"
CallSeen(t, j) == Plain(j) =>
  /\ At(t, j, {"mark_seen"}) \/ j \in seen[t] => Safe(j) \/ j \in Legacy
  /\ At(t, j, LockedLabels \cup {"lock", "shorten"}) => row[j].status # ""
  /\ At(t, j, {"status", "accepted"}) => row[j].final = "Accepted"
  /\ RoleOf[t] = "notification" /\ j \in todo[t] => row[j].status # ""
SeenInv == \A j \in Jobs : JobSeen(j) /\ \A t \in Tasks : CallSeen(t, j)

\* The row of a plain job only moves forward: a status is not taken back, and
\* neither is a decision once the notification workflow has it.
LEMMA ForwardOnly ==
  ASSUME TypeOK, RowInv, ShapeInv, ClaimInv, SeenInv, NEW t \in Tasks,
         TaskNext(t), NEW j \in Jobs, Plain(j)
  PROVE  /\ row[j].status # "" => row'[j].status # ""
         /\ row[j].final = "Accepted" => row'[j].final = "Accepted"
         /\ Safe(j) => Safe(j)'
         /\ JobSeen(j)'
<1>1. /\ JobSeen(j) /\ CallSeen(t, j) /\ CallClaim(t, j) /\ CallShape(t, j)
      /\ CallRow(t) /\ (Plain(j)' <=> Plain(j))
  BY ShapeStep DEF SeenInv, ClaimInv, ShapeInv, RowInv, Plain
<1>2. j \notin created => row[j].status = "" /\ row[j].final = ""
  <2>1. BlankRow.final = "" /\ BlankRow.status = ""
    BY DEF BlankRow
  <2> QED BY <2>1 DEF RowInv, Untouched
<1>3. At(t, j, {"finalize", "duplicate", "llm_error"}) =>
        /\ row[j].final \in {"", "Pending"} /\ row[j].status = ""
  BY <1>1 DEF CallClaim, JobSeen, At, AttemptLabels, Arbitrable
<1>4. At(t, j, {"suppress", "complete"}) =>
        row[j].status # "" /\ row[j].final = "Accepted"
  BY <1>1 DEF CallSeen, JobSeen, At, LockedLabels
<1>5. At(t, j, {"status", "accepted"}) => row[j].final = "Accepted"
  BY <1>1 DEF CallSeen
<1>6. ~At(t, j, {"fallback"})
  BY <1>1 DEF CallShape, At
<1>7. CASE RowMoves(t, j)
  BY <1>1, <1>2, <1>3, <1>4, <1>5, <1>6, <1>7
     DEF RowMoves, Becomes, Safe, JobSeen, At
<1> QED BY <1>1, <1>7, RowStep DEF Safe, JobSeen

LEMMA SeenCall ==
  ASSUME TypeOK, RowInv, ShapeInv, ClaimInv, SeenInv, NEW t \in Tasks,
         TaskNext(t), NEW j \in Jobs
  PROVE  CallSeen(t, j)'
<1> SUFFICES ASSUME Plain(j) PROVE CallSeen(t, j)'
  BY ShapeStep DEF CallSeen, Plain
<1>1. /\ CallMoves(t) /\ JobSeen(j) /\ CallSeen(t, j) /\ CallClaim(t, j)
      /\ CallShape(t, j) /\ CallRow(t) /\ RoleOf[t] \in Roles
  BY CallStep, PipelineAssumption DEF SeenInv, ClaimInv, ShapeInv, RowInv
<1>2. /\ row[j].status # "" => row'[j].status # ""
      /\ row[j].final = "Accepted" => row'[j].final = "Accepted"
      /\ Safe(j) => Safe(j)'
  BY ForwardOnly
<1>3. At(t, j, {"mark_seen"})' /\ j \notin Legacy => Safe(j)'
  <2> SUFFICES ASSUME job'[t] = j, pc'[t] = "mark_seen", j \notin Legacy
               PROVE  Safe(j)'
    BY DEF At
  <2>1. EndMoves(t) /\ job[t] = j
    BY <1>1 DEF CallMoves, StartMoves, Stops, EndMoves, Marks, EntryMoves,
       AttemptMoves, LockedMoves, With, To
  <2>2. \/ row'[j].final = "Rejected" \/ Safe(j)
    BY <1>1, <2>1 DEF EndMoves, CallSeen, CallClaim, CallShape, At, Safe,
                      LockedLabels
  <2> QED BY <1>2, <2>2 DEF Safe
<1>4. j \in seen'[t] /\ j \notin Legacy => Safe(j)'
  BY <1>1, <1>2, SeenStep DEF CallSeen, At
<1>5. At(t, j, LockedLabels \cup {"lock", "shorten"})' => row'[j].status # ""
  <2> SUFFICES ASSUME job'[t] = j,
                      pc'[t] \in LockedLabels \cup {"lock", "shorten"}
               PROVE  row'[j].status # ""
    BY DEF At
  <2>1. CASE StartMoves(t)
    BY <1>1, <1>2, <2>1 DEF StartMoves, CallSeen, CallRow, Roles, LockedLabels
  <2>2. CASE EntryMoves(t)
    BY <1>1, <1>2, <2>2 DEF EntryMoves, With, To, CallClaim, LockedLabels
  <2>3. CASE AttemptMoves(t)
    BY <1>1, <1>2, <2>3 DEF AttemptMoves, With, To, CallSeen, At, LockedLabels
  <2>4. CASE LockedMoves(t)
    BY <1>1, <1>2, <2>4 DEF LockedMoves, With, To, CallSeen, At, LockedLabels
  <2>5. CASE Stops(t) \/ EndMoves(t)
    BY <2>5 DEF Stops, EndMoves, Marks, LockedLabels
  <2> QED BY <1>1, <2>1, <2>2, <2>3, <2>4, <2>5 DEF CallMoves
<1>6. At(t, j, {"status", "accepted"})' => row'[j].final = "Accepted"
  BY <1>1, <1>2 DEF CallMoves, StartMoves, Stops, EndMoves, Marks, EntryMoves,
     AttemptMoves, LockedMoves, With, To, At
<1>7. RoleOf[t] = "notification" /\ j \in todo'[t] => row'[j].status # ""
  BY <1>1, <1>2 DEF CallMoves, StartMoves, CallSeen, DueNotifications
<1> QED BY <1>3, <1>4, <1>5, <1>6, <1>7 DEF CallSeen

LEMMA SeenCorrect ==
  ASSUME Timely, NoSourceShared PROVE Spec => []SeenInv
<1>1. Init => SeenInv
  <2> SUFFICES ASSUME Init, NEW j \in Jobs
               PROVE  JobSeen(j) /\ \A t \in Tasks : CallSeen(t, j)
    BY DEF SeenInv
  <2>1. /\ row[j] = BlankRow
        /\ \A t \in Tasks : /\ job[t] = None /\ pc[t] = "idle"
                            /\ todo[t] = {} /\ seen[t] = {}
    BY DEF Init, InitKnowing
  <2>2. BlankRow.status = ""
    BY DEF BlankRow
  <2>3. j # None
    BY PipelineAssumption
  <2> QED BY <2>1, <2>2, <2>3 DEF JobSeen, CallSeen, At
<1>2. TypeOK /\ RowInv /\ ShapeInv /\ ClaimInv /\ SeenInv /\ [Next]_vars
      => SeenInv'
  <2> SUFFICES ASSUME TypeOK, RowInv, ShapeInv, ClaimInv, SeenInv, [Next]_vars,
                      NEW j \in Jobs
               PROVE  JobSeen(j)' /\ \A t \in Tasks : CallSeen(t, j)'
    BY DEF SeenInv
  <2>1. JobSeen(j) /\ \A t \in Tasks : CallSeen(t, j)
    BY DEF SeenInv
  <2>2. ASSUME NEW t \in Tasks, TaskNext(t)
        PROVE  JobSeen(j)' /\ \A u \in Tasks : CallSeen(u, j)'
    <3>1. Plain(j)' <=> Plain(j)
      BY <2>2, ShapeStep DEF Plain
    <3>2. JobSeen(j)'
      BY <2>2, <3>1, ForwardOnly DEF JobSeen
    <3>3. ASSUME NEW u \in Tasks \ {t} PROVE CallSeen(u, j)'
      <4>1. /\ pc'[u] = pc[u] /\ job'[u] = job[u] /\ todo'[u] = todo[u]
            /\ seen'[u] = seen[u]
        BY <2>2, OthersStay
      <4>2. Plain(j) => /\ row[j].status # "" => row'[j].status # ""
                        /\ row[j].final = "Accepted" =>
                             row'[j].final = "Accepted"
                        /\ Safe(j) => Safe(j)'
        BY <2>2, ForwardOnly
      <4> QED BY <2>1, <3>1, <4>1, <4>2 DEF CallSeen, At
    <3> QED BY <2>2, <3>2, <3>3, SeenCall
  <2>3. CASE \A t \in Tasks : ~TaskNext(t)
    <3>1. Quiet
      BY <2>3, QuietStep
    <3>2. /\ row'[j].status = row[j].status /\ row'[j].final = row[j].final
          /\ shape' = shape
      BY <3>1 DEF Quiet
    <3>3. ASSUME NEW u \in Tasks PROVE CallSeen(u, j)'
      <4>1. /\ seen'[u] = seen[u]
            /\ \/ pc'[u] = pc[u] /\ job'[u] = job[u] /\ todo'[u] = todo[u]
               \/ job'[u] = None /\ todo'[u] = {}
        BY <3>1 DEF Quiet, Stops
      <4>2. j # None
        BY PipelineAssumption
      <4>3. CASE job'[u] = None /\ todo'[u] = {}
        BY <2>1, <3>2, <4>1, <4>2, <4>3 DEF CallSeen, At, Plain, Safe
      <4>4. CASE pc'[u] = pc[u] /\ job'[u] = job[u] /\ todo'[u] = todo[u]
        BY <2>1, <3>2, <4>1, <4>4 DEF CallSeen, At, Plain, Safe
      <4> QED BY <4>1, <4>3, <4>4
    <3> QED BY <2>1, <3>2, <3>3 DEF JobSeen, Plain
  <2> QED BY <2>2, <2>3
<1> QED BY TypeCorrect, RowCorrect, ShapeCorrect, ClaimCorrect, <1>1, <1>2,
           PTL DEF Spec

\* A job its source no longer hands over, unless it went through the rescue,
\* is delivered, suppressed or rejected, or the notification sweep still
\* selects its row: through crashes at any await, raised exceptions, and
\* resumes by another task in between.
THEOREM SeenIsRecoverable ==
  ASSUME Timely, NoSourceShared
  PROVE  Spec => []PlainJobIsRecoverable
<1>1. TypeOK /\ SeenInv => PlainJobIsRecoverable
  <2> SUFFICES ASSUME TypeOK, SeenInv, NEW j \in SeenJobs, Plain(j)
               PROVE  Recoverable(j)
    BY DEF PlainJobIsRecoverable
  <2>1. PICK t \in Tasks : j \in seen[t] /\ j \in Jobs /\ j \notin Legacy
    BY DEF SeenJobs
  <2>2. Safe(j) /\ row[j].status \in Statuses
    BY <2>1 DEF SeenInv, CallSeen, TypeOK, StoreType, Row
  <2> QED BY <2>2 DEF Safe, Recoverable, Settled, Statuses
<1> QED BY TypeCorrect, SeenCorrect, <1>1, PTL

-----------------------------------------------------------------------------
(* The category an event carries: for a plain job every one was named by    *)
(* the guard or by the LLM before the row, and then the stream, carried it. *)

Named(j) == NotifyCats(j) \cup LLMCats(j)
JobNamed(j) ==
  /\ \A e \in events[j] : e.cat \in Named(j)
  /\ row[j].method = "llm" => row[j].cat \in Named(j)
  /\ \A g \in Entries(j) : g.verdict = "notify" => g.cat # ""
  /\ shape[j] = "direct" /\ j \in created => row[j].cat # ""
CallNamed(t, j) ==
  /\ At(t, j, {"publish", "reclassify"}) => mem[t].cat \in Named(j)
  /\ At(t, j, {"fetch"}) => row[j].cat \in Named(j)
  /\ At(t, j, {"allow"}) /\ NotifyLast(j) => row[j].cat \in Named(j)
  /\ At(t, j, {"resolve", "claim_guard", "evaluate", "poll"}) =>
       mem[t].cat = row[j].cat /\ mem[t].cat # ""
  /\ At(t, j, {"claim_guard", "evaluate", "poll"}) => ~NotifyLast(j)
  /\ At(t, j, {"audit"}) /\ mem[t].method = "llm" =>
       mem[t].cat \in Chosen /\ mem[t].final = "Accepted"
  /\ At(t, j, {"finalize"}) /\ mem[t].method = "llm" => mem[t].cat \in Named(j)
  /\ At(t, j, {"finalize"}) /\ shape[j] = "direct" => mem[t].cat # ""
NamedInv == \A j \in Jobs : Plain(j) =>
  JobNamed(j) /\ \A t \in Tasks : CallNamed(t, j)

\* Both audit tables only grow, so what they name they keep naming.
LEMMA NamedGrows ==
  ASSUME TypeOK, NEW t \in Tasks, TaskNext(t), NEW j \in Jobs
  PROVE  /\ Named(j) \subseteq Named(j)'
         /\ \A g : LogMoves(t, j, g) /\ g.verdict = "notify"
                     => g.cat \in Named(j)'
         /\ \A c : At(t, j, {"audit"}) /\ pc'[t] = "finalize" /\ c \in Chosen
                   /\ mem[t].final = "Accepted" /\ mem[t].cat = c
                     => c \in Named(j)'
<1>1. /\ NotifyCats(j) = {g.cat : g \in {h \in Entries(j) :
                                          h.verdict = "notify"}}
      /\ NotifyCats(j)' = {g.cat : g \in {h \in Entries(j)' :
                                           h.verdict = "notify"}}
  BY DEF NotifyCats, Entries
<1>2. Entries(j) \subseteq Entries(j)'
  BY LogStep, LogKept, LogAppended DEF LogMoves
<1>3. LLMCats(j) \subseteq LLMCats(j)'
  BY GeminiStep DEF LLMCats
<1>4. NotifyCats(j) \subseteq NotifyCats(j)'
  BY <1>1, <1>2
<1>5. ASSUME NEW g, LogMoves(t, j, g), g.verdict = "notify"
      PROVE  g.cat \in NotifyCats(j)'
  <2>1. g \in Entries(j)'
    BY <1>5, LogAppended DEF LogMoves
  <2> QED BY <1>1, <1>5, <2>1
<1>6. ASSUME NEW c \in Chosen, At(t, j, {"audit"}), pc'[t] = "finalize",
             mem[t].final = "Accepted", mem[t].cat = c
      PROVE  c \in LLMCats(j)'
  <2>1. gemini'[j] = gemini[j] \cup {c}
    BY <1>6, CallStep DEF At, CallMoves, StartMoves, Stops, EndMoves, Marks,
       EntryMoves, AttemptMoves, LockedMoves
  <2> QED BY <1>6, <2>1 DEF LLMCats
<1> QED BY <1>3, <1>4, <1>5, <1>6 DEF Named

\* A blank category is no name.
LEMMA NamesAreNamed ==
  ASSUME NEW j \in Jobs, TypeOK, JobNamed(j)
  PROVE  "" \notin Named(j)
<1>1. "" \notin LLMCats(j)
  BY DEF LLMCats, Chosen
<1>2. "" \notin NotifyCats(j)
  BY LogRead DEF JobNamed
<1> QED BY <1>1, <1>2 DEF Named

\* A call inside the workflow works on a decided row: no attempt is under way
\* on it, and no other call of the process is inside.
LEMMA AloneInside ==
  ASSUME OneProcess, TypeOK, RowInv, ShapeInv, LockInv, ClaimInv, SeenInv,
         NEW t \in Tasks, NEW u \in Tasks, NEW j \in Jobs, Plain(j), t # u,
         At(t, j, LockedLabels)
  PROVE  /\ ~At(u, j, LockedLabels) /\ ~At(u, j, AttemptLabels)
         /\ j \in created
<1>1. /\ CallClaim(u, j) /\ JobSeen(j) /\ CallSeen(t, j) /\ CallRow(t)
  BY DEF ClaimInv, SeenInv, RowInv
<1>2. row[j].final = "Accepted" /\ j \in created
  BY <1>1 DEF CallSeen, JobSeen, At, CallRow, Unwritten, LockedLabels
<1>3. ~At(u, j, AttemptLabels)
  BY <1>1, <1>2 DEF CallClaim, Arbitrable
<1>4. ~At(u, j, LockedLabels)
  BY DEF LockInv, OneProcess, At
<1> QED BY <1>2, <1>3, <1>4

LEMMA NamedJob ==
  ASSUME TypeOK, RowInv, ShapeInv, ClaimInv, NamedInv, NEW t \in Tasks,
         TaskNext(t), NEW j \in Jobs, Plain(j)
  PROVE  JobNamed(j)'
<1>1. /\ JobNamed(j) /\ CallNamed(t, j) /\ CallRow(t) /\ CallShape(t, j)
      /\ JobShape(j) /\ shape' = shape /\ shape[j] \in AllShapes
  BY ShapeStep, PipelineAssumption
     DEF NamedInv, RowInv, ShapeInv, TypeOK, EnvType
<1>2. Named(j) \subseteq Named(j)'
  BY NamedGrows
<1>3. \A e \in events'[j] : e.cat \in Named(j)'
  <2>1. CASE events'[j] = events[j]
    BY <1>1, <1>2, <2>1 DEF JobNamed
  <2>2. CASE /\ job[t] = j /\ pc[t] = "publish"
             /\ events'[j] = events[j] \cup
                  {[cat |-> mem[t].cat, short |-> mem[t].short]}
    <3>1. mem[t].cat \in Named(j)
      BY <1>1, <2>2 DEF CallNamed, At
    <3>2. \A e \in events'[j] : e \in events[j] \/ e.cat = mem[t].cat
      BY <2>2
    <3> QED BY <1>1, <1>2, <3>1, <3>2 DEF JobNamed
  <2> QED BY <2>1, <2>2, StreamStep
<1>4. /\ FilterMethod(j) # "llm"
      /\ shape[j] = "direct" => FilterCat(j) # ""
  BY <1>1 DEF FilterMethod, FilterCat, AllShapes
<1>5. row'[j].method = "llm" => row'[j].cat \in Named(j)'
  <2>1. CASE RowMoves(t, j)
    BY <1>1, <1>2, <1>4, <2>1 DEF RowMoves, Becomes, JobNamed, CallNamed, At
  <2> QED BY <1>1, <1>2, <2>1, RowStep DEF JobNamed
<1>6. \A g \in Entries(j)' : g.verdict = "notify" => g.cat # ""
  <2>1. CASE guardlog'[j] = guardlog[j]
    BY <1>1, <2>1, LogKept DEF JobNamed
  <2>2. ASSUME NEW g, LogMoves(t, j, g) PROVE g.verdict = "notify" => g.cat # ""
    BY <1>1, <2>2 DEF LogMoves, CallNamed, CallShape, At
  <2>3. ASSUME NEW g, LogMoves(t, j, g) PROVE Entries(j)' = Entries(j) \cup {g}
    BY <2>3, LogAppended DEF LogMoves
  <2>4. ASSUME NEW g, LogMoves(t, j, g)
        PROVE  \A h \in Entries(j)' : h.verdict = "notify" => h.cat # ""
    <3>1. /\ Entries(j)' = Entries(j) \cup {g}
          /\ g.verdict = "notify" => g.cat # ""
      BY <2>2, <2>3, <2>4
    <3>2. \A h \in Entries(j) : h.verdict = "notify" => h.cat # ""
      BY <1>1 DEF JobNamed
    <3> QED BY <3>1, <3>2
  <2> QED BY <2>1, <2>4, LogStep
<1>7. ASSUME shape[j] = "direct", j \in created' PROVE row'[j].cat # ""
  <2>1. "" \notin Named(j)
    BY <1>1, NamesAreNamed
  <2>2. CASE RowMoves(t, j)
    BY <1>1, <1>4, <1>7, <2>1, <2>2 DEF RowMoves, Becomes, JobNamed, CallNamed,
       At, CallShape, CallRow, Unwritten
  <2>3. CASE row'[j] = row[j] /\ j \in created
    BY <1>1, <1>7, <2>3 DEF JobNamed
  <2>4. CASE row'[j] = row[j] /\ j \notin created
    <3>1. CreateJob(t) /\ job[t] = j
      BY <1>7, <2>4, CreatedStep DEF TaskNext, TaskStep, Deliver, NextRow,
         Sweep, AcquireAndRead, MarkSeen, GetJob, ClaimPending, ResumeAccepted,
         RereadLoser, ClaimProject, ClaimUnsaved, RejectDuplicate, Arbitrate,
         RecordLLMError, LogRescue, LogGemini, Finalize, MarkPending, Shorten,
         ResolveCategory, ClaimGuard, PollVerdict, EvaluateGuard, Reclassify,
         GuardAllow, ReadVerdict, GuardFallback, Suppress, FetchFinal, Publish,
         MarkComplete, TaskRaises, store
    <3>2. row'[j] = [BlankRow EXCEPT !.cat = FilterCat(j),
                                     !.method = FilterMethod(j)]
      BY <2>4, <3>1 DEF CreateJob, TypeOK, StoreType
    <3> QED BY <1>4, <1>7, <3>2 DEF BlankRow
  <2> QED BY <2>2, <2>3, <2>4, RowStep
<1> QED BY <1>1, <1>3, <1>5, <1>6, <1>7 DEF JobNamed

LEMMA NamedOthers ==
  ASSUME OneProcess, TypeOK, RowInv, ShapeInv, LockInv, ClaimInv, SeenInv,
         NamedInv, NEW t \in Tasks, TaskNext(t), NEW u \in Tasks \ {t},
         NEW j \in Jobs, Plain(j)
  PROVE  CallNamed(u, j)'
<1>1. /\ CallNamed(u, j) /\ Named(j) \subseteq Named(j)' /\ shape' = shape
      /\ pc'[u] = pc[u] /\ job'[u] = job[u] /\ mem'[u] = mem[u]
      /\ CallShape(t, j)
  BY OthersStay, NamedGrows, ShapeStep DEF NamedInv, ShapeInv
<1>2. ASSUME At(u, j, LockedLabels)
      PROVE  row'[j].cat = row[j].cat /\ Verdict(j)' = Verdict(j)
  <2>1. /\ ~At(t, j, LockedLabels) /\ ~At(t, j, AttemptLabels)
        /\ j \in created
    BY <1>2, AloneInside
  <2>2. RowMoves(t, j) => row'[j].cat = row[j].cat
    BY <2>1 DEF RowMoves, Becomes, At, LockedLabels, AttemptLabels
  <2>3. guardlog'[j] = guardlog[j]
    BY <2>1, LogStep DEF LogMoves, At, LockedLabels, AttemptLabels
  <2> QED BY <2>2, <2>3, RowStep, LogKept
<1> QED BY <1>1, <1>2 DEF CallNamed, At, LockedLabels, NotifyLast

LEMMA NamedCall ==
  ASSUME GuardEnabled, TypeOK, RowInv, ShapeInv, NamedInv, NEW t \in Tasks,
         TaskNext(t), NEW j \in Jobs, Plain(j)
  PROVE  CallNamed(t, j)'
<1>1. /\ CallMoves(t) /\ JobNamed(j) /\ CallNamed(t, j) /\ CallRow(t)
      /\ CallShape(t, j) /\ JobShape(j) /\ shape' = shape
      /\ shape[j] \in AllShapes /\ Named(j) \subseteq Named(j)'
  BY CallStep, ShapeStep, NamedGrows, PipelineAssumption
     DEF NamedInv, RowInv, ShapeInv, TypeOK, EnvType
<1>2. Verdict(j).verdict = "notify" =>
        Verdict(j).cat \in Named(j) /\ Verdict(j).cat # ""
  <2>1. NoVerdict.verdict = ""
    BY DEF NoVerdict
  <2>2. Verdict(j).verdict = "notify" => Verdict(j) \in Entries(j)
    BY <2>1, LogRead
  <2> QED BY <1>1, <2>2, LogRead DEF JobNamed, Named
<1>3. /\ FilterMethod(j) # "llm"
      /\ shape[j] = "direct" => FilterCat(j) # ""
  BY <1>1 DEF FilterMethod, FilterCat, AllShapes
<1>4. CASE StartMoves(t) \/ Stops(t) \/ EndMoves(t) \/ EntryMoves(t)
  BY <1>4 DEF StartMoves, Stops, EndMoves, Marks, EntryMoves, With, To,
              CallNamed, At
<1>5. CASE AttemptMoves(t)
  <2>1. /\ pc'[t] \in {"duplicate", "finalize", "llm", "llm_error", "rescue",
                       "audit", "status", "shorten", "lock"}
        /\ job'[t] = job[t]
    BY <1>5 DEF AttemptMoves, With, To
  <2>2. ASSUME job[t] = j, pc'[t] = "audit", mem'[t].method = "llm"
        PROVE  mem'[t].cat \in Chosen /\ mem'[t].final = "Accepted"
    BY <1>1, <1>5, <2>2 DEF AttemptMoves, With, To, CallRow, CallShape
  <2>3. ASSUME job[t] = j, pc'[t] = "finalize", mem'[t].method = "llm"
        PROVE  mem'[t].cat \in Named(j)'
    <3>1. pc[t] = "audit" /\ To(t, "finalize")
      BY <1>1, <1>3, <1>5, <2>3 DEF AttemptMoves, With, To, CallRow
    <3>2. mem[t].cat \in Chosen /\ mem[t].final = "Accepted"
      BY <1>1, <2>3, <3>1 DEF CallNamed, At, With, To
    <3> QED BY <2>3, <3>1, <3>2, NamedGrows DEF At, With, To
  <2>4. ASSUME job[t] = j, pc'[t] = "finalize", shape[j] = "direct"
        PROVE  mem'[t].cat # ""
    BY <1>1, <1>3, <1>5, <2>4 DEF AttemptMoves, With, To, CallShape
  <2> QED BY <1>1, <2>1, <2>2, <2>3, <2>4 DEF CallNamed, At
<1>6. CASE LockedMoves(t)
  <2> SUFFICES ASSUME job[t] = j PROVE CallNamed(t, j)'
    BY <1>6 DEF LockedMoves, With, To, CallNamed, At
  <2>1. CASE pc[t] = "evaluate" /\ pc'[t] \in {"allow", "reclassify"}
    <3>1. PICK g : LogMoves(t, j, g)
      BY <2>1, LogAdvance
    <3>2. Verdict(j)' = g /\ (g.verdict = "notify" => g.cat \in Named(j)')
      BY <3>1, LogAppended, NamedGrows DEF LogMoves
    <3>3. row'[j] = row[j] /\ mem[t].cat = row[j].cat
      BY <1>1, <2>1, RowStep DEF RowMoves, CallNamed, At
    <3>4. /\ g.verdict = "notify" => /\ mem'[t].cat = g.cat
                                     /\ pc'[t] = "allow" <=> g.cat = mem[t].cat
          /\ g.verdict # "notify" => pc'[t] = "allow"
      BY <2>1, <3>1 DEF LogMoves
    <3> QED BY <2>1, <3>2, <3>3, <3>4 DEF CallNamed, At, NotifyLast
  <2>2. CASE ~(pc[t] = "evaluate" /\ pc'[t] \in {"allow", "reclassify"})
    <3>1. Verdict(j)' = Verdict(j)
      <4>1. pc[t] # "rescue" /\ pc[t] # "evaluate"
        BY <1>6, <2>2 DEF LockedMoves, With, To
      <4> QED BY <4>1, LogStep, LogKept DEF LogMoves
    <3>2. /\ pc[t] # "reclassify" => row'[j].cat = row[j].cat
          /\ pc[t] = "lock" => (row[j].cat = "" => Verdict(j).verdict # "notify")
      <4>1. pc[t] # "reclassify" => row'[j].cat = row[j].cat
        <5>1. pc[t] \notin {"create", "llm_error", "finalize"}
          BY <1>6 DEF LockedMoves
        <5>2. RowMoves(t, j) /\ pc[t] # "reclassify" =>
                row'[j].cat = row[j].cat
          BY <5>1 DEF RowMoves, Becomes
        <5> QED BY <5>2, RowStep
      <4>2. ASSUME pc[t] = "lock", row[j].cat = ""
            PROVE  Verdict(j).verdict # "notify"
        <5>1. j \in created
          BY <1>1, <4>2 DEF CallRow, Unwritten
        <5>2. Unguarded(j)
          BY <1>1, <4>2, <5>1 DEF JobNamed, Unguarded, Plain, AllShapes
        <5>3. NoVerdict.verdict = ""
          BY DEF NoVerdict
        <5> QED BY <1>1, <5>2, <5>3, LogRead DEF JobShape
      <4> QED BY <4>1, <4>2
    <3>3. CASE pc[t] = "lock"
      BY <1>1, <1>6, <3>1, <3>2, <3>3 DEF LockedMoves, With, To, CallNamed,
         JobNamed, At, NotifyLast
    <3>4. CASE pc[t] = "resolve"
      BY <1>1, <1>2, <1>6, <3>1, <3>2, <3>4 DEF LockedMoves, With, To,
         CallNamed, At, NotifyLast
    <3>5. CASE pc[t] \in {"claim_guard", "poll"}
      BY <1>1, <1>6, <3>1, <3>2, <3>5 DEF LockedMoves, With, To, CallNamed,
         At, NotifyLast
    <3>6. CASE pc[t] \in {"reclassify", "allow", "verdict", "fetch", "publish"}
      BY <1>1, <1>6, <3>1, <3>2, <3>6 DEF LockedMoves, With, To, CallNamed,
         At, NotifyLast
    <3> QED BY <1>6, <2>2, <3>3, <3>4, <3>5, <3>6 DEF LockedMoves, With, To
  <2> QED BY <2>1, <2>2
<1> QED BY <1>1, <1>4, <1>5, <1>6 DEF CallMoves

LEMMA NamedCorrect ==
  ASSUME Timely, OneProcess, NoSourceShared, GuardEnabled
  PROVE  Spec => []NamedInv
<1>1. Init => NamedInv
  <2> SUFFICES ASSUME Init, NEW j \in Jobs
               PROVE  JobNamed(j) /\ \A t \in Tasks : CallNamed(t, j)
    BY DEF NamedInv
  <2>1. /\ row[j] = BlankRow /\ guardlog[j] = <<>> /\ events[j] = {}
        /\ created = {} /\ \A t \in Tasks : pc[t] = "idle"
    BY DEF Init, InitKnowing
  <2>2. BlankRow.method = ""
    BY DEF BlankRow
  <2>3. Entries(j) = {}
    BY <2>1 DEF Entries
  <2> QED BY <2>1, <2>2, <2>3 DEF JobNamed, CallNamed, At
<1>2. /\ TypeOK /\ RowInv /\ ShapeInv /\ LockInv /\ ClaimInv /\ SeenInv
      /\ NamedInv /\ [Next]_vars
      => NamedInv'
  <2> SUFFICES ASSUME TypeOK, RowInv, ShapeInv, LockInv, ClaimInv, SeenInv,
                      NamedInv, [Next]_vars, NEW j \in Jobs, Plain(j)'
               PROVE  JobNamed(j)' /\ \A t \in Tasks : CallNamed(t, j)'
    BY DEF NamedInv
  <2>1. ASSUME NEW t \in Tasks, TaskNext(t)
        PROVE  JobNamed(j)' /\ \A u \in Tasks : CallNamed(u, j)'
    <3>1. Plain(j)
      BY <2>1, ShapeStep DEF Plain
    <3> QED BY <2>1, <3>1, NamedJob, NamedCall, NamedOthers
  <2>2. CASE \A t \in Tasks : ~TaskNext(t)
    <3>1. Quiet
      BY <2>2, QuietStep
    <3>2. /\ row'[j].method = row[j].method /\ row'[j].cat = row[j].cat
          /\ guardlog'[j] = guardlog[j] /\ gemini' = gemini
          /\ events' = events /\ created' = created /\ shape' = shape
      BY <3>1 DEF Quiet, out
    <3>3. /\ Entries(j)' = Entries(j) /\ Named(j)' = Named(j)
          /\ NotifyLast(j)' <=> NotifyLast(j)
      BY <3>2, LogKept DEF Named, NotifyCats, LLMCats, NotifyLast
    <3>4. JobNamed(j) /\ \A t \in Tasks : CallNamed(t, j)
      BY <3>2 DEF NamedInv, Plain
    <3>5. JobNamed(j)'
      BY <3>2, <3>3, <3>4 DEF JobNamed
    <3>6. ASSUME NEW u \in Tasks PROVE CallNamed(u, j)'
      <4>1. \/ pc'[u] = pc[u] /\ job'[u] = job[u] /\ mem'[u] = mem[u]
            \/ pc'[u] = "idle"
        BY <3>1 DEF Quiet, Stops
      <4>2. CASE pc'[u] = pc[u] /\ job'[u] = job[u] /\ mem'[u] = mem[u]
        BY <3>2, <3>3, <3>4, <4>2 DEF CallNamed, At
      <4>3. CASE pc'[u] = "idle"
        BY <4>3 DEF CallNamed, At
      <4> QED BY <4>1, <4>2, <4>3
    <3> QED BY <3>5, <3>6
  <2> QED BY <2>1, <2>2
<1> QED BY TypeCorrect, RowCorrect, ShapeCorrect, LockCorrect, ClaimCorrect,
           SeenCorrect, <1>1, <1>2, PTL DEF Spec

\* Every category the stream carries for a plain job was named by the guard
\* or the LLM: a reclassification to full_stack is never half applied, though
\* the verdict, the row and the event are three writes with crashes and other
\* calls in between.
THEOREM EventsAreNamed ==
  ASSUME Timely, OneProcess, NoSourceShared
  PROVE  Spec => []EventCategoryApproved
<1>1. CASE ~GuardEnabled
  <2>1. EventCategoryApproved
    BY <1>1 DEF EventCategoryApproved
  <2> QED BY <2>1, PTL
<1>2. CASE GuardEnabled
  <2>1. NamedInv => EventCategoryApproved
    BY DEF NamedInv, JobNamed, Named, EventCategoryApproved
  <2>2. Spec => []NamedInv
    BY <1>2, NamedCorrect
  <2> QED BY <2>1, <2>2, PTL
<1> QED BY <1>1, <1>2

=============================================================================
