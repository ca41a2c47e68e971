----------------------------- MODULE JobPipeline -----------------------------
(***************************************************************************)
(* The job pipeline of app/services/job_processor.py, with the Postgres    *)
(* rows, the Notification Guard and the Redis stream it works on.          *)
(*                                                                         *)
(* Several asyncio tasks run the same code over the same durable rows:     *)
(*   "source"          a source worker that hands a project to process_job *)
(*                     again and again until the call returns normally;    *)
(*   "classification"  classification_retry_loop, which re-runs            *)
(*                     process_job on rows left Pending;                   *)
(*   "notification"    notification_retry_loop, which resumes rows whose   *)
(*                     notification workflow is started but not settled.   *)
(* One action is the code between two awaits that touch shared state: a    *)
(* repository call, a claim, a provider call, a stream publish.  Every     *)
(* repository call commits on its own, so a crash or an exception can fall *)
(* between any two of them.                                                *)
(*                                                                         *)
(* Data is cut down to what the control depends on: the deterministic      *)
(* classifier is the job's shape, a category is the keyword category or    *)
(* full_stack, a timestamp is whether it has passed yet.                   *)
(***************************************************************************)
EXTENDS Naturals, Sequences, FiniteSets

CONSTANTS
  Jobs,          \* job identities (job_uuid)
  Tasks,         \* the asyncio tasks that run pipeline code
  RoleOf,        \* [Tasks -> Roles]
  ProcOf,        \* [Tasks -> process]: tasks of one process share its locks
  Delivers,      \* [Tasks -> SUBSET Jobs]: what a source task hands over
  ProjectOf,     \* [Jobs -> project or None]: numeric id in the URL
  Legacy,        \* jobs with a row under the pre-stable-identity UUID
  Shapes,        \* the classifier outcomes considered
  GuardEnabled,  \* whether the Notification Guard is composed in
  Timely,        \* TRUE: a claim is never outlived by the attempt it covers
  MaxCrashes,    \* bound on process crashes and raised exceptions
  MaxErrors,     \* bound on LLM and guard provider errors
  None

Roles     == {"source", "classification", "notification"}
AllShapes == {"none", "direct", "tiebreak", "ambiguous"}
Finals    == {"", "Pending", "Accepted", "Rejected"}
Reasons   == {"filter", "LLM Error", "Guard Fallback", "final"}
Methods   == {"", "keyword_direct", "keyword_direct_tiebreak", "llm"}
Chosen    == {"keyword", "full_stack"}
Cats      == Chosen \cup {""}
Statuses  == {"", "Pending", "Complete", "Suppressed"}
Procs     == {ProcOf[t] : t \in Tasks}
Projects  == {ProjectOf[j] : j \in Jobs} \ {None}

ASSUME PipelineAssumption ==
  /\ RoleOf \in [Tasks -> Roles]
  /\ DOMAIN ProcOf = Tasks
  /\ Delivers \in [Tasks -> SUBSET Jobs]
  /\ DOMAIN ProjectOf = Jobs
  /\ Legacy \subseteq Jobs
  /\ Shapes \subseteq AllShapes
  /\ GuardEnabled \in BOOLEAN /\ Timely \in BOOLEAN
  /\ MaxCrashes \in Nat /\ MaxErrors \in Nat
  /\ None \notin Jobs

\* A row of the jobs table.  "waiting" is Classification Retry Not Before in
\* the future, "guardClaim" is Guard Eval Claim in the future, "short" is a
\* non-empty Short URL.
Row == [final : Finals, reason : Reasons, method : Methods, cat : Cats,
        status : Statuses, short : BOOLEAN, waiting : BOOLEAN,
        guardClaim : BOOLEAN]

\* A row of the notification_guard table; "by" tells the guard's own verdicts
\* from the audit row the rescue arbitration appends.
GuardRow == [verdict : {"notify", "do_not_notify", "error"}, cat : Cats,
             by : {"guard", "rescue"}]

Event == [cat : Cats, short : BOOLEAN]

\* What a running call remembers across its awaits.
Memo == [recheck : BOOLEAN, final : Finals, method : Methods,
         cat : Cats, short : BOOLEAN]

\* Labels inside the per-job asyncio lock, and labels of a classification
\* attempt made under the classification claim.
LockedLabels  == {"resolve", "claim_guard", "evaluate", "poll", "reclassify",
                  "allow", "verdict", "fallback", "suppress", "fetch",
                  "publish", "complete"}
AttemptLabels == {"dedup", "duplicate", "llm", "llm_error", "rescue", "audit",
                  "finalize"}
Labels == {"idle", "get_job", "create", "reread", "claim", "accepted",
           "status", "shorten", "lock", "mark_seen"}
          \cup LockedLabels \cup AttemptLabels

VARIABLES
  shape,      \* [Jobs -> Shapes]: what the classifier says of the job text
  created,    \* jobs with a row in the jobs table
  row,        \* [Jobs -> Row]
  guardlog,   \* [Jobs -> Seq(GuardRow)]: notification_guard, oldest first
  gemini,     \* [Jobs -> SUBSET (Cats and "none")]: the gemini audit table
  owner,      \* [Procs -> [Projects -> Jobs or None]]: cross-source claims, in the
              \* memory of a process
  saved,      \* the same in its state file (state.json)
  lapsed,     \* history: projects of which a claim ran out or was lost
  events,     \* [Jobs -> SUBSET Event]: what the stream carries for a job
  publishes,  \* [Jobs -> 0..2]: no, one, or several XADDs for a job
  pc, job, mem,
  todo,       \* [Tasks -> SUBSET Jobs]: rest of a sweep's result list
  seen,       \* [Tasks -> SUBSET Jobs]: durable seen set or watermark
  crashes,    \* how many more crashes and exceptions may happen
  errors      \* how many more provider errors may happen

store == <<created, row, guardlog, gemini>>
claims == <<owner, saved, lapsed>>
out   == <<owner, saved, lapsed, events, publishes>>
ctl   == <<pc, job, mem, todo, seen>>
env   == <<shape, crashes, errors>>
vars  == <<store, out, ctl, env>>

BlankRow == [final |-> "", reason |-> "filter", method |-> "", cat |-> "",
             status |-> "", short |-> FALSE, waiting |-> FALSE,
             guardClaim |-> FALSE]
BlankMemo == [recheck |-> FALSE, final |-> "", method |-> "",
              cat |-> "", short |-> FALSE]
NoVerdict == [verdict |-> "", cat |-> "", by |-> "guard"]

-----------------------------------------------------------------------------
(* Helpers *)

Verdict(j) == IF guardlog[j] = <<>> THEN NoVerdict
              ELSE guardlog[j][Len(guardlog[j])]

\* Deterministic tier: category and method of the fresh filter result.
\* Mutant: the filter's "no category" reaches the row as NULL.
NullFilterCat(j) == IF shape[j] \in {"direct", "tiebreak"} THEN "keyword" ELSE None
FilterCat(j) == IF shape[j] \in {"direct", "tiebreak"} THEN "keyword" ELSE ""
FilterMethod(j) == CASE shape[j] = "direct"   -> "keyword_direct"
                     [] shape[j] = "tiebreak" -> "keyword_direct_tiebreak"
                     [] OTHER                 -> ""

\* get_incomplete_classification_jobs and get_incomplete_notification_jobs.
\* Mutant: a sweep that forgets the rescued rows.
DueWithoutRescues ==
  {j \in created : /\ row[j].final = "Pending" /\ row[j].reason = "LLM Error"
                   /\ ~row[j].waiting}
DueClassifications ==
  {j \in created : /\ row[j].final = "Pending"
                   /\ row[j].reason \in {"LLM Error", "Guard Fallback"}
                   /\ ~row[j].waiting}
DueNotifications ==
  {j \in created : row[j].status \notin {"", "Complete", "Suppressed"}}

\* The per-job asyncio lock of the process t runs in.
LockFree(t) == ~ \E u \in Tasks \ {t} :
                   /\ ProcOf[u] = ProcOf[t]
                   /\ job[u] = job[t]
                   /\ pc[u] \in LockedLabels

Goto(t, label) == /\ pc' = [pc EXCEPT ![t] = label]
                  /\ UNCHANGED <<job, mem, todo, seen>>
GotoWith(t, label, m) == /\ pc' = [pc EXCEPT ![t] = label]
                         /\ mem' = [mem EXCEPT ![t] = m]
                         /\ UNCHANGED <<job, todo, seen>>
Begin(t, j, label) == /\ pc' = [pc EXCEPT ![t] = label]
                      /\ job' = [job EXCEPT ![t] = j]
                      /\ UNCHANGED <<mem, seen>>
Drop(t) == /\ pc' = [pc EXCEPT ![t] = "idle"]
           /\ job' = [job EXCEPT ![t] = None]
           /\ mem' = [mem EXCEPT ![t] = BlankMemo]
           /\ UNCHANGED todo

\* The call returns normally: a source worker goes on to mark_seen.
Return(t) == IF RoleOf[t] = "source"
             THEN GotoWith(t, "mark_seen", BlankMemo)
             ELSE Drop(t) /\ UNCHANGED seen
\* The call raises: logged by its caller, the job is not marked seen.
\* Mutant: the caller swallows the exception and marks the job seen.
RaiseMarksSeen(t) == Return(t)
Raise(t) == Drop(t) /\ UNCHANGED seen

UpdateJob(j, r) == /\ row' = [row EXCEPT ![j] = r]
                   /\ UNCHANGED <<created, guardlog, gemini>>
AppendGuard(j, g) == /\ guardlog' = [guardlog EXCEPT ![j] = Append(@, g)]
                     /\ UNCHANGED <<created, row, gemini>>

-----------------------------------------------------------------------------
(* Callers: source worker and the two sweeps *)

Deliver(t, j) ==
  /\ pc[t] = "idle" /\ RoleOf[t] = "source"
  /\ j \in Delivers[t] \ seen[t]
  /\ Begin(t, j, "get_job") /\ UNCHANGED todo
  /\ UNCHANGED <<store, out, env>>

MarkSeen(t) ==
  /\ pc[t] = "mark_seen"
  /\ Drop(t)
  /\ seen' = [seen EXCEPT ![t] = @ \cup {job[t]}]
  /\ UNCHANGED <<store, out, env>>

\* A sweep reads its rows once and then works through that list, so a row
\* can change between the query and its turn.
Sweep(t) ==
  /\ pc[t] = "idle" /\ RoleOf[t] # "source" /\ todo[t] = {}
  /\ todo' = [todo EXCEPT ![t] = IF RoleOf[t] = "classification"
                                 THEN DueClassifications
                                 ELSE DueNotifications]
  /\ UNCHANGED <<pc, job, mem, seen, store, out, env>>

NextRow(t, j) ==
  /\ pc[t] = "idle" /\ j \in todo[t]
  /\ Begin(t, j, IF RoleOf[t] = "classification" THEN "get_job" ELSE "lock")
  /\ todo' = [todo EXCEPT ![t] = @ \ {j}]
  /\ UNCHANGED <<store, out, env>>

-----------------------------------------------------------------------------
(* process_job *)

GetJob(t) ==
  LET j == job[t] IN
  /\ pc[t] = "get_job"
  /\ \/ /\ j \notin created /\ j \in Legacy
        /\ Return(t)
     \/ /\ j \notin created /\ j \notin Legacy
        /\ Goto(t, "create")
     \/ /\ j \in created /\ row[j].status # ""
        /\ Goto(t, "lock")
     \/ /\ j \in created /\ row[j].status = "" /\ row[j].final = "Pending"
        /\ GotoWith(t, "claim", [BlankMemo EXCEPT
                          !.recheck = (row[j].reason = "Guard Fallback")])
     \/ /\ j \in created /\ row[j].status = "" /\ row[j].final = "Accepted"
        /\ Goto(t, "accepted")
     \/ /\ j \in created /\ row[j].status = "" /\ row[j].final = "Rejected"
        /\ Return(t)
     \/ /\ j \in created /\ row[j].status = "" /\ row[j].final = ""
        /\ Goto(t, "dedup")
  /\ UNCHANGED <<store, out, env>>

\* Mutant: the claim is an unconditional write.
ClaimUnchecked(t) ==
  /\ pc[t] = "claim"
  /\ UpdateJob(job[t], [row[job[t]] EXCEPT !.waiting = TRUE])
  /\ Goto(t, "dedup")
  /\ UNCHANGED <<out, env>>

\* claim_pending_classification: one conditional UPDATE.
ClaimPending(t) ==
  LET j == job[t] IN
  /\ pc[t] = "claim"
  /\ \/ /\ row[j].final = "Pending" /\ ~row[j].waiting
        /\ UpdateJob(j, [row[j] EXCEPT !.waiting = TRUE])
        /\ Goto(t, "dedup")
     \/ /\ row[j].final # "Pending" \/ row[j].waiting
        /\ Raise(t)
        /\ UNCHANGED store
  /\ UNCHANGED <<out, env>>

\* A row found Accepted without a notification status.
ResumeAccepted(t) ==
  /\ pc[t] = "accepted"
  /\ UpdateJob(job[t], [row[job[t]] EXCEPT !.status = "Pending"])
  /\ Goto(t, "lock")
  /\ UNCHANGED <<out, env>>

\* create_job_if_absent: the primary key decides the race.
CreateJob(t) ==
  LET j == job[t] IN
  /\ pc[t] = "create"
  /\ \/ /\ j \notin created
        /\ created' = created \cup {j}
        /\ row' = [row EXCEPT ![j] = [BlankRow EXCEPT !.cat = FilterCat(j),
                                                 !.method = FilterMethod(j)]]
        /\ UNCHANGED <<guardlog, gemini>>
        /\ Goto(t, "dedup")
     \/ /\ j \in created
        /\ Goto(t, "reread")
        /\ UNCHANGED store
  /\ UNCHANGED <<out, env>>

\* The loser of the create race leaves the row to the winner, or resumes it.
RereadLoser(t) ==
  /\ pc[t] = "reread"
  /\ IF row[job[t]].status # "" THEN Goto(t, "lock") ELSE Return(t)
  /\ UNCHANGED <<store, out, env>>

\* Where a call goes once the project is its own.
Decide(t) ==
  LET j == job[t] IN
  CASE shape[j] = "none" ->
         GotoWith(t, "finalize", [mem[t] EXCEPT !.final = "Rejected"])
    [] shape[j] = "ambiguous" \/ (mem[t].recheck /\ shape[j] # "none") ->
         Goto(t, "llm")
    [] OTHER ->
         GotoWith(t, "finalize", [mem[t] EXCEPT !.final = "Accepted",
                       !.cat = FilterCat(j), !.method = FilterMethod(j)])

\* The claim of the job's project, in the memory of the process.
TakeProject(t) ==
  owner' = [owner EXCEPT ![ProcOf[t]] = [@ EXCEPT ![ProjectOf[job[t]]] = job[t]]]

\* Mutant: the claim does not look at the current owner.
ClaimRegardless(t) ==
  /\ pc[t] = "dedup"
  /\ Decide(t)
  /\ IF ProjectOf[job[t]] = None THEN UNCHANGED claims
     ELSE /\ TakeProject(t) /\ saved' = [saved EXCEPT ![ProcOf[t]] = owner'[ProcOf[t]]]
          /\ UNCHANGED lapsed
  /\ UNCHANGED <<store, events, publishes, env>>

\* claim_cross_source_project, atomic in the state executor and idempotent
\* for the same job.
ClaimProject(t) ==
  LET j == job[t]  p == ProjectOf[j]  proc == ProcOf[t] IN
  /\ pc[t] = "dedup"
  /\ \/ /\ p # None => owner[proc][p] = j
        /\ Decide(t) /\ UNCHANGED claims
     \/ /\ p # None /\ owner[proc][p] = None
        /\ TakeProject(t) /\ saved' = [saved EXCEPT ![proc] = owner'[proc]]
        /\ Decide(t) /\ UNCHANGED lapsed
     \/ /\ p # None /\ owner[proc][p] \notin {None, j}
        /\ Goto(t, "duplicate") /\ UNCHANGED claims
  /\ UNCHANGED <<store, events, publishes, env>>

\* The save of a new claim raises: the claim stays in memory, where the next
\* call for the job finds it.
ClaimUnsaved(t) ==
  LET p == ProjectOf[job[t]] IN
  /\ pc[t] = "dedup" /\ p # None /\ owner[ProcOf[t]][p] = None
  /\ TakeProject(t) /\ Raise(t)
  /\ UNCHANGED <<store, saved, lapsed, events, publishes, env>>

RejectDuplicate(t) ==
  /\ pc[t] = "duplicate"
  /\ UpdateJob(job[t], [row[job[t]] EXCEPT !.final = "Rejected",
                                           !.reason = "final"])
  /\ Return(t)
  /\ UNCHANGED <<out, env>>

\* The one LLM call for the whole candidate set.
Arbitrate(t) ==
  /\ pc[t] = "llm"
  /\ \/ /\ errors > 0
        /\ errors' = errors - 1
        /\ Goto(t, "llm_error")
     \/ /\ GotoWith(t, "audit", [mem[t] EXCEPT !.final = "Rejected"])
        /\ UNCHANGED errors
     \/ \E c \in Chosen :
        /\ GotoWith(t, IF mem[t].recheck THEN "rescue" ELSE "audit",
             [mem[t] EXCEPT !.final = "Accepted", !.cat = c, !.method = "llm"])
        /\ UNCHANGED errors
  /\ UNCHANGED <<store, out, shape, crashes>>

RecordLLMError(t) ==
  LET j == job[t] IN
  /\ pc[t] = "llm_error"
  /\ UpdateJob(j, [row[j] EXCEPT !.final = "Pending", !.reason = "LLM Error",
                    !.cat = "", !.method = "", !.waiting = TRUE])
  /\ Raise(t)
  /\ UNCHANGED <<out, env>>

LogRescue(t) ==
  /\ pc[t] = "rescue"
  /\ AppendGuard(job[t], [verdict |-> "notify", cat |-> mem[t].cat,
                          by |-> "rescue"])
  /\ Goto(t, "audit")
  /\ UNCHANGED <<out, env>>

LogGemini(t) ==
  /\ pc[t] = "audit"
  /\ gemini' = [gemini EXCEPT ![job[t]] = @ \cup
                  {IF mem[t].final = "Rejected" THEN "none" ELSE mem[t].cat}]
  /\ Goto(t, "finalize")
  /\ UNCHANGED <<created, row, guardlog, out, env>>

Finalize(t) ==
  LET j == job[t] IN
  /\ pc[t] = "finalize"
  /\ UpdateJob(j, [row[j] EXCEPT !.final = mem[t].final, !.reason = "final",
                    !.cat = mem[t].cat, !.method = mem[t].method])
  /\ IF mem[t].final = "Accepted" THEN GotoWith(t, "status", BlankMemo)
                                  ELSE Return(t)
  /\ UNCHANGED <<out, env>>

MarkPending(t) ==
  /\ pc[t] = "status"
  /\ UpdateJob(job[t], [row[job[t]] EXCEPT !.status = "Pending"])
  /\ Goto(t, "shorten")
  /\ UNCHANGED <<out, env>>

\* url_shortener.shorten outside any lock; fail_open leaves the row alone,
\* fail_closed raises (TaskRaises).
Shorten(t) ==
  /\ pc[t] = "shorten"
  /\ \/ UpdateJob(job[t], [row[job[t]] EXCEPT !.short = TRUE])
     \/ UNCHANGED store
  /\ Goto(t, "lock")
  /\ UNCHANGED <<out, env>>

-----------------------------------------------------------------------------
(* _resume_pending_notifications, under the per-job lock *)

\* Mutant: every keyword tie-break is taken for an arbitrated row.
AcquireTrustsTiebreak(t) ==
  LET j == job[t]
      m == [BlankMemo EXCEPT !.cat = row[j].cat, !.method = row[j].method] IN
  /\ pc[t] = "lock" /\ LockFree(t)
  /\ IF row[j].status \in {"Complete", "Suppressed"} THEN Return(t)
     ELSE GotoWith(t, IF row[j].method \in {"llm", "keyword_direct_tiebreak"}
                      THEN "fetch" ELSE "resolve", m)
  /\ UNCHANGED <<store, out, env>>

AcquireAndRead(t) ==
  LET j == job[t]
      m == [BlankMemo EXCEPT !.cat = row[j].cat, !.method = row[j].method] IN
  /\ pc[t] = "lock" /\ LockFree(t)
  /\ \/ /\ row[j].status \in {"Complete", "Suppressed"}
        /\ Return(t)
     \/ /\ row[j].status \notin {"Complete", "Suppressed"}
        /\ GotoWith(t, IF row[j].method = "llm" \/ ~GuardEnabled THEN "fetch"
                       ELSE IF row[j].cat # "" THEN "resolve" ELSE "allow", m)
  /\ UNCHANGED <<store, out, env>>

\* Mutant: the durable verdict is not reused.
ResolveAfresh(t) ==
  /\ pc[t] = "resolve"
  /\ Goto(t, "claim_guard")
  /\ UNCHANGED <<store, out, env>>

\* NotificationGuardIntegration.resolve_category.
ResolveCategory(t) ==
  LET v == Verdict(job[t])
      c == IF v.cat = "" THEN mem[t].cat ELSE v.cat IN
  /\ pc[t] = "resolve"
  /\ \/ /\ v.verdict = "notify"
        /\ GotoWith(t, IF c = mem[t].cat THEN "allow" ELSE "reclassify",
                    [mem[t] EXCEPT !.cat = c])
     \/ /\ v.verdict = "do_not_notify"
        /\ Goto(t, "allow")
     \/ /\ v.verdict \notin {"notify", "do_not_notify"}
        /\ Goto(t, "claim_guard")
  /\ UNCHANGED <<store, out, env>>

\* Mutant: the evaluation is not claimed.
ClaimGuardAlways(t) ==
  /\ pc[t] = "claim_guard"
  /\ Goto(t, "evaluate")
  /\ UNCHANGED <<store, out, env>>

ClaimGuard(t) ==
  LET j == job[t] IN
  /\ pc[t] = "claim_guard"
  /\ \/ /\ ~row[j].guardClaim
        /\ UpdateJob(j, [row[j] EXCEPT !.guardClaim = TRUE])
        /\ Goto(t, "evaluate")
     \/ /\ row[j].guardClaim
        /\ Goto(t, "poll")
        /\ UNCHANGED store
  /\ UNCHANGED <<out, env>>

\* The loser of the guard claim reuses the verdict it polls, or gives up and
\* fails closed.  It does not write the row itself.
PollVerdict(t) ==
  LET v == Verdict(job[t]) IN
  /\ pc[t] = "poll"
  /\ IF v.verdict = "notify" /\ v.cat # ""
     THEN GotoWith(t, "allow", [mem[t] EXCEPT !.cat = v.cat])
     ELSE Goto(t, "allow")
  /\ UNCHANGED <<store, out, env>>

\* guard.decide: the provider's answer is appended before it is used.
EvaluateGuard(t) ==
  LET j == job[t] IN
  /\ pc[t] = "evaluate"
  /\ \/ \E c \in {mem[t].cat, "full_stack"} :
        /\ AppendGuard(j, [verdict |-> "notify", cat |-> c, by |-> "guard"])
        /\ GotoWith(t, IF c = mem[t].cat THEN "allow" ELSE "reclassify",
                    [mem[t] EXCEPT !.cat = c])
        /\ UNCHANGED errors
     \/ /\ AppendGuard(j, [verdict |-> "do_not_notify", cat |-> "",
                           by |-> "guard"])
        /\ Goto(t, "allow")
        /\ UNCHANGED errors
     \/ /\ errors > 0
        /\ errors' = errors - 1
        /\ AppendGuard(j, [verdict |-> "error", cat |-> "", by |-> "guard"])
        /\ Goto(t, "allow")
  /\ UNCHANGED <<out, shape, crashes>>

\* Mutant: the reclassification stays in memory.
ReclassifyInMemory(t) ==
  /\ pc[t] = "reclassify"
  /\ Goto(t, "allow")
  /\ UNCHANGED <<store, out, env>>

\* The durable full_stack reclassification; the caller's snapshot keeps its
\* selection method.
Reclassify(t) ==
  LET j == job[t] IN
  /\ pc[t] = "reclassify"
  /\ UpdateJob(j, [row[j] EXCEPT !.cat = mem[t].cat, !.method = "llm"])
  /\ Goto(t, "allow")
  /\ UNCHANGED <<out, env>>

\* Mutant: the guard fails open when it has no verdict.
GuardAllowFailsOpen(t) ==
  /\ pc[t] = "allow"
  /\ Goto(t, IF Verdict(job[t]).verdict = "do_not_notify" THEN "verdict"
             ELSE "fetch")
  /\ UNCHANGED <<store, out, env>>

GuardAllow(t) ==
  /\ pc[t] = "allow"
  /\ Goto(t, IF Verdict(job[t]).verdict = "notify" THEN "fetch"
             ELSE "verdict")
  /\ UNCHANGED <<store, out, env>>

\* Mutant: every rejected pick goes to arbitration, not only a tie-break.
ReadVerdictRescuesAll(t) ==
  /\ pc[t] = "verdict"
  /\ IF Verdict(job[t]).verdict = "do_not_notify"
     THEN Goto(t, "fallback") ELSE Return(t)
  /\ UNCHANGED <<store, out, env>>

\* Only a durable do_not_notify is terminal; an error leaves the row Pending.
ReadVerdict(t) ==
  /\ pc[t] = "verdict"
  /\ \/ /\ Verdict(job[t]).verdict = "do_not_notify"
        /\ Goto(t, IF mem[t].method = "keyword_direct_tiebreak"
                   THEN "fallback" ELSE "suppress")
     \/ /\ Verdict(job[t]).verdict # "do_not_notify"
        /\ Return(t)
  /\ UNCHANGED <<store, out, env>>

GuardFallback(t) ==
  LET j == job[t] IN
  /\ pc[t] = "fallback"
  /\ UpdateJob(j, [row[j] EXCEPT !.final = "Pending", !.status = "",
                    !.reason = "Guard Fallback", !.waiting = TRUE])
  /\ Return(t)
  /\ UNCHANGED <<out, env>>

Suppress(t) ==
  /\ pc[t] = "suppress"
  /\ UpdateJob(job[t], [row[job[t]] EXCEPT !.status = "Suppressed"])
  /\ Return(t)
  /\ UNCHANGED <<out, env>>

\* _publish_and_mark_complete: fresh read, XADD, then the Complete write.
FetchFinal(t) ==
  /\ pc[t] = "fetch"
  /\ GotoWith(t, "publish", [mem[t] EXCEPT !.cat = row[job[t]].cat,
                                           !.short = row[job[t]].short])
  /\ UNCHANGED <<store, out, env>>

\* Mutant: a failed XADD is swallowed.
PublishSwallows(t) ==
  LET j == job[t] IN
  /\ pc[t] = "publish"
  /\ \/ /\ events' = [events EXCEPT ![j] = @ \cup
                        {[cat |-> mem[t].cat, short |-> mem[t].short]}]
        /\ publishes' = [publishes EXCEPT ![j] = IF @ = 0 THEN 1 ELSE 2]
     \/ UNCHANGED <<events, publishes>>
  /\ Goto(t, "complete")
  /\ UNCHANGED <<store, claims, env>>

Publish(t) ==
  LET j == job[t] IN
  /\ pc[t] = "publish"
  /\ events' = [events EXCEPT ![j] = @ \cup
                  {[cat |-> mem[t].cat, short |-> mem[t].short]}]
  /\ publishes' = [publishes EXCEPT ![j] = IF @ = 0 THEN 1 ELSE 2]
  /\ Goto(t, "complete")
  /\ UNCHANGED <<store, claims, env>>

MarkComplete(t) ==
  /\ pc[t] = "complete"
  /\ UpdateJob(job[t], [row[job[t]] EXCEPT !.status = "Complete"])
  /\ Return(t)
  /\ UNCHANGED <<out, env>>

-----------------------------------------------------------------------------
(* Environment: exceptions, crashes, time *)

\* Any await of a running call may raise: a repository error, a failed
\* publish, a fail_closed shortener.
TaskRaises(t) ==
  /\ pc[t] # "idle" /\ crashes > 0
  /\ crashes' = crashes - 1
  /\ Raise(t)
  /\ UNCHANGED <<store, out, shape, errors>>

\* The process dies and restarts: tasks, sweep lists and unsaved claims are lost,
\* the database, the stream, the state file and the seen marks are not.
Crash(p) ==
  LET dead == {t \in Tasks : ProcOf[t] = p} IN
  /\ crashes > 0
  /\ crashes' = crashes - 1
  /\ pc' = [t \in Tasks |-> IF t \in dead THEN "idle" ELSE pc[t]]
  /\ job' = [t \in Tasks |-> IF t \in dead THEN None ELSE job[t]]
  /\ mem' = [t \in Tasks |-> IF t \in dead THEN BlankMemo ELSE mem[t]]
  /\ todo' = [t \in Tasks |-> IF t \in dead THEN {} ELSE todo[t]]
  /\ owner' = [owner EXCEPT ![p] = saved[p]]
  /\ lapsed' = lapsed \cup {q \in Projects : saved[p][q] # owner[p][q]}
  /\ UNCHANGED <<seen, store, saved, events, publishes, shape, errors>>

\* The sources keep their own records in the same file, and save all of it.
SaveState(p) ==
  /\ saved' = [saved EXCEPT ![p] = owner[p]]
  /\ UNCHANGED <<owner, lapsed, store, events, publishes, ctl, env>>

\* Classification Retry Not Before passes: a lease or a backoff runs out.
RetryWindowElapses(j) ==
  /\ row[j].waiting
  /\ Timely => \A t \in Tasks : job[t] = j => pc[t] \notin AttemptLabels
  /\ UpdateJob(j, [row[j] EXCEPT !.waiting = FALSE])
  /\ UNCHANGED <<out, ctl, env>>

GuardLeaseElapses(j) ==
  /\ row[j].guardClaim
  /\ Timely => \A t \in Tasks :
                 job[t] = j => pc[t] \notin {"claim_guard", "evaluate"}
  /\ UpdateJob(j, [row[j] EXCEPT !.guardClaim = FALSE])
  /\ UNCHANGED <<out, ctl, env>>

\* A claim is thirty days old.
ClaimRunsOut(p, q) ==
  /\ owner[p][q] # None
  /\ Timely => \A t \in Tasks : pc[t] # "idle" => ProjectOf[job[t]] # q
  /\ owner' = [owner EXCEPT ![p] = [@ EXCEPT ![q] = None]]
  /\ saved' = [saved EXCEPT ![p] = [@ EXCEPT ![q] = None]]
  /\ lapsed' = lapsed \cup {q}
  /\ UNCHANGED <<store, events, publishes, ctl, env>>

-----------------------------------------------------------------------------
\* What the sources know, they have from before: a first poll marks what it
\* finds seen.
InitKnowing(known) ==
  /\ shape \in [Jobs -> Shapes]
  /\ created = {}
  /\ row = [j \in Jobs |-> BlankRow]
  /\ guardlog = [j \in Jobs |-> <<>>]
  /\ gemini = [j \in Jobs |-> {}]
  /\ owner = [p \in Procs |-> [q \in Projects |-> None]] /\ saved = owner
  /\ lapsed = {}
  /\ events = [j \in Jobs |-> {}]
  /\ publishes = [j \in Jobs |-> 0]
  /\ pc = [t \in Tasks |-> "idle"]
  /\ job = [t \in Tasks |-> None]
  /\ mem = [t \in Tasks |-> BlankMemo]
  /\ todo = [t \in Tasks |-> {}]
  /\ seen = known
  /\ crashes \in 0..MaxCrashes /\ errors = MaxErrors

Init == InitKnowing([t \in Tasks |-> {}])

\* A running call moves on.
TaskStep(t) ==
  \/ MarkSeen(t) \/ GetJob(t) \/ ClaimPending(t) \/ ResumeAccepted(t)
  \/ CreateJob(t) \/ RereadLoser(t) \/ ClaimProject(t) \/ RejectDuplicate(t)
  \/ Arbitrate(t) \/ RecordLLMError(t) \/ LogRescue(t) \/ LogGemini(t)
  \/ Finalize(t) \/ MarkPending(t) \/ Shorten(t) \/ ResolveCategory(t)
  \/ ClaimGuard(t) \/ PollVerdict(t) \/ EvaluateGuard(t) \/ Reclassify(t)
  \/ GuardAllow(t) \/ ReadVerdict(t) \/ GuardFallback(t) \/ Suppress(t)
  \/ FetchFinal(t) \/ Publish(t) \/ MarkComplete(t)

TaskNext(t) ==
  \/ \E j \in Jobs : Deliver(t, j) \/ NextRow(t, j)
  \/ Sweep(t) \/ AcquireAndRead(t) \/ TaskStep(t) \/ TaskRaises(t) \/ ClaimUnsaved(t)

\* The state file changes, or time makes a claim void.
ClaimsNext == \E p \in Procs : SaveState(p) \/ \E q \in Projects : ClaimRunsOut(p, q)

TimeNext == \E j \in Jobs : RetryWindowElapses(j) \/ GuardLeaseElapses(j)

Next == \/ \E t \in Tasks : TaskNext(t)
        \/ \E p \in Procs : Crash(p)
        \/ TimeNext \/ ClaimsNext

Spec == Init /\ [][Next]_vars

\* The event loop keeps running every call (all its awaits are bounded by
\* timeouts), wakes lock waiters in turn, and time passes.
Fairness ==
  /\ \A t \in Tasks : /\ WF_vars(TaskStep(t))
                      /\ SF_vars(AcquireAndRead(t))
                      /\ WF_vars(Sweep(t))
                      /\ \A j \in Jobs :
                           /\ WF_vars(Deliver(t, j))
                           /\ WF_vars(NextRow(t, j))
  /\ \A j \in Jobs : /\ SF_vars(RetryWindowElapses(j))
                     /\ SF_vars(GuardLeaseElapses(j))

FairSpec == Spec /\ Fairness

-----------------------------------------------------------------------------
(* Properties *)

StoreType ==
  /\ created \subseteq Jobs
  /\ row \in [Jobs -> Row]
  /\ guardlog \in [Jobs -> Seq(GuardRow)]
  /\ gemini \in [Jobs -> SUBSET (Cats \cup {"none"})]
OutType ==
  /\ {owner, saved} \subseteq [Procs -> [Projects -> Jobs \cup {None}]]
  /\ lapsed \subseteq Projects
  /\ events \in [Jobs -> SUBSET Event]
  /\ publishes \in [Jobs -> 0..2]
CtlType ==
  /\ pc \in [Tasks -> Labels]
  /\ job \in [Tasks -> Jobs \cup {None}]
  /\ mem \in [Tasks -> Memo]
  /\ todo \in [Tasks -> SUBSET Jobs]
  /\ seen \in [Tasks -> SUBSET Jobs]
  /\ \A t \in Tasks : pc[t] # "idle" => job[t] \in Jobs
EnvType == shape \in [Jobs -> Shapes] /\ crashes \in Nat /\ errors \in Nat

\* Every variable keeps its type: rows hold only values the code writes, a
\* running call always works on a job.
TypeOK == StoreType /\ OutType /\ CtlType /\ EnvType

\* Categories the guard log or the gemini table names for a job.
NotifyCats(j) == {g.cat : g \in {guardlog[j][i] : i \in
                   {k \in DOMAIN guardlog[j] : guardlog[j][k].verdict = "notify"}}}
LLMCats(j) == gemini[j] \cap Chosen
Approved(j) == \/ ~GuardEnabled
               \/ \E i \in DOMAIN guardlog[j] : guardlog[j][i].verdict = "notify"
               \/ LLMCats(j) # {}
Rejected(j) == \E i \in DOMAIN guardlog[j] :
                 guardlog[j][i].verdict = "do_not_notify"

\* The guard is fail-closed: no event reaches the stream unless a durable
\* audit row lets the job through, a guard "notify" or an LLM selection,
\* whatever crashes, retries and races happened on the way.
PublishedWasApproved == \A j \in Jobs : publishes[j] > 0 => Approved(j)

\* Publish-before-complete: a Complete row has its event in the stream.
CompleteWasPublished ==
  \A j \in Jobs : row[j].status = "Complete" => publishes[j] > 0

\* A suppression is not recorded for a job consumers already received.
SuppressedNeverPublished ==
  \A j \in Jobs : row[j].status = "Suppressed" => publishes[j] = 0

\* A clean single-candidate pick the guard rejected is never delivered, by
\* this call, a sweep, a restart or another source's call.
DirectRejectionIsFinal ==
  \A j \in Jobs : shape[j] = "direct" /\ Rejected(j) => publishes[j] = 0

\* Of two jobs for one freelance project at most one is ever streamed, as long
\* as no claim of the project ran out or was lost before it was saved.
OnePublishPerProject ==
  \A i, j \in Jobs : (/\ ProjectOf[i] # None /\ ProjectOf[i] = ProjectOf[j]
                      /\ publishes[i] > 0 /\ publishes[j] > 0)
                       => i = j \/ ProjectOf[i] \in lapsed

\* A job the guard never sends to the rescue arbitration.
Plain(j) == shape[j] # "tiebreak"

\* Every category the stream carries for a plain job was named by the guard
\* or by the LLM: a reclassification to full_stack is never half applied,
\* whatever falls between the verdict row, the row update and the publish.
\* (A rescued job can leave under its old category, see RescueRowIsAudit.)
EventCategoryApproved ==
  GuardEnabled => \A j \in Jobs : Plain(j) => \A e \in events[j] :
                    e.cat \in NotifyCats(j) \cup LLMCats(j)

\* The classification claim keeps source rediscovery and the retry sweep from
\* paying for two LLM calls on one pending row.
SingleArbitration ==
  \A t, u \in Tasks :
    pc[t] = "llm" /\ pc[u] = "llm" /\ job[t] = job[u] => t = u

\* Once the guard's provider gave a valid verdict on a job it is not asked
\* again, so two verdicts can never contradict each other.
VerdictIsFinal ==
  [][\A t \in Tasks : EvaluateGuard(t) =>
       ~ \E i \in DOMAIN guardlog[job[t]] :
           /\ guardlog[job[t]][i].by = "guard"
           /\ guardlog[job[t]][i].verdict # "error"]_vars

Working(j) == \E t \in Tasks : job[t] = j /\ pc[t] \notin {"idle", "mark_seen"}
Settled(j) == \/ row[j].status \in {"Complete", "Suppressed"}
              \/ row[j].status = "" /\ row[j].final = "Rejected"

Recoverable(j) ==
  \/ Working(j) \/ Settled(j)
  \/ row[j].status = "Pending"
  \/ row[j].final = "Pending" /\ row[j].reason \in {"LLM Error", "Guard Fallback"}
SeenJobs == {j \in Jobs \ Legacy : \E t \in Tasks : j \in seen[t]}

\* When a source has marked a job seen, nobody hands it over again: unless
\* it needed the rescue (see SeenJobIsRecoverable), its row is settled or one
\* of the sweeps can still select it.
PlainJobIsRecoverable ==
  \A j \in SeenJobs : Plain(j) => Recoverable(j)

\* Every job a source hands over ends delivered, suppressed or rejected.
EveryJobSettles == \A j \in Jobs \ Legacy : []<>Settled(j)

\* The pipeline implements the delivery contract.
approvedJobs == {j \in Jobs : Approved(j)}
streamedJobs == {j \in Jobs : publishes[j] > 0}
completeJobs == {j \in Jobs : row[j].status = "Complete"}
C == INSTANCE DeliveryContract WITH approved <- approvedJobs,
                                    streamed <- streamedJobs,
                                    complete <- completeJobs,
                                    forgotten <- lapsed
Delivered == C!Contract

-----------------------------------------------------------------------------
(* What docs and tests of the repository say of the pipeline and the code   *)
(* does not keep. SeenJobIsRecoverable has a run of its own; the README     *)
(* says on which instances TLC finds the others violated.                   *)

\* Loki "is designed so that failure leaves work recoverable rather than lost"
\* (DOCUMENTATION.md 17), a rescued job included.
SeenJobIsRecoverable == \A j \in SeenJobs : Recoverable(j)

\* Claims are "stored in the durable JSON state ..., so a restart does not lose
\* the association" (DOCUMENTATION.md 8): when a job is decided under a claim,
\* the file has it.
DecidedUnderSavedClaim ==
  \A j \in Jobs : row[j].final \in {"Pending", "Accepted"} =>
    LET p == ProjectOf[j] IN
      p = None \/ p \in lapsed \/ \E proc \in Procs : saved[proc][p] = j

\* "the same job is never published twice" by a sweep and a live call that
\* overlap (tests/test_notification_recovery.py); the run lets nothing crash.
PublishedOnce == \A j \in Jobs : publishes[j] <= 1

\* A job the guard rejected leaves only as an LLM-reviewed row: the rescue's
\* audit row "cannot re-trigger evaluation or flip delivery" (process_job).
RescueRowIsAudit ==
  [][\A t \in Tasks : Publish(t) /\ Rejected(job[t]) =>
       row[job[t]].method = "llm"]_vars
=============================================================================
