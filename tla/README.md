# A TLA+ verification of loki-freelance-assistant

The program watches several sources of freelance jobs (Telegram channels, the
FreeHub API, files written by scrapers), stores every job in Postgres,
classifies it with keyword rules and, where those do not decide, with an LLM,
asks a *Notification Guard* (a second LLM) whether consumers should see it, and
publishes what is approved as one event on a Redis stream. It is one Python
process of cooperating asyncio tasks. Replicas may share the database (a claim in
it is conditional), but not the state file: "do not scale the `loki` service to
multiple replicas sharing them" (README.md:488-491).

This directory models its control: every state change, guard, early return and
error path of the modelled parts, at the granularity of the awaits between which
another task, a crash or a failing dependency can come. Paths below are relative
to `src/`; `job_processor.py` is `app/services/job_processor.py`,
`integration.py` is `app/notification_guard/integration.py`, `telegram.py` is
`app/adapters/sources/telegram.py`.

Contents: [1 The system](#1-the-system) ·
[2 The modules](#2-the-modules) · [3 The runs](#3-the-runs) ·
[4 What the runs refute](#4-what-the-runs-refute) ·
[5 Seen, but not run](#5-seen-but-not-run) · [6 The proofs](#6-the-proofs) ·
[7 What is not modelled](#7-what-is-not-modelled) · [8 Plan](#8-plan)

To check a run: `tlc -workers 2 -config <run>.cfg <module>.tla`, with the module
`PROJECT.json` names for it (`MCJobPipeline`, `TelegramChannel`, `FreeHubSource`,
`MCRotation`, `MCSelection`, `MCScraper`, `Supervision`, `PersistenceCalls`).
To check the proofs: `tlapm <module>.tla` for each of `JobPipelineProofs`,
`TelegramProofs`, `FreeHubProofs`, `SelectionProofs`, `ScraperProofs`, `RotationProofs`,
`CallsProofs` and `SupervisionProofs`; each takes a few minutes. `PROJECT.json` also lists at least one mutant per checked
property (the `Mutant:` operators of the modules), the theorems, the hazards of
the code, and the source lines each definition stands for.

## 1 The system

### Components

| component | state | operations | what is hard | what makes it correct |
|---|---|---|---|---|
| job processor (`job_processor.py`) | a per-job asyncio lock; all else is in the job row | `process_job`, `notification_retry_loop`, `classification_retry_loop` | three kinds of caller work on one row; each repository call is a commit of its own; sweeps work through a list read earlier | fail-closed publishing, publish before Complete, no job lost, one LLM call at a time, every job settles |
| notification guard (`integration.py`, `guard.py`, `logger.py`) | `notification_guard` rows, an evaluation claim in the job row | `resolve_category`, `allow`, `decide` | two processes and a sweep ask about one job; verdict row and reclassification are two commits; provider errors | one provider verdict per job, an error is neither approval nor rejection, a reclassification is not half applied |
| postgres repository (`postgres.py`) | `jobs`, `notification_guard`, `gemini` tables; a thread pool and its quarantine | create-if-absent, conditional claims, sweep queries, updates; `run` | a claim must be one conditional statement; an update is unconditional; a thread cannot be killed | at most one claimant; a sweep selects every unfinished row; a write given up never lands on a later one |
| source worker (`source_worker.py`) | none | poll, `deliver`, `mark_seen` | an exception between deliver and mark_seen | what is not processed is not marked seen |
| state backend (`state.py`) | seen sets, watermarks, cross-source claims, FreeHub cursors in one JSON file | load, save with backup, claim | memory is updated before the save; a save that times out may still happen | a project has one owner, as long as its claim is kept |
| Telegram channel worker (`telegram.py`) | per channel: durable watermark, lock, barrier, wake event, failure generation | live handler, start-up recovery, retry watcher, reconnect | all four run concurrently over one watermark; failures must hold it back | the watermark passes no unprocessed message; everything is processed in the end |
| Telegram poll source (`telegram.py`) | in-flight deque, watermark | poll, `mark_seen` | only a contiguous head may be confirmed | as above |
| FreeHub source (`freehub.py`) | seen deque (bounded), pending list, page cursor | `poll_source`, `mark_project_seen` | paging over a list that shifts; two saves per project; a cap on the pages of one walk | every project on a listed page is delivered or pending |
| web scraper (`scraper/scraper.py`) | what one run has found | search LinkedIn page by page and Wuzzuf in parallel, detail requests, snapshot | lists shift while they are read; blocked and failed requests; killed at any point | no listed job skipped between pages; a failure is never saved as a posting |
| scraper scheduler and file sources (`scraper_scheduler.py`, `scraper_file.py`) | consecutive failures; in-memory seen sets | run the child with a timeout, sleep; poll the snapshot | the file is rewritten in place while it is read | every listed job within reach is processed in the end |
| LLM manager and rotation (`llm/`) | cooldown and daily count per candidate, shared by all threads | `arbitrate_category`, `run_with_rotation`, `mark_*`, `filter_available` | runs in a thread that outlives its caller; deadline checks | threads end in time; no request for a caller that gave up; cooldowns alone fail nothing |
| guard provider rotation (`notification_guard/groq.py`) | the winning model, in the provider object | the same rotation | concurrent evaluations | the model logged is the one that decided |
| timeouts (`infra/timeouts.py`) | none | `call_with_timeout` | the call goes on in its thread | as above |
| deterministic classifier (`domain/`) | none | keyword tiers, decision table, selection | overlapping keywords, close candidates | reference definition of the selection; no candidate dropped |
| worker registry, bot (`wiring/workers.py`, `bot.py`) | a TaskGroup | start, track, cancel, exit | one worker's exception takes the others down | what stopped is reported |
| heartbeat and healthcheck (`infra/`) | liveness registry; heartbeat file | beat, snapshot, probe | beats are read from a snapshot in another process | no silent death, no false alarm |
| publisher, shortener, HTTP, parsers, config, migrations | none | one call each | I/O | |

### How they interact

A source hands a project to `process_job` and marks it seen when the call
returns. `process_job` writes the row, decides, starts the notification workflow
and resumes it under the per-job lock; the guard, called there, reads and appends
its own rows and may reclassify the job; an approved job is published, then
marked Complete. A call that fails leaves a row in a state one of the two sweeps
selects: `classification_retry_loop` re-runs `process_job` on rows Pending for
an LLM error or the guard fallback, `notification_retry_loop` resumes rows with
an unsettled notification status. Tasks of one process share the per-job lock;
processes share only the database and the stream; each has a state file of its own.

Classification asks the deterministic tier first; where that does not decide,
the LLM manager runs a chain of providers, each a rotation over candidates, in a
thread under a timeout, and the guard does the same with chains of its own. The
scraper is a child process that the scheduler starts again and again; it hands
its results to two file sources through a snapshot on disk. Every worker beats
into the liveness registry, the heartbeat loop writes the registry to a file, and
a probe outside the process judges the container by the file. Both stores, the
database and the state file, report a call that timed out to the same registry.

The *rescue* deserves a word, for most of what goes wrong is in it. A job whose
keyword categories tied is published under the tie-break winner only if the
guard agrees. If the guard rejects it, the job is reset to Pending
(`Guard Fallback`), the classification sweep later puts all candidates to the
LLM, and a pick of the LLM is recorded as a `notify` row of the guard log and
sent through the notification workflow again.

## 2 The modules

| module | role |
|---|---|
| `JobPipeline` | the job processor with the rows, claims, guard, stream and source loop it works on |
| `DeliveryContract` | what a consumer of the stream is promised: the abstract specification |
| `MCJobPipeline` | instances for TLC: tasks, roles, processes, jobs |
| `JobPipelineProofs` | theorems about `JobPipeline`: types, approval, publishing, one event per project, the contract; and those that rest on leases and locks: verdicts, arbitration, suppression, recoverability, categories |
| `TelegramChannel` | one channel of the Telegram worker, with its own instance in the cfg file |
| `TelegramProofs` | theorems about `TelegramChannel` |
| `StateFile` | the state file, its in-memory copy and the executor's quarantine, as a component that saves through it sees them |
| `FreeHubSource` | one FreeHub platform: polls, pages, seen and pending lists, and the source worker's batch; EXTENDS `StateFile` |
| `Lists` | sorting and filtering of lists, as `FreeHubSource` and `ScraperChain` use them |
| `FreeHubProofs` | theorems about `FreeHubSource` |
| `ProviderRotation` | calls of the LLM: thread, timeout, provider chain, candidate rotation and cooldown tracker, for the arbitration and for the guard |
| `MCRotation` | its instance |
| `RotationProofs` | theorems about `ProviderRotation` |
| `CategorySelection` | the deterministic tier: keyword matching, decision table of one category, selection between categories, and what `process_job` makes of it |
| `MCSelection` | its instance: a vocabulary and three profiles |
| `SelectionProofs` | theorems about `CategorySelection`, and the induction over loops they rest on |
| `ScraperChain` | scraper, scheduler, snapshot file and the two file sources, from the sites to the pipeline |
| `MCScraper` | its instance |
| `ScraperProofs` | theorems about `ScraperChain` |
| `Supervision` | liveness registry, heartbeat file, probe, task group, and the workers as far as they beat |
| `SupervisionProofs` | theorems about `Supervision` |
| `PersistenceCalls` | a call of a store on its threads: timeout, abandoned writes, quarantine, and the beat that reports it |
| `CallsProofs` | theorems about `PersistenceCalls` |

`JobPipeline` is the centre: `CategorySelection` refines where its `shape` of a job
comes from, `ProviderRotation` where the outcome of `Arbitrate` and
`EvaluateGuard` does, `ScraperChain`, `FreeHubSource` and `TelegramChannel` are its
callers, with a `process_job` that returns or raises. `PersistenceCalls` is the
case of a repository call that times out.

### JobPipeline

*State.* `row` is the part of a jobs row that decides anything, `guardlog` the
`notification_guard` rows of a job in order, `gemini` the selections in the
gemini table, `events`/`publishes` the stream. `owner` holds the cross-source claims
in the memory of each process and `saved` those in its state file; `lapsed` is a
history: the projects of which a claim ran out, or was lost before it was saved.
`pc`, `job`, `mem` are the label, job and local variables of each task's current
call; `todo` is the rest of a sweep's result list; `seen` what a source has
confirmed. `shape` is what the keyword tier says of a job's text: no category,
one clean pick, a tie-break pick, or ambiguous (an LLM decides).

*Actions.* One per stretch of code between two awaits on shared state, named for
the await:

| code | actions |
|---|---|
| source worker loop | `Deliver`, `MarkSeen` |
| retry loops | `Sweep` (the query), `NextRow` (one row's turn) |
| `process_job`: row lookup and resume branches | `GetJob`, `ClaimPending`, `ResumeAccepted`, `CreateJob`, `RereadLoser` |
| cross-source dedup, `claim_cross_source_project` | `ClaimProject`, `ClaimUnsaved`, `RejectDuplicate` |
| LLM arbitration | `Arbitrate`, `RecordLLMError`, `LogRescue`, `LogGemini` |
| decision, status, short URL | `Finalize`, `MarkPending`, `Shorten` |
| `resume_notification` under the lock | `AcquireAndRead`, `ResolveCategory`, `GuardAllow`, `ReadVerdict`, `GuardFallback`, `Suppress` |
| guard: claim, provider call, poll, reclassify | `ClaimGuard`, `EvaluateGuard`, `PollVerdict`, `Reclassify` |
| `_publish_and_mark_complete` | `FetchFinal`, `Publish`, `MarkComplete` |
| environment | `TaskRaises`, `Crash`, `RetryWindowElapses`, `GuardLeaseElapses`, `ClaimRunsOut`, `SaveState` |

Modelling decisions:

* **A failing await.** `TaskRaises` drops the call at any label: the repository
  call that raised has not committed. One that commits and still raises (a
  timeout that quarantines the connection) leaves the states of the action
  followed by `TaskRaises`, which the model has as well.
* **Crash** ends every task of a process and loses its sweep lists; rows, stream,
  state file and seen marks stay, and the claims are those of the file.
* **Cross-source claims.** A claim is put into memory, then saved. `ClaimUnsaved` is
  the save that raises: the call fails, the claim stays in memory, and the retry of
  the job goes on under it without a save (`state.py:336-340`). A later save, for
  whatever reason, writes it (`SaveState`). A claim of thirty days runs out
  (`ClaimRunsOut`); with `Timely`, not while a call works on a job of the project.
  `OnePublishPerProject` and the contract hold of a project until one of its claims
  ran out or was lost; that a claim under which a job was decided can be lost at all
  is against the documentation (section 5).
* **Time.** A timestamp is kept as "has not passed yet" (`waiting`, `guardClaim`),
  set by the code and cleared by `RetryWindowElapses` / `GuardLeaseElapses`. With
  `Timely` a lease does not run out under the attempt it covers: the code
  chooses 120 s for one LLM arbitration (`job_processor.py:21-29`) and 90 s for a
  provider call of 47 s at worst (`integration.py:7-13`). Every run sets it:
  `SingleArbitration` and `VerdictIsFinal` hold by those leases, not by a lock.
  The theorems that need it state it as a hypothesis (section 6); the others hold
  without it.
* **The guard's provider** answers notify (same category, or full_stack),
  do_not_notify, or an error; an error branch also stands for an answer whose log
  row could not be written. The verdict row is appended before the answer is used.
* **PollVerdict** is one read at an arbitrary moment: the code polls a bounded
  number of times, and of its reads only the last before it stops matters.
* **Legacy** jobs have a row under the pre-stable-identity UUID and are skipped.
* A row's status is never set back to the empty string except by `GuardFallback`;
  column values that decide nothing (texts, scores, links, timestamps of record)
  are left out.

`Plain(j)` excludes tie-break jobs from `PlainJobIsRecoverable` and from what
`settles` starts with a crash to come. That is where the code does not keep them:
the unrestricted statement is refuted by a run of its own (section 4).

### DeliveryContract

Three sets of jobs, *approved*, *streamed* and *complete*, a set of *forgotten*
projects, and five actions. The
pipeline implements it with `approved` = jobs with a notify verdict or an LLM
selection on record (every job, without a guard), `streamed` = jobs the stream
carries, `complete` = rows Complete, `forgotten` = `lapsed`: two jobs of one project
are not both streamed unless it was forgotten (`Forget`). `Reopen` is in the contract because the
pipeline does reopen Complete rows: delivery is at least once.

### TelegramChannel

*One channel suffices*: lock, barrier, wake event, failure generation and
watermark are all per channel, and the start-up recovery visits channels one
after another, which only delays it. Messages are their ids. `handler[m]` is
where the live handler of `m` is (`chat`: awaiting `get_chat`; `lock`; `set`:
saving the watermark; `log`: in the except branch), `worker` where the recovery
task is, `walk` its pass over a snapshot.

| code | actions |
|---|---|
| Telethon handler, `_handle_live_message` | `Post`, `GetChat`, `Process`, `SetMark`, `LogFailure` |
| `_recover_channel` | `Seed`, `Fetch`, `FetchRaises`, `Recover`, `RecoverMark`, `RecoverLog` |
| `_retry_recovery_channel` | `Watch`, `Woken`, `BackedOff` |
| `run`, `_run_telegram_loop` | `Connect`, `Disconnect` |

Modelling decisions:

* The channel lock is `asyncio.Lock`, which serves waiters in order: `holder` and
  the FIFO `queue`.
* `process_message` returns True, returns False (after logging), or raises when
  its own log fails. The error log has a budget of failures of its own.
* A watermark save that raises may have reached the disk or not.
* Disconnect cancels live handlers along with the client they run in. That is
  Telethon's behaviour and an assumption here; the code in `src/` relies on the
  client's disconnect to end its handlers.
* `base`, `held`, `unreported` are history variables: where the channel was first
  tracked, which messages raised the barrier while the watermark was before them,
  which failures could not be logged. No guard reads them.
* The watermark may move *backwards*: it is stored unconditionally, and a handler
  that waited for the lock during a recovery confirms its older message after it.
  That costs a second processing of messages, which `process_job` makes harmless.
* The give-up after a maximum of consecutive reconnects, and the liveness beats,
  are left out.

### StateFile and FreeHubSource

*State.* `data` is the dictionary in memory, `disk` what a restart would load,
`quarantined` the executor's poison flag; `cache` is the process's deque of seen
ids. Projects are numbered in posting order and the feed shows them newest first,
so a project posted during a walk shifts every page. `walk` holds the local
variables of a poll, `queue` the rest of the batch the worker processes.

| code | actions |
|---|---|
| `StateManager` setters, `save`, `run`, `load` | `Stored`, `Unstored`, `Refused`, `OtherSave`, `Load` |
| `poll_source` | `Poll`, `FetchFirst`, `Seed`, `FetchNext`, `CaughtUp`, `HitCap`, `Record`, `FetchFails` |
| source worker's batch, `mark_project_seen` | `Process`, `MarkSeen`, `RemovePending`, `EndBatch` |
| process start | `Reboot` in `Crash` and `Restart` |

Modelling decisions:

* *One platform suffices*: platforms are polled concurrently but share nothing
  but the state file, whose setters run one at a time. Another component's save
  (`OtherSave`) writes the whole dictionary, FreeHub's unsaved part included.
* Polling and marking alternate in one task, so they never interleave.
* A setter changes memory first. A save that raises leaves the old or the new
  file: it may fail before or after the file is replaced, the backup being
  written last. A save that outlives its timeout does the same and quarantines
  the executor; everything that needs the state then raises until a restart.
* `process_job` returns or raises; a raise is also what `ClassificationPendingError`
  does to the batch.
* The feed only grows: withdrawn projects are left out.
* `processed`, `base` and `capped` are history variables: what `process_job`
  accepted, the newest project of the page a first poll took for known, whether
  any walk hit the page cap.

### ProviderRotation

*State.* A call is a slot: free, queued for a thread, in a thread between two
requests (`pick`), in a request (`calling`), or on its way back (`won`, `named`).
`call[k].left` is the time to the deadline, negative once it is over, `age` that
of the running attempt. `cooling` and `daily` are the tracker, `model` the field of
the provider object, `result` what the caller got.

| code | actions |
|---|---|
| `call_with_timeout` around `asyncio.to_thread` | `Submit`, `Start`, `GiveUp`, and `Return` in `Raise` and `Answer` |
| `run_with_rotation` | `Rotate`, `Attempt`, `Skip`, `StopRotation`, `Fail`, `Succeed` |
| `rate_limit_tracker.py` | `FilterAvailable`, `MarkRateLimited`, `MarkPermanentlyBroken`, `MarkSuccess` |
| provider chains of `manager.py` and `guard.py` | `Raise`, `NoteModel`, `Answer` |
| time | `Tick` |

Modelling decisions:

* The two chains have the same loop and share the executor and the tracker; one
  model stands for both, with the provider object built per call as the guard's
  factory does.
* Time is time left, so the model is finite and no behaviour has to end. The steps
  of a thread between two requests take no time; a request takes at most
  `AttemptTime`, the HTTP timeout with its retries.
* The candidates are filtered once when a rotation starts, and the filter is one
  step with its start: a tracker entry that changes in between is the same as one
  that changes before or after.
* A failure says nothing about the candidate (truncated answer, overload), or is a
  rate limit, a daily quota, or unknown, which only a provider with a set of
  decommissioned models takes for permanent. The message texts that tell these
  apart are left out.
* The cooldown of a daily quota doubles with each failure up to a cap. The instance
  has the cap at the first step, so its run does not see the escalation grow; the
  theorems hold for any growth.

### CategorySelection

A text is a sequence of words, a keyword a short one; a tier is sorted longest
first as `_flatten` sorts it, and a match is blanked out before shorter keywords
are looked for. A loop of the code over a list is a
`Pass`, the last of its `Passes`: a recursive function, where the folds of the
community modules would hide what a theorem has to expand. `Init` picks a title and a
description and bounds them; then the
four steps of the code follow: `ClassifyCategories` (all profiles), `Select`, and
one of `Arbitrate`, `AcceptPick`, `Reject`. What is abstracted: normalization, the
regular expressions of a keyword (an Arabic prefix on the first word of a phrase
stands for its variants), the pruning of evidence that decides nothing. Scores are
ten times the code's, so that its weight 0.8 is an integer; the rounding of its
floats is not modelled.

### ScraperChain

*State.* `site` lists the postings of a site newest first and grows at any moment;
`run`, `linkedin`, `wuzzuf`, `output` are the child process; `file` is the snapshot,
empty while it is torn; `batch` and `seen` belong to the two sources; `decided` is
the durable row, made from a text or from an empty description.

| code | actions |
|---|---|
| sites | `Post` |
| scheduler | `StartRun`, `EndRun`, `Kill` |
| `scraper.py`: search, details, `to_output_schema`, `save_results` | `LinkedInPage`, `WuzzufPage`, `CrawlDetails`, `OpenFile`, `WriteFile` |
| file sources and their workers | `Poll`, `ProcessJob`, `ProcessRaises`, `Crash` |

Modelling decisions:

* Pages are read from the list as it is at that moment. A failed or unparsable page
  is an empty page. LinkedIn is read in order until a page is empty, repeated or
  short; Wuzzuf's pages after the first in any order.
* `wall` is a login wall `parse_linkedin_detail` recognises; one it does not
  recognise is saved with an empty description (section 5).
* `ProcessRaises` also stands for `ClassificationPendingError`, so the row may
  exist when it raises.
* The side file of seen keys only filters what the child logs, the pre-detail
  filter lets everything through, and postings are not withdrawn: left out.

### Supervision

*Time* passes in units. What is due happens before more of it passes, unless the
event loop is blocked. A poll, a scrape, a connect or the closing of a client takes
any time, without a beat; an operation that never ends is a hang. An
age grows only up to where nothing depends on it any more. The heartbeat file is
kept with its own age and, per worker, its state and whether its beat was late
when the file was written, because the probe compares the two times in the file.

| code | actions |
|---|---|
| `WorkerRegistry.run`, `_run_tracked` | `StartWorker`, `Dies`, `CancelSibling`, `Exit`, `Restart` |
| heartbeat loop | `HeartbeatLoop` |
| source worker | `EndPoll`, `SourceProcesses`, `SourceIdles` |
| scraper scheduler | `EndScrape`, `SchedulerSleeps` |
| Telegram worker | `TelegramStep`, `Disconnect`, `BackOff`, `Reconnect` |
| stores | `Quarantine`, `LateReturn` |
| what goes wrong besides | `BlockLoop`, `UnblockLoop` |

Modelling decisions:

* Nothing bounds an operation by the staleness window, and the code does not either:
  a FreeHub poll makes up to ten requests of at most 30 s each (`freehub.py:252-273`),
  a connect may take 60 s, a scrape 600 s, and the window is 45 s. `NoFalseAlarm`
  names such an operation as a cause (`Overlong`); what it says is that nothing but
  a cause of the last interval makes the probe fail.
* A job that hangs in processing keeps beating, by design of
  `_beat_during_processing`; so does a connected Telegram worker whose loop hangs,
  since `_beat_while_connected` beats for it in a task of its own
  (`telegram.py:1040-1058`); one that hangs while reconnecting is reported DEGRADED.
  None of them is claimed to be noticed.
* The task group tracks the heartbeat loop as `heartbeat` (`workers.py:150`), the loop
  beats as `__heartbeat__`: its death is seen by the age of the file, not by an entry.
* After `LateReturn` the quarantine is hidden, and `ReportedInTime` says nothing of
  it any more; that this happens is the subject of `hidden_quarantine`.
* The file of the last process outlives a restart, as it does in the container.

### PersistenceCalls

`PostgresRepository.run` and `StateManager.run` are the same code around two
executors. A client's call is idle, queued, running, or over and not yet returned;
`thread` holds the writes being executed, abandoned ones included. `TimeOut`
cancels a call that is still queued and abandons one that runs; its write may
land (`Write`) or not (`Raise`) at any later time. The client's n-th write stores
n, so that the order of writes can be read off the store. Modelling decisions:

* A client has a row of its own: the callers that write one job's row are
  serialised by the job's lock.
* All calls have the same timeout, so the first in the queue is the one with the
  least time left.
* A restart drops what no thread had written. A statement the database server
  finishes after the process has died, and a caller that is cancelled (only the end
  of the process does that), are left out.

## 3 The runs

| run | instance | properties | what it shows |
|---|---|---|---|
| `pipeline` | 1 process (source, both sweeps), 1 job of any shape, guard on, ≤1 crash or exception, ≤1 provider error; 1.45 M states | `TypeOK`, `PublishedWasApproved`, `CompleteWasPublished`, `SuppressedNeverPublished`, `SingleArbitration`, `PlainJobIsRecoverable`, `EventCategoryApproved`, `Delivered` | the pipeline publishes only what was approved, never completes what it did not publish, loses no plain job, and implements the contract |
| `settles` | the same with fairness (`SettleSpec`), no crash or exception to come for a tie-break job | `EveryJobSettles` | every job ends delivered, suppressed or rejected |
| `two_process` | 2 processes, three situations: 2 sources of one deliver 2 jobs of one project while it sweeps, with failed saves and claims that run out; both deliver the same job; or a legacy job; guard on, ≤1 crash; 0.68 M states | `DirectRejectionIsFinal`, `VerdictIsFinal`, `OnePublishPerProject` | the database claims alone keep two replicas from contradictory verdicts; in one process a project is streamed for one of its jobs at most, until a claim of it is lost or runs out |
| `telegram` | 4 messages (1 before the first start), caps 1 and 2, 2 failures, 1 disconnect or crash, 0 or 2 failing logs; 1.15 M states, fair | `TypeOK`, `SkipsOnlyUnreported`, `NobodyForgotten`, `BarrierProtects`, `EveryMessageProcessed` | failures hold the watermark back and are retried until they succeed |
| `freehub` | 6 projects, 2 per page, 2 pages per walk, 4 seen ids, 2 failures, 1 crash, fair; 0.35 M states | `TypeOK`, `SeenWasProcessed`, `PendingIsKept`, `StopsOnlyWhenCaughtUp`, `EveryProjectProcessed` | a discovered project stays pending over failed saves and restarts until processed; without a capped walk a poll stops only when caught up, and every project is processed |
| `rotation` | 3 calls on 2 threads, providers with 1 and 2 candidates, budget 2, attempt 1; 2.6 M states up to symmetry of the calls | `TypeOK`, `ThreadsEndInTime`, `FailsOnlyAfterTrying`, `ReportedModelDecided`, `NoRequestAfterTimeout` | a thread outlives its caller by one attempt at most and sends nothing for it any more; cooldowns alone fail no call; a decision is logged under the model that made it |
| `selection` | 6 words, titles of ≤1, descriptions of ≤4 words, 3 categories; 24 872 states | `TypeOK`, `HitsClaimTheirWords`, `SelectsWhatPrevails`, `NoCandidateDropped` | keywords counted do not overlap, and one that is not counted gave way to one as long; the single pass selects what the order-free reference selects; only a job without a candidate is rejected without the LLM |
| `scraper` | LinkedIn with 3 postings and 1 to come on 2 pages of 2, detail cap 3; Wuzzuf with 1 and 1 on 2 pages of 1; 1 fault; 138 639 states, fair | `TypeOK`, `NothingSkipped`, `DecidedOnPosting`, `EveryListedJobDecided` | the shift of pages skips nothing; a blocked page is never decided on; every job within reach is processed in the end |
| `supervision` | Telegram, a source, the scheduler, the heartbeat loop; operations of any length; 1 fault; 2.7 M states | `TypeOK`, `ReportedInTime`, `NoFalseAlarm` | what stopped or hangs is not reported healthy beyond the windows; every alarm has a cause of the last heartbeat interval |
| `persistence` | 3 clients, 2 threads, 2 writes each, timeout 2; 0.44 M states | `TypeOK`, `ConfirmedIsKept` | a write that was given up never lands on top of one confirmed after it |

*Why the bounds are enough.* All interplay of the pipeline is per job: the lock,
the claims and the rows are keyed by the job, and jobs meet only in the
cross-source claim, for which `two_process` has a situation with two jobs, where any
number of saves fail and the crash then loses the claim. Three tasks are all the
roles a process has; a second source task would run the same code. One crash
budget places a crash or exception at every point of every interleaving; the
budget is a nondeterministic 0..MaxCrashes at the start, so that liveness is also
checked from behaviours without one. One provider error takes a job through each
error path and back. `publishes` saturates at 2 because a property tells apart
never, once and more often. The stream and `guardlog` need no bound: verdicts are
final, and errors are budgeted. In a channel, two failures let a retry of one
message meet a new failure of another, two messages beyond the failed one let a
success overtake it and a capped pass end between them, and one disconnect can
fall into each of the resulting states. In FreeHub, two pages of two make every
kind of page (new, mixed, fully seen, short, empty) and of walk (caught up, end of
feed, capped), six projects let a full second backlog follow the first and evict
ids from the deque. In the rotation, the third call is the one that waits for
a thread, and the second provider is the one a chain falls back to. In
`selection`, three categories are what a runner-up and an overtaken leader need,
and four words hold two overlapping phrases with their support. In `scraper`, the
posting to come shifts a page between any two requests. In `supervision` every
duration of the code is one unit (the order of the real ones, cadence ≤ interval ≤
age < 3 intervals, is kept), operations end at any time or never, and `MaxFaults` places one fault
at every point. In `persistence` a second write of the client that timed out is
what the quarantine is for. Mutants confirm it: each property is
violated by its mutant within the bounds of its run.

*Fairness of `settles`.* Every await is bounded by a timeout (`infra/timeouts.py`,
client options), so a running call moves: `WF(TaskStep)`. `asyncio.Lock` is FIFO,
so a waiter gets it though it is not continuously free: `SF(AcquireAndRead)`. The
loops run for ever: `WF` on `Sweep`, `NextRow`, `Deliver`. Time passes: a window
runs out even if between two attempts it is open only part of the time:
`SF(RetryWindowElapses)`, `SF(GuardLeaseElapses)`. Nothing is assumed about
crashes, exceptions and errors but that they stop.

*Fairness of `telegram`.* `WF(Progress)`: while any handler or the recovery task
can move, one of them does. Nothing stronger is needed, for every task of the
channel passes through the one FIFO lock and each step brings its own task
closer to its end. `CHECK_DEADLOCK FALSE`, because a channel to which nothing more
is posted, with its watcher waiting for the wake event, has nothing to do; that is
its quiescent state. `SkipsOnlyUnreported` and `EveryMessageProcessed` assume
`orderly` (metadata answers in arrival order), the latter also a working error
log: without them they do not hold (section 5).

*Fairness of `freehub`.* `WF(Progress)`: the worker's loop runs on, its requests,
saves and jobs being bounded by timeouts. `WF(Restart)` is an assumption on the
operator: a quarantined executor is reported to the healthcheck as dead, and a
restart is the documented way out. `capped` is what excludes arrivals beyond the
page cap from the promise; DOCUMENTATION.md 6.2 does not promise those either.

*Fairness of `scraper`.* The scheduler's loop runs on, its requests and the child
being bounded by timeouts: `WF` of its steps together. Each source's worker loop
runs: `WF(Consume)`. A poll finds the file whole: `SF(Poll)`, because the file is
torn for milliseconds of a run of minutes, and a poll that always hits them is not
a behaviour to plan for. The properties of the other runs are safety properties;
they assume no fairness. `selection` and `persistence` set `CHECK_DEADLOCK FALSE`:
each job is decided once, and the clients' writes are bounded.

## 4 What the runs refute

Two statements of the repository's documents and comments that the code does not
keep. Each has a run that must end in a counterexample.

| run | statement | what happens |
|---|---|---|
| `lost_rescue` | DOCUMENTATION.md:1273-1274: "Loki assumes any component can fail and is designed so that failure leaves work recoverable rather than lost." | the Accepted decision and the Pending status are two commits. In a rescue the source has already marked the job seen; a crash between them leaves a row Accepted without status, which neither sweep selects |
| `hidden_quarantine` | comments at `postgres.py:352-355` and `state.py:202-204`: after a quarantine "this dead state can never be silently overwritten back to "alive"" | only calls that begin after the quarantine are refused. One that is under way, or queued behind the stuck thread, when another times out, and then completes in its own time, beats the store alive (`postgres.py:362`, `state.py:210`). Every later call is refused without a beat, so the probe, which looks for a positive dead (`healthcheck.py:307-329`), passes while nothing can be persisted any more |

## 5 Seen, but not run

Met while modelling, reproduced with TLC or read from the code, and left without
a run of their own because they are variants of the above, rare, or of little weight:

* `PublishedOnce`: with the live path and the sweep overlapping "the same job is
  never published twice" (`tests/test_notification_recovery.py`). The Pending
  status (`job_processor.py:892`) is an unconditional write after the decision's
  commit; another call may resume the Accepted row and complete it in between, and
  the write reopens it. TLC finds it with the constants of `pipeline`,
  `Shapes = {"ambiguous"}`, `MaxCrashes = 0`, `MaxErrors = 1`.
* `RescueRowIsAudit`: the notify row appended by the rescue is "purely audit" and
  "cannot re-trigger evaluation or flip delivery" (`job_processor.py:849-855`). A
  notification sweep that listed the row before the fallback reset it resumes it
  now, reads that row as the guard's verdict and publishes the rejected job under
  its keyword category. `Shapes = {"tiebreak"}`, `MaxErrors = 0`.
* `DecidedUnderSavedClaim`: "Cross-source project claims are stored in the durable
  JSON state (`claim_cross_source_project`), so a restart does not lose the
  association" (DOCUMENTATION.md:720-722). The claim is in memory before it is saved
  (`state.py:341-345`). When the save raises, the retry finds it there and goes on
  without a save (`state.py:336-340`); the job is decided, and may be published, under
  a claim the file does not have, which a restart loses unless something else was
  saved before. TLC finds it with the constants of `two_process`.
* `NoMessageLost` of `TelegramChannel`, in two ways. Watermarks are said to advance
  "strictly in arrival order" (`telegram.py:572-574`), but handlers await
  `get_chat()` (line 954) before the lock, so that a later message can be confirmed
  first; when the earlier one then fails, no recovery fetches it (`Orders =
  {FALSE}`, `MaxLogs = 0`). And the except branch awaits the error log (line 629)
  before it raises the barrier: when that log write fails too, the next success
  moves the watermark over the message (`Orders = {TRUE}`, `MaxLogs = 2`).
* FreeHub's page cap (`NothingFurtherBack` of `FreeHubSource`): behind a fully seen page 1 "there is nothing further back that
  could possibly be new" (`freehub.py:221-225`). After a capped walk its projects are
  marked seen, page 1 among them; the next poll, if nothing was posted, resets the
  continuation (line 232), and what lies behind the cap is never fetched.
  `StopsOnlyWhenCaughtUp` is therefore claimed without a capped walk only.
* Only the first occurrence of a keyword is blanked out (`filters.py:94`): "excel
  sheet excel sheet" counts `excel sheet`, `excel` and `sheet`. `HitsClaimTheirWords`
  still holds, since the words are different, but one repeated phrase passes for
  three hits, which evades the rule about a lone core hit; the docstring of
  `_match_tier` (lines 186-192) says each stretch of text counts once.
* A scraper run whose requests all fail exits with 0 and an empty snapshot, so the
  scheduler's failure count, meant for "sustained failures"
  (`scraper_scheduler.py:36-50`), never grows.
* The snapshot holds the current run only, not what earlier runs found
  (`scraper_file.py:26-28`): a job that drops out of the newest fifteen before it was
  processed is not tried again. `EveryListedJobDecided` is about jobs within reach.
* A block page of LinkedIn that the parser does not recognise is emitted as a
  posting with an empty description. The check for a repeated page ends the walk
  early when exactly one page of new posts arrives between two requests
  (`gap` in `NothingSkipped`). Wuzzuf's parallel pages may miss a job that shifts
  between them; the next run finds it.
* Rotation: a success of a request that was sent earlier clears the cooldown another
  thread set; a late per-minute failure shortens a longer cooldown; two daily
  failures of concurrent calls escalate twice.
* A scrape, a poll or a connect of more than 45 s without a beat makes the container
  UNHEALTHY although nothing is wrong: ten pages of a FreeHub poll may take 300 s, a
  connect 60 s, and the scraper's own timeout is 600 s. A heartbeat file
  that cannot be written ends the process through its task group. The first snapshot
  lacks the sources; the container's start period covers that.
* A notification sweep with an old list can *suppress* a tie-break job in the
  middle of its rescue: the LLM error path has cleared the selection method, so
  the old rejection is taken as final. `job_processor.py:264-284` says such a job
  goes to arbitration.
* An LLM error during a rescue overwrites the reason `Guard Fallback`
  (`job_processor.py:777`), and with it the forced arbitration of lines 585-597:
  the retry accepts the keyword pick, and the durable rejection decides again.
* The short URL is written (`job_processor.py:919`) after the Pending status and
  outside the lock, so two events for one job may differ in it.
* DOCUMENTATION.md:1300-1302 describes a rejected job as final; a tie-break
  rejection can be turned into a delivery by the rescue, by design.
* Two processes: a loser of the evaluation claim acts on the polled verdict's
  category before the winner's reclassification is in the row
  (`integration.py:177`), and streams the old one.
* A channel that was empty at the first start has watermark 0, which means
  untracked: if its first message fails, the retry seeds past it
  (`telegram.py:469`; `StartPosts = {0}` shows it).
* The continuation page skips pages 2 to n (`freehub.py:248`): what has arrived
  there since the capped walk is not looked at.
* FreeHub's first poll takes only page 1 for known. The first project posted
  afterwards makes page 1 mixed, the walk goes on into the older pages, and up to
  ten pages of old projects are discovered as new.
* Messages that overtake each other and a disconnect between them lose the
  overtaken one without any failure.

## 6 The proofs

`JobPipelineProofs`, for every set of jobs, tasks and processes, any assignment of
roles, deliveries and projects, with or without guard, timely or not, and any
bounds, from `PipelineAssumption` (types of the constants, and that `None` is not a
job); the last two for one process (`OneProcess`), since claims are not shared:

| theorem | states | inductive invariant |
|---|---|---|
| `TypeCorrect` | `Spec => []TypeOK` | `TypeOK`; its conjunct "a running call has a job" is what types every `row[job[t]]` |
| `CompleteImpliesPublished` | `Spec => []CompleteWasPublished` | `CompleteInv`: a call about to write Complete works on a published job, and a Complete row is of a published job. Without the first part the write of `MarkComplete` is not justified |
| `FailClosed` | `Spec => []PublishedWasApproved` | `ApprovalInv`: a published job is approved (the guard is off, a notify row or an LLM selection is on record); a call past the guard's gate works on an approved job; and the rows and calls that may bypass the guard, those with method `llm`, carry a recorded selection. The last two are what `Publish` and the bypass in `AcquireAndRead` need |
| `OnePerProject` | `Spec => []OnePublishPerProject` | `OwnerInv`: the job of a call past the cross-source check, and of a row that check let through, owns its project in the memory of a process, unless a claim of the project lapsed. The second part covers a call that resumes a row another call decided. A crash may take the claim out of memory; then `saved` differs from `owner`, and the project is in `lapsed` |
| `ImplementsContract` | `Spec => Delivered` | no further one: each step maps to a step of `DeliveryContract` or a stutter, by `ApprovalInv` and the theorems above; a crash that loses a claim, and a claim that runs out, map to `Forget` |

The argument of `FailClosed`: guard log and gemini table only grow, so approval is
stable; the gate (`GuardAllow`) is passed only on a notify row; the bypass only on
method `llm`, and every write of that method follows the append of the selection
or verdict it rests on, in the same call. `ApprovalStep` has one step per action.

Its second part, for the same constants, under hypotheses each theorem names:

| theorem | states | assumes | inductive invariant |
|---|---|---|---|
| `VerdictsAreFinal` | `Spec => VerdictIsFinal` | `Timely` | `VerdictInv`: at most one call evaluates a job, it holds the claim, and there is no verdict yet; a call on its way to claim knows of none |
| `DirectRejectionHolds` | `Spec => []DirectRejectionIsFinal` | `Timely` | `ShapeInv`: what a row and a call may look like for each shape of job: a clean pick never reaches the LLM and nothing of it is in the gemini table, so only the guard's one verdict can approve it |
| `SuppressionHolds` | `Spec => []SuppressedNeverPublished` | `Timely`, `OneProcess` | `LockInv`: two calls of one process are not inside the workflow of one job. `RescueInv`: a rescue follows a recorded rejection, and a log with a notify row ends in one. `SuppressInv`: a call about to suppress works on an unpublished job |
| `ArbitrationIsSingle` | `Spec => []SingleArbitration` | `Timely`, `NoSourceShared` | `ClaimInv`: at most one call is in an attempt on a row, and it holds the row by having created or claimed it |
| `SeenIsRecoverable` | `Spec => []PlainJobIsRecoverable` | `Timely`, `NoSourceShared` | `SeenInv`: where a job is marked seen or about to be, its row is settled or in a state the sweeps select; and a decision of a plain job is never taken back |
| `EventsAreNamed` | `Spec => []EventCategoryApproved` | all three | `NamedInv`: the category in a row, in a call and in an event is named in one of the audit tables, a loser of the guard's claim included |

What these assume, and why the code keeps it:

* `Timely` (a constant): a lease outlives the attempt it covers. The guard's is 90 s
  over a provider call of 47 s at worst (`integration.py:7-13`); the
  classification's 120 s is chosen to cover one arbitration (`job_processor.py:21-29`).
* `OneProcess`: all tasks are of one process. The per-job lock is an `asyncio.Lock`;
  DOCUMENTATION.md:1217 calls Loki "a single process with concurrent workers". Two
  processes do violate `EventCategoryApproved` (section 5).
* `NoSourceShared`: no job is handed over by two source tasks. A job's id is derived
  from its source and its id there, and the worker of a source hands its jobs over
  one after another; two replicas that deliver the same job are outside these two
  theorems. `VerdictsAreFinal` and `DirectRejectionHolds` cover them.

`TelegramProofs`, for every number of messages, every cap of a pass, and any number of
failures, disconnects and failing logs:

| theorem | states | inductive invariant |
|---|---|---|
| `ChannelTyped` | `Spec => []TypeOK` | `LaneInv`: who has the lock is past its label, and a recovery pass is at the message behind the watermark |
| `BarrierKeepsWatermark` | `Spec => BarrierProtects` | `BarrierOK`: messages that are owed a retry lie above the watermark and keep the barrier up; no handler is about to save while one is owed; an uncapped pass has them all in its snapshot, which is why it may lower the barrier when it ends |
| `NothingSkippedSilently` | `Spec => []SkipsOnlyUnreported` | `OrderOK`: under `orderly` the lock's queue is in message order. `TrailOK`: messages still open lie above the watermark, and none is below one about to be confirmed |
| `NobodyIsForgotten` | `Spec => []NobodyForgotten` | the same: with the barrier down every open message has a live handler, and a pass over all of its snapshot leaves only messages with one |

All but the first assume `Tracked`: the channel was not empty when it was first
tracked. A channel that was has watermark 0, which the code reads as untracked, and
seeds past a message that failed (section 5).

`FreeHubProofs`, for every number of projects, page size, page cap, length of the seen
deque, and any number of failures and crashes:

| theorem | states | inductive invariant |
|---|---|---|
| `SourceTyped` | `Spec => []TypeOK` | `ListInv`: the deques keep within their bound, in memory and in the file, and the page a first poll seeds from is the newest |
| `OnlyProcessedIsSeen` | `Spec => []SeenWasProcessed` | `SeenInv`: the head of the batch is processed when it is being marked |
| `DiscoveredIsKept` | `Spec => PendingIsKept` | `PendInv`: what the file has pending and is not processed is pending in memory, and a walk that saves writes the pending list it read when it began. Without the latter a save could drop what was added meanwhile |
| `StoppingIsRight` | `Spec => StopsOnlyWhenCaughtUp` | `GapInv`: below a project that is seen or queued, everything down to the seed is processed or pending, in memory as in the file. `WalkInv`: a walk holds all projects between its newest and the page it fetches next, however many were posted since, since new ones only push old ones back |

They need nothing but the constants' assumption. They rest on lemmas about what
sorting a set, leaving out entries and reversing a list return, which open the module;
`ScraperProofs` opens with those it needs.

`ScraperProofs`, for any postings on the two sites, pages, caps and faults:

| theorem | states | inductive invariant |
|---|---|---|
| `ScraperTyped` | `Spec => []TypeOK` | `SitesInv`, `SearchInv`, `RecordsInv`: a site lists a prefix of what it will ever list, without duplicates, newest first; what is found is on it |
| `NoJobFallsBetweenPages` | `Spec => []NothingSkipped` | `SearchInv`: while no page failed, every job listed at the start that is now within the pages read so far has been found. Posting only moves jobs to later positions, so this survives the shift |
| `OnlyPostingsAreDecided` | `Spec => []DecidedOnPosting` | `RecordsInv`: every record without a text, in the child's output, the file or a source's batch, is of a posting that has none |

`RotationProofs`, for every number of calls and threads, every chain of providers and
candidates, all times and any escalation, from `RotationAssumption` (a chain of at
least one provider, each with a candidate; times are positive; powers of two are
numbers; the daily cap is reached):

| theorem | states | what it needs of `RotationInv` |
|---|---|---|
| `TypeCorrect` | `Spec => []TypeOK` | it bounds every cooldown by the longest, and every deadline from below |
| `ThreadsReturnInTime` | `Spec => []ThreadsEndInTime` | `OnTime`: an attempt begins before the deadline, so its age is the most by which it can be over it |
| `TimedOutIsSilent` | `Spec => NoRequestAfterTimeout` | `OnTime`: a caller that gave up did so at the deadline, and past it no attempt begins |
| `CooldownsFailNoCall` | `Spec => FailsOnlyAfterTrying` | `Tries`: a rotation that runs before the deadline has tried its provider or has an available candidate left, and every provider behind it was tried. `FilterAvailable` never being empty is what starts it |
| `DecisionsNameTheirModel` | `Spec => ReportedModelDecided` | `Named`: the model noted in the call's own object is the candidate that won |

None of the three is inductive alone with the property it serves; they are, together
with the types, one invariant, of which each call's part survives the steps of the
others (`Frame`, `StepsTouchOneCall`).

`SelectionProofs`, for every vocabulary, every set of categories, keywords, weights and
thresholds, every text and every bound on it, from `SelectionAssumption` (the categories
are listed once each, a keyword is not empty, weights are numbers, a blank is no word):

| theorem | states | what it rests on |
|---|---|---|
| `SelectionTyped` | `Spec => []TypeOK` | `SelectionInv`; every row of the decision table decides (`DecisionInTable`) |
| `LongestPhraseWins` | `Spec => []HitsClaimTheirWords` | `FindStep`: after any number of keywords, what is left differs from the text in blanks only, and what is blank is where a hit stands. A keyword has no blank in it, so the next one is found at other words, and in the text too; one that no longer matches lost a word to an earlier one, and a tier is sorted longest first |
| `SelectionIsTheReference` | `Spec => []SelectsWhatPrevails` | `ChallengeStep`: after any number of candidates, the pass has the best of them and the best of the others. Of two or more, the best clears the margin against all others exactly when it does against the second (`SelectionIsPrevailing`) |
| `CandidatesReachTheLLM` | `Spec => []NoCandidateDropped` | `SelectionIsTheReference`: a single candidate prevails, so it is picked, and of several the arbitration takes the job |

The four properties with `Decided` are inductive together. The work is in the
operators: each is a loop over a list (`Pass`), whose value after each entry the model
names, and what it computes is proved for every list by induction on the entries
read. The library's induction theorems take an operator as a parameter, which the
provers cannot instantiate, so the induction is on sets: `Least`, a set of numbers has
a least element, from the well-foundedness of `<`; `Climbs`, a set with 0 and with
every successor below `n` has all numbers up to `n`; `LoopExists` and `LoopStays`, the
recursive function a loop defines exists, and stays in any set its steps stay in.

`CallsProofs`, for every set of clients and of threads, every timeout and every bound
on the writes:

| theorem | states | inductive invariant |
|---|---|---|
| `CallsTyped` | `Spec => []TypeOK` | `CallsInv` |
| `ConfirmedWritesStay` | `Spec => []ConfirmedIsKept` | `OneWrite`: a client has one write in the threads, the last it asked for. `Abandoned`: its client waits for it, or the store is in quarantine. Without the second, the first does not survive the client's next call, which is what the quarantine is for |

`SupervisionProofs`, for every cadence, interval, maximum age and backoff, failure
threshold and number of faults, and operations of any length, from
`SupervisionAssumption` (times are positive, and the interval is within the probe's
maximum age, which `runtime_config.py` checks):

| theorem | states | what it needs of `SuperInv` |
|---|---|---|
| `SupervisionTyped` | `Spec => []TypeOK` | `WorkerOK`: a worker that sleeps is due within its backoff or its beat step |
| `DeathsAreReported` | `Spec => []ReportedInTime` | `FileOK`: a snapshot older than what is dead shows a worker missing, a quarantine or a bad state; a worker whose beat is older than the window and the snapshot together is late in the snapshot, or not alive there |
| `NoAlarmWhenFine` | `BeatsInTime` implies `Spec => []NoFalseAlarm` | `FileOK`: the age of the file and the time to the next write add up to the interval, and a snapshot taken since everything has been calm shows nothing wrong |

`BeatsInTime` says that the beat cadence is within the window of three intervals. The
code keeps it at its defaults (10 s against 45 s); no configuration is checked for it,
and with an interval below 4 s every sleeping worker would raise an alarm.

`SuperInv` relates three clocks. In the registry, the age of a sleeping worker's beat
and the time until it is due never exceed its step, and the beat of one in an
operation is within the window (`Fresh`), unless the loop was blocked meanwhile or the
operation is overlong, after which nothing is calm until it beats again (`Excused`). In the file,
what a snapshot says follows from what the registry said when it was written, and the
file's age tells how long ago that was. The histories `since` and `calm` tell how long
something has been dead or nothing wrong. None of the last two theorems follows from
the registry or the file alone: the writer of the file is one of the workers it
reports. The proof has one lemma per group of actions (`TeleSteps` ... `TickSteps`);
`Moves`, `OthersKept` and `GlobalMoves` are what a step of one worker leaves to the
others.

Only model-checked:

* liveness (`EveryJobSettles`, `EveryMessageProcessed`, `EveryProjectProcessed`,
  `EveryListedJobDecided`): out of the prover's reach.

Every safety property a passing run checks is a theorem, under the hypotheses named
above.

## 7 What is not modelled

* Regular expressions, normalization, text extraction, HTTP: data and I/O. Keyword
  lists and prompts, about a third of the implementation's lines, are data too.
* Connection pools, statement timeouts, stream trimming: they surface as raised
  exceptions or as calls that time out.
* The texts of prompts and the parsing of answers: an answer is a category, none, or
  an error.
* The poll-mode Telegram source, disabled in the default configuration.
* Recovery of the state file from its backup: the file is replaced atomically, so
  only a fault of the disk leads there.
* Two processes on one state file, which README.md:488-491 forbids: each would write
  its own memory over the other's claims and marks.
* The legacy format of the heartbeat file and the probe's own connections to
  Postgres and Redis.
* Configuration, dependency wiring, migrations: no behaviour while running.

Hazards listed without a property: a claim left unsaved (`state.py:336`), the second
event of a job whose completed workflow is reopened (`job_processor.py:892`), the
reason of a rescue overwritten by its own error (`job_processor.py:597`), the rescue's
audit row (`job_processor.py:856`), a failure whose log fails too (`telegram.py:629`),
messages that overtake each other before the lock (`telegram.py:954`), the watermark 0
of an empty channel (`telegram.py:469`), and what lies behind a capped walk
(`freehub.py:232`). They do happen, as section 5 shows; the properties of the runs say
what holds besides. `PROJECT.json` has a note on each.

## 8 Plan

What remains, in order of weight:

1. The poll-mode Telegram source, refining the watermark promise of
   `TelegramChannel`.
