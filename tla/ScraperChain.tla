----------------------------- MODULE ScraperChain ------------------------------
(***************************************************************************)
(* From the job sites to the pipeline: the scraper script                  *)
(* (scraper/scraper.py), run as a child process again and again            *)
(* (wiring/scraper_scheduler.py), the snapshot file it overwrites, and the *)
(* two sources that poll the file (adapters/sources/scraper_file.py) and   *)
(* hand its records to process_job (wiring/source_worker.py).              *)
(*                                                                         *)
(* The sites list jobs in pages that shift while they are read.  A posting *)
(* stays listed.  Every failure is a fault, and faults are bounded.        *)
(***************************************************************************)
EXTENDS Lists, Integers, Sequences, FiniteSets, SequencesExt

CONSTANTS
  Jobs,
  Initial,      \* [Platforms -> Seq(Jobs)]: listed at first, newest first
  ToPost,       \* [Platforms -> Seq(Jobs)]: posted later, in this order
  NoText,       \* postings without a description
  PerPage, MaxPages,  \* [Platforms -> Nat]: search pages and their size
  DetailCap,    \* LINKEDIN_DETAIL_MAX_PER_RUN
  MaxFaults     \* bound on failed pages, kills, crashes and raises

Platforms == {"LinkedIn", "Wuzzuf"}

ASSUME ScraperAssumption ==
  /\ Initial \in [Platforms -> Seq(Jobs)] /\ ToPost \in [Platforms -> Seq(Jobs)]
  /\ \A p, q \in Platforms : IsInjective(Initial[p] \o ToPost[p]) /\
       (p # q => ToSet(Initial[p] \o ToPost[p]) \cap ToSet(Initial[q] \o ToPost[q]) = {})
  /\ NoText \subseteq Jobs
  /\ PerPage \in [Platforms -> Nat \ {0}] /\ MaxPages \in [Platforms -> Nat \ {0}]
  /\ DetailCap \in Nat \ {0} /\ MaxFaults \in Nat

VARIABLES
  site,      \* [Platforms -> Seq(Jobs)]: what a site lists
  run,       \* where the child process is
  linkedin,  \* its LinkedIn search
  wuzzuf,    \* its Wuzzuf search
  output,    \* the records it is about to save
  file,      \* the records of the snapshot on disk, {} while it cannot be read
  batch,     \* [Platforms -> records]: what a source has still to process
  seen,      \* [Platforms -> SUBSET Jobs]: _seen, in memory
  decided,   \* [Jobs]: the pipeline's durable row, "text" or "bare" as its input was
  faults,
  listed, gap  \* history: LinkedIn jobs listed when the search began; it missed a page

search  == <<linkedin, wuzzuf, listed, gap>>
child   == <<run, search, output>>
sources == <<batch, seen, decided>>
vars    == <<site, child, file, sources, faults>>

Records == [job : Jobs, about : {"text", "bare"}]
PlatformOf(j) == CHOOSE p \in Platforms : j \in ToSet(Initial[p] \o ToPost[p])

TypeOK ==
  /\ \A p \in Platforms :
       site[p] \in Seq(Jobs) /\ ToSet(site[p]) \subseteq ToSet(Initial[p] \o ToPost[p])
  /\ run \in {"idle", "search", "details", "saving", "saved"}
  /\ linkedin.page \in 1..(MaxPages["LinkedIn"] + 1)
  /\ IsInjective(linkedin.found) /\ linkedin.open \in BOOLEAN
  /\ wuzzuf.todo \subseteq 1..MaxPages["Wuzzuf"]
  /\ wuzzuf.found \subseteq Jobs
  /\ output \subseteq Records
  /\ file \subseteq Records
  /\ \A p \in Platforms : batch[p] \subseteq Records /\ seen[p] \subseteq Jobs
  /\ decided \in [Jobs -> {"no", "text", "bare"}]
  /\ faults \in 0..MaxFaults

Fault(n) == faults + n <= MaxFaults /\ faults' = faults + n

-----------------------------------------------------------------------------
(* The sites *)

\* LinkedIn sorts by date, Wuzzuf as it likes.
Places(p) == IF p = "LinkedIn" THEN {1} ELSE 1..(Len(site[p]) + 1)

Post(p) ==
  /\ Len(site[p]) < Len(Initial[p] \o ToPost[p])
  /\ \E i \in Places(p) :
       site' = [site EXCEPT ![p] = InsertAt(@, i, ToPost[p][Len(@) - Len(Initial[p]) + 1])]
  /\ UNCHANGED <<child, file, sources, faults>>

Page(p, n) ==
  LET last == n * PerPage[p]
  IN  SubSeq(site[p], last - PerPage[p] + 1,
             IF Len(site[p]) < last THEN Len(site[p]) ELSE last)

\* A page that cannot be fetched or parsed is an empty page.
Fetched(p, n, jobs) ==
  \/ jobs = Page(p, n) /\ UNCHANGED faults
  \/ jobs = << >> /\ Fault(1)

-----------------------------------------------------------------------------
(* The child process: search *)

NoLinkedIn == [page |-> 1, found |-> << >>, signatures |-> {}, open |-> FALSE]
NoWuzzuf   == [todo |-> {}, found |-> {}, started |-> FALSE]

\* What the child kept in memory is gone, or is not read again.
ForgetSearch ==
  linkedin' = NoLinkedIn /\ wuzzuf' = NoWuzzuf /\ listed' = {} /\ gap' = FALSE

StartRun ==
  /\ run = "idle" /\ run' = "search"
  /\ linkedin' = [NoLinkedIn EXCEPT !.open = TRUE]
  /\ wuzzuf' = [NoWuzzuf EXCEPT !.todo = {1}]
  /\ output' = {}
  /\ listed' = ToSet(site["LinkedIn"]) /\ gap' = FALSE
  /\ UNCHANGED <<site, file, sources, faults>>

\* Mutant: a job that two pages list is added twice.
AppendAll(found, jobs) == found \o jobs

AppendNew(found, jobs) == found \o NotIn(jobs, ToSet(found))

\* Mutant: a full page counts as the last one.
ShortOrFull(jobs) == Len(jobs) <= PerPage["LinkedIn"]

ShortPage(jobs) == Len(jobs) < PerPage["LinkedIn"]

\* LinkedIn is read page by page, until a page is empty, repeated or short.
LinkedInPage ==
  /\ run = "search" /\ linkedin.open
  /\ \E jobs \in {<< >>, Page("LinkedIn", linkedin.page)} :
       LET stop == jobs = << >> \/ ToSet(jobs) \in linkedin.signatures
       IN  /\ Fetched("LinkedIn", linkedin.page, jobs)
           /\ linkedin' =
                IF stop THEN [linkedin EXCEPT !.open = FALSE]
                ELSE [page  |-> linkedin.page + 1,
                      found |-> AppendNew(linkedin.found, jobs),
                      signatures |-> linkedin.signatures \cup {ToSet(jobs)},
                      open  |-> /\ ~ShortPage(jobs)
                                /\ linkedin.page < MaxPages["LinkedIn"]]
           /\ gap' = (gap \/ faults' # faults \/ (stop /\ jobs # << >>))
  /\ UNCHANGED <<site, run, wuzzuf, output, listed, file, sources>>

\* The first Wuzzuf page may tell the total, which bounds the other pages;
\* without it as many as allowed are fetched.
PlannedPages(total) ==
  LET pages == (total + PerPage["Wuzzuf"] - 1) \div PerPage["Wuzzuf"]
  IN  IF total = 0 \/ pages > MaxPages["Wuzzuf"] THEN MaxPages["Wuzzuf"] ELSE pages

ReportedTotals(jobs) == IF jobs = << >> THEN {0} ELSE {0, Len(site["Wuzzuf"])}

\* The other pages are fetched in parallel: in any order.
WuzzufPage ==
  /\ run = "search"
  /\ \E n \in wuzzuf.todo : \E jobs \in {<< >>, Page("Wuzzuf", n)} :
       /\ Fetched("Wuzzuf", n, jobs)
       /\ \E total \in ReportedTotals(jobs) :
            wuzzuf' = [found |-> wuzzuf.found \cup ToSet(jobs), started |-> TRUE,
                       todo  |-> IF wuzzuf.started THEN wuzzuf.todo \ {n}
                                 ELSE 2..PlannedPages(total)]
  /\ UNCHANGED <<site, run, linkedin, output, listed, gap, file, sources>>

-----------------------------------------------------------------------------
(* The child process: details and output *)

\* Only the newest LinkedIn jobs get a detail request.
Capped(found) == SubSeq(found, 1, IF Len(found) < DetailCap THEN Len(found) ELSE DetailCap)

Wanted == wuzzuf.found \cup ToSet(Capped(linkedin.found))

\* What a detail request comes to, its retries on 429 included.
Responses == {"page", "wall", "none"}

HasDescription(j) == j \notin NoText

\* Without a description Wuzzuf's parser reports an error.
WuzzufDetail(j, response) ==
  IF response = "page" /\ HasDescription(j) THEN "text" ELSE "error"

\* LinkedIn's tells a login wall from a posting that has no description.
LinkedInDetail(j, response) ==
  CASE response = "wall" -> "blocked"
    [] response = "page" -> IF HasDescription(j) THEN "text" ELSE "bare"

Detail(j, response) ==
  IF response = "none" THEN "error"
  ELSE IF PlatformOf(j) = "Wuzzuf" THEN WuzzufDetail(j, response)
       ELSE LinkedInDetail(j, response)

OutputRecord(j, detail) == [job |-> j, about |-> IF detail = "text" THEN "text" ELSE "bare"]

\* Mutant: a job whose detail failed is saved with an empty description.
EmitAll(details) == {OutputRecord(j, details[j]) : j \in DOMAIN details}

\* Jobs whose detail was blocked or failed are left out.
ToOutputSchema(details) ==
  {OutputRecord(j, details[j]) :
     j \in {i \in DOMAIN details : details[i] \notin {"blocked", "error"}}}

CrawlDetails ==
  /\ run = "search" /\ ~linkedin.open /\ wuzzuf.todo = {}
  /\ \E responses \in [Wanted -> Responses] :
       /\ Fault(Cardinality({j \in Wanted : responses[j] # "page"}))
       /\ output' = ToOutputSchema([j \in Wanted |-> Detail(j, responses[j])])
  /\ run' = "details" /\ ForgetSearch
  /\ UNCHANGED <<site, file, sources>>

\* save_results opens the file for writing, which empties it, and writes this
\* run's records only.
OpenFile ==
  /\ run = "details" /\ run' = "saving" /\ file' = {}
  /\ UNCHANGED <<site, search, output, sources, faults>>

WriteFile ==
  /\ run = "saving" /\ run' = "saved" /\ file' = output
  /\ UNCHANGED <<site, search, output, sources, faults>>

EndRun ==
  /\ run = "saved" /\ run' = "idle" /\ output' = {}
  /\ UNCHANGED <<site, search, file, sources, faults>>

\* The scheduler's timeout kills the child, or an exception ends it.
Kill ==
  /\ run # "idle" /\ Fault(1)
  /\ run' = "idle" /\ ForgetSearch /\ output' = {}
  /\ UNCHANGED <<site, file, sources>>

-----------------------------------------------------------------------------
(* The sources *)

\* A file that is missing or incomplete reads as no records.
Read(p) == {r \in file : PlatformOf(r.job) = p}

Fresh(p) == {r \in Read(p) : r.job \notin seen[p]}

\* Mutant: a record is marked seen when it is handed out.
PollMarks(p) ==
  /\ batch[p] = {} /\ Fresh(p) # {}
  /\ batch' = [batch EXCEPT ![p] = Fresh(p)]
  /\ seen' = [seen EXCEPT ![p] = @ \cup {r.job : r \in Fresh(p)}]
  /\ UNCHANGED <<site, child, file, decided, faults>>

Poll(p) ==
  /\ batch[p] = {} /\ Fresh(p) # {}
  /\ batch' = [batch EXCEPT ![p] = Fresh(p)]
  /\ UNCHANGED <<site, child, file, seen, decided, faults>>

Row(r) == [decided EXCEPT ![r.job] = IF @ = "no" THEN r.about ELSE @]

\* process_job keeps the first decision; then the record is marked seen.
ProcessJob(p, r) ==
  /\ r \in batch[p]
  /\ batch' = [batch EXCEPT ![p] = @ \ {r}]
  /\ seen' = [seen EXCEPT ![p] = @ \cup {r.job}]
  /\ decided' = Row(r)
  /\ UNCHANGED <<site, child, file, faults>>

\* It raises, its row written or not: the worker goes on with the next record.
ProcessRaises(p, r) ==
  /\ r \in batch[p] /\ Fault(1)
  /\ batch' = [batch EXCEPT ![p] = @ \ {r}]
  /\ decided' \in {decided, Row(r)}
  /\ UNCHANGED <<site, child, file, seen>>

\* The container restarts: the child is gone, and with it what was in memory.
Crash ==
  /\ Fault(1)
  /\ run' = "idle" /\ ForgetSearch /\ output' = {}
  /\ batch' = [p \in Platforms |-> {}] /\ seen' = [p \in Platforms |-> {}]
  /\ UNCHANGED <<site, file, decided>>

-----------------------------------------------------------------------------

Init ==
  /\ site = Initial
  /\ run = "idle"
  /\ linkedin = NoLinkedIn /\ wuzzuf = NoWuzzuf
  /\ output = {}
  /\ file = {}
  /\ batch = [p \in Platforms |-> {}] /\ seen = [p \in Platforms |-> {}]
  /\ decided = [j \in Jobs |-> "no"]
  /\ faults = 0
  /\ listed = {} /\ gap = FALSE

Scrape == LinkedInPage \/ WuzzufPage \/ CrawlDetails \/ OpenFile \/ WriteFile

Consume(p) == \E r \in batch[p] : ProcessJob(p, r)

Next ==
  \/ StartRun \/ Scrape \/ EndRun \/ Kill \/ Crash
  \/ \E p \in Platforms : \/ Post(p) \/ Poll(p) \/ Consume(p)
                          \/ \E r \in batch[p] : ProcessRaises(p, r)

Spec == Init /\ [][Next]_vars

\* The scheduler's loop goes on, requests have timeouts, and each worker runs.
\* The file is torn for a moment of every run: a poll does not always hit it.
Fairness ==
  /\ WF_vars(StartRun \/ Scrape \/ EndRun)
  /\ \A p \in Platforms : SF_vars(Poll(p)) /\ WF_vars(Consume(p))

FairSpec == Spec /\ Fairness

-----------------------------------------------------------------------------
(* Properties *)

Position(p, j) == CHOOSE i \in DOMAIN site[p] : site[p][i] = j

SearchOver == run = "search" /\ ~linkedin.open

\* The list shifts while it is read, but no job is missed between two pages:
\* unless a page failed or was taken for a repeat, all that was listed at the
\* start and is still within the pages at the end has been found.
NothingSkipped ==
  SearchOver /\ ~gap =>
    \A j \in listed :
      Position("LinkedIn", j) <= MaxPages["LinkedIn"] * PerPage["LinkedIn"] =>
        j \in ToSet(linkedin.found)

\* A page that failed or was blocked never becomes a decision, which would be
\* final (to_output_schema).
DecidedOnPosting == \A j \in Jobs : decided[j] = "bare" => j \in NoText

InReach(j) ==
  LET p == PlatformOf(j)
  IN  /\ j \in ToSet(site[p])
      /\ Position(p, j) <= IF p = "LinkedIn" THEN DetailCap ELSE MaxPages[p] * PerPage[p]

Obtainable == {j \in Jobs : PlatformOf(j) = "LinkedIn" \/ j \notin NoText}

\* Once the sites post no more, every listed job within reach has been processed
\* in the end, whatever run is killed, file torn, page blocked or record raised
\* (scheduler and worker loops).
EveryListedJobDecided ==
  []<>(\A j \in Obtainable : InReach(j) => decided[j] # "no")
=============================================================================
