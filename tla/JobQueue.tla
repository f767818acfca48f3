------------------------------ MODULE JobQueue ------------------------------
(***************************************************************************)
(* Extraction asked for through the API (internal/api): a handler puts a   *)
(* job into a bounded queue or answers 429; a worker takes it, opens a row *)
(* of extraction_runs, scrapes page after page under a 30 minute deadline, *)
(* counts each page and closes the row.  Errors of the counting and the    *)
(* closing writes are dropped.  Shutdown cancels the context, then closes  *)
(* the queue; main waits a moment and ends the process, whatever runs.     *)
(* What a scraped page does to the catalog is module ScrapeJobs.           *)
(***************************************************************************)
EXTENDS Naturals, Sequences

CONSTANTS
  Jobs,      \* bound: the requests of a behaviour
  Workers,   \* MaxConcurrentExtractions goroutines
  QueueSize, \* ExtractionJobQueueSize
  Pages      \* [Jobs -> Nat]: the pages each request asks for

ASSUME JobAssumption ==
  /\ QueueSize \in Nat \ {0}
  /\ Pages \in [Jobs -> Nat]

VARIABLES
  queue,    \* jobQueue
  job,      \* what became of each request
  worker,   \* what each worker does, on which job, after how many pages
  row,      \* the job's row in extraction_runs
  scraped,  \* pages the job has scraped without an error
  service,  \* how far the shutdown is
  unclosed  \* history: jobs whose last write was lost

jobVars == <<queue, job, worker, row, scraped, service, unclosed>>

Labels == {"open", "scrape", "hang", "count", "complete", "fail"}
Busy == [pc : Labels, job : Jobs, page : Nat]
Resting == {[pc |-> "idle"], [pc |-> "stopped"]}

JobsTypeOK ==
  /\ queue \in Seq(Jobs) /\ Len(queue) <= QueueSize
  /\ job \in [Jobs -> {"new", "refused", "queued", "taken", "over"}]
  /\ worker \in [Workers -> Busy \cup Resting]
  /\ row \in [Jobs -> [status : {"none", "running", "completed", "failed"}, pages : Nat]]
  /\ scraped \in [Jobs -> Nat]
  /\ \A j \in Jobs : row[j].pages <= scraped[j] /\ scraped[j] <= Pages[j]
  /\ service \in {"up", "cancelled", "queue closed", "ended"}
  /\ unclosed \subseteq Jobs

JobsInit ==
  /\ queue = <<>>
  /\ job = [j \in Jobs |-> "new"]
  /\ worker = [w \in Workers |-> [pc |-> "idle"]]
  /\ row = [j \in Jobs |-> [status |-> "none", pages |-> 0]]
  /\ scraped = [j \in Jobs |-> 0]
  /\ service = "up"
  /\ unclosed = {}

Cancelled == service # "up"
At(w, l) == worker[w].pc = l
Holds(w, j) == worker[w].pc \in Labels /\ worker[w].job = j
Goto(w, l) == worker' = [worker EXCEPT ![w].pc = l]

------------------------------------------------------------------------------
(* The handlers *)

Accept(j) == queue' = Append(queue, j) /\ job' = [job EXCEPT ![j] = "queued"]
Refuse(j) == job' = [job EXCEPT ![j] = "refused"] /\ UNCHANGED queue

\* Slip: one more than the queue holds.
Room_OneMore == service \in {"up", "cancelled"} /\ Len(queue) <= QueueSize

\* The HTTP server outlives the queue: a send to the closed queue panics, and the
\* Recoverer answers 500.
Room == service \in {"up", "cancelled"} /\ Len(queue) < QueueSize

\* 202, or 429 when the queue is full.
Request(j) ==
  /\ job[j] = "new" /\ service # "ended"
  /\ IF Room THEN Accept(j) ELSE Refuse(j)
  /\ UNCHANGED <<worker, row, scraped, service, unclosed>>

------------------------------------------------------------------------------
(* A worker *)

\* select picks either branch when both are ready.
Take(w) ==
  /\ At(w, "idle") /\ queue # <<>>
  /\ queue' = Tail(queue)
  /\ job' = [job EXCEPT ![Head(queue)] = "taken"]
  /\ worker' = [worker EXCEPT ![w] = [pc |-> "open", job |-> Head(queue), page |-> 0]]
  /\ UNCHANGED <<row, scraped, service, unclosed>>

StopWorker(w) ==
  /\ At(w, "idle") /\ Cancelled
  /\ Goto(w, "stopped")
  /\ UNCHANGED <<queue, job, row, scraped, service, unclosed>>

NextPage(w, n) ==
  worker' = [worker EXCEPT ![w].page = n,
                           ![w].pc = IF n < Pages[worker[w].job] THEN "scrape"
                                     ELSE "complete"]

EndJob(w) ==
  /\ worker' = [worker EXCEPT ![w] = [pc |-> "idle"]]
  /\ job' = [job EXCEPT ![worker[w].job] = "over"]

OpenRow(w) ==
  /\ At(w, "open")
  /\ row' = [row EXCEPT ![worker[w].job].status = "running"]
  /\ NextPage(w, 0)
  /\ UNCHANGED <<queue, job, scraped, service, unclosed>>

\* StartExtractionRun fails: the accepted job is dropped, with no row.
OpenFails(w) ==
  /\ At(w, "open")
  /\ EndJob(w)
  /\ UNCHANGED <<queue, row, scraped, service, unclosed>>

ScrapeOK(w) ==
  /\ At(w, "scrape")
  /\ scraped' = [scraped EXCEPT ![worker[w].job] = @ + 1]
  /\ Goto(w, "count")
  /\ UNCHANGED <<queue, job, row, service, unclosed>>

\* Slip: a failed page is skipped and the job goes on.
ScrapeFails_GoesOn(w) ==
  /\ At(w, "scrape")
  /\ NextPage(w, worker[w].page + 1)
  /\ UNCHANGED <<queue, job, row, scraped, service, unclosed>>

ScrapeFails(w) ==
  /\ At(w, "scrape")
  /\ Goto(w, "fail")
  /\ UNCHANGED <<queue, job, row, scraped, service, unclosed>>

\* The provider does not answer.
ScrapeHangs(w) ==
  /\ At(w, "scrape")
  /\ Goto(w, "hang")
  /\ UNCHANGED <<queue, job, row, scraped, service, unclosed>>

\* Slip: the job's context is the server's, with no deadline.
Expired_NoDeadline == Cancelled

\* Slip: the job's context descends from Background, with the deadline only.
Expired_NotTheServers == ~Cancelled

\* context.WithTimeout(s.ctx, 30 min) ends: by its deadline, or with the server's.
Expired == TRUE

\* The page is cut short with an error, or every item was started before the end:
\* then their failures are only counted and the page is done.  (The pages after it
\* fail in the code; here they may do anything.)
Deadline(w) ==
  /\ At(w, "hang") /\ Expired
  /\ \/ Goto(w, "fail") /\ UNCHANGED scraped
     \/ Goto(w, "count") /\ scraped' = [scraped EXCEPT ![worker[w].job] = @ + 1]
  /\ UNCHANGED <<queue, job, row, service, unclosed>>

\* UpdateExtractionRun saves the whole row, so a later save makes up for a lost one.
Count(w) ==
  LET j == worker[w].job IN
  /\ At(w, "count")
  /\ \/ row' = [row EXCEPT ![j].pages = scraped[j]]
     \/ UNCHANGED row
  /\ NextPage(w, worker[w].page + 1)
  /\ UNCHANGED <<queue, job, scraped, service, unclosed>>

\* FinishExtractionRun, or its loss: nobody writes the row again.
Close(w, status) ==
  LET j == worker[w].job IN
  /\ \/ row' = [row EXCEPT ![j].status = status] /\ UNCHANGED unclosed
     \/ unclosed' = unclosed \cup {j} /\ UNCHANGED row
  /\ EndJob(w)
  /\ UNCHANGED <<queue, scraped, service>>

Complete(w) == At(w, "complete") /\ Close(w, "completed")
Fail(w) == At(w, "fail") /\ Close(w, "failed")

WorkerStep(w) ==
  /\ service # "ended"
  /\ \/ Take(w) \/ StopWorker(w)
     \/ OpenRow(w) \/ OpenFails(w)
     \/ ScrapeOK(w) \/ ScrapeFails(w) \/ ScrapeHangs(w) \/ Deadline(w)
     \/ Count(w) \/ Complete(w) \/ Fail(w)

------------------------------------------------------------------------------
(* Shutdown *)

Cancel ==
  /\ service = "up" /\ service' = "cancelled"
  /\ UNCHANGED <<queue, job, worker, row, scraped, unclosed>>

CloseQueue ==
  /\ service = "cancelled" /\ service' = "queue closed"
  /\ UNCHANGED <<queue, job, worker, row, scraped, unclosed>>

\* The process ends with its goroutines; rows they had opened stay as they are.
End ==
  /\ service = "queue closed" /\ service' = "ended"
  /\ unclosed' = unclosed \cup {j \in Jobs : \E w \in Workers : Holds(w, j)}
  /\ worker' = [w \in Workers |-> [pc |-> "stopped"]]
  /\ UNCHANGED <<queue, job, row, scraped>>

JobsNext ==
  \/ \E j \in Jobs : Request(j)
  \/ \E w \in Workers : WorkerStep(w)
  \/ Cancel \/ CloseQueue \/ End

JobsSpec == JobsInit /\ [][JobsNext]_jobVars

\* Goroutines are scheduled fairly and a job's context expires.  End has no fairness:
\* the workers have to stop by themselves.
JobsLiveSpec == JobsSpec /\ \A w \in Workers : WF_jobVars(WorkerStep(w))

------------------------------------------------------------------------------
(* Properties *)

\* A row says 'completed' only when every page asked for was scraped, and 'running'
\* only while a worker holds the job or when its closing write was lost.
RowTellsTruth ==
  \A j \in Jobs :
    /\ row[j].status = "completed" => scraped[j] = Pages[j]
    /\ row[j].status = "running" => j \in unclosed \/ \E w \in Workers : Holds(w, j)

\* The 202 is kept: unless the service is shut down, an accepted job ends, hanging
\* provider or not.
AcceptedJobsEnd ==
  \A j \in Jobs : (job[j] = "queued") ~> (job[j] = "over" \/ Cancelled)

\* After Shutdown every worker stops of its own accord, the ones whose provider hangs
\* included.
WorkersStop == Cancelled ~> \A w \in Workers : At(w, "stopped")

==============================================================================
