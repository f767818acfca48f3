----------------------------- MODULE ScrapeJobs ------------------------------
(***************************************************************************)
(* Page extraction asked for through the API: a worker of the extraction   *)
(* pool calls Scraper.ScrapePage, which starts one goroutine per item of   *)
(* the page.  Calls share nothing but the database: the semaphore and the  *)
(* per-key locks are locals of a call.  Each member of Calls is one call   *)
(* of ScrapePage; the queue in front of the workers is module JobQueue.    *)
(***************************************************************************)
EXTENDS Catalog, Sequences

CONSTANTS
  Calls,            \* bound: the ScrapePage calls of a behaviour
  PageItems,        \* the items of the page; ErrorKey = item without a dedupe key
  ConcurrentLimit,  \* download.concurrent_limit
  MaxConcurrentExtractions  \* workers of the pool

ASSUME ScrapeAssumption ==
  /\ PageItems \in Seq(Entries)
  /\ ConcurrentLimit \in Nat \ {0}
  /\ MaxConcurrentExtractions \in Nat \ {0}

VARIABLES
  call,  \* progress of each call
  task   \* program counter of the goroutine for each item of each call

scrapeVars == <<call, task>>

Slots == 1..Len(PageItems)

\* What a goroutine does while it holds the key lock of its call.
Locked == {"check", "known", "fetch", "insert", "update", "route", "fail"}
\* ... and while it holds a place of the semaphore.
Working == {"started"} \cup Locked

ScrapeTypeOK ==
  /\ call \in [Calls -> {"new", "running", "returned"}]
  /\ task \in [Calls -> [Slots -> {"none", "spawned", "done"} \cup Working]]

ScrapeInit ==
  /\ call = [c \in Calls |-> "new"]
  /\ task = [c \in Calls |-> [n \in Slots |-> "none"]]

TaskAt(c, n, pc) == task[c][n] = pc
TaskGoto(c, n, pc) == task' = [task EXCEPT ![c][n] = pc]

------------------------------------------------------------------------------
(* The call *)

\* DiscoverPage and the spawn loop.  When the context is done between two
\* items, the call returns and leaves the goroutines started so far running.
StartCall(c) ==
  /\ call[c] = "new"
  /\ Cardinality({d \in Calls : call[d] = "running"}) < MaxConcurrentExtractions
  /\ \E spawned \in {1..n : n \in 0..Len(PageItems)} :
       /\ task' = [task EXCEPT ![c] =
                     [n \in Slots |-> IF n \in spawned THEN "spawned" ELSE "none"]]
       /\ call' = [call EXCEPT ![c] = IF spawned = Slots THEN "running" ELSE "returned"]
  /\ UNCHANGED catalogVars

\* wg.Wait
ReturnCall(c) ==
  /\ call[c] = "running"
  /\ \A n \in Slots : TaskAt(c, n, "done")
  /\ call' = [call EXCEPT ![c] = "returned"]
  /\ UNCHANGED <<catalogVars, task>>

------------------------------------------------------------------------------
(* One goroutine *)

\* Slip: a finished goroutine does not give its place back.
Acquire_NeverReleases(c, n) ==
  /\ TaskAt(c, n, "spawned")
  /\ Cardinality({m \in Slots : task[c][m] \in Working \cup {"done"}}) < ConcurrentLimit
  /\ TaskGoto(c, n, "started")
  /\ UNCHANGED <<catalogVars, call>>

Acquire(c, n) ==
  /\ TaskAt(c, n, "spawned")
  /\ Cardinality({m \in Slots : task[c][m] \in Working}) < ConcurrentLimit
  /\ TaskGoto(c, n, "started")
  /\ UNCHANGED <<catalogVars, call>>

\* An item without a key is an ambiguous exception; an error there is logged.
TaskWithoutKey(c, n) ==
  /\ TaskAt(c, n, "started")
  /\ PageItems[n] = ErrorKey
  /\ RecordInboxException(ErrorKey, "ambiguous", NoHash) \/ UNCHANGED catalogVars
  /\ TaskGoto(c, n, "done")
  /\ UNCHANGED call

\* Slip: no lock per dedupe key.
KeyLockFree_Always(c, n) == TRUE

KeyLockFree(c, n) ==
  \A m \in Slots : PageItems[m] = PageItems[n] => task[c][m] \notin Locked

TaskLock(c, n) ==
  /\ TaskAt(c, n, "started")
  /\ PageItems[n] # ErrorKey
  /\ KeyLockFree(c, n)
  /\ TaskGoto(c, n, "check")
  /\ UNCHANGED <<catalogVars, call>>

\* IsMediaAlreadyKept
TaskCheck(c, n) ==
  /\ TaskAt(c, n, "check")
  /\ TaskGoto(c, n, IF IsMediaAlreadyKept(PageItems[n]) THEN "known" ELSE "fetch")
  /\ UNCHANGED <<catalogVars, call>>

\* "dedupe key already kept", without a content hash.
TaskKnown(c, n) ==
  /\ TaskAt(c, n, "known")
  /\ RecordInboxException(PageItems[n], "duplicate", NoHash)
  /\ TaskGoto(c, n, "done")
  /\ UNCHANGED call

\* A database error of the check or of the duplicate's record is only counted.
TaskGivesUp(c, n) ==
  /\ task[c][n] \in {"check", "known"}
  /\ TaskGoto(c, n, "done")
  /\ UNCHANGED <<catalogVars, call>>

TaskFetch(c, n) ==
  /\ TaskAt(c, n, "fetch")
  /\ TaskGoto(c, n, "insert")
  /\ UNCHANGED <<catalogVars, call>>

\* Any error of downloadPhoto: resolve, download, or a database statement.
TaskFetchFails(c, n) ==
  /\ task[c][n] \in {"fetch", "insert", "update", "route"}
  /\ TaskGoto(c, n, "fail")
  /\ UNCHANGED <<catalogVars, call>>

TaskInsert(c, n) ==
  /\ TaskAt(c, n, "insert")
  /\ \/ InsertWins(PageItems[n]) /\ TaskGoto(c, n, "done")
     \/ InsertHitsKey(PageItems[n]) /\ TaskGoto(c, n, "update")
     \/ InsertHitsHash(PageItems[n]) /\ TaskGoto(c, n, "route")
  /\ UNCHANGED call

TaskUpdate(c, n) ==
  /\ TaskAt(c, n, "update")
  /\ \/ UpdateWins(PageItems[n]) /\ TaskGoto(c, n, "done")
     \/ UpdateLoses(PageItems[n]) /\ TaskGoto(c, n, "route")
  /\ UNCHANGED call

TaskRoute(c, n) ==
  /\ TaskAt(c, n, "route")
  /\ RecordInboxException(PageItems[n], "duplicate", Content[PageItems[n]])
  /\ TaskGoto(c, n, "done")
  /\ UNCHANGED call

\* RecordFailedDownload; its own error is only logged.
TaskFail(c, n) ==
  /\ TaskAt(c, n, "fail")
  /\ RecordFailedDownload(PageItems[n]) \/ UNCHANGED catalogVars
  /\ TaskGoto(c, n, "done")
  /\ UNCHANGED call

TaskStep(c, n) ==
  \/ Acquire(c, n) \/ TaskWithoutKey(c, n) \/ TaskLock(c, n)
  \/ TaskCheck(c, n) \/ TaskKnown(c, n) \/ TaskGivesUp(c, n)
  \/ TaskFetch(c, n) \/ TaskFetchFails(c, n)
  \/ TaskInsert(c, n) \/ TaskUpdate(c, n) \/ TaskRoute(c, n) \/ TaskFail(c, n)

ScrapeNext ==
  \E c \in Calls :
    \/ StartCall(c)
    \/ ReturnCall(c)
    \/ \E n \in Slots : TaskStep(c, n)

\* The process stops: every call and goroutine is gone.
ScrapeStop ==
  /\ call' = [c \in Calls |-> IF call[c] = "new" THEN "new" ELSE "returned"]
  /\ task' = [c \in Calls |->
                [n \in Slots |-> IF TaskAt(c, n, "none") THEN "none" ELSE "done"]]
  /\ UNCHANGED catalogVars

jobVars == <<rows, inbox, call, task>>

JobsInit == CatalogInit /\ ScrapeInit
JobsNext == ScrapeNext \/ ScrapeStop \/ (OperatorAct /\ UNCHANGED scrapeVars)

JobsSpec == JobsInit /\ [][JobsNext]_jobVars

\* Without new errors of the process, every started goroutine finishes.
JobsFairSpec ==
  /\ JobsSpec
  /\ \A c \in Calls :
       /\ WF_jobVars(ReturnCall(c))
       /\ \A n \in Slots : WF_jobVars(TaskStep(c, n))

------------------------------------------------------------------------------
(* Properties *)

JobsTypeOK == CatalogTypeOK /\ ScrapeTypeOK

\* The semaphore and the key locks of a call never block it for good: a call
\* that was not cut short waits for all its goroutines and returns.
CallsReturn == \A c \in Calls : call[c] = "running" ~> call[c] = "returned"

==============================================================================
