------------------------------ MODULE JobProofs ------------------------------
(***************************************************************************)
(* A job's row tells the truth, for any number of requests, workers and    *)
(* pages and for a queue of any length.  The argument: a job is in the     *)
(* queue once or in the hands of one worker, so whatever a worker knows of *)
(* the pages of its job stays true until its own next step; and a row that *)
(* was closed belongs to a job nobody will take again.                     *)
(***************************************************************************)
EXTENDS JobQueue, TLAPS

\* A job is in one place: once in the queue, or with one worker, or gone.
PlaceInv ==
  /\ \A n \in 1..Len(queue) : job[queue[n]] = "queued"
  /\ \A m, n \in 1..Len(queue) : queue[m] = queue[n] => m = n
  /\ \A w \in Workers : worker[w].pc \in Labels => job[worker[w].job] = "taken"
  /\ \A v, w \in Workers :
       worker[v].pc \in Labels /\ worker[w].pc \in Labels /\ worker[v].job = worker[w].job => v = w

\* A job nobody has begun has no row and no pages.
UntouchedInv ==
  \A j \in Jobs :
    job[j] \in {"new", "queued"} \/ (\E w \in Workers : At(w, "open") /\ worker[w].job = j) =>
      scraped[j] = 0 /\ row[j].status = "none"

\* What a worker knows of the pages of its job.
CountedInv ==
  \A w \in Workers :
    LET j == worker[w].job IN
    /\ worker[w].pc \in {"scrape", "hang"} =>
         worker[w].page < Pages[j] /\ scraped[j] = worker[w].page
    /\ At(w, "count") => worker[w].page < Pages[j] /\ scraped[j] = worker[w].page + 1
    /\ At(w, "complete") => scraped[j] = Pages[j]
    /\ worker[w].pc \in Labels => row[j].status \in {"none", "running"}

JobsInv == JobsTypeOK /\ PlaceInv /\ UntouchedInv /\ CountedInv /\ RowTellsTruth

------------------------------------------------------------------------------

LEMMA InitJobs == JobsInit => JobsInv
<1> SUFFICES ASSUME JobsInit PROVE JobsInv
  OBVIOUS
<1> USE JobAssumption DEF JobsInit
<1>1. JobsTypeOK
  BY DEF JobsTypeOK, Resting
<1>2. PlaceInv /\ UntouchedInv /\ CountedInv /\ RowTellsTruth
  BY DEF PlaceInv, UntouchedInv, CountedInv, RowTellsTruth, At, Labels
<1> QED BY <1>1, <1>2 DEF JobsInv

\* A worker that is busy has a job and a page.
LEMMA BusyWorker ==
  ASSUME JobsTypeOK, NEW w \in Workers, worker[w].pc \in Labels
  PROVE  /\ worker[w] \in Busy
         /\ worker[w].job \in Jobs /\ worker[w].page \in Nat
<1>1. worker[w] \in Busy \cup Resting
  BY DEF JobsTypeOK
<1>2. worker[w] \notin Resting
  BY DEF Resting, Labels
<1> QED BY <1>1, <1>2 DEF Busy

\* Only worker w and its job may change, and the job stays in its hands or is over.
OwnJobOnly(w) ==
  /\ \A v \in Workers \ {w} : worker'[v] = worker[v]
  /\ \A j \in Jobs \ {worker[w].job} :
       job'[j] = job[j] /\ row'[j] = row[j] /\ scraped'[j] = scraped[j]
  /\ UNCHANGED <<queue, service>>
  /\ unclosed \subseteq unclosed'

\* The steps of a worker on a job of its own.
OwnStep(w) ==
  \/ OpenRow(w) \/ OpenFails(w) \/ ScrapeOK(w) \/ ScrapeFails(w) \/ ScrapeHangs(w)
  \/ Deadline(w) \/ Count(w) \/ Complete(w) \/ Fail(w)

LEMMA OwnTyped ==
  ASSUME JobsInv, NEW w \in Workers, OwnStep(w)
  PROVE  /\ worker[w].pc \in Labels
         /\ worker' \in [Workers -> Busy \cup Resting]
         /\ worker'[w].pc \in Labels => worker'[w].job = worker[w].job
         /\ worker'[w].pc = "idle" \/ worker'[w].pc \in Labels
<1> USE JobAssumption DEF JobsInv
<1>1. worker[w].pc \in Labels
  BY DEF OwnStep, OpenRow, OpenFails, ScrapeOK, ScrapeFails, ScrapeHangs, Deadline, Count,
         Complete, Fail, At, Labels
<1>2. /\ worker[w] \in Busy /\ worker[w].job \in Jobs /\ worker[w].page \in Nat
      /\ worker \in [Workers -> Busy \cup Resting]
  BY <1>1, BusyWorker DEF JobsTypeOK
<1>3. ASSUME NEW l \in Labels, Goto(w, l)
      PROVE  /\ worker' \in [Workers -> Busy \cup Resting]
             /\ worker'[w].job = worker[w].job /\ worker'[w].pc \in Labels
  <2>1. [worker[w] EXCEPT !.pc = l] \in Busy
    BY <1>2 DEF Busy
  <2> QED BY <1>2, <1>3, <2>1 DEF Goto, Busy
<1>4. ASSUME NEW n \in Nat, NextPage(w, n)
      PROVE  /\ worker' \in [Workers -> Busy \cup Resting]
             /\ worker'[w].job = worker[w].job /\ worker'[w].pc \in Labels
  <2>1. \A l \in Labels : [worker[w] EXCEPT !.page = n, !.pc = l] \in Busy
    BY <1>2, <1>4 DEF Busy
  <2>2. PICK l \in Labels : worker' = [worker EXCEPT ![w] = [worker[w] EXCEPT !.page = n, !.pc = l]]
    BY <1>4 DEF NextPage, Labels
  <2>3. worker'[w] = [worker[w] EXCEPT !.page = n, !.pc = l]
    BY <1>2, <2>2
  <2> QED BY <1>2, <2>1, <2>2, <2>3 DEF Busy
<1>5. EndJob(w) => worker' \in [Workers -> Busy \cup Resting] /\ worker'[w].pc = "idle"
  BY <1>2 DEF EndJob, Resting
<1> QED BY <1>1, <1>2, <1>3, <1>4, <1>5 DEF OwnStep, OpenRow, OpenFails, ScrapeOK, ScrapeFails,
           ScrapeHangs, Deadline, Count, Complete, Fail, Close, Labels

\* What each step does to the worker and to its job.
LEMMA OwnFrame ==
  ASSUME JobsInv, NEW w \in Workers, OwnStep(w)
  PROVE  /\ OwnJobOnly(w)
         /\ worker'[w].pc # "open"
         /\ \/ job' = job /\ worker'[w].pc \in Labels
            \/ job' = [job EXCEPT ![worker[w].job] = "over"] /\ worker'[w].pc = "idle"
<1> USE JobAssumption DEF JobsInv
<1>1. /\ worker[w] \in Busy /\ worker[w].job \in Jobs /\ worker[w].page \in Nat
      /\ worker \in [Workers -> Busy \cup Resting]
      /\ job \in [Jobs -> {"new", "refused", "queued", "taken", "over"}]
      /\ row \in [Jobs -> [status : {"none", "running", "completed", "failed"}, pages : Nat]]
      /\ scraped \in [Jobs -> Nat]
  BY OwnTyped, BusyWorker DEF JobsTypeOK
<1>2. ASSUME NEW l, Goto(w, l)
      PROVE  worker'[w].pc = l /\ \A v \in Workers \ {w} : worker'[v] = worker[v]
  BY <1>1, <1>2 DEF Goto, Busy
<1>3. ASSUME NEW n, NextPage(w, n)
      PROVE  /\ worker'[w].pc \in {"scrape", "complete"}
             /\ \A v \in Workers \ {w} : worker'[v] = worker[v]
  BY <1>1, <1>3 DEF NextPage, Busy
<1>4. EndJob(w) => worker'[w].pc = "idle" /\ \A v \in Workers \ {w} : worker'[v] = worker[v]
  BY <1>1 DEF EndJob
<1>5. CASE OpenRow(w)
  BY <1>1, <1>3, <1>5 DEF OpenRow, OwnJobOnly, Labels
<1>6. CASE OpenFails(w)
  BY <1>1, <1>4, <1>6 DEF OpenFails, EndJob, OwnJobOnly
<1>7. CASE ScrapeOK(w) \/ ScrapeFails(w) \/ ScrapeHangs(w) \/ Deadline(w)
  BY <1>1, <1>2, <1>7 DEF ScrapeOK, ScrapeFails, ScrapeHangs, Deadline, OwnJobOnly, Labels
<1>8. CASE Count(w)
  BY <1>1, <1>3, <1>8 DEF Count, OwnJobOnly, Labels
<1>9. CASE Complete(w) \/ Fail(w)
  BY <1>1, <1>4, <1>9 DEF Complete, Fail, Close, EndJob, OwnJobOnly
<1> QED BY <1>5, <1>6, <1>7, <1>8, <1>9 DEF OwnStep

\* What each step does to the pages and to the row of its job.
LEMMA OwnPages ==
  ASSUME JobsInv, NEW w \in Workers, OwnStep(w)
  PROVE  LET j == worker[w].job IN
         /\ row' \in [Jobs -> [status : {"none", "running", "completed", "failed"}, pages : Nat]]
         /\ scraped' \in [Jobs -> Nat]
         /\ row'[j].pages <= scraped'[j] /\ scraped'[j] <= Pages[j]
         /\ worker'[w].pc \in {"scrape", "hang"} =>
              worker'[w].page < Pages[j] /\ scraped'[j] = worker'[w].page
         /\ worker'[w].pc = "count" => worker'[w].page < Pages[j] /\ scraped'[j] = worker'[w].page + 1
         /\ worker'[w].pc = "complete" => scraped'[j] = Pages[j]
         /\ worker'[w].pc \in Labels => row'[j].status \in {"none", "running"}
         /\ row'[j].status = "completed" => scraped'[j] = Pages[j]
         /\ row'[j].status = "running" => worker'[w].pc \in Labels \/ j \in unclosed'
<1> DEFINE j == worker[w].job
<1> USE JobAssumption DEF JobsInv
<1>1. /\ worker[w] \in Busy /\ j \in Jobs /\ worker[w].page \in Nat
      /\ worker[w].pc \in Labels
      /\ worker \in [Workers -> Busy \cup Resting]
      /\ row \in [Jobs -> [status : {"none", "running", "completed", "failed"}, pages : Nat]]
      /\ scraped \in [Jobs -> Nat]
      /\ row[j].pages <= scraped[j] /\ scraped[j] <= Pages[j]
      /\ Pages[j] \in Nat /\ scraped[j] \in Nat /\ row[j].pages \in Nat
      /\ row[j].status \in {"none", "running"}
  <2>1. worker[w].pc \in Labels
    BY OwnTyped
  <2>2. worker[w] \in Busy /\ j \in Jobs /\ worker[w].page \in Nat
    BY <2>1, BusyWorker
  <2> QED BY <2>1, <2>2 DEF JobsTypeOK, CountedInv
<1>2. /\ worker[w].pc \in {"scrape", "hang"} => worker[w].page < Pages[j] /\ scraped[j] = worker[w].page
      /\ At(w, "count") => worker[w].page < Pages[j] /\ scraped[j] = worker[w].page + 1
      /\ At(w, "complete") => scraped[j] = Pages[j]
      /\ At(w, "open") => scraped[j] = 0
  BY <1>1 DEF CountedInv, UntouchedInv
<1>3. ASSUME NEW l, Goto(w, l) PROVE worker'[w].pc = l /\ worker'[w].page = worker[w].page
  BY <1>1, <1>3 DEF Goto, Busy
<1>4. ASSUME NEW n, NextPage(w, n)
      PROVE  /\ worker'[w].page = n
             /\ worker'[w].pc = IF n < Pages[j] THEN "scrape" ELSE "complete"
  BY <1>1, <1>4 DEF NextPage, Busy
<1>5. EndJob(w) => worker'[w].pc = "idle"
  BY <1>1 DEF EndJob
<1> HIDE DEF j
<1>6. CASE OpenRow(w)
  <2>1. /\ row' = [row EXCEPT ![j].status = "running"] /\ scraped' = scraped
        /\ scraped[j] = 0 /\ NextPage(w, 0)
    BY <1>2, <1>6 DEF OpenRow, j
  <2>2. worker'[w].page = 0 /\ worker'[w].pc = IF 0 < Pages[j] THEN "scrape" ELSE "complete"
    BY <1>4, <2>1
  <2>3. /\ row' \in [Jobs -> [status : {"none", "running", "completed", "failed"}, pages : Nat]]
        /\ row'[j].status = "running" /\ row'[j].pages = row[j].pages
    BY <1>1, <2>1
  <2>4. worker'[w].pc \in Labels
    BY <2>2 DEF Labels
  <2> QED BY <1>1, <2>1, <2>2, <2>3, <2>4 DEF j
<1>7. CASE OpenFails(w)
  <2>1. row' = row /\ scraped' = scraped /\ unclosed' = unclosed /\ EndJob(w) /\ At(w, "open")
    BY <1>7 DEF OpenFails
  <2>2. worker'[w].pc = "idle"
    BY <1>5, <2>1
  <2>3. row[j].status = "none"
    BY <1>1, <2>1 DEF UntouchedInv, j
  <2> QED BY <1>1, <2>1, <2>2, <2>3 DEF Labels, j
<1>8. CASE ScrapeOK(w) \/ (Deadline(w) /\ Goto(w, "count"))
  <2>1. /\ row' = row /\ scraped' = [scraped EXCEPT ![j] = @ + 1] /\ Goto(w, "count")
        /\ worker[w].page < Pages[j] /\ scraped[j] = worker[w].page
    <3>1. worker'[w].pc # "fail"
      BY <1>3, <1>8 DEF ScrapeOK
    <3> QED BY <1>2, <1>3, <1>8, <3>1 DEF ScrapeOK, Deadline, At, j
  <2>2. worker'[w].pc = "count" /\ worker'[w].page = worker[w].page
    BY <1>3, <2>1
  <2>3. scraped' \in [Jobs -> Nat] /\ scraped'[j] = worker[w].page + 1
    BY <1>1, <2>1
  <2> QED BY <1>1, <2>1, <2>2, <2>3 DEF Labels, j
<1>9. CASE ScrapeFails(w) \/ (Deadline(w) /\ Goto(w, "fail"))
  <2>1. worker'[w].pc = "fail"
    BY <1>3, <1>9 DEF ScrapeFails
  <2>3. row' = row /\ scraped' = scraped
    BY <1>3, <1>9, <2>1 DEF ScrapeFails, Deadline
  <2> QED BY <1>1, <2>1, <2>3 DEF Labels, j
<1>10. CASE ScrapeHangs(w)
  <2>1. row' = row /\ scraped' = scraped /\ Goto(w, "hang") /\ At(w, "scrape")
    BY <1>10 DEF ScrapeHangs
  <2>2. worker'[w].pc = "hang" /\ worker'[w].page = worker[w].page
    BY <1>3, <2>1
  <2> QED BY <1>1, <1>2, <2>1, <2>2 DEF Labels, At, j
<1>11. CASE Count(w)
  <2>1. /\ row' = [row EXCEPT ![j].pages = scraped[j]] \/ row' = row
        /\ scraped' = scraped /\ NextPage(w, worker[w].page + 1)
        /\ worker[w].page < Pages[j] /\ scraped[j] = worker[w].page + 1
    BY <1>2, <1>11 DEF Count, j
  <2>2. /\ worker'[w].page = worker[w].page + 1
        /\ worker'[w].pc = IF worker[w].page + 1 < Pages[j] THEN "scrape" ELSE "complete"
    BY <1>4, <2>1
  <2>3. /\ row' \in [Jobs -> [status : {"none", "running", "completed", "failed"}, pages : Nat]]
        /\ row'[j].status = row[j].status
        /\ row'[j].pages \in {row[j].pages, scraped[j]}
    BY <1>1, <2>1
  <2>4. worker'[w].pc \in {"scrape", "complete"} /\ worker'[w].pc \in Labels
    BY <2>2 DEF Labels
  <2>5. worker'[w].pc = "complete" => scraped[j] = Pages[j]
    BY <1>1, <2>1, <2>2
  <2>6. worker'[w].pc = "scrape" => worker'[w].page < Pages[j]
    BY <2>2
  <2> QED BY <1>1, <2>1, <2>2, <2>3, <2>4, <2>5, <2>6 DEF j
<1>12. ASSUME NEW status \in {"completed", "failed"}, Close(w, status),
              status = "completed" => scraped[j] = Pages[j]
       PROVE  /\ row' \in [Jobs -> [status : {"none", "running", "completed", "failed"}, pages : Nat]]
              /\ scraped' = scraped /\ row'[j].pages = row[j].pages
              /\ worker'[w].pc = "idle"
              /\ row'[j].status = "completed" => scraped[j] = Pages[j]
              /\ row'[j].status = "running" => j \in unclosed'
  <2>1. EndJob(w) /\ scraped' = scraped
    BY <1>12 DEF Close
  <2>2. CASE row' = [row EXCEPT ![j].status = status]
    BY <1>1, <1>5, <1>12, <2>1, <2>2
  <2>3. CASE unclosed' = unclosed \cup {j} /\ row' = row
    BY <1>1, <1>5, <2>1, <2>3
  <2> QED BY <1>12, <2>2, <2>3 DEF Close, j
<1>13. CASE Complete(w)
  <2>1. Close(w, "completed") /\ scraped[j] = Pages[j]
    BY <1>2, <1>13 DEF Complete
  <2> QED BY <1>1, <1>12, <2>1 DEF Labels, j
<1>14. CASE Fail(w)
  <2>1. Close(w, "failed")
    BY <1>14 DEF Fail
  <2> QED BY <1>1, <1>12, <2>1 DEF Labels, j
<1> QED BY <1>6, <1>7, <1>8, <1>9, <1>10, <1>11, <1>13, <1>14 DEF OwnStep, Deadline

\* What the queue holds.
LEMMA Queued ==
  ASSUME JobsTypeOK
  PROVE  /\ queue \in Seq(Jobs) /\ Len(queue) \in Nat /\ Len(queue) <= QueueSize
         /\ \A n \in 1..Len(queue) : queue[n] \in Jobs
<1>1. queue \in Seq(Jobs) /\ Len(queue) <= QueueSize
  BY DEF JobsTypeOK
<1> QED BY <1>1

LEMMA OwnJobs ==
  ASSUME JobsInv, NEW w \in Workers, OwnStep(w)
  PROVE  JobsInv'
<1> DEFINE j == worker[w].job
<1> USE JobAssumption DEF JobsInv
<1>1. /\ OwnJobOnly(w) /\ worker'[w].pc # "open"
      /\ \/ job' = job /\ worker'[w].pc \in Labels
         \/ job' = [job EXCEPT ![j] = "over"] /\ worker'[w].pc = "idle"
  BY OwnFrame
<1>2. /\ worker[w].pc \in Labels /\ worker' \in [Workers -> Busy \cup Resting]
      /\ worker'[w].pc \in Labels => worker'[w].job = j
  BY OwnTyped
<1>3. j \in Jobs /\ job[j] = "taken"
  BY <1>2, BusyWorker DEF PlaceInv
<1>4. \A v \in Workers \ {w} : worker[v].pc \in Labels => worker[v].job \in Jobs \ {j}
  BY <1>2, BusyWorker DEF PlaceInv
<1>5. /\ \A v \in Workers \ {w} : worker'[v] = worker[v]
      /\ \A i \in Jobs \ {j} : job'[i] = job[i] /\ row'[i] = row[i] /\ scraped'[i] = scraped[i]
      /\ queue' = queue /\ service' = service /\ unclosed \subseteq unclosed'
  BY <1>1 DEF OwnJobOnly
<1>6. job'[j] \in {"taken", "over"} /\ (worker'[w].pc \in Labels => job'[j] = "taken")
  BY <1>1, <1>3 DEF JobsTypeOK, Labels
<1>7. /\ row' \in [Jobs -> [status : {"none", "running", "completed", "failed"}, pages : Nat]]
      /\ scraped' \in [Jobs -> Nat]
      /\ row'[j].pages <= scraped'[j] /\ scraped'[j] <= Pages[j]
      /\ row'[j].status = "completed" => scraped'[j] = Pages[j]
      /\ row'[j].status = "running" => worker'[w].pc \in Labels \/ j \in unclosed'
  BY OwnPages
<1>8. /\ worker'[w].pc \in {"scrape", "hang"} =>
           worker'[w].page < Pages[j] /\ scraped'[j] = worker'[w].page
      /\ worker'[w].pc = "count" => worker'[w].page < Pages[j] /\ scraped'[j] = worker'[w].page + 1
      /\ worker'[w].pc = "complete" => scraped'[j] = Pages[j]
      /\ worker'[w].pc \in Labels => row'[j].status \in {"none", "running"}
  BY OwnPages
<1>9. JobsTypeOK'
  <2>1. \A i \in Jobs : row'[i].pages <= scraped'[i] /\ scraped'[i] <= Pages[i]
    BY <1>5, <1>7 DEF JobsTypeOK
  <2>2. job' \in [Jobs -> {"new", "refused", "queued", "taken", "over"}]
    BY <1>1 DEF JobsTypeOK
  <2>3. unclosed' \subseteq Jobs
    BY <1>3 DEF JobsTypeOK, OwnStep, OpenRow, OpenFails, ScrapeOK, ScrapeFails, ScrapeHangs,
                Deadline, Count, Complete, Fail, Close
  <2> QED BY <1>2, <1>5, <1>7, <2>1, <2>2, <2>3 DEF JobsTypeOK
<1> HIDE DEF j
<1>10. PlaceInv'
  <2>1. \A n \in 1..Len(queue) : queue[n] \in Jobs \ {j} /\ job[queue[n]] = "queued"
    BY <1>3, Queued DEF PlaceInv
  <2>2. \A v \in Workers : worker'[v].pc \in Labels => job'[worker'[v].job] = "taken"
    BY <1>2, <1>4, <1>5, <1>6 DEF PlaceInv
  <2>3. \A u, v \in Workers : worker'[u].pc \in Labels /\ worker'[v].pc \in Labels
                              /\ worker'[u].job = worker'[v].job => u = v
    BY <1>2, <1>4, <1>5 DEF PlaceInv
  <2> QED BY <1>5, <2>1, <2>2, <2>3 DEF PlaceInv
<1>11. UntouchedInv'
  <2>1. ASSUME NEW i \in Jobs,
               \/ job'[i] \in {"new", "queued"}
               \/ \E v \in Workers : worker'[v].pc = "open" /\ worker'[v].job = i
        PROVE  scraped'[i] = 0 /\ row'[i].status = "none"
    <3>1. i # j
      BY <1>1, <1>4, <1>5, <1>6, <2>1 DEF Labels
    <3>2. job[i] \in {"new", "queued"} \/ \E v \in Workers : At(v, "open") /\ worker[v].job = i
      BY <1>1, <1>5, <2>1, <3>1 DEF At
    <3> QED BY <1>5, <3>1, <3>2 DEF UntouchedInv
  <2> QED BY <2>1 DEF UntouchedInv, At
<1>12. CountedInv'
  <2>1. ASSUME NEW v \in Workers \ {w}, worker[v].pc \in Labels
        PROVE  /\ worker'[v] = worker[v]
               /\ row'[worker[v].job] = row[worker[v].job]
               /\ scraped'[worker[v].job] = scraped[worker[v].job]
    BY <1>4, <1>5, <2>1
  <2>2. ASSUME NEW v \in Workers \ {w}, worker'[v].pc \in Labels
        PROVE  /\ worker'[v].pc \in {"scrape", "hang"} =>
                    /\ worker'[v].page < Pages[worker'[v].job]
                    /\ scraped'[worker'[v].job] = worker'[v].page
               /\ worker'[v].pc = "count" =>
                    /\ worker'[v].page < Pages[worker'[v].job]
                    /\ scraped'[worker'[v].job] = worker'[v].page + 1
               /\ worker'[v].pc = "complete" => scraped'[worker'[v].job] = Pages[worker'[v].job]
               /\ row'[worker'[v].job].status \in {"none", "running"}
    BY <1>5, <2>1, <2>2 DEF CountedInv, At
  <2>3. \A l : l \notin Labels => l \notin {"scrape", "hang", "count", "complete"}
    BY DEF Labels
  <2> QED BY <1>2, <1>8, <2>2, <2>3 DEF CountedInv, At
<1>13. RowTellsTruth'
  <2>1. ASSUME NEW i \in Jobs
        PROVE  /\ row'[i].status = "completed" => scraped'[i] = Pages[i]
               /\ row'[i].status = "running" => i \in unclosed' \/ \E v \in Workers : Holds(v, i)'
    <3>1. CASE i = j
      BY <1>2, <1>7, <3>1 DEF Holds
    <3>2. CASE i # j
      BY <1>5, <3>2 DEF RowTellsTruth, Holds, j
    <3> QED BY <3>1, <3>2
  <2> QED BY <2>1 DEF RowTellsTruth
<1> QED BY <1>9, <1>10, <1>11, <1>12, <1>13

LEMMA TakeJobs ==
  ASSUME JobsInv, NEW w \in Workers, Take(w)
  PROVE  JobsInv'
<1> DEFINE j == Head(queue)
<1> USE JobAssumption DEF JobsInv
<1>1. /\ queue \in Seq(Jobs) /\ queue # <<>> /\ queue' = Tail(queue)
      /\ j = queue[1] /\ 1 \in 1..Len(queue) /\ j \in Jobs
  <2>1. queue \in Seq(Jobs) /\ queue # <<>> /\ queue' = Tail(queue)
    BY Queued DEF Take
  <2>2. Len(queue) \in Nat \ {0}
    BY <2>1
  <2>3. 1 \in 1..Len(queue)
    BY <2>2
  <2>4. j = queue[1] /\ j \in Jobs
    BY <2>1, <2>3, Queued
  <2> QED BY <2>1, <2>3, <2>4
<1>2. /\ queue' \in Seq(Jobs) /\ Len(queue') = Len(queue) - 1 /\ Len(queue) \in Nat
      /\ \A n \in 1..Len(queue') : queue'[n] = queue[n + 1] /\ n + 1 \in 1..Len(queue) /\ n + 1 # 1
  <2>1. Len(queue) \in Nat /\ Len(queue) # 0
    BY <1>1, Queued
  <2>2. queue' \in Seq(Jobs) /\ Len(queue') = Len(queue) - 1
    BY <1>1, <2>1
  <2>3. \A n \in 1..Len(queue') : n + 1 \in 1..Len(queue) /\ n + 1 # 1
    BY <2>1, <2>2
  <2>4. \A n \in 1..Len(queue') : queue'[n] = queue[n + 1]
    BY <1>1, <2>1, <2>2
  <2> QED BY <2>1, <2>2, <2>3, <2>4
<1>3. /\ job' = [job EXCEPT ![j] = "taken"] /\ At(w, "idle")
      /\ worker' = [worker EXCEPT ![w] = [pc |-> "open", job |-> j, page |-> 0]]
      /\ UNCHANGED <<row, scraped, service, unclosed>>
  BY DEF Take
<1>4. /\ worker \in [Workers -> Busy \cup Resting]
      /\ job \in [Jobs -> {"new", "refused", "queued", "taken", "over"}]
      /\ job[j] = "queued" /\ scraped[j] = 0 /\ row[j].status = "none"
      /\ worker[w].pc \notin Labels
  BY <1>1, <1>3 DEF JobsTypeOK, PlaceInv, UntouchedInv, At, Labels
<1> HIDE DEF j
<1>5. /\ worker'[w] = [pc |-> "open", job |-> j, page |-> 0]
      /\ \A v \in Workers \ {w} : worker'[v] = worker[v]
      /\ job'[j] = "taken" /\ \A i \in Jobs \ {j} : job'[i] = job[i]
  BY <1>1, <1>3, <1>4
<1>6. \A v \in Workers : worker[v].pc \in Labels => worker[v].job \in Jobs \ {j}
  BY <1>4, BusyWorker DEF PlaceInv
<1>7. JobsTypeOK'
  <2>1. [pc |-> "open", job |-> j, page |-> 0] \in Busy
    BY <1>1 DEF Busy, Labels
  <2>2. worker' \in [Workers -> Busy \cup Resting]
    BY <1>3, <1>4, <2>1
  <2>3. Len(queue') <= QueueSize
    BY <1>2, Queued
  <2> QED BY <1>2, <1>3, <2>2, <2>3 DEF JobsTypeOK
<1>8. PlaceInv'
  <2>1. \A n \in 1..Len(queue') : queue'[n] # j /\ job[queue'[n]] = "queued" /\ queue'[n] \in Jobs
    BY <1>1, <1>2 DEF PlaceInv
  <2>2. \A m, n \in 1..Len(queue') : queue'[m] = queue'[n] => m = n
    BY <1>2 DEF PlaceInv
  <2>3. \A v \in Workers : worker'[v].pc \in Labels => job'[worker'[v].job] = "taken"
    BY <1>5, <1>6 DEF PlaceInv
  <2>4. \A u, v \in Workers : worker'[u].pc \in Labels /\ worker'[v].pc \in Labels
                              /\ worker'[u].job = worker'[v].job => u = v
    BY <1>5, <1>6 DEF PlaceInv
  <2> QED BY <1>5, <2>1, <2>2, <2>3, <2>4 DEF PlaceInv
<1>9. UntouchedInv'
  BY <1>3, <1>4, <1>5 DEF UntouchedInv, At
<1>10. CountedInv'
  <2>1. ASSUME NEW v \in Workers \ {w} PROVE worker'[v] = worker[v]
    BY <1>5
  <2> QED BY <1>3, <1>4, <1>5, <2>1 DEF CountedInv, At
<1>11. RowTellsTruth'
  BY <1>3, <1>4, <1>5 DEF RowTellsTruth, Holds
<1> QED BY <1>7, <1>8, <1>9, <1>10, <1>11

LEMMA RequestJobs ==
  ASSUME JobsInv, NEW j \in Jobs, Request(j)
  PROVE  JobsInv'
<1> USE JobAssumption DEF JobsInv
<1>1. job[j] = "new" /\ UNCHANGED <<worker, row, scraped, service, unclosed>>
  BY DEF Request
<1>2. \A v \in Workers : worker[v].pc \in Labels => worker[v].job # j
  BY <1>1 DEF PlaceInv
<1>3. \A n \in 1..Len(queue) : queue[n] \in Jobs \ {j}
  BY <1>1, Queued DEF PlaceInv
<1>4. /\ job \in [Jobs -> {"new", "refused", "queued", "taken", "over"}]
      /\ queue \in Seq(Jobs) /\ Len(queue) \in Nat
  BY Queued DEF JobsTypeOK
<1>5. CASE Room /\ Accept(j)
  <2>1. /\ queue' \in Seq(Jobs) /\ Len(queue') = Len(queue) + 1
        /\ queue'[Len(queue) + 1] = j /\ \A n \in 1..Len(queue) : queue'[n] = queue[n]
        /\ job' = [job EXCEPT ![j] = "queued"]
    BY <1>4, <1>5 DEF Accept
  <2>2. \A n \in 1..Len(queue') : n \in 1..Len(queue) \/ n = Len(queue) + 1
    BY <1>4, <2>1
  <2>3. job'[j] = "queued" /\ \A i \in Jobs \ {j} : job'[i] = job[i]
    BY <1>4, <2>1
  <2>4. JobsTypeOK'
    <3>1. Len(queue') <= QueueSize
      BY <1>4, <1>5, <2>1 DEF Room
    <3> QED BY <1>1, <2>1, <3>1 DEF JobsTypeOK
  <2>5. PlaceInv'
    <3>1. \A n \in 1..Len(queue') : job'[queue'[n]] = "queued"
      BY <1>3, <2>1, <2>2, <2>3 DEF PlaceInv
    <3>2. \A m, n \in 1..Len(queue') : queue'[m] = queue'[n] => m = n
      BY <1>3, <2>1, <2>2 DEF PlaceInv
    <3>3. \A v \in Workers : worker'[v].pc \in Labels => job'[worker'[v].job] = "taken"
      BY <1>1, <1>2, <2>3, BusyWorker DEF PlaceInv
    <3> QED BY <1>1, <3>1, <3>2, <3>3 DEF PlaceInv
  <2>6. UntouchedInv'
    BY <1>1, <2>3 DEF UntouchedInv, At
  <2> QED BY <1>1, <2>4, <2>5, <2>6 DEF CountedInv, RowTellsTruth, At, Holds
<1>6. CASE Refuse(j)
  <2>1. queue' = queue /\ job' = [job EXCEPT ![j] = "refused"]
    BY <1>6 DEF Refuse
  <2>2. job'[j] = "refused" /\ \A i \in Jobs \ {j} : job'[i] = job[i]
    BY <1>4, <2>1
  <2>3. JobsTypeOK'
    BY <1>1, <2>1 DEF JobsTypeOK
  <2>4. PlaceInv'
    BY <1>1, <1>2, <1>3, <2>1, <2>2, BusyWorker DEF PlaceInv
  <2>5. UntouchedInv'
    BY <1>1, <2>2 DEF UntouchedInv, At
  <2> QED BY <1>1, <2>3, <2>4, <2>5 DEF CountedInv, RowTellsTruth, At, Holds
<1> QED BY <1>5, <1>6 DEF Request

\* Shutdown: what a worker held when the process ended is in unclosed.
LEMMA ShutdownJobs ==
  ASSUME JobsInv,
         (\E w \in Workers : StopWorker(w)) \/ Cancel \/ CloseQueue \/ End \/ UNCHANGED jobVars
  PROVE  JobsInv'
<1> USE JobAssumption DEF JobsInv
<1>1. ASSUME NEW w \in Workers, StopWorker(w) PROVE JobsInv'
  <2>1. /\ worker' = [worker EXCEPT ![w].pc = "stopped"] /\ worker[w].pc = "idle"
        /\ UNCHANGED <<queue, job, row, scraped, service, unclosed>>
    BY <1>1 DEF StopWorker, Goto, At
  <2>2. worker \in [Workers -> Busy \cup Resting]
    BY DEF JobsTypeOK
  <2>3. worker[w] = [pc |-> "idle"]
    BY <2>1, <2>2 DEF Busy, Resting, Labels
  <2>4. [worker[w] EXCEPT !.pc = "stopped"] = [pc |-> "stopped"]
    BY <2>3
  <2>5. worker' = [worker EXCEPT ![w] = [pc |-> "stopped"]]
    BY <2>1, <2>4
  <2>6. /\ worker' \in [Workers -> Busy \cup Resting]
        /\ worker'[w].pc = "stopped" /\ \A v \in Workers \ {w} : worker'[v] = worker[v]
    BY <2>2, <2>5 DEF Resting
  <2>7. JobsTypeOK'
    BY <2>1, <2>6 DEF JobsTypeOK
  <2>8. PlaceInv' /\ UntouchedInv' /\ CountedInv' /\ RowTellsTruth'
    BY <2>1, <2>6 DEF PlaceInv, UntouchedInv, CountedInv, RowTellsTruth, At, Holds, Labels
  <2> QED BY <2>7, <2>8
<1>2. CASE End
  <2>1. /\ worker' = [w \in Workers |-> [pc |-> "stopped"]]
        /\ unclosed' = unclosed \cup {j \in Jobs : \E w \in Workers : Holds(w, j)}
        /\ service' = "ended" /\ UNCHANGED <<queue, job, row, scraped>>
    BY <1>2 DEF End
  <2>2. worker' \in [Workers -> Busy \cup Resting] /\ \A w \in Workers : worker'[w].pc = "stopped"
    BY <2>1 DEF Resting
  <2>3. JobsTypeOK'
    BY <2>1, <2>2 DEF JobsTypeOK
  <2>4. PlaceInv' /\ UntouchedInv' /\ CountedInv' /\ RowTellsTruth'
    BY <2>1, <2>2 DEF PlaceInv, UntouchedInv, CountedInv, RowTellsTruth, At, Labels
  <2> QED BY <2>3, <2>4
<1>3. CASE Cancel \/ CloseQueue \/ UNCHANGED jobVars
  <2>1. UNCHANGED <<queue, job, worker, row, scraped, unclosed>>
        /\ service' \in {"up", "cancelled", "queue closed", "ended"}
    <3>1. service \in {"up", "cancelled", "queue closed", "ended"}
      BY DEF JobsTypeOK
    <3> QED BY <1>3, <3>1 DEF Cancel, CloseQueue, jobVars
  <2>2. JobsTypeOK'
    BY <2>1 DEF JobsTypeOK
  <2>3. PlaceInv' /\ UntouchedInv' /\ CountedInv' /\ RowTellsTruth'
    <3>1. PlaceInv' /\ UntouchedInv'
      BY <2>1 DEF PlaceInv, UntouchedInv, At
    <3>2. CountedInv'
      BY <2>1 DEF CountedInv, At
    <3>3. RowTellsTruth'
      BY <2>1 DEF RowTellsTruth, Holds
    <3> QED BY <3>1, <3>2, <3>3
  <2> QED BY <2>2, <2>3
<1> QED BY <1>1, <1>2, <1>3

LEMMA JobsStep == JobsInv /\ [JobsNext]_jobVars => JobsInv'
BY RequestJobs, TakeJobs, OwnJobs, ShutdownJobs DEF JobsNext, WorkerStep, OwnStep

\* No job is lost track of: the queue keeps its bound, and a row never counts more
\* pages than were scraped, nor a job more than were asked for.
THEOREM JobsTyped == JobsSpec => []JobsTypeOK
<1>1. JobsInv => JobsTypeOK
  BY DEF JobsInv
<1> QED BY <1>1, InitJobs, JobsStep, PTL DEF JobsSpec

\* A row says 'completed' only when every page asked for was scraped, and 'running'
\* only while a worker holds the job or when its closing write was lost.
THEOREM RowsTellTruth == JobsSpec => []RowTellsTruth
<1>1. JobsInv => RowTellsTruth
  BY DEF JobsInv
<1> QED BY <1>1, InitJobs, JobsStep, PTL DEF JobsSpec

==============================================================================
