----------------------------- MODULE IngestLive ------------------------------
(***************************************************************************)
(* Progress of the scheduled runs.  Errors that end a run early, and       *)
(* process crashes, are counted and bounded by MaxFaults: providers, the   *)
(* database and the process fail now and then, not for ever.  A download   *)
(* that fails is no fault: it leaves a failed row and the run goes on.     *)
(***************************************************************************)
EXTENDS Ingest

CONSTANT MaxFaults  \* bound: run errors and crashes of a behaviour
ASSUME LiveAssumption == MaxFaults \in Nat

VARIABLE faults

liveVars == <<vars, faults>>

Fault ==
  /\ faults < MaxFaults
  /\ faults' = faults + 1
  /\ Crash \/ \E p \in Providers : RunError(p)

Progress ==
  /\ \/ \E p \in Providers : Tick(p) \/ RunStep(p) \/ Publish(p)
     \/ CacheFails
     \/ Operator
  /\ UNCHANGED faults

LiveInit == Init /\ faults = 0
LiveNext == Fault \/ Progress

\* cron fires every connector's schedule again and again, and a run that
\* started is executed; extractionMu is passed on among the waiting runs, so a
\* provider that keeps waiting gets its turn (Go's mutex does not starve).
LiveSpec ==
  /\ LiveInit /\ [][LiveNext]_liveVars
  /\ \A p \in Providers :
       /\ WF_liveVars(Tick(p) /\ UNCHANGED faults)
       /\ SF_liveVars(Begin(p) /\ UNCHANGED faults)
       /\ WF_liveVars(RunStep(p) /\ UNCHANGED faults)

\* Auto-keep: whatever a provider publishes gets into the catalog or, as bytes
\* already there, is recognised; no interleaving of runs, errors, crashes and
\* retries leaves an item unhandled for ever.
PublishedGetsAccounted ==
  \A p \in Providers : \A n \in 1..Len(Feed[p]) :
    published[p] >= n ~> Accounted(Feed[p][n])

\* The scheduler never wedges: a job that holds its mutex ends its run.
RunsEnd == \A p \in Providers : pc[p] # "idle" ~> pc[p] = "idle"

\* database.go on ResetPhotoStatus: a reset row is hidden "until a connector
\* re-processes it back to downloaded or failed".
PendingIsReprocessed ==
  \A k \in Keys : rows[k].status = "pending" ~> rows[k].status \in {"downloaded", "failed"}

==============================================================================
