----------------------------- MODULE Extraction ------------------------------
(***************************************************************************)
(* The running service: scheduled connector runs (Ingest) and page calls   *)
(* from the API's extraction workers (ScrapeJobs) over one catalog.  No    *)
(* lock of the code is shared between the two; only the database is.  The  *)
(* keys of a scheduled gallery carry the id of its source and those of the *)
(* API's scraper do not, so the two meet in a row by its bytes; the same   *)
(* key they have only in the gallery main.go falls back to when the        *)
(* sources cannot be listed or seeded at startup.  The module leaves both  *)
(* open: Feed and PageItems may share keys or not.                         *)
(***************************************************************************)
EXTENDS Ingest, ScrapeJobs

serviceVars == <<rows, inbox, ingestVars, call, task>>

ServiceInit == CatalogInit /\ IngestInit /\ ScrapeInit

\* The process holds both: when it dies, runs, calls and goroutines die.
Restart == Crash /\ ScrapeStop

ServiceNext ==
  \/ IngestNext /\ UNCHANGED scrapeVars
  \/ ScrapeNext /\ UNCHANGED ingestVars
  \/ Restart
  \/ Operator /\ UNCHANGED scrapeVars

ServiceSpec == ServiceInit /\ [][ServiceNext]_serviceVars

==============================================================================
