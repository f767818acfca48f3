----------------------------- MODULE MCJobQueue ------------------------------
(* Small instances of JobQueue. *)
EXTENDS JobQueue, TLC

CONSTANTS j1, j2, j3, v1, v2

\* One request for two pages, one for a page, one when no pages are configured.
SomePages == (j1 :> 2) @@ (j2 :> 1) @@ (j3 :> 0)
==============================================================================
