---------------------------- MODULE MCIngestLive -----------------------------
(* Small instances of IngestLive. *)
EXTENDS IngestLive, TLC

CONSTANTS t1, t2, w1, tg, web, h1, h2

BothKind == (tg :> "updates") @@ (web :> "pages")
SmallFeed == (tg :> <<t1>>) @@ (web :> <<w1>>)
BothContent == (t1 :> h1) @@ (w1 :> h1)
ChatKind == tg :> "updates"
ChatFeed == tg :> <<t1>>
ChatContent == t1 :> h1

\* No row of the legacy ETL.
NoUrls == [k \in Keys |-> {}]
==============================================================================
