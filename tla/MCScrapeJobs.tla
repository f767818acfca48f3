---------------------------- MODULE MCScrapeJobs -----------------------------
(* Small instances of ScrapeJobs. *)
EXTENDS ScrapeJobs, TLC

CONSTANTS w1, w2, h1, u2

\* Two links of one page with the same key, an item without a key, and a
\* second key with the same bytes.
TwicePage == <<w1, w2, w1, ErrorKey>>
SharedContent == (w1 :> h1) @@ (w2 :> h1)

\* The page of w2 has a row of the legacy ETL.
LegacyUrl == (w1 :> {}) @@ (w2 :> {u2})

\* A page of one piece that two calls ask for.
OnePage == <<w1>>
OneContent == w1 :> h1
NoUrls == [k \in Keys |-> {}]
==============================================================================
