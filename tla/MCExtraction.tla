---------------------------- MODULE MCExtraction -----------------------------
(* A gallery of linked pages that the scheduler runs, of which one piece has  *)
(* the bytes of a page scraped through the API.                               *)
EXTENDS Extraction, TLC

CONSTANTS g1, g2, w1, web, h1, h2

LinksKind == web :> "links"
GalleryFeed == web :> <<g1, g2>>
GalleryContent == (g1 :> h2) @@ (g2 :> h1) @@ (w1 :> h1)
OnePage == <<w1>>

\* No row of the legacy ETL.
NoUrls == [k \in Keys |-> {}]
==============================================================================
