------------------------------ MODULE MCIngest -------------------------------
(* Small instances of Ingest. *)
EXTENDS Ingest, TLC

CONSTANTS t1, t2, w1, tg, web, h1, h2, u1

\* One Telegram chat: a message forwarded again, another key with its bytes.
UpdatesKind == tg :> "updates"
UpdatesFeed == tg :> <<t1, ErrorKey, t2, t1>>

\* A gallery and a chat that publish the same bytes.
MixedKind == (tg :> "updates") @@ (web :> "single")
MixedFeed == (tg :> <<t1>>) @@ (web :> <<w1>>)

SharedContent == (t1 :> h1) @@ (t2 :> h1)
MixedContent == (t1 :> h1) @@ (w1 :> h1)

\* No row of the legacy ETL.
NoUrls == [k \in Keys |-> {}]

\* The ETL brought a row of the gallery page that w1 is on.
LegacyPage == (t1 :> {}) @@ (w1 :> {u1})
==============================================================================
