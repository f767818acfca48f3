------------------------------- MODULE Ledger --------------------------------
(***************************************************************************)
(* What ingestion promises about a feed, without saying how: items become  *)
(* accounted for and stay so, and a provider's durable position moves      *)
(* forward only over items that are accounted for.  Ingest implements it.  *)
(***************************************************************************)
EXTENDS Naturals, Sequences

CONSTANTS Sources,   \* providers whose cursor is a position in a feed
          Items,     \* everything a feed may contain
          Feeds      \* the feed of each source

VARIABLES accounted, passed

ledgerVars == <<accounted, passed>>

LedgerInit ==
  /\ accounted \subseteq Items
  /\ passed = [p \in Sources |-> 0]

\* More items are in the catalog: with their own row, or as known bytes.
Account ==
  /\ accounted \subseteq accounted'
  /\ accounted' \subseteq Items
  /\ UNCHANGED passed

\* The durable cursor moves over items that are all accounted for.
Pass ==
  /\ \E p \in Sources : \E n \in passed[p]..Len(Feeds[p]) :
       /\ \A m \in (passed[p] + 1)..n : Feeds[p][m] \in accounted
       /\ passed' = [passed EXCEPT ![p] = n]
  /\ UNCHANGED accounted

LedgerNext == Account \/ Pass

LedgerSpec == LedgerInit /\ [][LedgerNext]_ledgerVars

==============================================================================
