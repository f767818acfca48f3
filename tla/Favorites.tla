------------------------------ MODULE Favorites ------------------------------
(***************************************************************************)
(* Hearts.  The provider (folio/context.tsx, toggleFav) turns a heart at   *)
(* once with an override that never expires, sends one request per piece   *)
(* at a time, turns the heart back when it fails, and refetches the        *)
(* catalog.  The detail page (pages/PieceDetail.tsx) changes favorites by  *)
(* a mutation of its own, which refetches its own queries and not the      *)
(* provider's.  A lost answer is a request that was served and fails.      *)
(***************************************************************************)
EXTENDS Naturals, FiniteSets

CONSTANTS
  FavPieces,
  MaxClicks   \* bound: clicks on hearts

ASSUME FavoritesAssumption == MaxClicks \in Nat

VARIABLES
  favStored,    \* what the server holds
  favCached,    \* what the provider's catalog query holds
  favOverride,  \* favOverride: "none", or the value it shows
  favRequest,   \* the request in flight for each piece (inFlight)
  favFetch,     \* the catalog's refetch, with what it read
  detail,       \* the detail page of each piece: its copy and its mutation
  clicks,
  astray        \* history: pieces whose heart was clicked during a request, whose answer
                \* was lost, or that the detail page changed

favVars == <<favStored, favCached, favOverride, favRequest, favFetch, detail, clicks, astray>>

Override == {"none", "on", "off"}
AsOverride(b) == IF b THEN "on" ELSE "off"

FavoritesTypeOK ==
  /\ favStored \in [FavPieces -> BOOLEAN] /\ favCached \in [FavPieces -> BOOLEAN]
  /\ favOverride \in [FavPieces -> Override]
  /\ favRequest \in [FavPieces -> [at : {"none", "sent", "served", "failed"}, next : BOOLEAN]]
  /\ favFetch \in [at : {"idle", "asked", "read"}, saw : [FavPieces -> BOOLEAN]]
  /\ detail \in [FavPieces -> [copy : BOOLEAN, pending : BOOLEAN]]
  /\ clicks \in 0..MaxClicks
  /\ astray \subseteq FavPieces

IsFav(p) == IF favOverride[p] # "none" THEN favOverride[p] = "on" ELSE favCached[p]

NotRead(at) == [at |-> at, saw |-> [p \in FavPieces |-> FALSE]]

InvalidateCatalog == favFetch' = NotRead("asked")

------------------------------------------------------------------------------
(* The provider *)

\* toggleFav: the heart turns; a request in flight keeps a second one from being sent.
ToggleFav(p) ==
  /\ clicks < MaxClicks /\ clicks' = clicks + 1
  /\ favOverride' = [favOverride EXCEPT ![p] = AsOverride(~IsFav(p))]
  /\ IF favRequest[p].at = "none"
     THEN /\ favRequest' = [favRequest EXCEPT ![p] = [at |-> "sent", next |-> ~IsFav(p)]]
          /\ UNCHANGED astray
     ELSE astray' = astray \cup {p} /\ UNCHANGED favRequest
  /\ UNCHANGED <<favStored, favCached, favFetch, detail>>

\* POST and DELETE photos/{id}/favorite: served, or not; a served one may fail on its way
\* back.
FavoriteServed(p) ==
  /\ favRequest[p].at = "sent"
  /\ \E ok \in BOOLEAN, served \in BOOLEAN :
       /\ ok => served
       /\ favRequest' = [favRequest EXCEPT ![p].at = IF ok THEN "served" ELSE "failed"]
       /\ favStored' = [favStored EXCEPT ![p] = IF served THEN favRequest[p].next ELSE @]
       /\ astray' = IF served /\ ~ok THEN astray \cup {p} ELSE astray
  /\ UNCHANGED <<favCached, favOverride, favFetch, detail, clicks>>

\* Slip: a failure drops nothing and turns nothing back.
HeartAfterFailure_Kept(p) == favOverride[p]

\* The catch clause of toggleFav.
HeartAfterFailure(p) == AsOverride(~favRequest[p].next)

FavoriteAnswered(p) ==
  /\ favRequest[p].at \in {"served", "failed"}
  /\ favOverride' = [favOverride EXCEPT ![p] =
                       IF favRequest[p].at = "failed" THEN HeartAfterFailure(p) ELSE @]
  /\ favRequest' = [favRequest EXCEPT ![p] = [at |-> "none", next |-> FALSE]]
  /\ InvalidateCatalog
  /\ UNCHANGED <<favStored, favCached, detail, clicks, astray>>

\* GET gallery/catalog reads the rows at one moment.
CatalogRead ==
  /\ favFetch.at = "asked" /\ favFetch' = [at |-> "read", saw |-> favStored]
  /\ UNCHANGED <<favStored, favCached, favOverride, favRequest, detail, clicks, astray>>

CatalogShown ==
  /\ favFetch.at = "read" /\ favFetch' = NotRead("idle")
  /\ favCached' = favFetch.saw
  /\ UNCHANGED <<favStored, favOverride, favRequest, detail, clicks, astray>>

------------------------------------------------------------------------------
(* The detail page *)

\* The button is disabled while the mutation is pending and sends the other value of the
\* copy on the page.
DetailClick(p) ==
  /\ clicks < MaxClicks /\ clicks' = clicks + 1
  /\ ~detail[p].pending /\ detail' = [detail EXCEPT ![p].pending = TRUE]
  /\ UNCHANGED <<favStored, favCached, favOverride, favRequest, favFetch, astray>>

\* onSuccess refetches the page's copy and leaves the provider's catalog as it is.
DetailAnswered(p) ==
  /\ detail[p].pending
  /\ \/ /\ favStored' = [favStored EXCEPT ![p] = ~detail[p].copy]
        /\ detail' = [detail EXCEPT ![p] = [copy |-> ~@.copy, pending |-> FALSE]]
        /\ astray' = astray \cup {p}
     \/ detail' = [detail EXCEPT ![p].pending = FALSE] /\ UNCHANGED <<favStored, astray>>
  /\ UNCHANGED <<favCached, favOverride, favRequest, favFetch, clicks>>

\* The page is opened: its query reads the piece.
DetailOpens(p) ==
  /\ ~detail[p].pending /\ detail' = [detail EXCEPT ![p].copy = favStored[p]]
  /\ UNCHANGED <<favStored, favCached, favOverride, favRequest, favFetch, clicks, astray>>

------------------------------------------------------------------------------
FavoritesInit ==
  /\ favStored \in [FavPieces -> BOOLEAN] /\ favCached = favStored
  /\ favOverride = [p \in FavPieces |-> "none"]
  /\ favRequest = [p \in FavPieces |-> [at |-> "none", next |-> FALSE]]
  /\ favFetch = NotRead("idle")
  /\ detail = [p \in FavPieces |-> [copy |-> favStored[p], pending |-> FALSE]]
  /\ clicks = 0 /\ astray = {}

FavoritesNext ==
  \/ \E p \in FavPieces :
       \/ ToggleFav(p) \/ FavoriteServed(p) \/ FavoriteAnswered(p)
       \/ DetailClick(p) \/ DetailAnswered(p) \/ DetailOpens(p)
  \/ CatalogRead \/ CatalogShown

FavoritesSpec == FavoritesInit /\ [][FavoritesNext]_favVars

------------------------------------------------------------------------------
(* Properties *)

\* A heart that was clicked one request at a time shows what the server holds once the
\* answer is in, whatever mix of served and failed requests and refetches came before: the
\* override outlives every refetch, so a heart left wrong would stay wrong.
SettledHeartIsStored ==
  \A p \in FavPieces \ astray :
    favRequest[p].at = "none" => IsFav(p) = favStored[p]

=============================================================================
