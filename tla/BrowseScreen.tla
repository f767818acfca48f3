---------------------------- MODULE BrowseScreen ----------------------------
(***************************************************************************)
(* The gallery (folio/Gallery.tsx) over the provider's catalog query       *)
(* (folio/context.tsx), with the search field of the bar (folio/Nav.tsx).  *)
(* The typed text reaches the query 250 ms after the last key, the other   *)
(* filters at once.  Every combination has its own cached pages; a page is *)
(* read at the offset of what is loaded, so a piece that arrives between   *)
(* two pages moves the rest.  A refetch reads as many pages as there were, *)
(* and loading another page gives it up.                                   *)
(***************************************************************************)
EXTENDS Integers, Sequences, SequencesExt, FiniteSetsExt

CONSTANTS
  Arrivals,     \* pieces that may still arrive, each once
  AtFirst,      \* the server's catalog to begin with, newest first
  TextHits,     \* the pieces the search text finds
  FilterHits,   \* the pieces that the filters leave
  Skins,        \* [mode, mobile]: the gallery's modes and viewports
  PageSize,
  MaxFetches    \* bound: keys fetched at a time

ASSUME BrowseAssumption ==
  /\ AtFirst \in Seq(Range(AtFirst)) /\ IsInjective(AtFirst)
  /\ Arrivals \cap Range(AtFirst) = {}
  /\ Skins \subseteq [mode : {"magazine", "library", "wall"}, mobile : BOOLEAN]
  /\ PageSize \in Nat \ {0} /\ MaxFetches \in Nat \ {0}

BrowsePieces == Arrivals \cup Range(AtFirst)
Keys == [text : BOOLEAN, filter : BOOLEAN]

VARIABLES
  catalog,      \* the server's pieces, newest first
  search,       \* the text: typed, debounced, and the timer
  filter,       \* favoriteOnly, artist, category: any of them
  gallerySkin,  \* the mode, and the viewport
  pages,        \* the cached pages of each key, the total their last one gave, how many
                \* they are and how old the first is
  pageFetch     \* the fetch of each key: the pages read so far, and how many it wants

browseVars == <<catalog, search, filter, gallerySkin, pages, pageFetch>>

NoPages == [at |-> "none", list |-> <<>>, total |-> 0, count |-> 0, since |-> 0]
NoPageFetch == [at |-> "idle", got |-> NoPages, wants |-> 0]

BrowseTypeOK ==
  /\ catalog \in Seq(BrowsePieces)
  /\ search \in [typed : BOOLEAN, debounced : BOOLEAN, timer : BOOLEAN]
  /\ filter \in BOOLEAN
  /\ gallerySkin \in Skins
  /\ \A k \in Keys : pages[k].at \in {"none", "ready"} /\ pages[k].list \in Seq(BrowsePieces)
  /\ \A k \in Keys : pageFetch[k].at \in {"idle", "all", "next"}

\* The pieces that pass the filters of a key.
Matches(k) == {p \in BrowsePieces : (k.text => p \in TextHits) /\ (k.filter => p \in FilterHits)}

\* What the server finds: the pieces that match, in its order.
Found(k) ==
  LET found[i \in 0..Len(catalog)] ==
        IF i = 0 THEN <<>>
        ELSE IF catalog[i] \in Matches(k) THEN Append(found[i - 1], catalog[i]) ELSE found[i - 1]
  IN found[Len(catalog)]

------------------------------------------------------------------------------
(* What is shown *)

\* Slip: the cache key lacks a filter.
CatalogKey_NoFilter(text, flt) == [text |-> text, filter |-> FALSE]

\* The query key of the catalog.
CatalogKey(text, flt) == [text |-> text, filter |-> flt]

Key == CatalogKey(search.debounced, filter)

\* The filters the request of a key carries: those of the render that asked for it.
Asked == [text |-> search.debounced, filter |-> filter]

\* Magazine, library and the mobile views show all that is loaded.
MagazineShows(list) == list
LibraryShows(list) == list
MobileWallShows(list) == list

\* The wall shows eight pieces, and has no sentinel on desktop.
WallShows(list) == SubSeq(list, 1, IF Len(list) < 8 THEN Len(list) ELSE 8)

ListShown(list) ==
  IF gallerySkin.mobile THEN MobileWallShows(list)
  ELSE CASE gallerySkin.mode = "magazine" -> MagazineShows(list)
         [] gallerySkin.mode = "library" -> LibraryShows(list)
         [] OTHER -> WallShows(list)

ShownPieces == ListShown(pages[Key].list)

\* getNextPageParam, of the last page's total.
HasMore(pg) == pg.at = "ready" /\ Len(pg.list) < pg.total

SentinelOffers ==
  IF (gallerySkin.mode # "wall" \/ gallerySkin.mobile) /\ HasMore(pages[Key]) THEN {"more"} ELSE {}

\* Desktop has the filter bar, mobile the sheet behind the view button and the chips.
FilterBarOffers == {"narrow", "clear"}
FilterSheetOffers == {"narrow", "clear", "reset", "mode"}
ChipOffers == (IF search.typed THEN {"reset"} ELSE {}) \cup (IF filter THEN {"clear"} ELSE {})

\* An empty mobile gallery with filters offers to clear them all.
EmptyStateOffers ==
  IF gallerySkin.mobile /\ pages[Key].at = "ready" /\ ShownPieces = <<>> /\ (search.typed \/ filter)
  THEN {"reset"} ELSE {}

ModeTabsOffers == {"mode"}
SearchFieldOffers == {"type"}

BrowseOffers ==
  SentinelOffers \cup SearchFieldOffers
    \cup (IF gallerySkin.mobile THEN FilterSheetOffers \cup ChipOffers \cup EmptyStateOffers
          ELSE FilterBarOffers \cup ModeTabsOffers)

------------------------------------------------------------------------------
(* Filters *)

\* Typing restarts the timer; clearing the field is typing, too.
Type ==
  /\ "type" \in BrowseOffers
  /\ \E t \in BOOLEAN : search' = [search EXCEPT !.typed = t, !.timer = TRUE]
  /\ UNCHANGED <<catalog, filter, gallerySkin, pages, pageFetch>>

\* What a render with this key does: a key without pages is fetched, and old ones are
\* fetched again when the key is shown anew.
Renders(k) ==
  IF pageFetch[k].at # "idle" THEN UNCHANGED pageFetch
  ELSE /\ Quantify(Keys, LAMBDA f : pageFetch[f].at # "idle") < MaxFetches
       /\ pageFetch' = [pageFetch EXCEPT ![k] = [NoPageFetch EXCEPT !.at = "all",
                          !.wants = IF pages[k].at = "ready" THEN pages[k].count ELSE 1]]

Debounced ==
  /\ search.timer /\ search' = [search EXCEPT !.debounced = search.typed, !.timer = FALSE]
  /\ IF search.typed = search.debounced THEN UNCHANGED pageFetch
     ELSE Renders(CatalogKey(search.typed, filter))
  /\ UNCHANGED <<catalog, filter, gallerySkin, pages>>

\* The favorites button, an artist, a medium, or their removal.
SetFilter ==
  /\ {"narrow", "clear"} \cap BrowseOffers # {} /\ filter' = ~filter
  /\ Renders(CatalogKey(search.debounced, ~filter))
  /\ UNCHANGED <<catalog, search, gallerySkin, pages>>

ResetFilters ==
  /\ "reset" \in BrowseOffers /\ filter' = FALSE
  /\ search' = [search EXCEPT !.typed = FALSE, !.timer = TRUE]
  /\ IF filter THEN Renders(CatalogKey(search.debounced, FALSE)) ELSE UNCHANGED pageFetch
  /\ UNCHANGED <<catalog, gallerySkin, pages>>

SetMode ==
  /\ "mode" \in BrowseOffers
  /\ gallerySkin' \in {s \in Skins : s.mobile = gallerySkin.mobile}
  /\ UNCHANGED <<catalog, search, filter, pages, pageFetch>>

------------------------------------------------------------------------------
(* Pages *)

\* loadMore, when the sentinel is in view: a page on its way is waited for, a refetch is
\* given up for the page.
LoadMore ==
  /\ "more" \in BrowseOffers /\ pageFetch[Key].at # "next"
  /\ Quantify(Keys \ {Key}, LAMBDA f : pageFetch[f].at # "idle") < MaxFetches
  /\ pageFetch' = [pageFetch EXCEPT ![Key] =
                     [at |-> "next", got |-> pages[Key], wants |-> pages[Key].count + 1]]
  /\ UNCHANGED <<catalog, search, filter, gallerySkin, pages>>

NextOffset(got) == Len(got.list)

\* The pages so far, with the one that the server gives at the offset.
WithPage(k, got) ==
  LET found == Found(k)
      from == NextOffset(got)
      upto == IF from + PageSize < Len(found) THEN from + PageSize ELSE Len(found)
  IN [at |-> "ready", list |-> got.list \o SubSeq(found, from + 1, upto),
      total |-> Len(found), count |-> got.count + 1,
      since |-> IF got.count = 0 THEN Len(catalog) ELSE got.since]

\* One page is answered; a fetch is over when it has what it wants or all there is.
PageAnswered(k) ==
  /\ pageFetch[k].at # "idle"
  /\ LET got == WithPage(IF k = Key THEN Asked ELSE k, pageFetch[k].got)
     IN IF got.count >= pageFetch[k].wants \/ ~HasMore(got)
        THEN /\ pages' = [pages EXCEPT ![k] = got]
             /\ pageFetch' = [pageFetch EXCEPT ![k] = NoPageFetch]
        ELSE pageFetch' = [pageFetch EXCEPT ![k].got = got] /\ UNCHANGED pages
  /\ UNCHANGED <<catalog, search, filter, gallerySkin>>

\* A request fails: what was loaded stays, and the error is shown if that is nothing.
PageFails(k) ==
  /\ pageFetch[k].at # "idle" /\ pageFetch' = [pageFetch EXCEPT ![k] = NoPageFetch]
  /\ UNCHANGED <<catalog, search, filter, gallerySkin, pages>>

\* An ingest keeps a piece (RecordDownloadOrDuplicate): it comes first in the catalog's order.
PieceArrives ==
  /\ \E p \in Arrivals \ Range(catalog) : catalog' = <<p>> \o catalog
  /\ UNCHANGED <<search, filter, gallerySkin, pages, pageFetch>>

\* An import, an edit, or the window's focus.
Refetch ==
  /\ pageFetch[Key].at = "idle" /\ Renders(Key)
  /\ UNCHANGED <<catalog, search, filter, gallerySkin, pages>>

------------------------------------------------------------------------------
BrowseInit ==
  /\ catalog = AtFirst
  /\ search = [typed |-> FALSE, debounced |-> FALSE, timer |-> FALSE] /\ filter = FALSE
  /\ gallerySkin \in Skins
  /\ pages = [k \in Keys |-> NoPages]
  /\ pageFetch = [k \in Keys |-> IF k = Key THEN [NoPageFetch EXCEPT !.at = "all", !.wants = 1]
                                 ELSE NoPageFetch]

BrowseNext ==
  \/ Type \/ Debounced \/ SetFilter \/ ResetFilters \/ SetMode
  \/ LoadMore \/ PieceArrives \/ Refetch
  \/ \E k \in Keys : PageAnswered(k) \/ PageFails(k)

BrowseSpec == BrowseInit /\ [][BrowseNext]_browseVars

------------------------------------------------------------------------------
(* Properties *)

\* The pages loaded for what is typed and chosen, once nothing more is to load and unless a
\* piece came since the first was read, hold exactly the matching pieces in the server's
\* order, however filters, pages, refetches and failures were interleaved.  (What a mode
\* renders of them, and in which order, is ListShown.)
SettledGalleryIsWhole ==
  LET pg == pages[Key]
  IN ~search.timer /\ pg.at = "ready" /\ ~HasMore(pg) /\ pg.since = Len(catalog)
       => pg.list = Found([text |-> search.typed, filter |-> filter])

=============================================================================
