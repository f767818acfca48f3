---------------------------- MODULE InboxScreen ----------------------------
(***************************************************************************)
(* The Inbox (folio/Inbox.tsx) with the provider's keep, skip and move     *)
(* actions (folio/context.tsx).  On mobile a dismissed item is hidden at   *)
(* once and skipped 3.4 s later, unless Undo comes first; leaving the      *)
(* screen sends what still waits.  The rows keep, skip and move with       *)
(* requests of their own and have no busy state, so an item can have       *)
(* several requests out: the server resolves it once and refuses the rest. *)
(***************************************************************************)
EXTENDS Naturals, FiniteSets

CONSTANTS
  Items,
  NoItem,
  MaxResolves   \* bound: requests in a behaviour

ASSUME InboxScreenAssumption == NoItem \notin Items /\ MaxResolves \in Nat

Resolves == 1..MaxResolves

VARIABLES
  waiting,      \* the items the server still holds as duplicate or ambiguous
  inboxListed,  \* the pages of the inbox query
  inboxAsked,   \* a refetch of it is under way
  inboxView,    \* mounted, and the viewport
  hidden,       \* dismissed
  undoItem,     \* the item of the Undo toast
  dismissTimer, \* dismissTimers and pendingDismisses: the dismissals not sent yet
  resolve,      \* the requests; of this screen: its continuation still finds the screen mounted
  takenBack     \* history: items whose dismissal was undone before it was sent

inboxVars ==
  <<waiting, inboxListed, inboxAsked, inboxView, hidden, undoItem, dismissTimer, resolve, takenBack>>

NoResolve == [at |-> "none", of |-> NoItem, kind |-> "none", here |-> FALSE]

InboxTypeOK ==
  /\ waiting \subseteq Items /\ inboxListed \subseteq Items
  /\ inboxAsked \in BOOLEAN
  /\ inboxView \in [mounted : BOOLEAN, mobile : BOOLEAN]
  /\ hidden \subseteq Items /\ undoItem \in Items \cup {NoItem}
  /\ dismissTimer \subseteq Items
  /\ resolve \in [Resolves -> [at : {"none", "sent", "served", "failed", "done"},
                               of : Items \cup {NoItem},
                               kind : {"none", "dismiss", "keep", "skip", "move"}, here : BOOLEAN]]
  /\ takenBack \subseteq Items

Out(i) == {r \in Resolves : resolve[r].of = i /\ resolve[r].at \in {"sent", "served", "failed"}}
Free(r) == resolve[r].at = "none" /\ \A k \in Resolves : k < r => resolve[k].at # "none"

Sent(r, i, kind, here) ==
  [resolve EXCEPT ![r] = [at |-> "sent", of |-> i, kind |-> kind, here |-> here]]

------------------------------------------------------------------------------
(* What is rendered *)

\* visibleItems: the desktop list does not leave out what was dismissed on mobile.
VisibleItems == inboxListed \ hidden

MobileRowOffers == {"dismiss", "keep", "move"}
DesktopRowOffers == {"keep", "move", "skip"}

Rows ==
  IF ~inboxView.mounted THEN {}
  ELSE IF inboxView.mobile THEN VisibleItems \X MobileRowOffers
  ELSE inboxListed \X DesktopRowOffers

UndoOffered == inboxView.mounted /\ inboxView.mobile /\ undoItem # NoItem

------------------------------------------------------------------------------
(* Dismissing with undo *)

\* dismissWithUndo: the toast of an item replaces that of the one before.
DismissWithUndo(i) ==
  /\ <<i, "dismiss">> \in Rows
  /\ dismissTimer' = dismissTimer \cup {i} /\ hidden' = hidden \cup {i}
  /\ undoItem' = i /\ takenBack' = takenBack \ {i}
  /\ UNCHANGED <<waiting, inboxListed, inboxAsked, inboxView, resolve>>

\* The timer: commitDismiss with restoreOnError.
CommitDismiss(r) ==
  /\ Free(r)
  /\ \E i \in dismissTimer :
       dismissTimer' = dismissTimer \ {i} /\ resolve' = Sent(r, i, "dismiss", TRUE)
  /\ UNCHANGED <<waiting, inboxListed, inboxAsked, inboxView, hidden, undoItem, takenBack>>

\* Slip: the item comes back and its timer goes on.
UndoDismiss_TimerKept ==
  /\ UndoOffered
  /\ hidden' = hidden \ {undoItem} /\ undoItem' = NoItem
  /\ takenBack' = IF Out(undoItem) = {} THEN takenBack \cup {undoItem} ELSE takenBack
  /\ UNCHANGED <<waiting, inboxListed, inboxAsked, inboxView, dismissTimer, resolve>>

\* undoDismiss: the toast is still offered while the request is out, when the item comes
\* back and is skipped all the same.
UndoDismiss ==
  /\ UndoOffered
  /\ dismissTimer' = dismissTimer \ {undoItem}
  /\ hidden' = hidden \ {undoItem} /\ undoItem' = NoItem
  /\ takenBack' = IF Out(undoItem) = {} THEN takenBack \cup {undoItem} ELSE takenBack
  /\ UNCHANGED <<waiting, inboxListed, inboxAsked, inboxView, resolve>>

\* The cleanup of the unmount: timers are cleared and what waits is sent, one request for
\* each item; the continuations of this screen's requests find it gone.
LeaveInbox ==
  /\ inboxView.mounted
  /\ LET free == {r \in Resolves : resolve[r].at = "none"}
     IN /\ Cardinality(dismissTimer) <= Cardinality(free)
        /\ \E of \in [free -> dismissTimer \cup {NoItem}] :
             /\ \A i \in dismissTimer : Cardinality({r \in free : of[r] = i}) = 1
             /\ \A r, k \in free : r < k /\ of[r] = NoItem => of[k] = NoItem
             /\ resolve' = [r \in Resolves |->
                  IF r \in free /\ of[r] # NoItem
                  THEN [at |-> "sent", of |-> of[r], kind |-> "dismiss", here |-> FALSE]
                  ELSE [resolve[r] EXCEPT !.here = FALSE]]
  /\ inboxView' = [inboxView EXCEPT !.mounted = FALSE]
  /\ dismissTimer' = {} /\ hidden' = {} /\ undoItem' = NoItem
  /\ UNCHANGED <<waiting, inboxListed, inboxAsked, takenBack>>

\* The screen mounts with what the cache holds, and may refetch it.
EnterInbox ==
  /\ ~inboxView.mounted /\ inboxView' = [inboxView EXCEPT !.mounted = TRUE]
  /\ \E stale \in BOOLEAN : inboxAsked' = (inboxAsked \/ stale)
  /\ UNCHANGED <<waiting, inboxListed, hidden, undoItem, dismissTimer, resolve, takenBack>>

Rotate ==
  /\ inboxView' = [inboxView EXCEPT !.mobile = ~@]
  /\ UNCHANGED <<waiting, inboxListed, inboxAsked, hidden, undoItem, dismissTimer, resolve, takenBack>>

\* setStatus: another tab is another query.
ChangeTab ==
  /\ inboxView.mounted /\ ~inboxView.mobile
  /\ inboxListed' \in SUBSET inboxListed /\ inboxAsked' = TRUE
  /\ UNCHANGED <<waiting, inboxView, hidden, undoItem, dismissTimer, resolve, takenBack>>

------------------------------------------------------------------------------
(* Keep, skip, move, and the answers *)

\* resolveInboxAction and moveInboxToFolioAction: no row is disabled while they run.
RowAction(r, i, kind) ==
  /\ <<i, kind>> \in Rows /\ kind # "dismiss" /\ Free(r)
  /\ resolve' = Sent(r, i, kind, FALSE)
  /\ takenBack' = takenBack \ {i}
  /\ UNCHANGED <<waiting, inboxListed, inboxAsked, inboxView, hidden, undoItem, dismissTimer>>

\* POST inbox/{id}/keep, skip and move: the server resolves an item that
\* still waits; the answer may be lost.
ResolveServed(r) ==
  /\ resolve[r].at = "sent"
  /\ \/ /\ resolve[r].of \in waiting /\ waiting' = waiting \ {resolve[r].of}
        /\ \E at \in {"served", "failed"} : resolve' = [resolve EXCEPT ![r].at = at]
     \/ resolve' = [resolve EXCEPT ![r].at = "failed"] /\ UNCHANGED waiting
  /\ UNCHANGED <<inboxListed, inboxAsked, inboxView, hidden, undoItem, dismissTimer, takenBack>>

\* Slip: a failed dismissal leaves the item hidden.
Restored_Not(r) == hidden

\* The catch clause of commitDismiss.
Restored(r) ==
  IF resolve[r].kind = "dismiss" /\ resolve[r].here THEN hidden \ {resolve[r].of} ELSE hidden

\* The finally clause: the toast of this item is over, also that of a later dismissal.
UndoOver(r) ==
  undoItem' = IF resolve[r].kind = "dismiss" /\ resolve[r].here /\ undoItem = resolve[r].of
              THEN NoItem ELSE undoItem

ResolveAnswered(r) ==
  /\ resolve[r].at \in {"served", "failed"}
  /\ IF resolve[r].at = "served"
     THEN inboxAsked' = TRUE /\ UNCHANGED hidden
     ELSE hidden' = Restored(r) /\ UNCHANGED inboxAsked
  /\ UndoOver(r)
  /\ resolve' = [resolve EXCEPT ![r] = [NoResolve EXCEPT !.at = "done"]]
  /\ UNCHANGED <<waiting, inboxListed, inboxView, dismissTimer, takenBack>>

\* The query answers with the items that wait by then.
InboxRefetched ==
  /\ inboxAsked /\ inboxAsked' = FALSE
  /\ inboxListed' = waiting
  /\ UNCHANGED <<waiting, inboxView, hidden, undoItem, dismissTimer, resolve, takenBack>>

------------------------------------------------------------------------------
InboxInit ==
  /\ waiting = Items /\ inboxListed = Items /\ inboxAsked = FALSE
  /\ inboxView \in [mounted : {TRUE}, mobile : BOOLEAN]
  /\ hidden = {} /\ undoItem = NoItem /\ dismissTimer = {}
  /\ resolve = [r \in Resolves |-> NoResolve]
  /\ takenBack = {}

InboxNext ==
  \/ \E i \in Items : DismissWithUndo(i)
  \/ \E r \in Resolves :
       \/ CommitDismiss(r) \/ ResolveServed(r) \/ ResolveAnswered(r)
       \/ \E i \in Items, kind \in {"keep", "move", "skip"} : RowAction(r, i, kind)
  \/ UndoDismiss \/ LeaveInbox \/ EnterInbox \/ Rotate \/ ChangeTab
  \/ InboxRefetched

InboxSpec == InboxInit /\ [][InboxNext]_inboxVars

------------------------------------------------------------------------------
(* Properties *)

\* A dismissal that was undone in time is not carried out later: neither a timer nor a
\* request of it is left, whatever other items were dismissed in between.
UndoHolds ==
  \A i \in takenBack : i \notin dismissTimer /\ \A r \in Out(i) : resolve[r].kind # "dismiss"

\* An item that is hidden and still waits on the server is on its way: its timer runs or a
\* request for it is out.  No item is lost from the list without being resolved.
HiddenIsOnItsWay ==
  \A i \in hidden \cap waiting : i \in dismissTimer \/ Out(i) # {}

=============================================================================
