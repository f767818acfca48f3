---------------------------- MODULE OfflineCache ----------------------------
(***************************************************************************)
(* What the service worker keeps for the time without a network            *)
(* (dashboard/vite.config.ts), and the mutators of the API client that     *)
(* drop it (dashboard/src/api.ts).  Answers are read from the network and  *)
(* stored, or taken from the store when the network fails; images are      *)
(* answered from the store and fetched beside that.  A mutator deletes the *)
(* stores before it returns.  The value of a resource is the number of     *)
(* changes it has seen.                                                    *)
(***************************************************************************)
EXTENDS Integers

CONSTANTS MaxGets, MaxWrites   \* bounds: requests in a behaviour

ASSUME OfflineAssumption == MaxGets \in Nat /\ MaxWrites \in Nat

Stores == {"answers", "images"}
Gets == 1..MaxGets
Writes == 1..MaxWrites
Missing == -1

VARIABLES
  version,   \* the server's value of each kind of resource
  store,     \* the stored value; late: its deletion failed, or it was out during one
  get,       \* the requests for a value
  write,     \* the mutators that run; made: the change each made
  known      \* history: the last change of which a mutator of this client returned

offlineVars == <<version, store, get, write, known>>

NoEntry == [value |-> Missing, late |-> FALSE]
NoGet == [at |-> "none", of |-> "answers", saw |-> Missing, late |-> FALSE]
NoWrite == [at |-> "none", images |-> FALSE, made |-> [s \in Stores |-> 0]]

OfflineTypeOK ==
  /\ version \in [Stores -> 0..MaxWrites] /\ known \in [Stores -> 0..MaxWrites]
  /\ store \in [Stores -> [value : Missing..MaxWrites, late : BOOLEAN]]
  /\ get \in [Gets -> [at : {"none", "sent", "read", "done"}, of : Stores,
                       saw : Missing..MaxWrites, late : BOOLEAN]]
  /\ write \in [Writes -> [at : {"none", "sent", "served", "refused", "cleared", "done"},
                           images : BOOLEAN, made : [Stores -> 0..MaxWrites]]]

\* What a change touches: images only when pieces come, go or change.
TouchedBy(w) == IF write[w].images THEN Stores ELSE {"answers"}

\* Slip: the default argument of clearOfflineCaches is used by every mutator.
StoresCleared_Default(w) == {"answers"}

\* The stores the mutator names when it calls clearOfflineCaches.
StoresCleared(w) == IF write[w].images THEN Stores ELSE {"answers"}

------------------------------------------------------------------------------
(* The service worker *)

GetSent(g, s) ==
  /\ get[g].at = "none" /\ \A k \in Gets : k < g => get[k].at # "none"
  /\ get' = [get EXCEPT ![g].at = "sent", ![g].of = s]
  /\ UNCHANGED <<version, store, write, known>>

\* A GET handler reads the value.
GetServed(g) ==
  /\ get[g].at = "sent"
  /\ get' = [get EXCEPT ![g].at = "read", ![g].saw = version[get[g].of]]
  /\ UNCHANGED <<version, store, write, known>>

\* NetworkFirst, and the revalidation of StaleWhileRevalidate: a good answer is stored.
GetStored(g) ==
  /\ get[g].at = "read"
  /\ store' = [store EXCEPT ![get[g].of] = [value |-> get[g].saw, late |-> get[g].late]]
  /\ get' = [get EXCEPT ![g] = [NoGet EXCEPT !.at = "done"]]
  /\ UNCHANGED <<version, write, known>>

\* The network fails, or the answer is not a good one: the store is left as it is, and is
\* what the page gets.
GetFails(g) ==
  /\ get[g].at \in {"sent", "read"}
  /\ get' = [get EXCEPT ![g] = [NoGet EXCEPT !.at = "done"]]
  /\ UNCHANGED <<version, store, write, known>>

\* Entries expire, and the oldest make room.
EntryExpires(s) ==
  /\ store[s] # NoEntry /\ store' = [store EXCEPT ![s] = NoEntry]
  /\ UNCHANGED <<version, get, write, known>>

------------------------------------------------------------------------------
(* The mutators *)

WriteSent(w, images) ==
  /\ write[w].at = "none" /\ \A k \in Writes : k < w => write[k].at # "none"
  /\ write' = [write EXCEPT ![w].at = "sent", ![w].images = images]
  /\ UNCHANGED <<version, store, get, known>>

\* A handler makes the change, or refuses it.
WriteServed(w) ==
  /\ write[w].at = "sent"
  /\ version' = [s \in Stores |-> version[s] + (IF s \in TouchedBy(w) THEN 1 ELSE 0)]
  /\ write' = [write EXCEPT ![w].at = "served", ![w].made = version']
  /\ UNCHANGED <<store, get, known>>

WriteRefused(w) ==
  /\ write[w].at = "sent" /\ write' = [write EXCEPT ![w].at = "refused"]
  /\ UNCHANGED <<version, store, get, known>>

\* clearOfflineCaches, after a good answer.  A deletion that fails is passed over in silence,
\* and a request answered by now will be stored later.
ClearOfflineCaches(w, kept) ==
  /\ write[w].at = "served" /\ kept \subseteq StoresCleared(w)
  /\ store' = [s \in Stores |->
       IF s \in kept /\ store[s] # NoEntry THEN [store[s] EXCEPT !.late = TRUE]
       ELSE IF s \in StoresCleared(w) THEN NoEntry ELSE store[s]]
  /\ get' = [g \in Gets |->
       IF get[g].at = "read" /\ get[g].of \in StoresCleared(w)
       THEN [get[g] EXCEPT !.late = TRUE] ELSE get[g]]
  /\ write' = [write EXCEPT ![w].at = "cleared"]
  /\ UNCHANGED <<version, known>>

WriteReturns(w) ==
  /\ write[w].at = "cleared"
  /\ known' = [s \in Stores |->
       IF s \in TouchedBy(w) /\ known[s] < write[w].made[s] THEN write[w].made[s] ELSE known[s]]
  /\ write' = [write EXCEPT ![w] = [NoWrite EXCEPT !.at = "done"]]
  /\ UNCHANGED <<version, store, get>>

\* The mutator throws before it clears anything: it was refused, or the answer was lost.
WriteThrows(w) ==
  /\ write[w].at \in {"sent", "served", "refused"}
  /\ write' = [write EXCEPT ![w] = [NoWrite EXCEPT !.at = "done"]]
  /\ UNCHANGED <<version, store, get, known>>

------------------------------------------------------------------------------
OfflineInit ==
  /\ version = [s \in Stores |-> 0] /\ known = [s \in Stores |-> 0]
  /\ store = [s \in Stores |-> NoEntry]
  /\ get = [g \in Gets |-> NoGet] /\ write = [w \in Writes |-> NoWrite]

OfflineNext ==
  \/ \E g \in Gets, s \in Stores : GetSent(g, s)
  \/ \E g \in Gets : GetServed(g) \/ GetStored(g) \/ GetFails(g)
  \/ \E s \in Stores : EntryExpires(s)
  \/ \E w \in Writes, images \in BOOLEAN : WriteSent(w, images)
  \/ \E w \in Writes : WriteServed(w) \/ WriteRefused(w) \/ WriteReturns(w) \/ WriteThrows(w)
  \/ \E w \in Writes, kept \in SUBSET Stores : ClearOfflineCaches(w, kept)

OfflineSpec == OfflineInit /\ [][OfflineNext]_offlineVars

------------------------------------------------------------------------------
\* Once a mutator has returned, no value from before its change is answered without a
\* network: what is stored is at least as new as every change this client knows it made, but
\* for an entry whose deletion failed and an answer that was on its way during the deletion.
OfflineAnswersAreFresh ==
  \A s \in Stores : store[s] # NoEntry /\ ~store[s].late => store[s].value >= known[s]

=============================================================================
