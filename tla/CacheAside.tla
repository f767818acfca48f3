----------------------------- MODULE CacheAside -----------------------------
(***************************************************************************)
(* The gallery catalog behind Valkey (internal/cache, api/gallery.go).     *)
(* A writer changes the catalog and then bumps okf:epoch; a reader keys    *)
(* what it caches by the epoch it read first, recomputes a missing or      *)
(* stale page under a short lock, and answers 304 when the browser's ETag  *)
(* names that epoch.  The first failing Valkey operation, whoever runs it, *)
(* turns the client to passthrough until the process restarts; what Valkey *)
(* holds by then stays.  One catalog page stands for all: pages share the  *)
(* epoch and nothing else.  Entries age and locks lapse at any time.       *)
(***************************************************************************)
EXTENDS Naturals, FiniteSets

CONSTANTS
  Readers,     \* browsers, each with one catalog request at a time
  Writers,     \* handlers and runs that change the catalog
  NoReader,
  MaxVersion   \* bound: changes of the catalog

ASSUME CacheAssumption ==
  NoReader \notin Readers /\ IsFiniteSet(Writers) /\ MaxVersion \in Nat

VARIABLES
  version,      \* the catalog in the database, counted in changes
  epoch,        \* okf:epoch
  entry,        \* the cached page under each epoch
  lock,         \* the holder of each page's lock
  passthrough,  \* Client.passthrough
  reader,       \* a request, and the copy its browser keeps with an ETag
  writer,       \* a handler between its write and its bump
  promised,     \* history: the last change whose writer has finished
  floor,        \* history: the last change that each epoch stands for
  lapsed        \* history: readers whose lock expired while they held it

valkey == <<epoch, entry, lock>>
history == <<promised, floor, lapsed>>
cacheVars == <<version, valkey, passthrough, reader, writer, history>>

------------------------------------------------------------------------------
(* State *)

Versions == 0..MaxVersion
Epochs == Versions   \* each change is bumped once at most

Envelope == [val : Versions, age : {"none", "fresh", "stale"}]

ReaderState ==
  [pc : {"idle", "epoch", "get", "lock", "compute", "store", "release", "abandon", "loser",
         "wait", "direct", "answered"},
   epoch : Epochs,     \* what Epoch returned
   val : Versions,     \* the page it computed
   since : Versions,   \* what was promised when the request came
   copy : [epoch : Epochs, val : Versions]]

WriterState == [pc : {"idle", "bump"}, val : Versions]

CacheTypeOK ==
  /\ version \in Versions /\ epoch \in Epochs /\ promised \in Versions
  /\ entry \in [Epochs -> Envelope]
  /\ lock \in [Epochs -> Readers \cup {NoReader}]
  /\ passthrough \in BOOLEAN
  /\ reader \in [Readers -> ReaderState]
  /\ writer \in [Writers -> WriterState]
  /\ floor \in [Epochs -> Versions]
  /\ lapsed \subseteq Readers

NoRequest(copy) == [pc |-> "idle", epoch |-> 0, val |-> 0, since |-> 0, copy |-> copy]

\* Browsers hold the initial catalog; the client starts in passthrough when Valkey
\* does not answer the first ping.
CacheInit ==
  /\ version = 0 /\ epoch = 0 /\ promised = 0
  /\ entry = [e \in Epochs |-> [val |-> 0, age |-> "none"]]
  /\ lock = [e \in Epochs |-> NoReader]
  /\ passthrough \in BOOLEAN
  /\ reader = [r \in Readers |-> NoRequest([epoch |-> 0, val |-> 0])]
  /\ writer = [w \in Writers |-> [pc |-> "idle", val |-> 0]]
  /\ floor = [e \in Epochs |-> 0]
  /\ lapsed = {}

At(r, l) == reader[r].pc = l
GoTo(r, l) == reader' = [reader EXCEPT ![r].pc = l]

\* The request is over: the browser shows the copy it has now, or an error.
Shows(r, copy) ==
  reader' = [reader EXCEPT ![r] = [NoRequest(copy) EXCEPT !.pc = "answered",
                                                          !.since = reader[r].since]]
Quits(r) == reader' = [reader EXCEPT ![r] = NoRequest(@.copy)]

\* 200 with an ETag that names the epoch the request read.
AnswerWith(r, v) == Shows(r, [epoch |-> reader[r].epoch, val |-> v])

\* A Valkey operation fails: the client gives the cache up.
Fails == passthrough' = TRUE

------------------------------------------------------------------------------
(* Writers: the change is committed, then the epoch is bumped *)

Write(w) ==
  /\ writer[w].pc = "idle" /\ version < MaxVersion
  /\ version' = version + 1
  /\ writer' = [writer EXCEPT ![w] = [pc |-> "bump", val |-> version + 1]]
  /\ UNCHANGED <<valkey, passthrough, reader, history>>

Latest(a, b) == IF a > b THEN a ELSE b

Finished(w) ==
  /\ writer' = [writer EXCEPT ![w] = [pc |-> "idle", val |-> 0]]
  /\ promised' = Latest(promised, writer[w].val)

\* INCR: the next epoch stands for this change too.
Incremented(w) ==
  /\ epoch' = epoch + 1
  /\ floor' = [floor EXCEPT ![epoch + 1] = Latest(floor[epoch], writer[w].val)]

\* Slip: a failing INCR is not the cache's failure.
BumpEpoch_KeepsCache(w) ==
  /\ writer[w].pc = "bump"
  /\ \/ passthrough /\ UNCHANGED <<epoch, floor>>
     \/ ~passthrough /\ Incremented(w)
     \/ ~passthrough /\ UNCHANGED <<epoch, floor>>
  /\ Finished(w)
  /\ UNCHANGED <<version, entry, lock, passthrough, reader, lapsed>>

\* Under a failing INCR the change may or may not have been counted.
BumpEpoch(w) ==
  /\ writer[w].pc = "bump"
  /\ \/ passthrough /\ UNCHANGED <<epoch, floor, passthrough>>
     \/ ~passthrough /\ Incremented(w) /\ UNCHANGED passthrough
     \/ ~passthrough /\ (Incremented(w) \/ UNCHANGED <<epoch, floor>>) /\ Fails
  /\ Finished(w)
  /\ UNCHANGED <<version, entry, lock, reader, lapsed>>

------------------------------------------------------------------------------
(* A catalog request *)

Request(r) ==
  /\ At(r, "idle") \/ At(r, "answered")
  /\ reader' = [reader EXCEPT ![r].pc = IF passthrough THEN "direct" ELSE "epoch",
                              ![r].since = promised]
  /\ UNCHANGED <<version, valkey, passthrough, writer, history>>

\* Epoch, and whether the ETag or the cache may be used.
ReadEpoch(r) ==
  /\ At(r, "epoch")
  /\ reader' = [reader EXCEPT ![r].epoch = epoch,
                              ![r].pc = IF passthrough THEN "direct" ELSE "get"]
  /\ UNCHANGED <<version, valkey, passthrough, writer, history>>

\* If-None-Match names the ETag of this epoch: 304, the browser shows its copy.
NotModified(r) ==
  /\ At(r, "epoch") /\ ~passthrough
  /\ reader[r].copy.epoch = epoch
  /\ Shows(r, reader[r].copy)
  /\ UNCHANGED <<version, valkey, passthrough, writer, history>>

\* An Epoch, GET or SET NX that fails: this request, and all later ones, compute.
ReadFails(r) ==
  /\ At(r, "epoch") \/ At(r, "get") \/ At(r, "lock")
  /\ Fails
  /\ GoTo(r, "direct")
  /\ UNCHANGED <<version, valkey, writer, history>>

HitFresh(r) ==
  /\ At(r, "get") \/ At(r, "wait")
  /\ entry[reader[r].epoch].age = "fresh"
  /\ AnswerWith(r, entry[reader[r].epoch].val)
  /\ UNCHANGED <<version, valkey, passthrough, writer, history>>

Miss(r) ==
  /\ At(r, "get")
  /\ entry[reader[r].epoch].age # "fresh"
  /\ GoTo(r, "lock")
  /\ UNCHANGED <<version, valkey, passthrough, writer, history>>

TakeLock(r) ==
  /\ At(r, "lock")
  /\ LET e == reader[r].epoch
     IN IF lock[e] = NoReader
        THEN /\ lock' = [lock EXCEPT ![e] = r]
             /\ lapsed' = lapsed \ {r}
             /\ GoTo(r, "compute")
        ELSE GoTo(r, "loser") /\ UNCHANGED <<lock, lapsed>>
  /\ UNCHANGED <<version, epoch, entry, passthrough, writer, promised, floor>>

Compute(r) ==
  /\ At(r, "compute")
  /\ reader' = [reader EXCEPT ![r].pc = "store", ![r].val = version]
  /\ UNCHANGED <<version, valkey, passthrough, writer, history>>

\* The query fails: 500, after the deferred release.
ComputeFails(r) ==
  /\ At(r, "compute")
  /\ GoTo(r, "abandon")
  /\ UNCHANGED <<version, valkey, passthrough, writer, history>>

\* The page is stored under the epoch it was asked with, lock or no lock.
Store(r) ==
  /\ At(r, "store")
  /\ \/ /\ entry' = [entry EXCEPT ![reader[r].epoch] =
                        [val |-> reader[r].val, age |-> "fresh"]]
        /\ UNCHANGED passthrough
     \/ Fails /\ UNCHANGED entry
  /\ GoTo(r, "release")
  /\ UNCHANGED <<version, epoch, lock, writer, history>>

Mine(r) == lock[reader[r].epoch] = r

Respond(r) == IF At(r, "release") THEN AnswerWith(r, reader[r].val) ELSE Quits(r)

\* Slip: whatever lock there is goes.
Release_AnyLock(r) ==
  /\ At(r, "release") \/ At(r, "abandon")
  /\ \/ lock' = [lock EXCEPT ![reader[r].epoch] = NoReader]
     \/ UNCHANGED lock
  /\ Respond(r)
  /\ UNCHANGED <<version, epoch, entry, passthrough, writer, history>>

\* The script deletes the lock if it still holds this request's token; that it may
\* fail is ignored.
Release(r) ==
  /\ At(r, "release") \/ At(r, "abandon")
  /\ \/ Mine(r) /\ lock' = [lock EXCEPT ![reader[r].epoch] = NoReader]
     \/ UNCHANGED lock
  /\ Respond(r)
  /\ UNCHANGED <<version, epoch, entry, passthrough, writer, history>>

\* Somebody else computes: a page of any age will do ...
ServeStale(r) ==
  /\ At(r, "loser")
  /\ entry[reader[r].epoch].age # "none"
  /\ AnswerWith(r, entry[reader[r].epoch].val)
  /\ UNCHANGED <<version, valkey, passthrough, writer, history>>

\* ... or the request polls (a GET that fails here is only a miss) ...
StartWait(r) ==
  /\ At(r, "loser")
  /\ GoTo(r, "wait")
  /\ UNCHANGED <<version, valkey, passthrough, writer, history>>

\* ... for two seconds, and then computes for itself.
Deadline(r) ==
  /\ At(r, "wait")
  /\ GoTo(r, "direct")
  /\ UNCHANGED <<version, valkey, passthrough, writer, history>>

Direct(r) ==
  /\ At(r, "direct")
  /\ AnswerWith(r, version) \/ Quits(r)
  /\ UNCHANGED <<version, valkey, passthrough, writer, history>>

ReaderStep(r) ==
  \/ ReadEpoch(r) \/ NotModified(r) \/ ReadFails(r) \/ HitFresh(r) \/ Miss(r)
  \/ TakeLock(r) \/ Compute(r) \/ ComputeFails(r) \/ Store(r) \/ Release(r)
  \/ ServeStale(r) \/ StartWait(r) \/ Deadline(r) \/ Direct(r)

------------------------------------------------------------------------------
(* Time, and the rest of the process *)

\* A page's fresh time, and then its stale window, run out.
Age(e) ==
  /\ entry[e].age # "none"
  /\ entry' = [entry EXCEPT ![e] = IF @.age = "fresh" THEN [@ EXCEPT !.age = "stale"]
                                   ELSE [val |-> 0, age |-> "none"]]
  /\ UNCHANGED <<version, epoch, lock, passthrough, reader, writer, history>>

Winner(r, e) ==
  reader[r].epoch = e /\ reader[r].pc \in {"compute", "store", "release", "abandon"}

\* Five seconds are over, whatever the holder does.
LockLapses(e) ==
  /\ lock[e] # NoReader
  /\ lock' = [lock EXCEPT ![e] = NoReader]
  /\ lapsed' = IF Winner(lock[e], e) THEN lapsed \cup {lock[e]} ELSE lapsed
  /\ UNCHANGED <<version, epoch, entry, passthrough, reader, writer, promised, floor>>

\* Another operation (the seen-set, a thumbnail, a lock of another page) fails.
OtherFails ==
  /\ ~passthrough /\ Fails
  /\ UNCHANGED <<version, valkey, reader, writer, history>>

\* The process ends and starts again: Valkey and the browsers keep what they have.
\* A change whose bump was skipped or lost is promised by nobody from here on.
Restart ==
  /\ passthrough' \in BOOLEAN
  /\ reader' = [r \in Readers |-> NoRequest(reader[r].copy)]
  /\ writer' = [w \in Writers |-> [pc |-> "idle", val |-> 0]]
  /\ promised' = floor[epoch]
  /\ lapsed' = {}
  /\ UNCHANGED <<version, valkey, floor>>

CacheNext ==
  \/ \E w \in Writers : Write(w) \/ BumpEpoch(w)
  \/ \E r \in Readers : Request(r) \/ ReaderStep(r)
  \/ \E e \in Epochs : Age(e) \/ LockLapses(e)
  \/ OtherFails \/ Restart

CacheSpec == CacheInit /\ [][CacheNext]_cacheVars

------------------------------------------------------------------------------
(* Properties *)

\* What a browser is shown, by a 200 or a 304, holds every change whose writer had
\* finished when the request came: no epoch, lock, age or failure of Valkey brings an
\* older page back.  A restart forgives the changes whose bump never reached Valkey.
AnswersAreCurrent ==
  \A r \in Readers : At(r, "answered") => reader[r].copy.val >= reader[r].since

\* Two requests compute one page at once only if a lock expired under one of them:
\* a late release never frees the lock of another request.
SingleFlight ==
  \A e \in Epochs, r, s \in Readers :
    Winner(r, e) /\ Winner(s, e) /\ r # s => r \in lapsed \/ s \in lapsed

==============================================================================
