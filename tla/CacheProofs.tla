----------------------------- MODULE CacheProofs -----------------------------
(***************************************************************************)
(* Readers never see the catalog move back, for any number of browsers,    *)
(* handlers and changes.  The argument: an epoch stands for the changes    *)
(* bumped up to it (floor); whatever is computed after the epoch was read  *)
(* shows at least those, so it may be stored, served and revalidated under *)
(* that epoch; and while the cache is in use, all that was promised has    *)
(* been bumped.                                                            *)
(* Nor do two requests compute one page at once: LockInv ties the label of *)
(* a request to the lock in Valkey, unless the lock lapsed under it.       *)
(***************************************************************************)
EXTENDS CacheAside, FiniteSetTheorems, TLAPS

Pending == {w \in Writers : writer[w].pc = "bump"}

\* Each change is counted once at most.
CountInv == epoch + Cardinality(Pending) <= version

\* What an epoch, a page and a finished writer stand for.
FloorInv ==
  /\ ~passthrough => promised <= floor[epoch]
  /\ promised <= version
  /\ \A e \in Epochs : floor[e] <= version
  /\ \A w \in Writers : writer[w].val <= version
  /\ \A e \in Epochs : entry[e].age # "none" => e <= epoch /\ floor[e] <= entry[e].val

\* What a request and a browser's copy stand for.
Keyed == {"get", "lock", "compute", "store", "release", "abandon", "loser", "wait"}

ReaderInv(r) ==
  /\ reader[r].since <= version
  /\ reader[r].epoch <= epoch
  /\ At(r, "epoch") => reader[r].since <= floor[epoch]
  /\ reader[r].pc \in Keyed => reader[r].since <= floor[reader[r].epoch]
  /\ reader[r].pc \in {"store", "release"} => floor[reader[r].epoch] <= reader[r].val
  /\ reader[r].copy.epoch <= epoch
  /\ floor[reader[r].copy.epoch] <= reader[r].copy.val
  /\ At(r, "answered") => reader[r].since <= reader[r].copy.val

CurrentInv == FloorInv /\ \A r \in Readers : ReaderInv(r)

CacheInv == CacheTypeOK /\ CountInv /\ CurrentInv

------------------------------------------------------------------------------

LEMMA InitCache == CacheInit => CacheInv
<1> SUFFICES ASSUME CacheInit PROVE CacheInv
  OBVIOUS
<1> USE CacheAssumption
<1>1. CacheTypeOK
  BY DEF CacheInit, CacheTypeOK, Versions, Epochs, Envelope, ReaderState, WriterState,
         NoRequest
<1>2. CountInv
  <2>1. Pending = {}
    BY DEF CacheInit, Pending
  <2> QED BY <2>1, FS_EmptySet DEF CacheInit, CountInv
<1>3. CurrentInv
  BY DEF CacheInit, CurrentInv, FloorInv, ReaderInv, Keyed, At, NoRequest, Epochs, Versions
<1> QED BY <1>1, <1>2, <1>3 DEF CacheInv

------------------------------------------------------------------------------
(* Types, and the count of the bumps *)

LEMMA PendingFinite == CacheTypeOK => IsFiniteSet(Pending) /\ Cardinality(Pending) \in Nat
BY CacheAssumption, FS_Subset, FS_CardinalityType DEF Pending

LEMMA CountStep ==
  ASSUME CacheTypeOK, CountInv, [CacheNext]_cacheVars
  PROVE  CountInv' /\ epoch' \in Epochs
<1> USE CacheAssumption DEF CacheTypeOK
<1>1. IsFiniteSet(Pending) /\ Cardinality(Pending) \in Nat
  BY PendingFinite
<1>2. ASSUME NEW w \in Writers, Write(w) PROVE CountInv' /\ epoch' \in Epochs
  <2>1. Pending' = Pending \cup {w}
    BY <1>2 DEF Write, Pending, WriterState
  <2>2. Cardinality(Pending') = Cardinality(Pending) + 1
    BY <1>1, <1>2, <2>1, FS_AddElement DEF Pending, Write
  <2> QED BY <1>1, <1>2, <2>2 DEF Write, CountInv, valkey, Epochs, Versions
<1>3. ASSUME NEW w \in Writers, BumpEpoch(w) PROVE CountInv' /\ epoch' \in Epochs
  <2>1. Pending' = Pending \ {w} /\ w \in Pending
    BY <1>3 DEF BumpEpoch, Finished, Pending, WriterState
  <2>2. Cardinality(Pending') = Cardinality(Pending) - 1
    BY <1>1, <2>1, FS_RemoveElement
  <2>3. epoch' \in {epoch, epoch + 1} /\ version' = version
    BY <1>3 DEF BumpEpoch, Incremented
  <2>4. Cardinality(Pending) # 0
    BY <1>1, <2>1, FS_EmptySet
  <2>5. ASSUME NEW a \in Nat, NEW b \in Nat, NEW n \in Nat, NEW a1, NEW n1,
               n # 0, n1 = n - 1, a1 \in {a, a + 1}, a + n <= b
        PROVE  a1 + n1 <= b /\ n1 \in Nat /\ a1 \in 0..b
    BY <2>5
  <2>6. epoch \in Nat /\ version \in Nat /\ epoch + Cardinality(Pending) <= version
    BY DEF CountInv, Epochs, Versions
  <2>7. epoch' + Cardinality(Pending') <= version /\ epoch' \in 0..version
    BY <1>1, <2>2, <2>3, <2>4, <2>5, <2>6
  <2>8. epoch' \in Epochs
    BY <2>7 DEF Epochs, Versions
  <2> QED BY <2>3, <2>7, <2>8 DEF CountInv
<1>4. ASSUME UNCHANGED <<writer, epoch, version>> PROVE CountInv' /\ epoch' \in Epochs
  BY <1>4 DEF CountInv, Pending
<1>5. ASSUME NEW r \in Readers, Request(r) \/ ReaderStep(r)
      PROVE  UNCHANGED <<writer, epoch, version>>
  BY <1>5 DEF Request, ReaderStep, ReadEpoch, NotModified, ReadFails, HitFresh, Miss,
              TakeLock, Compute, ComputeFails, Store, Release, ServeStale, StartWait,
              Deadline, Direct, valkey
<1>6. ASSUME NEW e \in Epochs, Age(e) \/ LockLapses(e)
      PROVE  UNCHANGED <<writer, epoch, version>>
  BY <1>6 DEF Age, LockLapses
<1>7. CASE Restart
  <2>1. Pending' = {}
    BY <1>7 DEF Restart, Pending
  <2> QED BY <1>1, <1>7, <2>1, FS_EmptySet DEF Restart, CountInv, valkey, Epochs, Versions
<1>8. CASE OtherFails \/ UNCHANGED cacheVars
  BY <1>4, <1>8 DEF OtherFails, cacheVars, valkey
<1> QED BY <1>2, <1>3, <1>4, <1>5, <1>6, <1>7, <1>8 DEF CacheNext

LEMMA ReaderTyped ==
  ASSUME CacheTypeOK, CurrentInv, NEW r \in Readers, Request(r) \/ ReaderStep(r)
  PROVE  reader' \in [Readers -> ReaderState]
<1> USE CacheAssumption DEF CacheTypeOK
<1>1. ASSUME NEW c \in [epoch : Epochs, val : Versions], NEW s \in Versions
      PROVE  /\ NoRequest(c) \in ReaderState
             /\ [NoRequest(c) EXCEPT !.pc = "answered", !.since = s] \in ReaderState
  <2>1. 0 \in Versions
    BY DEF Versions
  <2> QED BY <2>1 DEF NoRequest, ReaderState, Epochs
<1>2. reader[r] \in ReaderState
  OBVIOUS
<1>3. ASSUME NEW c \in [epoch : Epochs, val : Versions], Shows(r, c)
      PROVE  reader' \in [Readers -> ReaderState]
  <2>1. reader[r].since \in Versions
    BY <1>2 DEF ReaderState
  <2> QED BY <1>1, <1>3, <2>1 DEF Shows
<1>4. ASSUME NEW v \in Versions, AnswerWith(r, v) PROVE reader' \in [Readers -> ReaderState]
  <2>1. [epoch |-> reader[r].epoch, val |-> v] \in [epoch : Epochs, val : Versions]
    BY <1>2 DEF ReaderState
  <2> QED BY <1>3, <1>4, <2>1 DEF AnswerWith
<1>5. Quits(r) => reader' \in [Readers -> ReaderState]
  <2>1. reader[r].copy \in [epoch : Epochs, val : Versions]
    BY <1>2 DEF ReaderState
  <2>2. NoRequest(reader[r].copy) \in ReaderState
    <3>1. 0 \in Versions
      BY DEF Versions
    <3> QED BY <2>1, <3>1 DEF NoRequest, ReaderState, Epochs
  <2> QED BY <2>2 DEF Quits
<1>6. ASSUME NEW l \in Keyed \cup {"direct"}, GoTo(r, l)
      PROVE  reader' \in [Readers -> ReaderState]
  BY <1>2, <1>6 DEF GoTo, ReaderState, Keyed
<1>7. CASE Request(r)
  BY <1>2, <1>7 DEF Request, ReaderState
<1>8. CASE ReadEpoch(r)
  BY <1>2, <1>8 DEF ReadEpoch, ReaderState
<1>9. CASE NotModified(r)
  BY <1>2, <1>3, <1>9 DEF NotModified, ReaderState
<1>10. CASE ReadFails(r) \/ Miss(r) \/ ComputeFails(r) \/ Store(r) \/ StartWait(r)
            \/ Deadline(r)
  BY <1>6, <1>10 DEF ReadFails, Miss, ComputeFails, Store, StartWait, Deadline, Keyed
<1>11. CASE HitFresh(r) \/ ServeStale(r)
  <2>1. entry[reader[r].epoch].val \in Versions
    BY <1>2 DEF ReaderState, Envelope
  <2> QED BY <1>4, <1>11, <2>1 DEF HitFresh, ServeStale
<1>12. CASE TakeLock(r)
  BY <1>6, <1>12 DEF TakeLock, Keyed
<1>13. CASE Compute(r)
  BY <1>2, <1>13 DEF Compute, ReaderState
<1>14. CASE Release(r)
  <2>1. reader[r].val \in Versions
    BY <1>2 DEF ReaderState
  <2> QED BY <1>4, <1>5, <1>14, <2>1 DEF Release, Respond
<1>15. CASE Direct(r)
  BY <1>4, <1>5, <1>15 DEF Direct
<1> QED BY <1>7, <1>8, <1>9, <1>10, <1>11, <1>12, <1>13, <1>14, <1>15 DEF ReaderStep

LEMMA CacheTypeStep ==
  ASSUME CacheInv, [CacheNext]_cacheVars
  PROVE  CacheTypeOK'
<1> USE CacheAssumption DEF CacheTypeOK, CacheInv
<1>1. epoch' \in Epochs
  BY CountStep
<1>2. ASSUME NEW w \in Writers, Write(w) PROVE CacheTypeOK'
  <2>1. version + 1 \in Versions
    BY <1>2 DEF Write, Versions
  <2> QED BY <1>2, <2>1 DEF Write, valkey, history, WriterState
<1>3. ASSUME NEW w \in Writers, BumpEpoch(w) PROVE CacheTypeOK'
  <2>1. writer[w].val \in Versions
    BY DEF WriterState
  <2>2. \A a, b \in Versions : Latest(a, b) \in Versions
    BY DEF Latest
  <2>3. floor' \in [Epochs -> Versions]
    BY <1>3, <2>1, <2>2 DEF BumpEpoch, Incremented
  <2>4. writer' \in [Writers -> WriterState] /\ promised' \in Versions
    BY <1>3, <2>1, <2>2 DEF BumpEpoch, Finished, WriterState, Versions
  <2> QED BY <1>1, <1>3, <2>3, <2>4 DEF BumpEpoch, Fails
<1>4. ASSUME NEW r \in Readers, Request(r) \/ ReaderStep(r) PROVE CacheTypeOK'
  <2>1. reader' \in [Readers -> ReaderState]
    BY <1>4, ReaderTyped
  <2>2. UNCHANGED <<version, epoch, writer, promised, floor>>
    BY <1>4 DEF Request, ReaderStep, ReadEpoch, NotModified, ReadFails, HitFresh, Miss,
                TakeLock, Compute, ComputeFails, Store, Release, ServeStale, StartWait,
                Deadline, Direct, valkey, history
  <2>3. entry' \in [Epochs -> Envelope]
    <3>1. CASE Store(r)
      <4>1. [val |-> reader[r].val, age |-> "fresh"] \in Envelope
        BY DEF ReaderState, Envelope
      <4> QED BY <3>1, <4>1 DEF Store
    <3>2. CASE ~Store(r)
      BY <1>4, <3>2 DEF Request, ReaderStep, ReadEpoch, NotModified, ReadFails, HitFresh,
                        Miss, TakeLock, Compute, ComputeFails, Release, ServeStale,
                        StartWait, Deadline, Direct, valkey
    <3> QED BY <3>1, <3>2
  <2>4. lock' \in [Epochs -> Readers \cup {NoReader}] /\ lapsed' \subseteq Readers
    BY <1>4 DEF Request, ReaderStep, ReadEpoch, NotModified, ReadFails, HitFresh, Miss,
                TakeLock, Compute, ComputeFails, Store, Release, ServeStale, StartWait,
                Deadline, Direct, valkey, history
  <2>5. passthrough' \in BOOLEAN
    BY <1>4 DEF Request, ReaderStep, ReadEpoch, NotModified, ReadFails, HitFresh, Miss,
                TakeLock, Compute, ComputeFails, Store, Release, ServeStale, StartWait,
                Deadline, Direct, Fails
  <2> QED BY <2>1, <2>2, <2>3, <2>4, <2>5
<1>5. ASSUME NEW e \in Epochs, Age(e) \/ LockLapses(e) PROVE CacheTypeOK'
  <2>1. entry' \in [Epochs -> Envelope]
    <3>1. \A n \in Envelope : [n EXCEPT !.age = "stale"] \in Envelope
      BY DEF Envelope
    <3>2. [val |-> 0, age |-> "none"] \in Envelope
      BY DEF Envelope, Versions
    <3> QED BY <1>5, <3>1, <3>2 DEF Age, LockLapses
  <2>2. lock' \in [Epochs -> Readers \cup {NoReader}] /\ lapsed' \subseteq Readers
    BY <1>5 DEF Age, LockLapses, history
  <2> QED BY <1>5, <2>1, <2>2 DEF Age, LockLapses, history
<1>6. CASE Restart
  <2>1. \A r \in Readers : NoRequest(reader[r].copy) \in ReaderState
    BY DEF NoRequest, ReaderState, Epochs, Versions
  <2>2. [pc |-> "idle", val |-> 0] \in WriterState
    BY DEF WriterState, Versions
  <2> QED BY <1>6, <2>1, <2>2 DEF Restart, valkey
<1>7. CASE OtherFails \/ UNCHANGED cacheVars
  BY <1>7 DEF OtherFails, cacheVars, valkey, history, Fails
<1> QED BY <1>2, <1>3, <1>4, <1>5, <1>6, <1>7 DEF CacheNext

------------------------------------------------------------------------------
(* Currency *)

LEMMA ReaderFields ==
  ASSUME CacheTypeOK, NEW r \in Readers
  PROVE  /\ reader[r] \in ReaderState
         /\ reader[r].epoch \in Epochs /\ reader[r].epoch \in Nat
         /\ reader[r].since \in Versions /\ reader[r].since \in Nat
         /\ reader[r].val \in Versions /\ reader[r].val \in Nat
         /\ reader[r].copy \in [epoch : Epochs, val : Versions]
         /\ reader[r].copy.epoch \in Epochs /\ reader[r].copy.epoch \in Nat
         /\ reader[r].copy.val \in Versions /\ reader[r].copy.val \in Nat
<1>1. \A v \in Versions : v \in Nat
  BY CacheAssumption DEF Versions
<1>2. reader[r] \in ReaderState
  BY DEF CacheTypeOK
<1>3. /\ reader[r].epoch \in Epochs /\ reader[r].since \in Versions
      /\ reader[r].val \in Versions /\ reader[r].copy \in [epoch : Epochs, val : Versions]
  BY <1>2 DEF ReaderState
<1>4. reader[r].copy.epoch \in Epochs /\ reader[r].copy.val \in Versions
  BY <1>3
<1> QED BY <1>1, <1>2, <1>3, <1>4 DEF Epochs

LEMMA WriterStepCurrent ==
  ASSUME CacheInv, NEW w \in Writers, Write(w) \/ BumpEpoch(w)
  PROVE  CurrentInv'
<1> USE CacheAssumption DEF CacheInv, CacheTypeOK
<1>1. /\ epoch \in Nat /\ version \in Nat /\ promised \in Nat /\ writer[w].val \in Nat
      /\ \A e \in Epochs : floor[e] \in Nat
      /\ epoch' \in Epochs
  <2>1. epoch' \in Epochs
    BY CountStep DEF CacheNext
  <2>2. writer[w].val \in Versions
    BY DEF WriterState
  <2>3. \A v \in Versions : v \in Nat
    BY DEF Versions
  <2> QED BY <2>1, <2>2, <2>3 DEF Epochs
<1>2. \A r \in Readers : /\ reader[r].epoch \in Epochs /\ reader[r].since \in Nat
                         /\ reader[r].val \in Nat /\ reader[r].copy.epoch \in Epochs
                         /\ reader[r].copy.val \in Nat /\ reader[r].epoch \in Nat
                         /\ reader[r].copy.epoch \in Nat
  BY ReaderFields
<1>3. CASE Write(w)
  <2>1. /\ UNCHANGED <<epoch, entry, passthrough, reader, promised, floor>>
        /\ version' = version + 1
        /\ \A v \in Writers : writer'[v].val \in {writer[v].val, version + 1}
    BY <1>3 DEF Write, valkey, history
  <2>2. FloorInv'
    <3>1. \A v \in Writers : writer[v].val \in Nat
      BY DEF WriterState, Versions
    <3> QED BY <1>1, <2>1, <3>1 DEF CurrentInv, FloorInv
  <2>3. ASSUME NEW r \in Readers PROVE ReaderInv(r)'
    <3>1. ReaderInv(r)
      BY DEF CurrentInv
    <3> QED BY <1>1, <1>2, <2>1, <3>1 DEF ReaderInv, At
  <2> QED BY <2>2, <2>3 DEF CurrentInv
<1>4. CASE BumpEpoch(w)
  <2>1. /\ UNCHANGED <<version, entry, lock, reader>>
        /\ \A v \in Writers : writer'[v].val = writer[v].val \/ writer'[v].val = 0
        /\ promised' = Latest(promised, writer[w].val)
        /\ epoch <= epoch'
        /\ \A e \in Epochs : e <= epoch => floor'[e] = floor[e]
    BY <1>1, <1>4 DEF BumpEpoch, Finished, Incremented
  <2>9. epoch' \in Nat /\ \A e \in Epochs : e \in Nat
    BY <1>1 DEF Epochs, Versions
  <2>2. /\ writer[w].val <= version
        /\ promised <= version
        /\ \A e \in Epochs : floor[e] <= version
        /\ \A v \in Writers : writer[v].val <= version
        /\ \A e \in Epochs : entry[e].age # "none" => e <= epoch /\ floor[e] <= entry[e].val
    BY DEF CurrentInv, FloorInv
  <2>3. /\ \A e \in Epochs : floor'[e] <= version
        /\ floor[epoch] <= floor'[epoch']
    BY <1>1, <1>4, <2>2 DEF BumpEpoch, Incremented, Latest
  <2>4. ~passthrough' => promised' <= floor'[epoch']
    <3>1. ASSUME ~passthrough' PROVE ~passthrough /\ Incremented(w)
      BY <1>4, <3>1 DEF BumpEpoch, Fails
    <3>2. ~passthrough => promised <= floor[epoch]
      BY DEF CurrentInv, FloorInv
    <3> QED BY <1>1, <2>1, <3>1, <3>2 DEF Incremented, Latest
  <2>5. FloorInv'
    <3>1. promised' <= version
      BY <1>1, <2>1, <2>2 DEF Latest
    <3>2. \A v \in Writers : writer'[v].val <= version
      BY <1>1, <2>1, <2>2
    <3>3. \A e \in Epochs : entry[e].age # "none" => e <= epoch' /\ floor'[e] <= entry[e].val
      <4> SUFFICES ASSUME NEW e \in Epochs, entry[e].age # "none"
                   PROVE  e <= epoch' /\ floor'[e] <= entry[e].val
        OBVIOUS
      <4>1. e <= epoch /\ floor[e] <= entry[e].val
        BY <2>2
      <4>2. floor'[e] = floor[e]
        BY <2>1, <4>1
      <4>3. e <= epoch'
        BY <1>1, <2>1, <2>9, <4>1
      <4> QED BY <4>1, <4>2, <4>3
    <3> QED BY <2>1, <2>3, <2>4, <3>1, <3>2, <3>3 DEF FloorInv
  <2>6. ASSUME NEW r \in Readers PROVE ReaderInv(r)'
    <3>1. ReaderInv(r)
      BY DEF CurrentInv
    <3>2. reader[r].epoch <= epoch' /\ reader[r].copy.epoch <= epoch'
      BY <1>1, <1>2, <2>1, <2>9, <3>1 DEF ReaderInv
    <3>3. floor'[reader[r].epoch] = floor[reader[r].epoch]
      BY <1>2, <2>1, <3>1 DEF ReaderInv
    <3>4. floor'[reader[r].copy.epoch] = floor[reader[r].copy.epoch]
      BY <1>2, <2>1, <3>1 DEF ReaderInv
    <3>5. At(r, "epoch") => reader[r].since <= floor'[epoch']
      <4>1. floor'[epoch'] \in Nat /\ floor[epoch] \in Nat
        BY <1>1, <1>4 DEF BumpEpoch, Incremented, Latest
      <4> QED BY <1>2, <2>3, <3>1, <4>1 DEF ReaderInv
    <3> QED BY <2>1, <3>1, <3>2, <3>3, <3>4, <3>5 DEF ReaderInv, At
  <2> QED BY <2>5, <2>6 DEF CurrentInv
<1> QED BY <1>3, <1>4

LEMMA ReaderStepCurrent ==
  ASSUME CacheInv, NEW r \in Readers, Request(r) \/ ReaderStep(r)
  PROVE  CurrentInv'
<1> USE CacheAssumption DEF CacheInv, CacheTypeOK
<1>1. UNCHANGED <<version, epoch, writer, promised, floor>>
  BY DEF Request, ReaderStep, ReadEpoch, NotModified, ReadFails, HitFresh, Miss,
         TakeLock, Compute, ComputeFails, Store, Release, ServeStale, StartWait,
         Deadline, Direct, valkey, history
<1>2. /\ epoch \in Nat /\ version \in Nat /\ promised \in Nat
      /\ \A e \in Epochs : floor[e] \in Nat
  BY DEF Epochs, Versions
<1>3. /\ reader[r].epoch \in Epochs /\ reader[r].since \in Nat
      /\ reader[r].val \in Nat /\ reader[r].copy.epoch \in Epochs
      /\ reader[r].copy.val \in Nat /\ reader[r] \in ReaderState
      /\ reader[r].epoch \in Nat /\ reader[r].copy.epoch \in Nat
      /\ reader[r].val \in Versions
  BY ReaderFields
<1>4. ReaderInv(r) /\ FloorInv
  BY DEF CurrentInv
<1>5. \A q \in Readers \ {r} : reader'[q] = reader[q]
  BY DEF Request, ReaderStep, ReadEpoch, NotModified, ReadFails, HitFresh, Miss,
         TakeLock, Compute, ComputeFails, Store, Release, ServeStale, StartWait,
         Deadline, Direct, Shows, AnswerWith, Respond, Quits, GoTo
<1>6. \A q \in Readers \ {r} : ReaderInv(q)'
  BY <1>1, <1>5 DEF CurrentInv, ReaderInv, At
<1>7. FloorInv'
  <2>1. passthrough => passthrough'
    BY DEF Request, ReaderStep, ReadEpoch, NotModified, ReadFails, HitFresh, Miss,
           TakeLock, Compute, ComputeFails, Store, Release, ServeStale, StartWait,
           Deadline, Direct, Fails
  <2>2. CASE Store(r)
    <3>1. reader[r].epoch <= epoch /\ floor[reader[r].epoch] <= reader[r].val
      BY <1>4, <2>2 DEF Store, ReaderInv, At
    <3>2. \A e \in Epochs : entry'[e].age # "none" => e <= epoch /\ floor[e] <= entry'[e].val
      BY <1>4, <2>2, <3>1 DEF Store, FloorInv
    <3> QED BY <1>1, <1>4, <2>1, <3>2 DEF FloorInv
  <2>3. CASE ~Store(r)
    <3>1. UNCHANGED entry
      BY <2>3 DEF Request, ReaderStep, ReadEpoch, NotModified, ReadFails, HitFresh,
                  Miss, TakeLock, Compute, ComputeFails, Release, ServeStale,
                  StartWait, Deadline, Direct, valkey
    <3> QED BY <1>1, <1>4, <2>1, <3>1 DEF FloorInv
  <2> QED BY <2>2, <2>3
\* The shapes of a reader's step.
<1>10. ASSUME NEW l \in Keyed \cup {"direct"}, GoTo(r, l),
              reader[r].pc \in Keyed \/ l = "direct",
              l \notin {"store", "release"}
       PROVE  ReaderInv(r)'
  <2>1. reader'[r] = [reader[r] EXCEPT !.pc = l]
    BY <1>10 DEF GoTo
  <2>2. /\ reader'[r].pc = l /\ reader'[r].since = reader[r].since
        /\ reader'[r].epoch = reader[r].epoch /\ reader'[r].copy = reader[r].copy
    BY <1>3, <2>1 DEF ReaderState
  <2> QED BY <1>1, <1>4, <1>10, <2>2 DEF ReaderInv, At, Keyed
<1>11. ASSUME NEW c \in [epoch : Epochs, val : Versions], Shows(r, c),
              c.epoch <= epoch, floor[c.epoch] <= c.val, reader[r].since <= c.val
       PROVE  ReaderInv(r)'
  <2>1. /\ reader'[r].pc = "answered" /\ reader'[r].since = reader[r].since
        /\ reader'[r].epoch = 0 /\ reader'[r].copy = c
    BY <1>11 DEF Shows, NoRequest
  <2> QED BY <1>1, <1>2, <1>4, <1>11, <2>1 DEF ReaderInv, At, Keyed
<1>12. ASSUME NEW v \in Versions, AnswerWith(r, v),
              floor[reader[r].epoch] <= v, reader[r].since <= v
       PROVE  ReaderInv(r)'
  <2>1. [epoch |-> reader[r].epoch, val |-> v] \in [epoch : Epochs, val : Versions]
    BY <1>3
  <2> QED BY <1>4, <1>11, <1>12, <2>1 DEF AnswerWith, ReaderInv
<1>13. Quits(r) => ReaderInv(r)'
  <2>1. Quits(r) => /\ reader'[r].pc = "idle" /\ reader'[r].since = 0
                    /\ reader'[r].epoch = 0 /\ reader'[r].copy = reader[r].copy
    BY DEF Quits, NoRequest
  <2> QED BY <1>1, <1>2, <1>4, <2>1 DEF ReaderInv, At, Keyed
<1>20. ASSUME Request(r) PROVE ReaderInv(r)'
  <2>1. /\ reader'[r].pc = IF passthrough THEN "direct" ELSE "epoch"
        /\ reader'[r].since = promised /\ reader'[r].epoch = reader[r].epoch
        /\ reader'[r].copy = reader[r].copy
    BY <1>3, <1>20 DEF Request, ReaderState
  <2> QED BY <1>1, <1>2, <1>4, <2>1 DEF ReaderInv, FloorInv, At, Keyed
<1>21. ASSUME ReadEpoch(r) PROVE ReaderInv(r)'
  <2>1. /\ reader'[r].pc = IF passthrough THEN "direct" ELSE "get"
        /\ reader'[r].since = reader[r].since /\ reader'[r].epoch = epoch
        /\ reader'[r].copy = reader[r].copy
    BY <1>3, <1>21 DEF ReadEpoch, ReaderState
  <2>2. reader[r].since <= floor[epoch]
    BY <1>4, <1>21 DEF ReadEpoch, ReaderInv
  <2> QED BY <1>1, <1>2, <1>4, <2>1, <2>2 DEF ReaderInv, At, Keyed
<1>22. ASSUME NotModified(r) PROVE ReaderInv(r)'
  <2>1. /\ reader[r].copy.epoch = epoch /\ reader[r].since <= floor[epoch]
        /\ floor[epoch] <= reader[r].copy.val
    BY <1>4, <1>22 DEF NotModified, ReaderInv
  <2>2. reader[r].since <= reader[r].copy.val
    BY <1>2, <1>3, <2>1
  <2>3. reader[r].copy \in [epoch : Epochs, val : Versions]
    BY ReaderFields
  <2> QED BY <1>2, <1>11, <1>22, <2>1, <2>2, <2>3 DEF NotModified
<1>23. ASSUME ReadFails(r) \/ Miss(r) \/ ComputeFails(r) \/ StartWait(r) \/ Deadline(r)
              \/ TakeLock(r)
       PROVE  ReaderInv(r)'
  BY <1>10, <1>23 DEF ReadFails, Miss, ComputeFails, StartWait, Deadline, TakeLock, Keyed, At
<1>24. ASSUME HitFresh(r) \/ ServeStale(r) PROVE ReaderInv(r)'
  <2>1. /\ entry[reader[r].epoch].age # "none"
        /\ reader[r].pc \in Keyed
        /\ AnswerWith(r, entry[reader[r].epoch].val)
    BY <1>24 DEF HitFresh, ServeStale, At, Keyed
  <2>2. /\ floor[reader[r].epoch] <= entry[reader[r].epoch].val
        /\ reader[r].since <= floor[reader[r].epoch]
    BY <1>3, <1>4, <2>1 DEF FloorInv, ReaderInv
  <2>3. entry[reader[r].epoch].val \in Versions
    BY <1>3 DEF Envelope
  <2>4. reader[r].since <= entry[reader[r].epoch].val
    <3>1. entry[reader[r].epoch].val \in Nat /\ floor[reader[r].epoch] \in Nat
      BY <1>2, <1>3, <2>3 DEF Versions
    <3> QED BY <1>3, <2>2, <3>1
  <2> QED BY <1>12, <2>1, <2>2, <2>3, <2>4
<1>25. ASSUME Compute(r) PROVE ReaderInv(r)'
  <2>1. /\ reader'[r].pc = "store" /\ reader'[r].val = version
        /\ reader'[r].since = reader[r].since /\ reader'[r].epoch = reader[r].epoch
        /\ reader'[r].copy = reader[r].copy /\ reader[r].pc = "compute"
    BY <1>3, <1>25 DEF Compute, ReaderState, At
  <2> QED BY <1>1, <1>3, <1>4, <2>1 DEF ReaderInv, FloorInv, At, Keyed
<1>26. ASSUME Store(r) PROVE ReaderInv(r)'
  <2>1. /\ reader'[r].pc = "release" /\ reader'[r].val = reader[r].val
        /\ reader'[r].since = reader[r].since /\ reader'[r].epoch = reader[r].epoch
        /\ reader'[r].copy = reader[r].copy /\ reader[r].pc = "store"
    BY <1>3, <1>26 DEF Store, GoTo, ReaderState, At
  <2> QED BY <1>1, <1>4, <2>1 DEF ReaderInv, At, Keyed
<1>27. ASSUME Release(r) PROVE ReaderInv(r)'
  <2>1. CASE At(r, "release")
    <3>1. /\ floor[reader[r].epoch] <= reader[r].val
          /\ reader[r].since <= floor[reader[r].epoch]
      BY <1>4, <2>1 DEF ReaderInv, Keyed, At
    <3>2. reader[r].since <= reader[r].val /\ reader[r].val \in Versions
      BY <1>2, <1>3, <3>1 DEF ReaderState
    <3> QED BY <1>12, <1>27, <2>1, <3>1, <3>2 DEF Release, Respond
  <2>2. CASE ~At(r, "release")
    BY <1>13, <1>27, <2>2 DEF Release, Respond
  <2> QED BY <2>1, <2>2
<1>28. ASSUME Direct(r) PROVE ReaderInv(r)'
  <2>1. floor[reader[r].epoch] <= version /\ reader[r].since <= version
    BY <1>3, <1>4 DEF FloorInv, ReaderInv
  <2> QED BY <1>12, <1>13, <1>28, <2>1 DEF Direct
<1>30. ReaderInv(r)'
  BY <1>20, <1>21, <1>22, <1>23, <1>24, <1>25, <1>26, <1>27, <1>28 DEF ReaderStep
<1> QED BY <1>6, <1>7, <1>30 DEF CurrentInv

LEMMA RestCurrent ==
  ASSUME CacheInv,
         \/ \E e \in Epochs : Age(e) \/ LockLapses(e)
         \/ OtherFails \/ Restart \/ UNCHANGED cacheVars
  PROVE  CurrentInv'
<1> USE CacheAssumption DEF CacheInv, CacheTypeOK
<1>1. UNCHANGED <<version, epoch, floor>>
  BY DEF Age, LockLapses, OtherFails, Restart, cacheVars, valkey, history
<1>2. \A e \in Epochs :
        entry'[e].age # "none" => entry[e].age # "none" /\ entry'[e].val = entry[e].val
  <2>1. ASSUME NEW f \in Epochs, Age(f)
        PROVE  \A e \in Epochs : entry'[e].age # "none" =>
                 entry[e].age # "none" /\ entry'[e].val = entry[e].val
    <3>1. entry[f] \in Envelope
      OBVIOUS
    <3> QED BY <2>1, <3>1 DEF Age, Envelope
  <2> QED BY <2>1 DEF LockLapses, OtherFails, Restart, cacheVars, valkey
<1>3. CASE Restart
  <2>1. promised' = floor[epoch] /\ \A w \in Writers : writer'[w].val = 0
    BY <1>3 DEF Restart
  <2>2. floor[epoch] \in Nat /\ version \in Nat /\ epoch \in Nat
    BY DEF Epochs, Versions
  <2>3. FloorInv'
    BY <1>1, <1>2, <2>1, <2>2 DEF CurrentInv, FloorInv
  <2>4. ASSUME NEW r \in Readers PROVE ReaderInv(r)'
    <3>1. reader'[r] = NoRequest(reader[r].copy)
      BY <1>3 DEF Restart
    <3>2. ReaderInv(r)
      BY DEF CurrentInv
    <3> QED BY <1>1, <2>2, <3>1, <3>2 DEF ReaderInv, NoRequest, At, Keyed
  <2> QED BY <2>3, <2>4 DEF CurrentInv
<1>4. CASE ~Restart
  <2>1. UNCHANGED <<reader, writer, promised>> /\ (passthrough => passthrough')
    BY <1>4 DEF Age, LockLapses, OtherFails, cacheVars, valkey, history, Fails
  <2>2. FloorInv'
    BY <1>1, <1>2, <2>1 DEF CurrentInv, FloorInv
  <2>3. \A r \in Readers : ReaderInv(r)'
    BY <1>1, <2>1 DEF CurrentInv, ReaderInv, At
  <2> QED BY <2>2, <2>3 DEF CurrentInv
<1> QED BY <1>3, <1>4

LEMMA CacheStep == CacheInv /\ [CacheNext]_cacheVars => CacheInv'
<1> SUFFICES ASSUME CacheInv, [CacheNext]_cacheVars PROVE CacheInv'
  OBVIOUS
<1>1. CacheTypeOK' /\ CountInv'
  BY CacheTypeStep, CountStep DEF CacheInv
<1>2. CurrentInv'
  BY WriterStepCurrent, ReaderStepCurrent, RestCurrent DEF CacheNext
<1> QED BY <1>1, <1>2 DEF CacheInv

\* No change is counted twice: the epoch, and all that requests carry, stay in range.
THEOREM CacheTyped == CacheSpec => []CacheTypeOK
<1>1. CacheInv => CacheTypeOK
  BY DEF CacheInv
<1> QED BY <1>1, InitCache, CacheStep, PTL DEF CacheSpec

\* An answer, cached, revalidated, stale or computed, holds every change whose writer
\* had finished when the request came.
THEOREM AnswersStayCurrent == CacheSpec => []AnswersAreCurrent
<1>1. CacheInv => AnswersAreCurrent
  BY DEF CacheInv, CurrentInv, ReaderInv, AnswersAreCurrent, CacheTypeOK, ReaderState,
         Versions
<1> QED BY <1>1, InitCache, CacheStep, PTL DEF CacheSpec

------------------------------------------------------------------------------
(* One computation at a time *)

\* A request that won the lock and did not see it lapse still holds it.
LockInv ==
  \A r \in Readers : Winner(r, reader[r].epoch) /\ r \notin lapsed => Mine(r)

LEMMA InitLock == CacheInit => LockInv
BY DEF CacheInit, LockInv, Winner, NoRequest

\* A request that is over holds no claim to a lock.
LEMMA RequestEnds ==
  ASSUME CacheTypeOK, NEW q \in Readers,
         \/ \E c : Shows(q, c)
         \/ Quits(q)
  PROVE  /\ \A r \in Readers \ {q} : reader'[r] = reader[r]
         /\ reader'[q].pc \in {"idle", "answered"}
<1> USE DEF CacheTypeOK
<1>1. ASSUME NEW c, Shows(q, c)
      PROVE  /\ \A r \in Readers \ {q} : reader'[r] = reader[r]
             /\ reader'[q].pc = "answered"
  <2>1. \A x : [NoRequest(c) EXCEPT !.pc = "answered", !.since = x].pc = "answered"
    BY DEF NoRequest
  <2>2. reader'[q] = [NoRequest(c) EXCEPT !.pc = "answered", !.since = reader[q].since]
    BY <1>1 DEF Shows
  <2>3. \A r \in Readers \ {q} : reader'[r] = reader[r]
    BY <1>1 DEF Shows
  <2> QED BY <2>1, <2>2, <2>3
<1>2. CASE Quits(q)
  BY <1>2 DEF Quits, NoRequest
<1> QED BY <1>1, <1>2

\* A request's steps: it wins a lock that nobody holds, and lets go of its own only.
LEMMA ReaderStepLock ==
  ASSUME CacheTypeOK, LockInv, NEW q \in Readers, Request(q) \/ ReaderStep(q)
  PROVE  LockInv'
<1> USE CacheAssumption DEF CacheTypeOK
<1>1. CASE TakeLock(q)
  <2> DEFINE e == reader[q].epoch
  <2>1. e \in Epochs
    BY DEF ReaderState
  <2>2. CASE lock[e] = NoReader
    <3>1. /\ lock' = [lock EXCEPT ![e] = q] /\ lapsed' = lapsed \ {q}
          /\ reader' = [reader EXCEPT ![q].pc = "compute"]
      BY <1>1, <2>2 DEF TakeLock, GoTo
    <3>2. ASSUME NEW r \in Readers, Winner(r, reader[r].epoch)', r \notin lapsed' PROVE Mine(r)'
      <4>1. CASE r = q
        BY <2>1, <3>1, <4>1 DEF Mine, ReaderState
      <4>2. CASE r # q
        <5>1. reader'[r] = reader[r] /\ r \notin lapsed
          BY <3>1, <3>2, <4>2
        <5>2. Mine(r)
          BY <3>2, <5>1 DEF LockInv, Winner
        <5>3. reader[r].epoch # e
          BY <2>2, <5>2 DEF Mine
        <5> QED BY <3>1, <5>1, <5>2, <5>3 DEF Mine
      <4> QED BY <4>1, <4>2
    <3> QED BY <3>2 DEF LockInv
  <2>3. CASE lock[e] # NoReader
    <3>1. UNCHANGED <<lock, lapsed>> /\ reader' = [reader EXCEPT ![q].pc = "loser"]
      BY <1>1, <2>3 DEF TakeLock, GoTo
    <3> QED BY <3>1 DEF LockInv, Winner, Mine, ReaderState
  <2> QED BY <2>2, <2>3
<1>2. CASE Release(q)
  <2>1. /\ lapsed' = lapsed /\ \A r \in Readers \ {q} : reader'[r] = reader[r]
        /\ reader'[q].pc \in {"idle", "answered"}
    BY <1>2, RequestEnds DEF Release, Respond, AnswerWith, history
  <2>2. lock' = lock \/ (Mine(q) /\ lock' = [lock EXCEPT ![reader[q].epoch] = NoReader])
    BY <1>2 DEF Release
  <2>3. ASSUME NEW r \in Readers, Winner(r, reader[r].epoch)', r \notin lapsed' PROVE Mine(r)'
    <3>1. r # q
      BY <2>1, <2>3 DEF Winner
    <3>2. reader'[r] = reader[r] /\ Mine(r)
      BY <2>1, <2>3, <3>1 DEF LockInv, Winner
    <3>3. lock[reader[r].epoch] = r /\ reader[r].epoch \in Epochs
      BY <3>2 DEF Mine, ReaderState
    <3>4. lock'[reader[r].epoch] = r
      BY <2>2, <3>1, <3>3 DEF Mine
    <3> QED BY <3>2, <3>4 DEF Mine
  <2> QED BY <2>3 DEF LockInv
<1>3. CASE ~TakeLock(q) /\ ~Release(q)
  <2>1. UNCHANGED <<lock, lapsed>> /\ \A r \in Readers \ {q} : reader'[r] = reader[r]
    BY <1>3 DEF Request, ReaderStep, ReadEpoch, NotModified, ReadFails, HitFresh, Miss, Compute,
                ComputeFails, Store, ServeStale, StartWait, Deadline, Direct, AnswerWith, Shows,
                Quits, GoTo, valkey, history
  <2>2. \/ reader'[q].pc \notin {"compute", "store", "release", "abandon"}
        \/ /\ reader[q].pc \in {"compute", "store"}
           /\ reader'[q].epoch = reader[q].epoch
    <3>1. reader[q] \in ReaderState
      OBVIOUS
    <3>2. CASE Compute(q) \/ ComputeFails(q) \/ Store(q)
      BY <3>1, <3>2 DEF Compute, ComputeFails, Store, GoTo, At, ReaderState
    <3>3. CASE NotModified(q) \/ HitFresh(q) \/ ServeStale(q) \/ Direct(q)
      <4>1. reader'[q].pc \in {"idle", "answered"}
        BY <3>3, RequestEnds DEF NotModified, HitFresh, ServeStale, Direct, AnswerWith
      <4> QED BY <4>1
    <3>4. CASE Request(q) \/ ReadEpoch(q) \/ ReadFails(q) \/ Miss(q) \/ StartWait(q) \/ Deadline(q)
      <4>1. reader'[q].pc \in {"direct", "epoch", "get", "lock", "wait"}
        BY <3>1, <3>4 DEF Request, ReadEpoch, ReadFails, Miss, StartWait, Deadline, GoTo, ReaderState
      <4> QED BY <4>1
    <3> QED BY <1>3, <3>2, <3>3, <3>4 DEF ReaderStep
  <2>3. ASSUME NEW r \in Readers, Winner(r, reader[r].epoch)', r \notin lapsed' PROVE Mine(r)'
    <3>1. Winner(r, reader[r].epoch) /\ reader'[r].epoch = reader[r].epoch
      BY <2>1, <2>2, <2>3 DEF Winner
    <3> QED BY <2>1, <2>3, <3>1 DEF LockInv, Mine
  <2> QED BY <2>3 DEF LockInv
<1> QED BY <1>1, <1>2, <1>3

\* Time, writers and a restart: a lock lapses under its holder, who is remembered.
LEMMA RestLock ==
  ASSUME CacheTypeOK, LockInv,
         \/ \E w \in Writers : Write(w) \/ BumpEpoch(w)
         \/ \E e \in Epochs : Age(e) \/ LockLapses(e)
         \/ OtherFails \/ Restart \/ UNCHANGED cacheVars
  PROVE  LockInv'
<1> USE CacheAssumption DEF CacheTypeOK
<1>1. ASSUME NEW e \in Epochs, LockLapses(e) PROVE LockInv'
  <2>1. /\ reader' = reader /\ lock[e] # NoReader /\ lock' = [lock EXCEPT ![e] = NoReader]
        /\ lapsed' = IF Winner(lock[e], e) THEN lapsed \cup {lock[e]} ELSE lapsed
    BY <1>1 DEF LockLapses
  <2>2. ASSUME NEW r \in Readers, Winner(r, reader[r].epoch), r \notin lapsed' PROVE Mine(r)'
    <3>1. Mine(r)
      BY <2>1, <2>2 DEF LockInv
    <3>2. reader[r].epoch # e
      BY <2>1, <2>2, <3>1 DEF Mine
    <3> QED BY <2>1, <3>1, <3>2 DEF Mine
  <2> QED BY <2>1, <2>2 DEF LockInv, Winner
<1>2. CASE Restart
  BY <1>2 DEF Restart, LockInv, Winner, NoRequest
<1>3. CASE UNCHANGED <<reader, lock, lapsed>>
  BY <1>3 DEF LockInv, Winner, Mine
<1>4. ASSUME NEW w \in Writers, Write(w) \/ BumpEpoch(w) PROVE UNCHANGED <<reader, lock, lapsed>>
  BY <1>4 DEF Write, BumpEpoch, valkey, history
<1>5. ASSUME NEW e \in Epochs, Age(e) PROVE UNCHANGED <<reader, lock, lapsed>>
  BY <1>5 DEF Age, history
<1>6. OtherFails \/ UNCHANGED cacheVars => UNCHANGED <<reader, lock, lapsed>>
  BY DEF OtherFails, cacheVars, valkey, history
<1> QED BY <1>1, <1>2, <1>3, <1>4, <1>5, <1>6

\* Two requests compute one page at once only if a lock lapsed under one of them: no late
\* release frees the lock of another.
THEOREM OneComputes == CacheSpec => []SingleFlight
<1>1. CacheTypeOK /\ LockInv /\ [CacheNext]_cacheVars => LockInv'
  BY ReaderStepLock, RestLock DEF CacheNext
<1>2. LockInv => SingleFlight
  BY DEF LockInv, SingleFlight, Winner, Mine
<1> QED BY <1>1, <1>2, InitLock, CacheTyped, PTL DEF CacheSpec

==============================================================================
