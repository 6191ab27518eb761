---------------------------- MODULE OSClipProofs ----------------------------
(***************************************************************************)
(* Proofs about OSClip for every set of contents, every number of          *)
(* concurrent ApplyRemote calls, every TTL and every channel capacity.     *)
(***************************************************************************)
EXTENDS OSClip, CountingLemmas, TLAPS

(* The groups of variables, for the frame conditions of the actions.       *)
USE DEF osVars, watchVars, procVars, ledgerVars, applyVars, bounds

-----------------------------------------------------------------------------
(* Type correctness.                                                       *)

(* What the ledger and the calls of ApplyRemote are.                       *)
LedgerTypes ==
    /\ count \in Counters /\ left \in [Hashes -> 0 .. TTL] /\ expired \in Counters
    /\ job \in [Appliers -> Contents \cup {NoData}]
    /\ stage \in [Appliers -> {"write", "forget"}]

(* What the clipboard, the library's poller and the watchLoops hold.       *)
WatchTypes ==
    /\ clip \in Slots /\ fresh \subseteq Buckets /\ last \in Slots /\ watchCh \in Slots
    /\ watch \in [Buckets -> {"wait", "send", "exited"}] /\ held \in Slots
    /\ \A b \in Buckets : watch[b] = "send" => held[b] # NoData

(* What processObserved and its channels hold.                             *)
ProcTypes ==
    /\ observed \in Seq(Contents) /\ Len(observed) <= ObservedCap
    /\ proc \in {"idle", "collect", "text", "image", "exited"} /\ batch \in Slots
    /\ events \in Seq(Contents) /\ Len(events) <= EventsCap

(* What the bounds and the history are.                                    *)
HistoryTypes ==
    /\ done \in BOOLEAN /\ copies \in Nat /\ applies \in Nat
    /\ local \in Counters /\ passed \in Counters /\ emitted \in Counters
    /\ newest \in Slots /\ settled \in Slots

Types == LedgerTypes /\ WatchTypes /\ ProcTypes /\ HistoryTypes

(* A pruned count is a natural number, not above the count, and what is    *)
(* pruned is booked as expired.                                            *)
LEMMA PruneFacts ==
    ASSUME LedgerTypes
    PROVE  /\ Pruned \in Counters
           /\ \A k \in Hashes : Pruned[k] <= count[k]
           /\ PruneExpired => /\ expired' \in Counters
                              /\ \A k \in Hashes : expired'[k] + Pruned[k] = expired[k] + count[k]
BY DEF LedgerTypes, Pruned, PruneExpired, Counters

(* remember and consume keep the types of the ledger.                      *)
LEMMA LedgerType ==
    ASSUME LedgerTypes, NEW k \in Hashes, remember(k) \/ consume(k) \/ forget(k)
    PROVE  count' \in Counters /\ left' \in [Hashes -> 0 .. TTL] /\ expired' \in Counters
<1>1. CASE remember(k)
  <2>1. count' = [Pruned EXCEPT ![k] = @ + 1] /\ left' = [left EXCEPT ![k] = TTL]
    BY <1>1 DEF remember
  <2>2. count' \in Counters /\ left' \in [Hashes -> 0 .. TTL]
    BY <2>1, PruneFacts, BoundAssumption DEF LedgerTypes, Counters
  <2>3. QED
    BY <1>1, <2>2, PruneFacts DEF remember
<1>2. CASE consume(k)
  BY <1>2, PruneFacts DEF consume, LedgerTypes, Counters
<1>3. CASE forget(k)
  BY <1>3 DEF forget, LedgerTypes, Counters
<1>4. QED
  BY <1>1, <1>2, <1>3

(* A bucket's slot takes a content or nothing.                             *)
LEMMA SlotUpdate ==
    ASSUME NEW s \in Slots, NEW b \in Buckets, NEW d \in Contents \cup {NoData}
    PROVE  [s EXCEPT ![b] = d] \in Slots
BY DEF Slots

(* The empty slots are slots.                                              *)
LEMMA NothingIsSlots == Nothing \in Slots
BY DEF Nothing, Slots

(* Every content belongs to a bucket.                                      *)
LEMMA BucketType == ASSUME NEW d PROVE BucketOf(d) \in Buckets
BY DEF BucketOf, Buckets

(* The steps of ApplyRemote keep the types.                                *)
LEMMA ApplyType ==
    ASSUME Types, NEW a \in Appliers, ApplyStep(a)
    PROVE  Types'
<1>1. ASSUME NEW p \in Hashes, ApplyRemember(a, p) PROVE Types'
  <2>1. Normal[p] \in Contents /\ Normal[p] \in Hashes
    BY <1>1, DataAssumption DEF ApplyRemember, Hashes
  <2>2. LedgerTypes'
    BY <1>1, <2>1, LedgerType DEF Types, ApplyRemember, LedgerTypes
  <2>3. QED
    BY <1>1, <2>2 DEF Types, ApplyRemember, WatchTypes, ProcTypes, HistoryTypes
<1>2. CASE ApplyWrite(a)
  <2>1. job[a] \in Contents
    BY <1>2 DEF Types, LedgerTypes, ApplyWrite
  <2>2. clip' \in Slots /\ fresh' \subseteq Buckets
    BY <1>2, <2>1, SlotUpdate, NothingIsSlots, BucketType DEF ApplyWrite, SetClip
  <2>3. LedgerTypes'
    BY <1>2 DEF Types, LedgerTypes, ApplyWrite
  <2>4. QED
    BY <1>2, <2>2, <2>3 DEF Types, ApplyWrite, WatchTypes, ProcTypes, HistoryTypes
<1>3. CASE ApplyWriteFails(a)
  BY <1>3 DEF Types, ApplyWriteFails, LedgerTypes, WatchTypes, ProcTypes, HistoryTypes
<1>4. CASE ApplyForget(a)
  <2>1. job[a] \in Hashes
    BY <1>4 DEF Types, LedgerTypes, ApplyForget, Hashes
  <2>2. LedgerTypes'
    BY <1>4, <2>1, LedgerType DEF Types, ApplyForget, LedgerTypes
  <2>3. QED
    BY <1>4, <2>2 DEF Types, ApplyForget, WatchTypes, ProcTypes, HistoryTypes
<1>5. QED
  BY <1>1, <1>2, <1>3, <1>4 DEF ApplyStep

(* The user, the clipboard library and the watchLoops keep the types.      *)
LEMMA WatchType ==
    ASSUME Types, NEW b \in Buckets,
           \/ \E c \in ClipValues : LocalCopy(c)
           \/ Poll(b) \/ PollUnchanged(b) \/ WatchReceive(b) \/ WatchSend(b) \/ WatchExit(b)
    PROVE  Types'
<1>1. ASSUME NEW c \in ClipValues, LocalCopy(c) PROVE Types'
  <2>1. c \in Slots /\ fresh' \subseteq Buckets /\ clip' = c
    BY <1>1 DEF ClipValues, Slots, LocalCopy, SetClip
  <2>2. local' \in Counters
    BY <1>1 DEF LocalCopy, Types, HistoryTypes, Counters
  <2>3. QED
    BY <1>1, <2>1, <2>2 DEF Types, LocalCopy, LedgerTypes, WatchTypes, ProcTypes, HistoryTypes
<1>2. CASE Poll(b)
  <2>1. clip[b] \in Contents \cup {NoData}
    BY DEF Types, WatchTypes, Slots
  <2>2. watchCh' \in Slots /\ last' \in Slots
    BY <1>2, <2>1, SlotUpdate DEF Types, WatchTypes, Poll
  <2>3. QED
    BY <1>2, <2>2 DEF Types, Poll, LedgerTypes, WatchTypes, ProcTypes, HistoryTypes
<1>3. CASE PollUnchanged(b)
  BY <1>3 DEF Types, PollUnchanged, LedgerTypes, WatchTypes, ProcTypes, HistoryTypes
<1>4. CASE WatchReceive(b)
  <2> DEFINE k == watchCh[b]
  <2>1. k \in Contents /\ k \in Hashes
    BY <1>4 DEF Types, WatchTypes, Slots, WatchReceive, Hashes
  <2>2. LedgerTypes'
    BY <1>4, <2>1, LedgerType DEF Types, WatchReceive, LedgerTypes
  <2>3. watchCh' \in Slots
    BY <1>4, SlotUpdate DEF Types, WatchTypes, WatchReceive
  <2>4. CASE Suppresses(k)
    BY <1>4, <2>2, <2>3, <2>4 DEF Types, WatchReceive, WatchTypes, ProcTypes, HistoryTypes
  <2>5. CASE ~Suppresses(k)
    <3>1. held' \in Slots /\ newest' \in Slots
      BY <1>4, <2>1, <2>5, SlotUpdate DEF Types, WatchTypes, HistoryTypes, WatchReceive
    <3>2. passed' \in Counters
      BY <1>4, <2>1, <2>5 DEF Types, HistoryTypes, Counters, WatchReceive
    <3>3. /\ watch' \in [Buckets -> {"wait", "send", "exited"}]
          /\ \A x \in Buckets : watch'[x] = "send" => held'[x] # NoData
      BY <1>4, <2>1, <2>5, DataAssumption DEF Types, WatchTypes, Slots, WatchReceive
    <3>4. QED
      BY <1>4, <2>2, <2>3, <3>1, <3>2, <3>3 DEF Types, WatchReceive, WatchTypes, ProcTypes,
         HistoryTypes
  <2>6. QED
    BY <2>4, <2>5
<1>5. CASE WatchSend(b)
  <2>1. held[b] \in Contents
    BY <1>5 DEF Types, WatchTypes, Slots, WatchSend
  <2>2. observed' \in Seq(Contents) /\ Len(observed') <= ObservedCap
    BY <1>5, <2>1, BoundAssumption DEF Types, ProcTypes, WatchSend
  <2>3. held' \in Slots
    BY <1>5, SlotUpdate DEF Types, WatchTypes, WatchSend
  <2>4. /\ watch' \in [Buckets -> {"wait", "send", "exited"}]
        /\ \A x \in Buckets : watch'[x] = "send" => held'[x] # NoData
    BY <1>5 DEF Types, WatchTypes, Slots, WatchSend
  <2>5. QED
    BY <1>5, <2>2, <2>3, <2>4 DEF Types, WatchSend, LedgerTypes, WatchTypes, ProcTypes,
       HistoryTypes
<1>6. CASE WatchExit(b)
  BY <1>6 DEF Types, WatchExit, LedgerTypes, WatchTypes, ProcTypes, HistoryTypes
<1>7. QED
  BY <1>1, <1>2, <1>3, <1>4, <1>5, <1>6

(* One format of a batch is emitted or dropped.                            *)
LEMMA EmitType ==
    ASSUME Types, NEW b \in Buckets, NEW next \in {"image", "idle"}, Emit(b, next)
    PROVE  Types'
<1> DEFINE d == batch[b]
<1>1. d \in Contents \cup {NoData}
  BY DEF Types, ProcTypes, Slots
<1>2. batch' \in Slots /\ settled' \in Slots
  BY <1>1, SlotUpdate DEF Types, ProcTypes, HistoryTypes, Emit
<1>3. /\ events' \in Seq(Contents) /\ Len(events') <= EventsCap
      /\ emitted' \in Counters
  <2>1. CASE d \in Sendable
    <3>1. d \in Contents /\ d \in Hashes
      BY <2>1, DataAssumption DEF Hashes
    <3>2. Len(events) < EventsCap /\ events' = Append(events, d)
      BY <2>1 DEF Emit
    <3>3. events' \in Seq(Contents) /\ Len(events') <= EventsCap
      BY <3>1, <3>2, BoundAssumption DEF Types, ProcTypes
    <3>4. emitted' \in Counters
      BY <2>1, <3>1 DEF Types, HistoryTypes, Counters, Emit
    <3>5. QED
      BY <3>3, <3>4
  <2>2. CASE d \notin Sendable
    BY <2>2 DEF Types, ProcTypes, HistoryTypes, Emit
  <2>3. QED
    BY <2>1, <2>2
<1>4. QED
  BY <1>2, <1>3 DEF Types, Emit, LedgerTypes, WatchTypes, ProcTypes, HistoryTypes

(* processObserved and its consumer keep the types.                        *)
LEMMA ProcType ==
    ASSUME Types, ProcTake \/ ProcWindow \/ ProcExit \/ TakeEvent
    PROVE  Types'
<1>1. CASE ProcTake
  <2>1. Head(observed) \in Contents /\ Tail(observed) \in Seq(Contents)
    BY <1>1 DEF Types, ProcTypes, ProcTake
  <2>2. Len(Tail(observed)) <= ObservedCap
    BY <1>1, BoundAssumption DEF Types, ProcTypes, ProcTake
  <2>3. batch' \in Slots
    BY <1>1, <2>1, SlotUpdate, BucketType DEF Types, ProcTypes, ProcTake, Coalesce
  <2>4. QED
    BY <1>1, <2>1, <2>2, <2>3 DEF Types, ProcTake, LedgerTypes, WatchTypes, ProcTypes,
       HistoryTypes
<1>2. CASE ProcWindow \/ ProcExit
  BY <1>2 DEF Types, ProcWindow, ProcExit, LedgerTypes, WatchTypes, ProcTypes, HistoryTypes
<1>3. CASE TakeEvent
  <2>1. events' \in Seq(Contents) /\ Len(events') <= EventsCap
    BY <1>3, BoundAssumption DEF Types, ProcTypes, TakeEvent
  <2>2. QED
    BY <1>3, <2>1 DEF Types, TakeEvent, LedgerTypes, WatchTypes, ProcTypes, HistoryTypes
<1>4. QED
  BY <1>1, <1>2, <1>3

(* Every step keeps the types.                                             *)
LEMMA TypeStep ==
    ASSUME Types, [Next]_vars
    PROVE  Types'
<1>1. CASE Tick
  <2>1. left' \in [Hashes -> 0 .. TTL]
    BY <1>1, BoundAssumption DEF Types, LedgerTypes, Tick
  <2>2. QED
    BY <1>1, <2>1 DEF Types, Tick, LedgerTypes, WatchTypes, ProcTypes, HistoryTypes
<1>2. CASE Stop
  BY <1>2 DEF Types, Stop, LedgerTypes, WatchTypes, ProcTypes, HistoryTypes
<1>3. CASE \E a \in Appliers : ApplyStep(a)
  BY <1>3, ApplyType
<1>4. CASE \E c \in ClipValues : LocalCopy(c)
  <2>1. "text" \in Buckets
    BY DEF Buckets
  <2>2. QED
    BY <1>4, <2>1, WatchType
<1>5. CASE \E b \in Buckets : \/ Poll(b) \/ PollUnchanged(b)
                              \/ WatchReceive(b) \/ WatchSend(b) \/ WatchExit(b)
  BY <1>5, WatchType
<1>6. CASE ProcTake \/ ProcWindow \/ ProcExit \/ TakeEvent
  BY <1>6, ProcType
<1>7. CASE Emit("text", "image") \/ Emit("image", "idle")
  BY <1>7, EmitType DEF Buckets
<1>8. CASE UNCHANGED vars
  BY <1>8 DEF vars, Types, LedgerTypes, WatchTypes, ProcTypes, HistoryTypes
<1>9. QED
  BY <1>1, <1>2, <1>3, <1>4, <1>5, <1>6, <1>7, <1>8 DEF Next

(* A manager that Start has just started has the right types.              *)
LEMMA TypeInit == Init => Types
<1> SUFFICES ASSUME Init PROVE Types
  OBVIOUS
<1>1. Zero \in Counters /\ Zero \in [Hashes -> 0 .. TTL]
  BY BoundAssumption DEF Zero, Counters
<1>2. <<>> \in Seq(Contents) /\ Len(<<>>) = 0
  OBVIOUS
<1>3. WatchTypes
  BY NothingIsSlots DEF Init, WatchTypes
<1>4. ProcTypes
  BY <1>2, NothingIsSlots, BoundAssumption DEF Init, ProcTypes
<1>5. HistoryTypes
  BY <1>1, NothingIsSlots DEF Init, HistoryTypes
<1>6. LedgerTypes
  BY <1>1 DEF Init, LedgerTypes
<1>7. QED
  BY <1>3, <1>4, <1>5, <1>6 DEF Types

(* Type correctness of osclip.Manager: no count of the ledger becomes      *)
(* negative, whatever expires between remember, consume and forget, and    *)
(* the two channels respect their capacities.                              *)
THEOREM TypeCorrect == Spec => []TypeOK
<1>1. Types => TypeOK
  BY DEF Types, TypeOK, LedgerTypes, WatchTypes, ProcTypes, HistoryTypes
<1>2. QED
  BY <1>1, TypeInit, TypeStep, PTL DEF Spec

-----------------------------------------------------------------------------
(* The books of the ledger.                                                *)

(* remember adds one count, whatever it prunes.                            *)
LEMMA RememberBooks ==
    ASSUME LedgerTypes, NEW m \in Hashes, remember(m), NEW k \in Hashes
    PROVE  /\ count'[k] + expired'[k] = count[k] + expired[k] + One(k = m)
           /\ expired'[k] >= expired[k]
<1>1. /\ Pruned \in Counters /\ expired' \in Counters
      /\ Pruned[k] <= count[k] /\ expired'[k] + Pruned[k] = expired[k] + count[k]
  BY PruneFacts DEF remember
<1>2. count'[k] = Pruned[k] + One(k = m)
  BY <1>1 DEF remember, Counters, One
<1>3. QED
  BY <1>1, <1>2 DEF LedgerTypes, Counters, One

(* consume takes one count if there is one left; a report it does not      *)
(* suppress leaves no count behind.                                        *)
LEMMA ConsumeBooks ==
    ASSUME LedgerTypes, NEW m \in Hashes, consume(m), NEW k \in Hashes
    PROVE  /\ count'[k] + expired'[k] = count[k] + expired[k] - One(k = m /\ Suppresses(m))
           /\ expired'[k] >= expired[k]
           /\ ~Suppresses(m) => count'[m] = 0
<1>1. /\ Pruned \in Counters /\ expired' \in Counters
      /\ Pruned[k] <= count[k] /\ expired'[k] + Pruned[k] = expired[k] + count[k]
  BY PruneFacts DEF consume
<1>2. count'[k] = Pruned[k] - One(k = m /\ Suppresses(m))
  BY <1>1 DEF consume, Suppresses, Counters, One
<1>3. ~Suppresses(m) => count'[m] = 0
  BY <1>1 DEF consume, Suppresses, Counters
<1>4. QED
  BY <1>1, <1>2, <1>3 DEF LedgerTypes, Counters, One, Suppresses

(* forget takes at most the count of its own call.                         *)
LEMMA ForgetBooks ==
    ASSUME LedgerTypes, NEW m \in Hashes, forget(m), NEW k \in Hashes
    PROVE  /\ count'[k] + expired'[k] >= count[k] + expired[k] - One(k = m)
           /\ expired'[k] = expired[k]
BY DEF forget, LedgerTypes, Counters, One

(* The calls that are about to write a content are finitely many.          *)
LEMMA InApplyFinite ==
    ASSUME NEW k
    PROVE  IsFiniteSet(InApply(k)) /\ Cardinality(InApply(k)) \in Nat
<1>1. InApply(k) \subseteq Appliers
  BY DEF InApply
<1>2. QED
  BY <1>1, ApplierAssumption, FS_Subset, FS_CardinalityType

Takes(a, m) == job[a] = NoData /\ job' = [job EXCEPT ![a] = m]
Leaves(a) == job[a] # NoData /\ job' = [job EXCEPT ![a] = NoData]

(* A call that takes a job adds itself to the writers of its content.      *)
LEMMA JobTaken ==
    ASSUME LedgerTypes, NEW a \in Appliers, NEW m \in Contents, Takes(a, m),
           NEW k \in Contents
    PROVE  Cardinality(InApply(k)') = Cardinality(InApply(k)) + One(k = m)
<1>1. k # NoData
  BY DataAssumption DEF Hashes
<1>2. CASE k = m
  <2>1. InApply(k)' = InApply(k) \cup {a} /\ a \notin InApply(k)
    BY <1>1, <1>2 DEF LedgerTypes, InApply, Takes
  <2>2. QED
    BY <1>2, <2>1, InApplyFinite, FS_AddElement DEF One
<1>3. CASE k # m
  <2>1. InApply(k)' = InApply(k)
    BY <1>1, <1>3 DEF LedgerTypes, InApply, Takes
  <2>2. QED
    BY <1>3, <2>1, InApplyFinite DEF One
<1>4. QED
  BY <1>2, <1>3

(* A call that ends removes itself from the writers of its content.        *)
LEMMA JobDone ==
    ASSUME LedgerTypes, NEW a \in Appliers, Leaves(a), NEW k \in Contents
    PROVE  Cardinality(InApply(k)') = Cardinality(InApply(k)) - One(k = job[a])
<1>1. k # NoData
  BY DataAssumption DEF Hashes
<1>2. CASE k = job[a]
  <2>1. InApply(k)' = InApply(k) \ {a} /\ a \in InApply(k)
    BY <1>1, <1>2 DEF LedgerTypes, InApply, Leaves
  <2>2. QED
    <3>1. IsFiniteSet(InApply(k)) /\ a \in InApply(k)
      BY <2>1, InApplyFinite
    <3>2. Cardinality(InApply(k) \ {a}) = Cardinality(InApply(k)) - 1
      BY <3>1, FS_RemoveElement
    <3> QED
      BY <1>2, <2>1, <3>2 DEF One
<1>3. CASE k # job[a]
  <2>1. InApply(k)' = InApply(k)
    BY <1>1, <1>3 DEF LedgerTypes, InApply, Leaves
  <2>2. QED
    BY <1>3, <2>1, InApplyFinite DEF One
<1>4. QED
  BY <1>2, <1>3

(* The clipboard and the poller keep each format in its own slot.          *)
Sorted ==
    \A b \in Buckets : /\ clip[b] # NoData => BucketOf(clip[b]) = b
                       /\ watchCh[b] # NoData => BucketOf(watchCh[b]) = b

(* Every step keeps the formats apart.                                     *)
LEMMA SortedStep ==
    ASSUME Types, Sorted, [Next]_vars
    PROVE  Sorted'
<1>1. CASE Tick \/ Stop \/ UNCHANGED vars
  BY <1>1 DEF Tick, Stop, vars, Sorted
<1>2. ASSUME NEW a \in Appliers, ApplyWrite(a) PROVE Sorted'
  BY <1>2 DEF ApplyWrite, SetClip, Nothing, Sorted
<1>3. ASSUME NEW a \in Appliers,
             ApplyWriteFails(a) \/ ApplyForget(a) \/ \E p \in Hashes : ApplyRemember(a, p)
      PROVE  Sorted'
  BY <1>3 DEF ApplyWriteFails, ApplyForget, ApplyRemember, Sorted
<1>4. ASSUME NEW c \in ClipValues, LocalCopy(c) PROVE Sorted'
  <2>1. \A b \in Buckets : c[b] # NoData => BucketOf(c[b]) = b
    BY DataAssumption DEF ClipValues, BucketOf, Buckets
  <2>2. QED
    BY <1>4, <2>1 DEF LocalCopy, SetClip, Sorted
<1>5. ASSUME NEW b \in Buckets, Poll(b) PROVE Sorted'
  BY <1>5 DEF Types, WatchTypes, Slots, Poll, Sorted
<1>6. ASSUME NEW b \in Buckets, WatchReceive(b) PROVE Sorted'
  BY <1>6 DEF Types, WatchTypes, Slots, WatchReceive, Sorted
<1>7. ASSUME NEW b \in Buckets, PollUnchanged(b) \/ WatchSend(b) \/ WatchExit(b) PROVE Sorted'
  BY <1>7 DEF PollUnchanged, WatchSend, WatchExit, Sorted
<1>8. CASE \/ ProcTake \/ ProcWindow \/ ProcExit \/ TakeEvent
           \/ Emit("text", "image") \/ Emit("image", "idle")
  BY <1>8 DEF ProcTake, ProcWindow, ProcExit, TakeEvent, Emit, Sorted
<1>9. QED
  BY <1>1, <1>2, <1>3, <1>4, <1>5, <1>6, <1>7, <1>8 DEF Next, ApplyStep

(* What the balance says of one content.                                   *)
Covered(k) ==
    passed[k] + InFlight(k) + Cardinality(InApply(k)) <= local[k] + count[k] + expired[k]
NotEchoed(k) == passed[k] <= local[k] + expired[k]

(* The terms of the balance are natural numbers.                           *)
LEMMA BalanceTypes ==
    ASSUME Types, NEW k \in Contents
    PROVE  /\ passed[k] \in Nat /\ InFlight(k) \in Nat /\ Cardinality(InApply(k)) \in Nat
           /\ local[k] \in Nat /\ count[k] \in Nat /\ expired[k] \in Nat
BY InApplyFinite DEF Types, LedgerTypes, HistoryTypes, Counters, Hashes, InFlight

(* ApplyRemote keeps the books balanced.                                   *)
LEMMA ApplyBalance ==
    ASSUME Types, Types', NEW k \in Contents, Covered(k), NotEchoed(k),
           NEW a \in Appliers, ApplyStep(a)
    PROVE  Covered(k)' /\ NotEchoed(k)'
<1>1. /\ passed[k] \in Nat /\ InFlight(k) \in Nat /\ Cardinality(InApply(k)) \in Nat
      /\ local[k] \in Nat /\ count[k] \in Nat /\ expired[k] \in Nat
  BY BalanceTypes
<1>2. /\ InFlight(k)' \in Nat /\ Cardinality(InApply(k)') \in Nat
      /\ count'[k] \in Nat /\ expired'[k] \in Nat /\ k \in Hashes
  <2>1. InApply(k)' \subseteq Appliers
    BY DEF InApply
  <2>2. Cardinality(InApply(k)') \in Nat
    BY <2>1, ApplierAssumption, FS_Subset, FS_CardinalityType
  <2>3. InFlight(k)' \in Nat
    BY DEF InFlight
  <2>4. count'[k] \in Nat /\ expired'[k] \in Nat /\ k \in Hashes
    BY DEF Types, LedgerTypes, Counters, Hashes
  <2>5. QED
    BY <2>2, <2>3, <2>4
<1>3. ASSUME NEW p \in Hashes, ApplyRemember(a, p) PROVE Covered(k)' /\ NotEchoed(k)'
  <2>1. Normal[p] \in Contents /\ Normal[p] \in Hashes
    BY <1>3, DataAssumption DEF ApplyRemember, Hashes
  <2>2. /\ count'[k] + expired'[k] = count[k] + expired[k] + One(k = Normal[p])
        /\ expired'[k] >= expired[k]
    BY <1>2, <1>3, <2>1, RememberBooks DEF Types, ApplyRemember
  <2>3. Cardinality(InApply(k)') = Cardinality(InApply(k)) + One(k = Normal[p])
    <3>1. job[a] = NoData /\ job' = [job EXCEPT ![a] = Normal[p]] /\ LedgerTypes
      BY <1>3 DEF Types, ApplyRemember
    <3>2. PICK m \in Contents : m = Normal[p]
      BY <2>1
    <3>3. LedgerTypes /\ Takes(a, m)
      BY <3>1, <3>2 DEF Takes
    <3>4. Cardinality(InApply(k)') = Cardinality(InApply(k)) + One(k = m)
      BY <3>3, JobTaken, Zenon
    <3> QED
      BY <3>2, <3>4
  <2>4. InFlight(k)' = InFlight(k) /\ passed'[k] = passed[k] /\ local'[k] = local[k]
    BY <1>3 DEF ApplyRemember, InFlight
  <2>5. QED
    BY <1>1, <1>2, <2>2, <2>3, <2>4 DEF Covered, NotEchoed, One
<1>4. CASE ApplyWrite(a)
  <2>1. job[a] \in Contents
    BY <1>4 DEF Types, LedgerTypes, ApplyWrite
  <2>2. Cardinality(InApply(k)') = Cardinality(InApply(k)) - One(k = job[a])
    <3>1. LedgerTypes /\ Leaves(a)
      BY <1>4 DEF Types, ApplyWrite, Leaves
    <3> QED
      BY <3>1, JobDone
  <2>3. InFlight(k)' <= InFlight(k) + One(k = job[a])
    BY <1>4, <2>1, DataAssumption DEF ApplyWrite, SetClip, Nothing, InFlight, One, Hashes
  <2>4. /\ count'[k] = count[k] /\ expired'[k] = expired[k]
        /\ passed'[k] = passed[k] /\ local'[k] = local[k]
    BY <1>4 DEF ApplyWrite
  <2>5. QED
    BY <1>1, <1>2, <2>2, <2>3, <2>4 DEF Covered, NotEchoed, One
<1>5. CASE ApplyWriteFails(a)
  BY <1>5 DEF ApplyWriteFails, Covered, NotEchoed, InFlight, InApply
<1>6. CASE ApplyForget(a)
  <2>1. job[a] \in Hashes
    BY <1>6 DEF Types, LedgerTypes, ApplyForget, Hashes
  <2>2. Cardinality(InApply(k)') = Cardinality(InApply(k)) - One(k = job[a])
    <3>1. LedgerTypes /\ Leaves(a)
      BY <1>6 DEF Types, ApplyForget, Leaves
    <3> QED
      BY <3>1, JobDone
  <2>3. /\ count'[k] + expired'[k] >= count[k] + expired[k] - One(k = job[a])
        /\ expired'[k] = expired[k]
    BY <1>2, <1>6, <2>1, ForgetBooks DEF Types, ApplyForget
  <2>4. InFlight(k)' = InFlight(k) /\ passed'[k] = passed[k] /\ local'[k] = local[k]
    BY <1>6 DEF ApplyForget, InFlight
  <2>5. QED
    BY <1>1, <1>2, <2>2, <2>3, <2>4 DEF Covered, NotEchoed, One
<1>7. QED
  BY <1>3, <1>4, <1>5, <1>6 DEF ApplyStep

(* The user, the poller and the watchLoops keep the books balanced.        *)
LEMMA WatchBalance ==
    ASSUME Types, Types', Sorted, NEW k \in Contents, Covered(k), NotEchoed(k),
           NEW b \in Buckets,
           \/ \E c \in ClipValues : LocalCopy(c)
           \/ Poll(b) \/ PollUnchanged(b) \/ WatchReceive(b) \/ WatchSend(b) \/ WatchExit(b)
    PROVE  Covered(k)' /\ NotEchoed(k)'
<1>1. /\ passed[k] \in Nat /\ InFlight(k) \in Nat /\ Cardinality(InApply(k)) \in Nat
      /\ local[k] \in Nat /\ count[k] \in Nat /\ expired[k] \in Nat
  BY BalanceTypes
<1>2. /\ InFlight(k)' \in Nat /\ count'[k] \in Nat /\ expired'[k] \in Nat
      /\ passed'[k] \in Nat /\ k \in Hashes /\ k # NoData
  BY DataAssumption DEF Types, LedgerTypes, HistoryTypes, Counters, Hashes, InFlight
<1>3. InApply(k)' = InApply(k)
  BY DEF LocalCopy, Poll, PollUnchanged, WatchReceive, WatchSend, WatchExit, InApply
<1>4. ASSUME NEW c \in ClipValues, LocalCopy(c) PROVE Covered(k)' /\ NotEchoed(k)'
  <2>1. local'[k] = local[k] + One(\E x \in Buckets : c[x] = k)
    BY <1>2, <1>4 DEF LocalCopy, One
  <2>2. InFlight(k)' <= InFlight(k) + One(\E x \in Buckets : c[x] = k)
    BY <1>4, BucketType DEF LocalCopy, SetClip, InFlight, One
  <2>3. count'[k] = count[k] /\ expired'[k] = expired[k] /\ passed'[k] = passed[k]
    BY <1>4 DEF LocalCopy
  <2>4. QED
    BY <1>1, <1>2, <1>3, <2>1, <2>2, <2>3 DEF Covered, NotEchoed, One
<1>5. CASE Poll(b)
  <2>1. InFlight(k)' <= InFlight(k)
    BY <1>2, <1>5, BucketType DEF Types, WatchTypes, Slots, Poll, InFlight
  <2>2. QED
    BY <1>1, <1>2, <1>3, <1>5, <2>1 DEF Poll, Covered, NotEchoed
<1>6. CASE PollUnchanged(b)
  <2>1. InFlight(k)' <= InFlight(k)
    BY <1>6 DEF PollUnchanged, InFlight
  <2>2. QED
    BY <1>1, <1>2, <1>3, <1>6, <2>1 DEF PollUnchanged, Covered, NotEchoed
<1>7. CASE WatchReceive(b)
  <2> DEFINE m == watchCh[b]
  <2>1. m \in Contents /\ m \in Hashes /\ BucketOf(m) = b
    BY <1>7 DEF Types, WatchTypes, Slots, WatchReceive, Hashes, Sorted
  <2>2. /\ count'[k] + expired'[k] = count[k] + expired[k] - One(k = m /\ Suppresses(m))
        /\ expired'[k] >= expired[k]
        /\ ~Suppresses(m) => count'[m] = 0
    BY <1>2, <1>7, <2>1, ConsumeBooks DEF Types, WatchReceive
  <2>3. InFlight(k)' = InFlight(k) - One(k = m)
    BY <1>2, <1>7, <2>1, BucketType DEF Types, WatchTypes, Slots, WatchReceive, InFlight, One
  <2>4. passed'[k] = passed[k] + One(k = m /\ ~Suppresses(m)) /\ local'[k] = local[k]
    BY <1>1, <1>2, <1>7, <2>1 DEF Types, HistoryTypes, Counters, WatchReceive, One
  <2>5. Covered(k)'
    BY <1>1, <1>2, <1>3, <2>2, <2>3, <2>4 DEF Covered, One
  <2>6. NotEchoed(k)'
    <3>1. CASE k = m /\ ~Suppresses(m)
      BY <1>1, <1>2, <1>3, <2>2, <2>4, <2>5, <3>1 DEF Covered, NotEchoed
    <3>2. CASE ~(k = m /\ ~Suppresses(m))
      BY <1>1, <1>2, <2>2, <2>4, <3>2 DEF NotEchoed, One
    <3>3. QED
      BY <3>1, <3>2
  <2>7. QED
    BY <2>5, <2>6
<1>8. CASE WatchSend(b) \/ WatchExit(b)
  BY <1>3, <1>8 DEF WatchSend, WatchExit, Covered, NotEchoed, InFlight
<1>9. QED
  BY <1>4, <1>5, <1>6, <1>7, <1>8

(* Every step keeps the books of every content balanced.                   *)
LEMMA BalanceStep ==
    ASSUME Types, Sorted, LedgerBalance, NoEcho, [Next]_vars
    PROVE  LedgerBalance' /\ NoEcho'
<1> SUFFICES ASSUME NEW k \in Contents PROVE Covered(k)' /\ NotEchoed(k)'
  BY DEF LedgerBalance, NoEcho, Covered, NotEchoed
<1>1. Covered(k) /\ NotEchoed(k)
  BY DEF LedgerBalance, NoEcho, Covered, NotEchoed
<1>2. Types'
  BY TypeStep
<1>3. CASE Tick \/ Stop \/ UNCHANGED vars
  BY <1>1, <1>3 DEF Tick, Stop, vars, Covered, NotEchoed, InFlight, InApply
<1>4. CASE \E a \in Appliers : ApplyStep(a)
  BY <1>1, <1>2, <1>4, ApplyBalance
<1>5. CASE \E c \in ClipValues : LocalCopy(c)
  <2>1. "text" \in Buckets
    BY DEF Buckets
  <2>2. QED
    BY <1>1, <1>2, <1>5, <2>1, WatchBalance
<1>6. CASE \E b \in Buckets : \/ Poll(b) \/ PollUnchanged(b)
                              \/ WatchReceive(b) \/ WatchSend(b) \/ WatchExit(b)
  BY <1>1, <1>2, <1>6, WatchBalance
<1>7. CASE \/ ProcTake \/ ProcWindow \/ ProcExit \/ TakeEvent
           \/ Emit("text", "image") \/ Emit("image", "idle")
  BY <1>1, <1>7 DEF ProcTake, ProcWindow, ProcExit, TakeEvent, Emit, Covered, NotEchoed,
     InFlight, InApply
<1>8. QED
  BY <1>3, <1>4, <1>5, <1>6, <1>7 DEF Next

(* A manager that has just started has empty books.                        *)
LEMMA BalanceInit == Init => Sorted /\ LedgerBalance /\ NoEcho
<1> SUFFICES ASSUME Init PROVE Sorted /\ LedgerBalance /\ NoEcho
  OBVIOUS
<1>1. \A b \in Buckets : clip[b] = NoData /\ watchCh[b] = NoData
  BY DEF Init, Nothing
<1>2. \A k \in Contents : InFlight(k) = 0
  BY <1>1, BucketType, DataAssumption DEF Init, InFlight, Hashes
<1>3. \A k \in Contents : Cardinality(InApply(k)) = 0
  <2>1. \A k \in Contents : InApply(k) = {}
    BY DataAssumption DEF Init, InApply, Hashes
  <2>2. QED
    BY <2>1, FS_EmptySet
<1>4. \A k \in Contents : /\ passed[k] = 0 /\ local[k] = 0
                          /\ count[k] = 0 /\ expired[k] = 0
  BY DEF Init, Zero, Hashes
<1>5. QED
  BY <1>1, <1>2, <1>3, <1>4 DEF Sorted, LedgerBalance, NoEcho

(* The inductive invariant of the ledger.                                  *)
LedgerInv == Types /\ Sorted /\ LedgerBalance /\ NoEcho

(* The ledger's invariant holds in every reachable state.                  *)
THEOREM LedgerInvariant == Spec => []LedgerInv
<1>1. Init => LedgerInv
  BY TypeInit, BalanceInit DEF LedgerInv
<1>2. LedgerInv /\ [Next]_vars => LedgerInv'
  BY TypeStep, SortedStep, BalanceStep DEF LedgerInv
<1>3. QED
  BY <1>1, <1>2, PTL DEF Spec

(* The books balance however many ApplyRemote calls, failing writes,       *)
(* expiries and missed polls interleave.                                   *)
THEOREM BooksBalance == Spec => []LedgerBalance
<1>1. LedgerInv => LedgerBalance
  BY DEF LedgerInv
<1>2. QED
  BY <1>1, LedgerInvariant, PTL

(* A remote content is never forwarded as a local copy unless a count of   *)
(* it outlived the TTL.                                                    *)
THEOREM EchoesAreSuppressed == Spec => []NoEcho
<1>1. LedgerInv => NoEcho
  BY DEF LedgerInv
<1>2. QED
  BY <1>1, LedgerInvariant, PTL

-----------------------------------------------------------------------------
(* The pipeline from watchLoop to m.events.                                *)

(* Each format stays in its own slot, and a watchLoop that waits for a     *)
(* report has sent the one before.                                         *)
Placed ==
    \A b \in Buckets : /\ held[b] # NoData => BucketOf(held[b]) = b
                       /\ batch[b] # NoData => BucketOf(batch[b]) = b
                       /\ watch[b] = "wait" => held[b] = NoData

(* How often k is on its way from its watchLoop to m.events.               *)
Pipeline(k) ==
    One(held[BucketOf(k)] = k) + Occurs(observed, k) + One(batch[BucketOf(k)] = k)

(* What was emitted and what still may be was forwarded by the watchLoops. *)
Piped(k) == emitted[k] + Pipeline(k) <= passed[k]

(* The terms of the pipeline are natural numbers.                          *)
LEMMA PipelineTypes ==
    ASSUME Types, NEW k \in Contents
    PROVE  /\ Occurs(observed, k) \in Nat /\ Pipeline(k) \in Nat
           /\ emitted[k] \in Nat /\ passed[k] \in Nat /\ k # NoData /\ k \in Hashes
           /\ BucketOf(k) \in Buckets
<1>1. Occurs(observed, k) \in Nat
  BY PositionsFinite DEF Types, ProcTypes
<1>2. Pipeline(k) \in Nat
  BY <1>1 DEF Pipeline, One
<1> QED
  BY <1>1, <1>2, DataAssumption, BucketType DEF Types, HistoryTypes, Counters, Hashes

(* Every step keeps the formats of the pipeline apart.                     *)
LEMMA PlacedStep ==
    ASSUME Types, Sorted, Placed, [Next]_vars
    PROVE  Placed'
<1>1. CASE Tick \/ Stop \/ ProcWindow \/ ProcExit \/ TakeEvent \/ UNCHANGED vars
  <2>1. UNCHANGED <<watch, held, batch>>
    BY <1>1 DEF Tick, Stop, ProcWindow, ProcExit, TakeEvent, vars
  <2> QED
    BY <2>1 DEF Placed
<1>2. ASSUME NEW a \in Appliers, ApplyStep(a) PROVE Placed'
  <2>1. UNCHANGED <<watch, held, batch>>
    BY <1>2 DEF ApplyStep, ApplyRemember, ApplyWrite, ApplyWriteFails, ApplyForget
  <2> QED
    BY <2>1 DEF Placed
<1>3. ASSUME NEW c \in ClipValues, LocalCopy(c) PROVE Placed'
  BY <1>3 DEF LocalCopy, Placed
<1>4. ASSUME NEW b \in Buckets, Poll(b) \/ PollUnchanged(b) PROVE Placed'
  BY <1>4 DEF Poll, PollUnchanged, Placed
<1>5. ASSUME NEW b \in Buckets, WatchReceive(b) PROVE Placed'
  <2>1. BucketOf(watchCh[b]) = b
    BY <1>5 DEF WatchReceive, Sorted
  <2>2. CASE UNCHANGED watchVars
    BY <1>5, <2>2 DEF WatchReceive, Placed
  <2>3. CASE /\ watch' = [watch EXCEPT ![b] = "send"]
             /\ held' = [held EXCEPT ![b] = watchCh[b]]
    BY <1>5, <2>1, <2>3 DEF Types, WatchTypes, Slots, WatchReceive, Placed
  <2> QED
    BY <1>5, <2>2, <2>3 DEF WatchReceive
<1>6. ASSUME NEW b \in Buckets, WatchSend(b) PROVE Placed'
  BY <1>6 DEF Types, WatchTypes, Slots, WatchSend, Placed
<1>7. ASSUME NEW b \in Buckets, WatchExit(b) PROVE Placed'
  BY <1>7 DEF Types, WatchTypes, WatchExit, Placed
<1>8. CASE ProcTake
  BY <1>8 DEF Types, ProcTypes, Slots, ProcTake, Coalesce, Placed
<1>9. ASSUME NEW b \in Buckets, NEW next, Emit(b, next) PROVE Placed'
  BY <1>9 DEF Types, ProcTypes, Slots, Emit, Placed
<1> QED
  BY <1>1, <1>2, <1>3, <1>4, <1>5, <1>6, <1>7, <1>8, <1>9 DEF Next, Buckets

(* The pipeline holds nothing when it starts.                              *)
LEMMA PipelineInit == Init => Placed /\ \A k \in Contents : Piped(k)
<1> SUFFICES ASSUME Init PROVE Placed /\ \A k \in Contents : Piped(k)
  OBVIOUS
<1>1. Placed
  BY DEF Init, Nothing, Placed
<1>2. ASSUME NEW k \in Contents PROVE Piped(k)
  <2>1. Types /\ BucketOf(k) \in Buckets /\ k \in Hashes /\ k # NoData
    BY TypeInit, PipelineTypes
  <2>2. held[BucketOf(k)] = NoData /\ batch[BucketOf(k)] = NoData
    BY <2>1 DEF Init, Nothing
  <2>3. Occurs(observed, k) = 0
    BY OccursEmpty DEF Init
  <2>4. emitted[k] = 0 /\ passed[k] = 0
    BY <2>1 DEF Init, Zero
  <2> QED
    BY <2>1, <2>2, <2>3, <2>4 DEF Piped, Pipeline, One
<1> QED
  BY <1>1, <1>2

(* A watchLoop that forwards a report counts it and holds it; one that     *)
(* sends what it holds moves it into the channel.                          *)
LEMMA WatchPiped ==
    ASSUME Types, Types', Sorted, Placed, NEW k \in Contents, Piped(k),
           NEW b \in Buckets, WatchReceive(b) \/ WatchSend(b) \/ WatchExit(b)
    PROVE  Piped(k)'
<1>1. /\ Occurs(observed, k) \in Nat /\ Pipeline(k) \in Nat
      /\ emitted[k] \in Nat /\ passed[k] \in Nat /\ k # NoData /\ k \in Hashes
      /\ BucketOf(k) \in Buckets
  BY PipelineTypes
<1>2. CASE WatchReceive(b)
  <2>1. held[b] = NoData /\ BucketOf(watchCh[b]) = b /\ watchCh[b] \in Contents
    BY <1>2 DEF WatchReceive, Placed, Sorted, Types, WatchTypes, Slots
  <2>2. UNCHANGED <<observed, batch, emitted>>
    BY <1>2 DEF WatchReceive
  <2>3. CASE UNCHANGED <<watchVars, passed, newest>>
    BY <2>2, <2>3 DEF Piped, Pipeline
  <2>4. CASE /\ held' = [held EXCEPT ![b] = watchCh[b]]
             /\ passed' = [passed EXCEPT ![watchCh[b]] = @ + 1]
    <3>1. passed'[k] = passed[k] + One(k = watchCh[b])
      BY <1>1, <2>1, <2>4 DEF Types, HistoryTypes, Counters, Hashes, One
    <3>2. One(held'[BucketOf(k)] = k) <= One(held[BucketOf(k)] = k) + One(k = watchCh[b])
      BY <1>1, <2>1, <2>4 DEF Types, WatchTypes, Slots, One
    <3>3. Pipeline(k)' <= Pipeline(k) + One(k = watchCh[b])
      BY <1>1, <2>2, <3>2 DEF Pipeline, One
    <3>4. Pipeline(k)' \in Nat
      BY <1>1, <2>2 DEF Pipeline, One
    <3> QED
      BY <1>1, <2>2, <3>1, <3>3, <3>4 DEF Piped, One
  <2> QED
    BY <1>2, <2>3, <2>4 DEF WatchReceive
<1>3. CASE WatchSend(b)
  <2>1. held[b] \in Contents /\ BucketOf(held[b]) = b
    BY <1>3 DEF WatchSend, Placed, Types, WatchTypes, Slots
  <2>2. UNCHANGED <<batch, emitted, passed>>
    BY <1>3 DEF WatchSend
  <2>3. Occurs(observed, k)' = Occurs(observed, k) + One(held[b] = k)
    <3>1. observed \in Seq(Contents) /\ observed' = Append(observed, held[b])
      BY <1>3 DEF WatchSend, Types, ProcTypes
    <3> QED
      BY <2>1, <3>1, OccursAppend
  <2>4. One(held'[BucketOf(k)] = k) = One(held[BucketOf(k)] = k) - One(held[b] = k)
    BY <1>1, <1>3, <2>1 DEF WatchSend, Types, WatchTypes, Slots, One
  <2>5. Pipeline(k)' = Pipeline(k)
    BY <1>1, <2>2, <2>3, <2>4 DEF Pipeline, One
  <2> QED
    BY <2>2, <2>5 DEF Piped
<1>4. CASE WatchExit(b)
  BY <1>4 DEF WatchExit, Piped, Pipeline
<1> QED
  BY <1>2, <1>3, <1>4

(* The coalescing window moves an event into the batch, where it takes the *)
(* place of an older one.                                                  *)
LEMMA TakePiped ==
    ASSUME Types, Placed, NEW k \in Contents, Piped(k), ProcTake
    PROVE  Piped(k)'
<1>1. /\ Occurs(observed, k) \in Nat /\ Pipeline(k) \in Nat
      /\ emitted[k] \in Nat /\ passed[k] \in Nat /\ k # NoData /\ k \in Hashes
      /\ BucketOf(k) \in Buckets
  BY PipelineTypes
<1>2. UNCHANGED <<held, emitted, passed>>
  BY DEF ProcTake
<1>3. /\ observed \in Seq(Contents) /\ observed # <<>> /\ Head(observed) \in Contents
      /\ observed' = Tail(observed)
  BY DEF ProcTake, Types, ProcTypes
<1>4. Occurs(observed, k)' = Occurs(observed, k) - One(Head(observed) = k)
  BY <1>3, OccursTail
<1>5. One(batch'[BucketOf(k)] = k) <= One(batch[BucketOf(k)] = k) + One(Head(observed) = k)
  BY <1>1, <1>3, BucketType DEF ProcTake, Coalesce, Types, ProcTypes, Slots, One
<1>6. Pipeline(k)' <= Pipeline(k) /\ Pipeline(k)' \in Int
  BY <1>1, <1>2, <1>4, <1>5 DEF Pipeline, One
<1> QED
  BY <1>1, <1>2, <1>6 DEF Piped

(* Emitting moves one content from the batch to the emitted ones, and      *)
(* refusing it drops it.                                                   *)
LEMMA EmitPiped ==
    ASSUME Types, Placed, NEW k \in Contents, Piped(k),
           NEW b \in Buckets, NEW next, Emit(b, next)
    PROVE  Piped(k)'
<1>1. /\ Occurs(observed, k) \in Nat /\ Pipeline(k) \in Nat
      /\ emitted[k] \in Nat /\ passed[k] \in Nat /\ k # NoData /\ k \in Hashes
      /\ BucketOf(k) \in Buckets
  BY PipelineTypes
<1>2. UNCHANGED <<held, observed, passed>>
  BY DEF Emit
<1>3. batch' = [batch EXCEPT ![b] = NoData]
  BY DEF Emit
<1>4. batch[b] # NoData => BucketOf(batch[b]) = b
  BY DEF Placed
<1>5. CASE emitted' = emitted
  <2>1. One(batch'[BucketOf(k)] = k) <= One(batch[BucketOf(k)] = k)
    BY <1>1, <1>3 DEF Types, ProcTypes, Slots, One
  <2> QED
    BY <1>1, <1>2, <1>5, <2>1 DEF Piped, Pipeline, One
<1>6. CASE batch[b] \in Sendable /\ emitted' = [emitted EXCEPT ![batch[b]] = @ + 1]
  <2>1. batch[b] \in Hashes /\ batch[b] # NoData /\ BucketOf(batch[b]) = b
    BY <1>4, <1>6, DataAssumption DEF Hashes
  <2>2. emitted'[k] = emitted[k] + One(batch[b] = k)
    BY <1>1, <1>6, <2>1 DEF Types, HistoryTypes, Counters, One
  <2>3. One(batch'[BucketOf(k)] = k) = One(batch[BucketOf(k)] = k) - One(batch[b] = k)
    BY <1>1, <1>3, <2>1 DEF Types, ProcTypes, Slots, One
  <2> QED
    BY <1>1, <1>2, <2>2, <2>3 DEF Piped, Pipeline, One
<1> QED
  BY <1>5, <1>6 DEF Emit

(* Every step keeps the pipeline in its books.                             *)
LEMMA PipedStep ==
    ASSUME Types, Sorted, Placed, NEW k \in Contents, Piped(k), [Next]_vars
    PROVE  Piped(k)'
<1>1. Types'
  BY TypeStep
<1>2. CASE \/ Tick \/ Stop \/ ProcWindow \/ ProcExit \/ TakeEvent \/ UNCHANGED vars
           \/ \E a \in Appliers : ApplyStep(a)
           \/ \E c \in ClipValues : LocalCopy(c)
           \/ \E b \in Buckets : Poll(b) \/ PollUnchanged(b)
  <2>1. UNCHANGED <<held, observed, batch, emitted, passed>>
    BY <1>2 DEF Tick, Stop, ProcWindow, ProcExit, TakeEvent, vars, ApplyStep, ApplyRemember,
       ApplyWrite, ApplyWriteFails, ApplyForget, LocalCopy, Poll, PollUnchanged
  <2> QED
    BY <2>1 DEF Piped, Pipeline
<1>3. CASE \E b \in Buckets : WatchReceive(b) \/ WatchSend(b) \/ WatchExit(b)
  BY <1>1, <1>3, WatchPiped
<1>4. CASE ProcTake
  BY <1>4, TakePiped
<1>5. CASE Emit("text", "image") \/ Emit("image", "idle")
  BY <1>5, EmitPiped DEF Buckets
<1> QED
  BY <1>2, <1>3, <1>4, <1>5 DEF Next

(* The inductive invariant of the pipeline: the ledger's, and the books of *)
(* what travels from the watchLoops to m.events.                           *)
PipelineInv == LedgerInv /\ Placed /\ \A k \in Contents : Piped(k)

(* The pipeline's invariant holds in every reachable state.                *)
THEOREM PipelineInvariant == Spec => []PipelineInv
<1>1. Init => PipelineInv
  BY TypeInit, BalanceInit, PipelineInit DEF PipelineInv, LedgerInv
<1>2. PipelineInv /\ [Next]_vars => PipelineInv'
  <2> SUFFICES ASSUME PipelineInv, [Next]_vars PROVE PipelineInv'
    OBVIOUS
  <2>1. LedgerInv'
    BY TypeStep, SortedStep, BalanceStep DEF PipelineInv, LedgerInv
  <2>2. Placed'
    BY PlacedStep DEF PipelineInv, LedgerInv
  <2>3. \A k \in Contents : Piped(k)'
    BY PipedStep DEF PipelineInv, LedgerInv
  <2> QED
    BY <2>1, <2>2, <2>3 DEF PipelineInv
<1> QED
  BY <1>1, <1>2, PTL DEF Spec

(* No echo leaves the manager: neither the coalescing window nor the two   *)
(* bounded channels turn one forwarded content into two payloads, and what *)
(* was forwarded is covered by local copies and expired counts.            *)
THEOREM NoEchoIsEmitted == Spec => []NoEchoEmitted
<1>1. PipelineInv => NoEchoEmitted
  <2> SUFFICES ASSUME PipelineInv, NEW k \in Contents
               PROVE  emitted[k] <= local[k] + expired[k]
    BY DEF NoEchoEmitted
  <2>1. Types /\ NoEcho /\ Piped(k)
    BY DEF PipelineInv, LedgerInv
  <2>2. emitted[k] \in Nat /\ passed[k] \in Nat /\ Pipeline(k) \in Nat
    BY <2>1, PipelineTypes
  <2>3. local[k] \in Nat /\ expired[k] \in Nat
    BY <2>1, BalanceTypes
  <2> QED
    BY <2>1, <2>2, <2>3 DEF NoEcho, Piped
<1> QED
  BY <1>1, PipelineInvariant, PTL

-----------------------------------------------------------------------------
(* The newest content of a format wins.                                    *)

Mine(s, b) == {i \in 1 .. Len(s) : BucketOf(s[i]) = b}
Youngest(s, b) == s[CHOOSE i \in Mine(s, b) : \A j \in Mine(s, b) : j <= i]

(* The youngest event of a format is at its greatest position.             *)
LEMMA YoungestAt ==
    ASSUME NEW s \in Seq(Contents), NEW b, NEW i \in Mine(s, b),
           \A j \in Mine(s, b) : j <= i
    PROVE  Youngest(s, b) = s[i]
<1>1. Mine(s, b) \subseteq Int
  BY DEF Mine
<1>2. \A m \in Mine(s, b) : (\A j \in Mine(s, b) : j <= m) => m = i
  BY <1>1
<1>3. (CHOOSE m \in Mine(s, b) : \A j \in Mine(s, b) : j <= m) = i
  BY <1>2
<1> QED
  BY <1>3 DEF Youngest

(* An event that is sent is the youngest one of its format, and changes    *)
(* nothing for the other.                                                  *)
LEMMA MineAppend ==
    ASSUME NEW s \in Seq(Contents), NEW d \in Contents, NEW b
    PROVE  /\ BucketOf(d) = b => /\ Mine(Append(s, d), b) # {}
                                 /\ Youngest(Append(s, d), b) = d
           /\ BucketOf(d) # b => /\ Mine(Append(s, d), b) = Mine(s, b)
                                 /\ Mine(s, b) # {} => Youngest(Append(s, d), b) = Youngest(s, b)
<1> DEFINE t == Append(s, d)
<1>1. /\ t \in Seq(Contents) /\ Len(s) \in Nat /\ Len(t) = Len(s) + 1
      /\ t[Len(s) + 1] = d /\ \A i \in 1 .. Len(s) : t[i] = s[i]
  BY AppendProperties, LenProperties
<1> HIDE DEF t
<1>2. CASE BucketOf(d) = b
  <2>1. Len(s) + 1 \in Mine(t, b) /\ \A j \in Mine(t, b) : j <= Len(s) + 1
    BY <1>1, <1>2 DEF Mine
  <2>2. Youngest(t, b) = d
    BY <1>1, <2>1, YoungestAt
  <2> QED
    BY <1>2, <2>1, <2>2 DEF t
<1>3. CASE BucketOf(d) # b
  <2>1. Mine(t, b) = Mine(s, b)
    BY <1>1, <1>3 DEF Mine
  <2>2. ASSUME Mine(s, b) # {} PROVE Youngest(t, b) = Youngest(s, b)
    <3>1. PICK i \in Mine(s, b) : \A j \in Mine(s, b) : j <= i
      BY <1>1, <2>2, GreatestExists DEF Mine
    <3>2. Youngest(s, b) = s[i] /\ Youngest(t, b) = t[i]
      BY <1>1, <2>1, <3>1, YoungestAt
    <3> QED
      BY <1>1, <3>2 DEF Mine
  <2> QED
    BY <1>3, <2>1, <2>2 DEF t
<1> QED
  BY <1>2, <1>3

(* Receiving the oldest event changes the youngest one of a format only    *)
(* when it was the last of that format.                                    *)
LEMMA MineTail ==
    ASSUME NEW s \in Seq(Contents), s # <<>>, NEW b
    PROVE  /\ Mine(Tail(s), b) # {} => /\ Mine(s, b) # {}
                                       /\ Youngest(Tail(s), b) = Youngest(s, b)
           /\ Mine(Tail(s), b) = {} /\ BucketOf(Head(s)) = b =>
                  Mine(s, b) # {} /\ Youngest(s, b) = Head(s)
           /\ Mine(Tail(s), b) = {} /\ BucketOf(Head(s)) # b => Mine(s, b) = {}
<1> DEFINE t == Tail(s)
<1>1. /\ t \in Seq(Contents) /\ Len(s) \in Nat \ {0} /\ Len(t) = Len(s) - 1
      /\ Head(s) = s[1] /\ \A i \in 1 .. Len(s) - 1 : t[i] = s[i + 1]
  BY HeadTailProperties, LenProperties, EmptySeq
<1> HIDE DEF t
<1>2. \A j \in Mine(s, b) : j = 1 \/ j - 1 \in Mine(t, b)
  <2> SUFFICES ASSUME NEW j \in Mine(s, b), j # 1 PROVE j - 1 \in Mine(t, b)
    OBVIOUS
  <2>1. j \in 2 .. Len(s) /\ BucketOf(s[j]) = b
    BY <1>1 DEF Mine
  <2>2. j - 1 \in 1 .. Len(s) - 1 /\ (j - 1) + 1 = j
    BY <1>1, <2>1
  <2>3. t[j - 1] = s[j]
    BY <1>1, <2>2
  <2> QED
    BY <1>1, <2>1, <2>2, <2>3 DEF Mine
<1>3. 1 \in Mine(s, b) <=> BucketOf(Head(s)) = b
  BY <1>1 DEF Mine
<1>4. ASSUME Mine(t, b) # {} PROVE Mine(s, b) # {} /\ Youngest(t, b) = Youngest(s, b)
  <2>0. Len(t) \in Nat /\ Mine(t, b) \subseteq 1 .. Len(t)
    BY <1>1 DEF Mine
  <2>1. PICK i \in Mine(t, b) : \A j \in Mine(t, b) : j <= i
    BY <1>4, <2>0, GreatestExists
  <2>2. i + 1 \in Mine(s, b) /\ s[i + 1] = t[i]
    BY <1>1 DEF Mine
  <2>3. \A j \in Mine(s, b) : j <= i + 1
    BY <1>2, <2>1 DEF Mine
  <2> QED
    BY <1>1, <2>1, <2>2, <2>3, YoungestAt
<1>5. ASSUME Mine(t, b) = {}, BucketOf(Head(s)) = b
      PROVE  Mine(s, b) # {} /\ Youngest(s, b) = Head(s)
  <2>1. 1 \in Mine(s, b) /\ \A j \in Mine(s, b) : j <= 1
    BY <1>2, <1>3, <1>5
  <2> QED
    BY <1>1, <2>1, YoungestAt
<1>6. ASSUME Mine(t, b) = {}, BucketOf(Head(s)) # b PROVE Mine(s, b) = {}
  BY <1>2, <1>3, <1>6
<1> QED
  BY <1>4, <1>5, <1>6 DEF t

(* Where the youngest content of a format is: held by its watchLoop, in    *)
(* the channel, in the batch, or settled.                                  *)
YoungestOf(b) ==
    IF held[b] # NoData THEN held[b]
    ELSE IF Mine(observed, b) # {} THEN Youngest(observed, b)
    ELSE IF batch[b] # NoData THEN batch[b]
    ELSE settled[b]

(* That is what the property says of the pipeline.                         *)
LEMMA LastOfIsYoungest == ASSUME NEW b \in Buckets PROVE LastOf(b) = YoungestOf(b)
BY Zenon DEF LastOf, YoungestOf, Mine, Youngest

(* Every step keeps the newest content of a format the youngest one.       *)
LEMMA NewestStep ==
    ASSUME Types, Types', Sorted, Placed, NEW x \in Buckets, YoungestOf(x) = newest[x],
           [Next]_vars
    PROVE  YoungestOf(x)' = newest'[x]
<1>1. CASE \/ Tick \/ Stop \/ ProcWindow \/ ProcExit \/ TakeEvent \/ UNCHANGED vars
           \/ \E a \in Appliers : ApplyStep(a)
           \/ \E c \in ClipValues : LocalCopy(c)
           \/ \E b \in Buckets : Poll(b) \/ PollUnchanged(b) \/ WatchExit(b)
  <2>1. UNCHANGED <<held, observed, batch, settled, newest>>
    BY <1>1 DEF Tick, Stop, ProcWindow, ProcExit, TakeEvent, vars, ApplyStep, ApplyRemember,
       ApplyWrite, ApplyWriteFails, ApplyForget, LocalCopy, Poll, PollUnchanged, WatchExit
  <2> QED
    BY <2>1 DEF YoungestOf
<1>2. ASSUME NEW b \in Buckets, WatchReceive(b) PROVE YoungestOf(x)' = newest'[x]
  <2>1. watchCh[b] \in Contents /\ watchCh[b] # NoData /\ UNCHANGED <<observed, batch, settled>>
    BY <1>2 DEF WatchReceive, Types, WatchTypes, Slots
  <2>2. CASE UNCHANGED <<watchVars, passed, newest>>
    BY <2>1, <2>2 DEF YoungestOf
  <2>3. CASE /\ held' = [held EXCEPT ![b] = watchCh[b]]
             /\ newest' = [newest EXCEPT ![b] = watchCh[b]]
    BY <2>1, <2>3 DEF YoungestOf, Types, WatchTypes, HistoryTypes, Slots
  <2> QED
    BY <1>2, <2>2, <2>3 DEF WatchReceive
<1>3. ASSUME NEW b \in Buckets, WatchSend(b) PROVE YoungestOf(x)' = newest'[x]
  <2>1. held[b] \in Contents /\ held[b] # NoData /\ BucketOf(held[b]) = b
    BY <1>3 DEF WatchSend, Placed, Types, WatchTypes, Slots
  <2>2. /\ observed \in Seq(Contents) /\ observed' = Append(observed, held[b])
        /\ held' = [held EXCEPT ![b] = NoData] /\ UNCHANGED <<batch, settled, newest>>
    BY <1>3 DEF WatchSend, Types, ProcTypes
  <2>3. CASE x = b
    <3>1. Mine(observed', x) # {} /\ Youngest(observed', x) = held[b]
      BY <2>1, <2>2, <2>3, MineAppend
    <3>2. held'[x] = NoData /\ newest[x] = held[b]
      BY <2>1, <2>2, <2>3 DEF YoungestOf, Types, WatchTypes, Slots
    <3> QED
      BY <2>2, <3>1, <3>2 DEF YoungestOf
  <2>4. CASE x # b
    <3>1. /\ Mine(observed', x) = Mine(observed, x)
          /\ Mine(observed, x) # {} => Youngest(observed', x) = Youngest(observed, x)
      BY <2>1, <2>2, <2>4, MineAppend
    <3>2. held'[x] = held[x]
      BY <2>2, <2>4 DEF Types, WatchTypes, Slots
    <3> QED
      BY <2>2, <3>1, <3>2 DEF YoungestOf
  <2> QED
    BY <2>3, <2>4
<1>4. CASE ProcTake
  <2> DEFINE h == Head(observed)
  <2>1. /\ observed \in Seq(Contents) /\ observed # <<>> /\ h \in Contents
        /\ observed' = Tail(observed) /\ UNCHANGED <<held, settled, newest>>
    BY <1>4 DEF ProcTake, Types, ProcTypes
  <2>2. h # NoData /\ BucketOf(h) \in Buckets /\ batch' = [batch EXCEPT ![BucketOf(h)] = h]
    BY <1>4, <2>1, DataAssumption, BucketType DEF ProcTake, Coalesce, Hashes
  <2>3. batch'[x] = IF BucketOf(h) = x THEN h ELSE batch[x]
    BY <2>2 DEF Types, ProcTypes, Slots
  <2>4. /\ Mine(observed', x) # {} => /\ Mine(observed, x) # {}
                                      /\ Youngest(observed', x) = Youngest(observed, x)
        /\ Mine(observed', x) = {} /\ BucketOf(h) = x =>
               Mine(observed, x) # {} /\ Youngest(observed, x) = h
        /\ Mine(observed', x) = {} /\ BucketOf(h) # x => Mine(observed, x) = {}
    BY <2>1, MineTail
  <2> QED
    BY <2>1, <2>2, <2>3, <2>4 DEF YoungestOf
<1>5. ASSUME NEW b \in Buckets, NEW next, Emit(b, next) PROVE YoungestOf(x)' = newest'[x]
  <2>1. /\ UNCHANGED <<held, observed, newest>> /\ batch' = [batch EXCEPT ![b] = NoData]
        /\ settled' = IF batch[b] = NoData THEN settled ELSE [settled EXCEPT ![b] = batch[b]]
    BY <1>5 DEF Emit
  <2> QED
    BY <2>1 DEF YoungestOf, Types, ProcTypes, HistoryTypes, Slots
<1> QED
  BY <1>1, <1>2, <1>3, <1>4, <1>5 DEF Next, Buckets

(* The newest content of each format that was not suppressed is never      *)
(* dropped or overtaken between its watchLoop and m.events.                *)
THEOREM NewestIsKept == Spec => []NewestWins
<1> DEFINE Kept == \A b \in Buckets : YoungestOf(b) = newest[b]
<1>1. Init => Kept
  <2>1. ASSUME Init, NEW b \in Buckets PROVE YoungestOf(b) = newest[b]
    <3>1. PICK e \in Seq(Contents) : e = observed /\ Len(e) = 0
      BY <2>1, TypeInit, EmptySeq, LenProperties DEF Init, Types, ProcTypes
    <3>2. Mine(observed, b) = {}
      BY <3>1 DEF Mine
    <3> QED
      BY <2>1, <3>2 DEF Init, Nothing, YoungestOf
  <2> QED
    BY <2>1
<1>2. PipelineInv /\ PipelineInv' /\ Kept /\ [Next]_vars => Kept'
  BY NewestStep DEF PipelineInv, LedgerInv
<1>3. Kept => NewestWins
  BY LastOfIsYoungest DEF NewestWins
<1> QED
  BY <1>1, <1>2, <1>3, PipelineInvariant, PTL DEF Spec
=============================================================================
