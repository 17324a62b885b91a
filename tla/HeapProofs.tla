----------------------------- MODULE HeapProofs -----------------------------
(***************************************************************************)
(* Proofs about the heap, for every number of slots, allocations,          *)
(* captures and roots, and every generation width.                         *)
(***************************************************************************)
EXTENDS Heap, FiniteSetTheorems, SequenceTheorems, TLAPS

(***************************************************************************)
(* Type correctness.                                                       *)
(***************************************************************************)

(* A frame is never mistaken for an empty slot.                            *)
LEMMA FrameIsNoHole == \A f \in Frames : f # NoFrame
<1>1. \A f \in Frames : DOMAIN f = {"parent", "vars"}
  BY DEF Frames
<1>2. DOMAIN NoFrame = {"parent"}
  BY DEF NoFrame
<1>3. QED
  BY <1>1, <1>2

LEMMA EmptyFrameType ==
  ASSUME NEW p \in Handles \cup {NoHandle}
  PROVE  EmptyFrame(p) \in Frames
BY DEF EmptyFrame, Frames

LEMMA BindType ==
  ASSUME NEW f \in Frames, NEW x \in Names, NEW v \in SUBSET Handles
  PROVE  Bind(f, x, v) \in Frames
BY DEF Bind, Frames

LEMMA RefsType ==
  ASSUME NEW f \in Frames
  PROVE  Refs(f) \subseteq Handles
BY DEF Refs, BoundNames, Frames

(* What a slot holds is a frame exactly when it is occupied, and the live  *)
(* handles are those of the occupied slots.                                *)
LEMMA LiveFacts ==
  ASSUME TypeOK
  PROVE  /\ \A i \in Occupied : i \in Slots /\ data[i] \in Frames
         /\ \A i \in Occupied : HandleOf(i) \in Live
         /\ \A h \in Live : h.idx \in Occupied /\ h = HandleOf(h.idx)
         /\ Live \subseteq Handles
         /\ DOMAIN Store = Live
         /\ \A h \in Live : Store[h] = data[h.idx]
<1>1. \A i \in Occupied : i \in Slots /\ data[i] \in Frames
  BY BoundsAssumption DEF TypeOK, Occupied, Slots
<1>2. \A h \in Live : h.idx \in Occupied /\ h = HandleOf(h.idx)
  BY DEF Live, HandleOf
<1>3. Live \subseteq Handles
  BY <1>1 DEF TypeOK, Live, HandleOf, Handles
<1>4. QED
  BY <1>1, <1>2, <1>3 DEF Live, Store

(* What a step finds in a frame it resolves a name to.                     *)
LEMMA ResolveFacts ==
  ASSUME TypeOK, NEW h, NEW x \in Names, NEW b \in Resolve(Store, h, x)
  PROVE  /\ b \in Live
         /\ b.idx \in Slots
         /\ data[b.idx] \in Frames
         /\ x \in BoundNames(data[b.idx])
<1>1. b \in DOMAIN Store /\ x \in BoundNames(Store[b])
  BY DEF Resolve, Binders, Scope
<1>2. QED
  BY <1>1, LiveFacts

LEMMA BoundValueType ==
  ASSUME NEW f \in Frames, NEW x \in BoundNames(f)
  PROVE  /\ x \in Names
         /\ f.vars[x] \in SUBSET Handles
         /\ f.vars[x] \subseteq Refs(f)
BY DEF Frames, BoundNames, Refs

LEMMA PopType ==
  ASSUME NEW S, NEW s \in Seq(S), s # << >>
  PROVE  /\ SubSeq(s, 1, Len(s) - 1) \in Seq(S)
         /\ Len(s) \in Nat /\ Len(s) >= 1
         /\ s[Len(s)] \in S
<1>1. Len(s) \in Nat /\ Len(s) >= 1
  BY EmptySeq
<1>2. \A i \in 1..Len(s) : s[i] \in S
  BY ElementOfSeq
<1>3. QED
  BY <1>1, <1>2, SubSeqProperties

LEMMA PlaceType ==
  ASSUME TypeOK, NEW p \in Handles \cup {NoHandle}, Place(p)
  PROVE  TypeOK'
<1> USE GenModAssumption, BoundsAssumption
<1>1. EmptyFrame(p) \in Frames
  BY EmptyFrameType
<1>2. CASE ReuseSlot(p)
  <2> DEFINE i == freeList[Len(freeList)]
             g == NextGeneration(generation[i])
  <2>1. i \in Slots /\ SubSeq(freeList, 1, Len(freeList) - 1) \in Seq(Slots)
    BY <1>2, PopType DEF ReuseSlot, TypeOK
  <2>2. g \in 0..(GenMod - 1)
    BY <2>1 DEF NextGeneration, TypeOK
  <2>3. birth[i] + 1 \in 0..MaxAllocs
    BY <1>2, <2>1 DEF ReuseSlot, TypeOK
  <2>4. [idx |-> i, generation |-> g, birth |-> birth[i] + 1] \in Handles
    BY <2>1, <2>2, <2>3 DEF Handles
  <2> HIDE DEF i, g
  <2>5. issued' \subseteq Handles /\ held' \subseteq Handles
    BY <1>2, <2>4 DEF ReuseSlot, Return, TypeOK, i, g
  <2>6. /\ generation' \in [Slots -> 0..(GenMod - 1)]
        /\ birth' \in [Slots -> 0..MaxAllocs]
        /\ data' \in [Slots -> Frames \cup {NoFrame}]
    BY <1>1, <1>2, <2>1, <2>2, <2>3 DEF ReuseSlot, TypeOK, i, g
  <2>7. freeList' \in Seq(Slots) /\ marked' \subseteq 1..size /\ size' = size
    BY <1>2, <2>1 DEF ReuseSlot, TypeOK
  <2>8. QED
    BY <2>5, <2>6, <2>7 DEF Place, TypeOK
<1>3. CASE GrowHeap(p)
  <2>1. size + 1 \in Slots /\ size' = size + 1
    BY <1>3 DEF GrowHeap, TypeOK, Slots
  <2>2. [idx |-> size + 1, generation |-> 0, birth |-> 0] \in Handles
    BY <2>1 DEF Handles
  <2>3. issued' \subseteq Handles /\ held' \subseteq Handles
    BY <1>3, <2>2 DEF GrowHeap, Return, TypeOK
  <2>4. data' \in [Slots -> Frames \cup {NoFrame}]
    BY <1>1, <1>3, <2>1 DEF GrowHeap, TypeOK
  <2>5. marked' \subseteq 1..size' /\ size' \in 0..MaxSlots
    BY <1>3, <2>1 DEF GrowHeap, TypeOK, Slots
  <2>6. QED
    BY <1>3, <2>3, <2>4, <2>5 DEF GrowHeap, Place, TypeOK
<1>4. QED
  BY <1>2, <1>3 DEF Place

LEMMA StartCollectType ==
  ASSUME TypeOK, NEW rs \in SUBSET Handles, NEW next \in {"idle", "alloc"},
         StartCollect(rs, next), newParent' \in Handles \cup {NoHandle}
  PROVE  TypeOK'
BY BoundsAssumption DEF TypeOK, StartCollect

LEMMA AccessType ==
  ASSUME TypeOK, NEW H \in SUBSET Handles, Access(H),
         data' \in [Slots -> Frames \cup {NoFrame}]
  PROVE  TypeOK'
BY DEF TypeOK, Access, gcVars

LEMMA RootSetType == TypeOK => RootSet \in SUBSET Handles
BY ElementOfSeq DEF TypeOK, RootSet

LEMMA GcStepType == TypeOK /\ GcStep => TypeOK'
<1> SUFFICES ASSUME TypeOK, GcStep PROVE TypeOK'
  OBVIOUS
<1>1. ASSUME NEW h \in markStack, MarkStep(h) PROVE TypeOK'
  <2>1. CASE Fresh(h)
    <3>1. h.idx \in Occupied
      BY <2>1 DEF Fresh, Check, Occupied, TypeOK, Handles, Slots
    <3>2. Children(h.idx) \subseteq Handles
      BY <3>1, LiveFacts, RefsType DEF Children
    <3>3. marked' \subseteq 1..size /\ markStack' \subseteq Handles
      BY <1>1, <2>1, <3>1, <3>2 DEF MarkStep, TypeOK, Occupied
    <3>4. QED
      BY <1>1, <3>3 DEF MarkStep, TypeOK, gcVars
  <2>2. CASE ~Fresh(h)
    BY <1>1, <2>2 DEF MarkStep, TypeOK, gcVars
  <2>3. QED
    BY <2>1, <2>2
<1>2. CASE MarkDone
  BY <1>2 DEF MarkDone, TypeOK, heapVars, gcVars
<1>3. CASE SweepStep
  <2>1. cursor \in Slots /\ cursor + 1 \in 1..(MaxSlots + 1)
    BY <1>3, BoundsAssumption DEF SweepStep, TypeOK, Slots
  <2>2. CASE SweepFree(cursor)
    <3>1. data' \in [Slots -> Frames \cup {NoFrame}] /\ freeList' \in Seq(Slots)
      BY <2>1, <2>2 DEF SweepFree, TypeOK
    <3>3. liveCount' \in Int /\ marked' = marked
      BY <2>2 DEF SweepFree, TypeOK
    <3>4. QED
      BY <1>3, <2>1, <3>1, <3>3 DEF SweepStep, TypeOK
  <2>3. CASE SweepSkip(cursor)
    BY <1>3, <2>1, <2>3 DEF SweepStep, SweepSkip, TypeOK
  <2>4. QED
    BY <1>3, <2>2, <2>3 DEF SweepStep
<1>4. CASE SweepDone
  BY <1>4, BoundsAssumption DEF SweepDone, TypeOK, heapVars
<1>5. CASE FinishAlloc
  BY <1>5, PlaceType DEF FinishAlloc, TypeOK
<1>6. QED
  BY <1>1, <1>2, <1>3, <1>4, <1>5 DEF GcStep

LEMMA ClientStepType == TypeOK /\ ClientStep => TypeOK'
<1> SUFFICES ASSUME TypeOK, ClientStep PROVE TypeOK'
  OBVIOUS
<1>0. held \in SUBSET Handles
  BY DEF TypeOK
<1>1. ASSUME NEW p \in held \cup {NoHandle}, Alloc(p) PROVE TypeOK'
  <2>1. p \in Handles \cup {NoHandle}
    BY <1>0
  <2>2. CASE Place(p)
    BY <2>1, <2>2, PlaceType
  <2>3. CASE StartCollect(RootSet, "alloc") /\ newParent' = p
    BY <2>1, <2>3, RootSetType, StartCollectType
  <2>4. QED
    BY <1>1, <2>2, <2>3 DEF Alloc
<1>2. ASSUME NEW h \in held, NEW x \in Names, EnvGet(h, x) PROVE TypeOK'
  <2>1. PICK b \in Resolve(Store, h, x) : Access(held \cup data[b.idx].vars[x])
    BY <1>2 DEF EnvGet
  <2>2. data[b.idx].vars[x] \in SUBSET Handles
    BY ResolveFacts, BoundValueType
  <2>3. data' = data
    BY <1>2 DEF EnvGet
  <2>4. data' \in [Slots -> Frames \cup {NoFrame}]
    BY <2>3 DEF TypeOK
  <2>5. held \cup data[b.idx].vars[x] \in SUBSET Handles
    BY <1>0, <2>2
  <2>6. QED
    BY <2>1, <2>4, <2>5, AccessType
<1>3. ASSUME NEW h \in held, NEW x \in Names, NEW v \in Values, EnvSet(h, x, v)
      PROVE TypeOK'
  <2>1. h.idx \in Slots /\ v \in SUBSET Handles /\ data[h.idx] \in Frames
    BY <1>0, <1>3 DEF Values, Handles, EnvSet, Check, TypeOK
  <2>2. Bind(data[h.idx], x, v) \in Frames
    BY <2>1, BindType
  <2>3. data' \in [Slots -> Frames \cup {NoFrame}]
    BY <1>3, <2>1, <2>2 DEF EnvSet, TypeOK
  <2>4. QED
    BY <1>0, <1>3, <2>3, AccessType DEF EnvSet
<1>4. ASSUME NEW h \in held, NEW x \in Names, NEW v \in Values,
             EnvAssign(h, x, v)
      PROVE TypeOK'
  <2>1. PICK b \in Resolve(Store, h, x) :
          data' = [data EXCEPT ![b.idx] = Bind(@, x, v)]
    BY <1>4 DEF EnvAssign
  <2>2. Bind(data[b.idx], x, v) \in Frames
    BY <1>0, ResolveFacts, BindType DEF Values
  <2>3. data' \in [Slots -> Frames \cup {NoFrame}]
    BY <2>1, <2>2 DEF TypeOK
  <2>4. QED
    BY <1>0, <1>4, <2>3, AccessType DEF EnvAssign
<1>5. ASSUME NEW h \in held, ParentOf(h) PROVE TypeOK'
  <2>1. data[h.idx] \in Frames
    BY <1>0, <1>5 DEF ParentOf, Check, TypeOK, Handles
  <2>2. data[h.idx].parent \in Handles
    BY <1>5, <2>1 DEF ParentOf, Frames
  <2>3. QED
    BY <1>0, <1>5, <2>2, AccessType DEF ParentOf, TypeOK
<1>6. ASSUME NEW h \in held, Release(h) PROVE TypeOK'
  BY <1>0, <1>6, AccessType DEF Release, TypeOK
<1>7. ASSUME NEW h \in held, PushRoot(h) PROVE TypeOK'
  BY <1>0, <1>7 DEF PushRoot, TypeOK, heapVars, gcVars
<1>8. CASE PopRoot
  BY <1>8, PopType DEF PopRoot, TypeOK, heapVars, gcVars
<1>9. CASE Panic
  BY <1>9 DEF Panic, TypeOK, heapVars, gcVars
<1>10. QED
  BY <1>1, <1>2, <1>3, <1>4, <1>5, <1>6, <1>7, <1>8, <1>9 DEF ClientStep

(* Every field of the heap keeps its type, whatever the client does.       *)
THEOREM TypeCorrect == Spec => []TypeOK
<1>1. Init => TypeOK
  <2>1. NoFrame \in Frames \cup {NoFrame}
    OBVIOUS
  <2>2. QED
    BY <2>1, GenModAssumption, BoundsAssumption, EmptySeq DEF Init, TypeOK, Slots
<1>2. TypeOK /\ [Next]_vars => TypeOK'
  <2> SUFFICES ASSUME TypeOK, [Next]_vars PROVE TypeOK'
    OBVIOUS
  <2>1. ASSUME NEW t \in Thresholds, SetGcThreshold(t) PROVE TypeOK'
    BY <2>1, BoundsAssumption DEF SetGcThreshold, TypeOK, gcVars
  <2>2. ASSUME NEW rs \in SUBSET Handles, CollectWith(rs) PROVE TypeOK'
    BY <2>2, StartCollectType DEF CollectWith, TypeOK
  <2>3. issued \in SUBSET Handles /\ RootSet \in SUBSET Handles
    BY RootSetType DEF TypeOK
  <2>4. CASE AutomaticCollection
    BY <2>2, <2>3, <2>4
       DEF AutomaticCollection, MaybeCollect, MaybeCollectRegisteredRoots
  <2>5. CASE \E rs \in SUBSET issued : Collect(rs)
    BY <2>2, <2>3, <2>5 DEF Collect
  <2>6. CASE CollectRegisteredRoots
    BY <2>2, <2>3, <2>6 DEF CollectRegisteredRoots
  <2>7. CASE UNCHANGED vars
    BY <2>7 DEF vars, heapVars, gcVars, TypeOK
  <2>8. QED
    BY <2>1, <2>4, <2>5, <2>6, <2>7, GcStepType, ClientStepType DEF Next, Stopped
<1>3. QED
  BY <1>1, <1>2, PTL DEF Spec

-----------------------------------------------------------------------------
(***************************************************************************)
(* Bookkeeping: the free list and the live count.                          *)
(***************************************************************************)
BookInv == FreeListExact /\ LiveCountExact

FreeSet == {freeList[k] : k \in 1..Len(freeList)}

(* A step that fills and empties no slot leaves the bookkeeping right.     *)
Quiet ==
  size' = size /\ freeList' = freeList /\ liveCount' = liveCount
    /\ Occupied' = Occupied

LEMMA QuietBook == BookInv /\ Quiet => BookInv'
BY DEF BookInv, Quiet, FreeListExact, LiveCountExact

LEMMA SameDataQuiet ==
  ASSUME UNCHANGED <<size, data, freeList, liveCount>>
  PROVE  Quiet
BY DEF Quiet, Occupied

(* Writing a frame into an occupied slot fills and empties nothing.        *)
LEMMA RewriteOccupied ==
  ASSUME TypeOK, NEW i \in Slots, NEW f \in Frames, data[i] \in Frames,
         data' = [data EXCEPT ![i] = f], size' = size
  PROVE  Occupied' = Occupied
BY FrameIsNoHole DEF TypeOK, Occupied

LEMMA OccupiedFinite ==
  ASSUME TypeOK
  PROVE  IsFiniteSet(Occupied) /\ Cardinality(Occupied) \in Nat
<1>1. IsFiniteSet(1..size)
  BY FS_Interval DEF TypeOK
<1>2. QED
  BY <1>1, FS_Subset, FS_CardinalityType DEF Occupied

LEMMA FillBook ==
  ASSUME TypeOK, BookInv, NEW p \in Handles \cup {NoHandle}, Place(p)
  PROVE  BookInv'
<1>0. EmptyFrame(p) # NoFrame
  BY EmptyFrameType, FrameIsNoHole
<1>1. CASE ReuseSlot(p)
  <2> DEFINE n == Len(freeList)
             i == freeList[n]
  <2>1. n \in Nat /\ n >= 1 /\ i \in Slots
    BY <1>1, PopType DEF ReuseSlot, TypeOK
  <2>2. i \in (1..size) \ Occupied
    BY <2>1 DEF BookInv, FreeListExact
  <2>3. /\ Len(freeList') = n - 1
        /\ \A k \in 1..(n - 1) : freeList'[k] = freeList[k]
    <3>1. \A k \in 1..(n - 1) : freeList[k] \in Slots
      BY <2>1, ElementOfSeq DEF TypeOK
    <3>2. /\ Len(SubSeq(freeList, 1, n - 1)) = n - 1
          /\ \A k \in 1..(n - 1) : SubSeq(freeList, 1, n - 1)[k] = freeList[k]
      <4> HIDE DEF n
      <4>1. n - 1 \in Int /\ (1 <= n - 1 \/ n - 1 = 0)
        BY <2>1
      <4>2. Len(SubSeq(freeList, 1, n - 1)) = n - 1
        BY <3>1, <4>1, SubSeqProperties
      <4>3. \A k \in 1..(n - 1) : SubSeq(freeList, 1, n - 1)[k] = freeList[1 + k - 1]
        BY <3>1, <4>1, SubSeqProperties
      <4>4. QED
        BY <4>1, <4>2, <4>3
    <3>3. QED
      BY <1>1, <3>2 DEF ReuseSlot
  <2>4. Occupied' = Occupied \cup {i} /\ size' = size
    BY <1>0, <1>1, <2>1, <2>2 DEF ReuseSlot, Occupied, TypeOK
  <2>5. LiveCountExact'
    BY <2>2, <2>4, OccupiedFinite, FS_AddElement
       DEF BookInv, LiveCountExact, Place
  <2>6. FreeListExact'
    <3> HIDE DEF n
    <3>1. \A k, m \in 1..Len(freeList') : freeList'[k] = freeList'[m] => k = m
      BY <2>1, <2>3 DEF BookInv, FreeListExact, n
    <3>2. ASSUME NEW k \in 1..(n - 1) PROVE freeList'[k] \in FreeSet \ {i}
      <4>1. k \in 1..n /\ n \in 1..n /\ k # n
        BY <2>1
      <4>2. QED
        BY <2>3, <4>1 DEF BookInv, FreeListExact, FreeSet, n
    <3>3. ASSUME NEW j \in FreeSet \ {i} PROVE \E k \in 1..(n - 1) : freeList'[k] = j
      <4>1. PICK k \in 1..n : freeList[k] = j
        BY DEF FreeSet, n
      <4>2. k \in 1..(n - 1)
        BY <2>1, <3>3, <4>1
      <4>3. QED
        BY <2>3, <4>1, <4>2
    <3>4. FreeSet' = FreeSet \ {i}
      <4>1. FreeSet' = {freeList'[k] : k \in 1..(n - 1)}
        BY <2>3 DEF FreeSet
      <4> HIDE DEF i
      <4>2. QED
        BY <3>2, <3>3, <4>1
    <3>5. FreeSet = (1..size) \ Occupied
      BY DEF BookInv, FreeListExact, FreeSet
    <3>6. FreeSet' = (1..size') \ Occupied'
      BY <2>4, <3>4, <3>5
    <3>7. QED
      BY <3>1, <3>6 DEF FreeListExact, FreeSet
  <2>7. QED
    BY <2>5, <2>6 DEF BookInv
<1>2. CASE GrowHeap(p)
  <2>1. size + 1 \in Slots /\ size' = size + 1 /\ freeList' = freeList
    BY <1>2, BoundsAssumption DEF GrowHeap, TypeOK, Slots
  <2>2. Occupied' = Occupied \cup {size + 1} /\ size + 1 \notin Occupied
    <3>1. data' = [data EXCEPT ![size + 1] = EmptyFrame(p)] /\ size \in Nat
      BY <1>2 DEF GrowHeap, TypeOK
    <3>2. 1..(size + 1) = (1..size) \cup {size + 1}
      BY <3>1
    <3>3. \A j \in 1..size : j \in Slots /\ j # size + 1
      BY <2>1, <3>1, BoundsAssumption DEF Slots
    <3>4. \A j \in 1..size : data'[j] = data[j]
      BY <3>1, <3>3 DEF TypeOK
    <3>5. data'[size + 1] # NoFrame
      BY <1>0, <2>1, <3>1 DEF TypeOK
    <3>6. QED
      BY <2>1, <3>1, <3>2, <3>4, <3>5 DEF Occupied
  <2>3. LiveCountExact'
    BY <2>2, OccupiedFinite, FS_AddElement DEF BookInv, LiveCountExact, Place
  <2>4. (1..size') \ Occupied' = (1..size) \ Occupied
    BY <2>1, <2>2 DEF TypeOK
  <2>5. QED
    BY <2>1, <2>3, <2>4 DEF BookInv, FreeListExact
<1>3. QED
  BY <1>1, <1>2 DEF Place

LEMMA SweepFreeBook ==
  ASSUME TypeOK, BookInv, NEW i \in Slots, SweepFree(i), size' = size
  PROVE  BookInv'
<1> DEFINE n == Len(freeList)
<1>1. n \in Nat /\ i \in Occupied
  BY EmptySeq DEF SweepFree, TypeOK
<1>2. /\ Len(freeList') = n + 1
      /\ \A k \in 1..n : freeList'[k] = freeList[k]
      /\ freeList'[n + 1] = i
  BY DEF SweepFree, TypeOK
<1>3. Occupied' = Occupied \ {i}
  BY <1>1 DEF SweepFree, Occupied, TypeOK
<1>4. LiveCountExact'
  BY <1>1, <1>3, OccupiedFinite, FS_RemoveElement
     DEF BookInv, LiveCountExact, SweepFree
<1>5. i \notin FreeSet /\ FreeSet = (1..size) \ Occupied
  BY <1>1 DEF BookInv, FreeListExact, FreeSet
<1>6. \A k, m \in 1..(n + 1) : freeList'[k] = freeList'[m] => k = m
  <2>1. \A k \in 1..n : freeList'[k] \in FreeSet
    BY <1>2 DEF FreeSet
  <2>2. \A k, m \in 1..n : freeList[k] = freeList[m] => k = m
    BY DEF BookInv, FreeListExact
  <2>3. \A k \in 1..(n + 1) : k = n + 1 \/ k \in 1..n
    BY <1>1
  <2> HIDE DEF n
  <2>4. QED
    BY <1>2, <1>5, <2>1, <2>2, <2>3
<1>7. FreeSet' = FreeSet \cup {i}
  BY <1>1, <1>2 DEF FreeSet
<1>8. (1..size') \ Occupied' = FreeSet \cup {i}
  BY <1>1, <1>3, <1>5 DEF Occupied
<1>9. QED
  BY <1>2, <1>4, <1>6, <1>7, <1>8 DEF BookInv, FreeListExact, FreeSet

(* Every step places a frame, sweeps one slot, or leaves the bookkeeping   *)
(* alone.                                                                  *)
LEMMA BookSteps ==
  ASSUME TypeOK, [Next]_vars
  PROVE  \/ \E p \in Handles \cup {NoHandle} : Place(p)
         \/ SweepStep
         \/ Quiet
<1>0. held \in SUBSET Handles /\ newParent \in Handles \cup {NoHandle}
  BY DEF TypeOK
<1>1. ASSUME NEW rs, NEW next, StartCollect(rs, next) PROVE Quiet
  BY <1>1, SameDataQuiet DEF StartCollect
<1>2. ASSUME NEW H, Access(H), data' = data PROVE Quiet
  BY <1>2, SameDataQuiet DEF Access
<1>3. ASSUME NEW h \in held, NEW x \in Names, NEW v \in Values,
             EnvSet(h, x, v) \/ EnvAssign(h, x, v)
      PROVE Quiet
  <2>1. v \in SUBSET Handles
    BY <1>0 DEF Values
  <2>2. CASE EnvSet(h, x, v)
    <3>1. h.idx \in Slots /\ data[h.idx] \in Frames
      BY <1>0, <2>2 DEF EnvSet, Check, TypeOK, Handles
    <3>2. Bind(data[h.idx], x, v) \in Frames
      BY <2>1, <3>1, BindType
    <3>3. data' = [data EXCEPT ![h.idx] = Bind(data[h.idx], x, v)]
      BY <2>2 DEF EnvSet
    <3>4. size' = size /\ freeList' = freeList /\ liveCount' = liveCount
      BY <2>2 DEF EnvSet, Access
    <3>5. QED
      BY <3>1, <3>2, <3>3, <3>4, RewriteOccupied DEF Quiet
  <2>3. CASE EnvAssign(h, x, v)
    <3>1. PICK b \in Resolve(Store, h, x) :
            data' = [data EXCEPT ![b.idx] = Bind(@, x, v)]
      BY <2>3 DEF EnvAssign
    <3>2. b.idx \in Slots /\ data[b.idx] \in Frames
      BY ResolveFacts
    <3>3. Bind(data[b.idx], x, v) \in Frames
      BY <2>1, <3>2, BindType
    <3>4. data' = [data EXCEPT ![b.idx] = Bind(data[b.idx], x, v)]
      BY <3>1
    <3>5. size' = size /\ freeList' = freeList /\ liveCount' = liveCount
      BY <2>3 DEF EnvAssign, Access
    <3>6. QED
      BY <3>2, <3>3, <3>4, <3>5, RewriteOccupied DEF Quiet
  <2>4. QED
    BY <1>3, <2>2, <2>3
<1>4. CASE GcStep
  <2>1. ASSUME NEW h \in markStack, MarkStep(h) PROVE Quiet
    BY <2>1, SameDataQuiet DEF MarkStep
  <2>2. CASE MarkDone \/ SweepDone
    BY <2>2, SameDataQuiet DEF MarkDone, SweepDone, heapVars
  <2>3. QED
    BY <1>0, <1>4, <2>1, <2>2 DEF GcStep, FinishAlloc
<1>5. CASE ClientStep
  <2>1. ASSUME NEW p \in held \cup {NoHandle}, Alloc(p)
        PROVE  Quiet \/ Place(p)
    BY <1>1, <2>1 DEF Alloc
  <2>2. ASSUME NEW h \in held, NEW x \in Names, EnvGet(h, x) PROVE Quiet
    BY <1>2, <2>2 DEF EnvGet
  <2>3. ASSUME NEW h \in held, ParentOf(h) \/ Release(h) \/ PushRoot(h) PROVE Quiet
    BY <1>2, <2>3, SameDataQuiet DEF ParentOf, Release, PushRoot, heapVars
  <2>4. CASE PopRoot \/ Panic
    BY <2>4, SameDataQuiet DEF PopRoot, Panic, heapVars
  <2>5. QED
    BY <1>0, <1>3, <1>5, <2>1, <2>2, <2>3, <2>4 DEF ClientStep
<1>6. CASE AutomaticCollection \/ (\E rs \in SUBSET issued : Collect(rs))
           \/ CollectRegisteredRoots
  BY <1>1, <1>6 DEF AutomaticCollection, MaybeCollect, Collect, CollectWith,
     MaybeCollectRegisteredRoots, CollectRegisteredRoots
<1>7. ASSUME NEW t \in Thresholds, SetGcThreshold(t) PROVE Quiet
  BY <1>7, SameDataQuiet DEF SetGcThreshold
<1>8. CASE UNCHANGED vars
  BY <1>8, SameDataQuiet DEF vars, heapVars
<1>9. QED
  BY <1>4, <1>5, <1>6, <1>7, <1>8 DEF Next, Stopped

LEMMA BookStep ==
  ASSUME TypeOK, BookInv, [Next]_vars
  PROVE  BookInv'
<1>1. ASSUME NEW p \in Handles \cup {NoHandle}, Place(p) PROVE BookInv'
  BY <1>1, FillBook
<1>2. CASE SweepStep
  <2>1. cursor \in Slots /\ size' = size
    BY <1>2, BoundsAssumption DEF SweepStep, TypeOK, Slots
  <2>2. CASE SweepFree(cursor)
    BY <2>1, <2>2, SweepFreeBook
  <2>3. CASE SweepSkip(cursor)
    BY <2>1, <2>3, SameDataQuiet, QuietBook DEF SweepSkip
  <2>4. QED
    BY <1>2, <2>2, <2>3 DEF SweepStep
<1>3. QED
  BY <1>1, <1>2, BookSteps, QuietBook

(* The free list is exactly the empty slots, without repetition, and the   *)
(* live count the number of full ones, in the middle of a sweep too.       *)
THEOREM BookkeepingExact == Spec => []BooksBalance
<1>1. Init => BookInv
  <2> SUFFICES ASSUME Init PROVE BookInv
    OBVIOUS
  <2>1. Occupied = {} /\ 1..size = {} /\ Len(freeList) = 0
    BY DEF Init, Occupied
  <2>2. QED
    BY <2>1, FS_EmptySet DEF Init, BookInv, FreeListExact, LiveCountExact
<1>2. TypeOK /\ BookInv /\ [Next]_vars => BookInv'
  BY BookStep
<1>3. BookInv => BooksBalance
  BY DEF BookInv, BooksBalance
<1>4. QED
  BY <1>1, <1>2, <1>3, TypeCorrect, PTL DEF Spec

-----------------------------------------------------------------------------
(***************************************************************************)
(* Safety of collection.  The invariant is about the frames a collection   *)
(* will keep.  HeldKeepTheirFrames alone is not inductive: that a frame in *)
(* the client's hands is live says nothing of the sweep that is about to   *)
(* come to its slot.                                                       *)
(***************************************************************************)

(* While sweep runs, the frames it will keep: those it has passed and      *)
(* left, and those ahead of it that are marked.  Otherwise all of them.    *)
Kept == IF phase = "sweep"
        THEN {h \in Live : h.idx < cursor \/ h.idx \in marked}
        ELSE Live

(* The frames that will be kept refer to each other only, and the client   *)
(* holds nothing else.                                                     *)
KeptInv ==
  /\ held \subseteq Kept
  /\ \A h \in Kept : Refs(data[h.idx]) \subseteq Kept

(* A reference met while marking is followed: its frame is marked already  *)
(* or it waits on the mark stack.                                          *)
Followed(h) == h.idx \in marked \/ h \in markStack

(* The tri-colour invariant of the mark loop.                              *)
TriColour ==
  /\ Covers(gcRoots)
  /\ \A r \in gcRoots \cap Live : Followed(r)
  /\ \A i \in marked : \A r \in Refs(data[i]) : Followed(r)

MarkInv ==
  /\ marked \subseteq Occupied
  /\ phase = "mark" => TriColour
  /\ phase = "sweep" => \A i \in marked : cursor <= i
  /\ phase \notin {"mark", "sweep"} => marked = {}

(* What the other variables are while a call is in progress.               *)
PhaseInv ==
  /\ \A i \in Slots : i > size => generation[i] = 0 /\ birth[i] = 0
  /\ phase \notin {"sweep"} => cursor = 1
  /\ newParent \in held \cup {NoHandle}
  /\ phase = "idle" => newParent = NoHandle
  /\ phase \in {"mark", "sweep"} /\ andThen = "idle" => newParent = NoHandle

CollectInv == PhaseInv /\ KeptInv /\ MarkInv
IInv == TypeOK /\ BookInv /\ CollectInv

(* Reach is the smallest closed set that contains the roots.               *)
LEMMA ReachLeast ==
  ASSUME NEW store, NEW R, NEW S \in SUBSET DOMAIN store,
         R \cap DOMAIN store \subseteq S, Closed(store, S)
  PROVE  Reach(store, R) \subseteq S
BY DEF Reach

LEMMA SameSlots ==
  ASSUME UNCHANGED <<size, data, generation, birth>>
  PROVE  Live' = Live /\ Store' = Store /\ Occupied' = Occupied
<1>1. Occupied' = Occupied
  BY DEF Occupied
<1>2. Live' = Live
  BY <1>1 DEF Live, HandleOf
<1>3. QED
  BY <1>1, <1>2 DEF Store

(* A frame and its slot stay what they are when another slot is filled.    *)
LEMMA PlaceLive ==
  ASSUME IInv, NEW p \in Handles \cup {NoHandle}, Place(p),
         phase \in {"idle", "alloc"}
  PROVE  \E h \in Handles :
           /\ h \notin Live /\ Live' = Live \cup {h}
           /\ \A g \in Live : data'[g.idx] = data[g.idx]
           /\ data'[h.idx] = EmptyFrame(p)
           /\ held' = held \cup {h} /\ marked' \subseteq marked
           /\ issued' = issued \cup {h}
           /\ h.idx > size \/ h.birth > birth[h.idx]
           /\ PhaseInv'
<1> TypeOK /\ BookInv /\ PhaseInv
  BY DEF IInv, CollectInv
<1>0. EmptyFrame(p) # NoFrame
  BY EmptyFrameType, FrameIsNoHole
<1>1. CASE ReuseSlot(p)
  <2>1. PICK i \in Slots : i = freeList[Len(freeList)] /\ i \in (1..size) \ Occupied
    <3>1. Len(freeList) \in 1..Len(freeList) /\ freeList[Len(freeList)] \in Slots
      BY <1>1, PopType DEF ReuseSlot, TypeOK
    <3>2. QED
      BY <3>1 DEF BookInv, FreeListExact
  <2>2. PICK h : h = [idx |-> i, generation |-> NextGeneration(generation[i]),
                      birth |-> birth[i] + 1]
    OBVIOUS
  <2>3. h \in Handles
    <3>1. NextGeneration(generation[i]) \in 0..(GenMod - 1)
      BY GenModAssumption DEF NextGeneration, TypeOK
    <3>2. birth[i] + 1 \in 0..MaxAllocs
      BY <1>1, <2>1, BoundsAssumption DEF ReuseSlot, TypeOK
    <3>3. QED
      BY <2>2, <3>1, <3>2 DEF Handles
  <2>4. /\ size' = size
        /\ data' = [data EXCEPT ![i] = EmptyFrame(p)]
        /\ generation' = [generation EXCEPT ![i] = NextGeneration(generation[i])]
        /\ birth' = [birth EXCEPT ![i] = @ + 1]
        /\ held' = held \cup {h} /\ issued' = issued \cup {h}
        /\ marked' = marked \ {i}
    BY <1>1, <2>1, <2>2 DEF ReuseSlot, Return
  <2>5. /\ data'[i] = EmptyFrame(p)
        /\ generation'[i] = NextGeneration(generation[i]) /\ birth'[i] = birth[i] + 1
        /\ \A j \in Slots : j # i => /\ data'[j] = data[j]
                                    /\ generation'[j] = generation[j]
                                    /\ birth'[j] = birth[j]
    BY <2>4 DEF TypeOK
  <2>6. Occupied' = Occupied \cup {i}
    BY <1>0, <2>1, <2>4, <2>5, LiveFacts DEF Occupied
  <2>7. HandleOf(i)' = h /\ \A j \in Occupied : HandleOf(j)' = HandleOf(j)
    BY <2>1, <2>2, <2>5, LiveFacts DEF HandleOf
  <2>8. Live' = Live \cup {h}
    BY <2>6, <2>7 DEF Live
  <2>9. h.idx = i /\ h \notin Live
    BY <2>1, <2>2, LiveFacts
  <2>10. \A g \in Live : data'[g.idx] = data[g.idx]
    BY <2>1, <2>5, LiveFacts
  <2>11. PhaseInv'
    BY <1>1, <2>1, <2>4, <2>5 DEF Place, PhaseInv, TypeOK, Slots
  <2>12. h.birth > birth[h.idx]
    BY <2>1, <2>2 DEF TypeOK
  <2>13. QED
    BY <2>3, <2>4, <2>5, <2>8, <2>9, <2>10, <2>11, <2>12
<1>2. CASE GrowHeap(p)
  <2>1. PICK i \in Slots : i = size + 1
    BY <1>2, BoundsAssumption DEF GrowHeap, TypeOK, Slots
  <2>2. PICK h : h = [idx |-> i, generation |-> 0, birth |-> 0]
    OBVIOUS
  <2>3. h \in Handles
    BY <2>2, GenModAssumption, BoundsAssumption DEF Handles
  <2>4. /\ size' = i
        /\ data' = [data EXCEPT ![i] = EmptyFrame(p)]
        /\ UNCHANGED <<generation, birth, marked>>
        /\ held' = held \cup {h} /\ issued' = issued \cup {h}
    BY <1>2, <2>1, <2>2 DEF GrowHeap, Return
  <2>5. /\ data'[i] = EmptyFrame(p)
        /\ \A j \in Slots : j # i => data'[j] = data[j]
    BY <2>4 DEF TypeOK
  <2>6. generation[i] = 0 /\ birth[i] = 0
    BY <2>1 DEF PhaseInv, TypeOK
  <2>7. 1..i = (1..size) \cup {i} /\ i \notin 1..size /\ size \in Nat
    BY <2>1 DEF TypeOK
  <2>8. Occupied' = Occupied \cup {i} /\ i \notin Occupied
    <3>1. \A j \in 1..size : j \in Slots /\ j # i
      BY <2>7, BoundsAssumption DEF TypeOK, Slots
    <3>2. QED
      BY <1>0, <2>4, <2>5, <2>7, <3>1 DEF Occupied
  <2>9. HandleOf(i)' = h /\ \A j \in Occupied : HandleOf(j)' = HandleOf(j)
    BY <2>2, <2>4, <2>6 DEF HandleOf
  <2>10. Live' = Live \cup {h}
    BY <2>8, <2>9 DEF Live
  <2>11. h.idx = i /\ h \notin Live
    BY <2>2, <2>8, LiveFacts
  <2>12. \A g \in Live : data'[g.idx] = data[g.idx]
    BY <2>5, <2>8, LiveFacts
  <2>13. PhaseInv'
    BY <1>2, <2>1, <2>4 DEF Place, PhaseInv, TypeOK, Slots
  <2>14. h.idx > size
    BY <2>1, <2>7, <2>11
  <2>15. QED
    BY <2>3, <2>4, <2>5, <2>10, <2>11, <2>12, <2>13, <2>14
<1>3. QED
  BY <1>1, <1>2 DEF Place

LEMMA PlaceCollect ==
  ASSUME IInv, NEW p \in held \cup {NoHandle}, Place(p),
         phase \in {"idle", "alloc"}
  PROVE  CollectInv'
<1>1. TypeOK /\ KeptInv /\ MarkInv
  BY DEF IInv, CollectInv
<1>2. p \in Handles \cup {NoHandle}
  BY <1>1 DEF TypeOK
<1>3. PICK h \in Handles :
           /\ h \notin Live /\ Live' = Live \cup {h}
           /\ \A g \in Live : data'[g.idx] = data[g.idx]
           /\ data'[h.idx] = EmptyFrame(p)
           /\ held' = held \cup {h} /\ marked' \subseteq marked
           /\ PhaseInv'
  BY <1>2, PlaceLive
<1>4. Kept = Live /\ Kept' = Live' /\ marked = {} /\ phase' = "idle"
  BY <1>1 DEF Kept, MarkInv, Place
<1>5. MarkInv'
  BY <1>3, <1>4 DEF MarkInv
<1>6. Refs(EmptyFrame(p)) \subseteq held
  BY DEF Refs, EmptyFrame, BoundNames
<1>7. ASSUME NEW g \in Live' PROVE Refs(data'[g.idx]) \subseteq Live'
  <2>1. CASE g = h
    BY <1>1, <1>3, <1>4, <1>6, <2>1 DEF KeptInv
  <2>2. CASE g \in Live
    BY <1>1, <1>3, <1>4, <2>2 DEF KeptInv
  <2>3. QED
    BY <1>3, <1>7, <2>1, <2>2
<1>8. KeptInv'
  BY <1>1, <1>3, <1>4, <1>7 DEF KeptInv
<1>9. QED
  BY <1>3, <1>5, <1>8 DEF CollectInv

LEMMA StartCollectInv ==
  ASSUME IInv, phase = "idle", NEW rs, Covers(rs),
         NEW next \in {"idle", "alloc"}, StartCollect(rs, next),
         newParent' \in held \cup {NoHandle},
         next = "idle" => newParent' = newParent
  PROVE  CollectInv'
<1>1. TypeOK /\ PhaseInv /\ KeptInv /\ MarkInv
  BY DEF IInv, CollectInv
<1>2. Live' = Live /\ Store' = Store /\ Occupied' = Occupied
  BY SameSlots DEF StartCollect
<1>3. marked = {} /\ marked' = {} /\ phase' = "mark" /\ data' = data /\ held' = held
  BY <1>1 DEF MarkInv, StartCollect
<1>4. KeptInv'
  BY <1>1, <1>2, <1>3 DEF KeptInv, Kept
<1>5. TriColour'
  BY <1>2, <1>3 DEF TriColour, Covers, Followed, StartCollect
<1>6. MarkInv'
  BY <1>3, <1>5 DEF MarkInv
<1>7. PhaseInv'
  BY <1>1, <1>3 DEF PhaseInv, StartCollect
<1>8. QED
  BY <1>4, <1>6, <1>7 DEF CollectInv

(* A handle that names a live frame passes check.                          *)
LEMMA LiveChecks == TypeOK => \A h \in Live : Check(h)
BY LiveFacts DEF Check, HandleOf, Occupied

LEMMA MarkStepInv ==
  ASSUME IInv, NEW h \in markStack, MarkStep(h)
  PROVE  CollectInv'
<1>1. TypeOK /\ PhaseInv /\ KeptInv /\ MarkInv /\ TriColour /\ phase = "mark"
  BY DEF IInv, CollectInv, MarkInv, MarkStep
<1>2. Live' = Live /\ Store' = Store /\ Occupied' = Occupied
  BY SameSlots DEF MarkStep
<1>3. data' = data /\ held' = held /\ phase' = "mark" /\ gcRoots' = gcRoots
  BY <1>1 DEF MarkStep, gcVars
<1>4. marked \subseteq marked' /\ (Fresh(h) \/ marked' = marked)
  BY DEF MarkStep
<1>5. ASSUME NEW r \in Live, Followed(r) PROVE Followed(r)'
  <2>1. CASE r = h
    BY <1>1, <1>4, <2>1, LiveChecks DEF MarkStep, Fresh, Followed
  <2>2. CASE r # h
    BY <1>4, <1>5, <2>2 DEF MarkStep, Followed
  <2>3. QED
    BY <2>1, <2>2
<1>6. marked' \subseteq Occupied
  <2>1. Fresh(h) => h.idx \in Occupied
    BY <1>1 DEF Fresh, Check, Occupied, TypeOK, Handles, Slots
  <2>2. QED
    BY <1>1, <2>1 DEF MarkStep, MarkInv
<1>7. ASSUME NEW i \in marked', NEW r \in Refs(data[i]) PROVE Followed(r)'
  <2>1. CASE i \in marked
    <3>1. HandleOf(i) \in Live /\ HandleOf(i).idx = i
      BY <1>1, <2>1, LiveFacts DEF MarkInv, HandleOf
    <3>2. r \in Live
      BY <1>1, <1>7, <3>1 DEF KeptInv, Kept
    <3>3. QED
      BY <1>1, <1>5, <1>7, <2>1, <3>2 DEF TriColour
  <2>2. CASE i \notin marked
    BY <1>7, <2>2 DEF MarkStep, Children, Followed
  <2>3. QED
    BY <2>1, <2>2
<1>8. TriColour'
  BY <1>1, <1>2, <1>3, <1>5, <1>7 DEF TriColour, Covers
<1>9. KeptInv'
  BY <1>1, <1>2, <1>3 DEF KeptInv, Kept
<1>10. PhaseInv'
  BY <1>1 DEF PhaseInv, MarkStep, gcVars
<1>11. QED
  BY <1>2, <1>3, <1>6, <1>8, <1>9, <1>10 DEF CollectInv, MarkInv

(* When the mark stack is empty the marked frames are closed and contain   *)
(* the roots: everything the client holds is marked.                       *)
LEMMA MarkDoneInv == IInv /\ MarkDone => CollectInv'
<1> SUFFICES ASSUME IInv, MarkDone PROVE CollectInv'
  OBVIOUS
<1>1. /\ TypeOK /\ PhaseInv /\ KeptInv /\ MarkInv /\ TriColour
      /\ phase = "mark" /\ markStack = {}
  BY DEF IInv, CollectInv, MarkInv, MarkDone
<1>2. Live' = Live /\ Occupied' = Occupied
  BY SameSlots DEF MarkDone, heapVars
<1>3. /\ phase' = "sweep" /\ cursor' = 1 /\ cursor = 1
      /\ UNCHANGED <<data, marked, held, newParent, generation, birth, size, andThen>>
  BY <1>1 DEF MarkDone, heapVars, gcVars, PhaseInv
<1> DEFINE M == {h \in Live : h.idx \in marked}
<1>4. ASSUME NEW h \in M PROVE Refs(data[h.idx]) \subseteq M
  <2>1. Refs(data[h.idx]) \subseteq Live
    BY <1>1 DEF KeptInv, Kept
  <2>2. QED
    BY <1>1, <2>1 DEF TriColour, Followed
<1>5. held \subseteq M
  <2>1. DOMAIN Store = Live /\ \A h \in Live : Store[h] = data[h.idx]
    BY <1>1, LiveFacts
  <2>2. gcRoots \cap Live \subseteq M
    BY <1>1 DEF TriColour, Followed
  <2>3. Closed(Store, M)
    BY <1>4, <2>1 DEF Closed
  <2>4. M \in SUBSET DOMAIN Store
    BY <2>1
  <2> HIDE DEF M
  <2>5. Reach(Store, gcRoots) \subseteq M
    BY <2>1, <2>2, <2>3, <2>4, ReachLeast
  <2>6. QED
    BY <1>1, <2>5 DEF TriColour, Covers
<1>6. Kept' = M
  <2>1. \A h \in Live : ~(h.idx < 1)
    BY <1>1, LiveFacts DEF Slots
  <2>2. QED
    BY <1>2, <1>3, <2>1 DEF Kept
<1>7. KeptInv'
  BY <1>3, <1>4, <1>5, <1>6 DEF KeptInv
<1>8. \A i \in marked : 1 <= i
  BY <1>1 DEF TypeOK
<1>9. MarkInv'
  BY <1>1, <1>2, <1>3, <1>8 DEF MarkInv
<1>10. PhaseInv'
  BY <1>1, <1>3 DEF PhaseInv
<1>11. QED
  BY <1>7, <1>9, <1>10 DEF CollectInv

LEMMA SweepStepInv == IInv /\ SweepStep => CollectInv'
<1> SUFFICES ASSUME IInv, SweepStep PROVE CollectInv'
  OBVIOUS
<1>1. TypeOK /\ PhaseInv /\ KeptInv /\ MarkInv /\ phase = "sweep"
  BY DEF IInv, CollectInv, SweepStep
<1>2. PICK c \in Slots : c = cursor /\ c <= size
  BY <1>1, BoundsAssumption DEF SweepStep, TypeOK, Slots
<1>3. /\ phase' = "sweep" /\ cursor' = c + 1
      /\ UNCHANGED <<size, generation, birth, held, newParent, andThen>>
  BY <1>1, <1>2 DEF SweepStep
<1>4. marked' = marked \ {c} /\ \A i \in Slots : i # c => data'[i] = data[i]
  <2>1. CASE SweepFree(c)
    BY <1>1, <2>1 DEF SweepFree, TypeOK
  <2>2. CASE SweepSkip(c)
    BY <2>2 DEF SweepSkip
  <2>3. QED
    BY <1>2, <2>1, <2>2 DEF SweepStep
<1>5. Occupied' = IF c \in Occupied \ marked THEN Occupied \ {c} ELSE Occupied
  <2>1. CASE SweepFree(c)
    <3>1. data'[c] = NoFrame /\ c \in Occupied \ marked
      BY <1>1, <2>1 DEF SweepFree, TypeOK
    <3>2. QED
      BY <1>1, <1>3, <1>4, <3>1, BoundsAssumption DEF Occupied, TypeOK, Slots
  <2>2. CASE SweepSkip(c)
    BY <1>3, <2>2 DEF SweepSkip, Occupied
  <2>3. QED
    BY <1>2, <2>1, <2>2 DEF SweepStep
<1>6. \A i \in Slots : HandleOf(i)' = HandleOf(i)
  BY <1>3 DEF HandleOf
<1>7. Live' = {HandleOf(i) : i \in Occupied'}
  BY <1>1, <1>5, <1>6, LiveFacts DEF Live
<1>8. Kept' = Kept
  <2>1. Kept = {h \in Live : h.idx < c \/ h.idx \in marked}
    BY <1>1, <1>2 DEF Kept
  <2>2. Kept' = {h \in Live' : h.idx < c + 1 \/ h.idx \in marked \ {c}}
    BY <1>3, <1>4 DEF Kept
  <2>3. \A h \in Live : /\ h.idx \in Occupied /\ h = HandleOf(h.idx)
                        /\ h.idx \in Int
    BY <1>1, LiveFacts DEF Slots
  <2>4. Live' = IF c \in Occupied \ marked THEN Live \ {HandleOf(c)} ELSE Live
    <3>1. \A i \in Occupied : HandleOf(i).idx = i
      BY DEF HandleOf
    <3>2. QED
      BY <1>5, <1>7, <3>1 DEF Live
  <2>5. c \in Int /\ HandleOf(c).idx = c
    BY DEF Slots, HandleOf
  <2>6. \A n \in Int : n < c + 1 <=> n < c \/ n = c
    BY <2>5
  <2>7. QED
    BY <2>1, <2>2, <2>3, <2>4, <2>5, <2>6
<1>9. KeptInv'
  <2>1. ASSUME NEW h \in Kept PROVE data'[h.idx] = data[h.idx]
    <3>1. h \in Live /\ h \in Kept' /\ h.idx \in Slots
      BY <1>1, <1>8, LiveFacts DEF Kept
    <3>2. CASE h.idx = c
      <4>1. c \in marked
        BY <1>1, <1>2, <2>1, <3>2 DEF Kept, Slots
      <4>2. QED
        BY <1>2, <3>2, <4>1 DEF SweepStep, SweepFree, SweepSkip
    <3>3. QED
      BY <1>4, <3>1, <3>2
  <2>2. QED
    BY <1>1, <1>3, <1>8, <2>1 DEF KeptInv
<1>10. MarkInv'
  <2>1. marked' \subseteq Occupied'
    BY <1>1, <1>4, <1>5 DEF MarkInv
  <2>2. \A i \in marked' : cursor' <= i
    BY <1>1, <1>2, <1>3, <1>4 DEF MarkInv, TypeOK, Slots
  <2>3. QED
    BY <1>3, <2>1, <2>2 DEF MarkInv
<1>11. PhaseInv'
  BY <1>1, <1>3 DEF PhaseInv
<1>12. QED
  BY <1>9, <1>10, <1>11 DEF CollectInv

LEMMA SweepDoneInv == IInv /\ SweepDone => CollectInv'
<1> SUFFICES ASSUME IInv, SweepDone PROVE CollectInv'
  OBVIOUS
<1>1. TypeOK /\ PhaseInv /\ KeptInv /\ MarkInv /\ phase = "sweep" /\ cursor > size
  BY DEF IInv, CollectInv, SweepDone
<1>2. Live' = Live /\ Occupied' = Occupied
  BY SameSlots DEF SweepDone, heapVars
<1>3. /\ phase' = andThen /\ andThen \in {"idle", "alloc"} /\ cursor' = 1
      /\ UNCHANGED <<size, data, generation, birth, held, newParent, marked>>
  BY <1>1 DEF SweepDone, heapVars, TypeOK
<1>4. Kept = Live /\ Kept' = Live
  BY <1>1, <1>2, <1>3, LiveFacts DEF Kept, Occupied, TypeOK, Slots
<1>5. KeptInv'
  BY <1>1, <1>3, <1>4 DEF KeptInv
<1>6. marked = {}
  BY <1>1 DEF MarkInv, TypeOK
<1>7. MarkInv'
  BY <1>3, <1>6 DEF MarkInv
<1>8. PhaseInv'
  BY <1>1, <1>3 DEF PhaseInv
<1>9. QED
  BY <1>5, <1>7, <1>8 DEF CollectInv

(* Binding a name adds no references but the value's.                      *)
LEMMA BindRefs ==
  ASSUME NEW f \in Frames, NEW x \in Names, NEW v \in SUBSET Handles
  PROVE  Refs(Bind(f, x, v)) \subseteq Refs(f) \cup v
<1>1. Bind(f, x, v).parent = f.parent
  BY DEF Bind, Frames
<1>2. \A y \in Names : Bind(f, x, v).vars[y] = IF y = x THEN v ELSE f.vars[y]
  BY DEF Bind, Frames
<1>3. ASSUME NEW y \in BoundNames(Bind(f, x, v))
      PROVE  Bind(f, x, v).vars[y] \subseteq Refs(f) \cup v
  BY <1>2 DEF Refs, BoundNames
<1>4. QED
  BY <1>1, <1>3 DEF Refs

(* A call that reads or writes frames in place.                            *)
LEMMA AccessInv ==
  ASSUME IInv, NEW H \in SUBSET Live, Access(H), Occupied' = Occupied,
         \A h \in Live : Refs(data'[h.idx]) \subseteq Live
  PROVE  CollectInv'
<1>1. /\ TypeOK /\ PhaseInv /\ KeptInv /\ MarkInv /\ phase = "idle"
      /\ phase' = "idle" /\ held' = H
      /\ UNCHANGED <<size, generation, birth, marked, cursor, newParent, andThen>>
  BY DEF IInv, CollectInv, Access, gcVars
<1>2. Live' = Live
  BY <1>1 DEF Live, HandleOf
<1>3. KeptInv'
  BY <1>1, <1>2 DEF KeptInv, Kept
<1>4. MarkInv' /\ PhaseInv'
  BY <1>1 DEF MarkInv, PhaseInv
<1>5. QED
  BY <1>3, <1>4 DEF CollectInv

(* Rebinding a name in a live frame to environments the client holds.      *)
LEMMA WriteInv ==
  ASSUME IInv, NEW b \in Live, NEW x \in Names, NEW v \in SUBSET held,
         Access(held), data' = [data EXCEPT ![b.idx] = Bind(@, x, v)]
  PROVE  CollectInv'
<1>1. TypeOK /\ KeptInv /\ Kept = Live /\ size' = size
  BY DEF IInv, CollectInv, Access, Kept
<1>2. PICK i \in Slots : i = b.idx /\ i \in Occupied /\ data[i] \in Frames
  BY <1>1, LiveFacts
<1>3. v \in SUBSET Handles
  BY <1>1 DEF TypeOK
<1>4. Bind(data[i], x, v) \in Frames
  BY <1>2, <1>3, BindType
<1>5. data' = [data EXCEPT ![i] = Bind(data[i], x, v)]
  BY <1>2
<1>6. Occupied' = Occupied
  BY <1>1, <1>2, <1>4, <1>5, RewriteOccupied
<1>7. ASSUME NEW h \in Live PROVE Refs(data'[h.idx]) \subseteq Live
  <2>1. h.idx \in Slots /\ Refs(data[h.idx]) \subseteq Live /\ held \subseteq Live
    BY <1>1, LiveFacts DEF KeptInv
  <2>2. CASE h.idx = i
    BY <1>1, <1>2, <1>3, <1>5, <2>1, <2>2, BindRefs DEF TypeOK
  <2>3. CASE h.idx # i
    BY <1>1, <1>5, <2>1, <2>3 DEF TypeOK
  <2>4. QED
    BY <2>2, <2>3
<1>8. held \in SUBSET Live
  BY <1>1 DEF KeptInv
<1>9. QED
  BY <1>6, <1>7, <1>8, AccessInv

(* Reading puts more environments in the client's hands.                   *)
LEMMA ReadInv ==
  ASSUME IInv, NEW H \in SUBSET Live, Access(H), data' = data
  PROVE  CollectInv'
<1>1. KeptInv /\ Kept = Live
  BY DEF IInv, CollectInv, Access, Kept
<1>2. Occupied' = Occupied
  BY DEF Access, Occupied
<1>3. QED
  BY <1>1, <1>2, AccessInv DEF KeptInv

(* A step that changes neither the frames nor what the client holds.       *)
LEMMA IdleInv ==
  ASSUME IInv, UNCHANGED <<heapVars, gcVars, birth, held>>,
         \/ phase' = phase
         \/ phase = "idle" /\ phase' = "panicked"
  PROVE  CollectInv'
<1>1. TypeOK /\ PhaseInv /\ KeptInv /\ MarkInv
  BY DEF IInv, CollectInv
<1>2. /\ UNCHANGED <<size, data, generation, birth, marked, markStack, cursor,
                     gcRoots, newParent, andThen, held>>
  BY DEF heapVars, gcVars
<1>3. Live' = Live /\ Store' = Store /\ Occupied' = Occupied
  BY <1>2, SameSlots
<1>4. KeptInv'
  BY <1>1, <1>2, <1>3 DEF KeptInv, Kept
<1>5. MarkInv'
  BY <1>1, <1>2, <1>3 DEF MarkInv, TriColour, Covers, Followed
<1>6. PhaseInv'
  BY <1>1, <1>2 DEF PhaseInv
<1>7. QED
  BY <1>4, <1>5, <1>6 DEF CollectInv

LEMMA ClientInv == IInv /\ ClientStep => CollectInv'
<1> SUFFICES ASSUME IInv, ClientStep PROVE CollectInv'
  OBVIOUS
<1>0. TypeOK /\ PhaseInv /\ KeptInv
  BY DEF IInv, CollectInv
<1>1. phase = "idle" => /\ held \subseteq Live
                        /\ \A h \in Live : Refs(data[h.idx]) \subseteq Live
  BY <1>0 DEF KeptInv, Kept
<1>2. ASSUME NEW p \in held \cup {NoHandle}, Alloc(p) PROVE CollectInv'
  <2>1. phase = "idle"
    BY <1>2 DEF Alloc
  <2>2. CASE Place(p)
    BY <2>1, <2>2, PlaceCollect
  <2>3. CASE Covers(RootSet) /\ StartCollect(RootSet, "alloc") /\ newParent' = p
    BY <2>1, <2>3, StartCollectInv
  <2>4. QED
    BY <1>2, <2>2, <2>3 DEF Alloc
<1>3. ASSUME NEW h \in held, NEW x \in Names, EnvGet(h, x) PROVE CollectInv'
  <2>1. PICK b \in Resolve(Store, h, x) : Access(held \cup data[b.idx].vars[x])
    BY <1>3 DEF EnvGet
  <2>2. data[b.idx].vars[x] \subseteq Refs(data[b.idx]) /\ b \in Live
    BY <1>0, ResolveFacts, BoundValueType
  <2>3. phase = "idle" /\ data' = data
    BY <1>3, <2>1 DEF EnvGet, Access
  <2>4. held \cup data[b.idx].vars[x] \in SUBSET Live
    BY <1>1, <2>2, <2>3
  <2>5. QED
    BY <2>1, <2>3, <2>4, ReadInv
<1>4. ASSUME NEW h \in held, NEW x \in Names, NEW v \in Values, EnvSet(h, x, v)
      PROVE CollectInv'
  <2>1. h \in Live /\ v \in SUBSET held
    BY <1>1, <1>4 DEF EnvSet, Access, Values
  <2>2. QED
    BY <1>4, <2>1, WriteInv DEF EnvSet
<1>5. ASSUME NEW h \in held, NEW x \in Names, NEW v \in Values,
             EnvAssign(h, x, v)
      PROVE CollectInv'
  <2>1. PICK b \in Resolve(Store, h, x) :
          data' = [data EXCEPT ![b.idx] = Bind(@, x, v)]
    BY <1>5 DEF EnvAssign
  <2>2. b \in Live /\ v \in SUBSET held
    BY <1>0, ResolveFacts DEF Values
  <2>3. QED
    BY <1>5, <2>1, <2>2, WriteInv DEF EnvAssign
<1>6. ASSUME NEW h \in held, ParentOf(h) PROVE CollectInv'
  <2>1. phase = "idle" /\ h \in Live
    BY <1>1, <1>6 DEF ParentOf, Access
  <2>2. data[h.idx].parent \in Refs(data[h.idx])
    BY <1>6 DEF ParentOf, Refs
  <2>3. held \cup {data[h.idx].parent} \in SUBSET Live
    BY <1>1, <2>1, <2>2
  <2>4. QED
    BY <1>6, <2>3, ReadInv DEF ParentOf
<1>7. ASSUME NEW h \in held, Release(h) PROVE CollectInv'
  <2>1. held \ {h} \in SUBSET Live
    BY <1>1, <1>7 DEF Release, Access
  <2>2. QED
    BY <1>7, <2>1, ReadInv DEF Release
<1>8. CASE (\E h \in held : PushRoot(h)) \/ PopRoot \/ Panic
  BY <1>8, IdleInv DEF PushRoot, PopRoot, Panic
<1>9. QED
  BY <1>2, <1>3, <1>4, <1>5, <1>6, <1>7, <1>8 DEF ClientStep

LEMMA CollectStep == IInv /\ [Next]_vars => CollectInv'
<1> SUFFICES ASSUME IInv, [Next]_vars PROVE CollectInv'
  OBVIOUS
<1>1. CASE GcStep
  <2>1. CASE FinishAlloc
    BY <2>1, PlaceCollect DEF FinishAlloc, IInv, CollectInv, PhaseInv
  <2>2. QED
    BY <1>1, <2>1, MarkStepInv, MarkDoneInv, SweepStepInv, SweepDoneInv DEF GcStep
<1>2. ASSUME NEW rs, CollectWith(rs), phase = "idle" PROVE CollectInv'
  BY <1>2, StartCollectInv DEF CollectWith, IInv, CollectInv, PhaseInv
<1>3. CASE AutomaticCollection \/ (\E rs \in SUBSET issued : Collect(rs))
           \/ CollectRegisteredRoots
  BY <1>2, <1>3 DEF AutomaticCollection, MaybeCollect, Collect,
     MaybeCollectRegisteredRoots, CollectRegisteredRoots
<1>4. ASSUME NEW t \in Thresholds, SetGcThreshold(t) PROVE CollectInv'
  <2>1. /\ UNCHANGED <<size, data, generation, birth, marked, markStack, cursor,
                       gcRoots, newParent, andThen, held, phase>>
        /\ phase = "idle"
    BY <1>4 DEF SetGcThreshold, gcVars
  <2>2. Live' = Live /\ Occupied' = Occupied
    BY <2>1, SameSlots
  <2>3. QED
    BY <2>1, <2>2 DEF IInv, CollectInv, KeptInv, Kept, MarkInv, PhaseInv
<1>5. CASE UNCHANGED vars
  BY <1>5, IdleInv DEF vars
<1>6. QED
  BY <1>1, <1>3, <1>4, <1>5, ClientInv DEF Next, Stopped

LEMMA InitCollect == Init => CollectInv
<1> SUFFICES ASSUME Init PROVE CollectInv
  OBVIOUS
<1>1. Occupied = {} /\ Live = {} /\ held = {} /\ phase = "idle"
  BY DEF Init, Occupied, Live
<1>2. KeptInv
  BY <1>1 DEF KeptInv, Kept
<1>3. MarkInv
  BY <1>1 DEF MarkInv, Init
<1>4. PhaseInv
  BY DEF PhaseInv, Init
<1>5. QED
  BY <1>2, <1>3, <1>4 DEF CollectInv

LEMMA CollectCorrect == Spec => []CollectInv
<1>1. Init => CollectInv
  BY InitCollect
<1>2. TypeOK /\ BookInv /\ CollectInv /\ [Next]_vars => CollectInv'
  BY CollectStep DEF IInv
<1>3. BooksBalance => BookInv
  BY DEF BookInv, BooksBalance
<1>4. QED
  BY <1>1, <1>2, <1>3, TypeCorrect, BookkeepingExact, PTL DEF Spec

(* Whatever is allocated, collected and reused, and at whatever width the  *)
(* generations wrap, each handle the client holds names the frame it was   *)
(* issued for.                                                             *)
THEOREM HeldSafe == Spec => []HeldKeepTheirFrames
<1>1. CollectInv => HeldKeepTheirFrames
  BY DEF CollectInv, KeptInv, Kept, HeldKeepTheirFrames
<1>2. QED
  BY <1>1, CollectCorrect, PTL

(* Between calls no frame refers to one that is gone.                      *)
THEOREM NothingDangles == Spec => []NoDanglingReference
<1>1. TypeOK /\ CollectInv => NoDanglingReference
  <2> SUFFICES ASSUME TypeOK, CollectInv, phase = "idle", NEW i \in Occupied
               PROVE  Refs(data[i]) \subseteq Live
    BY DEF NoDanglingReference
  <2>1. HandleOf(i) \in Live /\ HandleOf(i).idx = i
    BY LiveFacts DEF HandleOf
  <2>2. QED
    BY <2>1 DEF CollectInv, KeptInv, Kept
<1>2. QED
  BY <1>1, TypeCorrect, CollectCorrect, PTL

-----------------------------------------------------------------------------
(***************************************************************************)
(* What the heap promises its client: a handle names one frame, marking    *)
(* finds exactly what is reachable, and the heap implements EnvStore, a    *)
(* collection being a sequence of its Reclaim steps.                       *)
(***************************************************************************)

(* The invariant, for every reachable state.                               *)
LEMMA InvariantHolds == Spec => []IInv
<1>1. TypeOK /\ BooksBalance /\ CollectInv => IInv
  BY DEF IInv, BookInv, BooksBalance
<1>2. QED
  BY <1>1, TypeCorrect, BookkeepingExact, CollectCorrect, PTL

-----------------------------------------------------------------------------
(***************************************************************************)
(* Handles.  Of a slot that has been reused d times since a handle was     *)
(* issued, the generation has advanced by d, less GenMod if it wrapped.    *)
(***************************************************************************)
Age(h) == birth[h.idx] - h.birth
Advanced(h) ==
  \/ generation[h.idx] = h.generation + Age(h)
  \/ generation[h.idx] = h.generation + Age(h) - GenMod
IssuedInv ==
  \A h \in issued : /\ h.idx <= size /\ Age(h) >= 0
                    /\ Age(h) < GenMod => Advanced(h)

(* The generation after g, without the remainder.                          *)
LEMMA NextGenerationFacts ==
  ASSUME NEW g \in 0..(GenMod - 1)
  PROVE  NextGeneration(g) = IF g + 1 = GenMod THEN 0 ELSE g + 1
<1>1. CASE g + 1 = GenMod
  BY <1>1, GenModAssumption DEF NextGeneration
<1>2. CASE g + 1 # GenMod
  BY <1>2, GenModAssumption DEF NextGeneration
<1>3. QED
  BY <1>1, <1>2

(* The slot a new frame goes to, and its handle.                           *)
LEMMA PlaceIssued ==
  ASSUME IInv, IssuedInv, NEW p \in Handles \cup {NoHandle}, Place(p)
  PROVE  IssuedInv'
<1>0. TypeOK /\ BookInv /\ PhaseInv
  BY DEF IInv, CollectInv
<1>1. CASE ReuseSlot(p)
  <2>1. PICK i \in Slots : i = freeList[Len(freeList)] /\ i \in 1..size
    <3>1. Len(freeList) \in 1..Len(freeList) /\ freeList[Len(freeList)] \in Slots
      BY <1>0, <1>1, PopType DEF ReuseSlot, TypeOK
    <3>2. QED
      BY <1>0, <3>1 DEF BookInv, FreeListExact
  <2>2. PICK h : h = [idx |-> i, generation |-> NextGeneration(generation[i]),
                      birth |-> birth[i] + 1]
    OBVIOUS
  <2>3. /\ size' = size /\ issued' = issued \cup {h}
        /\ generation'[i] = NextGeneration(generation[i]) /\ birth'[i] = birth[i] + 1
        /\ \A j \in Slots : j # i => generation'[j] = generation[j] /\ birth'[j] = birth[j]
    BY <1>0, <1>1, <2>1, <2>2 DEF ReuseSlot, Return, TypeOK
  <2>4. ASSUME NEW g \in issued
        PROVE  (g.idx <= size /\ Age(g) >= 0 /\ (Age(g) < GenMod => Advanced(g)))'
    <3>1. /\ g.idx \in Slots /\ g.birth \in Nat /\ g.generation \in 0..(GenMod - 1)
          /\ birth[g.idx] \in Nat /\ generation[g.idx] \in 0..(GenMod - 1)
          /\ GenMod \in Nat
      BY <1>0, <2>4, GenModAssumption DEF TypeOK, Handles
    <3>2. g.idx <= size /\ Age(g) >= 0 /\ (Age(g) < GenMod => Advanced(g))
      BY <2>4 DEF IssuedInv
    <3>3. CASE g.idx = i
      <4>1. Age(g)' = Age(g) + 1
        BY <2>3, <3>1, <3>3 DEF Age
      <4>2. generation'[g.idx] = IF generation[g.idx] + 1 = GenMod THEN 0
                                 ELSE generation[g.idx] + 1
        BY <2>3, <3>1, <3>3, NextGenerationFacts
      <4>3. Age(g) \in Int
        BY <3>1 DEF Age
      <4> HIDE DEF Age
      <4>4. QED
        BY <2>3, <3>1, <3>2, <4>1, <4>2, <4>3 DEF Advanced
    <3>4. CASE g.idx # i
      BY <2>3, <3>1, <3>2, <3>4 DEF Age, Advanced
    <3>5. QED
      BY <3>3, <3>4
  <2>5. (h.idx <= size /\ Age(h) >= 0 /\ (Age(h) < GenMod => Advanced(h)))'
    <3>1. Age(h)' = 0
      BY <1>0, <2>2, <2>3 DEF Age, TypeOK
    <3>2. generation'[h.idx] = h.generation /\ h.generation \in Int
      BY <1>0, <2>1, <2>2, <2>3, NextGenerationFacts, GenModAssumption DEF TypeOK
    <3>3. h.idx <= size'
      BY <2>1, <2>2, <2>3
    <3> HIDE DEF Age
    <3>4. QED
      BY <3>1, <3>2, <3>3 DEF Advanced
  <2>6. QED
    BY <2>3, <2>4, <2>5 DEF IssuedInv
<1>2. CASE GrowHeap(p)
  <2>1. PICK i \in Slots : i = size + 1
    BY <1>0, <1>2, BoundsAssumption DEF GrowHeap, TypeOK, Slots
  <2>2. PICK h : h = [idx |-> i, generation |-> 0, birth |-> 0]
    OBVIOUS
  <2>3. /\ size' = size + 1 /\ issued' = issued \cup {h}
        /\ UNCHANGED <<generation, birth>>
        /\ generation[i] = 0 /\ birth[i] = 0
    BY <1>0, <1>2, <2>1, <2>2 DEF GrowHeap, Return, PhaseInv, TypeOK
  <2>4. ASSUME NEW g \in issued
        PROVE  (g.idx <= size /\ Age(g) >= 0 /\ (Age(g) < GenMod => Advanced(g)))'
    <3>1. g.idx \in Nat /\ size \in Nat
      BY <1>0, <2>4 DEF TypeOK, Handles, Slots
    <3>2. QED
      BY <2>3, <2>4, <3>1 DEF IssuedInv, Age, Advanced
  <2>5. (h.idx <= size /\ Age(h) >= 0 /\ (Age(h) < GenMod => Advanced(h)))'
    BY <2>1, <2>2, <2>3 DEF Age, Advanced
  <2>6. QED
    BY <2>3, <2>4, <2>5 DEF IssuedInv
<1>3. QED
  BY <1>1, <1>2 DEF Place

(* Only Place gives out handles or changes generations.                    *)
LEMMA StepIssued == IInv /\ IssuedInv /\ [Next]_vars => IssuedInv'
<1> SUFFICES ASSUME IInv, IssuedInv, [Next]_vars PROVE IssuedInv'
  OBVIOUS
<1>1. ASSUME UNCHANGED <<issued, size, generation, birth>> PROVE IssuedInv'
  BY <1>1 DEF IssuedInv, Age, Advanced
<1>2. ASSUME NEW p \in held \cup {NoHandle}, Place(p) PROVE IssuedInv'
  BY <1>2, PlaceIssued DEF IInv, TypeOK
<1>3. CASE GcStep
  <2>1. CASE FinishAlloc
    BY <1>2, <2>1 DEF FinishAlloc, IInv, CollectInv, PhaseInv
  <2>2. CASE ~ FinishAlloc
    BY <1>1, <1>3, <2>2 DEF GcStep, MarkStep, MarkDone, SweepStep, SweepDone, heapVars
  <2>3. QED
    BY <2>1, <2>2
<1>4. CASE ClientStep
  <2>1. ASSUME NEW p \in held \cup {NoHandle}, Alloc(p) PROVE IssuedInv'
    BY <1>1, <1>2, <2>1 DEF Alloc, StartCollect
  <2>2. ASSUME NEW h \in held, NEW x \in Names,
               EnvGet(h, x) \/ \E v \in Values : EnvSet(h, x, v) \/ EnvAssign(h, x, v)
        PROVE  IssuedInv'
    BY <1>1, <2>2 DEF EnvGet, EnvSet, EnvAssign, Access
  <2>3. ASSUME NEW h \in held, ParentOf(h) \/ Release(h) \/ PushRoot(h) PROVE IssuedInv'
    BY <1>1, <2>3 DEF ParentOf, Release, PushRoot, Access, heapVars
  <2>4. CASE PopRoot \/ Panic
    BY <1>1, <2>4 DEF PopRoot, Panic, heapVars
  <2>5. QED
    BY <1>4, <2>1, <2>2, <2>3, <2>4 DEF ClientStep
<1>5. ASSUME NEW rs, CollectWith(rs) PROVE IssuedInv'
  BY <1>1, <1>5 DEF CollectWith, StartCollect
<1>6. CASE AutomaticCollection \/ (\E rs \in SUBSET issued : Collect(rs))
           \/ CollectRegisteredRoots
  BY <1>5, <1>6 DEF AutomaticCollection, MaybeCollect, Collect,
     MaybeCollectRegisteredRoots, CollectRegisteredRoots
<1>7. ASSUME NEW t \in Thresholds, SetGcThreshold(t) PROVE IssuedInv'
  BY <1>1, <1>7 DEF SetGcThreshold
<1>8. CASE UNCHANGED vars
  BY <1>1, <1>8 DEF vars, heapVars
<1>9. QED
  BY <1>3, <1>4, <1>6, <1>7, <1>8 DEF Next, Stopped

(* The age of a handle and its generation agree in every reachable state.  *)
LEMMA IssuedCorrect == Spec => []IssuedInv
<1>1. Init => IssuedInv
  BY DEF Init, IssuedInv
<1>2. QED
  BY <1>1, StepIssued, InvariantHolds, PTL DEF Spec

(* A handle is only resolved to the frame it was issued for, until its     *)
(* slot has been reused as often as there are generations, for every width *)
(* of the generation counter.                                              *)
THEOREM HandlesNameOneFrame == Spec => []NoAlias
<1>1. IInv /\ IssuedInv => NoAlias
  <2> SUFFICES ASSUME IInv, IssuedInv, NEW h \in issued, Check(h), Age(h) < GenMod
               PROVE  h \in Live
    BY DEF NoAlias, Age
  <2>1. h \in Handles /\ GenMod \in Nat /\ TypeOK
    BY GenModAssumption DEF IInv, TypeOK
  <2>2. Age(h) >= 0 /\ Advanced(h) /\ Age(h) \in Int /\ h.generation \in Int
    BY <2>1 DEF IssuedInv, Age, TypeOK, Handles
  <2>3. Age(h) = 0
    <3> HIDE DEF Age
    <3>1. QED
      BY <2>1, <2>2 DEF Advanced, Check
  <2>4. birth[h.idx] = h.birth /\ generation[h.idx] = h.generation
    BY <2>1, <2>3 DEF Age, Check, TypeOK, Handles
  <2>5. h = HandleOf(h.idx)
    BY <2>1, <2>4 DEF HandleOf, Handles
  <2>6. h.idx \in Occupied
    BY <2>1 DEF Check, Occupied, Handles, Slots, TypeOK
  <2>7. QED
    BY <2>5, <2>6 DEF Live
<1>2. QED
  BY <1>1, InvariantHolds, IssuedCorrect, PTL

-----------------------------------------------------------------------------
(***************************************************************************)
(* Marking.  TriColour says that what is reachable will be marked; that    *)
(* only this is marked needs the converse of every handle met.             *)
(***************************************************************************)
RootHandles == {HandleOf(h.idx) : h \in {r \in gcRoots : Check(r)}}
Reached == Reach(Store, RootHandles)
MarkTight ==
  phase = "mark" =>
    /\ \A i \in marked : HandleOf(i) \in Reached
    /\ \A h \in markStack : Check(h) => HandleOf(h.idx) \in Reached
    /\ \A r \in gcRoots : Check(r) => Followed(r)

(* Roots that name frames are reached.                                     *)
LEMMA ReachRoots ==
  ASSUME NEW store, NEW R, NEW h \in R \cap DOMAIN store
  PROVE  h \in Reach(store, R)
BY DEF Reach

(* What a reached frame refers to is reached.                              *)
LEMMA ReachStep ==
  ASSUME NEW store, NEW R, NEW h \in Reach(store, R), NEW r \in Refs(store[h]),
         r \in DOMAIN store
  PROVE  r \in Reach(store, R)
BY DEF Reach, Closed

(* A handle the heap resolves is that of a live frame.                     *)
LEMMA CheckedIsLive ==
  ASSUME TypeOK, NEW h \in Handles, Check(h)
  PROVE  h.idx \in Occupied /\ HandleOf(h.idx) \in Live /\ HandleOf(h.idx).idx = h.idx
BY DEF TypeOK, Check, Occupied, Live, HandleOf, Handles, Slots

(* Handles resolve as before, and to the same frames, while slots stay.    *)
LEMMA SameChecks ==
  ASSUME UNCHANGED <<size, data, generation, birth, gcRoots>>
  PROVE  /\ Reached' = Reached /\ \A i : HandleOf(i)' = HandleOf(i)
         /\ \A h : Check(h)' <=> Check(h)
<1>1. \A i : HandleOf(i)' = HandleOf(i)
  BY DEF HandleOf
<1>2. \A h : Check(h)' <=> Check(h)
  BY DEF Check
<1>3. RootHandles' = RootHandles
  BY <1>1, <1>2 DEF RootHandles
<1>4. Store' = Store
  BY SameSlots
<1>5. QED
  BY <1>1, <1>2, <1>3, <1>4 DEF Reached

(* A frame that is marked was reached; so is all it refers to.             *)
LEMMA MarkStepTight ==
  ASSUME IInv, MarkTight, NEW h \in markStack, MarkStep(h)
  PROVE  MarkTight'
<1>1. TypeOK /\ KeptInv /\ MarkInv /\ phase = "mark" /\ Kept = Live
  BY DEF IInv, CollectInv, MarkStep, Kept
<1>2. /\ Reached' = Reached /\ \A i : HandleOf(i)' = HandleOf(i)
      /\ \A g : Check(g)' <=> Check(g)
      /\ gcRoots' = gcRoots
  BY SameChecks DEF MarkStep, gcVars
<1>3. h \in Handles /\ markStack \subseteq Handles /\ gcRoots \subseteq Handles
  BY <1>1 DEF TypeOK
<1>4. CASE Fresh(h)
  <2>1. marked' = marked \cup {h.idx} /\ markStack' = (markStack \ {h}) \cup Children(h.idx)
    BY <1>4 DEF MarkStep
  <2>2. HandleOf(h.idx) \in Reached /\ HandleOf(h.idx) \in Live
        /\ HandleOf(h.idx).idx = h.idx
    BY <1>1, <1>3, <1>4, CheckedIsLive DEF MarkTight, Fresh
  <2>3. ASSUME NEW c \in Children(h.idx) PROVE HandleOf(c.idx) \in Reached
    <3>1. c \in Refs(data[h.idx]) /\ c \in Live
      BY <1>1, <2>2, <2>3 DEF Children, KeptInv
    <3>2. c = HandleOf(c.idx) /\ Store[HandleOf(h.idx)] = data[h.idx] /\ DOMAIN Store = Live
      BY <1>1, <2>2, <3>1, LiveFacts
    <3>3. QED
      BY <2>2, <3>1, <3>2, ReachStep DEF Reached
  <2>4. \A r \in gcRoots : Check(r) => Followed(r)'
    BY <1>1, <2>1 DEF MarkTight, Followed
  <2>5. QED
    BY <1>1, <1>2, <2>1, <2>2, <2>3, <2>4 DEF MarkTight
<1>5. CASE ~ Fresh(h)
  <2>1. marked' = marked /\ markStack' = markStack \ {h}
    BY <1>5 DEF MarkStep
  <2>2. \A r \in gcRoots : Check(r) => Followed(r)'
    BY <1>1, <1>5, <2>1 DEF MarkTight, Followed, Fresh
  <2>3. QED
    BY <1>1, <1>2, <2>1, <2>2 DEF MarkTight
<1>6. QED
  BY <1>4, <1>5

(* A collection starts with its roots on the stack and nothing marked.     *)
LEMMA StartTight ==
  ASSUME IInv, phase = "idle", NEW rs \in SUBSET Handles, NEW next, StartCollect(rs, next)
  PROVE  MarkTight'
<1>1. TypeOK /\ marked = {} /\ marked' = {} /\ markStack' = rs /\ gcRoots' = rs
  BY DEF IInv, CollectInv, MarkInv, StartCollect
<1>2. /\ \A i : HandleOf(i)' = HandleOf(i)
      /\ \A g : Check(g)' <=> Check(g)
      /\ Store' = Store
  BY SameSlots DEF StartCollect, HandleOf, Check
<1>3. RootHandles' = {HandleOf(h.idx) : h \in {r \in rs : Check(r)}}
  BY <1>1, <1>2 DEF RootHandles
<1>4. ASSUME NEW h \in rs, Check(h) PROVE HandleOf(h.idx) \in Reach(Store, RootHandles')
  <2>1. HandleOf(h.idx) \in RootHandles' /\ HandleOf(h.idx) \in DOMAIN Store
    BY <1>1, <1>3, <1>4, CheckedIsLive, LiveFacts
  <2>2. QED
    BY <2>1, ReachRoots
<1>5. QED
  BY <1>1, <1>2, <1>4 DEF MarkTight, Reached, Followed

(* Only the start of a collection and the mark loop itself matter.         *)
LEMMA StepTight == IInv /\ MarkTight /\ [Next]_vars => MarkTight'
<1> SUFFICES ASSUME IInv, MarkTight, [Next]_vars PROVE MarkTight'
  OBVIOUS
<1>0. TypeOK
  BY DEF IInv
<1>1. ASSUME phase' # "mark" PROVE MarkTight'
  BY <1>1 DEF MarkTight
<1>2. CASE UNCHANGED vars
  <2>1. Reached' = Reached /\ (\A i : HandleOf(i)' = HandleOf(i)) /\ \A h : Check(h)' <=> Check(h)
    BY <1>2, SameChecks DEF vars, heapVars, gcVars
  <2>2. QED
    BY <1>2, <2>1 DEF MarkTight, Followed, vars, heapVars, gcVars
<1>3. ASSUME NEW rs, CollectWith(rs), phase = "idle", rs \subseteq Handles PROVE MarkTight'
  BY <1>3, StartTight DEF CollectWith
<1>5. CASE GcStep
  <2>1. ASSUME NEW h \in markStack, MarkStep(h) PROVE MarkTight'
    BY <2>1, MarkStepTight
  <2>2. CASE MarkDone \/ SweepStep \/ SweepDone \/ FinishAlloc
    BY <1>0, <1>1, <2>2 DEF MarkDone, SweepStep, SweepDone, FinishAlloc, Place, TypeOK
  <2>3. QED
    BY <1>5, <2>1, <2>2 DEF GcStep
<1>6. CASE ClientStep
  <2>1. ASSUME NEW p \in held \cup {NoHandle}, Alloc(p) PROVE MarkTight'
    <3>1. CASE Place(p)
      BY <1>1, <3>1 DEF Place
    <3>2. CASE StartCollect(RootSet, "alloc")
      BY <1>0, <2>1, <3>2, StartTight, RootSetType DEF Alloc
    <3>3. QED
      BY <2>1, <3>1, <3>2 DEF Alloc
  <2>2. ASSUME NEW h \in held, NEW x \in Names,
               EnvGet(h, x) \/ \E v \in Values : EnvSet(h, x, v) \/ EnvAssign(h, x, v)
        PROVE  MarkTight'
    BY <1>1, <2>2 DEF EnvGet, EnvSet, EnvAssign, Access
  <2>3. ASSUME NEW h \in held, ParentOf(h) \/ Release(h) \/ PushRoot(h) PROVE MarkTight'
    BY <1>1, <2>3 DEF ParentOf, Release, PushRoot, Access
  <2>4. CASE PopRoot \/ Panic
    BY <1>1, <2>4 DEF PopRoot, Panic
  <2>5. QED
    BY <1>6, <2>1, <2>2, <2>3, <2>4 DEF ClientStep
<1>7. CASE AutomaticCollection \/ (\E rs \in SUBSET issued : Collect(rs))
           \/ CollectRegisteredRoots
  <2>1. issued \subseteq Handles /\ RootSet \subseteq Handles
    BY <1>0, RootSetType DEF TypeOK
  <2>2. QED
    BY <1>3, <1>7, <2>1 DEF AutomaticCollection, MaybeCollect, Collect,
       MaybeCollectRegisteredRoots, CollectRegisteredRoots
<1>8. ASSUME NEW t \in Thresholds, SetGcThreshold(t) PROVE MarkTight'
  BY <1>1, <1>8 DEF SetGcThreshold
<1>9. QED
  BY <1>2, <1>5, <1>6, <1>7, <1>8 DEF Next, Stopped

(* What is marked has been reached from the roots, all along.              *)
LEMMA MarkTightHolds == Spec => []MarkTight
<1>1. Init => MarkTight
  BY DEF Init, MarkTight
<1>2. QED
  BY <1>1, StepTight, InvariantHolds, PTL DEF Spec

(* When the mark loop ends, the marked slots are exactly those of the      *)
(* frames that the roots reach, for every graph of frames and closures and *)
(* in whatever order the stack was worked off.                             *)
THEOREM MarksExactly == Spec => []MarkIsReachability
<1>1. IInv /\ MarkTight => MarkIsReachability
  <2> SUFFICES ASSUME IInv, MarkTight, phase = "mark", markStack = {}
               PROVE  marked = {h.idx : h \in Reached}
    BY DEF MarkIsReachability, Reached, RootHandles
  <2>1. TypeOK /\ KeptInv /\ Kept = Live /\ TriColour /\ marked \subseteq Occupied
    BY DEF IInv, CollectInv, MarkInv, Kept
  <2> DEFINE S == {HandleOf(i) : i \in marked}
  <2>2. \A i : HandleOf(i).idx = i
    BY DEF HandleOf
  <2>3. S \in SUBSET DOMAIN Store
    BY <2>1, LiveFacts
  <2>4. RootHandles \cap DOMAIN Store \subseteq S
    BY DEF MarkTight, RootHandles, Followed
  <2>5. Closed(Store, S)
    <3> SUFFICES ASSUME NEW i \in marked, NEW r \in Refs(Store[HandleOf(i)]), r \in Live
                 PROVE  r \in S
      BY <2>1, LiveFacts DEF Closed
    <3>1. Store[HandleOf(i)] = data[i]
      BY <2>1, <2>2, LiveFacts
    <3>2. r.idx \in marked
      BY <2>1, <3>1 DEF TriColour, Followed
    <3>3. r = HandleOf(r.idx)
      BY <2>1, LiveFacts
    <3>4. QED
      BY <3>2, <3>3
  <2>6. Reached \subseteq S
    BY <2>3, <2>4, <2>5, ReachLeast DEF Reached
  <2>7. S \subseteq Reached
    BY DEF MarkTight
  <2>8. QED
    BY <2>2, <2>6, <2>7
<1>2. QED
  BY <1>1, InvariantHolds, MarkTightHolds, PTL

-----------------------------------------------------------------------------
(***************************************************************************)
(* The heap implements EnvStore.  Placing a frame is New, a free is        *)
(* Reclaim, reads are PickUp and writes Write; all the rest stutters.      *)
(***************************************************************************)

(* The instance has copies of EnvGraph's operators; they are the same.     *)
LEMMA SameGraph ==
  /\ \A store, R : EnvStoreOfHeap!Reach(store, R) = Reach(store, R)
  /\ \A store, h : EnvStoreOfHeap!Scope(store, h) = Scope(store, h)
  /\ \A f, x, v : EnvStoreOfHeap!Bind(f, x, v) = Bind(f, x, v)
  /\ \A p : EnvStoreOfHeap!EmptyFrame(p) = EmptyFrame(p)
<1>1. \A f : EnvStoreOfHeap!BoundNames(f) = BoundNames(f)
  BY DEF BoundNames, EnvStoreOfHeap!BoundNames
<1>2. \A f : EnvStoreOfHeap!Refs(f) = Refs(f)
  BY <1>1 DEF Refs, EnvStoreOfHeap!Refs
<1>3. \A store, S : EnvStoreOfHeap!Closed(store, S) <=> Closed(store, S)
  BY <1>2 DEF Closed, EnvStoreOfHeap!Closed
<1>4. \A store, R : EnvStoreOfHeap!Reach(store, R) = Reach(store, R)
  BY <1>3 DEF Reach, EnvStoreOfHeap!Reach
<1>5. \A store, h : EnvStoreOfHeap!Scope(store, h) = Scope(store, h)
  BY DEF Scope, EnvStoreOfHeap!Scope
<1>6. /\ \A f, x, v : EnvStoreOfHeap!Bind(f, x, v) = Bind(f, x, v)
      /\ \A p : EnvStoreOfHeap!EmptyFrame(p) = EmptyFrame(p)
  BY DEF Bind, EnvStoreOfHeap!Bind, EmptyFrame, EnvStoreOfHeap!EmptyFrame
<1>7. QED
  BY <1>4, <1>5, <1>6

(* A new frame gets a handle that was never given out before.              *)
LEMMA PlaceIsNew ==
  ASSUME IInv, IssuedInv, NEW p \in held \cup {NoHandle}, Place(p),
         phase \in {"idle", "alloc"}
  PROVE  \E h \in Handles : EnvStoreOfHeap!New(h, p)
<1>1. TypeOK /\ p \in Handles \cup {NoHandle}
  BY DEF IInv, TypeOK
<1>2. PICK h \in Handles :
           /\ h \notin Live /\ Live' = Live \cup {h}
           /\ \A g \in Live : data'[g.idx] = data[g.idx]
           /\ data'[h.idx] = EmptyFrame(p)
           /\ held' = held \cup {h} /\ issued' = issued \cup {h}
           /\ h.idx > size \/ h.birth > birth[h.idx]
  BY <1>1, PlaceLive
<1>3. h \notin issued
  BY <1>1, <1>2 DEF IssuedInv, Age, TypeOK, Handles, Slots
<1>4. Store' = [g \in DOMAIN Store \cup {h} |->
                  IF g = h THEN EmptyFrame(p) ELSE Store[g]]
  <2>1. Store' = [g \in Live \cup {h} |-> data'[g.idx]]
    BY <1>2 DEF Store
  <2>2. \A g \in Live \cup {h} :
           data'[g.idx] = IF g = h THEN EmptyFrame(p) ELSE Store[g]
    BY <1>1, <1>2, LiveFacts
  <2>3. QED
    BY <1>1, <2>1, <2>2, LiveFacts
<1>5. QED
  BY <1>2, <1>3, <1>4, SameGraph DEF EnvStoreOfHeap!New

(* Rebinding a name changes one frame of the store.                        *)
LEMMA WriteInStore ==
  ASSUME TypeOK, NEW b \in Live, NEW x \in Names, NEW v \in SUBSET Handles,
         data' = [data EXCEPT ![b.idx] = Bind(@, x, v)],
         UNCHANGED <<size, generation, birth>>
  PROVE  Store' = [Store EXCEPT ![b] = Bind(@, x, v)]
<1>1. b.idx \in Slots /\ data[b.idx] \in Frames /\ b = HandleOf(b.idx)
  BY LiveFacts
<1>2. Bind(data[b.idx], x, v) \in Frames
  BY <1>1, BindType
<1>3. Occupied' = Occupied
  BY <1>1, <1>2, RewriteOccupied
<1>4. Live' = Live
  BY <1>3 DEF Live, HandleOf
<1>5. Store' = [h \in Live |-> data'[h.idx]]
  BY <1>4 DEF Store
<1>6. ASSUME NEW h \in Live
      PROVE  data'[h.idx] = IF h = b THEN Bind(Store[b], x, v) ELSE Store[h]
  <2>1. h = HandleOf(h.idx) /\ h.idx \in Slots /\ Store[h] = data[h.idx]
        /\ Store[b] = data[b.idx]
    BY LiveFacts
  <2>2. QED
    BY <1>1, <2>1 DEF TypeOK
<1>7. DOMAIN Store = Live
  BY LiveFacts
<1>8. QED
  BY <1>5, <1>6, <1>7 DEF Store

(* The scope of a frame in reach is in reach.                              *)
LEMMA ScopeInReach ==
  ASSUME TypeOK, NEW R, NEW h \in R, NEW b \in Scope(Store, h)
  PROVE  b \in Reach(Store, R)
<1>1. b \in DOMAIN Store /\ NoHandle \notin DOMAIN Store
  BY LiveFacts, NoHandleAssumption DEF Scope
<1>2. ASSUME NEW S \in SUBSET DOMAIN Store, R \cap DOMAIN Store \subseteq S,
             Closed(Store, S)
      PROVE  b \in S
  <2>1. {h} \cap DOMAIN Store \subseteq S
    BY <1>2
  <2>2. \A f \in S : {Store[f].parent} \cap DOMAIN Store \subseteq S
    BY <1>1, <1>2 DEF Closed, Refs
  <2>3. QED
    BY <2>1, <2>2 DEF Scope
<1>3. QED
  BY <1>1, <1>2 DEF Reach

(* What a frame in reach refers to is in reach, between collections.       *)
LEMMA RefsInReach ==
  ASSUME IInv, phase = "idle", NEW b \in Reach(Store, held)
  PROVE  Refs(data[b.idx]) \subseteq Reach(Store, held)
<1>1. TypeOK /\ b \in Live /\ Store[b] = data[b.idx] /\ DOMAIN Store = Live
  BY LiveFacts DEF IInv, Reach
<1>2. Refs(data[b.idx]) \subseteq Live
  BY <1>1 DEF IInv, CollectInv, KeptInv, Kept
<1>3. QED
  BY <1>1, <1>2, ReachStep

(* Reading hands the client environments that it could reach already.      *)
LEMMA ReadIsPickUp ==
  ASSUME IInv, NEW S \in SUBSET Reach(Store, held), data' = data,
         Access(held \cup S)
  PROVE  EnvStoreOfHeap!PickUp(S)
BY SameSlots, SameGraph DEF Access, EnvStoreOfHeap!PickUp

(* What a sweep frees is out of the client's reach.                        *)
LEMMA FreeIsReclaim ==
  ASSUME IInv, SweepStep, SweepFree(cursor)
  PROVE  HandleOf(cursor) \in DOMAIN Store /\ EnvStoreOfHeap!Reclaim(HandleOf(cursor))
<1>1. TypeOK /\ KeptInv /\ phase = "sweep" /\ DOMAIN Store = Live
  BY LiveFacts DEF IInv, CollectInv, SweepStep
<1>2. PICK c \in Slots : c = cursor /\ c \in Occupied \ marked
  BY <1>1, LiveFacts DEF SweepFree
<1>3. HandleOf(c) \in Live /\ HandleOf(c).idx = c
  BY <1>2 DEF Live, HandleOf
<1>4. Kept \in SUBSET DOMAIN Store /\ HandleOf(c) \notin Kept
  BY <1>1, <1>2, <1>3 DEF Kept, Slots
<1>5. Closed(Store, Kept)
  BY <1>1, <1>4, LiveFacts DEF Closed, KeptInv
<1>6. Reach(Store, held) \subseteq Kept
  BY <1>1, <1>4, <1>5, ReachLeast DEF KeptInv
<1>7. Occupied' = Occupied \ {c} /\ \A i \in Slots : i # c => data'[i] = data[i]
  BY <1>1, <1>2, BoundsAssumption DEF SweepStep, SweepFree, Occupied, TypeOK, Slots
<1>8. Live' = Live \ {HandleOf(c)}
  <2>1. \A i \in Occupied : HandleOf(i)' = HandleOf(i) /\ HandleOf(i).idx = i
    BY DEF SweepStep, HandleOf
  <2>2. QED
    BY <1>2, <1>7, <2>1 DEF Live
<1>9. \A g \in Live \ {HandleOf(c)} : data'[g.idx] = Store[g]
  <2>1. \A g \in Live : g = HandleOf(g.idx) /\ g.idx \in Slots /\ Store[g] = data[g.idx]
    BY <1>1, LiveFacts
  <2>2. QED
    BY <1>7, <2>1
<1>10. Store' = [g \in DOMAIN Store \ {HandleOf(c)} |-> Store[g]]
  BY <1>1, <1>8, <1>9 DEF Store
<1>11. held' = held /\ issued' = issued
  BY DEF SweepStep
<1>12. QED
  BY <1>1, <1>2, <1>3, <1>4, <1>6, <1>10, <1>11, SameGraph DEF EnvStoreOfHeap!Reclaim

(* Each step of the heap is a step of the store, or leaves it alone.       *)
StoreStep == [EnvStoreOfHeap!StoreNext]_(EnvStoreOfHeap!storeVars)

(* A step that leaves slots and handles alone does not show.               *)
LEMMA StutterStep ==
  ASSUME UNCHANGED <<size, data, generation, birth, held, issued>>
  PROVE  StoreStep
BY SameSlots DEF StoreStep, EnvStoreOfHeap!storeVars

(* Allocation, at once or after a collection, is one step of the store.    *)
LEMMA PlaceStep ==
  ASSUME IInv, IssuedInv, NEW p \in held \cup {NoHandle}, Place(p),
         phase \in {"idle", "alloc"}
  PROVE  StoreStep
BY PlaceIsNew DEF StoreStep, EnvStoreOfHeap!StoreNext

(* Of a collection only the frees of the sweep show.                       *)
LEMMA GcImplements == IInv /\ IssuedInv /\ GcStep => StoreStep
<1> SUFFICES ASSUME IInv, IssuedInv, GcStep PROVE StoreStep
  OBVIOUS
<1>1. ASSUME NEW h \in markStack, MarkStep(h) PROVE StoreStep
  BY <1>1, StutterStep DEF MarkStep
<1>2. CASE MarkDone \/ SweepDone
  BY <1>2, StutterStep DEF MarkDone, SweepDone, heapVars
<1>3. CASE SweepStep
  <2>1. CASE SweepFree(cursor)
    BY <1>3, <2>1, FreeIsReclaim DEF StoreStep, EnvStoreOfHeap!StoreNext
  <2>2. CASE SweepSkip(cursor)
    BY <1>3, <2>2, StutterStep DEF SweepStep, SweepSkip
  <2>3. QED
    BY <1>3, <2>1, <2>2 DEF SweepStep
<1>4. CASE FinishAlloc
  BY <1>4, PlaceStep DEF FinishAlloc, IInv, CollectInv, PhaseInv
<1>5. QED
  BY <1>1, <1>2, <1>3, <1>4 DEF GcStep

(* A write into the scope of a handle in hand.                             *)
LEMMA WriteIsWrite ==
  ASSUME IInv, NEW h \in held, NEW b \in Scope(Store, h), NEW x \in Names,
         NEW v \in Values, Access(held), data' = [data EXCEPT ![b.idx] = Bind(@, x, v)]
  PROVE  StoreStep
<1>1. TypeOK /\ b \in DOMAIN Store /\ DOMAIN Store = Live /\ v \in SUBSET held
      /\ v \in SUBSET Handles
  BY LiveFacts DEF IInv, TypeOK, Scope, Values
<1>2. Store' = [Store EXCEPT ![b] = Bind(@, x, v)]
  BY <1>1, WriteInStore DEF Access
<1>3. EnvStoreOfHeap!Write(h, b, x, v)
  BY <1>1, <1>2, SameGraph DEF EnvStoreOfHeap!Write, Access
<1>4. QED
  BY <1>1, <1>3 DEF StoreStep, EnvStoreOfHeap!StoreNext

(* Every call of the client is one step of the store, or does not show.    *)
LEMMA ClientImplements == IInv /\ IssuedInv /\ ClientStep => StoreStep
<1> SUFFICES ASSUME IInv, IssuedInv, ClientStep PROVE StoreStep
  OBVIOUS
<1>0. TypeOK /\ (phase = "idle" => held \subseteq Live) /\ DOMAIN Store = Live
  BY LiveFacts DEF IInv, CollectInv, KeptInv, Kept
<1>1. ASSUME NEW p \in held \cup {NoHandle}, Alloc(p) PROVE StoreStep
  <2>1. CASE Place(p)
    BY <1>1, <2>1, PlaceStep DEF Alloc
  <2>2. CASE StartCollect(RootSet, "alloc")
    BY <2>2, StutterStep DEF StartCollect
  <2>3. QED
    BY <1>1, <2>1, <2>2 DEF Alloc
<1>2. ASSUME NEW S \in SUBSET Reach(Store, held), data' = data, Access(held \cup S)
      PROVE  StoreStep
  BY <1>2, ReadIsPickUp, SameGraph DEF StoreStep, EnvStoreOfHeap!StoreNext
<1>3. ASSUME NEW h \in held, NEW x \in Names, EnvGet(h, x) PROVE StoreStep
  <2>1. PICK b \in Resolve(Store, h, x) : Access(held \cup data[b.idx].vars[x])
    BY <1>3 DEF EnvGet
  <2>2. b \in Scope(Store, h) /\ phase = "idle" /\ data' = data
    BY <1>3, <2>1 DEF Resolve, Binders, EnvGet, Access
  <2>3. data[b.idx].vars[x] \subseteq Refs(data[b.idx])
    BY <1>0, ResolveFacts, BoundValueType
  <2>4. data[b.idx].vars[x] \subseteq Reach(Store, held)
    BY <1>0, <2>2, <2>3, ScopeInReach, RefsInReach
  <2>5. QED
    BY <1>2, <2>1, <2>2, <2>4
<1>4. ASSUME NEW h \in held, NEW x \in Names, NEW v \in Values, EnvSet(h, x, v)
      PROVE  StoreStep
  <2>1. h \in Scope(Store, h)
    BY <1>0, <1>4 DEF Scope, EnvSet, Access
  <2>2. QED
    BY <1>4, <2>1, WriteIsWrite DEF EnvSet
<1>5. ASSUME NEW h \in held, NEW x \in Names, NEW v \in Values, EnvAssign(h, x, v)
      PROVE  StoreStep
  <2>1. PICK b \in Resolve(Store, h, x) : data' = [data EXCEPT ![b.idx] = Bind(@, x, v)]
    BY <1>5 DEF EnvAssign
  <2>2. b \in Scope(Store, h)
    BY DEF Resolve, Binders
  <2>3. QED
    BY <1>5, <2>1, <2>2, WriteIsWrite DEF EnvAssign
<1>6. ASSUME NEW h \in held, ParentOf(h) PROVE StoreStep
  <2>1. phase = "idle" /\ h \in Live /\ data' = data
    BY <1>0, <1>6 DEF ParentOf, Access
  <2>2. data[h.idx].parent \in Refs(data[h.idx])
    BY <1>6 DEF ParentOf, Refs
  <2>3. {data[h.idx].parent} \subseteq Reach(Store, held)
    BY <1>0, <2>1, <2>2, ReachRoots, RefsInReach
  <2>4. QED
    BY <1>2, <1>6, <2>1, <2>3 DEF ParentOf
<1>7. ASSUME NEW h \in held, Release(h) PROVE StoreStep
  <2>1. EnvStoreOfHeap!Drop(h)
    BY <1>7, SameSlots DEF Release, Access, EnvStoreOfHeap!Drop
  <2>2. QED
    BY <2>1 DEF StoreStep, EnvStoreOfHeap!StoreNext
<1>8. CASE (\E h \in held : PushRoot(h)) \/ PopRoot \/ Panic
  BY <1>8, StutterStep DEF PushRoot, PopRoot, Panic, heapVars
<1>9. QED
  BY <1>1, <1>3, <1>4, <1>5, <1>6, <1>7, <1>8 DEF ClientStep

(* All the steps together; starting a collection does not show.            *)
LEMMA StepImplements == IInv /\ IssuedInv /\ [Next]_vars => StoreStep
<1> SUFFICES ASSUME IInv, IssuedInv, [Next]_vars PROVE StoreStep
  OBVIOUS
<1>1. ASSUME NEW rs, CollectWith(rs) PROVE StoreStep
  BY <1>1, StutterStep DEF CollectWith, StartCollect
<1>2. CASE AutomaticCollection \/ (\E rs \in SUBSET issued : Collect(rs))
           \/ CollectRegisteredRoots
  BY <1>1, <1>2 DEF AutomaticCollection, MaybeCollect, Collect,
     MaybeCollectRegisteredRoots, CollectRegisteredRoots
<1>3. ASSUME NEW t \in Thresholds, SetGcThreshold(t) PROVE StoreStep
  BY <1>3, StutterStep DEF SetGcThreshold
<1>4. CASE UNCHANGED vars
  BY <1>4, StutterStep DEF vars, heapVars
<1>5. QED
  BY <1>2, <1>3, <1>4, GcImplements, ClientImplements DEF Next, Stopped

(* The heap implements EnvStore: mark and sweep, the reuse of slots and    *)
(* wrapped generations show its client nothing but frames out of its reach *)
(* disappearing one by one.                                                *)
THEOREM ImplementsTheStore == Spec => ImplementsEnvStore
<1>1. Init => EnvStoreOfHeap!StoreInit
  <2> SUFFICES ASSUME Init PROVE EnvStoreOfHeap!StoreInit
    OBVIOUS
  <2>1. Live = {}
    BY DEF Init, Live, Occupied
  <2>2. Store = [h \in {} |-> EmptyFrame(NoHandle)]
    BY <2>1 DEF Store
  <2>3. QED
    BY <2>2, SameGraph DEF Init, EnvStoreOfHeap!StoreInit
<1>2. IInv /\ IssuedInv /\ [Next]_vars
        => [EnvStoreOfHeap!StoreNext]_(EnvStoreOfHeap!storeVars)
  BY StepImplements DEF StoreStep
<1>3. QED
  BY <1>1, <1>2, InvariantHolds, IssuedCorrect, PTL
     DEF Spec, ImplementsEnvStore, EnvStoreOfHeap!StoreSpec
=============================================================================
