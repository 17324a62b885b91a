-------------------------------- MODULE Heap --------------------------------
(***************************************************************************)
(* The mark-and-sweep heap of environment frames (src/src/gc.rs).          *)
(*                                                                         *)
(* The heap runs on one thread; mark and sweep are loops, and one step of  *)
(* this model is one iteration of them, so that their loop invariants can  *)
(* be stated.  No client call interleaves with them.  Slots are numbered   *)
(* from 1.  The mark stack is kept as a set: the order in which handles    *)
(* are pushed follows a HashMap's, so every pop order is possible.         *)
(* A stale handle met while marking is skipped, as the release build does. *)
(*                                                                         *)
(* The client here honours the contract stated at gc.rs:49-51 and 186-191: *)
(* what it holds is reachable from the roots it names.  EvalStack has the  *)
(* client this repository really has.                                      *)
(***************************************************************************)
EXTENDS EnvGraph, Integers, FiniteSets, Sequences

CONSTANTS
  GenMod,        \* number of generation values (2^32 in the code)
  Thresholds,    \* values the client may set gc_threshold to
  MaxSlots,      \* bound: slots the heap may grow to
  MaxAllocs,     \* bound: frames ever allocated
  MaxCaptures,   \* bound: environments captured by one value
  MaxRoots       \* bound: depth of the root stack

ASSUME GenModAssumption == GenMod \in Nat \ {0}
ASSUME BoundsAssumption ==
  /\ MaxSlots \in Nat /\ MaxAllocs \in Nat
  /\ MaxCaptures \in Nat /\ MaxRoots \in Nat
  /\ Thresholds \subseteq Nat /\ Thresholds # {}

VARIABLES
  size,          \* data.len() = meta.len()
  data,          \* data[i]: the frame in slot i, or NoFrame
  generation,    \* meta[i].generation
  marked,        \* the slots with meta[i].marked
  freeList,      \* free_list, its top at the end
  liveCount,     \* live_count
  markStack,     \* mark_stack
  gcThreshold,   \* gc_threshold
  roots,         \* the registered root stack
  phase,         \* what the current call is doing
  cursor,        \* the slot sweep looks at next
  gcRoots,       \* the roots argument of the running collection
  andThen,       \* phase to return to after the sweep: "idle" or "alloc"
  newParent,     \* alloc's argument across its safety-net collection
  birth,         \* history: how often slot i has been reused
  issued,        \* history: every handle alloc has returned
  held           \* the handles the client has in hand

heapVars == <<size, data, generation, marked, freeList, liveCount, markStack,
              gcThreshold>>
gcVars == <<cursor, gcRoots, andThen, newParent>>
vars == <<heapVars, roots, phase, gcVars, birth, issued, held>>

Slots == 1..MaxSlots
NoFrame == [parent |-> NoHandle]

(* GcHandle.  The field birth is history: the code has idx and generation  *)
(* only, and compares only those.                                          *)
Handles == [idx : Slots, generation : 0..(GenMod - 1), birth : 0..MaxAllocs]
ASSUME NoHandleAssumption == NoHandle \notin Handles

Frames == [parent : Handles \cup {NoHandle},
           vars : [Names -> (SUBSET Handles) \cup {Unbound}]]

Occupied == {i \in 1..size : data[i] # NoFrame}
HandleOf(i) == [idx |-> i, generation |-> generation[i], birth |-> birth[i]]

(* The store the client sees: the frame in each occupied slot, under the   *)
(* handle issued when it was put there.                                    *)
Live == {HandleOf(i) : i \in Occupied}
Store == [h \in Live |-> data[h.idx]]

-----------------------------------------------------------------------------
(* check(): does the heap resolve h?                                       *)
Check(h) ==
  /\ h.idx <= size
  /\ generation[h.idx] = h.generation
  /\ data[h.idx] # NoFrame

Init ==
  /\ size = 0
  /\ data = [i \in Slots |-> NoFrame]
  /\ generation = [i \in Slots |-> 0]
  /\ marked = {}
  /\ freeList = << >>
  /\ liveCount = 0
  /\ markStack = {}
  /\ gcThreshold \in Thresholds
  /\ roots = << >>
  /\ phase = "idle"
  /\ cursor = 1
  /\ gcRoots = {}
  /\ andThen = "idle"
  /\ newParent = NoHandle
  /\ birth = [i \in Slots |-> 0]
  /\ issued = {}
  /\ held = {}

(* A client only starts a collection whose roots reach all it holds.       *)
Covers(rs) == held \subseteq Reach(Store, rs)

StartCollect(rs, next) ==
  /\ phase' = "mark"
  /\ markStack' = rs
  /\ gcRoots' = rs
  /\ andThen' = next
  /\ cursor' = 1
  /\ UNCHANGED <<size, data, generation, marked, freeList, liveCount,
                 gcThreshold, roots, birth, issued, held>>

-----------------------------------------------------------------------------
(* Allocation.                                                             *)

Return(h) ==
  /\ issued' = issued \cup {h}
  /\ held' = held \cup {h}

NextGenerationStuck(g) == g             \* mutant: the slot keeps its generation
NextGenerationUnwrapped(g) == g + 1     \* mutant: no wrapping_add
NextGeneration(g) == (g + 1) % GenMod

ReuseSlot(p) ==
  LET i == freeList[Len(freeList)]
      g == NextGeneration(generation[i])
  IN /\ freeList # << >>
     /\ birth[i] < MaxAllocs     \* implied by Room; here for the type of birth
     /\ freeList' = SubSeq(freeList, 1, Len(freeList) - 1)
     /\ generation' = [generation EXCEPT ![i] = g]
     /\ birth' = [birth EXCEPT ![i] = @ + 1]
     /\ marked' = marked \ {i}
     /\ data' = [data EXCEPT ![i] = EmptyFrame(p)]
     /\ Return([idx |-> i, generation |-> g, birth |-> birth[i] + 1])
     /\ UNCHANGED size

GrowHeap(p) ==
  LET i == size + 1
  IN /\ freeList = << >>
     /\ size < MaxSlots
     /\ size' = i
     /\ data' = [data EXCEPT ![i] = EmptyFrame(p)]
     /\ Return([idx |-> i, generation |-> 0, birth |-> 0])
     /\ UNCHANGED <<freeList, generation, birth, marked>>

Place(p) ==
  /\ ReuseSlot(p) \/ GrowHeap(p)
  /\ liveCount' = liveCount + 1
  /\ phase' = "idle"
  /\ newParent' = NoHandle
  /\ UNCHANGED <<markStack, gcThreshold, roots, cursor, gcRoots, andThen>>

(* The bounds leave room for the allocation.                               *)
Room ==
  Cardinality(issued) < MaxAllocs /\ (size < MaxSlots \/ freeList # << >>)

SafetyNet == freeList = << >> /\ roots # << >> /\ liveCount > gcThreshold
RootSet == {roots[k] : k \in 1..Len(roots)}

Alloc(p) ==
  /\ phase = "idle"
  /\ Room
  /\ \/ ~SafetyNet /\ Place(p)
     \/ /\ SafetyNet
        /\ Covers(RootSet)
        /\ StartCollect(RootSet, "alloc")
        /\ newParent' = p

FinishAlloc == phase = "alloc" /\ Place(newParent)

-----------------------------------------------------------------------------
(* The collection cycle.                                                   *)

ChildrenParentOnly(i) == {data[i].parent} \ {NoHandle}  \* mutant: bindings not scanned
Children(i) == Refs(data[i])

FreshUnlessInvalid(h) == Check(h)       \* mutant: marked slots are visited again
Fresh(h) == Check(h) /\ h.idx \notin marked

MarkStep(h) ==
  /\ phase = "mark"
  /\ \/ /\ Fresh(h)
        /\ marked' = marked \cup {h.idx}
        /\ markStack' = (markStack \ {h}) \cup Children(h.idx)
     \/ /\ ~Fresh(h)
        /\ markStack' = markStack \ {h}
        /\ UNCHANGED marked
  /\ UNCHANGED <<size, data, generation, freeList, liveCount, gcThreshold,
                 roots, phase, gcVars, birth, issued, held>>

MarkDone ==
  /\ phase = "mark" /\ markStack = {}
  /\ phase' = "sweep"
  /\ UNCHANGED <<heapVars, roots, gcVars, birth, issued, held>>

(* mutants: the slot is not listed as free; it is still counted as live;   *)
(* marked frames are freed too.                                            *)
SweepFreeUnlisted(i) ==
  /\ i \in Occupied \ marked
  /\ data' = [data EXCEPT ![i] = NoFrame]
  /\ liveCount' = liveCount - 1
  /\ UNCHANGED <<freeList, marked>>

SweepFreeMarked(i) ==
  /\ i \in Occupied
  /\ data' = [data EXCEPT ![i] = NoFrame]
  /\ freeList' = Append(freeList, i)
  /\ liveCount' = liveCount - 1
  /\ marked' = marked \ {i}

SweepFree(i) ==
  /\ i \in Occupied \ marked
  /\ data' = [data EXCEPT ![i] = NoFrame]
  /\ freeList' = Append(freeList, i)
  /\ liveCount' = liveCount - 1
  /\ UNCHANGED marked

(* mutant: the mark bit stays set for the next cycle.                      *)
SweepSkipKeepMark(i) ==
  i \notin Occupied \ marked /\ UNCHANGED <<data, freeList, liveCount, marked>>

SweepSkip(i) ==
  /\ i \notin Occupied \ marked
  /\ marked' = marked \ {i}
  /\ UNCHANGED <<data, freeList, liveCount>>

SweepStep ==
  /\ phase = "sweep" /\ cursor <= size
  /\ SweepFree(cursor) \/ SweepSkip(cursor)
  /\ cursor' = cursor + 1
  /\ UNCHANGED <<size, generation, markStack, gcThreshold, roots, phase,
                 gcRoots, andThen, newParent, birth, issued, held>>

SweepDone ==
  /\ phase = "sweep" /\ cursor > size
  /\ phase' = andThen
  /\ cursor' = 1
  /\ gcRoots' = {}
  /\ andThen' = "idle"
  /\ UNCHANGED <<heapVars, roots, newParent, birth, issued, held>>

CollectWith(rs) == Covers(rs) /\ StartCollect(rs, "idle") /\ UNCHANGED newParent

Collect(rs) == phase = "idle" /\ CollectWith(rs)

CollectRegisteredRoots ==
  phase = "idle" /\ roots # << >> /\ CollectWith(RootSet)

MaybeCollect(rs) ==
  phase = "idle" /\ liveCount > gcThreshold /\ CollectWith(rs)

MaybeCollectRegisteredRoots ==
  /\ phase = "idle" /\ liveCount > gcThreshold /\ roots # << >>
  /\ CollectWith(RootSet)

-----------------------------------------------------------------------------
(* Access to frames.                                                       *)

Access(newHeld) ==
  /\ phase = "idle"
  /\ held' = newHeld
  /\ UNCHANGED <<size, generation, marked, freeList, liveCount, markStack,
                 gcThreshold, roots, phase, gcVars, birth, issued>>

(* Reading puts the environments captured by the value in the client's     *)
(* hands.                                                                  *)
EnvGet(h, x) ==
  /\ Check(h)
  /\ \E b \in Resolve(Store, h, x) : Access(held \cup data[b.idx].vars[x])
  /\ UNCHANGED data

EnvSet(h, x, v) ==
  /\ Check(h)
  /\ Access(held)
  /\ data' = [data EXCEPT ![h.idx] = Bind(@, x, v)]

EnvAssign(h, x, v) ==
  /\ Check(h)
  /\ Access(held)
  /\ \E b \in Resolve(Store, h, x) :
        data' = [data EXCEPT ![b.idx] = Bind(@, x, v)]

ParentOf(h) ==
  /\ Check(h)
  /\ data[h.idx].parent # NoHandle
  /\ Access(held \cup {data[h.idx].parent})
  /\ UNCHANGED data

Release(h) == Access(held \ {h}) /\ UNCHANGED data

PushRoot(h) ==
  /\ phase = "idle" /\ Len(roots) < MaxRoots
  /\ roots' = Append(roots, h)
  /\ UNCHANGED <<heapVars, phase, gcVars, birth, issued, held>>

PopRoot ==
  /\ phase = "idle" /\ roots # << >>
  /\ roots' = SubSeq(roots, 1, Len(roots) - 1)
  /\ UNCHANGED <<heapVars, phase, gcVars, birth, issued, held>>

SetGcThreshold(t) ==
  /\ phase = "idle"
  /\ gcThreshold' = t
  /\ UNCHANGED <<size, data, generation, marked, freeList, liveCount,
                 markStack, roots, phase, gcVars, birth, issued, held>>

(* Every access above starts with check(); one that fails panics, and so   *)
(* does popping an empty root stack.                                       *)
Panic ==
  /\ phase = "idle"
  /\ \/ \E h \in issued : ~Check(h)
     \/ roots = << >>
  /\ phase' = "panicked"
  /\ UNCHANGED <<heapVars, roots, gcVars, birth, issued, held>>

Stopped == phase = "panicked" /\ UNCHANGED vars

-----------------------------------------------------------------------------
Values == {v \in SUBSET held : Cardinality(v) <= MaxCaptures}

GcStep ==
  \/ \E h \in markStack : MarkStep(h)
  \/ MarkDone
  \/ SweepStep
  \/ SweepDone
  \/ FinishAlloc

ClientStep ==
  \/ \E p \in held \cup {NoHandle} : Alloc(p)
  \/ \E h \in held, x \in Names : EnvGet(h, x)
  \/ \E h \in held, x \in Names, v \in Values : EnvSet(h, x, v)
  \/ \E h \in held, x \in Names, v \in Values : EnvAssign(h, x, v)
  \/ \E h \in held : ParentOf(h)
  \/ \E h \in held : Release(h)
  \/ \E h \in held : PushRoot(h)
  \/ PopRoot
  \/ Panic

(* Collections the heap starts by itself, on its threshold.                *)
AutomaticCollection ==
  \/ \E rs \in SUBSET issued : MaybeCollect(rs)
  \/ MaybeCollectRegisteredRoots

Next ==
  \/ GcStep
  \/ ClientStep
  \/ \E t \in Thresholds : SetGcThreshold(t)
  \/ AutomaticCollection
  \/ \E rs \in SUBSET issued : Collect(rs)
  \/ CollectRegisteredRoots
  \/ Stopped

Spec == Init /\ [][Next]_vars

-----------------------------------------------------------------------------
(* Type correctness of the heap's fields and of the model's own variables. *)
TypeOK ==
  /\ size \in 0..MaxSlots
  /\ data \in [Slots -> Frames \cup {NoFrame}]
  /\ generation \in [Slots -> 0..(GenMod - 1)]
  /\ marked \subseteq 1..size
  /\ freeList \in Seq(Slots)
  /\ liveCount \in Int                \* BooksBalance says it is a Nat
  /\ markStack \subseteq Handles
  /\ gcThreshold \in Nat
  /\ roots \in Seq(Handles)
  /\ phase \in {"idle", "mark", "sweep", "alloc", "panicked"}
  /\ cursor \in 1..(MaxSlots + 1)
  /\ gcRoots \subseteq Handles
  /\ andThen \in {"idle", "alloc"}
  /\ newParent \in Handles \cup {NoHandle}
  /\ birth \in [Slots -> 0..MaxAllocs]
  /\ issued \subseteq Handles
  /\ held \subseteq Handles

(* alloc pops a slot and writes it without looking, and live_count is      *)
(* never recounted (gc.rs:135-140): so at every moment, inside a sweep     *)
(* too, the free list must be exactly the empty slots, each once, and      *)
(* live_count the number of full ones.                                     *)
FreeListExact ==
  /\ \A k, m \in 1..Len(freeList) : freeList[k] = freeList[m] => k = m
  /\ {freeList[k] : k \in 1..Len(freeList)} = (1..size) \ Occupied
LiveCountExact == liveCount = Cardinality(Occupied)
BooksBalance == FreeListExact /\ LiveCountExact

(* What the client holds, and every frame it can reach from there, stays   *)
(* its own: no collection frees it and no reuse of a slot puts another     *)
(* frame under its handle, however often generations wrap.                 *)
HeldKeepTheirFrames == held \subseteq Live

(* Between calls no frame in the heap refers to a frame that is gone       *)
(* (gc.rs:65-66: meeting one while marking is a bug).                      *)
NoDanglingReference ==
  phase = "idle" => \A i \in Occupied : Refs(data[i]) \subseteq Live

(* A handle is only ever resolved to the frame it was issued for, until    *)
(* its slot has been reused GenMod times (gc.rs:90-95).                    *)
NoAlias ==
  \A h \in issued :
    Check(h) /\ birth[h.idx] - h.birth < GenMod => h \in Live

(* Once mark's loop ends, the marked slots are exactly those of the frames *)
(* reachable from the roots the heap could resolve (gc.rs:392-396).        *)
MarkIsReachability ==
  (phase = "mark" /\ markStack = {}) =>
    marked = {h.idx : h \in Reach(Store, {HandleOf(h.idx) : h \in
                                             {r \in gcRoots : Check(r)}})}

(* Every collection ends, on cyclic graphs of closures too (gc.rs:58-61),  *)
(* when the loops keep running as loops do.                                *)
LiveSpec == Spec /\ WF_vars(GcStep)
CollectionEnds == phase \in {"mark", "sweep", "alloc"} ~> phase = "idle"

(* The heap implements the store it promises its client.                   *)
EnvStoreOfHeap == INSTANCE EnvStore WITH store <- Store, used <- issued
ImplementsEnvStore == EnvStoreOfHeap!StoreSpec
=============================================================================
