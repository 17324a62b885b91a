--------------------------- MODULE EvalStackProofs ---------------------------
(***************************************************************************)
(* Proofs about the root sets, for every threshold and every bound.        *)
(***************************************************************************)
EXTENDS EvalStack, SequenceTheorems, WellFoundedInduction, TLAPS

(***************************************************************************)
(* The invariant.  A VM frame with n scopes open looks names up in the     *)
(* last of a chain of n frames above the environment it was called in;     *)
(* a collection of its own evaluation keeps the whole chain, because the   *)
(* last frame is a root and each refers to the one before.                 *)
(***************************************************************************)

Chain(st, n, f, chain) ==
  /\ chain \in [0..f.scopes -> 1..n]
  /\ chain[0] = f.env
  /\ \A i \in 1..f.scopes :
       chain[i - 1] \in DOMAIN st => chain[i] = st[chain[i - 1]].parent
  /\ ~f.exposed => \A i \in 0..f.scopes : chain[i] \in DOMAIN st

(* What holds of an activation f over the heap st of n allocations.        *)
Safe(st, n, f) ==
  /\ \E chain \in [0..f.scopes -> 1..n] : Chain(st, n, f, chain)
  /\ f.inner \in (1..n) \cup {NoHandle}
  /\ f.engine = "vm" => f.inner = NoHandle
  /\ ~f.exposed => f.inner \in DOMAIN st \cup {NoHandle}

AllSafe(st, n, s) == \A k \in 1..Len(s) : Safe(st, n, s[k])

(* Only VM frames are stacked inside one evaluation.                       *)
Nested(s) ==
  \A k \in 1..Len(s) :
    ~s[k].entry => k > 1 /\ s[k].engine = "vm" /\ s[k - 1].engine = "vm"

HeapOK(st, n) ==
  /\ DOMAIN st \subseteq 1..n
  /\ \A h \in DOMAIN st : st[h] \in Frames

StackOK(st, n, s) == s \in Seq(Activations) /\ Nested(s) /\ AllSafe(st, n, s)

IInv ==
  /\ allocated \in Handles /\ panicked \in BOOLEAN
  /\ HeapOK(store, allocated)
  /\ StackOK(store, allocated, stack)

(***************************************************************************)
(* Reachability.                                                           *)
(***************************************************************************)

LEMMA LeastNatural ==
  \A T \in SUBSET Nat : T # {} => \E x \in T : \A y \in T : x <= y
<1>1. \E R : /\ IsWellFoundedOn(R, Nat)
             /\ \A x, y \in Nat : y < x => <<y, x>> \in R
  <2> DEFINE Less == OpToRel(<, Nat)
  <2>1. IsWellFoundedOn(Less, Nat)
    BY NatLessThanWellFounded
  <2>2. \A x, y \in Nat : y < x => <<y, x>> \in Less
    BY DEF OpToRel
  <2> HIDE DEF Less
  <2>3. QED
    BY <2>1, <2>2
<1>2. PICK R : /\ IsWellFoundedOn(R, Nat)
               /\ \A x, y \in Nat : y < x => <<y, x>> \in R
  BY <1>1
<1>3. ASSUME NEW T \in SUBSET Nat, T # {}
      PROVE  \E x \in T : \A y \in T : x <= y
  <2>1. PICK x \in T : \A y \in T : ~(<<y, x>> \in R)
    BY <1>2, <1>3, WFMin
  <2>2. \A y \in T : ~(y < x)
    BY <1>2, <2>1
  <2>3. QED
    BY <2>2
<1>4. QED
  BY <1>3

LEMMA ReachFacts ==
  ASSUME NEW st, NEW R
  PROVE  R \cap DOMAIN st \subseteq Reach(st, R) /\ Reach(st, R) \subseteq DOMAIN st
BY DEF Reach

(* A chain of parents whose first frame is a root is kept to its end.      *)
LEMMA ChainReached ==
  ASSUME NEW st, NEW R, NEW n \in Nat, NEW chain,
         chain[0] \in R,
         \A i \in 0..n : chain[i] \in DOMAIN st,
         \A i \in 1..n : chain[i] = st[chain[i - 1]].parent,
         NoHandle \notin DOMAIN st
  PROVE  \A i \in 0..n : chain[i] \in Reach(st, R)
<1> SUFFICES ASSUME NEW S \in SUBSET DOMAIN st,
                    R \cap DOMAIN st \subseteq S, Closed(st, S)
             PROVE  \A i \in 0..n : chain[i] \in S
  BY DEF Reach
<1> DEFINE T == {i \in 0..n : chain[i] \notin S}
<1>0. T \in SUBSET Nat /\ \A i \in 0..n : chain[i] \in S \/ i \in T
  OBVIOUS
<1>1. ASSUME T # {} PROVE FALSE
  <2>1. PICK x \in T : \A y \in T : x <= y
    <3> HIDE DEF T
    <3>1. QED
      BY <1>0, <1>1, LeastNatural
  <2>2. x \in 1..n
    BY <2>1
  <2>3. chain[x - 1] \in S
    BY <2>1, <2>2
  <2>4. chain[x] \in Refs(st[chain[x - 1]])
    <3>1. chain[x] = st[chain[x - 1]].parent /\ chain[x] # NoHandle
      BY <2>2
    <3>2. QED
      BY <3>1 DEF Refs
  <2>5. QED
    BY <2>1, <2>2, <2>3, <2>4 DEF Closed
<1>2. QED
  BY <1>0, <1>1

(***************************************************************************)
(* What an activation keeps.                                               *)
(***************************************************************************)

(* The heap grows, and no frame changes its parent.                        *)
LEMMA SafeGrows ==
  ASSUME NEW st, NEW st2, NEW n \in Nat, NEW m \in Nat, n <= m,
         NEW f \in Activations, Safe(st, n, f),
         DOMAIN st \subseteq DOMAIN st2,
         \A h \in DOMAIN st2 : h \in 1..n => h \in DOMAIN st,
         \A h \in DOMAIN st : st2[h].parent = st[h].parent
  PROVE  Safe(st2, m, f)
<1>1. PICK chain \in [0..f.scopes -> 1..n] : Chain(st, n, f, chain)
  BY DEF Safe
<1>2. chain \in [0..f.scopes -> 1..m] /\ f.scopes \in Nat
  BY <1>1 DEF Activations
<1>3. Chain(st2, m, f, chain)
  BY <1>1, <1>2 DEF Chain
<1>4. QED
  BY <1>2, <1>3 DEF Safe

(* A collection that the activation had no say in.                         *)
LEMMA SafeExposed ==
  ASSUME NEW st, NEW st2, NEW n \in Nat, NEW f \in Activations, Safe(st, n, f),
         DOMAIN st2 \subseteq DOMAIN st,
         \A h \in DOMAIN st2 : st2[h] = st[h]
  PROVE  Safe(st2, n, [f EXCEPT !.exposed = TRUE])
<1> DEFINE g == [f EXCEPT !.exposed = TRUE]
<1>1. PICK chain \in [0..f.scopes -> 1..n] : Chain(st, n, f, chain)
  BY DEF Safe
<1>2. /\ g.scopes = f.scopes /\ g.env = f.env /\ g.inner = f.inner
      /\ g.engine = f.engine /\ g.exposed = TRUE /\ f.scopes \in Nat
  BY DEF Activations
<1> HIDE DEF g
<1>3. Chain(st2, n, g, chain)
  BY <1>1, <1>2 DEF Chain
<1>4. Safe(st2, n, g)
  BY <1>1, <1>2, <1>3 DEF Safe
<1>5. QED
  BY <1>4 DEF g

(* A collection that takes its environment as a root.                      *)
LEMMA SafeRooted ==
  ASSUME NEW st, NEW n \in Nat, NEW R, NEW f \in Activations, Safe(st, n, f),
         NoHandle \notin DOMAIN st, f.env \in R, f.inner = NoHandle
  PROVE  Safe([h \in Reach(st, R) |-> st[h]], n, f)
<1> DEFINE st2 == [h \in Reach(st, R) |-> st[h]]
<1>1. PICK chain \in [0..f.scopes -> 1..n] : Chain(st, n, f, chain)
  BY DEF Safe
<1>2. f.scopes \in Nat
  BY DEF Activations
<1>3. ~f.exposed => \A i \in 0..f.scopes : chain[i] \in Reach(st, R)
  <2> SUFFICES ASSUME ~f.exposed PROVE \A i \in 0..f.scopes : chain[i] \in Reach(st, R)
    OBVIOUS
  <2>1. chain[0] \in R /\ \A i \in 0..f.scopes : chain[i] \in DOMAIN st
    BY <1>1 DEF Chain
  <2>2. \A i \in 1..f.scopes : chain[i] = st[chain[i - 1]].parent
    BY <1>1, <1>2, <2>1 DEF Chain
  <2>3. QED
    BY <1>2, <2>1, <2>2, ChainReached
<1>4. DOMAIN st2 = Reach(st, R) /\ \A h \in DOMAIN st2 : h \in DOMAIN st /\ st2[h] = st[h]
  BY ReachFacts
<1> HIDE DEF st2
<1>5. Chain(st2, n, f, chain)
  BY <1>1, <1>2, <1>3, <1>4 DEF Chain
<1>6. Safe(st2, n, f)
  BY <1>1, <1>5 DEF Safe
<1>7. QED
  BY <1>6 DEF st2

(* Whatever an activation holds in values is not what Safe is about.       *)
LEMMA SafeVals ==
  ASSUME NEW st, NEW n, NEW f \in Activations, NEW v \in SUBSET Handles, Safe(st, n, f)
  PROVE  /\ [f EXCEPT !.vals = v] \in Activations
         /\ Safe(st, n, [f EXCEPT !.vals = v])
<1> DEFINE g == [f EXCEPT !.vals = v]
<1>1. /\ g.scopes = f.scopes /\ g.env = f.env /\ g.inner = f.inner
      /\ g.engine = f.engine /\ g.exposed = f.exposed /\ g \in Activations
  BY DEF Activations
<1> HIDE DEF g
<1>2. Safe(st, n, g)
  BY <1>1 DEF Safe, Chain
<1>3. QED
  BY <1>1, <1>2 DEF g

LEMMA SafeActivation ==
  ASSUME NEW st, NEW n \in Nat, n <= MaxAllocs,
         NEW engine \in {"tree", "vm"}, NEW entry \in BOOLEAN,
         NEW h \in 1..n, NEW e \in BOOLEAN, ~e => h \in DOMAIN st
  PROVE  /\ Activation(engine, entry, h, e) \in Activations
         /\ Safe(st, n, Activation(engine, entry, h, e))
<1> DEFINE f == Activation(engine, entry, h, e)
           chain == [i \in 0..0 |-> h]
<1>1. /\ f.scopes = 0 /\ f.env = h /\ f.inner = NoHandle
      /\ f.engine = engine /\ f.exposed = e
  BY DEF Activation
<1>2. f \in Activations
  BY StackBounds DEF Activation, Activations, Handles
<1>3. chain \in [0..0 -> 1..n] /\ chain[0] = h
  OBVIOUS
<1> HIDE DEF f, chain
<1>4. Chain(st, n, f, chain)
  BY <1>1, <1>3 DEF Chain
<1>5. Safe(st, n, f)
  BY <1>1, <1>3, <1>4 DEF Safe
<1>6. QED
  BY <1>2, <1>5 DEF f

(***************************************************************************)
(* Stacks.                                                                 *)
(***************************************************************************)

LEMMA TopFacts ==
  ASSUME NEW s \in Seq(Activations), s # << >>
  PROVE  /\ Len(s) \in Nat /\ Len(s) >= 1 /\ Len(s) \in 1..Len(s)
         /\ DOMAIN s = 1..Len(s)
         /\ \A k \in 1..Len(s) : s[k] \in Activations
BY EmptySeq, ElementOfSeq, LenProperties

(* The top is replaced: by the first activation of an evaluation, or by    *)
(* one that stands where it stood.                                         *)
LEMMA TopReplaced ==
  ASSUME NEW st, NEW n, NEW s, s # << >>, StackOK(st, n, s),
         NEW f \in Activations, Safe(st, n, f),
         f.entry \/ (f.entry = s[Len(s)].entry /\ f.engine = s[Len(s)].engine)
  PROVE  /\ StackOK(st, n, [s EXCEPT ![Len(s)] = f])
         /\ Len([s EXCEPT ![Len(s)] = f]) = Len(s)
         /\ [s EXCEPT ![Len(s)] = f][Len(s)] = f
         /\ [s EXCEPT ![Len(s)] = f] # << >>
<1> DEFINE t == [s EXCEPT ![Len(s)] = f]
<1>1. s \in Seq(Activations)
  BY DEF StackOK
<1>2. /\ t \in Seq(Activations) /\ Len(t) = Len(s) /\ t[Len(s)] = f
      /\ \A k \in 1..Len(s) : k # Len(s) => t[k] = s[k]
  BY <1>1, TopFacts, ExceptSeq
<1> HIDE DEF t
<1>3. t # << >>
  <2>1. Len(t) >= 1
    BY <1>1, <1>2, TopFacts
  <2>2. Len(<< >>) = 0
    OBVIOUS
  <2>3. QED
    BY <2>1, <2>2
<1>4. AllSafe(st, n, t)
  BY <1>2 DEF AllSafe, StackOK
<1>5. Nested(t)
  <2> SUFFICES ASSUME NEW k \in 1..Len(s), ~t[k].entry
               PROVE  k > 1 /\ t[k].engine = "vm" /\ t[k - 1].engine = "vm"
    BY <1>2 DEF Nested
  <2>1. ~s[k].entry /\ t[k].engine = s[k].engine
    BY <1>2
  <2>2. k > 1 /\ s[k].engine = "vm" /\ s[k - 1].engine = "vm"
    BY <2>1 DEF StackOK, Nested
  <2>3. k - 1 \in 1..Len(s) /\ k - 1 # Len(s)
    BY <1>1, <2>2, TopFacts
  <2>4. QED
    BY <1>2, <2>1, <2>2, <2>3
<1>6. QED
  BY <1>2, <1>3, <1>4, <1>5 DEF StackOK, t

LEMMA Pushed ==
  ASSUME NEW st, NEW n, NEW s, StackOK(st, n, s),
         NEW f \in Activations, Safe(st, n, f),
         f.entry \/ (s # << >> /\ f.engine = "vm" /\ s[Len(s)].engine = "vm")
  PROVE  /\ StackOK(st, n, Append(s, f))
         /\ Append(s, f) # << >>
         /\ Append(s, f)[Len(Append(s, f))] = f
<1> DEFINE t == Append(s, f)
<1>1. s \in Seq(Activations)
  BY DEF StackOK
<1>2. /\ t \in Seq(Activations) /\ Len(t) = Len(s) + 1 /\ t[Len(s) + 1] = f
      /\ \A k \in 1..Len(s) : t[k] = s[k]
  BY <1>1, AppendProperties
<1>3. Len(s) \in Nat /\ (s # << >> => Len(s) >= 1)
  BY <1>1, LenProperties, EmptySeq
<1>4. t # << >>
  BY <1>2, <1>3, LenProperties, EmptySeq
<1> HIDE DEF t
<1>5. AllSafe(st, n, t)
  <2> SUFFICES ASSUME NEW k \in 1..Len(t) PROVE Safe(st, n, t[k])
    BY DEF AllSafe
  <2>1. CASE k = Len(s) + 1
    BY <1>2, <2>1
  <2>2. CASE k # Len(s) + 1
    <3>1. k \in 1..Len(s)
      BY <1>2, <1>3, <2>2
    <3>2. QED
      BY <1>2, <3>1 DEF AllSafe, StackOK
  <2>3. QED
    BY <2>1, <2>2
<1>6. Nested(t)
  <2> SUFFICES ASSUME NEW k \in 1..Len(t), ~t[k].entry
               PROVE  k > 1 /\ t[k].engine = "vm" /\ t[k - 1].engine = "vm"
    BY DEF Nested
  <2>1. CASE k = Len(s) + 1
    <3>1. f.engine = "vm" /\ s[Len(s)].engine = "vm" /\ Len(s) >= 1
      BY <1>2, <1>3, <2>1
    <3>2. Len(s) \in 1..Len(s) /\ k - 1 = Len(s) /\ k > 1
      BY <1>3, <2>1, <3>1
    <3>3. QED
      BY <1>2, <2>1, <3>1, <3>2
  <2>2. CASE k # Len(s) + 1
    <3>1. k \in 1..Len(s)
      BY <1>2, <1>3, <2>2
    <3>2. k > 1 /\ s[k].engine = "vm" /\ s[k - 1].engine = "vm"
      BY <1>2, <3>1 DEF StackOK, Nested
    <3>3. k - 1 \in 1..Len(s)
      BY <1>3, <3>1, <3>2
    <3>4. QED
      BY <1>2, <3>1, <3>2, <3>3
  <2>3. QED
    BY <2>1, <2>2
<1>7. QED
  BY <1>2, <1>3, <1>4, <1>5, <1>6 DEF StackOK, t

(* The heap grows under the whole stack.                                   *)
LEMMA HeapGrows ==
  ASSUME NEW st, NEW st2, NEW n \in Nat, NEW m \in Nat, n <= m, NEW s,
         StackOK(st, n, s), DOMAIN st \subseteq DOMAIN st2,
         \A h \in DOMAIN st2 : h \in 1..n => h \in DOMAIN st,
         \A h \in DOMAIN st : st2[h].parent = st[h].parent
  PROVE  StackOK(st2, m, s)
<1>1. \A k \in 1..Len(s) : s[k] \in Activations /\ Safe(st, n, s[k])
  BY ElementOfSeq DEF StackOK, AllSafe
<1>2. \A k \in 1..Len(s) : Safe(st2, m, s[k])
  BY <1>1, SafeGrows
<1>3. QED
  BY <1>2 DEF StackOK, AllSafe

(* A value changes hands: nothing else does.                               *)
LEMMA TopHolds ==
  ASSUME NEW st, NEW n, NEW s, s # << >>, StackOK(st, n, s),
         NEW v \in SUBSET Handles
  PROVE  StackOK(st, n, [s EXCEPT ![Len(s)] = [s[Len(s)] EXCEPT !.vals = v]])
<1> DEFINE f == s[Len(s)]
           g == [f EXCEPT !.vals = v]
<1>1. f \in Activations /\ Safe(st, n, f)
  BY TopFacts DEF StackOK, AllSafe
<1>2. g \in Activations /\ Safe(st, n, g)
  BY <1>1, SafeVals
<1>3. g.entry = f.entry /\ g.engine = f.engine
  BY <1>1 DEF Activations
<1> HIDE DEF g
<1>4. StackOK(st, n, [s EXCEPT ![Len(s)] = g])
  BY <1>2, <1>3, TopReplaced
<1>5. QED
  BY <1>4 DEF g

(***************************************************************************)
(* Collections.                                                            *)
(***************************************************************************)

LEMMA CollectedFacts ==
  ASSUME NEW st, NEW n, NEW R, HeapOK(st, n)
  PROVE  /\ HeapOK(Collected(st, R), n)
         /\ DOMAIN Collected(st, R) \subseteq DOMAIN st
         /\ R \cap DOMAIN st \subseteq DOMAIN Collected(st, R)
         /\ \A h \in DOMAIN Collected(st, R) : Collected(st, R)[h] = st[h]
<1>1. CASE Exceeds(st)
  BY <1>1, ReachFacts DEF Collected, HeapOK
<1>2. CASE ~Exceeds(st)
  BY <1>2 DEF Collected, HeapOK
<1>3. QED
  BY <1>1, <1>2

(* The roots of a collection are the environments of the evaluation that   *)
(* collects, whose frames are filling no inner frame: its activations are  *)
(* as safe as before, and the others are exposed.                          *)
LEMMA CollectionSafe ==
  ASSUME NEW st, NEW n \in Nat, NEW s, NEW R,
         HeapOK(st, n), StackOK(st, n, s), NoHandle \notin DOMAIN st,
         \A k \in Own(s) : s[k].env \in R /\ s[k].inner = NoHandle,
         MaybeCollect(st, s, R)
  PROVE  HeapOK(store', n) /\ StackOK(store', n, stack')
<1>1. HeapOK(store', n)
  BY CollectedFacts DEF MaybeCollect
<1>2. CASE ~Exceeds(st)
  BY <1>1, <1>2 DEF MaybeCollect, Collected
<1>3. CASE Exceeds(st)
  <2>1. store' = [h \in Reach(st, R) |-> st[h]] /\ stack' = Expose(s)
    BY <1>3 DEF MaybeCollect, Collected
  <2>2. \A k \in 1..Len(s) : s[k] \in Activations /\ Safe(st, n, s[k])
    BY ElementOfSeq DEF StackOK, AllSafe
  <2>3. Len(s) \in Nat
    BY LenProperties DEF StackOK
  <2>4. DOMAIN stack' = 1..Len(s) /\ Len(stack') = Len(s)
    BY <2>1, <2>3, LenProperties DEF Expose
  <2>5. \A k \in 1..Len(s) :
           stack'[k] = IF k \in Own(s) THEN s[k] ELSE [s[k] EXCEPT !.exposed = TRUE]
    BY <2>1 DEF Expose
  <2>6. \A k \in 1..Len(s) :
           /\ stack'[k] \in Activations
           /\ stack'[k].entry = s[k].entry /\ stack'[k].engine = s[k].engine
    BY <2>2, <2>5 DEF Activations
  <2>7. stack' \in Seq(Activations)
    <3>1. stack' = [k \in 1..Len(s) |-> stack'[k]]
      BY <2>1, <2>4 DEF Expose
    <3>2. QED
      BY <2>3, <2>6, <3>1, IsASeq
  <2>8. Nested(stack')
    BY <2>3, <2>4, <2>6 DEF Nested, StackOK
  <2>9. AllSafe(store', n, stack')
    <3> SUFFICES ASSUME NEW k \in 1..Len(s) PROVE Safe(store', n, stack'[k])
      BY <2>4 DEF AllSafe
    <3>1. CASE k \in Own(s)
      <4>1. Safe([h \in Reach(st, R) |-> st[h]], n, s[k])
        BY <2>2, <3>1, SafeRooted
      <4>2. QED
        BY <2>1, <2>5, <3>1, <4>1
    <3>2. CASE k \notin Own(s)
      <4>1. DOMAIN store' \subseteq DOMAIN st /\ \A h \in DOMAIN store' : store'[h] = st[h]
        BY <2>1, ReachFacts
      <4>2. Safe(store', n, [s[k] EXCEPT !.exposed = TRUE])
        BY <2>2, <4>1, SafeExposed
      <4>3. QED
        BY <2>5, <3>2, <4>2
    <3>3. QED
      BY <3>1, <3>2
  <2>10. QED
    BY <1>1, <2>7, <2>8, <2>9 DEF StackOK
<1>4. QED
  BY <1>2, <1>3

(* An evaluation that has just begun is all there is of its own.           *)
LEMMA OwnEntry ==
  ASSUME NEW s, Len(s) \in Nat, Len(s) >= 1, s[Len(s)].entry
  PROVE  Own(s) = {Len(s)}
BY DEF Own

LEMMA OwnVm ==
  ASSUME NEW s, Len(s) \in Nat, Len(s) >= 1, Nested(s), s[Len(s)].engine = "vm",
         NEW k \in Own(s)
  PROVE  k \in 1..Len(s) /\ s[k].engine = "vm"
<1>1. k \in 1..Len(s) /\ \A m \in (k + 1)..Len(s) : ~s[m].entry
  BY DEF Own
<1>2. CASE k = Len(s)
  BY <1>1, <1>2
<1>3. CASE k # Len(s)
  <2>1. k + 1 \in (k + 1)..Len(s) /\ k + 1 \in 1..Len(s) /\ (k + 1) - 1 = k
    BY <1>1, <1>3
  <2>2. QED
    BY <1>1, <2>1 DEF Nested
<1>4. QED
  BY <1>2, <1>3

(***************************************************************************)
(* Heaps.                                                                  *)
(***************************************************************************)

LEMMA FrameTypes ==
  ASSUME NEW x \in Names, NEW v \in SUBSET Handles
  PROVE  /\ \A f \in Frames : Bind(f, x, v) \in Frames /\ Bind(f, x, v).parent = f.parent
         /\ \A p \in Handles \cup {NoHandle} : CallFrame(p, x, v) \in Frames
BY DEF Frames, Bind, EmptyFrame, CallFrame

LEMMA EmptyFrameType ==
  \A p \in Handles \cup {NoHandle} : EmptyFrame(p) \in Frames
BY DEF Frames, EmptyFrame

(* The numbers of an execution.                                            *)
LEMMA Counted ==
  ASSUME IInv
  PROVE  /\ allocated \in Nat /\ allocated >= 1 /\ allocated <= MaxAllocs
         /\ Live \subseteq 1..allocated /\ Live \subseteq Handles
         /\ NoHandle \notin Live
         /\ Global \in 1..allocated
BY StackBounds, NoHandleIsNone DEF IInv, HeapOK, Handles, Live, Global

(* A frame is allocated.                                                   *)
LEMMA Allocated ==
  ASSUME IInv, CanAlloc, NEW frame \in Frames
  PROVE  /\ New \in Nat /\ New \in Handles /\ New <= MaxAllocs /\ New \in 1..New
         /\ HeapOK(With(frame), New)
         /\ New \notin Live /\ NoHandle \notin DOMAIN With(frame)
         /\ DOMAIN With(frame) = Live \cup {New}
         /\ With(frame)[New] = frame
         /\ \A h \in Live : With(frame)[h] = store[h]
         /\ StackOK(With(frame), New, stack)
<1>1. allocated \in Nat /\ allocated < MaxAllocs /\ MaxAllocs \in Nat
  BY Counted, StackBounds DEF CanAlloc
<1>2. New \in Nat /\ New \in Handles /\ New <= MaxAllocs /\ New \in 1..New
  BY <1>1 DEF New, Handles
<1>3. New \notin Live /\ New \notin 1..allocated
  BY <1>1, Counted DEF New
<1>4. /\ DOMAIN With(frame) = Live \cup {New} /\ With(frame)[New] = frame
      /\ \A h \in Live : With(frame)[h] = store[h]
  BY <1>3 DEF With
<1>5. HeapOK(With(frame), New)
  BY <1>1, <1>2, <1>4, Counted DEF HeapOK, IInv, Live, New
<1>6. NoHandle \notin DOMAIN With(frame)
  BY <1>2, <1>4, Counted, NoHandleIsNone
<1>7. StackOK(With(frame), New, stack)
  <2>1. allocated <= New /\ StackOK(store, allocated, stack)
    BY <1>1 DEF New, IInv
  <2> HIDE DEF New
  <2>2. QED
    BY <1>1, <1>2, <1>3, <1>4, <2>1, HeapGrows DEF Live
<1>8. QED
  BY <1>2, <1>3, <1>4, <1>5, <1>6, <1>7

(* A live frame is rebound.                                                *)
LEMMA Rebound ==
  ASSUME IInv, NEW h \in Live, NEW x \in Names, NEW v \in SUBSET Handles,
         store' = [store EXCEPT ![h] = Bind(@, x, v)],
         UNCHANGED <<allocated, stack, panicked>>
  PROVE  IInv'
<1>1. store[h] \in Frames
  BY DEF IInv, HeapOK, Live
<1>2. /\ DOMAIN store' = DOMAIN store
      /\ \A g \in DOMAIN store : store'[g] = IF g = h THEN Bind(store[h], x, v) ELSE store[g]
  BY DEF Live
<1>3. \A g \in DOMAIN store : store'[g] \in Frames /\ store'[g].parent = store[g].parent
  BY <1>1, <1>2, FrameTypes DEF IInv, HeapOK
<1>4. StackOK(store', allocated, stack)
  <2>1. /\ allocated \in Nat /\ allocated <= allocated
        /\ StackOK(store, allocated, stack)
    BY Counted DEF IInv
  <2>2. QED
    BY <1>2, <1>3, <2>1, HeapGrows
<1>5. QED
  BY <1>2, <1>3, <1>4 DEF IInv, HeapOK

LEMMA ValuesType ==
  ASSUME IInv, stack # << >>
  PROVE  /\ Cur \in Activations /\ Safe(store, allocated, Cur)
         /\ Cur.vals \subseteq Handles /\ Values \subseteq SUBSET Handles
         /\ Cur.env \in 1..allocated /\ (~Cur.exposed => Cur.env \in Live)
<1>1. Cur \in Activations /\ Safe(store, allocated, Cur)
  BY TopFacts DEF IInv, StackOK, AllSafe, Cur, Depth
<1>2. Cur.vals \subseteq Handles /\ Cur.scopes \in Nat
  BY <1>1 DEF Activations
<1>3. PICK chain \in [0..Cur.scopes -> 1..allocated] : Chain(store, allocated, Cur, chain)
  BY <1>1 DEF Safe
<1>4. 0 \in 0..Cur.scopes
  BY <1>2
<1>5. Cur.env \in 1..allocated /\ (~Cur.exposed => Cur.env \in Live)
  BY <1>3, <1>4 DEF Chain, Live
<1>6. QED
  BY <1>1, <1>2, <1>5 DEF Values

LEMMA ResolveFacts ==
  ASSUME IInv, NEW h, NEW x \in Names, NEW b \in Resolve(store, h, x)
  PROVE  b \in Live /\ store[b].vars[x] \in SUBSET Handles
<1>1. b \in DOMAIN store /\ x \in BoundNames(store[b])
  BY DEF Resolve, Binders, Scope
<1>2. QED
  BY <1>1 DEF IInv, HeapOK, Live, Frames, BoundNames

(***************************************************************************)
(* The steps.                                                              *)
(***************************************************************************)

(* The innermost activation keeps all but its values.                      *)
LEMMA HoldInv ==
  ASSUME IInv, stack # << >>, NEW v \in SUBSET Handles,
         stack' = WithTop([Cur EXCEPT !.vals = v]),
         UNCHANGED <<store, allocated, panicked>>
  PROVE  IInv'
<1>1. StackOK(store, allocated, stack')
  BY TopHolds DEF IInv, WithTop, Cur, Depth
<1>2. QED
  BY <1>1 DEF IInv

LEMMA LookupInv == ASSUME IInv, NEW x \in Names, Lookup(x) PROVE IInv'
<1>1. PICK b \in Resolve(store, Cur.env, x) :
        stack' = WithTop(Holding(Cur, store[b].vars[x]))
  BY DEF Lookup
<1>2. stack # << >> /\ Cur.vals \cup store[b].vars[x] \in SUBSET Handles
  BY <1>1, ResolveFacts, ValuesType DEF Lookup
<1>3. stack' = WithTop([Cur EXCEPT !.vals = Cur.vals \cup store[b].vars[x]])
  BY <1>1 DEF Holding
<1>4. QED
  BY <1>2, <1>3, HoldInv DEF Lookup

LEMMA MakeClosureInv == ASSUME IInv, MakeClosure PROVE IInv'
<1>1. stack # << >> /\ Cur.vals \cup {Cur.env} \in SUBSET Handles
  BY ValuesType DEF MakeClosure, Activations
<1>2. stack' = WithTop([Cur EXCEPT !.vals = Cur.vals \cup {Cur.env}])
  BY DEF MakeClosure, Holding
<1>3. QED
  BY <1>1, <1>2, HoldInv DEF MakeClosure

LEMMA DropValueInv == ASSUME IInv, NEW h, DropValue(h) PROVE IInv'
<1>1. stack # << >> /\ Cur.vals \ {h} \in SUBSET Handles
  BY ValuesType DEF DropValue
<1>2. QED
  BY <1>1, HoldInv DEF DropValue

LEMMA ReturnInv ==
  ASSUME IInv, NEW v \in Values, Return(v) PROVE IInv'
<1>1. /\ stack # << >> /\ stack \in Seq(Activations)
      /\ UNCHANGED <<store, allocated, panicked>>
      /\ StackOK(store, allocated, stack)
  BY DEF Return, IInv, StackOK
<1>2. CASE Depth = 1
  <2>1. stack' = << >>
    BY <1>2 DEF Return
  <2>2. StackOK(store, allocated, << >>)
    BY EmptySeq DEF StackOK, Nested, AllSafe
  <2>3. QED
    BY <1>1, <2>1, <2>2 DEF IInv
<1>3. CASE Depth # 1
  <2> DEFINE s == SubSeq(stack, 1, Depth - 1)
             d == Depth - 1
  <2>1. Depth \in Nat /\ d \in Nat /\ d >= 1 /\ d <= Depth
    <3>1. Len(stack) \in Nat /\ Len(stack) >= 1
      BY <1>1, TopFacts
    <3>2. QED
      BY <1>3, <3>1 DEF Depth
  <2>2. s \in Seq(Activations) /\ Len(s) = d /\ \A k \in 1..d : s[k] = stack[k]
    BY <1>1, <2>1, SubSeqProperties DEF Depth
  <2>3. \A k \in 1..d : k \in 1..Len(stack) /\ (k > 1 => k - 1 \in 1..d)
    BY <2>1 DEF Depth
  <2>4. StackOK(store, allocated, s) /\ s # << >>
    <3> HIDE DEF s
    <3>1. Nested(s)
      BY <1>1, <2>2, <2>3 DEF StackOK, Nested
    <3>2. AllSafe(store, allocated, s)
      BY <1>1, <2>2, <2>3 DEF StackOK, AllSafe
    <3>3. QED
      BY <2>1, <2>2, <3>1, <3>2, EmptySeq DEF StackOK
  <2> DEFINE w == s[d].vals \cup v
             f == [s[d] EXCEPT !.vals = w]
  <2>5. w \in SUBSET Handles
    <3>1. s[d] \in Activations
      BY <2>1, <2>2, ElementOfSeq
    <3>2. QED
      BY <1>1, <3>1, ValuesType DEF Activations
  <2>6. StackOK(store, allocated, [s EXCEPT ![d] = f])
    <3> HIDE DEF s, w
    <3>1. QED
      BY <2>2, <2>4, <2>5, TopHolds
  <2>7. stack' = [s EXCEPT ![d] = f]
    <3>1. stack' = [k \in 1..d |-> IF k = d THEN Holding(stack[d], v) ELSE stack[k]]
      BY <1>3 DEF Return
    <3>2. Holding(stack[d], v) = f
      <4>1. stack[d] = s[d]
        BY <2>1, <2>2
      <4> HIDE DEF s, d
      <4>2. QED
        BY <4>1 DEF Holding
    <3>3. DOMAIN s = 1..d
      BY <2>2, LenProperties
    <3> HIDE DEF s, f, d
    <3>4. QED
      BY <2>2, <3>1, <3>2, <3>3
  <2>8. QED
    BY <1>1, <2>6, <2>7 DEF IInv
<1>4. QED
  BY <1>2, <1>3

(* An empty stack is safe.                                                 *)
LEMMA Stopping ==
  ASSUME IInv, stack' = << >>, UNCHANGED <<store, allocated>>, panicked' \in BOOLEAN
  PROVE  IInv'
<1>1. StackOK(store, allocated, << >>)
  BY EmptySeq DEF StackOK, Nested, AllSafe
<1>2. QED
  BY <1>1 DEF IInv

(* An evaluation is begun in an environment, live or not.                  *)
LEMMA BeginInv ==
  ASSUME IInv, NEW engine \in {"tree", "vm"}, NEW h \in 1..allocated,
         stack' = Append(stack, Activation(engine, TRUE, h, h \notin Live)),
         UNCHANGED <<store, allocated, panicked>>
  PROVE  IInv'
<1> DEFINE e == h \notin Live
           f == Activation(engine, TRUE, h, e)
<1>1. e \in BOOLEAN /\ (~e => h \in DOMAIN store)
  BY DEF Live
<1>2. f \in Activations /\ Safe(store, allocated, f)
  <2> HIDE DEF e
  <2>1. allocated \in Nat /\ allocated <= MaxAllocs
    BY Counted
  <2>2. QED
    BY <1>1, <2>1, SafeActivation
<1>3. f.entry
  BY DEF Activation
<1>4. stack' = Append(stack, f)
  OBVIOUS
<1> HIDE DEF f
<1>5. StackOK(store, allocated, stack)
  BY DEF IInv
<1>6. StackOK(store, allocated, Append(stack, f))
  BY <1>2, <1>3, <1>5, Pushed
<1>7. QED
  BY <1>4, <1>6 DEF IInv

LEMMA EvalPartInv ==
  ASSUME IInv, NEW engine \in {"tree", "vm"}, NEW at, EvalPart(engine, at)
  PROVE  IInv'
<1>1. stack # << >> /\ at \in {Cur.env, Cur.inner} \ {NoHandle}
  BY DEF EvalPart, Running
<1>2. at \in 1..allocated
  BY <1>1, ValuesType DEF Safe
<1>3. QED
  BY <1>2, BeginInv DEF EvalPart

LEMMA TreeEvalInv == ASSUME IInv, TreeEval PROVE IInv'
<1>1. Cur.env \in 1..allocated
  BY ValuesType DEF TreeEval, Running
<1>2. QED
  BY <1>1, BeginInv DEF TreeEval

LEMMA EvalFormInv ==
  ASSUME IInv, NEW engine \in {"tree", "vm"}, EvalForm(engine) PROVE IInv'
<1>1. Global \in 1..allocated
  BY Counted
<1>2. stack' = Append(stack, Activation(engine, TRUE, Global, Global \notin Live))
  BY DEF EvalForm
<1>3. QED
  BY <1>1, <1>2, BeginInv DEF EvalForm

LEMMA EnterInnerInv == ASSUME IInv, EnterInner PROVE IInv'
<1> DEFINE f == Activation("tree", TRUE, Cur.inner, Cur.exposed)
<1>1. stack # << >> /\ Cur.inner # NoHandle
  BY DEF EnterInner, Running
<1>2. /\ Cur.inner \in 1..allocated /\ Cur.exposed \in BOOLEAN
      /\ ~Cur.exposed => Cur.inner \in DOMAIN store
  BY <1>1, ValuesType DEF Safe, Activations
<1>3. f \in Activations /\ Safe(store, allocated, f)
  <2>1. allocated \in Nat /\ allocated <= MaxAllocs
    BY Counted
  <2>2. QED
    BY <1>2, <2>1, SafeActivation
<1>4. f.entry
  BY DEF Activation
<1>5. stack' = [stack EXCEPT ![Len(stack)] = f] /\ UNCHANGED <<store, allocated, panicked>>
  BY DEF EnterInner, WithTop, Depth
<1> HIDE DEF f
<1>6. StackOK(store, allocated, stack')
  BY <1>1, <1>3, <1>4, <1>5, TopReplaced DEF IInv
<1>7. QED
  BY <1>5, <1>6 DEF IInv

(* let and PushEnv allocate a frame and look at nothing else.              *)
LEMMA OpenInnerInv == ASSUME IInv, OpenInner PROVE IInv'
<1> DEFINE f == [Cur EXCEPT !.inner = New]
           st == With(EmptyFrame(Cur.env))
<1>1. /\ stack # << >> /\ CanAlloc /\ Cur.engine = "tree"
      /\ store' = st /\ allocated' = New /\ UNCHANGED panicked
      /\ stack' = [stack EXCEPT ![Len(stack)] = f]
  BY DEF OpenInner, Running, WithTop, Depth
<1>2. Cur \in Activations /\ EmptyFrame(Cur.env) \in Frames
  BY <1>1, ValuesType, EmptyFrameType DEF Activations
<1>3. /\ New \in Handles /\ New \in 1..New /\ HeapOK(st, New) /\ New \in DOMAIN st
      /\ StackOK(st, New, stack)
  BY <1>1, <1>2, Allocated
<1> HIDE DEF st
<1>4. Safe(st, New, Cur)
  BY <1>1, <1>3, TopFacts DEF StackOK, AllSafe, Cur, Depth
<1>5. /\ f \in Activations /\ f.entry = Cur.entry /\ f.engine = Cur.engine
      /\ f.scopes = Cur.scopes /\ f.env = Cur.env /\ f.exposed = Cur.exposed
      /\ f.inner = New
  BY <1>2, <1>3 DEF Activations
<1> HIDE DEF f
<1>6. Safe(st, New, f)
  BY <1>1, <1>3, <1>4, <1>5 DEF Safe, Chain
<1>7. StackOK(st, New, stack')
  BY <1>1, <1>3, <1>5, <1>6, TopReplaced DEF Cur, Depth
<1>8. QED
  BY <1>1, <1>3, <1>7 DEF IInv

LEMMA PushEnvInv == ASSUME IInv, PushEnv PROVE IInv'
<1> DEFINE f == [Cur EXCEPT !.env = New, !.scopes = @ + 1]
           st == With(EmptyFrame(Cur.env))
<1>1. /\ stack # << >> /\ CanAlloc /\ Cur.scopes < MaxScopes
      /\ store' = st /\ allocated' = New /\ UNCHANGED panicked
      /\ stack' = [stack EXCEPT ![Len(stack)] = f]
  BY DEF PushEnv, Running, WithTop, Depth
<1>2. Cur \in Activations /\ EmptyFrame(Cur.env) \in Frames
  BY <1>1, ValuesType, EmptyFrameType DEF Activations
<1>3. /\ New \in Nat /\ New \in Handles /\ New \in 1..New /\ HeapOK(st, New)
      /\ New \in DOMAIN st /\ st[New] = EmptyFrame(Cur.env)
      /\ StackOK(st, New, stack)
  BY <1>1, <1>2, Allocated
<1> HIDE DEF st
<1>4. Safe(st, New, Cur)
  BY <1>1, <1>3, TopFacts DEF StackOK, AllSafe, Cur, Depth
<1>5. Cur.scopes \in Nat /\ Cur.scopes + 1 \in 0..MaxScopes
  BY <1>1, <1>2, StackBounds DEF Activations
<1>6. /\ f \in Activations /\ f.entry = Cur.entry /\ f.engine = Cur.engine
      /\ f.scopes = Cur.scopes + 1 /\ f.env = New /\ f.exposed = Cur.exposed
      /\ f.inner = Cur.inner
  BY <1>2, <1>3, <1>5 DEF Activations
<1> HIDE DEF f
<1>7. Safe(st, New, f)
  <2>1. PICK old \in [0..Cur.scopes -> 1..New] : Chain(st, New, Cur, old)
    BY <1>4 DEF Safe
  <2> DEFINE chain == [i \in 0..f.scopes |-> IF i = 0 THEN New ELSE old[i - 1]]
  <2>2. chain \in [0..f.scopes -> 1..New]
    BY <1>3, <1>5, <1>6, <2>1
  <2>3. chain[0] = New /\ \A i \in 1..f.scopes : chain[i] = old[i - 1] /\ i - 1 \in 0..Cur.scopes
    BY <1>5, <1>6
  <2> HIDE DEF chain
  <2>4. \A i \in 1..f.scopes : chain[i - 1] \in DOMAIN st => chain[i] = st[chain[i - 1]].parent
    <3> SUFFICES ASSUME NEW i \in 1..f.scopes, chain[i - 1] \in DOMAIN st
                 PROVE  chain[i] = st[chain[i - 1]].parent
      OBVIOUS
    <3>1. CASE i = 1
      <4>1. chain[1] = Cur.env
        BY <1>5, <1>6, <2>1, <2>3 DEF Chain
      <4>2. QED
        BY <1>3, <2>3, <3>1, <4>1 DEF EmptyFrame
    <3>2. CASE i # 1
      <4>1. i - 1 \in 1..f.scopes /\ i - 1 \in 1..Cur.scopes
        BY <1>5, <1>6, <3>2
      <4>2. chain[i - 1] = old[(i - 1) - 1] /\ chain[i] = old[i - 1]
        BY <2>3, <4>1
      <4>3. QED
        BY <2>1, <4>1, <4>2 DEF Chain
    <3>3. QED
      BY <3>1, <3>2
  <2>5. ~f.exposed => \A i \in 0..f.scopes : chain[i] \in DOMAIN st
    <3> SUFFICES ASSUME ~f.exposed, NEW i \in 0..f.scopes PROVE chain[i] \in DOMAIN st
      OBVIOUS
    <3>1. CASE i = 0
      BY <1>3, <2>3, <3>1
    <3>2. CASE i # 0
      <4>1. i \in 1..f.scopes
        BY <1>5, <1>6, <3>2
      <4>2. QED
        BY <1>6, <2>1, <2>3, <4>1 DEF Chain
    <3>3. QED
      BY <3>1, <3>2
  <2>6. Chain(st, New, f, chain)
    BY <1>6, <2>2, <2>3, <2>4, <2>5 DEF Chain
  <2>7. QED
    BY <1>4, <1>6, <2>2, <2>6 DEF Safe
<1>8. StackOK(st, New, stack')
  BY <1>1, <1>3, <1>6, <1>7, TopReplaced DEF Cur, Depth
<1>9. QED
  BY <1>1, <1>3, <1>8 DEF IInv

LEMMA PopEnvInv == ASSUME IInv, PopEnv PROVE IInv'
<1> DEFINE f == [Cur EXCEPT !.env = store[Cur.env].parent, !.scopes = @ - 1]
<1>1. /\ stack # << >> /\ Cur.scopes > 0 /\ Cur.env \in Live
      /\ UNCHANGED <<store, allocated, panicked>>
      /\ stack' = [stack EXCEPT ![Len(stack)] = f]
  BY DEF PopEnv, Running, WithTop, Depth
<1>2. Cur \in Activations /\ Safe(store, allocated, Cur)
  BY <1>1, ValuesType
<1>3. Cur.scopes \in Nat /\ Cur.scopes - 1 \in 0..MaxScopes /\ 1 \in 1..Cur.scopes
  BY <1>1, <1>2, StackBounds DEF Activations
<1>4. PICK old \in [0..Cur.scopes -> 1..allocated] : Chain(store, allocated, Cur, old)
  BY <1>2 DEF Safe
<1>5. old[1] = store[Cur.env].parent
  BY <1>1, <1>3, <1>4 DEF Chain, Live
<1>6. old[1] \in 1..allocated /\ old[1] \in Handles
  <2>1. 1 \in 0..Cur.scopes
    BY <1>3
  <2>2. old[1] \in 1..allocated
    BY <1>4, <2>1
  <2>3. QED
    BY <2>2, Counted, StackBounds DEF Handles
<1>7. /\ f \in Activations /\ f.entry = Cur.entry /\ f.engine = Cur.engine
      /\ f.scopes = Cur.scopes - 1 /\ f.env = old[1] /\ f.exposed = Cur.exposed
      /\ f.inner = Cur.inner
  BY <1>2, <1>3, <1>5, <1>6 DEF Activations
<1> HIDE DEF f
<1> DEFINE chain == [i \in 0..f.scopes |-> old[i + 1]]
<1>8. /\ chain \in [0..f.scopes -> 1..allocated] /\ chain[0] = old[1]
      /\ \A i \in 0..f.scopes : chain[i] = old[i + 1] /\ i + 1 \in 1..Cur.scopes
  BY <1>3, <1>4, <1>7
<1> HIDE DEF chain
<1>9. \A i \in 1..f.scopes : chain[i - 1] = old[i] /\ i \in 0..f.scopes
  BY <1>3, <1>7, <1>8
<1>10. Chain(store, allocated, f, chain)
  <2>1. \A i \in 1..f.scopes :
          chain[i - 1] \in DOMAIN store => chain[i] = store[chain[i - 1]].parent
    <3> SUFFICES ASSUME NEW i \in 1..f.scopes, chain[i - 1] \in DOMAIN store
                 PROVE  chain[i] = store[chain[i - 1]].parent
      OBVIOUS
    <3>1. chain[i - 1] = old[(i + 1) - 1] /\ chain[i] = old[i + 1] /\ i + 1 \in 1..Cur.scopes
      BY <1>3, <1>7, <1>8, <1>9
    <3>2. QED
      BY <1>4, <3>1 DEF Chain
  <2>2. ~f.exposed => \A i \in 0..f.scopes : chain[i] \in DOMAIN store
    BY <1>3, <1>4, <1>7, <1>8 DEF Chain
  <2>3. QED
    BY <1>7, <1>8, <2>1, <2>2 DEF Chain
<1>11. Safe(store, allocated, f)
  BY <1>2, <1>7, <1>8, <1>10 DEF Safe
<1>12. StackOK(store, allocated, stack')
  BY <1>1, <1>7, <1>11, TopReplaced DEF IInv, Cur, Depth
<1>13. QED
  BY <1>1, <1>12 DEF IInv

LEMMA TreeCallWrongArityInv ==
  ASSUME IInv, NEW c \in Cur.vals, TreeCallWrongArity(c) PROVE IInv'
<1>1. stack # << >> /\ CanAlloc
  BY DEF TreeCallWrongArity, Running
<1>2. EmptyFrame(c) \in Frames
  BY <1>1, ValuesType, EmptyFrameType
<1>3. New \in Handles /\ HeapOK(store', allocated') /\ allocated' = New
  BY <1>1, <1>2, Allocated DEF TreeCallWrongArity
<1>4. StackOK(store', allocated', << >>)
  BY EmptySeq DEF StackOK, Nested, AllSafe
<1>5. QED
  BY <1>3, <1>4 DEF TreeCallWrongArity, IInv

(* The collection inside a call: st is the heap with the call frame, s the *)
(* stack with the callee's activation on top.                              *)
LEMMA CallCollects ==
  ASSUME IInv, CanAlloc, NEW frame \in Frames, NEW s, NEW R,
         StackOK(With(frame), New, s),
         \A k \in Own(s) : s[k].env \in R /\ s[k].inner = NoHandle,
         MaybeCollect(With(frame), s, R),
         allocated' = New, UNCHANGED panicked
  PROVE  IInv'
<1>1. /\ New \in Nat /\ New \in Handles /\ HeapOK(With(frame), New)
      /\ NoHandle \notin DOMAIN With(frame)
  BY Allocated
<1>2. HeapOK(store', New) /\ StackOK(store', New, stack')
  BY <1>1, CollectionSafe
<1>3. QED
  BY <1>1, <1>2 DEF IInv

(* The callee's activation.                                                *)
LEMMA Callee ==
  ASSUME IInv, CanAlloc, NEW frame \in Frames,
         NEW engine \in {"tree", "vm"}, NEW entry \in BOOLEAN
  PROVE  LET f == Activation(engine, entry, New, FALSE)
         IN /\ f \in Activations /\ Safe(With(frame), New, f)
            /\ f.env = New /\ f.inner = NoHandle /\ f.engine = engine /\ f.entry = entry
<1> DEFINE f == Activation(engine, entry, New, FALSE)
           st == With(frame)
<1>1. New \in Nat /\ New <= MaxAllocs /\ New \in 1..New /\ New \in DOMAIN st
  BY Allocated
<1> HIDE DEF st
<1>2. f \in Activations /\ Safe(st, New, f)
  BY <1>1, SafeActivation
<1>3. /\ f.env = New /\ f.inner = NoHandle /\ f.engine = engine /\ f.entry = entry
  BY DEF Activation
<1>4. QED
  BY <1>2, <1>3 DEF st

LEMMA TreeCallInv ==
  ASSUME IInv, NEW c \in Cur.vals, NEW x \in Names, NEW v \in Values, TreeCall(c, x, v)
  PROVE  IInv'
<1> DEFINE frame == CallFrame(c, x, v)
           f == Activation("tree", TRUE, New, FALSE)
           s == WithTop(f)
<1>1. /\ stack # << >> /\ CanAlloc /\ MaybeCollect(With(frame), s, TreeRoots(c))
      /\ allocated' = New /\ UNCHANGED panicked
  BY DEF TreeCall, Running
<1>2. frame \in Frames
  BY <1>1, ValuesType, FrameTypes
<1> HIDE DEF frame
<1>3. /\ f \in Activations /\ Safe(With(frame), New, f)
      /\ f.env = New /\ f.inner = NoHandle /\ f.entry
  BY <1>1, <1>2, Callee
<1>4. StackOK(With(frame), New, stack)
  BY <1>1, <1>2, Allocated
<1>5. s = [stack EXCEPT ![Len(stack)] = f]
  BY DEF WithTop, Depth
<1> HIDE DEF f, s
<1>6. /\ StackOK(With(frame), New, s) /\ s # << >> /\ s[Len(s)] = f
  <2> DEFINE t == [stack EXCEPT ![Len(stack)] = f]
  <2>1. /\ StackOK(With(frame), New, t) /\ t # << >>
        /\ Len(t) = Len(stack) /\ t[Len(stack)] = f
    BY <1>1, <1>3, <1>4, TopReplaced
  <2>2. QED
    BY <1>5, <2>1
<1>7. Len(s) \in Nat /\ Len(s) >= 1
  BY <1>6, TopFacts DEF StackOK
<1>8. \A k \in Own(s) : s[k].env \in TreeRoots(c) /\ s[k].inner = NoHandle
  BY <1>3, <1>6, <1>7, OwnEntry DEF TreeRoots
<1>9. QED
  BY <1>1, <1>2, <1>6, <1>8, CallCollects

LEMMA CallbackInv ==
  ASSUME IInv, NEW engine \in {"tree", "vm"}, NEW c \in Cur.vals, NEW x \in Names,
         NEW v \in Values, Callback(engine, c, x, v)
  PROVE  IInv'
<1> DEFINE frame == CallFrame(c, x, v)
           f == Activation(engine, TRUE, New, FALSE)
           s == Append(stack, f)
           R == {Global, c, New}
<1>1. /\ stack # << >> /\ CanAlloc /\ MaybeCollect(With(frame), s, R)
      /\ allocated' = New /\ UNCHANGED panicked
  BY DEF Callback
<1>2. frame \in Frames
  BY <1>1, ValuesType, FrameTypes
<1> HIDE DEF frame
<1>3. /\ f \in Activations /\ Safe(With(frame), New, f)
      /\ f.env = New /\ f.inner = NoHandle /\ f.entry
  BY <1>1, <1>2, Callee
<1>4. StackOK(With(frame), New, stack)
  BY <1>1, <1>2, Allocated
<1> HIDE DEF f
<1>5. /\ StackOK(With(frame), New, s) /\ s # << >> /\ s[Len(s)] = f
  BY <1>3, <1>4, Pushed
<1> HIDE DEF s
<1>6. Len(s) \in Nat /\ Len(s) >= 1
  BY <1>5, TopFacts DEF StackOK
<1>7. \A k \in Own(s) : s[k].env \in R /\ s[k].inner = NoHandle
  BY <1>3, <1>5, <1>6, OwnEntry
<1> HIDE DEF R
<1>8. QED
  BY <1>1, <1>2, <1>5, <1>7, CallCollects

(* The roots of a VM are the environments of its own frames.               *)
LEMMA VmOwnRooted ==
  ASSUME NEW st, NEW n, NEW s, StackOK(st, n, s), s # << >>, s[Len(s)].engine = "vm"
  PROVE  \A k \in Own(s) : s[k].env \in VmRoots(s) /\ s[k].inner = NoHandle
<1>1. Len(s) \in Nat /\ Len(s) >= 1
  BY TopFacts DEF StackOK
<1>2. \A k \in Own(s) : k \in 1..Len(s) /\ s[k].engine = "vm"
  BY <1>1, OwnVm DEF StackOK
<1>3. QED
  BY <1>2 DEF VmRoots, StackOK, AllSafe, Safe

(* The stack on which a call of the VM collects.                           *)
VmCollects(frame, s) ==
  /\ StackOK(With(frame), New, s) /\ s # << >>
  /\ s[Len(s)].engine = "vm" /\ s[Len(s)].env = New
  /\ MaybeCollect(With(frame), s, VmRoots(s))

LEMMA VmCallStack ==
  ASSUME IInv, NEW c \in Cur.vals, NEW x \in Names, NEW v \in Values, VmCall(c, x, v)
  PROVE  \E s : VmCollects(CallFrame(c, x, v), s)
<1> DEFINE frame == CallFrame(c, x, v)
           f == Activation("vm", FALSE, New, FALSE)
<1>1. PICK w \in SUBSET Cur.vals :
        LET t == [stack EXCEPT ![Len(stack)] = [stack[Len(stack)] EXCEPT !.vals = w]]
            s == Append(t, f)
        IN MaybeCollect(With(frame), s, VmRoots(s))
  <2>1. PICK top \in AfterPops(c, v) :
          LET s == Append(WithTop(top), f) IN MaybeCollect(With(frame), s, VmRoots(s))
    BY DEF VmCall
  <2>2. CASE top = Cur
    <3>1. [stack[Len(stack)] EXCEPT !.vals = Cur.vals] = Cur
      <4>1. Cur \in Activations
        BY ValuesType DEF VmCall, Running
      <4>2. QED
        BY <4>1 DEF Cur, Depth, Activations
    <3>2. QED
      BY <2>1, <2>2, <3>1 DEF WithTop, Depth
  <2>3. CASE top = [Cur EXCEPT !.vals = @ \ ({c} \cup v)]
    <3>1. Cur.vals \ ({c} \cup v) \in SUBSET Cur.vals
      OBVIOUS
    <3>2. QED
      BY <2>1, <2>3, <3>1 DEF WithTop, Cur, Depth
  <2>4. QED
    BY <2>1, <2>2, <2>3 DEF AfterPops
<1> DEFINE t == [stack EXCEPT ![Len(stack)] = [stack[Len(stack)] EXCEPT !.vals = w]]
           s == Append(t, f)
<1>2. /\ stack # << >> /\ CanAlloc /\ MaybeCollect(With(frame), s, VmRoots(s))
      /\ allocated' = New /\ UNCHANGED panicked /\ Cur.engine = "vm"
  BY <1>1 DEF VmCall, Running
<1>3. frame \in Frames /\ w \in SUBSET Handles
  BY <1>2, ValuesType, FrameTypes
<1> HIDE DEF frame
<1>4. /\ f \in Activations /\ Safe(With(frame), New, f)
      /\ f.engine = "vm" /\ f.env = New
  BY <1>2, <1>3, Callee
<1>5. StackOK(With(frame), New, stack)
  BY <1>2, <1>3, Allocated
<1>6. StackOK(With(frame), New, t)
  BY <1>2, <1>3, <1>5, TopHolds
<1>7. t # << >> /\ t[Len(t)].engine = "vm"
  <2>1. stack \in Seq(Activations) /\ Len(stack) \in 1..Len(stack) /\ Len(stack) >= 1
        /\ stack[Len(stack)] \in Activations /\ stack[Len(stack)].engine = "vm"
    BY <1>2, <1>5, TopFacts DEF StackOK, Cur, Depth
  <2>2. [stack[Len(stack)] EXCEPT !.vals = w] \in Activations
        /\ [stack[Len(stack)] EXCEPT !.vals = w].engine = "vm"
    BY <1>3, <2>1 DEF Activations
  <2>3. Len(t) = Len(stack) /\ t[Len(stack)] = [stack[Len(stack)] EXCEPT !.vals = w]
    BY <2>1, <2>2, ExceptSeq
  <2>4. Len(<< >>) = 0
    OBVIOUS
  <2> HIDE DEF t
  <2>5. QED
    BY <2>1, <2>2, <2>3, <2>4
<1> HIDE DEF t, f
<1>8. /\ StackOK(With(frame), New, s) /\ s # << >> /\ s[Len(s)] = f
  BY <1>4, <1>6, <1>7, Pushed
<1> HIDE DEF s
<1>9. VmCollects(frame, s)
  BY <1>2, <1>4, <1>8 DEF VmCollects
<1>10. QED
  BY <1>9 DEF frame

LEMMA VmTailCallStack ==
  ASSUME IInv, NEW c \in Cur.vals, NEW x \in Names, NEW v \in Values, VmTailCall(c, x, v)
  PROVE  \E s : VmCollects(CallFrame(c, x, v), s)
<1> DEFINE frame == CallFrame(c, x, v)
           entry == Cur.entry
           f == Activation("vm", entry, New, FALSE)
           s == WithTop(f)
<1>1. /\ stack # << >> /\ CanAlloc /\ MaybeCollect(With(frame), s, VmRoots(s))
      /\ allocated' = New /\ UNCHANGED panicked /\ Cur.engine = "vm"
  BY DEF VmTailCall, Running
<1>2. frame \in Frames /\ entry \in BOOLEAN
  BY <1>1, ValuesType, FrameTypes DEF Activations
<1>3. entry = stack[Len(stack)].entry /\ stack[Len(stack)].engine = "vm"
  BY <1>1 DEF Cur, Depth
<1> HIDE DEF frame, entry
<1>4. /\ f \in Activations /\ Safe(With(frame), New, f)
      /\ f.engine = "vm" /\ f.entry = entry /\ f.env = New
  BY <1>1, <1>2, Callee
<1>5. StackOK(With(frame), New, stack)
  BY <1>1, <1>2, Allocated
<1>6. s = [stack EXCEPT ![Len(stack)] = f]
  BY DEF WithTop, Depth
<1> HIDE DEF f, s
<1>7. /\ StackOK(With(frame), New, s) /\ s # << >> /\ s[Len(s)] = f
  <2> DEFINE t == [stack EXCEPT ![Len(stack)] = f]
  <2>1. f.entry = stack[Len(stack)].entry /\ f.engine = stack[Len(stack)].engine
    BY <1>3, <1>4
  <2>2. /\ StackOK(With(frame), New, t) /\ t # << >>
        /\ Len(t) = Len(stack) /\ t[Len(stack)] = f
    BY <1>1, <1>4, <1>5, <2>1, TopReplaced
  <2>3. QED
    BY <1>6, <2>2
<1>8. VmCollects(frame, s)
  BY <1>1, <1>4, <1>7 DEF VmCollects
<1>9. QED
  BY <1>8 DEF frame

LEMMA VmCollectsInv ==
  ASSUME IInv, stack # << >>, NEW c \in Cur.vals, NEW x \in Names, NEW v \in Values,
         \E s : VmCollects(CallFrame(c, x, v), s),
         CanAlloc, allocated' = New, UNCHANGED panicked
  PROVE  IInv'
<1> DEFINE frame == CallFrame(c, x, v)
<1>1. PICK s : VmCollects(frame, s)
  OBVIOUS
<1>2. frame \in Frames
  BY ValuesType, FrameTypes
<1> HIDE DEF frame
<1>3. \A k \in Own(s) : s[k].env \in VmRoots(s) /\ s[k].inner = NoHandle
  BY <1>1, VmOwnRooted DEF VmCollects
<1>4. QED
  BY <1>1, <1>2, <1>3, CallCollects DEF VmCollects

LEMMA VmCallInv ==
  ASSUME IInv, NEW c \in Cur.vals, NEW x \in Names, NEW v \in Values,
         VmCall(c, x, v) \/ VmTailCall(c, x, v)
  PROVE  IInv'
<1>1. \E s : VmCollects(CallFrame(c, x, v), s)
  BY VmCallStack, VmTailCallStack
<1>2. stack # << >> /\ CanAlloc /\ allocated' = New /\ UNCHANGED panicked
  BY DEF VmCall, VmTailCall, Running
<1>3. QED
  BY <1>1, <1>2, VmCollectsInv

(***************************************************************************)
(* The theorems.                                                           *)
(***************************************************************************)

LEMMA InitInv == Init => IInv
<1> SUFFICES ASSUME Init PROVE IInv
  OBVIOUS
<1>1. allocated \in Handles /\ panicked \in BOOLEAN /\ 1 \in 1..1
  <2>1. 1 \in 1..MaxAllocs /\ 1 \in 1..1
    BY StackBounds
  <2>2. panicked \in BOOLEAN
    BY Zenon DEF Init
  <2>3. QED
    BY <2>1, <2>2 DEF Init, Handles
<1>2. HeapOK(store, allocated)
  BY EmptyFrameType DEF Init, HeapOK, Global
<1>3. StackOK(store, allocated, stack)
  BY EmptySeq DEF Init, StackOK, Nested, AllSafe
<1>4. QED
  BY <1>1, <1>2, <1>3 DEF IInv

LEMMA DefineInv ==
  ASSUME IInv, NEW x \in Names, NEW v \in Values, Define(x, v) PROVE IInv'
<1>1. v \in SUBSET Handles /\ Cur.env \in Live
  BY ValuesType DEF Define
<1>2. QED
  BY <1>1, Rebound DEF Define

LEMMA AssignInv ==
  ASSUME IInv, NEW x \in Names, NEW v \in Values, Assign(x, v) PROVE IInv'
<1>1. PICK b \in Resolve(store, Cur.env, x) :
        store' = [store EXCEPT ![b] = Bind(@, x, v)]
  BY DEF Assign
<1>2. v \in SUBSET Handles /\ b \in Live
  BY <1>1, ValuesType, ResolveFacts DEF Assign
<1>3. QED
  BY <1>1, <1>2, Rebound DEF Assign

LEMMA BindInnerInv ==
  ASSUME IInv, NEW x \in Names, NEW v \in Values, BindInner(x, v) PROVE IInv'
<1>1. v \in SUBSET Handles /\ Cur.inner \in Live
  BY ValuesType DEF BindInner, Running
<1>2. QED
  BY <1>1, Rebound DEF BindInner

LEMMA StepInv == IInv /\ [Next]_vars => IInv'
<1> SUFFICES ASSUME IInv, [Next]_vars PROVE IInv'
  OBVIOUS
<1>1. CASE TreeStep
  BY <1>1, OpenInnerInv, BindInnerInv, EnterInnerInv, EvalPartInv, TreeCallInv,
     TreeCallWrongArityInv DEF TreeStep
<1>2. CASE VmStep
  BY <1>2, PushEnvInv, PopEnvInv, VmCallInv, TreeEvalInv DEF VmStep
<1>3. CASE Step
  <2>1. CASE Error
    BY <2>1, Stopping DEF Error, IInv
  <2>2. CASE Panic
    BY <2>2 DEF Panic, IInv
  <2>3. QED
    BY <1>3, <2>1, <2>2, LookupInv, MakeClosureInv, DefineInv, AssignInv,
       DropValueInv, ReturnInv, CallbackInv DEF Step
<1>4. CASE \E engine \in {"tree", "vm"} : EvalForm(engine)
  BY <1>4, EvalFormInv
<1>5. CASE UNCHANGED vars
  BY <1>5 DEF vars, IInv
<1>6. QED
  BY <1>1, <1>2, <1>3, <1>4, <1>5 DEF Next, Stopped

LEMMA InvCorrect == Spec => []IInv
BY InitInv, StepInv, PTL DEF Spec

(* Every activation has an environment to look names up in, and a PopEnv   *)
(* finds the scope its PushEnv opened, for every threshold and depth.      *)
THEOREM TypeCorrect == Spec => []TypeOK
<1>1. IInv => TypeOK
  BY DEF IInv, HeapOK, StackOK, TypeOK, Live
<1>2. QED
  BY <1>1, InvCorrect, PTL

(* The collections an evaluator makes itself never reclaim the environment *)
(* of one of its frames, whatever it evaluates, however small the heap.    *)
THEOREM OwnFramesSafe == Spec => []OwnFramesSurvive
<1>1. IInv => OwnFramesSurvive
  <2> SUFFICES ASSUME IInv, NEW k \in 1..Depth, ~stack[k].exposed
               PROVE  stack[k].env \in Live
    BY DEF OwnFramesSurvive
  <2>1. stack[k] \in Activations /\ Safe(store, allocated, stack[k])
    BY ElementOfSeq DEF IInv, StackOK, AllSafe, Depth
  <2>2. PICK chain : /\ chain[0] = stack[k].env
                     /\ \A i \in 0..stack[k].scopes : chain[i] \in DOMAIN store
    BY <2>1 DEF Safe, Chain
  <2>3. 0 \in 0..stack[k].scopes
    BY <2>1 DEF Activations
  <2>4. QED
    BY <2>2, <2>3 DEF Live
<1>2. QED
  BY <1>1, InvCorrect, PTL

(* A collection that takes the new call frame as a root keeps everything   *)
(* that was reachable from the frame's closure and argument.               *)
LEMMA CalleeKept ==
  ASSUME IInv, CanAlloc, NEW frame \in Frames, NEW R, New \in R,
         store' = Collected(With(frame), R)
  PROVE  /\ store'[New] = frame
         /\ Reach(store, Refs(frame)) \subseteq DOMAIN store'
<1> DEFINE st == With(frame)
<1>1. /\ New \notin Live /\ DOMAIN st = Live \cup {New} /\ st[New] = frame
      /\ \A h \in Live : st[h] = store[h]
      /\ HeapOK(st, New)
  BY Allocated
<1> HIDE DEF st
<1>2. store'[New] = frame
  <2>1. New \in DOMAIN Collected(st, R)
    BY <1>1, CollectedFacts
  <2>2. QED
    BY <1>1, <2>1, CollectedFacts DEF st
<1>3. Reach(store, Refs(frame)) \subseteq DOMAIN st
  BY <1>1, ReachFacts DEF Live
<1>4. Reach(store, Refs(frame)) \subseteq Reach(st, R)
  <2> SUFFICES ASSUME NEW h \in Reach(store, Refs(frame)),
                      NEW S \in SUBSET DOMAIN st,
                      R \cap DOMAIN st \subseteq S, Closed(st, S)
               PROVE  h \in S
    BY <1>3 DEF Reach
  <2> DEFINE T == S \ {New}
  <2>1. T \in SUBSET DOMAIN store /\ New \in S
    BY <1>1 DEF Live
  <2>2. Refs(frame) \cap DOMAIN store \subseteq T
    BY <1>1, <2>1 DEF Closed, Live
  <2>3. Closed(store, T)
    <3> SUFFICES ASSUME NEW g \in T PROVE Refs(store[g]) \cap DOMAIN store \subseteq T
      BY DEF Closed
    <3>1. g \in S /\ g \in Live /\ st[g] = store[g]
      BY <1>1, <2>1 DEF Live
    <3>2. Refs(store[g]) \cap DOMAIN st \subseteq S
      BY <3>1 DEF Closed
    <3>3. QED
      BY <1>1, <3>2 DEF Live
  <2> HIDE DEF T
  <2>4. h \in T
    BY <2>1, <2>2, <2>3 DEF Reach
  <2>5. QED
    BY <2>4 DEF T
<1>5. QED
  BY <1>2, <1>3, <1>4 DEF Collected, st

LEMMA CallKeeps ==
  ASSUME IInv, NEW c \in Cur.vals, NEW x \in Names, NEW v \in Values,
         stack # << >>, CanAlloc, NEW R, New \in R,
         store' = Collected(With(CallFrame(c, x, v)), R)
  PROVE  Reach(store, Refs(store'[New])) \subseteq DOMAIN store'
<1>1. CallFrame(c, x, v) \in Frames
  BY ValuesType, FrameTypes
<1>2. QED
  BY <1>1, CalleeKept

(* A frame allocated without a collection loses nothing.                   *)
LEMMA PlainKeeps ==
  ASSUME NEW frame, store' = With(frame)
  PROVE  Reach(store, Refs(store'[New])) \subseteq DOMAIN store'
BY ReachFacts DEF With, Live

(* However many frames the collection inside a call reclaims, the callee   *)
(* finds all that could be reached from its closure and its argument, for  *)
(* every threshold, depth and number of names.                             *)
THEOREM CalleeSafe == Spec => CalleeArrivesIntact
<1> DEFINE Kept == Reach(store, Refs(store'[allocated'])) \subseteq DOMAIN store'
<1>1. ASSUME IInv, [Next]_vars, allocated' # allocated PROVE Kept
  <2>1. CASE TreeStep
    <3>1. ASSUME NEW c \in Cur.vals, NEW x \in Names, NEW v \in Values, TreeCall(c, x, v)
          PROVE  Kept
      <4>1. New \in TreeRoots(c)
        BY DEF TreeRoots
      <4>2. QED
        BY <1>1, <3>1, <4>1, CallKeeps DEF TreeCall, Running, MaybeCollect
    <3>2. ASSUME NEW c \in Cur.vals, TreeCallWrongArity(c) PROVE Kept
      BY <3>2, PlainKeeps DEF TreeCallWrongArity
    <3>3. CASE OpenInner
      BY <3>3, PlainKeeps DEF OpenInner
    <3>4. QED
      BY <1>1, <2>1, <3>1, <3>2, <3>3 DEF TreeStep, BindInner, EnterInner, EvalPart
  <2>2. CASE VmStep
    <3>1. ASSUME NEW c \in Cur.vals, NEW x \in Names, NEW v \in Values,
                 VmCall(c, x, v) \/ VmTailCall(c, x, v)
          PROVE  Kept
      <4>1. PICK s : VmCollects(CallFrame(c, x, v), s)
        BY <1>1, <3>1, VmCallStack, VmTailCallStack
      <4>2. New \in VmRoots(s)
        <5>1. Len(s) \in Nat /\ Len(s) >= 1
          BY <4>1, TopFacts DEF VmCollects, StackOK
        <5>2. Len(s) \in Own(s)
          BY <5>1 DEF Own
        <5>3. QED
          BY <4>1, <5>2 DEF VmCollects, VmRoots
      <4>3. /\ stack # << >> /\ CanAlloc /\ allocated' = New
            /\ store' = Collected(With(CallFrame(c, x, v)), VmRoots(s))
        BY <3>1, <4>1 DEF VmCall, VmTailCall, Running, VmCollects, MaybeCollect
      <4>4. QED
        BY <1>1, <4>2, <4>3, CallKeeps
    <3>2. CASE PushEnv
      BY <3>2, PlainKeeps DEF PushEnv
    <3>3. QED
      BY <1>1, <2>2, <3>1, <3>2 DEF VmStep, PopEnv, TreeEval
  <2>3. CASE Step
    <3>1. ASSUME NEW engine \in {"tree", "vm"}, NEW c \in Cur.vals, NEW x \in Names,
                 NEW v \in Values, Callback(engine, c, x, v)
          PROVE  Kept
      <4>1. /\ stack # << >> /\ CanAlloc /\ allocated' = New
            /\ store' = Collected(With(CallFrame(c, x, v)), {Global, c, New})
        BY <3>1 DEF Callback, MaybeCollect
      <4>2. QED
        BY <1>1, <4>1, CallKeeps
    <3>2. QED
      BY <1>1, <2>3, <3>1
         DEF Step, Lookup, MakeClosure, Define, Assign, DropValue, Return, Error, Panic
  <2>4. CASE \E engine \in {"tree", "vm"} : EvalForm(engine)
    BY <1>1, <2>4 DEF EvalForm
  <2>5. CASE UNCHANGED vars
    BY <1>1, <2>5 DEF vars
  <2>6. QED
    BY <1>1, <2>1, <2>2, <2>3, <2>4, <2>5 DEF Next, Stopped
<1>2. IInv /\ [Next]_vars => [allocated' # allocated => Kept]_vars
  BY <1>1
<1>3. QED
  BY <1>2, InvCorrect, PTL DEF Spec, CalleeArrivesIntact
=============================================================================
