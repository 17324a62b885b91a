----------------------------- MODULE EvalStack ------------------------------
(***************************************************************************)
(* Which environments survive a collection while an expression is being    *)
(* evaluated: the Rust stack of nested evaluators (eval.rs, vm/machine.rs, *)
(* the callbacks of builtins/base.rs) above a heap of frames.              *)
(*                                                                         *)
(* An evaluation is a run of the tree-walker (one environment at a time:   *)
(* it trampolines) or of the VM (a vector of call frames).  Evaluations    *)
(* nest: a special form evaluates its parts, a builtin calls back, the VM  *)
(* falls back on the tree-walker.  stack is that nest, flattened: one      *)
(* element per tree-walker run and one per VM call frame; the first frame  *)
(* of each evaluation has entry = TRUE.                                    *)
(*                                                                         *)
(* The heap is seen as Heap's clients see it: a function from handles to   *)
(* frames.  A collection is one step here (Heap shows what it keeps), and  *)
(* handles are never issued twice (Heap!NoAlias).  What an expression says *)
(* is left open: an evaluator may take any of its steps at any time.       *)
(***************************************************************************)
EXTENDS EnvGraph, Integers, FiniteSets, Sequences

CONSTANTS
  Threshold,     \* gc_threshold (256, and no code changes it)
  MaxAllocs,     \* bound: environments ever allocated
  MaxDepth,      \* bound: length of stack
  MaxValues,     \* bound: captured environments one frame holds in values
  MaxScopes      \* bound: scopes one VM call frame has open

ASSUME StackBounds ==
  /\ Threshold \in Nat /\ MaxAllocs \in Nat \ {0}
  /\ MaxDepth \in Nat /\ MaxValues \in Nat /\ MaxScopes \in Nat

VARIABLES
  store,         \* the live environments
  allocated,     \* how many environments have been allocated
  stack,         \* the evaluations in progress, innermost last
  panicked       \* Heap::check failed: the process is gone

vars == <<store, allocated, stack, panicked>>

Handles == 1..MaxAllocs
Global == 1      \* the environment of global_env()
ASSUME NoHandleIsNone == NoHandle \notin Handles

(* engine: who runs it.  env: the environment names are looked up in.      *)
(* inner: the frame a let, let* or for of the tree-walker is filling.      *)
(* scopes: PushEnvs without their PopEnv (VM).  vals: the environments     *)
(* captured by the values it holds outside the heap, in Rust locals or on  *)
(* the operand stack.  exposed: history, a collection has run that did not *)
(* take its env as a root.                                                 *)
Activations ==
  [engine : {"tree", "vm"}, entry : BOOLEAN, env : Handles,
   inner : Handles \cup {NoHandle}, scopes : 0..MaxScopes,
   vals : SUBSET Handles, exposed : BOOLEAN]

Activation(engine, entry, env, exposed) ==
  [engine |-> engine, entry |-> entry, env |-> env, inner |-> NoHandle,
   scopes |-> 0, vals |-> {}, exposed |-> exposed]

Depth == Len(stack)
Cur == stack[Depth]
WithTop(f) == [stack EXCEPT ![Depth] = f]
Running(engine) == ~panicked /\ stack # << >> /\ Cur.engine = engine

Live == DOMAIN store

(* A lookup from h that finds no binder ends at a frame without parent.    *)
Unbroken(h) == \A g \in Scope(store, h) \cup {h} :
                  g \in Live /\ store[g].parent \in Live \cup {NoHandle}

(* A value that captures at most one of the environments at hand.          *)
Values == {{}} \cup {{h} : h \in Cur.vals}
Holding(f, v) == [f EXCEPT !.vals = @ \cup v]
Fits(f) == Cardinality(f.vals) <= MaxValues

Init ==
  /\ store = [h \in {Global} |-> EmptyFrame(NoHandle)]
  /\ allocated = 1
  /\ stack = << >>
  /\ panicked = FALSE

-----------------------------------------------------------------------------
(* Allocation and collection.                                              *)

New == allocated + 1
CanAlloc == allocated < MaxAllocs
With(frame) == [h \in Live \cup {New} |-> IF h = New THEN frame ELSE store[h]]

(* The elements of s that belong to the innermost evaluation.              *)
Own(s) == {k \in 1..Len(s) : \A m \in (k + 1)..Len(s) : ~s[m].entry}

Expose(s) == [k \in 1..Len(s) |->
                IF k \in Own(s) THEN s[k] ELSE [s[k] EXCEPT !.exposed = TRUE]]

(* Heap::maybe_collect at the end of a call that leaves heap st and stack  *)
(* s.                                                                      *)
Exceeds(st) == Cardinality(DOMAIN st) > Threshold
Collected(st, roots) ==
  IF Exceeds(st) THEN [h \in Reach(st, roots) |-> st[h]] ELSE st

MaybeCollect(st, s, roots) ==
  /\ store' = Collected(st, roots)
  /\ stack' = IF Exceeds(st) THEN Expose(s) ELSE s

(* The frame of a call to a closure over c, its parameter bound to v.      *)
CallFrame(c, x, v) == Bind(EmptyFrame(c), x, v)

-----------------------------------------------------------------------------
(* Steps that both evaluators have.                                        *)

(* Names are looked up through env: env_get.  The value's captures come    *)
(* into the evaluator's hands.                                             *)
Lookup(x) ==
  /\ ~panicked /\ stack # << >>
  /\ \E b \in Resolve(store, Cur.env, x) :
        LET f == Holding(Cur, store[b].vars[x])
        IN Fits(f) /\ stack' = WithTop(f)
  /\ UNCHANGED <<store, allocated, panicked>>

(* (lambda ...) and MakeFunc capture env, and look at nothing.             *)
MakeClosure ==
  /\ ~panicked /\ stack # << >>
  /\ Fits(Holding(Cur, {Cur.env}))
  /\ stack' = WithTop(Holding(Cur, {Cur.env}))
  /\ UNCHANGED <<store, allocated, panicked>>

(* define and StoreVar.                                                    *)
Define(x, v) ==
  /\ ~panicked /\ stack # << >> /\ Cur.env \in Live
  /\ store' = [store EXCEPT ![Cur.env] = Bind(@, x, v)]
  /\ UNCHANGED <<allocated, stack, panicked>>

(* set! and AssignVar: env_assign.                                         *)
Assign(x, v) ==
  /\ ~panicked /\ stack # << >>
  /\ \E b \in Resolve(store, Cur.env, x) :
        store' = [store EXCEPT ![b] = Bind(@, x, v)]
  /\ UNCHANGED <<allocated, stack, panicked>>

(* A value is dropped, or consumed by an operation on atoms.               *)
DropValue(h) ==
  /\ ~panicked /\ stack # << >>
  /\ stack' = WithTop([Cur EXCEPT !.vals = @ \ {h}])
  /\ UNCHANGED <<store, allocated, panicked>>

(* The result of one evaluation is a value in the hands of the next.       *)
Return(v) ==
  /\ ~panicked /\ stack # << >>
  /\ stack' = IF Depth = 1 THEN << >>
              ELSE LET caller == Holding(stack[Depth - 1], v)
                   IN [k \in 1..(Depth - 1) |->
                         IF k = Depth - 1 THEN caller ELSE stack[k]]
  /\ Depth > 1 => Fits(stack'[Depth - 1])
  /\ UNCHANGED <<store, allocated, panicked>>

(* An error travels through every evaluator to the top level: `?` at each  *)
(* level.                                                                  *)
Error ==
  /\ ~panicked /\ stack # << >>
  /\ stack' = << >>
  /\ UNCHANGED <<store, allocated, panicked>>

(* An access to an environment that is gone.                               *)
Panic ==
  /\ ~panicked /\ stack # << >>
  /\ \/ Cur.env \notin Live
     \/ Cur.inner # NoHandle /\ Cur.inner \notin Live
     \/ \E x \in Names : Resolve(store, Cur.env, x) = {} /\ ~Unbroken(Cur.env)
  /\ panicked' = TRUE
  /\ UNCHANGED <<store, allocated, stack>>

-----------------------------------------------------------------------------
(* The tree-walker.                                                        *)

(* let, let* and for: a child frame, to be filled while parts are          *)
(* evaluated.                                                              *)
OpenInner ==
  /\ Running("tree") /\ Cur.inner = NoHandle /\ CanAlloc
  /\ store' = With(EmptyFrame(Cur.env))
  /\ allocated' = New
  /\ stack' = WithTop([Cur EXCEPT !.inner = New])
  /\ UNCHANGED panicked

BindInner(x, v) ==
  /\ Running("tree") /\ Cur.inner \in Live
  /\ store' = [store EXCEPT ![Cur.inner] = Bind(@, x, v)]
  /\ UNCHANGED <<allocated, stack, panicked>>

(* The last expression of a let body is a tail call into the new frame.    *)
EnterInner ==
  /\ Running("tree") /\ Cur.inner # NoHandle
  /\ stack' = WithTop(Activation("tree", TRUE, Cur.inner, Cur.exposed))
  /\ UNCHANGED <<store, allocated, panicked>>

(* A part is evaluated, in env or in the frame being filled, by whichever  *)
(* evaluator vm_eval chooses.                                              *)
EvalPart(engine, at) ==
  /\ Running("tree") /\ Depth < MaxDepth
  /\ at \in {Cur.env, Cur.inner} \ {NoHandle}
  /\ stack' = Append(stack, Activation(engine, TRUE, at, at \notin Live))
  /\ UNCHANGED <<store, allocated, panicked>>

(* apply_step on a lambda.  Its roots are the call site's environment, the *)
(* closure's and the call frame.                                           *)
TreeRoots(c) == {Cur.env, c, New}

(* mutant: the parameter is bound after the collection.                    *)
TreeCallBindLate(c, x, v) ==
  /\ Running("tree") /\ CanAlloc
  /\ LET st == With(EmptyFrame(c))
         s == WithTop(Activation("tree", TRUE, New, FALSE))
     IN /\ store' = [Collected(st, TreeRoots(c)) EXCEPT ![New] = Bind(@, x, v)]
        /\ stack' = IF Exceeds(st) THEN Expose(s) ELSE s
  /\ allocated' = New
  /\ UNCHANGED panicked

TreeCall(c, x, v) ==
  /\ Running("tree") /\ CanAlloc
  /\ MaybeCollect(With(CallFrame(c, x, v)),
                  WithTop(Activation("tree", TRUE, New, FALSE)), TreeRoots(c))
  /\ allocated' = New
  /\ UNCHANGED panicked

(* The call frame is allocated before the arguments are counted.           *)
TreeCallWrongArity(c) ==
  /\ Running("tree") /\ CanAlloc
  /\ store' = With(EmptyFrame(c))
  /\ allocated' = New
  /\ stack' = << >>
  /\ UNCHANGED panicked

-----------------------------------------------------------------------------
(* The virtual machine.                                                    *)

PushEnv ==
  /\ Running("vm") /\ CanAlloc /\ Cur.scopes < MaxScopes
  /\ store' = With(EmptyFrame(Cur.env))
  /\ allocated' = New
  /\ stack' = WithTop([Cur EXCEPT !.env = New, !.scopes = @ + 1])
  /\ UNCHANGED panicked

(* mutant: no scope is open.                                               *)
PopEnvUnpaired ==
  /\ Running("vm") /\ Cur.env \in Live
  /\ stack' = WithTop([Cur EXCEPT !.env = store[Cur.env].parent, !.scopes = @ - 1])
  /\ UNCHANGED <<store, allocated, panicked>>

PopEnv ==
  /\ Running("vm") /\ Cur.scopes > 0 /\ Cur.env \in Live
  /\ stack' = WithTop([Cur EXCEPT !.env = store[Cur.env].parent, !.scopes = @ - 1])
  /\ UNCHANGED <<store, allocated, panicked>>

(* do_call.  The callee and its arguments leave the operand stack; another *)
(* value over the same environment may remain there.  A tail call reuses   *)
(* the frame; what an explicit (tailcall ...) leaves on the stack, the new *)
(* code never pops.                                                        *)
AfterPops(c, v) == {Cur, [Cur EXCEPT !.vals = @ \ ({c} \cup v)]}
VmRootsCurrent(s) == {s[Len(s)].env}      \* mutant: the current frame's only
VmRoots(s) == {s[k].env : k \in Own(s)}

VmCall(c, x, v) ==
  /\ Running("vm") /\ CanAlloc /\ Depth < MaxDepth
  /\ \E f \in AfterPops(c, v) :
        LET s == Append(WithTop(f), Activation("vm", FALSE, New, FALSE))
        IN MaybeCollect(With(CallFrame(c, x, v)), s, VmRoots(s))
  /\ allocated' = New
  /\ UNCHANGED panicked

VmTailCall(c, x, v) ==
  /\ Running("vm") /\ CanAlloc
  /\ LET s == WithTop(Activation("vm", Cur.entry, New, FALSE))
     IN MaybeCollect(With(CallFrame(c, x, v)), s, VmRoots(s))
  /\ allocated' = New
  /\ UNCHANGED panicked

(* The TreeEval instruction; its result ends the frame (Return).           *)
TreeEval ==
  /\ Running("vm") /\ Depth < MaxDepth
  /\ stack' = Append(stack, Activation("tree", TRUE, Cur.env, Cur.env \notin Live))
  /\ UNCHANGED <<store, allocated, panicked>>

-----------------------------------------------------------------------------
(* map, filter and fold call back through apply, with the environment they *)
(* were registered in for the call site; what they have collected so far   *)
(* is in the hands of the evaluation that called them.                     *)
Callback(engine, c, x, v) ==
  /\ ~panicked /\ stack # << >> /\ CanAlloc /\ Depth < MaxDepth
  /\ LET s == Append(stack, Activation(engine, TRUE, New, FALSE))
     IN MaybeCollect(With(CallFrame(c, x, v)), s, {Global, c, New})
  /\ allocated' = New
  /\ UNCHANGED panicked

(* run: the next top-level form, in the global environment.                *)
EvalForm(engine) ==
  /\ ~panicked /\ stack = << >> /\ MaxDepth > 0
  /\ stack' = << Activation(engine, TRUE, Global, Global \notin Live) >>
  /\ UNCHANGED <<store, allocated, panicked>>

Stopped == panicked /\ UNCHANGED vars

-----------------------------------------------------------------------------
TreeStep ==
  \/ OpenInner
  \/ \E x \in Names, v \in Values : BindInner(x, v)
  \/ EnterInner
  \/ \E engine \in {"tree", "vm"}, at \in Handles : EvalPart(engine, at)
  \/ \E c \in Cur.vals, x \in Names, v \in Values : TreeCall(c, x, v)
  \/ \E c \in Cur.vals : TreeCallWrongArity(c)

VmStep ==
  \/ PushEnv
  \/ PopEnv
  \/ \E c \in Cur.vals, x \in Names, v \in Values : VmCall(c, x, v)
  \/ \E c \in Cur.vals, x \in Names, v \in Values : VmTailCall(c, x, v)
  \/ TreeEval

Step ==
  \/ \E x \in Names : Lookup(x)
  \/ MakeClosure
  \/ \E x \in Names, v \in Values : Define(x, v)
  \/ \E x \in Names, v \in Values : Assign(x, v)
  \/ \E h \in Cur.vals : DropValue(h)
  \/ \E v \in Values : Return(v)
  \/ Error
  \/ Panic
  \/ \E engine \in {"tree", "vm"}, c \in Cur.vals, x \in Names, v \in Values :
        Callback(engine, c, x, v)

Next ==
  \/ stack # << >> /\ (TreeStep \/ VmStep \/ Step)
  \/ \E engine \in {"tree", "vm"} : EvalForm(engine)
  \/ Stopped

Spec == Init /\ [][Next]_vars

-----------------------------------------------------------------------------
Frames == [parent : Handles \cup {NoHandle},
           vars : [Names -> (SUBSET Handles) \cup {Unbound}]]

(* Every activation has an environment to look names up in: a PopEnv finds *)
(* the scope its PushEnv opened, whatever has been collected between them. *)
TypeOK ==
  /\ allocated \in Handles
  /\ Live \subseteq 1..allocated
  /\ \A h \in Live : store[h] \in Frames
  /\ stack \in Seq(Activations)
  /\ panicked \in BOOLEAN

(* An evaluator's own collections never take its environments: as long as  *)
(* only evaluations of its own have collected, every frame of the VM and   *)
(* the environment of the tree-walker are there.                           *)
OwnFramesSurvive ==
  \A k \in 1..Depth : ~stack[k].exposed => stack[k].env \in Live

(* However many frames the collection inside a call reclaims, the callee   *)
(* finds all that could be reached from its closure and its argument       *)
(* before the call.                                                        *)
CalleeArrivesIntact ==
  [][allocated' # allocated =>
       Reach(store, Refs(store'[allocated'])) \subseteq DOMAIN store']_vars
=============================================================================
