---------------------------- MODULE VmEvalProofs ----------------------------
(***************************************************************************)
(* What the caches of vm_eval are good for, for every session: as long as  *)
(* nothing has become native code, a form has the value the tree-walker    *)
(* would give it, but perhaps for the type of a number, and the effects;   *)
(* native code belongs to its chunk.                                       *)
(***************************************************************************)
EXTENDS VmEval, TLAPS

RunStep(o, item) == IF Failed(o) THEN o ELSE RunItem(o.st, item)
NativeStep(o, item) == IF Failed(o) THEN o ELSE NativeItem(o.st, item)
VmStep(o, item) == IF Failed(o) THEN o ELSE VmItem(o.st, item)
MeaningStep(o, item) == IF Failed(o) THEN o ELSE Meaning(o.st, item)

Running == INSTANCE Folding WITH Step <- LAMBDA given, acc, e : RunStep(acc, e)
Native == INSTANCE Folding WITH Step <- LAMBDA given, acc, e : NativeStep(acc, e)
Walking == INSTANCE Folding WITH Step <- LAMBDA given, acc, e : VmStep(acc, e)
Meant == INSTANCE Folding WITH Step <- LAMBDA given, acc, e : MeaningStep(acc, e)

-----------------------------------------------------------------------------
(* Running items in order, one after the other.                            *)
LEMMA RunTrace ==
  ASSUME NEW s, NEW f, NEW N \in Nat, DOMAIN f = 1..N
  PROVE  \E t : /\ DOMAIN t = 0..N
                /\ t[0] = Done(s, Nil)
                /\ \A k \in 1..N : t[k] = RunStep(t[k - 1], f[k])
                /\ t[N] = InOrder(s, f, RunItem)
<1> DEFINE base == Done(s, Nil)
<1> PICK end : end = Running!FoldOf(0, base, f, N)
  OBVIOUS
<1>1. InOrder(s, f, RunItem) = end
  BY DEF InOrder, FoldLeft, MapThenFoldSet, Max, Running!FoldOf, Running!Iterates,
     Running!Largest, RunStep
<1> HIDE DEF base
<1>2. PICK t : Running!IsTrace(t, 0, base, f, N) /\ t[N] = end
  BY Running!FoldTrace
<1>3. QED
  BY <1>1, <1>2 DEF Running!IsTrace, base

LEMMA NativeTrace ==
  ASSUME NEW s, NEW f, NEW N \in Nat, DOMAIN f = 1..N
  PROVE  \E t : /\ DOMAIN t = 0..N
                /\ t[0] = Done(s, Nil)
                /\ \A k \in 1..N : t[k] = NativeStep(t[k - 1], f[k])
                /\ t[N] = InOrder(s, f, NativeItem)
<1> DEFINE base == Done(s, Nil)
<1> PICK end : end = Native!FoldOf(0, base, f, N)
  OBVIOUS
<1>1. InOrder(s, f, NativeItem) = end
  BY DEF InOrder, FoldLeft, MapThenFoldSet, Max, Native!FoldOf, Native!Iterates,
     Native!Largest, NativeStep
<1> HIDE DEF base
<1>2. PICK t : Native!IsTrace(t, 0, base, f, N) /\ t[N] = end
  BY Native!FoldTrace
<1>3. QED
  BY <1>1, <1>2 DEF Native!IsTrace, base

LEMMA WalkTrace ==
  ASSUME NEW s, NEW f, NEW N \in Nat, DOMAIN f = 1..N
  PROVE  \E t : /\ DOMAIN t = 0..N
                /\ t[0] = Done(s, Nil)
                /\ \A k \in 1..N : t[k] = VmStep(t[k - 1], f[k])
                /\ t[N] = InOrder(s, f, VmItem)
<1> DEFINE base == Done(s, Nil)
<1> PICK end : end = Walking!FoldOf(0, base, f, N)
  OBVIOUS
<1>1. InOrder(s, f, VmItem) = end
  BY DEF InOrder, FoldLeft, MapThenFoldSet, Max, Walking!FoldOf, Walking!Iterates,
     Walking!Largest, VmStep
<1> HIDE DEF base
<1>2. PICK t : Walking!IsTrace(t, 0, base, f, N) /\ t[N] = end
  BY Walking!FoldTrace
<1>3. QED
  BY <1>1, <1>2 DEF Walking!IsTrace, base

LEMMA MeaningTrace ==
  ASSUME NEW s, NEW f, NEW N \in Nat, DOMAIN f = 1..N
  PROVE  \E t : /\ DOMAIN t = 0..N
                /\ t[0] = Done(s, Nil)
                /\ \A k \in 1..N : t[k] = MeaningStep(t[k - 1], f[k])
                /\ t[N] = InOrder(s, f, Meaning)
<1> DEFINE base == Done(s, Nil)
<1> PICK end : end = Meant!FoldOf(0, base, f, N)
  OBVIOUS
<1>1. InOrder(s, f, Meaning) = end
  BY DEF InOrder, FoldLeft, MapThenFoldSet, Max, Meant!FoldOf, Meant!Iterates,
     Meant!Largest, MeaningStep
<1> HIDE DEF base
<1>2. PICK t : Meant!IsTrace(t, 0, base, f, N) /\ t[N] = end
  BY Meant!FoldTrace
<1>3. QED
  BY <1>1, <1>2 DEF Meant!IsTrace, base

-----------------------------------------------------------------------------
(* What is always so of the interpreter between two of its steps.          *)

Item == {i \in Items : i.op = "defmacro" => i.name \in MacroNames}
AnyForm == Seq(Item) \ {<< >>}

Fields == {"binding", "effects", "compilable", "chunks", "jit", "nextId", "memory", "unseen",
           "mixed"}
Bindings == [Names -> [kind : {"unbound", "fn", "macro"}, val : Int]]
Shape(s) ==
  /\ DOMAIN s = Fields
  /\ s.binding \in Bindings /\ s.effects \in Nat
  /\ s.nextId \in Nat \ {0} /\ s.unseen \in BOOLEAN
  /\ \A n \in Names : s.binding[n].kind = "macro" => n \in MacroNames

(* A chunk is the code of its form: no macro was used in it.  Its form     *)
(* prints as the key, and may have numbers of another type than the form   *)
(* that finds it.  What is believed to be compilable has been compiled,    *)
(* and, unless a macro was bound that vm_eval did not see, is compilable.  *)
Caches(s) ==
  /\ \A k \in DOMAIN s.chunks :
       LET c == s.chunks[k] IN c.of \in AnyForm /\ Key(c.of) = k /\ c.code = c.of
  /\ \A k \in DOMAIN s.compilable :
       /\ k \in AnyForm /\ s.compilable[k] \in BOOLEAN
       /\ s.compilable[k] => k \in DOMAIN s.chunks /\ \A i \in 1..Len(k) : k[i].op # "defmacro"
       /\ s.compilable[k] /\ ~s.unseen => IsCompilable(s.binding, k)

(* A chunk is counted until it is compiled to native code.                 *)
Counters(s) ==
  \A i \in DOMAIN s.jit :
    /\ DOMAIN s.jit[i] = {"count", "code"}
    /\ s.jit[i].count \in 1..HotThreshold
    /\ s.jit[i].code = << >> => s.jit[i].count < HotThreshold
    /\ s.jit[i].code # << >> => s.jit[i].code \in AnyForm

Whole(s) == Shape(s) /\ Caches(s) /\ Counters(s)

(* Ids name one chunk each.                                                *)
Owned(s) ==
  /\ \A k \in DOMAIN s.chunks : s.chunks[k].id \in 1..(s.nextId - 1)
  /\ \A k, j \in DOMAIN s.chunks : s.chunks[k].id = s.chunks[j].id => k = j
  /\ DOMAIN s.jit \subseteq 1..(s.nextId - 1)
  /\ \A k \in DOMAIN s.chunks :
       LET e == Entry(s, s.chunks[k].id) IN e.code # << >> => e.code = s.chunks[k].code

(* No chunk has native code yet.                                           *)
Interpreted(s) == \A i \in DOMAIN s.jit : s.jit[i].code = << >>

(* What every evaluation keeps.                                            *)
Kept(s, o) ==
  /\ Whole(o.st)
  /\ Owned(s) => Owned(o.st)
  /\ Interpreted(o.st) => Interpreted(s)

(* Of two forms that print alike the items differ in the type of a number  *)
(* only.                                                                   *)
LEMMA KeyParts ==
  ASSUME NEW f \in AnyForm
  PROVE  /\ Key(f) \in AnyForm /\ Len(Key(f)) = Len(f)
         /\ \A k \in 1..Len(f) : Key(f)[k] = Printed(f[k])
<1>1. PICK n \in Nat \ {0} : n = Len(f) /\ \A k \in 1..n : f[k] \in Item
  BY DEF AnyForm
<1>2. ASSUME NEW i \in Item PROVE Printed(i) \in Item
  <2>1. CASE i.op = "float"
    <3>1. i.name = "" /\ i.val \in Int /\ "const" \in Ops
      BY <2>1 DEF Item, Items, Ops
    <3> DEFINE e == [i EXCEPT !.op = "const"]
               R == [op : Ops, name : Names \cup {"", "tick", "builtin"}, val : Int]
    <3>2. i \in R
      BY DEF Item, Items
    <3>3. e \in R /\ e.op = "const" /\ e.name = ""
      <4> HIDE DEF e, R
      <4>1. DOMAIN i = {"op", "name", "val"}
        BY <3>2 DEF R
      <4>2. DOMAIN e = {"op", "name", "val"} /\ e.op = "const" /\ e.name = i.name /\ e.val = i.val
        BY <4>1 DEF e
      <4>3. e = [op |-> e.op, name |-> e.name, val |-> e.val]
        BY <4>1 DEF e
      <4>4. QED
        BY <3>1, <4>2, <4>3 DEF R
    <3> HIDE DEF e
    <3>4. e \in Items
      BY <3>3 DEF Items
    <3>5. e \in Item
      BY <3>3, <3>4 DEF Item
    <3>7. QED
      BY <2>1, <3>5 DEF Printed, e
  <2>2. CASE i.op # "float"
    BY <2>2 DEF Printed
  <2>3. QED
    BY <2>1, <2>2
<1>3. Key(f) = [k \in 1..n |-> Printed(f[k])]
  BY <1>1 DEF Key
<1>4. \A k \in 1..n : Printed(f[k]) \in Item
  BY <1>1, <1>2
<1>5. [k \in 1..n |-> Printed(f[k])] \in Seq(Item)
  BY <1>4
<1>6. QED
  BY <1>1, <1>3, <1>5 DEF AnyForm

LEMMA PrintedKeeps ==
  ASSUME NEW i \in Item
  PROVE  /\ Printed(i).op = "defmacro" <=> i.op = "defmacro"
         /\ Printed(i).op = "call" <=> i.op = "call"
         /\ Printed(i).name = i.name
<1>1. i = [op |-> i.op, name |-> i.name, val |-> i.val]
  BY DEF Item, Items
<1>2. QED
  BY <1>1 DEF Printed

LEMMA KeyCompiles ==
  ASSUME NEW f \in AnyForm, NEW b
  PROVE  /\ IsCompilable(b, Key(f)) <=> IsCompilable(b, f)
         /\ (\A k \in 1..Len(Key(f)) : Key(f)[k].op # "defmacro")
              <=> \A k \in 1..Len(f) : f[k].op # "defmacro"
<1>1. PICK n \in Nat \ {0} : n = Len(f) /\ \A k \in 1..n : f[k] \in Item
  BY DEF AnyForm
<1>2. Len(Key(f)) = n /\ \A k \in 1..n : Key(f)[k] = Printed(f[k])
  BY <1>1, KeyParts
<1>3. \A k \in 1..n : /\ Key(f)[k].op = "defmacro" <=> f[k].op = "defmacro"
                      /\ IsMacroUse(b, Key(f)[k]) <=> IsMacroUse(b, f[k])
  BY <1>1, <1>2, PrintedKeeps DEF IsMacroUse
<1>4. QED
  BY <1>1, <1>2, <1>3 DEF IsCompilable

(* Bindings may change as long as no name becomes a macro, and effects.    *)
LEMMA ChangesKeep ==
  ASSUME NEW s, NEW t, Whole(s), DOMAIN t = Fields,
         t.compilable = s.compilable, t.chunks = s.chunks, t.jit = s.jit, t.nextId = s.nextId,
         t.unseen = s.unseen, t.effects \in Nat, t.binding \in Bindings,
         \A n \in Names : t.binding[n].kind = "macro" => s.binding[n].kind = "macro"
  PROVE  Whole(t) /\ (Owned(t) <=> Owned(s)) /\ (Interpreted(t) <=> Interpreted(s))
<1>1. Shape(t)
  BY DEF Whole, Shape
<1>2. Counters(t)
  BY DEF Whole, Counters
<1>3. ASSUME NEW f \in AnyForm, IsCompilable(s.binding, f) PROVE IsCompilable(t.binding, f)
  <2>1. \A k \in 1..Len(f) : f[k] \in Item
    BY DEF AnyForm
  <2>2. \A k \in 1..Len(f) : f[k].op = "call" => f[k].name \in Names
    BY <2>1 DEF Item, Items
  <2>3. QED
    BY <1>3, <2>2 DEF IsCompilable, IsMacroUse
<1>4. Caches(t)
  BY <1>3 DEF Whole, Caches
<1>5. QED
  BY <1>1, <1>2, <1>4 DEF Whole, Owned, Interpreted, Entry

LEMMA BindingKeeps ==
  ASSUME NEW s, Whole(s), NEW n \in Names, NEW v \in Int
  PROVE  /\ Kept(s, Done(Bound(s, n, "fn", v), Nil))
         /\ Bound(s, n, "fn", v).effects = s.effects
         /\ Bound(s, n, "fn", v).unseen = s.unseen
         /\ Bound(s, n, "fn", v).binding = [s.binding EXCEPT ![n] = [kind |-> "fn", val |-> v]]
<1> DEFINE e == [kind |-> "fn", val |-> v]
           b == [s.binding EXCEPT ![n] = e]
           t == Bound(s, n, "fn", v)
<1>1. DOMAIN s = Fields /\ s.binding \in Bindings /\ s.effects \in Nat
  BY DEF Whole, Shape
<1>2. e \in [kind : {"unbound", "fn", "macro"}, val : Int] /\ e.kind = "fn"
  OBVIOUS
<1> HIDE DEF e
<1>3. /\ b \in Bindings
      /\ \A m \in Names : b[m].kind = "macro" => s.binding[m].kind = "macro"
  BY <1>1, <1>2 DEF Bindings
<1>4. t = [s EXCEPT !.binding = b]
  BY <1>1 DEF Bound, e, Fields
<1> HIDE DEF b, t
<1>5. /\ DOMAIN t = Fields /\ t.binding = b
      /\ t.compilable = s.compilable /\ t.chunks = s.chunks /\ t.jit = s.jit
      /\ t.nextId = s.nextId /\ t.unseen = s.unseen /\ t.effects = s.effects
  BY <1>1, <1>4 DEF Fields
<1>6. Whole(t) /\ (Owned(t) <=> Owned(s)) /\ (Interpreted(t) <=> Interpreted(s))
  BY <1>1, <1>3, <1>5, ChangesKeep
<1>7. Done(t, Nil).st = t
  BY DEF Done
<1>8. QED
  BY <1>5, <1>6, <1>7 DEF Kept, t, b, e

LEMMA TickKeeps ==
  ASSUME NEW s, Whole(s)
  PROVE  /\ Whole(Ticked(s)) /\ (Owned(s) => Owned(Ticked(s)))
         /\ (Interpreted(Ticked(s)) => Interpreted(s))
         /\ Ticked(s).effects = s.effects + 1 /\ Ticked(s).binding = s.binding
         /\ Ticked(s).unseen = s.unseen
<1> DEFINE t == Ticked(s)
<1>1. DOMAIN s = Fields /\ s.binding \in Bindings /\ s.effects \in Nat
  BY DEF Whole, Shape
<1>2. /\ DOMAIN t = Fields /\ t.binding = s.binding
      /\ t.compilable = s.compilable /\ t.chunks = s.chunks /\ t.jit = s.jit
      /\ t.nextId = s.nextId /\ t.unseen = s.unseen /\ t.effects = s.effects + 1
  BY <1>1 DEF Fields, Ticked
<1> HIDE DEF t
<1>3. Whole(t) /\ (Owned(t) <=> Owned(s)) /\ (Interpreted(t) <=> Interpreted(s))
  BY <1>1, <1>2, ChangesKeep
<1>4. QED
  BY <1>2, <1>3 DEF t

LEMMA KeptItself ==
  ASSUME NEW s, Whole(s), NEW r
  PROVE  Kept(s, Done(s, r))
BY DEF Kept, Done

LEMMA KeptOn ==
  ASSUME NEW s, NEW o, NEW p, Kept(s, o), Kept(o.st, p)
  PROVE  Kept(s, p)
BY DEF Kept

LEMMA DoneParts ==
  ASSUME NEW s, NEW r
  PROVE  /\ Done(s, r).st = s /\ Done(s, r).res = r
         /\ Failed(Done(s, r)) <=> r[1] = "error"
BY DEF Done, Failed

LEMMA Results ==
  /\ \A v : Number(v)[1] = "ok" /\ Number(v) # Err("uncompilable")
  /\ \A k, v : Ok(k, v)[1] = "ok" /\ Ok(k, v) # Err("uncompilable")
  /\ Nil[1] = "ok" /\ Nil # Err("uncompilable")
  /\ \A w : Err(w)[1] = "error"
  /\ Err("undefined") # Err("uncompilable") /\ Err("native") # Err("uncompilable")
BY DEF Number, Ok, Nil, Err

(* One item of bytecode.                                                   *)
Refused(s, i) == i.op \in {"call", "symbol"} /\ Binding(s, i.name).kind = "macro"
Ticks(i) == IF i.op = "tick" THEN 1 ELSE 0

(* What neither binds nor ticks leaves the interpreter as it is.           *)
LEMMA RunStays ==
  ASSUME NEW s, NEW i \in Item, i.op \notin {"tick", "define"}
  PROVE  \E r : RunItem(s, i) = Done(s, r)
<1> DEFINE b == Binding(s, i.name)
           o == RunItem(s, i)
<1>1. b.kind = "unbound" \/ i.name \in Names
  BY DEF Binding, Nothing
<1>2. CASE i.op = "const"
  <2>1. o = Done(s, Number(i.val))
    BY <1>2 DEF RunItem
  <2>2. QED
    BY <2>1
<1>3. CASE i.op = "float"
  <2>1. o = Done(s, Ok("float", i.val))
    BY <1>3 DEF RunItem
  <2>2. QED
    BY <2>1
<1>4. CASE i.op \in {"call", "symbol"} /\ b.kind = "fn"
  <2>1. o = Done(s, Number(b.val))
    BY <1>1, <1>4 DEF RunItem
  <2>2. QED
    BY <2>1
<1>5. CASE i.op = "symbol" /\ i.name \notin Names
  <2>1. o = Done(s, Ok("builtin", 0))
    BY <1>1, <1>5 DEF RunItem
  <2>2. QED
    BY <2>1
<1>6. CASE i.op \in {"call", "symbol"} /\ b.kind = "macro"
  <2>1. o = Done(s, Err("uncompilable"))
    BY <1>1, <1>6 DEF RunItem
  <2>2. QED
    BY <2>1
<1>7. CASE /\ i.op \notin {"const", "float"}
           /\ ~(i.op \in {"call", "symbol"} /\ b.kind = "fn")
           /\ ~(i.op = "symbol" /\ i.name \notin Names)
           /\ ~(i.op \in {"call", "symbol"} /\ b.kind = "macro")
  <2>1. o = Done(s, Err("undefined"))
    BY <1>7 DEF RunItem
  <2>2. QED
    BY <2>1
<1>8. QED
  BY <1>2, <1>3, <1>4, <1>5, <1>6, <1>7

LEMMA RunItemKeeps ==
  ASSUME NEW s, Whole(s), NEW i \in Item
  PROVE  LET o == RunItem(s, i)
         IN /\ Kept(s, o)
            /\ o.st.unseen = s.unseen
            /\ o.st.effects = s.effects + Ticks(i)
            /\ i.op # "define" => o.st.binding = s.binding
            /\ i.op = "define" =>
                 o.st.binding = [s.binding EXCEPT ![i.name] = [kind |-> "fn", val |-> i.val]]
            /\ FallsBack(o) <=> Refused(s, i)
            /\ Failed(o) => o.st = s
<1> DEFINE o == RunItem(s, i)
           b == Binding(s, i.name)
<1>1. i.op \in Ops /\ i.val \in Int /\ (i.op = "define" => i.name \in Names)
  BY DEF Item, Items
<1>2. s.effects \in Nat
  BY DEF Whole, Shape
<1>3. CASE i.op \in {"const", "float"}
  <2>1. \E k : o = Done(s, Ok(k, i.val))
    <3>1. CASE i.op = "const"
      <4>1. o = Done(s, Ok("int", i.val))
        BY <3>1 DEF RunItem, Number
      <4>2. QED
        BY <4>1
    <3>2. CASE i.op = "float"
      <4>1. o = Done(s, Ok("float", i.val))
        BY <3>2 DEF RunItem
      <4>2. QED
        BY <4>1
    <3>3. QED
      BY <1>3, <3>1, <3>2
  <2> HIDE DEF o
  <2>2. QED
    BY <1>2, <1>3, <2>1, KeptItself, DoneParts, Results DEF Ticks, FallsBack, Refused, o
<1>4. CASE i.op = "tick"
  <2>1. o = Done(Ticked(s), Nil)
    BY <1>4 DEF RunItem
  <2> HIDE DEF o
  <2>2. o.st = Ticked(s) /\ o.res = Nil /\ ~Failed(o)
    BY <2>1, DoneParts, Results
  <2>3. QED
    BY <1>4, <2>2, TickKeeps, Results DEF Ticks, FallsBack, Refused, Kept, o
<1>5. CASE i.op = "define"
  <2>1. o = Done(Bound(s, i.name, "fn", i.val), Nil)
    BY <1>5 DEF RunItem
  <2> HIDE DEF o
  <2>2. o.st = Bound(s, i.name, "fn", i.val) /\ o.res = Nil /\ ~Failed(o)
    BY <2>1, DoneParts, Results
  <2>3. QED
    BY <1>1, <1>2, <1>5, <2>1, <2>2, BindingKeeps, Results DEF Ticks, FallsBack, Refused, o
<1>6. CASE i.op \in {"call", "symbol", "defmacro"}
  <2>1. /\ i.op # "defmacro" /\ b.kind = "macro" => o = Done(s, Err("uncompilable"))
        /\ i.op = "defmacro" \/ b.kind # "macro" =>
             \E r : o = Done(s, r) /\ r # Err("uncompilable")
    <3>1. CASE i.op \in {"call", "symbol"} /\ b.kind = "fn"
      <4>1. i.name \in Names
        BY <3>1 DEF Binding, Nothing
      <4>2. o = Done(s, Number(b.val))
        BY <3>1, <4>1 DEF RunItem
      <4>3. QED
        BY <3>1, <4>2, Results
    <3>2. CASE i.op = "symbol" /\ i.name \notin Names
      <4>1. b.kind = "unbound"
        BY <3>2 DEF Binding, Nothing
      <4>2. o = Done(s, Ok("builtin", 0))
        BY <3>2, <4>1 DEF RunItem
      <4>3. QED
        BY <4>1, <4>2, <3>2, Results
    <3>3. CASE i.op \in {"call", "symbol"} /\ b.kind = "macro"
      <4>1. i.name \in Names
        BY <3>3 DEF Binding, Nothing
      <4>2. o = Done(s, Err("uncompilable"))
        BY <3>3, <4>1 DEF RunItem
      <4>3. QED
        BY <3>3, <4>2
    <3>4. CASE /\ ~(i.op \in {"call", "symbol"} /\ b.kind = "fn")
               /\ ~(i.op = "symbol" /\ i.name \notin Names)
               /\ ~(i.op \in {"call", "symbol"} /\ b.kind = "macro")
      <4>1. o = Done(s, Err("undefined"))
        BY <1>6, <3>4 DEF RunItem
      <4>2. QED
        BY <1>6, <3>4, <4>1, Results
    <3>5. QED
      BY <3>1, <3>2, <3>3, <3>4
  <2>2. \E r : o = Done(s, r)
    BY <2>1
  <2> HIDE DEF o, b
  <2>3. o.st = s /\ Kept(s, o)
    BY <2>2, DoneParts, KeptItself
  <2>4. FallsBack(o) <=> Refused(s, i)
    BY <1>6, <2>1, DoneParts DEF FallsBack, Refused, b
  <2>5. QED
    BY <1>2, <1>6, <2>3, <2>4 DEF Ticks, o
<1>7. QED
  BY <1>1, <1>3, <1>4, <1>5, <1>6 DEF Ops

LEMMA RunItemKept ==
  ASSUME NEW s, Whole(s), NEW i \in Item
  PROVE  Kept(s, RunItem(s, i))
BY RunItemKeeps

LEMMA RunItemEnds ==
  ASSUME NEW s, Whole(s), NEW i \in Item
  PROVE  /\ FallsBack(RunItem(s, i)) <=> Refused(s, i)
         /\ Failed(RunItem(s, i)) => RunItem(s, i).st = s
<1> DEFINE o == RunItem(s, i)
<1>1. (FallsBack(o) <=> Refused(s, i)) /\ (Failed(o) => o.st = s)
  BY RunItemKeeps
<1>2. QED
  BY <1>1

(* The bytecode that is not refused does what the item means.              *)
LEMMA RunIsMeant ==
  ASSUME NEW s, NEW i \in Item, i.op # "defmacro", ~Refused(s, i)
  PROVE  Meaning(s, i) = RunItem(s, i)
BY DEF Meaning, Refused

LEMMA BoundShape ==
  ASSUME NEW s, Shape(s), NEW n \in Names, NEW k \in {"fn", "macro"}, NEW v \in Int,
         k = "macro" => n \in MacroNames
  PROVE  /\ Shape(Bound(s, n, k, v))
         /\ Bound(s, n, k, v).effects = s.effects
         /\ Bound(s, n, k, v).binding = [s.binding EXCEPT ![n] = [kind |-> k, val |-> v]]
<1> DEFINE e == [kind |-> k, val |-> v]
           b == [s.binding EXCEPT ![n] = e]
           t == Bound(s, n, k, v)
<1>1. e \in [kind : {"unbound", "fn", "macro"}, val : Int] /\ e.kind = k
  OBVIOUS
<1> HIDE DEF e
<1>2. b \in Bindings /\ \A m \in Names : b[m] = IF m = n THEN e ELSE s.binding[m]
  BY <1>1 DEF Bindings, Shape
<1>3. t = [s EXCEPT !.binding = b]
  BY DEF Bound, e, Shape, Fields
<1> HIDE DEF b, t
<1>4. /\ DOMAIN t = Fields /\ t.binding = b
      /\ t.nextId = s.nextId /\ t.unseen = s.unseen /\ t.effects = s.effects
  BY <1>3 DEF Fields, Shape
<1>5. Shape(t)
  BY <1>1, <1>2, <1>4 DEF Shape
<1>6. QED
  BY <1>4, <1>5 DEF t, b, e

LEMMA TickedShape ==
  ASSUME NEW s, Shape(s)
  PROVE  /\ Shape(Ticked(s))
         /\ Ticked(s).effects = s.effects + 1 /\ Ticked(s).binding = s.binding
<1> DEFINE t == Ticked(s)
<1>1. /\ DOMAIN t = Fields /\ t.binding = s.binding
      /\ t.nextId = s.nextId /\ t.unseen = s.unseen /\ t.effects = s.effects + 1
  BY DEF Fields, Ticked, Shape
<1> HIDE DEF t
<1>2. Shape(t)
  BY <1>1 DEF Shape
<1>3. QED
  BY <1>1, <1>2 DEF t

(* A meaning depends on bindings only.                                     *)
MeansFrom(s, i, m) ==
  /\ Shape(m.st)
  /\ m.st.effects = s.effects + Ticks(i)
  /\ i.op \notin {"define", "defmacro"} => m.st.binding = s.binding
  /\ i.op = "define" =>
       /\ ~Failed(m)
       /\ m.st.binding = [s.binding EXCEPT ![i.name] = [kind |-> "fn", val |-> i.val]]
  /\ i.op = "defmacro" =>
       /\ m.res = Nil
       /\ m.st.binding = [s.binding EXCEPT ![i.name] = [kind |-> "macro", val |-> i.val]]

LEMMA MeantAlike ==
  ASSUME NEW s, NEW t, Shape(s), Shape(t), s.binding = t.binding, NEW i \in Item
  PROVE  LET m == Meaning(s, i)
             n == Meaning(t, i)
         IN /\ m.st.binding = n.st.binding /\ m.res = n.res
            /\ MeansFrom(s, i, m) /\ MeansFrom(t, i, n)
<1> DEFINE m == Meaning(s, i)
           n == Meaning(t, i)
           b == Binding(s, i.name)
<1>1. /\ i.op \in Ops /\ i.val \in Int
      /\ i.op \in {"define", "defmacro"} => i.name \in Names
      /\ i.op = "defmacro" => i.name \in MacroNames
  BY DEF Item, Items
<1>2. b = Binding(t, i.name)
  BY DEF Binding
<1>3. s.effects \in Nat /\ t.effects \in Nat
  BY DEF Shape
<1>4. CASE i.op \in {"const", "float", "call", "symbol"}
  <2>1. \E r : m = Done(s, r) /\ n = Done(t, r)
    <3>1. CASE i.op = "const"
      <4>1. m = Done(s, Number(i.val)) /\ n = Done(t, Number(i.val))
        BY <3>1 DEF Meaning, RunItem
      <4>2. QED
        BY <4>1
    <3>11. CASE i.op = "float"
      <4>1. m = Done(s, Ok("float", i.val)) /\ n = Done(t, Ok("float", i.val))
        BY <3>11 DEF Meaning, RunItem
      <4>2. QED
        BY <4>1
    <3>2. CASE i.op = "call" /\ b.kind = "macro"
      <4>1. m = Done(s, Number(b.val)) /\ n = Done(t, Number(b.val))
        BY <1>2, <3>2 DEF Meaning
      <4>2. QED
        BY <4>1
    <3>3. CASE i.op = "symbol" /\ b.kind = "macro"
      <4>1. m = Done(s, Ok("macro", b.val)) /\ n = Done(t, Ok("macro", b.val))
        BY <1>2, <3>3 DEF Meaning
      <4>2. QED
        BY <4>1
    <3>4. CASE i.op \in {"call", "symbol"} /\ b.kind # "macro"
      <4>1. m = RunItem(s, i) /\ n = RunItem(t, i)
        BY <1>2, <3>4 DEF Meaning
      <4>2. CASE b.kind = "fn"
        <5>1. i.name \in Names
          BY <4>2 DEF Binding, Nothing
        <5>2. RunItem(s, i) = Done(s, Number(b.val)) /\ RunItem(t, i) = Done(t, Number(b.val))
          BY <1>2, <3>4, <4>2, <5>1 DEF RunItem
        <5>3. QED
          BY <4>1, <5>2
      <4>3. CASE b.kind # "fn" /\ i.op = "symbol" /\ i.name \notin Names
        <5>1. RunItem(s, i) = Done(s, Ok("builtin", 0)) /\ RunItem(t, i) = Done(t, Ok("builtin", 0))
          BY <1>2, <3>4, <4>3 DEF RunItem
        <5>2. QED
          BY <4>1, <5>1
      <4>4. CASE b.kind # "fn" /\ ~(i.op = "symbol" /\ i.name \notin Names)
        <5>1. RunItem(s, i) = Done(s, Err("undefined")) /\ RunItem(t, i) = Done(t, Err("undefined"))
          BY <1>2, <3>4, <4>4 DEF RunItem
        <5>2. QED
          BY <4>1, <5>1
      <4>5. QED
        BY <4>2, <4>3, <4>4
    <3>5. QED
      BY <1>4, <3>1, <3>11, <3>2, <3>3, <3>4
  <2> HIDE DEF m, n
  <2>2. PICK r : m = Done(s, r) /\ n = Done(t, r)
    BY <2>1
  <2>3. m.st = s /\ n.st = t /\ m.res = n.res
    BY <2>2, DoneParts
  <2>4. QED
    BY <1>3, <1>4, <2>3 DEF MeansFrom, Ticks, m, n
<1>5. CASE i.op = "tick"
  <2>1. m = Done(Ticked(s), Nil) /\ n = Done(Ticked(t), Nil)
    BY <1>5 DEF Meaning, RunItem
  <2> HIDE DEF m, n
  <2>2. m.st = Ticked(s) /\ n.st = Ticked(t) /\ m.res = n.res
    BY <2>1, DoneParts
  <2>3. QED
    BY <1>5, <2>2, TickedShape DEF MeansFrom, Ticks, m, n
<1>6. CASE i.op = "define"
  <2> DEFINE u == Bound(s, i.name, "fn", i.val)
             v == Bound(t, i.name, "fn", i.val)
  <2>1. m = Done(u, Nil) /\ n = Done(v, Nil)
    BY <1>6 DEF Meaning, RunItem
  <2>2. /\ Shape(u) /\ u.effects = s.effects
        /\ u.binding = [s.binding EXCEPT ![i.name] = [kind |-> "fn", val |-> i.val]]
        /\ Shape(v) /\ v.effects = t.effects
        /\ v.binding = [t.binding EXCEPT ![i.name] = [kind |-> "fn", val |-> i.val]]
    BY <1>1, <1>6, BoundShape
  <2> HIDE DEF m, n, u, v
  <2>3. m.st = u /\ n.st = v /\ m.res = n.res /\ ~Failed(m) /\ ~Failed(n)
    BY <2>1, DoneParts, Results
  <2>4. QED
    BY <1>3, <1>6, <2>2, <2>3 DEF MeansFrom, Ticks, m, n
<1>7. CASE i.op = "defmacro"
  <2> DEFINE u == Bound(s, i.name, "macro", i.val)
             v == Bound(t, i.name, "macro", i.val)
  <2>1. m = Done(u, Nil) /\ n = Done(v, Nil)
    BY <1>7 DEF Meaning
  <2>2. /\ Shape(u) /\ u.effects = s.effects
        /\ u.binding = [s.binding EXCEPT ![i.name] = [kind |-> "macro", val |-> i.val]]
        /\ Shape(v) /\ v.effects = t.effects
        /\ v.binding = [t.binding EXCEPT ![i.name] = [kind |-> "macro", val |-> i.val]]
    BY <1>1, <1>7, BoundShape
  <2> HIDE DEF m, n, u, v
  <2>3. m.st = u /\ n.st = v /\ m.res = Nil /\ n.res = Nil
    BY <2>1, DoneParts
  <2>4. QED
    BY <1>3, <1>7, <2>2, <2>3 DEF MeansFrom, Ticks, m, n
<1>8. QED
  BY <1>1, <1>4, <1>5, <1>6, <1>7 DEF Ops

-----------------------------------------------------------------------------
(* A chunk, run as bytecode or as native code.                             *)
LEMMA NativeItemKeeps ==
  ASSUME NEW s, Whole(s), NEW i \in Item
  PROVE  Kept(s, NativeItem(s, i))
<1> DEFINE o == NativeItem(s, i)
<1>1. i.op = "define" => i.name \in Names /\ i.val \in Int
  BY DEF Item, Items
<1>2. CASE i.op = "define" /\ s.memory = "intact"
  <2>1. o = Done(Bound(s, i.name, "fn", i.val), Nil)
    BY <1>2 DEF NativeItem
  <2>2. i.name \in Names /\ i.val \in Int
    BY <1>1, <1>2
  <2>3. Kept(s, Done(Bound(s, i.name, "fn", i.val), Nil))
    BY <2>2, BindingKeeps
  <2>4. QED
    BY <2>1, <2>3
<1>3. CASE ~(i.op = "define" /\ s.memory = "intact")
  <2>1. \E r : o = Done(s, r)
    <3>1. CASE i.op \in {"const", "float"}
      <4>1. o = Done(s, Ok("float", i.val))
        BY <3>1 DEF NativeItem
      <4>2. QED
        BY <4>1
    <3>2. CASE i.op = "define" /\ s.memory = "store lost"
      <4>1. o = Done(s, Nil)
        BY <3>2 DEF NativeItem
      <4>2. QED
        BY <4>1
    <3>3. CASE i.op \notin {"const", "float"} /\ ~(i.op = "define" /\ s.memory = "store lost")
      <4>1. o = Done(s, Err("native"))
        BY <1>3, <3>3 DEF NativeItem
      <4>2. QED
        BY <4>1
    <3>4. QED
      BY <3>1, <3>2, <3>3
  <2> HIDE DEF o
  <2>2. QED
    BY <2>1, KeptItself DEF o
<1>4. QED
  BY <1>2, <1>3

(* Steps that keep what they should, one after the other.                  *)
LEMMA TraceKeeps ==
  ASSUME NEW s, Whole(s), NEW N \in Nat, NEW t, t[0] = Done(s, Nil),
         \A k \in 1..N : Whole(t[k - 1].st) => Kept(t[k - 1].st, t[k])
  PROVE  /\ \A k \in 0..N : Kept(s, t[k])
         /\ Interpreted(t[N].st) => \A k \in 0..N : Interpreted(t[k].st)
<1> DEFINE S == {k \in 0..N : Kept(s, t[k])}
<1>1. 0 \in S
  BY KeptItself
<1>2. ASSUME NEW k \in 0..(N - 1), k \in S PROVE k + 1 \in S
  <2>1. k + 1 \in 1..N /\ (k + 1) - 1 = k
    OBVIOUS
  <2>2. Whole(t[k].st)
    BY <1>2 DEF Kept
  <2>3. Kept(t[k].st, t[k + 1])
    BY <2>1, <2>2
  <2>4. Kept(s, t[k + 1])
    BY <1>2, <2>3, KeptOn
  <2>5. QED
    BY <2>1, <2>4
<1> HIDE DEF S
<1>3. 0..N \subseteq S
  BY <1>1, <1>2, Running!RangeInduces
<1>4. \A k \in 0..N : Kept(s, t[k])
  BY <1>3 DEF S
<1>5. ASSUME Interpreted(t[N].st) PROVE \A k \in 0..N : Interpreted(t[k].st)
  <2> DEFINE D == {k \in 0..N : Interpreted(t[N - k].st)}
  <2>1. 0 \in D
    BY <1>5
  <2>2. ASSUME NEW k \in 0..(N - 1), k \in D PROVE k + 1 \in D
    <3>1. N - k \in 1..N /\ (N - k) - 1 = N - (k + 1) /\ N - (k + 1) \in 0..N /\ k + 1 \in 0..N
      OBVIOUS
    <3>2. Kept(t[(N - k) - 1].st, t[N - k])
      BY <1>4, <3>1 DEF Kept
    <3>3. Interpreted(t[N - (k + 1)].st)
      BY <2>2, <3>1, <3>2 DEF Kept
    <3>4. QED
      BY <3>1, <3>3
  <2> HIDE DEF D
  <2>3. 0..N \subseteq D
    BY <2>1, <2>2, Running!RangeInduces
  <2>4. ASSUME NEW k \in 0..N PROVE Interpreted(t[k].st)
    <3>1. N - k \in 0..N /\ N - (N - k) = k
      OBVIOUS
    <3>2. N - k \in D
      BY <2>3, <3>1
    <3>3. QED
      BY <3>1, <3>2 DEF D
  <2>5. QED
    BY <2>4
<1>6. QED
  BY <1>4, <1>5

LEMMA FormItems ==
  ASSUME NEW f \in AnyForm
  PROVE  /\ Len(f) \in Nat \ {0} /\ DOMAIN f = 1..Len(f)
         /\ \A k \in 1..Len(f) : f[k] \in Item
BY DEF AnyForm

LEMMA RunKeeps ==
  ASSUME NEW s, Whole(s), NEW f \in AnyForm
  PROVE  Kept(s, InOrder(s, f, RunItem))
<1>1. PICK N \in Nat : N = Len(f)
  BY FormItems
<1>2. DOMAIN f = 1..N /\ \A k \in 1..N : f[k] \in Item
  BY <1>1, FormItems
<1>3. PICK t : /\ DOMAIN t = 0..N
               /\ t[0] = Done(s, Nil)
               /\ \A k \in 1..N : t[k] = RunStep(t[k - 1], f[k])
               /\ t[N] = InOrder(s, f, RunItem)
  BY <1>2, RunTrace
<1>4. ASSUME NEW k \in 1..N, Whole(t[k - 1].st) PROVE Kept(t[k - 1].st, t[k])
  <2>1. CASE Failed(t[k - 1])
    BY <1>3, <1>4, <2>1 DEF RunStep, Kept
  <2>2. CASE ~Failed(t[k - 1])
    <3>1. t[k] = RunItem(t[k - 1].st, f[k]) /\ f[k] \in Item
      BY <1>2, <1>3, <2>2 DEF RunStep
    <3>2. QED
      BY <1>4, <3>1, RunItemKept
  <2>3. QED
    BY <2>1, <2>2
<1>5. \A k \in 1..N : Whole(t[k - 1].st) => Kept(t[k - 1].st, t[k])
  BY <1>4
<1>6. t[0] = Done(s, Nil)
  BY <1>3
<1>7. \A k \in 0..N : Kept(s, t[k])
  BY <1>5, <1>6, TraceKeeps
<1>8. N \in 0..N /\ t[N] = InOrder(s, f, RunItem)
  BY <1>3
<1>9. QED
  BY <1>7, <1>8

LEMMA NativeKeeps ==
  ASSUME NEW s, Whole(s), NEW f \in AnyForm
  PROVE  Kept(s, InOrder(s, f, NativeItem))
<1>1. PICK N \in Nat : N = Len(f)
  BY FormItems
<1>2. DOMAIN f = 1..N /\ \A k \in 1..N : f[k] \in Item
  BY <1>1, FormItems
<1>3. PICK t : /\ DOMAIN t = 0..N
               /\ t[0] = Done(s, Nil)
               /\ \A k \in 1..N : t[k] = NativeStep(t[k - 1], f[k])
               /\ t[N] = InOrder(s, f, NativeItem)
  BY <1>2, NativeTrace
<1>4. ASSUME NEW k \in 1..N, Whole(t[k - 1].st) PROVE Kept(t[k - 1].st, t[k])
  <2>1. CASE Failed(t[k - 1])
    BY <1>3, <1>4, <2>1 DEF NativeStep, Kept
  <2>2. CASE ~Failed(t[k - 1])
    <3>1. t[k] = NativeItem(t[k - 1].st, f[k]) /\ f[k] \in Item
      BY <1>2, <1>3, <2>2 DEF NativeStep
    <3>2. QED
      BY <1>4, <3>1, NativeItemKeeps
  <2>3. QED
    BY <2>1, <2>2
<1>5. \A k \in 1..N : Whole(t[k - 1].st) => Kept(t[k - 1].st, t[k])
  BY <1>4
<1>6. t[0] = Done(s, Nil)
  BY <1>3
<1>7. \A k \in 0..N : Kept(s, t[k])
  BY <1>5, <1>6, TraceKeeps
<1>8. N \in 0..N /\ t[N] = InOrder(s, f, NativeItem)
  BY <1>3
<1>9. QED
  BY <1>7, <1>8

LEMMA MemoryKeeps ==
  ASSUME NEW s, Whole(s), NEW m
  PROVE  /\ Whole([s EXCEPT !.memory = m])
         /\ (Owned([s EXCEPT !.memory = m]) <=> Owned(s))
         /\ (Interpreted([s EXCEPT !.memory = m]) <=> Interpreted(s))
         /\ [s EXCEPT !.memory = m].binding = s.binding
         /\ [s EXCEPT !.memory = m].effects = s.effects
         /\ [s EXCEPT !.memory = m].unseen = s.unseen
<1> DEFINE t == [s EXCEPT !.memory = m]
<1>1. DOMAIN s = Fields /\ s.binding \in Bindings /\ s.effects \in Nat
  BY DEF Whole, Shape
<1>2. /\ DOMAIN t = Fields /\ t.binding = s.binding
      /\ t.compilable = s.compilable /\ t.chunks = s.chunks /\ t.jit = s.jit
      /\ t.nextId = s.nextId /\ t.unseen = s.unseen /\ t.effects = s.effects
  BY <1>1 DEF Fields
<1> HIDE DEF t
<1>3. Whole(t) /\ (Owned(t) <=> Owned(s)) /\ (Interpreted(t) <=> Interpreted(s))
  BY <1>1, <1>2, ChangesKeep
<1>4. QED
  BY <1>2, <1>3 DEF t

(* Forms that print alike run alike, but for the type of a number.         *)
Printing(o, p) ==
  /\ o.st = p.st /\ Shown(o.res) = Shown(p.res)
  /\ ~o.st.mixed => o.res = p.res

LEMMA ShownFails ==
  ASSUME NEW o, NEW p, Shown(o.res) = Shown(p.res)
  PROVE  /\ Failed(o) <=> Failed(p)
         /\ Failed(o) => o.res = p.res
         /\ FallsBack(o) <=> FallsBack(p)
BY DEF Shown, Failed, FallsBack, Number, Ok, Err

LEMMA RunItemMarks ==
  ASSUME NEW s, Whole(s), NEW i \in Item
  PROVE  RunItem(s, i).st.mixed = s.mixed
<1> DEFINE o == RunItem(s, i)
<1>1. DOMAIN s = Fields
  BY DEF Whole, Shape
<1>2. CASE i.op = "tick"
  <2>1. o = Done(Ticked(s), Nil)
    BY <1>2 DEF RunItem
  <2>2. Ticked(s).mixed = s.mixed
    BY <1>1 DEF Ticked, Fields
  <2>3. QED
    BY <2>1, <2>2, DoneParts
<1>3. CASE i.op = "define"
  <2>1. o = Done(Bound(s, i.name, "fn", i.val), Nil)
    BY <1>3 DEF RunItem
  <2>2. Bound(s, i.name, "fn", i.val).mixed = s.mixed
    BY <1>1 DEF Bound, Fields
  <2>3. QED
    BY <2>1, <2>2, DoneParts
<1>4. CASE i.op \notin {"tick", "define"}
  <2>1. \E r : o = Done(s, r)
    BY <1>4, RunStays
  <2> HIDE DEF o
  <2>2. QED
    BY <2>1, DoneParts DEF o
<1>5. QED
  BY <1>2, <1>3, <1>4

LEMMA RunItemAlike ==
  ASSUME NEW s, NEW i \in Item, NEW j \in Item, Printed(i) = Printed(j)
  PROVE  /\ RunItem(s, i).st = RunItem(s, j).st
         /\ Shown(RunItem(s, i).res) = Shown(RunItem(s, j).res)
<1>1. /\ i = [op |-> i.op, name |-> i.name, val |-> i.val]
      /\ j = [op |-> j.op, name |-> j.name, val |-> j.val]
  BY DEF Item, Items
<1>2. ASSUME NEW k \in Item, k.op \in {"const", "float"}
      PROVE  RunItem(s, k).st = s /\ Shown(RunItem(s, k).res) = Number(k.val)
  <2>1. CASE k.op = "const"
    <3>1. RunItem(s, k) = Done(s, Number(k.val))
      BY <2>1 DEF RunItem
    <3>2. Shown(Number(k.val)) = Number(k.val)
      BY DEF Shown, Number, Ok
    <3>3. QED
      BY <3>1, <3>2, DoneParts
  <2>2. CASE k.op = "float"
    <3>1. RunItem(s, k) = Done(s, Ok("float", k.val))
      BY <2>2 DEF RunItem
    <3>2. Shown(Ok("float", k.val)) = Number(k.val)
      BY DEF Shown, Ok
    <3>3. QED
      BY <3>1, <3>2, DoneParts
  <2>3. QED
    BY <1>2, <2>1, <2>2
<1>3. i = j \/ (i.op \in {"const", "float"} /\ j.op \in {"const", "float"} /\ i.val = j.val)
  BY <1>1 DEF Printed
<1>4. QED
  BY <1>2, <1>3

LEMMA RunsAlike ==
  ASSUME NEW s, Whole(s), NEW f \in AnyForm, NEW g \in AnyForm, Key(f) = Key(g),
         ~s.mixed => f = g
  PROVE  Printing(InOrder(s, g, RunItem), InOrder(s, f, RunItem))
<1>1. PICK N \in Nat : N = Len(f)
  BY FormItems
<1>2. /\ N = Len(g) /\ DOMAIN f = 1..N /\ DOMAIN g = 1..N
      /\ \A k \in 1..N : f[k] \in Item /\ g[k] \in Item /\ Printed(f[k]) = Printed(g[k])
  BY <1>1, FormItems, KeyParts
<1>3. PICK t : /\ t[0] = Done(s, Nil)
               /\ \A k \in 1..N : t[k] = RunStep(t[k - 1], f[k])
               /\ t[N] = InOrder(s, f, RunItem)
  BY <1>2, RunTrace
<1>4. PICK u : /\ u[0] = Done(s, Nil)
               /\ \A k \in 1..N : u[k] = RunStep(u[k - 1], g[k])
               /\ u[N] = InOrder(s, g, RunItem)
  BY <1>2, RunTrace
<1> DEFINE P(k) == /\ u[k].st = t[k].st /\ Shown(u[k].res) = Shown(t[k].res)
                   /\ Whole(t[k].st) /\ t[k].st.mixed = s.mixed
           S == {k \in 0..N : P(k)}
<1>5. P(0)
  BY <1>3, <1>4, DoneParts
<1>6. ASSUME NEW k \in 0..(N - 1), P(k) PROVE P(k + 1)
  <2>1. k + 1 \in 1..N /\ (k + 1) - 1 = k
    OBVIOUS
  <2>2. /\ t[k + 1] = RunStep(t[k], f[k + 1]) /\ u[k + 1] = RunStep(u[k], g[k + 1])
        /\ f[k + 1] \in Item /\ g[k + 1] \in Item /\ Printed(f[k + 1]) = Printed(g[k + 1])
    BY <1>2, <1>3, <1>4, <2>1
  <2>3. Failed(u[k]) <=> Failed(t[k])
    BY <1>6, ShownFails
  <2>4. CASE Failed(t[k])
    BY <1>6, <2>2, <2>3, <2>4 DEF RunStep
  <2>5. CASE ~Failed(t[k])
    <3>1. /\ t[k + 1] = RunItem(t[k].st, f[k + 1])
          /\ u[k + 1] = RunItem(t[k].st, g[k + 1])
      BY <1>6, <2>2, <2>3, <2>5 DEF RunStep
    <3>2. /\ u[k + 1].st = t[k + 1].st /\ Shown(u[k + 1].res) = Shown(t[k + 1].res)
      BY <2>2, <3>1, RunItemAlike
    <3>3. Whole(t[k + 1].st)
      BY <1>6, <2>2, <3>1, RunItemKept DEF Kept
    <3>4. t[k + 1].st.mixed = s.mixed
      BY <1>6, <2>2, <3>1, RunItemMarks
    <3>5. QED
      BY <3>2, <3>3, <3>4
  <2>6. QED
    BY <2>4, <2>5
<1> HIDE DEF P
<1>7. 0 \in S
  BY <1>5
<1>8. ASSUME NEW k \in 0..(N - 1), k \in S PROVE k + 1 \in S
  BY <1>6, <1>8
<1> HIDE DEF S
<1>9. 0..N \subseteq S
  BY <1>7, <1>8, Running!RangeInduces
<1>10. N \in 0..N
  OBVIOUS
<1>11. P(N)
  BY <1>9, <1>10 DEF S
<1>12. ~u[N].st.mixed => u[N].res = t[N].res
  BY <1>3, <1>4, <1>11 DEF P
<1>13. QED
  BY <1>3, <1>4, <1>11, <1>12 DEF P, Printing

(* Counting a chunk.                                                       *)
Counted(s, k) ==
  [s EXCEPT !.jit = Update(@, s.chunks[k].id, Tick(Entry(s, s.chunks[k].id), s.chunks[k]))]

LEMMA CountedKeeps ==
  ASSUME NEW s, Whole(s), NEW k \in DOMAIN s.chunks
  PROVE  LET t == Counted(s, k)
             new == Tick(Entry(s, s.chunks[k].id), s.chunks[k])
         IN /\ Whole(t) /\ (Owned(s) => Owned(t))
            /\ Interpreted(t) => Interpreted(s) /\ new.code = << >>
            /\ new.code # << >> => new.code \in AnyForm
            /\ t.binding = s.binding /\ t.effects = s.effects
            /\ t.unseen = s.unseen /\ t.compilable = s.compilable /\ t.mixed = s.mixed
<1> DEFINE t == Counted(s, k)
           f == s.chunks[k].code
           id == s.chunks[k].id
           old == Entry(s, id)
           new == Tick(old, s.chunks[k])
<1>1. f \in AnyForm /\ f # << >>
  BY DEF Whole, Caches, AnyForm
<1>2. /\ old.count \in 0..HotThreshold
      /\ old.code = << >> => old.count < HotThreshold
      /\ old.code # << >> => /\ old.code \in AnyForm /\ old.count \in 1..HotThreshold
                             /\ DOMAIN old = {"count", "code"}
                             /\ id \in DOMAIN s.jit /\ old = s.jit[id]
  BY ThresholdAssumption DEF Whole, Counters, Entry, Cold
<1> HIDE DEF old
<1>3. /\ DOMAIN new = {"count", "code"}
      /\ new.count \in 1..HotThreshold
      /\ new.code = << >> => new.count < HotThreshold
      /\ new.code # << >> => new.code \in AnyForm
      /\ new.code = << >> => old.code = << >>
      /\ new.code = f \/ new.code = old.code
  <2>1. CASE old.code # << >>
    BY <1>2, <2>1 DEF Tick
  <2>2. CASE old.code = << >>
    <3>1. new = [count |-> old.count + 1,
                 code |-> IF old.count + 1 >= HotThreshold THEN f ELSE << >>]
      BY <2>2 DEF Tick
    <3> HIDE DEF new
    <3>2. QED
      BY <1>1, <1>2, <2>2, <3>1, ThresholdAssumption
  <2>3. QED
    BY <2>1, <2>2
<1> HIDE DEF new
<1>4. /\ DOMAIN t = Fields
      /\ t.jit = [x \in DOMAIN s.jit \cup {id} |-> IF x = id THEN new ELSE s.jit[x]]
      /\ t.binding = s.binding /\ t.compilable = s.compilable /\ t.chunks = s.chunks
      /\ t.nextId = s.nextId /\ t.unseen = s.unseen /\ t.effects = s.effects
      /\ t.mixed = s.mixed
  BY DEF Counted, Update, Fields, Whole, Shape, new, old
<1> HIDE DEF t
<1>5. /\ DOMAIN t.jit = DOMAIN s.jit \cup {id}
      /\ \A x \in DOMAIN t.jit : t.jit[x] = IF x = id THEN new ELSE s.jit[x]
  BY <1>4
<1>6. Shape(t)
  BY <1>4 DEF Whole, Shape
<1>7. Caches(t)
  BY <1>4 DEF Whole, Caches
<1>8. Counters(t)
  BY <1>3, <1>5 DEF Whole, Counters
<1>9. ASSUME Owned(s) PROVE Owned(t)
  <2>1. DOMAIN t.jit \subseteq 1..(t.nextId - 1)
    BY <1>4, <1>5, <1>9 DEF Owned
  <2>2. ASSUME NEW g \in DOMAIN s.chunks
        PROVE  LET e == Entry(t, s.chunks[g].id) IN e.code # << >> => e.code = s.chunks[g].code
    <3>1. CASE s.chunks[g].id = id
      <4>1. g = k /\ Entry(t, s.chunks[g].id) = new
        BY <1>5, <1>9, <3>1 DEF Owned, Entry
      <4>2. old.code # << >> => old.code = f
        BY <1>9 DEF Owned, old
      <4>3. QED
        BY <1>3, <4>1, <4>2
    <3>2. CASE s.chunks[g].id # id
      <4>1. Entry(t, s.chunks[g].id) = Entry(s, s.chunks[g].id)
        BY <1>5, <3>2 DEF Entry
      <4>2. QED
        BY <1>9, <4>1 DEF Owned
    <3>3. QED
      BY <3>1, <3>2
  <2>3. QED
    BY <1>4, <1>9, <2>1, <2>2 DEF Owned
<1>10. ASSUME Interpreted(t) PROVE Interpreted(s) /\ new.code = << >>
  <2>1. new.code = << >>
    BY <1>5, <1>10 DEF Interpreted
  <2>2. ASSUME NEW x \in DOMAIN s.jit PROVE s.jit[x].code = << >>
    <3>1. CASE x = id
      <4>1. s.jit[x] = old
        BY <3>1 DEF old, Entry
      <4>2. QED
        BY <1>3, <2>1, <4>1
    <3>2. CASE x # id
      BY <1>5, <1>10, <3>2 DEF Interpreted
    <3>3. QED
      BY <3>1, <3>2
  <2>3. QED
    BY <2>1, <2>2 DEF Interpreted
<1>11. QED
  BY <1>3, <1>4, <1>6, <1>7, <1>8, <1>9, <1>10 DEF Whole, t, new, old

LEMMA ChunkKeeps ==
  ASSUME NEW s, Whole(s), NEW k \in DOMAIN s.chunks
  PROVE  LET o == RunChunk(s, s.chunks[k])
         IN Kept(s, o) /\ (Interpreted(o.st) => o = InOrder(Counted(s, k), s.chunks[k].of, RunItem))
<1> DEFINE f == s.chunks[k].of
           o == RunChunk(s, s.chunks[k])
           t == Counted(s, k)
           old == Entry(s, s.chunks[k].id)
           new == Tick(old, s.chunks[k])
           u == [t EXCEPT !.memory = "intact"]
           first == InOrder(u, new.code, NativeItem)
<1>1. f \in AnyForm /\ s.chunks[k].code = f
  BY DEF Whole, Caches
<1>2. /\ Whole(t) /\ (Owned(s) => Owned(t))
      /\ Interpreted(t) => Interpreted(s) /\ new.code = << >>
      /\ new.code # << >> => new.code \in AnyForm
  BY CountedKeeps
<1>3. o = IF new.code = << >> THEN InOrder(t, f, RunItem)
          ELSE IF old.code = << >> THEN Done([first.st EXCEPT !.memory = s.memory], first.res)
          ELSE InOrder(t, new.code, NativeItem)
  BY <1>1 DEF RunChunk, Counted
<1> HIDE DEF t, old, new
<1>4. CASE new.code = << >>
  <2>1. o = InOrder(t, f, RunItem)
    BY <1>3, <1>4
  <2> HIDE DEF o
  <2>2. Kept(t, o)
    BY <1>1, <1>2, <2>1, RunKeeps
  <2>3. QED
    BY <1>2, <2>1, <2>2 DEF Kept, o, t
<1>5. CASE new.code # << >> /\ old.code = << >>
  <2>1. Whole(u) /\ (Owned(u) <=> Owned(t)) /\ (Interpreted(u) <=> Interpreted(t))
    BY <1>2, MemoryKeeps
  <2> HIDE DEF u
  <2>2. Kept(u, first)
    BY <1>2, <1>5, <2>1, NativeKeeps
  <2>3. o = Done([first.st EXCEPT !.memory = s.memory], first.res)
    BY <1>3, <1>5
  <2> HIDE DEF o, first
  <2>4. o.st = [first.st EXCEPT !.memory = s.memory]
    BY <2>3, DoneParts
  <2>5. Whole(o.st) /\ (Owned(o.st) <=> Owned(first.st)) /\ (Interpreted(o.st) <=> Interpreted(first.st))
    BY <2>2, <2>4, MemoryKeeps DEF Kept
  <2>6. QED
    BY <1>2, <1>5, <2>1, <2>2, <2>5 DEF Kept, o, t
<1>6. CASE new.code # << >> /\ old.code # << >>
  <2>1. o = InOrder(t, new.code, NativeItem)
    BY <1>3, <1>6
  <2> HIDE DEF o
  <2>2. Kept(t, o)
    BY <1>2, <1>6, <2>1, NativeKeeps
  <2>3. QED
    BY <1>2, <1>6, <2>1, <2>2 DEF Kept, o, t
<1>7. QED
  BY <1>4, <1>5, <1>6

-----------------------------------------------------------------------------
(* vm_eval around the tree-walker.                                         *)
Static(f) == \A k \in 1..Len(f) : f[k].op # "defmacro"

LEMMA CheckedParts ==
  ASSUME NEW s, Whole(s), NEW f \in AnyForm
  PROVE  LET c == Checked(s, f)
         IN /\ DOMAIN c = Fields /\ c.binding = s.binding /\ c.effects = s.effects
            /\ c.chunks = s.chunks /\ c.jit = s.jit /\ c.nextId = s.nextId /\ c.unseen = s.unseen
            /\ DOMAIN c.compilable = DOMAIN s.compilable \cup {Key(f)}
            /\ \A g \in DOMAIN s.compilable : c.compilable[g] = s.compilable[g]
            /\ c.compilable[Key(f)] \in BOOLEAN
            /\ Key(f) \notin DOMAIN s.compilable => (c.compilable[Key(f)] <=> IsCompilable(s.binding, f))
<1> DEFINE c == Checked(s, f)
           can == IF Key(f) \in DOMAIN s.compilable THEN s.compilable[Key(f)] ELSE IsCompilable(s.binding, f)
<1>1. /\ DOMAIN c = Fields /\ c.binding = s.binding /\ c.effects = s.effects
      /\ c.chunks = s.chunks /\ c.jit = s.jit /\ c.nextId = s.nextId /\ c.unseen = s.unseen
      /\ c.compilable = [x \in DOMAIN s.compilable \cup {Key(f)} |-> IF x = Key(f) THEN can ELSE s.compilable[x]]
  BY DEF Checked, Update, Fields, Whole, Shape
<1>2. can \in BOOLEAN
  BY DEF Whole, Caches, IsCompilable
<1> HIDE DEF c
<1>3. DOMAIN c.compilable = DOMAIN s.compilable \cup {Key(f)} /\ c.compilable[Key(f)] = can
  BY <1>1
<1>4. \A g \in DOMAIN s.compilable : c.compilable[g] = s.compilable[g]
  BY <1>1
<1>5. QED
  BY <1>1, <1>2, <1>3, <1>4 DEF c

LEMMA CheckedKeeps ==
  ASSUME NEW s, Whole(s), NEW f \in AnyForm, ~Checked(s, f).compilable[Key(f)]
  PROVE  Kept(s, Done(Checked(s, f), Nil))
<1> DEFINE c == Checked(s, f)
<1>1. /\ DOMAIN c = Fields /\ c.binding = s.binding /\ c.effects = s.effects
      /\ c.chunks = s.chunks /\ c.jit = s.jit /\ c.nextId = s.nextId /\ c.unseen = s.unseen
      /\ DOMAIN c.compilable = DOMAIN s.compilable \cup {Key(f)}
      /\ \A g \in DOMAIN s.compilable : c.compilable[g] = s.compilable[g]
      /\ c.compilable[Key(f)] \in BOOLEAN /\ ~c.compilable[Key(f)]
  BY CheckedParts
<1> HIDE DEF c
<1>2. Shape(c)
  BY <1>1 DEF Whole, Shape
<1>3. Counters(c)
  BY <1>1 DEF Whole, Counters
<1>4. Caches(c)
  BY <1>1, KeyParts DEF Whole, Caches
<1>5. (Owned(c) <=> Owned(s)) /\ (Interpreted(c) <=> Interpreted(s))
  BY <1>1 DEF Owned, Interpreted, Entry
<1>6. QED
  BY <1>2, <1>3, <1>4, <1>5, DoneParts DEF Kept, Whole, c

(* Code without macro uses is the form itself.                             *)
LEMMA CompiledIsForm ==
  ASSUME NEW b, NEW f \in AnyForm, IsCompilable(b, f)
  PROVE  Compile(b, f) = f
<1>1. PICK n \in Nat : n = Len(f)
  BY FormItems
<1>2. \A k \in 1..n : Expand(b, f[k]) = f[k]
  BY <1>1 DEF IsCompilable, Expand
<1>3. f = [k \in 1..n |-> f[k]]
  BY <1>1 DEF AnyForm
<1>4. QED
  BY <1>1, <1>2, <1>3 DEF Compile

LEMMA LinkedKeeps ==
  ASSUME NEW s, Whole(s), NEW f \in AnyForm, Checked(s, f).compilable[Key(f)]
  PROVE  LET t == Linked(Checked(s, f), f)
         IN /\ Kept(s, Done(t, Nil)) /\ Key(f) \in DOMAIN t.chunks
            /\ t.binding = s.binding /\ t.effects = s.effects /\ t.unseen = s.unseen
            /\ ~t.mixed => t.chunks[Key(f)].of = f
            /\ Static(f)
            /\ ~s.unseen => IsCompilable(s.binding, f)
<1> DEFINE key == Key(f)
           c == Checked(s, f)
           t == Linked(c, f)
<1>1. /\ DOMAIN c = Fields /\ c.binding = s.binding /\ c.effects = s.effects
      /\ c.chunks = s.chunks /\ c.jit = s.jit /\ c.nextId = s.nextId /\ c.unseen = s.unseen
      /\ DOMAIN c.compilable = DOMAIN s.compilable \cup {key}
      /\ \A g \in DOMAIN s.compilable : c.compilable[g] = s.compilable[g]
      /\ c.compilable[key] = TRUE
      /\ key \notin DOMAIN s.compilable => IsCompilable(s.binding, f)
  BY CheckedParts
<1> HIDE DEF c
<1>2. /\ Static(f)
      /\ ~s.unseen => IsCompilable(s.binding, f)
      /\ key \notin DOMAIN s.chunks => IsCompilable(s.binding, f)
  <2>1. CASE key \in DOMAIN s.compilable
    <3>1. s.compilable[key] = TRUE
      BY <1>1, <2>1
    <3>2. /\ key \in DOMAIN s.chunks /\ \A i \in 1..Len(key) : key[i].op # "defmacro"
          /\ ~s.unseen => IsCompilable(s.binding, key)
      BY <2>1, <3>1 DEF Whole, Caches
    <3>3. QED
      BY <3>2, KeyCompiles DEF Static
  <2>2. CASE key \notin DOMAIN s.compilable
    BY <1>1, <2>2 DEF IsCompilable, Static
  <2>3. QED
    BY <2>1, <2>2
<1>3. /\ key \in AnyForm /\ \A i \in 1..Len(key) : key[i].op # "defmacro"
      /\ ~s.unseen => IsCompilable(s.binding, key)
  BY <1>2, KeyParts, KeyCompiles DEF Static
<1> HIDE DEF key
<1>4. CASE key \in DOMAIN s.chunks
  <2>1. t = IF s.chunks[key].of = f THEN c ELSE [c EXCEPT !.mixed = TRUE]
    BY <1>1, <1>4 DEF Linked, key
  <2> HIDE DEF t
  <2>2. /\ DOMAIN t = Fields /\ t.binding = s.binding /\ t.effects = s.effects
        /\ t.chunks = s.chunks /\ t.jit = s.jit /\ t.nextId = s.nextId
        /\ t.unseen = s.unseen /\ t.compilable = c.compilable
        /\ ~t.mixed => t.chunks[key].of = f
    BY <1>1, <2>1 DEF Fields
  <2>3. Shape(t)
    BY <2>2 DEF Whole, Shape
  <2>4. Counters(t)
    BY <2>2 DEF Whole, Counters
  <2>5. Caches(t)
    <3>1. ASSUME NEW g \in DOMAIN t.chunks
          PROVE  LET d == t.chunks[g] IN d.of \in AnyForm /\ Key(d.of) = g /\ d.code = d.of
      BY <2>2 DEF Whole, Caches
    <3>2. ASSUME NEW g \in DOMAIN t.compilable
          PROVE  /\ g \in AnyForm /\ t.compilable[g] \in BOOLEAN
                 /\ t.compilable[g] => g \in DOMAIN t.chunks /\ \A k \in 1..Len(g) : g[k].op # "defmacro"
                 /\ t.compilable[g] /\ ~t.unseen => IsCompilable(t.binding, g)
      <4>1. CASE g = key
        BY <1>1, <1>3, <1>4, <2>2, <4>1
      <4>2. CASE g \in DOMAIN s.compilable
        <5>1. t.compilable[g] = s.compilable[g]
          BY <1>1, <2>2, <4>2
        <5>2. QED
          BY <2>2, <4>2, <5>1 DEF Whole, Caches
      <4>3. QED
        BY <1>1, <2>2, <4>1, <4>2
    <3>3. QED
      BY <3>1, <3>2 DEF Caches
  <2>6. (Owned(t) <=> Owned(s)) /\ (Interpreted(t) <=> Interpreted(s))
    BY <2>2 DEF Owned, Interpreted, Entry
  <2>7. QED
    BY <1>2, <1>4, <2>2, <2>3, <2>4, <2>5, <2>6, DoneParts DEF Kept, Whole, t, c, key
<1>5. CASE key \notin DOMAIN s.chunks
  <2> DEFINE new == ChunkOf(s.nextId, s.binding, f)
  <2>1. Compile(s.binding, f) = f
    BY <1>2, <1>5, CompiledIsForm
  <2>2. /\ DOMAIN t = Fields /\ t.binding = s.binding /\ t.effects = s.effects
        /\ t.jit = s.jit /\ t.unseen = s.unseen /\ t.compilable = c.compilable
        /\ t.nextId = s.nextId + 1
        /\ t.chunks = [x \in DOMAIN s.chunks \cup {key} |-> IF x = key THEN new ELSE s.chunks[x]]
    BY <1>1, <1>5 DEF Linked, NewChunk, Update, Fields, key
  <2>3. new.id = s.nextId /\ new.code = f /\ new.of = f
    BY <2>1 DEF ChunkOf
  <2> HIDE DEF t, new
  <2>4. /\ DOMAIN t.chunks = DOMAIN s.chunks \cup {key} /\ t.chunks[key] = new
        /\ \A g \in DOMAIN s.chunks : t.chunks[g] = s.chunks[g]
    BY <1>5, <2>2
  <2>5. Shape(t)
    BY <2>2 DEF Whole, Shape
  <2>6. Counters(t)
    BY <2>2 DEF Whole, Counters
  <2>7. Caches(t)
    <3>1. ASSUME NEW g \in DOMAIN t.chunks
          PROVE  LET d == t.chunks[g] IN d.of \in AnyForm /\ Key(d.of) = g /\ d.code = d.of
      <4>1. CASE g = key
        BY <2>3, <2>4, <4>1 DEF key
      <4>2. CASE g \in DOMAIN s.chunks
        BY <2>4, <4>2 DEF Whole, Caches
      <4>3. QED
        BY <2>4, <4>1, <4>2
    <3>2. ASSUME NEW g \in DOMAIN t.compilable
          PROVE  /\ g \in AnyForm /\ t.compilable[g] \in BOOLEAN
                 /\ t.compilable[g] => g \in DOMAIN t.chunks /\ \A k \in 1..Len(g) : g[k].op # "defmacro"
                 /\ t.compilable[g] /\ ~t.unseen => IsCompilable(t.binding, g)
      <4>1. CASE g = key
        BY <1>1, <1>3, <2>2, <2>4, <4>1
      <4>2. CASE g \in DOMAIN s.compilable
        <5>1. t.compilable[g] = s.compilable[g]
          BY <1>1, <2>2, <4>2
        <5>2. QED
          BY <2>2, <2>4, <4>2, <5>1 DEF Whole, Caches
      <4>3. QED
        BY <1>1, <2>2, <4>1, <4>2
    <3>3. QED
      BY <3>1, <3>2 DEF Caches
  <2>8. Interpreted(t) <=> Interpreted(s)
    BY <2>2 DEF Interpreted
  <2>9. ASSUME Owned(s) PROVE Owned(t)
    <3>1. s.nextId \in Nat \ {0}
      BY DEF Whole, Shape
    <3>2. \A g \in DOMAIN t.chunks : t.chunks[g].id \in 1..(t.nextId - 1)
      BY <2>2, <2>3, <2>4, <2>9, <3>1 DEF Owned
    <3>3. ASSUME NEW g \in DOMAIN t.chunks, NEW h \in DOMAIN t.chunks,
                 t.chunks[g].id = t.chunks[h].id
          PROVE  g = h
      <4>1. \A x \in DOMAIN s.chunks : t.chunks[x].id \in 1..(s.nextId - 1)
        BY <2>4, <2>9 DEF Owned
      <4>2. t.chunks[key].id = s.nextId
        BY <2>3, <2>4
      <4>3. CASE g \in DOMAIN s.chunks /\ h \in DOMAIN s.chunks
        BY <2>4, <2>9, <3>3, <4>3 DEF Owned
      <4>4. CASE ~(g \in DOMAIN s.chunks /\ h \in DOMAIN s.chunks)
        BY <2>4, <3>1, <3>3, <4>1, <4>2, <4>4
      <4>5. QED
        BY <4>3, <4>4
    <3>4. DOMAIN t.jit \subseteq 1..(t.nextId - 1)
      BY <2>2, <2>9, <3>1 DEF Owned
    <3>5. ASSUME NEW g \in DOMAIN t.chunks
          PROVE  LET e == Entry(t, t.chunks[g].id)
                 IN e.code # << >> => e.code = t.chunks[g].code
      <4>1. CASE g \in DOMAIN s.chunks
        <5>1. Entry(t, t.chunks[g].id) = Entry(s, s.chunks[g].id)
          BY <2>2, <2>4, <4>1 DEF Entry
        <5>2. QED
          BY <2>4, <2>9, <4>1, <5>1 DEF Owned
      <4>2. CASE g = key
        <5>1. t.chunks[g].id \notin DOMAIN t.jit
          BY <2>2, <2>3, <2>4, <2>9, <3>1, <4>2 DEF Owned
        <5>2. QED
          BY <5>1 DEF Entry, Cold
      <4>3. QED
        BY <2>4, <4>1, <4>2
    <3>6. QED
      BY <3>2, <3>3, <3>4, <3>5 DEF Owned
  <2>10. Kept(s, Done(t, Nil))
    BY <2>5, <2>6, <2>7, <2>8, <2>9, DoneParts DEF Kept, Whole
  <2>11. key \in DOMAIN t.chunks /\ t.chunks[key].of = f
    BY <2>3, <2>4
  <2>12. QED
    BY <1>2, <2>2, <2>10, <2>11 DEF t, c, key
<1>6. QED
  BY <1>4, <1>5

(* The bytecode found under a form's text, or made, and run: the form      *)
(* itself, but for the types of its numbers.                               *)
Ran(s, f) ==
  LET t == Linked(Checked(s, f), f) IN RunChunk(t, t.chunks[Key(f)])

LEMMA RanKeeps ==
  ASSUME NEW s, Whole(s), NEW f \in AnyForm, Checked(s, f).compilable[Key(f)]
  PROVE  /\ Kept(s, Ran(s, f))
         /\ Interpreted(Ran(s, f).st) =>
              \E t : /\ Whole(t) /\ t.binding = s.binding /\ t.effects = s.effects
                     /\ t.unseen = s.unseen /\ Printing(Ran(s, f), InOrder(t, f, RunItem))
         /\ Static(f) /\ (~s.unseen => IsCompilable(s.binding, f))
<1> DEFINE u == Linked(Checked(s, f), f)
           key == Key(f)
           o == Ran(s, f)
           t == Counted(u, key)
           g == u.chunks[key].of
<1>1. /\ Kept(s, Done(u, Nil)) /\ key \in DOMAIN u.chunks
      /\ u.binding = s.binding /\ u.effects = s.effects /\ u.unseen = s.unseen
      /\ ~u.mixed => g = f
      /\ Static(f)
      /\ ~s.unseen => IsCompilable(s.binding, f)
  BY LinkedKeeps
<1>2. o = RunChunk(u, u.chunks[key])
  BY DEF Ran
<1> HIDE DEF u, o
<1>3. Kept(s, Done(u, Nil)) /\ Done(u, Nil).st = u /\ Whole(u)
  BY <1>1, DoneParts DEF Kept
<1>4. Kept(u, o) /\ (Interpreted(o.st) => o = InOrder(t, g, RunItem))
  BY <1>1, <1>2, <1>3, ChunkKeeps
<1>5. /\ Whole(t) /\ t.binding = u.binding /\ t.effects = u.effects /\ t.unseen = u.unseen
      /\ t.mixed = u.mixed
  BY <1>1, <1>3, CountedKeeps
<1>6. g \in AnyForm /\ Key(g) = key
  BY <1>1, <1>3 DEF Whole, Caches
<1> HIDE DEF t, g
<1>7. Printing(InOrder(t, g, RunItem), InOrder(t, f, RunItem))
  BY <1>1, <1>5, <1>6, RunsAlike
<1>8. Kept(s, o)
  BY <1>3, <1>4, KeptOn
<1>9. QED
  BY <1>1, <1>4, <1>5, <1>7, <1>8 DEF o

LEMMA InvalidateKeeps ==
  ASSUME NEW s, Whole(s)
  PROVE  LET t == Seen(Invalidate(s))
         IN /\ Whole(t) /\ (Owned(t) <=> Owned(s)) /\ (Interpreted(t) <=> Interpreted(s))
            /\ t.binding = s.binding /\ t.effects = s.effects /\ t.mixed = s.mixed
<1> DEFINE t == Seen(Invalidate(s))
<1>1. /\ DOMAIN t = Fields /\ t.binding = s.binding /\ t.effects = s.effects
      /\ t.mixed = s.mixed
      /\ t.chunks = s.chunks /\ t.jit = s.jit /\ t.nextId = s.nextId /\ t.unseen = FALSE
      /\ DOMAIN t.compilable = {}
  BY DEF Seen, Invalidate, Fields, Whole, Shape
<1> HIDE DEF t
<1>2. Shape(t)
  BY <1>1 DEF Whole, Shape
<1>3. Counters(t)
  BY <1>1 DEF Whole, Counters
<1>4. Caches(t)
  BY <1>1 DEF Whole, Caches
<1>5. (Owned(t) <=> Owned(s)) /\ (Interpreted(t) <=> Interpreted(s))
  BY <1>1 DEF Owned, Interpreted, Entry
<1>6. QED
  BY <1>1, <1>2, <1>3, <1>4, <1>5 DEF Whole, t

(* vm_eval, given what the tree-walker answers: instead of the bytecode,   *)
(* or after it has been refused.                                           *)
Answer(s, f, walked, again) ==
  IF Checked(s, f).compilable[Key(f)] THEN IF FallsBack(Ran(s, f)) THEN again ELSE Ran(s, f)
  ELSE IF IsDefmacro(f) /\ ~Failed(walked) THEN Done(Seen(Invalidate(walked.st)), walked.res)
  ELSE walked

LEMMA AnswerKeeps ==
  ASSUME NEW s, Whole(s), NEW f \in AnyForm, NEW walked, NEW again,
         ~Checked(s, f).compilable[Key(f)] => Kept(Checked(s, f), walked),
         Checked(s, f).compilable[Key(f)] => Kept(Ran(s, f).st, again)
  PROVE  Kept(s, Answer(s, f, walked, again))
<1> DEFINE c == Checked(s, f)
           o == Answer(s, f, walked, again)
<1>1. CASE c.compilable[Key(f)]
  <2>1. Kept(s, Ran(s, f))
    BY <1>1, RanKeeps
  <2>2. Kept(s, again)
    BY <1>1, <2>1, KeptOn
  <2>3. QED
    BY <1>1, <2>1, <2>2 DEF Answer
<1>2. CASE ~c.compilable[Key(f)]
  <2>1. Kept(s, Done(c, Nil)) /\ Done(c, Nil).st = c
    BY <1>2, CheckedKeeps, DoneParts
  <2>2. Kept(s, walked)
    BY <1>2, <2>1, KeptOn
  <2> DEFINE w == Done(Seen(Invalidate(walked.st)), walked.res)
  <2>3. o = walked \/ o = w
    BY <1>2 DEF Answer
  <2>4. w.st = Seen(Invalidate(walked.st))
    BY DoneParts
  <2> HIDE DEF w, o
  <2>5. Whole(w.st) /\ (Owned(w.st) <=> Owned(walked.st)) /\ (Interpreted(w.st) <=> Interpreted(walked.st))
    BY <2>2, <2>4, InvalidateKeeps DEF Kept
  <2>6. Kept(s, w)
    BY <2>2, <2>5 DEF Kept
  <2>7. QED
    BY <2>2, <2>3, <2>6 DEF o
<1>3. QED
  BY <1>1, <1>2

LEMMA SingleForm ==
  ASSUME NEW i \in Item
  PROVE  <<i>> \in AnyForm /\ Len(<<i>>) = 1 /\ <<i>>[1] = i
BY DEF AnyForm

LEMMA SingleRun ==
  ASSUME NEW s, NEW i
  PROVE  InOrder(s, <<i>>, RunItem) = RunItem(s, i)
<1>1. DOMAIN <<i>> = 1..1 /\ <<i>>[1] = i /\ 1 \in Nat
  OBVIOUS
<1>2. PICK t : /\ DOMAIN t = 0..1
               /\ t[0] = Done(s, Nil)
               /\ \A k \in 1..1 : t[k] = RunStep(t[k - 1], <<i>>[k])
               /\ t[1] = InOrder(s, <<i>>, RunItem)
  BY <1>1, RunTrace
<1>3. t[1] = RunStep(t[0], i)
  BY <1>1, <1>2
<1>4. t[0].st = s /\ ~Failed(t[0])
  BY <1>2, DoneParts, Results
<1>5. QED
  BY <1>2, <1>3, <1>4 DEF RunStep

(* The outcome of an item and what it means.  Of a definition the value    *)
(* may differ, and otherwise the type of a number, if a chunk of another   *)
(* form has been run.                                                      *)
Agrees(o, m, i) ==
  /\ o.st.binding = m.st.binding /\ o.st.effects = m.st.effects
  /\ Failed(o) <=> Failed(m)
  /\ i.op # "define" => /\ Shown(o.res) = Shown(m.res)
                        /\ ~o.st.mixed => o.res = m.res

LEMMA AgreesFrom ==
  ASSUME NEW s, NEW t, Shape(s), Shape(t), s.binding = t.binding, s.effects = t.effects,
         NEW i \in Item, NEW o, Agrees(o, Meaning(t, i), i)
  PROVE  Agrees(o, Meaning(s, i), i)
<1> DEFINE m == Meaning(s, i)
           n == Meaning(t, i)
<1>1. m.st.binding = n.st.binding /\ m.res = n.res /\ MeansFrom(s, i, m) /\ MeansFrom(t, i, n)
  BY MeantAlike
<1> HIDE DEF m, n
<1>2. m.st.effects = n.st.effects
  BY <1>1 DEF MeansFrom
<1>3. Agrees(o, n, i)
  BY DEF n
<1>4. Agrees(o, m, i)
  BY <1>1, <1>2, <1>3 DEF Agrees, Failed
<1>5. QED
  BY <1>4 DEF m

LEMMA AnswerMeans ==
  ASSUME NEW s, Whole(s), NEW i \in Item, NEW walked, NEW again,
         ~Checked(s, <<i>>).compilable[Key(<<i>>)] =>
            /\ Kept(Checked(s, <<i>>), walked)
            /\ Interpreted(walked.st) => Agrees(walked, Meaning(Checked(s, <<i>>), i), i),
         Checked(s, <<i>>).compilable[Key(<<i>>)] =>
            /\ Kept(Ran(s, <<i>>).st, again)
            /\ Interpreted(again.st) => Agrees(again, Meaning(Ran(s, <<i>>).st, i), i),
         Interpreted(Answer(s, <<i>>, walked, again).st)
  PROVE  Agrees(Answer(s, <<i>>, walked, again), Meaning(s, i), i)
<1> DEFINE f == <<i>>
           c == Checked(s, f)
           o == Answer(s, f, walked, again)
           ran == Ran(s, f)
<1>1. f \in AnyForm /\ Len(f) = 1 /\ f[1] = i
  BY SingleForm
<1>2. Shape(s)
  BY DEF Whole
<1>3. CASE c.compilable[Key(f)]
  <2>1. /\ Kept(s, ran) /\ Static(f)
        /\ Interpreted(ran.st) =>
             \E t : /\ Whole(t) /\ t.binding = s.binding /\ t.effects = s.effects
                    /\ t.unseen = s.unseen /\ Printing(ran, InOrder(t, f, RunItem))
    BY <1>1, <1>3, RanKeeps
  <2>2. o = IF FallsBack(ran) THEN again ELSE ran
    BY <1>3 DEF Answer
  <2>3. Kept(ran.st, again) /\ (Interpreted(again.st) => Agrees(again, Meaning(ran.st, i), i))
    BY <1>3
  <2>4. Interpreted(o.st)
    OBVIOUS
  <2> HIDE DEF o, ran
  <2>5. Interpreted(ran.st)
    BY <2>2, <2>3, <2>4 DEF Kept
  <2>6. PICK t : /\ Whole(t) /\ t.binding = s.binding /\ t.effects = s.effects
                 /\ Printing(ran, InOrder(t, f, RunItem))
    BY <2>1, <2>5
  <2> DEFINE run == RunItem(t, i)
  <2> HIDE DEF run
  <2>7. Printing(ran, run) /\ run = RunItem(t, i)
    BY <2>6, SingleRun DEF run
  <2>13. /\ FallsBack(ran) <=> FallsBack(run)
         /\ Failed(ran) <=> Failed(run)
    BY <2>7, ShownFails DEF Printing
  <2>8. i.op # "defmacro"
    BY <1>1, <2>1 DEF Static
  <2>9. Shape(t)
    BY <2>6 DEF Whole
  <2>10. CASE FallsBack(ran)
    <3>1. Failed(run)
      BY <2>10, <2>13, Results DEF FallsBack, Failed
    <3>2. ran.st = t
      BY <2>6, <2>7, <3>1, RunItemEnds DEF Printing
    <3>3. Agrees(again, Meaning(t, i), i)
      BY <2>2, <2>3, <2>4, <2>10, <3>2
    <3>4. Agrees(again, Meaning(s, i), i)
      BY <1>2, <2>6, <2>9, <3>3, AgreesFrom
    <3>5. QED
      BY <2>2, <2>10, <3>4 DEF o
  <2>11. CASE ~FallsBack(ran)
    <3>1. ~Refused(t, i)
      BY <2>6, <2>7, <2>11, <2>13, RunItemEnds
    <3>2. run = Meaning(t, i)
      BY <2>7, <2>8, <3>1, RunIsMeant
    <3>3. Agrees(ran, Meaning(t, i), i)
      BY <2>7, <2>13, <3>2 DEF Agrees, Printing
    <3>4. Agrees(ran, Meaning(s, i), i)
      BY <1>2, <2>6, <2>9, <3>3, AgreesFrom
    <3>5. QED
      BY <2>2, <2>11, <3>4 DEF o
  <2>12. QED
    BY <2>10, <2>11
<1>4. CASE ~c.compilable[Key(f)]
  <2> DEFINE w == Done(Seen(Invalidate(walked.st)), walked.res)
  <2>1. o = walked \/ o = w
    BY <1>4 DEF Answer
  <2>2. w.st = Seen(Invalidate(walked.st)) /\ w.res = walked.res
    BY DoneParts
  <2>3. Kept(c, walked) /\ (Interpreted(walked.st) => Agrees(walked, Meaning(c, i), i))
    BY <1>4
  <2>4. Interpreted(o.st)
    OBVIOUS
  <2> HIDE DEF w, o
  <2>5. /\ Interpreted(w.st) <=> Interpreted(walked.st)
        /\ w.st.binding = walked.st.binding /\ w.st.effects = walked.st.effects
        /\ w.st.mixed = walked.st.mixed
    BY <2>2, <2>3, InvalidateKeeps DEF Kept
  <2>6. Agrees(walked, Meaning(c, i), i)
    BY <2>1, <2>3, <2>4, <2>5
  <2>7. Agrees(o, Meaning(c, i), i)
    BY <2>1, <2>2, <2>5, <2>6 DEF Agrees, Failed
  <2>8. c.binding = s.binding /\ c.effects = s.effects
    BY <1>1, CheckedParts
  <2>9. Kept(s, Done(c, Nil)) /\ Done(c, Nil).st = c
    BY <1>1, <1>4, CheckedKeeps, DoneParts
  <2>10. Shape(c)
    BY <2>9 DEF Kept, Whole
  <2> HIDE DEF c
  <2>11. Agrees(o, Meaning(s, i), i)
    BY <1>2, <2>7, <2>8, <2>10, AgreesFrom
  <2>12. QED
    BY <2>11 DEF o
<1>5. QED
  BY <1>3, <1>4
-----------------------------------------------------------------------------
(* The tree-walker on names and constants, and vm_eval around it.          *)
Atom(op, n, v) == [op |-> op, name |-> n, val |-> v]

LEMMA AtomItem ==
  ASSUME NEW n \in Names \cup {"", "tick", "builtin"}, NEW v \in Int
  PROVE  /\ Atom("symbol", n, v) \in Item
         /\ Atom("const", "", v) \in Item
BY DEF Atom, Item, Items, Ops

LEMMA AtomMeans ==
  ASSUME NEW s, Whole(s), NEW i \in Item, i.op \in {"const", "float", "symbol"}
  PROVE  TreeAtom(s, <<i>>) = Meaning(s, i) /\ Kept(s, TreeAtom(s, <<i>>))
<1> DEFINE b == Binding(s, i.name)
<1>1. CASE i.op = "symbol" /\ b.kind = "macro"
  <2>1. TreeAtom(s, <<i>>) = Done(s, Ok("macro", b.val))
    BY <1>1 DEF TreeAtom
  <2>2. Meaning(s, i) = Done(s, Ok("macro", b.val))
    BY <1>1 DEF Meaning
  <2>3. QED
    BY <2>1, <2>2, KeptItself
<1>2. CASE ~(i.op = "symbol" /\ b.kind = "macro")
  <2>1. TreeAtom(s, <<i>>) = RunItem(s, i)
    BY <1>2 DEF TreeAtom
  <2>2. Meaning(s, i) = RunItem(s, i)
    BY <1>2 DEF Meaning
  <2>3. QED
    BY <2>1, <2>2, RunItemKept
<1>3. QED
  BY <1>1, <1>2

(* What is so of vm_eval's answer for one item.                            *)
Sound(s, i, o) == Kept(s, o) /\ (Interpreted(o.st) => Agrees(o, Meaning(s, i), i))

LEMMA AnswerSound ==
  ASSUME NEW s, Whole(s), NEW i \in Item, NEW walked, NEW again,
         ~Checked(s, <<i>>).compilable[Key(<<i>>)] => Sound(Checked(s, <<i>>), i, walked),
         Checked(s, <<i>>).compilable[Key(<<i>>)] => Sound(Ran(s, <<i>>).st, i, again)
  PROVE  Sound(s, i, Answer(s, <<i>>, walked, again))
<1>1. <<i>> \in AnyForm
  BY SingleForm
<1>2. /\ ~Checked(s, <<i>>).compilable[Key(<<i>>)] =>
            /\ Kept(Checked(s, <<i>>), walked)
            /\ Interpreted(walked.st) => Agrees(walked, Meaning(Checked(s, <<i>>), i), i)
      /\ Checked(s, <<i>>).compilable[Key(<<i>>)] =>
            /\ Kept(Ran(s, <<i>>).st, again)
            /\ Interpreted(again.st) => Agrees(again, Meaning(Ran(s, <<i>>).st, i), i)
  BY DEF Sound
<1>3. Kept(s, Answer(s, <<i>>, walked, again))
  BY <1>1, <1>2, AnswerKeeps
<1>4. ASSUME Interpreted(Answer(s, <<i>>, walked, again).st)
      PROVE  Agrees(Answer(s, <<i>>, walked, again), Meaning(s, i), i)
  BY <1>2, <1>4, AnswerMeans
<1>5. QED
  BY <1>3, <1>4 DEF Sound

(* The interpreter is whole where the tree-walker takes over.              *)
LEMMA TakesOver ==
  ASSUME NEW s, Whole(s), NEW f \in AnyForm
  PROVE  /\ ~Checked(s, f).compilable[Key(f)] => Whole(Checked(s, f))
         /\ Checked(s, f).compilable[Key(f)] => Whole(Ran(s, f).st)
<1>1. ASSUME ~Checked(s, f).compilable[Key(f)] PROVE Whole(Checked(s, f))
  <2>1. Kept(s, Done(Checked(s, f), Nil))
    BY <1>1, CheckedKeeps
  <2>2. QED
    BY <2>1, DoneParts DEF Kept
<1>2. ASSUME Checked(s, f).compilable[Key(f)] PROVE Whole(Ran(s, f).st)
  <2>1. Kept(s, Ran(s, f))
    BY <1>2, RanKeeps
  <2>2. QED
    BY <2>1 DEF Kept
<1>3. QED
  BY <1>1, <1>2

LEMMA VmAtomAnswers ==
  ASSUME NEW s, NEW f
  PROVE  VmBy(s, f, TreeAtom) =
           Answer(s, f, TreeAtom(Checked(s, f), f), TreeAtom(Ran(s, f).st, f))
BY DEF VmBy, Answer, Ran

LEMMA VmAtomSound ==
  ASSUME NEW s, Whole(s), NEW i \in Item, i.op \in {"const", "float", "symbol"}
  PROVE  Sound(s, i, VmBy(s, <<i>>, TreeAtom))
<1> DEFINE c == Checked(s, <<i>>)
           u == Ran(s, <<i>>).st
<1>1. <<i>> \in AnyForm
  BY SingleForm
<1>2. (~c.compilable[Key(<<i>>)] => Whole(c)) /\ (c.compilable[Key(<<i>>)] => Whole(u))
  BY <1>1, TakesOver
<1>3. VmBy(s, <<i>>, TreeAtom) = Answer(s, <<i>>, TreeAtom(c, <<i>>), TreeAtom(u, <<i>>))
  BY VmAtomAnswers
<1>4. ASSUME NEW t, Whole(t) PROVE Sound(t, i, TreeAtom(t, <<i>>))
  <2>1. TreeAtom(t, <<i>>) = Meaning(t, i) /\ Kept(t, TreeAtom(t, <<i>>))
    BY <1>4, AtomMeans
  <2>2. QED
    BY <2>1 DEF Sound, Agrees
<1>5. QED
  BY <1>2, <1>3, <1>4, AnswerSound

LEMMA SymbolMeans ==
  ASSUME NEW s, NEW n \in Names \cup {"tick", "builtin"},
         Binding(s, n).kind # "macro"
  PROVE  Meaning(s, Atom("symbol", n, 0)) =
           IF Binding(s, n).kind = "fn" THEN Done(s, Number(Binding(s, n).val))
           ELSE IF n \notin Names THEN Done(s, Ok("builtin", 0))
           ELSE Done(s, Err("undefined"))
<1> DEFINE i == Atom("symbol", n, 0)
<1>1. i.op = "symbol" /\ i.name = n
  BY DEF Atom
<1> HIDE DEF i
<1>2. Meaning(s, i) = RunItem(s, i)
  BY <1>1 DEF Meaning
<1>3. CASE Binding(s, n).kind = "fn"
  <2>1. n \in Names
    BY <1>3 DEF Binding, Nothing
  <2>2. RunItem(s, i) = Done(s, Number(Binding(s, n).val))
    BY <1>1, <1>3, <2>1 DEF RunItem
  <2>3. QED
    BY <1>2, <1>3, <2>2 DEF i
<1>4. CASE Binding(s, n).kind # "fn" /\ n \notin Names
  <2>1. RunItem(s, i) = Done(s, Ok("builtin", 0))
    BY <1>1, <1>4 DEF RunItem
  <2>2. QED
    BY <1>2, <1>4, <2>1 DEF i
<1>5. CASE Binding(s, n).kind # "fn" /\ n \in Names
  <2>1. RunItem(s, i) = Done(s, Err("undefined"))
    BY <1>1, <1>5 DEF RunItem
  <2>2. QED
    BY <1>2, <1>5, <2>1 DEF i
<1>6. QED
  BY <1>3, <1>4, <1>5

LEMMA ZeroIsInt == 0 \in Int
OBVIOUS

(* Looking up a builtin: nothing changes and nothing fails.                *)
LEMMA BuiltinLooksUp ==
  ASSUME NEW s, Whole(s), NEW n \in {"tick", "builtin"}
  PROVE  LET o == VmAtom(s, "symbol", n, 0)
         IN /\ Kept(s, o)
            /\ Interpreted(o.st) => /\ ~Failed(o) /\ o.st.binding = s.binding
                                    /\ o.st.effects = s.effects
<1> DEFINE i == Atom("symbol", n, 0)
           o == VmAtom(s, "symbol", n, 0)
<1>1. i \in Item /\ i.op = "symbol"
  <2>1. n \in Names \cup {"", "tick", "builtin"}
    OBVIOUS
  <2>2. i \in Item
    BY <2>1, ZeroIsInt, AtomItem
  <2>3. QED
    BY <2>2 DEF Atom
<1>2. o = VmBy(s, <<i>>, TreeAtom)
  BY DEF VmAtom, Atom
<1>3. n \notin Names
  BY NamesAssumption
<1>4. Binding(s, n).kind = "unbound"
  BY <1>3 DEF Binding, Nothing
<1>5. Meaning(s, i) = Done(s, Ok("builtin", 0))
  BY <1>3, <1>4, SymbolMeans
<1> HIDE DEF i, o
<1>6. Sound(s, i, o)
  BY <1>1, <1>2, VmAtomSound
<1>7. Meaning(s, i).st = s /\ ~Failed(Meaning(s, i))
  BY <1>5, DoneParts, Results
<1>8. QED
  BY <1>6, <1>7 DEF Sound, Agrees, o

-----------------------------------------------------------------------------
(* The tree-walker on one item, and vm_eval around it.                     *)
LEMMA TreeItemIs ==
  ASSUME NEW s, NEW i
  PROVE  LET b == Binding(s, i.name)
         IN /\ i.op = "tick" =>
                 TreeItem(s, <<i>>) = Then(VmAtom(s, "symbol", "tick", 0),
                                           Ticked(VmAtom(s, "symbol", "tick", 0).st), Nil)
            /\ i.op = "define" =>
                 TreeItem(s, <<i>>) = Then(VmAtom(s, "symbol", "builtin", 0),
                                           Bound(VmAtom(s, "symbol", "builtin", 0).st,
                                                 i.name, "fn", i.val),
                                           Number(i.val))
            /\ i.op = "call" /\ b.kind # "macro" =>
                 TreeItem(s, <<i>>) = Then(VmAtom(s, "symbol", i.name, 0),
                                           VmAtom(s, "symbol", i.name, 0).st, Number(b.val))
            /\ i.op = "call" /\ b.kind = "macro" =>
                 TreeItem(s, <<i>>) = VmAtom(s, "const", "", b.val)
            /\ i.op \in {"const", "float", "symbol"} => TreeItem(s, <<i>>) = TreeAtom(s, <<i>>)
            /\ i.op = "defmacro" =>
                 TreeItem(s, <<i>>) =
                   Done([Bound(s, i.name, "macro", i.val) EXCEPT !.unseen = TRUE], Nil)
<1>1. <<i>>[1] = i
  OBVIOUS
<1> DEFINE f == <<i>>
<1> HIDE DEF f
<1>2. f[1] = i
  BY <1>1 DEF f
<1>3. i.op = "tick" =>
        TreeItem(s, f) = Then(VmAtom(s, "symbol", "tick", 0),
                              Ticked(VmAtom(s, "symbol", "tick", 0).st), Nil)
  BY <1>2 DEF TreeItem
<1>4. i.op = "define" =>
        TreeItem(s, f) = Then(VmAtom(s, "symbol", "builtin", 0),
                              Bound(VmAtom(s, "symbol", "builtin", 0).st, i.name, "fn", i.val),
                              Number(i.val))
  BY <1>2 DEF TreeItem
<1>5. i.op = "call" /\ Binding(s, i.name).kind # "macro" =>
        TreeItem(s, f) = Then(VmAtom(s, "symbol", i.name, 0),
                              VmAtom(s, "symbol", i.name, 0).st, Number(Binding(s, i.name).val))
  BY <1>2 DEF TreeItem
<1>6. i.op = "call" /\ Binding(s, i.name).kind = "macro" =>
        TreeItem(s, f) = VmAtom(s, "const", "", Binding(s, i.name).val)
  BY <1>2 DEF TreeItem
<1>7. i.op \in {"const", "float", "symbol"} => TreeItem(s, f) = TreeAtom(s, f)
  BY <1>2 DEF TreeItem
<1>8. i.op = "defmacro" =>
        TreeItem(s, f) = Done([Bound(s, i.name, "macro", i.val) EXCEPT !.unseen = TRUE], Nil)
  BY <1>2 DEF TreeItem
<1>9. QED
  BY <1>3, <1>4, <1>5, <1>6, <1>7, <1>8 DEF f

LEMMA MacroKeeps ==
  ASSUME NEW s, Whole(s), NEW n \in MacroNames, NEW v \in Int
  PROVE  LET t == [Bound(s, n, "macro", v) EXCEPT !.unseen = TRUE]
         IN /\ Whole(t) /\ (Owned(t) <=> Owned(s)) /\ (Interpreted(t) <=> Interpreted(s))
            /\ t.binding = [s.binding EXCEPT ![n] = [kind |-> "macro", val |-> v]]
            /\ t.effects = s.effects
<1> DEFINE u == Bound(s, n, "macro", v)
           t == [u EXCEPT !.unseen = TRUE]
<1>1. n \in Names
  BY DEF MacroNames
<1>2. Shape(s)
  BY DEF Whole
<1>3. /\ Shape(u) /\ u.effects = s.effects
      /\ u.binding = [s.binding EXCEPT ![n] = [kind |-> "macro", val |-> v]]
  BY <1>1, <1>2, BoundShape
<1>4. /\ u.compilable = s.compilable /\ u.chunks = s.chunks /\ u.jit = s.jit
      /\ u.nextId = s.nextId
  BY <1>2 DEF Bound, Shape, Fields
<1> HIDE DEF u
<1>5. /\ DOMAIN t = Fields /\ t.binding = u.binding /\ t.effects = u.effects
      /\ t.compilable = s.compilable /\ t.chunks = s.chunks /\ t.jit = s.jit
      /\ t.nextId = s.nextId /\ t.unseen = TRUE
  BY <1>3, <1>4 DEF Shape, Fields
<1> HIDE DEF t
<1>6. Shape(t)
  BY <1>2, <1>3, <1>5 DEF Shape
<1>7. Counters(t)
  BY <1>5 DEF Whole, Counters
<1>8. Caches(t)
  BY <1>5 DEF Whole, Caches
<1>9. (Owned(t) <=> Owned(s)) /\ (Interpreted(t) <=> Interpreted(s))
  BY <1>5 DEF Owned, Interpreted, Entry
<1>10. QED
  BY <1>3, <1>5, <1>6, <1>7, <1>8, <1>9 DEF Whole, t, u

LEMMA ItemSound ==
  ASSUME NEW s, Whole(s), NEW i \in Item
  PROVE  Sound(s, i, TreeItem(s, <<i>>))
<1> DEFINE o == TreeItem(s, <<i>>)
           b == Binding(s, i.name)
           m == Meaning(s, i)
<1>1. /\ i.op \in Ops /\ i.val \in Int
      /\ i.op \in {"call", "define", "defmacro"} => i.name \in Names
      /\ i.op = "defmacro" => i.name \in MacroNames
  BY DEF Item, Items
<1>2. CASE i.op \in {"const", "float", "symbol"}
  <2>1. o = TreeAtom(s, <<i>>)
    BY <1>2, TreeItemIs
  <2>2. TreeAtom(s, <<i>>) = m /\ Kept(s, TreeAtom(s, <<i>>))
    BY <1>2, AtomMeans
  <2>3. o = m /\ Kept(s, o)
    BY <2>1, <2>2
  <2> HIDE DEF o, m
  <2>4. QED
    BY <2>3 DEF Sound, Agrees, o, m
<1>3. CASE i.op = "tick"
  <2> DEFINE h == VmAtom(s, "symbol", "tick", 0)
  <2>1. o = Then(h, Ticked(h.st), Nil)
    BY <1>3, TreeItemIs
  <2>2. /\ Kept(s, h)
        /\ Interpreted(h.st) => /\ ~Failed(h) /\ h.st.binding = s.binding
                                /\ h.st.effects = s.effects
    BY BuiltinLooksUp
  <2>3. m = Done(Ticked(s), Nil)
    BY <1>3 DEF Meaning, RunItem
  <2> HIDE DEF h, o, m
  <2>4. /\ Whole(Ticked(h.st)) /\ (Owned(h.st) => Owned(Ticked(h.st)))
        /\ (Interpreted(Ticked(h.st)) => Interpreted(h.st))
        /\ Ticked(h.st).effects = h.st.effects + 1 /\ Ticked(h.st).binding = h.st.binding
    BY <2>2, TickKeeps DEF Kept
  <2>5. Ticked(s).effects = s.effects + 1 /\ Ticked(s).binding = s.binding
    BY TickKeeps
  <2>6. m.st = Ticked(s) /\ m.res = Nil /\ ~Failed(m)
    BY <2>3, DoneParts, Results
  <2>7. CASE Failed(h)
    <3>1. o = h
      BY <2>1, <2>7 DEF Then
    <3>2. QED
      BY <2>2, <2>7, <3>1 DEF Sound, o
  <2>8. CASE ~Failed(h)
    <3>1. o = Done(Ticked(h.st), Nil)
      BY <2>1, <2>8 DEF Then
    <3>2. o.st = Ticked(h.st) /\ o.res = Nil /\ ~Failed(o)
      BY <3>1, DoneParts, Results
    <3>3. Kept(s, o)
      BY <2>2, <2>4, <3>2 DEF Kept
    <3>4. Interpreted(o.st) => Agrees(o, m, i)
      BY <2>2, <2>4, <2>5, <2>6, <3>2 DEF Agrees
    <3>5. QED
      BY <3>3, <3>4 DEF Sound, o, m
  <2>9. QED
    BY <2>7, <2>8
<1>4. CASE i.op = "define"
  <2> DEFINE h == VmAtom(s, "symbol", "builtin", 0)
             u == Bound(h.st, i.name, "fn", i.val)
             v == Bound(s, i.name, "fn", i.val)
  <2>1. o = Then(h, u, Number(i.val))
    BY <1>4, TreeItemIs
  <2>2. /\ Kept(s, h)
        /\ Interpreted(h.st) => /\ ~Failed(h) /\ h.st.binding = s.binding
                                /\ h.st.effects = s.effects
    BY BuiltinLooksUp
  <2>3. m = Done(v, Nil)
    BY <1>4 DEF Meaning, RunItem
  <2> HIDE DEF h, o, m
  <2>4. i.name \in Names /\ i.val \in Int /\ Whole(h.st)
    BY <1>1, <1>4, <2>2 DEF Kept
  <2>5. /\ Kept(h.st, Done(u, Nil)) /\ u.effects = h.st.effects
        /\ u.binding = [h.st.binding EXCEPT ![i.name] = [kind |-> "fn", val |-> i.val]]
    BY <2>4, BindingKeeps
  <2>6. /\ v.effects = s.effects
        /\ v.binding = [s.binding EXCEPT ![i.name] = [kind |-> "fn", val |-> i.val]]
    BY <2>4, BindingKeeps
  <2> HIDE DEF u, v
  <2>7. m.st = v /\ m.res = Nil /\ ~Failed(m)
    BY <2>3, DoneParts, Results
  <2>8. CASE Failed(h)
    <3>1. o = h
      BY <2>1, <2>8 DEF Then
    <3>2. QED
      BY <2>2, <2>8, <3>1 DEF Sound, o
  <2>9. CASE ~Failed(h)
    <3>1. o = Done(u, Number(i.val))
      BY <2>1, <2>9 DEF Then
    <3>2. o.st = u /\ ~Failed(o)
      BY <3>1, DoneParts, Results
    <3>3. Done(u, Nil).st = u
      BY DoneParts
    <3>4. Kept(s, o) /\ (Interpreted(o.st) => Interpreted(h.st))
      BY <2>2, <2>5, <3>2, <3>3 DEF Kept
    <3>5. Interpreted(o.st) => Agrees(o, m, i)
      BY <1>4, <2>2, <2>5, <2>6, <2>7, <3>2, <3>4 DEF Agrees
    <3>6. QED
      BY <3>4, <3>5 DEF Sound, o, m
  <2>10. QED
    BY <2>8, <2>9
<1>5. CASE i.op = "defmacro"
  <2> DEFINE u == [Bound(s, i.name, "macro", i.val) EXCEPT !.unseen = TRUE]
             v == Bound(s, i.name, "macro", i.val)
  <2>1. o = Done(u, Nil)
    BY <1>5, TreeItemIs
  <2>2. m = Done(v, Nil)
    BY <1>5 DEF Meaning
  <2>3. i.name \in MacroNames /\ i.name \in Names /\ i.val \in Int /\ Shape(s)
    BY <1>1, <1>5 DEF Whole
  <2>4. /\ Whole(u) /\ (Owned(u) <=> Owned(s)) /\ (Interpreted(u) <=> Interpreted(s))
        /\ u.binding = [s.binding EXCEPT ![i.name] = [kind |-> "macro", val |-> i.val]]
        /\ u.effects = s.effects
    BY <2>3, MacroKeeps
  <2>5. /\ v.effects = s.effects
        /\ v.binding = [s.binding EXCEPT ![i.name] = [kind |-> "macro", val |-> i.val]]
    BY <2>3, BoundShape
  <2> HIDE DEF u, v, o, m
  <2>6. o.st = u /\ m.st = v /\ o.res = Nil /\ m.res = Nil
    BY <2>1, <2>2, DoneParts
  <2>7. Kept(s, o)
    BY <2>4, <2>6 DEF Kept
  <2>8. Agrees(o, m, i)
    BY <2>4, <2>5, <2>6 DEF Agrees, Failed
  <2>9. QED
    BY <2>7, <2>8 DEF Sound, o, m
<1>6. CASE i.op = "call" /\ b.kind = "macro"
  <2> DEFINE a == Atom("const", "", b.val)
  <2>1. o = VmAtom(s, "const", "", b.val)
    BY <1>6, TreeItemIs
  <2>2. i.name \in Names /\ b.val \in Int
    BY <1>1, <1>6 DEF Binding, Whole, Shape, Bindings
  <2>3. a \in Item /\ a.op = "const" /\ a.val = b.val
    BY <2>2, AtomItem DEF Atom
  <2>4. o = VmBy(s, <<a>>, TreeAtom)
    BY <2>1 DEF VmAtom, Atom
  <2>5. m = Done(s, Number(b.val))
    BY <1>6 DEF Meaning
  <2>6. Meaning(s, a) = Done(s, Number(b.val))
    BY <2>3 DEF Meaning, RunItem
  <2> HIDE DEF a, o, m
  <2>7. Sound(s, a, o)
    BY <2>3, <2>4, VmAtomSound
  <2>8. m = Meaning(s, a)
    BY <2>5, <2>6
  <2>9. Kept(s, o) /\ (Interpreted(o.st) => Agrees(o, m, i))
    BY <2>3, <2>7, <2>8 DEF Sound, Agrees
  <2>10. QED
    BY <2>9 DEF Sound, o, m
<1>7. CASE i.op = "call" /\ b.kind # "macro"
  <2> DEFINE a == Atom("symbol", i.name, 0)
             h == VmAtom(s, "symbol", i.name, 0)
             p == Meaning(s, a)
  <2>1. o = Then(h, h.st, Number(b.val))
    BY <1>7, TreeItemIs
  <2>2. i.name \in Names /\ 0 \in Int
    BY <1>1, <1>7
  <2>3. a \in Item
    BY <2>2, AtomItem
  <2>4. a.op = "symbol"
    BY DEF Atom
  <2>5. h = VmBy(s, <<a>>, TreeAtom)
    BY DEF VmAtom, Atom
  <2>6. p = IF b.kind = "fn" THEN Done(s, Number(b.val)) ELSE Done(s, Err("undefined"))
    BY <1>7, <2>2, SymbolMeans
  <2>7. m = IF b.kind = "fn" THEN Done(s, Number(b.val)) ELSE Done(s, Err("undefined"))
    BY <1>7 DEF Meaning, RunItem
  <2> HIDE DEF a, h, o, p, m
  <2>8. Sound(s, a, h)
    BY <2>3, <2>4, <2>5, VmAtomSound
  <2>9. Kept(s, h) /\ (Interpreted(h.st) => Agrees(h, m, a))
    BY <2>6, <2>7, <2>8 DEF Sound, p
  <2>10. m.st = s /\ (Failed(m) <=> b.kind # "fn") /\ (b.kind = "fn" => m.res = Number(b.val))
    BY <2>7, DoneParts, Results
  <2>11. CASE Failed(h)
    <3>1. o = h
      BY <2>1, <2>11 DEF Then
    <3>2. Kept(s, o) /\ (Interpreted(o.st) => Agrees(o, m, i))
      BY <2>4, <2>9, <3>1 DEF Agrees
    <3>3. QED
      BY <3>2 DEF Sound, o, m
  <2>12. CASE ~Failed(h)
    <3>1. o = Done(h.st, Number(b.val))
      BY <2>1, <2>12 DEF Then
    <3>2. o.st = h.st /\ o.res = Number(b.val) /\ ~Failed(o)
      BY <3>1, DoneParts, Results
    <3>3. Kept(s, o)
      BY <2>9, <3>2 DEF Kept
    <3>4. Interpreted(o.st) => Agrees(o, m, i)
      BY <2>9, <2>10, <2>12, <3>2 DEF Agrees
    <3>5. QED
      BY <3>3, <3>4 DEF Sound, o, m
  <2>13. QED
    BY <2>11, <2>12
<1>8. QED
  BY <1>1, <1>2, <1>3, <1>4, <1>5, <1>6, <1>7 DEF Ops

LEMMA VmItemAnswers ==
  ASSUME NEW s, NEW i
  PROVE  VmItem(s, i) = Answer(s, <<i>>, TreeItem(Checked(s, <<i>>), <<i>>),
                                         TreeItem(Ran(s, <<i>>).st, <<i>>))
BY DEF VmItem, VmBy, Answer, Ran

LEMMA VmItemSound ==
  ASSUME NEW s, Whole(s), NEW i \in Item
  PROVE  Sound(s, i, VmItem(s, i))
<1> DEFINE c == Checked(s, <<i>>)
           u == Ran(s, <<i>>).st
<1>1. <<i>> \in AnyForm
  BY SingleForm
<1>2. (~c.compilable[Key(<<i>>)] => Whole(c)) /\ (c.compilable[Key(<<i>>)] => Whole(u))
  BY <1>1, TakesOver
<1>3. VmItem(s, i) = Answer(s, <<i>>, TreeItem(c, <<i>>), TreeItem(u, <<i>>))
  BY VmItemAnswers
<1>4. ASSUME NEW t, Whole(t) PROVE Sound(t, i, TreeItem(t, <<i>>))
  BY <1>4, ItemSound
<1>5. QED
  BY <1>2, <1>3, <1>4, AnswerSound

-----------------------------------------------------------------------------
(* A form, item by item.                                                   *)
LEMMA FrontItems ==
  ASSUME NEW f \in AnyForm, NEW N \in Nat, N = Len(f)
  PROVE  /\ DOMAIN Front(f) = 1..(N - 1)
         /\ \A k \in 1..(N - 1) : Front(f)[k] = f[k]
         /\ Last(f) = f[N]
<1>1. f \in Seq(Item) /\ Front(f) = SubSeq(f, 1, N - 1)
  BY DEF AnyForm, Front
<1>2. N - 1 \in 0..N /\ 1 \in 1..(N + 1)
  BY FormItems
<1>3. /\ Len(Front(f)) = N - 1 /\ Front(f) \in Seq(Item)
      /\ \A k \in 1..(N - 1) : Front(f)[k] = f[k]
  BY <1>1, <1>2
<1>4. QED
  BY <1>3 DEF Last

(* Once an item has failed, nothing more happens.                          *)
Stops(t, N) == \A k \in 1..N : Failed(t[k - 1]) => t[k] = t[k - 1]

LEMMA StopsThere ==
  ASSUME NEW N \in Nat, NEW t, Stops(t, N)
  PROVE  \A k \in 0..N : Failed(t[k]) => t[N] = t[k]
<1> DEFINE D == {k \in 0..N : Failed(t[N - k]) => t[N] = t[N - k]}
<1>1. 0 \in D
  OBVIOUS
<1>2. ASSUME NEW k \in 0..(N - 1), k \in D PROVE k + 1 \in D
  <2>1. N - k \in 1..N /\ (N - k) - 1 = N - (k + 1) /\ k + 1 \in 0..N
    OBVIOUS
  <2>2. Failed(t[N - (k + 1)]) => t[N - k] = t[N - (k + 1)]
    BY <2>1 DEF Stops
  <2>3. Failed(t[N - k]) => t[N] = t[N - k]
    BY <1>2
  <2>4. QED
    BY <2>1, <2>2, <2>3
<1> HIDE DEF D
<1>3. 0..N \subseteq D
  BY <1>1, <1>2, Running!RangeInduces
<1>4. ASSUME NEW k \in 0..N PROVE Failed(t[k]) => t[N] = t[k]
  <2>1. N - k \in 0..N /\ N - (N - k) = k
    OBVIOUS
  <2>2. N - k \in D
    BY <1>3, <2>1
  <2>3. QED
    BY <2>1, <2>2 DEF D
<1>5. QED
  BY <1>4

(* The outcomes of a form's items, one after the other.                    *)
Follows(t, f, N) ==
  /\ Stops(t, N)
  /\ \A k \in 1..N : ~Failed(t[k - 1]) => Agrees(t[k], Meaning(t[k - 1].st, f[k]), f[k])

LEMMA TreeTrace ==
  ASSUME NEW s, Whole(s), NEW f \in AnyForm, NEW N \in Nat, N = Len(f)
  PROVE  \E t : /\ t[0] = Done(s, Nil) /\ t[N] = TreeForm(s, f)
                /\ \A k \in 0..N : Kept(s, t[k])
                /\ Interpreted(t[N].st) => Follows(t, f, N)
<1>1. N \in Nat \ {0} /\ \A k \in 1..N : f[k] \in Item
  BY FormItems
<1>2. N - 1 \in Nat /\ DOMAIN Front(f) = 1..(N - 1)
  BY <1>1, FrontItems
<1>3. PICK w : /\ DOMAIN w = 0..(N - 1)
               /\ w[0] = Done(s, Nil)
               /\ \A k \in 1..(N - 1) : w[k] = VmStep(w[k - 1], Front(f)[k])
               /\ w[N - 1] = InOrder(s, Front(f), VmItem)
  BY <1>2, WalkTrace
<1> DEFINE end == IF Failed(w[N - 1]) THEN w[N - 1] ELSE TreeItem(w[N - 1].st, <<f[N]>>)
           t == [k \in 0..N |-> IF k = N THEN end ELSE w[k]]
<1>4. end = TreeForm(s, f)
  BY <1>3, FrontItems DEF TreeForm, Trampolined
<1> HIDE DEF end
<1>5. t[N] = end /\ \A k \in 0..(N - 1) : t[k] = w[k]
  BY <1>1
<1> HIDE DEF t
<1>6. t[0] = Done(s, Nil)
  BY <1>1, <1>3, <1>5
<1>7. ASSUME NEW k \in 1..N
      PROVE  IF Failed(t[k - 1]) THEN t[k] = t[k - 1]
             ELSE Whole(t[k - 1].st) => Sound(t[k - 1].st, f[k], t[k])
  <2>1. CASE k = N
    <3>1. t[k - 1] = w[N - 1]
      BY <1>1, <1>5, <2>1
    <3>2. Whole(w[N - 1].st) => Sound(w[N - 1].st, f[N], TreeItem(w[N - 1].st, <<f[N]>>))
      BY <1>1, ItemSound
    <3>3. QED
      BY <1>5, <2>1, <3>1, <3>2 DEF end
  <2>2. CASE k # N
    <3>1. k \in 1..(N - 1) /\ t[k] = w[k] /\ t[k - 1] = w[k - 1]
      BY <1>5, <2>2
    <3>2. w[k] = VmStep(w[k - 1], f[k])
      BY <1>3, <3>1, FrontItems
    <3>3. Whole(w[k - 1].st) => Sound(w[k - 1].st, f[k], VmItem(w[k - 1].st, f[k]))
      BY <1>1, VmItemSound
    <3>4. QED
      BY <3>1, <3>2, <3>3 DEF VmStep
  <2>3. QED
    BY <2>1, <2>2
<1>8. \A k \in 1..N : Whole(t[k - 1].st) => Kept(t[k - 1].st, t[k])
  BY <1>7 DEF Sound, Kept
<1>9. /\ \A k \in 0..N : Kept(s, t[k])
      /\ Interpreted(t[N].st) => \A k \in 0..N : Interpreted(t[k].st)
  BY <1>6, <1>8, TraceKeeps
<1>10. ASSUME Interpreted(t[N].st) PROVE Follows(t, f, N)
  <2>1. \A k \in 1..N : k - 1 \in 0..N /\ k \in 0..N
    OBVIOUS
  <2>2. \A k \in 1..N : Whole(t[k - 1].st) /\ Interpreted(t[k].st)
    BY <1>9, <1>10, <2>1 DEF Kept
  <2>3. QED
    BY <1>7, <2>2 DEF Follows, Stops, Sound
<1>11. QED
  BY <1>4, <1>5, <1>6, <1>9, <1>10

(* What outcomes do that are as the items mean: they stay in step with the *)
(* meaning.                                                                *)
Means(m, f, N) == \A k \in 1..N : m[k] = MeaningStep(m[k - 1], f[k])

Alike(o, p) ==
  /\ o.st.binding = p.st.binding
  /\ Failed(o) <=> Failed(p)
  /\ Failed(o) => o.res = p.res

LEMMA MeansStays ==
  ASSUME NEW N \in Nat, NEW m, NEW f, Means(m, f, N), Shape(m[0].st),
         \A k \in 1..N : f[k] \in Item
  PROVE  \A k \in 0..N : Shape(m[k].st)
<1> DEFINE S == {k \in 0..N : Shape(m[k].st)}
<1>1. 0 \in S
  OBVIOUS
<1>2. ASSUME NEW k \in 0..(N - 1), k \in S PROVE k + 1 \in S
  <2>1. k + 1 \in 1..N /\ (k + 1) - 1 = k /\ k + 1 \in 0..N
    OBVIOUS
  <2>2. m[k + 1] = MeaningStep(m[k], f[k + 1]) /\ f[k + 1] \in Item
    BY <2>1 DEF Means
  <2>3. Shape(m[k].st)
    BY <1>2
  <2>4. MeansFrom(m[k].st, f[k + 1], Meaning(m[k].st, f[k + 1]))
    BY <2>2, <2>3, MeantAlike
  <2>5. Shape(m[k + 1].st)
    BY <2>2, <2>3, <2>4 DEF MeaningStep, MeansFrom
  <2>6. QED
    BY <2>1, <2>5
<1> HIDE DEF S
<1>3. 0..N \subseteq S
  BY <1>1, <1>2, Running!RangeInduces
<1>4. QED
  BY <1>3 DEF S

Same(o, p) ==
  /\ Shown(o.res) = Shown(p.res)
  /\ ~o.st.mixed => o.res = p.res

Abreast(o, p, q, r, i) ==
  /\ Alike(q, r)
  /\ q.st.effects - o.st.effects = r.st.effects - p.st.effects
  /\ i.op # "define" => Same(q, r)

LEMMA OneStepAlike ==
  ASSUME NEW o, NEW p, NEW q, NEW r, NEW i \in Item, Shape(o.st), Shape(p.st), Alike(o, p),
         Failed(o) => q = o, ~Failed(o) => Agrees(q, Meaning(o.st, i), i),
         r = MeaningStep(p, i)
  PROVE  Abreast(o, p, q, r, i)
<1>1. CASE Failed(o)
  BY <1>1 DEF Abreast, Alike, Same, MeaningStep, Shape
<1>2. CASE ~Failed(o)
  <2> DEFINE m == Meaning(o.st, i)
             n == Meaning(p.st, i)
  <2>1. r = n
    BY <1>2 DEF MeaningStep, Alike
  <2>2. o.st.binding = p.st.binding
    BY DEF Alike
  <2>3. /\ m.st.binding = n.st.binding /\ m.res = n.res
        /\ MeansFrom(o.st, i, m) /\ MeansFrom(p.st, i, n)
    BY <2>2, MeantAlike
  <2>4. Agrees(q, m, i)
    BY <1>2
  <2> HIDE DEF m, n
  <2>5. (Failed(m) <=> Failed(n)) /\ (Failed(n) => i.op # "define")
    BY <2>3 DEF Failed, MeansFrom
  <2>6. Alike(q, r) /\ (i.op # "define" => Same(q, r))
    <3>1. i.op # "define" => Same(q, r)
      BY <2>1, <2>3, <2>4 DEF Agrees, Same
    <3>2. Failed(q) <=> Failed(r)
      BY <2>1, <2>4, <2>5 DEF Agrees
    <3>3. Failed(q) => q.res = r.res
      BY <2>1, <2>5, <3>1, <3>2, ShownFails DEF Same
    <3>4. q.st.binding = r.st.binding
      BY <2>1, <2>3, <2>4 DEF Agrees
    <3>5. QED
      BY <3>1, <3>2, <3>3, <3>4 DEF Alike
  <2>7. /\ q.st.effects = o.st.effects + Ticks(i)
        /\ r.st.effects = p.st.effects + Ticks(i)
    BY <2>1, <2>3, <2>4 DEF Agrees, MeansFrom
  <2>8. o.st.effects \in Nat /\ p.st.effects \in Nat /\ Ticks(i) \in Nat
    BY DEF Shape, Ticks
  <2>9. QED
    BY <2>6, <2>7, <2>8 DEF Abreast
<1>3. QED
  BY <1>1, <1>2

LEMMA InStep ==
  ASSUME NEW N \in Nat, NEW j \in 0..N, NEW t, NEW m, NEW f,
         \A k \in 1..N : f[k] \in Item,
         Follows(t, f, N), Means(m, f, N),
         \A k \in 0..N : Shape(t[k].st) /\ Shape(m[k].st),
         Alike(t[j], m[j])
  PROVE  \A k \in j..N :
           /\ Alike(t[k], m[k])
           /\ t[k].st.effects - t[j].st.effects = m[k].st.effects - m[j].st.effects
           /\ k > j /\ f[k].op # "define" => Same(t[k], m[k])
<1> DEFINE P(k) == /\ Alike(t[k], m[k])
                   /\ t[k].st.effects - t[j].st.effects = m[k].st.effects - m[j].st.effects
                   /\ k > j /\ f[k].op # "define" => Same(t[k], m[k])
           S == {k \in 0..N : k >= j => P(k)}
<1>1. t[j].st.effects \in Nat /\ m[j].st.effects \in Nat
  BY DEF Shape
<1>2. P(j)
  BY <1>1
<1>3. ASSUME NEW k \in 0..(N - 1), k >= j, P(k) PROVE P(k + 1)
  <2>1. k + 1 \in 1..N /\ (k + 1) - 1 = k /\ k \in 0..N /\ k + 1 \in 0..N
    OBVIOUS
  <2>2. m[k + 1] = MeaningStep(m[k], f[k + 1]) /\ f[k + 1] \in Item
    BY <2>1 DEF Means
  <2>3. /\ Failed(t[k]) => t[k + 1] = t[k]
        /\ ~Failed(t[k]) => Agrees(t[k + 1], Meaning(t[k].st, f[k + 1]), f[k + 1])
    BY <2>1 DEF Follows, Stops
  <2>4. Shape(t[k].st) /\ Shape(m[k].st) /\ Shape(t[k + 1].st) /\ Shape(m[k + 1].st)
    BY <2>1
  <2>5. Alike(t[k], m[k])
    BY <1>3
  <2>6. /\ Alike(t[k + 1], m[k + 1])
        /\ t[k + 1].st.effects - t[k].st.effects = m[k + 1].st.effects - m[k].st.effects
        /\ f[k + 1].op # "define" => Same(t[k + 1], m[k + 1])
    <3> DEFINE o == t[k]
               p == m[k]
               q == t[k + 1]
               r == m[k + 1]
               i == f[k + 1]
    <3>1. /\ i \in Item /\ Shape(o.st) /\ Shape(p.st) /\ Alike(o, p)
          /\ (Failed(o) => q = o) /\ (~Failed(o) => Agrees(q, Meaning(o.st, i), i))
          /\ r = MeaningStep(p, i)
      BY <2>2, <2>3, <2>4, <2>5
    <3> HIDE DEF o, p, q, r, i, S, P
    <3>2. Abreast(o, p, q, r, i)
      BY <3>1, OneStepAlike
    <3>3. QED
      BY <3>2 DEF Abreast, o, p, q, r, i
  <2>7. t[k + 1].st.effects - t[j].st.effects = m[k + 1].st.effects - m[j].st.effects
    <3>1. /\ t[k].st.effects \in Nat /\ m[k].st.effects \in Nat
          /\ t[k + 1].st.effects \in Nat /\ m[k + 1].st.effects \in Nat
      BY <2>4 DEF Shape
    <3>2. t[k].st.effects - t[j].st.effects = m[k].st.effects - m[j].st.effects
      BY <1>3
    <3>3. QED
      BY <1>1, <2>6, <3>1, <3>2
  <2>8. QED
    BY <2>6, <2>7
<1> HIDE DEF P
<1>4. 0 \in S
  <2>1. 0 >= j => 0 = j
    OBVIOUS
  <2>2. QED
    BY <1>2, <2>1
<1>5. ASSUME NEW k \in 0..(N - 1), k \in S PROVE k + 1 \in S
  <2>1. CASE k >= j
    <3>1. P(k)
      BY <1>5, <2>1
    <3>2. P(k + 1)
      BY <1>3, <2>1, <3>1
    <3>3. QED
      BY <3>2
  <2>2. CASE ~(k >= j)
    <3>1. k + 1 >= j => k + 1 = j
      BY <2>2
    <3>2. QED
      BY <1>2, <3>1
  <2>3. QED
    BY <2>1, <2>2
<1> HIDE DEF S
<1>6. 0..N \subseteq S
  BY <1>4, <1>5, Running!RangeInduces
<1>7. ASSUME NEW k \in j..N PROVE P(k)
  <2>1. k \in 0..N /\ k >= j
    OBVIOUS
  <2>2. k \in S
    BY <1>6, <2>1
  <2>3. QED
    BY <2>1, <2>2 DEF S
<1>8. QED
  BY <1>7 DEF P

(* Bytecode that is not refused does what its items mean.                  *)
Runs(r, f, N) == \A k \in 1..N : r[k] = RunStep(r[k - 1], f[k])

LEMMA RunsWhole ==
  ASSUME NEW N \in Nat, NEW r, NEW f, Runs(r, f, N), Whole(r[0].st), r[0] = Done(r[0].st, Nil),
         \A k \in 1..N : f[k] \in Item
  PROVE  Stops(r, N) /\ \A k \in 0..N : Whole(r[k].st)
<1>1. Stops(r, N)
  BY DEF Runs, Stops, RunStep
<1>2. ASSUME NEW k \in 1..N, Whole(r[k - 1].st) PROVE Kept(r[k - 1].st, r[k])
  <2>1. CASE Failed(r[k - 1])
    BY <1>1, <1>2, <2>1 DEF Stops, Kept
  <2>2. CASE ~Failed(r[k - 1])
    <3>1. r[k] = RunItem(r[k - 1].st, f[k])
      BY <2>2 DEF Runs, RunStep
    <3>2. QED
      BY <1>2, <3>1, RunItemKept
  <2>3. QED
    BY <2>1, <2>2
<1>3. \A k \in 0..N : Kept(r[0].st, r[k])
  BY <1>2, TraceKeeps
<1>4. QED
  BY <1>1, <1>3 DEF Kept

LEMMA RunFollows ==
  ASSUME NEW N \in Nat, NEW r, NEW f, Runs(r, f, N), Stops(r, N),
         \A k \in 0..N : Whole(r[k].st) /\ ~FallsBack(r[k]),
         \A k \in 1..N : f[k] \in Item /\ f[k].op # "defmacro"
  PROVE  Follows(r, f, N)
<1>1. ASSUME NEW k \in 1..N, ~Failed(r[k - 1])
      PROVE  Agrees(r[k], Meaning(r[k - 1].st, f[k]), f[k])
  <2>1. k - 1 \in 0..N /\ k \in 0..N
    OBVIOUS
  <2>2. r[k] = RunItem(r[k - 1].st, f[k])
    BY <1>1 DEF Runs, RunStep
  <2>3. Whole(r[k - 1].st) /\ ~FallsBack(r[k])
    BY <2>1
  <2>4. ~Refused(r[k - 1].st, f[k])
    BY <2>2, <2>3, RunItemEnds
  <2>5. r[k] = Meaning(r[k - 1].st, f[k])
    BY <2>2, <2>4, RunIsMeant
  <2>6. QED
    BY <2>5 DEF Agrees
<1>2. QED
  BY <1>1 DEF Follows

(* An item fails when the name it needs is unbound.                        *)
Known(s) == {n \in Names : s.binding[n].kind # "unbound"}
Needs(i) == IF i.op \in {"call", "symbol"} THEN {i.name} \cap Names ELSE {}

LEMMA FailsUnknown ==
  ASSUME NEW s, Shape(s), NEW i \in Item
  PROVE  /\ Failed(Meaning(s, i)) <=> ~(Needs(i) \subseteq Known(s))
         /\ Known(s) \subseteq Known(Meaning(s, i).st)
<1> DEFINE m == Meaning(s, i)
           b == Binding(s, i.name)
<1>1. /\ i.op \in Ops /\ (i.op \in {"call", "define", "defmacro"} => i.name \in Names)
  BY DEF Item, Items
<1>2. MeansFrom(s, i, m)
  BY MeantAlike
<1>3. s.binding \in Bindings
  BY DEF Shape
<1>4. Known(s) \subseteq Known(m.st)
  <2>1. CASE i.op \notin {"define", "defmacro"}
    BY <1>2, <2>1 DEF MeansFrom, Known
  <2>2. CASE i.op = "define"
    <3>1. m.st.binding = [s.binding EXCEPT ![i.name] = [kind |-> "fn", val |-> i.val]]
      BY <1>2, <2>2 DEF MeansFrom
    <3> HIDE DEF m
    <3>2. QED
      BY <1>3, <3>1 DEF Known, Bindings
  <2>3. CASE i.op = "defmacro"
    <3>1. m.st.binding = [s.binding EXCEPT ![i.name] = [kind |-> "macro", val |-> i.val]]
      BY <1>2, <2>3 DEF MeansFrom
    <3> HIDE DEF m
    <3>2. QED
      BY <1>3, <3>1 DEF Known, Bindings
  <2>4. QED
    BY <2>1, <2>2, <2>3
<1>5. Failed(m) <=> ~(Needs(i) \subseteq Known(s))
  <2>1. CASE i.op \in {"call", "symbol"} /\ b.kind = "macro"
    <3>1. i.name \in Names /\ s.binding[i.name].kind = "macro"
      BY <2>1 DEF Binding, Nothing
    <3>2. \E k, v : m = Done(s, Ok(k, v))
      <4>1. CASE i.op = "call"
        <5>1. m = Done(s, Ok("int", b.val))
          BY <2>1, <4>1 DEF Meaning, Number
        <5>2. QED
          BY <5>1
      <4>2. CASE i.op = "symbol"
        <5>1. m = Done(s, Ok("macro", b.val))
          BY <2>1, <4>2 DEF Meaning
        <5>2. QED
          BY <5>1
      <4>3. QED
        BY <2>1, <4>1, <4>2
    <3> HIDE DEF m
    <3>3. ~Failed(m)
      BY <3>2, DoneParts, Results
    <3>4. Needs(i) \subseteq Known(s)
      BY <2>1, <3>1 DEF Needs, Known
    <3>5. QED
      BY <3>3, <3>4
  <2>2. CASE i.op \in {"call", "symbol"} /\ b.kind = "fn"
    <3>1. i.name \in Names /\ s.binding[i.name].kind = "fn"
      BY <2>2 DEF Binding, Nothing
    <3>2. m = Done(s, Number(b.val))
      BY <2>2, <3>1 DEF Meaning, RunItem
    <3> HIDE DEF m
    <3>3. ~Failed(m)
      BY <3>2, DoneParts, Results
    <3>4. Needs(i) \subseteq Known(s)
      BY <2>2, <3>1 DEF Needs, Known
    <3>5. QED
      BY <3>3, <3>4
  <2>3. CASE i.op \in {"call", "symbol"} /\ b.kind \notin {"fn", "macro"} /\ i.name \in Names
    <3>1. s.binding[i.name].kind = "unbound"
      BY <1>3, <2>3 DEF Binding, Bindings
    <3>2. m = Done(s, Err("undefined"))
      BY <2>3 DEF Meaning, RunItem
    <3> HIDE DEF m
    <3>3. Failed(m)
      BY <3>2, DoneParts, Results
    <3>4. ~(Needs(i) \subseteq Known(s))
      BY <2>3, <3>1 DEF Needs, Known
    <3>5. QED
      BY <3>3, <3>4
  <2>4. CASE i.op = "symbol" /\ i.name \notin Names
    <3>1. b.kind = "unbound"
      BY <2>4 DEF Binding, Nothing
    <3>2. m = Done(s, Ok("builtin", 0))
      BY <2>4, <3>1 DEF Meaning, RunItem
    <3> HIDE DEF m
    <3>3. ~Failed(m)
      BY <3>2, DoneParts, Results
    <3>4. Needs(i) \subseteq Known(s)
      BY <2>4 DEF Needs, Known
    <3>5. QED
      BY <3>3, <3>4
  <2>5. CASE i.op \in {"const", "float", "tick", "define", "defmacro"}
    <3>1. \E t, k, v : m = Done(t, Ok(k, v))
      <4>1. CASE i.op = "const"
        <5>1. m = Done(s, Ok("int", i.val))
          BY <4>1 DEF Meaning, RunItem, Number
        <5>2. QED
          BY <5>1
      <4>11. CASE i.op = "float"
        <5>1. m = Done(s, Ok("float", i.val))
          BY <4>11 DEF Meaning, RunItem
        <5>2. QED
          BY <5>1
      <4>2. CASE i.op = "tick"
        <5>1. m = Done(Ticked(s), Ok("nil", 0))
          BY <4>2 DEF Meaning, RunItem, Nil
        <5>2. QED
          BY <5>1
      <4>3. CASE i.op = "define"
        <5>1. m = Done(Bound(s, i.name, "fn", i.val), Ok("nil", 0))
          BY <4>3 DEF Meaning, RunItem, Nil
        <5>2. QED
          BY <5>1
      <4>4. CASE i.op = "defmacro"
        <5>1. m = Done(Bound(s, i.name, "macro", i.val), Ok("nil", 0))
          BY <4>4 DEF Meaning, Nil
        <5>2. QED
          BY <5>1
      <4>5. QED
        BY <2>5, <4>1, <4>11, <4>2, <4>3, <4>4
    <3> HIDE DEF m
    <3>2. ~Failed(m)
      BY <3>1, DoneParts, Results
    <3>3. Needs(i) = {}
      BY <2>5 DEF Needs
    <3>4. QED
      BY <3>2, <3>3
  <2>6. QED
    BY <1>1, <2>1, <2>2, <2>3, <2>4, <2>5 DEF Ops
<1>6. QED
  BY <1>4, <1>5

(* The items before one that is refused, done again over the bindings they *)
(* left: a name has the value it had, or the one it got later.             *)
LEMMA DoneAgain ==
  ASSUME NEW n \in Nat, NEW q, NEW m, NEW f,
         \A k \in 1..n : f[k] \in Item,
         Follows(q, f, n), Means(m, f, n),
         \A k \in 0..n : Shape(q[k].st) /\ Shape(m[k].st) /\ ~Failed(m[k]),
         ~Failed(q[0]), q[0].st.binding = m[n].st.binding
  PROVE  /\ Alike(q[n], m[n])
         /\ q[n].st.effects - q[0].st.effects = m[n].st.effects - m[0].st.effects
<1>1. \A k \in 0..n : Known(m[k].st) \subseteq Known(m[n].st)
  <2> DEFINE D == {k \in 0..n : Known(m[n - k].st) \subseteq Known(m[n].st)}
  <2>1. 0 \in D
    OBVIOUS
  <2>2. ASSUME NEW k \in 0..(n - 1), k \in D PROVE k + 1 \in D
    <3>1. /\ n - k \in 1..n /\ (n - k) - 1 = n - (k + 1)
          /\ n - (k + 1) \in 0..n /\ k + 1 \in 0..n
      OBVIOUS
    <3>2. /\ m[n - k] = MeaningStep(m[n - (k + 1)], f[n - k]) /\ f[n - k] \in Item
          /\ Shape(m[n - (k + 1)].st) /\ ~Failed(m[n - (k + 1)])
      BY <3>1 DEF Means
    <3>3. m[n - k] = Meaning(m[n - (k + 1)].st, f[n - k])
      BY <3>2 DEF MeaningStep
    <3>4. Known(m[n - (k + 1)].st) \subseteq Known(m[n - k].st)
      BY <3>2, <3>3, FailsUnknown
    <3>5. Known(m[n - k].st) \subseteq Known(m[n].st)
      BY <2>2
    <3>6. QED
      BY <3>1, <3>4, <3>5
  <2> HIDE DEF D
  <2>3. 0..n \subseteq D
    BY <2>1, <2>2, Running!RangeInduces
  <2>4. ASSUME NEW k \in 0..n PROVE Known(m[k].st) \subseteq Known(m[n].st)
    <3>1. n - k \in 0..n /\ n - (n - k) = k
      OBVIOUS
    <3>2. n - k \in D
      BY <2>3, <3>1
    <3>3. QED
      BY <3>1, <3>2 DEF D
  <2>5. QED
    BY <2>4
<1> DEFINE last == m[n].st.binding
           P(k) == /\ ~Failed(q[k])
                   /\ q[k].st.effects - q[0].st.effects = m[k].st.effects - m[0].st.effects
                   /\ \A x \in Names : \/ q[k].st.binding[x] = m[k].st.binding[x]
                                       \/ q[k].st.binding[x] = last[x]
           S == {k \in 0..n : P(k)}
<1>2. P(0)
  BY DEF Shape
<1>3. ASSUME NEW k \in 0..(n - 1), P(k) PROVE P(k + 1)
  <2> DEFINE i == f[k + 1]
             o == q[k]
             p == m[k]
             oo == q[k + 1]
             pp == m[k + 1]
             mo == Meaning(o.st, i)
  <2>1. k + 1 \in 1..n /\ (k + 1) - 1 = k /\ k \in 0..n /\ k + 1 \in 0..n
    OBVIOUS
  <2>2. /\ i \in Item /\ ~Failed(o) /\ ~Failed(p) /\ ~Failed(pp)
        /\ Shape(o.st) /\ Shape(p.st) /\ Shape(oo.st) /\ Shape(pp.st)
        /\ pp = MeaningStep(p, i)
    BY <1>3, <2>1 DEF Means
  <2>3. Agrees(oo, mo, i)
    BY <2>1, <2>2 DEF Follows
  <2>4. Known(p.st) \subseteq Known(m[n].st)
    BY <1>1, <2>1
  <2>5. o.st.effects - q[0].st.effects = p.st.effects - m[0].st.effects
    BY <1>3
  <2>6. \A x \in Names : o.st.binding[x] = p.st.binding[x] \/ o.st.binding[x] = last[x]
    BY <1>3
  <2>7. q[0].st.effects \in Nat /\ m[0].st.effects \in Nat
    BY DEF Shape
  <2>8. Known(p.st) \subseteq Known(o.st)
    BY <2>4, <2>6 DEF Known
  <2> HIDE DEF i, o, p, oo, pp, last
  <2>9. pp = Meaning(p.st, i)
    BY <2>2 DEF MeaningStep
  <2>10. MeansFrom(p.st, i, pp) /\ MeansFrom(o.st, i, mo)
    BY <2>2, <2>9, MeantAlike
  <2>11. Needs(i) \subseteq Known(p.st)
    BY <2>2, <2>9, FailsUnknown
  <2>12. ~Failed(mo)
    BY <2>2, <2>8, <2>11, FailsUnknown
  <2> HIDE DEF mo
  <2>13. ~Failed(oo) /\ oo.st.binding = mo.st.binding /\ oo.st.effects = mo.st.effects
    BY <2>3, <2>12 DEF Agrees
  <2>14. oo.st.effects - q[0].st.effects = pp.st.effects - m[0].st.effects
    <3>1. /\ oo.st.effects = o.st.effects + Ticks(i) /\ pp.st.effects = p.st.effects + Ticks(i)
          /\ Ticks(i) \in Nat /\ o.st.effects \in Nat /\ p.st.effects \in Nat
      BY <2>2, <2>10, <2>13 DEF MeansFrom, Ticks, Shape
    <3>2. QED
      BY <2>5, <2>7, <3>1
  <2>15. ASSUME NEW x \in Names
         PROVE  oo.st.binding[x] = pp.st.binding[x] \/ oo.st.binding[x] = last[x]
    <3>1. i.op \in Ops
      BY <2>2 DEF Item, Items
    <3>2. CASE i.op \notin {"define", "defmacro"}
      BY <2>6, <2>10, <2>13, <3>2 DEF MeansFrom
    <3>3. o.st.binding \in Bindings /\ p.st.binding \in Bindings
      BY <2>2 DEF Shape
    <3>4. CASE i.op \in {"define", "defmacro"}
      <4>1. PICK e : /\ oo.st.binding = [o.st.binding EXCEPT ![i.name] = e]
                     /\ pp.st.binding = [p.st.binding EXCEPT ![i.name] = e]
        BY <2>10, <2>13, <3>4 DEF MeansFrom
      <4>2. QED
        BY <2>6, <3>3, <4>1 DEF Bindings
    <3>5. QED
      BY <3>2, <3>4
  <2>16. QED
    BY <2>13, <2>14, <2>15 DEF oo, pp, last
<1> HIDE DEF P
<1>4. 0 \in S
  BY <1>2
<1>5. ASSUME NEW k \in 0..(n - 1), k \in S PROVE k + 1 \in S
  BY <1>3, <1>5
<1> HIDE DEF S
<1>6. 0..n \subseteq S
  BY <1>4, <1>5, Running!RangeInduces
<1>7. n \in 0..n
  OBVIOUS
<1>8. P(n)
  BY <1>6, <1>7 DEF S
<1>9. q[n].st.binding = last
  <2>1. q[n].st.binding \in Bindings /\ last \in Bindings
    BY <1>7 DEF Shape
  <2>2. \A x \in Names : q[n].st.binding[x] = last[x]
    BY <1>8 DEF P
  <2> HIDE DEF last
  <2>3. QED
    BY <2>1, <2>2 DEF Bindings
<1>10. QED
  BY <1>7, <1>8, <1>9 DEF P, Alike

-----------------------------------------------------------------------------
(* A form does what it means.                                              *)

(* Given that the effects so far were d more than they should be.          *)
Right(o, m, f, d) ==
  /\ Last(f).op # "define" => Same(o, m)
  /\ o.st.effects = m.st.effects + d

LEMMA MeansOf ==
  ASSUME NEW s, Shape(s), NEW f \in AnyForm, NEW N \in Nat, N = Len(f)
  PROVE  \E m : /\ m[0] = Done(s, Nil) /\ m[N] = InOrder(s, f, Meaning)
                /\ Means(m, f, N) /\ \A k \in 0..N : Shape(m[k].st)
<1>1. DOMAIN f = 1..N /\ \A k \in 1..N : f[k] \in Item
  BY FormItems
<1>2. PICK m : /\ DOMAIN m = 0..N
               /\ m[0] = Done(s, Nil)
               /\ \A k \in 1..N : m[k] = MeaningStep(m[k - 1], f[k])
               /\ m[N] = InOrder(s, f, Meaning)
  BY <1>1, MeaningTrace
<1>3. Means(m, f, N)
  BY <1>2 DEF Means
<1>4. Shape(m[0].st)
  BY <1>2, DoneParts
<1>5. \A k \in 0..N : Shape(m[k].st)
  BY <1>1, <1>3, <1>4, MeansStays
<1>6. QED
  BY <1>2, <1>3, <1>5

(* From where the outcomes are in step.                                    *)
LEMMA RightFrom ==
  ASSUME NEW f \in AnyForm, NEW N \in Nat, N = Len(f), NEW j \in 0..(N - 1),
         NEW t, NEW m, NEW d \in Int,
         Follows(t, f, N), Means(m, f, N),
         \A k \in 0..N : Shape(t[k].st) /\ Shape(m[k].st),
         Alike(t[j], m[j]), t[j].st.effects = m[j].st.effects + d
  PROVE  Right(t[N], m[N], f, d)
<1>1. \A k \in 1..N : f[k] \in Item
  BY FormItems
<1>2. j \in 0..N /\ N \in j..N /\ N > j /\ N \in 0..N
  OBVIOUS
<1>3. \A k \in j..N :
        /\ Alike(t[k], m[k])
        /\ t[k].st.effects - t[j].st.effects = m[k].st.effects - m[j].st.effects
        /\ k > j /\ f[k].op # "define" => Same(t[k], m[k])
  BY <1>1, <1>2, InStep
<1>4. /\ t[N].st.effects - t[j].st.effects = m[N].st.effects - m[j].st.effects
      /\ f[N].op # "define" => Same(t[N], m[N])
  BY <1>2, <1>3
<1>5. /\ t[N].st.effects \in Nat /\ t[j].st.effects \in Nat
      /\ m[N].st.effects \in Nat /\ m[j].st.effects \in Nat
  BY <1>2 DEF Shape
<1>6. t[N].st.effects = m[N].st.effects + d
  <2> DEFINE a == t[N].st.effects
             b == t[j].st.effects
             x == m[N].st.effects
             y == m[j].st.effects
  <2>1. /\ a \in Nat /\ b \in Nat /\ x \in Nat /\ y \in Nat /\ d \in Int
        /\ a - b = x - y /\ b = y + d
    BY <1>4, <1>5
  <2> HIDE DEF a, b, x, y
  <2>2. a = x + d
    BY <2>1
  <2>3. QED
    BY <2>2 DEF a, x
<1>7. Last(f) = f[N]
  BY DEF Last
<1>8. QED
  BY <1>4, <1>6, <1>7 DEF Right

(* The tree-walker alone.                                                  *)
LEMMA WalkedIsRight ==
  ASSUME NEW s, Shape(s), NEW c, Whole(c), c.binding = s.binding, c.effects = s.effects,
         NEW f \in AnyForm, Interpreted(TreeForm(c, f).st)
  PROVE  Right(TreeForm(c, f), InOrder(s, f, Meaning), f, 0)
<1>1. PICK N \in Nat \ {0} : N = Len(f)
  BY FormItems
<1>2. PICK t : /\ t[0] = Done(c, Nil) /\ t[N] = TreeForm(c, f)
               /\ \A k \in 0..N : Kept(c, t[k])
               /\ Interpreted(t[N].st) => Follows(t, f, N)
  BY <1>1, TreeTrace
<1>3. PICK m : /\ m[0] = Done(s, Nil) /\ m[N] = InOrder(s, f, Meaning)
               /\ Means(m, f, N) /\ \A k \in 0..N : Shape(m[k].st)
  BY <1>1, MeansOf
<1>4. \A k \in 0..N : Shape(t[k].st)
  BY <1>2 DEF Kept, Whole
<1>5. t[0].st = c /\ m[0].st = s /\ ~Failed(t[0]) /\ ~Failed(m[0])
  BY <1>2, <1>3, DoneParts, Results
<1>6. Alike(t[0], m[0])
  BY <1>5 DEF Alike
<1>7. t[0].st.effects = m[0].st.effects + 0
  BY <1>5 DEF Shape
<1>8. Follows(t, f, N)
  BY <1>2
<1>9. 0 \in 0..(N - 1) /\ 0 \in Int
  OBVIOUS
<1>10. Right(t[N], m[N], f, 0)
  BY <1>1, <1>3, <1>4, <1>6, <1>7, <1>8, <1>9, RightFrom
<1>11. QED
  BY <1>2, <1>3, <1>10

LEMMA RunsOf ==
  ASSUME NEW t, Whole(t), NEW f \in AnyForm, NEW N \in Nat, N = Len(f)
  PROVE  \E r : /\ r[0] = Done(t, Nil) /\ r[N] = InOrder(t, f, RunItem)
                /\ Runs(r, f, N) /\ Stops(r, N) /\ \A k \in 0..N : Whole(r[k].st)
<1>1. DOMAIN f = 1..N /\ \A k \in 1..N : f[k] \in Item
  BY FormItems
<1>2. PICK r : /\ DOMAIN r = 0..N
               /\ r[0] = Done(t, Nil)
               /\ \A k \in 1..N : r[k] = RunStep(r[k - 1], f[k])
               /\ r[N] = InOrder(t, f, RunItem)
  BY <1>1, RunTrace
<1>3. Runs(r, f, N)
  BY <1>2 DEF Runs
<1>4. r[0].st = t
  BY <1>2, DoneParts
<1>5. Stops(r, N) /\ \A k \in 0..N : Whole(r[k].st)
  BY <1>1, <1>2, <1>3, <1>4, RunsWhole
<1>6. QED
  BY <1>2, <1>3, <1>5

(* Bytecode that is not refused.                                           *)
LEMMA RunIsRight ==
  ASSUME NEW s, Shape(s), NEW t, Whole(t), t.binding = s.binding, t.effects = s.effects,
         NEW f \in AnyForm, Static(f), ~FallsBack(InOrder(t, f, RunItem))
  PROVE  Right(InOrder(t, f, RunItem), InOrder(s, f, Meaning), f, 0)
<1>1. PICK N \in Nat \ {0} : N = Len(f)
  BY FormItems
<1>2. PICK r : /\ r[0] = Done(t, Nil) /\ r[N] = InOrder(t, f, RunItem)
               /\ Runs(r, f, N) /\ Stops(r, N) /\ \A k \in 0..N : Whole(r[k].st)
  BY <1>1, RunsOf
<1>3. PICK m : /\ m[0] = Done(s, Nil) /\ m[N] = InOrder(s, f, Meaning)
               /\ Means(m, f, N) /\ \A k \in 0..N : Shape(m[k].st)
  BY <1>1, MeansOf
<1>4. \A k \in 0..N : ~FallsBack(r[k])
  <2>1. \A k \in 0..N : Failed(r[k]) => r[N] = r[k]
    BY <1>2, StopsThere
  <2>2. \A o : FallsBack(o) => Failed(o)
    BY Results DEF FallsBack, Failed
  <2>3. ~FallsBack(r[N])
    BY <1>2
  <2>4. QED
    BY <2>1, <2>2, <2>3
<1>5. \A k \in 1..N : f[k] \in Item /\ f[k].op # "defmacro"
  BY <1>1, FormItems DEF Static
<1>6. Follows(r, f, N)
  BY <1>2, <1>4, <1>5, RunFollows
<1>7. r[0].st = t /\ m[0].st = s /\ ~Failed(r[0]) /\ ~Failed(m[0])
  BY <1>2, <1>3, DoneParts, Results
<1>8. Alike(r[0], m[0])
  BY <1>7 DEF Alike
<1>9. r[0].st.effects = m[0].st.effects + 0
  BY <1>7 DEF Shape
<1>10. \A k \in 0..N : Shape(r[k].st)
  BY <1>2 DEF Whole
<1>11. 0 \in 0..(N - 1) /\ 0 \in Int
  OBVIOUS
<1>12. Right(r[N], m[N], f, 0)
  BY <1>1, <1>3, <1>6, <1>8, <1>9, <1>10, <1>11, RightFrom
<1>13. QED
  BY <1>2, <1>3, <1>12

(* Bytecode that is refused, at item j.                                    *)
LEMMA RefusedAt ==
  ASSUME NEW N \in Nat, NEW r, NEW f, NEW t, r[0] = Done(t, Nil),
         Runs(r, f, N), Stops(r, N), FallsBack(r[N]),
         \A k \in 0..N : Whole(r[k].st), \A k \in 1..N : f[k] \in Item
  PROVE  \E j \in 1..N : /\ \A k \in 0..(j - 1) : ~Failed(r[k])
                         /\ r[N].st = r[j - 1].st
                         /\ Refused(r[j - 1].st, f[j])
<1>1. Failed(r[N]) /\ ~Failed(r[0])
  BY DoneParts, Results DEF FallsBack, Failed
<1> DEFINE S == {k \in 0..N : ~Failed(r[k])}
<1>2. PICK j \in 1..N : Failed(r[j]) /\ ~Failed(r[j - 1])
  <2>1. SUFFICES ASSUME \A j \in 1..N : Failed(r[j]) => Failed(r[j - 1])
                 PROVE  FALSE
    OBVIOUS
  <2>2. 0 \in S
    BY <1>1
  <2>3. ASSUME NEW k \in 0..(N - 1), k \in S PROVE k + 1 \in S
    <3>1. k + 1 \in 1..N /\ (k + 1) - 1 = k /\ k + 1 \in 0..N
      OBVIOUS
    <3>2. QED
      BY <2>1, <2>3, <3>1
  <2> HIDE DEF S
  <2>4. 0..N \subseteq S
    BY <2>2, <2>3, Running!RangeInduces
  <2>5. N \in 0..N
    OBVIOUS
  <2>6. QED
    BY <1>1, <2>4, <2>5 DEF S
<1>3. \A k \in 0..(j - 1) : ~Failed(r[k])
  <2>1. j - 1 \in Nat /\ \A k \in 1..(j - 1) : k \in 1..N
    OBVIOUS
  <2>2. Stops(r, j - 1)
    BY <2>1 DEF Stops
  <2>3. \A k \in 0..(j - 1) : Failed(r[k]) => r[j - 1] = r[k]
    BY <2>1, <2>2, StopsThere
  <2>4. QED
    BY <1>2, <2>3
<1>4. r[N] = r[j]
  <2>1. j \in 0..N
    OBVIOUS
  <2>2. QED
    BY <1>2, <2>1, StopsThere
<1>5. j - 1 \in 0..N /\ f[j] \in Item /\ r[j] = RunItem(r[j - 1].st, f[j])
  BY <1>2 DEF Runs, RunStep
<1>6. Whole(r[j - 1].st)
  BY <1>5
<1>7. r[j].st = r[j - 1].st /\ Refused(r[j - 1].st, f[j])
  BY <1>2, <1>4, <1>5, <1>6, RunItemEnds
<1>8. QED
  BY <1>3, <1>4, <1>7

LEMMA RunItemChanges ==
  ASSUME NEW s, Whole(s), NEW i \in Item
  PROVE  /\ RunItem(s, i).st.effects = s.effects + Ticks(i)
         /\ \A x \in Names : RunItem(s, i).st.binding[x].kind = "macro"
                                => s.binding[x].kind = "macro"
<1> DEFINE o == RunItem(s, i)
<1>1. /\ o.st.effects = s.effects + Ticks(i)
      /\ i.op # "define" => o.st.binding = s.binding
      /\ i.op = "define" =>
           o.st.binding = [s.binding EXCEPT ![i.name] = [kind |-> "fn", val |-> i.val]]
  BY RunItemKeeps
<1>2. s.binding \in Bindings
  BY DEF Whole, Shape
<1> HIDE DEF o
<1>3. \A x \in Names : o.st.binding[x].kind = "macro" => s.binding[x].kind = "macro"
  BY <1>1, <1>2 DEF Bindings
<1>4. QED
  BY <1>1, <1>3 DEF o

(* Bytecode binds no macro, and without ticks has no effect.               *)
LEMMA RunsQuietly ==
  ASSUME NEW n \in Nat, NEW r, NEW f, Runs(r, f, n),
         \A k \in 0..n : Whole(r[k].st), \A k \in 1..n : f[k] \in Item
  PROVE  /\ \A x \in Names : r[n].st.binding[x].kind = "macro"
                                => r[0].st.binding[x].kind = "macro"
         /\ (\A k \in 1..n : f[k].op # "tick") => r[n].st.effects = r[0].st.effects
<1> DEFINE P(k) == /\ \A x \in Names : r[k].st.binding[x].kind = "macro"
                                          => r[0].st.binding[x].kind = "macro"
                   /\ (\A i \in 1..n : f[i].op # "tick") => r[k].st.effects = r[0].st.effects
           S == {k \in 0..n : P(k)}
<1>1. P(0)
  OBVIOUS
<1>2. ASSUME NEW k \in 0..(n - 1), P(k) PROVE P(k + 1)
  <2>1. k + 1 \in 1..n /\ (k + 1) - 1 = k /\ k \in 0..n
    OBVIOUS
  <2>2. r[k + 1] = RunStep(r[k], f[k + 1]) /\ f[k + 1] \in Item /\ Whole(r[k].st)
    BY <2>1 DEF Runs
  <2>3. CASE Failed(r[k])
    BY <1>2, <2>2, <2>3 DEF RunStep
  <2>4. CASE ~Failed(r[k])
    <3>1. r[k + 1] = RunItem(r[k].st, f[k + 1])
      BY <2>2, <2>4 DEF RunStep
    <3>2. /\ r[k + 1].st.effects = r[k].st.effects + Ticks(f[k + 1])
          /\ \A x \in Names : r[k + 1].st.binding[x].kind = "macro"
                                 => r[k].st.binding[x].kind = "macro"
      BY <2>2, <3>1, RunItemChanges
    <3>3. f[k + 1].op # "tick" => Ticks(f[k + 1]) = 0
      BY DEF Ticks
    <3>4. r[k].st.effects \in Nat
      BY <2>2 DEF Whole, Shape
    <3>5. QED
      BY <1>2, <2>1, <3>2, <3>3, <3>4
  <2>5. QED
    BY <2>3, <2>4
<1> HIDE DEF P
<1>3. 0 \in S
  BY <1>1
<1>4. ASSUME NEW k \in 0..(n - 1), k \in S PROVE k + 1 \in S
  BY <1>2, <1>4
<1> HIDE DEF S
<1>5. 0..n \subseteq S
  BY <1>3, <1>4, Running!RangeInduces
<1>6. n \in 0..n
  OBVIOUS
<1>7. P(n)
  BY <1>5, <1>6 DEF S
<1>8. QED
  BY <1>7 DEF P

LEMMA AgainIsRight ==
  ASSUME NEW s, Shape(s), NEW t, Whole(t), t.binding = s.binding, t.effects = s.effects,
         NEW f \in AnyForm, Static(f), FallsBack(InOrder(t, f, RunItem)),
         NEW u, u = InOrder(t, f, RunItem).st, Interpreted(TreeForm(u, f).st)
  PROVE  /\ Right(TreeForm(u, f), InOrder(s, f, Meaning), f, u.effects - s.effects)
         /\ TicksLast(f) /\ IsCompilable(s.binding, f) => u.effects = s.effects
         /\ u.effects \in Nat
<1>1. PICK N \in Nat \ {0} : N = Len(f)
  BY FormItems
<1>2. PICK r : /\ r[0] = Done(t, Nil) /\ r[N] = InOrder(t, f, RunItem)
               /\ Runs(r, f, N) /\ Stops(r, N) /\ \A k \in 0..N : Whole(r[k].st)
  BY <1>1, RunsOf
<1>3. PICK m : /\ m[0] = Done(s, Nil) /\ m[N] = InOrder(s, f, Meaning)
               /\ Means(m, f, N) /\ \A k \in 0..N : Shape(m[k].st)
  BY <1>1, MeansOf
<1>4. \A k \in 1..N : f[k] \in Item /\ f[k].op # "defmacro"
  BY <1>1, FormItems DEF Static
<1>5. FallsBack(r[N])
  BY <1>2
<1>6. PICK j \in 1..N : /\ \A k \in 0..(j - 1) : ~Failed(r[k])
                       /\ r[N].st = r[j - 1].st
                       /\ Refused(r[j - 1].st, f[j])
  BY <1>2, <1>4, <1>5, RefusedAt
<1>7. PICK n \in Nat : n = j - 1
  OBVIOUS
<1>8. /\ n \in 0..(N - 1) /\ \A k \in 0..n : k \in 0..N
      /\ \A k \in 1..n : k \in 1..N
  BY <1>7
<1>9. /\ u = r[n].st /\ \A k \in 0..n : ~Failed(r[k])
      /\ Refused(r[n].st, f[j])
  BY <1>2, <1>6, <1>7
<1>10. r[0].st = t /\ m[0].st = s /\ ~Failed(r[0]) /\ ~Failed(m[0])
  BY <1>2, <1>3, DoneParts, Results
<1>11. /\ Runs(r, f, n) /\ Stops(r, n) /\ Means(m, f, n)
       /\ \A k \in 0..n : Whole(r[k].st) /\ Shape(r[k].st) /\ Shape(m[k].st)
       /\ \A k \in 1..n : f[k] \in Item /\ f[k].op # "defmacro"
  BY <1>2, <1>3, <1>4, <1>8 DEF Runs, Stops, Means, Whole
<1>12. \A k \in 0..n : ~FallsBack(r[k])
  BY <1>9, Results DEF FallsBack, Failed
<1>13. Follows(r, f, n)
  BY <1>11, <1>12, RunFollows
<1>14. Alike(r[0], m[0])
  BY <1>10 DEF Alike
<1>15. \A k \in 0..n :
         /\ Alike(r[k], m[k])
         /\ r[k].st.effects - r[0].st.effects = m[k].st.effects - m[0].st.effects
  <2>1. 0 \in 0..n
    OBVIOUS
  <2>2. QED
    BY <1>11, <1>13, <1>14, <2>1, InStep
<1>16. \A k \in 0..n : ~Failed(m[k])
  BY <1>9, <1>15 DEF Alike
<1>17. Whole(u) /\ n \in 0..n
  BY <1>9, <1>11
<1>18. PICK q : /\ q[0] = Done(u, Nil) /\ q[N] = TreeForm(u, f)
                /\ \A k \in 0..N : Kept(u, q[k])
                /\ Interpreted(q[N].st) => Follows(q, f, N)
  BY <1>1, <1>17, TreeTrace
<1>19. Follows(q, f, N)
  BY <1>18
<1>20. \A k \in 0..N : Shape(q[k].st)
  BY <1>18 DEF Kept, Whole
<1>21. q[0].st = u /\ ~Failed(q[0])
  BY <1>18, DoneParts, Results
<1>22. q[0].st.binding = m[n].st.binding
  BY <1>9, <1>15, <1>17, <1>21 DEF Alike
<1>23. Follows(q, f, n)
  BY <1>8, <1>19 DEF Follows, Stops
<1>24. \A k \in 0..n : Shape(q[k].st) /\ Shape(m[k].st) /\ ~Failed(m[k])
  BY <1>8, <1>11, <1>16, <1>20
<1>25. /\ Alike(q[n], m[n])
       /\ q[n].st.effects - q[0].st.effects = m[n].st.effects - m[0].st.effects
  BY <1>11, <1>21, <1>22, <1>23, <1>24, DoneAgain
<1>26. /\ u.effects \in Nat /\ s.effects \in Nat
       /\ q[n].st.effects \in Nat /\ m[n].st.effects \in Nat
  BY <1>17, <1>24 DEF Whole, Shape
<1> DEFINE d == u.effects - s.effects
<1>27. d \in Int /\ q[n].st.effects = m[n].st.effects + d
  <2> DEFINE a == q[n].st.effects
             b == m[n].st.effects
             x == u.effects
             y == s.effects
  <2>1. a \in Nat /\ b \in Nat /\ x \in Nat /\ y \in Nat /\ a - x = b - y
    BY <1>10, <1>21, <1>25, <1>26
  <2> HIDE DEF a, b, x, y
  <2>2. x - y \in Int /\ a = b + (x - y)
    BY <2>1
  <2>3. QED
    BY <2>2 DEF a, b, x, y
<1> HIDE DEF d
<1>28. \A k \in 0..N : Shape(q[k].st) /\ Shape(m[k].st)
  BY <1>3, <1>20
<1>29. Right(q[N], m[N], f, d)
  BY <1>1, <1>3, <1>8, <1>19, <1>25, <1>27, <1>28, RightFrom
<1>30. ASSUME TicksLast(f), IsCompilable(s.binding, f) PROVE u.effects = s.effects
  <2>1. /\ \A x \in Names : r[n].st.binding[x].kind = "macro"
                               => r[0].st.binding[x].kind = "macro"
        /\ (\A k \in 1..n : f[k].op # "tick") => r[n].st.effects = r[0].st.effects
    BY <1>11, RunsQuietly
  <2>2. f[j].name \in Names /\ r[n].st.binding[f[j].name].kind = "macro"
    BY <1>9 DEF Refused, Binding, Nothing
  <2>3. s.binding[f[j].name].kind = "macro"
    BY <1>10, <2>1, <2>2
  <2>4. f[j].op # "call"
    BY <1>1, <1>30, <2>3 DEF IsCompilable, IsMacroUse
  <2>5. f[j].op = "symbol"
    BY <1>9, <2>4 DEF Refused
  <2>6. f[j].name \in MacroNames
    BY <2>2, <2>3 DEF Shape
  <2>7. \A k \in 1..n : k \in 1..N /\ k < j
    BY <1>7, <1>8
  <2>8. \A k \in 1..n : f[k].op # "tick"
    BY <1>1, <1>30, <2>5, <2>6, <2>7 DEF TicksLast
  <2>9. QED
    BY <1>9, <1>10, <2>1, <2>8
<1>31. QED
  BY <1>3, <1>18, <1>26, <1>29, <1>30 DEF d

LEMMA VmEvalAnswers ==
  ASSUME NEW s, NEW f
  PROVE  vm_eval(s, f) = Answer(s, f, TreeForm(Checked(s, f), f), TreeForm(Ran(s, f).st, f))
BY DEF vm_eval, VmBy, Answer, Ran

LEMMA TreeFormKeeps ==
  ASSUME NEW s, Whole(s), NEW f \in AnyForm
  PROVE  Kept(s, TreeForm(s, f))
<1>1. PICK N \in Nat \ {0} : N = Len(f)
  BY FormItems
<1>2. PICK t : t[N] = TreeForm(s, f) /\ \A k \in 0..N : Kept(s, t[k])
  BY <1>1, TreeTrace
<1>3. N \in 0..N
  OBVIOUS
<1>4. QED
  BY <1>2, <1>3

LEMMA VmEvalKeeps ==
  ASSUME NEW s, Whole(s), NEW f \in AnyForm
  PROVE  Kept(s, vm_eval(s, f))
<1> DEFINE c == Checked(s, f)
           u == Ran(s, f).st
<1>1. (~c.compilable[Key(f)] => Whole(c)) /\ (c.compilable[Key(f)] => Whole(u))
  BY TakesOver
<1>2. ~c.compilable[Key(f)] => Kept(c, TreeForm(c, f))
  BY <1>1, TreeFormKeeps
<1>3. c.compilable[Key(f)] => Kept(u, TreeForm(u, f))
  BY <1>1, TreeFormKeeps
<1>4. Kept(s, Answer(s, f, TreeForm(c, f), TreeForm(u, f)))
  BY <1>2, <1>3, AnswerKeeps
<1>5. QED
  BY <1>4, VmEvalAnswers

LEMMA FormIsRight ==
  ASSUME NEW s0, Shape(s0), NEW s, Whole(s), s.binding = s0.binding, s.effects = s0.effects,
         NEW f \in AnyForm, Interpreted(vm_eval(s, f).st)
  PROVE  /\ Last(f).op # "define" => Same(vm_eval(s, f), InOrder(s0, f, Meaning))
         /\ ~s.unseen /\ TicksLast(f) =>
              vm_eval(s, f).st.effects = InOrder(s0, f, Meaning).st.effects
<1> DEFINE c == Checked(s, f)
           ran == Ran(s, f)
           o == vm_eval(s, f)
           m == InOrder(s0, f, Meaning)
<1>1. o = Answer(s, f, TreeForm(c, f), TreeForm(ran.st, f))
  BY VmEvalAnswers
<1>2. m.st.effects \in Nat
  <2>1. PICK N \in Nat \ {0} : N = Len(f)
    BY FormItems
  <2>2. PICK t : t[N] = m /\ \A k \in 0..N : Shape(t[k].st)
    BY <2>1, MeansOf
  <2>3. N \in 0..N
    OBVIOUS
  <2>4. QED
    BY <2>2, <2>3 DEF Shape
<1>3. ASSUME NEW p, Right(p, m, f, 0)
      PROVE  /\ Last(f).op # "define" => Same(p, m)
             /\ p.st.effects = m.st.effects
  <2> HIDE DEF m
  <2>1. QED
    BY <1>2, <1>3 DEF Right
<1>4. Interpreted(o.st)
  OBVIOUS
<1>5. CASE c.compilable[Key(f)]
  <2>1. /\ Kept(s, ran) /\ Static(f) /\ (~s.unseen => IsCompilable(s.binding, f))
        /\ Interpreted(ran.st) =>
             \E t : /\ Whole(t) /\ t.binding = s.binding /\ t.effects = s.effects
                    /\ t.unseen = s.unseen /\ Printing(ran, InOrder(t, f, RunItem))
    BY <1>5, RanKeeps
  <2>2. o = IF FallsBack(ran) THEN TreeForm(ran.st, f) ELSE ran
    BY <1>1, <1>5 DEF Answer
  <2>3. Kept(ran.st, TreeForm(ran.st, f))
    BY <2>1, TreeFormKeeps DEF Kept
  <2> HIDE DEF ran, o, m
  <2>4. Interpreted(ran.st)
    BY <1>4, <2>2, <2>3 DEF Kept
  <2>5. PICK t : /\ Whole(t) /\ t.binding = s.binding /\ t.effects = s.effects
                 /\ Printing(ran, InOrder(t, f, RunItem))
    BY <2>1, <2>4
  <2> DEFINE run == InOrder(t, f, RunItem)
  <2>10. /\ FallsBack(ran) <=> FallsBack(run)
         /\ ran.st = run.st /\ Printing(ran, run)
    BY <2>5, ShownFails DEF Printing
  <2>6. t.binding = s0.binding /\ t.effects = s0.effects
    BY <2>5
  <2>7. CASE ~FallsBack(ran)
    <3>3. Right(run, m, f, 0)
      BY <2>1, <2>5, <2>6, <2>7, <2>10, RunIsRight DEF m
    <3> HIDE DEF run
    <3>1. Right(ran, m, f, 0)
      BY <2>10, <3>3 DEF Right, Same, Printing
    <3>2. o = ran
      BY <2>2, <2>7
    <3>4. QED
      BY <1>3, <3>1, <3>2 DEF o, m
  <2>8. CASE FallsBack(ran)
    <3> DEFINE u == ran.st
               p == TreeForm(u, f)
    <3>1. o = p
      BY <2>2, <2>8
    <3>2. Interpreted(p.st)
      BY <1>4, <3>1
    <3>3. u = InOrder(t, f, RunItem).st /\ FallsBack(InOrder(t, f, RunItem))
      BY <2>8, <2>10
    <3> HIDE DEF u
    <3>4. /\ Right(p, m, f, u.effects - s0.effects)
          /\ TicksLast(f) /\ IsCompilable(s0.binding, f) => u.effects = s0.effects
          /\ u.effects \in Nat
      BY <2>1, <2>5, <2>6, <3>2, <3>3, AgainIsRight DEF m
    <3> HIDE DEF p
    <3>5. Last(f).op # "define" => Same(p, m)
      BY <3>4 DEF Right
    <3>6. ASSUME ~s.unseen, TicksLast(f) PROVE p.st.effects = m.st.effects
      <4>1. u.effects = s0.effects
        BY <2>1, <3>4, <3>6
      <4>2. p.st.effects = m.st.effects + (u.effects - s0.effects)
        BY <3>4 DEF Right
      <4>3. QED
        BY <1>2, <3>4, <4>1, <4>2
    <3>7. QED
      BY <3>1, <3>5, <3>6 DEF o, m
  <2>9. QED
    BY <2>7, <2>8
<1>6. CASE ~c.compilable[Key(f)]
  <2> DEFINE walked == TreeForm(c, f)
             w == Done(Seen(Invalidate(walked.st)), walked.res)
  <2>1. o = walked \/ o = w
    BY <1>1, <1>6 DEF Answer
  <2>2. w.st = Seen(Invalidate(walked.st)) /\ w.res = walked.res
    BY DoneParts
  <2>3. Whole(c) /\ c.binding = s0.binding /\ c.effects = s0.effects
    BY <1>6, TakesOver, CheckedParts
  <2> HIDE DEF c
  <2>4. Kept(c, walked)
    BY <2>3, TreeFormKeeps
  <2> HIDE DEF w, o, walked, m
  <2>5. /\ Interpreted(w.st) <=> Interpreted(walked.st)
        /\ w.st.effects = walked.st.effects /\ w.st.mixed = walked.st.mixed
    BY <2>2, <2>4, InvalidateKeeps DEF Kept
  <2>6. Interpreted(walked.st)
    BY <1>4, <2>1, <2>5
  <2>7. Right(walked, m, f, 0)
    BY <2>3, <2>6, WalkedIsRight DEF walked, m
  <2>8. /\ Last(f).op # "define" => Same(walked, m)
        /\ walked.st.effects = m.st.effects
    BY <1>3, <2>7
  <2>9. QED
    BY <2>1, <2>2, <2>5, <2>8 DEF o, m, Same
<1>7. QED
  BY <1>5, <1>6

-----------------------------------------------------------------------------
(* A session.                                                              *)
LEMMA FormsAreForms ==
  /\ Forms \subseteq AnyForm
  /\ \A file \in AotFiles : \A k \in 1..Len(file) :
       /\ file[k].form \in AnyForm /\ IsCompilable(Fresh, file[k].form)
       /\ Static(file[k].form)
<1>1. ASSUME NEW f \in Forms PROVE f \in AnyForm
  <2>1. f \in Seq(Items) /\ f # << >>
    BY FormsAssumption
  <2>2. ASSUME NEW k \in 1..Len(f) PROVE f[k] \in Item
    <3>1. f[k] \in Items
      BY <2>1
    <3>2. f[k].op = "defmacro" => f[k].name \in Names
      BY <3>1 DEF Items
    <3>3. QED
      BY <3>1, <3>2 DEF Item, MacroNames
  <2>3. QED
    BY <2>1, <2>2 DEF AnyForm
<1>2. ASSUME NEW file \in AotFiles, NEW k \in 1..Len(file)
      PROVE  /\ file[k].form \in AnyForm /\ IsCompilable(Fresh, file[k].form)
             /\ Static(file[k].form)
  <2>1. PICK f : f = file[k].form
    OBVIOUS
  <2>2. f \in Seq(Items) /\ f # << >> /\ \A j \in 1..Len(f) : f[j].op # "defmacro"
    BY <2>1, AotAssumption
  <2>3. \A j \in 1..Len(f) : f[j] \in Items
    BY <2>2
  <2>4. \A j \in 1..Len(f) : f[j] \in Item
    BY <2>2, <2>3 DEF Item
  <2>5. f \in AnyForm
    BY <2>2, <2>4 DEF AnyForm
  <2>6. \A j \in 1..Len(f) : f[j].op = "call" => Fresh[f[j].name].kind = "unbound"
    BY <2>3 DEF Items, Fresh, Nothing
  <2>7. IsCompilable(Fresh, f)
    BY <2>2, <2>6 DEF IsCompilable, IsMacroUse
  <2>8. QED
    BY <2>1, <2>2, <2>5, <2>7 DEF Static
<1>3. QED
  BY <1>1, <1>2

LEMMA StartsWhole ==
  ASSUME Init
  PROVE  Whole(st) /\ Owned(st) /\ Interpreted(st) /\ st.effects = 0
<1>1. /\ DOMAIN st = Fields /\ st.binding = Fresh /\ st.effects = 0
      /\ DOMAIN st.compilable = {} /\ DOMAIN st.chunks = {} /\ DOMAIN st.jit = {}
      /\ st.nextId = 1 /\ st.unseen = FALSE
  BY DEF Init, Fields
<1>2. Fresh \in Bindings /\ \A n \in Names : Fresh[n].kind # "macro"
  BY DEF Fresh, Nothing, Bindings
<1>3. Shape(st)
  <2>1. st.binding \in Bindings /\ \A n \in Names : st.binding[n].kind # "macro"
    BY <1>1, <1>2
  <2>2. /\ st.effects \in Nat /\ st.nextId \in Nat \ {0}
        /\ st.unseen \in BOOLEAN
    <3>1. st.effects = 0 /\ st.nextId = 1 /\ st.unseen = FALSE
      BY <1>1
    <3>2. \A e, i : e = 0 /\ i = 1 => e \in Nat /\ i \in Nat \ {0}
      OBVIOUS
    <3>3. st.effects \in Nat /\ st.nextId \in Nat \ {0}
      BY <3>1, <3>2
    <3>4. QED
      BY <3>1, <3>3
  <2>3. QED
    BY <1>1, <2>1, <2>2 DEF Shape
<1>4. Caches(st) /\ Counters(st) /\ Owned(st) /\ Interpreted(st)
  BY <1>1 DEF Caches, Counters, Owned, Interpreted
<1>5. QED
  BY <1>1, <1>3, <1>4 DEF Whole

(* What a form finds and what it leaves, for the next.                     *)
LEMMA EvalFrom ==
  ASSUME Whole(st), NEW f \in AnyForm, NEW bytes, Eval(f, bytes)
  PROVE  LET s == [st EXCEPT !.memory = bytes]
             o == vm_eval(s, f)
         IN /\ Whole(s) /\ s.binding = st.binding /\ s.effects = st.effects
            /\ s.unseen = st.unseen
            /\ (Owned(st) => Owned(s)) /\ (Interpreted(s) => Interpreted(st))
            /\ Kept(s, o) /\ Whole(st') /\ st'.effects = 0
            /\ (Owned(st') <=> Owned(o.st)) /\ (Interpreted(st') <=> Interpreted(o.st))
<1> DEFINE s == [st EXCEPT !.memory = bytes]
           o == vm_eval(s, f)
           p == o.st
           t == [p EXCEPT !.effects = 0, !.memory = "intact", !.mixed = FALSE]
<1>1. /\ Whole(s) /\ s.binding = st.binding /\ s.effects = st.effects
      /\ s.unseen = st.unseen /\ (Owned(s) <=> Owned(st)) /\ (Interpreted(s) <=> Interpreted(st))
  BY MemoryKeeps
<1>2. st' = t
  BY DEF Eval
<1> HIDE DEF s
<1>3. Kept(s, o)
  BY <1>1, VmEvalKeeps
<1> HIDE DEF o
<1>4. Whole(p)
  BY <1>3 DEF Kept
<1> HIDE DEF p
<1>5. DOMAIN p = Fields /\ p.binding \in Bindings
  BY <1>4 DEF Whole, Shape
<1>6. /\ DOMAIN t = Fields /\ t.binding = p.binding /\ t.effects = 0
      /\ t.compilable = p.compilable /\ t.chunks = p.chunks /\ t.jit = p.jit
      /\ t.nextId = p.nextId /\ t.unseen = p.unseen
  BY <1>5 DEF Fields
<1> HIDE DEF t
<1>7. t.effects \in Nat
  BY <1>6
<1>8. Whole(t) /\ (Owned(t) <=> Owned(p)) /\ (Interpreted(t) <=> Interpreted(p))
  BY <1>4, <1>5, <1>6, <1>7, ChangesKeep
<1>9. QED
  BY <1>1, <1>2, <1>3, <1>6, <1>8 DEF s, o, p

(* Of the entries of a file with one property there is a last.             *)
LEMMA LastThere ==
  ASSUME NEW n \in Nat, NEW S \in SUBSET (1..n), S # {}
  PROVE  \E k \in S : \A j \in (k + 1)..n : j \notin S
<1> SUFFICES ASSUME \A k \in S : \E j \in (k + 1)..n : j \in S PROVE FALSE
  OBVIOUS
<1> DEFINE D == {d \in 0..n : \E k \in S : k > d}
<1>1. 0 \in D
  <2>1. PICK k \in S : k \in 1..n
    OBVIOUS
  <2>2. k > 0 /\ 0 \in 0..n
    BY <2>1
  <2>3. QED
    BY <2>2
<1>2. ASSUME NEW d \in 0..(n - 1), d \in D PROVE d + 1 \in D
  <2>1. PICK k \in S : k > d
    BY <1>2
  <2>2. PICK j \in (k + 1)..n : j \in S
    OBVIOUS
  <2>3. k \in 1..n /\ j > d + 1 /\ d + 1 \in 0..n
    BY <2>1, <2>2
  <2>4. QED
    BY <2>2, <2>3
<1> HIDE DEF D
<1>3. 0..n \subseteq D
  BY <1>1, <1>2, Running!RangeInduces
<1>4. n \in D
  BY <1>3
<1>5. PICK k \in S : k > n
  BY <1>4 DEF D
<1>6. QED
  BY <1>5

(* What is loaded was compiled elsewhere, from a form that prints as its   *)
(* key.                                                                    *)
LEMMA LoadKeeps ==
  ASSUME Whole(st), NEW file \in AotFiles, NEW n \in 1..Len(file), LoadAot(file, n)
  PROVE  Whole(st') /\ st'.effects = st.effects /\ (Interpreted(st') <=> Interpreted(st))
<1> DEFINE keys == {Key(file[k].form) : k \in 1..n}
           last(key) == CHOOSE k \in 1..n : /\ Key(file[k].form) = key
                                            /\ \A j \in (k + 1)..n : Key(file[j].form) # key
           chunk(key) == ChunkOf(file[last(key)].id, Fresh, file[last(key)].form)
           t == st'
<1>0. n \in Nat /\ \A k \in 1..n : k \in 1..Len(file)
  OBVIOUS
<1>1. ASSUME NEW k \in 1..n
      PROVE  /\ file[k].form \in AnyForm /\ Compile(Fresh, file[k].form) = file[k].form
             /\ Key(file[k].form) \in AnyForm
             /\ \A j \in 1..Len(Key(file[k].form)) : Key(file[k].form)[j].op # "defmacro"
  <2> DEFINE f == file[k].form
  <2>1. f \in AnyForm /\ IsCompilable(Fresh, f) /\ Static(f)
    BY <1>0, FormsAreForms
  <2> HIDE DEF f
  <2>2. Compile(Fresh, f) = f
    BY <2>1, CompiledIsForm
  <2>3. Key(f) \in AnyForm /\ \A j \in 1..Len(Key(f)) : Key(f)[j].op # "defmacro"
    BY <2>1, KeyParts, KeyCompiles DEF Static
  <2>4. QED
    BY <2>1, <2>2, <2>3 DEF f
<1>14. ASSUME NEW key \in keys
       PROVE  /\ key \in AnyForm /\ \A j \in 1..Len(key) : key[j].op # "defmacro"
              /\ LET d == chunk(key) IN d.of \in AnyForm /\ Key(d.of) = key /\ d.code = d.of
  <2> DEFINE S == {k \in 1..n : Key(file[k].form) = key}
  <2>1. PICK i \in 1..n : Key(file[i].form) = key
    OBVIOUS
  <2>2. S # {}
    BY <2>1
  <2>3. S \in SUBSET (1..n)
    OBVIOUS
  <2>4. PICK k \in S : \A j \in (k + 1)..n : j \notin S
    <3> HIDE DEF S
    <3>1. QED
      BY <1>0, <2>2, <2>3, LastThere
  <2>5. \A j \in (k + 1)..n : Key(file[j].form) # key
    <3>1. \A j \in (k + 1)..n : j \in 1..n
      BY <2>4
    <3>2. QED
      BY <2>4, <3>1
  <2>6. k \in 1..n /\ Key(file[k].form) = key
    BY <2>4
  <2>7. last(key) \in 1..n /\ Key(file[last(key)].form) = key
    BY <2>5, <2>6
  <2> HIDE DEF last
  <2>8. /\ chunk(key).of = file[last(key)].form
        /\ chunk(key).code = Compile(Fresh, file[last(key)].form)
    BY DEF ChunkOf
  <2>9. QED
    BY <1>1, <2>6, <2>7, <2>8
<1>2. t = [st EXCEPT
            !.compilable = [k \in DOMAIN @ \cup keys |-> IF k \in keys THEN TRUE ELSE @[k]],
            !.chunks = [k \in DOMAIN @ \cup keys |-> IF k \in keys THEN chunk(k) ELSE @[k]],
            !.unseen = @ \/ \E k \in keys : ~IsCompilable(st.binding, k)]
  BY DEF LoadAot
<1> HIDE DEF keys, chunk
<1>4. DOMAIN st = Fields /\ st.unseen \in BOOLEAN
  BY DEF Whole, Shape
<1> DEFINE new == \E k \in keys : ~IsCompilable(st.binding, k)
<1>5. /\ DOMAIN t = Fields /\ t.binding = st.binding /\ t.effects = st.effects
      /\ t.jit = st.jit /\ t.nextId = st.nextId
      /\ t.compilable = [k \in DOMAIN st.compilable \cup keys |->
                           IF k \in keys THEN TRUE ELSE st.compilable[k]]
      /\ t.chunks = [k \in DOMAIN st.chunks \cup keys |->
                       IF k \in keys THEN chunk(k) ELSE st.chunks[k]]
  BY <1>2, <1>4 DEF Fields
<1>6. t.unseen = (st.unseen \/ new)
  BY <1>2, <1>4 DEF Fields
<1> HIDE DEF t, new
<1>7. new \in BOOLEAN /\ (~new => \A k \in keys : IsCompilable(st.binding, k))
  BY DEF new
<1>8. /\ DOMAIN t.compilable = DOMAIN st.compilable \cup keys
      /\ DOMAIN t.chunks = DOMAIN st.chunks \cup keys
      /\ \A k \in keys : t.compilable[k] = TRUE /\ t.chunks[k] = chunk(k)
      /\ \A k \in DOMAIN st.compilable \ keys : t.compilable[k] = st.compilable[k]
      /\ \A k \in DOMAIN st.chunks \ keys : t.chunks[k] = st.chunks[k]
  <2>1. /\ DOMAIN t.compilable = DOMAIN st.compilable \cup keys
        /\ DOMAIN t.chunks = DOMAIN st.chunks \cup keys
    BY <1>5
  <2>2. ASSUME NEW k \in keys PROVE t.compilable[k] = TRUE /\ t.chunks[k] = chunk(k)
    BY <1>5
  <2>3. ASSUME NEW k \in DOMAIN st.compilable \ keys PROVE t.compilable[k] = st.compilable[k]
    BY <1>5
  <2>4. ASSUME NEW k \in DOMAIN st.chunks \ keys PROVE t.chunks[k] = st.chunks[k]
    BY <1>5
  <2>5. QED
    BY <2>1, <2>2, <2>3, <2>4
<1>10. Shape(t)
  BY <1>5, <1>6 DEF Whole, Shape
<1>11. Counters(t)
  BY <1>5 DEF Whole, Counters
<1>12. Caches(t)
  <2>1. ASSUME NEW k \in DOMAIN t.chunks
        PROVE  LET d == t.chunks[k] IN d.of \in AnyForm /\ Key(d.of) = k /\ d.code = d.of
    <3>1. CASE k \in keys
      BY <1>8, <1>14, <3>1
    <3>2. CASE k \notin keys
      <4>1. k \in DOMAIN st.chunks /\ t.chunks[k] = st.chunks[k]
        BY <1>8, <3>2
      <4>2. QED
        BY <4>1 DEF Whole, Caches
    <3>3. QED
      BY <3>1, <3>2
  <2>2. ASSUME NEW k \in DOMAIN t.compilable
        PROVE  /\ k \in AnyForm /\ t.compilable[k] \in BOOLEAN
               /\ t.compilable[k] => k \in DOMAIN t.chunks /\ \A j \in 1..Len(k) : k[j].op # "defmacro"
               /\ t.compilable[k] /\ ~t.unseen => IsCompilable(t.binding, k)
    <3>1. CASE k \in keys
      BY <1>5, <1>6, <1>7, <1>8, <1>14, <3>1
    <3>2. CASE k \notin keys
      <4>1. k \in DOMAIN st.compilable /\ t.compilable[k] = st.compilable[k]
        BY <1>8, <3>2
      <4>2. ~t.unseen => ~st.unseen
        BY <1>4, <1>6, <1>7
      <4>3. QED
        BY <1>5, <1>8, <4>1, <4>2 DEF Whole, Caches
    <3>3. QED
      BY <3>1, <3>2
  <2>3. QED
    BY <2>1, <2>2 DEF Caches
<1>13. QED
  BY <1>5, <1>10, <1>11, <1>12 DEF Whole, Interpreted, t

Session ==
  Whole(st) /\ (Interpreted(st) => ResultsAreTheForms /\ EffectsHappenOnce)

LEMMA SessionIsInductive == Init => Session
<1> SUFFICES ASSUME Init PROVE Session
  OBVIOUS
<1>1. Whole(st)
  BY StartsWhole
<1>2. outcome.form = << >> /\ outcome.ticks = 0 /\ outcome.wantTicks = 0
  BY DEF Init
<1>3. QED
  BY <1>1, <1>2 DEF Session, ResultsAreTheForms, EffectsHappenOnce

LEMMA EvalKeepsSession ==
  ASSUME Session, NEW f \in Forms, NEW bytes \in Bytes, Eval(f, bytes)
  PROVE  Session'
<1> DEFINE s == [st EXCEPT !.memory = bytes]
           o == vm_eval(s, f)
           m == InOrder(st, f, Meaning)
<1>1. f \in AnyForm /\ Whole(st) /\ Shape(st)
  BY FormsAreForms DEF Session, Whole
<1>2. /\ Whole(s) /\ s.binding = st.binding /\ s.effects = st.effects
      /\ s.unseen = st.unseen
      /\ Whole(st') /\ (Interpreted(st') <=> Interpreted(o.st))
  BY <1>1, EvalFrom
<1>3. /\ outcome'.form = f /\ outcome'.got = o.res /\ outcome'.want = m.res
      /\ outcome'.ticks = o.st.effects /\ outcome'.wantTicks = m.st.effects
      /\ outcome'.stale = st.unseen /\ outcome'.mixed = o.st.mixed
  BY DEF Eval
<1> HIDE DEF s
<1>4. ASSUME Interpreted(st')
      PROVE  /\ Last(f).op # "define" => Same(o, m)
             /\ ~s.unseen /\ TicksLast(f) => o.st.effects = m.st.effects
  <2>1. Interpreted(o.st)
    BY <1>2, <1>4
  <2>2. QED
    BY <1>1, <1>2, <2>1, FormIsRight
<1> HIDE DEF o, m
<1>5. Interpreted(st') => ResultsAreTheForms' /\ EffectsHappenOnce'
  BY <1>2, <1>3, <1>4 DEF ResultsAreTheForms, EffectsHappenOnce, Same
<1>6. QED
  BY <1>2, <1>5 DEF Session

LEMMA StepKeepsSession ==
  ASSUME Session, [Next]_vars
  PROVE  Session'
<1>1. CASE \E f \in Forms, bytes \in Bytes : Eval(f, bytes)
  BY <1>1, EvalKeepsSession
<1>2. CASE \E file \in AotFiles : \E n \in 1..Len(file) : LoadAot(file, n)
  <2>1. ASSUME NEW file \in AotFiles, NEW n \in 1..Len(file), LoadAot(file, n)
        PROVE  /\ Whole(st') /\ (Interpreted(st') <=> Interpreted(st))
               /\ outcome' = outcome
    BY <2>1, LoadKeeps DEF Session, LoadAot
  <2>2. Whole(st') /\ (Interpreted(st') <=> Interpreted(st))
    BY <1>2, <2>1
  <2>3. outcome' = outcome
    BY <1>2, <2>1
  <2>4. (ResultsAreTheForms' <=> ResultsAreTheForms) /\ (EffectsHappenOnce' <=> EffectsHappenOnce)
    BY <2>3 DEF ResultsAreTheForms, EffectsHappenOnce
  <2>5. QED
    BY <2>2, <2>4 DEF Session
<1>3. CASE UNCHANGED vars
  <2>1. st' = st /\ outcome' = outcome
    BY <1>3 DEF vars
  <2>2. QED
    BY <2>1 DEF Session, ResultsAreTheForms, EffectsHappenOnce
<1>4. QED
  BY <1>1, <1>2, <1>3 DEF Next

(* As long as no chunk has become native code, a form that does not end in *)
(* a definition gives what prints like the tree-walker's result, whatever  *)
(* is cached, and gives that result itself unless some form, on the way,   *)
(* found under its text the chunk of one with numbers of another type.     *)
THEOREM ResultsAreRight == Spec => [](Interpreted(st) => ResultsAreTheForms)
<1>1. Init => Session
  BY SessionIsInductive
<1>2. Session /\ [Next]_vars => Session'
  BY StepKeepsSession
<1>3. Session => (Interpreted(st) => ResultsAreTheForms)
  BY DEF Session
<1>4. QED
  BY <1>1, <1>2, <1>3, PTL DEF Spec

(* Neither the caches nor the two evaluators do a side effect twice or     *)
(* leave one out, as long as no chunk has become native code.              *)
THEOREM EffectsAreOnce == Spec => [](Interpreted(st) => EffectsHappenOnce)
<1>1. Init => Session
  BY SessionIsInductive
<1>2. Session /\ [Next]_vars => Session'
  BY StepKeepsSession
<1>3. Session => (Interpreted(st) => EffectsHappenOnce)
  BY DEF Session
<1>4. QED
  BY <1>1, <1>2, <1>3, PTL DEF Spec

(* In a process that loads no file, native code belongs to the chunk that  *)
(* runs it: ids name one chunk each.                                       *)
THEOREM NativeIsOwn ==
  ASSUME AotFiles = {}
  PROVE  Spec => []NativeCodeIsOwn
<1> DEFINE Inv == Whole(st) /\ Owned(st)
<1>1. Init => Inv
  BY StartsWhole
<1>2. ASSUME Inv, [Next]_vars PROVE Inv'
  <2>1. ASSUME NEW f \in Forms, NEW bytes \in Bytes, Eval(f, bytes) PROVE Inv'
    <3>1. f \in AnyForm
      BY FormsAreForms
    <3> DEFINE s == [st EXCEPT !.memory = bytes]
               o == vm_eval(s, f)
    <3>2. /\ Owned(st) => Owned(s)
          /\ Kept(s, o) /\ Whole(st') /\ (Owned(st') <=> Owned(o.st))
      BY <1>2, <2>1, <3>1, EvalFrom
    <3> HIDE DEF s, o
    <3>3. QED
      BY <1>2, <3>2 DEF Kept
  <2>2. CASE UNCHANGED vars
    BY <1>2, <2>2 DEF vars
  <2>3. QED
    BY <1>2, <2>1, <2>2 DEF Next
<1>3. Inv => NativeCodeIsOwn
  BY DEF Whole, Counters, Caches, Owned, NativeCodeIsOwn
<1>4. QED
  BY <1>1, <1>2, <1>3, PTL DEF Spec
=============================================================================
