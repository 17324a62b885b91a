------------------------------- MODULE VmEval -------------------------------
(***************************************************************************)
(* vm_eval (src/src/vm/mod.rs): the compile cache, the choice between the  *)
(* VM and the tree-walker, and native code for hot chunks.                 *)
(*                                                                         *)
(* A form is a sequence of items: one item stands for itself, several for  *)
(* (begin item ...).  An item is                                           *)
(*    const v      an integer literal                                      *)
(*    float v      a float literal, or a complex one with no imaginary     *)
(*                 part, that prints like the integer v                    *)
(*    symbol n     a name, evaluated for its value                         *)
(*    call n       (n): a call, or a macro use                             *)
(*    tick         (tick): a call of a builtin with a side effect          *)
(*    define n v   (define n b), b a builtin that returns v                *)
(*    defmacro n v (defmacro n () v)                                       *)
(* One action evaluates one top-level form: the interpreter is sequential. *)
(* What matters lasts from one form to the next: bindings and caches.      *)
(***************************************************************************)
EXTENDS Integers, Sequences, FiniteSets, SequencesExt

CONSTANTS
  Names,         \* names that forms define and call
  Forms,         \* the top-level forms of the session
  AotFiles,      \* AOT files: sequences of [form : form, id : chunk id]
  HotThreshold,  \* JitCache::HOT_THRESHOLD (10 in the code)
  MaxEvals       \* bound: forms evaluated

VARIABLES
  st,            \* the interpreter: see Init
  evals,         \* forms evaluated so far
  outcome        \* history: the last form's result, and what it should be

vars == <<st, evals, outcome>>

NoChunk == [id |-> 0, code |-> << >>, of |-> << >>]
Cold == [count |-> 0, code |-> << >>]
Nothing == [kind |-> "unbound", val |-> 0]
Fresh == [n \in Names |-> Nothing]         \* global_env(): builtins only

Ops == {"const", "float", "symbol", "call", "tick", "define", "defmacro"}
Items == {i \in [op : Ops, name : Names \cup {"", "tick", "builtin"}, val : Int] :
            /\ i.op \in {"call", "define", "defmacro"} => i.name \in Names
            /\ i.op \in {"const", "float", "tick"} => i.name = ""}

ASSUME NamesAssumption == Names \cap {"", "tick", "builtin"} = {}
ASSUME FormsAssumption == Forms \subseteq Seq(Items) \ {<< >>}
ASSUME AotAssumption ==                    \* what compile_to_bytes writes
  \A file \in AotFiles : \A k \in 1..Len(file) :
    /\ file[k].form \in Seq(Items) \ {<< >>} /\ file[k].id \in Nat \ {0}
    /\ \A j \in 1..Len(file[k].form) : file[k].form[j].op # "defmacro"
ASSUME ThresholdAssumption == HotThreshold \in Nat \ {0}

Init ==
  /\ st = [binding    |-> Fresh,
           effects    |-> 0,
           compilable |-> [k \in {} |-> TRUE],    \* CompileCache::compilable
           chunks     |-> [k \in {} |-> NoChunk], \* CompileCache::chunks
           jit        |-> [i \in {} |-> Cold],    \* JitCache::entries
           nextId     |-> 1,                      \* CHUNK_ID_COUNTER
           memory     |-> "intact",               \* what native code finds: see Bytes
           unseen     |-> FALSE,  \* history: a macro is bound that invalidated no entry
           mixed      |-> FALSE]  \* history: this evaluation ran the chunk of another form
  /\ evals = 0
  /\ outcome = [form |-> << >>, got |-> << >>, want |-> << >>,
                ticks |-> 0, wantTicks |-> 0, stale |-> FALSE, mixed |-> FALSE]

(* What an evaluation leaves behind: the interpreter and a result.         *)
Done(s, r) == [st |-> s, res |-> r]
Ok(kind, v) == <<"ok", kind, v>>
Number(v) == Ok("int", v)
Nil == Ok("nil", 0)
Err(why) == <<"error", why, 0>>
Failed(o) == o.res[1] = "error"

Binding(s, n) == IF n \in Names THEN s.binding[n] ELSE Nothing
Bound(s, n, kind, v) == [s EXCEPT !.binding[n] = [kind |-> kind, val |-> v]]
Ticked(s) == [s EXCEPT !.effects = @ + 1]

(* Do the items in order with Do, until one fails.                         *)
InOrder(s, items, Do(_, _)) ==
  FoldLeft(LAMBDA o, item : IF Failed(o) THEN o ELSE Do(o.st, item),
           Done(s, Nil), items)

-----------------------------------------------------------------------------
(* What can be compiled, and compiling it.                                 *)

IsMacroUse(b, item) == item.op = "call" /\ b[item.name].kind = "macro"

IsCompilable(b, f) ==
  \A k \in 1..Len(f) : f[k].op # "defmacro" /\ ~IsMacroUse(b, f[k])

Expand(b, item) ==
  IF IsMacroUse(b, item)
  THEN [op |-> "const", name |-> "", val |-> b[item.name].val]
  ELSE item

Compile(b, f) == [k \in 1..Len(f) |-> Expand(b, f[k])]

(* CompileCache::key: the text a form prints as.  Forms that differ only   *)
(* in the type of a number have one text, and so one entry in the caches.  *)
Printed(item) == IF item.op = "float" THEN [item EXCEPT !.op = "const"] ELSE item
Key(f) == [k \in 1..Len(f) |-> Printed(f[k])]

-----------------------------------------------------------------------------
(* The bytecode of one item.  A name bound to a macro cannot become a VM   *)
(* value: the error says "uncompilable".                                   *)
RunItem(s, item) ==
  LET b == Binding(s, item.name)
  IN CASE item.op = "const"  -> Done(s, Number(item.val))
       [] item.op = "float"  -> Done(s, Ok("float", item.val))
       [] item.op = "tick"   -> Done(Ticked(s), Nil)
       [] item.op = "define" -> Done(Bound(s, item.name, "fn", item.val), Nil)
       [] item.op \in {"call", "symbol"} /\ b.kind = "fn" -> Done(s, Number(b.val))
       [] item.op = "symbol" /\ item.name \notin Names -> Done(s, Ok("builtin", 0))
       [] item.op \in {"call", "symbol"} /\ b.kind = "macro" -> Done(s, Err("uncompilable"))
       [] OTHER              -> Done(s, Err("undefined"))

(* The same item as native code.  Calls are not implemented; a number      *)
(* comes back as a float, and a function not at all.  A chunk's names are  *)
(* addressed in memory that is freed after the run that compiled it: a     *)
(* later run finds the bytes intact, or reads another name for the one it  *)
(* loads, or for the one it stores.                                        *)
Bytes == {"intact", "load lost", "store lost"}
NativeItem(s, item) ==
  CASE item.op \in {"const", "float"} -> Done(s, Ok("float", item.val))
    [] item.op = "define" /\ s.memory = "intact" ->
         Done(Bound(s, item.name, "fn", item.val), Nil)
    [] item.op = "define" /\ s.memory = "store lost" -> Done(s, Nil)
    [] OTHER -> Done(s, Err("native"))

(* JitCache::tick: the native code to run, if any, and the new entry.      *)
Entry(s, id) == IF id \in DOMAIN s.jit THEN s.jit[id] ELSE Cold
TickAgain(e, chunk) ==                      \* mutant: compiled, and still counting
  [count |-> e.count + 1,
   code |-> IF e.count + 1 >= HotThreshold THEN chunk.code ELSE << >>]
Tick(e, chunk) ==
  IF e.code # << >> THEN e
  ELSE [count |-> e.count + 1,
        code |-> IF e.count + 1 >= HotThreshold THEN chunk.code ELSE << >>]

Update(f, k, v) == [x \in DOMAIN f \cup {k} |-> IF x = k THEN v ELSE f[x]]

(* VM::run.  A chunk that has just been compiled finds its bytes intact.   *)
RunChunk(s, chunk) ==
  LET old == Entry(s, chunk.id)
      new == Tick(old, chunk)
      t == [s EXCEPT !.jit = Update(@, chunk.id, new)]
      first == InOrder([t EXCEPT !.memory = "intact"], new.code, NativeItem)
  IN IF new.code = << >> THEN InOrder(t, chunk.code, RunItem)
     ELSE IF old.code = << >> THEN Done([first.st EXCEPT !.memory = s.memory], first.res)
     ELSE InOrder(t, new.code, NativeItem)

-----------------------------------------------------------------------------
(* vm_eval, which calls the tree-walker, which calls vm_eval on parts of   *)
(* the form.  A part is smaller: the levels of that recursion are names    *)
(* and constants, items, and forms.                                        *)
IsDefmacro(f) == Len(f) = 1 /\ f[1].op = "defmacro"

InvalidateNever(s) == s                     \* mutant: the cache is kept
Invalidate(s) == [s EXCEPT !.compilable = [k \in {} |-> TRUE]]
Seen(s) == [s EXCEPT !.unseen = FALSE]

(* A chunk remembers what it was compiled from, as a history.              *)
ChunkOf(id, b, f) == [id |-> id, code |-> Compile(b, f), of |-> f]
NewChunkSameId(s, f) ==                     \* mutant: the counter stands still
  [s EXCEPT !.chunks = Update(@, Key(f), ChunkOf(s.nextId, s.binding, f))]
NewChunk(s, f) ==
  [s EXCEPT !.chunks = Update(@, Key(f), ChunkOf(s.nextId, s.binding, f)), !.nextId = @ + 1]

(* A runtime error that starts with "uncompilable" starts the whole form   *)
(* again, in the tree-walker.                                              *)
FallsBackNever(o) == FALSE                  \* mutant: the error is returned
FallsBack(o) == o.res = Err("uncompilable")

(* vm_eval, TreeEval being eval_tree.                                      *)
Checked(s, f) ==
  LET can == IF Key(f) \in DOMAIN s.compilable THEN s.compilable[Key(f)]
             ELSE IsCompilable(s.binding, f)
  IN [s EXCEPT !.compilable = Update(@, Key(f), can)]
Linked(s, f) ==
  IF Key(f) \notin DOMAIN s.chunks THEN NewChunk(s, f)
  ELSE IF s.chunks[Key(f)].of = f THEN s
  ELSE [s EXCEPT !.mixed = TRUE]

VmBy(s0, f, TreeEval(_, _)) ==
  LET s == Checked(s0, f)
      t == Linked(s, f)
      ran == RunChunk(t, t.chunks[Key(f)])
      walked == TreeEval(s, f)
  IN IF s.compilable[Key(f)] THEN IF FallsBack(ran) THEN TreeEval(ran.st, f) ELSE ran
     ELSE IF IsDefmacro(f) /\ ~Failed(walked)
          THEN Done(Seen(Invalidate(walked.st)), walked.res)
     ELSE walked

(* Names and constants.                                                    *)
TreeAtom(s, f) ==
  LET b == Binding(s, f[1].name)
  IN IF f[1].op = "symbol" /\ b.kind = "macro" THEN Done(s, Ok("macro", b.val))
     ELSE RunItem(s, f[1])
VmAtom(s, op, n, v) == VmBy(s, <<[op |-> op, name |-> n, val |-> v]>>, TreeAtom)

(* eval_step on one item.  Its parts go through vm_eval again.             *)
Then(o, s, r) == IF Failed(o) THEN o ELSE Done(s, r)

TreeItem(s, f) ==
  LET item == f[1]
      b == Binding(s, item.name)
      head == VmAtom(s, "symbol", IF item.op = "tick" THEN "tick" ELSE item.name, 0)
      builtin == VmAtom(s, "symbol", "builtin", 0)
  IN CASE item.op \in {"const", "float", "symbol"} -> TreeAtom(s, f)
       [] item.op = "tick" -> Then(head, Ticked(head.st), Nil)
       [] item.op = "define" ->
            Then(builtin, Bound(builtin.st, item.name, "fn", item.val), Number(item.val))
       [] item.op = "defmacro" ->
            Done([Bound(s, item.name, "macro", item.val) EXCEPT !.unseen = TRUE], Nil)
       [] item.op = "call" /\ b.kind = "macro" -> VmAtom(s, "const", "", b.val)
       [] OTHER -> Then(head, head.st, Number(b.val))
VmItem(s, item) == VmBy(s, <<item>>, TreeItem)

(* eval_tree: all items but the last go through vm_eval, the last is       *)
(* trampolined and stays with the tree-walker.                             *)
Trampolined(o, item) == IF Failed(o) THEN o ELSE TreeItem(o.st, <<item>>)
TreeForm(s, f) == Trampolined(InOrder(s, Front(f), VmItem), Last(f))

vm_eval(s, f) == VmBy(s, f, TreeForm)

(* What the form means: the tree-walker's rules over the bindings alone.   *)
Meaning(s, item) ==
  LET b == Binding(s, item.name)
  IN CASE item.op = "defmacro" -> Done(Bound(s, item.name, "macro", item.val), Nil)
       [] item.op = "call" /\ b.kind = "macro" -> Done(s, Number(b.val))
       [] item.op = "symbol" /\ b.kind = "macro" -> Done(s, Ok("macro", b.val))
       [] OTHER -> RunItem(s, item)

Eval(f, bytes) ==
  LET o == vm_eval([st EXCEPT !.memory = bytes], f)
      m == InOrder(st, f, Meaning)
  IN /\ evals < MaxEvals
     /\ evals' = evals + 1
     /\ st' = [o.st EXCEPT !.effects = 0, !.memory = "intact", !.mixed = FALSE]
     /\ outcome' = [form |-> f, got |-> o.res, want |-> m.res,
                    ticks |-> o.st.effects, wantTicks |-> m.st.effects,
                    stale |-> st.unseen, mixed |-> o.st.mixed]

(* aot_load_file: the entries were compiled by another process, in a fresh *)
(* environment, and keep the ids they had there.  A truncated file loads   *)
(* up to the damage.  Of two entries with one key the later stays.         *)
LoadAot(file, n) ==
  LET keys == {Key(file[k].form) : k \in 1..n}
      last(key) == CHOOSE k \in 1..n : /\ Key(file[k].form) = key
                                       /\ \A j \in (k + 1)..n : Key(file[j].form) # key
      chunk(key) == ChunkOf(file[last(key)].id, Fresh, file[last(key)].form)
  IN /\ evals < MaxEvals
     /\ st' = [st EXCEPT
          !.compilable = [k \in DOMAIN @ \cup keys |-> IF k \in keys THEN TRUE ELSE @[k]],
          !.chunks = [k \in DOMAIN @ \cup keys |-> IF k \in keys THEN chunk(k) ELSE @[k]],
          !.unseen = @ \/ \E k \in keys : ~IsCompilable(st.binding, k)]
     /\ evals' = evals + 1
     /\ UNCHANGED outcome

Next ==
  \/ \E f \in Forms, bytes \in Bytes : Eval(f, bytes)
  \/ \E file \in AotFiles : \E n \in 1..Len(file) : LoadAot(file, n)

Spec == Init /\ [][Next]_vars

-----------------------------------------------------------------------------
(* A result as it prints.                                                 *)
Shown(r) == IF r[1] = "ok" /\ r[2] = "float" THEN Number(r[3]) ELSE r

(* Whatever was defined, redefined, loaded and cached before, a form that  *)
(* ends in a call or a constant gives what prints like the tree-walker's   *)
(* result, and the same result unless some form, on the way, found under   *)
(* its text the chunk of a form with numbers of another type.              *)
ResultsAreTheForms ==
  outcome.form # << >> /\ Last(outcome.form).op # "define"
    => /\ Shown(outcome.got) = Shown(outcome.want)
       /\ ~outcome.mixed => outcome.got = outcome.want

(* Names that the session binds to macros, and forms in which no side      *)
(* effect comes before the use of such a name as a value: the bytecode of  *)
(* any other form stops there, half done, and the tree-walker does the     *)
(* whole form again.                                                       *)
MacroNames ==
  {n \in Names : \E f \in Forms : \E k \in 1..Len(f) : f[k].op = "defmacro" /\ f[k].name = n}
TicksLast(f) ==
  \A j, k \in 1..Len(f) :
    j < k /\ f[j].op = "tick" /\ f[k].op = "symbol" => f[k].name \notin MacroNames

(* Side effects happen once, in such forms, as long as every macro was     *)
(* bound by a defmacro that vm_eval itself saw.                            *)
EffectsHappenOnce ==
  ~outcome.stale /\ TicksLast(outcome.form) => outcome.ticks = outcome.wantTicks

(* A chunk is counted until it is compiled to native code, and never       *)
(* after, and native code belongs to the chunk that runs it.               *)
NativeCodeIsOwn ==
  /\ \A i \in DOMAIN st.jit : st.jit[i].count \in 1..HotThreshold
  /\ \A k \in DOMAIN st.chunks :
       LET e == Entry(st, st.chunks[k].id)
       IN e.code # << >> => e.code = st.chunks[k].code
=============================================================================
