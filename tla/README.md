# A verification project for uwulisp (pilisp)

uwulisp is a Lisp interpreter in Rust: a reader, a tree-walking evaluator, a
bytecode compiler with a stack VM and a JIT, a mark-and-sweep heap of environment
frames, an object system, foreign calls, and a cubical type checker.  This
directory holds TLA+ models of its core, TLC configurations that check them on
small instances, and TLAPS proofs of the properties that matter most for
every instance.  Paths below are relative to the repository root's `src/`
(`gc.rs` is `src/src/gc.rs` in `PROJECT.json`).

## The system

| component | state it keeps | operations | what makes it correct |
|---|---|---|---|
| heap (`gc.rs`) | slots, generations, mark bits, free list, live count, root stack, threshold | `alloc`, `env_get/set/assign`, `parent_of`, `push_root/pop_root`, `collect`, `maybe_collect`, their registered-root variants | frees exactly what the roots do not reach; never lets two frames share a handle; its bookkeeping is exact |
| tree-walker (`eval.rs`) | the Rust stack: one environment per nested evaluation, and locals | special forms, `apply_step`, the trampoline, `import` | environments it will use again are still there |
| VM (`vm/machine.rs`) | operand stack, call frames | one per opcode, `do_call`, `run` | the same, and the result equals the tree-walker's |
| `vm_eval` and caches (`vm/mod.rs`, `vm/cache.rs`) | `compilable`, `chunks` (thread local) | `vm_eval`, insert, invalidate | caching changes no result and no effect |
| compiler (`vm/compiler.rs`, `vm/bytecode.rs`) | the chunk id counter | `is_compilable`, `expand_all`, `compile_*` | compiled code means what the form means |
| JIT (`vm/jit_cache.rs`, `vm/jit_compiler.rs`, `vm/jit_abi.rs`) | a counter and native code per chunk id | `tick`, `compile_chunk`, helpers | native code belongs to its chunk and means the same |
| AOT (`vm/aot.rs`) | a file of (key, chunk) | `compile_to_bytes`, `load_into_cache` | a loaded chunk is as good as a compiled one |
| macros (`macros.rs`), reader (`reader.rs`) | none | quasiquote expansion, parsing | round trips and nesting depth |
| object system (`builtins/clos.rs`, `lib/clos.pi`) | two thread-local tables: the methods of each generic function, the precedence list of each class | define a class, a method; call a generic function; `subtypep` | subtypes are ancestors; a call runs the standard combination |
| threads (`builtins/utils.rs`, `builtins/asm.rs`) | the workers of one call | `parallel-eval`, `thread-eval`, `load-asm-parallel` | the answer does not depend on who is faster; a call returns when its answer is decided |
| assembler (`tinyasm/`) | the label table; a region of pages and its protection | two-pass assembly, `JitMemory` | the passes agree; what runs is complete and can no longer be written |
| other builtins (`builtins/`) | loaded libraries, documentation | arithmetic, higher-order functions, FFI, sockets, terminal | call back safely |
| cubical: terms and rules (`cubical/interval.rs`, `syntax.rs`, `nbe.rs`, `equality.rs`, `typechecker.rs`) | none | normal forms of the interval, evaluation and quotation, equality with fuel, checking | accepted terms compute, keep their types, and equality respects eta |
| cubical: programs (`cubical/mod.rs`, `env.rs`, `parser/`) | definitions and datatypes; the sets of loaded and loading files; a parser for each file under way | parse, import, declare a datatype, define | a name means the same to parser and checker; each file is loaded once, after its imports; cycles are refused |

How they interact: `main.rs` reads forms and calls `eval`, which is `vm_eval`.
That chooses the VM or the tree-walker; the tree-walker evaluates parts of a
form through `vm_eval` again, the VM falls back on the tree-walker
(`TreeEval`, "uncompilable"), and builtins such as `map` call back into
`apply`.  All of them share one heap, passed as `&mut`, and thread-local
caches.  A collection runs at the end of a call (`maybe_collect`), with the
roots that the caller of that moment can name.  The interpreter is one thread.
`parallel-eval` and `load-asm-parallel` start others, each with an interpreter
or a region of memory of its own, and join them in order.  The cubical checker is
a program of its own within the binary: a run loads a file and what it imports,
parses each declaration with the names known so far, and checks it.

What is hard in the interpreter is therefore not interleaving of threads but of
evaluations: an inner evaluation changes the heap and the caches under the outer
ones.  In the checker it is bookkeeping: names that become indices, indices that
become levels and go back, and definitions that arrive while a file is half read.
`PROJECT.json` lists the hazards at their lines.

## Modules

| module | models | plays the part of |
|---|---|---|
| `EnvGraph` | frames, references, reachability, lookup | operators, no state |
| `EnvStore` | what the heap promises | abstract specification |
| `Heap`, `MCHeap` | `gc.rs` | detailed specification and its instances |
| `HeapProofs` | theorems about `Heap`: its invariant; what it promises as an `EnvStore` | |
| `Folding` | facts about folds, for the proofs | |
| `EvalStack`, `MCEvalStack` | root sets of nested evaluators: `eval.rs`, `vm/machine.rs`, `builtins/base.rs` | the client of the heap that the repository has |
| `EvalStackProofs` | theorems about `EvalStack` | |
| `VmEval`, `MCVmEval` | `vm/mod.rs`, `vm/cache.rs`, `vm/jit_cache.rs`, `vm/aot.rs` | caches, fallback, native code |
| `VmEvalProofs` | theorems about `VmEval` | |
| `Values` | `expr.rs`, `vm/bytecode.rs`, seven builtins | expressions, values, environments as data |
| `Compile` | `vm/compiler.rs` | the rules for the code of each form, over the code of its parts |
| `Compiler` | `vm/compiler.rs` | the recursion of these rules: the code of a form, a pure function |
| `TreeWalk` | `eval.rs`, `macros.rs` | the value of a form, a pure function: the reference for `Machine` |
| `Machine`, `MCMachine` | `vm/machine.rs` | the VM instruction by instruction, and its instances |
| `MachineProofs` | theorems about `Machine` and `Compile` | |
| `Interval` | `cubical/interval.rs` | formulas and disjunctive normal forms |
| `Terms` | `cubical/syntax.rs` | terms, shifting, substitution |
| `Normal` | `cubical/nbe.rs` | evaluation to normal forms, transport and composition |
| `Equality` | `cubical/equality.rs` | definitional equality with fuel |
| `Typing` | `cubical/typechecker.rs` | the bidirectional checker |
| `Surface` | `cubical/parser/grammar.rs` | from syntax with names to terms with indices |
| `Imports` | imports in `cubical/mod.rs` | the stack of files under way |
| `ImportsProofs` | theorems about `Imports` | |
| `Cubical`, `MCCubical` | `cubical/mod.rs`, `env.rs`, `parser/mod.rs` | a run of a program: `Imports` composed with all of the above |
| `Clos`, `MCClos` | `builtins/clos.rs` | classes, methods, dispatch |
| `ClosProofs` | theorems about `Clos` | |
| `Assembler` | `tinyasm/assembler.rs` and the processor | two passes, and what code does when it runs |
| `Workers`, `MCWorkers` | `builtins/asm.rs`, `builtins/utils.rs`, `tinyasm/jit.rs` | workers, their memory and their caller |
| `WorkersProofs` | theorems about `Assembler` and `Workers` | |

### Heap

A value is abstracted to the set of environments its lambdas capture; that is
all the collector sees of it (`collect_lambda_envs`).  A frame is a parent and
a map from names to such sets.  `Heap` keeps the fields of the struct: slots,
generations (modulo `GenMod`, so that `wrapping_add` really wraps), mark bits,
free list, live count, threshold, root stack.  `mark` and `sweep` are loops, and
each iteration is a step, so that the loops' own invariants can be stated;
`phase`, `cursor` and `andThen` say where in `collect` or `alloc` the heap is,
and no client step is possible meanwhile, as in the code.  The mark stack is a
set because the order in which bindings are pushed is that of a `HashMap`.

The client in this module follows the contract in the comments of `gc.rs`: when
it asks for a collection, the roots it gives reach everything it holds.  Under
that contract the heap is proved safe.  `birth` is a history field in handles:
the code compares index and generation only, and `birth` tells whether a handle
that compares equal is the same one.

`EnvStore` is the promise to clients: a store from which frames out of reach
may vanish, never others, with handles never given out twice.  `Heap` implements
it under the mapping that shows the occupied slots under the handles last issued
for them; every step of a collection is a `Reclaim` or a stutter.

### EvalStack

`EvalStack` replaces that client by the ones the repository has.  `stack` is the
nest of evaluations in progress: one element for each run of the tree-walker,
one for each VM call frame, `entry` marking where an evaluation starts.  Each
has an environment, perhaps a frame under construction (`let`, `let*`, `for`),
and the environments captured by values it holds in Rust locals or on the
operand stack.  What an expression says is left open: an evaluator may take any
of its steps at any time, so every program is covered.  A collection is one step
with exactly the roots the code passes: `[call_site_env, closure_env,
call_frame]` in `apply_step`, the frames' environments in `do_call`, the
registration environment in `map`, `filter` and `fold`.  `exposed` is history:
a collection has run that did not have this element's environment among its
roots.

### VmEval

One action is the evaluation of one top-level form.  Forms are built from items
that tell apart what caches can get wrong: literals, names, calls that may be
macro uses, a call with a side effect, `define` and `defmacro`.  Literals are of two
types: the key of both caches is the text a form prints as, and a float, or a complex
number without imaginary part, can print like an integer (`expr.rs:60-65`), so `Key`
gives the items `float v` and `const v` the same key, and a form may find the chunk that another
left.  `mixed` is history: it says that this happened in the last evaluation.  Functions
and lambdas as literal values, which all print as `<builtin>` and `<lambda>`, are not
among the forms: the reader makes none.  Nor is arithmetic; what a builtin makes of a
number of the wrong type is outside this model, and may differ by more than the type.
The state is
what lasts between forms: bindings, the compilable map, the chunk map, the
native-code entries, the id counter.  `VmBy` follows `vm_eval` step by step, around
a tree-walker that is its parameter; `RunChunk` is `VM::run` with its JIT tick.  In
the code the two functions call each other on smaller and smaller parts, which
in this language of forms are three levels: `TreeAtom` is the tree-walker on names and
literals, which evaluates no part; `TreeItem` calls `VmAtom`, and `TreeForm`
calls `VmItem`.  `Meaning` is the reference: what the form does with no cache at
all.  `Bytes` stands for an undefined behaviour: native
code addresses names in memory that may since have been reused.

### Machine, Compile, Compiler, TreeWalk

`Machine` is `VM::run`: the operand stack, the call frames and the environments,
with one action for each instruction and one, `Fail`, for every error.  An item
of the stack is a value with the code a lambda carries, since the conversions
between stack and environment are where code is dropped, compiled again
(`ToVm`) or replaced by a placeholder (`FromPrim`).  What the compiler and the
tree-walker do are parameters of the module (`CodeOf`, `TreeEval`), so that
theorems about the machine hold for any compiler; `MCMachine` gives them the
values `Compiler!Chunk` and `Walk`.

`Compile` translates each `compile_*` function: the code of a form at a place,
with jump targets, tail positions and scopes; `WellFormedRule` collects the checks of
arity and shape that these functions make on the way (`is_compilable`, which is asked
before, is in `VmEval`).
The compiler calls itself on the parts of a form.  In `Compile` these calls are
constants (`Code`, `Quasi`, `WellFormed`, `Fits`), so that the provers can reason
about the rules; `Compiler` closes the recursion: its `Code` is `CodeRule` with
`Code` for the calls, and so on.  TLC runs `Compiler`.  `TreeWalk` translates
`eval_step`, the special forms, `apply_step` and `eval_quasiquote`; it is recursive
over forms and is used by the model checker only.  Environments are not collected in these modules, macros have
been expanded (`VmEval` is about when), floats, complex numbers and strings
are left out: the evaluators pass them along as they pass integers.

The bytecode verifier one would want for this VM is `WellTyped`: the chunk has an
annotation, operands before each instruction, that adds up along every path.
`WellScoped` is the same of scopes, which a chunk opens and closes in one frame.
`CodeIsWellTyped` checks both of what the compiler emits, and the theorems of
`MachineProofs` say what it is good for, and that it holds for every form.

`StoreSelf` has no action: the compiler puts it at the head of a defined lambda's
code, and that code never runs, because the `StoreVar` after it keeps the lambda
without its code.  If some program reached it the machine would be stuck, and
the run, which checks for deadlock, would say so.

The two evaluators do not agree on everything.  The forms of `MCMachine` leave
out what follows, which was found while modelling:

* `for` with bounds that are not literals compiles to `TreeEval`, which ends the
  frame: `(begin (for i a b body) 5)` gives `()` where the tree-walker, and
  `docs/document.md:218`, give 5.
* `(tailcall f)` reuses the frame even where it is not in tail position, and the
  rest of the expression is lost; the comment at `vm/machine.rs:652` takes the
  frame's part of the stack to be empty.
* A compiled template evaluates its unquoted parts from last to first, the
  tree-walker from first to last; and `,@()` with a literal `()` fails when
  compiled, because the constant is `Nil` and not a list.
* `define` has the value `()` when compiled and the value bound in the
  tree-walker; `eval.rs:321` says the former.
* A `let` that binds a name twice keeps the first value when compiled.
* A `for` over numbers whose body assigns or captures its variable sees the
  variable that counts when compiled, a copy in the tree-walker.
* A lambda with several bodies compiles; the tree-walker rejects it.
* The loops call `+`, `<`, `not`, `null?`, `car` and `cdr` by name, so a program
  that binds these changes its loops.

### The cubical checker

`Interval`, `Terms`, `Normal`, `Equality`, `Typing` and `Surface` are pure and
follow the source function by function.  A term is a record with a kind `k` and
its parts in `s`; binders carry their names, as in the code, where printing needs
them.  Variables are de Bruijn indices.  The code evaluates to values with
closures and quotes them back; `Normal` keeps that: `eval_nbe` makes closures that
hold an environment, levels count from the outside, `quote` turns them into
indices.  `value_to_dnf`, `quote_cases`, `eval_body_at_formal_interval` and
`uses_tvar_0` are translated with their irregularities, which are listed under
the disagreements.  `Equality` has the fuel of `eta_eq` and its three answers, without the
memo table.  `Typing` has one operator for each rule, named for it; a result is
`Ok(v)` or `Err` with the constructor of the `TypeError`.  `Surface` begins where
the tokens have been grouped: it resolves names to indices, constructors or
datatypes in the order of `resolve_ident`, and desugars declarations.

`Imports` is the state machine: `stack` holds the calls of `process_file_source`
in progress, each a file and the next declaration, `loaded` and `loading` are
the two sets, and `phase` ends as done or with the kind of error.  `Cubical` composes
it with the rest: each file under way has a parser with its own list of globals,
which starts empty and is synchronised from the environment after every import;
the environment is the run's.  `Data` and `Def` are `process_data` and
`process_def`, including that a definition is in scope of its own value.
The entry points of the checker and the evaluator (`Check`, `Infer`, `Reduce`,
`Compare`) are parameters of `Cubical`, as `CodeOf` is of `Machine`; `MCCubical` gives
them the operators of `Typing`, `Normal` and `Equality`.

### Object system

One generic function stands for all of them, since a call looks at the methods of
its own only.  The state is the table of precedence lists, the list of methods
and the call just made.  `parents` and `settled` are history: the direct
superclasses as last defined, and whether a class was ever redefined under its
subclasses.  The reference, `Ancestors` and `Combined`, is written on `parents`
alone.

Noted on the way: the specificity of unrelated specializers is alphabetical, so
with multiple inheritance "more specific" is not transitive (`c` below `a`, but
`a` before `b` before `c`), and the insertion sort can then run a primary that
is not the most specific; `docs/builtins/clos.md:109` promises the most specific.
`MethodsRunInOrder` leaves out calls whose methods are not comparable.  Defining
a method again with the same specializers adds a second one: the old primary
keeps winning, and `:before` methods run twice.  Redefining a class does not
reach the lists its subclasses stored.  `call-next-method` does not exist.

### Workers and Assembler

A worker of `load-asm-parallel` reads, parses, assembles, maps, writes, seals and
calls, one action each, any of which may end it with an error; a worker of
`parallel-eval` evaluates its source in one action, because it shares nothing
with the others.  The caller spawns all, joins in order and returns at the first
error.  The region has the protection of its pages and, apart from it, the state
`JitMemory` thinks it is in.

`Assembler` has both passes.  Machine code is a sequence of bytes of which the
first of each instruction tells all of it and the others are `rest`: a jump to
the middle of an instruction is a fault.  The encodings themselves are left out;
an instruction is its size, and its effect on a register and a flag.
`NativeFollowsTheSource` then says that running the bytes takes the same steps
as reading the program does: labels of the first pass, displacements of
the second and sizes in both must agree.  `MaxRel` is the largest displacement,
small enough for one of the programs to exceed it.

Noted on the way: in `.asm` files a label line with a comment after it is not
recognised as a label, and an operand that contains the letters `PTR` loses what
stands before them.

## Runs

| run | bounds | shows |
|---|---|---|
| `MCHeap` | 2 slots, 3 allocations, 2 generations, thresholds 0 and 1, 1 name | bookkeeping, marking and retention at every step of every collection; collections end; `Heap` implements `EnvStore` |
| `MCEvalStack` | depth 2, 3 environments, 1 scope, 2 values | own collections keep own environments |
| `MCVmEval` | 5 evaluations of 9 forms, hot threshold 10 | results and effects with every order of define, defmacro, use and load; results as they print, whichever form left the chunk |
| `MCVmEvalHot` | 6 forms, hot threshold 2 | counters and native code |
| `MCMachine` | some 750 programs | stack, frames and scopes in order, programs end, compiled and walked meanings agree |
| `MCCubical` | 23 types by 70 values, 125 programs of three files | what is accepted keeps its type, computes and equals its expansion; files load once, in order, and every run ends |
| `MCClos` | 3 classes with 4 lists of superclasses, 3 methods out of 8 | subtypes are ancestors, calls run the standard combination |
| `MCWorkers` | 11 files alone and in pairs, 4 sources in threes | every interleaving of workers and caller |

Two slots and three allocations with two generations are enough for a slot to be
freed, reused, freed again and reused under a generation its first handle had:
the case `NoAlias` is about.  A frame that is reached only through a binding of
another, a cycle through a closure and a garbage cycle all fit in two or three
frames.  Threshold 1 makes every allocation past the first collect, which only
brings collections nearer than the code's 1024.  In `EvalStack` three
environments are the global one, a closure's and a call's; depth 2 is a
collection inside a nested evaluation.

`MCMachine` puts each of some sixty small forms (constants, variables, each
special form over them) into thirteen contexts: an argument, both branches and
the test of an `if`, a `begin`, initialisers of `let` and `let*`, the body and
the list of a `for`, arguments and bodies of functions called once and by name,
templates at depths one and two.  A compiler that gets an offset, an order, a
scope or a tail position wrong gets it wrong where one form stands inside
another, and a form in a context has every such pair.  Loops by tail calls run
three rounds, through one function and through two.

`MCCubical` tries every value of a list at every type of a list, so that both
acceptance and refusal are reached for each rule: numbers, functions, paths,
pairs, transports along lines that are constant, equivalences, functions, pairs
and paths, compositions with eight faces, gluing, eliminators, a datatype with a
path constructor.  The properties speak of what is accepted.  `plus`, the one
recursive definition, is tried at its own type only: at a wrong type the checker
unfolds it without end (see below), and so would the model.  The linked programs
have cycles of length one, two and three, diamonds, repeated imports, imports
half way through a file, missing files and files in another directory.

`MCClos` stops where a class is redefined under its subclasses (`WhileSettled`):
nothing is claimed from there on.  Three methods are enough for one to pass two
others in the sort.

The files of `MCWorkers` are loops that end, one that does not, jumps forward and
backward over instructions of different sizes, labels at the beginning and the
end, an empty file, one that cannot be read, a line that does not parse, a label
defined twice, one not defined, and a jump out of range.

Bounds of the models are the constants that begin with `Max`; `HotThreshold`,
`Threshold` and `GenMod` are parameters of the code.

Fairness: in `Heap`, `LiveSpec` adds `WF_vars(GcStep)`: the loops of `mark` and `sweep` keep
running once entered, being sequential code with nothing to wait for.  Nothing
is assumed about the client.  In `Machine`, `LiveSpec` says that the loop of `run`
keeps taking steps until it returns, for the same reason; it is weak fairness of
`Next`, spelled out because `Next` is enabled exactly while the machine runs.

In `Cubical` the loop over declarations keeps running (`WF_loadVars(LoadNext)`), for
the same reason again.  In `Workers` each thread is scheduled again and again
(weak fairness of the caller and of each worker): threads of the operating
system that wait for nothing but each other's end.  Nothing is assumed about
how fast they are, nor that native code ends.

`CHECK_DEADLOCK FALSE` is set where the system stops: a session of `VmEval` ends
after `MaxEvals` forms, a run of `Cubical` with its result or its error, a call
in `Workers` when it has returned and the workers have ended.

Every property of a passing run has a mutant: a bug in one mapped definition
that makes TLC report that property.  The mutants stand next to what they
mutate.

### Disagreements between code and comments

Four are runs that TLC must find violated, with a comment of the repository as
the property; `PROJECT.json` quotes the lines.

* `MCLetFrameIsSafe`: a call in a binding of a `let` frees the frame that the
  `let` is filling.
* `MCRepeatedFormsAgree`: the tenth evaluation of a form runs as native code and
  gives a float for an integer.
* `MCHollowClosure`: a lambda that a builtin returns has placeholder code, so that
  `((car (list f)) 1)` is `()`.
* `MCTypesAreClosed`: a definition's value is kept with indices that count from
  where it stood, and `apply_globals` puts it into later types as it is.  After
  `def T : U0 = N` and `def T2 : U0 = T`, a type that says `T2` refers to some other
  definition; `def x : T2 = z` is refused.

Others are noted without a run of their own.  In the interpreter:

* Collections free environments that an evaluation further down the Rust stack,
  or a closure on the operand stack, still uses (`vm/machine.rs:685`, against
  `vm/machine.rs:50-54`, `683-684` and `gc.rs:49-52`).  With the code's threshold
  this needs more than 1024 live frames, for instance a long chain of closures,
  and then a form such as `((make-adder 1) (f))`.
* A collection may free the global environment once no closure in use leads to it,
  where `main.rs:15-16` says it cannot.
* A swept slot keeps its generation until it is reused, where `gc.rs:317-321` says
  that sweep bumps it; a threshold of 0 collects always (`gc.rs:240`, `524`), where
  `gc.rs:146-148` and `172-174` say never.
* After `1.0`, evaluating `1` runs the cached chunk of `1.0` and gives a float, since both
  have the key `1` (`vm/cache.rs:57`, `expr.rs:60-61`); `vm/cache.rs:22-27` says that the key
  is "not perfect" for lambdas, but "correct and cheap" for arithmetic.  `MCVmEval` meets
  this case: it is what `mixed` is for.
* A runtime error that looks like the compiler's refusal runs a form twice
  (`vm/mod.rs:130`, against `vm/mod.rs:70-73`).
* A `defmacro` in the last position of a `begin` leaves the compilable map as it
  was, where `vm/cache.rs:14-18` says that every `defmacro` invalidates it; chunks
  loaded from a file keep the ids of the process that wrote it (`vm/aot.rs:258`),
  where `vm/bytecode.rs:293` says ids are unique.

In the cubical checker:

* A stuck eliminator is quoted without the environment of its cases
  (`nbe.rs:1043`), so evaluating a "fully reduced" term (`typechecker.rs:48-49`) may
  change it, two forms may alternate, and checking may not end.
* Path lambdas that were parsed do not compute at the ends of their interval when
  the variable occurs under a path constructor (`docs/dcubical.md:236`):
  `<i> loop @ i` is accepted as a path but its ends do not reduce.
* `value_to_dnf` lets interval levels through as indices; `uses_tvar_0` does not
  count binders; `apply_literal` does not count them either;
  `eval_body_at_formal_interval` evaluates in the caller's environment.
* `eta_eq` compares the bodies of function and pair types without extending the
  context, and answers "exhausted" also where a domain cannot be inferred.
* The cases of `elim` bind in an order that the comment on `ElimCase` gives otherwise.
* A global definition hides an interval variable of the same name; the functions
  of a `TMkEquiv` are checked as if no datatype existed; a datatype declared twice
  is the newest to the parser and the oldest to the checker; arguments of
  constructors cannot depend on earlier ones; a recursive definition inhabits
  any type; the double negation of `i \/ ~i` is not itself.
* The line `name: ✓` is printed before the definition is checked.

## Proofs

All theorems hold for every value of the constants that the named assumptions
allow: `GenModAssumption`, `BoundsAssumption`, `NoHandleAssumption` for the heap;
`StackBounds`, `NoHandleIsNone` for `EvalStack`; `ProgramsAssumption` for imports;
`MaxRelAssumption`, `PageSizeAssumption`, `InputsAssumption` for the assembler and the
workers; `AlphabetAssumption` for classes; `NamesAssumption`, `FormsAssumption`,
`AotAssumption`, `ThresholdAssumption` for `VmEval`.  The bounds on allocations, depth and
threads are arbitrary numbers there.  TLC evaluates every assumption at the
values its runs use.

Some theorems have hypotheses beside these.  Where they are not true by definition,
TLC checks them too, of the inputs of its runs:

| hypothesis | of | says | checked by |
|---|---|---|---|
| `CodesOK`, `ScopesOK` | `OperandsSafe`, `ReturnsClean`, `FramesOrdered`, `ScopesAreClosed` | whatever the compiler, its chunks add up | `CodeIsWellTyped` in `MCMachine`; proved of this compiler (`CompiledCodesOK`) |
| `Data` | `CompiledCodeIsWellTyped`, `CompiledCodeIsSafe`, `CompiledScopesClose` | the program is a set of forms of finite height, with their parts and the calls that loops add, and no lambda values among them | what the reader makes |
| `Solves` | the same | the compiler obeys its rules on these forms | the definitions of `Compiler` |
| `Placed` | the same | an explicit `tailcall` stands in tail position | `TailCallsStandInTail` |
| `MachineCompiles` | the same | `CodeOf` is the compiler, and the bodies it is asked for are the program's | the definition of `MCCodeOf`, `BodiesAreTheProgram` |
| `CountsWhatCounts` | the same | `DepthOf` and `ScopesOf` find an annotation where there is one; they are the proofs' instruments and no part of the code | `CodeIsWellTyped` for `MCDepthOf` |
| `TreeKeepsParents` | `ScopesAreClosed`, `CompiledScopesClose` | the tree-walker changes no environment's parent | `ParentsStay` |
| `ProgramsEnd` | `CodeIsFinished`, `StepsAreTheSource` | a file's text does not run off its own end: it ends in `ret` or in a jump back | `FilesEnd` |
| `AotFiles = {}` | `NativeIsOwn` | the session loads no AOT file: a loaded chunk keeps the id it had in the process that compiled it, which another chunk may have in this one | `MCVmEvalHot`, which has none |
| `RootsAreFixed` | `SubtypesAreRight`, `MethodsAreRight` | no program defines `t` or `standard-object` as a class of its own | `Fixed` |

`ProgramsEnd` and `RootsAreFixed` are needed: a file without a final `ret` runs into what lies behind
it in its page, and nothing in the code prevents either.
`Placed` is needed too: `compile_list` emits a `TailCall` wherever a `tailcall` stands
(`vm/compiler.rs:294`), and inside `(list 1 (tailcall f))` operands are left below it; this
is among the disagreements above.  A class inherits the
roots because `define` puts them at the end of its list, and the code never looks at
superclasses they might have.

`HeapProofs` proves `TypeCorrect`, `BookkeepingExact`, `HeldSafe` and
`NothingDangles`.  Alone, "what is held is live" is not inductive: a sweep
could free it.  The invariant `IInv` adds two parts.  `BookInv`: the free list
is exactly the empty slots without repetition, and the live count their
complement's size.  `CollectInv`: between
calls every reference of an occupied slot is live; while marking, everything
held is reachable from marked slots through unmarked ones or from the mark
stack (the tricolour invariant), and marked slots have their children marked or
on the stack; while sweeping, the marked slots ahead of the cursor and the
occupied ones behind it are closed under references and contain what is held.
Cardinalities come from `FiniteSetTheorems`.

Its second part builds on `IInv`.  `HandlesNameOneFrame` (`NoAlias`) needs to
know what the generation of a slot says of its past: `IssuedInv` says that for a
handle whose slot has been reused d times since it was issued, d less than `GenMod`,
the generation has advanced by d, less `GenMod` if it wrapped.  `MarksExactly`
(`MarkIsReachability`) has one half in the tricolour invariant, that what is
reachable gets marked; `MarkTight` is the other: all that is marked or waits on
the stack was reached from roots the heap resolved.  `ImplementsTheStore` is the
refinement of `EnvStore`, step by step: placing a frame is `New` (by `IssuedInv` its
handle was never given out), each free of a sweep is `Reclaim` (by `CollectInv` the
frame is out of the client's reach), reads are `PickUp` (the scope of a handle in
hand is in reach), writes `Write`, and everything else stutters.  So a client that
is correct against the five actions of `EnvStore` needs to know nothing of
slots, marks or generations.

`EvalStackProofs` proves `TypeCorrect`, `OwnFramesSafe` and `CalleeSafe`.  The
difficulty is `PopEnv`, which follows a parent pointer: the types are not
inductive unless each open scope has a live ancestor to return to.  `StackOK`
says that a frame of an unexposed evaluation with n open scopes has a chain of
n live ancestors, and that exposure is nested: what lies below an exposed
frame's evaluation boundary is exposed as well, as far as the proofs need.
`Reach` of a set that contains the roots is closed, so a collection keeps such
chains whole.

`MachineProofs` proves `OperandsSafe`, `ReturnsClean` and `FramesOrdered` from
one assumption, `CodesOK`: the chunks the compiler makes belong to a set of well
typed chunks closed under the code of inner lambdas, and so are the two kinds
the machine makes itself.  `CodeIsWellTyped` is that assumption, checked on the
programs of `MCMachine`.  The properties say nothing of the instructions in
between, so the invariant does (`Sound`): each frame's part of the stack is as
deep as its code's annotation says, a frame that waits for a call counts the
result that has not come yet, bases increase, and every lambda on the stack
carries well typed code.  `ReplaceTop`, `PushFrame` and `PopFrame` show that the
three things an instruction does to the frames keep it.

`ScopesAreClosed` proves `ScopesClosed` on top of `Sound`, from a second annotation:
scopes open before each instruction (`ScopesOf`, `WellScoped`).  That a frame is
back in the environment it began with when it returns says nothing of the
instructions in between, where environments are also shared with closures and
rebound by calls.  The invariant says of each frame, waiting ones included, that
as many parents as its annotation counts lead from its environment to the first
(`Leads`, a chain as a function on `0..n`).  `PushEnv` puts a link in front of the
chain, `PopEnv` takes the first away, and since no environment ever changes its
parent (`KeepsParents`) whatever else runs leaves the chains of all frames
alone.

The last part of `MachineProofs` proves that this compiler's chunks are such:
`CompiledCodeIsWellTyped` (`CodeIsWellTyped`), and from it, with no assumption on chunks,
`CompiledCodeIsSafe` and `CompiledScopesClose`.  A whole chunk's annotation says nothing
that could be used inside a larger one, where offsets are shifted, operands lie below
and jumps lead across pieces.  So the proofs are about fragments: `Does(c, at, p, q, x, y)`
says that code at the place `at` can be annotated, for every number of operands and
scopes below, so that it takes p operands and x scopes and leaves q and y, with all its
jumps inside.  A form has a `Value`: it takes nothing, leaves one operand and no scope;
in tail position it may end in a `TailCall`, and then only with no operands below.
`JoinedAdds` glues the annotations of two fragments where they meet, `MovesClosed` does so
for fragments that jump into each other, and each `compile_*` function becomes a lemma:
`IfDoes`, `LetDoes`, `LoopDoes` and so on give its code a `Value` if the code of its parts
has one.  The loops over expressions, bindings and template items are folds with an
invariant (`EachDoes`, `LetStarDoes`, `QuasiListDoes`).  `FormStep` and `TemplateStep` put the rules
together, and `EveryFormGood` is an induction over the height of forms, jointly for forms
and for templates at every depth, since each contains the other.  Code is compiled for the place
where it stands, except for the loops' calls of `+` or `car`, compiled
at 0 and placed elsewhere, and atoms have the same code everywhere (`Anywhere`).

`ImportsProofs` proves `MarksAreRight`, `ImportsAreFirst`, `DoneIsComplete`,
`LoadedInOrder` and `NoCycleIsLoaded`, for any number of files with any imports
between them.  That a file is loaded after its imports says nothing of the files
that are half read, so the invariant `LoadInv` adds `StackFollowsImports`: each
file on the stack is the one that its importer's current declaration names.  With
`MarksMatchTheStack` (the loading set is the stack, without repetition) it gives
that the imports a file has passed are loaded.  `RootIsNeverLoaded` and
`EndsAtTheRoot` are needed at the bottom of the stack, which the code treats by
itself: the root has no entry in `loaded`.  `LoadsInOrder`, which the run checks,
implies `ImportsComeFirst` and `LoadedFilesHaveNoCycle`; they have theorems and no
run of their own.

`WorkersProofs` proves `AnswersInOrder` and `CodeIsSealed`.  The invariant says, for
each place on a worker's way, what it has there (`WorkerOK`): its region is empty
until `Write`, holds all of its code from then on, and is `rx` from `MakeExecutable`
on.  The caller holds the results of workers that have ended (`Holds`), and, once
it has returned, the reason for its answer (`Decision`).  Both speak of ended workers
only, and no step of a worker changes one: that is why the interleaving does
not matter.  `CodeIsFinished` and `StepsAreTheSource` (`RunsFinishedCode`,
`NativeFollowsTheSource`) add `CpuOK`: while native code runs, the region holds the
result of both passes over the worker's own text, and the instruction pointer is at
the beginning of an instruction of it, which `PassesAgree` turns into a place in
the text.

The same module proves `PassesAgree`: if a text assembles, each of its
instructions lies where the first pass said, as long as the first pass said, and
a jump's displacement leads to the place of its label.  Both passes are folds,
and the invariant of the second (`LaidOut`) speaks of both: what has been emitted
so far is as long as the first pass's offset at the same line, and holds the
instructions up to there.  Jumps of either size, labels at the end,
labels that are defined twice and displacements out of range are cases of the
step.  `StepsAgree` says that one step of the processor at an instruction's place
is the step its text takes.

`VmEvalProofs` proves `ResultsAreRight` and `EffectsAreOnce`, for sessions of any
length over any forms, names and AOT files, as long as no chunk has become native code
(`Interpreted`: then numbers come back as floats, see `MCRepeatedFormsAgree`), and
`NativeIsOwn` for native code itself.  `ResultsAreRight` says that a result prints like the
tree-walker's (`Shown`), and that it is the tree-walker's if the evaluation ran no chunk of a
form other than the one it looked up (`mixed`); after `1.0`, the form `1` is why it cannot say more.
What the caches hold is said by `Caches`: a chunk
is the code of a form that prints as its key, because no form that uses a macro is ever
compiled; two such forms run alike as far as results print (`RunItemAlike`, `RunsAlike`); what is
believed to be compilable has been compiled and binds no macro, and really is
compilable unless a macro was bound that `vm_eval` did not see (`unseen`).  It is not
true that a form believed to be compilable can be run to its end.  When its bytecode
meets a name that has become a macro, `vm_eval` starts it again over the bindings that
the first items have left, and each of those items goes through the caches a second
time.  `DoneAgain` is why the result is right all the same: at each place a name has
the value it had the first time, or the one it got later, so that what did not fail
the first time does not fail now, and at the item that was refused the bindings are
those of the meaning.  Effects do happen twice then, so `EffectsHappenOnce` says when
the restart comes before the first of them (`TicksLast`).  The proofs go up the levels:
`AtomMeans`, `VmAtomSound`, `ItemSound`, `VmItemSound`, `FormIsRight`; at each,
`AnswerKeeps` and `AnswerMeans` say what `vm_eval` adds to the tree-walker.
`NativeIsOwn` rests on `Owned`: ids name one chunk each and lie below the counter, so
that a new chunk finds no entry of another.

`ClosProofs` proves `SubtypesAreRight`.  A class's list is computed from the lists its
superclasses have at that moment, in order, without repetition, with the roots
last; ancestors are the least set that is closed under direct superclasses
(`Reached`).  The invariant `ClosOK` relates the two without saying how lists were
computed: each list contains its class, the roots, the direct superclasses and
the lists of its members, and lies in every closed set around its class.  It
holds only until a class is redefined under its subclasses (`settled`), as the
property does.  `OthersStay` is why a definition leaves it true of other classes:
none of their lists mentions the new one.

Its second half proves `MethodsAreRight` (`MethodsRunInOrder`): a call's plan is the
standard combination, for any classes, methods and arguments, as long as the methods that
apply can be compared (`Comparable`, below).  The argument
follows `dispatch_gf`.  A filter keeps the order of what it keeps and how often each
method occurs (`Kept`, `TimesKept`); that is why a method registered twice runs twice.
A method applies exactly if its specializers are ancestors of the arguments' classes, by
`ClosOK`.  The insertion sort returns a permutation, and an ordered one where the
code's comparison is a transitive order, which in general it is not; the property is
about calls whose methods can be compared by the ancestors of their specializers
(`Comparable`), and there `ComparedOrderly` proves it one.  The comparison looks at the
first argument where two methods differ, so this is the transitivity of a lexicographic
order over the order of each argument's ancestors.  The last part puts the filters, the
sort and the reversal of the `:after` methods together.  `call` and `methods` are all
that the property reads, so the invariant is `ClosOK` and the types of the methods.

`Folding` is what makes these proofs possible.  The provers cannot apply an induction
theorem that takes an operator, and they know nothing of `FoldLeft`; but
induction over a set of numbers is first order (`NatInduces`, `RangeInduces`), and
with the step of a fold as a constant of the module (`INSTANCE Folding WITH
Step <- ...`; a step may use a third operand that stays the same) it gives
`FoldTrace`: the fold of a sequence has a trace, a function
from places to accumulators that begins with the base, follows the step and ends
with the result.  An invariant of the loop is then an invariant of its trace.

Only model-checked: `TailFormsRunInOneFrame` and `CompiledMeansTheForm` in
`Machine`, which compare runs of the machine with `TreeWalk`, an operator that is recursive
over forms, or count frames along a run; what `VmEval` does once some chunk has become native code; terms and rules of the
cubical checker, which are recursive as well: the provers cannot follow a recursion
over data other than a fold.  Liveness (`CollectionEnds`, `Finishes`, `RunsEnd`,
`ReturnsWhenDecided`) is beyond the proof system.

## Not modelled, and the plan

Order of the work that is left:

1. Theorems: that a form's native code gives the form's value as
   a float or an error, which is all that is left of `ResultsAreTheForms` when hot.
2. Instances and slots (`lib/clos.pi`), and methods as roots: composing `Clos` with
   `EvalStack`.
3. The native operand stack (`vm/jit_abi.rs`, `vm/jit_compiler.rs`): what compiled code
   pushes and pops against the annotation of the chunk.
4. `AotCodec` and `Reader`: round trips of the bytes of a chunk, the lexer's states.
5. `import` in the interpreter (`eval.rs`), which keeps no set of files at all.

Left out for good: instruction encodings and FFI type tables (data, best tested
one by one), calls to C, terminal and socket wrappers, help texts, the text of
the grammars, and the transpilers of the cubical language to Rust and Python, whose
output has its meaning outside the repository.
