------------------------------ MODULE Compile -------------------------------
(***************************************************************************)
(* The bytecode compiler (src/src/vm/compiler.rs).  Code(e, at, tail) is   *)
(* the code of e placed from instruction `at` on; jumps hold the number of *)
(* their target.  Instructions are numbered from 1, and macros have been   *)
(* expanded.                                                               *)
(*                                                                         *)
(* The compiler calls itself on the parts of a form.  Here those calls are *)
(* parameters, so that theorems about the rules can be proved: Code and    *)
(* CodeRule, and so on, are equal for the compiler, which Compiler.tla     *)
(* defines by that recursion.                                              *)
(***************************************************************************)
EXTENDS Values

CONSTANTS
  Code(_, _, _),    \* compile_expr: the code of an expression, by CodeRule
  Quasi(_, _, _),   \* compile_quasiquote: of a template at a depth, by QuasiRule
  WellFormed(_),    \* whether compile_expr succeeds, by WellFormedRule
  Fits(_, _)        \* whether compile_quasiquote does, by FitsRule

LoadConst(v) == [op |-> "LoadConst", val |-> v]
LoadVar(n) == [op |-> "LoadVar", name |-> n]
StoreVar(n) == [op |-> "StoreVar", name |-> n]
Jump(to) == [op |-> "Jump", to |-> to]
JumpIfFalse(to) == [op |-> "JumpIfFalse", to |-> to]
MakeList(n) == [op |-> "MakeList", n |-> n]
Do(op) == [op |-> op]            \* Pop, PushEnv, PopEnv, Return and so on

(* The expressions one after the other, each followed by `after`.          *)
Each(es, at, after) ==
  FoldLeft(LAMBDA acc, e : acc \o Code(e, at + Len(acc), FALSE) \o after, << >>, es)

(* All but the last for their effect, the last for its value.              *)
BodyKeepingAll(es, at, tail) ==          \* mutant: the values are not popped
  LET first == Each(Front(es), at, << >>)
  IN first \o Code(Last(es), at + Len(first), tail)
Body(es, at, tail) ==
  LET first == Each(Front(es), at, <<Do("Pop")>>)
  IN first \o Code(Last(es), at + Len(first), tail)

Call(es, at, tail) ==
  Each(es, at, << >>)
    \o <<[op |-> IF tail THEN "TailCall" ELSE "Call", n |-> Len(es) - 1]>>

IfPastEnd(es, at, tail) ==               \* mutant: the jump misses by one
  LET c == Code(es[2], at, FALSE)
      t == Code(es[3], at + Len(c) + 1, tail)
      else == at + Len(c) + 1 + Len(t) + 1
      f == IF Len(es) = 4 THEN Code(es[4], else, tail) ELSE <<LoadConst(Nil)>>
  IN c \o <<JumpIfFalse(else)>> \o t \o <<Jump(else + Len(f) + 1)>> \o f
If(es, at, tail) ==
  LET c == Code(es[2], at, FALSE)
      t == Code(es[3], at + Len(c) + 1, tail)
      else == at + Len(c) + 1 + Len(t) + 1
      f == IF Len(es) = 4 THEN Code(es[4], else, tail) ELSE <<LoadConst(Nil)>>
  IN c \o <<JumpIfFalse(else)>> \o t \o <<Jump(else + Len(f))>> \o f

(* A lambda's code is a chunk of its own, and an operand of MakeFunc.      *)
LambdaChunk(es, self) == self \o Body(From(es, 3), Len(self) + 1, TRUE) \o <<Do("Return")>>
Lambda(es, self) ==
  LET bodies == From(es, 3)
  IN <<[op |-> "MakeFunc",
        params |-> [k \in 1..Len(es[2].list) |-> es[2].list[k].sym],
        body |-> IF Len(bodies) = 1 THEN bodies[1] ELSE List(<<Sym("begin")>> \o bodies),
        code |-> LambdaChunk(es, self)]>>

(* The StoreSelf at the head of a defined lambda's code never runs: the    *)
(* StoreVar that follows the MakeFunc keeps the lambda and not its code.   *)
DefineWithoutValue(es, at) ==          \* mutant: no value for the caller
  (IF IsCall(es[3], "lambda")
   THEN Lambda(es[3].list, <<[op |-> "StoreSelf", name |-> es[2].sym]>>)
   ELSE Code(es[3], at, FALSE))
  \o <<StoreVar(es[2].sym)>>
Define(es, at) ==
  (IF IsCall(es[3], "lambda")
   THEN Lambda(es[3].list, <<[op |-> "StoreSelf", name |-> es[2].sym]>>)
   ELSE Code(es[3], at, FALSE))
  \o <<StoreVar(es[2].sym), LoadConst(Nil)>>

Set(es, at) ==
  Code(es[3], at, FALSE) \o <<[op |-> "AssignVar", name |-> es[2].sym], LoadConst(Nil)>>

Begin(es, at, tail) ==
  IF Len(es) = 1 THEN <<LoadConst(Nil)>> ELSE Body(Tail(es), at, tail)

(* let: every initialiser in the outer scope, then the scope, the names    *)
(* bound from the last to the first as their values come off the stack.    *)
Names(bs) == [k \in 1..Len(bs) |-> bs[k].list[1].sym]
LetStoringForward(es, at) ==             \* mutant: stored in declaration order
  LET bs == es[2].list
      open == Each([k \in 1..Len(bs) |-> bs[k].list[2]], at, << >>)
                \o <<Do("PushEnv")>>
                \o [k \in 1..Len(bs) |-> StoreVar(Names(bs)[k])]
  IN open \o Body(From(es, 3), at + Len(open), FALSE) \o <<Do("PopEnv")>>
Let(es, at) ==
  LET bs == es[2].list
      open == Each([k \in 1..Len(bs) |-> bs[k].list[2]], at, << >>)
                \o <<Do("PushEnv")>>
                \o [k \in 1..Len(bs) |-> StoreVar(Reverse(Names(bs))[k])]
  IN open \o Body(From(es, 3), at + Len(open), FALSE) \o <<Do("PopEnv")>>

(* let*: the scope first, each name bound before the next initialiser.     *)
InTurn(bs, at) ==
  FoldLeft(LAMBDA acc, b : acc \o Code(b.list[2], at + Len(acc), FALSE)
                               \o <<StoreVar(b.list[1].sym)>>,
           <<Do("PushEnv")>>, bs)
LetStar(es, at) ==
  LET open == InTurn(es[2].list, at)
  IN open \o Body(From(es, 3), at + Len(open), FALSE) \o <<Do("PopEnv")>>

(* for: a loop that tests before each round; `init` opens the scope.       *)
Loop(init, testCall, bind, body, next, at) ==
  LET start == at + Len(init)
      test == Call(testCall, start, FALSE)
      round == start + Len(test) + 1
      work == bind \o Each(body, round + Len(bind), <<Do("Pop")>>)
      end == round + Len(work) + Len(next) + 1
  IN init \o test \o <<JumpIfFalse(end)>> \o work \o next
       \o <<Jump(start), Do("PopEnv"), LoadConst(Nil)>>

ForNumericStuck(es, at) ==               \* mutant: the variable is not stepped
  LET i == es[2].sym
  IN Loop(<<Do("PushEnv"), LoadConst(es[3]), StoreVar(i),
            LoadConst(es[4]), StoreVar("__for-end")>>,
          <<Sym("<"), Sym(i), Sym("__for-end")>>,
          << >>, From(es, 5),
          Call(<<Sym("+"), Sym(i), Num(0)>>, 0, FALSE) \o <<StoreVar(i)>>, at)
ForNumeric(es, at) ==
  LET i == es[2].sym
  IN Loop(<<Do("PushEnv"), LoadConst(es[3]), StoreVar(i),
            LoadConst(es[4]), StoreVar("__for-end")>>,
          <<Sym("<"), Sym(i), Sym("__for-end")>>,
          << >>, From(es, 5),
          Call(<<Sym("+"), Sym(i), Num(1)>>, 0, FALSE) \o <<StoreVar(i)>>, at)

ForList(es, at) ==
  LET rest == Sym("__for-lst")
  IN Loop(<<Do("PushEnv")>> \o Code(es[3], at + 1, FALSE) \o <<StoreVar("__for-lst")>>,
          <<Sym("not"), List(<<Sym("null?"), rest>>)>>,
          Call(<<Sym("car"), rest>>, 0, FALSE) \o <<StoreVar(es[2].sym)>>, From(es, 4),
          Call(<<Sym("cdr"), rest>>, 0, FALSE) \o <<StoreVar("__for-lst")>>, at)

(* Bounds that are not literals leave the choice to the tree-walker.       *)
Deferred(es) == Len(es) >= 5 /\ ~(Is("int", es[3]) /\ Is("int", es[4]))
For(es, at) ==
  IF Deferred(es) THEN <<[op |-> "TreeEval", expr |-> List(es)]>>
  ELSE IF Len(es) < 5 THEN ForList(es, at) ELSE ForNumeric(es, at)

(* quasiquote: a list is built from its last item to its first; below the  *)
(* first level the operators are data, with templates inside.              *)
Quoted(op, e, depth, at) ==
  <<LoadConst(Sym(op))>> \o Quasi(e, depth, at + 1) \o <<MakeList(2)>>

QuasiItem(item, depth, at) ==
  IF ~IsCall(item, "unquote-splicing")
  THEN Quasi(item, depth, at) \o <<Do("PrependList")>>
  ELSE IF depth = 1 THEN Code(item.list[2], at, FALSE) \o <<Do("AppendSplice")>>
  ELSE Quoted("unquote-splicing", item.list[2], depth - 1, at) \o <<Do("PrependList")>>

QuasiList(items, depth, at) ==
  FoldLeft(LAMBDA acc, item : acc \o QuasiItem(item, depth, at + Len(acc)),
           <<Do("LoadNil")>>, items)

QuasiRule(e, depth, at) ==
  IF ~Is("list", e) \/ e = List(<< >>) THEN <<LoadConst(e)>>
  ELSE IF IsCall(e, "unquote")
  THEN IF depth = 1 THEN Code(e.list[2], at, FALSE)
       ELSE Quoted("unquote", e.list[2], depth - 1, at)
  ELSE IF IsCall(e, "quasiquote") THEN Quoted("quasiquote", e.list[2], depth + 1, at)
  ELSE QuasiList(Reverse(e.list), depth, at)

HeadOf(es) == IF Is("sym", es[1]) THEN es[1].sym ELSE ""
CodeRule(e, at, tail) ==
  IF Is("sym", e) THEN <<LoadVar(e.sym)>>
  ELSE IF ~Is("list", e) THEN <<LoadConst(e)>>
  ELSE IF e.list = << >> THEN <<LoadConst(Nil)>>
  ELSE LET es == e.list
           head == HeadOf(es)
       IN CASE head = "quote"      -> <<LoadConst(es[2])>>
            [] head = "quasiquote" -> Quasi(es[2], 1, at)
            [] head = "if"         -> If(es, at, tail)
            [] head = "define"     -> Define(es, at)
            [] head = "set!"       -> Set(es, at)
            [] head = "begin"      -> Begin(es, at, tail)
            [] head = "let"        -> Let(es, at)
            [] head = "let*"       -> LetStar(es, at)
            [] head = "for"        -> For(es, at)
            [] head = "lambda"     -> Lambda(es, << >>)
            [] head = "tailcall"   -> Call(Tail(es), at, TRUE)
            [] OTHER               -> Call(es, at, tail)

(* What compiles: the checks that the compile_* functions make of the      *)
(* shapes of the special forms, all the way down.                          *)
AllSyms(es) == \A k \in 1..Len(es) : Is("sym", es[k])
IsBinding(b) == Is("list", b) /\ Len(b.list) = 2 /\ Is("sym", b.list[1])
Shaped(es, head) ==
  CASE head \in {"quote", "quasiquote"} -> Len(es) = 2
    [] head = "if"                 -> Len(es) \in 3..4
    [] head \in {"define", "set!"} -> Len(es) = 3 /\ Is("sym", es[2])
    [] head \in {"let", "let*"}    -> /\ Len(es) >= 3 /\ Is("list", es[2])
                                      /\ \A k \in 1..Len(es[2].list) : IsBinding(es[2].list[k])
    [] head = "for"                -> Len(es) >= 4 /\ Is("sym", es[2])
    [] head = "lambda"             -> Len(es) >= 3 /\ Is("list", es[2]) /\ AllSyms(es[2].list)
    [] head = "tailcall"           -> Len(es) >= 2
    [] OTHER                       -> TRUE

(* The places of the subforms that are compiled, and those of them whose   *)
(* value is the value of the form.                                         *)
Positions(es, head) ==
  CASE head \in {"quote", "quasiquote"} -> {}
    [] head \in {"define", "set!", "lambda", "let", "let*"} -> 3..Len(es)
    [] head = "for" -> IF Deferred(es) THEN {} ELSE 3..Len(es)
    [] head \in {"if", "begin", "tailcall"} -> 2..Len(es)
    [] OTHER -> 1..Len(es)
TailPositions(es, head, tail) ==
  CASE head = "if" -> IF tail THEN 3..Len(es) ELSE {}
    [] head = "begin" -> IF tail THEN {Len(es)} ELSE {}
    [] head = "lambda" -> {Len(es)}
    [] OTHER -> {}
Parts(es, head) ==
  {es[k] : k \in Positions(es, head)}
    \cup IF head \in {"let", "let*"}
         THEN {es[2].list[k].list[2] : k \in 1..Len(es[2].list)} ELSE {}

(* In a template the shapes matter where it escapes to code.               *)
FitsEscape(e, depth) ==
  Len(e.list) = 2 /\ IF depth = 1 THEN WellFormed(e.list[2]) ELSE Fits(e.list[2], depth - 1)
FitsRule(e, depth) ==
  IF ~Is("list", e) THEN TRUE
  ELSE IF IsCall(e, "unquote") THEN FitsEscape(e, depth)
  ELSE IF IsCall(e, "quasiquote") THEN Len(e.list) = 2 /\ Fits(e.list[2], depth + 1)
  ELSE \A k \in 1..Len(e.list) :
         IF IsCall(e.list[k], "unquote-splicing") THEN FitsEscape(e.list[k], depth)
         ELSE Fits(e.list[k], depth)

WellFormedRule(e) ==
  Is("list", e) /\ e.list # << >> =>
    LET head == HeadOf(e.list)
    IN /\ Shaped(e.list, head)
       /\ head = "quasiquote" => Fits(e.list[2], 1)
       /\ \A x \in Parts(e.list, head) : WellFormed(x)

(* Compiler::compile: no code if some form has the wrong shape.            *)
ChunkUnterminated(e) ==                  \* mutant: no Return at the end
  IF WellFormed(e) THEN Code(e, 1, TRUE) ELSE << >>
Chunk(e) == IF WellFormed(e) THEN Code(e, 1, TRUE) \o <<Do("Return")>> ELSE << >>

-----------------------------------------------------------------------------
(* Programs whose explicit tail calls, which compile to a TailCall where-  *)
(* ever they stand (compiler.rs:294), stand in tail position: P[TRUE] are  *)
(* the forms there, P[FALSE] the forms elsewhere, T[n] the templates at    *)
(* depth n.                                                                *)
PartsPlaced(P, T, es, head, tail) ==
  /\ head = "tailcall" => tail
  /\ head = "quasiquote" => es[2] \in T[1]
  /\ \A k \in Positions(es, head) :
       /\ k \in TailPositions(es, head, tail) => es[k] \in P[TRUE]
       /\ k \notin TailPositions(es, head, tail) => es[k] \in P[FALSE]
  /\ head \in {"let", "let*"} =>
       \A k \in 1..Len(es[2].list) : es[2].list[k].list[2] \in P[FALSE]
FormsPlaced(P, T) ==
  \A tail \in BOOLEAN : \A e \in P[tail] :
    Is("list", e) /\ e.list # << >> /\ WellFormed(e) =>
      PartsPlaced(P, T, e.list, HeadOf(e.list), tail)

EscapePlaced(P, T, e, depth) ==
  IF depth = 1 THEN e.list[2] \in P[FALSE] ELSE e.list[2] \in T[depth - 1]
TemplatePlaced(P, T, e, depth) ==
  IF IsCall(e, "unquote") THEN EscapePlaced(P, T, e, depth)
  ELSE IF IsCall(e, "quasiquote") THEN e.list[2] \in T[depth + 1]
  ELSE \A k \in 1..Len(e.list) :
         IF IsCall(e.list[k], "unquote-splicing") THEN EscapePlaced(P, T, e.list[k], depth)
         ELSE e.list[k] \in T[depth]
TemplatesPlaced(P, T, depth) ==
  \A e \in T[depth] : Is("list", e) /\ Fits(e, depth) => TemplatePlaced(P, T, e, depth)
=============================================================================
