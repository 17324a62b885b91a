----------------------------- MODULE MCMachine ------------------------------
(***************************************************************************)
(* The VM run on what the compiler emits, and compared with the            *)
(* tree-walker, for every form of a small grammar put into every context   *)
(* of another.                                                             *)
(***************************************************************************)
EXTENDS Machine, TreeWalk

C == INSTANCE Compiler

MCCodeOf(e) == C!Chunk(e)
MCTreeEval(e, env, es) == Walk(e, env, es)

(* What is so before each instruction of a chunk, found by following the   *)
(* code from its start; -1 where no path leads.                            *)
Followed(code, Effect(_)) ==
  LET Meet(d, i, n) == IF i \in DOMAIN d /\ d[i] = -1 THEN [d EXCEPT ![i] = n] ELSE d
      Flow(d, i) ==
        LET c == code[i]
            after == d[i] + Effect(c)
            jumped == IF c.op \in {"Jump", "JumpIfFalse"} THEN Meet(d, c.to, after) ELSE d
        IN IF d[i] = -1 THEN d
           ELSE IF c.op \in {"Jump", "Return", "TreeEval"} THEN jumped
           ELSE Meet(jumped, i + 1, after)
  IN FoldLeft(Flow, [i \in 1..Len(code) |-> IF i = 1 THEN 0 ELSE -1],
              [i \in 1..Len(code) |-> i])
Balance(c) == Leaves(c) - Needs(c)
MCDepthOf(code) == Followed(code, Balance)
MCScopesOf(code) == Followed(code, Opens)

-----------------------------------------------------------------------------
(* Forms.                                                                  *)
X == Sym("x")
Y == Sym("y")
I == Sym("i")
F == Sym("f")
One == Num(1)
Two == Num(2)
Form(head, args) == List(<<Sym(head)>> \o args)
Bind(n, e) == List(<<n, e>>)
LetForm(head, bs, body) == Form(head, <<List(bs), body>>)
LambdaForm(ps, body) == Form("lambda", <<List(ps), body>>)

Atoms == {Num(0), One, X, List(<< >>)}
Small ==
  Atoms
  \cup {Form("+", <<a, b>>) : a, b \in {One, X}}
  \cup {Form("if", <<a, b, X>>) : a, b \in Atoms} \cup {Form("if", <<a, One>>) : a \in Atoms}
  \cup {Form("begin", <<a, b>>) : a, b \in {One, X}} \cup {Form("begin", << >>)}
  \cup {Form("set!", <<X, a>>) : a \in Atoms}
  \cup {LetForm(l, <<Bind(X, a), Bind(Y, X)>>, Form("list", <<X, Y>>)) :
          l \in {"let", "let*"}, a \in Atoms}
  \cup {Form("for", <<I, a, Two, Form("set!", <<X, Form("+", <<X, I>>)>>)>>) : a \in {Num(0), One}}
  \cup {Form("for", <<I, Form("list", <<a, X>>), Form("set!", <<X, I>>)>>) : a \in {Num(0), One}}
  \cup {LambdaForm(<<Y>>, a) : a \in {X, Y}}
  \cup {List(<<LambdaForm(<<X>>, Form("list", <<X, Y>>)), a>>) : a \in {One, X}}
  \cup {Form("quote", <<List(<<X, One>>)>>), Form("car", <<X>>), Form("undefined", << >>)}

(* Where a small form may stand, its value used.                           *)
InContext(e) ==
  {Form("+", <<One, e>>),
   Form("list", <<e, X>>),
   Form("if", <<e, One, Two>>),
   Form("if", <<One, e, X>>),
   Form("begin", <<e, e, X>>),
   LetForm("let", <<Bind(Y, e), Bind(X, Two)>>, Form("list", <<X, Y>>)),
   LetForm("let*", <<Bind(X, Two), Bind(Y, e)>>, Form("list", <<X, Y>>)),
   Form("for", <<Sym("j"), Num(0), Two, e>>),
   Form("for", <<Sym("j"), e, Form("define", <<Y, Sym("j")>>)>>),
   List(<<LambdaForm(<<X, Y>>, Form("begin", <<Form("set!", <<Y, X>>), Y>>)), e, X>>),
   Form("begin", <<Form("define", <<F, LambdaForm(<<X>>, e)>>), List(<<F, Two>>)>>),
   Form("quasiquote", <<List(<<X, Form("unquote", <<e>>), Form("unquote-splicing", <<Form("list", <<One>>)>>)>>)>>),
   Form("quasiquote", <<Form("quasiquote", <<Form("unquote", <<Form("unquote", <<e>>)>>)>>)>>)}

Session(e) == Form("begin", <<Form("define", <<X, Num(5)>>), e>>)
Nested == {Session(c) : c \in UNION {InContext(e) : e \in Small}}

(* Loops by tail calls, one function or two.                               *)
Countdown(n) ==
  Form("begin",
    <<Form("define", <<F, LambdaForm(<<I>>,
        Form("if", <<Form("<", <<I, Num(n)>>), List(<<F, Form("+", <<I, One>>)>>), I>>))>>),
      List(<<F, Num(0)>>)>>)
EvenOdd(n) ==
  Form("begin",
    <<Form("define", <<F, LambdaForm(<<I>>,
        Form("if", <<Form("<", <<I, Num(n)>>), Form("tailcall", <<Sym("g"), Form("+", <<I, One>>)>>), X>>))>>),
      Form("define", <<Sym("g"), LambdaForm(<<I>>, List(<<F, I>>))>>),
      Form("define", <<X, F>>),
      List(<<F, Num(0)>>)>>)
MCTailForms == {Countdown(3), EvenOdd(3)}

(* Functions that call themselves in an argument, close over a variable    *)
(* that changes, take functions, and fail.                                 *)
Counter == LetForm("let", <<Bind(X, Num(0))>>,
                   LambdaForm(<<Y>>, Form("begin", <<Form("set!", <<X, Form("+", <<X, Y>>)>>), X>>)))
Others ==
  {Form("begin",
     <<Form("define", <<F, LambdaForm(<<I>>,
         Form("if", <<I, Form("+", <<I, List(<<F, Form("+", <<I, Num(-1)>>)>>)>>), Num(0)>>))>>),
       List(<<F, Num(3)>>)>>),
   Form("begin", <<Form("define", <<F, Counter>>), List(<<F, One>>),
                   Form("list", <<List(<<F, One>>), List(<<F, Two>>)>>)>>),
   List(<<LambdaForm(<<F>>, Form("list", <<F, List(<<F, One>>)>>)), Sym("list")>>),
   Session(Form("for", <<I, X, Form("+", <<X, Two>>), Form("set!", <<X, Form("+", <<X, I>>)>>)>>)),
   Session(Form("for", <<I, Form("list", <<One>>), X, Form("set!", <<X, I>>)>>)),
   Session(Form("list",
     <<List(<<LambdaForm(<<Y>>, Form("for", <<I, Y, Form("+", <<Y, Two>>),
                                              Form("set!", <<X, Form("+", <<X, I>>)>>)>>)), One>>), X>>)),
   Form("set!", <<X, One>>), List(<<LambdaForm(<<X>>, X)>>), List(<<One>>),
   Form("if", << >>), Form("let", <<X, One>>), LambdaForm(<<One>>, X), Form("define", <<One, Two>>),
   Form("quasiquote", <<List(<<Form("unquote-splicing", <<One>>)>>)>>),
   Session(Form("quasiquote", <<Form("quasiquote", <<List(<<One, Form("unquote-splicing", <<X>>)>>)>>)>>))}

MCForms == Nested \cup MCTailForms \cup Others

(* What the theorem about scopes asks of the tree-walker.                  *)
ASSUME ParentsStay == \A f \in MCForms : KeepsParents(GlobalEnvs, Walk(f, 1, GlobalEnvs).envs)

-----------------------------------------------------------------------------
(* Where a form stands: -1 in tail position, 0 elsewhere, n > 0 in a       *)
(* template at depth n; and where its parts then stand, a lambda's body    *)
(* and the forms left to the tree-walker included.                         *)
InTemplate(n, e) ==
  IF ~C!Fits(e, n) THEN {}
  ELSE IF IsCall(e, "unquote") THEN {<<n - 1, e.list[2]>>}
  ELSE IF IsCall(e, "quasiquote") THEN {<<n + 1, e.list[2]>>}
  ELSE {IF IsCall(x, "unquote-splicing") THEN <<n - 1, x.list[2]>> ELSE <<n, x>> : x \in Range(e.list)}
InForm(n, es) ==
  LET head == C!Rules!HeadOf(es)
      tails == C!Rules!TailPositions(es, head, n = -1)
  IN {<<IF k \in tails THEN -1 ELSE 0, es[k]>> : k \in C!Rules!Positions(es, head)}
       \cup CASE head = "quasiquote" -> {<<1, es[2]>>}
              [] head \in {"let", "let*"} -> {<<0, b.list[2]>> : b \in Range(es[2].list)}
              [] head = "lambda" -> {<<-1, C!Rules!Lambda(es, << >>)[1].body>>}
              [] head = "for" -> {<<0, es[k]>> : k \in 3..Len(es)}
              [] OTHER -> {}
Within(place) ==
  LET n == place[1]
      e == place[2]
  IN IF ~Is("list", e) \/ e.list = << >> THEN {}
     ELSE IF n > 0 THEN InTemplate(n, e)
     ELSE IF C!WellFormed(e) THEN InForm(n, e.list) ELSE {}

RECURSIVE Places(_)
Places(found) ==
  LET more == found \cup UNION {Within(place) : place \in found}
  IN IF more = found THEN found ELSE Places(more)

ProgramPlaces == Places({<<-1, f>> : f \in MCForms})
Standing(n) == {p[2] : p \in {q \in ProgramPlaces : q[1] = n}}

(* What the theorems about compiled code ask of the program: a tailcall    *)
(* stands in tail position, which the compiler does not check.             *)
ASSUME TailCallsStandInTail ==
  LET P == [tail \in BOOLEAN |-> Standing(IF tail THEN -1 ELSE 0)]
      T == [depth \in 1..4 |-> Standing(depth)]
  IN /\ C!Rules!FormsPlaced(P, T)
     /\ \A depth \in 1..3 : C!Rules!TemplatesPlaced(P, T, depth)
     /\ T[1] # {} /\ T[2] # {} /\ T[4] = {}

(* And of the machine: the bodies of all lambdas, which it may be asked to *)
(* compile, are the program's.                                             *)
RECURSIVE Bodies(_)
Bodies(v) ==
  IF Is("fn", v) THEN {v.fn.body}
  ELSE IF Is("list", v) THEN UNION {Bodies(x) : x \in Range(v.list)}
  ELSE {}
ASSUME BodiesAreTheProgram ==
  LET tails == Standing(-1)
  IN \A f \in MCForms :
       \A env \in Range(Walk(f, 1, GlobalEnvs).envs) :
         \A n \in DOMAIN env.vars : Bodies(env.vars[n]) \subseteq tails

-----------------------------------------------------------------------------
(* A function is told by its parameters and its body.                      *)
RECURSIVE Shown(_)
Shown(v) ==
  IF Is("fn", v) THEN [fn |-> <<v.fn.params, v.fn.body>>]
  ELSE IF Is("list", v) THEN List([k \in 1..Len(v.list) |-> Shown(v.list[k])])
  ELSE v

Globals(es) == [n \in DOMAIN es[1].vars |-> Shown(es[1].vars[n])]

(* Compiled and run on the VM, a form has the value and leaves the global  *)
(* variables that the tree-walker gives, errors included: whatever stands  *)
(* in a loop, a scope, an argument, a branch or a template.                *)
CompiledMeansTheForm ==
  result # Running =>
    LET o == Walk(form, 1, GlobalEnvs)
    IN Shown(result) = Shown(o.val) /\ Globals(envs) = Globals(o.envs)

(* bytecode.rs:130-132: the conversion to a VM value is an error for a     *)
(* lambda, so that none comes to have other code than its body's.          *)
NoHollowClosure ==
  \A k \in 1..Len(stack) : Is("fn", stack[k].val) => stack[k].code # HollowCode
FunctionFromAList ==
  {Form("begin", <<Form("define", <<F, LambdaForm(<<X>>, X)>>),
                   List(<<Form("car", <<Form("list", <<F>>)>>), One>>)>>)}
NoForms == {}
=============================================================================
