------------------------------ MODULE Machine -------------------------------
(***************************************************************************)
(* The bytecode VM (src/src/vm/machine.rs): operand stack, call frames and *)
(* environments, one action for each instruction.  What the compiler makes *)
(* of a body is a parameter, and so is the tree-walker that TreeEval calls.*)
(* Environments are not collected here: EvalStack is about that.           *)
(*                                                                         *)
(* An item of the stack is a value, with the code of its body if it is a   *)
(* lambda.  The code of a lambda inside a list cannot be observed: a       *)
(* builtin has to take the lambda out, and drops its code.                 *)
(***************************************************************************)
EXTENDS Values

CONSTANTS
  Forms,            \* the forms evaluated
  TailForms,        \* those among them that loop by tail calls only
  CodeOf(_),        \* the chunk of a body, << >> if it does not compile
  TreeEval(_, _, _),\* the tree-walker: [val, envs] of an expression
  DepthOf(_),       \* operands before each instruction of a chunk, -1: not reached
  ScopesOf(_)       \* scopes open before each instruction of a chunk

VARIABLES
  form,             \* the form being evaluated
  stack,            \* VM::stack
  frames,           \* VM::frames
  envs,             \* environments by handle
  result            \* what run returned

vars == <<form, stack, frames, envs, result>>

Running == [running |-> "running"]
Frame(code, base, env) ==          \* home: the environment the frame began with
  [code |-> code, ip |-> 1, base |-> base, env |-> env, home |-> env]

Init ==
  /\ form \in Forms
  /\ stack = << >>
  /\ frames = <<Frame(CodeOf(form), 0, 1)>>
  /\ envs = GlobalEnvs
  /\ result = IF CodeOf(form) = << >> THEN Failure ELSE Running

Top == Last(frames)
Instr == Top.code[Top.ip]
Arg(k) == stack[Len(stack) - k]    \* the k-th value below the top

(* What an instruction takes from the operand stack and what it leaves.    *)
Needs(c) ==
  CASE c.op \in {"Call", "TailCall"} -> c.n + 1
    [] c.op = "MakeList" -> c.n
    [] c.op \in {"PrependList", "AppendSplice"} -> 2
    [] c.op \in {"StoreVar", "AssignVar", "Pop", "JumpIfFalse", "Return"} -> 1
    [] OTHER -> 0

At(op) ==
  /\ result = Running
  /\ Top.ip <= Len(Top.code)
  /\ Instr.op = op
  /\ Len(stack) >= Needs(Instr)

Goto(ip) == frames' = [frames EXCEPT ![Len(frames)].ip = ip]
Step == Goto(Top.ip + 1)
Below(n) == SubSeq(stack, 1, Len(stack) - n)
Replace(n, v) == stack' = Append(Below(n), v)
Drop(n) == stack' = Below(n)

(* Between the stack and everything else.  Storing a lambda drops its      *)
(* code, loading one compiles its body again, or leaves the body to the    *)
(* tree-walker; what a builtin returns gets a chunk that loads nil.        *)
Item(v, code) == [val |-> v, code |-> code]
Plain(v) == Item(v, << >>)
HollowCode == <<[op |-> "LoadConst", val |-> Nil], [op |-> "Return"]>>
TreeCode(body) == <<[op |-> "TreeEval", expr |-> body]>>
Compiled(body) == IF CodeOf(body) = << >> THEN TreeCode(body) ELSE CodeOf(body)
ToVm(v) == IF Is("fn", v) THEN Item(v, Compiled(v.fn.body)) ELSE Plain(v)
FromPrim(v) == Item(v, HollowCode)
ToExpr(item) == IF Is("nil", item.val) THEN List(<< >>) ELSE item.val

-----------------------------------------------------------------------------
(* Values and variables.                                                   *)

LoadConst ==
  At("LoadConst") /\ Replace(0, Plain(Instr.val)) /\ Step /\ UNCHANGED <<form, envs, result>>

LoadVar ==
  /\ At("LoadVar")
  /\ ~Is("error", EnvGet(envs, Top.env, Instr.name))
  /\ Replace(0, ToVm(EnvGet(envs, Top.env, Instr.name)))
  /\ Step /\ UNCHANGED <<form, envs, result>>

StoreVar ==
  /\ At("StoreVar")
  /\ envs' = EnvSet(envs, Top.env, Instr.name, ToExpr(Arg(0)))
  /\ Drop(1) /\ Step /\ UNCHANGED <<form, result>>

AssignVar ==
  /\ At("AssignVar")
  /\ LET k == Binder(envs, Top.env, Instr.name)
     IN k # 0 /\ envs' = EnvSet(envs, k, Instr.name, ToExpr(Arg(0)))
  /\ Drop(1) /\ Step /\ UNCHANGED <<form, result>>

Pop == At("Pop") /\ Drop(1) /\ Step /\ UNCHANGED <<form, envs, result>>

(* Lists, for quasiquote.                                                  *)
LoadNil ==
  At("LoadNil") /\ Replace(0, Plain(List(<< >>))) /\ Step /\ UNCHANGED <<form, envs, result>>

Args(n) == [k \in 1..n |-> ToExpr(Arg(n - k))]
MakeList ==
  At("MakeList") /\ Replace(Instr.n, Plain(List(Args(Instr.n)))) /\ Step
    /\ UNCHANGED <<form, envs, result>>

PrependList ==
  /\ At("PrependList") /\ Is("list", Arg(1).val)
  /\ Replace(2, Plain(List(<<ToExpr(Arg(0))>> \o Arg(1).val.list)))
  /\ Step /\ UNCHANGED <<form, envs, result>>

AppendSplice ==
  /\ At("AppendSplice") /\ Is("list", Arg(0).val) /\ Is("list", Arg(1).val)
  /\ Replace(2, Plain(List(Arg(0).val.list \o Arg(1).val.list)))
  /\ Step /\ UNCHANGED <<form, envs, result>>

-----------------------------------------------------------------------------
(* Jumps and scopes.                                                       *)

Jump == At("Jump") /\ Goto(Instr.to) /\ UNCHANGED <<form, stack, envs, result>>

JumpIfFalse ==
  /\ At("JumpIfFalse")
  /\ IF IsTruthy(Arg(0).val) THEN Step ELSE Goto(Instr.to)
  /\ Drop(1) /\ UNCHANGED <<form, envs, result>>

InScope(env) ==
  frames' = [frames EXCEPT ![Len(frames)].ip = @ + 1, ![Len(frames)].env = env]

PushEnv ==
  /\ At("PushEnv")
  /\ envs' = NewEnv(envs, Top.env)
  /\ InScope(Len(envs) + 1)
  /\ UNCHANGED <<form, stack, result>>

PopEnvForgotten ==                 \* mutant: the scope stays
  At("PopEnv") /\ Step /\ UNCHANGED <<form, stack, envs, result>>
PopEnv ==
  /\ At("PopEnv") /\ envs[Top.env].parent # 0
  /\ InScope(envs[Top.env].parent)
  /\ UNCHANGED <<form, stack, envs, result>>

-----------------------------------------------------------------------------
(* Calls.  The callee lies below its n arguments.                          *)

MakeFunc ==
  At("MakeFunc")
    /\ Replace(0, Item(Fn(Instr.params, Instr.body, Top.env), Instr.code))
    /\ Step /\ UNCHANGED <<form, envs, result>>

AtCall == At("Call") \/ At("TailCall")
Callee == Arg(Instr.n)
PrimResult == Builtin(Callee.val.prim, Args(Instr.n))
Accepts(item) == Is("fn", item.val) /\ Len(item.val.fn.params) = Instr.n

CallPrim ==
  /\ AtCall /\ Is("prim", Callee.val) /\ ~Is("error", PrimResult)
  /\ Replace(Instr.n + 1, FromPrim(PrimResult))
  /\ Step /\ UNCHANGED <<form, envs, result>>

(* The parameters are bound in a new environment, Len(envs) + 1.           *)
BindArguments ==
  LET f == Callee.val.fn
      call == NewEnv(envs, f.env)
  IN envs' = EnvSetAll(call, Len(call), f.params, Args(Instr.n))
Entered(base) == Frame(Callee.code, base, Len(envs) + 1)

Call ==
  /\ At("Call") /\ Accepts(Callee)
  /\ BindArguments
  /\ frames' = Append([frames EXCEPT ![Len(frames)].ip = @ + 1],
                      Entered(Len(stack) - Instr.n - 1))
  /\ Drop(Instr.n + 1) /\ UNCHANGED <<form, result>>

(* A tail call reuses the frame and its place on the stack.                *)
TailCallGrowing ==                 \* mutant: a frame for every call
  /\ At("TailCall") /\ Accepts(Callee)
  /\ BindArguments
  /\ frames' = Append(frames, Entered(Len(stack) - Instr.n - 1))
  /\ Drop(Instr.n + 1) /\ UNCHANGED <<form, result>>
TailCall ==
  /\ At("TailCall") /\ Accepts(Callee)
  /\ BindArguments
  /\ frames' = [frames EXCEPT ![Len(frames)] = Entered(Top.base)]
  /\ Drop(Instr.n + 1) /\ UNCHANGED <<form, result>>

(* A frame ends with an item: the caller finds it where the callee lay.    *)
Leave(item) ==
  IF Len(frames) = 1
  THEN result' = ToExpr(item) /\ UNCHANGED <<stack, frames>>
  ELSE /\ stack' = Append(SubSeq(stack, 1, Top.base), item)
       /\ frames' = Front(frames)
       /\ UNCHANGED result

Return == At("Return") /\ Leave(Arg(0)) /\ UNCHANGED <<form, envs>>

Walked == TreeEval(Instr.expr, Top.env, envs)
TreeEvalOp ==
  /\ At("TreeEval") /\ ~Is("error", Walked.val)
  /\ envs' = Walked.envs
  /\ Leave(ToVm(Walked.val)) /\ UNCHANGED form

-----------------------------------------------------------------------------
(* Every error ends the run.                                               *)
Error ==
  \/ Top.ip > Len(Top.code)
  \/ Len(stack) < Needs(Instr)
  \/ At("LoadVar") /\ Is("error", EnvGet(envs, Top.env, Instr.name))
  \/ At("AssignVar") /\ Binder(envs, Top.env, Instr.name) = 0
  \/ At("PrependList") /\ ~Is("list", Arg(1).val)
  \/ At("AppendSplice") /\ ~(Is("list", Arg(0).val) /\ Is("list", Arg(1).val))
  \/ At("PopEnv") /\ envs[Top.env].parent = 0
  \/ AtCall /\ ~Is("prim", Callee.val) /\ ~Accepts(Callee)
  \/ AtCall /\ Is("prim", Callee.val) /\ Is("error", PrimResult)
  \/ At("TreeEval") /\ Is("error", Walked.val)

Fail ==
  /\ result = Running /\ Error
  /\ result' = Failure
  /\ UNCHANGED <<form, stack, frames, envs>>

Finished == result # Running /\ UNCHANGED vars

Next ==
  \/ LoadConst \/ LoadVar \/ StoreVar \/ AssignVar \/ Pop
  \/ LoadNil \/ MakeList \/ PrependList \/ AppendSplice
  \/ Jump \/ JumpIfFalse \/ PushEnv \/ PopEnv
  \/ MakeFunc \/ CallPrim \/ Call \/ TailCall \/ Return \/ TreeEvalOp
  \/ Fail \/ Finished

Spec == Init /\ [][Next]_vars

(* The loop of run goes on until it returns.  This is weak fairness of     *)
(* Next, which is enabled as long as the machine runs.                     *)
LiveSpec == Spec /\ ([]<><<Next>>_vars \/ []<>(result # Running))

-----------------------------------------------------------------------------
(* Frames lie on the stack one above the other, each at an instruction of  *)
(* its own code.                                                           *)
TypeOK ==
  /\ form \in Forms
  /\ frames # << >>
  /\ result # Failure =>
       \A k \in 1..Len(frames) :
         /\ frames[k].ip \in 1..Len(frames[k].code)
         /\ frames[k].base <= Len(stack)
         /\ k > 1 => frames[k - 1].base <= frames[k].base

(* A chunk whose operands add up: its annotation starts at none, every     *)
(* instruction finds what it takes and leaves what the next one expects,   *)
(* along jumps too, and a chunk ends with exactly its value.  Instructions *)
(* that no path reaches, such as those after a TreeEval, are not judged.   *)
Leaves(c) ==
  IF c.op \in {"LoadConst", "LoadVar", "LoadNil", "MakeFunc", "MakeList",
               "PrependList", "AppendSplice", "Call", "TailCall"} THEN 1 ELSE 0
Arrives(code, d, to, n) == to \in 1..Len(code) /\ d[to] = n
OperandsAdd(code, d) ==
  /\ Arrives(code, d, 1, 0)
  /\ \A i \in {j \in 1..Len(code) : d[j] # -1} :
       LET c == code[i]
           after == d[i] - Needs(c) + Leaves(c)
       IN /\ d[i] >= Needs(c)
          /\ c.op \in {"Jump", "JumpIfFalse"} => Arrives(code, d, c.to, after)
          /\ c.op \notin {"Jump", "Return", "TreeEval"} => Arrives(code, d, i + 1, after)
          /\ c.op \in {"Return", "TailCall"} => d[i] = Needs(c)
WellTyped(code) == OperandsAdd(code, DepthOf(code))

(* A chunk whose scopes add up in the same way: it closes only what it     *)
(* opened, and nothing is open where it returns.                           *)
Opens(c) == IF c.op = "PushEnv" THEN 1 ELSE IF c.op = "PopEnv" THEN -1 ELSE 0
ScopesAdd(code, d, s) ==
  /\ s[1] = 0
  /\ \A i \in {j \in 1..Len(code) : d[j] # -1} :
       LET c == code[i]
           after == s[i] + Opens(c)
       IN /\ s[i] \in Nat /\ after >= 0
          /\ c.op = "Return" => s[i] = 0
          /\ c.op \in {"Jump", "JumpIfFalse"} => s[c.to] = after
          /\ c.op \notin {"Jump", "Return", "TreeEval"} => s[i + 1] = after
WellScoped(code) == ScopesAdd(code, DepthOf(code), ScopesOf(code))

(* The compiler emits well typed code: of the bodies of begin, let, for    *)
(* and lambda, of both branches of if, of templates and loops.             *)
CodeIsWellTyped ==
  \A k \in 1..Len(frames) :
    frames[k].code # << >> => WellTyped(frames[k].code) /\ WellScoped(frames[k].code)

(* pop and truncate look at the whole stack (machine.rs:554): that an      *)
(* instruction leaves the operands of its caller alone is the code's doing.*)
OwnOperandsOnly == result = Running => Len(stack) - Needs(Instr) >= Top.base

(* When a frame returns, its value is all that it left on the stack: its   *)
(* caller's operands are below it, untouched and with nothing in between.  *)
NothingLeftOver == At("Return") => Len(stack) = Top.base + 1

(* No environment changes its parent, or disappears while the machine      *)
(* runs; the tree-walker is held to that too.                              *)
IsEnvs(es) ==
  es \in Seq({es[k] : k \in DOMAIN es}) /\ \A k \in DOMAIN es : DOMAIN es[k] = {"parent", "vars"}
KeepsParents(es, later) ==
  /\ IsEnvs(later) /\ Len(es) <= Len(later)
  /\ \A k \in 1..Len(es) : later[k].parent = es[k].parent

(* Every scope a frame opened is closed when it returns.                   *)
ScopesClosed == At("Return") => Top.env = Top.home

(* machine.rs:39-40: tail calls leave the number of frames as it is.       *)
TailFormsRunInOneFrame == form \in TailForms => Len(frames) = 1

(* A form that has a value gets it: loops and calls come to their end.     *)
Finishes == <>(result # Running)
=============================================================================
