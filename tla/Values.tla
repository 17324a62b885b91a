------------------------------- MODULE Values -------------------------------
(***************************************************************************)
(* Expressions and values (src/src/expr.rs, src/src/vm/bytecode.rs), the   *)
(* environments that bind them, and the builtins that loops compile to.    *)
(*                                                                         *)
(* In this Lisp a program is a value: one set of constructors serves for   *)
(* forms and for results.  Floats, complex numbers and strings are left    *)
(* out: the evaluators pass them along as they pass integers.              *)
(***************************************************************************)
EXTENDS Integers, Sequences, SequencesExt

Num(n) == [int |-> n]
Bool(b) == [bool |-> b]
Sym(s) == [sym |-> s]
List(es) == [list |-> es]
Prim(p) == [prim |-> p]                                  \* Expr::Func
Fn(ps, body, env) == [fn |-> [params |-> ps, body |-> body, env |-> env]]

Nil == [nil |-> "nil"]                                   \* only in the VM
Failure == [error |-> "error"]                           \* Err(_)

Is(kind, v) == kind \in DOMAIN v
IsCall(e, head) == Is("list", e) /\ e.list # << >> /\ e.list[1] = Sym(head)
From(s, n) == SubSeq(s, n, Len(s))

IsTruthy(v) ==
  /\ ~Is("nil", v)
  /\ Is("bool", v) => v.bool
  /\ Is("int", v) => v.int # 0
  /\ Is("list", v) => v.list # << >>

-----------------------------------------------------------------------------
(* Environments: envs[k] is the frame with handle k, 0 is no parent.       *)

NewEnv(envs, parent) == Append(envs, [parent |-> parent, vars |-> [n \in {} |-> Nil]])

EnvSet(envs, e, n, v) ==
  [envs EXCEPT ![e].vars =
     [x \in DOMAIN @ \cup {n} |-> IF x = n THEN v ELSE @[x]]]

(* Of two parameters of one name the later is bound.                       *)
EnvSetAll(envs, e, ns, vs) ==
  LET places(n) == {k \in 1..Len(ns) : ns[k] = n}
      last(n) == CHOOSE k \in places(n) : \A j \in places(n) : j <= k
  IN [envs EXCEPT ![e].vars =
        [x \in DOMAIN @ \cup ToSet(ns) |-> IF x \in ToSet(ns) THEN vs[last(x)] ELSE @[x]]]

(* The nearest frame from e outwards that binds n, 0 if there is none.     *)
Binder(envs, e, n) ==
  LET up[k \in 0..Len(envs)] ==
        IF k = 0 \/ n \in DOMAIN envs[k].vars THEN k ELSE up[envs[k].parent]
  IN up[e]

EnvGet(envs, e, n) ==
  LET k == Binder(envs, e, n) IN IF k = 0 THEN Failure ELSE envs[k].vars[n]

-----------------------------------------------------------------------------
(* Builtins.  Those that index their arguments are called with one; what   *)
(* they are given wrongly is an error.                                     *)

PrimNames == {"+", "<", "not", "null?", "car", "cdr", "list"}
AllInts(vs) == \A k \in 1..Len(vs) : Is("int", vs[k])
Holds(vs) == Is("list", vs[1]) /\ vs[1].list # << >>

Builtin(p, vs) ==
  CASE p = "+" /\ AllInts(vs) -> Num(FoldLeft(LAMBDA sum, v : sum + v.int, 0, vs))
    [] p = "<" /\ Len(vs) = 2 /\ AllInts(vs) -> Bool(vs[1].int < vs[2].int)
    [] p = "not" /\ Len(vs) = 1 -> Bool(~IsTruthy(vs[1]))
    [] p = "null?" -> Bool(vs[1] = List(<< >>))
    [] p = "car" /\ Holds(vs) -> vs[1].list[1]
    [] p = "cdr" /\ Holds(vs) -> List(Tail(vs[1].list))
    [] p = "list" -> List(vs)
    [] OTHER -> Failure

GlobalEnvs ==                                            \* global_env()
  <<[parent |-> 0, vars |-> [p \in PrimNames |-> Prim(p)]]>>
=============================================================================
