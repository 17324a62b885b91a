------------------------------ MODULE TreeWalk ------------------------------
(***************************************************************************)
(* The tree-walking evaluator (src/src/eval.rs, src/src/macros.rs) as a    *)
(* function: Walk(e, env, envs) is the value of e in env and the           *)
(* environments afterwards.  It says what a form means; the code lets      *)
(* vm_eval choose an engine for each part, this function walks them all.   *)
(***************************************************************************)
EXTENDS Values

Done(v, envs) == [val |-> v, envs |-> envs]
Err(envs) == Done(Failure, envs)
Failed(o) == Is("error", o.val)

RECURSIVE Walk(_, _, _)

(* Evaluate all, in order, until one fails: the value is the list of them. *)
WalkAll(es, env, envs) ==
  FoldLeft(LAMBDA o, e :
             IF Failed(o) THEN o
             ELSE LET p == Walk(e, env, o.envs)
                  IN IF Failed(p) THEN p ELSE Done(List(Append(o.val.list, p.val)), p.envs),
           Done(List(<< >>), envs), es)

WalkBody(es, env, envs) ==
  LET first == WalkAll(Front(es), env, envs)
  IN IF Failed(first) THEN first ELSE Walk(Last(es), env, first.envs)

Apply(f, args, envs) ==
  IF Is("prim", f) THEN Done(Builtin(f.prim, args), envs)
  ELSE IF ~Is("fn", f) THEN Err(envs)
  ELSE LET call == NewEnv(envs, f.fn.env)
       IN IF Len(args) # Len(f.fn.params) THEN Err(call)
          ELSE Walk(f.fn.body, Len(call), EnvSetAll(call, Len(call), f.fn.params, args))

WalkCall(es, env, envs) ==
  LET o == WalkAll(es, env, envs)
  IN IF Failed(o) THEN o ELSE Apply(Head(o.val.list), Tail(o.val.list), o.envs)

WalkIf(es, env, envs) ==
  LET c == Walk(es[2], env, envs)
  IN IF Len(es) \notin 3..4 THEN Err(envs)
     ELSE IF Failed(c) THEN c
     ELSE IF IsTruthy(c.val) THEN Walk(es[3], env, c.envs)
     ELSE IF Len(es) = 4 THEN Walk(es[4], env, c.envs)
     ELSE Done(List(<< >>), c.envs)

WalkDefine(es, env, envs) ==
  LET o == Walk(es[3], env, envs)
  IN IF Len(es) # 3 \/ ~Is("sym", es[2]) THEN Err(envs)
     ELSE IF Failed(o) THEN o ELSE Done(o.val, EnvSet(o.envs, env, es[2].sym, o.val))

WalkSet(es, env, envs) ==
  LET o == Walk(es[3], env, envs)
      k == Binder(o.envs, env, es[2].sym)
  IN IF Len(es) # 3 \/ ~Is("sym", es[2]) THEN Err(envs)
     ELSE IF Failed(o) THEN o
     ELSE IF k = 0 THEN Err(o.envs)
     ELSE Done(List(<< >>), EnvSet(o.envs, k, es[2].sym, o.val))

(* The initialisers are evaluated in `from` and bound in the new scope,    *)
(* which is `from` itself for let*.                                        *)
WalkLet(es, env, envs0, sequential) ==
  LET envs == NewEnv(envs0, env)
      scope == Len(envs)
      Bind(o, b) ==
        IF Failed(o) THEN o
        ELSE IF ~(Is("list", b) /\ Len(b.list) = 2 /\ Is("sym", b.list[1])) THEN Err(o.envs)
        ELSE LET p == Walk(b.list[2], IF sequential THEN scope ELSE env, o.envs)
             IN IF Failed(p) THEN p ELSE Done(p.val, EnvSet(p.envs, scope, b.list[1].sym, p.val))
      bound == FoldLeft(Bind, Done(List(<< >>), envs), es[2].list)
  IN IF Len(es) < 3 THEN Err(envs0)
     ELSE IF ~Is("list", es[2]) THEN Err(envs)
     ELSE IF Failed(bound) THEN bound
     ELSE WalkBody(From(es, 3), scope, bound.envs)

(* for: one scope for all rounds.  With five parts or more and two         *)
(* integers it counts; otherwise it walks the list that the third part     *)
(* gives, evaluated again.                                                 *)
WalkFor(es, env, envs0) ==
  LET envs == NewEnv(envs0, env)
      scope == Len(envs)
      Rounds(items, body, es1) ==
        FoldLeft(LAMBDA o, v :
                   IF Failed(o) THEN o ELSE WalkAll(body, scope, EnvSet(o.envs, scope, es[2].sym, v)),
                 Done(List(<< >>), es1), items)
      bounds == IF Len(es) >= 5 THEN WalkAll(<<es[3], es[4]>>, env, envs)
                ELSE Done(List(<< >>), envs)
      b == bounds.val.list
      numeric == b # << >> /\ AllInts(b)
      coll == Walk(es[3], env, bounds.envs)
      counted == Rounds([k \in 1..(b[2].int - b[1].int) |-> Num(b[1].int + k - 1)],
                        From(es, 5), bounds.envs)
      listed == Rounds(coll.val.list, From(es, 4), coll.envs)
      ended == IF numeric THEN counted ELSE listed
  IN IF Len(es) < 4 \/ ~Is("sym", es[2]) THEN Err(envs0)
     ELSE IF Failed(bounds) THEN bounds
     ELSE IF ~numeric /\ Failed(coll) THEN coll
     ELSE IF ~numeric /\ ~Is("list", coll.val) THEN Err(coll.envs)
     ELSE IF Failed(ended) THEN ended ELSE Done(List(<< >>), ended.envs)

(* eval_quasiquote.                                                        *)
RECURSIVE WalkQuasi(_, _, _, _)
WalkQuoted(op, e, env, envs, depth) ==
  LET o == WalkQuasi(e, env, envs, depth)
  IN IF Failed(o) THEN o ELSE Done(List(<<Sym(op), o.val>>), o.envs)

WalkItem(o, item, env, depth) ==
  LET splice == IsCall(item, "unquote-splicing")
      p == IF ~splice THEN WalkQuasi(item, env, o.envs, depth)
           ELSE IF depth = 1 THEN Walk(item.list[2], env, o.envs)
           ELSE WalkQuoted("unquote-splicing", item.list[2], env, o.envs, depth - 1)
  IN IF Failed(o) THEN o
     ELSE IF splice /\ Len(item.list) # 2 THEN Err(o.envs)
     ELSE IF Failed(p) THEN p
     ELSE IF splice /\ depth = 1
          THEN IF Is("list", p.val) THEN Done(List(o.val.list \o p.val.list), p.envs)
               ELSE Err(p.envs)
     ELSE Done(List(Append(o.val.list, p.val)), p.envs)

WalkQuasi(e, env, envs, depth) ==
  IF ~Is("list", e) \/ e = List(<< >>) THEN Done(e, envs)
  ELSE IF (IsCall(e, "unquote") \/ IsCall(e, "quasiquote")) /\ Len(e.list) # 2 THEN Err(envs)
  ELSE IF IsCall(e, "unquote")
  THEN IF depth = 1 THEN Walk(e.list[2], env, envs)
       ELSE WalkQuoted("unquote", e.list[2], env, envs, depth - 1)
  ELSE IF IsCall(e, "quasiquote") THEN WalkQuoted("quasiquote", e.list[2], env, envs, depth + 1)
  ELSE FoldLeft(LAMBDA o, item : WalkItem(o, item, env, depth), Done(List(<< >>), envs), e.list)

WalkLambda(es, env, envs) ==
  IF Len(es) = 3 /\ Is("list", es[2]) /\ \A k \in 1..Len(es[2].list) : Is("sym", es[2].list[k])
  THEN Done(Fn([k \in 1..Len(es[2].list) |-> es[2].list[k].sym], es[3], env), envs)
  ELSE Err(envs)

Walk(e, env, envs) ==
  IF Is("sym", e) THEN Done(EnvGet(envs, env, e.sym), envs)
  ELSE IF ~Is("list", e) \/ e = List(<< >>) THEN Done(e, envs)
  ELSE LET es == e.list
           head == IF Is("sym", es[1]) THEN es[1].sym ELSE ""
       IN CASE head = "quote"      -> IF Len(es) = 2 THEN Done(es[2], envs) ELSE Err(envs)
            [] head = "quasiquote" -> IF Len(es) = 2 THEN WalkQuasi(es[2], env, envs, 1) ELSE Err(envs)
            [] head = "if"         -> WalkIf(es, env, envs)
            [] head = "define"     -> WalkDefine(es, env, envs)
            [] head = "set!"       -> WalkSet(es, env, envs)
            [] head = "begin"      -> IF Len(es) = 1 THEN Done(List(<< >>), envs)
                                      ELSE WalkBody(Tail(es), env, envs)
            [] head = "let"        -> WalkLet(es, env, envs, FALSE)
            [] head = "let*"       -> WalkLet(es, env, envs, TRUE)
            [] head = "for"        -> WalkFor(es, env, envs)
            [] head = "lambda"     -> WalkLambda(es, env, envs)
            [] head = "tailcall"   -> IF Len(es) >= 2 THEN WalkCall(Tail(es), env, envs)
                                      ELSE Err(envs)
            [] OTHER               -> WalkCall(es, env, envs)
=============================================================================
