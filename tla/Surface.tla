------------------------------ MODULE Surface -------------------------------
(***************************************************************************)
(* From the parse of a declaration to its terms: how names become indices  *)
(* (src/src/cubical/parser/grammar.rs).                                    *)
(*                                                                         *)
(* A source expression is a record of its form e.  A scope holds the names *)
(* of the binders passed, those of the interval binders among them, which  *)
(* have a numbering of their own, the globals and the datatypes.           *)
(***************************************************************************)
EXTENDS Typing

Id(x) == [e |-> "name", x |-> x]
Const(t) == [e |-> "const", t |-> t]                 \* Type, Un, I, 0, 1, i0, i1
Op(k, es) == [e |-> "op", k |-> k, es |-> es]
Fun(xs, b) == [e |-> "fun", xs |-> xs, b |-> b]
PathFun(x, b) == [e |-> "path", x |-> x, b |-> b]
Former(k, xs, a, b) == [e |-> "former", k |-> k, xs |-> xs, a |-> a, b |-> b]
Arrow(a, b) == Former("TPi", <<"_">>, a, b)
Let(x, a, b) == [e |-> "let", x |-> x, a |-> a, b |-> b]
App(f, args) == [e |-> "app", f |-> f, args |-> args]
At(p, r) == [e |-> "at", p |-> p, r |-> r]
Over(i, es) == [e |-> "interval", i |-> i, es |-> es]
Case(con, xs, b) == [con |-> con, xs |-> xs, b |-> b]
Elim(motive, cases, scrut) == [e |-> "elim", m |-> motive, cases |-> cases, scrut |-> scrut]
Match(scrut, ret, cases) == [e |-> "match", scrut |-> scrut, ret |-> ret, cases |-> cases]

Scope(globals, dts) == [terms |-> << >>, ivars |-> << >>, globals |-> globals, dts |-> dts]
(* The last of xs becomes the innermost.                                   *)
Push(sc, xs) == [sc EXCEPT !.terms = Reverse(xs) \o @]
PushInterval(sc, x) == [sc EXCEPT !.ivars = <<x>> \o @, !.terms = <<"">> \o @]

Position(names, x) == SelectInSeq(names, LAMBDA y : y = x)
HasSig(sigs, c) == \E i \in DOMAIN sigs : sigs[i].c = c
find_constructor(sc, c) ==
  SelectLastInSeq(sc.dts, LAMBDA dt : HasSig(dt.cons, c) \/ HasSig(dt.pcons, c))
MakesPath(sc, c) ==
  LET j == find_constructor(sc, c) IN j # 0 /\ ~ HasSig(sc.dts[j].cons, c)
is_path_constructor(sc, d, c) ==
  LET j == SelectLastInSeq(sc.dts, LAMBDA dt : dt.d = d) IN j # 0 /\ HasSig(sc.dts[j].pcons, c)

(* A global goes before an interval binder of the same name.               *)
resolve_ident(sc, x) ==
  LET term == Position(sc.terms, x)
      global == Position(sc.globals, x)
      ivar == Position(sc.ivars, x)
      con == find_constructor(sc, x)
  IN IF term # 0 THEN Ok(TVar(term - 1))
     ELSE IF global # 0 THEN Ok(TVar(Len(sc.terms) + global - 1))
     ELSE IF ivar # 0 THEN Ok(TInterval(IVar(ivar - 1)))
     ELSE IF con # 0 THEN Ok(TCon(sc.dts[con].d, x, << >>))
     ELSE IF \E j \in DOMAIN sc.dts : sc.dts[j].d = x THEN Ok(TData(x)) ELSE Err("Parse")

expect_interval(t) ==
  CASE t.k = "TInterval" -> Ok(t.iv)
    [] t.k = "TVar" -> Ok(IVar(t.i))
    [] OTHER -> Err("Parse")

AllOk(rs) ==
  IF \A j \in DOMAIN rs : rs[j].ok THEN Ok([j \in DOMAIN rs |-> rs[j].v])
  ELSE rs[SelectInSeq(rs, LAMBDA r : ~ r.ok)]
ApplyAll(f, args) ==
  IF f.k = "TCon" THEN [f EXCEPT !.s = @ \o args] ELSE FoldLeft(TApp, f, args)
Lambdas(xs, body) == FoldRight(TAbs, xs, body)
Formers(k, xs, ty, body) ==
  FoldLeft(LAMBDA acc, j : Binder(k, xs[j], <<shift(j - 1, 0, ty), acc>>), body,
           [j \in DOMAIN xs |-> Len(xs) + 1 - j])

RECURSIVE Resolve(_, _), ResolveCases(_, _)
(* The binders of a case are pushed last first, an interval's on top.      *)
CaseScope(sc, case) ==
  IF MakesPath(sc, case.con) /\ case.xs # << >>
  THEN PushInterval(Push(sc, Reverse(Front(case.xs))), Last(case.xs))
  ELSE Push(sc, Reverse(case.xs))
ResolveCases(sc, cases) == AllOk([j \in DOMAIN cases |-> Resolve(CaseScope(sc, cases[j]), cases[j].b)])
ElimOf(sc, motive, cases, scrut) ==
  Then(ResolveCases(sc, cases), LAMBDA bodies :
    Ok(TElim(motive, [j \in DOMAIN cases |-> [con |-> cases[j].con, binders |-> cases[j].xs]],
             bodies, scrut)))

ResolveAt(sc, e) ==
  Then(Resolve(sc, e.p), LAMBDA p :
    Then(Resolve(sc, e.r), LAMBDA r :
      Ok(IF p.k = "TCon" /\ is_path_constructor(sc, p.d, p.c)
         THEN TPCon(p.d, p.c, p.s, r) ELSE PApp(p, r))))
ResolveInterval(sc, e) ==
  Then(AllOk([j \in DOMAIN e.es |-> Then(Resolve(sc, e.es[j]), expect_interval)]), LAMBDA of :
    Ok(TInterval([i |-> e.i, of |-> of])))
ResolveMatch(sc, e) ==
  LET x == IF e.scrut.e = "name" THEN e.scrut.x ELSE "_match"
  IN Then(Resolve(sc, e.scrut), LAMBDA scrut :
       Then(Resolve(Push(sc, <<x>>), e.ret), LAMBDA ret :
         ElimOf(sc, TAbs(x, ret), e.cases, scrut)))

Resolve(sc, e) ==
  CASE e.e = "name" -> resolve_ident(sc, e.x)
    [] e.e = "const" -> Ok(e.t)
    [] e.e = "op" -> Then(AllOk([j \in DOMAIN e.es |-> Resolve(sc, e.es[j])]),
                          LAMBDA ts : Ok(Term(e.k, ts)))
    [] e.e = "fun" -> Then(Resolve(Push(sc, e.xs), e.b), LAMBDA b : Ok(Lambdas(e.xs, b)))
    [] e.e = "path" -> Then(Resolve(PushInterval(sc, e.x), e.b), LAMBDA b : Ok(PLam(e.x, b)))
    [] e.e = "former" ->
         Then(Resolve(sc, e.a), LAMBDA a :
           Then(Resolve(Push(sc, e.xs), e.b), LAMBDA b : Ok(Formers(e.k, e.xs, a, b))))
    [] e.e = "let" ->
         Then(Resolve(sc, e.a), LAMBDA a :
           Then(Resolve(Push(sc, <<e.x>>), e.b), LAMBDA b : Ok(TApp(TAbs(e.x, b), a))))
    [] e.e = "app" ->
         Then(Resolve(sc, e.f), LAMBDA f :
           Then(AllOk([j \in DOMAIN e.args |-> Resolve(sc, e.args[j])]),
                LAMBDA args : Ok(ApplyAll(f, args))))
    [] e.e = "at" -> ResolveAt(sc, e)
    [] e.e = "interval" -> ResolveInterval(sc, e)
    [] e.e = "elim" ->
         Then(Resolve(sc, e.m), LAMBDA m :
           Then(Resolve(sc, e.scrut), LAMBDA scrut : ElimOf(sc, m, e.cases, scrut)))
    [] e.e = "match" -> ResolveMatch(sc, e)

-----------------------------------------------------------------------------
(* Data declarations: [c, ty] for a constructor, and its faces for a path  *)
(* constructor.  Each sees the constructors before it.                     *)

RECURSIVE Strip(_)
Strip(ty) ==
  IF ty.k = "TPi"
  THEN LET rest == Strip(ty.s[2]) IN [tys |-> <<ty.s[1]>> \o rest.tys, res |-> rest.res]
  ELSE [tys |-> << >>, res |-> ty]

AddCon(sc, dt, decl) ==
  LET inside == [sc EXCEPT !.dts = Append(@, dt)]
      isPath == "face0" \in DOMAIN decl
  IN Then(Resolve(inside, decl.ty), LAMBDA ty :
       LET sig == [c |-> decl.c, tys |-> Strip(ty).tys]
       IN IF Strip(ty).res # TData(dt.d) THEN Err("Parse")
          ELSE IF ~ isPath THEN Ok([dt EXCEPT !.cons = Append(@, sig)])
          ELSE Then(Resolve(inside, decl.face0), LAMBDA f0 :
                 Then(Resolve(inside, decl.face1), LAMBDA f1 :
                   Ok([dt EXCEPT !.pcons =
                         Append(@, [c |-> sig.c, tys |-> sig.tys, face0 |-> f0, face1 |-> f1])]))))
parse_data_decl(sc, d, decls) ==
  FoldLeft(LAMBDA acc, decl : Then(acc, LAMBDA dt : AddCon(sc, dt, decl)),
           IF decls = << >> THEN Err("Parse") ELSE Ok([d |-> d, cons |-> << >>, pcons |-> << >>]),
           decls)
(* The name is in scope in the value, not in the type.                     *)
parse_def(sc, decl) ==
  Then(Resolve(sc, decl.ty), LAMBDA ty :
    Then(Resolve([sc EXCEPT !.globals = <<decl.name>> \o @], decl.val), LAMBDA val :
      Ok([name |-> decl.name, ty |-> ty, val |-> val])))
=============================================================================
