------------------------------- MODULE Typing -------------------------------
(***************************************************************************)
(* The bidirectional type checker (src/src/cubical/typechecker.rs).        *)
(*                                                                         *)
(* dts is the sequence of declared datatypes, each [d, cons, pcons]; a     *)
(* constructor is [c, tys] and a path constructor [c, tys, face0, face1].  *)
(* A result is Ok(v), or Err with the constructor of the TypeError.        *)
(***************************************************************************)
EXTENDS Equality

Ok(v) == [ok |-> TRUE, v |-> v]
Err(e) == [ok |-> FALSE, err |-> e]
Done == Ok(TIntervalTy)
Then(r, Cont(_)) == IF r.ok THEN Cont(r.v) ELSE r
And(r1, r2) == IF r1.ok THEN r2 ELSE r1
Require(cond, e) == IF cond THEN Done ELSE Err(e)
ExpectKind(t, k, e) == IF t.k = k THEN Ok(t) ELSE Err(e)

lookup_ctx(i, ctx) ==
  IF i \in 0..(Len(ctx) - 1) THEN Ok(nbe_eval(shift(i + 1, 0, ctx[i + 1].ty)))
  ELSE Err("UnboundVariable")
find_dt(dts, d) ==
  LET i == SelectInSeq(dts, LAMBDA dt : dt.d = d)
  IN IF i = 0 THEN Err("UnknownDatatype") ELSE Ok(dts[i])
find_sig(sigs, c) == SelectSeq(sigs, LAMBDA sig : sig.c = c)

require_equal(ctx, expected, got) ==
  LET r == definitionally_equal_ctx_r(ctx, expected, got)
  IN IF r = "Equal" THEN Done
     ELSE Err(IF r = "NotEqual" THEN "TypeMismatch" ELSE "EtaFuelExhausted")
require_equal_endpt(ctx, expected, got) ==
  LET r == require_equal(ctx, expected, got)
  IN IF ~ r.ok /\ r.err = "TypeMismatch" THEN Err("EndpointMismatch") ELSE r

-----------------------------------------------------------------------------
(* Faces.  A literal is substituted for its interval variable by name:     *)
(* the binders passed on the way down are not counted.                     *)

RECURSIVE PutInterval(_, _, _)
PutInterval(e, n, val) ==
  CASE e.i = "var" -> IF e.n = n THEN val ELSE e
    [] e.i \in {"0", "1"} -> e
    [] OTHER -> [e EXCEPT !.of = [j \in DOMAIN e.of |-> PutInterval(e.of[j], n, val)]]
CubeFormula(c, n, val) ==
  LET put(l) == LET v == PutInterval(IVar(l.var), n, val) IN IF l.pos THEN v ELSE Neg(v)
  IN FoldSet(LAMBDA l, acc : Meet(put(l), acc), I1, c)

RECURSIVE put_literal(_, _, _)
put_literal(t, n, val) ==
  LET inside == MapKids(t, LAMBDA u, b : put_literal(u, n, val))
  IN CASE t.k = "TInterval" -> nbe_eval(TInterval(PutInterval(t.iv, n, val)))
       [] t.k = "TCube" ->
            nbe_eval(TInterval(
              FoldSet(LAMBDA c, acc : Join(CubeFormula(c, n, val), acc), I0, t.cubes)))
       [] t.k \in {"TApp", "PApp", "THComp", "TEquivFwd", "TTransport", "TGlue", "TGlueElem",
                   "TUnglue", "TFst", "TSnd", "TCon", "TPCon", "TElim"} -> nbe_eval(inside)
       [] OTHER -> inside
apply_literal(l, t) == put_literal(t, l.var, IF l.pos THEN I1 ELSE I0)
AtFace(c, t) == FoldSet(LAMBDA lit, acc : apply_literal(lit, acc), t, c)

check_faces(ctx, phi, tube_at0, base) ==
  IF phi.k # "TCube" THEN require_equal_endpt(ctx, tube_at0, base)
  ELSE FoldSet(LAMBDA c, acc : And(acc,
         require_equal_endpt(ctx, nbe_eval(AtFace(c, tube_at0)), nbe_eval(AtFace(c, base)))),
         Done, phi.cubes)

instantiate_telescope(args, body) ==
  FoldLeft(LAMBDA acc, a : beta(acc, a), body, Reverse(args))
Numbered(n, from) == [j \in 1..n |-> TVar(from - j)]
eval_elim_face(t, face, ord_vars, depth) ==
  LET moved == shift(depth, 0, t)
  IN nbe_eval([moved EXCEPT !.s[Len(moved.s)] = nbe_eval(instantiate_telescope(ord_vars, face))])

(* Path constructors reduce at the ends of the interval only here: the     *)
(* normaliser knows no declarations.                                       *)
RECURSIVE reduce_pcon_endpoints_dt(_, _)
reduce_pcon_endpoints_dt(dts, t) ==
  LET v == nbe_eval(t)
      r == nbe_eval(Last(v.s))
      end == value_to_endpoint(r)
      args == [j \in 1..(Len(v.s) - 1) |-> reduce_pcon_endpoints_dt(dts, v.s[j])]
      dt == find_dt(dts, v.d)
      sig == find_sig(dt.v.pcons, v.c)
      face == IF end[1] = I0 THEN sig[1].face0 ELSE sig[1].face1
  IN IF v.k = "PApp"
     THEN nbe_eval(PApp(reduce_pcon_endpoints_dt(dts, v.s[1]), nbe_eval(v.s[2])))
     ELSE IF v.k # "TPCon" THEN v
     ELSE IF end = << >> \/ ~ dt.ok THEN nbe_eval(TPCon(v.d, v.c, args, r))
     ELSE IF sig = << >> THEN nbe_eval(TPCon(v.d, v.c, args, r))
     ELSE reduce_pcon_endpoints_dt(dts, nbe_eval(instantiate_telescope(args, face)))
BodyAt(dts, sign, body) ==
  shift(-1, 0, reduce_pcon_endpoints_dt(dts, apply_literal(Lit(0, sign), body)))

-----------------------------------------------------------------------------
RECURSIVE infer_dt(_, _, _), check_dt(_, _, _, _), type_level_dt(_, _, _),
          CheckTelescope(_, _, _, _, _), TelescopeLevel(_, _, _, _, _)

infer_via_reduction(dts, ctx, t, e) ==
  LET reduced == nbe_eval(t) IN IF reduced = t THEN e ELSE infer_dt(dts, ctx, reduced)

(* At either end, the type a path over a family a_ty, or a type, has.      *)
EndType(a_ty, end) ==
  IF a_ty.k = "PLam" THEN nbe_eval(beta(a_ty.s[1], end)) ELSE a_ty

BinderLevel(dts, ctx, t) ==                             \* Pi and Sigma
  Then(type_level_dt(dts, ctx, t.s[1]), LAMBDA i :
    Then(type_level_dt(dts, extend_ctx(t.x, nbe_eval(t.s[1]), ctx), t.s[2]), LAMBDA j :
      Ok(Max({i, j}))))
PathLevel(dts, ctx, t) ==
  LET a_ == nbe_eval(t.s[1])
  IN Then(type_level_dt(dts, ctx, t.s[1]), LAMBDA n :
       And(check_dt(dts, ctx, t.s[2], EndType(a_, TInterval(I0))),
           And(check_dt(dts, ctx, t.s[3], EndType(a_, TInterval(I1))), Ok(n))))
EquivLevel(dts, ctx, t) ==
  Then(type_level_dt(dts, ctx, t.s[1]), LAMBDA n :
    Then(type_level_dt(dts, ctx, t.s[2]), LAMBDA m : Ok(Max({n, m}))))
FormerLevel(dts, ctx, t) ==
  CASE t.k \in {"TPi", "TSigma"} -> BinderLevel(dts, ctx, t)
    [] t.k = "TPath" -> PathLevel(dts, ctx, t)
    [] t.k = "TEquiv" -> EquivLevel(dts, ctx, t)
type_level_dt(dts, ctx, t) ==
  LET v == nbe_eval(t)
  IN IF t.k \in {"TPi", "TSigma", "TPath", "TEquiv"} THEN FormerLevel(dts, ctx, t)
     ELSE IF v.k = "TUniv" THEN Ok(v.level)
     ELSE IF v.k \in {"TData", "TIntervalTy"} THEN Ok(0)
     ELSE Then(infer_dt(dts, ctx, t), LAMBDA ty :
            LET u == nbe_eval(ty) IN IF u.k = "TUniv" THEN Ok(u.level) ELSE Err("ExpectedUniverse"))

check_interval_dt(dts, ctx, t) ==
  IF t.k \in {"TInterval", "TCube"} THEN Done
  ELSE Then(infer_dt(dts, ctx, t), LAMBDA ty : Require(ty = TIntervalTy, "NotAnInterval"))
require_equiv_dt(dts, ctx, t) ==
  Then(infer_dt(dts, ctx, t), LAMBDA ty : ExpectKind(nbe_eval(ty), "TEquiv", "ExpectedEquiv"))

InferApp(dts, ctx, t) ==
  LET f == infer_dt(dts, ctx, t.s[1])
      f_ty == IF f.v.k = "TPi" THEN f.v ELSE nbe_eval(f.v)
  IN IF ~ f.ok THEN infer_via_reduction(dts, ctx, t, f)
     ELSE IF f_ty.k # "TPi" THEN Err("ExpectedPi")
     ELSE And(check_dt(dts, ctx, t.s[2], f_ty.s[1]), Ok(nbe_eval(beta(f_ty.s[2], t.s[2]))))

InferPApp(dts, ctx, t) ==
  LET p == infer_dt(dts, ctx, t.s[1])
      p_ty == nbe_eval(p.v)
  IN IF ~ p.ok THEN infer_via_reduction(dts, ctx, t, p)
     ELSE IF p_ty.k # "TPath" THEN Err("ExpectedPath")
     ELSE And(check_interval_dt(dts, ctx, t.s[2]),
              Ok(EndType(nbe_eval(p_ty.s[1]), nbe_eval(t.s[2]))))

InferProjection(dts, ctx, t) ==
  LET p == infer_dt(dts, ctx, t.s[1])
      p_ty == nbe_eval(p.v)
  IN IF ~ p.ok THEN infer_via_reduction(dts, ctx, t, p)
     ELSE IF p_ty.k # "TSigma" THEN Err("ExpectedSigma")
     ELSE Ok(nbe_eval(IF t.k = "TFst" THEN p_ty.s[1]
                      ELSE beta(p_ty.s[2], Term("TFst", <<t.s[1]>>))))

(* The four functions of an equivalence are checked with no datatypes.     *)
InferMkEquiv(dts, ctx, t) ==
  LET a == nbe_eval(t.s[1])
      b == nbe_eval(t.s[2])
      up(u) == shift(1, 0, u)
      after(g, f) == TApp(up(g), TApp(up(f), TVar(0)))
      arrow(x, dom, cod) == Binder("TPi", x, <<dom, cod>>)
      f == t.s[3]
      g == t.s[4]
      tys == <<arrow("_", a, up(b)), arrow("_", b, up(a)),
               arrow("a", a, Term("TPath", <<up(a), TVar(0), after(g, f)>>)),
               arrow("b", b, Term("TPath", <<up(b), after(f, g), TVar(0)>>))>>
  IN And(type_level_dt(dts, ctx, t.s[1]),
     And(type_level_dt(dts, ctx, t.s[2]),
     And(FoldLeftDomain(LAMBDA acc, j : And(acc, check_dt(<< >>, ctx, t.s[j + 2], tys[j])), Done, tys),
         Ok(Term("TEquiv", <<a, b>>)))))

(* A path-lambda is not inferred: its type is made up from its body.       *)
PathTypeOf(dts, ctx, p) ==
  LET body == p.s[1]
      path == IF body.k = "PApp" THEN body.s[1] ELSE body
      ctx2 == extend_ctx(p.x, TIntervalTy, ctx)
      down(u) == shift(-1, 0, u)
  IN IF p.k # "PLam" THEN infer_dt(dts, ctx, p)
     ELSE Then(infer_dt(dts, ctx2, path), LAMBDA ty :
            LET path_ty == nbe_eval(ty)
            IN IF path_ty.k = "TPath"
               THEN Ok([path_ty EXCEPT !.s = <<@[1], down(@[2]), down(@[3])>>])
               ELSE Then(infer_dt(dts, ctx2, body), LAMBDA a_ty :
                      Ok(Term("TPath", <<a_ty, down(apply_literal(Lit(0, FALSE), body)),
                                         down(apply_literal(Lit(0, TRUE), body))>>))))
InferTransport(dts, ctx, t) ==
  Then(PathTypeOf(dts, ctx, t.s[1]), LAMBDA ty :
    LET p_ty == nbe_eval(ty)
        a_ty == nbe_eval(p_ty.s[1])
        is == a_ty.k = "PLam"
        x_ty == IF is THEN EndType(a_ty, TInterval(I0)) ELSE nbe_eval(p_ty.s[2])
        ret == IF is THEN EndType(a_ty, TInterval(I1)) ELSE nbe_eval(p_ty.s[3])
    IN IF p_ty.k # "TPath" THEN Err("ExpectedPath")
       ELSE And(check_dt(dts, ctx, t.s[2], x_ty), Ok(ret)))

InferGlue(dts, ctx, t) ==
  LET a_ == nbe_eval(t.s[1])
      te == t.s[3]
      pair == IF te.k = "TAbs" THEN beta(te.s[1], TInterval(I1)) ELSE te
      sigma(n) == Binder("TSigma", "X",
                    <<TUniv(n), Term("TEquiv", <<TVar(0), shift(1, 0, a_)>>)>>)
      ofEquiv(e) ==
        LET dom == nbe_eval(e.s[1])
            cod == nbe_eval(e.s[2])
        IN And(require_equal(ctx, cod, a_), EquivLevel(dts, ctx, Term("TEquiv", <<dom, cod>>)))
      teLevel(n) ==
        IF pair.k = "TPair"
        THEN And(check_dt(dts, ctx, pair, sigma(n)), type_level_dt(dts, ctx, pair.s[1]))
        ELSE IF te.k = "TAbs" THEN Err("Other")
        ELSE Then(infer_dt(dts, ctx, te), LAMBDA ty :
               LET v == nbe_eval(ty)
               IN CASE v.k = "TUniv" -> Ok(v.level)
                    [] v.k \in {"TEquiv", "TMkEquiv"} -> ofEquiv(v)
                    [] OTHER -> Err("Other"))
  IN Then(type_level_dt(dts, ctx, t.s[1]), LAMBDA n :
       And(check_interval_dt(dts, ctx, t.s[2]),
           Then(teLevel(n), LAMBDA l : Ok(TUniv(Max({n, l}))))))

InferUnglue(dts, ctx, t) ==
  LET phi == nbe_eval(t.s[1])
  IN And(check_interval_dt(dts, ctx, t.s[1]),
       IF is_top_dnf(phi) THEN infer_dt(dts, ctx, Term("TEquivFwd", <<t.s[2], t.s[3]>>))
       ELSE IF is_bot_dnf(phi) THEN infer_dt(dts, ctx, t.s[3])
       ELSE Then(infer_dt(dts, ctx, t.s[3]), LAMBDA ty :
              LET v == nbe_eval(ty)
              IN IF v.k = "TGlue" THEN Ok(nbe_eval(v.s[1])) ELSE Err("Other")))
InferGlueElem(dts, ctx, t) ==
  LET phi == nbe_eval(t.s[1])
  IN IF is_top_dnf(phi) THEN infer_dt(dts, ctx, t.s[2])
     ELSE IF is_bot_dnf(phi) THEN infer_dt(dts, ctx, t.s[3]) ELSE Err("CannotInfer")

InferHComp(dts, ctx, t) ==
  LET a_ == nbe_eval(t.s[1])
      phi == nbe_eval(t.s[2])
      tube == nbe_eval(t.s[3])
      base == nbe_eval(t.s[4])
      lambda ==
        And(check_dt(dts, extend_ctx(tube.x, TIntervalTy, ctx), tube.s[1], shift(1, 0, a_)),
            check_faces(ctx, phi, nbe_eval(beta(tube.s[1], TInterval(I0))), base))
      path ==
        Then(infer_dt(dts, ctx, tube), LAMBDA ty :
          LET p == nbe_eval(ty)
              u == nbe_eval(p.s[2])
          IN IF p.k # "TPath" THEN Err("ExpectedPath")
             ELSE And(Require(definitionally_equal_ctx_r(ctx, nbe_eval(p.s[1]), a_) = "Equal",
                              "TypeMismatch"),
                  And(check_dt(dts, ctx, u, a_),
                  And(check_dt(dts, ctx, nbe_eval(p.s[3]), a_), check_faces(ctx, phi, u, base)))))
  IN And(type_level_dt(dts, ctx, t.s[1]),
     And(check_interval_dt(dts, ctx, t.s[2]),
     And(check_dt(dts, ctx, t.s[4], a_),
     And(IF tube.k = "PLam" THEN lambda ELSE path, Ok(a_)))))

-----------------------------------------------------------------------------
(* Datatypes.  The arguments before the k-th stand in its type as the      *)
(* terms prev, put in by instantiate_telescope.                            *)

Fresh(j) == shift(j, 0, TVar(0))
TelescopeLevel(dts, ctx, tys, prev, level) ==
  LET j == Len(prev) + 1
      ty == instantiate_telescope(prev, tys[j])
  IN IF j > Len(tys) THEN Ok(level)
     ELSE Then(type_level_dt(dts, ctx, ty), LAMBDA l :
            TelescopeLevel(dts, extend_ctx("_con_arg", nbe_eval(ty), ctx), tys,
                           Append(prev, Fresh(j)), Max({level, l})))
InferData(dts, ctx, d) ==
  Then(find_dt(dts, d), LAMBDA dt :
    Then(FoldLeft(LAMBDA acc, sig : Then(acc, LAMBDA l : TelescopeLevel(dts, ctx, sig.tys, << >>, l)),
                  Ok(0), dt.cons \o dt.pcons), LAMBDA l : Ok(TUniv(l))))

CheckTelescope(dts, ctx, args, tys, prev) ==
  LET j == Len(prev) + 1
      ty == instantiate_telescope(prev, tys[j])
  IN IF Len(args) # Len(tys) THEN Err("WrongNumberOfArgs")
     ELSE IF j > Len(args) THEN Ok(prev)
     ELSE And(check_dt(dts, ctx, args[j], nbe_eval(ty)),
              CheckTelescope(dts, ctx, args, tys, Append(prev, nbe_eval(args[j]))))

InferCon(dts, ctx, t) ==
  Then(find_dt(dts, t.d), LAMBDA dt :
    LET con == find_sig(dt.cons, t.c)
        pcon == find_sig(dt.pcons, t.c)
        face(f, args) == nbe_eval(instantiate_telescope(args, f))
    IN IF con # << >>
       THEN And(CheckTelescope(dts, ctx, t.s, con[1].tys, << >>), Ok(TData(t.d)))
       ELSE IF pcon = << >> THEN Err("UnknownConstructor")
       ELSE Then(CheckTelescope(dts, ctx, t.s, pcon[1].tys, << >>), LAMBDA args :
              Ok(Term("TPath", <<TData(t.d), face(pcon[1].face0, args), face(pcon[1].face1, args)>>))))

InferPCon(dts, ctx, t) ==
  Then(find_dt(dts, t.d), LAMBDA dt :
    LET pcon == find_sig(dt.pcons, t.c)
    IN IF pcon = << >> THEN Err("UnknownConstructor")
       ELSE And(CheckTelescope(dts, ctx, Front(t.s), pcon[1].tys, << >>),
            And(check_interval_dt(<< >>, ctx, Last(t.s)), Ok(TData(t.d)))))

CheckMotive(dts, ctx, motive, d) ==
  IF motive.k = "TAbs" THEN type_level_dt(dts, extend_ctx(motive.x, TData(d), ctx), motive.s[1])
  ELSE Then(infer_dt(dts, ctx, motive), LAMBDA ty :
         LET v == nbe_eval(ty)
             dom == nbe_eval(v.s[1])
         IN IF v.k # "TPi" THEN Err("ExpectedPi")
            ELSE And(require_equal(ctx, dom, TData(d)),
                     type_level_dt(dts, extend_ctx(v.x, dom, ctx), v.s[2])))

(* The context of a case: its binders, outermost first, over ctx.          *)
ArmCtx(ctx, binders, tys) ==
  LET Push(acc, j) ==
        extend_ctx(binders[j],
                   nbe_eval(instantiate_telescope([n \in 1..(j - 1) |-> Fresh(n)], tys[j])), acc)
  IN FoldLeftDomain(Push, ctx, tys)

CheckConArm(dts, ctx, t, d, sig, i) ==
  LET n == Len(sig.tys)
      as_con == TCon(d, sig.c, Numbered(n, n))
  IN IF Len(t.arms[i].binders) # n THEN Err("BadElimCase")
     ELSE check_dt(dts, ArmCtx(ctx, t.arms[i].binders, sig.tys), t.s[i + 1],
                   nbe_eval(TApp(shift(n, 0, Motive(t)), as_con)))

CheckPConArm(dts, ctx, t, d, sig, i) ==
  LET n == Len(sig.tys)
      body == t.s[i + 1]
      binders == t.arms[i].binders
      i_name == Last(binders)
      ord_ctx == ArmCtx(ctx, Front(binders), sig.tys)
      as_pcon == TPCon(d, sig.c, Numbered(n, n + 1), TVar(0))
      motive_at == nbe_eval(TApp(shift(n + 1, 0, Motive(t)), as_pcon))
      face(f) == eval_elim_face(t, f, Numbered(n, n), n)
      at(sign) == IF body.k = "PLam" THEN BodyAt(dts, sign, body.s[1])
                  ELSE nbe_eval(PApp(body, TInterval(IF sign THEN I1 ELSE I0)))
  IN IF Len(binders) # n + 1 THEN Err("BadElimCase")
     ELSE And(check_dt(dts, extend_ctx(i_name, TIntervalTy, ord_ctx), body,
                       Term("TPath", <<PLam(i_name, motive_at), face(sig.face0), face(sig.face1)>>)),
          And(require_equal_endpt(ord_ctx, face(sig.face0), at(FALSE)),
              require_equal_endpt(ord_ctx, face(sig.face1), at(TRUE))))

CheckArms(dts, ctx, t, d, sigs) ==
  FoldLeft(LAMBDA acc, sig : And(acc,
             LET i == ArmFor(t, sig.c)
             IN IF i = 0 THEN Err("MissingCase")
                ELSE IF "face0" \in DOMAIN sig THEN CheckPConArm(dts, ctx, t, d, sig, i)
                ELSE CheckConArm(dts, ctx, t, d, sig, i)),
           Done, sigs)
InferElim(dts, ctx, t) ==
  Then(infer_dt(dts, ctx, Scrut(t)), LAMBDA ty :
    LET d == nbe_eval(ty)
    IN IF d.k # "TData" THEN Err("ExpectedData")
       ELSE Then(find_dt(dts, d.d), LAMBDA dt :
              And(CheckMotive(dts, ctx, Motive(t), d.d),
              And(CheckArms(dts, ctx, t, d.d, dt.cons \o dt.pcons),
                  Ok(nbe_eval(TApp(Motive(t), nbe_eval(Scrut(t)))))))))

-----------------------------------------------------------------------------
infer_dt(dts, ctx, t) ==
  CASE t.k = "TVar" -> lookup_ctx(t.i, ctx)
    [] t.k = "TUniv" -> Ok(TUniv(t.level + 1))
    [] t.k = "TApp" -> InferApp(dts, ctx, t)
    [] t.k = "PApp" -> InferPApp(dts, ctx, t)
    [] t.k \in {"TFst", "TSnd"} -> InferProjection(dts, ctx, t)
    [] t.k \in {"TInterval", "TCube"} -> Ok(TIntervalTy)
    [] t.k = "TIntervalTy" -> Ok(TUniv(0))
    [] t.k \in {"TAbs", "PLam", "TPair"} -> Err("CannotInfer")
    [] t.k \in {"TPi", "TSigma", "TPath", "TEquiv"} ->
         Then(FormerLevel(dts, ctx, t), LAMBDA n : Ok(TUniv(n)))
    [] t.k = "TMkEquiv" -> InferMkEquiv(dts, ctx, t)
    [] t.k = "TEquivFwd" ->
         Then(require_equiv_dt(dts, ctx, t.s[1]), LAMBDA e :
           And(check_dt(dts, ctx, t.s[2], nbe_eval(e.s[1])), Ok(nbe_eval(e.s[2]))))
    [] t.k = "TUa" ->
         Then(require_equiv_dt(dts, ctx, t.s[1]), LAMBDA e :
           Then(type_level_dt(dts, ctx, nbe_eval(e.s[1])), LAMBDA n :
             Ok(Term("TPath", <<TUniv(n), nbe_eval(e.s[1]), nbe_eval(e.s[2])>>))))
    [] t.k = "TTransport" -> InferTransport(dts, ctx, t)
    [] t.k = "TGlue" -> InferGlue(dts, ctx, t)
    [] t.k = "TGlueElem" -> InferGlueElem(dts, ctx, t)
    [] t.k = "TUnglue" -> InferUnglue(dts, ctx, t)
    [] t.k = "THComp" -> InferHComp(dts, ctx, t)
    [] t.k = "TData" -> InferData(dts, ctx, t.d)
    [] t.k = "TCon" -> InferCon(dts, ctx, t)
    [] t.k = "TPCon" -> InferPCon(dts, ctx, t)
    [] t.k = "TElim" -> InferElim(dts, ctx, t)

-----------------------------------------------------------------------------
(* Checking.  As is the type, if it has the wanted form as it stands, else *)
(* its normal form.                                                        *)
As(ty, k) == IF ty.k = k THEN ty ELSE nbe_eval(ty)

CheckAbs(dts, ctx, t, ty) ==
  LET pi == As(ty, "TPi")
  IN IF pi.k # "TPi" THEN Err("ExpectedPi")
     ELSE check_dt(dts, extend_ctx(t.x, nbe_eval(pi.s[1]), ctx), t.s[1], pi.s[2])

CheckPLamLeft(dts, ctx, t, ty) ==                       \* mutant: the right end is not checked
  LET path == As(ty, "TPath")
      a_ty == nbe_eval(path.s[1])
      body_ty == IF a_ty.k = "PLam" THEN EndType(a_ty, TVar(0)) ELSE shift(1, 0, a_ty)
  IN IF path.k # "TPath" THEN Err("ExpectedPath")
     ELSE And(require_equal_endpt(ctx, nbe_eval(path.s[2]), BodyAt(dts, FALSE, t.s[1])),
              check_dt(dts, extend_ctx(t.x, TIntervalTy, ctx), t.s[1], body_ty))
CheckPLam(dts, ctx, t, ty) ==
  LET path == As(ty, "TPath")
      a_ty == nbe_eval(path.s[1])
      body_ty == IF a_ty.k = "PLam" THEN EndType(a_ty, TVar(0)) ELSE shift(1, 0, a_ty)
  IN IF path.k # "TPath" THEN Err("ExpectedPath")
     ELSE And(require_equal_endpt(ctx, nbe_eval(path.s[2]), BodyAt(dts, FALSE, t.s[1])),
          And(require_equal_endpt(ctx, nbe_eval(path.s[3]), BodyAt(dts, TRUE, t.s[1])),
              check_dt(dts, extend_ctx(t.x, TIntervalTy, ctx), t.s[1], body_ty)))

CheckGlueElem(dts, ctx, t, ty) ==
  LET glue == As(ty, "TGlue")
      te == nbe_eval(glue.s[3])
      inner == beta(te.s[1], TInterval(I1))
      t_ty == CASE te.k \in {"TMkEquiv", "TEquiv", "TPair"} -> nbe_eval(te.s[1])
                [] te.k = "TAbs" -> IF inner.k = "TPair" THEN nbe_eval(inner.s[1]) ELSE inner
                [] OTHER -> te
      cap_ty == IF t.s[2].k = "TAbs" THEN Binder("TPi", "_", <<TIntervalTy, shift(1, 0, t_ty)>>)
                ELSE t_ty
  IN IF glue.k # "TGlue" THEN Err("Other")
     ELSE And(check_interval_dt(<< >>, ctx, t.s[1]),
          And(require_equal(ctx, nbe_eval(glue.s[2]), nbe_eval(t.s[1])),
          And(check_dt(dts, ctx, t.s[2], cap_ty), check_dt(dts, ctx, t.s[3], nbe_eval(glue.s[1])))))

CheckPair(dts, ctx, t, ty) ==
  LET sigma == As(ty, "TSigma")
  IN IF sigma.k # "TSigma" THEN Err("ExpectedSigma")
     ELSE And(check_dt(dts, ctx, t.s[1], nbe_eval(sigma.s[1])),
              check_dt(dts, ctx, t.s[2], nbe_eval(beta(sigma.s[2], t.s[1]))))

CheckCon(dts, ctx, t, ty) ==
  LET v == nbe_eval(ty)
  IN IF v.k = "TData" /\ v # TData(t.d) THEN Err("TypeMismatch")
     ELSE Then(infer_dt(dts, ctx, t), LAMBDA got : require_equal(ctx, v, nbe_eval(got)))

check_dt(dts, ctx, t, ty) ==
  LET got == infer_dt(dts, ctx, t)
      reduced == nbe_eval(t)
  IN CASE t.k = "TAbs" -> CheckAbs(dts, ctx, t, ty)
       [] t.k = "PLam" -> CheckPLam(dts, ctx, t, ty)
       [] t.k = "TGlueElem" -> CheckGlueElem(dts, ctx, t, ty)
       [] t.k = "TPair" -> CheckPair(dts, ctx, t, ty)
       [] t.k \in {"TCon", "TPCon"} -> IF t.k = "TCon" THEN CheckCon(dts, ctx, t, ty)
            ELSE Then(got, LAMBDA g : require_equal(ctx, nbe_eval(ty), nbe_eval(g)))
       [] OTHER -> IF got.ok THEN require_equal(ctx, nbe_eval(ty), nbe_eval(got.v))
                   ELSE IF reduced = t THEN got ELSE check_dt(dts, ctx, reduced, ty)
=============================================================================
