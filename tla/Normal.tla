------------------------------- MODULE Normal -------------------------------
(***************************************************************************)
(* Normalisation by evaluation (src/src/cubical/nbe.rs).                   *)
(*                                                                         *)
(* A value is a record of the same kinds as a term, its subterms values;   *)
(* a binder's value keeps the environment and the body it is a closure of, *)
(* variables are levels.  A neutral is not told apart from another stuck   *)
(* value: both are built, and quoted, in the same way.                     *)
(***************************************************************************)
EXTENDS Terms

NVar(level) == [k |-> "NVar", level |-> level]
VIntervalVar(level) == [k |-> "VIntervalVar", level |-> level]
Closure(k, x, doms, env, body) ==
  [k |-> k, x |-> x, doms |-> doms, env |-> env, body |-> body]
Anonymous(clos) == [clos EXCEPT !.x = "_"]

value_to_endpoint(v) ==
  LET d == IF v.k = "TInterval" THEN eval_interval(v.iv) ELSE v.cubes
  IN IF v.k \notin {"TInterval", "TCube"} THEN << >>
     ELSE IF d = dnf_bot THEN <<I0>> ELSE IF d = dnf_top THEN <<I1>> ELSE << >>
equiv_dom_value(v) == equiv_dom(v)
level_to_var(size, level) ==
  TVar(IF level \in 0..(size - 1) THEN size - level - 1 ELSE level - size)
Levels(size, n) == [i \in 1..n |-> NVar(size + n - i)]

RECURSIVE eval_nbe(_, _), do_apply(_, _), do_papp(_, _), do_elim(_, _, _, _),
          do_transport(_, _, _), do_equiv_fwd(_, _), do_hcomp(_, _, _, _), quote(_, _),
          quote_cases(_, _), value_to_dnf(_), transport_pi(_, _, _), transport_path(_, _, _),
          transport_sigma_pair(_, _, _), transport_glue(_, _, _, _), StuckTransport(_, _, _),
          eval_glue(_, _), transport_term_fallback(_, _), PiFallback(_, _, _, _),
          SigmaFallback(_, _, _), GlueFallback(_, _, _, _), Fill(_, _)

apply(clos, v) == eval_nbe(<<v>> \o clos.env, clos.body)
normalize(env, t) == quote(Len(env), eval_nbe(env, t))
nbe_eval(t) == normalize(Levels(0, max_var(t) + 1), t)

eval_nbe(env, t) ==
  LET v(i) == eval_nbe(env, t.s[i])
      phi(i) == value_to_dnf(v(i))
  IN CASE t.k = "TVar" ->
            IF t.i \in 0..(Len(env) - 1) THEN env[t.i + 1] ELSE NVar(t.i - Len(env))
       [] t.k = "TApp" -> do_apply(v(1), v(2))
       [] t.k = "PApp" -> do_papp(v(1), v(2))
       [] t.k \in {"TAbs", "PLam"} -> Closure(t.k, t.x, << >>, env, t.s[1])
       [] t.k \in {"TPi", "TSigma"} -> Closure(t.k, t.x, <<v(1)>>, env, t.s[2])
       [] t.k = "THComp" -> do_hcomp(v(1), phi(2), v(3), v(4))
       [] t.k = "TEquivFwd" -> do_equiv_fwd(v(1), v(2))
       [] t.k = "TTransport" -> StuckTransport(env, v(1), v(2))
       [] t.k \in {"TGlue", "TGlueElem", "TUnglue"} -> eval_glue(env, t)
       [] t.k \in {"TFst", "TSnd"} /\ v(1).k = "TPair" -> v(1).s[IF t.k = "TFst" THEN 1 ELSE 2]
       [] t.k = "TElim" -> do_elim(v(1), t, v(Len(t.s)), env)
       [] OTHER -> MapKids(t, LAMBDA u, n : eval_nbe(env, u))

do_apply(f, a) == IF f.k = "TAbs" THEN apply(f, a) ELSE TApp(f, a)
do_papp(p, r) ==
  LET end == value_to_endpoint(r)
  IN IF p.k # "PLam" THEN PApp(p, r)
     ELSE IF end # << >> THEN apply(p, TInterval(end[1]))
     ELSE IF r.k \in {"TInterval", "VIntervalVar"} THEN apply(p, r)
     ELSE PApp(Anonymous(p), r)

(* The case bodies stay terms: a stuck eliminator keeps no environment.    *)
do_elim(motive, t, scrut, env) ==
  LET j == IF scrut.k \in {"TCon", "TPCon"} THEN ArmFor(t, scrut.c) ELSE 0
      args == IF scrut.k = "TPCon" THEN Front(scrut.s) ELSE scrut.s
      body == eval_nbe(Reverse(args) \o env, t.s[j + 1])
      unnamed == IF scrut.k \in {"TCon", "TPCon"} THEN [scrut EXCEPT !.d = ""] ELSE scrut
  IN IF j = 0 THEN TElim(motive, t.arms, Bodies(t), unnamed)
     ELSE IF scrut.k = "TCon" THEN body ELSE do_papp(body, Last(scrut.s))

eval_glue(env, t) ==
  LET v(i) == eval_nbe(env, t.s[i])
      phi == value_to_dnf(v(IF t.k = "TGlue" THEN 2 ELSE 1))
      te == v(3)
      dom == equiv_dom_value(IF te.k = "TAbs" THEN apply(te, TInterval(I1)) ELSE te)
  IN CASE t.k = "TGlue" ->
            IF phi = dnf_top THEN dom
            ELSE IF phi = dnf_bot THEN v(1) ELSE Term("TGlue", <<v(1), TCube(phi), te>>)
       [] t.k = "TGlueElem" ->
            IF phi = dnf_top THEN v(2)
            ELSE IF phi = dnf_bot THEN v(3) ELSE Term("TGlueElem", <<TCube(phi), v(2), v(3)>>)
       [] t.k = "TUnglue" ->
            IF phi = dnf_top THEN do_equiv_fwd(v(2), v(3))
            ELSE IF phi = dnf_bot THEN v(3)
            ELSE IF v(3).k = "TGlueElem" /\ v(3).s[1] = TCube(phi) THEN v(3).s[3]
            ELSE Term("TUnglue", <<TCube(phi), v(2), v(3)>>)

do_hcompHeld(a, phi, tube, base) ==                  \* mutant: left at its end
  IF phi = dnf_top THEN PApp(tube, TInterval(I1))
  ELSE IF phi = dnf_bot THEN base ELSE Term("THComp", <<a, TCube(phi), tube, base>>)
do_hcomp(a, phi, tube, base) ==
  IF phi = dnf_top THEN do_papp(tube, TInterval(I1))
  ELSE IF phi = dnf_bot THEN base ELSE Term("THComp", <<a, TCube(phi), tube, base>>)
do_equiv_fwdStuck(e, x) == Term("TEquivFwd", <<e, x>>)          \* mutant: never applied
do_equiv_fwdBack(e, x) ==                            \* mutant: the other way
  IF e.k = "TMkEquiv" THEN do_apply(e.s[4], x) ELSE Term("TEquivFwd", <<e, x>>)
do_equiv_fwd(e, x) ==
  IF e.k = "TMkEquiv" THEN do_apply(e.s[3], x) ELSE Term("TEquivFwd", <<e, x>>)

value_to_dnf(v) ==
  LET q == IF v.k = "VIntervalVar" THEN TInterval(IVar(v.level)) ELSE quote(0, v)
  IN CASE q.k = "TCube" -> q.cubes
       [] q.k = "TInterval" -> eval_interval(q.iv)
       [] OTHER -> dnf_bot

quote(size, v) ==
  CASE v.k \in {"NVar", "VIntervalVar"} -> level_to_var(size, v.level)
    [] v.k \in {"TAbs", "PLam", "TPi", "TSigma"} ->
         LET x == IF v.k = "PLam" THEN VIntervalVar(size) ELSE NVar(size)
         IN Binder(v.k, v.x, [i \in DOMAIN v.doms |-> quote(size, v.doms[i])]
                               \o <<quote(size + 1, apply(v, x))>>)
    [] v.k = "TElim" ->
         TElim(quote(size, Motive(v)), v.arms, quote_cases(size, v), quote(size, Scrut(v)))
    [] OTHER -> MapKids(v, LAMBDA u, n : quote(size, u))
quote_cases(size, v) ==
  [i \in DOMAIN v.arms |->
     LET n == Len(v.arms[i].binders)                   \* normalize_under_binders
     IN quote(size + n, eval_nbe(Levels(size, n), v.s[i + 1]))]

-----------------------------------------------------------------------------
(* Transport.  What the type is at a formal point of the interval is found *)
(* by evaluating the path's body in the caller's environment, not in the   *)
(* closure's.                                                              *)

AtFormal(env, clos) ==
  eval_nbe(<<VIntervalVar(Len(env))>> \o env, beta(shift(1, 0, clos.body), TVar(0)))
(* The family whose value at the formal point is v, as a path.             *)
Family(env, clos, v) == PLam(clos.x, shift(1, 1, quote(Len(env) + 1, v)))
apply_non_dep(clos) == apply(clos, TInterval(I0))
Stuck(p, x) == TTransport(IF p.k = "PLam" THEN Anonymous(p) ELSE p, x)

RECURSIVE uses_tvar_0(_)
uses_tvar_0(t) ==
  IF t.k = "TVar" THEN t.i = 0 ELSE \E i \in DOMAIN Kids(t) : uses_tvar_0(Kids(t)[i])

do_transport(env, p, x) ==
  LET b0 == apply(p, TInterval(I0))
      b1 == apply(p, TInterval(I1))
  IN CASE p.k = "TUa" -> do_equiv_fwd(p.s[1], x)
       [] p.k \notin {"TUa", "PLam"} -> TTransport(p, x)
       [] OTHER ->
            IF quote(0, b0) = quote(0, b1) THEN x
            ELSE IF b0.k # b1.k THEN Stuck(p, x)
            ELSE CASE b0.k = "TUniv" -> x
                   [] b0.k = "TPi" -> transport_pi(env, p, x)
                   [] b0.k = "TPath" -> transport_path(env, p, x)
                   [] b0.k = "TSigma" /\ x.k = "TPair" -> transport_sigma_pair(env, p, x)
                   [] b0.k = "TGlue" -> transport_glue(env, p, b0.s[2].cubes, x)
                   [] OTHER -> Stuck(p, x)

StuckTransport(env, p, x) ==
  LET res == do_transport(env, p, x)
      reduced == transport_term_fallback(quote(Len(env), p), quote(Len(env), x))
  IN IF res.k # "TTransport" \/ reduced.k = "TTransport" THEN res ELSE eval_nbe(env, reduced)

transport_pi(env, p, x) ==
  LET pi == AtFormal(env, p)
      fam == Family(env, p, apply_non_dep(pi))
      x_term == quote(Len(env), x)
      reduced == transport_term_fallback(quote(Len(env), p), x_term)
  IN IF pi.k # "TPi" THEN Stuck(p, x)
     ELSE IF ~ uses_tvar_0(pi.body)
     THEN eval_nbe(env, TAbs(apply(p, TInterval(I0)).x,
                             TTransport(fam, TApp(shift(1, 0, x_term), TVar(0)))))
     ELSE IF reduced.k = "TTransport" THEN Stuck(p, x) ELSE eval_nbe(env, reduced)

transport_path(env, p, x) ==
  LET path == AtFormal(env, p)
  IN IF path.k # "TPath" THEN Stuck(p, x)
     ELSE eval_nbe(env,
            PLam("j", TTransport(shift(1, 0, Family(env, p, path.s[1])),
                                 PApp(shift(1, 0, quote(Len(env), x)), TVar(0)))))

transport_sigma_pair(env, p, x) ==
  LET sigma == AtFormal(env, p)
      is == sigma.k = "TSigma"
      fam == <<Family(env, p, IF is THEN sigma.doms[1] ELSE TUniv(0)),
               Family(env, p, IF is THEN apply_non_dep(sigma) ELSE TUniv(0))>>
  IN Term("TPair", [i \in 1..2 |->
                      eval_nbe(env, TTransport(fam[i], quote(Len(env), x.s[i])))])

transport_glue(env, p, phi0, x) ==
  LET glue == AtFormal(env, p)
      ty == IF phi0 = dnf_bot THEN glue.s[1] ELSE equiv_dom_value(glue.s[3])
  IN IF phi0 \notin {dnf_bot, dnf_top} \/ glue.k # "TGlue" THEN Stuck(p, x)
     ELSE eval_nbe(env, TTransport(Family(env, p, ty), quote(Len(env), x)))

-----------------------------------------------------------------------------
(* The same on terms, for what the values left stuck.                      *)

AtVar(body) == nbe_eval(beta(shift(1, 0, body), TVar(0)))
SwapVars(b) ==
  LET temp == max_var(b) + 1
  IN subst(temp, TVar(1), subst(1, TVar(0), subst(0, TVar(temp), b)))
Fill(a_fam, y) ==
  nbe_eval(TTransport(
    PLam("j", nbe_eval(PApp(shift(2, 0, a_fam), TInterval(Meet(IVar(1), IVar(0)))))), y))
Moved(fam, x) == nbe_eval(TTransport(fam, x))

transport_term_fallback(p, x) ==
  LET body == p.s[1]
      b0 == nbe_eval(beta(body, TInterval(I0)))
      b1 == nbe_eval(beta(body, TInterval(I1)))
      at == AtVar(body)
      ty_a == PLam(p.x, IF at.k = "TPath" THEN at.s[1] ELSE shift(1, 0, b0.s[1]))
  IN CASE p.k = "TUa" -> nbe_eval(Term("TEquivFwd", <<body, x>>))
       [] p.k \notin {"TUa", "PLam"} -> TTransport(p, x)
       [] OTHER ->
            IF b0 = b1 THEN x
            ELSE IF b0.k # b1.k THEN TTransport(p, x)
            ELSE CASE b0.k = "TPi" -> PiFallback(p, b0, b1, x)
                   [] b0.k = "TPath" ->
                        PLam("j", Moved(shift(1, 0, ty_a), PApp(shift(1, 0, x), TVar(0))))
                   [] b0.k = "TSigma" /\ x.k = "TPair" -> SigmaFallback(p, b0, x)
                   [] b0.k = "TGlue" -> GlueFallback(p, nbe_eval(b0.s[2]), at, x)
                   [] OTHER -> TTransport(p, x)

PiFallback(p, b0, b1, x) ==
  LET at == AtVar(p.s[1])
      part(i) == IF at.k = "TPi" THEN at.s[i] ELSE shift(1, 0, b0.s[i])
      result(fam, arg) == TAbs(b0.x, Moved(fam, nbe_eval(TApp(shift(1, 0, x), arg))))
      constant == nbe_eval(b0.s[1]) = nbe_eval(b1.s[1])
      non_dep == subst(0, TUniv(0), b0.s[2]) = b0.s[2]
      a_fam == PLam(p.x, part(1))
      a_rev == PLam("j", PApp(shift(1, 0, a_fam), TInterval(Neg(IVar(0)))))
      y0 == TTransport(shift(1, 0, a_rev), TVar(0))
      fill == Fill(a_fam, shift(1, 0, y0))
  IN IF constant
     THEN result(PLam(p.x, IF at.k = "TPi" THEN SwapVars(part(2)) ELSE part(2)), TVar(0))
     ELSE IF non_dep THEN result(PLam(p.x, part(2)), TVar(0))
     ELSE result(PLam(p.x, nbe_eval(subst(1, fill, SwapVars(part(2))))), y0)

SigmaFallback(p, b0, x) ==
  LET at == AtVar(p.s[1])
      part(i) == IF at.k = "TSigma" THEN at.s[i] ELSE shift(1, 0, b0.s[i])
      a_fam == PLam(p.x, part(1))
      fill == Fill(a_fam, shift(1, 0, x.s[1]))
      b_fam == PLam(p.x, IF at.k = "TSigma" THEN nbe_eval(beta(part(2), fill)) ELSE part(2))
  IN Term("TPair", <<Moved(a_fam, x.s[1]), Moved(b_fam, x.s[2])>>)

GlueFallback(p, phi, at, x) ==
  LET under == IF at.k # "TGlue" THEN at
               ELSE IF is_bot_dnf(phi) THEN at.s[1] ELSE equiv_dom(nbe_eval(at.s[3]))
  IN IF is_bot_dnf(phi) \/ is_top_dnf(phi) THEN Moved(PLam(p.x, under), x) ELSE TTransport(p, x)
=============================================================================
