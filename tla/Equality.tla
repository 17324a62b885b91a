------------------------------ MODULE Equality ------------------------------
(***************************************************************************)
(* Definitional equality: normal forms compared up to eta, with fuel       *)
(* (src/src/cubical/equality.rs).  A context is a sequence of [x, ty],     *)
(* innermost first.  The memo table only saves work.                       *)
(***************************************************************************)
EXTENDS Normal

extend_ctx(x, ty, ctx) == <<[x |-> x, ty |-> ty]>> \o ctx

RECURSIVE term_size(_)
term_size(t) == 1 + FoldFunction(+, 0, [i \in DOMAIN Kids(t) |-> term_size(Kids(t)[i])])
initial_fuel(t1, t2) == Max({term_size(t1) + term_size(t2), 16})

(* Exhausted is infectious; NotEqual beats Equal.                          *)
and_result(a, b) ==
  IF "Exhausted" \in {a, b} THEN "Exhausted"
  ELSE IF "NotEqual" \in {a, b} THEN "NotEqual" ELSE "Equal"
AllEqual(rs) == FoldLeft(and_result, "Equal", rs)

(* The type of a variable or of a spine of applications: <<>> for none.    *)
RECURSIVE infer_ty(_, _)
infer_ty(ctx, t) ==
  LET f_ty == infer_ty(ctx, t.s[1])
  IN IF t.k = "TVar" /\ t.i \in 0..(Len(ctx) - 1)
     THEN <<nbe_eval(shift(t.i + 1, 0, ctx[t.i + 1].ty))>>
     ELSE IF t.k = "TApp" /\ f_ty # << >> /\ f_ty[1].k = "TPi"
     THEN <<nbe_eval(beta(f_ty[1].s[2], t.s[2]))>> ELSE << >>

reduce_papp_by_type(ctx, t) ==
  LET ty == infer_ty(ctx, t.s[1])
      end == value_to_endpoint(nbe_eval(t.s[2]))
  IN IF t.k # "PApp" \/ ty = << >> \/ end = << >> THEN << >>
     ELSE IF ty[1].k # "TPath" THEN << >>
     ELSE <<nbe_eval(ty[1].s[IF end[1] = I0 THEN 2 ELSE 3])>>

infer_lam_dom(ctx, t) ==
  LET ty == infer_ty(ctx, t)
  IN IF ty = << >> THEN << >> ELSE IF ty[1].k = "TPi" THEN <<nbe_eval(ty[1].s[1])>> ELSE << >>

RECURSIVE eta_eq(_, _, _, _)

EtaBinderOneSided(fuel, ctx, k, t1, t2) ==        \* mutant: the domain is the left side's
  LET under(t) == nbe_eval(IF t.k = k THEN t.s[1]
                           ELSE Term(IF k = "TAbs" THEN "TApp" ELSE "PApp",
                                     <<shift(1, 0, t), TVar(0)>>))
      dom == IF k = "PLam" THEN <<TIntervalTy>>
             ELSE IF t1.k = t2.k THEN <<TUniv(0)>> ELSE infer_lam_dom(ctx, t1)
  IN IF dom = << >> THEN "Exhausted"
     ELSE eta_eq(fuel - 1, extend_ctx("_", dom[1], ctx), under(t1), under(t2))
EtaBinderUnshifted(fuel, ctx, k, t1, t2) ==       \* mutant: applied to itself, not to the binder
  LET under(t) == nbe_eval(IF t.k = k THEN t.s[1]
                           ELSE Term(IF k = "TAbs" THEN "TApp" ELSE "PApp", <<t, TVar(0)>>))
  IN eta_eq(fuel - 1, extend_ctx("_", TUniv(0), ctx), under(t1), under(t2))

(* One side, or both, is a lambda, by itself or over the interval.         *)
EtaBinder(fuel, ctx, k, t1, t2) ==
  LET lam == IF t2.k = k THEN t2 ELSE t1
      under(t) == nbe_eval(IF t.k = k THEN t.s[1]
                           ELSE Term(IF k = "TAbs" THEN "TApp" ELSE "PApp",
                                     <<shift(1, 0, t), TVar(0)>>))
      both == t1.k = t2.k
      dom == IF k = "PLam" THEN <<TIntervalTy>>
             ELSE IF both THEN <<TUniv(0)>>
             ELSE infer_lam_dom(ctx, IF t2.k = k THEN t1 ELSE t2)
  IN IF dom = << >> THEN "Exhausted"
     ELSE eta_eq(fuel - 1, extend_ctx((IF both THEN t1 ELSE lam).x, dom[1], ctx),
                 under(t1), under(t2))

(* One side is a pair and the other is not.                                *)
EtaPair(fuel, ctx, t1, t2) ==
  LET part(t, i) == IF t.k = "TPair" THEN t.s[i]
                    ELSE nbe_eval(Term(IF i = 1 THEN "TFst" ELSE "TSnd", <<t>>))
  IN and_result(eta_eq(fuel - 1, ctx, part(t1, 1), part(t2, 1)),
                eta_eq(fuel - 1, ctx, part(t1, 2), part(t2, 2)))

Kidwise(fuel, ctx, ss, ts) ==
  AllEqual([i \in DOMAIN ss |-> eta_eq(fuel, ctx, ss[i], ts[i])])
Congruent(fuel, ctx, t1, t2) ==
  IF t1.d # t2.d \/ t1.c # t2.c \/ Len(t1.s) # Len(t2.s) THEN "NotEqual"
  ELSE Kidwise(fuel, ctx, t1.s, t2.s)

(* A mismatched arm overwrites what the arms before it gave.               *)
EtaElim(fuel, ctx, t1, t2) ==
  LET inner(arm) == [i \in DOMAIN arm.binders |->
                       [x |-> Reverse(arm.binders)[i], ty |-> TUniv(0)]] \o ctx
      Arm(acc, i) ==
        IF t1.arms[i].con # t2.arms[i].con
           \/ Len(t1.arms[i].binders) # Len(t2.arms[i].binders) THEN "NotEqual"
        ELSE and_result(acc, eta_eq(fuel, inner(t1.arms[i]), t1.s[i + 1], t2.s[i + 1]))
  IN IF Len(t1.arms) # Len(t2.arms) THEN "NotEqual"
     ELSE AllEqual(<<FoldLeftDomain(Arm, "Equal", t1.arms),
                     eta_eq(fuel, ctx, Motive(t1), Motive(t2)),
                     eta_eq(fuel, ctx, Scrut(t1), Scrut(t2))>>)

(* The bodies of Pi and Sigma types are compared in the outer context.     *)
eta_eq(fuel, ctx, t1, t2) ==
  LET u1 == reduce_papp_by_type(ctx, t1)
      u2 == reduce_papp_by_type(ctx, t2)
  IN IF fuel = 0 THEN "Exhausted"
     ELSE IF t1 = t2 THEN "Equal"
     ELSE IF t1.k = "PApp" /\ u1 # << >> THEN eta_eq(fuel - 1, ctx, u1[1], t2)
     ELSE IF t2.k = "PApp" /\ u2 # << >> THEN eta_eq(fuel - 1, ctx, t1, u2[1])
     ELSE IF "TAbs" \in {t1.k, t2.k} THEN EtaBinder(fuel, ctx, "TAbs", t1, t2)
     ELSE IF "PLam" \in {t1.k, t2.k} THEN EtaBinder(fuel, ctx, "PLam", t1, t2)
     ELSE IF "TPair" \in {t1.k, t2.k} /\ t1.k # t2.k THEN EtaPair(fuel, ctx, t1, t2)
     ELSE IF t1.k # t2.k THEN "NotEqual"
     ELSE CASE t1.k \in {"TApp", "PApp", "TPi", "TPath", "TSigma", "TPair", "TFst", "TSnd"} ->
                 Kidwise(fuel, ctx, t1.s, t2.s)
            [] t1.k \in {"TCon", "TPCon"} -> Congruent(fuel, ctx, t1, t2)
            [] t1.k = "TElim" -> EtaElim(fuel, ctx, t1, t2)
            [] OTHER -> "NotEqual"

definitionally_equal_ctx_r(ctx, t1, t2) ==
  LET v1 == nbe_eval(t1)
      v2 == nbe_eval(t2)
  IN IF v1 = v2 THEN "Equal" ELSE eta_eq(initial_fuel(v1, v2), ctx, v1, v2)
=============================================================================
