------------------------------- MODULE Terms --------------------------------
(***************************************************************************)
(* Terms of the cubical language and their de Bruijn operations            *)
(* (src/src/cubical/syntax.rs).                                            *)
(*                                                                         *)
(* A term is a record of its constructor k, its subterms s, if it can have *)
(* any, and what else the constructor holds.  Every operation walks the    *)
(* subterms the same way, going under the binders of each: Under says how  *)
(* many there are.                                                         *)
(***************************************************************************)
EXTENDS Interval, Sequences, SequencesExt

TVar(i) == [k |-> "TVar", i |-> i]
TUniv(n) == [k |-> "TUniv", level |-> n]
TIntervalTy == [k |-> "TIntervalTy"]
TInterval(e) == [k |-> "TInterval", iv |-> e]
TCube(d) == [k |-> "TCube", cubes |-> d]
TData(d) == [k |-> "TData", d |-> d]
TCon(d, c, args) == [k |-> "TCon", d |-> d, c |-> c, s |-> args]
TPCon(d, c, args, r) == [k |-> "TPCon", d |-> d, c |-> c, s |-> Append(args, r)]
Term(k, ts) == [k |-> k, s |-> ts]
(* TAbs, PLam, TPi and TSigma bind x in their last subterm.                *)
Binder(k, x, ts) == [k |-> k, x |-> x, s |-> ts]
TAbs(x, b) == Binder("TAbs", x, <<b>>)
PLam(x, b) == Binder("PLam", x, <<b>>)
TApp(f, a) == Term("TApp", <<f, a>>)
PApp(p, r) == Term("PApp", <<p, r>>)
TTransport(p, x) == Term("TTransport", <<p, x>>)
(* arms are [con, binders]; the body of the i-th is the subterm i + 1.     *)
TElim(motive, arms, bodies, scrut) ==
  [k |-> "TElim", arms |-> arms, s |-> <<motive>> \o bodies \o <<scrut>>]
Motive(t) == t.s[1]
Bodies(t) == SubSeq(t.s, 2, Len(t.s) - 1)
Scrut(t) == Last(t.s)
ArmFor(t, con) == SelectInSeq(t.arms, LAMBDA a : a.con = con)

HasKids(t) == "s" \in DOMAIN t
Kids(t) == IF HasKids(t) THEN t.s ELSE << >>
Under(t, i) ==
  IF t.k = "TElim" /\ i - 1 \in DOMAIN t.arms THEN Len(t.arms[i - 1].binders)
  ELSE IF t.k \in {"TAbs", "PLam", "TPi", "TSigma"} /\ i = Len(t.s) THEN 1 ELSE 0
MapKids(t, Op(_, _)) ==
  IF HasKids(t) THEN [t EXCEPT !.s = [i \in DOMAIN @ |-> Op(t.s[i], Under(t, i))]] ELSE t

RECURSIVE shift(_, _, _)
shift(d, c, t) ==
  IF t.k = "TVar" THEN TVar(IF t.i >= c THEN t.i + d ELSE t.i)
  ELSE MapKids(t, LAMBDA u, n : shift(d, c + n, u))

RECURSIVE subst(_, _, _)
subst(j, v, t) ==
  IF t.k = "TVar" THEN IF t.i = j THEN v ELSE t
  ELSE MapKids(t, LAMBDA u, n : subst(j + n, shift(n, 0, v), u))

beta(body, arg) == shift(-1, 0, subst(0, shift(1, 0, arg), body))

RECURSIVE max_var(_)
max_var(t) ==
  IF t.k = "TVar" THEN t.i
  ELSE Max({-1} \cup {max_var(Kids(t)[i]) - Under(t, i) : i \in DOMAIN Kids(t)})

is_bot_dnf(t) == t = TCube(dnf_bot)
is_top_dnf(t) == t = TCube(dnf_top)
equiv_dom(t) == IF t.k \in {"TMkEquiv", "TEquiv", "TPair"} THEN t.s[1] ELSE t
=============================================================================
