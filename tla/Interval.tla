------------------------------ MODULE Interval ------------------------------
(***************************************************************************)
(* Interval expressions and their disjunctive normal forms                 *)
(* (src/src/cubical/interval.rs).  A DNF is a set of cubes, a cube a set   *)
(* of literals: the empty set is 0, the set of the empty cube is 1.        *)
(***************************************************************************)
EXTENDS Integers, FiniteSets, FiniteSetsExt

Lit(n, sign) == [var |-> n, pos |-> sign]
I0 == [i |-> "0"]
I1 == [i |-> "1"]
IVar(n) == [i |-> "var", n |-> n]
Neg(a) == [i |-> "neg", of |-> <<a>>]
Meet(a, b) == [i |-> "meet", of |-> <<a, b>>]
Join(a, b) == [i |-> "join", of |-> <<a, b>>]

dnf_bot == {}
dnf_top == {{}}

neg_lit(l) == [l EXCEPT !.pos = ~@]
cube_consistent(c) == \A l \in c : neg_lit(l) \notin c
simplify(cubes) ==
  LET consistent == {c \in cubes : cube_consistent(c)}
  IN {c \in consistent : ~ \E other \in consistent : other # c /\ other \subseteq c}

dnf_join(a, b) == simplify(a \cup b)
dnf_meet(a, b) == simplify({p[1] \cup p[2] : p \in a \X b})
neg_cubeWhole(c) == {{neg_lit(l) : l \in c}}   \* mutant: of a meet, the meet
neg_cube(c) == {{neg_lit(l)} : l \in c}
dnf_neg(d) == FoldSet(LAMBDA c, acc : dnf_meet(acc, neg_cube(c)), dnf_top, d)

RECURSIVE eval_interval(_)
eval_interval(e) ==
  CASE e.i = "0" -> dnf_bot
    [] e.i = "1" -> dnf_top
    [] e.i = "var" -> {{Lit(e.n, TRUE)}}
    [] e.i = "neg" -> dnf_neg(eval_interval(e.of[1]))
    [] e.i = "meet" -> dnf_meet(eval_interval(e.of[1]), eval_interval(e.of[2]))
    [] e.i = "join" -> dnf_join(eval_interval(e.of[1]), eval_interval(e.of[2]))
=============================================================================
