------------------------------ MODULE MCCubical -----------------------------
(***************************************************************************)
(* Small cubical programs for TLC.                                         *)
(***************************************************************************)
EXTENDS Cubical

File(dir, name) == [dir |-> dir, name |-> name]
MCRoot == File("home", "main")
ImportOf(dir, name) == [kind |-> "import", dir |-> dir, name |-> name]
DataOf(name, cons) == [kind |-> "data", name |-> name, cons |-> cons]
DefOf(name, ty, val) == [kind |-> "def", name |-> name, ty |-> ty, val |-> val]

Con(c, ty) == [c |-> c, ty |-> ty]
PathCon(c, ty, f0, f1) == [c |-> c, ty |-> ty, face0 |-> f0, face1 |-> f1]

U(n) == Const(TUniv(n))
i0 == Const(TInterval(I0))
i1 == Const(TInterval(I1))
Path(a, u, v) == Op("TPath", <<a, u, v>>)
Transport(p, x) == Op("TTransport", <<p, x>>)
Pair(a, b) == Op("TPair", <<a, b>>)

NatType == Id("N")
zero == Id("z")
suc(n) == App(Id("s"), <<n>>)
NatDecl == DataOf("N", <<Con("z", NatType), Con("s", Arrow(NatType, NatType))>>)
Circle == Id("S")
base == Id("base")
CircleDecl == DataOf("S", <<Con("base", Circle), PathCon("loop", Circle, base, base)>>)
loopAt(r) == At(Id("loop"), r)

same == Fun(<<"n">>, Id("n"))
const(p) == PathFun("i", p)
IdEquiv == Op("TMkEquiv", <<NatType, NatType, same, same, Fun(<<"n">>, const(Id("n"))), Fun(<<"n">>, const(Id("n")))>>)
plus == Fun(<<"m", "n">>, Elim(Fun(<<"_">>, NatType),
           <<Case("z", << >>, Id("n")), Case("s", <<"k">>, suc(App(Id("f"), <<Id("k"), Id("n")>>)))>>,
           Id("m")))

Line == Const(TIntervalTy)
ua == Op("TUa", <<IdEquiv>>)
uaAt(r) == At(ua, r)
i == Id("i")
j == Id("j")
Neg_(r) == Over("neg", <<r>>)
Fst(p) == Op("TFst", <<p>>)
HComp(phi, tube, b) == Op("THComp", <<NatType, phi, tube, b>>)
GlueType == Op("TGlue", <<NatType, i1, Pair(NatType, IdEquiv)>>)
NatPair == Former("TSigma", <<"_">>, NatType, NatType)
Snd(p) == Op("TSnd", <<p>>)
Left == Former("TSigma", <<"_">>, NatPair, NatType)
Right == Former("TSigma", <<"_">>, NatType, NatPair)
p == Id("p")
Assoc == Op("TMkEquiv", <<Left, Right,
           Fun(<<"p">>, Pair(Fst(Fst(p)), Pair(Snd(Fst(p)), Snd(p)))),
           Fun(<<"p">>, Pair(Pair(Fst(p), Fst(Snd(p))), Snd(Snd(p)))),
           Fun(<<"p">>, const(p)), Fun(<<"p">>, const(p))>>)
NatRefl == Former("TSigma", <<"n">>, NatType, Path(NatType, Id("n"), Id("n")))

Types == <<
  NatType, Arrow(NatType, NatType), Arrow(NatType, Arrow(NatType, NatType)), Path(NatType, zero, zero), Path(NatType, zero, suc(zero)),
  Former("TPi", <<"A">>, U(0), Arrow(Id("A"), Id("A"))), U(0), U(1),
  NatPair, NatRefl,
  Circle, Path(Circle, base, base), Op("TEquiv", <<NatType, NatType>>), Path(U(0), NatType, NatType),
  Former("TPi", <<"x">>, NatType, Path(NatType, Id("x"), Id("x"))),
  Former("TPi", <<"x", "y">>, NatType, Arrow(Path(NatType, Id("x"), Id("y")), Path(NatType, Id("y"), Id("x")))),
  Path(Path(NatType, zero, zero), const(zero), const(zero)),
  Arrow(Circle, Circle), GlueType, Arrow(Line, Arrow(Line, NatType)), Path(Arrow(NatType, NatType), same, same),
  Arrow(NatPair, NatPair), Right >>

Faces == <<Over("meet", <<i, j>>), Over("join", <<i, Neg_(j)>>), Over("join", <<Over("meet", <<i, Neg_(i)>>), j>>),
           Neg_(Over("meet", <<i, Neg_(j)>>)), Neg_(Over("join", <<Over("meet", <<i, j>>), Neg_(j)>>)),
           Over("meet", <<Over("join", <<i, j>>), Over("join", <<i, Neg_(j)>>)>>),
           Over("join", <<i, Neg_(i)>>), Over("meet", <<i, Neg_(i)>>)>>
Squares == [f \in DOMAIN Faces |-> PathFun("i", PathFun("j", HComp(Faces[f], const(zero), zero)))]
  \o [f \in DOMAIN Faces |-> Fun(<<"i", "j">>, HComp(Faces[f], const(zero), zero))]

Values == <<
  zero, suc(zero), same, Fun(<<"n">>, suc(Id("n"))), Fun(<<"A", "x">>, Id("x")), plus,
  const(zero), const(const(zero)), const(base), PathFun("i", loopAt(i)), PathFun("i", loopAt(Neg_(i))),
  Pair(zero, suc(zero)), Pair(zero, const(zero)), NatType, U(0), Arrow(NatType, U(0)), Circle, base, loopAt(i0),
  IdEquiv, ua, Transport(const(NatType), zero), Transport(ua, zero),
  Transport(const(Arrow(NatType, NatType)), same), Transport(PathFun("i", uaAt(i)), zero),
  Fun(<<"x">>, const(Id("x"))), Fun(<<"x", "y", "p">>, PathFun("i", At(p, Neg_(i)))),
  Let("x", zero, suc(Id("x"))), Fst(Pair(zero, zero)), App(same, <<zero>>),
  HComp(i0, const(zero), suc(zero)), HComp(i1, const(zero), zero),
  GlueType, Op("TGlueElem", <<i1, zero, zero>>),
  Fun(<<"c">>, Elim(Fun(<<"_">>, Circle), <<Case("base", << >>, base), Case("loop", <<"i">>, PathFun("j", loopAt(j)))>>, Id("c"))),
  Fun(<<"n">>, Match(Id("n"), NatType, <<Case("z", << >>, zero), Case("s", <<"k">>, Id("k"))>>)),
  Transport(PathFun("i", Arrow(uaAt(i), NatType)), same),
  Transport(PathFun("i", Arrow(NatType, uaAt(i))), same),
  Transport(PathFun("i", Former("TSigma", <<"_">>, uaAt(i), NatType)), Pair(zero, zero)),
  Fst(Transport(PathFun("i", Former("TSigma", <<"_">>, NatType, uaAt(i))), Pair(zero, zero))),
  Op("TEquivFwd", <<IdEquiv, zero>>), Op("TUnglue", <<i1, IdEquiv, zero>>),
  Transport(PathFun("i", Path(NatType, zero, zero)), const(zero)),
  Transport(PathFun("i", Path(uaAt(i), zero, zero)), const(zero)),
  Transport(PathFun("i", Op("TGlue", <<NatType, i, Pair(NatType, IdEquiv)>>)), zero),
  App(Elim(Fun(<<"_">>, Arrow(NatType, NatType)), <<Case("z", << >>, same), Case("s", <<"k">>, Fun(<<"n">>, Id("k")))>>, suc(zero)), <<zero>>),
  Match(suc(zero), NatType, <<Case("z", << >>, zero), Case("s", <<"k">>, Id("k"))>>),
  Fun(<<"n">>, App(same, <<Id("n")>>)),
  Fun(<<"p">>, Pair(Fst(p), Snd(p))), Fun(<<"p">>, p),
  const(same), PathFun("i", Fun(<<"n">>, Id("n"))), At(const(zero), i1),
  PathFun("i", At(PathFun("j", zero), i)), Id("f"),
  Transport(Op("TUa", <<Assoc>>), Pair(Pair(zero, suc(zero)), zero))
  >> \o Squares

Single(t, v) == MCRoot :> <<NatDecl, CircleDecl, DefOf("f", Types[t], Values[v])>>
Plus == 6
Singles == {Single(t, v) : t \in DOMAIN Types, v \in DOMAIN Values \ {Plus}} \cup {Single(3, Plus)}

(* Programs of up to three files that import one another.                  *)
A == ImportOf(".", "a")
B == ImportOf("lib", "b")
Main == ImportOf("home", "main")
N(name, val) == DefOf(name, NatType, val)
MainPrograms == {<<A, N("x", zero)>>, <<NatDecl, N("x", zero), A, N("main", Id("y"))>>,
          <<A, B, N("y", suc(Id("x")))>>, <<B, A, A, N("main", Id("x")), N("y", Id("main"))>>, <<Main>>}
APrograms == {<<NatDecl, N("x", zero)>>, <<B, N("x", Id("y")), N("y", Id("x"))>>,
       <<NatDecl, N("y", zero), B, N("x", Id("y"))>>, <<B, Main>>, <<N("y", Id("x"))>>}
BPrograms == {<<N("y", zero)>>, <<NatDecl, N("y", zero), N("x", suc(Id("y")))>>,
       <<ImportOf("home", "a"), N("y", Id("x"))>>, <<ImportOf("home", "c")>>, <<A>>}
Linked == {MCRoot :> m @@ File("home", "a") :> a @@ File("lib", "b") :> b : m \in MainPrograms, a \in APrograms, b \in BPrograms}

MCPrograms == Singles \cup Linked

(* A definition that names another, in the type of a third.                *)
AliasPrograms == {MCRoot :> <<NatDecl, DefOf("T", U(0), NatType), DefOf("T2", U(0), Id("T")),
                             DefOf("f", Arrow(Id("T2"), Id("T2")), same)>>}

-----------------------------------------------------------------------------
(* The checker.  Each name stands for a value by LET, or TLC would unfold  *)
(* all of its recursion to count how often each expression is evaluated.   *)
MCCheck(dts, ctx, t, ty) == LET answer == check_dt(dts, ctx, t, ty) IN answer
MCInfer(dts, ctx, t) == LET answer == infer_dt(dts, ctx, t) IN answer
MCReduce(t) == LET answer == nbe_eval(t) IN answer
MCCompare(ctx, t, u) == LET answer == definitionally_equal_ctx_r(ctx, t, u) IN answer

-----------------------------------------------------------------------------
(* Equality does not depend on the order of its sides, on any two values   *)
(* that have the type.                                                     *)
Declared == Scope(<<"f">>, [k \in 1..2 |-> LET d == <<NatDecl, CircleDecl>>[k]
                                            IN parse_data_decl(Scope(<< >>, << >>), d.name, d.cons).v])
Inhabitants(ty) ==
  {w \in {Resolve(Declared, Values[v]).v : v \in DOMAIN Values \ {Plus}} :
     Check(Declared.dts, <<[x |-> "f", ty |-> ty]>>, w, ty).ok}
EqualityIsSymmetric ==
  Accepted /\ DOMAIN program = {MCRoot} =>
    \A w \in Inhabitants(last.ty) :
      Compare(Ctx, last.value, w) = Compare(Ctx, w, last.value)
=============================================================================
