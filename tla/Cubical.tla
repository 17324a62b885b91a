------------------------------- MODULE Cubical ------------------------------
(***************************************************************************)
(* A run of a cubical program: the files loaded as Imports says, and what  *)
(* each declaration does on the way (src/src/cubical/mod.rs, env.rs and    *)
(* parser/mod.rs).  Every file under way has a parser with names of its    *)
(* own; the environment is the run's.  The checker is a parameter here, as *)
(* the compiler is of Machine: MCCubical gives it the rules of Typing.     *)
(***************************************************************************)
EXTENDS Imports, Surface

CONSTANTS Check(_, _, _, _),  \* check_dt: datatypes, context, term, type
          Infer(_, _, _),     \* infer_dt: datatypes, context, term
          Reduce(_),          \* nbe_eval: to normal form
          Compare(_, _, _)    \* definitionally_equal_ctx_r: context, both sides

VARIABLES parsers,      \* of each file under way, its globals and datatypes
          env,          \* defs, newest first, and dts, oldest first
          last,         \* the output of the last definition, <<>> before
          result        \* the output of the run, <<>> if it has none
vars == <<program, stack, loaded, loading, phase, parsers, env, last, result>>

Names(defs) == [i \in DOMAIN defs |-> defs[i].name]
global_ctx(defs) == [i \in DOMAIN defs |-> [x |-> defs[i].name, ty |-> defs[i].ty]]
subst_global(k, v, body) == shift(-1, k, subst(k, shift(k, 0, v), body))
(* The oldest first: what a value itself refers to is not put in.          *)
apply_globals(defs, t) ==
  FoldRight(LAMBDA k, body : subst_global(k - 1, defs[k].val, body), [k \in DOMAIN defs |-> k], t)

Parser == parsers[Len(parsers)]
NewParser == [globals |-> << >>, dts |-> << >>]
Synced == [globals |-> Names(env.defs), dts |-> env.dts]
ParserScope == Scope(Parser.globals, Parser.dts)
SetParser(p) == parsers' = [parsers EXCEPT ![Len(parsers)] = p]

CheckConArgs(dts, dt) ==
  FoldLeft(LAMBDA acc, ty : And(acc, Check(dts, << >>, ty, TUniv(0))), Done,
           FlattenSeq([i \in DOMAIN dt.cons |-> dt.cons[i].tys]))

(* What a definition makes of the environment, or the error it meets.  It  *)
(* is in the environment its own value is checked in.                      *)
process_def(e, def) ==
  LET ty == apply_globals(e.defs, def.ty)
      e2 == [e EXCEPT !.defs = <<[name |-> def.name, ty |-> ty, val |-> def.val]>> \o @]
      universe == Infer(e.dts, global_ctx(e.defs), Reduce(ty))
  IN Then(universe, LAMBDA u :
       And(Require(Reduce(u).k = "TUniv", "ExpectedUniverse"),
           And(Check(e2.dts, global_ctx(e2.defs), def.val, ty), Ok(e2))))
Output(e, i) == [name |-> e.defs[i].name, ty |-> e.defs[i].ty,
                 value |-> Reduce(e.defs[i].val), globals |-> Names(e.defs)]

Init ==
  /\ LoadInit
  /\ parsers = <<NewParser>>
  /\ env = [defs |-> << >>, dts |-> << >>]
  /\ last = << >>
  /\ result = << >>

Skip ==
  /\ SkipLoaded
  /\ SetParser(Synced)
  /\ UNCHANGED <<env, last, result>>
Enter ==
  /\ EnterImport
  /\ parsers' = Append(parsers, NewParser)
  /\ UNCHANGED <<env, last, result>>
LeaveUnsynced ==                                    \* mutant: the importer learns nothing
  /\ LeaveImport
  /\ parsers' = SubSeq(parsers, 1, Len(parsers) - 1)
  /\ UNCHANGED <<env, last, result>>
Leave ==
  /\ LeaveImport
  /\ parsers' = Append(SubSeq(parsers, 1, Len(parsers) - 2), Synced)
  /\ UNCHANGED <<env, last, result>>
RefuseImport ==
  /\ RefuseCycle \/ RefuseUnreadable
  /\ UNCHANGED <<parsers, env, last, result>>

(* The datatype is there before its constructors' arguments are checked.   *)
Data ==
  /\ AtDeclaration /\ Decl.kind = "data"
  /\ LET dt == parse_data_decl(ParserScope, Decl.name, Decl.cons)
         dts == Append(env.dts, dt.v)
     IN IF ~ dt.ok THEN Reject("Parse") /\ UNCHANGED <<parsers, env>>
        ELSE /\ SetParser([Parser EXCEPT !.dts = Append(@, dt.v)])
             /\ env' = [env EXCEPT !.dts = dts]
             /\ IF CheckConArgs(dts, dt.v).ok THEN Declare ELSE Reject("Type")
  /\ UNCHANGED <<last, result>>
Def ==
  /\ AtDeclaration /\ Decl.kind = "def"
  /\ LET def == parse_def(ParserScope, Decl)
         after == process_def(env, def.v)
     IN IF ~ def.ok THEN Reject("Parse") /\ UNCHANGED <<parsers, env, last>>
        ELSE /\ SetParser([Parser EXCEPT !.globals = <<def.v.name>> \o @])
             /\ IF ~ after.ok THEN Reject("Type") /\ UNCHANGED <<env, last>>
                ELSE Declare /\ env' = after.v /\ last' = Output(after.v, 1)
  /\ UNCHANGED result
Finish ==
  /\ FinishRoot
  /\ result' = LET main == SelectInSeq(env.defs, LAMBDA d : d.name = "main")
               IN IF main = 0 THEN last ELSE Output(env, main)
  /\ UNCHANGED <<parsers, env, last>>

Next == Skip \/ Enter \/ Leave \/ RefuseImport \/ Data \/ Def \/ Finish
Spec == Init /\ [][Next]_vars /\ WF_loadVars(LoadNext)

-----------------------------------------------------------------------------
(* What is known of a definition that has just been accepted.              *)
Accepted == last # << >>
Dts == env.dts
Ctx == global_ctx(env.defs)
Type == Reduce(last.ty)
IsClosed == max_var(env.defs[1].val) = -1           \* names no definition, nor itself
HasPoints(d) == \E i \in DOMAIN Dts : Dts[i].d = d /\ Dts[i].pcons = << >>
Equal(t1, t2) == Compare(Ctx, t1, t2) = "Equal"

RECURSIVE Subterms(_), IsNumeral(_)
Subterms(t) == {t} \cup UNION {Subterms(Kids(t)[i]) : i \in DOMAIN Kids(t)}
IsNumeral(t) == t.k = "TCon" /\ \A i \in DOMAIN t.s : IsNumeral(t.s[i])

(* Indices mean what the names meant: while files are loaded, skipped and  *)
(* left, the parser at work numbers globals, and finds constructors, as    *)
(* the environment does, though it may not see all of them.                *)
NamesMeanTheirDefinitions ==
  phase = "running" =>
    /\ IsPrefix(Parser.globals, Names(env.defs))
    /\ IsSuffix(Parser.dts, env.dts)

(* Evaluation keeps types: the normal form of an accepted value is accepted*)
(* at the same type.                                                       *)
ResultsKeepTheirTypes == Accepted => Check(Dts, Ctx, last.value, last.ty).ok

(* Transport, composition and gluing leave no residue: a closed value of a *)
(* datatype of points is made of constructors.                             *)
NumbersAreCanonical ==
  Accepted => (IsClosed /\ Type.k = "TData" =>
                 (HasPoints(IF Type.k = "TData" THEN Type.d ELSE "") => IsNumeral(last.value)))

(* No closed path leads from one constructor to another.                   *)
NoPathBetweenConstructors ==
  Accepted /\ IsClosed =>
    ~ /\ Type.k = "TPath" /\ Type.s[1].k = "TData"
      /\ IF Type.k = "TPath" THEN HasPoints(Type.s[1].d) /\ IsNumeral(Type.s[2]) /\ IsNumeral(Type.s[3])
                                 /\ Type.s[2] # Type.s[3]
         ELSE FALSE

(* Without eliminators a normal form is normal: evaluating it again gives  *)
(* it back.                                                                *)
NormalFormsStay ==
  Accepted /\ (\A t \in Subterms(last.value) : t.k # "TElim") => Reduce(last.value) = last.value

(* A value is equal to its expansion at its type, whichever is given first.*)
Expanded(ty, v) ==
  CASE ty.k = "TPi" -> TAbs("_", TApp(shift(1, 0, v), TVar(0)))
    [] ty.k = "TPath" -> PLam("_", PApp(shift(1, 0, v), TVar(0)))
    [] ty.k = "TSigma" -> Term("TPair", <<Term("TFst", <<v>>), Term("TSnd", <<v>>)>>)
    [] OTHER -> v
EtaHolds ==
  Accepted /\ Reduce(last.value) = last.value =>
    LET e == Expanded(Type, last.value)
    IN Equal(e, last.value) /\ Equal(last.value, e)

(* The faces of a composition that does not reduce are, point by point,    *)
(* those of the formula it was written with.                               *)
RECURSIVE Truth(_, _)
Truth(on, e) ==
  CASE e.i \in {"0", "1"} -> e.i = "1"
    [] e.i = "var" -> e.n \in on
    [] e.i = "neg" -> ~ Truth(on, e.of[1])
    [] e.i = "meet" -> Truth(on, e.of[1]) /\ Truth(on, e.of[2])
    [] e.i = "join" -> Truth(on, e.of[1]) \/ Truth(on, e.of[2])
CubesTruth(on, cubes) == \E c \in cubes : \A l \in c : l.pos = (l.var \in on)
FacesMeanTheirFormula ==
  Accepted =>
    \A t \in Subterms(env.defs[1].val), u \in Subterms(last.value) :
      t.k = "THComp" /\ u.k = "THComp" =>
        IF t.k = "THComp" /\ u.k = "THComp"
        THEN \A on \in SUBSET (0..1) : Truth(on, t.s[2].iv) = CubesTruth(on, u.s[2].cubes)
        ELSE TRUE

(* Types are kept without references to other definitions (env.rs:40-42).  *)
TypesAreClosed == \A i \in DOMAIN env.defs : max_var(env.defs[i].ty) = -1

(* Every run comes to an end.                                              *)
RunsEnd == <>(phase # "running")
=============================================================================
