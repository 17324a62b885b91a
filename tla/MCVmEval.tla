----------------------------- MODULE MCVmEval -------------------------------
(***************************************************************************)
(* Sessions for VmEval, and what a test of the repository says of          *)
(* evaluating a form repeatedly.                                           *)
(***************************************************************************)
EXTENDS VmEval

Call(n) == [op |-> "call", name |-> n, val |-> 0]
Const(v) == [op |-> "const", name |-> "", val |-> v]
Float(v) == [op |-> "float", name |-> "", val |-> v]
Name(n) == [op |-> "symbol", name |-> n, val |-> 0]
TickCall == [op |-> "tick", name |-> "", val |-> 0]
Def(n, v) == [op |-> "define", name |-> n, val |-> v]
Mac(n, v) == [op |-> "defmacro", name |-> n, val |-> v]

NoFiles == {}
Session ==
  {<<Call("m")>>, <<TickCall, Call("m")>>, <<Def("m", 1)>>, <<Mac("m", 2)>>,
   <<Name("m")>>, <<TickCall, Name("m")>>, <<TickCall, Mac("m", 3)>>, <<Mac("m", 3), TickCall, Call("m")>>, <<Float(3)>>}
AotFile == {<<[form |-> <<TickCall, Call("m")>>, id |-> 1],
              [form |-> <<Call("m")>>, id |-> 2], [form |-> <<Float(2)>>, id |-> 3]>>}

HotSession ==
  {<<Const(4)>>, <<Float(4)>>, <<TickCall>>, <<Call("m")>>, <<Def("m", 1)>>, <<TickCall, Mac("m", 3)>>}
OneForm == {<<Const(4)>>}

(* vm/mod.rs:461: "Verifies that the compile cache does not corrupt        *)
(* results when the same expression is evaluated repeatedly."              *)
RepeatedFormsAgree == outcome.got = outcome.want
=============================================================================
