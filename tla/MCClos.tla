-------------------------------- MODULE MCClos ------------------------------
(***************************************************************************)
(* Three classes that may inherit one another, and a few methods.          *)
(***************************************************************************)
EXTENDS Clos

MCAlphabet == <<"a", "b", "c", "integer", "standard-object", "t">>
MCSuperLists == {<< >>, <<"a">>, <<"b">>, <<"b", "a">>}
Method(qualifier, specs) == [qualifier |-> qualifier, specs |-> specs]
MCMethods ==
  {Method(q, <<c>>) : q \in {"primary", "before", "after"}, c \in {"a", "c"}}
  \cup {Method("around", <<"b">>), Method("primary", <<"a", "t">>)}
MCArguments == {<<"c">>, <<"b">>, <<"b", "c">>}

(* What the theorem about any classes is held to.                         *)
ASSUME Fixed == RootsAreFixed

(* Nothing is claimed once a class is redefined under its subclasses: the  *)
(* states after that are left out.                                         *)
WhileSettled == settled
=============================================================================
