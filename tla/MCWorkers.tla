------------------------------ MODULE MCWorkers -----------------------------
(***************************************************************************)
(* Files and sources for the workers.                                      *)
(***************************************************************************)
EXTENDS Workers

Asm(lines) == [kind |-> "asm", readable |-> TRUE, lines |-> lines]
Lisp(outcome) == [kind |-> "lisp", outcome |-> outcome]
mov(n) == Plain("mov", n, 7)
add(n) == Plain("add", n, 4)
cmp(n) == Plain("cmp", n, 4)
jmp(l) == Jump("jmp", l)
je(l) == Jump("je", l)
jne(l) == Jump("jne", l)
blank == [op |-> "blank"]
Lines == <<
  <<mov(0), Label("loop"), add(1), cmp(2), jne("loop"), Ret>>,
  <<mov(1), cmp(1), je("out"), jmp("far"), Label("back"), Label("out"), add(1), Ret,
    blank, Label("far"), mov(7), jmp("back")>>,
  <<jmp("go"), Label("no"), jmp("end"), Label("go"), cmp(1), jne("no"), Ret, Label("end"), mov(3), Ret>>,
  <<Label("spin"), jmp("spin")>>,
  <<mov(5), Ret>>,
  << >>,
  <<Label("a"), mov(1), Label("a"), Ret>>,
  <<jmp("nowhere"), Ret>>,
  <<jmp("far"), mov(1), mov(2), mov(3), mov(4), mov(5), Label("far"), Ret>>,
  <<mov(1), [op |-> "bad"], Ret>> >>
Files == {Asm(Lines[k]) : k \in DOMAIN Lines} \cup {[kind |-> "asm", readable |-> FALSE, lines |-> << >>]}
Evaluations == {Lisp(Ok("value")), Lisp(Ok("other")), Lisp(Err("unbound")), Lisp(Panicked)}

MCInputs ==
  {<<a>> : a \in Files} \cup {<<a, b>> : a, b \in Files}
  \cup {<<a, b, c>> : a, b, c \in Evaluations} \cup {<< >>}

(* No file of these runs off its end.                                      *)
ASSUME FilesEnd == ProgramsEnd
=============================================================================
