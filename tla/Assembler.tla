------------------------------ MODULE Assembler -----------------------------
(***************************************************************************)
(* The two-pass assembler (src/src/tinyasm/assembler.rs) as functions of   *)
(* the program, and the machine it assembles for.  An instruction other    *)
(* than a label or a jump is known by its size and by what it does to a    *)
(* register and a flag.  Machine code is a sequence of bytes: the first    *)
(* byte of an instruction tells all of it, the others are "rest".          *)
(***************************************************************************)
EXTENDS Integers, Sequences, FiniteSets, SequencesExt

CONSTANT MaxRel         \* the largest displacement; 2^31 - 1 in the code

ASSUME MaxRelAssumption == MaxRel \in Nat

Label(name) == [op |-> "label", name |-> name]
Jump(op, name) == [op |-> op, name |-> name]              \* "jmp", "je" or "jne"
Plain(op, imm, size) == [op |-> op, imm |-> imm, size |-> size]  \* "mov", "add", "cmp"
Ret == Plain("ret", 0, 1)

Jumps == {"jmp", "je", "jne"}
IsInstruction(i) ==
  \/ i.op = "label" /\ i = Label(i.name)
  \/ i.op \in Jumps /\ i = Jump(i.op, i.name)
  \/ i.op \in {"mov", "add", "cmp", "ret"} /\ i.size \in Nat \ {0} /\ i = Plain(i.op, i.imm, i.size)
OpcodeBytes(op) == IF op = "jmp" THEN 1 ELSE 2
RelBytes == 4

fixed_sizeShort(i) ==                       \* mutant: every jump as long as jmp
  CASE i.op = "label" -> 0 [] i.op \in Jumps -> 5 [] OTHER -> i.size
fixed_size(i) ==
  CASE i.op = "label" -> 0
    [] i.op = "jmp" -> 5
    [] i.op \in Jumps \ {"jmp"} -> 6
    [] OTHER -> i.size

(* Labels with their offsets, or the label that comes twice.               *)
With(labels, name, offset) ==
  [l \in DOMAIN labels \cup {name} |-> IF l = name THEN offset ELSE labels[l]]
Define(pass, i) ==
  IF pass.error # "none" THEN pass
  ELSE IF i.op # "label" THEN [pass EXCEPT !.offset = @ + fixed_size(i)]
  ELSE IF i.name \in DOMAIN pass.labels THEN [pass EXCEPT !.error = "Duplicate label"]
  ELSE [pass EXCEPT !.labels = With(@, i.name, pass.offset)]
NoLabels == [offset |-> 0, labels |-> << >>, error |-> "none"]
run_pass1(prog) == FoldLeft(Define, NoLabels, prog)

Bytes(first, size) == [k \in 1..size |-> IF k = 1 THEN first ELSE [op |-> "rest"]]

encode_rel32_jump(labels, i, offset, size) ==
  IF i.name \notin DOMAIN labels THEN [error |-> "Undefined label"]
  ELSE LET rel == labels[i.name] - (offset + size)
       IN  IF rel \notin -(MaxRel + 1)..MaxRel THEN [error |-> "Jump out of range"]
           ELSE [error |-> "none",
                 bytes |-> Bytes([op |-> i.op, rel |-> rel], OpcodeBytes(i.op) + RelBytes)]

(* Machine code, from the labels of the first pass.                        *)
Encoded(labels, i, offset) ==
  CASE i.op = "label" -> [error |-> "none", bytes |-> << >>]
    [] i.op = "jmp" -> encode_rel32_jump(labels, i, offset, 5)
    [] i.op \in Jumps \ {"jmp"} -> encode_rel32_jump(labels, i, offset, 6)
    [] OTHER -> [error |-> "none", bytes |-> Bytes([op |-> i.op, imm |-> i.imm], i.size)]
Emit(out, i) ==
  IF out.error # "none" THEN out
  ELSE LET e == Encoded(out.labels, i, Len(out.code))
       IN  IF e.error # "none" THEN [out EXCEPT !.error = e.error]
           ELSE [out EXCEPT !.code = @ \o e.bytes]
NoCode(labels) == [error |-> "none", code |-> << >>, labels |-> labels]
run_pass2(prog, labels) == FoldLeft(Emit, NoCode(labels), prog)

(* The machine code, or the reason there is none.                          *)
assemble(prog) ==
  LET symbols == run_pass1(prog)
  IN  IF symbols.error # "none" THEN [error |-> symbols.error, code |-> << >>]
      ELSE run_pass2(prog, symbols.labels)

-----------------------------------------------------------------------------
(* The machine: rax, the zero flag, and the place of the next instruction. *)
Ready == [rax |-> 0, zero |-> FALSE, at |-> 0]
Effect(op, imm, m) ==
  CASE op = "mov" -> [m EXCEPT !.rax = imm]
    [] op = "add" -> [m EXCEPT !.rax = @ + imm]
    [] op = "cmp" -> [m EXCEPT !.zero = (m.rax = imm)]
    [] OTHER -> m
Taken(op, m) == CASE op = "jmp" -> TRUE [] op = "je" -> m.zero [] op = "jne" -> ~ m.zero

Fault(code, m) == m.at \notin 0..Len(code) - 1 \/ code[m.at + 1].op = "rest"
Fetched(code, m) == code[m.at + 1]
Length(code, m) ==      \* the bytes of the instruction at m.at
  LET ends == {k \in m.at + 1..Len(code) : k = Len(code) \/ code[k + 1].op # "rest"}
  IN  (CHOOSE k \in ends : \A j \in ends : k <= j) - m.at
NativeStep(code, m) ==
  LET b == Fetched(code, m)
      next == m.at + Length(code, m)
  IN  IF b.op \in Jumps THEN [m EXCEPT !.at = IF Taken(b.op, m) THEN next + b.rel ELSE next]
      ELSE [Effect(b.op, b.imm, m) EXCEPT !.at = next]

(* What the program says, at the level of its own text: at is the index of *)
(* the next instruction.                                                   *)
SourceStep(prog, m) ==
  LET i == prog[m.at]
  IN  CASE i.op = "label" -> [m EXCEPT !.at = @ + 1]
        [] i.op \in Jumps ->
             [m EXCEPT !.at = IF Taken(i.op, m)
                              THEN CHOOSE k \in DOMAIN prog : prog[k] = Label(i.name)
                              ELSE @ + 1]
        [] OTHER -> [Effect(i.op, i.imm, m) EXCEPT !.at = @ + 1]

(* The place in the program of the instruction at an offset of its code,   *)
(* found by counting the instructions that begin before it.                *)
Begins(code, offset) == {n \in 1..Len(code) : n <= offset /\ code[n].op # "rest"}
SourceOf(prog, code, offset) ==
  LET before == Cardinality(Begins(code, offset))
  IN  CHOOSE k \in DOMAIN prog :
        /\ prog[k].op # "label"
        /\ Cardinality({j \in 1..k - 1 : prog[j].op # "label"}) = before

(* The next instruction at or after a place of the program.                *)
PastLabels(prog, m) ==
  [m EXCEPT !.at = CHOOSE k \in m.at..Len(prog) :
                     prog[k].op # "label" /\ \A j \in m.at..k - 1 : prog[j].op = "label"]

(* A program that does not run off its end.  The assembler does not ask    *)
(* for it: docs/builtins/asm.md speaks of the value at the time of ret.    *)
Ends(prog) == prog # << >> /\ prog[Len(prog)].op \in {"ret", "jmp"}
=============================================================================
