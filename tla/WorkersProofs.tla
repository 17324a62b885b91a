---------------------------- MODULE WorkersProofs ---------------------------
(***************************************************************************)
(* What the assembler makes of any program it accepts: the offsets of the  *)
(* first pass are those of the second, every jump leads to its label, and  *)
(* the machine steps through the code as the program reads.  Then what the *)
(* workers and their caller do for any list of sources, any size of page   *)
(* and any number of threads.                                              *)
(***************************************************************************)
EXTENDS Workers, FiniteSetTheorems, TLAPS

(***************************************************************************)
(* The assembler.                                                          *)
(***************************************************************************)
FirstPass == INSTANCE Folding WITH Step <- LAMBDA given, acc, e : Define(acc, e)
SecondPass == INSTANCE Folding WITH Step <- LAMBDA given, acc, e : Emit(acc, e)

IsSeq(s) == s \in Seq({s[n] : n \in DOMAIN s})
IsProgram(prog) == IsSeq(prog) /\ \A k \in DOMAIN prog : IsInstruction(prog[k])

(* Each pass goes over the program instruction by instruction.             *)
LEMMA FoldDefine ==
  ASSUME NEW base, NEW seq, NEW N \in Nat, DOMAIN seq = 1..N
  PROVE  \E t : /\ DOMAIN t = 0..N
                /\ t[0] = base
                /\ \A k \in 1..N : t[k] = Define(t[k - 1], seq[k])
                /\ t[N] = FoldLeft(Define, base, seq)
<1> PICK end : end = FirstPass!FoldOf(0, base, seq, N)
  OBVIOUS
<1>1. FoldLeft(Define, base, seq) = end
  BY DEF FoldLeft, MapThenFoldSet, Max, FirstPass!FoldOf, FirstPass!Iterates, FirstPass!Largest
<1>2. PICK t : FirstPass!IsTrace(t, 0, base, seq, N) /\ t[N] = end
  BY FirstPass!FoldTrace
<1>3. QED
  BY <1>1, <1>2 DEF FirstPass!IsTrace

(* The same for the second.                                                *)
LEMMA FoldEmit ==
  ASSUME NEW base, NEW seq, NEW N \in Nat, DOMAIN seq = 1..N
  PROVE  \E t : /\ DOMAIN t = 0..N
                /\ t[0] = base
                /\ \A k \in 1..N : t[k] = Emit(t[k - 1], seq[k])
                /\ t[N] = FoldLeft(Emit, base, seq)
<1> PICK end : end = SecondPass!FoldOf(0, base, seq, N)
  OBVIOUS
<1>1. FoldLeft(Emit, base, seq) = end
  BY DEF FoldLeft, MapThenFoldSet, Max, SecondPass!FoldOf, SecondPass!Iterates, SecondPass!Largest
<1>2. PICK t : SecondPass!IsTrace(t, 0, base, seq, N) /\ t[N] = end
  BY SecondPass!FoldTrace
<1>3. QED
  BY <1>1, <1>2 DEF SecondPass!IsTrace

-----------------------------------------------------------------------------
(* The first pass, from one instruction to the next.                       *)
IsPass1(t, prog) ==
  /\ DOMAIN t = 0..Len(prog) /\ t[0] = NoLabels
  /\ \A k \in 1..Len(prog) : t[k] = Define(t[k - 1], prog[k])

(* The steps of the first pass end in its table of labels.                *)
LEMMA Pass1Trace ==
  ASSUME NEW prog, IsSeq(prog)
  PROVE  \E t : IsPass1(t, prog) /\ t[Len(prog)] = run_pass1(prog)
<1> DEFINE N == Len(prog)
<1>1. N \in Nat /\ DOMAIN prog = 1..N
  BY DEF IsSeq
<1> HIDE DEF N
<1>2. QED
  BY <1>1, FoldDefine DEF run_pass1, IsPass1, N

(* An error stays.                                                         *)
LEMMA Pass1Errors ==
  ASSUME NEW prog, IsSeq(prog), NEW t, IsPass1(t, prog), t[Len(prog)].error = "none"
  PROVE  \A k \in 0..Len(prog) : t[k].error = "none"
<1> DEFINE N == Len(prog)
           S == {k \in 0..N : t[N - k].error = "none"}
<1>1. N \in Nat
  BY DEF IsSeq
<1>2. 0 \in S
  BY <1>1
<1>3. ASSUME NEW k \in 0..(N - 1), k \in S PROVE k + 1 \in S
  <2>1. N - k \in 1..N /\ (N - k) - 1 = N - (k + 1) /\ k + 1 \in 0..N
    BY <1>1
  <2>2. t[N - k] = Define(t[N - (k + 1)], prog[N - k])
    BY <2>1 DEF IsPass1
  <2>3. QED
    BY <1>3, <2>1, <2>2 DEF Define
<1> HIDE DEF S
<1>4. 0..N \subseteq S
  BY <1>1, <1>2, <1>3, FirstPass!RangeInduces
<1>5. ASSUME NEW k \in 0..N PROVE t[k].error = "none"
  <2>1. N - k \in 0..N /\ N - (N - k) = k
    BY <1>1
  <2>2. QED
    BY <1>4, <2>1 DEF S
<1>6. QED
  BY <1>5

(* Offsets are sums of sizes.                                              *)
Sizes(prog, off) ==
  /\ off \in [0..Len(prog) -> Nat] /\ off[0] = 0
  /\ \A k \in 1..Len(prog) : off[k] = off[k - 1] + fixed_size(prog[k])

(* The labels of the first n instructions, each defined once.              *)
LabelsOf(prog, off, n, labels) ==
  /\ \A k \in 1..n : prog[k].op = "label" =>
       prog[k].name \in DOMAIN labels /\ labels[prog[k].name] = off[k - 1]
  /\ \A l \in DOMAIN labels : \E k \in 1..n : prog[k] = Label(l)
  /\ \A j, k \in 1..n : prog[j].op = "label" /\ prog[k] = prog[j] => j = k

(* Only a label takes no bytes.                                            *)
LEMMA SizeIsNatural ==
  ASSUME NEW i, IsInstruction(i)
  PROVE  fixed_size(i) \in Nat /\ (fixed_size(i) = 0 <=> i.op = "label")
BY DEF IsInstruction, fixed_size, Label, Jump, Plain, Jumps

(* The first pass has every label at the offset of what follows it.        *)
LEMMA Pass1Labels ==
  ASSUME NEW prog, IsProgram(prog), run_pass1(prog).error = "none"
  PROVE  \E off : Sizes(prog, off) /\ LabelsOf(prog, off, Len(prog), run_pass1(prog).labels)
<1> DEFINE N == Len(prog)
<1>1. N \in Nat /\ DOMAIN prog = 1..N /\ IsSeq(prog) /\ \A k \in 1..N : IsInstruction(prog[k])
  BY DEF IsProgram, IsSeq
<1>2. PICK t : IsPass1(t, prog) /\ t[N] = run_pass1(prog)
  BY <1>1, Pass1Trace
<1>3. \A k \in 0..N : t[k].error = "none"
  BY <1>1, <1>2, Pass1Errors
<1> DEFINE off == [k \in 0..N |-> t[k].offset]
           Good(k) == /\ DOMAIN t[k] = {"offset", "labels", "error"} /\ off[k] \in Nat
                      /\ LabelsOf(prog, off, k, t[k].labels)
           S == {k \in 0..N : Good(k)}
<1>4. ASSUME NEW k \in 1..N, DOMAIN t[k - 1] = {"offset", "labels", "error"}, off[k - 1] \in Nat
      PROVE  /\ DOMAIN t[k] = {"offset", "labels", "error"} /\ off[k] = off[k - 1] + fixed_size(prog[k])
             /\ prog[k].op # "label" => t[k].labels = t[k - 1].labels
             /\ prog[k].op = "label" =>
                  /\ prog[k].name \notin DOMAIN t[k - 1].labels
                  /\ t[k].labels = With(t[k - 1].labels, prog[k].name, off[k - 1])
  <2>1. t[k] = Define(t[k - 1], prog[k]) /\ k - 1 \in 0..N /\ k \in 0..N
    BY <1>1, <1>2 DEF IsPass1
  <2>2. t[k].error = "none" /\ t[k - 1].error = "none"
    BY <1>3, <2>1
  <2>3. off[k] = t[k].offset /\ off[k - 1] = t[k - 1].offset
    BY <2>1
  <2>4. prog[k].op = "label" => fixed_size(prog[k]) = 0
    BY <1>1, SizeIsNatural
  <2> DEFINE old == t[k - 1]
             i == prog[k]
  <2> HIDE DEF off
  <2>5. CASE i.op # "label"
    <3>1. t[k] = [old EXCEPT !.offset = @ + fixed_size(i)]
      BY <2>1, <2>2, <2>5 DEF Define
    <3>2. QED
      BY <1>4, <2>3, <2>5, <3>1
  <2>6. CASE i.op = "label"
    <3>1. i.name \notin DOMAIN old.labels
      BY <1>4, <2>1, <2>2, <2>6 DEF Define
    <3>2. t[k] = [old EXCEPT !.labels = With(old.labels, i.name, old.offset)]
      BY <2>1, <2>2, <2>6, <3>1 DEF Define
    <3>3. QED
      BY <1>4, <2>3, <2>4, <2>6, <3>1, <3>2
  <2>7. QED
    BY <2>5, <2>6
<1>5. 0 \in S
  <2>1. t[0] = NoLabels /\ off[0] = t[0].offset
    BY <1>1, <1>2 DEF IsPass1
  <2>2. QED
    BY <1>1, <2>1 DEF NoLabels, LabelsOf
<1>6. ASSUME NEW n \in 0..(N - 1), n \in S PROVE n + 1 \in S
  <2> DEFINE k == n + 1
  <2> HIDE DEF off
  <2>1. k \in 1..N /\ k - 1 = n /\ k \in 0..N /\ k \in Nat
    BY <1>1
  <2>2. Good(k - 1)
    BY <1>6, <2>1
  <2>3. IsInstruction(prog[k]) /\ fixed_size(prog[k]) \in Nat
    BY <1>1, <2>1, SizeIsNatural
  <2>4. off[k] \in Nat /\ DOMAIN t[k] = {"offset", "labels", "error"}
    <3>1. off[k] = off[k - 1] + fixed_size(prog[k]) /\ DOMAIN t[k] = {"offset", "labels", "error"}
      BY <1>4, <2>1, <2>2
    <3>2. QED
      BY <2>2, <2>3, <3>1
  <2>5. 1..k = 1..(k - 1) \cup {k} /\ k \notin 1..(k - 1)
    BY <2>1
  <2>6. LabelsOf(prog, off, k, t[k].labels)
    <3>1. CASE prog[k].op # "label"
      <4>1. t[k].labels = t[k - 1].labels
        BY <1>4, <2>1, <2>2, <3>1
      <4>2. QED
        BY <2>2, <2>5, <3>1, <4>1 DEF LabelsOf, Label
    <3>2. CASE prog[k].op = "label"
      <4> DEFINE name == prog[k].name
                 old == t[k - 1].labels
      <4>1. /\ name \notin DOMAIN old
            /\ t[k].labels = [l \in DOMAIN old \cup {name} |-> IF l = name THEN off[k - 1] ELSE old[l]]
        BY <1>4, <2>1, <2>2, <3>2 DEF With
      <4>2. prog[k] = Label(name)
        BY <2>3, <3>2 DEF IsInstruction, Jumps
      <4>3. \A j \in 1..(k - 1) : prog[j].op = "label" => prog[j].name # name
        BY <2>2, <4>1 DEF LabelsOf
      <4>4. \A j \in 1..k : prog[j].op = "label" =>
              prog[j].name \in DOMAIN t[k].labels /\ t[k].labels[prog[j].name] = off[j - 1]
        BY <2>2, <2>5, <4>1, <4>3 DEF LabelsOf
      <4>5. \A l \in DOMAIN t[k].labels : \E j \in 1..k : prog[j] = Label(l)
        BY <2>2, <2>5, <4>1, <4>2 DEF LabelsOf
      <4>6. \A i, j \in 1..k : prog[i].op = "label" /\ prog[j] = prog[i] => i = j
        BY <2>2, <2>5, <3>2, <4>3 DEF LabelsOf
      <4>7. QED
        BY <4>4, <4>5, <4>6 DEF LabelsOf
    <3>3. QED
      BY <3>1, <3>2
  <2>7. QED
    BY <2>1, <2>4, <2>6
<1>7. 0..N \subseteq S
  <2> HIDE DEF S
  <2>1. QED
    BY <1>1, <1>5, <1>6, FirstPass!RangeInduces
<1>8. Sizes(prog, off)
  <2>1. off \in [0..N -> Nat] /\ off[0] = 0
    <3>1. t[0].offset = 0
      BY <1>2 DEF IsPass1, NoLabels
    <3>2. \A k \in 0..N : off[k] \in Nat
      BY <1>7
    <3>3. QED
      BY <1>1, <3>1, <3>2
  <2>2. ASSUME NEW k \in 1..N PROVE off[k] = off[k - 1] + fixed_size(prog[k])
    <3>1. k - 1 \in 0..N
      BY <1>1
    <3>2. Good(k - 1)
      BY <1>7, <3>1
    <3> HIDE DEF off
    <3>3. QED
      BY <1>4, <3>2
  <2>3. QED
    BY <2>1, <2>2 DEF Sizes
<1>9. LabelsOf(prog, off, N, run_pass1(prog).labels)
  BY <1>1, <1>2, <1>7
<1>10. QED
  BY <1>8, <1>9

-----------------------------------------------------------------------------
(* The second pass, from one instruction to the next.                      *)
IsPass2(t, prog, labels) ==
  /\ DOMAIN t = 0..Len(prog) /\ t[0] = NoCode(labels)
  /\ \A k \in 1..Len(prog) : t[k] = Emit(t[k - 1], prog[k])

(* The steps of the second pass end in its output.                         *)
LEMMA Pass2Trace ==
  ASSUME NEW prog, IsSeq(prog), NEW labels
  PROVE  \E t : IsPass2(t, prog, labels) /\ t[Len(prog)] = run_pass2(prog, labels)
<1> DEFINE N == Len(prog)
<1>1. N \in Nat /\ DOMAIN prog = 1..N
  BY DEF IsSeq
<1> HIDE DEF N
<1>2. QED
  BY <1>1, FoldEmit DEF run_pass2, IsPass2, N

(* An error stays.                                                         *)
LEMMA Pass2Errors ==
  ASSUME NEW prog, IsSeq(prog), NEW labels, NEW t, IsPass2(t, prog, labels),
         t[Len(prog)].error = "none"
  PROVE  \A k \in 0..Len(prog) : t[k].error = "none"
<1> DEFINE N == Len(prog)
           S == {k \in 0..N : t[N - k].error = "none"}
<1>1. N \in Nat
  BY DEF IsSeq
<1>2. 0 \in S
  BY <1>1
<1>3. ASSUME NEW k \in 0..(N - 1), k \in S PROVE k + 1 \in S
  <2>1. N - k \in 1..N /\ (N - k) - 1 = N - (k + 1) /\ k + 1 \in 0..N
    BY <1>1
  <2>2. t[N - k] = Emit(t[N - (k + 1)], prog[N - k])
    BY <2>1 DEF IsPass2
  <2>3. QED
    BY <1>3, <2>1, <2>2 DEF Emit
<1> HIDE DEF S
<1>4. 0..N \subseteq S
  BY <1>1, <1>2, <1>3, FirstPass!RangeInduces
<1>5. ASSUME NEW k \in 0..N PROVE t[k].error = "none"
  <2>1. N - k \in 0..N /\ N - (N - k) = k
    BY <1>1
  <2>2. QED
    BY <1>4, <2>1 DEF S
<1>6. QED
  BY <1>5

(* A sequence over any set is one over its own elements.                   *)
LEMMA OwnElements ==
  ASSUME NEW S, NEW s \in Seq(S)
  PROVE  IsSeq(s)
BY DEF IsSeq

(* Code that grows keeps what it has.                                      *)
LEMMA Appended ==
  ASSUME NEW a, IsSeq(a), NEW b, IsSeq(b)
  PROVE  /\ IsSeq(a \o b) /\ Len(a \o b) = Len(a) + Len(b)
         /\ \A n \in 1..Len(a) : (a \o b)[n] = a[n]
         /\ \A n \in 1..Len(b) : (a \o b)[Len(a) + n] = b[n]
<1> DEFINE S == {a[n] : n \in DOMAIN a} \cup {b[n] : n \in DOMAIN b}
<1>1. a \in Seq(S) /\ b \in Seq(S)
  BY DEF IsSeq
<1>2. a \o b \in Seq(S)
  BY <1>1
<1> HIDE DEF S
<1>3. IsSeq(a \o b)
  BY <1>2, OwnElements
<1>4. QED
  BY <1>1, <1>3

(* The first byte of an instruction that ends at an offset.                *)
FirstByte(i, labels, end) ==
  IF i.op \in Jumps THEN [op |-> i.op, rel |-> labels[i.name] - end]
  ELSE [op |-> i.op, imm |-> i.imm]

(* An instruction takes the bytes the first pass counted for it.           *)
LEMMA EncodedBytes ==
  ASSUME NEW i, IsInstruction(i), NEW labels, NEW offset \in Nat,
         Encoded(labels, i, offset).error = "none"
  PROVE  LET bytes == Encoded(labels, i, offset).bytes
             size == fixed_size(i)
         IN  /\ IsSeq(bytes) /\ Len(bytes) = size
             /\ \A n \in 1..size : bytes[n] = IF n = 1 THEN FirstByte(i, labels, offset + size)
                                              ELSE [op |-> "rest"]
             /\ i.op \in Jumps => i.name \in DOMAIN labels
<1>1. ASSUME NEW first, NEW size \in Nat
      PROVE  /\ IsSeq(Bytes(first, size)) /\ Len(Bytes(first, size)) = size
             /\ \A n \in 1..size : Bytes(first, size)[n] = IF n = 1 THEN first ELSE [op |-> "rest"]
  <2>1. Bytes(first, size) \in Seq({first, [op |-> "rest"]})
    BY DEF Bytes
  <2>2. IsSeq(Bytes(first, size))
    BY <2>1, OwnElements
  <2>3. /\ DOMAIN Bytes(first, size) = 1..size
        /\ \A n \in 1..size : Bytes(first, size)[n] = IF n = 1 THEN first ELSE [op |-> "rest"]
    BY DEF Bytes
  <2>4. Len(Bytes(first, size)) = size
    BY <2>1, <2>3
  <2>5. QED
    BY <2>2, <2>3, <2>4
<1>2. CASE i.op = "label"
  <2>1. Encoded(labels, i, offset).bytes = << >> /\ fixed_size(i) = 0 /\ i.op \notin Jumps
    BY <1>2 DEF Encoded, fixed_size, Jumps
  <2>2. IsSeq(<< >>)
    BY DEF IsSeq
  <2>3. QED
    BY <2>1, <2>2
<1>3. CASE i.op \in Jumps
  <2> DEFINE size == IF i.op = "jmp" THEN 5 ELSE 6
             e == encode_rel32_jump(labels, i, offset, size)
  <2>1. fixed_size(i) = size /\ OpcodeBytes(i.op) + RelBytes = size /\ size \in Nat
    BY <1>3 DEF fixed_size, OpcodeBytes, RelBytes, Jumps
  <2>2. Encoded(labels, i, offset) = e
    BY <1>3 DEF Encoded, Jumps
  <2> HIDE DEF size
  <2>3. /\ i.name \in DOMAIN labels
        /\ e.bytes = Bytes([op |-> i.op, rel |-> labels[i.name] - (offset + size)], size)
    <3> DEFINE rel == labels[i.name] - (offset + size)
    <3>1. e.error = "none"
      BY <2>2
    <3>2. i.name \in DOMAIN labels
      BY <3>1 DEF encode_rel32_jump
    <3>3. rel \in -(MaxRel + 1)..MaxRel
      BY <3>1, <3>2 DEF encode_rel32_jump
    <3>4. e = [error |-> "none", bytes |-> Bytes([op |-> i.op, rel |-> rel], OpcodeBytes(i.op) + RelBytes)]
      BY <3>2, <3>3 DEF encode_rel32_jump
    <3>5. QED
      BY <2>1, <3>2, <3>4
  <2>4. FirstByte(i, labels, offset + size) = [op |-> i.op, rel |-> labels[i.name] - (offset + size)]
    BY <1>3 DEF FirstByte
  <2> HIDE DEF e
  <2>5. QED
    BY <1>1, <2>1, <2>2, <2>3, <2>4
<1>4. CASE i.op \notin Jumps \cup {"label"}
  <2>1. /\ Encoded(labels, i, offset).bytes = Bytes([op |-> i.op, imm |-> i.imm], i.size)
        /\ fixed_size(i) = i.size /\ i.size \in Nat
        /\ \A end : FirstByte(i, labels, end) = [op |-> i.op, imm |-> i.imm]
    BY <1>4 DEF Encoded, fixed_size, Jumps, IsInstruction, FirstByte
  <2>2. QED
    BY <1>1, <1>4, <2>1
<1>5. QED
  BY <1>2, <1>3, <1>4

(* The code of the first n instructions.                                   *)
CodeOf(prog, off, n, labels, code) ==
  /\ IsSeq(code) /\ Len(code) = off[n]
  /\ \A k \in 1..n : \A m \in 1..fixed_size(prog[k]) :
       code[off[k - 1] + m] = IF m = 1 THEN FirstByte(prog[k], labels, off[k]) ELSE [op |-> "rest"]
  /\ \A k \in 1..n : prog[k].op \in Jumps => prog[k].name \in DOMAIN labels

(* Offsets grow with the program.                                          *)
LEMMA OffsetsGrow ==
  ASSUME NEW prog, IsProgram(prog), NEW off, Sizes(prog, off),
         NEW n \in 0..Len(prog)
  PROVE  \A k \in 0..n : off[k] <= off[n]
<1> DEFINE N == Len(prog)
           S == {m \in 0..N : \A k \in 0..m : off[k] <= off[m]}
<1>1. N \in Nat /\ DOMAIN prog = 1..N /\ \A k \in 1..N : IsInstruction(prog[k])
  BY DEF IsProgram, IsSeq
<1>2. 0 \in S
  BY <1>1 DEF Sizes
<1>3. ASSUME NEW m \in 0..(N - 1), m \in S PROVE m + 1 \in S
  <2>1. m + 1 \in 1..N /\ (m + 1) - 1 = m /\ m \in 0..N
    BY <1>1
  <2>2. fixed_size(prog[m + 1]) \in Nat
    BY <1>1, <2>1, SizeIsNatural
  <2>3. off[m + 1] = off[m] + fixed_size(prog[m + 1]) /\ off \in [0..N -> Nat]
    BY <2>1 DEF Sizes
  <2>4. off[m] <= off[m + 1] /\ off[m] \in Nat /\ off[m + 1] \in Nat
    BY <2>1, <2>2, <2>3
  <2>5. ASSUME NEW k \in 0..(m + 1) PROVE off[k] <= off[m + 1]
    <3>1. CASE k = m + 1
      BY <2>4, <3>1
    <3>2. CASE k # m + 1
      <4>1. k \in 0..m /\ k \in 0..N
        BY <2>1, <3>2
      <4>2. off[k] <= off[m] /\ off[k] \in Nat
        BY <1>3, <2>3, <4>1
      <4>3. QED
        BY <2>4, <4>2
    <3>3. QED
      BY <3>1, <3>2
  <2>6. QED
    BY <2>1, <2>5
<1> HIDE DEF S
<1>4. 0..N \subseteq S
  BY <1>1, <1>2, <1>3, FirstPass!RangeInduces
<1>5. QED
  BY <1>4 DEF S

(* The second pass gives each instruction the place the first one counted. *)
LEMMA Pass2Code ==
  ASSUME NEW prog, IsProgram(prog), NEW labels, run_pass2(prog, labels).error = "none",
         NEW off, Sizes(prog, off)
  PROVE  CodeOf(prog, off, Len(prog), labels, run_pass2(prog, labels).code)
<1> DEFINE N == Len(prog)
<1>1. N \in Nat /\ DOMAIN prog = 1..N /\ IsSeq(prog) /\ \A k \in 1..N : IsInstruction(prog[k])
  BY DEF IsProgram, IsSeq
<1>2. PICK t : IsPass2(t, prog, labels) /\ t[N] = run_pass2(prog, labels)
  BY <1>1, Pass2Trace
<1>3. \A k \in 0..N : t[k].error = "none"
  BY <1>1, <1>2, Pass2Errors
<1> DEFINE Good(k) == /\ DOMAIN t[k] = {"error", "code", "labels"} /\ t[k].labels = labels
                      /\ CodeOf(prog, off, k, labels, t[k].code)
           S == {k \in 0..N : Good(k)}
<1>4. 0 \in S
  <2>1. t[0] = [error |-> "none", code |-> << >>, labels |-> labels]
    BY <1>2 DEF IsPass2, NoCode
  <2>2. off[0] = 0
    BY DEF Sizes
  <2>3. IsSeq(<< >>)
    BY DEF IsSeq
  <2>4. QED
    BY <1>1, <2>1, <2>2, <2>3 DEF CodeOf
<1>5. ASSUME NEW n \in 0..(N - 1), n \in S PROVE n + 1 \in S
  <2> DEFINE k == n + 1
             i == prog[k]
             old == t[n]
             e == Encoded(labels, i, off[n])
  <2>1. k \in 1..N /\ k - 1 = n /\ k \in 0..N /\ n \in 0..N /\ k \in Nat
    BY <1>1
  <2>2. Good(n) /\ t[k] = Emit(old, i)
    BY <1>2, <1>5, <2>1 DEF IsPass2
  <2>3. IsInstruction(i) /\ fixed_size(i) \in Nat
    BY <1>1, <2>1, SizeIsNatural
  <2>4. off[k] = off[n] + fixed_size(i) /\ off[n] \in Nat /\ off[k] \in Nat
    BY <2>1 DEF Sizes
  <2>5. t[k].error = "none" /\ old.error = "none" /\ Len(old.code) = off[n]
    BY <1>3, <2>1, <2>2 DEF CodeOf
  <2> HIDE DEF k, i, old, e
  <2>6. e.error = "none" /\ t[k] = [old EXCEPT !.code = @ \o e.bytes]
    BY <2>2, <2>5 DEF Emit, e, old
  <2>7. /\ IsSeq(e.bytes) /\ Len(e.bytes) = fixed_size(i)
        /\ \A m \in 1..fixed_size(i) : e.bytes[m] = IF m = 1 THEN FirstByte(i, labels, off[k])
                                                    ELSE [op |-> "rest"]
        /\ i.op \in Jumps => i.name \in DOMAIN labels
    BY <2>3, <2>4, <2>6, EncodedBytes DEF e
  <2>8. /\ DOMAIN t[k] = {"error", "code", "labels"} /\ t[k].labels = labels
        /\ t[k].code = old.code \o e.bytes
    BY <2>2, <2>6 DEF old
  <2>9. CodeOf(prog, off, k, labels, t[k].code)
    <3>1. IsSeq(old.code)
      BY <2>2 DEF CodeOf, old
    <3>2. /\ IsSeq(t[k].code) /\ Len(t[k].code) = off[k]
          /\ \A m \in 1..off[n] : t[k].code[m] = old.code[m]
          /\ \A m \in 1..fixed_size(i) : t[k].code[off[n] + m] = e.bytes[m]
      <4>1. PICK a, b : a = old.code /\ b = e.bytes
        OBVIOUS
      <4>2. IsSeq(a) /\ IsSeq(b) /\ Len(a) = off[n] /\ Len(b) = fixed_size(i)
        BY <2>5, <2>7, <3>1, <4>1
      <4>3. /\ IsSeq(a \o b) /\ Len(a \o b) = off[k]
            /\ \A m \in 1..off[n] : (a \o b)[m] = a[m]
            /\ \A m \in 1..fixed_size(i) : (a \o b)[off[n] + m] = b[m]
        <5>1. IsSeq(a \o b) /\ Len(a \o b) = Len(a) + Len(b)
          BY <4>2, Appended
        <5>2. \A m \in 1..Len(a) : (a \o b)[m] = a[m]
          BY <4>2, Appended
        <5>3. \A m \in 1..Len(b) : (a \o b)[Len(a) + m] = b[m]
          BY <4>2, Appended
        <5>4. QED
          BY <2>4, <4>2, <5>1, <5>2, <5>3
      <4>4. QED
        BY <2>8, <4>1, <4>3
    <3>3. ASSUME NEW j \in 1..k, NEW m \in 1..fixed_size(prog[j])
          PROVE  t[k].code[off[j - 1] + m] =
                   IF m = 1 THEN FirstByte(prog[j], labels, off[j]) ELSE [op |-> "rest"]
      <4>1. CASE j = k
        BY <2>1, <2>7, <3>2, <4>1 DEF i
      <4>2. CASE j # k
        <5>1. j \in 1..n /\ j \in 0..N /\ j - 1 \in 0..N /\ j \in 1..N /\ j \in 0..n
          BY <2>1, <4>2 DEF k
        <5>2. fixed_size(prog[j]) \in Nat
          BY <1>1, <5>1, SizeIsNatural
        <5>3. off[j] = off[j - 1] + fixed_size(prog[j]) /\ off[j - 1] \in Nat /\ off[j] \in Nat
          BY <5>1 DEF Sizes
        <5>4. off[j] <= off[n]
          BY <2>1, <5>1, OffsetsGrow
        <5>5. off[j - 1] + m \in 1..off[n]
          BY <2>4, <5>2, <5>3, <5>4
        <5>6. old.code[off[j - 1] + m] = IF m = 1 THEN FirstByte(prog[j], labels, off[j]) ELSE [op |-> "rest"]
          BY <2>2, <5>1 DEF CodeOf, old
        <5>7. QED
          BY <3>2, <5>5, <5>6
      <4>3. QED
        BY <4>1, <4>2
    <3>4. ASSUME NEW j \in 1..k, prog[j].op \in Jumps PROVE prog[j].name \in DOMAIN labels
      <4>1. CASE j = k
        BY <2>7, <3>4, <4>1 DEF i
      <4>2. CASE j # k
        <5>1. j \in 1..n
          BY <2>1, <4>2 DEF k
        <5>2. QED
          BY <2>2, <3>4, <5>1 DEF CodeOf
      <4>3. QED
        BY <4>1, <4>2
    <3>5. QED
      BY <3>2, <3>3, <3>4 DEF CodeOf
  <2>10. QED
    BY <2>1, <2>8, <2>9 DEF k
<1>6. 0..N \subseteq S
  <2> HIDE DEF S
  <2>1. QED
    BY <1>1, <1>4, <1>5, FirstPass!RangeInduces
<1>7. QED
  BY <1>1, <1>2, <1>6

(* What the two passes come to: code with a place for each instruction.    *)
LaidOut(prog, off, labels, code) ==
  /\ Sizes(prog, off)
  /\ LabelsOf(prog, off, Len(prog), labels)
  /\ CodeOf(prog, off, Len(prog), labels, code)

(* For every program the assembler accepts, each instruction stands where  *)
(* the first pass says, and each label is the offset of what follows it    *)
(* (Assembler::run_pass1 and run_pass2 in tinyasm/assembler.rs).           *)
THEOREM PassesAgree ==
  ASSUME NEW prog, IsProgram(prog), assemble(prog).error = "none"
  PROVE  \E off, labels : LaidOut(prog, off, labels, assemble(prog).code)
<1> DEFINE labels == run_pass1(prog).labels
<1>1. run_pass1(prog).error = "none"
  BY DEF assemble
<1>2. assemble(prog) = run_pass2(prog, labels)
  BY <1>1 DEF assemble
<1>3. PICK off : Sizes(prog, off) /\ LabelsOf(prog, off, Len(prog), labels)
  BY <1>1, Pass1Labels
<1> HIDE DEF labels
<1>4. CodeOf(prog, off, Len(prog), labels, assemble(prog).code)
  BY <1>2, <1>3, Pass2Code
<1>5. QED
  BY <1>3, <1>4 DEF LaidOut

-----------------------------------------------------------------------------
(* The places of the instructions that are not labels.                     *)
Instructions(prog) == {k \in 1..Len(prog) : prog[k].op # "label"}

(* After any place there is another, or only labels.                       *)
LEMMA NextPlace ==
  ASSUME NEW prog, IsProgram(prog), NEW off, Sizes(prog, off), NEW n \in 0..Len(prog)
  PROVE  \/ \E k \in Instructions(prog) : /\ n < k /\ off[k - 1] = off[n]
                                    /\ \A j \in n + 1..k - 1 : prog[j].op = "label"
         \/ off[n] = off[Len(prog)] /\ \A j \in n + 1..Len(prog) : prog[j].op = "label"
<1> DEFINE N == Len(prog)
           P(m) == \/ \E k \in Instructions(prog) : /\ m < k /\ off[k - 1] = off[m]
                                              /\ \A j \in m + 1..k - 1 : prog[j].op = "label"
                   \/ off[m] = off[N] /\ \A j \in m + 1..N : prog[j].op = "label"
           S == {m \in 0..N : P(N - m)}
<1>1. N \in Nat /\ DOMAIN prog = 1..N /\ \A k \in 1..N : IsInstruction(prog[k])
  BY DEF IsProgram, IsSeq
<1>2. 0 \in S
  BY <1>1
<1>3. ASSUME NEW m \in 0..(N - 1), m \in S PROVE m + 1 \in S
  <2>1. PICK a : a = N - (m + 1)
    OBVIOUS
  <2>2. a \in 0..N /\ a + 1 \in 1..N /\ a + 1 = N - m /\ m + 1 \in 0..N /\ a \in Nat
    BY <1>1, <2>1
  <2>3. P(a + 1)
    BY <1>3, <2>2
  <2>4. CASE prog[a + 1].op # "label"
    <3>1. a + 1 \in Instructions(prog) /\ a < a + 1 /\ off[(a + 1) - 1] = off[a]
      BY <2>2, <2>4 DEF Instructions
    <3>2. \A j \in a + 1..(a + 1) - 1 : prog[j].op = "label"
      BY <2>2
    <3>3. P(a)
      BY <3>1, <3>2
    <3>4. QED
      BY <2>1, <2>2, <3>3
  <2>5. CASE prog[a + 1].op = "label"
    <3>1. fixed_size(prog[a + 1]) = 0
      BY <1>1, <2>2, <2>5, SizeIsNatural
    <3>2. off[a + 1] = off[a]
      <4>1. off[a + 1] = off[(a + 1) - 1] + fixed_size(prog[a + 1]) /\ off[a] \in Nat
        BY <2>2 DEF Sizes
      <4>2. QED
        BY <2>2, <3>1, <4>1
    <3>3. P(a)
      <4>1. CASE \E k \in Instructions(prog) : /\ a + 1 < k /\ off[k - 1] = off[a + 1]
                                         /\ \A j \in (a + 1) + 1..k - 1 : prog[j].op = "label"
        <5>1. PICK k \in Instructions(prog) : /\ a + 1 < k /\ off[k - 1] = off[a + 1]
                                        /\ \A j \in (a + 1) + 1..k - 1 : prog[j].op = "label"
          BY <4>1
        <5>2. k \in Nat /\ a < k
          BY <2>2, <5>1 DEF Instructions
        <5>3. \A j \in a + 1..k - 1 : prog[j].op = "label"
          BY <2>2, <2>5, <5>1, <5>2
        <5>4. QED
          BY <3>2, <5>1, <5>2, <5>3
      <4>2. CASE off[a + 1] = off[N] /\ \A j \in (a + 1) + 1..N : prog[j].op = "label"
        <5>1. \A j \in a + 1..N : prog[j].op = "label"
          BY <1>1, <2>2, <2>5, <4>2
        <5>2. QED
          BY <3>2, <4>2, <5>1
      <4>3. QED
        BY <2>3, <4>1, <4>2
    <3>4. QED
      BY <2>1, <2>2, <3>3
  <2>6. QED
    BY <2>4, <2>5
<1> HIDE DEF S
<1>4. 0..N \subseteq S
  BY <1>1, <1>2, <1>3, FirstPass!RangeInduces
<1>5. N - n \in 0..N /\ N - (N - n) = n
  BY <1>1
<1>6. P(n)
  <2> HIDE DEF P
  <2>1. QED
    BY <1>4, <1>5 DEF S
<1>7. QED
  BY <1>6

(* Instructions are counted by their first bytes.                          *)
LEMMA FirstBytes ==
  ASSUME NEW prog, IsProgram(prog), NEW off, NEW labels, NEW code, LaidOut(prog, off, labels, code),
         NEW n \in 0..Len(prog)
  PROVE  /\ IsFiniteSet({k \in 1..n : prog[k].op # "label"})
         /\ Cardinality(Begins(code, off[n])) = Cardinality({k \in 1..n : prog[k].op # "label"})
<1> DEFINE N == Len(prog)
           Real(m) == {k \in 1..m : prog[k].op # "label"}
           P(m) == /\ IsFiniteSet(Begins(code, off[m])) /\ IsFiniteSet(Real(m))
                   /\ Cardinality(Begins(code, off[m])) = Cardinality(Real(m))
           S == {m \in 0..N : P(m)}
<1>1. N \in Nat /\ DOMAIN prog = 1..N /\ \A k \in 1..N : IsInstruction(prog[k])
  BY DEF IsProgram, IsSeq
<1>2. /\ off \in [0..N -> Nat] /\ off[0] = 0 /\ Len(code) = off[N]
      /\ \A k \in 1..N : off[k] = off[k - 1] + fixed_size(prog[k])
  BY DEF LaidOut, Sizes, CodeOf
<1>3. 0 \in S
  <2>1. Begins(code, off[0]) = {} /\ Real(0) = {}
    BY <1>2 DEF Begins
  <2>2. IsFiniteSet({})
    BY FS_EmptySet
  <2>3. P(0)
    <3> HIDE DEF Real
    <3>1. QED
      BY <2>1, <2>2
  <2>4. QED
    BY <1>1, <2>3
<1>4. ASSUME NEW m \in 0..(N - 1), m \in S PROVE m + 1 \in S
  <2>1. PICK k : k = m + 1
    OBVIOUS
  <2>2. k \in 1..N /\ k - 1 = m /\ m \in 0..N /\ k \in 0..N
    BY <1>1, <2>1
  <2>3. P(m)
    BY <1>4
  <2>4. /\ fixed_size(prog[k]) \in Nat /\ off[k] = off[m] + fixed_size(prog[k])
        /\ off[m] \in Nat /\ off[k] \in Nat
    BY <1>1, <1>2, <2>2, SizeIsNatural
  <2>5. off[k] <= Len(code) /\ Len(code) \in Nat
    BY <1>1, <1>2, <2>2, OffsetsGrow DEF LaidOut
  <2>6. CASE prog[k].op = "label"
    <3>1. off[k] = off[m]
      BY <1>1, <2>2, <2>4, <2>6, SizeIsNatural
    <3>2. Real(k) = Real(m)
      BY <2>2, <2>6
    <3>3. P(k)
      BY <2>3, <3>1, <3>2
    <3>4. QED
      BY <2>1, <2>2, <3>3
  <2>7. CASE prog[k].op # "label"
    <3>1. fixed_size(prog[k]) >= 1
      BY <1>1, <2>2, <2>4, <2>7, SizeIsNatural
    <3>2. \A b \in 1..fixed_size(prog[k]) :
            code[off[m] + b] = IF b = 1 THEN FirstByte(prog[k], labels, off[k]) ELSE [op |-> "rest"]
      BY <2>2 DEF LaidOut, CodeOf
    <3>3. FirstByte(prog[k], labels, off[k]).op = prog[k].op /\ prog[k].op # "rest"
      BY <1>1, <2>2 DEF FirstByte, IsInstruction, Jumps, Label
    <3>4. /\ code[off[m] + 1].op # "rest"
          /\ \A x \in off[m] + 2..off[k] : code[x].op = "rest"
      <4>1. code[off[m] + 1].op # "rest"
        BY <3>1, <3>2, <3>3, <2>4
      <4>2. ASSUME NEW x \in off[m] + 2..off[k] PROVE code[x].op = "rest"
        <5>1. x - off[m] \in 2..fixed_size(prog[k]) /\ off[m] + (x - off[m]) = x
          BY <2>4
        <5>2. code[off[m] + (x - off[m])] = [op |-> "rest"]
          BY <2>4, <3>2, <5>1
        <5>3. QED
          BY <5>1, <5>2
      <4>3. QED
        BY <4>1, <4>2
    <3>5. Begins(code, off[k]) = Begins(code, off[m]) \cup {off[m] + 1}
      <4>1. ASSUME NEW x \in Begins(code, off[k]), x # off[m] + 1 PROVE x <= off[m]
        BY <2>4, <2>5, <3>4, <4>1 DEF Begins
      <4>2. ASSUME NEW x \in Begins(code, off[m]) PROVE x <= off[k]
        BY <2>4, <4>2 DEF Begins
      <4>3. off[m] + 1 \in Begins(code, off[k])
        BY <2>4, <2>5, <3>1, <3>4 DEF Begins
      <4>4. QED
        BY <4>1, <4>2, <4>3 DEF Begins
    <3>6. off[m] + 1 \notin Begins(code, off[m])
      BY <2>4 DEF Begins
    <3>7. Real(k) = Real(m) \cup {k} /\ k \notin Real(m)
      BY <2>2, <2>7
    <3>8. P(k)
      <4> HIDE DEF Real
      <4>1. /\ IsFiniteSet(Begins(code, off[k]))
            /\ Cardinality(Begins(code, off[k])) = Cardinality(Begins(code, off[m])) + 1
        BY <2>3, <3>5, <3>6, FS_AddElement
      <4>2. IsFiniteSet(Real(k)) /\ Cardinality(Real(k)) = Cardinality(Real(m)) + 1
        BY <2>3, <3>7, FS_AddElement
      <4>3. QED
        BY <2>3, <4>1, <4>2
    <3>9. QED
      BY <2>1, <2>2, <3>8
  <2>8. QED
    BY <2>6, <2>7
<1> HIDE DEF S
<1>5. 0..N \subseteq S
  BY <1>1, <1>3, <1>4, FirstPass!RangeInduces
<1>6. QED
  BY <1>5 DEF S

(* The instruction at an offset is found in the program.                   *)
LEMMA PlaceIsFound ==
  ASSUME NEW prog, IsProgram(prog), NEW off, NEW labels, NEW code, LaidOut(prog, off, labels, code),
         NEW k \in Instructions(prog)
  PROVE  SourceOf(prog, code, off[k - 1]) = k
<1> DEFINE N == Len(prog)
           Real(m) == {j \in 1..m : prog[j].op # "label"}
<1>1. N \in Nat /\ DOMAIN prog = 1..N /\ k \in 1..N /\ prog[k].op # "label"
  BY DEF IsProgram, IsSeq, Instructions
<1>2. \A m \in 0..N : IsFiniteSet(Real(m)) /\ Cardinality(Begins(code, off[m])) = Cardinality(Real(m))
  BY FirstBytes
<1>3. ASSUME NEW a \in 1..N, NEW b \in 1..N, prog[a].op # "label", a < b
      PROVE  Cardinality(Real(a - 1)) < Cardinality(Real(b - 1))
  <2>1. a - 1 \in 0..N /\ b - 1 \in 0..N /\ a \in 1..b - 1 /\ a \notin Real(a - 1)
    BY <1>1, <1>3
  <2>2. Real(a - 1) \cup {a} \subseteq Real(b - 1)
    BY <1>1, <1>3, <2>1
  <2>3. IsFiniteSet(Real(a - 1)) /\ IsFiniteSet(Real(b - 1))
    BY <1>2, <2>1
  <2> HIDE DEF Real
  <2>4. /\ IsFiniteSet(Real(a - 1) \cup {a})
        /\ Cardinality(Real(a - 1) \cup {a}) = Cardinality(Real(a - 1)) + 1
    BY <2>1, <2>3, FS_AddElement
  <2>5. Cardinality(Real(a - 1) \cup {a}) <= Cardinality(Real(b - 1))
    BY <2>2, <2>3, FS_Subset
  <2>6. Cardinality(Real(a - 1)) \in Nat /\ Cardinality(Real(b - 1)) \in Nat
    BY <2>3, FS_CardinalityType
  <2>7. QED
    BY <2>4, <2>5, <2>6
<1>4. \A j \in DOMAIN prog : prog[j].op # "label" =>
        (Cardinality(Real(j - 1)) = Cardinality(Begins(code, off[k - 1])) <=> j = k)
  <2>1. ASSUME NEW j \in DOMAIN prog, prog[j].op # "label",
               Cardinality(Real(j - 1)) = Cardinality(Begins(code, off[k - 1]))
        PROVE  j = k
    <3>1. k - 1 \in 0..N /\ j - 1 \in 0..N /\ j \in 1..N
      BY <1>1
    <3>2. Cardinality(Real(j - 1)) = Cardinality(Real(k - 1))
      BY <1>2, <2>1, <3>1
    <3>3. Cardinality(Real(j - 1)) \in Nat /\ Cardinality(Real(k - 1)) \in Nat
      BY <1>2, <3>1, FS_CardinalityType
    <3> HIDE DEF Real
    <3>4. ~ (j < k) /\ ~ (k < j)
      BY <1>1, <1>3, <2>1, <3>1, <3>2, <3>3
    <3>5. QED
      BY <1>1, <3>1, <3>4
  <2>2. Cardinality(Real(k - 1)) = Cardinality(Begins(code, off[k - 1]))
    <3>1. k - 1 \in 0..N
      BY <1>1
    <3>2. QED
      BY <1>2, <3>1
  <2>3. QED
    BY <2>1, <2>2
<1>5. QED
  BY <1>1, <1>4 DEF SourceOf

(* At a place, the machine finds the whole instruction and nothing more.   *)
LEMMA PlaceIsFetched ==
  ASSUME NEW prog, IsProgram(prog), NEW off, NEW labels, NEW code, LaidOut(prog, off, labels, code),
         NEW k \in Instructions(prog), NEW m, m.at = off[k - 1]
  PROVE  /\ ~ Fault(code, m) /\ Fetched(code, m) = FirstByte(prog[k], labels, off[k])
         /\ Length(code, m) = off[k] - off[k - 1]
         /\ off[k - 1] \in Nat /\ off[k] \in Nat
<1> DEFINE N == Len(prog)
<1>1. /\ N \in Nat /\ k \in 1..N /\ prog[k].op # "label" /\ IsInstruction(prog[k])
      /\ k \in 0..N /\ k - 1 \in 0..N
  BY DEF IsProgram, IsSeq, Instructions
<1>2. /\ off \in [0..N -> Nat] /\ Len(code) = off[N] /\ off[k] = off[k - 1] + fixed_size(prog[k])
      /\ \A b \in 1..fixed_size(prog[k]) :
           code[off[k - 1] + b] = IF b = 1 THEN FirstByte(prog[k], labels, off[k]) ELSE [op |-> "rest"]
  BY <1>1 DEF LaidOut, Sizes, CodeOf
<1>3. fixed_size(prog[k]) \in Nat /\ fixed_size(prog[k]) >= 1
  BY <1>1, SizeIsNatural
<1>4. off[k - 1] \in Nat /\ off[k] \in Nat /\ off[N] \in Nat /\ off[k] <= off[N]
  BY <1>1, <1>2, OffsetsGrow DEF LaidOut
<1>5. code[off[k - 1] + 1] = FirstByte(prog[k], labels, off[k])
  BY <1>2, <1>3, <1>4
<1>6. FirstByte(prog[k], labels, off[k]).op = prog[k].op /\ prog[k].op # "rest"
  BY <1>1 DEF FirstByte, IsInstruction, Jumps, Label
<1>7. ~ Fault(code, m) /\ Fetched(code, m) = FirstByte(prog[k], labels, off[k])
  BY <1>2, <1>3, <1>4, <1>5, <1>6 DEF Fault, Fetched
<1> DEFINE ends == {x \in m.at + 1..Len(code) : x = Len(code) \/ code[x + 1].op # "rest"}
<1>8. off[k] \in ends
  <2>1. CASE off[k] = off[N]
    BY <1>2, <1>3, <1>4, <2>1
  <2>2. CASE off[k] # off[N]
    <3>1. PICK j \in Instructions(prog) : off[j - 1] = off[k]
      BY <1>1, <2>2, NextPlace DEF LaidOut
    <3>2. j \in 1..N /\ prog[j].op # "label" /\ IsInstruction(prog[j])
      BY DEF Instructions, IsProgram, IsSeq
    <3>3. fixed_size(prog[j]) \in Nat /\ fixed_size(prog[j]) >= 1
      BY <3>2, SizeIsNatural
    <3>4. code[off[j - 1] + 1] = FirstByte(prog[j], labels, off[j])
      BY <3>2, <3>3 DEF LaidOut, CodeOf
    <3>5. FirstByte(prog[j], labels, off[j]).op = prog[j].op /\ prog[j].op # "rest"
      BY <3>2 DEF FirstByte, IsInstruction, Jumps, Label
    <3>6. QED
      BY <1>2, <1>3, <1>4, <3>1, <3>4, <3>5
  <2>3. QED
    BY <2>1, <2>2
<1>9. ASSUME NEW x \in ends PROVE off[k] <= x
  <2>1. SUFFICES ASSUME x < off[k] PROVE FALSE
    BY <1>4
  <2>2. x \in Nat /\ x >= off[k - 1] + 1 /\ x # Len(code)
    BY <1>2, <1>4, <2>1
  <2>3. x + 1 - off[k - 1] \in 2..fixed_size(prog[k]) /\ off[k - 1] + (x + 1 - off[k - 1]) = x + 1
    BY <1>2, <1>3, <1>4, <2>1, <2>2
  <2>4. code[off[k - 1] + (x + 1 - off[k - 1])] = [op |-> "rest"]
    BY <1>2, <2>3
  <2>5. code[x + 1].op = "rest"
    BY <2>3, <2>4
  <2>6. QED
    BY <2>2, <2>5
<1>10. (CHOOSE x \in ends : \A y \in ends : x <= y) = off[k]
  <2>1. ends \subseteq Int
    BY <1>2, <1>4
  <2> HIDE DEF ends
  <2>2. \A x \in ends : (\A y \in ends : x <= y) <=> x = off[k]
    BY <1>4, <1>8, <1>9, <2>1
  <2>3. QED
    BY <1>8, <2>2
<1>11. Length(code, m) = off[k] - off[k - 1]
  BY <1>10 DEF Length
<1>12. QED
  BY <1>4, <1>7, <1>11

(* From the label a jump names, or from the instruction after a place, the *)
(* program and its code come to the same place.                            *)
LEMMA PastLabelsIsPlace ==
  ASSUME NEW prog, IsProgram(prog), Ends(prog), NEW off, Sizes(prog, off),
         NEW n \in 1..Len(prog), NEW m, "at" \in DOMAIN m, m.at = n
  PROVE  \E k \in Instructions(prog) : off[k - 1] = off[n - 1] /\ PastLabels(prog, m) = [m EXCEPT !.at = k]
<1> DEFINE N == Len(prog)
<1>1. N \in Nat /\ n - 1 \in 0..N /\ (n - 1) + 1 = n /\ n \in Nat
  BY DEF IsProgram, IsSeq
<1>2. prog[N].op # "label" /\ N \in n..N
  BY <1>1 DEF Ends
<1>3. PICK k \in Instructions(prog) : /\ n - 1 < k /\ off[k - 1] = off[n - 1]
                                /\ \A j \in n..k - 1 : prog[j].op = "label"
  BY <1>1, <1>2, NextPlace
<1>4. k \in n..N /\ prog[k].op # "label"
  BY <1>1, <1>3 DEF Instructions
<1>5. \A j \in n..N : (prog[j].op # "label" /\ \A i \in n..j - 1 : prog[i].op = "label") <=> j = k
  <2>1. ASSUME NEW j \in n..N, prog[j].op # "label", \A i \in n..j - 1 : prog[i].op = "label"
        PROVE  j = k
    <3>1. ~ (j < k)
      BY <1>1, <1>3, <1>4, <2>1
    <3>2. ~ (k < j)
      BY <1>1, <1>4, <2>1
    <3>3. QED
      BY <1>1, <1>4, <3>1, <3>2
  <2>2. QED
    BY <1>3, <1>4, <2>1
<1>6. (CHOOSE j \in n..N : prog[j].op # "label" /\ \A i \in n..j - 1 : prog[i].op = "label") = k
  BY <1>4, <1>5
<1>7. QED
  BY <1>3, <1>6 DEF PastLabels

Cpu == {"rax", "zero", "at"}

(* An instruction does not depend on where it stands.                      *)
LEMMA EffectsMove ==
  ASSUME NEW op, NEW imm, NEW m, DOMAIN m = Cpu, NEW x, NEW y
  PROVE  /\ [Effect(op, imm, [m EXCEPT !.at = x]) EXCEPT !.at = y] = [Effect(op, imm, m) EXCEPT !.at = y]
         /\ DOMAIN Effect(op, imm, m) = Cpu
         /\ Effect(op, imm, m).at = m.at
         /\ Taken(op, [m EXCEPT !.at = x]) = Taken(op, m)
<1>1. /\ DOMAIN Effect(op, imm, m) = Cpu
      /\ Effect(op, imm, m).at = m.at
  BY DEF Effect, Cpu
<1>2. Taken(op, [m EXCEPT !.at = x]) = Taken(op, m)
  BY DEF Taken, Cpu
<1>3. [Effect(op, imm, [m EXCEPT !.at = x]) EXCEPT !.at = y] = [Effect(op, imm, m) EXCEPT !.at = y]
  BY DEF Effect, Cpu
<1>4. QED
  BY <1>1, <1>2, <1>3

AsSource(prog, code, m) == [m EXCEPT !.at = SourceOf(prog, code, @)]

(* The machine and the program take the same step.                         *)
LEMMA StepsAgree ==
  ASSUME NEW prog, IsProgram(prog), Ends(prog),
         NEW off, NEW labels, NEW code, LaidOut(prog, off, labels, code),
         NEW k \in Instructions(prog), prog[k].op # "ret",
         NEW m, DOMAIN m = Cpu, m.at = off[k - 1]
  PROVE  /\ DOMAIN NativeStep(code, m) = Cpu
         /\ \E j \in Instructions(prog) : NativeStep(code, m).at = off[j - 1]
         /\ AsSource(prog, code, NativeStep(code, m)) =
              PastLabels(prog, SourceStep(prog, AsSource(prog, code, m)))
<1> DEFINE N == Len(prog)
           i == prog[k]
           here == [m EXCEPT !.at = k]
           b == FirstByte(i, labels, off[k])
<1>1. /\ N \in Nat /\ k \in 1..N /\ i.op # "label" /\ IsInstruction(i) /\ DOMAIN prog = 1..N
      /\ Sizes(prog, off)
  BY DEF IsProgram, IsSeq, Instructions, LaidOut
<1>2. AsSource(prog, code, m) = here
  BY PlaceIsFound DEF AsSource
<1>3. /\ Fetched(code, m) = b /\ Length(code, m) = off[k] - off[k - 1]
      /\ off[k - 1] \in Nat /\ off[k] \in Nat
  BY PlaceIsFetched
<1>4. m.at + Length(code, m) = off[k]
  BY <1>3
<1>5. /\ b.op = i.op
      /\ i.op \in Jumps => b.rel = labels[i.name] - off[k]
      /\ i.op \notin Jumps => b.imm = i.imm
  BY DEF FirstByte
<1> HIDE DEF i, b
(* What remains to show: both go to the instruction with number n.         *)
<1>6. ASSUME NEW n \in 1..N, NEW r, DOMAIN r = Cpu,
             NativeStep(code, m) = [r EXCEPT !.at = off[n - 1]],
             SourceStep(prog, here) = [r EXCEPT !.at = n]
      PROVE  /\ DOMAIN NativeStep(code, m) = Cpu
             /\ \E j \in Instructions(prog) : NativeStep(code, m).at = off[j - 1]
             /\ AsSource(prog, code, NativeStep(code, m)) = PastLabels(prog, SourceStep(prog, here))
  <2>1. "at" \in Cpu
    BY DEF Cpu
  <2> DEFINE s == [r EXCEPT !.at = n]
  <2>2. s.at = n /\ "at" \in DOMAIN s
    BY <1>6, <2>1
  <2>3. PICK j \in Instructions(prog) : off[j - 1] = off[n - 1] /\ PastLabels(prog, s) = [s EXCEPT !.at = j]
    <3> HIDE DEF s
    <3>1. QED
      BY <1>1, <2>2, PastLabelsIsPlace
  <2>4. [s EXCEPT !.at = j] = [r EXCEPT !.at = j]
    BY <1>6, <2>1
  <2>5. SourceOf(prog, code, off[j - 1]) = j
    BY PlaceIsFound
  <2>6. NativeStep(code, m).at = off[j - 1] /\ DOMAIN NativeStep(code, m) = Cpu
    BY <1>6, <2>1, <2>3
  <2>7. AsSource(prog, code, NativeStep(code, m)) = [r EXCEPT !.at = j]
    BY <1>6, <2>1, <2>3, <2>5 DEF AsSource
  <2>8. QED
    BY <1>6, <2>3, <2>4, <2>6, <2>7
<1>7. ASSUME i.op \notin Jumps \/ ~ Taken(i.op, m) PROVE k + 1 \in 1..N /\ (k + 1) - 1 = k
  <2>1. k # N
    BY <1>1, <1>7 DEF Ends, i, Taken, Jumps
  <2>2. PICK a, c : a = k /\ c = Len(prog)
    OBVIOUS
  <2>3. a \in 1..c /\ c \in Nat /\ a # c
    BY <1>1, <2>1, <2>2
  <2>4. a + 1 \in 1..c /\ (a + 1) - 1 = a
    BY <2>3
  <2>5. QED
    BY <2>2, <2>4
<1>8. CASE i.op \notin Jumps
  <2> DEFINE r == Effect(i.op, i.imm, m)
  <2>1. NativeStep(code, m) = [r EXCEPT !.at = off[k]]
    BY <1>3, <1>4, <1>5, <1>8 DEF NativeStep
  <2>2. SourceStep(prog, here) = [Effect(i.op, i.imm, here) EXCEPT !.at = @ + 1]
    <3>1. prog[here.at] = i
      BY DEF i, Cpu
    <3> HIDE DEF here
    <3>2. QED
      BY <1>1, <1>8, <3>1 DEF SourceStep, i
  <2>3. Effect(i.op, i.imm, here).at = k
    <3>1. DOMAIN here = Cpu /\ here.at = k
      BY DEF Cpu
    <3> HIDE DEF here
    <3>2. QED
      BY <3>1, EffectsMove
  <2>4. SourceStep(prog, here) = [r EXCEPT !.at = k + 1]
    BY <2>2, <2>3, EffectsMove
  <2>5. DOMAIN r = Cpu
    BY EffectsMove
  <2> HIDE DEF here, r
  <2>6. QED
    BY <1>2, <1>6, <1>7, <1>8, <2>1, <2>4, <2>5
<1>9. CASE i.op \in Jumps /\ ~ Taken(i.op, m)
  <2>1. NativeStep(code, m) = [m EXCEPT !.at = off[k]]
    BY <1>3, <1>4, <1>5, <1>9 DEF NativeStep
  <2>2. prog[here.at] = i /\ here.at = k /\ ~ Taken(i.op, here)
    <3>1. here.at = k
      BY DEF Cpu
    <3>2. Taken(i.op, here) = Taken(i.op, m)
      BY DEF Taken, Cpu
    <3> HIDE DEF here
    <3>3. QED
      BY <1>9, <3>1, <3>2 DEF i
  <2>3. SourceStep(prog, here) = [here EXCEPT !.at = k + 1]
    <3> HIDE DEF here
    <3>1. QED
      BY <1>1, <1>9, <2>2 DEF SourceStep, i
  <2>4. [here EXCEPT !.at = k + 1] = [m EXCEPT !.at = k + 1]
    BY DEF Cpu
  <2> HIDE DEF here
  <2>5. QED
    BY <1>2, <1>6, <1>7, <1>9, <2>1, <2>3, <2>4
<1>10. CASE i.op \in Jumps /\ Taken(i.op, m)
  <2>1. i.name \in DOMAIN labels
    BY <1>1, <1>10 DEF LaidOut, CodeOf, i
  <2>2. PICK n \in 1..N : prog[n] = Label(i.name)
    BY <2>1 DEF LaidOut, LabelsOf
  <2>3. labels[i.name] = off[n - 1]
    BY <2>2 DEF LaidOut, LabelsOf, Label
  <2>4. off[n - 1] \in Nat
    BY <1>1 DEF Sizes
  <2>5. NativeStep(code, m) = [m EXCEPT !.at = off[n - 1]]
    <3>1. off[k] + b.rel = off[n - 1]
      BY <1>3, <1>5, <1>10, <2>3, <2>4
    <3>2. QED
      BY <1>3, <1>4, <1>5, <1>10, <3>1 DEF NativeStep
  <2>6. prog[here.at] = i /\ Taken(i.op, here)
    BY <1>10, EffectsMove DEF i, Cpu
  <2>7. (CHOOSE j \in DOMAIN prog : prog[j] = Label(i.name)) = n
    <3>1. \A j \in DOMAIN prog : prog[j] = Label(i.name) => j = n
      BY <1>1, <2>2 DEF LaidOut, LabelsOf, Label
    <3>2. QED
      BY <1>1, <2>2, <3>1
  <2>8. SourceStep(prog, here) = [here EXCEPT !.at = n]
    <3> HIDE DEF here
    <3>1. QED
      BY <1>1, <1>10, <2>6, <2>7 DEF SourceStep, i
  <2>9. [here EXCEPT !.at = n] = [m EXCEPT !.at = n]
    BY DEF Cpu
  <2> HIDE DEF here
  <2>10. QED
    BY <1>2, <1>6, <2>5, <2>8, <2>9
<1>11. QED
  BY <1>8, <1>9, <1>10

(***************************************************************************)
(* The workers.                                                            *)
(***************************************************************************)
Places == {"unborn", "born", "parsed", "assembled", "mapped", "written", "sealed", "running", "ended"}
RegionFields == {"prot", "state", "size", "bytes"}
Placed == {"assembled", "mapped", "written", "sealed", "running"}
WorkerFields == {"at", "prog", "code", "region", "cpu", "result"}

(* A worker by itself: what it has at each place on its way.               *)
WorkerOK(w) ==
  /\ DOMAIN w = WorkerFields /\ DOMAIN w.region = RegionFields
  /\ w.at \in Places /\ IsSeq(w.code)
  /\ w.at = "ended" => IsAnswer(w.result)
  /\ w.at \in Placed \cup {"parsed"} => w.prog \in ParsedPrograms
  /\ w.at \in Placed => Assembly[w.prog].error = "none" /\ w.code = Assembly[w.prog].code
  /\ w.at = "running" => w.code # << >>
  /\ w.at \notin {"running", "ended"} => w.cpu = Ready
  /\ w.at = "mapped" => w.region.bytes = << >>
  /\ w.at \in {"written", "sealed", "running"} => w.region.bytes = w.code
  /\ w.at \in {"sealed", "running"} => w.region.prot = "rx"
(* The machine stands at an instruction of the program.                    *)
CpuOK(w) ==
  w.at = "running" /\ Ends(w.prog) =>
    /\ DOMAIN w.cpu = Cpu
    /\ \E off, labels : /\ LaidOut(w.prog, off, labels, w.code)
                        /\ \E k \in Instructions(w.prog) : w.cpu.at = off[k - 1]
WorkersOK ==
  /\ sources \in Inputs
  /\ DOMAIN worker = Threads
  /\ \A k \in Threads : WorkerOK(worker[k]) /\ CpuOK(worker[k])

(* The caller: it holds the results of the workers it has joined.          *)
Holds(n) ==
  /\ \E S : caller.results \in Seq(S)
  /\ Len(caller.results) = n
  /\ \A k \in 1..n : At(k, "ended") /\ worker[k].result = Ok(caller.results[k])
Decision ==
  \/ caller.outcome = Ok(caller.results) /\ Holds(Len(sources))
  \/ \E k \in Threads :
       /\ At(k, "ended") /\ worker[k].result.kind \in {"error", "panic"}
       /\ caller.outcome = IF worker[k].result.kind = "panic"
                           THEN Err("worker thread panicked") ELSE worker[k].result
       /\ \A j \in 1..k - 1 : At(j, "ended") /\ worker[j].result.kind = "ok"
CallerOK ==
  /\ DOMAIN caller = {"at", "next", "results", "outcome"}
  /\ caller.at \in {"spawning", "joining", "returned"}
  /\ caller.next \in 1..Len(sources) + 1
  /\ caller.at = "spawning" =>
       /\ caller.results = << >>
       /\ \A k \in caller.next..Len(sources) : At(k, "unborn")
  /\ caller.at = "joining" => Holds(caller.next - 1)
  /\ caller.at = "returned" => Decision
Inv == WorkersOK /\ CallerOK

(* The threads are numbered from 1.                                        *)
LEMMA SourcesAreASequence ==
  ASSUME sources \in Inputs
  PROVE  Len(sources) \in Nat /\ Threads = 1..Len(sources)
<1>1. sources \in Seq({sources[k] : k \in DOMAIN sources})
  BY InputsAssumption
<1>2. QED
  BY <1>1 DEF Threads

Parsing == INSTANCE Folding WITH Step <- LAMBDA given, acc, e : AddLine(acc, e)

(* The loop over the lines of a file.                                      *)
LEMMA FoldAddLine ==
  ASSUME NEW base, NEW seq, NEW N \in Nat, DOMAIN seq = 1..N
  PROVE  \E t : /\ DOMAIN t = 0..N
                /\ t[0] = base
                /\ \A k \in 1..N : t[k] = AddLine(t[k - 1], seq[k])
                /\ t[N] = FoldLeft(AddLine, base, seq)
<1> PICK end : end = Parsing!FoldOf(0, base, seq, N)
  OBVIOUS
<1>1. FoldLeft(AddLine, base, seq) = end
  BY DEF FoldLeft, MapThenFoldSet, Max, Parsing!FoldOf, Parsing!Iterates, Parsing!Largest
<1>2. PICK t : Parsing!IsTrace(t, 0, base, seq, N) /\ t[N] = end
  BY Parsing!FoldTrace
<1>3. QED
  BY <1>1, <1>2 DEF Parsing!IsTrace

(* A text whose lines all parse gives a program.                           *)
LEMMA ParsedIsProgram ==
  ASSUME NEW lines, IsText(lines), Parses(lines)
  PROVE  IsProgram(Parsed(lines))
<1> DEFINE N == Len(lines)
<1>1. N \in Nat /\ DOMAIN lines = 1..N
  BY DEF IsText
<1>2. \A l \in 1..N : lines[l].op = "blank" \/ IsInstruction(lines[l])
  BY <1>1 DEF IsText, Parses
<1> HIDE DEF N
<1>3. PICK t : /\ DOMAIN t = 0..N
               /\ t[0] = << >>
               /\ \A k \in 1..N : t[k] = AddLine(t[k - 1], lines[k])
               /\ t[N] = Parsed(lines)
  BY <1>1, FoldAddLine DEF Parsed
<1> DEFINE S == {k \in 0..N : IsProgram(t[k])}
<1>4. 0 \in S
  <2>1. IsProgram(<< >>)
    BY DEF IsProgram, IsSeq
  <2>2. QED
    BY <1>1, <1>3, <2>1
<1>5. ASSUME NEW k \in 0..(N - 1), k \in S PROVE k + 1 \in S
  <2>1. k + 1 \in 1..N /\ (k + 1) - 1 = k /\ k + 1 \in 0..N
    BY <1>1
  <2>2. t[k + 1] = AddLine(t[k], lines[k + 1])
    BY <1>3, <2>1
  <2>3. CASE lines[k + 1].op = "blank"
    BY <1>5, <2>1, <2>2, <2>3 DEF AddLine
  <2>4. CASE lines[k + 1].op # "blank"
    <3>1. IsInstruction(lines[k + 1])
      BY <1>2, <2>1, <2>4
    <3>2. PICK a, i : a = t[k] /\ i = lines[k + 1]
      OBVIOUS
    <3>3. IsSeq(a) /\ \A n \in 1..Len(a) : IsInstruction(a[n])
      BY <1>5, <3>2 DEF IsProgram, IsSeq
    <3>4. Append(a, i) \in Seq({a[n] : n \in DOMAIN a} \cup {i})
      BY <3>3 DEF IsSeq
    <3>5. IsSeq(Append(a, i))
      BY <3>4, OwnElements
    <3>6. \A n \in DOMAIN Append(a, i) : IsInstruction(Append(a, i)[n])
      BY <3>1, <3>2, <3>3 DEF IsSeq
    <3>7. QED
      BY <2>1, <2>2, <2>4, <3>2, <3>5, <3>6 DEF AddLine, IsProgram
  <2>5. QED
    BY <2>3, <2>4
<1> HIDE DEF S
<1>6. 0..N \subseteq S
  BY <1>1, <1>4, <1>5, Parsing!RangeInduces
<1>7. N \in S
  BY <1>1, <1>6
<1>8. QED
  BY <1>3, <1>7 DEF S

(* Every parsed program is one the assembler's theorems are about.         *)
LEMMA ProgramsAreParsed ==
  ASSUME NEW prog \in ParsedPrograms
  PROVE  IsProgram(prog) /\ Assembly[prog] = assemble(prog)
<1>1. PICK s \in UNION {ToSet(i) : i \in Inputs} : s.kind = "asm" /\ Parses(s.lines) /\ prog = Parsed(s.lines)
  BY DEF ParsedPrograms
<1>2. IsText(s.lines)
  BY <1>1, InputsAssumption DEF ToSet
<1>3. IsProgram(prog)
  BY <1>1, <1>2, ParsedIsProgram
<1>4. QED
  BY <1>3 DEF Assembly

(* No worker has begun and the caller has none to join.                    *)
LEMMA InitOK == Init => Inv
<1> SUFFICES ASSUME Init PROVE Inv
  OBVIOUS
<1>1. sources \in Inputs /\ Len(sources) \in Nat /\ Threads = 1..Len(sources)
  BY SourcesAreASequence DEF Init
<1>2. worker = [k \in Threads |-> Idle]
  BY DEF Init, Threads
<1>3. WorkerOK(Idle)
  BY DEF WorkerOK, WorkerFields, Idle, RegionFields, NoRegion, Places, Placed, IsSeq
<1>4. WorkersOK
  BY <1>1, <1>2, <1>3 DEF WorkersOK, CpuOK, Idle
<1>5. CallerOK
  BY <1>1, <1>2 DEF CallerOK, Init, At, Idle
<1>6. QED
  BY <1>4, <1>5 DEF Inv

(* The end of a worker that failed.                                        *)
LEMMA FailedOK ==
  ASSUME NEW w, WorkerOK(w), NEW e
  PROVE  WorkerOK(Failed(w, e)) /\ CpuOK(Failed(w, e)) /\ Failed(w, e).at = "ended"
<1>1. WorkerOK(Failed(w, e)) /\ Failed(w, e).at = "ended"
  BY DEF WorkerOK, WorkerFields, Failed, Unmap, RegionFields, Places, Placed, IsAnswer, Err
<1>2. QED
  BY <1>1 DEF CpuOK

(* A program that ends well begins with an instruction.                    *)
LEMMA StartsAtInstruction ==
  ASSUME NEW prog, IsProgram(prog), Ends(prog), NEW off, Sizes(prog, off)
  PROVE  \E k \in Instructions(prog) : off[k - 1] = off[0]
<1>1. Len(prog) \in Nat /\ 0 \in 0..Len(prog) /\ Len(prog) \in 0 + 1..Len(prog)
  BY DEF Ends, IsProgram, IsSeq
<1>2. prog[Len(prog)].op # "label"
  BY DEF Ends
<1>3. QED
  BY <1>1, <1>2, NextPlace

(* A machine at an instruction of the program, with its layout.            *)
StandsIn(w, off, labels) ==
  /\ IsProgram(w.prog) /\ LaidOut(w.prog, off, labels, w.code)
  /\ DOMAIN w.cpu = Cpu /\ ~ Fault(w.code, w.cpu)
  /\ \E i \in Instructions(w.prog) :
       w.cpu.at = off[i - 1] /\ Fetched(w.region.bytes, w.cpu).op = w.prog[i].op

(* A running worker has such a machine, if its program ends well.          *)
LEMMA RunsAtInstruction ==
  ASSUME NEW w, WorkerOK(w), CpuOK(w), w.at = "running", Ends(w.prog)
  PROVE  \E off, labels : StandsIn(w, off, labels)
<1>1. PICK off, labels : /\ LaidOut(w.prog, off, labels, w.code)
                         /\ \E j \in Instructions(w.prog) : w.cpu.at = off[j - 1]
  BY DEF CpuOK
<1>2. PICK i \in Instructions(w.prog) : w.cpu.at = off[i - 1]
  BY <1>1
<1>3. IsProgram(w.prog)
  BY ProgramsAreParsed DEF WorkerOK, Placed
<1>4. ~ Fault(w.code, w.cpu) /\ Fetched(w.code, w.cpu) = FirstByte(w.prog[i], labels, off[i])
  BY <1>1, <1>2, <1>3, PlaceIsFetched
<1>5. w.region.bytes = w.code
  BY DEF WorkerOK
<1>6. FirstByte(w.prog[i], labels, off[i]).op = w.prog[i].op
  BY DEF FirstByte
<1>7. DOMAIN w.cpu = Cpu
  BY DEF CpuOK
<1>8. StandsIn(w, off, labels)
  BY <1>1, <1>2, <1>3, <1>4, <1>5, <1>6, <1>7 DEF StandsIn
<1>9. QED
  BY <1>8

(* One step of a worker, by place.  It was born and had not ended.         *)
LEMMA StepOK ==
  ASSUME WorkersOK, NEW k \in Threads, WorkerStep(k)
  PROVE  \E w : /\ WorkerOK(w) /\ CpuOK(w) /\ w.at # "unborn"
                /\ worker[k].at \notin {"unborn", "ended"}
                /\ Become(k, w)
<1>1. WorkerOK(worker[k]) /\ CpuOK(worker[k]) /\ sources \in Inputs
  BY DEF WorkersOK
<1>2. CASE EvalWorkerSource(k)
  <2>1. IsAnswer(sources[k].outcome)
    BY <1>1, <1>2, InputsAssumption DEF EvalWorkerSource, Threads
  <2> DEFINE w == [worker[k] EXCEPT !.at = "ended", !.result = sources[k].outcome]
  <2>2. WorkerOK(w) /\ CpuOK(w) /\ w.at # "unborn"
    BY <1>1, <2>1 DEF WorkerOK, CpuOK, WorkerFields, RegionFields, Places, Placed
  <2>3. QED
    BY <1>2, <2>2 DEF EvalWorkerSource, At
<1>3. CASE ReadAndParse(k)
  <2> DEFINE lines == sources[k].lines
             a == [worker[k] EXCEPT !.at = "parsed", !.prog = Parsed(lines)]
  <2>1. ASSUME Parses(lines) PROVE Parsed(lines) \in ParsedPrograms
    <3>1. sources[k] \in ToSet(sources)
      BY DEF ToSet, Threads
    <3>2. sources[k] \in {t \in UNION {ToSet(i) : i \in Inputs} : t.kind = "asm" /\ Parses(t.lines)}
      BY <1>1, <1>3, <2>1, <3>1 DEF ReadAndParse
    <3>3. QED
      BY <3>2 DEF ParsedPrograms
  <2>2. /\ DOMAIN a = WorkerFields /\ a.at = "parsed" /\ a.prog = Parsed(lines)
        /\ a.code = worker[k].code /\ a.region = worker[k].region /\ a.cpu = worker[k].cpu
    BY <1>1 DEF WorkerOK, WorkerFields
  <2>3. worker[k].at = "born"
    BY <1>3 DEF ReadAndParse, At
  <2> HIDE DEF a
  <2>4. Parses(lines) => WorkerOK(a) /\ CpuOK(a) /\ a.at # "unborn"
    BY <1>1, <2>1, <2>2, <2>3 DEF WorkerOK, CpuOK, Places, Placed
  <2>5. \/ Become(k, Failed(worker[k], "cannot read"))
        \/ Become(k, Failed(worker[k], "parse error"))
        \/ Parses(lines) /\ Become(k, a)
    BY <1>3 DEF ReadAndParse, a
  <2>6. QED
    BY <1>1, <2>3, <2>4, <2>5, FailedOK
<1>4. CASE Assemble(k)
  <2> DEFINE out == Assembly[worker[k].prog]
             w == IF out.error # "none" THEN Failed(worker[k], out.error)
                  ELSE [worker[k] EXCEPT !.at = "assembled", !.code = out.code]
  <2>1. worker[k].prog \in ParsedPrograms
    BY <1>1, <1>4 DEF Assemble, WorkerOK, At
  <2>2. out.error = "none" => IsSeq(out.code)
    <3>1. IsProgram(worker[k].prog) /\ out = assemble(worker[k].prog)
      BY <2>1, ProgramsAreParsed
    <3>2. QED
      BY <3>1, PassesAgree DEF LaidOut, CodeOf
  <2> DEFINE a == [worker[k] EXCEPT !.at = "assembled", !.code = out.code]
  <2>3. ASSUME out.error = "none" PROVE WorkerOK(a) /\ CpuOK(a) /\ a.at = "assembled"
    <3>1. /\ a.code = out.code /\ a.at = "assembled" /\ DOMAIN a = WorkerFields
          /\ a.prog = worker[k].prog /\ a.cpu = worker[k].cpu /\ a.region = worker[k].region
      BY <1>1 DEF WorkerOK, WorkerFields
    <3>2. worker[k].at = "parsed"
      BY <1>4 DEF Assemble, At
    <3> HIDE DEF a
    <3>3. QED
      BY <1>1, <2>1, <2>2, <2>3, <3>1, <3>2 DEF WorkerOK, CpuOK, Places, Placed
  <2>4. WorkerOK(w) /\ CpuOK(w) /\ w.at # "unborn"
    <3>1. CASE out.error = "none"
      BY <2>3, <3>1
    <3>2. CASE out.error # "none"
      <4>1. w = Failed(worker[k], out.error)
        BY <3>2
      <4> HIDE DEF w
      <4>2. QED
        BY <1>1, <4>1, FailedOK
    <3>3. QED
      BY <3>1, <3>2
  <2>5. QED
    BY <1>4, <2>4 DEF Assemble, At
<1>5. CASE New(k)
  <2> DEFINE r == [prot |-> "rw", state |-> "ReadWrite",
                   size |-> RoundUp(Len(worker[k].code)), bytes |-> << >>]
             a == [worker[k] EXCEPT !.at = "mapped", !.region = r]
  <2>1. worker[k].at = "assembled"
    BY <1>5 DEF New, At
  <2>2. DOMAIN r = RegionFields /\ r.bytes = << >>
    BY DEF RegionFields
  <2> HIDE DEF r
  <2>3. /\ DOMAIN a = WorkerFields /\ a.at = "mapped" /\ a.region = r /\ a.prog = worker[k].prog
        /\ a.code = worker[k].code /\ a.cpu = worker[k].cpu
    BY <1>1 DEF WorkerOK, WorkerFields
  <2> HIDE DEF a
  <2>4. WorkerOK(a) /\ CpuOK(a) /\ a.at # "unborn"
    BY <1>1, <2>1, <2>2, <2>3 DEF WorkerOK, CpuOK, Places, Placed
  <2>5. Become(k, Failed(worker[k], "no region")) \/ Become(k, a)
    BY <1>5 DEF New, a, r
  <2>6. QED
    BY <1>1, <2>1, <2>4, <2>5, FailedOK
<1>6. CASE Write(k)
  <2> DEFINE r == worker[k].region
             a == [worker[k] EXCEPT !.at = "written", !.region.bytes = @ \o worker[k].code]
  <2>1. worker[k].at = "mapped"
    BY <1>6 DEF Write, At
  <2>2. << >> \o worker[k].code = worker[k].code
    BY <1>1 DEF WorkerOK, IsSeq
  <2>3. /\ DOMAIN a = WorkerFields /\ a.at = "written" /\ a.prog = worker[k].prog
        /\ a.code = worker[k].code /\ a.cpu = worker[k].cpu
        /\ DOMAIN a.region = RegionFields /\ a.region.bytes = worker[k].code
    BY <1>1, <2>1, <2>2 DEF WorkerOK, WorkerFields, RegionFields
  <2> HIDE DEF a
  <2>4. WorkerOK(a) /\ CpuOK(a) /\ a.at # "unborn"
    BY <1>1, <2>1, <2>3 DEF WorkerOK, CpuOK, Places, Placed
  <2>5. \/ Become(k, Failed(worker[k], "cannot write"))
        \/ Become(k, Failed(worker[k], "exceeds region"))
        \/ Become(k, a)
    BY <1>6 DEF Write, a
  <2>6. QED
    BY <1>1, <2>1, <2>4, <2>5, FailedOK
<1>7. CASE MakeExecutable(k)
  <2> DEFINE a == [worker[k] EXCEPT !.at = "sealed", !.region.state = "ReadExec", !.region.prot = "rx"]
  <2>1. worker[k].at = "written"
    BY <1>7 DEF MakeExecutable, At
  <2>2. /\ DOMAIN a = WorkerFields /\ a.at = "sealed" /\ a.prog = worker[k].prog
        /\ a.code = worker[k].code /\ a.cpu = worker[k].cpu
        /\ DOMAIN a.region = RegionFields /\ a.region.bytes = worker[k].region.bytes
        /\ a.region.prot = "rx"
    BY <1>1 DEF WorkerOK, WorkerFields, RegionFields
  <2> HIDE DEF a
  <2>3. WorkerOK(a) /\ CpuOK(a) /\ a.at # "unborn"
    BY <1>1, <2>1, <2>2 DEF WorkerOK, CpuOK, Places, Placed
  <2>4. Become(k, Failed(worker[k], "mprotect failed")) \/ Become(k, a)
    BY <1>7 DEF MakeExecutable, a
  <2>5. QED
    BY <1>1, <2>1, <2>3, <2>4, FailedOK
<1>8. CASE AsFn(k)
  <2> DEFINE a == [worker[k] EXCEPT !.at = "running"]
  <2>1. worker[k].at = "sealed"
    BY <1>8 DEF AsFn, At
  <2>2. /\ DOMAIN a = WorkerFields /\ a.at = "running" /\ a.prog = worker[k].prog
        /\ a.code = worker[k].code /\ a.cpu = worker[k].cpu /\ a.region = worker[k].region
    BY <1>1 DEF WorkerOK, WorkerFields
  <2> HIDE DEF a
  <2>3. ASSUME worker[k].region.bytes # << >> PROVE WorkerOK(a) /\ CpuOK(a) /\ a.at # "unborn"
    <3>1. WorkerOK(a)
      BY <1>1, <2>1, <2>2, <2>3 DEF WorkerOK, Places, Placed
    <3>2. ASSUME Ends(a.prog)
          PROVE  /\ DOMAIN a.cpu = Cpu
                 /\ \E off, labels : /\ LaidOut(a.prog, off, labels, a.code)
                                     /\ \E j \in Instructions(a.prog) : a.cpu.at = off[j - 1]
      <4>1. PICK prog : prog = a.prog
        OBVIOUS
      <4>2. prog \in ParsedPrograms /\ Assembly[prog].error = "none" /\ a.code = Assembly[prog].code
        BY <3>1, <2>2, <4>1 DEF WorkerOK, Placed
      <4>3. IsProgram(prog) /\ Assembly[prog] = assemble(prog)
        BY <4>2, ProgramsAreParsed
      <4>4. PICK off, labels : LaidOut(prog, off, labels, a.code)
        BY <4>2, <4>3, PassesAgree
      <4>5. a.cpu = Ready
        BY <1>1, <2>1, <2>2 DEF WorkerOK
      <4>6. PICK j \in Instructions(prog) : off[j - 1] = off[0]
        BY <3>2, <4>1, <4>3, <4>4, StartsAtInstruction DEF LaidOut
      <4>7. off[0] = 0
        BY <4>4 DEF LaidOut, Sizes
      <4>8. QED
        BY <4>1, <4>4, <4>5, <4>6, <4>7 DEF Ready, Cpu
    <3>3. QED
      BY <2>2, <3>1, <3>2 DEF CpuOK
  <2>4. \/ Become(k, Failed(worker[k], "not executable"))
        \/ Become(k, Failed(worker[k], "region is empty"))
        \/ worker[k].region.bytes # << >> /\ Become(k, a)
    BY <1>8 DEF AsFn, a
  <2>5. QED
    BY <1>1, <2>1, <2>3, <2>4, FailedOK
<1>9. CASE Run(k)
  <2> DEFINE a == [worker[k] EXCEPT !.cpu = NativeStep(worker[k].region.bytes, @)]
  <2>1. worker[k].at = "running" /\ Here(k).op # "ret"
    BY <1>9 DEF Run, CanRun, At
  <2>2. /\ DOMAIN a = WorkerFields /\ a.at = "running" /\ a.prog = worker[k].prog
        /\ a.code = worker[k].code /\ a.region = worker[k].region
        /\ a.cpu = NativeStep(worker[k].code, worker[k].cpu)
    BY <1>1, <2>1 DEF WorkerOK, WorkerFields
  <2> HIDE DEF a
  <2>3. WorkerOK(a) /\ a.at # "unborn"
    BY <1>1, <2>1, <2>2 DEF WorkerOK, Places, Placed
  <2>4. CpuOK(a)
    <3> SUFFICES ASSUME Ends(a.prog)
                 PROVE  /\ DOMAIN a.cpu = Cpu
                        /\ \E off, labels : /\ LaidOut(a.prog, off, labels, a.code)
                                            /\ \E j \in Instructions(a.prog) : a.cpu.at = off[j - 1]
      BY DEF CpuOK
    <3>1. Ends(worker[k].prog)
      BY <2>2
    <3>2. PICK off, labels : StandsIn(worker[k], off, labels)
      BY <1>1, <2>1, <3>1, RunsAtInstruction
    <3>3. /\ DOMAIN NativeStep(worker[k].code, worker[k].cpu) = Cpu
          /\ \E j \in Instructions(worker[k].prog) :
               NativeStep(worker[k].code, worker[k].cpu).at = off[j - 1]
      BY <2>1, <3>1, <3>2, StepsAgree DEF StandsIn, Here
    <3>4. QED
      BY <2>2, <3>2, <3>3 DEF StandsIn
  <2>5. QED
    BY <1>9, <2>1, <2>3, <2>4 DEF Run, a
<1>10. CASE ReturnRax(k)
  <2> DEFINE w == [worker[k] EXCEPT !.at = "ended", !.region = Unmap(@),
                                    !.result = Ok(worker[k].cpu.rax)]
  <2>1. WorkerOK(w) /\ CpuOK(w) /\ w.at # "unborn"
    <3>1. WorkerOK(w) /\ w.at = "ended"
      BY <1>1 DEF WorkerOK, WorkerFields, RegionFields, Places, Placed, Unmap, IsAnswer, Ok
    <3> HIDE DEF w
    <3>2. QED
      BY <3>1 DEF CpuOK
  <2>2. QED
    BY <1>10, <2>1 DEF ReturnRax, CanRun, At
<1>11. QED
  BY <1>2, <1>3, <1>4, <1>5, <1>6, <1>7, <1>8, <1>9, <1>10 DEF WorkerStep, AsmSteps

(* The caller goes by the results of workers that have ended, which no     *)
(* step of a worker changes.                                               *)
LEMMA WorkerStepKeepsInv ==
  ASSUME Inv, NEW k \in Threads, WorkerStep(k)
  PROVE  Inv'
<1>1. PICK w : /\ WorkerOK(w) /\ CpuOK(w) /\ w.at # "unborn"
               /\ worker[k].at \notin {"unborn", "ended"}
               /\ Become(k, w)
  BY StepOK DEF Inv
<1>2. UNCHANGED <<sources, caller, Threads>> /\ Len(sources) \in Nat /\ Threads = 1..Len(sources)
  BY <1>1, SourcesAreASequence DEF Become, Threads, Inv, WorkersOK
<1>3. /\ DOMAIN worker' = Threads
      /\ worker'[k] = w
      /\ \A j \in Threads : j # k => worker'[j] = worker[j]
  BY <1>1 DEF Become, Inv, WorkersOK
<1>4. WorkersOK'
  BY <1>1, <1>2, <1>3 DEF Inv, WorkersOK
<1>5. \A j \in Threads : At(j, "ended") => At(j, "ended")' /\ worker'[j] = worker[j]
  BY <1>1, <1>3 DEF At
<1>6. \A j \in Threads : At(j, "unborn") => At(j, "unborn")'
  BY <1>1, <1>3 DEF At
<1>7. ASSUME NEW n \in 0..Len(sources), Holds(n) PROVE Holds(n)'
  BY <1>2, <1>5, <1>7 DEF Holds
<1>8. ASSUME Decision PROVE Decision'
  <2>1. CASE caller.outcome = Ok(caller.results) /\ Holds(Len(sources))
    BY <1>2, <1>5, <2>1 DEF Decision, Holds
  <2>2. CASE ~ (caller.outcome = Ok(caller.results) /\ Holds(Len(sources)))
    <3>1. PICK n \in Threads :
            /\ At(n, "ended") /\ worker[n].result.kind \in {"error", "panic"}
            /\ caller.outcome = IF worker[n].result.kind = "panic"
                                THEN Err("worker thread panicked") ELSE worker[n].result
            /\ \A j \in 1..n - 1 : At(j, "ended") /\ worker[j].result.kind = "ok"
      BY <1>8, <2>2 DEF Decision
    <3>2. At(n, "ended")' /\ worker'[n] = worker[n]
      BY <1>5, <3>1
    <3>3. \A j \in 1..n - 1 : At(j, "ended")' /\ worker'[j] = worker[j]
      <4>1. ASSUME NEW j \in 1..n - 1 PROVE j \in Threads
        <5>1. n \in 1..Len(sources) /\ Len(sources) \in Nat
          BY <1>2, <3>1
        <5>2. j \in 1..Len(sources)
          BY <5>1
        <5>3. QED
          BY <1>2, <5>2
      <4>2. QED
        BY <1>5, <3>1, <4>1
    <3>4. QED
      BY <1>2, <3>1, <3>2, <3>3 DEF Decision
  <2>3. QED
    BY <2>1, <2>2
<1>9. CallerOK'
  BY <1>2, <1>6, <1>7, <1>8 DEF CallerOK, Inv
<1>10. QED
  BY <1>4, <1>9 DEF Inv

(* A worker that is spawned is as it was made, but born.                   *)
LEMMA SpawnKeepsInv == Inv /\ Spawn => Inv'
<1> SUFFICES ASSUME Inv, Spawn PROVE Inv'
  OBVIOUS
<1> DEFINE k == caller.next
<1>1. Len(sources) \in Nat /\ Threads = 1..Len(sources) /\ k \in Threads
  <2>1. Len(sources) \in Nat /\ Threads = 1..Len(sources)
    BY SourcesAreASequence DEF Inv, WorkersOK
  <2>2. k \in 1..Len(sources) + 1 /\ k <= Len(sources)
    BY DEF Inv, CallerOK, Spawn
  <2>3. QED
    BY <2>1, <2>2
<1>2. WorkerOK(worker[k]) /\ worker[k].at = "unborn" /\ DOMAIN worker = Threads
  BY <1>1 DEF Inv, WorkersOK, CallerOK, Spawn, At
<1>3. WorkerOK([worker[k] EXCEPT !.at = "born"]) /\ CpuOK([worker[k] EXCEPT !.at = "born"])
  BY <1>2 DEF WorkerOK, CpuOK, WorkerFields, Places, Placed
<1>4. WorkersOK'
  BY <1>1, <1>2, <1>3 DEF Spawn, Inv, WorkersOK, Threads
<1>5. \A j \in Threads : j # k => worker'[j] = worker[j]
  BY <1>2 DEF Spawn
<1>6. CallerOK'
  BY <1>1, <1>5 DEF Spawn, Inv, CallerOK, At
<1>7. QED
  BY <1>4, <1>6 DEF Inv

(* The caller adds the value of the worker it joins to those it holds, or  *)
(* decides on its error.                                                   *)
LEMMA JoinKeepsInv == Inv /\ Join => Inv'
<1> SUFFICES ASSUME Inv, Join PROVE Inv'
  OBVIOUS
<1>0. PICK k : k = caller.next
  OBVIOUS
<1> DEFINE r == worker[k].result
<1>1. Len(sources) \in Nat /\ Threads = 1..Len(sources) /\ k \in Threads
  <2>1. Len(sources) \in Nat /\ Threads = 1..Len(sources)
    BY SourcesAreASequence DEF Inv, WorkersOK
  <2>2. k \in 1..Len(sources) + 1 /\ k <= Len(sources)
    BY <1>0 DEF Inv, CallerOK, Join
  <2>3. QED
    BY <2>1, <2>2
<1>2. At(k, "ended") /\ IsAnswer(r) /\ Holds(k - 1) /\ UNCHANGED <<sources, worker>>
  BY <1>0, <1>1 DEF Inv, WorkersOK, WorkerOK, CallerOK, Join, At
<1>3. WorkersOK' /\ Threads' = Threads
  BY <1>2 DEF Inv, WorkersOK, Threads, WorkerOK
<1>4. CASE r.kind = "ok"
  <2>1. r = Ok(r.value)
    BY <1>2, <1>4 DEF IsAnswer, Ok, Err, Panicked
  <2>2. /\ DOMAIN caller' = DOMAIN caller /\ caller'.at = "joining"
        /\ caller'.next = k + 1 /\ caller'.results = Append(caller.results, r.value)
    BY <1>0, <1>4 DEF Join, Joined, Inv, CallerOK
  <2>3. Holds(k)'
    <3> DEFINE old == caller.results
               new == caller'.results
    <3>1. PICK S : old \in Seq(S)
      BY <1>2 DEF Holds
    <3>2. old \in Seq(S \cup {r.value}) /\ Len(old) = k - 1 /\ k \in Nat
      BY <1>1, <1>2, <3>1 DEF Holds
    <3>3. /\ new \in Seq(S \cup {r.value}) /\ Len(new) = k
          /\ new[k] = r.value /\ \A n \in 1..k - 1 : new[n] = old[n]
      BY <2>2, <3>2
    <3>4. ASSUME NEW n \in 1..k PROVE At(n, "ended") /\ worker[n].result = Ok(new[n])
      <4>1. CASE n = k
        BY <1>2, <2>1, <3>3, <4>1
      <4>2. CASE n # k
        <5>1. n \in 1..k - 1
          BY <3>2, <4>2
        <5>2. At(n, "ended") /\ worker[n].result = Ok(old[n])
          BY <1>2, <5>1 DEF Holds
        <5>3. QED
          BY <3>3, <5>1, <5>2
      <4>3. QED
        BY <4>1, <4>2
    <3>5. QED
      BY <1>2, <3>3, <3>4 DEF Holds, At
  <2>4. CallerOK'
    <3>1. Holds(caller.next - 1)'
      BY <1>1, <2>2, <2>3
    <3>2. QED
      BY <1>0, <1>1, <1>2, <2>2, <3>1 DEF Inv, CallerOK
  <2>5. QED
    BY <1>3, <2>4 DEF Inv
<1>5. CASE r.kind # "ok"
  <2>1. r.kind \in {"error", "panic"}
    BY <1>2, <1>5 DEF IsAnswer, Ok, Err, Panicked
  <2>2. /\ DOMAIN caller' = DOMAIN caller /\ caller'.at = "returned"
        /\ caller'.next = k
        /\ caller'.outcome = IF r.kind = "panic" THEN Err("worker thread panicked") ELSE r
    BY <1>0, <1>5 DEF Join, Joined, Inv, CallerOK
  <2>3. \A j \in 1..k - 1 : At(j, "ended") /\ worker[j].result.kind = "ok"
    <3>1. \A j \in 1..k - 1 : At(j, "ended") /\ worker[j].result = Ok(caller.results[j])
      BY <1>2 DEF Holds
    <3>2. \A v : Ok(v).kind = "ok"
      BY DEF Ok
    <3>3. QED
      BY <3>1, <3>2
  <2>4. Decision'
    BY <1>1, <1>2, <1>3, <2>1, <2>2, <2>3 DEF Decision, At
  <2>5. CallerOK'
    BY <1>0, <1>1, <1>2, <2>2, <2>4 DEF Inv, CallerOK
  <2>6. QED
    BY <1>3, <2>5 DEF Inv
<1>6. QED
  BY <1>4, <1>5

(* One case for each step of the caller, one for the workers.              *)
LEMMA NextKeepsInv == Inv /\ [Next]_vars => Inv'
<1> SUFFICES ASSUME Inv, [Next]_vars PROVE Inv'
  OBVIOUS
<1>1. Len(sources) \in Nat /\ Threads = 1..Len(sources)
  BY SourcesAreASequence DEF Inv, WorkersOK
<1>2. CASE UNCHANGED vars
  BY <1>2 DEF vars, Inv, WorkersOK, CallerOK, Threads, Holds, Decision, At
<1>3. CASE \E k \in Threads : WorkerStep(k)
  BY <1>3, WorkerStepKeepsInv
<1>4. CASE AllSpawned
  <2>1. WorkersOK' /\ Threads' = Threads
    BY <1>4 DEF AllSpawned, Inv, WorkersOK, Threads
  <2>2. Holds(0)'
    <3>1. caller'.results = << >>
      BY <1>4 DEF AllSpawned, Inv, CallerOK
    <3>2. QED
      BY <3>1 DEF Holds
  <2>3. CallerOK'
    BY <1>1, <1>4, <2>2 DEF AllSpawned, Inv, CallerOK
  <2>4. QED
    BY <2>1, <2>3 DEF Inv
<1>5. CASE AllJoined
  <2>1. WorkersOK' /\ Threads' = Threads
    BY <1>5 DEF AllJoined, Inv, WorkersOK, Threads
  <2>2. Holds(Len(sources)) /\ caller.next = Len(sources) + 1
    BY <1>1, <1>5 DEF AllJoined, Inv, CallerOK
  <2>3. /\ DOMAIN caller' = DOMAIN caller /\ caller'.at = "returned"
        /\ caller'.outcome = Ok(caller.results) /\ caller'.results = caller.results
        /\ caller'.next = caller.next /\ UNCHANGED <<sources, worker>>
    BY <1>5 DEF AllJoined, Inv, CallerOK
  <2>4. Decision'
    BY <2>2, <2>3 DEF Decision, Holds, At
  <2>5. CallerOK'
    BY <1>1, <2>2, <2>3, <2>4 DEF Inv, CallerOK
  <2>6. QED
    BY <2>1, <2>5 DEF Inv
<1>6. QED
  BY <1>2, <1>3, <1>4, <1>5, SpawnKeepsInv, JoinKeepsInv DEF Next, CallerStep

(* The invariant holds in every run.                                       *)
THEOREM Invariance == Spec => []Inv
BY InitOK, NextKeepsInv, PTL DEF Spec

(* Whatever the sources and however fast the workers, load-asm-parallel    *)
(* and parallel-eval answer with the values in the order of the sources or *)
(* with the error of the first source that has one (the loop over the      *)
(* handles in builtins/asm.rs and builtins/utils.rs).                      *)
THEOREM AnswersInOrder == Spec => []OutcomeIsInOrder
<1>1. Inv => OutcomeIsInOrder
  <2> SUFFICES ASSUME Inv, caller.at = "returned" PROVE OutcomeIsInOrder
    BY DEF OutcomeIsInOrder
  <2>1. Len(sources) \in Nat /\ Threads = 1..Len(sources) /\ Decision
    BY SourcesAreASequence DEF Inv, WorkersOK, CallerOK
  <2>2. CASE caller.outcome = Ok(caller.results) /\ Holds(Len(sources))
    BY <2>1, <2>2 DEF OutcomeIsInOrder, Holds, Ok
  <2>3. CASE ~ (caller.outcome = Ok(caller.results) /\ Holds(Len(sources)))
    <3>1. PICK k \in Threads :
            /\ At(k, "ended") /\ worker[k].result.kind \in {"error", "panic"}
            /\ caller.outcome = IF worker[k].result.kind = "panic"
                                THEN Err("worker thread panicked") ELSE worker[k].result
            /\ \A j \in 1..k - 1 : At(j, "ended") /\ worker[j].result.kind = "ok"
      BY <2>1, <2>3 DEF Decision
    <3>2. caller.outcome.kind # "ok"
      <4>1. Err("worker thread panicked").kind = "error"
        BY DEF Err
      <4>2. QED
        BY <3>1, <4>1
    <3>3. QED
      BY <3>1, <3>2 DEF OutcomeIsInOrder
  <2>4. QED
    BY <2>2, <2>3
<1>2. QED
  BY <1>1, Invariance, PTL

(* No worker runs pages that can still be written, or code other than all  *)
(* that was assembled (JitMemory in tinyasm/jit.rs).                       *)
THEOREM CodeIsSealed == Spec => []RunsSealedCode
<1>1. Inv => RunsSealedCode
  BY DEF Inv, WorkersOK, WorkerOK, RunsSealedCode, At
<1>2. QED
  BY <1>1, Invariance, PTL

(* If no program runs off its end, no worker ever fetches a byte that does *)
(* not begin an instruction of its program: the jumps the second pass      *)
(* encodes and the offsets of the first keep the machine among them.       *)
THEOREM CodeIsFinished ==
  ASSUME ProgramsEnd
  PROVE  Spec => []RunsFinishedCode
<1>1. ASSUME Inv, NEW k \in Threads, worker[k].at = "running"
      PROVE  /\ Ends(worker[k].prog) /\ worker[k].region.prot = "rx"
             /\ worker[k].region.bytes = worker[k].code
             /\ \E off, labels : StandsIn(worker[k], off, labels)
  <2>1. WorkerOK(worker[k]) /\ CpuOK(worker[k])
    BY <1>1 DEF Inv, WorkersOK
  <2>2. Ends(worker[k].prog)
    BY <1>1, <2>1 DEF ProgramsEnd, WorkerOK, Placed
  <2>3. QED
    BY <1>1, <2>1, <2>2, RunsAtInstruction DEF WorkerOK
<1>2. Inv => RunsFinishedCode
  BY <1>1 DEF RunsFinishedCode, RunsSealedCode, StandsIn, At
<1>3. QED
  BY <1>2, Invariance, PTL

(* Nor does it take a step its program does not: wherever a jump leads,    *)
(* the machine comes to the instruction the program comes to, with the     *)
(* same register and flag.                                                 *)
THEOREM StepsAreTheSource ==
  ASSUME ProgramsEnd
  PROVE  Spec => NativeFollowsTheSource
<1> DEFINE Follows == \A k \in Threads : LET w == worker[k] IN
             w.at = "running" /\ worker'[k].at = "running" /\ w.cpu # worker'[k].cpu
               => AtSource(worker'[k]) = PastLabels(w.prog, SourceStep(w.prog, AtSource(w)))
<1>1. ASSUME Inv, [Next]_vars, NEW k \in Threads,
             worker[k].at = "running", worker'[k].at = "running", worker[k].cpu # worker'[k].cpu
      PROVE  Run(k)
  <2>1. DOMAIN worker = Threads /\ DOMAIN worker[k] = WorkerFields
    BY <1>1 DEF Inv, WorkersOK, WorkerOK
  <2>2. CASE UNCHANGED vars
    BY <1>1, <2>2 DEF vars
  <2>3. CASE CallerStep
    BY <1>1, <2>1, <2>3 DEF CallerStep, Spawn, AllSpawned, Join, AllJoined, WorkerFields
  <2>4. CASE \E j \in Threads : WorkerStep(j)
    <3>1. PICK j \in Threads : WorkerStep(j)
      BY <2>4
    <3>2. \E w : Become(j, w)
      BY <1>1, <3>1, StepOK DEF Inv
    <3>3. j = k
      BY <1>1, <2>1, <3>2 DEF Become
    <3>4. ~ ReturnRax(k)
      <4>1. ASSUME ReturnRax(k) PROVE FALSE
        <5> DEFINE a == [worker[k] EXCEPT !.at = "ended", !.region = Unmap(@),
                                          !.result = Ok(worker[k].cpu.rax)]
        <5>1. worker'[k] = a
          BY <2>1, <4>1 DEF ReturnRax, Become
        <5>2. a.at = "ended"
          BY <2>1 DEF WorkerFields
        <5>3. QED
          BY <1>1, <5>1, <5>2
      <4>2. QED
        BY <4>1
    <3>5. QED
      BY <1>1, <3>1, <3>3, <3>4 DEF WorkerStep, AsmSteps, EvalWorkerSource, ReadAndParse, Assemble,
                                    New, Write, MakeExecutable, AsFn, At
  <2>5. QED
    BY <1>1, <2>2, <2>3, <2>4 DEF Next
<1>2. ASSUME Inv, NEW k \in Threads, Run(k)
      PROVE  AtSource(worker'[k]) =
               PastLabels(worker[k].prog, SourceStep(worker[k].prog, AtSource(worker[k])))
  <2> DEFINE prog == worker[k].prog
             code == worker[k].code
             m == worker[k].cpu
  <2>1. /\ WorkerOK(worker[k]) /\ CpuOK(worker[k]) /\ worker[k].at = "running"
        /\ DOMAIN worker = Threads
    BY <1>2 DEF Inv, WorkersOK, Run, CanRun, At
  <2>2. worker[k].region.bytes = code /\ DOMAIN worker[k] = WorkerFields
    BY <2>1 DEF WorkerOK
  <2>3. worker'[k] = [worker[k] EXCEPT !.cpu = NativeStep(code, m)]
    BY <1>2, <2>1, <2>2 DEF Run, Become
  <2>4. worker'[k].cpu = NativeStep(code, m) /\ worker'[k].prog = prog /\ worker'[k].code = code
    BY <2>2, <2>3 DEF WorkerFields
  <2>5. Ends(prog)
    BY <2>1 DEF ProgramsEnd, WorkerOK, Placed
  <2>6. PICK off, labels : StandsIn(worker[k], off, labels)
    BY <2>1, <2>5, RunsAtInstruction
  <2>7. Fetched(worker[k].region.bytes, m).op # "ret"
    BY <1>2 DEF Run, Here
  <2>8. AsSource(prog, code, NativeStep(code, m)) =
          PastLabels(prog, SourceStep(prog, AsSource(prog, code, m)))
    BY <2>5, <2>6, <2>7, StepsAgree DEF StandsIn
  <2>9. QED
    BY <2>4, <2>8 DEF AtSource, AsSource
<1>3. Inv /\ [Next]_vars => [Follows]_vars
  BY <1>1, <1>2
<1>4. QED
  BY <1>3, Invariance, PTL DEF Spec, NativeFollowsTheSource
=============================================================================
