---------------------------- MODULE MachineProofs ----------------------------
(***************************************************************************)
(* What well typed code cannot do to the machine, whatever the compiler,   *)
(* the tree-walker and the builtins are; and that the compiler's code is   *)
(* well typed, by induction over the height of forms.                      *)
(***************************************************************************)
EXTENDS Machine, SequenceTheorems, TLAPS

(***************************************************************************)
(* The assumption on code: every chunk the compiler makes is in Codes, and *)
(* those and the two kinds the machine makes itself are well typed.        *)
(***************************************************************************)
ChunkOK(Codes, c) ==
  /\ Len(c) \in Nat
  /\ WellTyped(c)
  /\ \A i \in 1..Len(c) :
       /\ DepthOf(c)[i] \in Int /\ DepthOf(c)[i] >= -1
       /\ c[i].op \in {"Call", "TailCall", "MakeList"} => c[i].n \in Nat
       /\ c[i].op = "LoadConst" => ~Is("fn", c[i].val)
       /\ c[i].op = "MakeFunc" => c[i].code \in Codes

Known(Codes, c) == c \in Codes \/ \E e : c = TreeCode(e)

CodesOK(Codes) ==
  /\ \A e : CodeOf(e) = << >> \/ CodeOf(e) \in Codes
  /\ HollowCode \in Codes
  /\ \A c : Known(Codes, c) => ChunkOK(Codes, c)

(***************************************************************************)
(* The invariant.  A frame's part of the stack is as deep as its code says *)
(* at its instruction; one that waits for a call counts the result that is *)
(* not there yet.                                                          *)
(***************************************************************************)
IsSeq(s) == \E S : s \in Seq(S)
Depth(f) == DepthOf(f.code)[f.ip]

ItemOK(Codes, item) == Is("fn", item.val) => Known(Codes, item.code)
StackOK(Codes, s) == IsSeq(s) /\ \A k \in 1..Len(s) : ItemOK(Codes, s[k])

FrameOK(Codes, f) ==
  /\ f = [code |-> f.code, ip |-> f.ip, base |-> f.base, env |-> f.env, home |-> f.home]
  /\ Known(Codes, f.code)
  /\ f.ip \in 1..Len(f.code)
  /\ f.base \in Nat
  /\ Depth(f) \in Nat

Waits(f, callee) == Depth(f) >= 1 /\ callee.base = f.base + Depth(f) - 1

Sound(Codes, s, fr) ==
  /\ StackOK(Codes, s)
  /\ IsSeq(fr) /\ Len(fr) >= 1
  /\ \A k \in 1..Len(fr) : FrameOK(Codes, fr[k])
  /\ \A k \in 1..(Len(fr) - 1) : Waits(fr[k], fr[k + 1])
  /\ \A j, k \in 1..Len(fr) : j <= k => fr[j].base <= fr[k].base
  /\ Len(s) = fr[Len(fr)].base + Depth(fr[Len(fr)])

IInv(Codes) ==
  /\ form \in Forms
  /\ frames # << >>
  /\ result # Failure => Sound(Codes, stack, frames)

(***************************************************************************)
(* Sequences of anything.                                                  *)
(***************************************************************************)
LEMMA LenIsNat == ASSUME NEW s, IsSeq(s) PROVE Len(s) \in Nat
BY DEF IsSeq

LEMMA EmptyIsSeq == IsSeq(<< >>) /\ Len(<< >>) = 0
<1>1. << >> \in Seq({})
  OBVIOUS
<1>2. QED
  BY <1>1 DEF IsSeq

LEMMA Extended ==
  ASSUME NEW s, IsSeq(s), NEW x
  PROVE  /\ IsSeq(Append(s, x))
         /\ Len(Append(s, x)) = Len(s) + 1
         /\ \A k \in 1..Len(s) : Append(s, x)[k] = s[k]
         /\ Append(s, x)[Len(s) + 1] = x
<1>1. PICK S : s \in Seq(S)
  BY DEF IsSeq
<1>2. s \in Seq(S \cup {x}) /\ x \in S \cup {x}
  BY <1>1
<1>3. QED
  BY <1>2 DEF IsSeq

LEMMA Shortened ==
  ASSUME NEW s, IsSeq(s), NEW n \in 0..Len(s)
  PROVE  /\ IsSeq(SubSeq(s, 1, n))
         /\ Len(SubSeq(s, 1, n)) = n
         /\ \A k \in 1..n : SubSeq(s, 1, n)[k] = s[k]
<1>1. PICK S : s \in Seq(S)
  BY DEF IsSeq
<1>2. Len(s) \in Nat /\ \A k \in 1..Len(s) : s[k] \in S
  BY <1>1
<1>3. SubSeq(s, 1, n) \in Seq(S)
  BY <1>1, <1>2, SubSeqProperties
<1>4. QED
  BY <1>1, <1>2, <1>3, SubSeqProperties DEF IsSeq

LEMMA Updated ==
  ASSUME NEW s, IsSeq(s), Len(s) >= 1, NEW x, NEW t, t = [s EXCEPT ![Len(s)] = x]
  PROVE  /\ IsSeq(t)
         /\ Len(t) = Len(s)
         /\ \A k \in 1..Len(s) : t[k] = IF k = Len(s) THEN x ELSE s[k]
<1>1. PICK S : s \in Seq(S)
  BY DEF IsSeq
<1>2. s \in Seq(S \cup {x}) /\ x \in S \cup {x}
  BY <1>1
<1>3. QED
  BY <1>2 DEF IsSeq

LEMMA AboveOne ==
  ASSUME NEW n \in Nat, n >= 1, n # 1
  PROVE  n - 1 >= 1 /\ n - 1 \in 0..n /\ n - 1 \in 1..n /\ n \in 1..n
OBVIOUS

LEMMA ItemAdded ==
  ASSUME NEW Codes, NEW s, StackOK(Codes, s), NEW item, ItemOK(Codes, item)
  PROVE  StackOK(Codes, Append(s, item)) /\ Len(Append(s, item)) = Len(s) + 1
<1>1. /\ Len(s) \in Nat
      /\ IsSeq(Append(s, item))
      /\ Len(Append(s, item)) = Len(s) + 1
      /\ \A k \in 1..Len(s) : Append(s, item)[k] = s[k]
      /\ Append(s, item)[Len(s) + 1] = item
  BY LenIsNat, Extended DEF StackOK
<1>2. ASSUME NEW k \in 1..(Len(s) + 1) PROVE ItemOK(Codes, Append(s, item)[k])
  <2>1. CASE k = Len(s) + 1
    BY <1>1, <2>1
  <2>2. CASE k # Len(s) + 1
    <3>1. k \in 1..Len(s)
      BY <1>1, <2>2
    <3>2. QED
      BY <1>1, <3>1 DEF StackOK
  <2>3. QED
    BY <2>1, <2>2
<1>3. QED
  BY <1>1, <1>2 DEF StackOK

LEMMA ItemsTaken ==
  ASSUME NEW Codes, NEW s, StackOK(Codes, s), NEW n \in 0..Len(s)
  PROVE  StackOK(Codes, SubSeq(s, 1, n)) /\ Len(SubSeq(s, 1, n)) = n
<1>1. /\ Len(s) \in Nat
      /\ IsSeq(SubSeq(s, 1, n))
      /\ Len(SubSeq(s, 1, n)) = n
      /\ \A k \in 1..n : SubSeq(s, 1, n)[k] = s[k]
  BY LenIsNat, Shortened DEF StackOK
<1>2. \A k \in 1..n : k \in 1..Len(s)
  BY <1>1
<1>3. QED
  BY <1>1, <1>2 DEF StackOK

(***************************************************************************)
(* Replacing the top frame, calling from it, and leaving it.               *)
(***************************************************************************)
LEMMA ReplaceTop ==
  ASSUME NEW Codes, NEW s, NEW fr, Sound(Codes, s, fr),
         NEW s2, StackOK(Codes, s2),
         NEW f, FrameOK(Codes, f), f.base = fr[Len(fr)].base,
         Len(s2) = f.base + Depth(f)
  PROVE  Sound(Codes, s2, [fr EXCEPT ![Len(fr)] = f])
<1> DEFINE n == Len(fr)
           g == [fr EXCEPT ![n] = f]
<1>1. IsSeq(fr) /\ n \in Nat /\ n >= 1 /\ n \in 1..n
  BY LenIsNat DEF Sound
<1>2. /\ IsSeq(g) /\ Len(g) = n
      /\ \A k \in 1..n : g[k] = IF k = n THEN f ELSE fr[k]
  BY SMTT(30), <1>1, Updated
<1> HIDE DEF n, g
<1>3. \A k \in 1..n : FrameOK(Codes, g[k]) /\ g[k].base = fr[k].base
  BY <1>2 DEF Sound, n
<1>4. \A k \in 1..(n - 1) : Waits(g[k], g[k + 1])
  <2>1. SUFFICES ASSUME NEW k \in 1..(n - 1) PROVE Waits(g[k], g[k + 1])
    OBVIOUS
  <2>2. k \in 1..n /\ k # n /\ k + 1 \in 1..n
    BY <1>1
  <2>3. g[k] = fr[k] /\ g[k + 1].base = fr[k + 1].base
    BY <1>2, <1>3, <2>2
  <2>4. Waits(fr[k], fr[k + 1])
    BY DEF Sound, n
  <2>5. QED
    BY <2>3, <2>4 DEF Waits
<1>5. \A j, k \in 1..n : j <= k => g[j].base <= g[k].base
  BY <1>3 DEF Sound, n
<1>6. QED
  BY <1>1, <1>2, <1>3, <1>4, <1>5 DEF Sound, n, g

LEMMA PushFrame ==
  ASSUME NEW Codes, NEW s, NEW fr, Sound(Codes, s, fr),
         NEW f, FrameOK(Codes, f), Waits(fr[Len(fr)], f),
         NEW s2, StackOK(Codes, s2), Len(s2) = f.base + Depth(f)
  PROVE  Sound(Codes, s2, Append(fr, f))
<1> DEFINE n == Len(fr)
           g == Append(fr, f)
<1>1. n \in Nat /\ n >= 1 /\ n \in 1..n
  BY LenIsNat DEF Sound
<1>2. /\ IsSeq(g) /\ Len(g) = n + 1
      /\ \A k \in 1..n : g[k] = fr[k]
      /\ g[n + 1] = f
  BY Extended DEF Sound
<1> HIDE DEF n, g
<1>3. \A k \in 1..(n + 1) : FrameOK(Codes, g[k])
  BY <1>1, <1>2 DEF Sound, n
<1>4. \A k \in 1..n : Waits(g[k], g[k + 1])
  <2>1. SUFFICES ASSUME NEW k \in 1..n PROVE Waits(g[k], g[k + 1])
    OBVIOUS
  <2>2. CASE k = n
    BY <1>1, <1>2, <2>2 DEF n
  <2>3. CASE k # n
    <3>1. k \in 1..(n - 1) /\ k + 1 \in 1..n
      BY <1>1, <2>3
    <3>2. QED
      BY <1>2, <3>1 DEF Sound, n
  <2>4. QED
    BY <2>2, <2>3
<1>5. \A k \in 1..n : fr[k].base \in Nat /\ fr[k].base <= f.base
  <2>1. /\ Depth(fr[n]) \in Nat /\ Depth(fr[n]) >= 1
        /\ f.base = fr[n].base + Depth(fr[n]) - 1
        /\ f.base \in Nat
    BY <1>1 DEF Sound, FrameOK, Waits, n
  <2>2. \A k \in 1..n : fr[k].base \in Nat
    BY DEF Sound, FrameOK, n
  <2>3. \A k \in 1..n : fr[k].base <= fr[n].base
    <3>1. \A k \in 1..n : k <= n
      BY <1>1
    <3>2. QED
      BY <1>1, <3>1 DEF Sound, n
  <2>4. QED
    BY <1>1, <2>1, <2>2, <2>3
<1>6. \A j, k \in 1..(n + 1) : j <= k => g[j].base <= g[k].base
  <2>1. SUFFICES ASSUME NEW j \in 1..(n + 1), NEW k \in 1..(n + 1), j <= k
                 PROVE  g[j].base <= g[k].base
    OBVIOUS
  <2>2. CASE k \in 1..n
    BY <1>1, <1>2, <2>1, <2>2 DEF Sound, n
  <2>3. CASE k = n + 1 /\ j \in 1..n
    BY <1>2, <1>5, <2>3
  <2>4. CASE k = n + 1 /\ j = n + 1
    BY <1>2, <2>4 DEF FrameOK
  <2>5. QED
    BY <1>1, <2>1, <2>2, <2>3, <2>4
<1>7. QED
  BY <1>1, <1>2, <1>3, <1>4, <1>6 DEF Sound, n, g

LEMMA PopFrame ==
  ASSUME NEW Codes, NEW s, NEW fr, Sound(Codes, s, fr), Len(fr) # 1,
         NEW item, ItemOK(Codes, item)
  PROVE  Sound(Codes, Append(SubSeq(s, 1, fr[Len(fr)].base), item), Front(fr))
<1> DEFINE n == Len(fr)
           g == Front(fr)
           s2 == Append(SubSeq(s, 1, fr[Len(fr)].base), item)
<1>1. n \in Nat /\ n - 1 >= 1 /\ n \in 1..n /\ n - 1 \in 0..n /\ n - 1 \in 1..n
  <2>1. n \in Nat /\ n >= 1
    BY LenIsNat DEF Sound
  <2>2. QED
    BY <2>1, AboveOne
<1>2. /\ IsSeq(g) /\ Len(g) = n - 1
      /\ \A k \in 1..(n - 1) : g[k] = fr[k]
  BY <1>1, Shortened DEF Sound, Front
<1>3. /\ fr[n].base \in 0..Len(s)
      /\ fr[n - 1].base \in Nat /\ Depth(fr[n - 1]) \in Nat
      /\ Depth(fr[n - 1]) >= 1
      /\ fr[n].base = fr[n - 1].base + Depth(fr[n - 1]) - 1
  <2>1. FrameOK(Codes, fr[n]) /\ FrameOK(Codes, fr[n - 1])
    BY <1>1 DEF Sound
  <2>2. Waits(fr[n - 1], fr[n])
    <3>1. n - 1 \in 1..(n - 1) /\ (n - 1) + 1 = n
      BY <1>1
    <3>2. QED
      BY <3>1 DEF Sound
  <2>3. Len(s) = fr[n].base + Depth(fr[n])
    BY DEF Sound
  <2>4. QED
    BY <2>1, <2>2, <2>3 DEF FrameOK, Waits
<1>4. StackOK(Codes, SubSeq(s, 1, fr[n].base)) /\ Len(SubSeq(s, 1, fr[n].base)) = fr[n].base
  BY <1>3, ItemsTaken DEF Sound
<1>5. StackOK(Codes, s2) /\ Len(s2) = fr[n].base + 1
  BY <1>4, ItemAdded
<1> HIDE DEF n, g, s2
<1>6. Len(s2) = g[n - 1].base + Depth(g[n - 1])
  BY <1>1, <1>2, <1>3, <1>5
<1>7. \A k \in 1..(n - 1) : FrameOK(Codes, g[k])
  BY <1>1, <1>2 DEF Sound, n
<1>8. \A k \in 1..(n - 2) : Waits(g[k], g[k + 1])
  <2>1. \A k \in 1..(n - 2) : k \in 1..(n - 1) /\ k + 1 \in 1..(n - 1)
    BY <1>1
  <2>2. QED
    BY <1>2, <2>1 DEF Sound, n
<1>9. \A j, k \in 1..(n - 1) : j <= k => g[j].base <= g[k].base
  BY <1>1, <1>2 DEF Sound, n
<1>10. (n - 1) - 1 = n - 2
  BY <1>1
<1>11. QED
  BY <1>1, <1>2, <1>5, <1>6, <1>7, <1>8, <1>9, <1>10 DEF Sound, n, g, s2

(***************************************************************************)
(* What the machine finds at its instruction, and going on from there.     *)
(***************************************************************************)
After == Depth(Top) - Needs(Instr) + Leaves(Instr)
Moved(to, e) ==
  [code |-> Top.code, ip |-> to, base |-> Top.base, env |-> e, home |-> Top.home]

LEMMA NeedsIsNat ==
  ASSUME NEW Codes, NEW c, ChunkOK(Codes, c), NEW i \in 1..Len(c)
  PROVE  Needs(c[i]) \in Nat /\ Leaves(c[i]) \in 0..1
<1>1. c[i].op \in {"Call", "TailCall", "MakeList"} => c[i].n \in Nat
  BY DEF ChunkOK
<1>2. QED
  BY <1>1 DEF Needs, Leaves

LEMMA TopOK ==
  ASSUME NEW Codes, CodesOK(Codes), Sound(Codes, stack, frames)
  PROVE  /\ Len(frames) \in Nat /\ Len(frames) \in 1..Len(frames)
         /\ Top = frames[Len(frames)]
         /\ FrameOK(Codes, Top) /\ ChunkOK(Codes, Top.code)
         /\ Len(stack) \in Nat /\ Len(stack) = Top.base + Depth(Top)
<1>1. Len(frames) \in Nat /\ Len(frames) >= 1
  BY LenIsNat DEF Sound
<1>2. Top = frames[Len(frames)]
  BY DEF Top, Last
<1>3. FrameOK(Codes, Top)
  BY <1>1, <1>2 DEF Sound
<1>4. QED
  BY <1>1, <1>2, <1>3, LenIsNat DEF Sound, StackOK, FrameOK, CodesOK

LEMMA AtInstruction ==
  ASSUME NEW Codes, CodesOK(Codes), Sound(Codes, stack, frames)
  PROVE  /\ Depth(Top) \in Nat
         /\ Needs(Instr) \in Nat /\ Needs(Instr) <= Depth(Top)
         /\ Leaves(Instr) \in 0..1
         /\ Instr.op \in {"Jump", "JumpIfFalse"} =>
              Arrives(Top.code, DepthOf(Top.code), Instr.to, After)
         /\ Instr.op \notin {"Jump", "Return", "TreeEval"} =>
              Arrives(Top.code, DepthOf(Top.code), Top.ip + 1, After)
         /\ Instr.op \in {"Return", "TailCall"} => Depth(Top) = Needs(Instr)
         /\ Instr.op = "LoadConst" => ~Is("fn", Instr.val)
         /\ Instr.op = "MakeFunc" => Instr.code \in Codes
         /\ Instr.op \in {"Call", "TailCall", "MakeList"} => Instr.n \in Nat
<1>1. FrameOK(Codes, Top) /\ ChunkOK(Codes, Top.code)
  BY TopOK
<1>2. Top.ip \in 1..Len(Top.code) /\ Depth(Top) \in Nat
  BY <1>1 DEF FrameOK
<1>3. Depth(Top) = DepthOf(Top.code)[Top.ip] /\ Instr = Top.code[Top.ip]
  BY DEF Depth, Instr
<1>4. Top.ip \in {j \in 1..Len(Top.code) : DepthOf(Top.code)[j] # -1}
  BY <1>2, <1>3
<1>5. /\ Depth(Top) >= Needs(Instr)
      /\ Instr.op \in {"Jump", "JumpIfFalse"} =>
           Arrives(Top.code, DepthOf(Top.code), Instr.to, After)
      /\ Instr.op \notin {"Jump", "Return", "TreeEval"} =>
           Arrives(Top.code, DepthOf(Top.code), Top.ip + 1, After)
      /\ Instr.op \in {"Return", "TailCall"} => Depth(Top) = Needs(Instr)
  BY <1>1, <1>3, <1>4 DEF ChunkOK, WellTyped, OperandsAdd, After
<1>6. Needs(Instr) \in Nat /\ Leaves(Instr) \in 0..1
  BY <1>1, <1>2, <1>3, NeedsIsNat
<1>7. /\ Instr.op = "LoadConst" => ~Is("fn", Instr.val)
      /\ Instr.op = "MakeFunc" => Instr.code \in Codes
      /\ Instr.op \in {"Call", "TailCall", "MakeList"} => Instr.n \in Nat
  BY <1>1, <1>2, <1>3 DEF ChunkOK
<1>8. QED
  BY <1>2, <1>5, <1>6, <1>7

LEMMA GoesOn ==
  ASSUME NEW Codes, CodesOK(Codes), Sound(Codes, stack, frames),
         NEW s2, StackOK(Codes, s2), Len(s2) = Len(stack) - Needs(Instr) + Leaves(Instr),
         NEW to, Arrives(Top.code, DepthOf(Top.code), to, After), NEW e
  PROVE  Sound(Codes, s2, [frames EXCEPT ![Len(frames)] = Moved(to, e)])
<1> DEFINE f == Moved(to, e)
<1>1. f.code = Top.code /\ f.ip = to /\ f.base = Top.base /\ f.env = e /\ f.home = Top.home
  BY DEF Moved
<1>2. /\ FrameOK(Codes, Top) /\ Len(stack) = Top.base + Depth(Top)
      /\ Top = frames[Len(frames)]
  BY TopOK
<1>3. /\ Depth(Top) \in Nat /\ Needs(Instr) \in Nat /\ Leaves(Instr) \in 0..1
      /\ Needs(Instr) <= Depth(Top)
  BY AtInstruction
<1>4. Depth(f) = After /\ f.ip \in 1..Len(f.code) /\ After \in Nat
  BY <1>1, <1>3 DEF Arrives, Depth, After
<1>5. FrameOK(Codes, f)
  <2>1. f = [code |-> f.code, ip |-> f.ip, base |-> f.base, env |-> f.env, home |-> f.home]
    BY <1>1 DEF Moved
  <2>2. QED
    BY <1>1, <1>2, <1>4, <2>1 DEF FrameOK
<1>6. Len(s2) = f.base + Depth(f)
  <2>1. Top.base \in Nat
    BY <1>2 DEF FrameOK
  <2>2. QED
    BY SMTT(30), <1>1, <1>2, <1>3, <1>4, <2>1 DEF After
<1> HIDE DEF f
<1>7. Sound(Codes, s2, [frames EXCEPT ![Len(frames)] = f])
  BY <1>1, <1>2, <1>5, <1>6, ReplaceTop
<1>8. QED
  BY <1>7 DEF f

(* The two ways in which the actions write it.                             *)
LEMMA GotoMoves ==
  ASSUME NEW Codes, CodesOK(Codes), Sound(Codes, stack, frames), NEW to, Goto(to)
  PROVE  frames' = [frames EXCEPT ![Len(frames)] = Moved(to, Top.env)]
<1>1. FrameOK(Codes, Top) /\ Top = frames[Len(frames)]
  BY TopOK
<1>2. Moved(to, Top.env) = [Top EXCEPT !.ip = to]
  BY <1>1 DEF FrameOK, Moved
<1>3. QED
  BY <1>1, <1>2 DEF Goto

LEMMA InScopeMoves ==
  ASSUME NEW Codes, CodesOK(Codes), Sound(Codes, stack, frames), NEW e, InScope(e)
  PROVE  frames' = [frames EXCEPT ![Len(frames)] = Moved(Top.ip + 1, e)]
<1>1. FrameOK(Codes, Top) /\ Top = frames[Len(frames)] /\ Len(frames) \in 1..Len(frames)
  BY TopOK
<1>2. Moved(Top.ip + 1, e) = [Top EXCEPT !.ip = Top.ip + 1, !.env = e]
  <2>1. Moved(Top.ip + 1, Top.env) = [Top EXCEPT !.ip = Top.ip + 1]
    BY <1>1 DEF FrameOK, Moved
  <2>2. Moved(Top.ip + 1, e) = [Moved(Top.ip + 1, Top.env) EXCEPT !.env = e]
    BY DEF Moved
  <2>3. [Top EXCEPT !.ip = Top.ip + 1, !.env = e] =
          [[Top EXCEPT !.ip = Top.ip + 1] EXCEPT !.env = e]
    OBVIOUS
  <2>4. QED
    BY <2>1, <2>2, <2>3
<1>3. IsSeq(frames)
  BY DEF Sound
<1>4. frames' = [frames EXCEPT ![Len(frames)] = [Top EXCEPT !.ip = Top.ip + 1, !.env = e]]
  <2>1. PICK S : frames \in Seq(S)
    BY <1>3 DEF IsSeq
  <2>2. frames \in [1..Len(frames) -> S]
    BY <2>1
  <2>3. QED
    BY <1>1, <2>2 DEF InScope
<1>5. QED
  BY <1>2, <1>4

(***************************************************************************)
(* The stack after an action, and the kinds of actions.                    *)
(***************************************************************************)
LEMMA Replaced ==
  ASSUME NEW Codes, StackOK(Codes, stack), NEW n \in Nat, n <= Len(stack),
         NEW item, ItemOK(Codes, item), Replace(n, item)
  PROVE  StackOK(Codes, stack') /\ Len(stack') = Len(stack) - n + 1
<1>1. Len(stack) \in Nat
  BY LenIsNat DEF StackOK
<1>2. Len(stack) - n \in 0..Len(stack)
  BY <1>1
<1>3. StackOK(Codes, Below(n)) /\ Len(Below(n)) = Len(stack) - n
  BY <1>2, ItemsTaken DEF Below
<1>4. QED
  BY <1>3, ItemAdded DEF Replace

LEMMA Dropped ==
  ASSUME NEW Codes, StackOK(Codes, stack), NEW n \in Nat, n <= Len(stack), Drop(n)
  PROVE  StackOK(Codes, stack') /\ Len(stack') = Len(stack) - n
<1>1. Len(stack) \in Nat
  BY LenIsNat DEF StackOK
<1>2. Len(stack) - n \in 0..Len(stack)
  BY <1>1
<1>3. QED
  BY <1>2, ItemsTaken DEF Below, Drop

LEMMA ItemsOfTheMachine ==
  ASSUME NEW Codes, CodesOK(Codes), NEW v
  PROVE  /\ ItemOK(Codes, ToVm(v)) /\ ItemOK(Codes, FromPrim(v))
         /\ ~Is("fn", v) => ItemOK(Codes, Plain(v))
<1>1. \A e : Known(Codes, Compiled(e))
  BY DEF CodesOK, Known, Compiled
<1>2. QED
  BY <1>1 DEF CodesOK, Known, ItemOK, ToVm, FromPrim, Plain, Item

LEMMA ListsArePlain == \A es : ~Is("fn", List(es))
BY DEF Is, List

(* An instruction that puts one item in the place of what it takes.        *)
LEMMA Puts ==
  ASSUME NEW Codes, CodesOK(Codes), Sound(Codes, stack, frames),
         Leaves(Instr) = 1, Instr.op \notin {"Jump", "Return", "TreeEval"},
         NEW item, ItemOK(Codes, item), Replace(Needs(Instr), item), Step
  PROVE  Sound(Codes, stack', frames')
<1>1. /\ Depth(Top) \in Nat /\ Needs(Instr) \in Nat /\ Needs(Instr) <= Depth(Top)
      /\ Arrives(Top.code, DepthOf(Top.code), Top.ip + 1, After)
  BY AtInstruction
<1>2. StackOK(Codes, stack) /\ Needs(Instr) <= Len(stack)
  BY <1>1, TopOK DEF Sound, FrameOK
<1>3. StackOK(Codes, stack') /\ Len(stack') = Len(stack) - Needs(Instr) + Leaves(Instr)
  BY <1>1, <1>2, Replaced
<1>4. frames' = [frames EXCEPT ![Len(frames)] = Moved(Top.ip + 1, Top.env)]
  BY GotoMoves DEF Step
<1>5. QED
  BY <1>1, <1>3, <1>4, GoesOn

(* One that takes one item and leaves none, at any of its targets.         *)
LEMMA Takes ==
  ASSUME NEW Codes, CodesOK(Codes), Sound(Codes, stack, frames),
         Needs(Instr) = 1, Leaves(Instr) = 0, Drop(1),
         NEW to, Arrives(Top.code, DepthOf(Top.code), to, After), Goto(to)
  PROVE  Sound(Codes, stack', frames')
<1>1. Depth(Top) \in Nat /\ 1 <= Depth(Top)
  BY AtInstruction
<1>2. StackOK(Codes, stack) /\ 1 <= Len(stack) /\ Len(stack) \in Nat
  BY <1>1, TopOK DEF Sound, FrameOK
<1>3. StackOK(Codes, stack') /\ Len(stack') = Len(stack) - 1
  BY <1>2, Dropped
<1>4. Len(stack') = Len(stack) - Needs(Instr) + Leaves(Instr)
  BY <1>2, <1>3
<1>5. frames' = [frames EXCEPT ![Len(frames)] = Moved(to, Top.env)]
  BY GotoMoves
<1>6. QED
  BY <1>3, <1>4, <1>5, GoesOn

(* One that leaves the stack alone.                                        *)
LEMMA Keeps ==
  ASSUME NEW Codes, CodesOK(Codes), Sound(Codes, stack, frames),
         Needs(Instr) = 0, Leaves(Instr) = 0, UNCHANGED stack,
         NEW to, Arrives(Top.code, DepthOf(Top.code), to, After), NEW e,
         frames' = [frames EXCEPT ![Len(frames)] = Moved(to, e)]
  PROVE  Sound(Codes, stack', frames')
<1>1. StackOK(Codes, stack) /\ Len(stack) \in Nat
  BY TopOK DEF Sound
<1>2. Len(stack) = Len(stack) - Needs(Instr) + Leaves(Instr)
  BY <1>1
<1>3. QED
  BY <1>1, <1>2, GoesOn

(* One that ends the frame.                                                *)
LEMMA Leaving ==
  ASSUME NEW Codes, CodesOK(Codes), Sound(Codes, stack, frames),
         NEW item, ItemOK(Codes, item), Leave(item)
  PROVE  Sound(Codes, stack', frames')
<1>1. Top = frames[Len(frames)]
  BY TopOK
<1>2. CASE Len(frames) = 1
  BY <1>2 DEF Leave
<1>3. CASE Len(frames) # 1
  BY <1>1, <1>3, PopFrame DEF Leave
<1>4. QED
  BY <1>2, <1>3

(***************************************************************************)
(* Calls.                                                                  *)
(***************************************************************************)
LEMMA EnteredOK ==
  ASSUME NEW Codes, CodesOK(Codes), NEW c, Known(Codes, c), NEW base \in Nat, NEW e
  PROVE  /\ FrameOK(Codes, Frame(c, base, e)) /\ Frame(c, base, e).base = base
         /\ Depth(Frame(c, base, e)) = 0
<1> DEFINE f == Frame(c, base, e)
<1>1. f = [code |-> c, ip |-> 1, base |-> base, env |-> e, home |-> e]
  BY DEF Frame
<1>2. f.code = c /\ f.ip = 1 /\ f.base = base /\ f.env = e /\ f.home = e
  BY <1>1
<1>3. Arrives(c, DepthOf(c), 1, 0)
  BY DEF CodesOK, ChunkOK, WellTyped, OperandsAdd
<1>4. f.ip \in 1..Len(f.code) /\ Depth(f) = 0
  BY <1>2, <1>3 DEF Arrives, Depth
<1>5. f = [code |-> f.code, ip |-> f.ip, base |-> f.base, env |-> f.env, home |-> f.home]
  BY <1>1, <1>2
<1> HIDE DEF f
<1>6. FrameOK(Codes, f)
  BY <1>2, <1>4, <1>5 DEF FrameOK
<1>7. QED
  BY <1>2, <1>4, <1>6 DEF f

LEMMA CalleeKnown ==
  ASSUME NEW Codes, CodesOK(Codes), Sound(Codes, stack, frames),
         Instr.op \in {"Call", "TailCall"}
  PROVE  /\ Instr.n \in Nat /\ Needs(Instr) = Instr.n + 1 /\ Leaves(Instr) = 1
         /\ Instr.n + 1 <= Depth(Top) /\ Instr.n + 1 <= Len(stack)
         /\ ItemOK(Codes, Callee)
         /\ Accepts(Callee) => Known(Codes, Callee.code)
<1>1. Instr.n \in Nat /\ Needs(Instr) = Instr.n + 1 /\ Leaves(Instr) = 1
  BY AtInstruction DEF Needs, Leaves
<1>2. /\ Instr.n + 1 <= Depth(Top)
      /\ Depth(Top) \in Nat /\ Top.base \in Nat /\ Len(stack) = Top.base + Depth(Top)
  BY <1>1, AtInstruction, TopOK DEF FrameOK
<1>3. Instr.n + 1 <= Len(stack) /\ Len(stack) - Instr.n \in 1..Len(stack)
  BY <1>1, <1>2
<1>4. ItemOK(Codes, Callee)
  BY <1>3 DEF Sound, StackOK, Callee, Arg
<1>5. QED
  BY <1>1, <1>2, <1>3, <1>4 DEF ItemOK, Accepts

LEMMA CallKeeps ==
  ASSUME NEW Codes, CodesOK(Codes), Sound(Codes, stack, frames), Call
  PROVE  Sound(Codes, stack', frames')
<1> DEFINE n == Instr.n + 1
           caller == Moved(Top.ip + 1, Top.env)
           s1 == Append(Below(n), Callee)
           fr1 == [frames EXCEPT ![Len(frames)] = caller]
           callee == Entered(Len(stack) - Instr.n - 1)
<1>1. /\ Instr.op = "Call" /\ Accepts(Callee) /\ Drop(n)
      /\ frames' = Append([frames EXCEPT ![Len(frames)].ip = @ + 1], callee)
  BY DEF Call, At
<1>2. /\ n \in Nat /\ n <= Len(stack) /\ Needs(Instr) = n /\ Leaves(Instr) = 1
      /\ n = Instr.n + 1 /\ Instr.n \in Nat /\ n <= Depth(Top)
      /\ ItemOK(Codes, Callee) /\ Known(Codes, Callee.code)
  BY <1>1, CalleeKnown
<1>3. /\ FrameOK(Codes, Top) /\ Top = frames[Len(frames)]
      /\ Len(frames) \in 1..Len(frames) /\ Len(frames) \in Nat
      /\ Len(stack) \in Nat /\ Len(stack) = Top.base + Depth(Top)
      /\ StackOK(Codes, stack) /\ IsSeq(frames) /\ Len(frames) >= 1
      /\ Top.base \in Nat /\ Depth(Top) \in Nat
  BY TopOK DEF Sound, FrameOK
<1>4. Arrives(Top.code, DepthOf(Top.code), Top.ip + 1, After)
  BY <1>1, AtInstruction
<1>5. StackOK(Codes, stack') /\ Len(stack') = Len(stack) - n /\ stack' = Below(n)
  BY <1>1, <1>2, <1>3, Dropped DEF Drop
<1>6. StackOK(Codes, s1) /\ Len(s1) = Len(stack) - Needs(Instr) + Leaves(Instr)
  BY <1>2, <1>3, <1>5, ItemAdded
<1>7. Sound(Codes, s1, fr1)
  BY <1>4, <1>6, GoesOn
<1>8. frames' = Append(fr1, callee)
  <2>1. caller = [Top EXCEPT !.ip = Top.ip + 1]
    BY <1>3 DEF FrameOK, Moved
  <2>2. QED
    BY <1>1, <1>3, <2>1
<1>9. /\ FrameOK(Codes, callee) /\ callee.base = Len(stack) - n /\ Depth(callee) = 0
  <2>1. Len(stack) - Instr.n - 1 \in Nat /\ Len(stack) - Instr.n - 1 = Len(stack) - n
    BY <1>2, <1>3
  <2>2. QED
    BY <1>2, <2>1, EnteredOK DEF Entered
<1>10. fr1[Len(fr1)] = caller
  BY <1>3, Updated
<1>11. caller.base = Top.base /\ Depth(caller) = After
  BY <1>4 DEF Moved, Depth, Arrives
<1> HIDE DEF n, caller, s1, fr1, callee
<1>12. Waits(caller, callee)
  BY SMTT(30), <1>2, <1>3, <1>9, <1>11 DEF Waits, After
<1>13. Len(stack') = callee.base + Depth(callee)
  BY <1>2, <1>3, <1>5, <1>9
<1>14. QED
  BY <1>5, <1>7, <1>8, <1>9, <1>10, <1>12, <1>13, PushFrame

LEMMA TailCallKeeps ==
  ASSUME NEW Codes, CodesOK(Codes), Sound(Codes, stack, frames), TailCall
  PROVE  Sound(Codes, stack', frames')
<1> DEFINE callee == Entered(Top.base)
<1>1. /\ Instr.op = "TailCall" /\ Accepts(Callee) /\ Drop(Instr.n + 1)
      /\ frames' = [frames EXCEPT ![Len(frames)] = callee]
  BY DEF TailCall, At, Entered
<1>2. /\ Instr.n \in Nat /\ Instr.n + 1 <= Len(stack) /\ Instr.n + 1 = Depth(Top)
      /\ Known(Codes, Callee.code)
  BY <1>1, CalleeKnown, AtInstruction
<1>3. /\ Top = frames[Len(frames)] /\ StackOK(Codes, stack)
      /\ Top.base \in Nat /\ Len(stack) = Top.base + Depth(Top)
  BY TopOK DEF Sound, FrameOK
<1>4. StackOK(Codes, stack') /\ Len(stack') = Len(stack) - (Instr.n + 1)
  BY <1>1, <1>2, <1>3, Dropped
<1>5. FrameOK(Codes, callee) /\ callee.base = Top.base /\ Depth(callee) = 0
  BY <1>2, <1>3, EnteredOK DEF Entered
<1> HIDE DEF callee
<1>6. Len(stack') = callee.base + Depth(callee)
  BY <1>2, <1>3, <1>4, <1>5
<1>7. QED
  BY <1>1, <1>3, <1>4, <1>5, <1>6, ReplaceTop

(***************************************************************************)
(* Every step.                                                             *)
(***************************************************************************)
LEMMA ActionsKeep ==
  ASSUME NEW Codes, CodesOK(Codes), Sound(Codes, stack, frames), Next,
         result = Running, ~Fail
  PROVE  Sound(Codes, stack', frames')
<1>1. CASE LoadConst
  <2>1. Instr.op = "LoadConst" /\ Replace(0, Plain(Instr.val)) /\ Step
    BY <1>1 DEF LoadConst, At
  <2>2. Needs(Instr) = 0 /\ Leaves(Instr) = 1
    BY <2>1 DEF Needs, Leaves
  <2>3. ItemOK(Codes, Plain(Instr.val))
    BY <2>1, AtInstruction, ItemsOfTheMachine
  <2>4. QED
    BY <2>1, <2>2, <2>3, Puts
<1>2. CASE LoadVar
  <2>1. Instr.op = "LoadVar" /\ Step
        /\ Replace(0, ToVm(EnvGet(envs, Top.env, Instr.name)))
    BY <1>2 DEF LoadVar, At
  <2>2. Needs(Instr) = 0 /\ Leaves(Instr) = 1
    BY <2>1 DEF Needs, Leaves
  <2>3. QED
    BY <2>1, <2>2, ItemsOfTheMachine, Puts
<1>3. CASE StoreVar \/ AssignVar \/ Pop
  <2>1. Instr.op \in {"StoreVar", "AssignVar", "Pop"} /\ Drop(1) /\ Goto(Top.ip + 1)
    BY <1>3 DEF StoreVar, AssignVar, Pop, At, Step
  <2>2. Needs(Instr) = 1 /\ Leaves(Instr) = 0
    BY <2>1 DEF Needs, Leaves
  <2>3. QED
    BY <2>1, <2>2, AtInstruction, Takes
<1>4. CASE LoadNil
  <2>1. Instr.op = "LoadNil" /\ Replace(0, Plain(List(<< >>))) /\ Step
    BY <1>4 DEF LoadNil, At
  <2>2. Needs(Instr) = 0 /\ Leaves(Instr) = 1
    BY <2>1 DEF Needs, Leaves
  <2>3. QED
    BY <2>1, <2>2, ListsArePlain, ItemsOfTheMachine, Puts
<1>5. CASE MakeList
  <2>1. Instr.op = "MakeList" /\ Replace(Instr.n, Plain(List(Args(Instr.n)))) /\ Step
    BY <1>5 DEF MakeList, At
  <2>2. Needs(Instr) = Instr.n /\ Leaves(Instr) = 1
    BY <2>1 DEF Needs, Leaves
  <2>3. ItemOK(Codes, Plain(List(Args(Instr.n))))
    BY ListsArePlain, ItemsOfTheMachine
  <2>4. QED
    BY <2>1, <2>2, <2>3, Puts
<1>6. CASE PrependList \/ AppendSplice
  <2>1. PICK es : /\ Instr.op \in {"PrependList", "AppendSplice"}
                  /\ Replace(2, Plain(List(es))) /\ Step
    BY <1>6 DEF PrependList, AppendSplice, At
  <2>2. Needs(Instr) = 2 /\ Leaves(Instr) = 1
    BY <2>1 DEF Needs, Leaves
  <2>3. ItemOK(Codes, Plain(List(es)))
    BY ListsArePlain, ItemsOfTheMachine
  <2>4. QED
    BY <2>1, <2>2, <2>3, Puts
<1>7. CASE Jump
  <2>1. Instr.op = "Jump" /\ Goto(Instr.to) /\ UNCHANGED stack
    BY <1>7 DEF Jump, At
  <2>2. Needs(Instr) = 0 /\ Leaves(Instr) = 0
    BY <2>1 DEF Needs, Leaves
  <2>3. QED
    BY <2>1, <2>2, AtInstruction, GotoMoves, Keeps
<1>8. CASE JumpIfFalse
  <2>1. Instr.op = "JumpIfFalse" /\ Drop(1) /\ (Goto(Top.ip + 1) \/ Goto(Instr.to))
    BY <1>8 DEF JumpIfFalse, At, Step
  <2>2. Needs(Instr) = 1 /\ Leaves(Instr) = 0
    BY <2>1 DEF Needs, Leaves
  <2>3. QED
    BY <2>1, <2>2, AtInstruction, Takes
<1>9. CASE PushEnv \/ PopEnv
  <2>1. PICK e : Instr.op \in {"PushEnv", "PopEnv"} /\ InScope(e) /\ UNCHANGED stack
    BY <1>9 DEF PushEnv, PopEnv, At
  <2>2. Needs(Instr) = 0 /\ Leaves(Instr) = 0
    BY <2>1 DEF Needs, Leaves
  <2>3. QED
    BY <2>1, <2>2, AtInstruction, InScopeMoves, Keeps
<1>10. CASE MakeFunc
  <2> DEFINE item == Item(Fn(Instr.params, Instr.body, Top.env), Instr.code)
  <2>1. Instr.op = "MakeFunc" /\ Replace(0, item) /\ Step
    BY <1>10 DEF MakeFunc, At
  <2>2. Needs(Instr) = 0 /\ Leaves(Instr) = 1
    BY <2>1 DEF Needs, Leaves
  <2>3. ItemOK(Codes, item)
    BY <2>1, AtInstruction DEF ItemOK, Known, Item
  <2> HIDE DEF item
  <2>4. QED
    BY <2>1, <2>2, <2>3, Puts
<1>11. CASE CallPrim
  <2>1. /\ Instr.op \in {"Call", "TailCall"} /\ Step
        /\ Replace(Instr.n + 1, FromPrim(PrimResult))
    BY <1>11 DEF CallPrim, AtCall, At
  <2>2. Needs(Instr) = Instr.n + 1 /\ Leaves(Instr) = 1
    BY <2>1, CalleeKnown
  <2>3. QED
    BY <2>1, <2>2, ItemsOfTheMachine, Puts
<1>12. CASE Return
  <2>1. Instr.op = "Return" /\ Leave(Arg(0))
    BY <1>12 DEF Return, At
  <2>2. Needs(Instr) = 1 /\ Depth(Top) = 1
    BY <2>1, AtInstruction DEF Needs
  <2>3. Len(stack) - 0 \in 1..Len(stack)
    BY <2>2, TopOK DEF FrameOK
  <2>4. ItemOK(Codes, Arg(0))
    BY <2>3 DEF Sound, StackOK, Arg
  <2>5. QED
    BY <2>1, <2>4, Leaving
<1>13. CASE TreeEvalOp
  BY <1>13, ItemsOfTheMachine, Leaving DEF TreeEvalOp
<1>14. CASE Finished
  BY <1>14 DEF Finished
<1>15. QED
  BY <1>1, <1>2, <1>3, <1>4, <1>5, <1>6, <1>7, <1>8, <1>9, <1>10, <1>11, <1>12, <1>13,
     <1>14, CallKeeps, TailCallKeeps DEF Next

LEMMA Initially ==
  ASSUME NEW Codes, CodesOK(Codes), Init
  PROVE  IInv(Codes)
<1>1. frames = <<Frame(CodeOf(form), 0, 1)>> /\ stack = << >> /\ form \in Forms
  BY DEF Init
<1>2. frames # << >>
  BY <1>1
<1>3. ASSUME result # Failure PROVE Sound(Codes, stack, frames)
  <2> DEFINE f == Frame(CodeOf(form), 0, 1)
  <2>1. Known(Codes, CodeOf(form))
    BY <1>3 DEF Init, CodesOK, Known
  <2>2. FrameOK(Codes, f) /\ f.base = 0 /\ Depth(f) = 0
    BY <2>1, EnteredOK
  <2> HIDE DEF f
  <2>3. frames = <<f>> /\ Len(frames) = 1 /\ frames[1] = f
    BY <1>1 DEF f
  <2>4. IsSeq(frames)
    <3>1. <<f>> \in Seq({f})
      OBVIOUS
    <3>2. QED
      BY <2>3, <3>1 DEF IsSeq
  <2>5. StackOK(Codes, stack) /\ Len(stack) = 0
    BY <1>1, EmptyIsSeq DEF StackOK
  <2>6. QED
    BY <2>2, <2>3, <2>4, <2>5 DEF Sound
<1>4. QED
  BY <1>1, <1>2, <1>3 DEF IInv

LEMMA RunningIsNoFailure == Running # Failure
<1>1. DOMAIN Running = {"running"} /\ DOMAIN Failure = {"error"}
  BY DEF Running, Failure
<1>2. QED
  BY <1>1

LEMMA StepKeeps ==
  ASSUME NEW Codes, CodesOK(Codes), IInv(Codes), [Next]_vars
  PROVE  IInv(Codes)'
<1>1. CASE UNCHANGED vars
  BY <1>1 DEF vars, IInv
<1>2. CASE Finished
  BY <1>2 DEF Finished, vars, IInv
<1>3. CASE Fail
  BY <1>3 DEF Fail, IInv
<1>4. CASE Next /\ ~Fail /\ ~Finished
  <2>1. result = Running /\ form' = form
    BY <1>4 DEF Next, LoadConst, LoadVar, StoreVar, AssignVar, Pop, LoadNil, MakeList,
       PrependList, AppendSplice, Jump, JumpIfFalse, PushEnv, PopEnv, MakeFunc, CallPrim,
       AtCall, Call, TailCall, Return, TreeEvalOp, At
  <2>2. Running # Failure
    BY RunningIsNoFailure
  <2>3. Sound(Codes, stack', frames')
    BY <1>4, <2>1, <2>2, ActionsKeep DEF IInv
  <2>4. frames' # << >>
    BY <2>3, EmptyIsSeq DEF Sound
  <2>5. QED
    BY <2>1, <2>3, <2>4 DEF IInv
<1>5. QED
  BY <1>1, <1>2, <1>3, <1>4

LEMMA InductiveInvariant ==
  ASSUME NEW Codes, CodesOK(Codes)
  PROVE  Spec => []IInv(Codes)
<1>1. Init => IInv(Codes)
  BY Initially
<1>2. IInv(Codes) /\ [Next]_vars => IInv(Codes)'
  BY StepKeeps
<1>3. QED
  BY <1>1, <1>2, PTL DEF Spec

(***************************************************************************)
(* What follows from it, for every compiler whose code is well typed.      *)
(***************************************************************************)

(* No instruction of the machine (machine.rs:353-547) takes an operand     *)
(* that is not its own frame's, so pop never fails and no caller loses     *)
(* what it has computed.                                                   *)
THEOREM OperandsSafe ==
  ASSUME NEW Codes, CodesOK(Codes)
  PROVE  Spec => []OwnOperandsOnly
<1>1. IInv(Codes) => OwnOperandsOnly
  <2>1. SUFFICES ASSUME IInv(Codes), result = Running
                 PROVE  Len(stack) - Needs(Instr) >= Top.base
    BY DEF OwnOperandsOnly
  <2>2. Running # Failure
    BY RunningIsNoFailure
  <2>3. Sound(Codes, stack, frames)
    BY <2>1, <2>2 DEF IInv
  <2>4. /\ Depth(Top) \in Nat /\ Needs(Instr) \in Nat /\ Needs(Instr) <= Depth(Top)
        /\ Top.base \in Nat /\ Len(stack) = Top.base + Depth(Top)
    BY <2>3, AtInstruction, TopOK DEF FrameOK
  <2>5. QED
    BY <2>4
<1>2. QED
  BY <1>1, InductiveInvariant, PTL

(* A frame returns with its value and nothing else (machine.rs:407-420):   *)
(* truncate has nothing to discard.                                        *)
THEOREM ReturnsClean ==
  ASSUME NEW Codes, CodesOK(Codes)
  PROVE  Spec => []NothingLeftOver
<1>1. IInv(Codes) => NothingLeftOver
  <2>1. SUFFICES ASSUME IInv(Codes), At("Return")
                 PROVE  Len(stack) = Top.base + 1
    BY DEF NothingLeftOver
  <2>2. Running # Failure
    BY RunningIsNoFailure
  <2>3. result = Running /\ Instr.op = "Return"
    BY <2>1 DEF At
  <2>4. Sound(Codes, stack, frames)
    BY <2>1, <2>2, <2>3 DEF IInv
  <2>5. Needs(Instr) = 1 /\ Depth(Top) = Needs(Instr)
    BY <2>3, <2>4, AtInstruction DEF Needs
  <2>6. QED
    BY <2>4, <2>5, TopOK
<1>2. QED
  BY <1>1, InductiveInvariant, PTL

(* Frames lie on the stack in order, each at an instruction of its code    *)
(* (machine.rs:269-283): run never meets an instruction pointer out of     *)
(* bounds.                                                                 *)
THEOREM FramesOrdered ==
  ASSUME NEW Codes, CodesOK(Codes)
  PROVE  Spec => []TypeOK
<1>1. IInv(Codes) => TypeOK
  <2>1. SUFFICES ASSUME IInv(Codes), result # Failure, NEW k \in 1..Len(frames)
                 PROVE  /\ frames[k].ip \in 1..Len(frames[k].code)
                        /\ frames[k].base <= Len(stack)
                        /\ k > 1 => frames[k - 1].base <= frames[k].base
    BY DEF IInv, TypeOK
  <2>2. Sound(Codes, stack, frames)
    BY <2>1 DEF IInv
  <2>3. FrameOK(Codes, frames[k])
    BY <2>2 DEF Sound
  <2>4. /\ Len(frames) \in Nat /\ Len(frames) \in 1..Len(frames) /\ k <= Len(frames)
        /\ FrameOK(Codes, frames[Len(frames)])
        /\ Len(stack) = frames[Len(frames)].base + Depth(frames[Len(frames)])
    BY <2>2, TopOK
  <2>5. frames[k].base <= frames[Len(frames)].base
    BY <2>2, <2>4 DEF Sound
  <2>6. k > 1 => frames[k - 1].base <= frames[k].base
    <3>1. k > 1 => k - 1 \in 1..Len(frames) /\ k - 1 <= k
      BY <2>4
    <3>2. QED
      BY <2>2, <3>1 DEF Sound
  <2>7. QED
    BY <2>3, <2>4, <2>5, <2>6 DEF FrameOK
<1>2. QED
  BY <1>1, InductiveInvariant, PTL

(***************************************************************************)
(* Scopes.  From the environment of a frame as many parents lead to the    *)
(* one it began with as its code says scopes are open.                     *)
(***************************************************************************)
ScopesOK(Codes) == \A c : Known(Codes, c) => WellScoped(c)

(* What is asked of the tree-walker: it changes no parent either.          *)
TreeKeepsParents ==
  \A e, es : \A k \in 1..Len(es) :
    IsEnvs(es) /\ ~Is("error", TreeEval(e, k, es).val) => KeepsParents(es, TreeEval(e, k, es).envs)

Open(f) == ScopesOf(f.code)[f.ip]
Leads(es, c, n, from, to) ==
  /\ DOMAIN c = 0..n /\ c[0] = from /\ c[n] = to
  /\ \A k \in 0..n : c[k] \in 1..Len(es)
  /\ \A k \in 0..(n - 1) : c[k + 1] = es[c[k]].parent
Scoped(es, f) == Open(f) \in Nat /\ \E c : Leads(es, c, Open(f), f.env, f.home)
AllScoped(es, fr) == IsEnvs(es) /\ \A k \in 1..Len(fr) : Scoped(es, fr[k])

LEMMA FunctionIsSeq ==
  ASSUME NEW n \in Nat, NEW V, NEW f \in [1..n -> V]
  PROVE  f \in Seq(V) /\ Len(f) = n
OBVIOUS

(* Parents stay whatever is bound.                                         *)
LEMMA BindingKeeps ==
  ASSUME NEW es, IsEnvs(es), NEW e, NEW w, NEW later, later = [es EXCEPT ![e].vars = w]
  PROVE  KeepsParents(es, later) /\ Len(later) = Len(es)
<1>1. PICK n \in Nat : n = Len(es)
  BY DEF IsEnvs
<1>2. es \in [1..n -> {es[k] : k \in DOMAIN es}] /\ DOMAIN es = 1..n
  BY <1>1 DEF IsEnvs
<1>3. \A k \in 1..n : DOMAIN es[k] = {"parent", "vars"}
  BY <1>2 DEF IsEnvs
<1>4. DOMAIN later = 1..n
  BY <1>2
<1>5. ASSUME NEW k \in 1..n
      PROVE  later[k].parent = es[k].parent /\ DOMAIN later[k] = {"parent", "vars"}
  BY <1>2, <1>3
<1>6. later = [k \in 1..n |-> later[k]]
  BY <1>2
<1>7. PICK V : V = {later[k] : k \in 1..n}
  OBVIOUS
<1>8. later \in [1..n -> V]
  <2>1. \A k \in 1..n : later[k] \in V
    BY <1>7
  <2>2. QED
    BY <1>6, <2>1
<1>9. later \in Seq(V) /\ Len(later) = n
  BY <1>8, FunctionIsSeq
<1>10. IsEnvs(later)
  BY <1>4, <1>5, <1>7, <1>9 DEF IsEnvs
<1>11. QED
  BY <1>1, <1>5, <1>9, <1>10 DEF KeepsParents

LEMMA SettingKeeps ==
  ASSUME NEW es, IsEnvs(es), NEW e
  PROVE  /\ \A n, v : KeepsParents(es, EnvSet(es, e, n, v))
         /\ \A ns, vs : KeepsParents(es, EnvSetAll(es, e, ns, vs))
<1>1. ASSUME NEW n, NEW v PROVE KeepsParents(es, EnvSet(es, e, n, v))
  BY BindingKeeps DEF EnvSet
<1>2. ASSUME NEW ns, NEW vs PROVE KeepsParents(es, EnvSetAll(es, e, ns, vs))
  BY BindingKeeps DEF EnvSetAll
<1>3. QED
  BY <1>1, <1>2

LEMMA OpeningKeeps ==
  ASSUME NEW es, IsEnvs(es), NEW p
  PROVE  /\ KeepsParents(es, NewEnv(es, p))
         /\ Len(NewEnv(es, p)) = Len(es) + 1
         /\ NewEnv(es, p)[Len(es) + 1].parent = p
<1> DEFINE new == [parent |-> p, vars |-> [n \in {} |-> Nil]]
           later == Append(es, new)
           N == Len(es)
<1>1. N \in Nat /\ DOMAIN es = 1..N /\ \A k \in 1..N : DOMAIN es[k] = {"parent", "vars"}
  BY DEF IsEnvs
<1>2. new.parent = p /\ DOMAIN new = {"parent", "vars"}
  OBVIOUS
<1> HIDE DEF new
<1>3. IsSeq(es)
  BY DEF IsEnvs, IsSeq
<1>4. /\ IsSeq(later) /\ Len(later) = N + 1
      /\ \A k \in 1..N : later[k] = es[k]
      /\ later[N + 1] = new
  BY <1>3, Extended
<1> HIDE DEF later, N
<1>5. later \in Seq({later[k] : k \in DOMAIN later}) /\ DOMAIN later = 1..(N + 1)
  BY <1>4 DEF IsSeq
<1>6. \A k \in 1..(N + 1) : DOMAIN later[k] = {"parent", "vars"}
  BY <1>1, <1>2, <1>4
<1>7. later = NewEnv(es, p)
  BY DEF later, new, NewEnv
<1>8. IsEnvs(later)
  BY <1>5, <1>6 DEF IsEnvs
<1>9. \A k \in 1..N : later[k].parent = es[k].parent
  BY <1>4
<1>10. N = Len(es) /\ N \in Nat
  BY <1>1 DEF N
<1>11. QED
  BY <1>2, <1>4, <1>7, <1>8, <1>9, <1>10 DEF KeepsParents

LEMMA KeepingOn ==
  ASSUME NEW a, NEW b, NEW c, IsEnvs(a), KeepsParents(a, b), KeepsParents(b, c)
  PROVE  KeepsParents(a, c)
<1>1. Len(a) \in Nat /\ Len(b) \in Nat /\ Len(c) \in Nat
  BY DEF KeepsParents, IsEnvs
<1>2. QED
  BY <1>1 DEF KeepsParents

LEMMA KeepsItself ==
  ASSUME NEW es, IsEnvs(es)
  PROVE  KeepsParents(es, es)
BY DEF KeepsParents, IsEnvs

(* So what was open stays open.                                            *)
LEMMA ScopedStays ==
  ASSUME NEW es, NEW later, IsEnvs(es), KeepsParents(es, later), NEW f, Scoped(es, f)
  PROVE  Scoped(later, f)
<1>1. Open(f) \in Nat /\ \E c : Leads(es, c, Open(f), f.env, f.home)
  BY DEF Scoped
<1> PICK c : Leads(es, c, Open(f), f.env, f.home)
  BY <1>1
<1>2. Len(es) \in Nat /\ Len(later) \in Nat
  BY DEF KeepsParents, IsEnvs
<1>3. \A k \in 1..Len(es) : k \in 1..Len(later) /\ later[k].parent = es[k].parent
  BY <1>2 DEF KeepsParents
<1>4. Leads(later, c, Open(f), f.env, f.home)
  <2>1. \A k \in 0..(Open(f) - 1) : k \in 0..Open(f)
    BY <1>1
  <2>2. QED
    BY <1>3, <2>1 DEF Leads
<1>5. QED
  BY <1>1, <1>4 DEF Scoped

LEMMA ScopedTop ==
  ASSUME NEW es, NEW later, NEW fr, IsSeq(fr), Len(fr) >= 1,
         AllScoped(es, fr), KeepsParents(es, later),
         NEW f, Scoped(later, f)
  PROVE  AllScoped(later, [fr EXCEPT ![Len(fr)] = f])
<1> DEFINE g == [fr EXCEPT ![Len(fr)] = f]
<1>1. Len(g) = Len(fr) /\ \A k \in 1..Len(fr) : g[k] = IF k = Len(fr) THEN f ELSE fr[k]
  BY Updated
<1> HIDE DEF g
<1>2. ASSUME NEW k \in 1..Len(fr) PROVE Scoped(later, g[k])
  <2>1. Scoped(later, fr[k])
    BY ScopedStays DEF AllScoped
  <2>2. QED
    BY <1>1, <2>1
<1>3. QED
  BY <1>1, <1>2 DEF AllScoped, KeepsParents, g

LEMMA ScopedCall ==
  ASSUME NEW es, NEW fr, IsSeq(fr), AllScoped(es, fr), NEW f, Scoped(es, f)
  PROVE  AllScoped(es, Append(fr, f))
<1> DEFINE g == Append(fr, f)
<1>1. /\ Len(fr) \in Nat /\ Len(g) = Len(fr) + 1
      /\ \A k \in 1..Len(fr) : g[k] = fr[k]
      /\ g[Len(fr) + 1] = f
  BY LenIsNat, Extended
<1> HIDE DEF g
<1>2. ASSUME NEW k \in 1..(Len(fr) + 1) PROVE Scoped(es, g[k])
  BY <1>1 DEF AllScoped
<1>3. QED
  BY <1>1, <1>2 DEF AllScoped, g

(* A frame that begins has nothing open.                                   *)
LEMMA ScopedEntry ==
  ASSUME NEW Codes, ScopesOK(Codes), NEW c, Known(Codes, c), NEW base, NEW es, NEW e \in 1..Len(es)
  PROVE  Scoped(es, Frame(c, base, e))
<1> DEFINE f == Frame(c, base, e)
           path == [k \in 0..0 |-> e]
<1>1. f.code = c /\ f.ip = 1 /\ f.env = e /\ f.home = e
  BY DEF Frame
<1>2. Open(f) = 0
  BY <1>1 DEF Open, ScopesOK, WellScoped, ScopesAdd
<1>3. Leads(es, path, 0, e, e)
  BY DEF Leads
<1> HIDE DEF f, path
<1>4. Scoped(es, f)
  BY <1>1, <1>2, <1>3 DEF Scoped
<1>5. QED
  BY <1>4 DEF f

LEMMA AtScope ==
  ASSUME NEW Codes, CodesOK(Codes), ScopesOK(Codes), Sound(Codes, stack, frames)
  PROVE  /\ Open(Top) \in Nat /\ Open(Top) + Opens(Instr) \in Nat
         /\ Instr.op = "Return" => Open(Top) = 0
         /\ Instr.op \in {"Jump", "JumpIfFalse"} =>
              ScopesOf(Top.code)[Instr.to] = Open(Top) + Opens(Instr)
         /\ Instr.op \notin {"Jump", "Return", "TreeEval"} =>
              ScopesOf(Top.code)[Top.ip + 1] = Open(Top) + Opens(Instr)
<1>1. FrameOK(Codes, Top) /\ Known(Codes, Top.code) /\ Top.ip \in 1..Len(Top.code) /\ Depth(Top) \in Nat
  BY TopOK DEF FrameOK
<1>2. Depth(Top) = DepthOf(Top.code)[Top.ip] /\ Instr = Top.code[Top.ip] /\ Open(Top) = ScopesOf(Top.code)[Top.ip]
  BY DEF Depth, Instr, Open
<1>3. Top.ip \in {j \in 1..Len(Top.code) : DepthOf(Top.code)[j] # -1}
  BY <1>1, <1>2
<1>4. WellScoped(Top.code)
  BY <1>1 DEF ScopesOK
<1>5. Opens(Instr) \in Int
  BY DEF Opens
<1>6. QED
  BY SMTT(30), <1>2, <1>3, <1>4, <1>5 DEF WellScoped, ScopesAdd

(* Going on within the scope.                                              *)
LEMMA Straight ==
  ASSUME NEW Codes, CodesOK(Codes), Sound(Codes, stack, frames), AllScoped(envs, frames),
         KeepsParents(envs, envs'), NEW to, ScopesOf(Top.code)[to] = Open(Top), Goto(to)
  PROVE  AllScoped(envs', frames')
<1> DEFINE f == Moved(to, Top.env)
<1>1. f.code = Top.code /\ f.ip = to /\ f.env = Top.env /\ f.home = Top.home
  BY DEF Moved
<1>2. Top = frames[Len(frames)] /\ Len(frames) \in 1..Len(frames) /\ IsSeq(frames) /\ Len(frames) >= 1
  BY TopOK DEF Sound
<1>3. Scoped(envs, Top)
  BY <1>2 DEF AllScoped
<1> HIDE DEF f
<1>4. Scoped(envs, f)
  BY <1>1, <1>3 DEF Scoped, Open
<1>5. Scoped(envs', f)
  BY <1>4, ScopedStays DEF AllScoped
<1>6. frames' = [frames EXCEPT ![Len(frames)] = f]
  BY GotoMoves DEF f
<1>7. QED
  BY <1>2, <1>5, <1>6, ScopedTop

LEMMA ScopedPush ==
  ASSUME NEW Codes, CodesOK(Codes), ScopesOK(Codes), Sound(Codes, stack, frames),
         AllScoped(envs, frames), PushEnv
  PROVE  AllScoped(envs', frames')
<1> DEFINE e == Len(envs) + 1
           f == Moved(Top.ip + 1, e)
           n == Open(Top)
<1>1. Instr.op = "PushEnv" /\ envs' = NewEnv(envs, Top.env) /\ InScope(e)
  BY DEF PushEnv, At
<1>2. /\ f.code = Top.code /\ f.ip = Top.ip + 1 /\ f.env = e /\ f.home = Top.home
  BY DEF Moved
<1>3. n \in Nat /\ ScopesOf(Top.code)[Top.ip + 1] = n + 1
  BY <1>1, AtScope DEF Opens
<1>4. Top = frames[Len(frames)] /\ Len(frames) \in 1..Len(frames) /\ IsSeq(frames) /\ Len(frames) >= 1
  BY TopOK DEF Sound
<1>5. KeepsParents(envs, envs') /\ Len(envs') = Len(envs) + 1 /\ envs'[e].parent = Top.env
  BY <1>1, OpeningKeeps DEF AllScoped
<1>6. Scoped(envs', Top)
  BY <1>4, <1>5, ScopedStays DEF AllScoped
<1>7. PICK c : Leads(envs', c, n, Top.env, Top.home)
  BY <1>6 DEF Scoped
<1> DEFINE d == [k \in 0..(n + 1) |-> IF k = 0 THEN e ELSE c[k - 1]]
<1>8. Leads(envs', d, n + 1, e, Top.home)
  <2>1. Len(envs) \in Nat
    BY DEF AllScoped, IsEnvs
  <2> HIDE DEF n
  <2>2. DOMAIN d = 0..(n + 1) /\ d[0] = e /\ d[n + 1] = Top.home
    BY <1>3, <1>7 DEF Leads
  <2>3. ASSUME NEW k \in 0..(n + 1)
        PROVE  d[k] \in 1..Len(envs')
    <3>1. CASE k = 0
      BY <1>5, <2>1, <2>2, <3>1
    <3>2. CASE k # 0
      <4>1. k - 1 \in 0..n /\ d[k] = c[k - 1]
        BY <1>3, <3>2
      <4> HIDE DEF d
      <4>2. QED
        BY <1>7, <4>1 DEF Leads
    <3>3. QED
      BY <3>1, <3>2
  <2>4. ASSUME NEW k \in 0..((n + 1) - 1)
        PROVE  d[k + 1] = envs'[d[k]].parent
    <3>1. CASE k = 0
      <4>1. d[0] = e /\ d[0 + 1] = c[0] /\ c[0] = Top.env
        BY <1>3, <1>7 DEF Leads
      <4>2. QED
        BY <1>5, <2>1, <3>1, <4>1
    <3>2. CASE k # 0
      <4>1. k - 1 \in 0..(n - 1) /\ d[k] = c[k - 1] /\ d[k + 1] = c[(k - 1) + 1]
        BY <1>3, <3>2
      <4> HIDE DEF d
      <4>2. QED
        BY <1>7, <4>1 DEF Leads
    <3>3. QED
      BY <3>1, <3>2
  <2> HIDE DEF d
  <2>5. QED
    BY <2>2, <2>3, <2>4 DEF Leads
<1> HIDE DEF f, d
<1>9. Scoped(envs', f)
  BY <1>2, <1>3, <1>8 DEF Scoped, Open
<1>10. frames' = [frames EXCEPT ![Len(frames)] = f]
  BY <1>1, InScopeMoves DEF f
<1>11. QED
  BY <1>4, <1>5, <1>9, <1>10, ScopedTop

LEMMA ScopedPop ==
  ASSUME NEW Codes, CodesOK(Codes), ScopesOK(Codes), Sound(Codes, stack, frames),
         AllScoped(envs, frames), PopEnv
  PROVE  AllScoped(envs', frames')
<1> DEFINE e == envs[Top.env].parent
           f == Moved(Top.ip + 1, e)
           n == Open(Top)
<1>1. Instr.op = "PopEnv" /\ envs' = envs /\ InScope(e)
  BY DEF PopEnv, At
<1>2. /\ f.code = Top.code /\ f.ip = Top.ip + 1 /\ f.env = e /\ f.home = Top.home
  BY DEF Moved
<1>3. n \in Nat /\ n - 1 \in Nat /\ ScopesOf(Top.code)[Top.ip + 1] = n - 1
  BY <1>1, AtScope DEF Opens
<1>4. Top = frames[Len(frames)] /\ Len(frames) \in 1..Len(frames) /\ IsSeq(frames) /\ Len(frames) >= 1
  BY TopOK DEF Sound
<1>5. PICK c : Leads(envs, c, n, Top.env, Top.home)
  BY <1>4 DEF AllScoped, Scoped
<1> DEFINE d == [k \in 0..(n - 1) |-> c[k + 1]]
<1>6. Leads(envs, d, n - 1, e, Top.home)
  <2> HIDE DEF n
  <2>1. DOMAIN d = 0..(n - 1) /\ d[n - 1] = Top.home
    BY <1>3, <1>5 DEF Leads
  <2>2. d[0] = e
    BY <1>3, <1>5 DEF Leads
  <2>3. ASSUME NEW k \in 0..(n - 1)
        PROVE  d[k] \in 1..Len(envs)
    <3>1. k + 1 \in 0..n /\ d[k] = c[k + 1]
      BY <1>3
    <3> HIDE DEF d
    <3>2. QED
      BY <1>5, <3>1 DEF Leads
  <2>4. ASSUME NEW k \in 0..((n - 1) - 1)
        PROVE  d[k + 1] = envs[d[k]].parent
    <3>1. k + 1 \in 0..(n - 1) /\ d[k] = c[k + 1] /\ d[k + 1] = c[(k + 1) + 1]
      BY <1>3
    <3> HIDE DEF d
    <3>2. QED
      BY <1>5, <3>1 DEF Leads
  <2> HIDE DEF d
  <2>5. QED
    BY <2>1, <2>2, <2>3, <2>4 DEF Leads
<1> HIDE DEF f, d
<1>7. Scoped(envs, f)
  BY <1>2, <1>3, <1>6 DEF Scoped, Open
<1>8. KeepsParents(envs, envs)
  BY KeepsItself DEF AllScoped
<1>9. frames' = [frames EXCEPT ![Len(frames)] = f]
  BY <1>1, InScopeMoves DEF f
<1>10. QED
  BY <1>1, <1>4, <1>7, <1>8, <1>9, ScopedTop

(* Calls bind their arguments in a new environment.                        *)
LEMMA ArgumentsKeep ==
  ASSUME IsEnvs(envs), BindArguments
  PROVE  KeepsParents(envs, envs') /\ Len(envs) + 1 \in 1..Len(envs')
<1> DEFINE call == NewEnv(envs, Callee.val.fn.env)
<1>1. KeepsParents(envs, call) /\ IsEnvs(call) /\ Len(call) = Len(envs) + 1
  BY OpeningKeeps DEF KeepsParents
<1>2. envs' = EnvSetAll(call, Len(call), Callee.val.fn.params, Args(Instr.n))
  BY DEF BindArguments
<1> HIDE DEF call
<1>3. KeepsParents(call, envs')
  BY <1>1, <1>2, SettingKeeps
<1>4. Len(envs) \in Nat /\ Len(call) \in Nat /\ Len(envs') \in Nat
  BY <1>1, <1>3 DEF IsEnvs, KeepsParents
<1>5. Len(call) <= Len(envs')
  BY <1>3 DEF KeepsParents
<1>6. QED
  BY <1>1, <1>3, <1>4, <1>5, KeepingOn

LEMMA ScopedCalls ==
  ASSUME NEW Codes, CodesOK(Codes), ScopesOK(Codes), Sound(Codes, stack, frames),
         AllScoped(envs, frames), Call \/ TailCall
  PROVE  AllScoped(envs', frames')
<1>1. /\ Top = frames[Len(frames)] /\ Len(frames) \in 1..Len(frames) /\ IsSeq(frames) /\ Len(frames) >= 1
      /\ FrameOK(Codes, Top)
  BY TopOK DEF Sound
<1>2. KeepsParents(envs, envs') /\ IsEnvs(envs') /\ Len(envs) + 1 \in 1..Len(envs')
  BY ArgumentsKeep DEF AllScoped, Call, TailCall, KeepsParents
<1>3. Instr.op \in {"Call", "TailCall"} /\ Accepts(Callee)
  BY DEF Call, TailCall, At
<1>4. Known(Codes, Callee.code)
  BY <1>3, CalleeKnown
<1>5. ASSUME NEW base PROVE Scoped(envs', Entered(base))
  BY <1>2, <1>4, ScopedEntry DEF Entered
<1>6. CASE TailCall
  BY <1>1, <1>2, <1>5, <1>6, ScopedTop DEF TailCall
<1>7. CASE Call
  <2> DEFINE caller == Moved(Top.ip + 1, Top.env)
             fr1 == [frames EXCEPT ![Len(frames)] = caller]
             callee == Entered(Len(stack) - Instr.n - 1)
  <2>1. Instr.op = "Call" /\ frames' = Append([frames EXCEPT ![Len(frames)].ip = @ + 1], callee)
    BY <1>7 DEF Call, At
  <2>2. frames' = Append(fr1, callee)
    <3>1. caller = [Top EXCEPT !.ip = Top.ip + 1]
      BY <1>1 DEF FrameOK, Moved
    <3>2. QED
      BY <1>1, <2>1, <3>1
  <2>3. ScopesOf(Top.code)[Top.ip + 1] = Open(Top)
    BY <2>1, AtScope DEF Opens
  <2>4. caller.code = Top.code /\ caller.ip = Top.ip + 1 /\ caller.env = Top.env /\ caller.home = Top.home
    BY DEF Moved
  <2>5. Scoped(envs', Top)
    BY <1>1, <1>2, ScopedStays DEF AllScoped
  <2> HIDE DEF caller
  <2>6. Scoped(envs', caller)
    BY <2>3, <2>4, <2>5 DEF Scoped, Open
  <2>7. AllScoped(envs', fr1) /\ IsSeq(fr1)
    BY <1>1, <1>2, <2>6, ScopedTop, Updated
  <2> HIDE DEF fr1, callee
  <2>8. Scoped(envs', callee)
    BY <1>5 DEF callee
  <2>9. QED
    BY <2>2, <2>7, <2>8, ScopedCall
<1>8. QED
  BY <1>6, <1>7

(* A frame that ends takes its scopes with it.                             *)
LEMMA ScopedLeave ==
  ASSUME NEW Codes, CodesOK(Codes), Sound(Codes, stack, frames),
         AllScoped(envs, frames), KeepsParents(envs, envs'), NEW item, Leave(item)
  PROVE  AllScoped(envs', frames')
<1>1. ASSUME NEW k \in 1..Len(frames) PROVE Scoped(envs', frames[k])
  BY ScopedStays DEF AllScoped
<1>2. IsEnvs(envs') /\ IsSeq(frames) /\ Len(frames) \in Nat /\ Len(frames) >= 1
  BY TopOK DEF KeepsParents, Sound
<1>3. CASE Len(frames) = 1
  BY <1>1, <1>2, <1>3 DEF Leave, AllScoped
<1>4. CASE Len(frames) # 1
  <2>1. Len(frames) - 1 \in 0..Len(frames)
    BY <1>2
  <2>2. /\ Len(Front(frames)) = Len(frames) - 1
        /\ \A k \in 1..(Len(frames) - 1) : Front(frames)[k] = frames[k]
    BY <1>2, <2>1, Shortened DEF Front
  <2>3. frames' = Front(frames)
    BY <1>4 DEF Leave
  <2>4. QED
    BY <1>1, <1>2, <2>2, <2>3 DEF AllScoped
<1>5. QED
  BY <1>3, <1>4

LEMMA ScopesKept ==
  ASSUME NEW Codes, CodesOK(Codes), ScopesOK(Codes), TreeKeepsParents,
         Sound(Codes, stack, frames), AllScoped(envs, frames), Next,
         result = Running, ~Fail
  PROVE  AllScoped(envs', frames')
<1>1. KeepsParents(envs, envs)
  BY KeepsItself DEF AllScoped
<1>2. CASE LoadConst \/ LoadVar \/ Pop \/ LoadNil \/ MakeList \/ PrependList \/ AppendSplice
           \/ MakeFunc \/ CallPrim
  <2>1. /\ Instr.op \in {"LoadConst", "LoadVar", "Pop", "LoadNil", "MakeList", "PrependList",
                         "AppendSplice", "MakeFunc", "Call", "TailCall"}
        /\ Goto(Top.ip + 1) /\ envs' = envs
    BY <1>2 DEF LoadConst, LoadVar, Pop, LoadNil, MakeList, PrependList, AppendSplice, MakeFunc,
       CallPrim, AtCall, At, Step
  <2>2. ScopesOf(Top.code)[Top.ip + 1] = Open(Top)
    BY <2>1, AtScope DEF Opens
  <2>3. QED
    BY <1>1, <2>1, <2>2, Straight
<1>3. CASE StoreVar \/ AssignVar
  <2>1. PICK e, n, v : /\ Instr.op \in {"StoreVar", "AssignVar"}
                       /\ Goto(Top.ip + 1) /\ envs' = EnvSet(envs, e, n, v)
    BY <1>3 DEF StoreVar, AssignVar, At, Step
  <2>2. ScopesOf(Top.code)[Top.ip + 1] = Open(Top)
    BY <2>1, AtScope DEF Opens
  <2>3. KeepsParents(envs, envs')
    BY <2>1, SettingKeeps DEF AllScoped
  <2>4. QED
    BY <2>1, <2>2, <2>3, Straight
<1>4. CASE Jump
  <2>1. Instr.op = "Jump" /\ Goto(Instr.to) /\ envs' = envs
    BY <1>4 DEF Jump, At
  <2>2. ScopesOf(Top.code)[Instr.to] = Open(Top)
    BY <2>1, AtScope DEF Opens
  <2>3. QED
    BY <1>1, <2>1, <2>2, Straight
<1>5. CASE JumpIfFalse
  <2>1. Instr.op = "JumpIfFalse" /\ (Goto(Top.ip + 1) \/ Goto(Instr.to)) /\ envs' = envs
    BY <1>5 DEF JumpIfFalse, At, Step
  <2>2. /\ ScopesOf(Top.code)[Instr.to] = Open(Top)
        /\ ScopesOf(Top.code)[Top.ip + 1] = Open(Top)
    BY <2>1, AtScope DEF Opens
  <2>3. QED
    BY <1>1, <2>1, <2>2, Straight
<1>6. CASE Return
  BY <1>1, <1>6, ScopedLeave DEF Return
<1>7. CASE TreeEvalOp
  <2>1. Top.env \in 1..Len(envs)
    <3>1. Scoped(envs, Top) /\ Open(Top) \in Nat
      BY TopOK, AtScope DEF AllScoped, Sound
    <3>2. QED
      BY <3>1 DEF Scoped, Leads
  <2>2. ~Is("error", Walked.val) /\ envs' = Walked.envs /\ Leave(ToVm(Walked.val))
    BY <1>7 DEF TreeEvalOp
  <2>3. KeepsParents(envs, envs')
    BY <2>1, <2>2 DEF TreeKeepsParents, AllScoped, Walked
  <2>4. QED
    BY <2>2, <2>3, ScopedLeave
<1>8. CASE Finished
  BY <1>8 DEF Finished
<1>9. QED
  BY <1>2, <1>3, <1>4, <1>5, <1>6, <1>7, <1>8, ScopedPush, ScopedPop, ScopedCalls DEF Next

(* When a frame returns, every scope it opened is closed                   *)
(* (machine.rs:407-420, 499-519), across branches, loops and whatever it   *)
(* called: Top.env is again the environment the frame began with.          *)
THEOREM ScopesAreClosed ==
  ASSUME NEW Codes, CodesOK(Codes), ScopesOK(Codes), TreeKeepsParents
  PROVE  Spec => []ScopesClosed
<1> DEFINE Inv == result # Failure => AllScoped(envs, frames)
<1>1. Init => Inv
  <2>1. SUFFICES ASSUME Init, result # Failure PROVE AllScoped(envs, frames)
    OBVIOUS
  <2> DEFINE f == Frame(CodeOf(form), 0, 1)
  <2>2. Known(Codes, CodeOf(form))
    BY <2>1 DEF Init, CodesOK, Known
  <2>3. Scoped(envs, f)
    <3>1. envs = GlobalEnvs /\ 1 \in 1..Len(GlobalEnvs)
      BY <2>1 DEF Init, GlobalEnvs
    <3>2. QED
      BY <2>2, <3>1, ScopedEntry
  <2> HIDE DEF f
  <2>4. frames = <<f>> /\ envs = GlobalEnvs
    BY <2>1 DEF Init, f
  <2>5. IsEnvs(GlobalEnvs)
    BY DEF IsEnvs, GlobalEnvs
  <2>6. QED
    BY <2>3, <2>4, <2>5 DEF AllScoped
<1>2. IInv(Codes) /\ Inv /\ [Next]_vars => Inv'
  <2>1. SUFFICES ASSUME IInv(Codes), Inv, [Next]_vars, result' # Failure
                 PROVE  AllScoped(envs', frames')
    OBVIOUS
  <2>2. CASE UNCHANGED <<envs, frames, result>>
    BY <2>1, <2>2
  <2>3. CASE Next /\ result = Running /\ ~Fail
    <3>1. Sound(Codes, stack, frames) /\ AllScoped(envs, frames)
      BY <2>1, <2>3, RunningIsNoFailure DEF IInv
    <3>2. QED
      BY <2>3, <3>1, ScopesKept
  <2>4. CASE Fail
    BY <2>1, <2>4 DEF Fail
  <2>5. CASE Next /\ result # Running
    <3>1. Finished \/ Fail
      BY <2>5 DEF Next, LoadConst, LoadVar, StoreVar, AssignVar, Pop, LoadNil, MakeList,
         PrependList, AppendSplice, Jump, JumpIfFalse, PushEnv, PopEnv, MakeFunc, CallPrim,
         AtCall, Call, TailCall, Return, TreeEvalOp, At
    <3>2. QED
      BY <2>2, <2>5, <3>1 DEF Finished, Fail, vars
  <2>6. CASE UNCHANGED vars
    BY <2>2, <2>6 DEF vars
  <2>7. QED
    BY <2>1, <2>3, <2>4, <2>5, <2>6
<1>3. IInv(Codes) /\ Inv => ScopesClosed
  <2>1. SUFFICES ASSUME IInv(Codes), Inv, At("Return") PROVE Top.env = Top.home
    BY DEF ScopesClosed
  <2>2. result = Running /\ Instr.op = "Return"
    BY <2>1 DEF At
  <2>3. Sound(Codes, stack, frames) /\ AllScoped(envs, frames)
    BY <2>1, <2>2, RunningIsNoFailure DEF IInv
  <2>4. Open(Top) = 0
    BY <2>2, <2>3, AtScope
  <2>5. Scoped(envs, Top)
    BY <2>3, TopOK DEF AllScoped
  <2>6. QED
    BY <2>4, <2>5 DEF Scoped, Leads
<1> HIDE DEF Inv
<1>4. QED
  BY <1>1, <1>2, <1>3, InductiveInvariant, PTL DEF Spec

-----------------------------------------------------------------------------

(***************************************************************************)
(* What the compiler emits.  A fragment of code lies at the place `at`.    *)
(* Its annotation gives, for each place from its first to the one after    *)
(* its last, the operands and the scopes there; a point is such a place    *)
(* with both.  Its jumps stay inside or go to one of the points `out`; it  *)
(* passes through the points `through`.                                    *)
(***************************************************************************)
Sane(Codes, c) ==
  /\ c.op \in {"Call", "TailCall", "MakeList"} => c.n \in Nat
  /\ c.op = "LoadConst" => ~Is("fn", c.val)
  /\ c.op = "MakeFunc" => c.code \in Codes

Judged(c, i, d, s, lo, hi, out) ==
  LET after == d[i] - Needs(c) + Leaves(c)
      open == s[i] + Opens(c)
  IN /\ d[i] >= Needs(c) /\ open >= 0
     /\ c.op \in {"Jump", "JumpIfFalse"} =>
          \/ c.to \in lo..hi /\ d[c.to] = after /\ s[c.to] = open
          \/ <<c.to, after, open>> \in out
     /\ c.op \notin {"Jump", "Return", "TreeEval"} => d[i + 1] = after /\ s[i + 1] = open
     /\ c.op \in {"Return", "TailCall"} => d[i] = Needs(c)
     /\ c.op = "Return" => s[i] = 0

Annotates(c, at, out, through, d, s) ==
  /\ \A k \in 1..Len(c) : Judged(c[k], at + k - 1, d, s, at, at + Len(c), out)
  /\ \A p \in through : p[1] \in at..(at + Len(c)) /\ d[p[1]] = p[2] /\ s[p[1]] = p[3]

AllSane(Codes, c) == \A k \in 1..Len(c) : Sane(Codes, c[k])
Counts(f) == \A i \in Nat : f[i] \in Nat
Adds(c, at, out, through) ==
  \E d, s : Counts(d) /\ Counts(s) /\ Annotates(c, at, out, through, d, s)

(* An annotation for more outward jumps, and through fewer points.         *)
LEMMA Weaker ==
  ASSUME NEW c, NEW at, NEW out, NEW through, Adds(c, at, out, through),
         NEW more, out \subseteq more, NEW less, less \subseteq through
  PROVE  Adds(c, at, more, less)
<1>1. PICK d, s : Counts(d) /\ Counts(s) /\ Annotates(c, at, out, through, d, s)
  BY DEF Adds
<1>2. Annotates(c, at, more, less, d, s)
  BY <1>1 DEF Annotates, Judged
<1>3. QED
  BY <1>1, <1>2 DEF Adds

(* Jumps to a point that the fragment passes through stay inside.          *)
LEMMA Closed ==
  ASSUME NEW c, NEW at, NEW out, NEW through, Adds(c, at, out, through), out \subseteq through
  PROVE  Adds(c, at, {}, through)
<1>1. PICK d, s : Counts(d) /\ Counts(s) /\ Annotates(c, at, out, through, d, s)
  BY DEF Adds
<1>2. ASSUME NEW x, NEW a, NEW u, <<x, a, u>> \in out
      PROVE  x \in at..(at + Len(c)) /\ d[x] = a /\ s[x] = u
  BY <1>1, <1>2 DEF Annotates
<1>3. ASSUME NEW k \in 1..Len(c) PROVE Judged(c[k], at + k - 1, d, s, at, at + Len(c), {})
  <2>1. Judged(c[k], at + k - 1, d, s, at, at + Len(c), out)
    BY <1>1 DEF Annotates
  <2> PICK ins, i : ins = c[k] /\ i = at + k - 1
    OBVIOUS
  <2> PICK a, u : a = d[i] - Needs(ins) + Leaves(ins) /\ u = s[i] + Opens(ins)
    OBVIOUS
  <2>2. <<ins.to, a, u>> \in out => ins.to \in at..(at + Len(c)) /\ d[ins.to] = a /\ s[ins.to] = u
    BY <1>2
  <2>3. QED
    BY <2>1, <2>2 DEF Judged
<1>4. Annotates(c, at, {}, through, d, s)
  BY <1>1, <1>3 DEF Annotates
<1>5. QED
  BY <1>1, <1>4 DEF Adds

(* One instruction.                                                        *)
LEMMA One ==
  ASSUME NEW c, NEW at \in Nat, NEW out,
         NEW a \in Nat, NEW u \in Nat, NEW b \in Nat, NEW v \in Nat,
         NEW after, after = a - Needs(c) + Leaves(c), NEW open, open = u + Opens(c),
         a >= Needs(c), open >= 0,
         c.op \in {"Jump", "JumpIfFalse"} => <<c.to, after, open>> \in out,
         c.op \notin {"Jump", "TreeEval"} => b = after /\ v = open,
         c.op = "TailCall" => a = Needs(c), c.op # "Return"
  PROVE  Adds(<<c>>, at, out, {<<at, a, u>>, <<at + 1, b, v>>})
<1> DEFINE d == [i \in Nat |-> IF i = at THEN a ELSE b]
           s == [i \in Nat |-> IF i = at THEN u ELSE v]
<1>1. Counts(d) /\ Counts(s)
  BY DEF Counts
<1>2. d[at] = a /\ s[at] = u /\ d[at + 1] = b /\ s[at + 1] = v
  OBVIOUS
<1> HIDE DEF d, s
<1>3. Judged(c, at, d, s, at, at + 1, out)
  BY <1>2 DEF Judged
<1>4. Len(<<c>>) = 1 /\ <<c>>[1] = c
  OBVIOUS
<1>5. Annotates(<<c>>, at, out, {<<at, a, u>>, <<at + 1, b, v>>}, d, s)
  <2>1. \A k \in 1..1 : k = 1 /\ at + k - 1 = at
    OBVIOUS
  <2>2. QED
    BY <1>2, <1>3, <1>4, <2>1 DEF Annotates
<1>6. QED
  BY <1>1, <1>5 DEF Adds

(* Two fragments, one after the other, that agree on the point between.    *)
LEMMA SameJudged ==
  ASSUME NEW c, NEW lo \in Nat, NEW hi \in Nat, NEW i \in lo..(hi - 1),
         NEW d, NEW s, NEW out, Judged(c, i, d, s, lo, hi, out),
         NEW d2, NEW s2, \A j \in lo..hi : d2[j] = d[j] /\ s2[j] = s[j],
         NEW lo2 \in Nat, NEW hi2 \in Nat, lo2 <= lo, hi <= hi2
  PROVE  Judged(c, i, d2, s2, lo2, hi2, out)
<1>1. i \in lo..hi /\ i + 1 \in lo..hi /\ lo..hi \subseteq lo2..hi2
  OBVIOUS
<1>2. QED
  BY <1>1 DEF Judged

(* Two pieces of code, one after the other.                                *)
LEMMA SeqJoined ==
  ASSUME NEW c, NEW e, IsSeq(c), IsSeq(e)
  PROVE  /\ IsSeq(c \o e) /\ Len(c) \in Nat /\ Len(e) \in Nat
         /\ Len(c \o e) = Len(c) + Len(e)
         /\ \A k \in 1..Len(c) : (c \o e)[k] = c[k]
         /\ \A k \in 1..Len(e) : (c \o e)[Len(c) + k] = e[k]
<1>1. PICK S : c \in Seq(S)
  BY DEF IsSeq
<1>2. PICK T : e \in Seq(T)
  BY DEF IsSeq
<1> DEFINE U == S \cup T
<1>3. c \in Seq(U) /\ e \in Seq(U)
  BY <1>1, <1>2
<1> HIDE DEF U
<1>4. QED
  BY <1>3 DEF IsSeq

Glued(f, f1, f2, mid) == \A i \in Nat : f[i] = IF i < mid THEN f1[i] ELSE f2[i]
(* Annotations that agree where the two meet are one of the whole.         *)
LEMMA JoinedAnnotates ==
  ASSUME NEW c, NEW e, IsSeq(c), IsSeq(e), NEW at \in Nat, NEW out, NEW here, NEW there,
         NEW d1, NEW s1, NEW d2, NEW s2,
         NEW mid, mid = at + Len(c),
         Annotates(c, at, out, here, d1, s1), Annotates(e, mid, out, there, d2, s2),
         d1[mid] = d2[mid], s1[mid] = s2[mid],
         NEW d, NEW s, Glued(d, d1, d2, mid), Glued(s, s1, s2, mid)
  PROVE  Annotates(c \o e, at, out, here \cup there, d, s)
<1> PICK n, m : n = Len(c) /\ m = Len(e)
  OBVIOUS
<1>0. n \in Nat /\ m \in Nat /\ mid \in Nat /\ mid = at + n
  BY SeqJoined
<1>1. /\ Len(c \o e) = n + m
      /\ \A k \in 1..n : (c \o e)[k] = c[k]
      /\ \A k \in 1..m : (c \o e)[n + k] = e[k]
  BY SeqJoined
<1>6. \A i \in at..mid : d[i] = d1[i] /\ s[i] = s1[i]
  BY <1>0 DEF Glued
<1>7. \A i \in mid..(mid + m) : d[i] = d2[i] /\ s[i] = s2[i]
  BY <1>0 DEF Glued
<1>8. ASSUME NEW k \in 1..(n + m)
      PROVE  Judged((c \o e)[k], at + k - 1, d, s, at, at + (n + m), out)
  <2>1. CASE k \in 1..n
    <3>1. Judged(c[k], at + k - 1, d1, s1, at, mid, out)
      BY <2>1 DEF Annotates
    <3>2. at + k - 1 \in at..(mid - 1) /\ mid <= at + (n + m) /\ at + (n + m) \in Nat
      BY <1>0, <2>1
    <3>3. QED
      BY <1>0, <1>1, <1>6, <2>1, <3>1, <3>2, SameJudged
  <2>2. CASE k \notin 1..n
    <3> PICK j : j = k - n
      OBVIOUS
    <3>1. j \in 1..m /\ k = n + j /\ at + k - 1 = mid + j - 1
      BY <1>0, <2>2
    <3>2. Judged(e[j], mid + j - 1, d2, s2, mid, mid + m, out)
      BY <3>1 DEF Annotates
    <3>3. /\ mid + j - 1 \in mid..((mid + m) - 1) /\ at <= mid
          /\ mid + m <= at + (n + m) /\ at + (n + m) \in Nat /\ mid + m \in Nat
      BY <1>0, <3>1
    <3>4. Judged(e[j], mid + j - 1, d, s, at, at + (n + m), out)
      <4>0. PICK ins, i, hi, top : ins = e[j] /\ i = mid + j - 1 /\ hi = mid + m /\ top = at + (n + m)
        OBVIOUS
      <4>1. /\ Judged(ins, i, d2, s2, mid, hi, out)
            /\ i \in mid..(hi - 1) /\ hi \in Nat /\ top \in Nat /\ at <= mid /\ hi <= top
            /\ \A q \in mid..hi : d[q] = d2[q] /\ s[q] = s2[q]
        BY <1>7, <3>2, <3>3, <4>0
      <4>2. Judged(ins, i, d, s, at, top, out)
        BY <1>0, <4>1, SameJudged
      <4>3. QED
        BY <4>0, <4>2
    <3>5. QED
      BY <1>1, <3>1, <3>4
  <2>3. QED
    BY <2>1, <2>2
<1>9. ASSUME NEW p \in here \cup there
      PROVE  p[1] \in at..(at + (n + m)) /\ d[p[1]] = p[2] /\ s[p[1]] = p[3]
  <2>1. CASE p \in here
    <3>1. p[1] \in at..mid /\ d1[p[1]] = p[2] /\ s1[p[1]] = p[3]
      BY <2>1 DEF Annotates
    <3>2. p[1] \in at..(at + (n + m))
      BY <1>0, <3>1
    <3>3. QED
      BY <1>6, <3>1, <3>2
  <2>2. CASE p \in there
    <3>1. p[1] \in mid..(mid + m) /\ d2[p[1]] = p[2] /\ s2[p[1]] = p[3]
      BY <2>2 DEF Annotates
    <3>2. p[1] \in at..(at + (n + m))
      BY <1>0, <3>1
    <3>3. QED
      BY <1>7, <3>1, <3>2
  <2>3. QED
    BY <2>1, <2>2
<1>10. QED
  BY <1>1, <1>8, <1>9 DEF Annotates

(* So the two pass through the points of both, if both know where they     *)
(* meet.                                                                   *)
LEMMA JoinedAdds ==
  ASSUME NEW c, NEW e, IsSeq(c), IsSeq(e), NEW at \in Nat, NEW out, NEW here, NEW there,
         NEW mid, mid = at + Len(c),
         Adds(c, at, out, here), Adds(e, mid, out, there),
         NEW a, NEW u, <<mid, a, u>> \in here, <<mid, a, u>> \in there
  PROVE  Adds(c \o e, at, out, here \cup there)
<1>1. PICK d1, s1 : Counts(d1) /\ Counts(s1) /\ Annotates(c, at, out, here, d1, s1)
  BY DEF Adds
<1>2. PICK d2, s2 : Counts(d2) /\ Counts(s2) /\ Annotates(e, mid, out, there, d2, s2)
  BY DEF Adds
<1>3. d1[mid] = d2[mid] /\ s1[mid] = s2[mid]
  BY <1>1, <1>2 DEF Annotates
<1>4. PICK d, s : Counts(d) /\ Counts(s) /\ Glued(d, d1, d2, mid) /\ Glued(s, s1, s2, mid)
  <2> DEFINE d == [i \in Nat |-> IF i < mid THEN d1[i] ELSE d2[i]]
             s == [i \in Nat |-> IF i < mid THEN s1[i] ELSE s2[i]]
  <2>1. Counts(d) /\ Counts(s)
    BY <1>1, <1>2 DEF Counts
  <2>2. Glued(d, d1, d2, mid) /\ Glued(s, s1, s2, mid)
    BY DEF Glued
  <2> HIDE DEF d, s
  <2>3. QED
    BY <2>1, <2>2
<1>5. Annotates(c \o e, at, out, here \cup there, d, s)
  BY <1>1, <1>2, <1>3, <1>4, JoinedAnnotates
<1>6. QED
  BY <1>4, <1>5 DEF Adds

(***************************************************************************)
(* What a fragment does: with p operands and x scopes of its own it leaves *)
(* q and y, whatever lies below; if it holds a tail call, with no operands *)
(* of the frame below.                                                     *)
(***************************************************************************)
Ends(c, at, a, u, b, v) == {<<at, a, u>>, <<at + Len(c), b, v>>}
Moves(c, at, out, a, u, b, v) == Adds(c, at, out, Ends(c, at, a, u, b, v))
Fragment(Codes, c) == IsSeq(c) /\ AllSane(Codes, c)
Does(Codes, c, at, p, q, x, y, alone) ==
  /\ Fragment(Codes, c)
  /\ \A a, u \in Nat : (alone => a = 0) => Moves(c, at, {}, a + p, u + x, a + q, u + y)
Value(Codes, c, at, tail) == Does(Codes, c, at, 0, 1, 0, 0, tail)

(* Two fragments are a fragment.                                           *)
LEMMA Fragments ==
  ASSUME NEW Codes, NEW c, NEW e, Fragment(Codes, c), Fragment(Codes, e)
  PROVE  /\ Fragment(Codes, c \o e)
         /\ Len(c) \in Nat /\ Len(e) \in Nat /\ Len(c \o e) = Len(c) + Len(e)
<1>1. IsSeq(c) /\ IsSeq(e)
  BY DEF Fragment
<1> PICK n, m, s : n = Len(c) /\ m = Len(e) /\ s = c \o e
  OBVIOUS
<1>2. /\ IsSeq(s) /\ n \in Nat /\ m \in Nat /\ Len(s) = n + m
      /\ \A k \in 1..n : s[k] = c[k]
      /\ \A k \in 1..m : s[n + k] = e[k]
  BY <1>1, SeqJoined
<1>3. ASSUME NEW k \in 1..(n + m) PROVE Sane(Codes, s[k])
  <2>1. CASE k \in 1..n
    BY <1>2, <2>1 DEF Fragment, AllSane
  <2>2. CASE k \notin 1..n
    <3>1. k - n \in 1..m /\ n + (k - n) = k
      BY <1>2, <2>2
    <3>2. s[k] = e[k - n]
      BY <1>2, <3>1
    <3>3. QED
      BY <3>1, <3>2 DEF Fragment, AllSane
  <2>3. QED
    BY <2>1, <2>2
<1>4. QED
  BY <1>2, <1>3 DEF Fragment, AllSane

(* One instruction is one.                                                 *)
LEMMA OneSane ==
  ASSUME NEW Codes, NEW c, Sane(Codes, c)
  PROVE  Fragment(Codes, <<c>>) /\ Len(<<c>>) = 1
<1>1. <<c>> \in Seq({c}) /\ Len(<<c>>) = 1 /\ <<c>>[1] = c
  OBVIOUS
<1>2. IsSeq(<<c>>)
  BY <1>1 DEF IsSeq
<1>3. \A k \in 1..1 : <<c>>[k] = c
  OBVIOUS
<1>4. AllSane(Codes, <<c>>)
  BY <1>1, <1>3 DEF AllSane
<1>5. QED
  BY <1>1, <1>2, <1>4 DEF Fragment

(* One fragment after another, with jumps to points outside.               *)
LEMMA MovesOn ==
  ASSUME NEW Codes, NEW c, NEW e, Fragment(Codes, c), Fragment(Codes, e), NEW at \in Nat, NEW out,
         NEW a, NEW u, NEW b, NEW v, NEW f, NEW w,
         Moves(c, at, out, a, u, b, v), Moves(e, at + Len(c), out, b, v, f, w)
  PROVE  Moves(c \o e, at, out, a, u, f, w)
<1> PICK n, m, mid : n = Len(c) /\ m = Len(e) /\ mid = at + n
  OBVIOUS
<1>1. n \in Nat /\ m \in Nat /\ mid \in Nat /\ Len(c \o e) = n + m /\ at + (n + m) = mid + m
  BY Fragments
<1>2. Ends(c, at, a, u, b, v) = {<<at, a, u>>, <<mid, b, v>>}
  BY DEF Ends
<1>3. Ends(e, mid, b, v, f, w) = {<<mid, b, v>>, <<mid + m, f, w>>}
  BY DEF Ends
<1>4. Ends(c \o e, at, a, u, f, w) = {<<at, a, u>>, <<mid + m, f, w>>}
  BY <1>1 DEF Ends
<1>5. Adds(c \o e, at, out, Ends(c, at, a, u, b, v) \cup Ends(e, mid, b, v, f, w))
  BY <1>2, <1>3, JoinedAdds DEF Moves, Fragment
<1>6. QED
  BY <1>2, <1>3, <1>4, <1>5, Weaker DEF Moves

(* One after another: what the first leaves the second finds.              *)
LEMMA DoesThen ==
  ASSUME NEW Codes, NEW c, NEW e, NEW at \in Nat, NEW alone,
         NEW p, NEW q, NEW r, NEW x, NEW y, NEW z,
         Does(Codes, c, at, p, q, x, y, FALSE),
         Does(Codes, e, at + Len(c), q, r, y, z, alone)
  PROVE  Does(Codes, c \o e, at, p, r, x, z, alone)
<1>1. Fragment(Codes, c) /\ Fragment(Codes, e) /\ Fragment(Codes, c \o e)
  BY Fragments DEF Does
<1>2. ASSUME NEW a \in Nat, NEW u \in Nat, alone => a = 0
      PROVE  Moves(c \o e, at, {}, a + p, u + x, a + r, u + z)
  <2>1. Moves(c, at, {}, a + p, u + x, a + q, u + y)
    BY DEF Does
  <2>2. Moves(e, at + Len(c), {}, a + q, u + y, a + r, u + z)
    BY <1>2 DEF Does
  <2>3. QED
    BY <1>1, <2>1, <2>2, MovesOn
<1>3. QED
  BY <1>1, <1>2 DEF Does

(* With more below.                                                        *)
LEMMA DoesAbove ==
  ASSUME NEW Codes, NEW c, NEW at, NEW p \in Nat, NEW q \in Nat, NEW x \in Nat, NEW y \in Nat,
         Does(Codes, c, at, p, q, x, y, FALSE), NEW k \in Nat, NEW l \in Nat,
         NEW alone
  PROVE  Does(Codes, c, at, k + p, k + q, l + x, l + y, alone)
<1>1. ASSUME NEW a \in Nat, NEW u \in Nat
      PROVE  Moves(c, at, {}, a + (k + p), u + (l + x), a + (k + q), u + (l + y))
  <2>1. a + k \in Nat /\ u + l \in Nat
    OBVIOUS
  <2>2. Moves(c, at, {}, (a + k) + p, (u + l) + x, (a + k) + q, (u + l) + y)
    BY <2>1 DEF Does
  <2>3. /\ (a + k) + p = a + (k + p) /\ (u + l) + x = u + (l + x)
        /\ (a + k) + q = a + (k + q) /\ (u + l) + y = u + (l + y)
    OBVIOUS
  <2>4. QED
    BY <2>2, <2>3
<1>2. QED
  BY <1>1 DEF Does

(* What comes next, with more below it than it needs.                      *)
LEMMA DoesNext ==
  ASSUME NEW Codes, NEW c, NEW e, NEW at \in Nat,
         NEW p, NEW q \in Nat, NEW r \in Nat, NEW x, NEW y \in Nat, NEW z \in Nat,
         NEW k \in Nat, NEW l \in Nat, NEW f, f = k + q, NEW w, w = l + y,
         Does(Codes, c, at, p, f, x, w, FALSE),
         NEW m, m = at + Len(c), Does(Codes, e, m, q, r, y, z, FALSE),
         NEW g, g = k + r, NEW v, v = l + z
  PROVE  Does(Codes, c \o e, at, p, g, x, v, FALSE)
<1>1. Does(Codes, e, m, k + q, k + r, l + y, l + z, FALSE)
  BY DoesAbove
<1>2. Does(Codes, e, m, f, g, w, v, FALSE)
  BY <1>1
<1>3. QED
  BY <1>2, DoesThen

(* What does something is a sequence.                                      *)
LEMMA DoesIsSeq ==
  ASSUME NEW Codes, NEW c, NEW at, NEW p, NEW q, NEW x, NEW y, NEW alone,
         Does(Codes, c, at, p, q, x, y, alone)
  PROVE  IsSeq(c) /\ Len(c) \in Nat
BY LenIsNat DEF Does, Fragment

(* Nothing at all.                                                         *)
LEMMA NothingDoes ==
  ASSUME NEW Codes, NEW at \in Nat, NEW p \in Nat, NEW x \in Nat
  PROVE  Does(Codes, << >>, at, p, p, x, x, FALSE)
<1>1. Fragment(Codes, << >>) /\ Len(<< >>) = 0
  BY EmptyIsSeq DEF Fragment, AllSane
<1>2. ASSUME NEW a \in Nat, NEW u \in Nat
      PROVE  Moves(<< >>, at, {}, a + p, u + x, a + p, u + x)
  <2> PICK b, v : b = a + p /\ v = u + x
    OBVIOUS
  <2> DEFINE d == [i \in Nat |-> b]
             s == [i \in Nat |-> v]
  <2>1. Counts(d) /\ Counts(s)
    BY DEF Counts
  <2>2. at + 0 = at /\ d[at] = b /\ s[at] = v /\ at \in at..at
    OBVIOUS
  <2> HIDE DEF d, s
  <2>3. Ends(<< >>, at, b, v, b, v) = {<<at, b, v>>}
    BY <1>1, <2>2 DEF Ends
  <2>4. Annotates(<< >>, at, {}, {<<at, b, v>>}, d, s)
    BY <1>1, <2>2 DEF Annotates
  <2>5. QED
    BY <2>1, <2>3, <2>4 DEF Moves, Adds
<1>3. QED
  BY <1>1, <1>2 DEF Does

(* One instruction that goes on to the next.                               *)
LEMMA DoesOne ==
  ASSUME NEW Codes, NEW c, Sane(Codes, c), NEW at \in Nat,
         c.op \notin {"Jump", "JumpIfFalse", "Return", "TreeEval"},
         NEW p \in Nat, p = Needs(c), NEW q, q = Leaves(c),
         NEW x \in Nat, NEW y \in Nat, y = x + Opens(c),
         NEW alone, c.op = "TailCall" => alone
  PROVE  Does(Codes, <<c>>, at, p, q, x, y, alone)
<1>1. Fragment(Codes, <<c>>) /\ Len(<<c>>) = 1
  BY OneSane
<1>9. c.op \notin {"Jump", "JumpIfFalse"} /\ c.op # "Return"
  OBVIOUS
<1>2. ASSUME NEW a \in Nat, NEW u \in Nat, alone => a = 0
      PROVE  Moves(<<c>>, at, {}, a + p, u + x, a + q, u + y)
  <2> PICK a1, u1, b, v : a1 = a + p /\ u1 = u + x /\ b = a + q /\ v = u + y
    OBVIOUS
  <2>1. q \in 0..1
    BY DEF Leaves
  <2>2. /\ a1 \in Nat /\ u1 \in Nat /\ b \in Nat /\ v \in Nat
        /\ a1 >= Needs(c) /\ b = a1 - Needs(c) + Leaves(c)
    BY <2>1
  <2>3. v = u1 + Opens(c) /\ v >= 0
    <3>1. Opens(c) \in Int
      BY DEF Opens
    <3>2. QED
      BY <3>1
  <2>4. c.op = "TailCall" => a1 = Needs(c)
    BY <1>2
  <2>5. Adds(<<c>>, at, {}, {<<at, a1, u1>>, <<at + 1, b, v>>})
    BY <1>9, <2>2, <2>3, <2>4, One
  <2>6. QED
    BY <1>1, <2>5 DEF Moves, Ends
<1>3. QED
  BY <1>1, <1>2 DEF Does

CONSTANTS Code(_, _, _), Quasi(_, _, _), WellFormed(_), Fits(_, _)
C == INSTANCE Compile

EachStep(given, acc, e) == acc \o Code(e, given.at + Len(acc), FALSE) \o given.after
Emitting == INSTANCE Folding WITH Step <- EachStep

(* The loop over the expressions of a body or a call.                      *)
LEMMA FoldEach ==
  ASSUME NEW es, NEW at, NEW after, NEW N \in Nat, DOMAIN es = 1..N
  PROVE  \E t : /\ DOMAIN t = 0..N
                /\ t[0] = << >>
                /\ \A k \in 1..N : t[k] = t[k - 1] \o Code(es[k], at + Len(t[k - 1]), FALSE) \o after
                /\ t[N] = C!Each(es, at, after)
<1> PICK given : given.at = at /\ given.after = after
  <2>1. [at |-> at, after |-> after].at = at /\ [at |-> at, after |-> after].after = after
    OBVIOUS
  <2>2. QED
    BY <2>1
<1> PICK none : none = << >>
  OBVIOUS
<1> PICK end : end = Emitting!FoldOf(given, none, es, N)
  OBVIOUS
<1>1. C!Each(es, at, after) = end
  BY DEF C!Each, EachStep, C!FoldLeft, C!MapThenFoldSet, C!Max, Emitting!FoldOf, Emitting!Iterates,
         Emitting!Largest
<1>2. PICK t : Emitting!IsTrace(t, given, none, es, N) /\ t[N] = end
  BY Emitting!FoldTrace
<1>3. QED
  BY <1>1, <1>2 DEF Emitting!IsTrace, EachStep

(* Expressions one after the other, each with its value left or taken off  *)
(* the stack.                                                              *)
Held(keeps, n) == IF keeps THEN n ELSE 0
(* One more expression, and what follows it.                               *)
LEMMA OneMore ==
  ASSUME NEW Codes, NEW acc, NEW c, NEW after, NEW place \in Nat, NEW held \in Nat,
         NEW more \in Nat, Does(Codes, acc, place, 0, held, 0, 0, FALSE),
         Value(Codes, c, place + Len(acc), FALSE),
         \A n \in Nat : Does(Codes, after, place + n, 1, more, 0, 0, FALSE)
  PROVE  Does(Codes, (acc \o c) \o after, place, 0, held + more, 0, 0, FALSE)
<1>1. Does(Codes, acc \o c, place, 0, held + 1, 0, 0, FALSE)
  <2>1. PICK m, l : m = place + Len(acc) /\ l = held + 1
    OBVIOUS
  <2>2. held = held + 0 /\ 0 = 0 + 0
    OBVIOUS
  <2>3. Does(Codes, c, m, 0, 1, 0, 0, FALSE)
    BY <2>1 DEF Value
  <2>4. Does(Codes, acc \o c, place, 0, l, 0, 0, FALSE)
    BY <2>1, <2>2, <2>3, DoesNext
  <2>5. QED
    BY <2>1, <2>4
<1>2. PICK s, n : s = acc \o c /\ n = Len(s)
  OBVIOUS
<1>3. n \in Nat
  BY <1>1, <1>2, DoesIsSeq
<1>4. PICK m, h, l : m = place + n /\ h = held + 1 /\ l = held + more
  OBVIOUS
<1>5. Does(Codes, after, m, 1, more, 0, 0, FALSE)
  BY <1>3, <1>4
<1>9. 0 = 0 + 0 /\ h \in Nat
  BY <1>4
<1>6. Does(Codes, s, place, 0, h, 0, 0, FALSE)
  BY <1>1, <1>2, <1>4
<1>7. Does(Codes, s \o after, place, 0, l, 0, 0, FALSE)
  BY <1>2, <1>4, <1>5, <1>6, <1>9, DoesNext
<1>8. QED
  BY <1>2, <1>4, <1>7

(* The expressions one after another, their values kept or dropped.        *)
LEMMA EachDoes ==
  ASSUME NEW Codes, NEW es, NEW N \in Nat, DOMAIN es = 1..N, NEW at \in Nat, NEW place \in Nat,
         NEW after, NEW keeps \in BOOLEAN,
         \A k \in 1..N : \A n \in Nat :
           Value(Codes, Code(es[k], at + n, FALSE), place + n, FALSE),
         \A n \in Nat : Does(Codes, after, place + n, 1, Held(keeps, 1), 0, 0, FALSE)
  PROVE  Does(Codes, C!Each(es, at, after), place, 0, Held(keeps, N), 0, 0, FALSE)
<1>0. PICK t : /\ DOMAIN t = 0..N
               /\ t[0] = << >>
               /\ \A k \in 1..N : t[k] = t[k - 1] \o Code(es[k], at + Len(t[k - 1]), FALSE) \o after
               /\ t[N] = C!Each(es, at, after)
  BY FoldEach
<1> DEFINE S == {n \in Nat : Does(Codes, t[n], place, 0, Held(keeps, n), 0, 0, FALSE)}
<1>1. 0 \in S
  <2>1. Does(Codes, t[0], place, 0, 0, 0, 0, FALSE) /\ Held(keeps, 0) = 0
    BY <1>0, NothingDoes DEF Held
  <2>2. QED
    BY <2>1
<1>2. ASSUME NEW n \in 0..(N - 1), n \in S PROVE n + 1 \in S
  <2>1. PICK acc, c, next : acc = t[n] /\ c = Code(es[n + 1], at + Len(acc), FALSE) /\ next = t[n + 1]
    OBVIOUS
  <2>2. n + 1 \in 1..N /\ (n + 1) - 1 = n /\ n \in Nat /\ n + 1 \in Nat
    OBVIOUS
  <2>3. next = (acc \o c) \o after
    BY <1>0, <2>1, <2>2
  <2>4. PICK held, more : held = Held(keeps, n) /\ more = Held(keeps, 1)
    OBVIOUS
  <2>5. held \in Nat /\ more \in Nat /\ Held(keeps, n + 1) = held + more
    BY <2>2, <2>4 DEF Held
  <2>6. Does(Codes, acc, place, 0, held, 0, 0, FALSE)
    BY <1>2, <2>1, <2>4
  <2>7. Value(Codes, c, place + Len(acc), FALSE)
    BY <2>1, <2>2, <2>6, DoesIsSeq
  <2>8. Does(Codes, next, place, 0, held + more, 0, 0, FALSE)
    BY <2>3, <2>4, <2>5, <2>6, <2>7, OneMore
  <2>9. Does(Codes, t[n + 1], place, 0, Held(keeps, n + 1), 0, 0, FALSE)
    BY <2>1, <2>5, <2>8
  <2>10. QED
    BY <2>2, <2>9, Zenon
<1> HIDE DEF S
<1>3. 0..N \subseteq S
  BY <1>1, <1>2, Emitting!RangeInduces
<1>4. N \in S
  BY <1>3
<1>5. QED
  BY <1>0, <1>4 DEF S

(* Jumps that stay inside go to no point outside.                          *)
LEMMA MovesWeaker ==
  ASSUME NEW c, NEW at, NEW out, NEW a, NEW u, NEW b, NEW v,
         Moves(c, at, {}, a, u, b, v)
  PROVE  Moves(c, at, out, a, u, b, v)
BY Weaker DEF Moves

(* A jump within two fragments to a point that both know.                  *)
LEMMA MovesClosed ==
  ASSUME NEW Codes, NEW c, NEW e, Fragment(Codes, c), Fragment(Codes, e), NEW at \in Nat, NEW out,
         NEW a, NEW u, NEW b, NEW v, NEW f, NEW w, NEW mid, mid = at + Len(c),
         Moves(c, at, out, a, u, b, v), Moves(e, mid, out, b, v, f, w),
         out \subseteq {<<at, a, u>>, <<mid, b, v>>, <<mid + Len(e), f, w>>}
  PROVE  Moves(c \o e, at, {}, a, u, f, w)
<1> PICK n, m : n = Len(c) /\ m = Len(e)
  OBVIOUS
<1>1. n \in Nat /\ m \in Nat /\ mid \in Nat /\ Len(c \o e) = n + m /\ at + (n + m) = mid + m
  BY Fragments
<1>2. Ends(c, at, a, u, b, v) = {<<at, a, u>>, <<mid, b, v>>}
  BY DEF Ends
<1>3. Ends(e, mid, b, v, f, w) = {<<mid, b, v>>, <<mid + m, f, w>>}
  BY DEF Ends
<1>4. Ends(c \o e, at, a, u, f, w) = {<<at, a, u>>, <<mid + m, f, w>>}
  BY <1>1 DEF Ends
<1> PICK points : points = Ends(c, at, a, u, b, v) \cup Ends(e, mid, b, v, f, w)
  OBVIOUS
<1>5. Adds(c \o e, at, out, points)
  BY <1>2, <1>3, JoinedAdds DEF Moves, Fragment
<1>6. out \subseteq points /\ Ends(c \o e, at, a, u, f, w) \subseteq points
  BY <1>2, <1>3, <1>4
<1>7. Adds(c \o e, at, {}, points)
  BY <1>5, <1>6, Closed
<1>8. QED
  BY <1>6, <1>7, Weaker DEF Moves

(* A jump, and a jump on a condition.                                      *)
LEMMA Jumping ==
  ASSUME NEW Codes, NEW c, c.op = "Jump", NEW at \in Nat, NEW out, NEW a \in Nat, NEW u \in Nat,
         <<c.to, a, u>> \in out, NEW b \in Nat, NEW v \in Nat
  PROVE  Fragment(Codes, <<c>>) /\ Moves(<<c>>, at, out, a, u, b, v)
<1>1. Needs(c) = 0 /\ Leaves(c) = 0 /\ Opens(c) = 0 /\ Sane(Codes, c)
  BY DEF Needs, Leaves, Opens, Sane
<1>2. Fragment(Codes, <<c>>) /\ Len(<<c>>) = 1
  BY <1>1, OneSane
<1>3. a = a - Needs(c) + Leaves(c) /\ u = u + Opens(c) /\ a >= Needs(c) /\ u >= 0
  BY <1>1
<1>4. Adds(<<c>>, at, out, {<<at, a, u>>, <<at + 1, b, v>>})
  BY <1>1, <1>3, One
<1>5. QED
  BY <1>2, <1>4 DEF Moves, Ends

(* A conditional jump takes the value it tests, whichever way it goes.     *)
LEMMA Testing ==
  ASSUME NEW Codes, NEW c, c.op = "JumpIfFalse", NEW at \in Nat, NEW out, NEW a \in Nat, NEW u \in Nat,
         <<c.to, a, u>> \in out
  PROVE  Fragment(Codes, <<c>>) /\ Moves(<<c>>, at, out, a + 1, u, a, u)
<1>1. Needs(c) = 1 /\ Leaves(c) = 0 /\ Opens(c) = 0 /\ Sane(Codes, c)
  BY DEF Needs, Leaves, Opens, Sane
<1>2. Fragment(Codes, <<c>>) /\ Len(<<c>>) = 1
  BY <1>1, OneSane
<1> PICK b : b = a + 1
  OBVIOUS
<1>3. b \in Nat /\ b >= Needs(c) /\ a = b - Needs(c) + Leaves(c) /\ u = u + Opens(c) /\ u >= 0
  BY <1>1
<1>4. Adds(<<c>>, at, out, {<<at, b, u>>, <<at + 1, a, u>>})
  BY <1>1, <1>3, One
<1>5. QED
  BY <1>2, <1>4 DEF Moves, Ends

(* A value is one operand more.                                            *)
LEMMA ValueMoves ==
  ASSUME NEW Codes, NEW c, NEW at, NEW alone, Value(Codes, c, at, alone), NEW out,
         NEW a \in Nat, NEW u \in Nat, alone => a = 0
  PROVE  Moves(c, at, out, a, u, a + 1, u)
<1>1. Moves(c, at, {}, a + 0, u + 0, a + 1, u + 0)
  BY DEF Value, Does
<1>2. a + 0 = a /\ u + 0 = u
  OBVIOUS
<1>3. QED
  BY <1>1, <1>2, MovesWeaker

(* if.                                                                     *)
LEMMA Branches ==
  ASSUME NEW Codes, NEW at \in Nat, NEW tail, NEW c, NEW t, NEW f, NEW test, NEW skip,
         Value(Codes, c, at, FALSE),
         NEW then, then = at + Len(c) + 1, Value(Codes, t, then, tail),
         NEW else, else = then + Len(t) + 1, Value(Codes, f, else, tail),
         test.op = "JumpIfFalse", test.to = else, skip.op = "Jump", skip.to = else + Len(f)
  PROVE  Value(Codes, (((c \o <<test>>) \o t) \o <<skip>>) \o f, at, tail)
<1>1. Fragment(Codes, c) /\ Fragment(Codes, t) /\ Fragment(Codes, f)
  BY DEF Value, Does
<1> PICK n, m, l : n = Len(c) /\ m = Len(t) /\ l = Len(f)
  OBVIOUS
<1>2. n \in Nat /\ m \in Nat /\ l \in Nat
  BY <1>1, LenIsNat DEF Fragment
<1> PICK end : end = else + l
  OBVIOUS
<1>3. then = at + n + 1 /\ then \in Nat /\ else = then + m + 1 /\ else \in Nat /\ end \in Nat
  BY <1>2
<1>4. PICK c1, c2, c3 : c1 = c \o <<test>> /\ c2 = c1 \o t /\ c3 = c2 \o <<skip>>
  OBVIOUS
<1>5. Fragment(Codes, <<test>>) /\ Fragment(Codes, <<skip>>) /\ Len(<<test>>) = 1 /\ Len(<<skip>>) = 1
  <2>1. Sane(Codes, test) /\ Sane(Codes, skip)
    BY DEF Sane
  <2>2. QED
    BY <2>1, OneSane
<1>6. Fragment(Codes, c1) /\ Fragment(Codes, c2) /\ Fragment(Codes, c3) /\ Fragment(Codes, c3 \o f)
  BY <1>1, <1>4, <1>5, Fragments
<1>7. at + Len(c1) = then /\ at + Len(c2) = then + m /\ at + Len(c3) = else
  <2>1. Len(c1) = n + 1 /\ Len(c2) = Len(c1) + m /\ Len(c3) = Len(c2) + 1
    BY <1>1, <1>4, <1>5, <1>6, Fragments
  <2>2. QED
    BY <1>2, <1>3, <2>1
<1>8. ASSUME NEW a \in Nat, NEW u \in Nat, tail => a = 0
      PROVE  Moves(c3 \o f, at, {}, a, u, a + 1, u)
  <2>1. PICK out, b : out = {<<else, a, u>>, <<end, b, u>>} /\ b = a + 1
    OBVIOUS
  <2>2. b \in Nat
    BY <2>1
  <2>3. Moves(c, at, out, a, u, b, u)
    BY <2>1, ValueMoves
  <2>4. PICK p : p = at + n
    OBVIOUS
  <2>5. p \in Nat
    BY <1>2, <2>4
  <2>6. <<test.to, a, u>> \in out /\ <<skip.to, b, u>> \in out
    BY <2>1
  <2>7. Moves(<<test>>, p, out, b, u, a, u)
    BY <2>1, <2>5, <2>6, Testing
  <2>8. Moves(c1, at, out, a, u, a, u)
    BY <1>1, <1>4, <1>5, <2>3, <2>4, <2>7, MovesOn
  <2>9. Moves(t, then, out, a, u, b, u)
    BY <1>8, <2>1, ValueMoves
  <2>10. Moves(c2, at, out, a, u, b, u)
    BY <1>1, <1>4, <1>6, <1>7, <2>8, <2>9, MovesOn
  <2>11. then + m \in Nat
    BY <1>2, <1>3
  <2>12. Moves(<<skip>>, then + m, out, b, u, a, u)
    BY <2>2, <2>6, <2>11, Jumping
  <2>13. Moves(c3, at, out, a, u, a, u)
    BY <1>4, <1>5, <1>6, <1>7, <2>10, <2>12, MovesOn
  <2>14. Moves(f, else, out, a, u, b, u)
    BY <1>8, <2>1, ValueMoves
  <2>15. out \subseteq {<<at, a, u>>, <<else, a, u>>, <<else + Len(f), b, u>>}
    BY <2>1
  <2>16. Moves(c3 \o f, at, {}, a, u, b, u)
    BY <1>1, <1>6, <1>7, <2>13, <2>14, <2>15, MovesClosed
  <2>17. QED
    BY <2>1, <2>16
<1>9. Value(Codes, c3 \o f, at, tail)
  <2>1. ASSUME NEW a \in Nat, NEW u \in Nat, tail => a = 0
        PROVE  Moves(c3 \o f, at, {}, a + 0, u + 0, a + 1, u + 0)
    <3>1. a + 0 = a /\ u + 0 = u
      OBVIOUS
    <3>2. QED
      BY <1>8, <2>1, <3>1
  <2>2. QED
    BY <1>6, <2>1 DEF Value, Does
<1>10. QED
  BY <1>4, <1>9

(* An instruction that goes on to the next, and what it does.              *)
Simple(Codes, c, p, q, x, y) ==
  /\ Sane(Codes, c) /\ c.op \notin {"Jump", "JumpIfFalse", "Return", "TreeEval", "TailCall"}
  /\ p = Needs(c) /\ q = Leaves(c) /\ y = x + Opens(c)
(* Such an instruction does what it says.                                  *)
LEMMA SimpleDoes ==
  ASSUME NEW Codes, NEW c, NEW at \in Nat, NEW p \in Nat, NEW q, NEW x \in Nat, NEW y \in Nat,
         Simple(Codes, c, p, q, x, y)
  PROVE  Does(Codes, <<c>>, at, p, q, x, y, FALSE)
<1>1. /\ Sane(Codes, c) /\ c.op \notin {"Jump", "JumpIfFalse", "Return", "TreeEval"}
      /\ c.op # "TailCall"
      /\ p = Needs(c) /\ q = Leaves(c) /\ y = x + Opens(c)
  BY DEF Simple
<1>2. QED
  BY <1>1, DoesOne

(* The instructions that the compiler emits, but for jumps and calls.      *)
LEMMA Instructions ==
  ASSUME NEW Codes, NEW at \in Nat
  PROVE  /\ \A v : ~Is("fn", v) => Does(Codes, <<C!LoadConst(v)>>, at, 0, 1, 0, 0, FALSE)
         /\ \A n : Does(Codes, <<C!LoadVar(n)>>, at, 0, 1, 0, 0, FALSE)
         /\ \A n : Does(Codes, <<C!StoreVar(n)>>, at, 1, 0, 0, 0, FALSE)
         /\ \A n : Does(Codes, <<[op |-> "AssignVar", name |-> n]>>, at, 1, 0, 0, 0, FALSE)
         /\ \A n : Does(Codes, <<[op |-> "StoreSelf", name |-> n]>>, at, 0, 0, 0, 0, FALSE)
         /\ Does(Codes, <<C!Do("Pop")>>, at, 1, 0, 0, 0, FALSE)
         /\ Does(Codes, <<C!Do("PushEnv")>>, at, 0, 0, 0, 1, FALSE)
         /\ Does(Codes, <<C!Do("PopEnv")>>, at, 0, 0, 1, 0, FALSE)
         /\ Does(Codes, <<C!Do("LoadNil")>>, at, 0, 1, 0, 0, FALSE)
         /\ Does(Codes, <<C!MakeList(2)>>, at, 2, 1, 0, 0, FALSE)
         /\ Does(Codes, <<C!Do("PrependList")>>, at, 2, 1, 0, 0, FALSE)
         /\ Does(Codes, <<C!Do("AppendSplice")>>, at, 2, 1, 0, 0, FALSE)
<1>1. ASSUME NEW v, ~Is("fn", v) PROVE Does(Codes, <<C!LoadConst(v)>>, at, 0, 1, 0, 0, FALSE)
  <2>1. Simple(Codes, C!LoadConst(v), 0, 1, 0, 0)
    BY <1>1 DEF C!LoadConst, Simple, Needs, Leaves, Opens, Sane
  <2>2. QED
    BY <2>1, SimpleDoes
<1>2. ASSUME NEW n PROVE Does(Codes, <<C!LoadVar(n)>>, at, 0, 1, 0, 0, FALSE)
  <2>1. Simple(Codes, C!LoadVar(n), 0, 1, 0, 0)
    BY DEF C!LoadVar, Simple, Needs, Leaves, Opens, Sane
  <2>2. QED
    BY <2>1, SimpleDoes
<1>3. ASSUME NEW n PROVE Does(Codes, <<C!StoreVar(n)>>, at, 1, 0, 0, 0, FALSE)
  <2>1. Simple(Codes, C!StoreVar(n), 1, 0, 0, 0)
    BY DEF C!StoreVar, Simple, Needs, Leaves, Opens, Sane
  <2>2. QED
    BY <2>1, SimpleDoes
<1>4. ASSUME NEW n PROVE Does(Codes, <<[op |-> "AssignVar", name |-> n]>>, at, 1, 0, 0, 0, FALSE)
  <2>1. Simple(Codes, [op |-> "AssignVar", name |-> n], 1, 0, 0, 0)
    BY DEF Simple, Needs, Leaves, Opens, Sane
  <2>2. QED
    BY <2>1, SimpleDoes
<1>5. ASSUME NEW n PROVE Does(Codes, <<[op |-> "StoreSelf", name |-> n]>>, at, 0, 0, 0, 0, FALSE)
  <2>1. Simple(Codes, [op |-> "StoreSelf", name |-> n], 0, 0, 0, 0)
    BY DEF Simple, Needs, Leaves, Opens, Sane
  <2>2. QED
    BY <2>1, SimpleDoes
<1>6. Does(Codes, <<C!Do("Pop")>>, at, 1, 0, 0, 0, FALSE)
  <2>1. Simple(Codes, C!Do("Pop"), 1, 0, 0, 0)
    BY DEF C!Do, Simple, Needs, Leaves, Opens, Sane
  <2>2. QED
    BY <2>1, SimpleDoes
<1>7. Does(Codes, <<C!Do("PushEnv")>>, at, 0, 0, 0, 1, FALSE)
  <2>1. Simple(Codes, C!Do("PushEnv"), 0, 0, 0, 1)
    BY DEF C!Do, Simple, Needs, Leaves, Opens, Sane
  <2>2. QED
    BY <2>1, SimpleDoes
<1>8. Does(Codes, <<C!Do("PopEnv")>>, at, 0, 0, 1, 0, FALSE)
  <2>1. Simple(Codes, C!Do("PopEnv"), 0, 0, 1, 0)
    BY DEF C!Do, Simple, Needs, Leaves, Opens, Sane
  <2>2. QED
    BY <2>1, SimpleDoes
<1>9. Does(Codes, <<C!Do("LoadNil")>>, at, 0, 1, 0, 0, FALSE)
  <2>1. Simple(Codes, C!Do("LoadNil"), 0, 1, 0, 0)
    BY DEF C!Do, Simple, Needs, Leaves, Opens, Sane
  <2>2. QED
    BY <2>1, SimpleDoes
<1>10. Does(Codes, <<C!MakeList(2)>>, at, 2, 1, 0, 0, FALSE)
  <2>1. Simple(Codes, C!MakeList(2), 2, 1, 0, 0)
    BY DEF C!MakeList, Simple, Needs, Leaves, Opens, Sane
  <2>2. QED
    BY <2>1, SimpleDoes
<1>11. ASSUME NEW op \in {"PrependList", "AppendSplice"} PROVE Does(Codes, <<C!Do(op)>>, at, 2, 1, 0, 0, FALSE)
  <2>1. Simple(Codes, C!Do(op), 2, 1, 0, 0)
    BY <1>11 DEF C!Do, Simple, Needs, Leaves, Opens, Sane
  <2>2. QED
    BY <2>1, SimpleDoes
<1>12. QED
  BY <1>1, <1>2, <1>3, <1>4, <1>5, <1>6, <1>7, <1>8, <1>9, <1>10, <1>11

(* A call, in tail position or not.                                        *)
Calling(n, tail) == [op |-> IF tail THEN "TailCall" ELSE "Call", n |-> n]
(* A call, or a tail call where the frame has no other operands.           *)
LEMMA CallingDoes ==
  ASSUME NEW Codes, NEW at \in Nat, NEW n \in Nat, NEW tail \in BOOLEAN
  PROVE  Does(Codes, <<Calling(n, tail)>>, at, n + 1, 1, 0, 0, tail)
<1> PICK c : c = Calling(n, tail)
  OBVIOUS
<1>1. /\ c.op \notin {"Jump", "JumpIfFalse", "Return", "TreeEval"}
      /\ c.op = "TailCall" => tail
      /\ c.op \in {"Call", "TailCall"} /\ c.n = n
  BY DEF Calling
<1>2. c.op # "TailCall" \/ tail
  BY <1>1
<1>3. Needs(c) = n + 1 /\ Leaves(c) = 1 /\ Opens(c) = 0 /\ Sane(Codes, c)
  BY <1>1 DEF Needs, Leaves, Opens, Sane
<1>4. n + 1 \in Nat /\ 0 = 0 + 0
  OBVIOUS
<1>5. 0 = 0 + Opens(c)
  BY <1>3
<1>6. QED
  BY <1>1, <1>3, <1>4, <1>5, DoesOne

(* Making a function.                                                      *)
LEMMA MakingDoes ==
  ASSUME NEW Codes, NEW at \in Nat, NEW c, c.op = "MakeFunc", c.code \in Codes
  PROVE  Does(Codes, <<c>>, at, 0, 1, 0, 0, FALSE)
<1>1. Simple(Codes, c, 0, 1, 0, 0)
  BY DEF Simple, Needs, Leaves, Opens, Sane
<1>2. QED
  BY <1>1, SimpleDoes

(* The tree-walker's instruction never goes on.                            *)
LEMMA WalkingDoes ==
  ASSUME NEW Codes, NEW at \in Nat, NEW c, c.op = "TreeEval"
  PROVE  Value(Codes, <<c>>, at, FALSE)
<1>1. Needs(c) = 0 /\ Leaves(c) = 0 /\ Opens(c) = 0 /\ Sane(Codes, c)
  BY DEF Needs, Leaves, Opens, Sane
<1>2. Fragment(Codes, <<c>>) /\ Len(<<c>>) = 1
  BY <1>1, OneSane
<1>3. ASSUME NEW a \in Nat, NEW u \in Nat
      PROVE  Moves(<<c>>, at, {}, a + 0, u + 0, a + 1, u + 0)
  <2> PICK b : b = a + 1
    OBVIOUS
  <2>1. b \in Nat /\ a >= Needs(c) /\ a = a - Needs(c) + Leaves(c) /\ u = u + Opens(c) /\ u >= 0
    BY <1>1
  <2>2. Adds(<<c>>, at, {}, {<<at, a, u>>, <<at + 1, b, u>>})
    BY <1>1, <2>1, One
  <2>3. Moves(<<c>>, at, {}, a, u, b, u)
    BY <1>2, <2>2 DEF Moves, Ends
  <2>4. a + 0 = a /\ u + 0 = u
    OBVIOUS
  <2>5. QED
    BY <2>3, <2>4
<1>4. QED
  BY <1>2, <1>3 DEF Value, Does

(* The domain of a sequence.                                               *)
LEMMA SeqDomain == ASSUME NEW s, IsSeq(s) PROVE DOMAIN s = 1..Len(s) /\ Len(s) \in Nat
BY DEF IsSeq

(* The code of an expression is right wherever it is placed.               *)
Fine(Codes, e, tail) == \A at \in Nat : Value(Codes, Code(e, at, tail), at, tail)
(* The code of such an expression at one place.                            *)
LEMMA FineAt ==
  ASSUME NEW Codes, NEW e, NEW tail, Fine(Codes, e, tail), NEW at \in Nat
  PROVE  Value(Codes, Code(e, at, tail), at, tail)
BY DEF Fine

(* The operator and the operands, then the call (compiler.rs:1013-1043).   *)
LEMMA CallDoes ==
  ASSUME NEW Codes, NEW es, IsSeq(es), NEW N \in Nat, N >= 1, Len(es) = N, NEW at \in Nat,
         NEW place \in Nat, NEW tail \in BOOLEAN,
         \A k \in 1..N : \A n \in Nat :
           Value(Codes, Code(es[k], at + n, FALSE), place + n, FALSE)
  PROVE  Value(Codes, C!Call(es, at, tail), place, tail)
<1>1. DOMAIN es = 1..N
  BY SeqDomain
<1>2. \A n \in Nat : Does(Codes, << >>, place + n, 1, Held(TRUE, 1), 0, 0, FALSE)
  <2>1. Held(TRUE, 1) = 1 /\ 1 \in Nat
    BY DEF Held
  <2>2. \A n \in Nat : place + n \in Nat
    OBVIOUS
  <2>3. QED
    BY <2>1, <2>2, NothingDoes
<1>3. PICK args : args = C!Each(es, at, << >>)
  OBVIOUS
<1>4. Does(Codes, args, place, 0, N, 0, 0, FALSE)
  <2>1. TRUE \in BOOLEAN /\ Held(TRUE, N) = N
    BY DEF Held
  <2>2. Does(Codes, args, place, 0, Held(TRUE, N), 0, 0, FALSE)
    BY <1>1, <1>2, <1>3, <2>1, EachDoes
  <2>3. QED
    BY <2>1, <2>2
<1>5. PICK m, n : m = place + Len(args) /\ n = N - 1
  OBVIOUS
<1>6. Len(args) \in Nat
  BY <1>4, DoesIsSeq
<1>7. m \in Nat /\ n \in Nat /\ n + 1 = N
  BY <1>5, <1>6
<1>8. Does(Codes, <<Calling(n, tail)>>, m, N, 1, 0, 0, tail)
  <2>1. Does(Codes, <<Calling(n, tail)>>, m, n + 1, 1, 0, 0, tail)
    BY <1>7, CallingDoes
  <2>2. QED
    BY <1>7, <2>1
<1>9. Does(Codes, args \o <<Calling(n, tail)>>, place, 0, 1, 0, 0, tail)
  BY <1>4, <1>5, <1>8, DoesThen
<1>10. C!Call(es, at, tail) = args \o <<Calling(n, tail)>>
  BY <1>3, <1>5 DEF C!Call, Calling
<1>11. QED
  BY <1>9, <1>10 DEF Value

(* Expressions for their effect only.                                      *)
LEMMA EffectsDo ==
  ASSUME NEW Codes, NEW es, IsSeq(es), NEW N \in Nat, Len(es) = N, NEW at \in Nat,
         \A k \in 1..N : Fine(Codes, es[k], FALSE)
  PROVE  Does(Codes, C!Each(es, at, <<C!Do("Pop")>>), at, 0, 0, 0, 0, FALSE)
<1>1. PICK pop : pop = <<C!Do("Pop")>>
  OBVIOUS
<1>2. DOMAIN es = 1..N
  BY SeqDomain
<1>3. \A n \in Nat : at + n \in Nat
  OBVIOUS
<1>4. \A n \in Nat : Does(Codes, pop, at + n, 1, Held(FALSE, 1), 0, 0, FALSE)
  <2>1. Held(FALSE, 1) = 0
    BY DEF Held
  <2>2. QED
    BY <1>1, <1>3, <2>1, Instructions
<1>5. \A k \in 1..N : \A n \in Nat : Value(Codes, Code(es[k], at + n, FALSE), at + n, FALSE)
  BY <1>3, FineAt
<1>6. FALSE \in BOOLEAN /\ Held(FALSE, N) = 0
  BY DEF Held
<1>7. Does(Codes, C!Each(es, at, pop), at, 0, Held(FALSE, N), 0, 0, FALSE)
  BY <1>2, <1>4, <1>5, <1>6, EachDoes
<1>8. QED
  BY <1>1, <1>6, <1>7

(* A body: all but the last for effect, the last for its value.            *)
LEMMA BodyDoes ==
  ASSUME NEW Codes, NEW es, IsSeq(es), NEW N \in Nat, N >= 1, Len(es) = N, NEW at \in Nat,
         NEW tail \in BOOLEAN, \A k \in 1..(N - 1) : Fine(Codes, es[k], FALSE),
         Fine(Codes, es[N], tail)
  PROVE  Value(Codes, C!Body(es, at, tail), at, tail)
<1>1. PICK front, last, first : /\ front = C!Front(es) /\ last = es[N]
                                /\ first = C!Each(front, at, <<C!Do("Pop")>>)
  OBVIOUS
<1>2. front = SubSeq(es, 1, N - 1) /\ last = C!Last(es)
  BY <1>1 DEF C!Front, C!Last
<1>3. N - 1 \in 0..Len(es) /\ N - 1 \in Nat
  OBVIOUS
<1>4. IsSeq(front) /\ Len(front) = N - 1 /\ \A k \in 1..(N - 1) : front[k] = es[k]
  BY <1>2, <1>3, Shortened
<1>5. \A k \in 1..(N - 1) : Fine(Codes, front[k], FALSE)
  BY <1>4
<1>6. Does(Codes, first, at, 0, 0, 0, 0, FALSE)
  BY <1>1, <1>3, <1>4, <1>5, EffectsDo
<1>7. Len(first) \in Nat
  BY <1>6, DoesIsSeq
<1>8. PICK m, c : m = at + Len(first) /\ c = Code(last, m, tail)
  OBVIOUS
<1>9. Value(Codes, c, m, tail)
  BY <1>1, <1>7, <1>8, FineAt
<1>10. Does(Codes, first \o c, at, 0, 1, 0, 0, tail)
  BY <1>6, <1>8, <1>9, DoesThen DEF Value
<1>11. C!Body(es, at, tail) = first \o c
  BY <1>1, <1>2, <1>8 DEF C!Body
<1>12. QED
  BY <1>10, <1>11 DEF Value

(* Both branches of an if leave one value, also the one left out.          *)
LEMMA IfDoes ==
  ASSUME NEW Codes, NEW es, Len(es) \in 3..4, NEW at \in Nat, NEW tail \in BOOLEAN,
         Fine(Codes, es[2], FALSE), Fine(Codes, es[3], tail),
         Len(es) = 4 => Fine(Codes, es[4], tail)
  PROVE  Value(Codes, C!If(es, at, tail), at, tail)
<1>1. PICK c, then, t : /\ c = Code(es[2], at, FALSE) /\ then = at + Len(c) + 1
                        /\ t = Code(es[3], then, tail)
  OBVIOUS
<1>2. PICK else, f : /\ else = then + Len(t) + 1
                     /\ f = IF Len(es) = 4 THEN Code(es[4], else, tail) ELSE <<C!LoadConst(C!Nil)>>
  OBVIOUS
<1>3. PICK test, skip : test = C!JumpIfFalse(else) /\ skip = C!Jump(else + Len(f))
  OBVIOUS
<1>4. Value(Codes, c, at, FALSE)
  BY <1>1, FineAt
<1>5. Len(c) \in Nat
  BY <1>4, DoesIsSeq DEF Value
<1>6. then \in Nat
  <2>1. then = at + Len(c) + 1
    BY <1>1
  <2>2. QED
    BY <1>5, <2>1
<1>7. Value(Codes, t, then, tail)
  BY <1>1, <1>6, FineAt
<1>8. Len(t) \in Nat
  BY <1>7, DoesIsSeq DEF Value
<1>9. else \in Nat
  BY <1>2, <1>6, <1>8
<1>10. Value(Codes, f, else, tail)
  <2>1. CASE Len(es) = 4
    BY <1>2, <1>9, <2>1, FineAt
  <2>2. CASE Len(es) # 4
    <3>1. ~Is("fn", C!Nil)
      BY DEF Is, C!Nil
    <3>2. Does(Codes, f, else, 0, 1, 0, 0, FALSE)
      BY <1>2, <1>9, <2>2, <3>1, Instructions
    <3>3. QED
      BY <3>2 DEF Value, Does
  <2>3. QED
    BY <2>1, <2>2
<1>11. test.op = "JumpIfFalse" /\ test.to = else /\ skip.op = "Jump" /\ skip.to = else + Len(f)
  BY <1>3 DEF C!JumpIfFalse, C!Jump
<1>12. Value(Codes, (((c \o <<test>>) \o t) \o <<skip>>) \o f, at, tail)
  BY <1>1, <1>2, <1>4, <1>7, <1>10, <1>11, Branches
<1>13. C!If(es, at, tail) = (((c \o <<test>>) \o t) \o <<skip>>) \o f
  BY <1>1, <1>2, <1>3 DEF C!If
<1>14. QED
  BY <1>12, <1>13

(* A loop: a condition, and what is done as long as it is true.            *)
LEMMA Rounds ==
  ASSUME NEW Codes, NEW at \in Nat, NEW c, NEW work, NEW test, NEW skip,
         Value(Codes, c, at, FALSE),
         NEW round, round = at + Len(c) + 1, Does(Codes, work, round, 0, 0, 0, 0, FALSE),
         test.op = "JumpIfFalse", test.to = round + Len(work) + 1,
         skip.op = "Jump", skip.to = at
  PROVE  Does(Codes, ((c \o <<test>>) \o work) \o <<skip>>, at, 0, 0, 0, 0, FALSE)
<1>1. Fragment(Codes, c) /\ Fragment(Codes, work)
  BY DEF Value, Does
<1> PICK n, m : n = Len(c) /\ m = Len(work)
  OBVIOUS
<1>2. n \in Nat /\ m \in Nat
  BY <1>1, LenIsNat DEF Fragment
<1>3. PICK end, p, q : end = round + m + 1 /\ p = at + n /\ q = round + m
  OBVIOUS
<1>4. round \in Nat /\ end \in Nat /\ p \in Nat /\ q \in Nat /\ round = p + 1 /\ end = q + 1
  <2>1. round = at + n + 1
    OBVIOUS
  <2>2. QED
    BY <1>2, <1>3, <2>1
<1>5. PICK c1, c2, c3 : c1 = c \o <<test>> /\ c2 = c1 \o work /\ c3 = c2 \o <<skip>>
  OBVIOUS
<1>6. Fragment(Codes, <<test>>) /\ Fragment(Codes, <<skip>>) /\ Len(<<test>>) = 1 /\ Len(<<skip>>) = 1
  <2>1. Sane(Codes, test) /\ Sane(Codes, skip)
    BY DEF Sane
  <2>2. QED
    BY <2>1, OneSane
<1>7. Fragment(Codes, c1) /\ Fragment(Codes, c2) /\ Fragment(Codes, c3)
  BY <1>1, <1>5, <1>6, Fragments
<1>8. at + Len(c1) = round /\ at + Len(c2) = q /\ at + Len(c3) = end
  <2>1. Len(c1) = n + 1 /\ Len(c2) = Len(c1) + m /\ Len(c3) = Len(c2) + 1
    BY <1>1, <1>5, <1>6, <1>7, Fragments
  <2>2. QED
    BY <1>2, <1>3, <1>4, <2>1
<1>9. ASSUME NEW a \in Nat, NEW u \in Nat PROVE Moves(c3, at, {}, a, u, a, u)
  <2>1. PICK out, b : out = {<<at, a, u>>, <<end, a, u>>} /\ b = a + 1
    OBVIOUS
  <2>2. b \in Nat
    BY <2>1
  <2>3. Moves(c, at, out, a, u, b, u)
    BY <2>1, ValueMoves
  <2>4. test.to = end
    BY <1>3
  <2>5. <<test.to, a, u>> \in out /\ <<skip.to, a, u>> \in out
    BY <2>1, <2>4
  <2>6. Moves(<<test>>, p, out, b, u, a, u)
    BY <1>4, <2>1, <2>5, Testing
  <2>7. Moves(c1, at, out, a, u, a, u)
    BY <1>1, <1>3, <1>5, <1>6, <2>3, <2>6, MovesOn
  <2>8. Moves(work, round, out, a, u, a, u)
    <3>1. Moves(work, round, {}, a + 0, u + 0, a + 0, u + 0)
      BY DEF Does
    <3>2. a + 0 = a /\ u + 0 = u
      OBVIOUS
    <3>3. QED
      BY <3>1, <3>2, MovesWeaker
  <2>9. Moves(c2, at, out, a, u, a, u)
    BY <1>1, <1>5, <1>7, <1>8, <2>7, <2>8, MovesOn
  <2>10. Moves(<<skip>>, q, out, a, u, a, u)
    BY <1>4, <2>5, Jumping
  <2>11. Moves(c3, at, out, a, u, a, u)
    BY <1>5, <1>6, <1>7, <1>8, <2>9, <2>10, MovesOn
  <2>12. Ends(c3, at, a, u, a, u) = out
    BY <1>8, <2>1 DEF Ends
  <2>13. QED
    BY <2>11, <2>12, Closed DEF Moves
<1>10. ASSUME NEW a \in Nat, NEW u \in Nat
       PROVE  Moves(c3, at, {}, a + 0, u + 0, a + 0, u + 0)
  <2>1. a + 0 = a /\ u + 0 = u
    OBVIOUS
  <2>2. QED
    BY <1>9, <2>1
<1>11. QED
  BY <1>5, <1>7, <1>10 DEF Does

(* Which pieces are joined first does not matter.                          *)
LEMMA JoinAssociative ==
  ASSUME NEW s, NEW t, NEW v, IsSeq(s), IsSeq(t), IsSeq(v)
  PROVE  (s \o t) \o v = s \o (t \o v)
<1>1. PICK S : s \in Seq(S)
  BY DEF IsSeq
<1>2. PICK T : t \in Seq(T)
  BY DEF IsSeq
<1>3. PICK V : v \in Seq(V)
  BY DEF IsSeq
<1> DEFINE U == S \cup T \cup V
<1>4. s \in Seq(U) /\ t \in Seq(U) /\ v \in Seq(U)
  BY <1>1, <1>2, <1>3
<1> HIDE DEF U
<1>5. QED
  BY <1>4, ConcatAssociative

(* Three instructions one by one.                                          *)
LEMMA ThreeJoined ==
  ASSUME NEW s, IsSeq(s), NEW x, NEW y, NEW z
  PROVE  s \o <<x, y, z>> = ((s \o <<x>>) \o <<y>>) \o <<z>>
<1> DEFINE T == {x, y, z}
<1>1. <<x>> \in Seq(T) /\ <<y>> \in Seq(T) /\ <<z>> \in Seq(T)
  OBVIOUS
<1>2. <<x>> \o <<y>> = <<x, y>>
  <2> PICK a : a = <<x>> \o <<y>>
    OBVIOUS
  <2>1. a \in Seq(T) /\ <<x, y>> \in Seq(T) /\ Len(a) = 2 /\ Len(<<x, y>>) = 2
    BY <1>1
  <2>2. a[1] = x /\ a[2] = y /\ <<x, y>>[1] = x /\ <<x, y>>[2] = y
    BY <1>1
  <2>3. \A k \in 1..2 : k = 1 \/ k = 2
    OBVIOUS
  <2> HIDE DEF T
  <2>4. QED
    BY <2>1, <2>2, <2>3, SeqEqual
<1>3. <<x, y>> \o <<z>> = <<x, y, z>>
  <2> PICK a, b : a = b \o <<z>> /\ b = <<x, y>>
    OBVIOUS
  <2>1. b \in Seq(T) /\ Len(b) = 2 /\ b[1] = x /\ b[2] = y
    OBVIOUS
  <2>2. a \in Seq(T) /\ Len(a) = 3 /\ a[1] = x /\ a[2] = y /\ a[3] = z
    BY <1>1, <2>1
  <2>3. <<x, y, z>> \in Seq(T) /\ Len(<<x, y, z>>) = 3
        /\ <<x, y, z>>[1] = x /\ <<x, y, z>>[2] = y /\ <<x, y, z>>[3] = z
    OBVIOUS
  <2>4. \A k \in 1..3 : k = 1 \/ k = 2 \/ k = 3
    OBVIOUS
  <2> HIDE DEF T
  <2>5. QED
    BY <2>2, <2>3, <2>4, SeqEqual
<1> HIDE DEF T
<1>4. IsSeq(<<x>>) /\ IsSeq(<<y>>) /\ IsSeq(<<z>>)
  BY <1>1 DEF IsSeq
<1>5. IsSeq(s \o <<x>>)
  BY <1>4, SeqJoined
<1>6. ((s \o <<x>>) \o <<y>>) \o <<z>> = (s \o <<x>>) \o (<<y>> \o <<z>>)
  BY <1>4, <1>5, JoinAssociative
<1>7. IsSeq(<<y>> \o <<z>>)
  BY <1>4, SeqJoined
<1>8. (s \o <<x>>) \o (<<y>> \o <<z>>) = s \o (<<x>> \o (<<y>> \o <<z>>))
  BY <1>4, <1>7, JoinAssociative
<1>9. <<x>> \o (<<y>> \o <<z>>) = (<<x>> \o <<y>>) \o <<z>>
  BY <1>4, JoinAssociative
<1>10. QED
  BY <1>2, <1>3, <1>6, <1>8, <1>9

(* The scopes around what is done in them.                                 *)
LEMMA InScopeDoes ==
  ASSUME NEW Codes, NEW at \in Nat, NEW open, NEW c, Does(Codes, open, at, 0, 0, 0, 1, FALSE),
         NEW m, m = at + Len(open), NEW k \in Nat, Does(Codes, c, m, 0, k, 0, 0, FALSE)
  PROVE  Does(Codes, (open \o c) \o <<C!Do("PopEnv")>>, at, 0, k, 0, 0, FALSE)
<1>1. 0 = 0 + 0 /\ k = 0 + k /\ 1 = 1 + 0 /\ 0 \in Nat /\ 1 \in Nat /\ k = k + 0 /\ 1 = 0 + 1
  OBVIOUS
<1>2. Does(Codes, open \o c, at, 0, k, 0, 1, FALSE)
  BY <1>1, DoesNext
<1>3. PICK s, n : s = open \o c /\ n = at + Len(s)
  OBVIOUS
<1>4. n \in Nat
  <2>1. Len(s) \in Nat
    BY <1>2, <1>3, DoesIsSeq
  <2>2. QED
    BY <1>3, <2>1
<1>5. Does(Codes, <<C!Do("PopEnv")>>, n, 0, 0, 1, 0, FALSE)
  BY <1>4, Instructions
<1>6. Does(Codes, s, at, 0, k, 0, 1, FALSE)
  BY <1>2, <1>3
<1>7. Does(Codes, s \o <<C!Do("PopEnv")>>, at, 0, k, 0, 0, FALSE)
  BY <1>1, <1>3, <1>5, <1>6, DoesNext
<1>8. QED
  BY <1>3, <1>7

(* The pieces of a loop, grouped by what they do.                          *)
LEMMA LoopJoined ==
  ASSUME NEW a, NEW b, NEW j, NEW w, NEW n, NEW k,
         IsSeq(a), IsSeq(b), IsSeq(j), IsSeq(w), IsSeq(n), IsSeq(k)
  PROVE  /\ IsSeq((((a \o b) \o j) \o w) \o n)
         /\ ((((a \o b) \o j) \o w) \o n) \o k = a \o (((b \o j) \o (w \o n)) \o k)
<1>1. PICK p, q, r, v : p = a \o b /\ q = b \o j /\ r = w \o n /\ v = p \o j
  OBVIOUS
<1>2. IsSeq(p) /\ IsSeq(q) /\ IsSeq(r)
  BY <1>1, SeqJoined
<1>3. IsSeq(v)
  BY <1>1, <1>2, SeqJoined
<1>4. PICK s, t : s = v \o w /\ t = q \o r
  OBVIOUS
<1>5. IsSeq(s) /\ IsSeq(t)
  BY <1>2, <1>3, <1>4, SeqJoined
<1>6. IsSeq(s \o n)
  BY <1>5, SeqJoined
<1>7. (v \o w) \o n = v \o r
  <2>1. IsSeq(v) /\ IsSeq(w) /\ IsSeq(n)
    BY <1>3
  <2>2. (v \o w) \o n = v \o (w \o n)
    BY ONLY <2>1, JoinAssociative
  <2>3. QED
    BY <1>1, <2>2
<1>8. v = a \o q
  <2>1. IsSeq(a) /\ IsSeq(b) /\ IsSeq(j)
    OBVIOUS
  <2>2. (a \o b) \o j = a \o (b \o j)
    BY ONLY <2>1, JoinAssociative
  <2>3. QED
    BY <1>1, <2>2
<1>9. (a \o q) \o r = a \o t
  <2>1. IsSeq(a) /\ IsSeq(q) /\ IsSeq(r)
    BY <1>2
  <2>2. (a \o q) \o r = a \o (q \o r)
    BY ONLY <2>1, JoinAssociative
  <2>3. QED
    BY <1>4, <2>2
<1>10. (a \o t) \o k = a \o (t \o k)
  <2>1. IsSeq(a) /\ IsSeq(t) /\ IsSeq(k)
    BY <1>5
  <2>2. QED
    BY ONLY <2>1, JoinAssociative
<1>11. QED
  BY <1>1, <1>4, <1>6, <1>7, <1>8, <1>9, <1>10

(* A for loop opens one scope, closes it on leaving, and has one value.    *)
LEMMA LoopDoes ==
  ASSUME NEW Codes, NEW at \in Nat, NEW init, NEW testCall, NEW bind, NEW body, NEW next,
         Does(Codes, init, at, 0, 0, 0, 1, FALSE),
         \A p \in Nat : Value(Codes, C!Call(testCall, p, FALSE), p, FALSE),
         \A p \in Nat : Does(Codes, bind, p, 0, 0, 0, 0, FALSE),
         \A p \in Nat : Does(Codes, next, p, 0, 0, 0, 0, FALSE),
         IsSeq(body), \A k \in 1..Len(body) : Fine(Codes, body[k], FALSE)
  PROVE  Value(Codes, C!Loop(init, testCall, bind, body, next, at), at, FALSE)
<1>1. PICK start, test : start = at + Len(init) /\ test = C!Call(testCall, start, FALSE)
  OBVIOUS
<1>2. start \in Nat
  <2>1. Len(init) \in Nat
    BY DoesIsSeq
  <2>2. QED
    BY <1>1, <2>1
<1>3. Value(Codes, test, start, FALSE)
  BY <1>1, <1>2
<1>4. PICK round : round = start + Len(test) + 1
  OBVIOUS
<1>5. round \in Nat
  <2>1. Len(test) \in Nat
    BY <1>3, DoesIsSeq DEF Value
  <2>2. QED
    BY <1>2, <1>4, <2>1
<1>6. PICK place, each : /\ place = round + Len(bind)
                         /\ each = C!Each(body, place, <<C!Do("Pop")>>)
  OBVIOUS
<1>7. Does(Codes, bind, round, 0, 0, 0, 0, FALSE)
  BY <1>5
<1>8. place \in Nat
  <2>1. Len(bind) \in Nat
    BY <1>7, DoesIsSeq
  <2>2. QED
    BY <1>5, <1>6, <2>1
<1>9. Does(Codes, each, place, 0, 0, 0, 0, FALSE)
  <2>1. Len(body) \in Nat
    BY LenIsNat
  <2>2. QED
    BY <1>6, <1>8, <2>1, EffectsDo
<1>10. PICK work : work = bind \o each
  OBVIOUS
<1>11. Does(Codes, work, round, 0, 0, 0, 0, FALSE)
  BY <1>5, <1>6, <1>7, <1>9, <1>10, DoesThen
<1>12. Len(work) \in Nat /\ Len(next) \in Nat /\ IsSeq(work) /\ IsSeq(next)
  <2>1. Does(Codes, next, 0, 0, 0, 0, 0, FALSE)
    OBVIOUS
  <2>2. QED
    BY <1>11, <2>1, DoesIsSeq
<1>13. PICK q, all : q = round + Len(work) /\ all = work \o next
  OBVIOUS
<1>14. q \in Nat
  BY <1>5, <1>12, <1>13
<1>15. Does(Codes, all, round, 0, 0, 0, 0, FALSE)
  BY <1>5, <1>11, <1>13, <1>14, DoesThen
<1>16. Len(all) = Len(work) + Len(next)
  BY <1>12, <1>13, SeqJoined
<1>17. PICK end : end = round + Len(work) + Len(next) + 1
  OBVIOUS
<1>18. end = round + Len(all) + 1
  BY <1>5, <1>12, <1>16, <1>17
<1>19. PICK jump, back : jump = C!JumpIfFalse(end) /\ back = C!Jump(start)
  OBVIOUS
<1>20. jump.op = "JumpIfFalse" /\ jump.to = round + Len(all) + 1 /\ back.op = "Jump" /\ back.to = start
  BY <1>18, <1>19 DEF C!JumpIfFalse, C!Jump
<1>21. PICK rounds : rounds = ((test \o <<jump>>) \o all) \o <<back>>
  OBVIOUS
<1>22. Does(Codes, rounds, start, 0, 0, 0, 0, FALSE)
  BY <1>2, <1>3, <1>4, <1>15, <1>20, <1>21, Rounds
<1>23. PICK scope : scope = (init \o rounds) \o <<C!Do("PopEnv")>>
  OBVIOUS
<1>24. Does(Codes, scope, at, 0, 0, 0, 0, FALSE)
  BY <1>1, <1>22, <1>23, InScopeDoes
<1>25. Value(Codes, scope \o <<C!LoadConst(C!Nil)>>, at, FALSE)
  <2>1. PICK m : m = at + Len(scope)
    OBVIOUS
  <2>2. Len(scope) \in Nat
    BY <1>24, DoesIsSeq
  <2>3. m \in Nat
    BY <2>1, <2>2
  <2>4. ~Is("fn", C!Nil)
    BY DEF Is, C!Nil
  <2>5. Does(Codes, <<C!LoadConst(C!Nil)>>, m, 0, 1, 0, 0, FALSE)
    BY <2>3, <2>4, Instructions
  <2>6. QED
    BY <1>24, <2>1, <2>5, DoesThen DEF Value
<1>26. C!Loop(init, testCall, bind, body, next, at)
         = ((((init \o test) \o <<jump>>) \o work) \o next)
             \o <<back, C!Do("PopEnv"), C!LoadConst(C!Nil)>>
  BY <1>1, <1>4, <1>6, <1>10, <1>17, <1>19 DEF C!Loop
<1>27. IsSeq(init) /\ IsSeq(test) /\ IsSeq(<<jump>>) /\ IsSeq(<<back>>)
  <2>1. <<jump>> \in Seq({jump}) /\ <<back>> \in Seq({back})
    OBVIOUS
  <2>2. QED
    BY <1>3, <2>1, DoesIsSeq DEF Value, IsSeq
<1>28. C!Loop(init, testCall, bind, body, next, at) = scope \o <<C!LoadConst(C!Nil)>>
  <2>1. PICK j, k, y, z : /\ j = <<jump>> /\ k = <<back>>
                          /\ y = C!Do("PopEnv") /\ z = C!LoadConst(C!Nil)
    OBVIOUS
  <2>2. IsSeq(j) /\ IsSeq(k)
    BY <1>27, <2>1
  <2>3. PICK s : s = (((init \o test) \o j) \o work) \o next
    OBVIOUS
  <2>4. IsSeq(s) /\ s \o k = init \o (((test \o j) \o (work \o next)) \o k)
    <3>1. IsSeq(init) /\ IsSeq(test) /\ IsSeq(j) /\ IsSeq(work) /\ IsSeq(next) /\ IsSeq(k)
      BY <1>12, <1>27, <2>2
    <3>2. /\ IsSeq((((init \o test) \o j) \o work) \o next)
          /\ ((((init \o test) \o j) \o work) \o next) \o k
               = init \o (((test \o j) \o (work \o next)) \o k)
      BY ONLY <3>1, LoopJoined
    <3>3. QED
      BY ONLY <2>3, <3>2
  <2>5. s \o k = init \o rounds
    BY <1>13, <1>21, <2>1, <2>4
  <2>6. s \o <<back, y, z>> = ((s \o k) \o <<y>>) \o <<z>>
    <3>1. IsSeq(s)
      BY <2>4
    <3>2. s \o <<back, y, z>> = ((s \o <<back>>) \o <<y>>) \o <<z>>
      BY ONLY <3>1, ThreeJoined
    <3>3. QED
      BY <2>1, <3>2
  <2>7. QED
    BY <1>23, <1>26, <2>1, <2>3, <2>5, <2>6
<1>29. QED
  BY <1>25, <1>28

(* The expressions from the nth on.                                        *)
LEMMA FromIs ==
  ASSUME NEW es, IsSeq(es), NEW n \in Nat, n >= 1, n <= Len(es) + 1
  PROVE  /\ IsSeq(C!From(es, n)) /\ Len(C!From(es, n)) = Len(es) - n + 1
         /\ \A k \in 1..(Len(es) - n + 1) : C!From(es, n)[k] = es[n + k - 1]
<1>1. PICK S : es \in Seq(S)
  BY DEF IsSeq
<1>2. PICK m : m = Len(es)
  OBVIOUS
<1>3. m \in Nat /\ \A k \in 1..m : es[k] \in S
  BY <1>1, <1>2
<1>4. \A k \in n..m : es[k] \in S
  BY <1>3
<1>5. PICK f : f = SubSeq(es, n, m)
  OBVIOUS
<1>6. n \in 1..(m + 1) /\ m \in (n - 1)..m
  BY <1>2, <1>3
<1>7. f \in Seq(S) /\ Len(f) = m - n + 1 /\ \A k \in 1..(m - n + 1) : f[k] = es[n + k - 1]
  <2>1. f \in Seq(S)
    BY <1>1, <1>2, <1>3, <1>4, <1>5, SubSeqProperties
  <2>2. Len(f) = IF n <= m THEN m - n + 1 ELSE 0
    BY <1>1, <1>2, <1>3, <1>4, <1>5, SubSeqProperties
  <2>3. \A k \in 1..(m - n + 1) : f[k] = es[n + k - 1]
    BY <1>1, <1>2, <1>3, <1>4, <1>5, SubSeqProperties
  <2>4. QED
    BY <1>2, <1>3, <2>1, <2>2, <2>3
<1>8. C!From(es, n) = f
  BY <1>2, <1>5 DEF C!From
<1>9. QED
  BY <1>2, <1>7, <1>8 DEF IsSeq

(* Code without tail calls does in tail position too.                      *)
LEMMA ValueAny ==
  ASSUME NEW Codes, NEW c, NEW at, NEW alone, Value(Codes, c, at, FALSE)
  PROVE  Value(Codes, c, at, alone)
BY DEF Value, Does

(* What every step of a fold keeps, the fold keeps.                        *)
LEMMA TraceKeeps ==
  ASSUME NEW Codes, NEW t, NEW N \in Nat, NEW at, NEW p, NEW q, NEW x, NEW y,
         Does(Codes, t[0], at, p, q, x, y, FALSE),
         \A k \in 1..N : Does(Codes, t[k - 1], at, p, q, x, y, FALSE)
                           => Does(Codes, t[k], at, p, q, x, y, FALSE)
  PROVE  Does(Codes, t[N], at, p, q, x, y, FALSE)
<1> DEFINE S == {n \in Nat : Does(Codes, t[n], at, p, q, x, y, FALSE)}
<1>1. 0 \in S
  OBVIOUS
<1>2. ASSUME NEW n \in 0..(N - 1), n \in S PROVE n + 1 \in S
  <2>1. n + 1 \in 1..N /\ (n + 1) - 1 = n /\ n + 1 \in Nat
    OBVIOUS
  <2>2. Does(Codes, t[n + 1], at, p, q, x, y, FALSE)
    BY <1>2, <2>1
  <2>3. QED
    BY <2>1, <2>2, Zenon
<1> HIDE DEF S
<1>3. 0..N \subseteq S
  BY <1>1, <1>2, Emitting!RangeInduces
<1>4. N \in S
  BY <1>3
<1>5. QED
  BY <1>4 DEF S

(* Names taken off the stack, one by one.                                  *)
LEMMA StoresDo ==
  ASSUME NEW Codes, NEW c, IsSeq(c), NEW n \in Nat, Len(c) = n, NEW at \in Nat,
         \A k \in 1..n : c[k].op = "StoreVar", NEW x \in Nat
  PROVE  Does(Codes, c, at, n, 0, x, x, FALSE)
<1>1. ASSUME NEW k \in 1..n
      PROVE  Sane(Codes, c[k]) /\ Needs(c[k]) = 1 /\ Leaves(c[k]) = 0 /\ Opens(c[k]) = 0
  BY <1>1 DEF Sane, Needs, Leaves, Opens
<1>2. Fragment(Codes, c)
  BY <1>1 DEF Fragment, AllSane
<1>3. ASSUME NEW a \in Nat, NEW u \in Nat
      PROVE  Moves(c, at, {}, a + n, u + x, a + 0, u + x)
  <2>1. PICK b, v : b = a + n /\ v = u + x
    OBVIOUS
  <2>2. b \in Nat /\ v \in Nat
    BY <2>1
  <2> DEFINE d == [i \in Nat |-> IF i \in at..(at + n) THEN b - (i - at) ELSE 0]
             s == [i \in Nat |-> v]
  <2>3. Counts(d) /\ Counts(s)
    BY <2>1, <2>2 DEF Counts
  <2>4. \A i \in at..(at + n) : d[i] = b - (i - at) /\ s[i] = v
    OBVIOUS
  <2> HIDE DEF d, s
  <2>5. ASSUME NEW k \in 1..n PROVE Judged(c[k], at + k - 1, d, s, at, at + n, {})
    <3>1. PICK i, e : i = at + k - 1 /\ e = c[k]
      OBVIOUS
    <3>2. i \in at..(at + n) /\ i + 1 \in at..(at + n) /\ i - at = k - 1 /\ i + 1 - at = k
      BY <3>1
    <3>3. /\ d[i] = b - (k - 1) /\ d[i + 1] = b - k /\ s[i] = v /\ s[i + 1] = v
      BY <2>4, <3>2
    <3>4. e.op = "StoreVar" /\ Needs(e) = 1 /\ Leaves(e) = 0 /\ Opens(e) = 0
      BY <1>1, <3>1
    <3>5. b - (k - 1) >= 1 /\ b - k = b - (k - 1) - 1 + 0 /\ v + 0 >= 0 /\ v = v + 0
      BY <2>1, <2>2
    <3>6. Judged(e, i, d, s, at, at + n, {})
      BY <3>3, <3>4, <3>5 DEF Judged
    <3>7. QED
      BY <3>1, <3>6
  <2>6. /\ d[at] = b /\ s[at] = v /\ d[at + n] = a /\ s[at + n] = v
        /\ at \in at..(at + n) /\ at + n \in at..(at + n)
    BY <2>1, <2>4
  <2>7. Annotates(c, at, {}, {<<at, b, v>>, <<at + n, a, v>>}, d, s)
    BY <2>5, <2>6 DEF Annotates
  <2>8. Moves(c, at, {}, b, v, a, v)
    BY <2>3, <2>7 DEF Moves, Adds, Ends
  <2>9. a + 0 = a
    OBVIOUS
  <2>10. QED
    BY <2>1, <2>8, <2>9
<1>4. QED
  BY <1>2, <1>3 DEF Does

(* A function on 1..n is a sequence.                                       *)
LEMMA FunctionsAreSeqs ==
  ASSUME NEW f, NEW n \in Nat, f = [k \in 1..n |-> f[k]]
  PROVE  IsSeq(f) /\ Len(f) = n
<1> DEFINE V == {f[k] : k \in 1..n}
<1>1. f \in [1..n -> V]
  OBVIOUS
<1> HIDE DEF V
<1>2. f \in Seq(V) /\ Len(f) = n
  BY <1>1, FunctionIsSeq
<1>3. QED
  BY <1>2 DEF IsSeq

(* A begin has one value, also when it is empty.                           *)
LEMMA BeginDoes ==
  ASSUME NEW Codes, NEW es, IsSeq(es), Len(es) >= 1, NEW at \in Nat, NEW tail \in BOOLEAN,
         \A k \in 2..(Len(es) - 1) : Fine(Codes, es[k], FALSE),
         Len(es) >= 2 => Fine(Codes, es[Len(es)], tail)
  PROVE  Value(Codes, C!Begin(es, at, tail), at, tail)
<1>1. PICK n : n = Len(es)
  OBVIOUS
<1>2. n \in Nat
  BY <1>1, LenIsNat
<1>3. CASE n = 1
  <2>1. C!Begin(es, at, tail) = <<C!LoadConst(C!Nil)>> /\ ~Is("fn", C!Nil)
    BY <1>1, <1>3 DEF C!Begin, Is, C!Nil
  <2>2. Value(Codes, C!Begin(es, at, tail), at, FALSE)
    BY <2>1, Instructions DEF Value
  <2>3. QED
    BY <2>2, ValueAny
<1>4. CASE n # 1
  <2>1. PICK r, m : r = Tail(es) /\ m = n - 1
    OBVIOUS
  <2>2. IsSeq(r) /\ Len(r) = m /\ m \in Nat /\ m >= 1 /\ \A k \in 1..m : r[k] = es[k + 1]
    <3>1. PICK S : es \in Seq(S)
      BY DEF IsSeq
    <3>2. es # << >>
      BY <1>1, <3>1
    <3>3. r \in Seq(S) /\ Len(r) = m /\ \A k \in 1..m : r[k] = es[k + 1]
      BY <1>1, <1>2, <2>1, <3>1, <3>2
    <3>4. m \in Nat /\ m >= 1
      BY <1>1, <1>2, <1>4, <2>1
    <3>5. QED
      BY <3>3, <3>4 DEF IsSeq
  <2>3. \A k \in 1..(m - 1) : Fine(Codes, r[k], FALSE)
    <3>1. ASSUME NEW k \in 1..(m - 1) PROVE Fine(Codes, r[k], FALSE)
      <4>1. k + 1 \in 2..(Len(es) - 1) /\ k \in 1..m
        BY <1>1, <1>2, <2>1
      <4>2. QED
        BY <2>2, <4>1
    <3>2. QED
      BY <3>1
  <2>4. Fine(Codes, r[m], tail)
    <3>1. m \in 1..m /\ m + 1 = Len(es) /\ Len(es) >= 2
      BY <1>1, <1>2, <2>1, <2>2
    <3>2. QED
      BY <2>2, <3>1
  <2>5. Value(Codes, C!Body(r, at, tail), at, tail)
    BY <2>2, <2>3, <2>4, BodyDoes
  <2>6. C!Begin(es, at, tail) = C!Body(r, at, tail)
    BY <1>1, <1>4, <2>1 DEF C!Begin
  <2>7. QED
    BY <2>5, <2>6
<1>5. QED
  BY <1>3, <1>4

(* The bodies of let, let* and lambda: the third part and what follows.    *)
LEMMA BodiesDo ==
  ASSUME NEW Codes, NEW es, IsSeq(es), Len(es) >= 3, NEW at \in Nat, NEW tail \in BOOLEAN,
         \A k \in 3..(Len(es) - 1) : Fine(Codes, es[k], FALSE),
         Fine(Codes, es[Len(es)], tail)
  PROVE  Value(Codes, C!Body(C!From(es, 3), at, tail), at, tail)
<1>1. PICK n, m, r : n = Len(es) /\ m = n - 2 /\ r = C!From(es, 3)
  OBVIOUS
<1>2. n \in Nat /\ m \in Nat /\ m >= 1 /\ Len(es) - 3 + 1 = m
  BY <1>1, LenIsNat
<1>3. IsSeq(r) /\ Len(r) = m /\ \A k \in 1..m : r[k] = es[3 + k - 1]
  <2>1. 3 \in Nat /\ 3 >= 1 /\ 3 <= Len(es) + 1
    BY <1>1, <1>2
  <2>2. /\ IsSeq(C!From(es, 3)) /\ Len(C!From(es, 3)) = Len(es) - 3 + 1
        /\ \A k \in 1..(Len(es) - 3 + 1) : C!From(es, 3)[k] = es[3 + k - 1]
    BY <2>1, FromIs
  <2>3. QED
    BY <1>1, <1>2, <2>2
<1>4. ASSUME NEW k \in 1..(m - 1) PROVE Fine(Codes, r[k], FALSE)
  <2>1. 3 + k - 1 \in 3..(Len(es) - 1) /\ k \in 1..m
    BY <1>1, <1>2
  <2>2. QED
    BY <1>3, <2>1
<1>5. Fine(Codes, r[m], tail)
  <2>1. m \in 1..m /\ 3 + m - 1 = Len(es)
    BY <1>1, <1>2
  <2>2. QED
    BY <1>3, <2>1
<1>6. QED
  BY <1>1, <1>2, <1>3, <1>4, <1>5, BodyDoes

(* An expression stored or assigned, and nil in its place.                 *)
LEMMA SetDoes ==
  ASSUME NEW Codes, NEW c, NEW at \in Nat, Value(Codes, c, at, FALSE), NEW x,
         Simple(Codes, x, 1, 0, 0, 0), NEW r, r = c \o <<x, C!LoadConst(C!Nil)>>
  PROVE  Value(Codes, r, at, FALSE)
<1>1. PICK y, m : y = C!LoadConst(C!Nil) /\ m = at + Len(c)
  OBVIOUS
<1>3. m \in Nat /\ IsSeq(c)
  <2>1. Len(c) \in Nat /\ IsSeq(c)
    BY DoesIsSeq DEF Value
  <2>2. QED
    BY <1>1, <2>1
<1>4. Does(Codes, <<x>>, m, 1, 0, 0, 0, FALSE)
  BY <1>3, SimpleDoes
<1>5. Does(Codes, c \o <<x>>, at, 0, 0, 0, 0, FALSE)
  BY <1>1, <1>4, DoesThen DEF Value
<1>6. PICK n, s : n = at + Len(s) /\ s = c \o <<x>>
  OBVIOUS
<1>7. n \in Nat
  <2>1. Len(s) \in Nat
    BY <1>5, <1>6, DoesIsSeq
  <2>2. QED
    BY <1>6, <2>1
<1>8. ~Is("fn", C!Nil)
  BY DEF Is, C!Nil
<1>9. Does(Codes, <<y>>, n, 0, 1, 0, 0, FALSE)
  BY <1>1, <1>7, <1>8, Instructions
<1>10. Does(Codes, s, at, 0, 0, 0, 0, FALSE)
  BY <1>5, <1>6
<1>11. Does(Codes, s \o <<y>>, at, 0, 1, 0, 0, FALSE)
  BY <1>6, <1>9, <1>10, DoesThen
<1>12. c \o <<x, y>> = (c \o <<x>>) \o <<y>>
  <2>1. PICK S : c \in Seq(S)
    BY <1>3 DEF IsSeq
  <2> DEFINE T == S \cup {x, y}
  <2>2. c \in Seq(T) /\ <<x>> \in Seq(T) /\ <<y>> \in Seq(T)
    BY <2>1
  <2>3. <<x>> \o <<y>> = <<x, y>>
    <3>1. PICK a : a = <<x>> \o <<y>>
      OBVIOUS
    <3>2. a \in Seq(T) /\ <<x, y>> \in Seq(T) /\ Len(a) = 2 /\ Len(<<x, y>>) = 2
      BY <2>2, <3>1
    <3>3. a[1] = x /\ a[2] = y /\ <<x, y>>[1] = x /\ <<x, y>>[2] = y
      BY <2>2, <3>1
    <3>4. \A k \in 1..2 : k = 1 \/ k = 2
      OBVIOUS
    <3> HIDE DEF T
    <3>5. QED
      BY <3>1, <3>2, <3>3, <3>4, SeqEqual
  <2> HIDE DEF T
  <2>4. c \o (<<x>> \o <<y>>) = (c \o <<x>>) \o <<y>>
    BY <2>2, ConcatAssociative
  <2>5. QED
    BY <2>3, <2>4
<1>13. QED
  BY <1>1, <1>6, <1>11, <1>12 DEF Value

(* A let stores each initialiser it computed, in one scope that it closes. *)
LEMMA LetDoes ==
  ASSUME NEW Codes, NEW es, IsSeq(es), Len(es) >= 3, NEW at \in Nat,
         NEW bs, bs = es[2].list, IsSeq(bs),
         \A k \in 1..Len(bs) : Fine(Codes, bs[k].list[2], FALSE),
         \A k \in 3..Len(es) : Fine(Codes, es[k], FALSE)
  PROVE  Value(Codes, C!Let(es, at), at, FALSE)
<1>1. PICK n : n = Len(bs)
  OBVIOUS
<1>2. n \in Nat
  BY <1>1, LenIsNat
<1>3. PICK inits : inits = [k \in 1..n |-> bs[k].list[2]]
  OBVIOUS
<1>4. IsSeq(inits) /\ Len(inits) = n /\ DOMAIN inits = 1..n
      /\ \A k \in 1..n : Fine(Codes, inits[k], FALSE)
  <2>1. inits = [k \in 1..n |-> inits[k]] /\ \A k \in 1..n : inits[k] = bs[k].list[2]
    BY <1>3
  <2>2. IsSeq(inits) /\ Len(inits) = n
    BY <1>2, <2>1, FunctionsAreSeqs
  <2>3. QED
    BY <1>1, <1>3, <2>1, <2>2
<1>5. PICK first : first = C!Each(inits, at, << >>)
  OBVIOUS
<1>6. Does(Codes, first, at, 0, n, 0, 0, FALSE)
  <2>1. TRUE \in BOOLEAN /\ Held(TRUE, n) = n /\ Held(TRUE, 1) = 1 /\ 1 \in Nat
    BY DEF Held
  <2>2. \A k \in Nat : at + k \in Nat
    OBVIOUS
  <2>3. \A k \in Nat : Does(Codes, << >>, at + k, 1, Held(TRUE, 1), 0, 0, FALSE)
    BY <2>1, <2>2, NothingDoes
  <2>4. \A k \in 1..n : \A m \in Nat : Value(Codes, Code(inits[k], at + m, FALSE), at + m, FALSE)
    BY <1>4, <2>2, FineAt
  <2>5. Does(Codes, first, at, 0, Held(TRUE, n), 0, 0, FALSE)
    BY <1>2, <1>4, <1>5, <2>1, <2>3, <2>4, EachDoes
  <2>6. QED
    BY <2>1, <2>5
<1>7. PICK stores : stores = [k \in 1..n |-> C!StoreVar(C!Reverse(C!Names(bs))[k])]
  OBVIOUS
<1>8. IsSeq(stores) /\ Len(stores) = n /\ \A k \in 1..n : stores[k].op = "StoreVar"
  <2>1. stores = [k \in 1..n |-> stores[k]]
    BY <1>7
  <2>2. \A k \in 1..n : stores[k] = C!StoreVar(C!Reverse(C!Names(bs))[k])
    BY <1>7
  <2>5. \A v : C!StoreVar(v).op = "StoreVar"
    BY DEF C!StoreVar
  <2>3. \A k \in 1..n : stores[k].op = "StoreVar"
    BY <2>2, <2>5
  <2>4. QED
    BY <1>2, <2>1, <2>3, FunctionsAreSeqs
<1>9. PICK push, s, m : push = <<C!Do("PushEnv")>> /\ s = first \o push /\ m = at + Len(first)
  OBVIOUS
<1>10. m \in Nat
  <2>1. Len(first) \in Nat
    BY <1>6, DoesIsSeq
  <2>2. QED
    BY <1>9, <2>1
<1>11. Does(Codes, s, at, 0, n, 0, 1, FALSE)
  <2>1. Does(Codes, push, m, 0, 0, 0, 1, FALSE)
    BY <1>9, <1>10, Instructions
  <2>2. n = n + 0 /\ 0 = 0 + 0 /\ 1 = 0 + 1 /\ 0 \in Nat /\ 1 \in Nat
    BY <1>2
  <2>3. QED
    BY <1>2, <1>6, <1>9, <2>1, <2>2, DoesNext
<1>12. PICK p, open : p = at + Len(s) /\ open = s \o stores
  OBVIOUS
<1>13. p \in Nat
  <2>1. Len(s) \in Nat
    BY <1>11, DoesIsSeq
  <2>2. QED
    BY <1>12, <2>1
<1>14. Does(Codes, open, at, 0, 0, 0, 1, FALSE)
  <2>1. Does(Codes, stores, p, n, 0, 1, 1, FALSE)
    BY <1>2, <1>8, <1>13, StoresDo
  <2>2. QED
    BY <1>11, <1>12, <2>1, DoesThen
<1>15. PICK q, body : q = at + Len(open) /\ body = C!Body(C!From(es, 3), q, FALSE)
  OBVIOUS
<1>16. q \in Nat
  <2>1. Len(open) \in Nat
    BY <1>14, DoesIsSeq
  <2>2. QED
    BY <1>15, <2>1
<1>17. Value(Codes, body, q, FALSE)
  <2>1. Len(es) \in Nat
    BY LenIsNat
  <2>2. Len(es) \in 3..Len(es) /\ 3..(Len(es) - 1) \subseteq 3..Len(es)
    BY <2>1
  <2>3. Fine(Codes, es[Len(es)], FALSE) /\ \A k \in 3..(Len(es) - 1) : Fine(Codes, es[k], FALSE)
    BY <2>2
  <2>4. QED
    BY <1>15, <1>16, <2>3, BodiesDo
<1>18. Does(Codes, (open \o body) \o <<C!Do("PopEnv")>>, at, 0, 1, 0, 0, FALSE)
  BY <1>14, <1>15, <1>17, InScopeDoes DEF Value
<1>19. C!Let(es, at) = (open \o body) \o <<C!Do("PopEnv")>>
  BY <1>1, <1>3, <1>5, <1>7, <1>9, <1>12, <1>15 DEF C!Let
<1>20. QED
  BY <1>18, <1>19 DEF Value

(* let*: each name bound before the next initialiser.                      *)
BindStep(given, acc, b) ==
  acc \o Code(b.list[2], given + Len(acc), FALSE) \o <<C!StoreVar(b.list[1].sym)>>
Binding == INSTANCE Folding WITH Step <- BindStep

(* The fold that compiles the bindings of a let*, step by step.            *)
LEMMA FoldBindings ==
  ASSUME NEW bs, NEW at, NEW N \in Nat, DOMAIN bs = 1..N
  PROVE  \E t : /\ DOMAIN t = 0..N
                /\ t[0] = <<C!Do("PushEnv")>>
                /\ \A k \in 1..N : t[k] = BindStep(at, t[k - 1], bs[k])
                /\ t[N] = C!InTurn(bs, at)
<1> PICK base : base = <<C!Do("PushEnv")>>
  OBVIOUS
<1> PICK end : end = Binding!FoldOf(at, base, bs, N)
  OBVIOUS
<1>1. C!InTurn(bs, at) = end
  BY DEF C!InTurn, BindStep, C!FoldLeft, C!MapThenFoldSet, C!Max, Binding!FoldOf, Binding!Iterates,
         Binding!Largest
<1>2. PICK t : Binding!IsTrace(t, at, base, bs, N) /\ t[N] = end
  BY Binding!FoldTrace
<1>3. QED
  BY <1>1, <1>2 DEF Binding!IsTrace

(* A let* stores each initialiser before the next, in one scope that it    *)
(* closes.                                                                 *)
LEMMA LetStarDoes ==
  ASSUME NEW Codes, NEW es, IsSeq(es), Len(es) >= 3, NEW at \in Nat,
         NEW bs, bs = es[2].list, IsSeq(bs),
         \A k \in 1..Len(bs) : Fine(Codes, bs[k].list[2], FALSE),
         \A k \in 3..Len(es) : Fine(Codes, es[k], FALSE)
  PROVE  Value(Codes, C!LetStar(es, at), at, FALSE)
<1>1. PICK N : N = Len(bs)
  OBVIOUS
<1>2. N \in Nat /\ DOMAIN bs = 1..N
  BY <1>1, SeqDomain
<1>3. PICK t : /\ DOMAIN t = 0..N
               /\ t[0] = <<C!Do("PushEnv")>>
               /\ \A k \in 1..N : t[k] = BindStep(at, t[k - 1], bs[k])
               /\ t[N] = C!InTurn(bs, at)
  BY <1>2, FoldBindings
<1>4. Does(Codes, t[0], at, 0, 0, 0, 1, FALSE)
  BY <1>3, Instructions
<1>5. ASSUME NEW k \in 1..N, Does(Codes, t[k - 1], at, 0, 0, 0, 1, FALSE)
      PROVE  Does(Codes, t[k], at, 0, 0, 0, 1, FALSE)
  <2>1. PICK acc, e, x : acc = t[k - 1] /\ e = bs[k].list[2] /\ x = <<C!StoreVar(bs[k].list[1].sym)>>
    OBVIOUS
  <2>2. PICK m, c : m = at + Len(acc) /\ c = Code(e, m, FALSE)
    OBVIOUS
  <2>3. t[k] = (acc \o c) \o x
    BY <1>3, <2>1, <2>2 DEF BindStep
  <2>4. Does(Codes, acc, at, 0, 0, 0, 1, FALSE)
    BY <1>5, <2>1
  <2>5. m \in Nat
    <3>1. Len(acc) \in Nat
      BY <2>4, DoesIsSeq
    <3>2. QED
      BY <2>2, <3>1
  <2>6. Does(Codes, c, m, 0, 1, 0, 0, FALSE)
    <3>1. Fine(Codes, e, FALSE)
      BY <1>1, <2>1
    <3>2. QED
      BY <2>2, <2>5, <3>1, FineAt DEF Value
  <2>7. 0 = 0 + 0 /\ 1 = 1 + 0 /\ 1 = 0 + 1 /\ 0 \in Nat /\ 1 \in Nat
    OBVIOUS
  <2>8. PICK s, n : s = acc \o c /\ n = at + Len(s)
    OBVIOUS
  <2>9. Does(Codes, s, at, 0, 1, 0, 1, FALSE)
    BY <2>2, <2>4, <2>6, <2>7, <2>8, DoesNext
  <2>10. n \in Nat
    <3>1. Len(s) \in Nat
      BY <2>9, DoesIsSeq
    <3>2. QED
      BY <2>8, <3>1
  <2>11. Does(Codes, x, n, 1, 0, 0, 0, FALSE)
    BY <2>1, <2>10, Instructions
  <2>12. Does(Codes, s \o x, at, 0, 0, 0, 1, FALSE)
    BY <2>7, <2>8, <2>9, <2>11, DoesNext
  <2>13. QED
    BY <2>3, <2>8, <2>12
<1>6. PICK open : open = C!InTurn(bs, at)
  OBVIOUS
<1>7. Does(Codes, open, at, 0, 0, 0, 1, FALSE)
  <2>1. Does(Codes, t[N], at, 0, 0, 0, 1, FALSE)
    BY <1>2, <1>4, <1>5, TraceKeeps
  <2>2. QED
    BY <1>3, <1>6, <2>1
<1>8. PICK q, body : q = at + Len(open) /\ body = C!Body(C!From(es, 3), q, FALSE)
  OBVIOUS
<1>9. q \in Nat
  <2>1. Len(open) \in Nat
    BY <1>7, DoesIsSeq
  <2>2. QED
    BY <1>8, <2>1
<1>10. Value(Codes, body, q, FALSE)
  <2>1. Len(es) \in Nat
    BY LenIsNat
  <2>2. Len(es) \in 3..Len(es) /\ 3..(Len(es) - 1) \subseteq 3..Len(es)
    BY <2>1
  <2>3. Fine(Codes, es[Len(es)], FALSE) /\ \A k \in 3..(Len(es) - 1) : Fine(Codes, es[k], FALSE)
    BY <2>2
  <2>4. QED
    BY <1>8, <1>9, <2>3, BodiesDo
<1>11. Does(Codes, (open \o body) \o <<C!Do("PopEnv")>>, at, 0, 1, 0, 0, FALSE)
  BY <1>7, <1>8, <1>10, InScopeDoes DEF Value
<1>12. C!LetStar(es, at) = (open \o body) \o <<C!Do("PopEnv")>>
  BY <1>6, <1>8 DEF C!LetStar
<1>13. QED
  BY <1>11, <1>12 DEF Value

(* A lambda is one instruction; its code is a chunk of its own.            *)
LEMMA LambdaDoes ==
  ASSUME NEW Codes, NEW es, NEW self, C!LambdaChunk(es, self) \in Codes, NEW at \in Nat
  PROVE  Value(Codes, C!Lambda(es, self), at, FALSE)
<1>1. PICK c : c = C!Lambda(es, self)[1]
  OBVIOUS
<1>2. C!Lambda(es, self) = <<c>> /\ c.op = "MakeFunc" /\ c.code = C!LambdaChunk(es, self)
  BY <1>1 DEF C!Lambda
<1>3. QED
  BY <1>2, MakingDoes DEF Value

(* A define, of a lambda and of anything else.                             *)
LEMMA DefineDoes ==
  ASSUME NEW Codes, NEW es, NEW at \in Nat,
         IF C!IsCall(es[3], "lambda")
         THEN C!LambdaChunk(es[3].list, <<[op |-> "StoreSelf", name |-> es[2].sym]>>) \in Codes
         ELSE Fine(Codes, es[3], FALSE)
  PROVE  Value(Codes, C!Define(es, at), at, FALSE)
<1>1. PICK self, c, x : /\ self = <<[op |-> "StoreSelf", name |-> es[2].sym]>>
                        /\ c = IF C!IsCall(es[3], "lambda") THEN C!Lambda(es[3].list, self)
                               ELSE Code(es[3], at, FALSE)
                        /\ x = C!StoreVar(es[2].sym)
  OBVIOUS
<1>2. Value(Codes, c, at, FALSE)
  <2>1. CASE C!IsCall(es[3], "lambda")
    BY <1>1, <2>1, LambdaDoes
  <2>2. CASE ~C!IsCall(es[3], "lambda")
    BY <1>1, <2>2, FineAt
  <2>3. QED
    BY <2>1, <2>2
<1>3. Simple(Codes, x, 1, 0, 0, 0)
  BY <1>1 DEF C!StoreVar, Simple, Sane, Needs, Leaves, Opens
<1>4. PICK r : r = c \o <<x, C!LoadConst(C!Nil)>>
  OBVIOUS
<1>5. Value(Codes, r, at, FALSE)
  BY <1>2, <1>3, <1>4, SetDoes
<1>6. C!Define(es, at) = r
  BY <1>1, <1>4 DEF C!Define
<1>7. QED
  BY <1>5, <1>6

(* A set!.                                                                 *)
LEMMA SetFormDoes ==
  ASSUME NEW Codes, NEW es, NEW at \in Nat, Fine(Codes, es[3], FALSE)
  PROVE  Value(Codes, C!Set(es, at), at, FALSE)
<1>1. PICK c, x : c = Code(es[3], at, FALSE) /\ x = [op |-> "AssignVar", name |-> es[2].sym]
  OBVIOUS
<1>2. Value(Codes, c, at, FALSE)
  BY <1>1, FineAt
<1>3. Simple(Codes, x, 1, 0, 0, 0)
  BY <1>1 DEF Simple, Sane, Needs, Leaves, Opens
<1>4. PICK r : r = c \o <<x, C!LoadConst(C!Nil)>>
  OBVIOUS
<1>5. Value(Codes, r, at, FALSE)
  BY <1>2, <1>3, <1>4, SetDoes
<1>6. C!Set(es, at) = r
  BY <1>1, <1>4 DEF C!Set
<1>7. QED
  BY <1>5, <1>6

Longer(s, t, n, x) ==
  /\ IsSeq(s) /\ IsSeq(t) /\ Len(s) = n /\ Len(t) = n + 1
  /\ t[n + 1] = x /\ \A k \in 1..n : t[k] = s[k]
(* A sequence with one more at its end.                                    *)
LEMMA Ended ==
  ASSUME NEW s, NEW t, NEW n \in Nat, NEW x, Longer(s, t, n, x)
  PROVE  t = s \o <<x>>
<1>1. PICK S : s \in Seq(S)
  BY DEF Longer, IsSeq
<1>2. PICK T : t \in Seq(T)
  BY DEF Longer, IsSeq
<1> DEFINE U == S \cup T \cup {x}
<1>3. s \in Seq(U) /\ t \in Seq(U) /\ <<x>> \in Seq(U)
  BY <1>1, <1>2
<1> HIDE DEF U
<1>4. PICK r : r = s \o <<x>>
  OBVIOUS
<1>0. Len(s) = n /\ Len(t) = n + 1 /\ t[n + 1] = x /\ \A k \in 1..n : t[k] = s[k]
  BY DEF Longer
<1>5. r \in Seq(U) /\ Len(r) = n + 1 /\ (\A k \in 1..n : r[k] = s[k]) /\ r[n + 1] = x
  BY <1>0, <1>3, <1>4
<1>6. \A k \in 1..Len(t) : t[k] = r[k]
  BY <1>0, <1>5
<1>7. QED
  BY <1>0, <1>3, <1>4, <1>5, <1>6, SeqEqual

(* The head of a loop over numbers.                                        *)
LEMMA OpeningDoes ==
  ASSUME NEW Codes, NEW at \in Nat, NEW a, NEW b, NEW c, NEW d, NEW e,
         Simple(Codes, a, 0, 0, 0, 1), Simple(Codes, b, 0, 1, 0, 0), Simple(Codes, c, 1, 0, 0, 0),
         Simple(Codes, d, 0, 1, 0, 0), Simple(Codes, e, 1, 0, 0, 0)
  PROVE  Does(Codes, <<a, b, c, d, e>>, at, 0, 0, 0, 1, FALSE)
<1>1. /\ 0 = 0 + 0 /\ 1 = 1 + 0 /\ 1 = 0 + 1 /\ 0 \in Nat /\ 1 \in Nat
  OBVIOUS
<1>2. PICK t1, t2, t3, t4, t5 : /\ t1 = <<a>> /\ t2 = <<a, b>> /\ t3 = <<a, b, c>>
                                /\ t4 = <<a, b, c, d>> /\ t5 = <<a, b, c, d, e>>
  OBVIOUS
<1>3. t2 = t1 \o <<b>> /\ t3 = t2 \o <<c>> /\ t4 = t3 \o <<d>> /\ t5 = t4 \o <<e>>
  <2> DEFINE T == {a, b, c, d, e}
  <2>1. t1 \in Seq(T) /\ t2 \in Seq(T) /\ t3 \in Seq(T) /\ t4 \in Seq(T) /\ t5 \in Seq(T)
    BY <1>2
  <2> HIDE DEF T
  <2>2. IsSeq(t1) /\ IsSeq(t2) /\ IsSeq(t3) /\ IsSeq(t4) /\ IsSeq(t5)
    BY <2>1 DEF IsSeq
  <2>3. Len(t1) = 1 /\ Len(t2) = 2 /\ Len(t3) = 3 /\ Len(t4) = 4 /\ Len(t5) = 5
    BY <1>2
  <2>4. t1[1] = a /\ t2[1] = a /\ t3[1] = a /\ t4[1] = a /\ t5[1] = a
    BY <1>2
  <2>5. t2[2] = b /\ t3[2] = b /\ t4[2] = b /\ t5[2] = b
    BY <1>2
  <2>6. t3[3] = c /\ t4[3] = c /\ t5[3] = c /\ t4[4] = d /\ t5[4] = d /\ t5[5] = e
    BY <1>2
  <2>7. t2 = t1 \o <<b>>
    <3>1. 1 \in Nat /\ Len(t2) = 1 + 1 /\ t2[1 + 1] = b /\ \A k \in 1..1 : t2[k] = t1[k]
      BY <2>3, <2>4, <2>5, <2>6
    <3>2. PICK n \in Nat : n = 1
      OBVIOUS
    <3>3. Longer(t1, t2, n, b)
      BY <2>2, <2>3, <3>1, <3>2 DEF Longer
    <3>4. QED
      BY ONLY <3>2, <3>3, Ended
  <2>8. t3 = t2 \o <<c>>
    <3>1. 2 \in Nat /\ Len(t3) = 2 + 1 /\ t3[2 + 1] = c /\ \A k \in 1..2 : t3[k] = t2[k]
      BY <2>3, <2>4, <2>5, <2>6
    <3>2. PICK n \in Nat : n = 2
      OBVIOUS
    <3>3. Longer(t2, t3, n, c)
      BY <2>2, <2>3, <3>1, <3>2 DEF Longer
    <3>4. QED
      BY ONLY <3>2, <3>3, Ended
  <2>9. t4 = t3 \o <<d>>
    <3>1. 3 \in Nat /\ Len(t4) = 3 + 1 /\ t4[3 + 1] = d /\ \A k \in 1..3 : t4[k] = t3[k]
      BY <2>3, <2>4, <2>5, <2>6
    <3>2. PICK n \in Nat : n = 3
      OBVIOUS
    <3>3. Longer(t3, t4, n, d)
      BY <2>2, <2>3, <3>1, <3>2 DEF Longer
    <3>4. QED
      BY ONLY <3>2, <3>3, Ended
  <2>10. t5 = t4 \o <<e>>
    <3>1. 4 \in Nat /\ Len(t5) = 4 + 1 /\ t5[4 + 1] = e /\ \A k \in 1..4 : t5[k] = t4[k]
      BY <2>3, <2>4, <2>5, <2>6
    <3>2. PICK n \in Nat : n = 4
      OBVIOUS
    <3>3. Longer(t4, t5, n, e)
      BY <2>2, <2>3, <3>1, <3>2 DEF Longer
    <3>4. QED
      BY ONLY <3>2, <3>3, Ended
  <2>11. QED
    BY <2>7, <2>8, <2>9, <2>10
<1>4. Does(Codes, t1, at, 0, 0, 0, 1, FALSE)
  BY <1>1, <1>2, SimpleDoes
<1>5. PICK m1, m2, m3, m4 : /\ m1 = at + Len(t1) /\ m2 = at + Len(t2)
                            /\ m3 = at + Len(t3) /\ m4 = at + Len(t4)
  OBVIOUS
<1>6. m1 \in Nat /\ m2 \in Nat /\ m3 \in Nat /\ m4 \in Nat
  BY <1>2, <1>5
<1>7. Does(Codes, t2, at, 0, 1, 0, 1, FALSE)
  <2>1. Does(Codes, <<b>>, m1, 0, 1, 0, 0, FALSE)
    BY <1>1, <1>6, SimpleDoes
  <2>2. QED
    BY <1>1, <1>3, <1>4, <1>5, <2>1, DoesNext
<1>8. Does(Codes, t3, at, 0, 0, 0, 1, FALSE)
  <2>1. Does(Codes, <<c>>, m2, 1, 0, 0, 0, FALSE)
    BY <1>1, <1>6, SimpleDoes
  <2>2. QED
    BY <1>1, <1>3, <1>5, <1>7, <2>1, DoesNext
<1>9. Does(Codes, t4, at, 0, 1, 0, 1, FALSE)
  <2>1. Does(Codes, <<d>>, m3, 0, 1, 0, 0, FALSE)
    BY <1>1, <1>6, SimpleDoes
  <2>2. QED
    BY <1>1, <1>3, <1>5, <1>8, <2>1, DoesNext
<1>10. Does(Codes, t5, at, 0, 0, 0, 1, FALSE)
  <2>1. Does(Codes, <<e>>, m4, 1, 0, 0, 0, FALSE)
    BY <1>1, <1>6, SimpleDoes
  <2>2. QED
    BY <1>1, <1>3, <1>5, <1>9, <2>1, DoesNext
<1>11. QED
  BY <1>2, <1>10

(* The code of an atom does not depend on its place, and may be moved.     *)
Anywhere(Codes, e) == \A p, q \in Nat : Value(Codes, Code(e, p, FALSE), q, FALSE)

(* A call of such expressions may be moved too.                            *)
LEMMA CallAnywhere ==
  ASSUME NEW Codes, NEW es, IsSeq(es), NEW N \in Nat, N >= 1, Len(es) = N,
         \A k \in 1..N : Anywhere(Codes, es[k]), NEW at \in Nat, NEW place \in Nat
  PROVE  Value(Codes, C!Call(es, at, FALSE), place, FALSE)
<1>1. ASSUME NEW k \in 1..N, NEW n \in Nat
      PROVE  Value(Codes, Code(es[k], at + n, FALSE), place + n, FALSE)
  <2>1. Anywhere(Codes, es[k]) /\ at + n \in Nat /\ place + n \in Nat
    OBVIOUS
  <2>2. QED
    BY <2>1 DEF Anywhere
<1>2. QED
  BY <1>1, CallDoes

(* A value stored leaves nothing.                                          *)
LEMMA ThenStored ==
  ASSUME NEW Codes, NEW c, NEW at \in Nat, Value(Codes, c, at, FALSE), NEW n
  PROVE  Does(Codes, c \o <<C!StoreVar(n)>>, at, 0, 0, 0, 0, FALSE)
<1>1. PICK m : m = at + Len(c)
  OBVIOUS
<1>2. m \in Nat
  <2>1. Len(c) \in Nat
    BY DoesIsSeq DEF Value
  <2>2. QED
    BY <1>1, <2>1
<1>3. Does(Codes, c, at, 0, 1, 0, 0, FALSE)
  BY DEF Value
<1>4. Does(Codes, <<C!StoreVar(n)>>, m, 1, 0, 0, 0, FALSE)
  BY <1>2, Instructions
<1>5. 0 = 0 + 0 /\ 1 = 0 + 1 /\ 0 \in Nat /\ 1 \in Nat
  OBVIOUS
<1>6. QED
  BY <1>1, <1>3, <1>4, <1>5, DoesNext

(* Words of one and two and three items are sequences.                     *)
LEMMA Words ==
  ASSUME NEW a, NEW b, NEW c
  PROVE  /\ IsSeq(<<a>>) /\ Len(<<a>>) = 1 /\ <<a>>[1] = a
         /\ IsSeq(<<a, b>>) /\ Len(<<a, b>>) = 2 /\ <<a, b>>[1] = a /\ <<a, b>>[2] = b
         /\ IsSeq(<<a, b, c>>) /\ Len(<<a, b, c>>) = 3
         /\ <<a, b, c>>[1] = a /\ <<a, b, c>>[2] = b /\ <<a, b, c>>[3] = c
<1> DEFINE S == {a, b, c}
<1>1. <<a>> \in Seq(S) /\ <<a, b>> \in Seq(S) /\ <<a, b, c>> \in Seq(S)
  OBVIOUS
<1> HIDE DEF S
<1>2. IsSeq(<<a>>) /\ IsSeq(<<a, b>>) /\ IsSeq(<<a, b, c>>)
  BY <1>1 DEF IsSeq
<1>3. QED
  BY <1>2

(* A call of two of them.                                                  *)
LEMMA CallOfTwo ==
  ASSUME NEW Codes, NEW a, NEW b, Anywhere(Codes, a), Anywhere(Codes, b), NEW at \in Nat,
         NEW place \in Nat
  PROVE  Value(Codes, C!Call(<<a, b>>, at, FALSE), place, FALSE)
<1>1. PICK es : es = <<a, b>>
  OBVIOUS
<1>2. IsSeq(es) /\ Len(es) = 2 /\ es[1] = a /\ es[2] = b
  BY <1>1, Words
<1>3. PICK N \in Nat : N = 2
  OBVIOUS
<1>4. N >= 1 /\ Len(es) = N /\ \A k \in 1..N : Anywhere(Codes, es[k])
  <2>1. \A k \in 1..N : k = 1 \/ k = 2
    BY <1>3
  <2>2. \A k \in 1..N : Anywhere(Codes, es[k])
    BY <1>2, <2>1
  <2>3. QED
    BY <1>2, <1>3, <2>2
<1>5. Value(Codes, C!Call(es, at, FALSE), place, FALSE)
  BY <1>2, <1>4, CallAnywhere
<1>6. QED
  BY <1>1, <1>5

(* A call of three.                                                        *)
LEMMA CallOfThree ==
  ASSUME NEW Codes, NEW a, NEW b, NEW c, Anywhere(Codes, a), Anywhere(Codes, b),
         Anywhere(Codes, c), NEW at \in Nat, NEW place \in Nat
  PROVE  Value(Codes, C!Call(<<a, b, c>>, at, FALSE), place, FALSE)
<1>1. PICK es : es = <<a, b, c>>
  OBVIOUS
<1>2. IsSeq(es) /\ Len(es) = 3 /\ es[1] = a /\ es[2] = b /\ es[3] = c
  BY <1>1, Words
<1>3. PICK N \in Nat : N = 3
  OBVIOUS
<1>4. N >= 1 /\ Len(es) = N /\ \A k \in 1..N : Anywhere(Codes, es[k])
  <2>1. \A k \in 1..N : k = 1 \/ k = 2 \/ k = 3
    BY <1>3
  <2>2. \A k \in 1..N : Anywhere(Codes, es[k])
    BY <1>2, <2>1
  <2>3. QED
    BY <1>2, <1>3, <2>2
<1>5. Value(Codes, C!Call(es, at, FALSE), place, FALSE)
  BY <1>2, <1>4, CallAnywhere
<1>6. QED
  BY <1>1, <1>5

(* The loop over literal bounds, its step compiled away from its place.    *)
LEMMA ForNumericDoes ==
  ASSUME NEW Codes, NEW es, IsSeq(es), Len(es) >= 5, NEW at \in Nat,
         ~Is("fn", es[3]), ~Is("fn", es[4]),
         NEW i, i = C!Sym(es[2].sym), Anywhere(Codes, i),
         Anywhere(Codes, C!Sym("<")), Anywhere(Codes, C!Sym("__for-end")),
         Anywhere(Codes, C!Sym("+")), Anywhere(Codes, C!Num(1)),
         \A k \in 5..Len(es) : Fine(Codes, es[k], FALSE)
  PROVE  Value(Codes, C!ForNumeric(es, at), at, FALSE)
<1>1. PICK init, test, bind, body, next :
        /\ init = <<C!Do("PushEnv"), C!LoadConst(es[3]), C!StoreVar(es[2].sym),
                    C!LoadConst(es[4]), C!StoreVar("__for-end")>>
        /\ test = <<C!Sym("<"), i, C!Sym("__for-end")>>
        /\ bind = << >>
        /\ body = C!From(es, 5)
        /\ next = C!Call(<<C!Sym("+"), i, C!Num(1)>>, 0, FALSE) \o <<C!StoreVar(es[2].sym)>>
  OBVIOUS
<1>2. C!ForNumeric(es, at) = C!Loop(init, test, bind, body, next, at)
  BY <1>1 DEF C!ForNumeric
<1>3. Does(Codes, init, at, 0, 0, 0, 1, FALSE)
  <2>1. /\ Simple(Codes, C!Do("PushEnv"), 0, 0, 0, 1)
        /\ Simple(Codes, C!LoadConst(es[3]), 0, 1, 0, 0)
        /\ Simple(Codes, C!LoadConst(es[4]), 0, 1, 0, 0)
    BY DEF C!Do, C!LoadConst, Simple, Needs, Leaves, Opens, Sane
  <2>2. /\ Simple(Codes, C!StoreVar(es[2].sym), 1, 0, 0, 0)
        /\ Simple(Codes, C!StoreVar("__for-end"), 1, 0, 0, 0)
    BY DEF C!StoreVar, Simple, Needs, Leaves, Opens, Sane
  <2>3. QED
    BY <1>1, <2>1, <2>2, OpeningDoes
<1>4. ASSUME NEW p \in Nat PROVE Value(Codes, C!Call(test, p, FALSE), p, FALSE)
  BY <1>1, CallOfThree
<1>5. ASSUME NEW p \in Nat PROVE Does(Codes, bind, p, 0, 0, 0, 0, FALSE)
  BY <1>1, NothingDoes
<1>6. ASSUME NEW p \in Nat PROVE Does(Codes, next, p, 0, 0, 0, 0, FALSE)
  <2>1. 0 \in Nat
    OBVIOUS
  <2>2. PICK c : c = C!Call(<<C!Sym("+"), i, C!Num(1)>>, 0, FALSE)
    OBVIOUS
  <2>3. Value(Codes, c, p, FALSE)
    BY <2>1, <2>2, CallOfThree
  <2>4. QED
    BY <1>1, <2>2, <2>3, ThenStored
<1>7. IsSeq(body) /\ \A k \in 1..Len(body) : Fine(Codes, body[k], FALSE)
  <2>1. PICK N : N = Len(es)
    OBVIOUS
  <2>2. N \in Nat /\ N >= 5
    BY <2>1, LenIsNat
  <2>3. PICK n \in Nat : n = 5
    OBVIOUS
  <2>4. /\ IsSeq(body) /\ Len(body) = N - n + 1
        /\ \A k \in 1..(N - n + 1) : body[k] = es[n + k - 1]
    <3>1. n >= 1 /\ n <= Len(es) + 1
      BY <2>1, <2>2, <2>3
    <3>2. QED
      BY <1>1, <2>1, <2>3, <3>1, FromIs
  <2>5. ASSUME NEW k \in 1..Len(body) PROVE Fine(Codes, body[k], FALSE)
    <3>1. k \in 1..(N - n + 1) /\ n + k - 1 \in 5..N
      BY <2>2, <2>3, <2>4
    <3>2. QED
      BY <2>1, <2>4, <3>1
  <2>6. QED
    BY <2>4, <2>5
<1>8. Value(Codes, C!Loop(init, test, bind, body, next, at), at, FALSE)
  BY <1>3, <1>4, <1>5, <1>6, <1>7, LoopDoes
<1>9. QED
  BY <1>2, <1>8

(* The loop over a list.                                                   *)
LEMMA ForListDoes ==
  ASSUME NEW Codes, NEW es, IsSeq(es), Len(es) >= 4, NEW at \in Nat,
         Fine(Codes, es[3], FALSE),
         NEW rest, rest = C!Sym("__for-lst"), Anywhere(Codes, rest),
         Anywhere(Codes, C!Sym("not")), Anywhere(Codes, C!List(<<C!Sym("null?"), rest>>)),
         Anywhere(Codes, C!Sym("car")), Anywhere(Codes, C!Sym("cdr")),
         \A k \in 4..Len(es) : Fine(Codes, es[k], FALSE)
  PROVE  Value(Codes, C!ForList(es, at), at, FALSE)
<1>1. PICK init, test, bind, body, next :
        /\ init = <<C!Do("PushEnv")>> \o Code(es[3], at + 1, FALSE) \o <<C!StoreVar("__for-lst")>>
        /\ test = <<C!Sym("not"), C!List(<<C!Sym("null?"), rest>>)>>
        /\ bind = C!Call(<<C!Sym("car"), rest>>, 0, FALSE) \o <<C!StoreVar(es[2].sym)>>
        /\ body = C!From(es, 4)
        /\ next = C!Call(<<C!Sym("cdr"), rest>>, 0, FALSE) \o <<C!StoreVar("__for-lst")>>
  OBVIOUS
<1>2. C!ForList(es, at) = C!Loop(init, test, bind, body, next, at)
  BY <1>1 DEF C!ForList
<1>3. Does(Codes, init, at, 0, 0, 0, 1, FALSE)
  <2>1. PICK a, m, c, s, n : /\ a = <<C!Do("PushEnv")>> /\ m = at + Len(a)
                             /\ c = Code(es[3], m, FALSE) /\ s = a \o c /\ n = at + Len(s)
    OBVIOUS
  <2>2. m = at + 1 /\ m \in Nat
    BY <2>1
  <2>3. Does(Codes, a, at, 0, 0, 0, 1, FALSE)
    BY <2>1, Instructions
  <2>4. Does(Codes, c, m, 0, 1, 0, 0, FALSE)
    BY <2>1, <2>2, FineAt DEF Value
  <2>5. 0 = 0 + 0 /\ 1 = 1 + 0 /\ 1 = 0 + 1 /\ 0 \in Nat /\ 1 \in Nat
    OBVIOUS
  <2>6. Does(Codes, s, at, 0, 1, 0, 1, FALSE)
    BY <2>1, <2>3, <2>4, <2>5, DoesNext
  <2>7. n \in Nat
    <3>1. PICK l : l = Len(s)
      OBVIOUS
    <3>2. l \in Nat
      BY <2>6, <3>1, DoesIsSeq
    <3>3. n = at + l
      BY <2>1, <3>1
    <3>4. QED
      BY ONLY at \in Nat, <3>2, <3>3
  <2>8. PICK x : x = <<C!StoreVar("__for-lst")>>
    OBVIOUS
  <2>9. Does(Codes, x, n, 1, 0, 0, 0, FALSE)
    BY <2>7, <2>8, Instructions
  <2>10. Does(Codes, s \o x, at, 0, 0, 0, 1, FALSE)
    BY <2>1, <2>5, <2>6, <2>9, DoesNext
  <2>11. init = s \o x
    BY <1>1, <2>1, <2>2, <2>8
  <2>12. QED
    BY <2>10, <2>11
<1>4. ASSUME NEW p \in Nat PROVE Value(Codes, C!Call(test, p, FALSE), p, FALSE)
  BY <1>1, CallOfTwo
<1>0. 0 \in Nat
  OBVIOUS
<1>5. ASSUME NEW p \in Nat PROVE Does(Codes, bind, p, 0, 0, 0, 0, FALSE)
  <2>1. PICK c : c = C!Call(<<C!Sym("car"), rest>>, 0, FALSE)
    OBVIOUS
  <2>2. Value(Codes, c, p, FALSE)
    BY <1>0, <2>1, CallOfTwo
  <2>3. QED
    BY <1>1, <2>1, <2>2, ThenStored
<1>6. ASSUME NEW p \in Nat PROVE Does(Codes, next, p, 0, 0, 0, 0, FALSE)
  <2>1. PICK c : c = C!Call(<<C!Sym("cdr"), rest>>, 0, FALSE)
    OBVIOUS
  <2>2. Value(Codes, c, p, FALSE)
    BY <1>0, <2>1, CallOfTwo
  <2>3. QED
    BY <1>1, <2>1, <2>2, ThenStored
<1>7. IsSeq(body) /\ \A k \in 1..Len(body) : Fine(Codes, body[k], FALSE)
  <2>1. PICK N : N = Len(es)
    OBVIOUS
  <2>2. N \in Nat /\ N >= 4
    BY <2>1, LenIsNat
  <2>3. PICK n \in Nat : n = 4
    OBVIOUS
  <2>4. /\ IsSeq(body) /\ Len(body) = N - n + 1
        /\ \A k \in 1..(N - n + 1) : body[k] = es[n + k - 1]
    <3>1. n >= 1 /\ n <= Len(es) + 1
      BY <2>1, <2>2, <2>3
    <3>2. QED
      BY <1>1, <2>1, <2>3, <3>1, FromIs
  <2>5. ASSUME NEW k \in 1..Len(body) PROVE Fine(Codes, body[k], FALSE)
    <3>1. k \in 1..(N - n + 1) /\ n + k - 1 \in 4..N
      BY <2>2, <2>3, <2>4
    <3>2. QED
      BY <2>1, <2>4, <3>1
  <2>6. QED
    BY <2>4, <2>5
<1>8. Value(Codes, C!Loop(init, test, bind, body, next, at), at, FALSE)
  BY <1>3, <1>4, <1>5, <1>6, <1>7, LoopDoes
<1>9. QED
  BY <1>2, <1>8

LoopForms ==
  {C!Sym("<"), C!Sym("__for-end"), C!Sym("+"), C!Num(1), C!Sym("not"), C!Sym("car"),
   C!Sym("cdr"), C!Sym("__for-lst"), C!List(<<C!Sym("null?"), C!Sym("__for-lst")>>)}
(* Every for: counted, over a list, or left to the tree-walker.            *)
LEMMA ForDoes ==
  ASSUME NEW Codes, NEW es, IsSeq(es), Len(es) >= 4, NEW at \in Nat,
         ~Is("fn", es[3]), ~Is("fn", es[4]),
         \A e \in LoopForms : Anywhere(Codes, e), Anywhere(Codes, C!Sym(es[2].sym)),
         ~C!Deferred(es) => \A k \in 3..Len(es) : Fine(Codes, es[k], FALSE)
  PROVE  Value(Codes, C!For(es, at), at, FALSE)
<1>1. CASE C!Deferred(es)
  BY <1>1, WalkingDoes DEF C!For, Value
<1>2. CASE ~C!Deferred(es) /\ Len(es) < 5
  <2>1. Len(es) \in Nat
    BY LenIsNat
  <2>2. 3 \in 3..Len(es) /\ 4..Len(es) \subseteq 3..Len(es)
    BY <2>1
  <2>3. PICK rest : rest = C!Sym("__for-lst")
    OBVIOUS
  <2>4. /\ Anywhere(Codes, rest) /\ Anywhere(Codes, C!Sym("not"))
        /\ Anywhere(Codes, C!List(<<C!Sym("null?"), rest>>))
        /\ Anywhere(Codes, C!Sym("car")) /\ Anywhere(Codes, C!Sym("cdr"))
    BY <2>3 DEF LoopForms
  <2>5. Fine(Codes, es[3], FALSE) /\ \A k \in 4..Len(es) : Fine(Codes, es[k], FALSE)
    BY <1>2, <2>2
  <2>6. Value(Codes, C!ForList(es, at), at, FALSE)
    BY <2>3, <2>4, <2>5, ForListDoes
  <2>7. QED
    BY <1>2, <2>6 DEF C!For
<1>3. CASE ~C!Deferred(es) /\ ~(Len(es) < 5)
  <2>1. Len(es) \in Nat
    BY LenIsNat
  <2>2. Len(es) >= 5 /\ 5..Len(es) \subseteq 3..Len(es)
    BY <1>3, <2>1
  <2>3. PICK i : i = C!Sym(es[2].sym)
    OBVIOUS
  <2>4. /\ Anywhere(Codes, i) /\ Anywhere(Codes, C!Sym("<"))
        /\ Anywhere(Codes, C!Sym("__for-end")) /\ Anywhere(Codes, C!Sym("+"))
        /\ Anywhere(Codes, C!Num(1))
    BY <2>3 DEF LoopForms
  <2>5. \A k \in 5..Len(es) : Fine(Codes, es[k], FALSE)
    BY <1>3, <2>2
  <2>6. Value(Codes, C!ForNumeric(es, at), at, FALSE)
    BY <2>2, <2>3, <2>4, <2>5, ForNumericDoes
  <2>7. QED
    BY <1>3, <2>6 DEF C!For
<1>4. QED
  BY <1>1, <1>2, <1>3

(* Templates: the code of each is right wherever it is placed.             *)
Apt(Codes, e, depth) == \A at \in Nat : Value(Codes, Quasi(e, depth, at), at, FALSE)

QuasiStep(given, acc, item) == acc \o C!QuasiItem(item, given.depth, given.at + Len(acc))
Templating == INSTANCE Folding WITH Step <- QuasiStep

(* The fold that compiles the items of a template, step by step.           *)
LEMMA FoldTemplates ==
  ASSUME NEW items, NEW depth, NEW at, NEW N \in Nat, DOMAIN items = 1..N
  PROVE  \E t : /\ DOMAIN t = 0..N
                /\ t[0] = <<C!Do("LoadNil")>>
                /\ \A k \in 1..N : t[k] = t[k - 1] \o C!QuasiItem(items[k], depth, at + Len(t[k - 1]))
                /\ t[N] = C!QuasiList(items, depth, at)
<1> PICK given : given.at = at /\ given.depth = depth
  <2>1. [at |-> at, depth |-> depth].at = at /\ [at |-> at, depth |-> depth].depth = depth
    OBVIOUS
  <2>2. QED
    BY <2>1
<1> PICK base : base = <<C!Do("LoadNil")>>
  OBVIOUS
<1> PICK end : end = Templating!FoldOf(given, base, items, N)
  OBVIOUS
<1>1. C!QuasiList(items, depth, at) = end
  BY DEF C!QuasiList, QuasiStep, C!FoldLeft, C!MapThenFoldSet, C!Max, Templating!FoldOf,
         Templating!Iterates, Templating!Largest
<1>2. PICK t : Templating!IsTrace(t, given, base, items, N) /\ t[N] = end
  BY Templating!FoldTrace
<1>3. QED
  BY <1>1, <1>2 DEF Templating!IsTrace, QuasiStep

(* A value above one, and then what makes one of the two.                  *)
LEMMA ThenPaired ==
  ASSUME NEW Codes, NEW c, NEW at \in Nat, Value(Codes, c, at, FALSE),
         NEW x, Simple(Codes, x, 2, 1, 0, 0)
  PROVE  Does(Codes, c \o <<x>>, at, 1, 1, 0, 0, FALSE)
<1>1. 0 = 0 + 0 /\ 1 = 1 + 0 /\ 2 = 1 + 1 /\ 2 = 0 + 2 /\ 1 = 0 + 1 /\ 0 \in Nat /\ 1 \in Nat /\ 2 \in Nat
  OBVIOUS
<1>2. Does(Codes, c, at, 1, 2, 0, 0, FALSE)
  <2>1. Does(Codes, c, at, 0, 1, 0, 0, FALSE)
    BY DEF Value
  <2>2. Does(Codes, c, at, 1 + 0, 1 + 1, 0 + 0, 0 + 0, FALSE)
    BY <1>1, <2>1, DoesAbove
  <2>3. QED
    BY <1>1, <2>2
<1>3. PICK m : m = at + Len(c)
  OBVIOUS
<1>4. m \in Nat
  <2>1. PICK l : l = Len(c)
    OBVIOUS
  <2>2. l \in Nat
    BY <1>2, <2>1, DoesIsSeq
  <2>3. QED
    BY <1>3, <2>1, <2>2
<1>5. Does(Codes, <<x>>, m, 2, 1, 0, 0, FALSE)
  BY <1>1, <1>4, SimpleDoes
<1>6. QED
  BY <1>1, <1>2, <1>3, <1>5, DoesNext

(* The instructions that build lists.                                      *)
LEMMA Pairings ==
  ASSUME NEW Codes
  PROVE  /\ Simple(Codes, C!MakeList(2), 2, 1, 0, 0)
         /\ Simple(Codes, C!Do("PrependList"), 2, 1, 0, 0)
         /\ Simple(Codes, C!Do("AppendSplice"), 2, 1, 0, 0)
BY DEF C!MakeList, C!Do, Simple, Needs, Leaves, Opens, Sane

(* A nested operator of templates, rebuilt as data.                        *)
LEMMA QuotedDoes ==
  ASSUME NEW Codes, NEW op, NEW e, NEW depth, Apt(Codes, e, depth), NEW at \in Nat
  PROVE  Value(Codes, C!Quoted(op, e, depth, at), at, FALSE)
<1>1. PICK a, m, c : a = <<C!LoadConst(C!Sym(op))>> /\ m = at + Len(a) /\ c = Quasi(e, depth, m)
  OBVIOUS
<1>2. m = at + 1 /\ m \in Nat
  BY <1>1
<1>3. Does(Codes, a, at, 0, 1, 0, 0, FALSE)
  <2>1. ~Is("fn", C!Sym(op))
    BY DEF Is, C!Sym
  <2>2. QED
    BY <1>1, <2>1, Instructions
<1>4. PICK x, r : x = <<C!MakeList(2)>> /\ r = c \o x
  OBVIOUS
<1>5. Does(Codes, r, m, 1, 1, 0, 0, FALSE)
  <2>1. Value(Codes, c, m, FALSE)
    BY <1>1, <1>2 DEF Apt
  <2>2. QED
    BY <1>2, <1>4, <2>1, Pairings, ThenPaired
<1>6. 0 = 0 + 0 /\ 1 = 1 + 0 /\ 1 = 0 + 1 /\ 0 \in Nat /\ 1 \in Nat
  OBVIOUS
<1>7. Does(Codes, a \o r, at, 0, 1, 0, 0, FALSE)
  BY <1>1, <1>3, <1>5, <1>6, DoesNext
<1>8. C!Quoted(op, e, depth, at) = (a \o c) \o x
  BY <1>1, <1>2, <1>4 DEF C!Quoted
<1>9. (a \o c) \o x = a \o r
  <2>1. IsSeq(a) /\ IsSeq(x)
    BY <1>1, <1>4, Words
  <2>2. IsSeq(c)
    <3>1. Value(Codes, c, m, FALSE)
      BY <1>1, <1>2 DEF Apt
    <3>2. QED
      BY <3>1, DoesIsSeq DEF Value
  <2>3. (a \o c) \o x = a \o (c \o x)
    BY ONLY <2>1, <2>2, JoinAssociative
  <2>4. QED
    BY <1>4, <2>3
<1>10. QED
  BY <1>7, <1>8, <1>9 DEF Value

(* An item of a template, above the list made so far.                      *)
ItemApt(Codes, item, depth) ==
  IF ~C!IsCall(item, "unquote-splicing") THEN Apt(Codes, item, depth)
  ELSE IF depth = 1 THEN Fine(Codes, item.list[2], FALSE)
  ELSE Apt(Codes, item.list[2], depth - 1)
(* An item takes the list so far and leaves a longer one.                  *)
LEMMA QuasiItemDoes ==
  ASSUME NEW Codes, NEW item, NEW depth, ItemApt(Codes, item, depth), NEW at \in Nat
  PROVE  Does(Codes, C!QuasiItem(item, depth, at), at, 1, 1, 0, 0, FALSE)
<1>1. CASE ~C!IsCall(item, "unquote-splicing")
  <2>1. PICK c : c = Quasi(item, depth, at)
    OBVIOUS
  <2>2. Value(Codes, c, at, FALSE)
    BY <1>1, <2>1 DEF ItemApt, Apt
  <2>3. Does(Codes, c \o <<C!Do("PrependList")>>, at, 1, 1, 0, 0, FALSE)
    BY <2>2, Pairings, ThenPaired
  <2>4. QED
    BY <1>1, <2>1, <2>3 DEF C!QuasiItem
<1>2. CASE C!IsCall(item, "unquote-splicing") /\ depth = 1
  <2>1. PICK c : c = Code(item.list[2], at, FALSE)
    OBVIOUS
  <2>2. Value(Codes, c, at, FALSE)
    BY <1>2, <2>1 DEF ItemApt, Fine
  <2>3. Does(Codes, c \o <<C!Do("AppendSplice")>>, at, 1, 1, 0, 0, FALSE)
    BY <2>2, Pairings, ThenPaired
  <2>4. QED
    BY <1>2, <2>1, <2>3 DEF C!QuasiItem
<1>3. CASE C!IsCall(item, "unquote-splicing") /\ depth # 1
  <2>1. PICK c : c = C!Quoted("unquote-splicing", item.list[2], depth - 1, at)
    OBVIOUS
  <2>2. Value(Codes, c, at, FALSE)
    <3>1. Apt(Codes, item.list[2], depth - 1)
      BY <1>3 DEF ItemApt
    <3>2. QED
      BY <2>1, <3>1, QuotedDoes
  <2>3. Does(Codes, c \o <<C!Do("PrependList")>>, at, 1, 1, 0, 0, FALSE)
    BY <2>2, Pairings, ThenPaired
  <2>4. QED
    BY <1>3, <2>1, <2>3 DEF C!QuasiItem
<1>4. QED
  BY <1>1, <1>2, <1>3

(* The items of a template leave one list.                                 *)
LEMMA QuasiListDoes ==
  ASSUME NEW Codes, NEW items, NEW N \in Nat, DOMAIN items = 1..N, NEW depth, NEW at \in Nat,
         \A k \in 1..N : ItemApt(Codes, items[k], depth)
  PROVE  Value(Codes, C!QuasiList(items, depth, at), at, FALSE)
<1>1. PICK t : /\ DOMAIN t = 0..N
               /\ t[0] = <<C!Do("LoadNil")>>
               /\ \A k \in 1..N : t[k] = t[k - 1] \o C!QuasiItem(items[k], depth, at + Len(t[k - 1]))
               /\ t[N] = C!QuasiList(items, depth, at)
  BY FoldTemplates
<1>2. Does(Codes, t[0], at, 0, 1, 0, 0, FALSE)
  BY <1>1, Instructions
<1>3. ASSUME NEW k \in 1..N, Does(Codes, t[k - 1], at, 0, 1, 0, 0, FALSE)
      PROVE  Does(Codes, t[k], at, 0, 1, 0, 0, FALSE)
  <2>1. PICK acc, m, c : acc = t[k - 1] /\ m = at + Len(acc) /\ c = C!QuasiItem(items[k], depth, m)
    OBVIOUS
  <2>2. Does(Codes, acc, at, 0, 1, 0, 0, FALSE)
    BY <1>3, <2>1
  <2>3. m \in Nat
    <3>1. PICK l : l = Len(acc)
      OBVIOUS
    <3>2. l \in Nat
      BY <2>2, <3>1, DoesIsSeq
    <3>3. QED
      BY <2>1, <3>1, <3>2
  <2>4. Does(Codes, c, m, 1, 1, 0, 0, FALSE)
    <3>1. ItemApt(Codes, items[k], depth)
      BY <1>3
    <3>2. QED
      BY <2>1, <2>3, <3>1, QuasiItemDoes
  <2>5. 0 = 0 + 0 /\ 1 = 0 + 1 /\ 0 \in Nat /\ 1 \in Nat
    OBVIOUS
  <2>6. Does(Codes, acc \o c, at, 0, 1, 0, 0, FALSE)
    BY <2>1, <2>2, <2>4, <2>5, DoesNext
  <2>7. t[k] = acc \o c
    BY <1>1, <2>1
  <2>8. QED
    BY <2>6, <2>7
<1>4. Does(Codes, t[N], at, 0, 1, 0, 0, FALSE)
  BY <1>2, <1>3, TraceKeeps
<1>5. QED
  BY <1>1, <1>4 DEF Value

(* The items from the last to the first.                                   *)
LEMMA ReverseIs ==
  ASSUME NEW s, IsSeq(s), NEW N, N = Len(s)
  PROVE  /\ N \in Nat /\ DOMAIN C!Reverse(s) = 1..N
         /\ \A k \in 1..N : N - k + 1 \in 1..N /\ C!Reverse(s)[k] = s[N - k + 1]
<1>1. N \in Nat
  BY LenIsNat
<1>2. C!Reverse(s) = [k \in 1..N |-> s[(N - k) + 1]]
  BY DEF C!Reverse
<1>3. QED
  BY <1>1, <1>2

(* A template leaves one value, given that its parts do.                   *)
LEMMA TemplateDoes ==
  ASSUME NEW Codes, NEW e, NEW depth, NEW at \in Nat, ~Is("fn", e),
         Is("list", e) => IsSeq(e.list),
         C!IsCall(e, "unquote") =>
           IF depth = 1 THEN Fine(Codes, e.list[2], FALSE) ELSE Apt(Codes, e.list[2], depth - 1),
         C!IsCall(e, "quasiquote") => Apt(Codes, e.list[2], depth + 1),
         Is("list", e) /\ ~C!IsCall(e, "unquote") /\ ~C!IsCall(e, "quasiquote") =>
           \A k \in 1..Len(e.list) : ItemApt(Codes, e.list[k], depth)
  PROVE  Value(Codes, C!QuasiRule(e, depth, at), at, FALSE)
<1>0. C!Is("list", e) <=> Is("list", e)
  BY DEF C!Is, Is
<1>1. CASE ~C!Is("list", e) \/ e = C!List(<< >>)
  <2>1. Does(Codes, <<C!LoadConst(e)>>, at, 0, 1, 0, 0, FALSE)
    BY Instructions
  <2>2. QED
    BY <1>1, <2>1 DEF C!QuasiRule, Value
<1> DEFINE Listed == C!Is("list", e) /\ e # C!List(<< >>)
<1>2. CASE Listed /\ C!IsCall(e, "unquote") /\ depth = 1
  <2>1. Value(Codes, Code(e.list[2], at, FALSE), at, FALSE)
    BY <1>2, FineAt
  <2>2. QED
    BY <1>2, <2>1 DEF C!QuasiRule
<1>3. CASE Listed /\ C!IsCall(e, "unquote") /\ depth # 1
  <2>1. Value(Codes, C!Quoted("unquote", e.list[2], depth - 1, at), at, FALSE)
    BY <1>3, QuotedDoes
  <2>2. QED
    BY <1>3, <2>1 DEF C!QuasiRule
<1>4. CASE Listed /\ ~C!IsCall(e, "unquote") /\ C!IsCall(e, "quasiquote")
  <2>1. Value(Codes, C!Quoted("quasiquote", e.list[2], depth + 1, at), at, FALSE)
    BY <1>4, QuotedDoes
  <2>2. QED
    BY <1>4, <2>1 DEF C!QuasiRule
<1>5. CASE Listed /\ ~C!IsCall(e, "unquote") /\ ~C!IsCall(e, "quasiquote")
  <2>1. PICK es, N, items : es = e.list /\ N = Len(es) /\ items = C!Reverse(es)
    OBVIOUS
  <2>2. IsSeq(es) /\ \A k \in 1..N : ItemApt(Codes, es[k], depth)
    BY <1>0, <1>5, <2>1
  <2>3. /\ N \in Nat /\ DOMAIN items = 1..N
        /\ \A k \in 1..N : N - k + 1 \in 1..N /\ items[k] = es[N - k + 1]
    BY <2>1, <2>2, ReverseIs
  <2>4. \A k \in 1..N : ItemApt(Codes, items[k], depth)
    BY <2>2, <2>3
  <2>5. Value(Codes, C!QuasiList(items, depth, at), at, FALSE)
    BY <2>3, <2>4, QuasiListDoes
  <2>6. QED
    BY <1>5, <2>1, <2>5 DEF C!QuasiRule
<1>6. QED
  BY <1>1, <1>2, <1>3, <1>4, <1>5

Heads == {"quote", "quasiquote", "if", "define", "set!", "begin", "let", "let*", "for", "lambda",
          "tailcall"}

(* What the code of a form needs of the code of its parts.                 *)
PartsFine(Codes, es, head, tail) ==
  /\ C!Shaped(es, head)
  /\ \A k \in 1..Len(es) : ~Is("fn", es[k])
  /\ head = "tailcall" => tail
  /\ head = "quasiquote" => Apt(Codes, es[2], 1)
  /\ \A k \in C!Positions(es, head) :
       /\ k \in C!TailPositions(es, head, tail) => Fine(Codes, es[k], TRUE)
       /\ k \notin C!TailPositions(es, head, tail) => Fine(Codes, es[k], FALSE)
  /\ head \in {"let", "let*"} =>
       /\ IsSeq(es[2].list)
       /\ \A k \in 1..Len(es[2].list) : Fine(Codes, es[2].list[k].list[2], FALSE)
  /\ head = "lambda" => C!LambdaChunk(es, << >>) \in Codes
  /\ head = "define" /\ C!IsCall(es[3], "lambda") =>
       C!LambdaChunk(es[3].list, <<[op |-> "StoreSelf", name |-> es[2].sym]>>) \in Codes
  /\ head = "for" =>
       (\A e \in LoopForms : Anywhere(Codes, e)) /\ Anywhere(Codes, C!Sym(es[2].sym))

RuleChosen(c, es, head, at, tail) ==
  /\ head = "quote" => c = <<C!LoadConst(es[2])>>
  /\ head = "quasiquote" => c = Quasi(es[2], 1, at)
  /\ head = "if" => c = C!If(es, at, tail)
  /\ head = "define" => c = C!Define(es, at)
  /\ head = "set!" => c = C!Set(es, at)
  /\ head = "begin" => c = C!Begin(es, at, tail)
  /\ head = "let" => c = C!Let(es, at)
  /\ head = "let*" => c = C!LetStar(es, at)
  /\ head = "for" => c = C!For(es, at)
  /\ head = "lambda" => c = C!Lambda(es, << >>)
  /\ head = "tailcall" => c = C!Call(C!Tail(es), at, TRUE)
  /\ head \notin Heads => c = C!Call(es, at, tail)
(* The rule that compile_expr follows for a form.                          *)
LEMMA RuleOf ==
  ASSUME NEW e, ~C!Is("sym", e), C!Is("list", e), e.list # << >>, NEW at, NEW tail \in BOOLEAN
  PROVE  RuleChosen(C!CodeRule(e, at, tail), e.list, C!HeadOf(e.list), at, tail)
BY DEF C!CodeRule, C!HeadOf, Heads, RuleChosen

BodyFine(Codes, es) == \A k \in 3..Len(es) : Fine(Codes, es[k], FALSE)
(* The expressions after the second of a form, their values not its own.   *)
LEMMA BodyParts ==
  ASSUME NEW Codes, NEW es, IsSeq(es), Len(es) >= 3, NEW head, NEW tail,
         head \in {"let", "let*", "define", "set!"}, PartsFine(Codes, es, head, tail)
  PROVE  BodyFine(Codes, es)
<1>1. C!Positions(es, head) = 3..Len(es) /\ C!TailPositions(es, head, tail) = {}
  BY DEF C!Positions, C!TailPositions
<1>2. QED
  BY <1>1 DEF PartsFine, BodyFine

(* The rule for if, given its parts.                                       *)
LEMMA IfFormDoes ==
  ASSUME NEW Codes, NEW es, IsSeq(es), NEW at \in Nat, NEW tail \in BOOLEAN,
         PartsFine(Codes, es, "if", tail)
  PROVE  Value(Codes, C!If(es, at, tail), at, tail)
<1>1. Len(es) \in 3..4
  BY DEF PartsFine, C!Shaped
<1>2. C!Positions(es, "if") = 2..Len(es)
  BY DEF C!Positions
<1>3. C!TailPositions(es, "if", tail) = IF tail THEN 3..Len(es) ELSE {}
  BY DEF C!TailPositions
<1>4. 2 \in 2..Len(es) /\ 2 \notin 3..Len(es) /\ 3 \in 3..Len(es) /\ 3 \in 2..Len(es)
      /\ (Len(es) = 4 => 4 \in 3..Len(es) /\ 4 \in 2..Len(es))
  BY <1>1
<1>5. /\ \A k \in 2..Len(es) :
           /\ k \in C!TailPositions(es, "if", tail) => Fine(Codes, es[k], TRUE)
           /\ k \notin C!TailPositions(es, "if", tail) => Fine(Codes, es[k], FALSE)
  BY <1>2 DEF PartsFine
<1>6. Fine(Codes, es[2], FALSE)
  BY <1>3, <1>4, <1>5
<1>7. ASSUME NEW k \in 3..Len(es), k \in 2..Len(es) PROVE Fine(Codes, es[k], tail)
  <2>1. CASE tail = TRUE
    <3>1. Fine(Codes, es[k], TRUE)
      BY <1>3, <1>5, <1>7, <2>1
    <3>2. QED
      BY <2>1, <3>1
  <2>2. CASE tail = FALSE
    <3>1. Fine(Codes, es[k], FALSE)
      BY <1>3, <1>5, <1>7, <2>2
    <3>2. QED
      BY <2>2, <3>1
  <2>3. QED
    BY <2>1, <2>2
<1>8. Fine(Codes, es[3], tail) /\ (Len(es) = 4 => Fine(Codes, es[4], tail))
  BY <1>4, <1>7
<1>9. QED
  BY <1>1, <1>6, <1>8, IfDoes

(* For begin.                                                              *)
LEMMA BeginFormDoes ==
  ASSUME NEW Codes, NEW es, IsSeq(es), Len(es) >= 1, NEW at \in Nat, NEW tail \in BOOLEAN,
         PartsFine(Codes, es, "begin", tail)
  PROVE  Value(Codes, C!Begin(es, at, tail), at, tail)
<1>1. PICK N : N = Len(es)
  OBVIOUS
<1>2. N \in Nat
  BY <1>1, LenIsNat
<1>3. C!Positions(es, "begin") = 2..N /\ C!TailPositions(es, "begin", tail) = IF tail THEN {N} ELSE {}
  BY <1>1 DEF C!Positions, C!TailPositions
<1>4. \A k \in 2..N :
           /\ k \in C!TailPositions(es, "begin", tail) => Fine(Codes, es[k], TRUE)
           /\ k \notin C!TailPositions(es, "begin", tail) => Fine(Codes, es[k], FALSE)
  BY <1>3 DEF PartsFine
<1>5. ASSUME NEW k \in 2..(N - 1) PROVE Fine(Codes, es[k], FALSE)
  <2>1. k \in 2..N /\ k # N
    BY <1>2
  <2>2. k \notin C!TailPositions(es, "begin", tail)
    BY <1>3, <2>1
  <2>3. QED
    BY <1>4, <2>1, <2>2
<1>6. ASSUME N >= 2 PROVE Fine(Codes, es[N], tail)
  <2>0. N \in 2..N
    BY <1>2, <1>6
  <2>1. CASE tail = TRUE
    <3>1. Fine(Codes, es[N], TRUE)
      BY <1>3, <1>4, <2>0, <2>1
    <3>2. QED
      BY <2>1, <3>1
  <2>2. CASE tail = FALSE
    <3>1. Fine(Codes, es[N], FALSE)
      BY <1>3, <1>4, <2>0, <2>2
    <3>2. QED
      BY <2>2, <3>1
  <2>3. QED
    BY <2>1, <2>2
<1>7. QED
  BY <1>1, <1>5, <1>6, BeginDoes

(* For a call.                                                             *)
LEMMA CallFormDoes ==
  ASSUME NEW Codes, NEW es, IsSeq(es), Len(es) >= 1, NEW at \in Nat, NEW tail \in BOOLEAN,
         NEW head, head \notin Heads, PartsFine(Codes, es, head, tail)
  PROVE  Value(Codes, C!Call(es, at, tail), at, tail)
<1>1. PICK N : N = Len(es)
  OBVIOUS
<1>2. N \in Nat
  BY <1>1, LenIsNat
<1>3. C!Positions(es, head) = 1..N /\ C!TailPositions(es, head, tail) = {}
  BY <1>1 DEF C!Positions, C!TailPositions, Heads
<1>4. \A k \in 1..N : Fine(Codes, es[k], FALSE)
  BY <1>3 DEF PartsFine
<1>5. ASSUME NEW k \in 1..N, NEW n \in Nat
      PROVE  Value(Codes, Code(es[k], at + n, FALSE), at + n, FALSE)
  <2>1. Fine(Codes, es[k], FALSE)
    BY <1>4
  <2>2. at + n \in Nat
    OBVIOUS
  <2>3. QED
    BY <2>1, <2>2, FineAt
<1>6. QED
  BY <1>1, <1>2, <1>5, CallDoes

(* The form without its head.                                              *)
LEMMA TailIs ==
  ASSUME NEW es, IsSeq(es), NEW N \in Nat, N >= 1, Len(es) = N
  PROVE  /\ IsSeq(C!Tail(es)) /\ Len(C!Tail(es)) = N - 1
         /\ \A k \in 1..(N - 1) : C!Tail(es)[k] = es[k + 1]
<1>1. PICK S : es \in Seq(S)
  BY DEF IsSeq
<1>2. Tail(es) \in Seq(S) /\ Len(Tail(es)) = N - 1 /\ \A k \in 1..(N - 1) : Tail(es)[k] = es[k + 1]
  BY <1>1
<1>3. QED
  BY <1>2 DEF IsSeq

(* For an explicit tail call, which stands in tail position.               *)
LEMMA TailCallFormDoes ==
  ASSUME NEW Codes, NEW es, IsSeq(es), NEW at \in Nat, NEW tail,
         PartsFine(Codes, es, "tailcall", tail)
  PROVE  Value(Codes, C!Call(C!Tail(es), at, TRUE), at, TRUE)
<1>1. PICK N, rest : N = Len(es) /\ rest = C!Tail(es)
  OBVIOUS
<1>2. N \in Nat /\ N >= 2
  BY <1>1, LenIsNat DEF PartsFine, C!Shaped
<1>3. C!Positions(es, "tailcall") = 2..N /\ C!TailPositions(es, "tailcall", tail) = {}
  BY <1>1 DEF C!Positions, C!TailPositions
<1>4. \A k \in 2..N : Fine(Codes, es[k], FALSE)
  BY <1>3 DEF PartsFine
<1>5. PICK M : M = N - 1
  OBVIOUS
<1>6. M \in Nat /\ M >= 1 /\ \A k \in 1..M : k + 1 \in 2..N
  BY <1>2, <1>5
<1>7. IsSeq(rest) /\ Len(rest) = M /\ \A k \in 1..M : rest[k] = es[k + 1]
  <2>1. N >= 1
    BY <1>2
  <2>2. QED
    BY <1>1, <1>2, <1>5, <2>1, TailIs
<1>8. ASSUME NEW k \in 1..M, NEW n \in Nat
      PROVE  Value(Codes, Code(rest[k], at + n, FALSE), at + n, FALSE)
  <2>1. k + 1 \in 2..N /\ rest[k] = es[k + 1]
    BY <1>6, <1>7
  <2>2. Fine(Codes, rest[k], FALSE)
    BY <1>4, <2>1
  <2>3. at + n \in Nat
    OBVIOUS
  <2>4. QED
    BY <2>2, <2>3, FineAt
<1>9. Value(Codes, C!Call(rest, at, TRUE), at, TRUE)
  BY <1>6, <1>7, <1>8, CallDoes
<1>10. QED
  BY <1>1, <1>9

(* The code of a form whose parts have the code they should.               *)
LEMMA ListFormDoes ==
  ASSUME NEW Codes, NEW e, ~C!Is("sym", e), C!Is("list", e), e.list # << >>, IsSeq(e.list),
         NEW at \in Nat, NEW tail \in BOOLEAN, PartsFine(Codes, e.list, C!HeadOf(e.list), tail)
  PROVE  Value(Codes, C!CodeRule(e, at, tail), at, tail)
<1>1. PICK es, head, c : es = e.list /\ head = C!HeadOf(es) /\ c = C!CodeRule(e, at, tail)
  OBVIOUS
<1>2. /\ head = "quote" => c = <<C!LoadConst(es[2])>>
      /\ head = "quasiquote" => c = Quasi(es[2], 1, at)
      /\ head = "if" => c = C!If(es, at, tail)
      /\ head = "define" => c = C!Define(es, at)
      /\ head = "set!" => c = C!Set(es, at)
      /\ head = "begin" => c = C!Begin(es, at, tail)
      /\ head = "let" => c = C!Let(es, at)
      /\ head = "let*" => c = C!LetStar(es, at)
      /\ head = "for" => c = C!For(es, at)
      /\ head = "lambda" => c = C!Lambda(es, << >>)
      /\ head = "tailcall" => c = C!Call(C!Tail(es), at, TRUE)
      /\ head \notin Heads => c = C!Call(es, at, tail)
  <2>1. RuleChosen(c, es, head, at, tail)
    BY <1>1, RuleOf
  <2>2. QED
    BY <2>1 DEF RuleChosen
<1>3. IsSeq(es) /\ Len(es) \in Nat /\ PartsFine(Codes, es, head, tail)
  BY <1>1, LenIsNat
<1>4. Len(es) >= 1
  <2>1. es # << >>
    BY <1>1
  <2>2. PICK S : es \in Seq(S)
    BY <1>3 DEF IsSeq
  <2>3. QED
    BY <2>1, <2>2
<1> SUFFICES Value(Codes, c, at, tail)
  BY <1>1
<1>5. CASE head = "quote"
  <2>1. Len(es) = 2 /\ \A k \in 1..Len(es) : ~Is("fn", es[k])
    BY <1>3, <1>5 DEF PartsFine, C!Shaped
  <2>2. 2 \in 1..Len(es)
    BY <2>1
  <2>3. Value(Codes, c, at, FALSE)
    BY <1>2, <1>5, <2>1, <2>2, Instructions DEF Value
  <2>4. QED
    BY <2>3, ValueAny
<1>6. CASE head = "quasiquote"
  <2>1. Apt(Codes, es[2], 1)
    BY <1>3, <1>6 DEF PartsFine
  <2>2. Value(Codes, c, at, FALSE)
    BY <1>2, <1>6, <2>1 DEF Apt
  <2>3. QED
    BY <2>2, ValueAny
<1>7. CASE head = "if"
  BY <1>2, <1>3, <1>7, IfFormDoes
<1>8. CASE head = "define"
  <2>1. Len(es) = 3
    BY <1>3, <1>8 DEF PartsFine, C!Shaped
  <2>2. IF C!IsCall(es[3], "lambda")
        THEN C!LambdaChunk(es[3].list, <<[op |-> "StoreSelf", name |-> es[2].sym]>>) \in Codes
        ELSE Fine(Codes, es[3], FALSE)
    <3>1. CASE C!IsCall(es[3], "lambda")
      BY <1>3, <1>8, <3>1 DEF PartsFine
    <3>2. CASE ~C!IsCall(es[3], "lambda")
      <4>1. BodyFine(Codes, es)
        BY <1>3, <1>8, <2>1, BodyParts
      <4>2. 3 \in 3..Len(es)
        BY <2>1
      <4>3. QED
        BY <3>2, <4>1, <4>2 DEF BodyFine
    <3>3. QED
      BY <3>1, <3>2
  <2>3. Value(Codes, c, at, FALSE)
    BY <1>2, <1>8, <2>2, DefineDoes
  <2>4. QED
    BY <2>3, ValueAny
<1>9. CASE head = "set!"
  <2>1. Len(es) = 3
    BY <1>3, <1>9 DEF PartsFine, C!Shaped
  <2>2. Fine(Codes, es[3], FALSE)
    <3>1. BodyFine(Codes, es)
      BY <1>3, <1>9, <2>1, BodyParts
    <3>2. 3 \in 3..Len(es)
      BY <2>1
    <3>3. QED
      BY <3>1, <3>2 DEF BodyFine
  <2>3. Value(Codes, c, at, FALSE)
    BY <1>2, <1>9, <2>2, SetFormDoes
  <2>4. QED
    BY <2>3, ValueAny
<1>10. CASE head = "begin"
  BY <1>2, <1>3, <1>4, <1>10, BeginFormDoes
<1>11. CASE head \in {"let", "let*"}
  <2>1. Len(es) >= 3
    BY <1>3, <1>11 DEF PartsFine, C!Shaped
  <2>2. \A k \in 3..Len(es) : Fine(Codes, es[k], FALSE)
    <3>1. BodyFine(Codes, es)
      BY <1>3, <1>11, <2>1, BodyParts
    <3>2. QED
      BY <3>1 DEF BodyFine
  <2>3. PICK bs : bs = es[2].list
    OBVIOUS
  <2>4. IsSeq(bs) /\ \A k \in 1..Len(bs) : Fine(Codes, bs[k].list[2], FALSE)
    BY <1>3, <1>11, <2>3 DEF PartsFine
  <2>5. Value(Codes, C!Let(es, at), at, FALSE)
    BY <1>3, <2>1, <2>2, <2>3, <2>4, LetDoes
  <2>6. Value(Codes, C!LetStar(es, at), at, FALSE)
    BY <1>3, <2>1, <2>2, <2>3, <2>4, LetStarDoes
  <2>7. c = C!Let(es, at) \/ c = C!LetStar(es, at)
    BY <1>2, <1>11
  <2>8. Value(Codes, c, at, FALSE)
    BY <2>5, <2>6, <2>7
  <2>9. QED
    BY <2>8, ValueAny
<1>12. CASE head = "for"
  <2>1. Len(es) >= 4 /\ \A k \in 1..Len(es) : ~Is("fn", es[k])
    BY <1>3, <1>12 DEF PartsFine, C!Shaped
  <2>2. 3 \in 1..Len(es) /\ 4 \in 1..Len(es)
    BY <1>3, <2>1
  <2>3. ~Is("fn", es[3]) /\ ~Is("fn", es[4])
    BY <2>1, <2>2
  <2>4. (\A w \in LoopForms : Anywhere(Codes, w)) /\ Anywhere(Codes, C!Sym(es[2].sym))
    BY <1>3, <1>12 DEF PartsFine
  <2>5. ~C!Deferred(es) => \A k \in 3..Len(es) : Fine(Codes, es[k], FALSE)
    <3>1. ~C!Deferred(es) => C!Positions(es, head) = 3..Len(es)
      BY <1>12 DEF C!Positions
    <3>2. C!TailPositions(es, head, tail) = {}
      BY <1>12 DEF C!TailPositions
    <3>3. QED
      BY <1>3, <3>1, <3>2 DEF PartsFine
  <2>6. Value(Codes, C!For(es, at), at, FALSE)
    BY <1>3, <2>1, <2>3, <2>4, <2>5, ForDoes
  <2>7. Value(Codes, c, at, FALSE)
    BY <1>2, <1>12, <2>6
  <2>8. QED
    BY <2>7, ValueAny
<1>13. CASE head = "lambda"
  <2>1. C!LambdaChunk(es, << >>) \in Codes
    BY <1>3, <1>13 DEF PartsFine
  <2>2. Value(Codes, c, at, FALSE)
    BY <1>2, <1>13, <2>1, LambdaDoes
  <2>3. QED
    BY <2>2, ValueAny
<1>14. CASE head = "tailcall"
  <2>1. tail = TRUE
    BY <1>3, <1>14 DEF PartsFine
  <2>2. Value(Codes, C!Call(C!Tail(es), at, TRUE), at, TRUE)
    BY <1>3, <1>14, TailCallFormDoes
  <2>3. QED
    BY <1>2, <1>14, <2>1, <2>2
<1>15. CASE head \notin Heads
  <2>1. Value(Codes, C!Call(es, at, tail), at, tail)
    BY <1>3, <1>4, <1>15, CallFormDoes
  <2>2. QED
    BY <1>2, <1>15, <2>1
<1>16. QED
  BY <1>5, <1>6, <1>7, <1>8, <1>9, <1>10, <1>11, <1>12, <1>13, <1>14, <1>15 DEF Heads

(* Every form: its code leaves one value, given that its parts do.         *)
LEMMA FormDoes ==
  ASSUME NEW Codes, NEW e, ~Is("fn", e), NEW at \in Nat, NEW tail \in BOOLEAN,
         Is("list", e) /\ e.list # << >> /\ ~Is("sym", e) =>
           IsSeq(e.list) /\ PartsFine(Codes, e.list, C!HeadOf(e.list), tail)
  PROVE  Value(Codes, C!CodeRule(e, at, tail), at, tail)
<1>0. (C!Is("list", e) <=> Is("list", e)) /\ (C!Is("sym", e) <=> Is("sym", e))
  BY DEF C!Is, Is
<1>1. CASE C!Is("sym", e)
  <2>1. C!CodeRule(e, at, tail) = <<C!LoadVar(e.sym)>>
    BY <1>1 DEF C!CodeRule
  <2>2. Value(Codes, <<C!LoadVar(e.sym)>>, at, FALSE)
    BY Instructions DEF Value
  <2>3. QED
    BY <2>1, <2>2, ValueAny
<1>2. CASE ~C!Is("sym", e) /\ ~C!Is("list", e)
  <2>1. C!CodeRule(e, at, tail) = <<C!LoadConst(e)>>
    BY <1>2 DEF C!CodeRule
  <2>2. Value(Codes, <<C!LoadConst(e)>>, at, FALSE)
    BY Instructions DEF Value
  <2>3. QED
    BY <2>1, <2>2, ValueAny
<1>3. CASE ~C!Is("sym", e) /\ C!Is("list", e) /\ e.list = << >>
  <2>1. C!CodeRule(e, at, tail) = <<C!LoadConst(C!Nil)>>
    BY <1>3 DEF C!CodeRule
  <2>2. ~Is("fn", C!Nil)
    BY DEF Is, C!Nil
  <2>3. Value(Codes, <<C!LoadConst(C!Nil)>>, at, FALSE)
    BY <2>2, Instructions DEF Value
  <2>4. QED
    BY <2>1, <2>3, ValueAny
<1>4. CASE ~C!Is("sym", e) /\ C!Is("list", e) /\ e.list # << >>
  BY <1>0, <1>4, ListFormDoes
<1>5. QED
  BY <1>1, <1>2, <1>3, <1>4

(***************************************************************************)
(* The forms.  They are data: of finite height, their lists sequences, and *)
(* no lambda among them.                                                   *)
(***************************************************************************)
Data(D, h) ==
  /\ h \in [D -> Nat]
  /\ LoopForms \subseteq D
  /\ \A e \in D :
       /\ ~Is("fn", e)
       /\ Is("sym", e) => e = C!Sym(e.sym)
       /\ Is("list", e) =>
            /\ IsSeq(e.list)
            /\ \A k \in 1..Len(e.list) : e.list[k] \in D /\ h[e.list[k]] < h[e]

(* The compiler obeys its rules on them.                                   *)
Solves(D) ==
  /\ \A e \in D, at \in Nat, tail \in BOOLEAN : Code(e, at, tail) = C!CodeRule(e, at, tail)
  /\ \A e \in D, depth \in Nat, at \in Nat : Quasi(e, depth, at) = C!QuasiRule(e, depth, at)
  /\ \A e \in D : WellFormed(e) <=> C!WellFormedRule(e)
  /\ \A e \in D, depth \in Nat : Fits(e, depth) <=> C!FitsRule(e, depth)

(* Where forms stand: P[TRUE] those in tail position, P[FALSE] the others, *)
(* T[n] the templates at depth n.  A tailcall stands in tail position.     *)
Placed(D, P, T) ==
  /\ P \in [BOOLEAN -> SUBSET D]
  /\ T \in [Nat -> SUBSET D]
  /\ C!FormsPlaced(P, T)
  /\ \A depth \in Nat \ {0} : C!TemplatesPlaced(P, T, depth)

(* The code of every lambda in them is among the chunks.                   *)
Selves(D) == {<< >>} \cup {<<[op |-> "StoreSelf", name |-> e.sym]>> : e \in D}
IsLambda(P, e) ==
  (e \in P[TRUE] \/ e \in P[FALSE]) /\ C!IsCall(e, "lambda") /\ WellFormed(e)
LambdasIn(Codes, D, P) ==
  \A e \in D, self \in Selves(D) : IsLambda(P, e) => C!LambdaChunk(e.list, self) \in Codes

(* What is to be shown of every form.                                      *)
Good(Codes, P, T, e) ==
  /\ \A tail \in BOOLEAN : e \in P[tail] /\ WellFormed(e) => Fine(Codes, e, tail)
  /\ \A depth \in Nat \ {0} : e \in T[depth] /\ Fits(e, depth) => Apt(Codes, e, depth)

(* Atoms have the same code everywhere.                                    *)
LEMMA AtomsAnywhere ==
  ASSUME NEW Codes, NEW D, Solves(D), NEW e \in D, ~Is("fn", e), ~C!Is("list", e)
  PROVE  Anywhere(Codes, e)
<1>1. SUFFICES ASSUME NEW p \in Nat, NEW q \in Nat PROVE Value(Codes, Code(e, p, FALSE), q, FALSE)
  BY DEF Anywhere
<1>2. Code(e, p, FALSE) = C!CodeRule(e, p, FALSE)
  BY DEF Solves
<1>3. CASE C!Is("sym", e)
  <2>1. Code(e, p, FALSE) = <<C!LoadVar(e.sym)>>
    BY <1>2, <1>3 DEF C!CodeRule
  <2>2. QED
    BY <2>1, Instructions DEF Value
<1>4. CASE ~C!Is("sym", e)
  <2>1. Code(e, p, FALSE) = <<C!LoadConst(e)>>
    BY <1>2, <1>4 DEF C!CodeRule
  <2>2. QED
    BY <2>1, Instructions DEF Value
<1>5. QED
  BY <1>3, <1>4

(* So have the calls that the compiler makes for loops.                    *)
LEMMA LoopFormsAnywhere ==
  ASSUME NEW Codes, NEW D, NEW h, Data(D, h), Solves(D)
  PROVE  \A e \in LoopForms : Anywhere(Codes, e)
<1>1. LoopForms \subseteq D /\ \A e \in D : ~Is("fn", e)
  BY DEF Data
<1>2. \A s : ~C!Is("list", C!Sym(s))
  BY DEF C!Is, C!Sym
<1>3. ~C!Is("list", C!Num(1))
  BY DEF C!Is, C!Num
<1> PICK call : call = C!List(<<C!Sym("null?"), C!Sym("__for-lst")>>)
  OBVIOUS
<1>4. ASSUME NEW e \in LoopForms, e # call PROVE Anywhere(Codes, e)
  <2>1. ~C!Is("list", e)
    BY <1>2, <1>3, <1>4 DEF LoopForms
  <2>2. QED
    BY <1>1, <2>1, AtomsAnywhere
<1>5. Anywhere(Codes, call)
  <2>1. SUFFICES ASSUME NEW p \in Nat, NEW q \in Nat
                 PROVE  Value(Codes, Code(call, p, FALSE), q, FALSE)
    BY DEF Anywhere
  <2>2. Anywhere(Codes, C!Sym("null?")) /\ Anywhere(Codes, C!Sym("__for-lst"))
    <3>1. call \in D
      BY <1>1 DEF LoopForms
    <3>2. Is("list", call) /\ call.list = <<C!Sym("null?"), C!Sym("__for-lst")>>
      BY DEF Is, C!List
    <3>3. Len(call.list) = 2 /\ 1 \in 1..Len(call.list)
      BY <3>2
    <3>4. C!Sym("null?") \in D
      BY <3>1, <3>2, <3>3 DEF Data
    <3>5. C!Sym("__for-lst") \in D
      BY <1>1 DEF LoopForms
    <3>6. QED
      BY <1>1, <1>2, <3>4, <3>5, AtomsAnywhere
  <2>3. PICK es : es = <<C!Sym("null?"), C!Sym("__for-lst")>>
    OBVIOUS
  <2>4. Value(Codes, C!Call(es, p, FALSE), q, FALSE)
    BY <2>2, <2>3, CallOfTwo
  <2>5. Code(call, p, FALSE) = C!Call(es, p, FALSE)
    <3>1. Code(call, p, FALSE) = C!CodeRule(call, p, FALSE)
      BY <1>1 DEF LoopForms, Solves
    <3>2. ~C!Is("sym", call) /\ C!Is("list", call) /\ call.list = es
      BY <2>3 DEF C!Is, C!List
    <3>3. es # << >> /\ es[1] = C!Sym("null?")
      BY <2>3
    <3>4. C!HeadOf(es) = "null?"
      BY <3>3 DEF C!HeadOf, C!Is, C!Sym
    <3>5. RuleChosen(C!CodeRule(call, p, FALSE), es, C!HeadOf(es), p, FALSE)
      BY <3>2, <3>3, RuleOf
    <3>6. QED
      BY <3>1, <3>4, <3>5 DEF RuleChosen, Heads
  <2>6. QED
    BY <2>4, <2>5
<1>6. QED
  BY <1>4, <1>5

(* The compiled subforms are among those whose shapes are checked.         *)
LEMMA PositionsAreParts ==
  ASSUME NEW es, IsSeq(es), NEW head, NEW k \in C!Positions(es, head)
  PROVE  k \in 1..Len(es) /\ es[k] \in C!Parts(es, head)
<1>1. Len(es) \in Nat
  BY LenIsNat
<1>2. k \in 1..Len(es)
  BY <1>1 DEF C!Positions
<1>3. es[k] \in {es[j] : j \in C!Positions(es, head)}
  OBVIOUS
<1>4. QED
  BY <1>2, <1>3 DEF C!Parts

(* The forms below one in height.                                          *)
LowerGood(Codes, D, h, P, T, e) == \A x \in D : h[x] < h[e] => Good(Codes, P, T, x)

(* The items of a form are lower forms.                                    *)
LEMMA Items ==
  ASSUME NEW D, NEW h, Data(D, h), NEW e \in D, Is("list", e)
  PROVE  /\ IsSeq(e.list)
         /\ \A k \in 1..Len(e.list) : e.list[k] \in D /\ h[e.list[k]] < h[e]
BY DEF Data

(* A lower form in its place has good code.                                *)
LEMMA LowerForm ==
  ASSUME NEW Codes, NEW D, NEW h, NEW P, NEW T, NEW e, LowerGood(Codes, D, h, P, T, e),
         NEW x \in D, h[x] < h[e], WellFormed(x), NEW tail \in BOOLEAN, x \in P[tail]
  PROVE  Fine(Codes, x, tail)
<1>1. Good(Codes, P, T, x)
  BY DEF LowerGood
<1>2. QED
  BY <1>1 DEF Good

(* So has a lower template.                                                *)
LEMMA LowerTemplate ==
  ASSUME NEW Codes, NEW D, NEW h, NEW P, NEW T, NEW e, LowerGood(Codes, D, h, P, T, e),
         NEW x \in D, h[x] < h[e], NEW depth \in Nat \ {0}, Fits(x, depth), x \in T[depth]
  PROVE  Apt(Codes, x, depth)
<1>1. Good(Codes, P, T, x)
  BY DEF LowerGood
<1>2. QED
  BY <1>1 DEF Good

(* The second item of a pair.                                              *)
LEMMA SecondLower ==
  ASSUME NEW D, NEW h, Data(D, h), NEW e \in D, Is("list", e), Len(e.list) >= 2
  PROVE  e.list[2] \in D /\ h[e.list[2]] < h[e]
<1>1. Len(e.list) \in Nat
  BY Items, LenIsNat
<1>2. 2 \in 1..Len(e.list)
  BY <1>1
<1>3. QED
  BY <1>2, Items

(* Height is transitive.                                                   *)
LEMMA HeightTransitive ==
  ASSUME NEW D, NEW h, Data(D, h), NEW x \in D, NEW y \in D, NEW z \in D, h[x] < h[y], h[y] < h[z]
  PROVE  h[x] < h[z]
<1>1. h[x] \in Nat /\ h[y] \in Nat /\ h[z] \in Nat
  BY DEF Data
<1>2. QED
  BY <1>1

(* The code of a form is right if that of all lower ones is.               *)
LEMMA FormStep ==
  ASSUME NEW Codes, NEW D, NEW h, NEW P, NEW T, Data(D, h), Solves(D), Placed(D, P, T),
         LambdasIn(Codes, D, P), NEW e \in D, LowerGood(Codes, D, h, P, T, e),
         NEW tail \in BOOLEAN, e \in P[tail], WellFormed(e)
  PROVE  Fine(Codes, e, tail)
<1>1. SUFFICES ASSUME Is("list", e), e.list # << >>, ~Is("sym", e)
               PROVE  IsSeq(e.list) /\ PartsFine(Codes, e.list, C!HeadOf(e.list), tail)
  <2>1. SUFFICES ASSUME NEW at \in Nat PROVE Value(Codes, Code(e, at, tail), at, tail)
    BY DEF Fine
  <2>2. ~Is("fn", e)
    BY DEF Data
  <2>3. Code(e, at, tail) = C!CodeRule(e, at, tail)
    BY DEF Solves
  <2>4. Value(Codes, C!CodeRule(e, at, tail), at, tail)
    BY <1>1, <2>2, FormDoes
  <2>5. QED
    BY <2>3, <2>4
<1>2. PICK es, head : es = e.list /\ head = C!HeadOf(es)
  OBVIOUS
<1>3. IsSeq(es) /\ \A k \in 1..Len(es) : es[k] \in D /\ h[es[k]] < h[e]
  BY <1>1, <1>2, Items
<1>4. Len(es) \in Nat /\ Len(es) >= 1
  <2>1. PICK S : es \in Seq(S)
    BY <1>3 DEF IsSeq
  <2>2. es # << >>
    BY <1>1, <1>2
  <2>3. QED
    BY <2>1, <2>2
<1>5. C!PartsPlaced(P, T, es, head, tail)
  BY <1>1, <1>2 DEF Placed, C!FormsPlaced, Is, C!Is
<1>6. /\ C!Shaped(es, head)
      /\ head = "quasiquote" => Fits(es[2], 1)
      /\ \A x \in C!Parts(es, head) : WellFormed(x)
  <2>1. C!WellFormedRule(e)
    BY DEF Solves
  <2>2. C!Is("list", e)
    BY <1>1 DEF C!Is, Is
  <2>3. /\ C!Shaped(e.list, C!HeadOf(e.list))
        /\ C!HeadOf(e.list) = "quasiquote" => Fits(e.list[2], 1)
        /\ \A x \in C!Parts(e.list, C!HeadOf(e.list)) : WellFormed(x)
    BY <1>1, <2>1, <2>2 DEF C!WellFormedRule, C!HeadOf
  <2>4. QED
    BY <1>2, <2>3
<1>7. ASSUME NEW k \in C!Positions(es, head)
      PROVE  k \in 1..Len(es) /\ es[k] \in D /\ h[es[k]] < h[e] /\ WellFormed(es[k])
  <2>1. k \in 1..Len(es) /\ es[k] \in C!Parts(es, head)
    BY <1>3, <1>7, PositionsAreParts
  <2>2. QED
    BY <1>3, <1>6, <2>1
<1>8. ASSUME NEW k \in C!Positions(es, head)
      PROVE  /\ k \in C!TailPositions(es, head, tail) => Fine(Codes, es[k], TRUE)
             /\ k \notin C!TailPositions(es, head, tail) => Fine(Codes, es[k], FALSE)
  <2>1. es[k] \in D /\ h[es[k]] < h[e] /\ WellFormed(es[k])
    BY <1>7, <1>8
  <2>2. CASE k \in C!TailPositions(es, head, tail)
    <3>1. es[k] \in P[TRUE]
      BY <1>5, <1>8, <2>2 DEF C!PartsPlaced
    <3>2. Fine(Codes, es[k], TRUE)
      BY <2>1, <3>1, LowerForm
    <3>3. QED
      BY <2>2, <3>2
  <2>3. CASE k \notin C!TailPositions(es, head, tail)
    <3>1. es[k] \in P[FALSE]
      BY <1>5, <1>8, <2>3 DEF C!PartsPlaced
    <3>2. Fine(Codes, es[k], FALSE)
      BY <2>1, <3>1, LowerForm
    <3>3. QED
      BY <2>3, <3>2
  <2>4. QED
    BY <2>2, <2>3
<1>9. ASSUME head = "quasiquote" PROVE Apt(Codes, es[2], 1)
  <2>1. Len(es) = 2
    BY <1>6, <1>9 DEF C!Shaped
  <2>2. 2 \in 1..Len(es) /\ 1 \in Nat \ {0}
    BY <2>1
  <2>3. es[2] \in D /\ h[es[2]] < h[e]
    BY <1>3, <2>2
  <2>4. es[2] \in T[1]
    BY <1>5, <1>9 DEF C!PartsPlaced
  <2>5. QED
    BY <1>6, <1>9, <2>2, <2>3, <2>4, LowerTemplate
<1>10. ASSUME head \in {"let", "let*"}
       PROVE  /\ IsSeq(es[2].list)
              /\ \A k \in 1..Len(es[2].list) : Fine(Codes, es[2].list[k].list[2], FALSE)
  <2>1. /\ Len(es) >= 3 /\ C!Is("list", es[2])
        /\ \A k \in 1..Len(es[2].list) : C!IsBinding(es[2].list[k])
    BY <1>6, <1>10 DEF C!Shaped
  <2>2. 2 \in 1..Len(es)
    BY <1>4, <2>1
  <2>3. PICK b : b = es[2]
    OBVIOUS
  <2>4. b \in D /\ h[b] < h[e] /\ Is("list", b)
    BY <1>3, <2>1, <2>2, <2>3 DEF C!Is, Is
  <2>5. IsSeq(b.list) /\ \A k \in 1..Len(b.list) : b.list[k] \in D /\ h[b.list[k]] < h[b]
    BY <2>4, Items
  <2>6. ASSUME NEW k \in 1..Len(b.list) PROVE Fine(Codes, b.list[k].list[2], FALSE)
    <3>1. PICK p : p = b.list[k]
      OBVIOUS
    <3>2. p \in D /\ h[p] < h[b] /\ C!IsBinding(p)
      BY <2>1, <2>3, <2>5, <2>6, <3>1
    <3>3. Is("list", p) /\ Len(p.list) = 2
      BY <3>2 DEF C!IsBinding, C!Is, Is
    <3>4. PICK x : x = p.list[2]
      OBVIOUS
    <3>5. x \in D /\ h[x] < h[p]
      BY <3>2, <3>3, <3>4, SecondLower
    <3>6. h[x] < h[b]
      BY <2>4, <3>2, <3>5, HeightTransitive
    <3>7. h[x] < h[e]
      BY <2>4, <3>5, <3>6, HeightTransitive
    <3>8. x \in C!Parts(es, head)
      <4>1. x \in {es[2].list[i].list[2] : i \in 1..Len(es[2].list)}
        BY <2>3, <2>6, <3>1, <3>4
      <4>2. QED
        BY <1>10, <4>1 DEF C!Parts
    <3>9. x \in P[FALSE]
      BY <1>5, <1>10, <2>3, <2>6, <3>1, <3>4 DEF C!PartsPlaced
    <3>10. WellFormed(x)
      BY <1>6, <3>8
    <3>11. Fine(Codes, x, FALSE)
      BY <3>5, <3>7, <3>9, <3>10, LowerForm
    <3>12. QED
      BY <3>1, <3>4, <3>11
  <2>7. QED
    BY <2>3, <2>5, <2>6
<1>11. ASSUME head = "lambda" PROVE C!LambdaChunk(es, << >>) \in Codes
  <2>1. C!IsCall(e, "lambda")
    <3>1. C!Is("sym", es[1]) /\ es[1].sym = "lambda"
      BY <1>2, <1>11 DEF C!HeadOf
    <3>2. 1 \in 1..Len(es)
      BY <1>4
    <3>3. es[1] \in D
      BY <1>3, <3>2
    <3>4. es[1] = C!Sym(es[1].sym)
      BY <3>1, <3>3 DEF Data, C!Is, Is
    <3>5. es[1] = C!Sym("lambda")
      BY <3>1, <3>4
    <3>6. C!Is("list", e) /\ e.list # << >> /\ e.list[1] = C!Sym("lambda")
      BY <1>1, <1>2, <3>5 DEF C!Is, Is
    <3>7. QED
      BY <3>6 DEF C!IsCall
  <2>2. IsLambda(P, e)
    <3>1. e \in P[TRUE] \/ e \in P[FALSE]
      <4>1. tail = TRUE \/ tail = FALSE
        OBVIOUS
      <4>2. QED
        BY <4>1
    <3>2. QED
      BY <2>1, <3>1 DEF IsLambda
  <2>3. << >> \in Selves(D)
    BY DEF Selves
  <2>4. QED
    BY <1>2, <2>2, <2>3 DEF LambdasIn
<1>12. ASSUME head = "define", C!IsCall(es[3], "lambda")
       PROVE  C!LambdaChunk(es[3].list, <<[op |-> "StoreSelf", name |-> es[2].sym]>>) \in Codes
  <2>1. Len(es) = 3
    BY <1>6, <1>12 DEF C!Shaped
  <2>2. 3 \in C!Positions(es, head) /\ 3 \notin C!TailPositions(es, head, tail) /\ 2 \in 1..Len(es)
    BY <1>12, <2>1 DEF C!Positions, C!TailPositions
  <2>3. es[3] \in D /\ WellFormed(es[3])
    BY <1>7, <2>2
  <2>4. es[3] \in P[FALSE]
    BY <1>5, <2>2 DEF C!PartsPlaced
  <2>5. IsLambda(P, es[3])
    BY <1>12, <2>3, <2>4 DEF IsLambda
  <2>6. <<[op |-> "StoreSelf", name |-> es[2].sym]>> \in Selves(D)
    BY <1>3, <2>2 DEF Selves
  <2>7. QED
    BY <2>3, <2>5, <2>6 DEF LambdasIn
<1>13. ASSUME head = "for"
       PROVE  (\A w \in LoopForms : Anywhere(Codes, w)) /\ Anywhere(Codes, C!Sym(es[2].sym))
  <2>1. Len(es) >= 4 /\ C!Is("sym", es[2])
    BY <1>6, <1>13 DEF C!Shaped
  <2>2. 2 \in 1..Len(es)
    BY <1>4, <2>1
  <2>3. es[2] \in D /\ ~Is("fn", es[2]) /\ es[2] = C!Sym(es[2].sym)
    BY <1>3, <2>1, <2>2 DEF Data, C!Is, Is
  <2>4. ~C!Is("list", C!Sym(es[2].sym))
    BY DEF C!Is, C!Sym
  <2>5. PICK w : w = C!Sym(es[2].sym)
    OBVIOUS
  <2>6. w \in D /\ ~Is("fn", w) /\ ~C!Is("list", w)
    BY <2>3, <2>4, <2>5
  <2>7. Anywhere(Codes, w)
    BY <2>6, AtomsAnywhere
  <2>8. QED
    BY <2>5, <2>7, LoopFormsAnywhere
<1>14. \A k \in 1..Len(es) : ~Is("fn", es[k])
  BY <1>3 DEF Data
<1>15. head = "tailcall" => tail
  BY <1>5 DEF C!PartsPlaced
<1>16. PartsFine(Codes, es, head, tail)
  BY <1>6, <1>8, <1>9, <1>10, <1>11, <1>12, <1>13, <1>14, <1>15 DEF PartsFine
<1>17. QED
  BY <1>2, <1>3, <1>16

(* Where a template escapes to code or to the level below.                 *)
EscapeApt(Codes, e, depth) ==
  IF depth = 1 THEN Fine(Codes, e.list[2], FALSE) ELSE Apt(Codes, e.list[2], depth - 1)
(* A template's escape is right if all lower forms and templates are.      *)
LEMMA EscapeStep ==
  ASSUME NEW Codes, NEW D, NEW h, NEW P, NEW T, Data(D, h), NEW e \in D,
         LowerGood(Codes, D, h, P, T, e), NEW x \in D, x = e \/ h[x] < h[e], Is("list", x),
         NEW depth \in Nat \ {0}, C!FitsEscape(x, depth), C!EscapePlaced(P, T, x, depth)
  PROVE  EscapeApt(Codes, x, depth)
<1>1. PICK y : y = x.list[2]
  OBVIOUS
<1>2. Len(x.list) = 2
  BY DEF C!FitsEscape
<1>3. y \in D /\ h[y] < h[x]
  BY <1>1, <1>2, SecondLower
<1>4. h[y] < h[e]
  <2>1. CASE x = e
    BY <1>3, <2>1
  <2>2. CASE x # e
    BY <1>3, <2>2, HeightTransitive
  <2>3. QED
    BY <2>1, <2>2
<1>5. CASE depth = 1
  <2>1. WellFormed(y) /\ y \in P[FALSE]
    BY <1>1, <1>5 DEF C!FitsEscape, C!EscapePlaced
  <2>2. Fine(Codes, y, FALSE)
    BY <1>3, <1>4, <2>1, LowerForm
  <2>3. QED
    BY <1>1, <1>5, <2>2 DEF EscapeApt
<1>6. CASE depth # 1
  <2>1. PICK d : d = depth - 1
    OBVIOUS
  <2>2. d \in Nat \ {0}
    BY <1>6, <2>1
  <2>3. Fits(y, d) /\ y \in T[d]
    BY <1>1, <1>6, <2>1 DEF C!FitsEscape, C!EscapePlaced
  <2>4. Apt(Codes, y, d)
    BY <1>3, <1>4, <2>2, <2>3, LowerTemplate
  <2>5. QED
    BY <1>1, <1>6, <2>1, <2>4 DEF EscapeApt
<1>7. QED
  BY <1>5, <1>6

(* The code of a template is right if that of all lower ones is.           *)
LEMMA TemplateStep ==
  ASSUME NEW Codes, NEW D, NEW h, NEW P, NEW T, Data(D, h), Solves(D), Placed(D, P, T),
         NEW e \in D, LowerGood(Codes, D, h, P, T, e),
         NEW depth \in Nat \ {0}, e \in T[depth], Fits(e, depth)
  PROVE  Apt(Codes, e, depth)
<1>1. SUFFICES ASSUME NEW at \in Nat PROVE Value(Codes, Quasi(e, depth, at), at, FALSE)
  BY DEF Apt
<1>2. Quasi(e, depth, at) = C!QuasiRule(e, depth, at)
  BY DEF Solves
<1>3. ~Is("fn", e) /\ (Is("list", e) => IsSeq(e.list))
  BY DEF Data
<1>4. C!FitsRule(e, depth)
  BY DEF Solves
<1>5. Is("list", e) => C!TemplatePlaced(P, T, e, depth)
  BY DEF Placed, C!TemplatesPlaced, Is, C!Is
<1>6. ASSUME C!IsCall(e, "unquote")
      PROVE  IF depth = 1 THEN Fine(Codes, e.list[2], FALSE) ELSE Apt(Codes, e.list[2], depth - 1)
  <2>1. Is("list", e) /\ C!Is("list", e)
    BY <1>6 DEF C!IsCall, C!Is, Is
  <2>2. C!FitsEscape(e, depth)
    BY <1>4, <1>6, <2>1 DEF C!FitsRule
  <2>3. C!EscapePlaced(P, T, e, depth)
    BY <1>5, <1>6, <2>1 DEF C!TemplatePlaced
  <2>4. EscapeApt(Codes, e, depth)
    BY <2>1, <2>2, <2>3, EscapeStep
  <2>5. QED
    BY <2>4 DEF EscapeApt
<1>7. ASSUME C!IsCall(e, "quasiquote") PROVE Apt(Codes, e.list[2], depth + 1)
  <2>1. Is("list", e) /\ C!Is("list", e)
    BY <1>7 DEF C!IsCall, C!Is, Is
  <2>2. ~C!IsCall(e, "unquote")
    BY <1>7 DEF C!IsCall, C!Sym
  <2>3. PICK y, d : y = e.list[2] /\ d = depth + 1
    OBVIOUS
  <2>4. Len(e.list) = 2 /\ Fits(y, d)
    BY <1>4, <1>7, <2>1, <2>2, <2>3 DEF C!FitsRule
  <2>5. y \in T[d]
    BY <1>5, <1>7, <2>1, <2>2, <2>3 DEF C!TemplatePlaced
  <2>6. y \in D /\ h[y] < h[e]
    BY <2>1, <2>3, <2>4, SecondLower
  <2>7. d \in Nat \ {0}
    BY <2>3
  <2>8. Apt(Codes, y, d)
    BY <2>4, <2>5, <2>6, <2>7, LowerTemplate
  <2>9. QED
    BY <2>3, <2>8
<1>8. ASSUME Is("list", e), ~C!IsCall(e, "unquote"), ~C!IsCall(e, "quasiquote"),
             NEW k \in 1..Len(e.list)
      PROVE  ItemApt(Codes, e.list[k], depth)
  <2>1. PICK x : x = e.list[k]
    OBVIOUS
  <2>2. x \in D /\ h[x] < h[e]
    BY <1>8, <2>1, Items
  <2>3. C!Is("list", e)
    BY <1>8 DEF C!Is, Is
  <2>4. IF C!IsCall(x, "unquote-splicing") THEN C!FitsEscape(x, depth) ELSE Fits(x, depth)
    BY <1>4, <1>8, <2>1, <2>3 DEF C!FitsRule
  <2>5. IF C!IsCall(x, "unquote-splicing") THEN C!EscapePlaced(P, T, x, depth) ELSE x \in T[depth]
    BY <1>5, <1>8, <2>1 DEF C!TemplatePlaced
  <2>6. CASE C!IsCall(x, "unquote-splicing")
    <3>1. Is("list", x)
      BY <2>6 DEF C!IsCall, C!Is, Is
    <3>2. EscapeApt(Codes, x, depth)
      BY <2>2, <2>4, <2>5, <2>6, <3>1, EscapeStep
    <3>3. QED
      BY <2>1, <2>6, <3>2 DEF ItemApt, EscapeApt
  <2>7. CASE ~C!IsCall(x, "unquote-splicing")
    <3>1. Apt(Codes, x, depth)
      BY <2>2, <2>4, <2>5, <2>7, LowerTemplate
    <3>2. QED
      BY <2>1, <2>7, <3>1 DEF ItemApt
  <2>8. QED
    BY <2>6, <2>7
<1>9. Value(Codes, C!QuasiRule(e, depth, at), at, FALSE)
  BY <1>3, <1>6, <1>7, <1>8, TemplateDoes
<1>10. QED
  BY <1>2, <1>9

(* The induction over the height of forms.                                 *)
LEMMA EveryFormGood ==
  ASSUME NEW Codes, NEW D, NEW h, NEW P, NEW T, Data(D, h), Solves(D), Placed(D, P, T),
         LambdasIn(Codes, D, P)
  PROVE  \A e \in D : Good(Codes, P, T, e)
<1>1. PICK S : S = {n \in Nat : \A e \in D : h[e] < n => Good(Codes, P, T, e)}
  OBVIOUS
<1>2. \A e \in D : h[e] \in Nat
  BY DEF Data
<1>3. 0 \in S
  BY <1>1, <1>2
<1>4. ASSUME NEW n \in Nat, n \in S PROVE n + 1 \in S
  <2>1. ASSUME NEW e \in D, h[e] < n + 1 PROVE Good(Codes, P, T, e)
    <3>1. \A x \in D : h[x] < h[e] => h[x] < n
      BY <1>2, <2>1
    <3>2. \A x \in D : h[x] < n => Good(Codes, P, T, x)
      BY <1>1, <1>4
    <3>3. LowerGood(Codes, D, h, P, T, e)
      BY <3>1, <3>2 DEF LowerGood
    <3>4. ASSUME NEW tail \in BOOLEAN, e \in P[tail], WellFormed(e) PROVE Fine(Codes, e, tail)
      BY <3>3, <3>4, FormStep
    <3>5. ASSUME NEW depth \in Nat \ {0}, e \in T[depth], Fits(e, depth)
          PROVE  Apt(Codes, e, depth)
      BY <3>3, <3>5, TemplateStep
    <3>6. QED
      BY <3>4, <3>5 DEF Good
  <2>2. n + 1 \in Nat
    OBVIOUS
  <2>3. QED
    BY <1>1, <2>1, <2>2
<1>5. Nat \subseteq S
  BY <1>3, <1>4, Emitting!NatInduces
<1>6. ASSUME NEW e \in D PROVE Good(Codes, P, T, e)
  <2>1. h[e] + 1 \in Nat /\ h[e] < h[e] + 1
    BY <1>2
  <2>2. h[e] + 1 \in S
    BY <1>5, <2>1
  <2>3. QED
    BY <1>1, <2>1, <2>2
<1>7. QED
  BY <1>6

-----------------------------------------------------------------------------
(* A chunk: code that leaves its value and returns it.                     *)
Annotated(c) ==
  \E d, s : Counts(d) /\ Counts(s) /\ OperandsAdd(c, d) /\ ScopesAdd(c, d, s)
ChunkFine(Codes, c) == Fragment(Codes, c) /\ Annotated(c)

(* Code with a value, and Return after it, is a whole chunk.               *)
LEMMA ReturningFine ==
  ASSUME NEW Codes, NEW c, Value(Codes, c, 1, TRUE)
  PROVE  ChunkFine(Codes, c \o <<C!Do("Return")>>)
<1>1. PICK n, ret, r : n = Len(c) /\ ret = C!Do("Return") /\ r = c \o <<ret>>
  OBVIOUS
<1>2. Fragment(Codes, c) /\ Moves(c, 1, {}, 0, 0, 1, 0)
  <2>1. Fragment(Codes, c)
    BY DEF Value, Does
  <2>2. PICK a \in Nat : a = 0
    OBVIOUS
  <2>3. Moves(c, 1, {}, a + 0, a + 0, a + 1, a + 0)
    BY <2>2 DEF Value, Does
  <2>4. a + 0 = 0 /\ a + 1 = 1
    BY <2>2
  <2>5. QED
    BY <2>1, <2>3, <2>4
<1>3. n \in Nat
  BY <1>1, <1>2, LenIsNat DEF Fragment
<1>4. Sane(Codes, ret)
  BY <1>1 DEF Sane, C!Do
<1>5. /\ Fragment(Codes, r) /\ IsSeq(r) /\ Len(r) = n + 1
      /\ \A k \in 1..n : r[k] = c[k]
      /\ r[n + 1] = ret
  <2>1. Fragment(Codes, <<ret>>) /\ Len(<<ret>>) = 1
    BY <1>4, OneSane
  <2>2. Fragment(Codes, r) /\ Len(r) = n + 1
    BY <1>1, <1>2, <2>1, Fragments
  <2>3. IsSeq(c) /\ IsSeq(<<ret>>)
    BY <1>2, <2>1 DEF Fragment
  <2>4. /\ \A k \in 1..n : r[k] = c[k]
        /\ \A k \in 1..1 : r[n + k] = <<ret>>[k]
    BY <1>1, <2>1, <2>3, SeqJoined
  <2>5. r[n + 1] = ret
    BY <2>4
  <2>6. QED
    BY <2>2, <2>4, <2>5 DEF Fragment
<1>6. PICK d, s : Counts(d) /\ Counts(s) /\ Annotates(c, 1, {}, Ends(c, 1, 0, 0, 1, 0), d, s)
  BY <1>2 DEF Moves, Adds
<1>7. d[1] = 0 /\ s[1] = 0 /\ d[n + 1] = 1 /\ s[n + 1] = 0
  <2>1. <<1, 0, 0>> \in Ends(c, 1, 0, 0, 1, 0) /\ <<1 + n, 1, 0>> \in Ends(c, 1, 0, 0, 1, 0)
    BY <1>1 DEF Ends
  <2>2. 1 + n = n + 1
    BY <1>3
  <2>3. <<n + 1, 1, 0>> \in Ends(c, 1, 0, 0, 1, 0)
    BY <2>1, <2>2
  <2>4. QED
    BY <1>6, <2>1, <2>3 DEF Annotates
<1>8. ASSUME NEW i \in 1..n
      PROVE  /\ r[i] = c[i] /\ i \in Nat /\ i + 1 \in 1..(n + 1)
             /\ Judged(c[i], i, d, s, 1, n + 1, {})
  <2>1. Judged(c[i], 1 + i - 1, d, s, 1, 1 + n, {})
    BY <1>1, <1>6, <1>8 DEF Annotates
  <2>2. 1 + i - 1 = i /\ 1 + n = n + 1 /\ i \in Nat /\ i + 1 \in 1..(n + 1)
    BY <1>3
  <2>3. QED
    BY <1>5, <2>1, <2>2
<1>9. ret.op = "Return" /\ Needs(ret) = 1 /\ Leaves(ret) = 0 /\ Opens(ret) = 0
  BY <1>1 DEF C!Do, Needs, Leaves, Opens
<1>10. OperandsAdd(r, d)
  <2>1. Arrives(r, d, 1, 0)
    BY <1>3, <1>5, <1>7 DEF Arrives
  <2>2. ASSUME NEW i \in 1..Len(r), NEW x, x = r[i], NEW after, after = d[i] - Needs(x) + Leaves(x)
        PROVE  /\ d[i] >= Needs(x)
               /\ x.op \in {"Jump", "JumpIfFalse"} => Arrives(r, d, x.to, after)
               /\ x.op \notin {"Jump", "Return", "TreeEval"} => Arrives(r, d, i + 1, after)
               /\ x.op \in {"Return", "TailCall"} => d[i] = Needs(x)
    <3>1. CASE i \in 1..n
      <4>1. x = c[i] /\ Judged(x, i, d, s, 1, n + 1, {}) /\ i + 1 \in 1..(n + 1)
        BY <1>8, <2>2, <3>1
      <4>2. QED
        BY <1>5, <2>2, <4>1 DEF Judged, Arrives
    <3>2. CASE i = n + 1
      <4>1. x = ret /\ d[i] = 1
        BY <1>5, <1>7, <2>2, <3>2
      <4>2. QED
        BY <1>9, <4>1
    <3>3. QED
      BY <1>3, <1>5, <2>2, <3>1, <3>2
  <2>3. QED
    BY <2>1, <2>2 DEF OperandsAdd
<1>11. ScopesAdd(r, d, s)
  <2>1. ASSUME NEW i \in 1..Len(r), NEW x, x = r[i], NEW after, after = s[i] + Opens(x)
        PROVE  /\ s[i] \in Nat /\ after >= 0
               /\ x.op = "Return" => s[i] = 0
               /\ x.op \in {"Jump", "JumpIfFalse"} => s[x.to] = after
               /\ x.op \notin {"Jump", "Return", "TreeEval"} => s[i + 1] = after
    <3>1. s[i] \in Nat
      BY <1>3, <1>5, <1>6 DEF Counts
    <3>2. CASE i \in 1..n
      <4>1. x = c[i] /\ Judged(x, i, d, s, 1, n + 1, {})
        BY <1>8, <2>1, <3>2
      <4>2. QED
        BY <2>1, <3>1, <4>1 DEF Judged
    <3>3. CASE i = n + 1
      <4>1. x = ret /\ s[i] = 0
        BY <1>5, <1>7, <2>1, <3>3
      <4>2. QED
        BY <1>9, <2>1, <4>1
    <3>4. QED
      BY <1>3, <1>5, <2>1, <3>2, <3>3
  <2>2. QED
    BY <1>7, <2>1 DEF ScopesAdd
<1>12. QED
  BY <1>1, <1>5, <1>6, <1>10, <1>11 DEF ChunkFine, Annotated

(* The code of a lambda, wherever it stands, with its name or without.     *)
LEMMA SelfDoes ==
  ASSUME NEW Codes, NEW D, NEW self \in Selves(D)
  PROVE  Does(Codes, self, 1, 0, 0, 0, 0, FALSE)
<1>1. CASE self = << >>
  BY <1>1, NothingDoes
<1>2. ASSUME NEW e \in D, self = <<[op |-> "StoreSelf", name |-> e.sym]>>
      PROVE  Does(Codes, self, 1, 0, 0, 0, 0, FALSE)
  BY <1>2, Instructions
<1>3. QED
  BY <1>1, <1>2 DEF Selves

(* The chunk of a lambda.                                                  *)
LEMMA LambdaChunkFine ==
  ASSUME NEW Codes, NEW D, NEW h, NEW P, NEW T, Data(D, h), Solves(D), Placed(D, P, T),
         \A x \in D : Good(Codes, P, T, x),
         NEW e \in D, IsLambda(P, e), NEW self \in Selves(D)
  PROVE  ChunkFine(Codes, C!LambdaChunk(e.list, self))
<1>1. PICK es, N : es = e.list /\ N = Len(es)
  OBVIOUS
<1>2. Is("list", e) /\ C!Is("list", e) /\ e.list # << >> /\ es[1] = C!Sym("lambda")
  BY <1>1 DEF IsLambda, C!IsCall, C!Is, Is
<1>3. C!HeadOf(es) = "lambda"
  BY <1>2 DEF C!HeadOf, C!Is, C!Sym
<1>4. IsSeq(es) /\ \A k \in 1..N : es[k] \in D
  BY <1>1, <1>2, Items
<1>5. N \in Nat
  BY <1>1, <1>4, LenIsNat
<1>6. N >= 3 /\ \A x \in C!Parts(es, "lambda") : WellFormed(x)
  <2>1. C!WellFormedRule(e)
    BY DEF Solves, IsLambda
  <2>2. C!Shaped(e.list, C!HeadOf(e.list)) /\ \A x \in C!Parts(e.list, C!HeadOf(e.list)) : WellFormed(x)
    BY <1>2, <2>1 DEF C!WellFormedRule, C!HeadOf
  <2>3. C!Shaped(es, "lambda") /\ \A x \in C!Parts(es, "lambda") : WellFormed(x)
    BY <1>1, <1>3, <2>2
  <2>4. QED
    BY <1>1, <2>3 DEF C!Shaped
<1>7. PICK tail \in BOOLEAN : C!PartsPlaced(P, T, es, "lambda", tail)
  <2>1. PICK tail \in BOOLEAN : e \in P[tail]
    BY DEF IsLambda
  <2>2. WellFormed(e)
    BY DEF IsLambda
  <2>3. C!PartsPlaced(P, T, es, C!HeadOf(es), tail)
    BY <1>1, <1>2, <2>1, <2>2 DEF Placed, C!FormsPlaced
  <2>4. QED
    BY <1>3, <2>3
<1>8. C!Positions(es, "lambda") = 3..N /\ C!TailPositions(es, "lambda", tail) = {N}
  BY <1>1 DEF C!Positions, C!TailPositions
<1>9. ASSUME NEW k \in 3..N PROVE WellFormed(es[k]) /\ es[k] \in D
  <2>1. k \in C!Positions(es, "lambda")
    BY <1>8
  <2>2. k \in 1..Len(es) /\ es[k] \in C!Parts(es, "lambda")
    BY <1>4, <2>1, PositionsAreParts
  <2>3. QED
    BY <1>1, <1>4, <1>6, <2>2
<1>10. ASSUME NEW k \in 3..(N - 1) PROVE Fine(Codes, es[k], FALSE)
  <2>1. k \in 3..N /\ k # N
    BY <1>5
  <2>2. es[k] \in P[FALSE]
    BY <1>7, <1>8, <2>1 DEF C!PartsPlaced
  <2>3. WellFormed(es[k]) /\ Good(Codes, P, T, es[k])
    BY <1>9, <2>1
  <2>4. QED
    BY <2>2, <2>3 DEF Good
<1>11. Fine(Codes, es[N], TRUE)
  <2>1. N \in 3..N
    BY <1>5, <1>6
  <2>2. es[N] \in P[TRUE]
    BY <1>7, <1>8, <2>1 DEF C!PartsPlaced
  <2>3. WellFormed(es[N]) /\ Good(Codes, P, T, es[N])
    BY <1>9, <2>1
  <2>4. QED
    BY <2>2, <2>3 DEF Good
<1>12. PICK m, body : m = Len(self) + 1 /\ body = C!Body(C!From(es, 3), m, TRUE)
  OBVIOUS
<1>13. Does(Codes, self, 1, 0, 0, 0, 0, FALSE)
  BY SelfDoes
<1>14. m \in Nat /\ m = 1 + Len(self)
  <2>1. PICK l : l = Len(self)
    OBVIOUS
  <2>2. l \in Nat
    BY <1>13, <2>1, DoesIsSeq
  <2>3. QED
    BY <1>12, <2>1, <2>2
<1>15. Value(Codes, body, m, TRUE)
  <2>1. Len(es) >= 3 /\ \A k \in 3..(Len(es) - 1) : Fine(Codes, es[k], FALSE)
    BY <1>1, <1>6, <1>10
  <2>2. Fine(Codes, es[Len(es)], TRUE)
    BY <1>1, <1>11
  <2>3. TRUE \in BOOLEAN
    OBVIOUS
  <2>4. QED
    BY <1>4, <1>12, <1>14, <2>1, <2>2, <2>3, BodiesDo
<1>16. Value(Codes, self \o body, 1, TRUE)
  <2>1. Does(Codes, body, 1 + Len(self), 0, 1, 0, 0, TRUE)
    BY <1>14, <1>15 DEF Value
  <2>2. 1 \in Nat
    OBVIOUS
  <2>3. Does(Codes, self \o body, 1, 0, 1, 0, 0, TRUE)
    BY <1>13, <2>1, <2>2, DoesThen
  <2>4. QED
    BY <2>3 DEF Value
<1>17. C!LambdaChunk(es, self) = (self \o body) \o <<C!Do("Return")>>
  BY <1>12 DEF C!LambdaChunk
<1>18. QED
  BY <1>1, <1>16, <1>17, ReturningFine

(* The chunk of a form.                                                    *)
LEMMA FormChunkFine ==
  ASSUME NEW Codes, NEW P, NEW T, NEW e, Good(Codes, P, T, e), e \in P[TRUE], WellFormed(e)
  PROVE  ChunkFine(Codes, C!Chunk(e))
<1>1. Fine(Codes, e, TRUE)
  BY DEF Good
<1>2. Value(Codes, Code(e, 1, TRUE), 1, TRUE)
  BY <1>1, FineAt
<1>3. QED
  BY <1>2, ReturningFine DEF C!Chunk

(* The code given to a lambda that comes out of a list                     *)
(* (bytecode.rs:146-156).                                                  *)
LEMMA HollowFine ==
  ASSUME NEW Codes
  PROVE  ChunkFine(Codes, HollowCode)
<1>1. PICK c : c = <<C!LoadConst(C!Nil)>>
  OBVIOUS
<1>2. Value(Codes, c, 1, TRUE)
  <2>1. ~Is("fn", C!Nil) /\ 1 \in Nat
    BY DEF Is, C!Nil
  <2>2. Value(Codes, c, 1, FALSE)
    BY <1>1, <2>1, Instructions DEF Value
  <2>3. QED
    BY <2>2, ValueAny
<1>3. HollowCode = c \o <<C!Do("Return")>>
  <2>1. PICK a, b, r : a = C!LoadConst(C!Nil) /\ b = C!Do("Return") /\ r = <<a, b>>
    OBVIOUS
  <2>2. HollowCode = r
    BY <2>1 DEF HollowCode, C!LoadConst, C!Nil, Nil, C!Do
  <2>3. PICK n \in Nat : n = 1
    OBVIOUS
  <2>4. Longer(<<a>>, r, n, b)
    <3>1. /\ IsSeq(<<a>>) /\ Len(<<a>>) = 1 /\ <<a>>[1] = a
          /\ IsSeq(<<a, b>>) /\ Len(<<a, b>>) = 2 /\ <<a, b>>[1] = a /\ <<a, b>>[2] = b
      BY Words
    <3>2. Len(<<a>>) = n /\ Len(r) = n + 1 /\ r[n + 1] = b /\ \A k \in 1..n : r[k] = <<a>>[k]
      BY <2>1, <2>3, <3>1
    <3>3. QED
      BY <2>1, <3>1, <3>2 DEF Longer
  <2>5. r = <<a>> \o <<b>>
    BY ONLY <2>3, <2>4, Ended
  <2>6. QED
    BY <1>1, <2>1, <2>2, <2>5
<1>4. QED
  BY <1>2, <1>3, ReturningFine

(* The code that hands a body to the tree-walker (machine.rs:222-226).     *)
LEMMA TreeFine ==
  ASSUME NEW Codes, NEW e
  PROVE  ChunkFine(Codes, TreeCode(e))
<1>1. PICK x, c : x = [op |-> "TreeEval", expr |-> e] /\ c = <<x>>
  OBVIOUS
<1>2. x.op = "TreeEval" /\ Sane(Codes, x)
  BY <1>1 DEF Sane
<1>3. Fragment(Codes, c) /\ Len(c) = 1 /\ c[1] = x
  BY <1>1, <1>2, OneSane
<1>4. PICK d : Counts(d) /\ d[1] = 0
  <2> DEFINE f == [i \in Nat |-> 0]
  <2>1. Counts(f) /\ f[1] = 0
    BY DEF Counts
  <2> HIDE DEF f
  <2>2. QED
    BY <2>1
<1>5. Needs(x) = 0 /\ Leaves(x) = 0 /\ Opens(x) = 0
  BY <1>2 DEF Needs, Leaves, Opens
<1>6. OperandsAdd(c, d)
  <2>1. \A i \in 1..Len(c) : c[i] = x /\ d[i] = 0
    BY <1>3, <1>4
  <2>2. QED
    BY <1>2, <1>3, <1>4, <1>5, <2>1 DEF OperandsAdd, Arrives
<1>7. ScopesAdd(c, d, d)
  <2>1. \A i \in 1..Len(c) : c[i] = x /\ d[i] = 0
    BY <1>3, <1>4
  <2>2. QED
    BY <1>2, <1>4, <1>5, <2>1 DEF ScopesAdd
<1>8. QED
  BY <1>1, <1>3, <1>4, <1>6, <1>7 DEF ChunkFine, Annotated, TreeCode

(***************************************************************************)
(* The chunks of the machine: those of forms in tail position, of lambdas, *)
(* and the chunk that loads nil.  DepthOf and ScopesOf count the operands  *)
(* and the scopes of a chunk, if they can be counted.                      *)
(***************************************************************************)
FormChunks(D, P) == {C!Chunk(e) : e \in {x \in D : x \in P[TRUE] /\ WellFormed(x)}}
LambdaChunks(D, P) ==
  {C!LambdaChunk(p[1].list, p[2]) : p \in {q \in D \X Selves(D) : IsLambda(P, q[1])}}
CompiledChunks(D, P) == {HollowCode} \cup FormChunks(D, P) \cup LambdaChunks(D, P)

MachineCompiles(P) ==
  \A e : CodeOf(e) # << >> => e \in P[TRUE] /\ CodeOf(e) = C!Chunk(e)
CountsWhatCounts ==
  \A c : Annotated(c) =>
    /\ WellTyped(c) /\ WellScoped(c)
    /\ \A i \in 1..Len(c) : DepthOf(c)[i] \in Int /\ DepthOf(c)[i] >= -1

(* Every chunk that the machine can come to run has an annotation.         *)
LEMMA ChunksAreFine ==
  ASSUME NEW D, NEW h, NEW P, NEW T, Data(D, h), Solves(D), Placed(D, P, T),
         NEW Codes, Codes = CompiledChunks(D, P), NEW c, Known(Codes, c)
  PROVE  ChunkFine(Codes, c)
<1>1. LambdasIn(Codes, D, P)
  <2>1. ASSUME NEW e \in D, NEW self \in Selves(D), IsLambda(P, e)
        PROVE  C!LambdaChunk(e.list, self) \in Codes
    <3>1. PICK p : p = <<e, self>>
      OBVIOUS
    <3>2. p \in {q \in D \X Selves(D) : IsLambda(P, q[1])} /\ p[1] = e /\ p[2] = self
      BY <2>1, <3>1
    <3>3. C!LambdaChunk(p[1].list, p[2]) \in LambdaChunks(D, P)
      BY <3>2 DEF LambdaChunks
    <3>4. QED
      BY <3>2, <3>3 DEF CompiledChunks
  <2>2. QED
    BY <2>1 DEF LambdasIn
<1>2. \A e \in D : Good(Codes, P, T, e)
  BY <1>1, EveryFormGood
<1>3. CASE c = HollowCode
  BY <1>3, HollowFine
<1>4. CASE \E e : c = TreeCode(e)
  BY <1>4, TreeFine
<1>5. CASE c \in FormChunks(D, P)
  <2>1. PICK e \in D : e \in P[TRUE] /\ WellFormed(e) /\ c = C!Chunk(e)
    BY <1>5 DEF FormChunks
  <2>2. QED
    BY <1>2, <2>1, FormChunkFine
<1>6. CASE c \in LambdaChunks(D, P)
  <2>1. PICK e \in D, self \in Selves(D) : IsLambda(P, e) /\ c = C!LambdaChunk(e.list, self)
    BY <1>6 DEF LambdaChunks
  <2>2. QED
    BY <1>2, <2>1, LambdaChunkFine
<1>7. QED
  BY <1>3, <1>4, <1>5, <1>6 DEF Known, CompiledChunks

(* So the compiler fulfils what the theorems above ask of code.            *)
LEMMA CompiledCodesOK ==
  ASSUME NEW D, NEW h, NEW P, NEW T, Data(D, h), Solves(D), Placed(D, P, T),
         MachineCompiles(P), CountsWhatCounts
  PROVE  CodesOK(CompiledChunks(D, P)) /\ ScopesOK(CompiledChunks(D, P))
<1>1. PICK Codes : Codes = CompiledChunks(D, P)
  OBVIOUS
<1>2. ASSUME NEW c, Known(Codes, c) PROVE ChunkOK(Codes, c) /\ WellScoped(c)
  <2>1. Fragment(Codes, c) /\ Annotated(c)
    BY <1>1, <1>2, ChunksAreFine DEF ChunkFine
  <2>2. /\ WellTyped(c) /\ WellScoped(c)
        /\ \A i \in 1..Len(c) : DepthOf(c)[i] \in Int /\ DepthOf(c)[i] >= -1
    BY <2>1 DEF CountsWhatCounts
  <2>3. Len(c) \in Nat
    BY <2>1, LenIsNat DEF Fragment
  <2>4. \A i \in 1..Len(c) : Sane(Codes, c[i])
    BY <2>1 DEF Fragment, AllSane
  <2>5. QED
    BY <2>2, <2>3, <2>4 DEF ChunkOK, Sane
<1>3. ASSUME NEW e, CodeOf(e) # << >> PROVE CodeOf(e) \in Codes
  <2>1. e \in P[TRUE] /\ CodeOf(e) = C!Chunk(e)
    BY <1>3 DEF MachineCompiles
  <2>2. WellFormed(e)
    BY <1>3, <2>1 DEF C!Chunk
  <2>3. e \in D
    BY <2>1 DEF Placed
  <2>4. C!Chunk(e) \in FormChunks(D, P)
    BY <2>1, <2>2, <2>3 DEF FormChunks
  <2>5. QED
    BY <1>1, <2>1, <2>4 DEF CompiledChunks
<1>4. HollowCode \in Codes
  BY <1>1 DEF CompiledChunks
<1>5. CodesOK(Codes)
  BY <1>2, <1>3, <1>4 DEF CodesOK
<1>6. ScopesOK(Codes)
  BY <1>2 DEF ScopesOK
<1>7. QED
  BY <1>1, <1>5, <1>6

(* The code that frames run is well typed, in every state.                 *)
LEMMA SoundIsWellTyped ==
  ASSUME NEW Codes, CodesOK(Codes), ScopesOK(Codes), NEW s, NEW fr, Sound(Codes, s, fr)
  PROVE  \A k \in 1..Len(fr) : WellTyped(fr[k].code) /\ WellScoped(fr[k].code)
<1>1. SUFFICES ASSUME NEW k \in 1..Len(fr)
               PROVE  WellTyped(fr[k].code) /\ WellScoped(fr[k].code)
  OBVIOUS
<1>2. Known(Codes, fr[k].code)
  BY DEF Sound, FrameOK
<1>3. QED
  BY <1>2 DEF CodesOK, ScopesOK, ChunkOK

(* The compiler (vm/compiler.rs) emits well typed code: whatever the       *)
(* program's forms are and however they nest, every frame's code has at    *)
(* each instruction one number of operands and of open scopes on every     *)
(* path to it, never takes more than it has, never jumps outside itself,   *)
(* and returns with one value.                                             *)
THEOREM CompiledCodeIsWellTyped ==
  ASSUME NEW D, NEW h, NEW P, NEW T, Data(D, h), Solves(D), Placed(D, P, T),
         MachineCompiles(P), CountsWhatCounts
  PROVE  Spec => []CodeIsWellTyped
<1>1. PICK Codes : CodesOK(Codes) /\ ScopesOK(Codes)
  BY CompiledCodesOK
<1>2. Init => CodeIsWellTyped
  <2>1. SUFFICES ASSUME Init PROVE CodeIsWellTyped
    OBVIOUS
  <2>2. CASE CodeOf(form) = << >>
    <3>1. PICK f : f = Frame(CodeOf(form), 0, 1)
      OBVIOUS
    <3>2. frames = <<f>> /\ f.code = << >>
      BY <2>1, <2>2, <3>1 DEF Init, Frame
    <3>3. \A k \in 1..Len(frames) : frames[k].code = << >>
      BY <3>2
    <3>4. QED
      BY <3>3 DEF CodeIsWellTyped
  <2>3. CASE CodeOf(form) # << >>
    <3>1. result # Failure
      BY <2>1, <2>3, RunningIsNoFailure DEF Init
    <3>2. Sound(Codes, stack, frames)
      BY <1>1, <2>1, <3>1, Initially DEF IInv
    <3>3. QED
      BY <1>1, <3>2, SoundIsWellTyped DEF CodeIsWellTyped
  <2>4. QED
    BY <2>2, <2>3
<1>3. IInv(Codes) /\ CodeIsWellTyped /\ [Next]_vars => CodeIsWellTyped'
  <2>1. SUFFICES ASSUME IInv(Codes), CodeIsWellTyped, [Next]_vars PROVE CodeIsWellTyped'
    OBVIOUS
  <2>2. CASE UNCHANGED frames
    BY <2>1, <2>2 DEF CodeIsWellTyped
  <2>3. CASE UNCHANGED vars \/ Fail \/ Finished
    BY <2>2, <2>3 DEF vars, Fail, Finished
  <2>4. CASE Next /\ ~Fail /\ ~Finished
    <3>1. result = Running
      BY <2>4 DEF Next, LoadConst, LoadVar, StoreVar, AssignVar, Pop, LoadNil, MakeList,
         PrependList, AppendSplice, Jump, JumpIfFalse, PushEnv, PopEnv, MakeFunc, CallPrim,
         AtCall, Call, TailCall, Return, TreeEvalOp, At
    <3>2. Sound(Codes, stack', frames')
      BY <1>1, <2>1, <2>4, <3>1, RunningIsNoFailure, ActionsKeep DEF IInv
    <3>3. \A k \in 1..Len(frames') : WellTyped(frames'[k].code) /\ WellScoped(frames'[k].code)
      BY <1>1, <3>2, SoundIsWellTyped
    <3>4. QED
      BY <3>3 DEF CodeIsWellTyped, WellTyped, WellScoped
  <2>5. QED
    BY <2>1, <2>3, <2>4
<1>4. Spec => []IInv(Codes)
  BY <1>1, InductiveInvariant
<1>5. QED
  BY <1>2, <1>3, <1>4, PTL DEF Spec

(* So the machine is safe on everything the compiler emits, with nothing   *)
(* assumed of the chunks: no instruction (machine.rs:353-547) takes        *)
(* another frame's operand, every frame returns with its value alone, and  *)
(* no instruction pointer leaves its code.                                 *)
THEOREM CompiledCodeIsSafe ==
  ASSUME NEW D, NEW h, NEW P, NEW T, Data(D, h), Solves(D), Placed(D, P, T),
         MachineCompiles(P), CountsWhatCounts
  PROVE  Spec => [](OwnOperandsOnly /\ NothingLeftOver /\ TypeOK)
<1>1. PICK Codes : CodesOK(Codes)
  BY CompiledCodesOK
<1>2. Spec => []OwnOperandsOnly
  BY <1>1, OperandsSafe
<1>3. Spec => []NothingLeftOver
  BY <1>1, ReturnsClean
<1>4. Spec => []TypeOK
  BY <1>1, FramesOrdered
<1>5. QED
  BY <1>2, <1>3, <1>4, PTL

(* And a compiled form closes every scope it opened (compiler.rs emits a   *)
(* PopEnv for each PushEnv on every path), if the tree-walker that it may  *)
(* call leaves the parents of environments as they are.                    *)
THEOREM CompiledScopesClose ==
  ASSUME NEW D, NEW h, NEW P, NEW T, Data(D, h), Solves(D), Placed(D, P, T),
         MachineCompiles(P), CountsWhatCounts, TreeKeepsParents
  PROVE  Spec => []ScopesClosed
BY CompiledCodesOK, ScopesAreClosed
=============================================================================
