------------------------------ MODULE Folding -------------------------------
(***************************************************************************)
(* Induction over the natural numbers and over folds, in a form that needs *)
(* no theorem about an unknown predicate: a predicate is a set of numbers, *)
(* and the operation of a fold is a constant of this module, which an      *)
(* INSTANCE of it names.                                                   *)
(***************************************************************************)
EXTENDS Integers, Sequences, WellFoundedInduction, TLAPS

CONSTANT Step(_, _, _)  \* the operation: what it is given, the result so far, the next element

-----------------------------------------------------------------------------
(* Induction, from the fact that < on the naturals is well founded.        *)
Below == {ss \in Nat \X Nat : ss[1] < ss[2]}

(* A set with 0 and, of each of its numbers, the next has all of them.     *)
LEMMA NatInduces ==
  ASSUME NEW S, 0 \in S, \A n \in Nat : n \in S => n + 1 \in S
  PROVE  Nat \subseteq S
<1> DEFINE T == Nat \ S
<1> SUFFICES ASSUME T # {} PROVE FALSE
  OBVIOUS
<1>1. PICK x \in T : \A y \in T : <<y, x>> \notin Below
  <2>1. IsWellFoundedOn(Below, Nat)
    BY NatLessThanWellFounded DEF Below, OpToRel
  <2>2. T \subseteq Nat
    OBVIOUS
  <2> HIDE DEF T
  <2>3. QED
    BY <2>1, <2>2, WFMin
<1>2. x # 0 /\ x - 1 \in Nat
  OBVIOUS
<1>3. x - 1 \in T
  BY <1>2
<1>4. <<x - 1, x>> \in Below
  BY <1>2 DEF Below
<1>5. QED
  BY <1>1, <1>3, <1>4

(* The same up to a bound.                                                 *)
LEMMA RangeInduces ==
  ASSUME NEW N \in Nat, NEW S, 0 \in S,
         \A n \in 0..(N - 1) : n \in S => n + 1 \in S
  PROVE  0..N \subseteq S
<1> DEFINE T == {n \in Nat : n > N \/ n \in S}
<1>1. 0 \in T
  OBVIOUS
<1>2. \A n \in Nat : n \in T => n + 1 \in T
  OBVIOUS
<1> HIDE DEF T
<1>3. Nat \subseteq T
  BY <1>1, <1>2, NatInduces
<1>4. QED
  BY <1>3 DEF T

-----------------------------------------------------------------------------
(* FoldLeft of the community modules, its definitions expanded.            *)
Largest(s) == CHOOSE x \in s : \A y \in s : x >= y
Iterates(g, given, base, seq, S) ==
  g = [s \in S |-> IF s = {} THEN base
                   ELSE Step(given, g[s \ {Largest(s)}], seq[Largest(s)])]
FoldOf(given, base, seq, N) == (CHOOSE g : Iterates(g, given, base, seq, SUBSET (1..N)))[1..N]

(* The largest of a set of numbers up to its largest.                      *)
LEMMA LargestUpTo ==
  ASSUME NEW n \in Nat, NEW s \in SUBSET (1..(n + 1)), n + 1 \in s
  PROVE  Largest(s) = n + 1
<1>1. \A x \in s : (\A y \in s : x >= y) <=> x = n + 1
  OBVIOUS
<1>2. QED
  BY <1>1 DEF Largest

(* The recursion has a solution, so that CHOOSE names one.                 *)
LEMMA IterationExists ==
  ASSUME NEW given, NEW base, NEW seq, NEW N \in Nat
  PROVE  \E g : Iterates(g, given, base, seq, SUBSET (1..N))
<1> DEFINE S == {n \in Nat : \E g : Iterates(g, given, base, seq, SUBSET (1..n))}
<1>1. 0 \in S
  <2> DEFINE g == [s \in {{}} |-> base]
  <2>1. SUBSET (1..0) = {{}}
    OBVIOUS
  <2>2. Iterates(g, given, base, seq, SUBSET (1..0))
    BY <2>1 DEF Iterates
  <2>3. QED
    BY <2>2
<1>2. ASSUME NEW n \in Nat, n \in S PROVE n + 1 \in S
  <2>1. PICK g : Iterates(g, given, base, seq, SUBSET (1..n))
    BY <1>2
  <2> DEFINE h == [s \in SUBSET (1..(n + 1)) |->
                     IF n + 1 \in s THEN Step(given, g[s \ {n + 1}], seq[n + 1]) ELSE g[s]]
  <2>2. \A s \in SUBSET (1..(n + 1)) : s \ {n + 1} \in SUBSET (1..n)
    OBVIOUS
  <2>3. \A s \in SUBSET (1..n) : h[s] = g[s]
    OBVIOUS
  <2>4. ASSUME NEW s \in SUBSET (1..(n + 1))
        PROVE  h[s] = IF s = {} THEN base ELSE Step(given, h[s \ {Largest(s)}], seq[Largest(s)])
    <3>1. CASE n + 1 \in s
      <4>1. Largest(s) = n + 1
        BY <3>1, LargestUpTo
      <4>2. h[s \ {n + 1}] = g[s \ {n + 1}]
        BY <2>2, <2>3
      <4>3. h[s] = Step(given, g[s \ {n + 1}], seq[n + 1])
        BY <3>1
      <4> HIDE DEF h
      <4>4. QED
        BY <3>1, <4>1, <4>2, <4>3
    <3>2. CASE n + 1 \notin s
      <4>1. s \in SUBSET (1..n) /\ s \ {Largest(s)} \in SUBSET (1..n)
        BY <2>2, <3>2
      <4>2. g[s] = IF s = {} THEN base ELSE Step(given, g[s \ {Largest(s)}], seq[Largest(s)])
        BY <2>1, <4>1 DEF Iterates
      <4>3. h[s] = g[s] /\ h[s \ {Largest(s)}] = g[s \ {Largest(s)}]
        BY <2>3, <4>1
      <4> HIDE DEF h
      <4>4. QED
        BY <4>2, <4>3
    <3>3. QED
      BY <3>1, <3>2
  <2>5. Iterates(h, given, base, seq, SUBSET (1..(n + 1)))
    BY <2>4 DEF Iterates
  <2>6. QED
    BY <2>5
<1> HIDE DEF S
<1>3. Nat \subseteq S
  BY <1>1, <1>2, NatInduces
<1>4. QED
  BY <1>3 DEF S

(* A fold is the end of a trace: it starts at the base, and each element   *)
(* takes it one step further.                                              *)
IsTrace(t, given, base, seq, N) ==
  /\ DOMAIN t = 0..N
  /\ t[0] = base
  /\ \A k \in 1..N : t[k] = Step(given, t[k - 1], seq[k])
THEOREM FoldTrace ==
  ASSUME NEW given, NEW base, NEW seq, NEW N \in Nat
  PROVE  \E t : IsTrace(t, given, base, seq, N) /\ t[N] = FoldOf(given, base, seq, N)
<1> DEFINE g == CHOOSE f : Iterates(f, given, base, seq, SUBSET (1..N))
           t == [k \in 0..N |-> g[1..k]]
<1>1. \A s \in SUBSET (1..N) :
        g[s] = IF s = {} THEN base ELSE Step(given, g[s \ {Largest(s)}], seq[Largest(s)])
  <2>1. Iterates(g, given, base, seq, SUBSET (1..N))
    BY IterationExists
  <2> HIDE DEF g
  <2>2. QED
    BY <2>1 DEF Iterates
<1>2. FoldOf(given, base, seq, N) = g[1..N]
  BY DEF FoldOf
<1> HIDE DEF g
<1>3. t[0] = base
  <2>1. 1..0 = {} /\ {} \in SUBSET (1..N)
    OBVIOUS
  <2>2. QED
    BY <1>1, <2>1
<1>4. ASSUME NEW k \in 1..N PROVE t[k] = Step(given, t[k - 1], seq[k])
  <2>1. Largest(1..k) = k
    <3>1. k - 1 \in Nat /\ (k - 1) + 1 = k
      OBVIOUS
    <3>2. 1..k \in SUBSET (1..((k - 1) + 1)) /\ (k - 1) + 1 \in 1..k
      BY <3>1
    <3>3. Largest(1..k) = (k - 1) + 1
      BY <3>1, <3>2, LargestUpTo
    <3>4. QED
      BY <3>1, <3>3
  <2>2. (1..k) \ {k} = 1..(k - 1) /\ 1..k # {} /\ 1..k \in SUBSET (1..N)
    OBVIOUS
  <2>3. g[1..k] = Step(given, g[1..(k - 1)], seq[k])
    BY <1>1, <2>1, <2>2
  <2>4. QED
    BY <2>3
<1>5. DOMAIN t = 0..N /\ t[N] = g[1..N]
  OBVIOUS
<1> HIDE DEF t
<1>6. QED
  BY <1>2, <1>3, <1>4, <1>5 DEF IsTrace
=============================================================================
