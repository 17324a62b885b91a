------------------------------ MODULE ClosProofs ----------------------------
(***************************************************************************)
(* The object system for any classes, methods and arguments: what subtypep *)
(* answers, from lists that are merged once, is the ancestry, and a call   *)
(* runs the methods it should, in the order it should.                     *)
(***************************************************************************)
EXTENDS Clos, FiniteSetTheorems, TLAPS

Extending == INSTANCE Folding WITH Step <- LAMBDA given, acc, e : Extend(acc, e)
Inheriting == INSTANCE Folding WITH Step <- LAMBDA given, acc, e : Inherit(acc, e)
Climb(S, n) == Up(S)
Climbing == INSTANCE Folding WITH Step <- LAMBDA given, acc, e : Climb(acc, e)

IsSeq(s) == s \in Seq({s[n] : n \in DOMAIN s})
Roots == {"t", "standard-object"}

-----------------------------------------------------------------------------
(* The loop that adds a list to a list.                                    *)
LEMMA FoldExtend ==
  ASSUME NEW base, NEW seq, NEW N \in Nat, DOMAIN seq = 1..N
  PROVE  \E t : /\ DOMAIN t = 0..N
                /\ t[0] = base
                /\ \A k \in 1..N : t[k] = Extend(t[k - 1], seq[k])
                /\ t[N] = FoldLeft(Extend, base, seq)
<1> PICK end : end = Extending!FoldOf(0, base, seq, N)
  OBVIOUS
<1>1. FoldLeft(Extend, base, seq) = end
  BY DEF FoldLeft, MapThenFoldSet, Max, Extending!FoldOf, Extending!Iterates, Extending!Largest
<1>2. PICK t : Extending!IsTrace(t, 0, base, seq, N) /\ t[N] = end
  BY Extending!FoldTrace
<1>3. QED
  BY <1>1, <1>2 DEF Extending!IsTrace

(* The loop over the superclasses.                                         *)
LEMMA FoldInherit ==
  ASSUME NEW base, NEW seq, NEW N \in Nat, DOMAIN seq = 1..N
  PROVE  \E t : /\ DOMAIN t = 0..N
                /\ t[0] = base
                /\ \A k \in 1..N : t[k] = Inherit(t[k - 1], seq[k])
                /\ t[N] = FoldLeft(Inherit, base, seq)
<1> PICK end : end = Inheriting!FoldOf(0, base, seq, N)
  OBVIOUS
<1>1. FoldLeft(Inherit, base, seq) = end
  BY DEF FoldLeft, MapThenFoldSet, Max, Inheriting!FoldOf, Inheriting!Iterates, Inheriting!Largest
<1>2. PICK t : Inheriting!IsTrace(t, 0, base, seq, N) /\ t[N] = end
  BY Inheriting!FoldTrace
<1>3. QED
  BY <1>1, <1>2 DEF Inheriting!IsTrace

(* A sequence over any set is one over its own elements.                   *)
LEMMA OwnElements ==
  ASSUME NEW S, NEW s \in Seq(S)
  PROVE  IsSeq(s)
BY DEF IsSeq

(* An element more.                                                        *)
LEMMA AppendedSet ==
  ASSUME NEW s, IsSeq(s), NEW x
  PROVE  IsSeq(Append(s, x)) /\ ToSet(Append(s, x)) = ToSet(s) \cup {x}
<1>1. Append(s, x) \in Seq(ToSet(s) \cup {x})
  BY DEF IsSeq, ToSet
<1>2. IsSeq(Append(s, x))
  BY <1>1, OwnElements
<1>3. ToSet(Append(s, x)) = ToSet(s) \cup {x}
  <2>1. /\ s \in Seq(ToSet(s)) /\ DOMAIN s = 1..Len(s) /\ Len(s) \in Nat
        /\ DOMAIN Append(s, x) = 1..(Len(s) + 1)
        /\ Append(s, x)[Len(s) + 1] = x
        /\ \A n \in 1..Len(s) : Append(s, x)[n] = s[n]
    BY DEF IsSeq, ToSet
  <2>2. ASSUME NEW y \in ToSet(Append(s, x)) PROVE y \in ToSet(s) \cup {x}
    BY <2>1 DEF ToSet
  <2>3. x \in ToSet(Append(s, x))
    BY <2>1 DEF ToSet
  <2>4. ASSUME NEW y \in ToSet(s) PROVE y \in ToSet(Append(s, x))
    <3>1. PICK n \in 1..Len(s) : s[n] = y
      BY <2>1 DEF ToSet
    <3>2. n \in DOMAIN Append(s, x) /\ Append(s, x)[n] = y
      BY <2>1, <3>1
    <3>3. QED
      BY <3>2 DEF ToSet
  <2>5. QED
    BY <2>2, <2>3, <2>4
<1>4. QED
  BY <1>2, <1>3

(* Extending a list adds what it does not have.                            *)
LEMMA ExtendedSet ==
  ASSUME NEW all, IsSeq(all), NEW list, IsSeq(list)
  PROVE  /\ IsSeq(FoldLeft(Extend, all, list))
         /\ ToSet(FoldLeft(Extend, all, list)) = ToSet(all) \cup ToSet(list)
<1> DEFINE N == Len(list)
<1>1. N \in Nat /\ DOMAIN list = 1..N
  BY DEF IsSeq
<1> HIDE DEF N
<1>2. PICK t : /\ DOMAIN t = 0..N
               /\ t[0] = all
               /\ \A k \in 1..N : t[k] = Extend(t[k - 1], list[k])
               /\ t[N] = FoldLeft(Extend, all, list)
  BY <1>1, FoldExtend
<1> DEFINE P(k) == IsSeq(t[k]) /\ ToSet(t[k]) = ToSet(all) \cup {list[j] : j \in 1..k}
           S == {k \in 0..N : P(k)}
<1>3. 0 \in S
  BY <1>1, <1>2
<1>4. ASSUME NEW k \in 0..(N - 1), k \in S PROVE k + 1 \in S
  <2>1. k + 1 \in 1..N /\ (k + 1) - 1 = k /\ k + 1 \in 0..N /\ 1..(k + 1) = 1..k \cup {k + 1}
    BY <1>1
  <2>2. t[k + 1] = Extend(t[k], list[k + 1])
    BY <1>2, <2>1
  <2>3. IsSeq(Append(t[k], list[k + 1])) /\ ToSet(Append(t[k], list[k + 1])) = ToSet(t[k]) \cup {list[k + 1]}
    BY <1>4, AppendedSet
  <2>4. {list[j] : j \in 1..(k + 1)} = {list[j] : j \in 1..k} \cup {list[k + 1]}
    BY <2>1
  <2>5. QED
    BY <1>4, <2>1, <2>2, <2>3, <2>4 DEF Extend
<1> HIDE DEF S
<1>5. 0..N \subseteq S
  BY <1>1, <1>3, <1>4, Extending!RangeInduces
<1>6. P(N)
  BY <1>1, <1>5 DEF S
<1>7. QED
  BY <1>1, <1>2, <1>6 DEF ToSet

(* Inheriting from a class adds it and its list, unless it is there.       *)
LEMMA InheritedSet ==
  ASSUME NEW all, IsSeq(all), NEW super, IsSeq(get_cpl(super))
  PROVE  /\ IsSeq(Inherit(all, super))
         /\ ToSet(Inherit(all, super)) =
              IF super \in ToSet(all) THEN ToSet(all)
              ELSE ToSet(all) \cup {super} \cup ToSet(get_cpl(super))
<1>1. IsSeq(Append(all, super)) /\ ToSet(Append(all, super)) = ToSet(all) \cup {super}
  BY AppendedSet
<1>2. PICK list : list = get_cpl(super)
  OBVIOUS
<1>3. /\ IsSeq(FoldLeft(Extend, Append(all, super), list))
      /\ ToSet(FoldLeft(Extend, Append(all, super), list)) = ToSet(Append(all, super)) \cup ToSet(list)
  BY <1>1, <1>2, ExtendedSet
<1>4. QED
  BY <1>1, <1>2, <1>3 DEF Inherit

(* What is computed for a class is a sequence.                             *)
LEMMA ComputedIsSeq ==
  ASSUME NEW class, NEW supers, IsSeq(supers), \A s : IsSeq(get_cpl(s))
  PROVE  IsSeq(ComputeCpl(class, supers))
<1> DEFINE N == Len(supers)
<1>1. N \in Nat /\ DOMAIN supers = 1..N
  BY DEF IsSeq
<1> HIDE DEF N
<1>2. PICK t : /\ DOMAIN t = 0..N
               /\ t[0] = <<class>>
               /\ \A k \in 1..N : t[k] = Inherit(t[k - 1], supers[k])
               /\ t[N] = FoldLeft(Inherit, <<class>>, supers)
  BY <1>1, FoldInherit
<1> DEFINE S == {k \in 0..N : IsSeq(t[k])}
<1>3. 0 \in S
  BY <1>1, <1>2 DEF IsSeq
<1>4. ASSUME NEW k \in 0..(N - 1), k \in S PROVE k + 1 \in S
  <2>1. k + 1 \in 1..N /\ k + 1 \in 0..N /\ (k + 1) - 1 = k
    BY <1>1
  <2>2. PICK v, s : v = t[k] /\ s = supers[k + 1]
    OBVIOUS
  <2>3. IsSeq(v) /\ IsSeq(get_cpl(s))
    BY <1>4, <2>2
  <2>4. IsSeq(Inherit(v, s))
    BY <2>3, InheritedSet
  <2>5. QED
    BY <1>2, <2>1, <2>2, <2>4
<1> HIDE DEF S
<1>5. 0..N \subseteq S
  BY <1>1, <1>3, <1>4, Extending!RangeInduces
<1>6. PICK all : all = FoldLeft(Inherit, <<class>>, supers)
  OBVIOUS
<1>7. IsSeq(all)
  BY <1>1, <1>2, <1>5, <1>6 DEF S
<1>8. IsSeq(<<"standard-object", "t">>)
  BY DEF IsSeq
<1>9. IsSeq(FoldLeft(Extend, all, <<"standard-object", "t">>))
  BY <1>7, <1>8, ExtendedSet
<1>10. QED
  BY <1>6, <1>9 DEF ComputeCpl

(* The list of a class whose superclasses have theirs.                     *)
LEMMA ComputedSet ==
  ASSUME NEW class, NEW supers, IsSeq(supers),
         \A s \in ToSet(supers) : IsSeq(get_cpl(s)) /\ s \in ToSet(get_cpl(s)),
         \A s \in ToSet(supers) \ {class} : \A x \in ToSet(get_cpl(s)) :
           ToSet(get_cpl(x)) \subseteq ToSet(get_cpl(s))
  PROVE  /\ IsSeq(ComputeCpl(class, supers))
         /\ ToSet(ComputeCpl(class, supers)) =
              {class} \cup (UNION {ToSet(get_cpl(s)) : s \in ToSet(supers) \ {class}}) \cup Roots
<1> DEFINE N == Len(supers)
           Lists(A) == UNION {ToSet(get_cpl(s)) : s \in A \ {class}}
<1>1. N \in Nat /\ DOMAIN supers = 1..N
  BY DEF IsSeq
<1> HIDE DEF N
<1>2. PICK t : /\ DOMAIN t = 0..N
               /\ t[0] = <<class>>
               /\ \A k \in 1..N : t[k] = Inherit(t[k - 1], supers[k])
               /\ t[N] = FoldLeft(Inherit, <<class>>, supers)
  BY <1>1, FoldInherit
<1> DEFINE First_(k) == {supers[j] : j \in 1..k}
           P(k) == IsSeq(t[k]) /\ ToSet(t[k]) = {class} \cup Lists(First_(k))
           S == {k \in 0..N : P(k)}
<1>3. 0 \in S
  <2>1. IsSeq(<<class>>) /\ ToSet(<<class>>) = {class}
    BY DEF IsSeq, ToSet
  <2>2. First_(0) = {}
    OBVIOUS
  <2>3. QED
    BY <1>1, <1>2, <2>1, <2>2
<1>4. ASSUME NEW k \in 0..(N - 1), k \in S PROVE k + 1 \in S
  <2>1. k + 1 \in 1..N /\ (k + 1) - 1 = k /\ k + 1 \in 0..N /\ 1..(k + 1) = 1..k \cup {k + 1}
    BY <1>1
  <2>2. PICK s : s = supers[k + 1]
    OBVIOUS
  <2>3. s \in ToSet(supers) /\ t[k + 1] = Inherit(t[k], s)
    BY <1>1, <1>2, <2>1, <2>2 DEF ToSet
  <2>4. First_(k + 1) = First_(k) \cup {s} /\ First_(k) \subseteq ToSet(supers)
    <3>1. First_(k + 1) = First_(k) \cup {s}
      BY <2>1, <2>2
    <3>2. \A j \in 1..k : j \in DOMAIN supers
      BY <1>1
    <3>3. First_(k) \subseteq ToSet(supers)
      BY <3>2 DEF ToSet
    <3>4. QED
      BY <3>1, <3>3
  <2>5. P(k) /\ IsSeq(get_cpl(s)) /\ s \in ToSet(get_cpl(s))
    BY <1>4, <2>3
  <2>6. /\ IsSeq(t[k + 1])
        /\ ToSet(t[k + 1]) = IF s \in ToSet(t[k]) THEN ToSet(t[k])
                             ELSE ToSet(t[k]) \cup {s} \cup ToSet(get_cpl(s))
    <3>1. IsSeq(t[k])
      BY <2>5
    <3>2. IsSeq(get_cpl(s))
      BY <2>5
    <3>3. PICK v : v = t[k]
      OBVIOUS
    <3>4. /\ IsSeq(Inherit(v, s))
          /\ ToSet(Inherit(v, s)) = IF s \in ToSet(v) THEN ToSet(v)
                                    ELSE ToSet(v) \cup {s} \cup ToSet(get_cpl(s))
      BY <3>1, <3>2, <3>3, InheritedSet
    <3>5. QED
      BY <2>3, <3>3, <3>4
  <2> HIDE DEF First_
  <2>7. ToSet(t[k + 1]) = {class} \cup Lists(First_(k + 1))
    <3>1. CASE s = class
      BY <2>4, <2>5, <2>6, <3>1
    <3>2. CASE s # class /\ s \notin ToSet(t[k])
      BY <2>4, <2>5, <2>6, <3>2
    <3>3. CASE s # class /\ s \in ToSet(t[k])
      <4>1. PICK z \in First_(k) \ {class} : s \in ToSet(get_cpl(z))
        BY <2>5, <3>3
      <4>2. ToSet(get_cpl(s)) \subseteq ToSet(get_cpl(z))
        BY <2>4, <4>1
      <4>3. Lists(First_(k + 1)) = Lists(First_(k))
        BY <2>4, <4>1, <4>2
      <4>4. QED
        BY <2>5, <2>6, <3>3, <4>3
    <3>4. QED
      BY <3>1, <3>2, <3>3
  <2>8. QED
    BY <2>1, <2>6, <2>7
<1>5. 0..N \subseteq S
  <2> HIDE DEF S
  <2>1. QED
    BY <1>1, <1>3, <1>4, Extending!RangeInduces
<1>6. P(N) /\ First_(N) = ToSet(supers)
  <2>1. N \in S
    BY <1>1, <1>5
  <2>2. First_(N) = ToSet(supers)
    BY <1>1 DEF ToSet
  <2>3. QED
    BY <2>1, <2>2
<1>7. IsSeq(<<"standard-object", "t">>) /\ ToSet(<<"standard-object", "t">>) = Roots
  BY DEF IsSeq, ToSet, Roots
<1>8. PICK all : all = FoldLeft(Inherit, <<class>>, supers)
  OBVIOUS
<1>9. IsSeq(all) /\ ToSet(all) = {class} \cup Lists(ToSet(supers))
  BY <1>2, <1>6, <1>8
<1>10. /\ IsSeq(FoldLeft(Extend, all, <<"standard-object", "t">>))
       /\ ToSet(FoldLeft(Extend, all, <<"standard-object", "t">>)) = ToSet(all) \cup Roots
  BY <1>7, <1>9, ExtendedSet
<1>11. ToSet(all) \cup Roots = {class} \cup (UNION {ToSet(get_cpl(s)) : s \in ToSet(supers) \ {class}}) \cup Roots
  BY <1>9
<1>12. ComputeCpl(class, supers) = FoldLeft(Extend, all, <<"standard-object", "t">>)
  BY <1>8 DEF ComputeCpl
<1>13. QED
  BY <1>10, <1>11, <1>12

-----------------------------------------------------------------------------
(* The ancestors: what is reached from a class in as many steps as there   *)
(* are definitions is the least set that holds the class and all           *)
(* superclasses of its members.                                            *)
Closed(S) == \A x \in S \cap DOMAIN parents : parents[x] \subseteq S

LEMMA Reached ==
  ASSUME IsFiniteSet(DOMAIN parents), NEW class
  PROVE  \E R : /\ Ancestors(class) = R \cup {"t"}
                     \cup (IF class \in DOMAIN parents THEN {"standard-object"} ELSE {})
                /\ class \in R
                /\ Closed(R)
                /\ \A S : class \in S /\ Closed(S) => R \subseteq S
<1> DEFINE D == DOMAIN parents
           last == Cardinality(D)
           IsUp(f) == f = [n \in 0..last |-> IF n = 0 THEN {class} ELSE Up(f[n - 1])]
           up == CHOOSE f : IsUp(f)
<1>1. last \in Nat
  BY FS_CardinalityType
<1>2. IsUp(up)
  <2>1. PICK t : /\ DOMAIN t = 0..last
                 /\ t[0] = {class}
                 /\ \A k \in 1..last : t[k] = Climb(t[k - 1], k)
    <3> DEFINE none == [k \in 1..last |-> k]
    <3> PICK end : end = Climbing!FoldOf(0, {class}, none, last)
      OBVIOUS
    <3>1. PICK t : Climbing!IsTrace(t, 0, {class}, none, last) /\ t[last] = end
      <4> HIDE DEF last, none
      <4>1. QED
        BY <1>1, Climbing!FoldTrace
    <3>2. QED
      BY <3>1 DEF Climbing!IsTrace, Climb
  <2> DEFINE f == [k \in 0..last |-> t[k]]
             g == [n \in 0..last |-> IF n = 0 THEN {class} ELSE Up(f[n - 1])]
  <2> HIDE DEF last
  <2>2. ASSUME NEW n \in 0..last PROVE f[n] = g[n]
    <3>1. CASE n = 0
      BY <1>1, <2>1, <3>1
    <3>2. CASE n # 0
      <4>1. n \in 1..last /\ n - 1 \in 0..last
        BY <1>1, <3>2
      <4>2. t[n] = Up(t[n - 1])
        BY <2>1, <4>1 DEF Climb
      <4>3. QED
        BY <3>2, <4>1, <4>2
    <3>3. QED
      BY <3>1, <3>2
  <2>3. f = g
    BY <2>2
  <2>4. IsUp(f)
    BY <2>3
  <2> HIDE DEF IsUp, f
  <2>5. QED
    BY <2>4
<1>3. /\ up[0] = {class}
      /\ \A n \in 0..(last - 1) : up[n + 1] = Up(up[n])
  <2> HIDE DEF up, last
  <2>1. ASSUME NEW n \in 0..(last - 1) PROVE up[n + 1] = Up(up[n])
    <3>1. n + 1 \in 0..last /\ n + 1 # 0 /\ (n + 1) - 1 = n
      BY <1>1
    <3>2. QED
      BY <1>2, <3>1
  <2>2. 0 \in 0..last
    BY <1>1
  <2>3. QED
    BY <1>2, <2>1, <2>2
<1>4. Ancestors(class) = up[last] \cup {"t"}
        \cup (IF class \in DOMAIN parents THEN {"standard-object"} ELSE {})
  BY DEF Ancestors
<1> HIDE DEF up
<1>5. Closed(up[last]) /\ class \in up[last]
  <2> DEFINE Reaches(n) == Cardinality(D \cap up[n]) >= n + 1
             S == {n \in 0..last : class \in up[n] /\ (Closed(up[n]) \/ Reaches(n))}
  <2>1. 0 \in S
    <3>1. CASE class \notin D
      BY <1>1, <1>3, <3>1 DEF Closed
    <3>2. CASE class \in D
      <4>1. D \cap up[0] = {class}
        BY <1>3, <3>2
      <4>2. Cardinality({class}) = 1
        BY FS_Singleton
      <4>3. Reaches(0)
        BY <4>1, <4>2
      <4>4. 0 \in 0..last /\ class \in up[0]
        BY <1>1, <1>3
      <4> HIDE DEF Reaches
      <4>5. QED
        BY <4>3, <4>4
    <3>3. QED
      BY <3>1, <3>2
  <2>2. ASSUME NEW n \in 0..(last - 1), n \in S PROVE n + 1 \in S
    <3>1. n + 1 \in 0..last /\ up[n + 1] = Up(up[n]) /\ class \in up[n] /\ n \in Nat
      BY <1>1, <1>3, <2>2
    <3>2. up[n] \subseteq up[n + 1]
      BY <3>1 DEF Up
    <3>3. CASE Closed(up[n])
      <4>1. up[n + 1] = up[n]
        BY <3>1, <3>3 DEF Up, Closed
      <4>2. QED
        BY <3>1, <3>3, <4>1
    <3>4. CASE Reaches(n) /\ D \cap up[n + 1] = D \cap up[n]
      <4>1. Closed(up[n + 1])
        BY <3>1, <3>4 DEF Up, Closed
      <4>2. QED
        BY <3>1, <3>2, <4>1
    <3>5. CASE Reaches(n) /\ D \cap up[n + 1] # D \cap up[n]
      <4> DEFINE A == D \cap up[n]
                 B == D \cap up[n + 1]
      <4>1. A \subseteq B /\ A # B /\ B \subseteq D
        BY <3>2, <3>5
      <4> HIDE DEF D
      <4>2. IsFiniteSet(D)
        BY DEF D
      <4>3. IsFiniteSet(B)
        BY <4>1, <4>2, FS_Subset
      <4>4. Cardinality(A) <= Cardinality(B) /\ Cardinality(A) # Cardinality(B) /\ IsFiniteSet(A)
        BY <4>1, <4>3, FS_Subset
      <4>5. Cardinality(A) \in Nat /\ Cardinality(B) \in Nat
        BY <4>3, <4>4, FS_CardinalityType
      <4>6. Reaches(n + 1)
        BY <3>1, <3>5, <4>4, <4>5
      <4>7. QED
        BY <3>1, <3>2, <4>6
    <3>6. QED
      BY <2>2, <3>3, <3>4, <3>5
  <2>3. 0..last \subseteq S
    <3> HIDE DEF S, last
    <3>1. QED
      BY <1>1, <2>1, <2>2, Climbing!RangeInduces
  <2>4. last \in S
    BY <1>1, <2>3
  <2>5. ~ Reaches(last)
    <3>1. Cardinality(D \cap up[last]) <= last /\ IsFiniteSet(D \cap up[last])
      BY FS_Subset
    <3>2. Cardinality(D \cap up[last]) \in Nat
      BY <3>1, FS_CardinalityType
    <3>3. QED
      BY <1>1, <3>1, <3>2
  <2>6. QED
    BY <2>4, <2>5
<1>6. ASSUME NEW T, class \in T, Closed(T) PROVE up[last] \subseteq T
  <2> DEFINE S == {n \in 0..last : up[n] \subseteq T}
  <2>1. 0 \in S
    BY <1>1, <1>3, <1>6
  <2>2. ASSUME NEW n \in 0..(last - 1), n \in S PROVE n + 1 \in S
    <3>1. n + 1 \in 0..last /\ up[n + 1] = Up(up[n])
      BY <1>1, <1>3
    <3>2. QED
      BY <1>6, <2>2, <3>1 DEF Up, Closed
  <2>3. 0..last \subseteq S
    <3> HIDE DEF S, last
    <3>1. QED
      BY <1>1, <2>1, <2>2, Climbing!RangeInduces
  <2>4. QED
    BY <1>1, <2>3
<1>7. QED
  BY <1>4, <1>5, <1>6

-----------------------------------------------------------------------------
(* What holds of the tables.  A list holds the class, the roots, the       *)
(* direct superclasses and the lists of its members, and nothing but the   *)
(* roots beyond what the class reaches.  That is so until a class is       *)
(* defined after one that inherits it.                                     *)
Names == ToSet(Alphabet)
TablesOK ==
  /\ DOMAIN parents = DOMAIN cpl
  /\ DOMAIN cpl \subseteq Classes
  /\ IsFiniteSet(DOMAIN cpl)
  /\ \A c \in DOMAIN cpl : IsSeq(cpl[c]) /\ parents[c] \subseteq Names
Listed(c) ==
  LET list == ToSet(cpl[c])
  IN  /\ c \in list /\ Roots \subseteq list
      /\ \A x \in list \cap DOMAIN cpl : ToSet(cpl[x]) \subseteq list
      /\ parents[c] \subseteq list
      /\ \A S \in SUBSET Names : c \in S /\ Closed(S) => list \subseteq S \cup Roots
ClosOK ==
  /\ TablesOK
  /\ settled \in BOOLEAN
  /\ settled => \A c \in DOMAIN cpl : Listed(c)

(* The list of a name, defined or not, holds it and the lists of what it   *)
(* holds.                                                                  *)
LEMMA ListsOfNames ==
  ASSUME ClosOK, settled, RootsAreFixed, NEW s
  PROVE  /\ IsSeq(get_cpl(s))
         /\ s \in ToSet(get_cpl(s)) /\ "t" \in ToSet(get_cpl(s))
         /\ \A x \in ToSet(get_cpl(s)) : ToSet(get_cpl(x)) \subseteq ToSet(get_cpl(s))
<1>1. ASSUME NEW x, x \notin DOMAIN cpl
      PROVE  IsSeq(get_cpl(x)) /\ ToSet(get_cpl(x)) = {x, "t"}
  BY <1>1 DEF get_cpl, IsSeq, ToSet
<1>2. "t" \notin DOMAIN cpl
  BY DEF ClosOK, TablesOK, RootsAreFixed
<1>3. CASE s \notin DOMAIN cpl
  BY <1>1, <1>2, <1>3
<1>4. CASE s \in DOMAIN cpl
  <2>1. get_cpl(s) = cpl[s] /\ Listed(s) /\ IsSeq(cpl[s])
    BY <1>4 DEF get_cpl, ClosOK, TablesOK
  <2>2. s \in ToSet(cpl[s]) /\ "t" \in ToSet(cpl[s])
    BY <2>1 DEF Listed, Roots
  <2>3. ASSUME NEW x \in ToSet(cpl[s]) PROVE ToSet(get_cpl(x)) \subseteq ToSet(cpl[s])
    <3>1. CASE x \in DOMAIN cpl
      BY <2>1, <3>1 DEF get_cpl, Listed
    <3>2. CASE x \notin DOMAIN cpl
      BY <1>1, <2>2, <3>2
    <3>3. QED
      BY <3>1, <3>2
  <2>4. QED
    BY <2>1, <2>2, <2>3
<1>5. QED
  BY <1>3, <1>4

(* A class that is defined anew disturbs no list it is not in: what such   *)
(* a list holds is still reached.                                          *)
LEMMA OthersStay ==
  ASSUME ClosOK, settled, NEW c, NEW d \in DOMAIN cpl, c \notin ToSet(cpl[d]),
         NEW S \in SUBSET Names, d \in S,
         \A x \in S \cap DOMAIN cpl : x # c => parents[x] \subseteq S
  PROVE  ToSet(cpl[d]) \subseteq S \cup Roots
<1> DEFINE list == ToSet(cpl[d])
           T == S \cap list
<1>1. Listed(d) /\ DOMAIN parents = DOMAIN cpl
  BY DEF ClosOK, TablesOK
<1>2. T \in SUBSET Names /\ d \in T
  BY <1>1 DEF Listed
<1>3. ASSUME NEW x \in T \cap DOMAIN parents PROVE parents[x] \subseteq T
  <2>1. x # c /\ x \in list /\ x \in S /\ x \in DOMAIN cpl
    BY <1>1
  <2>2. parents[x] \subseteq S
    BY <2>1
  <2>3. parents[x] \subseteq ToSet(cpl[x]) /\ ToSet(cpl[x]) \subseteq list
    BY <1>1, <2>1 DEF ClosOK, Listed
  <2>4. QED
    BY <2>2, <2>3
<1>4. Closed(T)
  BY <1>3 DEF Closed
<1>5. list \subseteq T \cup Roots
  BY <1>1, <1>2, <1>4 DEF Listed
<1>6. QED
  BY <1>5

LEMMA ClassesStayOK ==
  ASSUME RootsAreFixed, ClosOK, NEW c \in Classes, NEW supers \in SuperLists,
         RegisterClass(c, supers)
  PROVE  ClosOK'
<1> DEFINE D == DOMAIN cpl
           computed == ComputeCpl(c, supers)
           listed == ToSet(computed)
<1>1. /\ DOMAIN cpl' = D \cup {c} /\ DOMAIN parents' = D \cup {c}
      /\ cpl'[c] = computed /\ parents'[c] = ToSet(supers)
      /\ \A x \in D : x # c => cpl'[x] = cpl[x] /\ parents'[x] = parents[x]
      /\ settled' = (settled /\ ~ Mentions(c))
  BY DEF RegisterClass, Put, ClosOK, TablesOK
<1>2. supers \in Seq(Names) /\ IsSeq(supers)
  BY AlphabetAssumption, OwnElements DEF Names
<1>3. ToSet(supers) \subseteq Names
  BY <1>2 DEF ToSet
<1>4. IsSeq(computed)
  <2>1. ASSUME NEW s PROVE IsSeq(get_cpl(s))
    <3>1. IsSeq(<<s, "t">>)
      BY DEF IsSeq
    <3>2. QED
      BY <3>1 DEF get_cpl, ClosOK, TablesOK
  <2>2. QED
    BY <1>2, <2>1, ComputedIsSeq
<1>5. TablesOK'
  <2>1. IsFiniteSet(D \cup {c})
    BY FS_AddElement DEF ClosOK, TablesOK
  <2>2. \A x \in D \cup {c} : IsSeq(cpl'[x]) /\ parents'[x] \subseteq Names
    BY <1>1, <1>3, <1>4 DEF ClosOK, TablesOK
  <2>3. D \cup {c} \subseteq Classes
    BY DEF ClosOK, TablesOK
  <2> HIDE DEF D
  <2>4. QED
    BY <1>1, <2>1, <2>2, <2>3 DEF TablesOK, IsSeq, Names
<1>6. settled' \in BOOLEAN
  BY <1>1 DEF ClosOK
<1>7. ASSUME settled' PROVE \A d \in DOMAIN cpl' : Listed(d)'
  <2>1. settled /\ \A d \in D \ {c} : c \notin ToSet(cpl[d])
    BY <1>1, <1>7 DEF ClosOK, Mentions
  <2>2. \A d \in D : Listed(d)
    BY <2>1 DEF ClosOK
  <2>3. ASSUME NEW S \in SUBSET Names, Closed(S)'
        PROVE  \A x \in S \cap (D \cup {c}) : parents'[x] \subseteq S
    BY <1>1, <2>3 DEF Closed
  <2>4. ASSUME NEW s
        PROVE  /\ s \in ToSet(get_cpl(s)) /\ "t" \in ToSet(get_cpl(s))
               /\ \A x \in ToSet(get_cpl(s)) : ToSet(get_cpl(x)) \subseteq ToSet(get_cpl(s))
               /\ IsSeq(get_cpl(s))
    BY <2>1, ListsOfNames
  <2>5. listed = {c} \cup (UNION {ToSet(get_cpl(s)) : s \in ToSet(supers) \ {c}}) \cup Roots
    BY <1>2, <2>4, ComputedSet
  <2>6. c \notin Roots /\ D \cap Roots = {}
    BY DEF Roots, RootsAreFixed, ClosOK, TablesOK
  <2> HIDE DEF computed, D
  <2>7. ASSUME NEW d \in D, d # c PROVE Listed(d)'
    <3> DEFINE list == ToSet(cpl[d])
    <3>1. cpl'[d] = cpl[d] /\ parents'[d] = parents[d] /\ c \notin list
      BY <1>1, <2>1, <2>7
    <3>2. Listed(d)
      BY <2>2, <2>7
    <3>3. d \in list /\ Roots \subseteq list /\ parents[d] \subseteq list
      BY <3>2 DEF Listed
    <3>4. ASSUME NEW x \in list \cap (D \cup {c}) PROVE ToSet(cpl'[x]) \subseteq list
      <4>1. x \in D /\ x # c
        BY <3>1
      <4>2. QED
        BY <1>1, <3>2, <4>1 DEF Listed, D
    <3>5. ASSUME NEW S \in SUBSET Names, d \in S, Closed(S)' PROVE list \subseteq S \cup Roots
      <4>1. \A x \in S \cap D : x # c => parents[x] \subseteq S
        BY <1>1, <2>3, <3>5
      <4>2. QED
        BY <2>1, <2>7, <3>1, <3>5, <4>1, OthersStay DEF D
    <3> HIDE DEF list
    <3>6. list = ToSet(cpl'[d])
      BY <3>1 DEF list
    <3>7. QED
      BY <1>1, <3>1, <3>3, <3>4, <3>5, <3>6 DEF Listed, Names, Roots, ToSet
  <2>8. Listed(c)'
    <3>1. c \in listed /\ Roots \subseteq listed
      BY <2>5
    <3>2. ToSet(supers) \subseteq listed
      BY <2>4, <2>5
    <3>3. ASSUME NEW x \in listed \cap (D \cup {c}) PROVE ToSet(cpl'[x]) \subseteq listed
      <4>1. CASE x = c
        BY <1>1, <4>1
      <4>2. CASE x # c
        <5>1. PICK s \in ToSet(supers) \ {c} : x \in ToSet(get_cpl(s))
          BY <2>5, <2>6, <4>2
        <5>2. ToSet(get_cpl(x)) \subseteq ToSet(get_cpl(s))
          BY <2>4, <5>1
        <5>3. get_cpl(x) = cpl[x] /\ cpl'[x] = cpl[x]
          BY <1>1, <4>2 DEF get_cpl, D
        <5>4. QED
          BY <2>5, <5>1, <5>2, <5>3
      <4>3. QED
        BY <4>1, <4>2
    <3>4. ASSUME NEW S \in SUBSET Names, c \in S, Closed(S)' PROVE listed \subseteq S \cup Roots
      <4>1. /\ ToSet(supers) \subseteq S
            /\ \A x \in S \cap D : x # c => parents[x] \subseteq S
        BY <1>1, <2>3, <3>4
      <4>2. ASSUME NEW s \in ToSet(supers) \ {c} PROVE ToSet(get_cpl(s)) \subseteq S \cup Roots
        <5>1. CASE s \in D
          <6>1. get_cpl(s) = cpl[s] /\ c \notin ToSet(cpl[s])
            BY <2>1, <5>1 DEF get_cpl, D
          <6>2. QED
            BY <2>1, <4>1, <5>1, <6>1, OthersStay DEF D
        <5>2. CASE s \notin D
          BY <4>1, <5>2 DEF get_cpl, D, ToSet, Roots
        <5>3. QED
          BY <5>1, <5>2
      <4>3. QED
        BY <2>5, <3>4, <4>2
    <3> HIDE DEF listed
    <3>5. listed = ToSet(cpl'[c])
      BY <1>1 DEF listed
    <3>6. QED
      BY <1>1, <3>1, <3>2, <3>3, <3>4, <3>5 DEF Listed, Names, Roots, ToSet
  <2>9. QED
    BY <1>1, <2>7, <2>8
<1>8. QED
  BY <1>5, <1>6, <1>7 DEF ClosOK

(* No other step touches the tables.                                       *)
LEMMA ClosStays ==
  ASSUME RootsAreFixed, ClosOK, [Next]_vars
  PROVE  ClosOK'
<1>1. ASSUME NEW c \in Classes, NEW supers \in SuperLists, RegisterClass(c, supers)
      PROVE  ClosOK'
  BY <1>1, ClassesStayOK
<1>2. CASE UNCHANGED <<cpl, parents, settled>>
  <2>1. ASSUME NEW S PROVE Closed(S)' <=> Closed(S)
    BY <1>2 DEF Closed
  <2>2. ASSUME NEW c PROVE Listed(c)' <=> Listed(c)
    <3>1. /\ ToSet(cpl[c])' = ToSet(cpl[c]) /\ (parents[c])' = parents[c]
          /\ (DOMAIN cpl)' = DOMAIN cpl /\ \A x : ToSet(cpl[x])' = ToSet(cpl[x])
      BY <1>2
    <3> PICK list : list = ToSet(cpl[c])
      OBVIOUS
    <3>2. (\A S \in SUBSET Names : c \in S /\ Closed(S)' => list \subseteq S \cup Roots)
            <=> \A S \in SUBSET Names : c \in S /\ Closed(S) => list \subseteq S \cup Roots
      BY <2>1
    <3>3. Names' = Names /\ Roots' = Roots
      BY DEF Names, Roots, ToSet
    <3>4. QED
      BY <3>1, <3>2, <3>3 DEF Listed
  <2>3. TablesOK'
    BY <1>2 DEF ClosOK, TablesOK, IsSeq, Names, ToSet
  <2>4. QED
    BY <1>2, <2>2, <2>3 DEF ClosOK
<1>3. ASSUME NEW m \in Methods, RegisterMethod(m) PROVE ClosOK'
  BY <1>2, <1>3 DEF RegisterMethod
<1>4. ASSUME NEW classes \in Arguments, Dispatch(classes) PROVE ClosOK'
  BY <1>2, <1>4 DEF Dispatch
<1>5. CASE UNCHANGED vars
  BY <1>2, <1>5 DEF vars
<1>6. QED
  BY <1>1, <1>3, <1>4, <1>5 DEF Next

LEMMA ClosStarts ==
  Init => ClosOK
BY FS_EmptySet DEF Init, ClosOK, TablesOK

(* With such tables subtypep tells the ancestors of any name.              *)
LEMMA ListsAreAncestors ==
  ASSUME ClosOK, settled, NEW c, NEW p
  PROVE  is_subtype(c, p) <=> p \in Ancestors(c)
<1>1. DOMAIN parents = DOMAIN cpl /\ IsFiniteSet(DOMAIN parents)
  BY DEF ClosOK, TablesOK
<1>2. PICK R : /\ Ancestors(c) = R \cup {"t"}
                    \cup (IF c \in DOMAIN parents THEN {"standard-object"} ELSE {})
               /\ c \in R
               /\ Closed(R)
               /\ \A S : c \in S /\ Closed(S) => R \subseteq S
  BY <1>1, Reached
<1>3. CASE c \in DOMAIN cpl
  <2> DEFINE list == ToSet(cpl[c])
  <2>1. Listed(c)
    BY <1>3 DEF ClosOK
  <2>2. c \in list /\ Roots \subseteq list
    BY <2>1 DEF Listed
  <2>3. Closed(list)
    <3>1. ASSUME NEW x \in list \cap DOMAIN parents PROVE parents[x] \subseteq list
      <4>1. Listed(x) /\ ToSet(cpl[x]) \subseteq list
        BY <1>1, <2>1 DEF Listed, ClosOK
      <4>2. QED
        BY <4>1 DEF Listed
    <3>2. QED
      BY <3>1 DEF Closed
  <2>4. R \subseteq list
    BY <1>2, <2>2, <2>3
  <2>5. Closed(Names) /\ c \in Names
    BY <1>1, <1>3, AlphabetAssumption DEF Closed, Names, ClosOK, TablesOK
  <2>6. R \subseteq Names
    BY <1>2, <2>5
  <2>7. list \subseteq R \cup Roots
    BY <1>2, <2>1, <2>6 DEF Listed
  <2>8. is_subtype(c, p) <=> p \in list
    BY <1>3, <2>2 DEF is_subtype, get_cpl, Roots
  <2>9. QED
    BY <1>1, <1>2, <1>3, <2>2, <2>4, <2>7, <2>8 DEF Roots
<1>4. CASE c \notin DOMAIN cpl
  <2>1. Closed({c})
    BY <1>1, <1>4 DEF Closed
  <2>2. R = {c}
    BY <1>2, <2>1
  <2>3. is_subtype(c, p) <=> p \in {c, "t"}
    BY <1>4 DEF is_subtype, get_cpl, ToSet
  <2>4. QED
    BY <1>1, <1>2, <1>4, <2>2, <2>3
<1>5. QED
  BY <1>3, <1>4

(* subtypep tells exactly the ancestors of a class, whatever the classes   *)
(* and however many: the lists set_cpl keeps are merged once, and no class *)
(* is defined after one that inherits it.                                  *)
THEOREM SubtypesAreRight ==
  ASSUME RootsAreFixed
  PROVE  Spec => []SubtypesAreAncestors
<1>1. ClosOK /\ [Next]_vars => ClosOK'
  BY ClosStays
<1>2. ClosOK => SubtypesAreAncestors
  BY ListsAreAncestors DEF SubtypesAreAncestors
<1>3. QED
  BY <1>1, <1>2, ClosStarts, PTL DEF Spec

-----------------------------------------------------------------------------
(* Sequences and how often something is in them.                           *)
LEMMA Places ==
  ASSUME NEW s, IsSeq(s)
  PROVE  /\ Len(s) \in Nat /\ DOMAIN s = 1..Len(s)
         /\ ToSet(s) = {s[k] : k \in 1..Len(s)}
BY DEF IsSeq, ToSet

LEMMA Joined ==
  ASSUME NEW a, IsSeq(a), NEW b, IsSeq(b)
  PROVE  /\ IsSeq(a \o b) /\ Len(a \o b) = Len(a) + Len(b)
         /\ \A k \in 1..Len(a) : (a \o b)[k] = a[k]
         /\ \A k \in 1..Len(b) : (a \o b)[Len(a) + k] = b[k]
         /\ ToSet(a \o b) = ToSet(a) \cup ToSet(b)
<1> DEFINE S == {a[k] : k \in DOMAIN a} \cup {b[k] : k \in DOMAIN b}
           m == Len(a)
           n == Len(b)
<1>1. a \in Seq(S) /\ b \in Seq(S) /\ m \in Nat /\ n \in Nat /\ DOMAIN a = 1..m /\ DOMAIN b = 1..n
  BY DEF IsSeq
<1> HIDE DEF S
<1>2. /\ a \o b \in Seq(S) /\ Len(a \o b) = m + n
      /\ \A k \in 1..m : (a \o b)[k] = a[k]
      /\ \A k \in 1..n : (a \o b)[m + k] = b[k]
  BY <1>1
<1>3. IsSeq(a \o b) /\ DOMAIN (a \o b) = 1..(m + n)
  <2>1. PICK c : c = a \o b
    OBVIOUS
  <2>2. c \in Seq(S) /\ Len(c) = m + n
    BY <1>2, <2>1
  <2>3. IsSeq(c) /\ DOMAIN c = 1..(m + n)
    BY <2>2, OwnElements
  <2>4. QED
    BY <2>1, <2>3
<1> HIDE DEF m, n
<1>4. ToSet(a \o b) = ToSet(a) \cup ToSet(b)
  <2>1. ASSUME NEW x \in ToSet(a \o b) PROVE x \in ToSet(a) \cup ToSet(b)
    <3>1. PICK k \in 1..(m + n) : (a \o b)[k] = x
      BY <1>3 DEF ToSet
    <3>2. CASE k \in 1..m
      BY <1>1, <1>2, <3>1, <3>2 DEF ToSet
    <3>3. CASE k \notin 1..m
      <4>1. k - m \in 1..n /\ m + (k - m) = k
        BY <1>1, <3>1, <3>3
      <4>2. b[k - m] = x
        BY <1>2, <3>1, <4>1
      <4>3. QED
        BY <1>1, <4>1, <4>2 DEF ToSet
    <3>4. QED
      BY <3>2, <3>3
  <2>2. ASSUME NEW x \in ToSet(a) PROVE x \in ToSet(a \o b)
    <3>1. PICK k \in 1..m : a[k] = x
      BY <1>1 DEF ToSet
    <3>2. k \in DOMAIN (a \o b) /\ (a \o b)[k] = x
      BY <1>1, <1>2, <1>3, <3>1
    <3>3. QED
      BY <3>2 DEF ToSet
  <2>3. ASSUME NEW x \in ToSet(b) PROVE x \in ToSet(a \o b)
    <3>1. PICK k \in 1..n : b[k] = x
      BY <1>1 DEF ToSet
    <3>2. m + k \in DOMAIN (a \o b) /\ (a \o b)[m + k] = x
      BY <1>1, <1>2, <1>3, <3>1
    <3>3. QED
      BY <3>2 DEF ToSet
  <2>4. QED
    BY <2>1, <2>2, <2>3
<1>5. QED
  BY <1>2, <1>3, <1>4 DEF m, n

(* Two sets are of one size if one is the other, renamed.                  *)
LEMMA Renamed ==
  ASSUME NEW A, IsFiniteSet(A), NEW B, NEW f \in [A -> B],
         \A x, y \in A : f[x] = f[y] => x = y,
         \A z \in B : \E x \in A : f[x] = z
  PROVE  IsFiniteSet(B) /\ Cardinality(B) = Cardinality(A)
<1>1. f \in Bijection(A, B)
  BY DEF Bijection, Injection, Surjection, IsInjective
<1>2. ExistsBijection(A, B)
  BY <1>1 DEF ExistsBijection
<1>3. QED
  BY <1>2, FS_Bijection

LEMMA TimesIsNat ==
  ASSUME NEW s, IsSeq(s), NEW x
  PROVE  /\ IsFiniteSet({k \in DOMAIN s : s[k] = x}) /\ Times(s, x) \in Nat
         /\ x \in ToSet(s) <=> Times(s, x) # 0
<1> DEFINE A == {k \in DOMAIN s : s[k] = x}
<1>1. DOMAIN s = 1..Len(s) /\ Len(s) \in Nat
  BY Places
<1>2. IsFiniteSet(1..Len(s))
  BY <1>1, FS_Interval
<1>3. IsFiniteSet(A) /\ A \in SUBSET (1..Len(s))
  BY <1>1, <1>2, FS_Subset
<1>4. x \in ToSet(s) <=> A # {}
  BY DEF ToSet
<1>5. Times(s, x) = Cardinality(A)
  BY DEF Times
<1> HIDE DEF A
<1>6. Cardinality(A) \in Nat /\ (Cardinality(A) = 0 <=> A = {})
  BY <1>3, FS_CardinalityType, FS_EmptySet
<1>7. QED
  BY <1>3, <1>4, <1>5, <1>6 DEF A

LEMMA TimesJoined ==
  ASSUME NEW a, IsSeq(a), NEW b, IsSeq(b), NEW x
  PROVE  Times(a \o b, x) = Times(a, x) + Times(b, x)
<1> DEFINE m == Len(a)
           n == Len(b)
           c == a \o b
           A == {k \in DOMAIN a : a[k] = x}
           B == {k \in DOMAIN b : b[k] = x}
           C == {k \in DOMAIN c : c[k] = x}
           D == {m + k : k \in B}
<1>1. /\ m \in Nat /\ n \in Nat /\ DOMAIN a = 1..m /\ DOMAIN b = 1..n /\ DOMAIN c = 1..(m + n)
      /\ \A k \in 1..m : c[k] = a[k]
      /\ \A k \in 1..n : c[m + k] = b[k]
  BY Joined, Places
<1>2. /\ IsFiniteSet(A) /\ IsFiniteSet(B)
      /\ Times(a, x) = Cardinality(A) /\ Times(b, x) = Cardinality(B) /\ Times(c, x) = Cardinality(C)
      /\ Times(a, x) \in Nat /\ Times(b, x) \in Nat
  BY TimesIsNat DEF Times
<1> HIDE DEF m, n, c
<1>3. IsFiniteSet(D) /\ Cardinality(D) = Cardinality(B)
  <2> DEFINE f == [k \in B |-> m + k]
  <2>1. f \in [B -> D] /\ \A z \in D : \E k \in B : f[k] = z
    OBVIOUS
  <2>2. \A k, l \in B : f[k] = f[l] => k = l
    BY <1>1
  <2> HIDE DEF f, D, B
  <2>3. QED
    BY <1>2, <2>1, <2>2, Renamed
<1>4. C = A \cup D
  <2>1. ASSUME NEW k \in C PROVE k \in A \cup D
    <3>1. CASE k \in 1..m
      BY <1>1, <3>1
    <3>2. CASE k \notin 1..m
      <4>1. k - m \in 1..n /\ m + (k - m) = k
        BY <1>1, <3>2
      <4>2. QED
        BY <1>1, <4>1
    <3>3. QED
      BY <3>1, <3>2
  <2>2. A \subseteq C /\ D \subseteq C
    BY <1>1
  <2>3. QED
    BY <2>1, <2>2
<1>5. A \cap D = {}
  BY <1>1
<1> HIDE DEF A, B, C, D
<1>6. Cardinality(C) = Cardinality(A) + Cardinality(D) - 0
  BY <1>2, <1>3, <1>4, <1>5, FS_Union, FS_EmptySet
<1>7. QED
  BY <1>2, <1>3, <1>6 DEF c

LEMMA TimesOne ==
  ASSUME NEW y, NEW x
  PROVE  IsSeq(<<y>>) /\ Len(<<y>>) = 1 /\ Times(<<y>>, x) = IF x = y THEN 1 ELSE 0
<1>1. {k \in DOMAIN <<y>> : <<y>>[k] = x} = IF x = y THEN {1} ELSE {}
  OBVIOUS
<1>2. Cardinality({1}) = 1 /\ Cardinality({}) = 0
  BY FS_Singleton, FS_EmptySet
<1>3. QED
  BY <1>1, <1>2 DEF Times, IsSeq

LEMMA TimesNone ==
  ASSUME NEW x
  PROVE  IsSeq(<< >>) /\ Len(<< >>) = 0 /\ Times(<< >>, x) = 0 /\ ToSet(<< >>) = {}
<1>1. {k \in DOMAIN << >> : << >>[k] = x} = {}
  OBVIOUS
<1>2. QED
  BY <1>1, FS_EmptySet DEF Times, IsSeq, ToSet

LEMMA TimesReversed ==
  ASSUME NEW s, IsSeq(s), NEW x
  PROVE  /\ IsSeq(Reverse(s)) /\ Len(Reverse(s)) = Len(s)
         /\ \A k \in 1..Len(s) : Reverse(s)[k] = s[Len(s) - k + 1]
         /\ Times(Reverse(s), x) = Times(s, x)
<1> DEFINE n == Len(s)
           r == Reverse(s)
           A == {k \in DOMAIN s : s[k] = x}
           B == {k \in DOMAIN r : r[k] = x}
<1>1. n \in Nat /\ DOMAIN s = 1..n
  BY Places
<1>2. r = [k \in 1..n |-> s[(n - k) + 1]]
  BY DEF Reverse
<1> HIDE DEF n, r
<1>3. r \in Seq({s[k] : k \in DOMAIN s})
  <2>1. \A k \in 1..n : (n - k) + 1 \in DOMAIN s
    BY <1>1
  <2>2. QED
    BY <1>1, <1>2, <2>1
<1>4. Len(r) = n /\ DOMAIN r = 1..n /\ IsSeq(r) /\ \A k \in 1..n : r[k] = s[n - k + 1]
  <2>1. DOMAIN r = 1..n /\ \A k \in 1..n : r[k] = s[(n - k) + 1]
    BY <1>2
  <2>2. IsSeq(r)
    BY <1>3, OwnElements
  <2>3. DOMAIN r = 1..Len(r) /\ Len(r) \in Nat
    BY <2>2, Places
  <2>4. Len(r) = n
    BY <1>1, <2>1, <2>3
  <2>5. QED
    BY <2>1, <2>2, <2>4
<1>5. IsFiniteSet(A) /\ Times(s, x) = Cardinality(A) /\ Times(r, x) = Cardinality(B)
  BY TimesIsNat DEF Times
<1>6. Cardinality(B) = Cardinality(A)
  <2> DEFINE f == [k \in A |-> n - k + 1]
  <2>1. \A k \in 1..n : n - k + 1 \in 1..n /\ n - (n - k + 1) + 1 = k
    BY <1>1
  <2>2. f \in [A -> B]
    BY <1>1, <1>4, <2>1
  <2>3. \A k, l \in A : f[k] = f[l] => k = l
    BY <1>1
  <2>4. \A z \in B : n - z + 1 \in A /\ f[n - z + 1] = z
    BY <1>1, <1>4, <2>1
  <2> HIDE DEF f, A, B
  <2>5. QED
    BY <1>5, <2>2, <2>3, <2>4, Renamed
<1>7. QED
  BY <1>4, <1>5, <1>6 DEF n, r

-----------------------------------------------------------------------------
(* Keeping some of the methods: they stay in their order.                  *)
KeepStep(wanted, kept, m) == IF m \in wanted THEN Append(kept, m) ELSE kept
Keeping == INSTANCE Folding WITH Step <- KeepStep

LEMMA FoldKeep ==
  ASSUME NEW wanted, NEW ms, NEW N \in Nat, DOMAIN ms = 1..N
  PROVE  \E t : /\ DOMAIN t = 0..N
                /\ t[0] = << >>
                /\ \A k \in 1..N : t[k] = KeepStep(wanted, t[k - 1], ms[k])
                /\ t[N] = Keep(wanted, ms)
<1> PICK none : none = << >>
  OBVIOUS
<1> PICK end : end = Keeping!FoldOf(wanted, none, ms, N)
  OBVIOUS
<1>1. Keep(wanted, ms) = end
  BY DEF Keep, KeepStep, FoldLeft, MapThenFoldSet, Max, Keeping!FoldOf, Keeping!Iterates,
     Keeping!Largest
<1>2. PICK t : Keeping!IsTrace(t, wanted, none, ms, N) /\ t[N] = end
  BY Keeping!FoldTrace
<1>3. QED
  BY <1>1, <1>2 DEF Keeping!IsTrace

(* r is what is at the places f of ms, in increasing order; those are all  *)
(* the places up to n where there is something wanted.                     *)
Picks(wanted, ms, n, r, f) ==
  /\ IsSeq(r)
  /\ f \in [1..Len(r) -> 1..n]
  /\ \A i, j \in 1..Len(r) : i < j => f[i] < f[j]
  /\ \A i \in 1..Len(r) : r[i] = ms[f[i]] /\ r[i] \in wanted
  /\ \A k \in 1..n : ms[k] \in wanted => \E i \in 1..Len(r) : f[i] = k

LEMMA PicksOneMore ==
  ASSUME NEW wanted, NEW ms, NEW n \in Nat, NEW r, NEW f, Picks(wanted, ms, n, r, f)
  PROVE  \E g : Picks(wanted, ms, n + 1, KeepStep(wanted, r, ms[n + 1]), g)
<1>1. Len(r) \in Nat /\ IsSeq(r)
  BY Places DEF Picks
<1> PICK m : m = ms[n + 1]
  OBVIOUS
<1>2. CASE m \notin wanted
  <2>1. f \in [1..Len(r) -> 1..(n + 1)]
    BY <1>1 DEF Picks
  <2>2. ASSUME NEW k \in 1..(n + 1), ms[k] \in wanted PROVE \E i \in 1..Len(r) : f[i] = k
    <3>1. k \in 1..n
      BY <1>2, <2>2
    <3>2. QED
      BY <2>2, <3>1 DEF Picks
  <2>3. Picks(wanted, ms, n + 1, r, f)
    BY <2>1, <2>2 DEF Picks
  <2>4. QED
    BY <1>2, <2>3 DEF KeepStep
<1>3. CASE m \in wanted
  <2> DEFINE s == Append(r, m)
             l == Len(r)
             g == [i \in 1..(l + 1) |-> IF i = l + 1 THEN n + 1 ELSE f[i]]
  <2>1. IsSeq(s) /\ Len(s) = l + 1 /\ s[l + 1] = m /\ \A i \in 1..l : s[i] = r[i]
    <3>1. IsSeq(s)
      BY <1>1, AppendedSet
    <3>2. QED
      BY <1>1, <3>1 DEF IsSeq
  <2>2. /\ f \in [1..l -> 1..n] /\ l \in Nat
        /\ \A i, j \in 1..l : i < j => f[i] < f[j]
        /\ \A i \in 1..l : r[i] = ms[f[i]] /\ r[i] \in wanted
        /\ \A k \in 1..n : ms[k] \in wanted => \E i \in 1..l : f[i] = k
    BY <1>1 DEF Picks
  <2> HIDE DEF s, l
  <2>3. g \in [1..(l + 1) -> 1..(n + 1)]
    BY <2>2
  <2>4. \A i, j \in 1..(l + 1) : i < j => g[i] < g[j]
    <3>1. SUFFICES ASSUME NEW i \in 1..(l + 1), NEW j \in 1..(l + 1), i < j PROVE g[i] < g[j]
      OBVIOUS
    <3>2. i \in 1..l /\ f[i] \in 1..n /\ g[i] = f[i]
      BY <2>2, <3>1
    <3>3. CASE j = l + 1
      BY <3>2, <3>3
    <3>4. CASE j # l + 1
      <4>1. j \in 1..l /\ g[j] = f[j]
        BY <2>2, <3>4
      <4>2. QED
        BY <2>2, <3>1, <3>2, <4>1
    <3>5. QED
      BY <3>3, <3>4
  <2>5. \A i \in 1..(l + 1) : s[i] = ms[g[i]] /\ s[i] \in wanted
    <3>1. SUFFICES ASSUME NEW i \in 1..(l + 1) PROVE s[i] = ms[g[i]] /\ s[i] \in wanted
      OBVIOUS
    <3>2. CASE i = l + 1
      BY <1>3, <2>1, <3>2
    <3>3. CASE i # l + 1
      <4>1. i \in 1..l /\ g[i] = f[i]
        BY <2>2, <3>3
      <4>2. QED
        BY <2>1, <2>2, <4>1
    <3>4. QED
      BY <3>2, <3>3
  <2>6. \A k \in 1..(n + 1) : ms[k] \in wanted => \E i \in 1..(l + 1) : g[i] = k
    <3>1. SUFFICES ASSUME NEW k \in 1..(n + 1), ms[k] \in wanted
                   PROVE  \E i \in 1..(l + 1) : g[i] = k
      OBVIOUS
    <3>2. CASE k = n + 1
      <4>1. l + 1 \in 1..(l + 1) /\ g[l + 1] = k
        BY <2>2, <3>2
      <4>2. QED
        BY <4>1
    <3>3. CASE k # n + 1
      <4>1. PICK i \in 1..l : f[i] = k
        BY <2>2, <3>1, <3>3
      <4>2. i \in 1..(l + 1) /\ g[i] = k
        BY <2>2, <4>1
      <4>3. QED
        BY <4>2
    <3>4. QED
      BY <3>2, <3>3
  <2> HIDE DEF g
  <2>7. Picks(wanted, ms, n + 1, s, g)
    BY <2>1, <2>3, <2>4, <2>5, <2>6 DEF Picks
  <2>8. QED
    BY <1>3, <2>7 DEF KeepStep, s
<1>4. QED
  BY <1>2, <1>3

LEMMA Kept ==
  ASSUME NEW wanted, NEW ms, IsSeq(ms)
  PROVE  \E f : Picks(wanted, ms, Len(ms), Keep(wanted, ms), f)
<1> DEFINE N == Len(ms)
<1>1. N \in Nat /\ DOMAIN ms = 1..N
  BY Places
<1> HIDE DEF N
<1>2. PICK t : /\ DOMAIN t = 0..N
               /\ t[0] = << >>
               /\ \A k \in 1..N : t[k] = KeepStep(wanted, t[k - 1], ms[k])
               /\ t[N] = Keep(wanted, ms)
  BY <1>1, FoldKeep
<1> DEFINE S == {k \in 0..N : \E f : Picks(wanted, ms, k, t[k], f)}
<1>3. 0 \in S
  <2>1. IsSeq(<< >>) /\ Len(<< >>) = 0
    BY TimesNone
  <2> DEFINE f == [i \in 1..0 |-> i]
  <2>2. f \in [1..0 -> 1..0]
    OBVIOUS
  <2> HIDE DEF f
  <2>3. Picks(wanted, ms, 0, << >>, f)
    BY <2>1, <2>2 DEF Picks
  <2>4. QED
    BY <1>1, <1>2, <2>3
<1>4. ASSUME NEW k \in 0..(N - 1), k \in S PROVE k + 1 \in S
  <2>1. k + 1 \in 1..N /\ k + 1 \in 0..N /\ (k + 1) - 1 = k /\ k \in Nat
    BY <1>1
  <2>2. PICK r, f : r = t[k] /\ Picks(wanted, ms, k, r, f)
    BY <1>4
  <2>3. \E g : Picks(wanted, ms, k + 1, KeepStep(wanted, r, ms[k + 1]), g)
    BY <2>1, <2>2, PicksOneMore
  <2>4. QED
    BY <1>2, <2>1, <2>2, <2>3
<1> HIDE DEF S
<1>5. 0..N \subseteq S
  BY <1>1, <1>3, <1>4, Keeping!RangeInduces
<1>6. N \in S
  BY <1>1, <1>5
<1>7. QED
  BY <1>2, <1>6 DEF S, N

(* What is kept is what is wanted, as often as it was there.               *)
LEMMA TimesKept ==
  ASSUME NEW wanted, NEW ms, IsSeq(ms), NEW x
  PROVE  /\ IsSeq(Keep(wanted, ms))
         /\ ToSet(Keep(wanted, ms)) = ToSet(ms) \cap wanted
         /\ Times(Keep(wanted, ms), x) = IF x \in wanted THEN Times(ms, x) ELSE 0
<1> PICK r : r = Keep(wanted, ms)
  OBVIOUS
<1>1. PICK f : Picks(wanted, ms, Len(ms), r, f)
  BY Kept
<1> DEFINE n == Len(ms)
           l == Len(r)
           A == {k \in DOMAIN r : r[k] = x}
           B == {k \in DOMAIN ms : ms[k] = x}
<1>2. n \in Nat /\ DOMAIN ms = 1..n /\ IsSeq(r) /\ l \in Nat /\ DOMAIN r = 1..l
  BY <1>1, Places DEF Picks
<1>3. /\ f \in [1..l -> 1..n]
      /\ \A i, j \in 1..l : i < j => f[i] < f[j]
      /\ \A i \in 1..l : r[i] = ms[f[i]] /\ r[i] \in wanted
      /\ \A k \in 1..n : ms[k] \in wanted => \E i \in 1..l : f[i] = k
  BY <1>1 DEF Picks
<1>4. ToSet(r) = ToSet(ms) \cap wanted
  <2> HIDE DEF n, l
  <2>1. ASSUME NEW y \in ToSet(r) PROVE y \in ToSet(ms) \cap wanted
    <3>1. PICK i \in 1..l : r[i] = y
      BY <1>2 DEF ToSet
    <3>2. f[i] \in DOMAIN ms /\ ms[f[i]] = y /\ y \in wanted
      BY <1>2, <1>3, <3>1
    <3>3. QED
      BY <3>2 DEF ToSet
  <2>2. ASSUME NEW y \in ToSet(ms) \cap wanted PROVE y \in ToSet(r)
    <3>1. PICK k \in 1..n : ms[k] = y
      BY <1>2 DEF ToSet
    <3>2. PICK i \in 1..l : f[i] = k
      BY <1>3, <3>1
    <3>3. i \in DOMAIN r /\ r[i] = y
      BY <1>2, <1>3, <3>1, <3>2
    <3>4. QED
      BY <3>3 DEF ToSet
  <2>3. QED
    BY <2>1, <2>2
<1>5. CASE x \in wanted
  <2>1. IsFiniteSet(A) /\ Times(r, x) = Cardinality(A) /\ Times(ms, x) = Cardinality(B)
    BY <1>2, TimesIsNat DEF Times
  <2> DEFINE g == [k \in A |-> f[k]]
  <2> HIDE DEF n, l
  <2>2. g \in [A -> B]
    BY <1>2, <1>3
  <2>3. \A i, j \in A : g[i] = g[j] => i = j
    <3>1. SUFFICES ASSUME NEW i \in A, NEW j \in A, i # j PROVE g[i] # g[j]
      OBVIOUS
    <3>2. i \in 1..l /\ j \in 1..l /\ (i < j \/ j < i)
      BY <1>2, <3>1
    <3>3. f[i] \in 1..n /\ f[j] \in 1..n /\ (f[i] < f[j] \/ f[j] < f[i])
      BY <1>3, <3>2
    <3>4. QED
      BY <3>3
  <2>4. \A k \in B : \E i \in A : g[i] = k
    <3>1. SUFFICES ASSUME NEW k \in B PROVE \E i \in A : g[i] = k
      OBVIOUS
    <3>2. PICK i \in 1..l : f[i] = k
      BY <1>2, <1>3, <1>5, <3>1
    <3>3. i \in A
      BY <1>2, <1>3, <3>1, <3>2
    <3>4. QED
      BY <3>2, <3>3
  <2> HIDE DEF A, B, g
  <2>5. Cardinality(B) = Cardinality(A)
    BY <2>1, <2>2, <2>3, <2>4, Renamed
  <2>6. QED
    BY <1>2, <1>4, <1>5, <2>1, <2>5
<1>6. CASE x \notin wanted
  <2>1. x \notin ToSet(r)
    BY <1>4, <1>6
  <2>2. Times(r, x) = 0
    BY <1>2, <2>1, TimesIsNat
  <2>3. QED
    BY <1>2, <1>4, <1>6, <2>2
<1>7. QED
  BY <1>5, <1>6

-----------------------------------------------------------------------------
(* The insertion sort.                                                     *)
Sorting == INSTANCE Folding WITH Step <- LAMBDA given, acc, e : Insert(acc, e)

LEMMA FoldSort ==
  ASSUME NEW ms, NEW N \in Nat, DOMAIN ms = 1..N
  PROVE  \E t : /\ DOMAIN t = 0..N
                /\ t[0] = << >>
                /\ \A k \in 1..N : t[k] = Insert(t[k - 1], ms[k])
                /\ t[N] = sort_methods(ms)
<1> PICK none : none = << >>
  OBVIOUS
<1> PICK end : end = Sorting!FoldOf(0, none, ms, N)
  OBVIOUS
<1>1. sort_methods(ms) = end
  BY DEF sort_methods, FoldLeft, MapThenFoldSet, Max, Sorting!FoldOf, Sorting!Iterates,
     Sorting!Largest
<1>2. PICK t : Sorting!IsTrace(t, 0, none, ms, N) /\ t[N] = end
  BY Sorting!FoldTrace
<1>3. QED
  BY <1>1, <1>2 DEF Sorting!IsTrace

(* Sets of places have a first and a last.                                 *)
LEMMA LastOf ==
  ASSUME NEW n \in Nat, NEW S \in SUBSET (0..n), S # {}
  PROVE  Max(S) \in S /\ \A y \in S : y <= Max(S)
<1> DEFINE P(k) == \A A \in SUBSET (0..k) : A # {} => \E x \in A : \A y \in A : x >= y
           T == {k \in 0..n : P(k)}
<1>1. 0 \in T
  <2>1. ASSUME NEW A \in SUBSET (0..0), A # {} PROVE \E x \in A : \A y \in A : x >= y
    <3>1. \A y \in A : y = 0
      OBVIOUS
    <3>2. PICK z : z \in A
      BY <2>1
    <3>3. z = 0
      BY <3>1, <3>2
    <3>4. QED
      BY <3>1, <3>2, <3>3
  <2>2. QED
    BY <2>1
<1>2. ASSUME NEW k \in 0..(n - 1), k \in T PROVE k + 1 \in T
  <2>1. ASSUME NEW A \in SUBSET (0..(k + 1)), A # {} PROVE \E x \in A : \A y \in A : x >= y
    <3>1. CASE k + 1 \in A
      BY <3>1
    <3>2. CASE k + 1 \notin A
      <4>1. A \in SUBSET (0..k)
        BY <3>2
      <4>2. QED
        BY <1>2, <2>1, <4>1
    <3>3. QED
      BY <3>1, <3>2
  <2>2. QED
    BY <2>1
<1> HIDE DEF T
<1>3. 0..n \subseteq T
  BY <1>1, <1>2, Sorting!RangeInduces
<1>4. n \in T
  BY <1>3
<1>5. PICK x \in S : \A y \in S : x >= y
  BY <1>4 DEF T
<1>6. Max(S) \in S /\ \A y \in S : Max(S) >= y
  BY <1>5 DEF Max
<1>7. QED
  BY <1>6

LEMMA FirstOf ==
  ASSUME NEW n \in Nat, NEW S \in SUBSET (0..n), S # {}
  PROVE  Min(S) \in S /\ \A y \in S : Min(S) <= y
<1> DEFINE R == {n - k : k \in S}
<1>1. R \in SUBSET (0..n) /\ R # {}
  <2>1. \A k \in S : k \in 0..n /\ n - k \in 0..n
    OBVIOUS
  <2>2. QED
    BY <2>1
<1>2. Max(R) \in R /\ \A y \in R : y <= Max(R)
  BY <1>1, LastOf
<1>3. PICK k \in S : Max(R) = n - k
  BY <1>2
<1>4. \A y \in S : k <= y
  <2>1. ASSUME NEW y \in S PROVE k <= y
    <3>1. n - y \in R /\ y \in 0..n /\ k \in 0..n
      OBVIOUS
    <3>2. n - y <= n - k
      BY <1>2, <1>3, <3>1
    <3>3. QED
      BY <3>1, <3>2
  <2>2. QED
    BY <2>1
<1>5. Min(S) \in S /\ \A y \in S : Min(S) <= y
  BY <1>4 DEF Min
<1>6. QED
  BY <1>5

Sorted(s) == \A i, j \in 1..Len(s) : i < j => ~ method_more_specific(s[j], s[i])
Orderly(S) ==
  /\ \A a, b \in S : method_more_specific(a, b) => ~ method_more_specific(b, a)
  /\ \A a, b, c \in S : ~ method_more_specific(a, b) /\ ~ method_more_specific(b, c)
                          => ~ method_more_specific(a, c)

(* One element more, somewhere: at the place p + 1.                        *)
LEMMA Inserted ==
  ASSUME NEW s, IsSeq(s), NEW e, NEW p \in 0..Len(s), NEW x
  PROVE  /\ IsSeq(InsertAt(s, p + 1, e))
         /\ Len(InsertAt(s, p + 1, e)) = Len(s) + 1
         /\ \A k \in 1..(Len(s) + 1) :
              InsertAt(s, p + 1, e)[k] = IF k <= p THEN s[k] ELSE IF k = p + 1 THEN e ELSE s[k - 1]
         /\ ToSet(InsertAt(s, p + 1, e)) = ToSet(s) \cup {e}
         /\ Times(InsertAt(s, p + 1, e), x) = Times(s, x) + Times(<<e>>, x)
<1> DEFINE n == Len(s)
           S == {s[k] : k \in DOMAIN s}
           a == SubSeq(s, 1, p)
           b == SubSeq(s, p + 1, n)
<1>1. n \in Nat /\ DOMAIN s = 1..n /\ s \in Seq(S)
  BY Places DEF IsSeq
<1>2. (p + 1) - 1 = p /\ p \in Nat /\ p <= n
  BY <1>1
<1>3. InsertAt(s, p + 1, e) = a \o <<e>> \o b
  BY <1>2 DEF InsertAt
<1> HIDE DEF n, S
<1>4. a \in Seq(S) /\ Len(a) = p /\ \A k \in 1..p : a[k] = s[k]
  BY <1>1, <1>2
<1>5. b \in Seq(S) /\ Len(b) = n - p /\ \A k \in 1..(n - p) : b[k] = s[p + k]
  BY <1>1, <1>2
<1> HIDE DEF a, b
<1>6. IsSeq(a) /\ IsSeq(b) /\ IsSeq(<<e>>) /\ Len(<<e>>) = 1
  BY <1>4, <1>5, OwnElements, TimesOne
<1> DEFINE c == a \o <<e>>
           d == c \o b
<1>7. /\ IsSeq(c) /\ Len(c) = p + 1
      /\ \A k \in 1..p : c[k] = s[k]
      /\ c[p + 1] = e
      /\ ToSet(c) = ToSet(a) \cup {e}
      /\ Times(c, x) = Times(a, x) + Times(<<e>>, x)
  <2>1. /\ IsSeq(c) /\ Len(c) = Len(a) + Len(<<e>>)
        /\ \A k \in 1..Len(a) : c[k] = a[k]
        /\ \A k \in 1..Len(<<e>>) : c[Len(a) + k] = <<e>>[k]
        /\ ToSet(c) = ToSet(a) \cup ToSet(<<e>>)
    BY <1>6, Joined
  <2>2. ToSet(<<e>>) = {e}
    BY DEF ToSet
  <2>3. Times(c, x) = Times(a, x) + Times(<<e>>, x)
    BY <1>6, TimesJoined
  <2> HIDE DEF c
  <2>4. QED
    BY <1>2, <1>4, <1>6, <2>1, <2>2, <2>3
<1> HIDE DEF c
<1>8. /\ IsSeq(d) /\ Len(d) = n + 1
      /\ \A k \in 1..(p + 1) : d[k] = c[k]
      /\ \A k \in 1..(n - p) : d[p + 1 + k] = s[p + k]
      /\ ToSet(d) = ToSet(c) \cup ToSet(b)
      /\ Times(d, x) = Times(c, x) + Times(b, x)
  <2>1. /\ IsSeq(d) /\ Len(d) = Len(c) + Len(b)
        /\ \A k \in 1..Len(c) : d[k] = c[k]
        /\ \A k \in 1..Len(b) : d[Len(c) + k] = b[k]
        /\ ToSet(d) = ToSet(c) \cup ToSet(b)
    BY <1>6, <1>7, Joined
  <2>2. Times(d, x) = Times(c, x) + Times(b, x)
    BY <1>6, <1>7, TimesJoined
  <2> HIDE DEF d
  <2>3. Len(d) = n + 1
    BY <1>1, <1>2, <1>5, <1>7, <2>1
  <2>4. QED
    BY <1>5, <1>7, <2>1, <2>2, <2>3
<1>9. ToSet(a) \cup ToSet(b) = ToSet(s) /\ Times(a, x) + Times(b, x) = Times(s, x)
  <2>1. a \o b = s
    <3>1. a \o b \in Seq(S) /\ Len(a \o b) = n
      BY <1>1, <1>2, <1>4, <1>5
    <3>2. ASSUME NEW k \in 1..n PROVE (a \o b)[k] = s[k]
      <4>0. k \in Nat /\ (k <= p \/ k > p)
        BY <1>1, <1>2
      <4>1. CASE k <= p
        BY <1>1, <1>2, <1>4, <1>5, <4>1
      <4>2. CASE k > p
        <5>1. k - p \in 1..(n - p) /\ p + (k - p) = k
          BY <1>1, <1>2, <4>2
        <5>2. (a \o b)[k] = b[k - p]
          BY <1>1, <1>2, <1>4, <1>5, <4>2
        <5>3. QED
          BY <1>5, <5>1, <5>2
      <4>3. QED
        BY <4>0, <4>1, <4>2, Zenon
    <3>3. PICK w : w = a \o b
      OBVIOUS
    <3>4. w \in Seq(S) /\ Len(w) = n /\ \A k \in 1..n : w[k] = s[k]
      BY <3>1, <3>2, <3>3
    <3>5. w = s
      BY <1>1, <3>4 DEF n
    <3>6. QED
      BY <3>3, <3>5
  <2>2. ToSet(a \o b) = ToSet(a) \cup ToSet(b)
    BY <1>6, Joined
  <2>3. Times(a \o b, x) = Times(a, x) + Times(b, x)
    BY <1>6, TimesJoined
  <2>4. QED
    BY <2>1, <2>2, <2>3
<1>10. ASSUME NEW k \in 1..(n + 1)
       PROVE  d[k] = IF k <= p THEN s[k] ELSE IF k = p + 1 THEN e ELSE s[k - 1]
  <2>0. k <= p + 1 \/ k > p + 1
    BY <1>1, <1>2
  <2>1. CASE k <= p + 1
    <3>1. k \in 1..(p + 1) /\ d[k] = c[k] /\ (k # p + 1 => k \in 1..p)
      BY <1>1, <1>2, <1>8, <2>1
    <3>2. QED
      BY <1>1, <1>2, <1>7, <3>1
  <2>2. CASE k > p + 1
    <3>1. k - p - 1 \in 1..(n - p) /\ p + 1 + (k - p - 1) = k /\ p + (k - p - 1) = k - 1
          /\ ~ (k <= p) /\ k # p + 1
      BY <1>1, <1>2, <2>2
    <3>2. QED
      BY <1>8, <3>1
  <2>3. QED
    BY <2>0, <2>1, <2>2, Zenon
<1>11. Times(d, x) = Times(s, x) + Times(<<e>>, x)
  <2>1. Times(a, x) \in Nat /\ Times(b, x) \in Nat /\ Times(<<e>>, x) \in Nat
    BY <1>6, TimesIsNat
  <2>2. QED
    BY <1>7, <1>8, <1>9, <2>1
<1>12. ToSet(d) = ToSet(s) \cup {e}
  BY <1>7, <1>8, <1>9
<1> HIDE DEF d
<1>13. InsertAt(s, p + 1, e) = d
  BY <1>3 DEF c, d
<1>14. QED
  BY <1>8, <1>10, <1>11, <1>12, <1>13 DEF n

LEMMA InsertKeepsOrder ==
  ASSUME NEW s, IsSeq(s), NEW m
  PROVE  /\ IsSeq(Insert(s, m))
         /\ ToSet(Insert(s, m)) = ToSet(s) \cup {m}
         /\ \A x : Times(Insert(s, m), x) = Times(s, x) + (IF x = m THEN 1 ELSE 0)
         /\ Orderly(ToSet(s) \cup {m}) /\ Sorted(s) => Sorted(Insert(s, m))
<1> DEFINE n == Len(s)
           A == {0} \cup {k \in DOMAIN s : ~ method_more_specific(m, s[k])}
           p == Max(A)
           r == InsertAt(s, p + 1, m)
<1>1. n \in Nat /\ DOMAIN s = 1..n
  BY Places
<1>2. p \in A /\ \A y \in A : y <= p
  <2>1. A \in SUBSET (0..n) /\ A # {}
    BY <1>1
  <2> HIDE DEF A, n
  <2>2. QED
    BY <1>1, <2>1, LastOf
<1>3. p \in 0..n
  BY <1>1, <1>2
<1>4. Insert(s, m) = r
  BY DEF Insert
<1>5. /\ \A k \in 1..n : k <= p => p \in 1..n /\ ~ method_more_specific(m, s[p])
      /\ \A k \in 1..n : p < k => method_more_specific(m, s[k])
  <2> HIDE DEF p, n
  <2>1. ASSUME NEW k \in 1..n, k <= p PROVE p \in 1..n /\ ~ method_more_specific(m, s[p])
    <3>1. p # 0 /\ p \in 1..n
      BY <1>1, <1>3, <2>1
    <3>2. QED
      BY <1>2, <3>1
  <2>2. ASSUME NEW k \in 1..n, p < k PROVE method_more_specific(m, s[k])
    <3>1. k \in DOMAIN s /\ ~ (k <= p)
      BY <1>1, <1>3, <2>2
    <3>2. QED
      BY <1>2, <3>1
  <2>3. QED
    BY <2>1, <2>2
<1> HIDE DEF n, A, p
<1>6. /\ IsSeq(r) /\ Len(r) = n + 1
      /\ \A k \in 1..(n + 1) : r[k] = IF k <= p THEN s[k] ELSE IF k = p + 1 THEN m ELSE s[k - 1]
      /\ ToSet(r) = ToSet(s) \cup {m}
      /\ \A x : Times(r, x) = Times(s, x) + (IF x = m THEN 1 ELSE 0)
  <2>1. ASSUME NEW x PROVE Times(r, x) = Times(s, x) + (IF x = m THEN 1 ELSE 0)
    <3>1. Times(r, x) = Times(s, x) + Times(<<m>>, x)
      BY <1>3, Inserted DEF n
    <3>2. Times(<<m>>, x) = IF x = m THEN 1 ELSE 0
      BY TimesOne
    <3>3. QED
      BY <3>1, <3>2
  <2>2. /\ IsSeq(r) /\ Len(r) = n + 1
        /\ \A k \in 1..(n + 1) : r[k] = IF k <= p THEN s[k] ELSE IF k = p + 1 THEN m ELSE s[k - 1]
        /\ ToSet(r) = ToSet(s) \cup {m}
        /\ Times(r, m) = Times(s, m) + Times(<<m>>, m)
    BY <1>3, Inserted DEF n
  <2>3. QED
    BY <2>1, <2>2
<1> HIDE DEF r
<1>7. ASSUME Orderly(ToSet(s) \cup {m}), Sorted(s) PROVE Sorted(r)
  <2>1. \A k \in 1..n : s[k] \in ToSet(s)
    BY <1>1 DEF ToSet
  <2>2. ASSUME NEW k \in 1..n, k <= p PROVE ~ method_more_specific(m, s[k])
    <3>1. p \in 1..n /\ ~ method_more_specific(m, s[p])
      BY <1>5, <2>2
    <3>2. k = p \/ ~ method_more_specific(s[p], s[k])
      BY <1>1, <1>7, <2>2, <3>1 DEF Sorted, n
    <3>3. QED
      BY <1>7, <2>1, <3>1, <3>2 DEF Orderly
  <2>3. ASSUME NEW k \in 1..n, p < k PROVE ~ method_more_specific(s[k], m)
    <3>1. method_more_specific(m, s[k])
      BY <1>5, <2>3
    <3>2. QED
      BY <1>7, <2>1, <3>1 DEF Orderly
  <2>4. ASSUME NEW i \in 1..(n + 1), NEW j \in 1..(n + 1), i < j
        PROVE  ~ method_more_specific(r[j], r[i])
    <3>1. CASE i <= p /\ j <= p
      <4>1. i \in 1..n /\ j \in 1..n /\ r[i] = s[i] /\ r[j] = s[j]
        BY <1>1, <1>3, <1>6, <3>1
      <4>2. QED
        BY <1>7, <2>4, <4>1 DEF Sorted, n
    <3>2. CASE i <= p /\ j = p + 1
      <4>1. i \in 1..n /\ r[i] = s[i] /\ r[j] = m
        BY <1>1, <1>3, <1>6, <3>2
      <4>2. QED
        BY <2>2, <3>2, <4>1
    <3>3. CASE i <= p /\ j > p + 1
      <4>1. i \in 1..n /\ j - 1 \in 1..n /\ i < j - 1 /\ r[i] = s[i] /\ r[j] = s[j - 1]
        BY <1>1, <1>3, <1>6, <3>3
      <4>2. QED
        BY <1>7, <4>1 DEF Sorted, n
    <3>4. CASE i = p + 1
      <4>1. j - 1 \in 1..n /\ p < j - 1 /\ r[i] = m /\ r[j] = s[j - 1]
        BY <1>1, <1>3, <1>6, <2>4, <3>4
      <4>2. QED
        BY <2>3, <4>1
    <3>5. CASE i > p + 1
      <4>1. /\ i - 1 \in 1..n /\ j - 1 \in 1..n /\ i - 1 < j - 1
            /\ r[i] = s[i - 1] /\ r[j] = s[j - 1]
        BY <1>1, <1>3, <1>6, <2>4, <3>5
      <4>2. QED
        BY <1>7, <4>1 DEF Sorted, n
    <3>6. QED
      BY <1>1, <1>3, <2>4, <3>1, <3>2, <3>3, <3>4, <3>5
  <2>5. QED
    BY <1>6, <2>4 DEF Sorted
<1>8. QED
  BY <1>4, <1>6, <1>7

(* Sorting keeps every method as often as it was there.                    *)
LEMMA SortKeeps ==
  ASSUME NEW ms, IsSeq(ms)
  PROVE  /\ IsSeq(sort_methods(ms))
         /\ ToSet(sort_methods(ms)) = ToSet(ms)
         /\ \A x : Times(sort_methods(ms), x) = Times(ms, x)
         /\ Orderly(ToSet(ms)) => Sorted(sort_methods(ms))
<1> DEFINE N == Len(ms)
           S_ == {ms[k] : k \in DOMAIN ms}
           Part(k) == SubSeq(ms, 1, k)
<1>1. N \in Nat /\ DOMAIN ms = 1..N /\ ms \in Seq(S_)
  BY Places DEF IsSeq
<1> HIDE DEF N, S_
<1>2. PICK t : /\ DOMAIN t = 0..N
               /\ t[0] = << >>
               /\ \A k \in 1..N : t[k] = Insert(t[k - 1], ms[k])
               /\ t[N] = sort_methods(ms)
  BY <1>1, FoldSort
<1>3. ASSUME NEW k \in 0..(N - 1)
      PROVE  /\ IsSeq(Part(k)) /\ IsSeq(<<ms[k + 1]>>)
             /\ Part(k + 1) = Part(k) \o <<ms[k + 1]>>
  <2>1. k \in Nat /\ k + 1 \in 1..N /\ k <= N /\ ms[k + 1] \in S_
    BY <1>1
  <2>2. /\ Part(k) \in Seq(S_) /\ Part(k + 1) \in Seq(S_)
        /\ Len(Part(k)) = k /\ Len(Part(k + 1)) = k + 1
        /\ \A i \in 1..k : Part(k)[i] = ms[i]
        /\ \A i \in 1..(k + 1) : Part(k + 1)[i] = ms[i]
    BY <1>1, <2>1
  <2>3. PICK a, b, y : a = Part(k) /\ b = Part(k + 1) /\ y = ms[k + 1]
    OBVIOUS
  <2>4. b = a \o <<y>>
    <3>1. a \in Seq(S_) /\ b \in Seq(S_) /\ y \in S_ /\ Len(a) = k /\ Len(b) = k + 1
          /\ (\A i \in 1..k : b[i] = a[i]) /\ b[k + 1] = y
      BY <2>1, <2>2, <2>3
    <3>2. PICK c : c = a \o <<y>>
      OBVIOUS
    <3>3. c \in Seq(S_) /\ Len(c) = k + 1 /\ (\A i \in 1..k : c[i] = a[i]) /\ c[k + 1] = y
      BY <2>1, <3>1, <3>2
    <3>4. b = c
      BY <2>1, <3>1, <3>3
    <3>5. QED
      BY <3>2, <3>4
  <2>5. IsSeq(a) /\ IsSeq(<<y>>)
    BY <2>2, <2>3, OwnElements, TimesOne
  <2>6. QED
    BY <2>3, <2>4, <2>5
<1> DEFINE P(k) == /\ IsSeq(t[k])
                   /\ ToSet(t[k]) = ToSet(Part(k))
                   /\ \A x : Times(t[k], x) = Times(Part(k), x)
                   /\ Orderly(ToSet(ms)) => Sorted(t[k])
           S == {k \in 0..N : P(k)}
<1>4. 0 \in S
  <2>1. Part(0) = << >>
    BY <1>1
  <2>2. Sorted(<< >>) /\ IsSeq(<< >>)
    BY TimesNone DEF Sorted
  <2> HIDE DEF Part
  <2>3. P(0)
    BY <1>2, <2>1, <2>2
  <2> HIDE DEF P
  <2>4. QED
    BY <1>1, <2>3
<1>5. ASSUME NEW k \in 0..(N - 1), k \in S PROVE k + 1 \in S
  <2>1. k + 1 \in 1..N /\ k + 1 \in 0..N /\ (k + 1) - 1 = k
    BY <1>1
  <2>2. PICK v, y, a : v = t[k] /\ y = ms[k + 1] /\ a = Part(k)
    OBVIOUS
  <2>3. t[k + 1] = Insert(v, y)
    BY <1>2, <2>1, <2>2
  <2>4. P(k)
    BY <1>5
  <2>5. IsSeq(a) /\ IsSeq(<<y>>) /\ Part(k + 1) = a \o <<y>>
    BY <1>3, <2>2
  <2> HIDE DEF Part
  <2>6. /\ IsSeq(v) /\ ToSet(v) = ToSet(a) /\ (\A x : Times(v, x) = Times(a, x))
        /\ Orderly(ToSet(ms)) => Sorted(v)
    BY <2>2, <2>4
  <2>7. ToSet(<<y>>) = {y}
    BY DEF ToSet
  <2>8. ToSet(a \o <<y>>) = ToSet(a) \cup {y}
    BY <2>5, <2>7, Joined
  <2>9. ASSUME NEW x PROVE Times(Insert(v, y), x) = Times(a \o <<y>>, x)
    <3>1. Times(a \o <<y>>, x) = Times(a, x) + Times(<<y>>, x)
      BY <2>5, TimesJoined
    <3>2. Times(Insert(v, y), x) = Times(v, x) + (IF x = y THEN 1 ELSE 0)
      <4>1. IsSeq(v)
        BY <2>6
      <4>2. \A z : Times(Insert(v, y), z) = Times(v, z) + (IF z = y THEN 1 ELSE 0)
        BY <4>1, InsertKeepsOrder, Zenon
      <4>3. QED
        BY <4>2, Zenon
    <3>3. Times(<<y>>, x) = IF x = y THEN 1 ELSE 0
      BY TimesOne
    <3>4. QED
      BY <2>6, <3>1, <3>2, <3>3
  <2>10. IsSeq(Insert(v, y)) /\ ToSet(Insert(v, y)) = ToSet(a) \cup {y}
    BY <2>6, InsertKeepsOrder
  <2>11. ASSUME Orderly(ToSet(ms)) PROVE Sorted(Insert(v, y))
    <3>1. y \in ToSet(ms)
      BY <1>1, <2>1, <2>2 DEF ToSet
    <3>2. ToSet(v) \subseteq ToSet(ms)
      <4>1. a \in Seq(S_)
        BY <1>1, <2>1, <2>2 DEF Part
      <4>2. ToSet(a) \subseteq S_
        BY <4>1 DEF ToSet
      <4>3. QED
        BY <2>6, <4>2 DEF S_, ToSet
    <3>3. Orderly(ToSet(v) \cup {y})
      BY <2>11, <3>1, <3>2 DEF Orderly
    <3>4. QED
      BY <2>6, <2>11, <3>3, InsertKeepsOrder
  <2>12. P(k + 1)
    BY <2>3, <2>5, <2>8, <2>9, <2>10, <2>11
  <2> HIDE DEF P
  <2>13. QED
    BY <2>1, <2>12
<1> HIDE DEF S
<1>6. 0..N \subseteq S
  BY <1>1, <1>4, <1>5, Sorting!RangeInduces
<1>7. P(N)
  BY <1>1, <1>6 DEF S
<1>8. Part(N) = ms
  BY <1>1 DEF N
<1> HIDE DEF Part
<1>9. QED
  BY <1>2, <1>7, <1>8

-----------------------------------------------------------------------------
(* The order of the methods that apply to a call.                          *)
LEMMA SubtypesCompose ==
  ASSUME ClosOK, settled, RootsAreFixed, NEW a, NEW b, NEW c,
         is_subtype(a, b), is_subtype(b, c)
  PROVE  is_subtype(a, c)
<1>1. ASSUME NEW x, NEW y PROVE is_subtype(x, y) <=> y \in ToSet(get_cpl(x))
  BY ListsOfNames DEF is_subtype
<1>2. b \in ToSet(get_cpl(a)) /\ c \in ToSet(get_cpl(b))
  BY <1>1
<1>3. ToSet(get_cpl(b)) \subseteq ToSet(get_cpl(a))
  BY <1>2, ListsOfNames
<1>4. QED
  BY <1>1, <1>2, <1>3

(* All methods of a call have as many specializers.                        *)
Uniform(ms, n) == n \in Nat /\ \A m \in ms : IsSeq(m.specs) /\ Len(m.specs) = n

LEMMA Decided ==
  ASSUME ClosOK, settled, NEW ms, NEW n, Uniform(ms, n), NEW a \in ms, NEW b \in ms
  PROVE  /\ Differ(a, b) = Differ(b, a)
         /\ Differ(a, b) = {k \in 1..n : a.specs[k] # b.specs[k]}
         /\ Differ(a, b) # {} => Min(Differ(a, b)) \in Differ(a, b)
                                 /\ \A y \in Differ(a, b) : Min(Differ(a, b)) <= y
         /\ MoreSpecific(a, b) <=>
              Differ(a, b) # {} /\ is_subtype(a.specs[Min(Differ(a, b))], b.specs[Min(Differ(a, b))])
<1> DEFINE D == Differ(a, b)
<1>1. n \in Nat /\ DOMAIN a.specs = 1..n /\ DOMAIN b.specs = 1..n
  BY Places DEF Uniform
<1>2. D = {k \in 1..n : a.specs[k] # b.specs[k]} /\ Differ(b, a) = D
  BY <1>1 DEF Differ
<1>3. D \in SUBSET (0..n)
  BY <1>1, <1>2
<1> HIDE DEF D
<1>4. D # {} => Min(D) \in D /\ \A y \in D : Min(D) <= y
  BY <1>1, <1>3, FirstOf
<1>5. MoreSpecific(a, b) <=> D # {} /\ is_subtype(a.specs[Min(D)], b.specs[Min(D)])
  BY ListsAreAncestors DEF MoreSpecific, D
<1>6. QED
  BY <1>2, <1>4, <1>5 DEF D

LEMMA OneOrTheOther ==
  ASSUME NEW ms, Comparable(ms), NEW a \in ms, NEW b \in ms, Differ(a, b) # {}
  PROVE  MoreSpecific(a, b) <=> ~ MoreSpecific(b, a)
<1>1. MoreSpecific(a, b) \in BOOLEAN /\ MoreSpecific(b, a) \in BOOLEAN
  BY DEF MoreSpecific
<1>2. MoreSpecific(a, b) # MoreSpecific(b, a)
  BY DEF Comparable
<1>3. QED
  BY <1>1, <1>2

(* The code and the definition compare the same way, where there is a way. *)
LEMMA ComparedRight ==
  ASSUME ClosOK, settled, RootsAreFixed, NEW ms, NEW n, Uniform(ms, n), Comparable(ms),
         NEW a \in ms, NEW b \in ms
  PROVE  method_more_specific(a, b) <=> MoreSpecific(a, b)
<1> DEFINE D == Differ(a, b)
           E == {k \in 1..Min({Len(a.specs), Len(b.specs)}) : a.specs[k] # b.specs[k]}
<1>1. /\ D = Differ(b, a)
      /\ D = {k \in 1..n : a.specs[k] # b.specs[k]}
      /\ D # {} => Min(D) \in D
      /\ MoreSpecific(a, b) <=> D # {} /\ is_subtype(a.specs[Min(D)], b.specs[Min(D)])
      /\ MoreSpecific(b, a) <=> D # {} /\ is_subtype(b.specs[Min(D)], a.specs[Min(D)])
  BY Decided
<1>2. E = D
  <2>1. Len(a.specs) = n /\ Len(b.specs) = n /\ n \in Nat
    BY DEF Uniform
  <2>2. {n, n} \in SUBSET (0..n) /\ {n, n} # {}
    BY <2>1
  <2>3. Min({n, n}) \in {n, n}
    BY <2>1, <2>2, FirstOf
  <2>4. QED
    BY <1>1, <2>1, <2>3
<1>3. method_more_specific(a, b) <=> E # {} /\ more_specificAt(a.specs[Min(E)], b.specs[Min(E)])
  BY DEF method_more_specific
<1> HIDE DEF D, E
<1>4. ASSUME D # {} PROVE more_specificAt(a.specs[Min(D)], b.specs[Min(D)])
                            <=> is_subtype(a.specs[Min(D)], b.specs[Min(D)])
  <2> DEFINE sa == a.specs[Min(D)]
             sb == b.specs[Min(D)]
  <2>1. is_subtype(sa, sb) <=> ~ is_subtype(sb, sa)
    <3>1. MoreSpecific(a, b) <=> ~ MoreSpecific(b, a)
      BY <1>4, OneOrTheOther DEF D
    <3>2. QED
      BY <1>1, <1>4, <3>1
  <2> SUFFICES more_specificAt(sa, sb) <=> is_subtype(sa, sb)
    OBVIOUS
  <2> HIDE DEF sa, sb
  <2>2. CASE sb = "t"
    <3>1. sa # "t"
      BY <2>1, <2>2 DEF is_subtype
    <3>2. QED
      BY <2>2, <3>1 DEF more_specificAt, is_subtype
  <2>3. CASE sb # "t" /\ sa = "t"
    <3>1. is_subtype(sb, sa)
      BY <2>3 DEF is_subtype
    <3>2. QED
      BY <2>1, <2>3, <3>1 DEF more_specificAt
  <2>4. CASE sb # "t" /\ sa # "t"
    BY <2>1, <2>4 DEF more_specificAt
  <2>5. QED
    BY <2>2, <2>3, <2>4 DEF sa, sb
<1>5. QED
  BY <1>1, <1>2, <1>3, <1>4

(* That is an order the sort can keep.                                     *)
LEMMA ComparedOrderly ==
  ASSUME ClosOK, settled, RootsAreFixed, NEW ms, NEW n, Uniform(ms, n), Comparable(ms)
  PROVE  Orderly(ms)
<1>1. \A a, b \in ms : method_more_specific(a, b) <=> MoreSpecific(a, b)
  BY ComparedRight
<1>2. ASSUME NEW a \in ms, NEW b \in ms, MoreSpecific(a, b) PROVE ~ MoreSpecific(b, a)
  <2>1. Differ(a, b) # {}
    BY <1>2 DEF MoreSpecific
  <2>2. QED
    BY <1>2, <2>1, OneOrTheOther
<1>3. ASSUME NEW a \in ms, NEW b \in ms, NEW c \in ms, ~ MoreSpecific(a, b), ~ MoreSpecific(b, c)
      PROVE  ~ MoreSpecific(a, c)
  <2> DEFINE A == a.specs
             B == b.specs
             C == c.specs
             F == Differ(a, b)
             G == Differ(b, c)
             H == Differ(a, c)
  <2>1. /\ F = {k \in 1..n : A[k] # B[k]} /\ F = Differ(b, a)
        /\ F # {} => Min(F) \in F /\ \A y \in F : Min(F) <= y
        /\ MoreSpecific(b, a) <=> F # {} /\ is_subtype(B[Min(F)], A[Min(F)])
        /\ MoreSpecific(a, b) <=> F # {} /\ is_subtype(A[Min(F)], B[Min(F)])
    BY Decided
  <2>2. /\ G = {k \in 1..n : B[k] # C[k]} /\ G = Differ(c, b)
        /\ G # {} => Min(G) \in G /\ \A y \in G : Min(G) <= y
        /\ MoreSpecific(c, b) <=> G # {} /\ is_subtype(C[Min(G)], B[Min(G)])
        /\ MoreSpecific(b, c) <=> G # {} /\ is_subtype(B[Min(G)], C[Min(G)])
    BY Decided
  <2>3. /\ H = {k \in 1..n : A[k] # C[k]} /\ H = Differ(c, a)
        /\ H # {} => Min(H) \in H /\ \A y \in H : Min(H) <= y
        /\ MoreSpecific(c, a) <=> H # {} /\ is_subtype(C[Min(H)], A[Min(H)])
        /\ MoreSpecific(a, c) <=> H # {} /\ is_subtype(A[Min(H)], C[Min(H)])
    BY Decided
  <2>4. F = {} \/ MoreSpecific(b, a)
    BY <1>3, OneOrTheOther
  <2>5. G = {} \/ MoreSpecific(c, b)
    BY <1>3, OneOrTheOther
  <2>6. n \in Nat
    BY DEF Uniform
  <2> HIDE DEF A, B, C, F, G, H
  <2>7. CASE F = {}
    <3>1. \A k \in 1..n : A[k] = B[k]
      BY <2>1, <2>7
    <3>2. H = G
      BY <2>2, <2>3, <3>1
    <3>3. Min(H) \in 1..n \/ H = {}
      BY <2>3
    <3>4. QED
      BY <1>3, <2>2, <2>3, <3>1, <3>2, <3>3
  <2>8. CASE G = {}
    <3>1. \A k \in 1..n : B[k] = C[k]
      BY <2>2, <2>8
    <3>2. H = F
      BY <2>1, <2>3, <3>1
    <3>3. Min(H) \in 1..n \/ H = {}
      BY <2>3
    <3>4. QED
      BY <1>3, <2>1, <2>3, <3>1, <3>2, <3>3
  <2>9. CASE F # {} /\ G # {}
    <3> DEFINE f == Min(F)
               g == Min(G)
               h == Min(H)
    <3>1. /\ f \in 1..n /\ A[f] # B[f] /\ (\A k \in 1..n : k < f => A[k] = B[k])
          /\ is_subtype(B[f], A[f]) /\ ~ is_subtype(A[f], B[f])
      <4>1. \A k \in 1..n : k < f => k \notin F
        BY <2>1, <2>9
      <4>2. QED
        BY <1>3, <2>1, <2>4, <2>9, <4>1
    <3>2. /\ g \in 1..n /\ B[g] # C[g] /\ (\A k \in 1..n : k < g => B[k] = C[k])
          /\ is_subtype(C[g], B[g]) /\ ~ is_subtype(B[g], C[g])
      <4>1. \A k \in 1..n : k < g => k \notin G
        BY <2>2, <2>9
      <4>2. QED
        BY <1>3, <2>2, <2>5, <2>9, <4>1
    <3>3. ASSUME H # {} PROVE h \in 1..n /\ A[h] # C[h] /\ \A k \in 1..n : k < h => A[k] = C[k]
      <4>1. \A k \in 1..n : k < h => k \notin H
        BY <2>3, <3>3
      <4>2. QED
        BY <2>3, <3>3, <4>1
    <3> HIDE DEF f, g, h
    <3>4. CASE f < g
      <4>1. A[f] # C[f] /\ \A k \in 1..n : k < f => A[k] = C[k]
        BY <3>1, <3>2, <3>4
      <4>2. H # {} /\ h = f
        <5>1. f \in H
          BY <2>3, <3>1, <4>1
        <5>2. QED
          BY <3>1, <3>3, <4>1, <5>1, <2>3 DEF h
      <4>3. B[f] = C[f]
        BY <3>1, <3>2, <3>4
      <4>4. QED
        BY <2>3, <3>1, <4>2, <4>3 DEF h
    <3>5. CASE g < f
      <4>1. A[g] # C[g] /\ \A k \in 1..n : k < g => A[k] = C[k]
        BY <3>1, <3>2, <3>5
      <4>2. H # {} /\ h = g
        <5>1. g \in H
          BY <2>3, <3>2, <4>1
        <5>2. QED
          BY <3>2, <3>3, <4>1, <5>1, <2>3 DEF h
      <4>3. B[g] = A[g]
        BY <3>1, <3>2, <3>5
      <4>4. QED
        BY <2>3, <3>2, <4>2, <4>3 DEF h
    <3>6. CASE g = f
      <4>1. is_subtype(C[f], A[f])
        BY <3>1, <3>2, <3>6, SubtypesCompose
      <4>2. A[f] # C[f]
        BY <3>1, <3>2, <3>6
      <4>3. H # {} /\ h = f
        <5>1. f \in H
          BY <2>3, <3>1, <4>2
        <5>2. \A k \in 1..n : k < f => A[k] = C[k]
          BY <3>1, <3>2, <3>6
        <5>3. QED
          BY <3>1, <3>3, <5>1, <5>2, <2>3 DEF h
      <4>4. MoreSpecific(c, a)
        BY <2>3, <4>1, <4>3 DEF h
      <4>5. QED
        BY <1>2, <4>4
    <3>7. f \in Nat /\ g \in Nat
      BY <3>1, <3>2
    <3>8. QED
      BY <3>4, <3>5, <3>6, <3>7
  <2>10. QED
    BY <2>7, <2>8, <2>9
<1>4. QED
  BY <1>1, <1>2, <1>3 DEF Orderly

-----------------------------------------------------------------------------
(* The plan of a call, from the sorted methods.                            *)
Ranked(s) == \A i, j \in 1..Len(s) : i < j => ~ MoreSpecific(s[j], s[i])

LEMMA QualifiedRanked ==
  ASSUME NEW s, IsSeq(s), Ranked(s), NEW q
  PROVE  /\ IsSeq(Qualified(s, q))
         /\ Ranked(Qualified(s, q))
         /\ ToSet(Qualified(s, q)) = {m \in ToSet(s) : m.qualifier = q}
         /\ \A x \in ToSet(s) : Times(Qualified(s, q), x) = IF x.qualifier = q THEN Times(s, x) ELSE 0
<1> DEFINE W == {m \in ToSet(s) : m.qualifier = q}
<1> PICK r : r = Keep(W, s)
  OBVIOUS
<1>1. Qualified(s, q) = r
  BY DEF Qualified
<1> HIDE DEF W
<1>2. PICK f : Picks(W, s, Len(s), r, f)
  BY Kept
<1>3. IsSeq(r) /\ ToSet(r) = ToSet(s) \cap W
      /\ \A x : Times(r, x) = IF x \in W THEN Times(s, x) ELSE 0
  BY TimesKept
<1>4. Ranked(r)
  <2>1. ASSUME NEW i \in 1..Len(r), NEW j \in 1..Len(r), i < j PROVE ~ MoreSpecific(r[j], r[i])
    <3>1. f[i] \in 1..Len(s) /\ f[j] \in 1..Len(s) /\ f[i] < f[j] /\ r[i] = s[f[i]] /\ r[j] = s[f[j]]
      BY <1>2, <2>1 DEF Picks
    <3>2. QED
      BY <3>1 DEF Ranked
  <2>2. QED
    BY <2>1 DEF Ranked
<1>5. W \subseteq ToSet(s)
  BY DEF W
<1>6. ASSUME NEW x \in ToSet(s) PROVE Times(r, x) = IF x.qualifier = q THEN Times(s, x) ELSE 0
  BY <1>3 DEF W
<1>7. ToSet(r) = {m \in ToSet(s) : m.qualifier = q}
  BY <1>3, <1>5 DEF W
<1>8. QED
  BY <1>1, <1>3, <1>4, <1>6, <1>7

LEMMA NotMoreThanItself ==
  ASSUME NEW m
  PROVE  ~ MoreSpecific(m, m)
<1>1. Differ(m, m) = {}
  BY DEF Differ
<1>2. QED
  BY <1>1 DEF MoreSpecific

LEMMA FirstIs ==
  ASSUME NEW s, IsSeq(s)
  PROVE  /\ s = << >> => First(s) = << >>
         /\ s # << >> => First(s) = <<s[1]>> /\ 1 \in 1..Len(s)
<1> DEFINE n == Len(s)
           S == {s[k] : k \in DOMAIN s}
<1>1. n \in Nat /\ DOMAIN s = 1..n /\ s \in Seq(S)
  BY Places DEF IsSeq
<1> HIDE DEF S
<1>2. {1, n} \in SUBSET (0..(n + 1)) /\ {1, n} # {} /\ n + 1 \in Nat
  BY <1>1
<1>3. Min({1, n}) \in {1, n} /\ Min({1, n}) <= 1 /\ Min({1, n}) <= n
  <2> HIDE DEF n
  <2>1. QED
    BY <1>2, FirstOf
<1>4. CASE s = << >>
  <2>1. n = 0 /\ Min({1, n}) = 0
    BY <1>1, <1>3, <1>4
  <2>2. First(s) = SubSeq(s, 1, 0)
    BY <2>1 DEF First
  <2>3. QED
    BY <1>1, <1>4, <2>2
<1>5. CASE s # << >>
  <2>1. n # 0
    BY <1>1, <1>5
  <2>2. Min({1, n}) = 1 /\ 1 \in 1..n
    <3> HIDE DEF n
    <3>1. QED
      BY <1>1, <1>3, <2>1
  <2>3. First(s) = SubSeq(s, 1, 1)
    BY <2>2 DEF First
  <2>4. SubSeq(s, 1, 1) = <<s[1]>>
    <3>1. PICK w, y : w = SubSeq(s, 1, 1) /\ y = s[1]
      OBVIOUS
    <3>2. y \in S /\ w \in Seq(S) /\ Len(w) = 1 /\ w[1] = y
      BY <1>1, <2>2, <3>1
    <3>3. w = <<y>>
      BY <3>2
    <3>4. QED
      BY <3>1, <3>3
  <2>5. QED
    BY <1>5, <2>2, <2>3, <2>4
<1>6. QED
  BY <1>4, <1>5

(* The first of the methods of a kind is a best one.                       *)
LEMMA FirstIsBest ==
  ASSUME NEW s, IsSeq(s), Ranked(s), NEW q, Qualified(s, q) # << >>
  PROVE  \E m \in ToSet(s) : /\ First(Qualified(s, q)) = <<m>>
                             /\ m.qualifier = q
                             /\ Best(m, ToSet(s))
<1> PICK r : r = Qualified(s, q)
  OBVIOUS
<1>1. IsSeq(r) /\ Ranked(r) /\ ToSet(r) = {m \in ToSet(s) : m.qualifier = q}
  BY QualifiedRanked
<1>2. First(r) = <<r[1]>> /\ 1 \in 1..Len(r)
  BY <1>1, FirstIs
<1>3. Len(r) \in Nat /\ ToSet(r) = {r[k] : k \in 1..Len(r)}
  BY <1>1, Places
<1>4. r[1] \in ToSet(s) /\ r[1].qualifier = q
  BY <1>1, <1>2, <1>3
<1>5. ASSUME NEW o \in ToSet(s), o.qualifier = q PROVE ~ MoreSpecific(o, r[1])
  <2>1. PICK k \in 1..Len(r) : r[k] = o
    BY <1>1, <1>3, <1>5
  <2>2. CASE k = 1
    BY <2>1, <2>2, NotMoreThanItself
  <2>3. CASE k # 1
    <3>1. 1 < k
      BY <1>3, <2>3
    <3>2. QED
      BY <1>1, <1>2, <2>1, <3>1 DEF Ranked
  <2>4. QED
    BY <2>2, <2>3
<1>6. Best(r[1], ToSet(s))
  BY <1>4, <1>5 DEF Best
<1>7. QED
  BY <1>2, <1>4, <1>6

LEMMA NothingIn ==
  ASSUME NEW s, IsSeq(s)
  PROVE  (s = << >>) <=> (ToSet(s) = {})
<1>1. Len(s) \in Nat /\ ToSet(s) = {s[k] : k \in 1..Len(s)}
  BY Places
<1>2. ASSUME s = << >> PROVE ToSet(s) = {}
  BY <1>2, TimesNone
<1>3. ASSUME ToSet(s) = {} PROVE s = << >>
  <2>1. 1 \notin 1..Len(s)
    BY <1>1, <1>3
  <2>2. Len(s) = 0
    BY <1>1, <2>1
  <2>3. QED
    BY <2>2 DEF IsSeq
<1>4. QED
  BY <1>2, <1>3

LEMMA AroundRight ==
  ASSUME NEW s, IsSeq(s), Ranked(s), \E m \in ToSet(s) : m.qualifier = "around"
  PROVE  OneAround(ToSet(s), PlanOf(s))
<1>1. /\ IsSeq(Qualified(s, "around"))
      /\ ToSet(Qualified(s, "around")) = {m \in ToSet(s) : m.qualifier = "around"}
  BY QualifiedRanked
<1>2. Qualified(s, "around") # << >>
  BY <1>1, NothingIn
<1>3. PICK m \in ToSet(s) : /\ First(Qualified(s, "around")) = <<m>>
                            /\ m.qualifier = "around" /\ Best(m, ToSet(s))
  BY <1>2, FirstIsBest
<1>4. PlanOf(s) = <<m>>
  BY <1>2, <1>3 DEF PlanOf
<1>5. QED
  BY <1>3, <1>4 DEF OneAround

(* A method that is in a sequence once and alone is all of it.             *)
LEMMA OnlyOne ==
  ASSUME NEW s, IsSeq(s), NEW m, ToSet(s) \subseteq {m}
  PROVE  Len(s) = Times(s, m)
<1>1. Len(s) \in Nat /\ DOMAIN s = 1..Len(s) /\ ToSet(s) = {s[k] : k \in 1..Len(s)}
  BY Places
<1>2. {k \in DOMAIN s : s[k] = m} = 1..Len(s)
  BY <1>1
<1>3. Cardinality(1..Len(s)) = Len(s)
  <2>1. 1 \in Int /\ Len(s) \in Int
    BY <1>1
  <2>2. Cardinality(1..Len(s)) = IF 1 > Len(s) THEN 0 ELSE Len(s) - 1 + 1
    BY <2>1, FS_Interval
  <2>3. QED
    BY <1>1, <2>2
<1>4. QED
  BY <1>1, <1>2, <1>3 DEF Times

(* c is a, then b.                                                         *)
Together(a, b, c) ==
  /\ IsSeq(c) /\ Len(c) = Len(a) + Len(b)
  /\ \A k \in 1..Len(a) : c[k] = a[k]
  /\ \A k \in 1..Len(b) : c[Len(a) + k] = b[k]
  /\ ToSet(c) = ToSet(a) \cup ToSet(b)
  /\ \A x : Times(c, x) = Times(a, x) + Times(b, x)

LEMMA JoinedTogether ==
  ASSUME NEW a, IsSeq(a), NEW b, IsSeq(b)
  PROVE  Together(a, b, a \o b)
<1>1. ASSUME NEW x PROVE Times(a \o b, x) = Times(a, x) + Times(b, x)
  BY TimesJoined
<1>2. QED
  BY <1>1, Joined DEF Together

LEMMA CombinedRight ==
  ASSUME NEW s, IsSeq(s), Ranked(s), ~ \E m \in ToSet(s) : m.qualifier = "around",
         \A x \in ToSet(s) : Times(s, x) = Times(methods, x)
  PROVE  Combined(ToSet(s), PlanOf(s))
<1> DEFINE ms == ToSet(s)
<1> PICK B, P, A : B = Qualified(s, "before") /\ P = Qualified(s, "primary") /\ A = Qualified(s, "after")
  OBVIOUS
<1> PICK F, R : F = First(P) /\ R = Reverse(A)
  OBVIOUS
<1> PICK plan : plan = (B \o F) \o R
  OBVIOUS
<1>1. PlanOf(s) = plan
  <2>1. /\ IsSeq(Qualified(s, "around"))
        /\ ToSet(Qualified(s, "around")) = {m \in ToSet(s) : m.qualifier = "around"}
    BY QualifiedRanked
  <2>2. Qualified(s, "around") = << >>
    BY <2>1, NothingIn
  <2>3. QED
    BY <2>2 DEF PlanOf
<1>2. /\ IsSeq(B) /\ Ranked(B) /\ ToSet(B) = {m \in ms : m.qualifier = "before"}
      /\ \A x \in ms : Times(B, x) = IF x.qualifier = "before" THEN Times(s, x) ELSE 0
  BY QualifiedRanked
<1>3. /\ IsSeq(P) /\ Ranked(P) /\ ToSet(P) = {m \in ms : m.qualifier = "primary"}
  BY QualifiedRanked
<1>4. /\ IsSeq(A) /\ Ranked(A) /\ ToSet(A) = {m \in ms : m.qualifier = "after"}
      /\ \A x \in ms : Times(A, x) = IF x.qualifier = "after" THEN Times(s, x) ELSE 0
  BY QualifiedRanked
<1> HIDE DEF ms
<1>5. /\ IsSeq(F)
      /\ ToSet(F) \subseteq {m \in ms : m.qualifier = "primary" /\ Best(m, ms)}
      /\ P = << >> => F = << >>
      /\ P # << >> => \E m \in ms : F = <<m>> /\ m.qualifier = "primary" /\ Best(m, ms)
  <2>1. CASE P = << >>
    <3>1. F = << >>
      BY <1>3, <2>1, FirstIs
    <3>2. QED
      BY <2>1, <3>1, TimesNone
  <2>2. CASE P # << >>
    <3>1. PICK m \in ms : F = <<m>> /\ m.qualifier = "primary" /\ Best(m, ms)
      BY <2>2, FirstIsBest DEF ms
    <3>2. IsSeq(<<m>>) /\ ToSet(<<m>>) = {m}
      BY TimesOne DEF ToSet
    <3>3. QED
      BY <2>2, <3>1, <3>2
  <2>3. QED
    BY <2>1, <2>2
<1>6. /\ IsSeq(R) /\ Len(R) = Len(A) /\ ToSet(R) = ToSet(A)
      /\ \A k \in 1..Len(A) : R[k] = A[Len(A) - k + 1]
      /\ \A x : Times(R, x) = Times(A, x)
  <2>1. IsSeq(R) /\ Len(R) = Len(A) /\ \A k \in 1..Len(A) : R[k] = A[Len(A) - k + 1]
    BY <1>4, TimesReversed
  <2>2. \A x : Times(R, x) = Times(A, x)
    BY <1>4, TimesReversed
  <2>3. \A x : x \in ToSet(R) <=> x \in ToSet(A)
    <3>1. ASSUME NEW x PROVE x \in ToSet(R) <=> x \in ToSet(A)
      <4>1. Times(R, x) = Times(A, x)
        BY <2>2
      <4>2. x \in ToSet(R) <=> Times(R, x) # 0
        BY <2>1, TimesIsNat
      <4>3. x \in ToSet(A) <=> Times(A, x) # 0
        BY <1>4, TimesIsNat
      <4>4. QED
        BY <4>1, <4>2, <4>3
    <3>2. QED
      BY <3>1
  <2>4. QED
    BY <2>1, <2>2, <2>3
<1> PICK C : C = B \o F
  OBVIOUS
<1>7. /\ IsSeq(C) /\ Len(C) = Len(B) + Len(F)
      /\ \A k \in 1..Len(B) : C[k] = B[k]
      /\ \A k \in 1..Len(F) : C[Len(B) + k] = F[k]
      /\ ToSet(C) = ToSet(B) \cup ToSet(F)
      /\ \A x : Times(C, x) = Times(B, x) + Times(F, x)
  <2>1. IsSeq(B) /\ IsSeq(F) /\ C = B \o F
    BY <1>2, <1>5
  <2>2. Together(B, F, C)
    BY <2>1, JoinedTogether
  <2>3. QED
    BY <2>2 DEF Together
<1>8. /\ IsSeq(plan) /\ Len(plan) = Len(C) + Len(R)
      /\ \A k \in 1..Len(C) : plan[k] = C[k]
      /\ \A k \in 1..Len(R) : plan[Len(C) + k] = R[k]
      /\ ToSet(plan) = ToSet(C) \cup ToSet(R)
      /\ \A x : Times(plan, x) = Times(C, x) + Times(R, x)
  <2>1. IsSeq(C) /\ IsSeq(R) /\ plan = C \o R
    BY <1>6, <1>7
  <2>2. Together(C, R, plan)
    BY <2>1, JoinedTogether
  <2>3. QED
    BY <2>2 DEF Together
<1>9. ToSet(plan) = ToSet(B) \cup ToSet(F) \cup ToSet(A) /\ ToSet(plan) \subseteq ms
  BY <1>2, <1>4, <1>5, <1>6, <1>7, <1>8
<1>10. \A x : Times(plan, x) = Times(B, x) + Times(F, x) + Times(A, x)
  BY <1>6, <1>7, <1>8
<1>11. ASSUME NEW m \in ms, m.qualifier \in {"before", "after"}
       PROVE  Times(plan, m) = Times(methods, m)
  <2>1. m \notin ToSet(F)
    BY <1>5, <1>11
  <2>2. Times(F, m) = 0
    BY <1>5, <2>1, TimesIsNat
  <2>3. Times(s, m) \in Nat /\ Times(s, m) = Times(methods, m)
    BY TimesIsNat DEF ms
  <2>4. CASE m.qualifier = "before"
    BY <1>2, <1>4, <1>10, <2>2, <2>3, <2>4
  <2>5. CASE m.qualifier = "after"
    BY <1>2, <1>4, <1>10, <2>2, <2>3, <2>5
  <2>6. QED
    BY <1>11, <2>4, <2>5
<1> DEFINE primaries == {m \in ms : m.qualifier = "primary"}
<1> PICK chosen : chosen = Qualified(plan, "primary")
  OBVIOUS
<1>12. Len(chosen) = (IF primaries = {} THEN 0 ELSE 1) /\ \A k \in DOMAIN chosen : Best(chosen[k], ms)
  <2> PICK W : W = {m \in ToSet(plan) : m.qualifier = "primary"}
    OBVIOUS
  <2>1. chosen = Keep(W, plan)
    BY DEF Qualified
  <2>2. /\ IsSeq(chosen) /\ ToSet(chosen) = ToSet(plan) \cap W
        /\ \A x : Times(chosen, x) = IF x \in W THEN Times(plan, x) ELSE 0
    BY <1>8, <2>1, TimesKept
  <2>3. ToSet(F) \subseteq W /\ ToSet(chosen) = ToSet(F)
    <3>1. ToSet(F) \subseteq W
      BY <1>5, <1>9
    <3>2. \A x \in ToSet(B) \cup ToSet(A) : x.qualifier # "primary"
      BY <1>2, <1>4
    <3>3. W \subseteq ToSet(F)
      BY <1>9, <3>2
    <3>4. W \subseteq ToSet(plan)
      OBVIOUS
    <3>5. QED
      BY <2>2, <3>1, <3>3, <3>4
  <2>4. Len(chosen) \in Nat /\ DOMAIN chosen = 1..Len(chosen) /\ \A k \in DOMAIN chosen : chosen[k] \in ToSet(chosen)
    BY <2>2, Places DEF ToSet
  <2>5. \A k \in DOMAIN chosen : Best(chosen[k], ms)
    BY <1>5, <2>3, <2>4
  <2>6. CASE P = << >>
    <3>1. primaries = {}
      BY <1>3, <2>6, NothingIn
    <3>2. ToSet(chosen) = {}
      BY <1>5, <2>3, <2>6, TimesNone
    <3>3. Len(chosen) = 0
      BY <2>2, <3>2, NothingIn
    <3>4. QED
      BY <2>5, <3>1, <3>3
  <2>7. CASE P # << >>
    <3>1. primaries # {}
      BY <1>3, <2>7, NothingIn
    <3>2. PICK m \in ms : F = <<m>> /\ m.qualifier = "primary" /\ Best(m, ms)
      BY <1>5, <2>7
    <3>3. ToSet(F) = {m} /\ Times(F, m) = 1
      BY <3>2, TimesOne DEF ToSet
    <3>4. Times(B, m) = 0 /\ Times(A, m) = 0
      BY <1>2, <1>4, <3>2
    <3>5. Times(plan, m) = 1 /\ m \in W
      BY <1>10, <2>3, <3>3, <3>4
    <3>6. Times(chosen, m) = 1
      BY <2>2, <3>5
    <3>7. Len(chosen) = 1
      <4>1. IsSeq(chosen) /\ ToSet(chosen) \subseteq {m}
        BY <2>2, <2>3, <3>3
      <4>2. QED
        BY <3>6, <4>1, OnlyOne
    <3>8. QED
      BY <2>5, <3>1, <3>7
  <2>8. QED
    BY <2>6, <2>7
<1>13. ASSUME NEW j \in DOMAIN plan, NEW k \in DOMAIN plan, j < k
       PROVE  /\ Rank(plan[j]) <= Rank(plan[k])
              /\ Rank(plan[j]) = 1 /\ Rank(plan[k]) = 1 => ~ MoreSpecific(plan[k], plan[j])
              /\ Rank(plan[j]) = 3 => ~ MoreSpecific(plan[j], plan[k])
  <2> DEFINE b == Len(B)
             f == Len(F)
             a == Len(A)
  <2>1. /\ b \in Nat /\ f \in Nat /\ a \in Nat
        /\ ToSet(B) = {B[i] : i \in 1..b} /\ ToSet(F) = {F[i] : i \in 1..f} /\ ToSet(A) = {A[i] : i \in 1..a}
    <3>1. IsSeq(B) /\ IsSeq(F) /\ IsSeq(A)
      BY <1>2, <1>4, <1>5
    <3>2. /\ Len(B) \in Nat /\ ToSet(B) = {B[i] : i \in 1..Len(B)}
          /\ Len(F) \in Nat /\ ToSet(F) = {F[i] : i \in 1..Len(F)}
          /\ Len(A) \in Nat /\ ToSet(A) = {A[i] : i \in 1..Len(A)}
      <4>1. Len(B) \in Nat /\ ToSet(B) = {B[i] : i \in 1..Len(B)}
        BY <3>1, Places
      <4>2. Len(F) \in Nat /\ ToSet(F) = {F[i] : i \in 1..Len(F)}
        BY <3>1, Places
      <4>3. Len(A) \in Nat /\ ToSet(A) = {A[i] : i \in 1..Len(A)}
        BY <3>1, Places
      <4>4. QED
        BY <4>1, <4>2, <4>3
    <3>3. QED
      BY <3>2 DEF b, f, a
  <2>2. DOMAIN plan = 1..Len(plan)
    BY <1>8, Places
  <2> HIDE DEF b, f, a
  <2>3. f <= 1
    <3>1. P = << >> => f = 0
      BY <1>5, TimesNone DEF f
    <3>2. P # << >> => f = 1
      BY <1>5, TimesOne DEF f
    <3>3. QED
      BY <2>1, <3>1, <3>2
  <2>4. Len(C) = b + f /\ DOMAIN plan = 1..(b + f + a)
    BY <1>6, <1>7, <1>8, <2>2 DEF b, f, a
  <2>5. ASSUME NEW i \in 1..b PROVE plan[i] = B[i] /\ Rank(plan[i]) = 1
    <3>1. i \in 1..Len(C)
      BY <2>1, <2>4
    <3>2. plan[i] = B[i]
      BY <1>7, <1>8, <2>4, <3>1 DEF b
    <3>3. B[i].qualifier = "before"
      BY <1>2, <2>1
    <3>4. QED
      BY <3>2, <3>3 DEF Rank
  <2>6. ASSUME NEW i \in (b + 1)..(b + f) PROVE Rank(plan[i]) = 2
    <3>1. i \in 1..Len(C) /\ i - b \in 1..f /\ b + (i - b) = i
      BY <2>1, <2>4
    <3>2. plan[i] = F[i - b]
      BY <1>7, <1>8, <3>1 DEF b, f
    <3>3. F[i - b].qualifier = "primary"
      BY <1>5, <2>1, <3>1
    <3>4. QED
      BY <3>2, <3>3 DEF Rank
  <2>7. ASSUME NEW i \in (b + f + 1)..(b + f + a)
        PROVE  /\ a - (i - b - f) + 1 \in 1..a
               /\ plan[i] = A[a - (i - b - f) + 1] /\ Rank(plan[i]) = 3
    <3>1. i - b - f \in 1..a /\ (b + f) + (i - b - f) = i /\ a - (i - b - f) + 1 \in 1..a
      BY <2>1
    <3>2. plan[i] = R[i - b - f]
      <4>1. Len(R) = a /\ Len(C) = b + f
        BY <1>6, <2>4 DEF a
      <4>2. plan[Len(C) + (i - b - f)] = R[i - b - f]
        BY <1>8, <3>1, <4>1
      <4>3. QED
        BY <3>1, <4>1, <4>2
    <3>3. R[i - b - f] = A[a - (i - b - f) + 1]
      BY <1>6, <3>1 DEF a
    <3>4. A[a - (i - b - f) + 1].qualifier = "after"
      BY <1>4, <2>1, <3>1
    <3>5. QED
      BY <3>1, <3>2, <3>3, <3>4 DEF Rank
  <2>8. ASSUME NEW i \in DOMAIN plan
        PROVE  i \in 1..b \/ i \in (b + 1)..(b + f) \/ i \in (b + f + 1)..(b + f + a)
    BY <2>1, <2>4
  <2>9. CASE k \in 1..b
    <3>1. j \in 1..b
      BY <1>13, <2>1, <2>4, <2>9
    <3>2. ~ MoreSpecific(B[k], B[j])
      BY <1>2, <1>13, <2>9, <3>1 DEF Ranked, b
    <3>3. plan[j] = B[j] /\ plan[k] = B[k] /\ Rank(plan[j]) = 1 /\ Rank(plan[k]) = 1
      BY <2>5, <2>9, <3>1
    <3>4. QED
      BY <3>2, <3>3
  <2>10. CASE k \in (b + 1)..(b + f)
    <3>1. j \in 1..b
      BY <1>13, <2>1, <2>3, <2>4, <2>10
    <3>2. Rank(plan[j]) = 1 /\ Rank(plan[k]) = 2
      BY <2>5, <2>6, <2>10, <3>1
    <3>3. QED
      BY <3>2
  <2>11. CASE k \in (b + f + 1)..(b + f + a)
    <3>1. Rank(plan[k]) = 3
      BY <2>7, <2>11
    <3>2. CASE j \in 1..b
      <4>1. Rank(plan[j]) = 1
        BY <2>5, <3>2
      <4>2. QED
        BY <3>1, <4>1
    <3>3. CASE j \in (b + 1)..(b + f)
      <4>1. Rank(plan[j]) = 2
        BY <2>6, <3>3
      <4>2. QED
        BY <3>1, <4>1
    <3>4. CASE j \in (b + f + 1)..(b + f + a)
      <4> DEFINE u == a - (j - b - f) + 1
                 v == a - (k - b - f) + 1
      <4>1. u \in 1..a /\ v \in 1..a /\ plan[j] = A[u] /\ plan[k] = A[v] /\ Rank(plan[j]) = 3
        BY <2>7, <2>11, <3>4
      <4>2. v < u
        BY <1>13, <2>1, <2>11, <3>4
      <4>3. ~ MoreSpecific(A[u], A[v])
        BY <1>4, <4>1, <4>2 DEF Ranked, a
      <4>4. QED
        BY <3>1, <4>1, <4>3
    <3>5. QED
      BY <2>8, <3>2, <3>3, <3>4
  <2>12. QED
    BY <2>8, <2>9, <2>10, <2>11
<1>14. Combined(ms, plan)
  BY <1>9, <1>11, <1>12, <1>13 DEF Combined
<1>15. QED
  BY <1>1, <1>14 DEF ms

-----------------------------------------------------------------------------
(* The call that is made is the one that should be.                        *)
RightCall(classes, plan, error) ==
  LET ms == {m \in ToSet(methods) : AppliesTo(m, classes)}
  IN  IF ms = {} THEN plan = << >> /\ error # "none"
      ELSE Comparable(ms) =>
             IF \E m \in ms : m.qualifier = "around" THEN OneAround(ms, plan)
             ELSE Combined(ms, plan)
MethodsOK == methods \in Seq(Methods)

LEMMA SortedRight ==
  ASSUME ClosOK, settled, RootsAreFixed, NEW ms, NEW n, Uniform(ms, n), Comparable(ms),
         NEW s, IsSeq(s), ToSet(s) = ms, Sorted(s)
  PROVE  Ranked(s)
<1>1. ASSUME NEW i \in 1..Len(s), NEW j \in 1..Len(s), i < j PROVE ~ MoreSpecific(s[j], s[i])
  <2>1. s[i] \in ms /\ s[j] \in ms
    BY Places
  <2>2. ~ method_more_specific(s[j], s[i])
    BY <1>1 DEF Sorted
  <2>3. QED
    BY <2>1, <2>2, ComparedRight
<1>2. QED
  BY <1>1 DEF Ranked

LEMMA DispatchRight ==
  ASSUME ClosOK, MethodsOK, settled, RootsAreFixed, NEW classes \in Arguments, Dispatch(classes)
  PROVE  RightCall(call'.classes, call'.plan, call'.error)
<1> DEFINE ms == {m \in ToSet(methods) : AppliesTo(m, classes)}
<1> PICK applicable : applicable = Applicable(classes)
  OBVIOUS
<1>1. IsSeq(methods) /\ ToSet(methods) \subseteq Methods
  <2>1. IsSeq(methods)
    BY OwnElements DEF MethodsOK
  <2>2. ToSet(methods) \subseteq Methods
    BY DEF MethodsOK, ToSet
  <2>3. QED
    BY <2>1, <2>2
<1>2. IsSeq(classes)
  BY AlphabetAssumption, OwnElements
<1>3. \A m \in ToSet(methods) : method_applicable(m, classes) <=> AppliesTo(m, classes)
  BY ListsAreAncestors DEF method_applicable, AppliesTo
<1>4. /\ IsSeq(applicable) /\ ToSet(applicable) = ms
      /\ \A x \in ms : Times(applicable, x) = Times(methods, x)
  <2> PICK W : W = {m \in ToSet(methods) : method_applicable(m, classes)}
    OBVIOUS
  <2>1. applicable = Keep(W, methods)
    BY DEF Applicable
  <2>2. /\ IsSeq(applicable) /\ ToSet(applicable) = ToSet(methods) \cap W
        /\ \A x : Times(applicable, x) = IF x \in W THEN Times(methods, x) ELSE 0
    BY <1>1, <2>1, TimesKept
  <2>3. W = ms
    BY <1>3
  <2>4. QED
    BY <2>2, <2>3
<1>5. Uniform(ms, Len(classes))
  <2>1. Len(classes) \in Nat
    BY <1>2, Places
  <2>2. ASSUME NEW m \in ms PROVE IsSeq(m.specs) /\ Len(m.specs) = Len(classes)
    <3>1. m \in Methods
      BY <1>1
    <3>2. IsSeq(m.specs)
      BY <3>1, AlphabetAssumption, OwnElements
    <3>3. QED
      BY <3>2 DEF AppliesTo
  <2> HIDE DEF ms
  <2>3. QED
    BY <2>1, <2>2 DEF Uniform
<1> HIDE DEF ms
<1>6. CASE applicable = << >>
  <2>1. ms = {}
    BY <1>4, <1>6, NothingIn
  <2>2. /\ call'.classes = classes /\ call'.plan = << >>
        /\ call'.error \in {"no methods defined", "no applicable method"}
    BY <1>6 DEF Dispatch, NoCall
  <2>3. QED
    BY <2>1, <2>2 DEF RightCall, ms
<1>7. CASE applicable # << >>
  <2> PICK sorted : sorted = sort_methods(applicable)
    OBVIOUS
  <2>1. ms # {} /\ methods # << >>
    <3>1. ms # {}
      BY <1>4, <1>7, NothingIn
    <3>2. ToSet(methods) # {}
      BY <3>1 DEF ms
    <3>3. QED
      BY <1>1, <3>1, <3>2, NothingIn
  <2>2. call'.classes = classes /\ call'.plan = PlanOf(sorted)
    <3> PICK plan : plan = PlanOf(sorted)
      OBVIOUS
    <3>1. \E n, e : call' = [classes |-> classes, plan |-> plan, ran |-> n, error |-> e]
      BY <1>7, <2>1 DEF Dispatch
    <3>2. QED
      BY <3>1
  <2>3. /\ IsSeq(sorted) /\ ToSet(sorted) = ms
        /\ \A x \in ms : Times(sorted, x) = Times(methods, x)
        /\ Orderly(ms) => Sorted(sorted)
    <3>1. /\ IsSeq(sorted) /\ ToSet(sorted) = ToSet(applicable)
          /\ \A x : Times(sorted, x) = Times(applicable, x)
          /\ Orderly(ToSet(applicable)) => Sorted(sorted)
      BY <1>4, SortKeeps
    <3>2. QED
      BY <1>4, <3>1
  <2>4. ASSUME Comparable(ms)
        PROVE  IF \E m \in ms : m.qualifier = "around" THEN OneAround(ms, PlanOf(sorted))
               ELSE Combined(ms, PlanOf(sorted))
    <3>1. Orderly(ms)
      BY <1>5, <2>4, ComparedOrderly
    <3>2. Ranked(sorted)
      BY <1>5, <2>3, <2>4, <3>1, SortedRight
    <3>3. CASE \E m \in ms : m.qualifier = "around"
      BY <2>3, <3>2, <3>3, AroundRight
    <3>4. CASE ~ \E m \in ms : m.qualifier = "around"
      <4>1. Combined(ToSet(sorted), PlanOf(sorted))
        BY <2>3, <3>2, <3>4, CombinedRight
      <4>2. QED
        BY <2>3, <3>4, <4>1
    <3>5. QED
      BY <3>3, <3>4
  <2>5. QED
    BY <2>1, <2>2, <2>4 DEF RightCall, ms
<1>8. QED
  BY <1>6, <1>7

(* What is right of a call stays so while the tables stay.                 *)
LEMMA RightStays ==
  ASSUME UNCHANGED <<parents, methods>>, NEW classes, NEW plan, NEW error
  PROVE  RightCall(classes, plan, error)' <=> RightCall(classes, plan, error)
<1>1. \A x : Ancestors(x)' = Ancestors(x)
  BY DEF Ancestors, Up
<1>2. \A m, c : AppliesTo(m, c)' <=> AppliesTo(m, c)
  BY <1>1 DEF AppliesTo
<1>3. \A a, b : MoreSpecific(a, b)' <=> MoreSpecific(a, b)
  BY <1>1 DEF MoreSpecific, Differ, Min
<1>4. \A ms : Comparable(ms)' <=> Comparable(ms)
  BY <1>3 DEF Comparable, Differ
<1>5. \A m, ms : Best(m, ms)' <=> Best(m, ms)
  BY <1>3 DEF Best
<1>6. \A ms : OneAround(ms, plan)' <=> OneAround(ms, plan)
  BY <1>5 DEF OneAround
<1>7. \A ms : Combined(ms, plan)' <=> Combined(ms, plan)
  BY <1>3, <1>5 DEF Combined
<1>8. {m \in ToSet(methods) : AppliesTo(m, classes)}' = {m \in ToSet(methods) : AppliesTo(m, classes)}
  BY <1>2
<1>9. QED
  BY <1>4, <1>6, <1>7, <1>8 DEF RightCall

LEMMA MethodsStay ==
  ASSUME RootsAreFixed, ClosOK, MethodsOK, MethodsRunInOrder, [Next]_vars
  PROVE  MethodsOK' /\ MethodsRunInOrder'
<1>1. MethodsRunInOrder <=>
        (settled /\ call # NoCall => RightCall(call.classes, call.plan, call.error))
  BY DEF MethodsRunInOrder, RightCall
<1>2. MethodsRunInOrder' <=>
        (settled' /\ call' # NoCall => RightCall(call.classes, call.plan, call.error)')
  BY DEF MethodsRunInOrder, RightCall, NoCall
<1>3. CASE call' = NoCall /\ methods' = methods
  BY <1>2, <1>3 DEF MethodsOK
<1>4. ASSUME NEW m \in Methods, RegisterMethod(m) PROVE MethodsOK' /\ MethodsRunInOrder'
  BY <1>2, <1>4 DEF MethodsOK, RegisterMethod
<1>5. ASSUME NEW c \in Classes, NEW supers \in SuperLists, RegisterClass(c, supers)
      PROVE  MethodsOK' /\ MethodsRunInOrder'
  BY <1>3, <1>5 DEF RegisterClass
<1>6. ASSUME NEW classes \in Arguments, Dispatch(classes) PROVE MethodsOK' /\ MethodsRunInOrder'
  <2>1. UNCHANGED <<cpl, methods, parents, settled>>
    BY <1>6 DEF Dispatch
  <2>2. MethodsOK'
    BY <2>1 DEF MethodsOK
  <2>3. ASSUME settled PROVE RightCall(call.classes, call.plan, call.error)'
    <3> PICK c, p, e : c = call'.classes /\ p = call'.plan /\ e = call'.error
      OBVIOUS
    <3>1. RightCall(c, p, e)
      BY <1>6, <2>3, DispatchRight
    <3>2. RightCall(c, p, e)'
      BY <2>1, <3>1, RightStays
    <3>3. QED
      BY <3>2 DEF RightCall
  <2>4. QED
    BY <1>2, <2>1, <2>2, <2>3
<1>7. CASE UNCHANGED vars
  <2>1. UNCHANGED <<cpl, methods, call, parents, settled>>
    BY <1>7 DEF vars
  <2>2. MethodsOK'
    BY <2>1 DEF MethodsOK
  <2>3. RightCall(call.classes, call.plan, call.error)'
          <=> RightCall(call.classes, call.plan, call.error)
    <3> PICK c, p, e : c = call.classes /\ p = call.plan /\ e = call.error
      OBVIOUS
    <3>1. RightCall(c, p, e)' <=> RightCall(c, p, e)
      BY <2>1, RightStays
    <3>2. RightCall(call.classes, call.plan, call.error)' <=> RightCall(c, p, e)'
      BY <2>1 DEF RightCall
    <3>3. QED
      BY <3>1, <3>2
  <2>4. QED
    BY <1>1, <1>2, <2>1, <2>2, <2>3
<1>8. QED
  BY <1>4, <1>5, <1>6, <1>7 DEF Next

(* A call of a generic function runs the standard combination of the       *)
(* methods that apply, in the order of their specificity and each as often *)
(* as it was registered, if these methods are Comparable: of any two, at   *)
(* the first argument where their specializers differ, one specializer is  *)
(* an ancestor of the other.  It holds while no class is defined after one *)
(* that inherits it.  This is what dispatch_gf does with its sort, its     *)
(* filters and the reversal of the after methods.  Of methods that cannot  *)
(* be compared nothing is said: there the order is alphabetical, and the   *)
(* sort, which compares neighbours only, may run another primary.          *)
THEOREM MethodsAreRight ==
  ASSUME RootsAreFixed
  PROVE  Spec => []MethodsRunInOrder
<1>1. Init => ClosOK /\ MethodsOK /\ MethodsRunInOrder
  <2>1. Init => MethodsOK /\ MethodsRunInOrder
    BY DEF Init, MethodsOK, MethodsRunInOrder
  <2>2. QED
    BY <2>1, ClosStarts
<1>2. ClosOK /\ MethodsOK /\ MethodsRunInOrder /\ [Next]_vars
        => (ClosOK /\ MethodsOK /\ MethodsRunInOrder)'
  BY ClosStays, MethodsStay
<1>3. QED
  BY <1>1, <1>2, PTL DEF Spec
=============================================================================
