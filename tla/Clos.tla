-------------------------------- MODULE Clos --------------------------------
(***************************************************************************)
(* The object system: classes and the dispatch of a generic function       *)
(* (src/src/builtins/clos.rs).  The registries are thread-local tables;    *)
(* one generic function stands for all of them, since a call looks at the  *)
(* methods of its own only.  A method is [specs, qualifier]; what its body *)
(* does is left out, but that it may fail.                                 *)
(***************************************************************************)
EXTENDS Integers, Sequences, SequencesExt, FiniteSets, FiniteSetsExt

CONSTANTS Classes,      \* the names of classes a program defines
          Alphabet,     \* all class names, in alphabetical order
          SuperLists,   \* the lists of direct superclasses a definition may have
          Methods,      \* the methods a program may define
          Arguments,    \* the classes of the arguments of its calls
          MaxMethods

ASSUME AlphabetAssumption ==
  /\ {"t", "standard-object"} \cup Classes \subseteq ToSet(Alphabet)
  /\ \A supers \in SuperLists : supers \in Seq(ToSet(Alphabet))
  /\ \A m \in Methods : m.specs \in Seq(ToSet(Alphabet))
  /\ \A classes \in Arguments : classes \in Seq(ToSet(Alphabet))

VARIABLES cpl,          \* CLASS_CPL
          methods,      \* GF_METHODS of the generic function
          call,         \* the call just made: its plan, and how much of it has run
          parents,      \* history: the direct superclasses of each class, as last defined
          settled       \* history: no class has been defined after one that inherits it
vars == <<cpl, methods, call, parents, settled>>

NoCall == [classes |-> << >>, plan |-> << >>, ran |-> 0, error |-> "none"]

Init ==
  /\ cpl = << >> /\ methods = << >> /\ call = NoCall
  /\ parents = << >> /\ settled = TRUE

-----------------------------------------------------------------------------
(* Classes.                                                                *)
get_cpl(class) == IF class \in DOMAIN cpl THEN cpl[class] ELSE <<class, "t">>
is_subtype(child, parent) == child = parent \/ parent = "t" \/ parent \in ToSet(get_cpl(child))

Extend(all, class) == IF class \in ToSet(all) THEN all ELSE Append(all, class)
InheritParentsOnly(all, super) == Extend(all, super)       \* mutant: no grandparents
Inherit(all, super) ==
  IF super \in ToSet(all) THEN all
  ELSE FoldLeft(Extend, Append(all, super), get_cpl(super))
ComputeCpl(class, supers) ==
  FoldLeft(Extend, FoldLeft(Inherit, <<class>>, supers), <<"standard-object", "t">>)

Mentions(class) == \E c \in DOMAIN cpl \ {class} : class \in ToSet(cpl[c])
Put(table, class, v) ==
  [c \in DOMAIN table \cup {class} |-> IF c = class THEN v ELSE table[c]]
RegisterClass(class, supers) ==
  /\ cpl' = Put(cpl, class, ComputeCpl(class, supers))
  /\ parents' = Put(parents, class, ToSet(supers))
  /\ settled' = (settled /\ ~ Mentions(class))
  /\ call' = NoCall
  /\ UNCHANGED methods

-----------------------------------------------------------------------------
(* Methods: registering one always adds it.                                *)
RegisterMethod(m) ==
  /\ Len(methods) < MaxMethods
  /\ methods' = Append(methods, m)
  /\ call' = NoCall
  /\ UNCHANGED <<cpl, parents, settled>>

method_applicable(m, classes) ==
  /\ Len(m.specs) = Len(classes)
  /\ \A k \in DOMAIN classes : is_subtype(classes[k], m.specs[k])

Place(class) == CHOOSE k \in DOMAIN Alphabet : Alphabet[k] = class
more_specificAt(sa, sb) ==
  CASE sb = "t" -> TRUE
    [] sa = "t" -> FALSE
    [] OTHER -> is_subtype(sa, sb) \/ (~ is_subtype(sb, sa) /\ Place(sa) < Place(sb))
method_more_specific(a, b) ==
  LET differ == {k \in 1..Min({Len(a.specs), Len(b.specs)}) : a.specs[k] # b.specs[k]}
  IN  differ # {} /\ more_specificAt(a.specs[Min(differ)], b.specs[Min(differ)])

(* The insertion sort of the code: a method moves down past each one that  *)
(* it is more specific than, and stops at the first that it is not.        *)
InsertOnce(sorted, m) ==                    \* mutant: it moves down once at most
  LET n == Len(sorted)
  IN  InsertAt(sorted, IF n > 0 /\ method_more_specific(m, sorted[n]) THEN n ELSE n + 1, m)
Insert(sorted, m) ==
  InsertAt(sorted, Max({0} \cup {k \in DOMAIN sorted : ~ method_more_specific(m, sorted[k])}) + 1, m)
sort_methods(ms) == FoldLeft(Insert, << >>, ms)

Keep(wanted, ms) ==                         \* those among ms, in their order
  FoldLeft(LAMBDA kept, m : IF m \in wanted THEN Append(kept, m) ELSE kept, << >>, ms)
Qualified(ms, qualifier) == Keep({m \in ToSet(ms) : m.qualifier = qualifier}, ms)
First(ms) == SubSeq(ms, 1, Min({1, Len(ms)}))
PlanForward(sorted) ==                      \* mutant: the first after method runs first
  IF Qualified(sorted, "around") # << >> THEN First(Qualified(sorted, "around"))
  ELSE Qualified(sorted, "before") \o First(Qualified(sorted, "primary"))
       \o Qualified(sorted, "after")
PlanOf(sorted) ==                           \* the methods to run, in order
  IF Qualified(sorted, "around") # << >> THEN First(Qualified(sorted, "around"))
  ELSE Qualified(sorted, "before") \o First(Qualified(sorted, "primary"))
       \o Reverse(Qualified(sorted, "after"))
Applicable(classes) == Keep({m \in ToSet(methods) : method_applicable(m, classes)}, methods)

(* A call runs the plan, or as much of it as comes before a method fails.  *)
Dispatch(classes) ==
  LET applicable == Applicable(classes)
      plan == PlanOf(sort_methods(applicable))
      Refuse(error) == [NoCall EXCEPT !.classes = classes, !.error = error]
  IN  /\ IF methods = << >> THEN call' = Refuse("no methods defined")
         ELSE IF applicable = << >> THEN call' = Refuse("no applicable method")
         ELSE \E n \in 0..Len(plan) :
                call' = [classes |-> classes, plan |-> plan, ran |-> n,
                         error |-> IF n < Len(plan) THEN "method failed" ELSE "none"]
      /\ UNCHANGED <<cpl, methods, parents, settled>>

Next ==
  \/ \E c \in Classes, supers \in SuperLists : RegisterClass(c, supers)
  \/ \E m \in Methods : RegisterMethod(m)
  \/ \E classes \in Arguments : Dispatch(classes)
Spec == Init /\ [][Next]_vars

-----------------------------------------------------------------------------
(* The ancestors a class has by the definitions in force.                  *)
Up(S) == S \cup UNION {parents[c] : c \in S \cap DOMAIN parents}
Ancestors(class) ==
  LET last == Cardinality(DOMAIN parents)
      up[n \in 0..last] == IF n = 0 THEN {class} ELSE Up(up[n - 1])
  IN  up[last] \cup {"t"}
        \cup (IF class \in DOMAIN parents THEN {"standard-object"} ELSE {})

(* The code appends standard-object and t to every list and never looks at *)
(* a definition of theirs: programs are held to leave the two alone.       *)
RootsAreFixed == {"t", "standard-object"} \cap Classes = {}

(* subtypep answers by lists that were merged once, when each class was    *)
(* defined; while superclasses come before their subclasses it tells       *)
(* exactly the ancestors, through any number of generations.               *)
SubtypesAreAncestors ==
  settled => \A c \in Classes, p \in ToSet(Alphabet) : is_subtype(c, p) <=> p \in Ancestors(c)

-----------------------------------------------------------------------------
(* Which methods a call should run.  Of two methods the first argument on  *)
(* which they differ decides.                                              *)
AppliesTo(m, classes) ==
  Len(m.specs) = Len(classes) /\ \A k \in DOMAIN classes : m.specs[k] \in Ancestors(classes[k])
Differ(a, b) == {k \in DOMAIN a.specs : a.specs[k] # b.specs[k]}
MoreSpecific(a, b) ==
  Differ(a, b) # {} /\ LET k == Min(Differ(a, b)) IN b.specs[k] \in Ancestors(a.specs[k])
Comparable(ms) ==
  \A a, b \in ms : Differ(a, b) # {} => MoreSpecific(a, b) # MoreSpecific(b, a)

Times(ms, m) == Cardinality({k \in DOMAIN ms : ms[k] = m})
Best(m, ms) == \A o \in ms : o.qualifier = m.qualifier => ~ MoreSpecific(o, m)
Rank(m) == CASE m.qualifier = "before" -> 1 [] m.qualifier = "primary" -> 2 [] OTHER -> 3
OneAround(ms, plan) == Len(plan) = 1 /\ plan[1] \in ms /\ plan[1].qualifier = "around" /\ Best(plan[1], ms)
Combined(ms, plan) ==
  /\ ToSet(plan) \subseteq ms
  /\ \A m \in ms : m.qualifier \in {"before", "after"} => Times(plan, m) = Times(methods, m)
  /\ LET primaries == {m \in ms : m.qualifier = "primary"}
         chosen == Qualified(plan, "primary")
     IN  Len(chosen) = (IF primaries = {} THEN 0 ELSE 1) /\ \A k \in DOMAIN chosen : Best(chosen[k], ms)
  /\ \A j, k \in DOMAIN plan : j < k =>
       /\ Rank(plan[j]) <= Rank(plan[k])
       /\ Rank(plan[j]) = 1 /\ Rank(plan[k]) = 1 => ~ MoreSpecific(plan[k], plan[j])
       /\ Rank(plan[j]) = 3 => ~ MoreSpecific(plan[j], plan[k])

(* A call runs the standard combination of the methods that apply: the     *)
(* most specific around method alone, or the before methods, the most      *)
(* specific primary and the after methods, the last ones in reverse, each  *)
(* as often as it was registered.  Calls whose methods cannot be compared  *)
(* are left out: for them the sort has no order to keep.                   *)
MethodsRunInOrder ==
  settled /\ call # NoCall =>
    LET ms == {m \in ToSet(methods) : AppliesTo(m, call.classes)}
    IN  IF ms = {} THEN call.plan = << >> /\ call.error # "none"
        ELSE Comparable(ms) =>
               IF \E m \in ms : m.qualifier = "around" THEN OneAround(ms, call.plan)
               ELSE Combined(ms, call.plan)
=============================================================================
