------------------------------ MODULE EnvGraph ------------------------------
(***************************************************************************)
(* The graph of environment frames.  A frame has a parent and a map from   *)
(* bound names to values; all that matters of a value is the set of        *)
(* environment handles captured by the lambdas inside it (none for an      *)
(* atom).  A store is a function from handles to frames.  These operators  *)
(* hold no state; EnvStore, Heap and EvalStack share them.                 *)
(***************************************************************************)

CONSTANTS
  Names,          \* variable names
  Unbound,        \* no entry in a frame's vars
  NoHandle        \* Option::<GcHandle>::None

BoundNames(frame) == {x \in Names : frame.vars[x] # Unbound}

(* What one frame refers to: its parent and every captured environment     *)
(* that collect_lambda_envs finds in its bindings.                         *)
Refs(frame) ==
  ({frame.parent} \ {NoHandle})
     \cup UNION {frame.vars[x] : x \in BoundNames(frame)}

(* A new frame, and a frame with x (re)bound to v.                         *)
EmptyFrame(p) == [parent |-> p, vars |-> [x \in Names |-> Unbound]]

Bind(frame, x, v) == [frame EXCEPT !.vars[x] = v]

(* S is closed under the references that lead to frames of the store.      *)
Closed(store, S) == \A h \in S : Refs(store[h]) \cap DOMAIN store \subseteq S

(* Reachability: the smallest closed set of frames that contains R.        *)
Reach(store, R) ==
  {h \in DOMAIN store :
     \A S \in SUBSET DOMAIN store :
        (R \cap DOMAIN store \subseteq S /\ Closed(store, S)) => h \in S}

(* The frames that a lookup starting at h walks through, h included.       *)
Scope(store, h) ==
  {g \in DOMAIN store :
     \A S \in SUBSET DOMAIN store :
        (/\ {h} \cap DOMAIN store \subseteq S
         /\ \A f \in S : {store[f].parent} \cap DOMAIN store \subseteq S)
           => g \in S}

Binders(store, h, x) == {g \in Scope(store, h) : x \in BoundNames(store[g])}

(* Where a lookup of x from h ends: the innermost frame of h's scope that  *)
(* binds x.  A singleton, or empty if no frame does.                       *)
Resolve(store, h, x) ==
  {b \in Binders(store, h, x) : Binders(store, h, x) \subseteq Scope(store, b)}
=============================================================================
