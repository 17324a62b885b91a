------------------------------ MODULE EnvStore ------------------------------
(***************************************************************************)
(* What the garbage-collected heap promises to its client, the evaluator:  *)
(* a store of frames named by handles.  A frame the client can still get   *)
(* at is never taken away, and no handle ever names two frames.  Frames    *)
(* out of reach may disappear at any moment, one at a time.                *)
(***************************************************************************)
EXTENDS EnvGraph

CONSTANT Handles     \* everything that can name a frame

VARIABLES
  store,      \* the frames that exist
  held,       \* the handles the client has in its hands
  used        \* every handle ever given out

storeVars == <<store, held, used>>

StoreInit ==
  /\ store = [h \in {} |-> EmptyFrame(NoHandle)]
  /\ held = {}
  /\ used = {}

New(h, p) ==
  /\ h \notin used
  /\ p \in held \cup {NoHandle}
  /\ store' = [g \in DOMAIN store \cup {h} |->
                 IF g = h THEN EmptyFrame(p) ELSE store[g]]
  /\ held' = held \cup {h}
  /\ used' = used \cup {h}

(* The client writes a binding into a frame in the scope of one it holds.  *)
Write(h, g, x, v) ==
  /\ h \in held
  /\ g \in Scope(store, h)
  /\ v \subseteq held
  /\ store' = [store EXCEPT ![g] = Bind(@, x, v)]
  /\ UNCHANGED <<held, used>>

(* The client picks up handles from a frame in reach.                      *)
PickUp(S) ==
  /\ S \subseteq Reach(store, held)
  /\ held' = held \cup S
  /\ UNCHANGED <<store, used>>

Drop(h) ==
  /\ held' = held \ {h}
  /\ UNCHANGED <<store, used>>

Reclaim(h) ==
  /\ h \in DOMAIN store \ Reach(store, held)
  /\ store' = [g \in DOMAIN store \ {h} |-> store[g]]
  /\ UNCHANGED <<held, used>>

StoreNext ==
  \/ \E h \in Handles, p \in held \cup {NoHandle} : New(h, p)
  \/ \E h \in held, g \in DOMAIN store, x \in Names, v \in SUBSET held :
        Write(h, g, x, v)
  \/ \E S \in SUBSET Reach(store, held) : PickUp(S)
  \/ \E h \in held : Drop(h)
  \/ \E h \in DOMAIN store : Reclaim(h)

StoreSpec == StoreInit /\ [][StoreNext]_storeVars
=============================================================================
