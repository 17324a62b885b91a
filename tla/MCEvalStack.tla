---------------------------- MODULE MCEvalStack -----------------------------
(***************************************************************************)
(* Small instances of EvalStack, and what a comment of the repository says *)
(* of the root sets.                                                       *)
(***************************************************************************)
EXTENDS EvalStack

(* eval.rs:413-415: the frame a let is filling is reachable from the Rust  *)
(* stack, so it is safe across any collection inside the bindings.         *)
LetFrameIsSafe == \A k \in 1..Depth : stack[k].inner # NoHandle => stack[k].inner \in Live
=============================================================================
