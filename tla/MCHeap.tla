------------------------------- MODULE MCHeap -------------------------------
(***************************************************************************)
(* Small instances of Heap for TLC; MCHeap.cfg gives the constants values. *)
(***************************************************************************)
EXTENDS Heap
=============================================================================
