------------------------------ MODULE Compiler ------------------------------
(***************************************************************************)
(* The compiler: the recursion that Compile leaves open.                   *)
(***************************************************************************)
RECURSIVE Code(_, _, _), Quasi(_, _, _), WellFormed(_), Fits(_, _)

Rules == INSTANCE Compile

Code(e, at, tail) == Rules!CodeRule(e, at, tail)
Quasi(e, depth, at) == Rules!QuasiRule(e, depth, at)
WellFormed(e) == Rules!WellFormedRule(e)
Fits(e, depth) == Rules!FitsRule(e, depth)

Chunk(e) == Rules!Chunk(e)
=============================================================================
