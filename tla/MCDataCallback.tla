--------------------------- MODULE MCDataCallback ---------------------------
(***************************************************************************)
(* DataCallback for TLC: buffers are model values, which the driver never  *)
(* compares or orders.                                                     *)
(***************************************************************************)
EXTENDS DataCallback, TLC

Symmetry == Permutations(Buffers)
=============================================================================
