--------------------------- MODULE MCIsotonicToken ---------------------------
(***************************************************************************)
(* A small instance of IsotonicToken for TLC.                              *)
(***************************************************************************)
EXTENDS IsotonicToken, TLC

\* The holders other than the controller are interchangeable.
HolderSymmetry == Permutations(Accounts \ {Controller})
=============================================================================
