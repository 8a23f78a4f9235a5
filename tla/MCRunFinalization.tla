------------------------- MODULE MCRunFinalization --------------------------
(* Small instances of RunFinalization for TLC.                             *)
EXTENDS RunFinalization, TLC
HandlerSymmetry == Permutations(Handler)
=============================================================================
