-------------------------- MODULE MCDispatchOutbox --------------------------
(* Small instances of DispatchOutbox for TLC.                              *)
EXTENDS DispatchOutbox, TLC
HandlerSymmetry == Permutations(Handler)
=============================================================================
