--------------------------- MODULE MCChatDispatch ---------------------------
(* Small instances of ChatDispatch for TLC.                                *)
EXTENDS ChatDispatch, TLC
=============================================================================
