--------------------------- MODULE MCCommandLease ---------------------------
(* Small instances of CommandLease for TLC.                                *)
EXTENDS CommandLease, TLC
=============================================================================
