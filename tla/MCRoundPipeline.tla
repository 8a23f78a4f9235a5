--------------------------- MODULE MCRoundPipeline --------------------------
(* Small instances of RoundPipeline for TLC: every round of up to MaxSize  *)
(* assignments.                                                            *)
EXTENDS RoundPipeline
CONSTANT MaxSize
MCRounds ==
  UNION {[size : {n}, mode : [0 .. n - 1 -> Modes], synth : SUBSET (0 .. n - 1),
          leads : BOOLEAN, task : BOOLEAN, capable : BOOLEAN] : n \in 1 .. MaxSize}
=============================================================================
