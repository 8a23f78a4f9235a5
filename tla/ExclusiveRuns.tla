---------------------------- MODULE ExclusiveRuns ----------------------------
(***************************************************************************)
(* What WorkspaceRunGate promises ("Serializes writes that target the same *)
(* physical project workspace"): of all the runs that want one workspace,  *)
(* in whatever daemon, one works at a time; the runs of one daemon work in *)
(* the order in which they came; and a run that was cancelled before its   *)
(* turn never works.                                                       *)
(*                                                                         *)
(* The promise has a hole, and says where: once a run is gone, one that    *)
(* waits in another daemon may take its place from under a third, and what *)
(* has lost its place may leave with that of another.  Two runs work at a  *)
(* time only if one of them has lost its place.                            *)
(***************************************************************************)
CONSTANTS
  Runs,      \* runs that want the workspace
  ProcessOf  \* the daemon process of each

VARIABLES
  stage,      \* where each run is
  before,     \* the runs of its process that came before it and had not left
  cancelled,  \* the runs that were told to stop
  lost        \* the runs that have lost their place

abstract == <<stage, before, cancelled, lost>>

Present(r) == stage[r] \in {"waiting", "working", "leaving"}

Init ==
  /\ stage = [r \in Runs |-> "idle"]
  /\ before = [r \in Runs |-> {}]
  /\ cancelled = {}
  /\ lost = {}

Arrive(r) ==
  /\ stage[r] = "idle"
  /\ stage' = [stage EXCEPT ![r] = "waiting"]
  /\ before' = [before EXCEPT ![r] =
       {s \in Runs : ProcessOf[s] = ProcessOf[r] /\ Present(s)}]
  /\ UNCHANGED <<cancelled, lost>>

Cancel(r) ==
  /\ Present(r)
  /\ cancelled' = cancelled \cup {r}
  /\ UNCHANGED <<stage, before, lost>>

Enter(r) ==
  /\ stage[r] = "waiting" /\ r \notin cancelled
  /\ \A s \in before[r] : stage[s] = "over"
  /\ \A s \in Runs : stage[s] = "working" => {r, s} \cap lost # {}
  /\ stage' = [stage EXCEPT ![r] = "working"]
  /\ UNCHANGED <<before, cancelled, lost>>

\* A run of another process than r loses its place.
Lose(s, r) ==
  /\ Present(s) /\ ProcessOf[s] # ProcessOf[r]
  /\ lost' = lost \cup {s}

\* A run gives up while it waits, or has done its work, and leaves at its leisure.
Leave(r) ==
  /\ \/ stage[r] \in {"waiting", "working"} /\ stage' = [stage EXCEPT ![r] = "leaving"]
     \/ stage[r] \in {"waiting", "leaving"} /\ stage' = [stage EXCEPT ![r] = "over"]
  /\ \/ UNCHANGED lost
     \/ r \in lost /\ \E s \in Runs : Lose(s, r)
  /\ UNCHANGED <<before, cancelled>>

\* A run that waits takes the place of one that is gone, too late.
Usurp(r) ==
  /\ stage[r] = "waiting" /\ \A s \in before[r] : stage[s] = "over"
  /\ \E t \in Runs : stage[t] = "over"
  /\ \E s \in Runs : Lose(s, r)
  /\ UNCHANGED <<stage, before, cancelled>>

\* A process dies, and its runs with it.
Perish(p) ==
  /\ stage' = [r \in Runs |-> IF ProcessOf[r] = p /\ Present(r) THEN "over" ELSE stage[r]]
  /\ UNCHANGED <<before, cancelled, lost>>

Next ==
  \/ \E r \in Runs : Arrive(r) \/ Cancel(r) \/ Enter(r) \/ Leave(r) \/ Usurp(r)
  \/ \E r \in Runs : Perish(ProcessOf[r])

Spec == Init /\ [][Next]_abstract

=============================================================================
