------------------------- MODULE MCWorkspaceRunGate -------------------------
(* Small instances of WorkspaceRunGate for TLC.                            *)
EXTENDS WorkspaceRunGate, TLC

CONSTANTS r1, r2, r3, r4, r5, p1, p2, p3

\* Three daemons on a computer, one with a queue of three runs.
QueueAndTwo == r1 :> p1 @@ r2 :> p1 @@ r3 :> p1 @@ r4 :> p2 @@ r5 :> p3

\* Three daemons with a run each.
OneEach == r1 :> p1 @@ r4 :> p2 @@ r5 :> p3

\* SerializedWrites without the takeover race (workspace-run-gate.ts:103): the code
\* breaks it.
NeverTogether == \A r, s \in Runs : At(r, "work") /\ At(s, "work") => r = s

\* EveryRunLeaves without the lock that its process fails to remove (:195): the code
\* breaks it.
NobodyStuck == \A r \in Runs : pc[r] = "queued" ~> pc[r] \in Gone
=============================================================================
