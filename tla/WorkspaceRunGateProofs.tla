----------------------- MODULE WorkspaceRunGateProofs -----------------------
(* Proofs about WorkspaceRunGate, for every set of runs and processes.     *)
EXTENDS WorkspaceRunGate, TLAPS

LEMMA InitIndInv ==
  ASSUME Init
  PROVE  TypeOK /\ IndInv
  BY ProcessAssumption
     DEF Init, TypeOK, IndInv, InTurn, LockOwned, Judged, NoLock, Active, Turned, Holding,
         Gone

-----------------------------------------------------------------------------
LEMMA StepTypeOK ==
  ASSUME TypeOK, [Next]_vars
  PROVE  TypeOK'
  <1> USE DEF TypeOK, Goto, At, Active, Turned, Holding
  <1>1. ASSUME NEW r \in Runs, Arrive(r) PROVE TypeOK'
    BY <1>1 DEF Arrive, Unreleased
  <1>2. ASSUME NEW r \in Runs, Abort(r) PROVE TypeOK'
    BY <1>2 DEF Abort
  <1>3. ASSUME NEW r \in Runs, GetTurn(r) PROVE TypeOK'
    BY <1>3 DEF GetTurn
  <1>4. ASSUME NEW r \in Runs, GiveUp(r) PROVE TypeOK'
    BY <1>4 DEF GiveUp
  <1>5. ASSUME NEW r \in Runs, Open(r) PROVE TypeOK'
    BY <1>5 DEF Open
  <1>6. ASSUME NEW r \in Runs, Write(r) PROVE TypeOK'
    BY <1>6 DEF Write
  <1>7. ASSUME NEW r \in Runs, WriteFails(r) PROVE TypeOK'
    BY <1>7 DEF WriteFails
  <1>8. ASSUME NEW r \in Runs, Discard(r) PROVE TypeOK'
    BY <1>8 DEF Discard, Unlinked
  <1>9. ASSUME NEW r \in Runs, Read(r) PROVE TypeOK'
    BY <1>9 DEF Read, NoLock
  <1>10. ASSUME NEW r \in Runs, Judge(r) PROVE TypeOK'
    BY <1>10 DEF Judge, Stale, NoLock
  <1>11. ASSUME NEW r \in Runs, Remove(r) PROVE TypeOK'
    BY <1>11 DEF Remove, Unlinked
  <1>12. ASSUME NEW r \in Runs, Enter(r) PROVE TypeOK'
    BY <1>12 DEF Enter
  <1>13. ASSUME NEW r \in Runs, EndWork(r) PROVE TypeOK'
    BY <1>13 DEF EndWork
  <1>14. ASSUME NEW r \in Runs, ReadToken(r) PROVE TypeOK'
    BY <1>14 DEF ReadToken
  <1>15. ASSUME NEW r \in Runs, Unlink(r) PROVE TypeOK'
    BY <1>15 DEF Unlink, Unlinked
  <1>16. ASSUME NEW r \in Runs, ReleaseFails(r) PROVE TypeOK'
    BY <1>16 DEF ReleaseFails
  <1>17. ASSUME NEW p \in Processes, Die(p) PROVE TypeOK'
    BY <1>17 DEF Die
  <1>18. CASE GrowOld
    BY <1>18 DEF GrowOld, NoLock
  <1>19. CASE UNCHANGED vars
    BY <1>19 DEF vars
  <1> QED
    BY <1>1, <1>2, <1>3, <1>4, <1>5, <1>6, <1>7, <1>8, <1>9, <1>10, <1>11, <1>12,
       <1>13, <1>14, <1>15, <1>16, <1>17, <1>18, <1>19 DEF Next, Step

\* Every state of the gate is well formed, whatever dies (workspace-run-gate.ts).
THEOREM Typing == Spec => []TypeOK
  <1>1. Init => TypeOK
    BY InitIndInv
  <1>2. TypeOK /\ [Next]_vars => TypeOK'
    BY StepTypeOK
  <1> QED
    BY <1>1, <1>2, PTL DEF Spec

-----------------------------------------------------------------------------
(* The promise chain.                                                      *)

\* A run that moves within the gate once its turn has come, or leaves it, disturbs
\* nobody's turn.
LEMMA MoveInTurn ==
  ASSUME TypeOK, InTurn, NEW r \in Runs, NEW l \in Turned \cup {"over"},
         pc[r] \in Active, pc' = [pc EXCEPT ![r] = l],
         l # "over" => \A s \in ahead[r] : pc[s] = "over",
         UNCHANGED <<ahead, alive>>
  PROVE  InTurn'
  BY DEF InTurn, TypeOK, Active, Turned, Holding, Live

LEMMA ArriveInTurn ==
  ASSUME TypeOK, InTurn, NEW r \in Runs, Arrive(r)
  PROVE  InTurn'
  BY DEF Arrive, InTurn, TypeOK, Unreleased, Goto, At, Active, Turned, Holding, Live

LEMMA DieInTurn ==
  ASSUME TypeOK, InTurn, NEW p \in Processes, Die(p)
  PROVE  InTurn'
  BY ProcessAssumption DEF Die, InTurn, TypeOK, Active, Turned, Holding, Live

LEMMA StepInTurn ==
  ASSUME TypeOK, InTurn, NEW r \in Runs, Step(r)
  PROVE  InTurn'
  <1> USE DEF Goto, At, Active, Turned, Holding
  <1>1. CASE GetTurn(r)
    BY <1>1, MoveInTurn DEF GetTurn, Released
  <1>2. CASE GiveUp(r)
    BY <1>2, MoveInTurn DEF GiveUp
  <1>3. pc[r] \in Turned => \A s \in ahead[r] : pc[s] = "over"
    BY DEF InTurn, TypeOK
  <1>4. CASE Open(r)
    BY <1>3, <1>4, MoveInTurn DEF Open
  <1>5. CASE Write(r)
    BY <1>3, <1>5, MoveInTurn DEF Write
  <1>6. CASE WriteFails(r)
    BY <1>3, <1>6, MoveInTurn DEF WriteFails
  <1>7. CASE Discard(r)
    BY <1>3, <1>7, MoveInTurn DEF Discard
  <1>8. CASE Read(r)
    BY <1>3, <1>8, MoveInTurn DEF Read
  <1>9. CASE Judge(r)
    <2>1. PICK l \in {"remove", "open"} : pc' = [pc EXCEPT ![r] = l]
      BY <1>9 DEF Judge
    <2> QED
      BY <1>3, <1>9, <2>1, MoveInTurn DEF Judge
  <1>10. CASE Remove(r)
    BY <1>3, <1>10, MoveInTurn DEF Remove
  <1>11. CASE Enter(r)
    BY <1>3, <1>11, MoveInTurn DEF Enter
  <1>12. CASE EndWork(r)
    BY <1>3, <1>12, MoveInTurn DEF EndWork
  <1>13. CASE ReadToken(r)
    BY <1>3, <1>13, MoveInTurn DEF ReadToken
  <1>14. CASE Unlink(r)
    BY <1>3, <1>14, MoveInTurn DEF Unlink
  <1>15. CASE ReleaseFails(r)
    BY <1>3, <1>15, MoveInTurn DEF ReleaseFails
  <1> QED
    BY <1>1, <1>2, <1>4, <1>5, <1>6, <1>7, <1>8, <1>9, <1>10, <1>11, <1>12, <1>13,
       <1>14, <1>15 DEF Step

\* In one daemon, the runs take turns in the order in which they came and one at a
\* time, whatever happens to the lock file: the promise chain of WorkspaceRunGate.run.
THEOREM Turns == Spec => []InTurn
  <1>1. Init => InTurn
    BY InitIndInv DEF IndInv
  <1>2. TypeOK /\ InTurn /\ [Next]_vars => InTurn'
    <2> SUFFICES ASSUME TypeOK, InTurn, [Next]_vars PROVE InTurn'
      OBVIOUS
    <2>1. ASSUME NEW r \in Runs, Abort(r) PROVE InTurn'
      BY <2>1 DEF Abort, InTurn, Live
    <2>2. CASE GrowOld
      BY <2>2 DEF GrowOld, InTurn, Live
    <2>3. CASE UNCHANGED vars
      BY <2>3 DEF vars, InTurn, Live
    <2> QED
      BY <2>1, <2>2, <2>3, ArriveInTurn, DieInTurn, StepInTurn DEF Next
  <1> QED
    BY <1>1, <1>2, Typing, PTL DEF Spec

-----------------------------------------------------------------------------
(* The lock file.                                                          *)

\* Two runs of a process are never past their turns together.
LEMMA OneTurned ==
  ASSUME TypeOK, InTurn, NEW r \in Runs, NEW s \in Runs, ProcessOf[r] = ProcessOf[s],
         pc[r] \in Turned, pc[s] \in Turned
  PROVE  r = s
  BY DEF TypeOK, InTurn, Active, Turned, Holding

\* A run that holds the lock is neither over nor dead.
LEMMA Disjoint ==
  ASSUME TypeOK, NEW r \in Runs, pc[r] \in Holding
  PROVE  pc[r] \notin Gone
  BY DEF Holding, Gone

\* The holder of the file that is removed is robbed, unless it removes its own or has
\* left it: nobody else loses the file unnoticed.
LEMMA UnlinkedOwned ==
  ASSUME TypeOK, LockOwned, NEW r \in Runs, NEW wrongly \in BOOLEAN, Unlinked(wrongly),
         NEW l \in {"open", "over"}, pc' = [pc EXCEPT ![r] = l],
         ~wrongly => \A s \in Runs : lock.maker = s /\ pc[s] \in Holding => s = r
  PROVE  LockOwned'
  <1>1. \A s \in Runs : pc'[s] \in Holding => s # r /\ pc[s] \in Holding
    BY DEF TypeOK, Holding
  <1>2. \A s \in Runs : pc[s] \in Holding /\ s # r => s \in robbed'
    <2> SUFFICES ASSUME NEW s \in Runs, pc[s] \in Holding, s # r PROVE s \in robbed'
      OBVIOUS
    <2>1. s \in robbed \/ lock.maker = s
      BY DEF LockOwned, Mine, Empty, Holding
    <2> QED
      BY <2>1 DEF Unlinked
  <1>3. lock' = NoLock
    BY DEF Unlinked
  <1> QED
    BY <1>1, <1>2, <1>3, ProcessAssumption DEF LockOwned, NoLock, Holding

LEMMA StepLockOwned ==
  ASSUME TypeOK, IndInv, NEW r \in Runs, Step(r)
  PROVE  LockOwned'
  <1> USE DEF Goto, At
  <1>0. LockOwned
    BY DEF IndInv
  <1>1. ASSUME NEW l \in {"open", "check", "judge", "remove", "over"},
               pc[r] \notin Holding \cup Gone, pc' = [pc EXCEPT ![r] = l],
               UNCHANGED <<lock, robbed>>
        PROVE  LockOwned'
    BY <1>0, <1>1 DEF LockOwned, TypeOK, Holding, Gone, Mine, Empty
  <1>2. ASSUME NEW l \in {"discard", "work", "release", "unlink", "over"},
               pc[r] \in Holding, l = "discard" <=> pc[r] = "write",
               pc[r] # "discard" \/ l = "over",
               pc' = [pc EXCEPT ![r] = l], UNCHANGED <<lock, robbed>>
        PROVE  LockOwned'
    BY <1>0, <1>2 DEF LockOwned, TypeOK, Holding, Gone, Mine, Empty
  <1>3. CASE GetTurn(r) \/ GiveUp(r) \/ Read(r)
    BY <1>1, <1>3 DEF GetTurn, GiveUp, Read, Holding, Gone
  <1>4. CASE Judge(r)
    <2>1. PICK l \in {"remove", "open"} : pc' = [pc EXCEPT ![r] = l]
      BY <1>4 DEF Judge
    <2> QED
      BY <1>1, <1>4, <2>1 DEF Judge, Holding, Gone
  <1>5. CASE Open(r)
    BY <1>0, <1>5, ProcessAssumption
       DEF Open, LockOwned, TypeOK, Holding, Gone, Mine, Empty, NoLock
  <1>6. CASE Write(r)
    BY <1>0, <1>6 DEF Write, LockOwned, TypeOK, Holding, Gone, Mine, Empty
  <1>7. CASE WriteFails(r) \/ EndWork(r) \/ ReleaseFails(r)
    BY <1>2, <1>7 DEF WriteFails, EndWork, ReleaseFails, Holding
  <1>8. CASE Enter(r)
    <2>1. PICK l \in {"release", "work"} : pc' = [pc EXCEPT ![r] = l]
      BY <1>8 DEF Enter
    <2> QED
      BY <1>2, <1>8, <2>1 DEF Enter, Holding
  <1>9. CASE ReadToken(r)
    <2>1. PICK l \in {"unlink", "over"} : pc' = [pc EXCEPT ![r] = l]
      BY <1>9 DEF ReadToken
    <2> QED
      BY <1>2, <1>9, <2>1 DEF ReadToken, Holding
  <1>10. pc[r] \in {"discard", "unlink"} /\ r \notin robbed => lock.maker = r
    BY <1>0 DEF LockOwned, Mine, Empty, Holding
  <1>11. ASSUME pc[r] \in {"discard", "unlink"}, Unlinked(r \in robbed),
                pc' = [pc EXCEPT ![r] = "over"]
         PROVE  LockOwned'
    <2>1. CASE r \in robbed
      <3>1. Unlinked(TRUE)
        BY <1>11, <2>1 DEF Unlinked
      <3> QED
        BY <1>0, <1>11, <3>1, UnlinkedOwned
    <2>2. CASE r \notin robbed
      <3>1. Unlinked(FALSE)
        BY <1>11, <2>2 DEF Unlinked
      <3> QED
        BY <1>0, <1>10, <1>11, <2>2, <3>1, UnlinkedOwned
    <2> QED
      BY <2>1, <2>2
  <1>12. CASE Unlink(r)
    BY <1>11, <1>12 DEF Unlink
  <1>13. CASE Discard(r)
    <2>1. CASE Unlinked(r \in robbed)
      BY <1>11, <1>13, <2>1 DEF Discard
    <2>2. CASE UNCHANGED <<lock, robbed>>
      BY <1>2, <1>13, <2>2 DEF Discard, Holding
    <2> QED
      BY <1>13, <2>1, <2>2 DEF Discard
  <1>14. CASE Remove(r)
    <2>1. seen[r] \in Runs /\ pc[seen[r]] \in Gone
      BY <1>14 DEF Remove, IndInv, Judged
    <2>2. lock.maker = seen[r] => \A s \in Runs : lock.maker = s => pc[s] \notin Holding
      BY <2>1, Disjoint
    <2> QED
      BY <1>0, <1>14, <2>2, UnlinkedOwned DEF Remove
  <1> QED
    BY <1>3, <1>4, <1>5, <1>6, <1>7, <1>8, <1>9, <1>12, <1>13, <1>14 DEF Step

\* What was found stale stays so: a run that is gone does not come back.
LEMMA StepJudged ==
  ASSUME TypeOK, IndInv, NEW r \in Runs, Step(r)
  PROVE  Judged'
  <1> USE DEF Goto, At
  <1>0. Judged
    BY DEF IndInv
  <1>1. \A s \in Runs : /\ pc[s] # "new" => pc'[s] # "new"
                        /\ pc[s] \in Gone => pc'[s] \in Gone
    BY DEF Step, GetTurn, GiveUp, Open, Write, WriteFails, Discard, Read, Judge, Remove,
           Enter, EndWork, ReadToken, Unlink, ReleaseFails, TypeOK, Gone
  <1>2. CASE Read(r)
    <2>1. lock.state = "full" => lock.maker \in Runs /\ pc[lock.maker] # "new"
      BY DEF TypeOK, NoLock, IndInv, LockOwned, Holding, Gone
    <2> QED
      BY <1>0, <1>1, <1>2, <2>1, ProcessAssumption DEF Read, Judged, TypeOK
  <1>3. CASE Judge(r)
    <2>1. CASE Stale(r)
      <3> DEFINE m == IF seen[r] = "nobody" THEN lock.maker ELSE seen[r]
      <3>1. m \in Runs /\ pc[m] \in Gone
        <4>1. CASE seen[r] = "nobody"
          <5>1. lock.state = "old"
            BY <2>1, <4>1 DEF Stale
          <5>2. lock.maker \in Runs
            BY <5>1 DEF TypeOK, NoLock
          <5> QED
            BY <4>1, <5>1, <5>2 DEF IndInv, LockOwned
        <4>2. CASE seen[r] # "nobody"
          <5>1. seen[r] \in Runs /\ pc[seen[r]] # "new"
            BY <1>0, <4>2 DEF TypeOK, Judged
          <5>2. pc[seen[r]] \notin Active
            BY <2>1, <4>2, <5>1 DEF Stale, IndInv, InTurn, Live
          <5> QED
            BY <4>2, <5>1, <5>2 DEF TypeOK, Gone
        <4> QED
          BY <4>1, <4>2
      <3>2. seen' = [seen EXCEPT ![r] = m] /\ pc' = [pc EXCEPT ![r] = "remove"]
        BY <1>3, <2>1 DEF Judge
      <3>3. \A s \in Runs : seen'[s] = IF s = r THEN m ELSE seen[s]
        BY <3>2 DEF TypeOK
      <3>4. \A s \in Runs : pc'[s] = IF s = r THEN "remove" ELSE pc[s]
        BY <3>2 DEF TypeOK
      <3>5. pc'[m] \in Gone /\ pc'[m] # "new"
        BY <1>1, <3>1 DEF Gone
      <3> QED
        BY <1>0, <1>1, <3>1, <3>3, <3>4, <3>5 DEF Judged
    <2>2. CASE ~Stale(r)
      BY <1>0, <1>1, <1>3, <2>2, ProcessAssumption DEF Judge, Judged, TypeOK
    <2> QED
      BY <2>1, <2>2
  <1>4. CASE Remove(r)
    BY <1>0, <1>1, <1>4, ProcessAssumption DEF Remove, Judged, TypeOK
  <1>5. CASE ~(Read(r) \/ Judge(r) \/ Remove(r))
    <2>1. UNCHANGED seen /\ \A s \in Runs : pc'[s] = "remove" => pc[s] = "remove"
      BY <1>5 DEF Step, GetTurn, GiveUp, Open, Write, WriteFails, Discard, Enter, EndWork,
                  ReadToken, Unlink, ReleaseFails, TypeOK
    <2> QED
      BY <1>0, <1>1, <2>1 DEF Judged
  <1> QED
    BY <1>2, <1>3, <1>4, <1>5

LEMMA OthersLock ==
  ASSUME TypeOK, IndInv,
         \/ \E r \in Runs : Arrive(r) \/ Abort(r)
         \/ \E p \in Processes : Die(p)
         \/ GrowOld \/ UNCHANGED vars
  PROVE  LockOwned' /\ Judged'
  <1> USE DEF Goto, At, Holding, Gone, TypeOK, LockOwned, Judged, Mine, Empty, IndInv
  <1>1. ASSUME NEW r \in Runs, Arrive(r) PROVE LockOwned' /\ Judged'
    BY <1>1 DEF Arrive
  <1>2. ASSUME NEW r \in Runs, Abort(r) PROVE LockOwned' /\ Judged'
    BY <1>2 DEF Abort
  <1>3. ASSUME NEW p \in Processes, Die(p) PROVE LockOwned' /\ Judged'
    BY <1>3, ProcessAssumption DEF Die, Active, Turned
  <1>4. CASE GrowOld
    BY <1>4 DEF GrowOld, NoLock
  <1>5. CASE UNCHANGED vars
    BY <1>5 DEF vars
  <1> QED
    BY <1>1, <1>2, <1>3, <1>4, <1>5

\* In every state, with any number of daemons that die at any point and clean-ups that
\* fail, the lock file belongs to the run that is past taking it, unless a late
\* taker-over robbed it, and only the file of a run that is gone is found stale:
\* openSync, writeFileSync, staleLock and unlinkSync (workspace-run-gate.ts).
THEOREM Invariance == Spec => []IndInv
  <1>1. Init => IndInv
    BY InitIndInv
  <1>2. TypeOK /\ InTurn' /\ IndInv /\ [Next]_vars => IndInv'
    <2> SUFFICES ASSUME TypeOK, InTurn', IndInv, [Next]_vars PROVE IndInv'
      OBVIOUS
    <2>1. LockOwned' /\ Judged'
      BY StepLockOwned, StepJudged, OthersLock DEF Next
    <2> QED
      BY <2>1 DEF IndInv
  <1> QED
    BY <1>1, <1>2, Typing, Turns, PTL DEF Spec

\* Writes to one physical workspace are serialized (workspace-run-gate.ts:26): two runs
\* of a daemon never work together, nor do two of different daemons unless one of them
\* was robbed of its lock file in the takeover race of line 103.
THEOREM Exclusion == Spec => []SerializedWrites
  <1>1. TypeOK /\ IndInv => SerializedWrites
    <2> SUFFICES ASSUME TypeOK, IndInv, NEW r \in Runs, NEW s \in Runs,
                        pc[r] = "work", pc[s] = "work", r # s
                 PROVE  ProcessOf[r] # ProcessOf[s] /\ {r, s} \cap robbed # {}
      BY DEF SerializedWrites, At
    <2>1. ProcessOf[r] # ProcessOf[s]
      BY OneTurned DEF IndInv, Turned, Holding
    <2>2. r \in robbed \/ s \in robbed
      BY DEF IndInv, LockOwned, Mine, Holding
    <2> QED
      BY <2>1, <2>2
  <1> QED
    BY <1>1, Typing, Invariance, PTL

-----------------------------------------------------------------------------
(* The refinement.                                                         *)

LEMMA StageOf ==
  ASSUME TypeOK, NEW r \in Runs
  PROVE  /\ Stage(r) = "idle" <=> pc[r] = "new"
         /\ Stage(r) = "waiting" <=>
              pc[r] \in {"queued", "open", "check", "judge", "remove", "write", "discard",
                        "holding"}
         /\ Stage(r) = "working" <=> pc[r] = "work"
         /\ Stage(r) = "leaving" <=> pc[r] \in {"release", "unlink"}
         /\ Stage(r) = "over" <=> pc[r] \in {"over", "dead"}
  BY DEF Stage, TypeOK, Active, Turned, Holding, Gone

LEMMA InitRefines ==
  ASSUME Init
  PROVE  Promise!Init
  BY DEF Init, Promise!Init, Stage

\* A step of one run moves its stage and no other.
LEMMA Moved ==
  ASSUME TypeOK, NEW r \in Runs, NEW l, pc' = [pc EXCEPT ![r] = l],
         TypeOK'
  PROVE  [s \in Runs |-> Stage(s)'] = [[s \in Runs |-> Stage(s)] EXCEPT ![r] = Stage(r)']
  BY DEF TypeOK, Stage

LEMMA EnterRefines ==
  ASSUME TypeOK, TypeOK', IndInv, NEW r \in Runs, Enter(r)
  PROVE  Promise!Enter(r) \/ Promise!Leave(r)
  <1> DEFINE stage == [s \in Runs |-> Stage(s)]
  <1>1. /\ pc[r] = "holding" /\ UNCHANGED <<ahead, aborted, robbed>>
        /\ pc' = [pc EXCEPT ![r] = IF r \in aborted THEN "release" ELSE "work"]
    BY DEF Enter, At, Goto
  <1>2. stage[r] = "waiting" /\ stage' = [stage EXCEPT ![r] = Stage(r)']
    BY <1>1, Moved, StageOf
  <1>3. CASE r \in aborted
    <2>1. Stage(r)' = "leaving"
      BY <1>1, <1>3 DEF Stage, TypeOK
    <2> QED
      BY <1>1, <1>2, <2>1 DEF Promise!Leave
  <1>4. CASE r \notin aborted
    <2>1. Stage(r)' = "working"
      BY <1>1, <1>4 DEF Stage, TypeOK
    <2>2. \A s \in ahead[r] : s \in Runs /\ stage[s] = "over"
      BY <1>1, StageOf DEF IndInv, InTurn, TypeOK, Turned, Holding
    <2>3. \A s \in Runs : stage[s] = "working" => {r, s} \cap robbed # {}
      <3> SUFFICES ASSUME NEW s \in Runs, stage[s] = "working" PROVE {r, s} \cap robbed # {}
        OBVIOUS
      <3>1. pc[s] = "work"
        BY StageOf
      <3> QED
        BY <1>1, <3>1 DEF IndInv, LockOwned, Mine, Holding
    <2> QED
      BY <1>1, <1>2, <1>4, <2>1, <2>2, <2>3 DEF Promise!Enter
  <1> QED
    BY <1>3, <1>4

\* Whoever loses the lock file to another run is of another process.
LEMMA Victim ==
  ASSUME TypeOK, IndInv, NEW r \in Runs, pc[r] \in Turned, NEW wrongly \in BOOLEAN,
         Unlinked(wrongly)
  PROVE  \/ UNCHANGED robbed
         \/ wrongly /\ robbed' = robbed \cup {r}
         \/ wrongly /\ \E s \in Runs : Promise!Lose(s, r)
  <1> DEFINE victims == {s \in Runs : lock.maker = s /\ pc[s] \in Holding}
  <1>1. CASE ~wrongly \/ victims = {}
    BY <1>1 DEF Unlinked
  <1>2. CASE wrongly /\ victims # {}
    <2>1. PICK s \in Runs : lock.maker = s /\ pc[s] \in Holding
      BY <1>2
    <2>2. robbed' = robbed \cup {s}
      BY <1>2, <2>1 DEF Unlinked
    <2>3. CASE s # r
      <3>1. ProcessOf[s] # ProcessOf[r]
        BY <2>1, <2>3, OneTurned DEF IndInv, Turned
      <3>2. Promise!Present(s)
        BY <2>1, StageOf DEF Promise!Present, Holding
      <3> QED
        BY <1>2, <2>2, <3>1, <3>2 DEF Promise!Lose
    <2> QED
      BY <1>2, <2>2, <2>3
  <1> QED
    BY <1>1, <1>2

\* A run that leaves takes with it only what is its own, unless it was robbed.
LEMMA LeaveRefines ==
  ASSUME TypeOK, TypeOK', IndInv, NEW r \in Runs, Discard(r) \/ Unlink(r)
  PROVE  Promise!Leave(r)
  <1> DEFINE stage == [s \in Runs |-> Stage(s)]
  <1>1. pc[r] \in {"discard", "unlink"} /\ pc' = [pc EXCEPT ![r] = "over"]
    BY DEF Discard, Unlink, At, Goto
  <1>2. stage[r] \in {"waiting", "leaving"}
    BY <1>1, StageOf
  <1>3. stage' = [stage EXCEPT ![r] = "over"]
    <2>1. Stage(r)' = "over"
      BY <1>1 DEF Stage, TypeOK
    <2> QED
      BY <1>1, <2>1, Moved
  <1>4. UNCHANGED robbed \/ (r \in robbed /\ \E s \in Runs : Promise!Lose(s, r))
    <2>1. CASE Unlinked(r \in robbed)
      <3>1. CASE r \notin robbed
        BY <2>1, <3>1 DEF Unlinked
      <3>2. CASE r \in robbed
        <4>1. Unlinked(TRUE)
          BY <2>1, <3>2 DEF Unlinked
        <4>2. robbed \cup {r} = robbed
          BY <3>2
        <4> QED
          BY <1>1, <3>2, <4>1, <4>2, Victim DEF Turned, Holding
      <3> QED
        BY <3>1, <3>2
    <2>2. CASE UNCHANGED <<lock, robbed>>
      BY <2>2
    <2> QED
      BY <2>1, <2>2 DEF Discard, Unlink
  <1> QED
    BY <1>1, <1>2, <1>3, <1>4 DEF Promise!Leave, Discard, Unlink

\* A late removal is that of a run that waits, of the file of one that is gone.
LEMMA RemoveRefines ==
  ASSUME TypeOK, TypeOK', IndInv, NEW r \in Runs, Remove(r)
  PROVE  Promise!Usurp(r) \/ UNCHANGED Promise!abstract
  <1> DEFINE stage == [s \in Runs |-> Stage(s)]
  <1>1. pc[r] = "remove" /\ pc' = [pc EXCEPT ![r] = "open"] /\ UNCHANGED <<ahead, aborted>>
    BY DEF Remove, At, Goto
  <1>2. stage[r] = "waiting"
    BY <1>1, StageOf
  <1>3. stage' = stage
    <2>1. Stage(r)' = "waiting"
      BY <1>1 DEF Stage, TypeOK
    <2> QED
      BY <1>1, <1>2, <2>1, Moved
  <1>4. \A s \in ahead[r] : s \in Runs /\ stage[s] = "over"
    BY <1>1, StageOf DEF IndInv, InTurn, TypeOK, Turned, Holding
  <1>5. \E t \in Runs : stage[t] = "over"
    BY <1>1, StageOf DEF IndInv, Judged, Gone
  <1>6. UNCHANGED robbed \/ \E s \in Runs : Promise!Lose(s, r)
    <2>1. r \notin {s \in Runs : lock.maker = s /\ pc[s] \in Holding}
      BY <1>1 DEF Holding
    <2>2. r \in robbed' => r \in robbed
      BY <2>1 DEF Remove, Unlinked
    <2>3. robbed' = robbed \cup {r} => UNCHANGED robbed
      BY <2>2
    <2> QED
      BY <1>1, <2>3, Victim DEF Remove, Turned
  <1> QED
    BY <1>1, <1>2, <1>3, <1>4, <1>5, <1>6 DEF Promise!Usurp, Promise!abstract

\* Taking the turn, the lock file and what is done about a stale one are inside the
\* wait; the release is inside the leaving.
LEMMA StepRefines ==
  ASSUME TypeOK, TypeOK', IndInv, NEW r \in Runs, Step(r)
  PROVE  Promise!Enter(r) \/ Promise!Leave(r) \/ Promise!Usurp(r)
           \/ UNCHANGED Promise!abstract
  <1> DEFINE stage == [s \in Runs |-> Stage(s)]
  <1> USE DEF Goto, At
  <1>1. ASSUME NEW l, pc' = [pc EXCEPT ![r] = l]
        PROVE  stage' = [stage EXCEPT ![r] = Stage(r)'] /\ pc'[r] = l
    BY <1>1, Moved DEF TypeOK
  <1>2. CASE Enter(r)
    BY <1>2, EnterRefines
  <1>3. CASE Discard(r) \/ Unlink(r)
    BY <1>3, LeaveRefines
  <1>4. CASE Remove(r)
    BY <1>4, RemoveRefines
  <1>5. CASE GetTurn(r) \/ Open(r) \/ Write(r) \/ WriteFails(r) \/ Read(r) \/ Judge(r)
    <2>1. PICK l \in {"open", "write", "discard", "check", "judge", "holding", "remove"} :
            pc' = [pc EXCEPT ![r] = l]
      BY <1>5 DEF GetTurn, Open, Write, WriteFails, Read, Judge
    <2>2. Stage(r) = "waiting"
      BY <1>5, StageOf DEF GetTurn, Open, Write, WriteFails, Read, Judge
    <2>3. Stage(r)' = "waiting"
      BY <2>1, <1>1 DEF Stage
    <2>4. stage' = stage
      BY <1>1, <2>1, <2>2, <2>3
    <2>5. UNCHANGED <<ahead, aborted, robbed>>
      BY <1>5 DEF GetTurn, Open, Write, WriteFails, Read, Judge
    <2> QED
      BY <2>4, <2>5 DEF Promise!abstract
  <1>6. CASE GiveUp(r)
    <2>1. pc' = [pc EXCEPT ![r] = "over"] /\ stage[r] = "waiting"
      BY <1>6, StageOf DEF GiveUp
    <2>2. pc'[r] = "over"
      BY <2>1 DEF TypeOK
    <2>3. Stage(r)' = "over"
      BY <2>2 DEF Stage
    <2> QED
      BY <1>6, <1>1, <2>1, <2>3 DEF Promise!Leave, GiveUp
  <1>7. CASE EndWork(r)
    <2>1. pc' = [pc EXCEPT ![r] = "release"] /\ stage[r] = "working"
      BY <1>7, StageOf DEF EndWork
    <2>2. pc'[r] = "release"
      BY <2>1 DEF TypeOK
    <2>3. Stage(r)' = "leaving"
      BY <2>2 DEF Stage
    <2> QED
      BY <1>7, <1>1, <2>1, <2>3 DEF Promise!Leave, EndWork
  <1>8. CASE ReadToken(r) \/ ReleaseFails(r)
    <2>1. PICK l \in {"unlink", "over"} : pc' = [pc EXCEPT ![r] = l]
      BY <1>8 DEF ReadToken, ReleaseFails
    <2>2. stage[r] = "leaving"
      BY <1>8, StageOf DEF ReadToken, ReleaseFails
    <2>3. Stage(r)' = IF l = "unlink" THEN "leaving" ELSE "over"
      BY <1>1, <2>1 DEF Stage
    <2>4. UNCHANGED <<ahead, aborted, robbed>>
      BY <1>8 DEF ReadToken, ReleaseFails
    <2> QED
      BY <1>1, <2>1, <2>2, <2>3, <2>4 DEF Promise!Leave, Promise!abstract
  <1> QED
    BY <1>2, <1>3, <1>4, <1>5, <1>6, <1>7, <1>8 DEF Step

LEMMA ArriveRefines ==
  ASSUME TypeOK, TypeOK', NEW r \in Runs, Arrive(r)
  PROVE  Promise!Arrive(r)
  <1> DEFINE stage == [s \in Runs |-> Stage(s)]
  <1>1. pc[r] = "new" /\ pc' = [pc EXCEPT ![r] = "queued"] /\ UNCHANGED <<aborted, robbed>>
        /\ ahead' = [ahead EXCEPT ![r] = Unreleased(r)]
    BY DEF Arrive, At, Goto
  <1>2. stage[r] = "idle" /\ stage' = [stage EXCEPT ![r] = "waiting"]
    <2>1. Stage(r)' = "waiting"
      BY <1>1 DEF Stage, TypeOK
    <2> QED
      BY <1>1, <2>1, Moved, StageOf
  <1>3. Unreleased(r) = {s \in Runs : ProcessOf[s] = ProcessOf[r] /\ Promise!Present(s)}
    BY StageOf DEF Unreleased, Promise!Present, Active, Turned, Holding
  <1> QED
    BY <1>1, <1>2, <1>3 DEF Promise!Arrive

LEMMA DieRefines ==
  ASSUME TypeOK, TypeOK', NEW p \in Processes, Die(p)
  PROVE  (\E r \in Runs : Promise!Perish(ProcessOf[r])) \/ UNCHANGED Promise!abstract
  <1> DEFINE stage == [s \in Runs |-> Stage(s)]
  <1>1. /\ UNCHANGED <<ahead, aborted, robbed>>
        /\ pc' = [r \in Runs |->
                    IF ProcessOf[r] = p /\ pc[r] \in Active THEN "dead" ELSE pc[r]]
    BY DEF Die
  <1>2. \A r \in Runs : Stage(r)' = IF ProcessOf[r] = p /\ pc[r] \in Active
                                      THEN "over" ELSE Stage(r)
    BY <1>1 DEF Stage, TypeOK
  <1>3. \A r \in Runs : pc[r] \in Active <=> Promise!Present(r)
    BY StageOf DEF Promise!Present, Active, Turned, Holding
  <1>4. stage' = [r \in Runs |-> IF ProcessOf[r] = p /\ Promise!Present(r)
                                 THEN "over" ELSE stage[r]]
    BY <1>2, <1>3
  <1>5. CASE \E r \in Runs : ProcessOf[r] = p
    BY <1>1, <1>4, <1>5 DEF Promise!Perish
  <1>6. CASE ~ \E r \in Runs : ProcessOf[r] = p
    BY <1>1, <1>4, <1>6 DEF Promise!abstract
  <1> QED
    BY <1>5, <1>6

LEMMA NextRefines ==
  ASSUME TypeOK, TypeOK', IndInv, [Next]_vars
  PROVE  [Promise!Next]_(Promise!abstract)
  <1>1. ASSUME NEW r \in Runs, Abort(r) PROVE Promise!Cancel(r)
    <2>1. Promise!Present(r)
      BY <1>1, StageOf DEF Abort, Promise!Present, Active, Turned, Holding
    <2>2. [s \in Runs |-> Stage(s)]' = [s \in Runs |-> Stage(s)]
      BY <1>1 DEF Abort, Stage
    <2> QED
      BY <1>1, <2>1, <2>2 DEF Abort, Promise!Cancel
  <1>2. CASE GrowOld \/ UNCHANGED vars
    BY <1>2 DEF GrowOld, vars, Promise!abstract, Stage
  <1> QED
    BY <1>1, <1>2, ArriveRefines, StepRefines, DieRefines DEF Next, Promise!Next

\* The gate implements ExclusiveRuns, with any number of daemons: one run of the
\* workspace works at a time unless one has lost its place to a late taker-over, each
\* daemon's runs work in the order in which they came, and none that was cancelled
\* before its turn does (WorkspaceRunGate.run).
THEOREM Refinement == Spec => Implements
  <1>1. Init => Promise!Init
    BY InitRefines
  <1>2. TypeOK /\ TypeOK' /\ IndInv /\ [Next]_vars => [Promise!Next]_(Promise!abstract)
    BY NextRefines
  <1> QED
    BY <1>1, <1>2, Typing, Invariance, PTL DEF Spec, Implements, Promise!Spec

=============================================================================
