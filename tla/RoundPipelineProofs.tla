------------------------ MODULE RoundPipelineProofs -------------------------
(* Proofs about RoundPipeline, for every set of rounds and every bound on  *)
(* repairs.                                                                *)
EXTENDS RoundPipeline, TLAPS

Inv == TypeOK /\ IndInv

LEMMA RoundShape ==
  ASSUME round \in Rounds
  PROVE  /\ round.size \in Nat \ {0}
         /\ round.mode \in [Members -> Modes]
         /\ round.synth \subseteq Members
         /\ Members \subseteq Nat
         /\ None \notin Members
  BY RoundsAssumption DEF Members, None

\* A member that ran leaves the bookkeeping of the others alone.
LEMMA RanFacts ==
  ASSUME Inv, NEW outcome \in Outcomes, Ran(outcome)
  PROVE  /\ round' = round /\ Members' = Members
         /\ index \in Members
         /\ last' \in [Members -> Outcomes]
         /\ \A i \in Members : last'[i] = IF i = index THEN outcome ELSE last[i]
         /\ runs' = runs + 1 /\ runs \in Nat
         /\ status = "running"
  <1>1. /\ round' = round /\ Members' = Members /\ status = "running"
        /\ last' = [last EXCEPT ![index] = outcome] /\ runs' = runs + 1
    BY DEF Ran, Members
  <1>2. index \in Members
    BY <1>1, RoundShape DEF Inv, TypeOK, IndInv, PassedRan, Members
  <1> QED
    BY <1>1, <1>2 DEF Inv, TypeOK, Outcomes

LEMMA GoToFacts ==
  ASSUME Inv, status = "running", NEW next \in 0 .. round.size, GoTo(next),
         round' = round
  PROVE  /\ index' = next
         /\ next < round.size => status' = "running"
         /\ next = round.size => status' = "completed"
         /\ status' \in {"running", "completed", "failed", "cancelled"}
         /\ task' \in {"open", "done", "assigned", "waiting_for_human", "blocked"}
         /\ task' = "done" /\ round.capable =>
              task = "done" \/ (verdict' = "done" /\ status' = "completed")
  BY RoundShape DEF GoTo, TaskOutcome, Inv, TypeOK

-----------------------------------------------------------------------------
LEMMA InitInv ==
  ASSUME Init
  PROVE  Inv
  <1>1. TypeOK
    BY RoundShape, RepairsAssumption
       DEF Init, TypeOK, Members, None, Outcomes
  <1>2. IndInv
    BY RoundShape, RepairsAssumption
       DEF Init, IndInv, RepairAtZero, RunsCounted, PassedRan, VerdictIsReported,
           ClosedByVerdict, Reached, Members, None
  <1> QED
    BY <1>1, <1>2 DEF Inv

LEMMA SucceedInv ==
  ASSUME Inv, Succeed
  PROVE  Inv'
  <1>a. /\ TypeOK /\ RepairAtZero /\ RunsCounted /\ PassedRan /\ VerdictIsReported
        /\ ClosedByVerdict /\ round \in Rounds
    BY DEF Inv, IndInv, TypeOK
  <1>1. /\ round' = round /\ Members' = Members /\ index \in Members
        /\ last' \in [Members -> Outcomes]
        /\ \A i \in Members : last'[i] = IF i = index THEN "ok" ELSE last[i]
        /\ runs' = runs + 1 /\ runs \in Nat /\ status = "running"
    BY RanFacts DEF Succeed, Outcomes
  <1>2. PICK v \in Verdicts \cup {"none"} :
          /\ verdict' = IF ReportsResult(index) /\ v # "none" THEN v ELSE verdict
          /\ Said(v)
    BY DEF Succeed
  <1>3. repairs' = repairs /\ failures' = failures
    BY DEF Succeed
  <1> DEFINE next == Reached + (IF resume = None THEN 1 ELSE 0)
  <1>4. /\ Reached \in Members /\ index <= Reached
        /\ resume # None => resume \in Members /\ Reached = resume /\ index = 0
        /\ resume = None => Reached = index
    BY <1>1, <1>a, RoundShape DEF Reached, TypeOK, RepairAtZero, Members
  <1>5. next \in 1 .. round.size /\ GoTo(next) /\ resume' = None
    <2>1. CASE resume = None
      <3>1. next = index + 1 /\ index + 1 \in 1 .. round.size
        BY <1>1, <1>4, <2>1, <1>a, RoundShape DEF Members
      <3>2. GoTo(index + 1) /\ resume' = None
        BY <2>1 DEF Succeed
      <3> QED
        BY <3>1, <3>2
    <2>2. CASE resume # None
      <3>1. next = resume /\ resume \in 1 .. round.size
        BY <1>1, <1>4, <2>2, <1>a, RoundShape DEF Members, RepairAtZero
      <3>2. GoTo(resume) /\ resume' = None
        BY <1>4, <2>2 DEF Succeed
      <3> QED
        BY <3>1, <3>2
    <2> QED BY <2>1, <2>2
  <1> HIDE DEF next
  <1>6. /\ index' = next
        /\ next < round.size => status' = "running"
        /\ next = round.size => status' = "completed"
        /\ status' \in {"running", "completed", "failed", "cancelled"}
        /\ task' \in {"open", "done", "assigned", "waiting_for_human", "blocked"}
        /\ task' = "done" /\ round.capable =>
             task = "done" \/ (verdict' = "done" /\ status' = "completed")
    BY <1>1, <1>5, GoToFacts, <1>a, RoundShape DEF TypeOK
  <1>7. /\ saidDone' \subseteq Members
        /\ saidDone' \subseteq saidDone \cup {index}
        /\ saidDone \ {index} \subseteq saidDone'
        /\ v = "done" => index \in saidDone'
        /\ v = "none" => saidDone' = saidDone
    BY <1>1, <1>2, <1>a DEF Said, TypeOK
  <1>8. verdict' \in Verdicts \cup {"none"}
    BY <1>2, <1>a DEF TypeOK
  <1>9. TypeOK'
    BY <1>1, <1>3, <1>5, <1>6, <1>7, <1>8, <1>a, RoundShape DEF TypeOK, Members
  <1>10. RepairAtZero'
    BY <1>5 DEF RepairAtZero
  <1>11. /\ Reached' = next /\ next \in Nat
         /\ next > index
         /\ \A i \in Members : i < next <=> i < Reached \/ (i = index /\ resume = None)
    BY <1>4, <1>5, <1>6, <1>1, <1>a, RoundShape DEF Reached, next, Members, RepairAtZero
  <1>12. RunsCounted'
    BY <1>1, <1>3, <1>4, <1>5, <1>6, <1>11, <1>a, RoundShape
       DEF RunsCounted, next, TypeOK, Members
  <1>13. PassedRan'
    <2>1. ASSUME NEW i \in Members, i < next
          PROVE  last'[i] = "ok" \/ (last'[i] = "failed" /\ i \in failures')
      BY <2>1, <1>1, <1>3, <1>4, <1>11, <1>a DEF PassedRan
    <2> QED
      BY <2>1, <1>1, <1>5, <1>6, <1>11, <1>a, RoundShape DEF PassedRan
  <1>14. VerdictIsReported'
    <2>1. ASSUME verdict' = "done" PROVE \E i \in saidDone' : ReportsResult(i)
      <3>1. CASE v = "done" /\ ReportsResult(index)
        BY <3>1, <1>7
      <3>2. CASE ~(v = "done" /\ ReportsResult(index))
        <4>1. verdict = "done" /\ (v = "none" \/ ~ReportsResult(index))
          BY <2>1, <3>2, <1>2
        <4>2. PICK i \in saidDone : ReportsResult(i)
          BY <4>1, <1>a DEF VerdictIsReported
        <4> QED
          BY <4>1, <4>2, <1>7
      <3> QED
        BY <3>1, <3>2
    <2>2. ASSUME NEW i \in saidDone' PROVE i < next /\ last'[i] = "ok"
      <3>1. CASE i = index
        BY <3>1, <1>1, <1>11
      <3>2. CASE i # index
        <4>1. i \in saidDone /\ i \in Members
          BY <3>2, <1>7, <1>a DEF TypeOK
        <4> QED
          BY <4>1, <3>2, <1>1, <1>11, <1>a DEF VerdictIsReported
      <3> QED
        BY <3>1, <3>2
    <2>3. \A i : ReportsResult(i)' <=> ReportsResult(i)
      BY <1>1 DEF ReportsResult
    <2> QED
      BY <2>1, <2>2, <2>3, <1>11 DEF VerdictIsReported, ReportsResult
  <1>15. ClosedByVerdict'
    BY <1>1, <1>6, <1>a DEF ClosedByVerdict
  <1> QED
    BY <1>9, <1>10, <1>12, <1>13, <1>14, <1>15 DEF Inv, IndInv

LEMMA SendBackInv ==
  ASSUME Inv, SendBackForRepair
  PROVE  Inv'
  <1>a. /\ TypeOK /\ RepairAtZero /\ RunsCounted /\ PassedRan /\ VerdictIsReported
        /\ ClosedByVerdict /\ round \in Rounds
    BY DEF Inv, IndInv, TypeOK
  <1>1. /\ round' = round /\ Members' = Members /\ index \in Members
        /\ last' \in [Members -> Outcomes]
        /\ \A i \in Members : last'[i] = IF i = index THEN "failed" ELSE last[i]
        /\ runs' = runs + 1 /\ runs \in Nat /\ status = "running"
    BY RanFacts DEF SendBackForRepair, Outcomes
  <1>2. /\ repairs' = repairs + 1 /\ repairs < MaxRepairs
        /\ resume' = index /\ index' = 0 /\ index > 0 /\ round.mode[0] = "action"
        /\ UNCHANGED <<status, task, failures, verdict, saidDone>>
    BY DEF SendBackForRepair, CanRepair
  <1>3. resume = None /\ Reached = index /\ Reached' = index
    BY <1>1, <1>2, <1>a, RoundShape DEF RepairAtZero, Reached, Members, TypeOK
  <1>4. TypeOK'
    BY <1>1, <1>2, <1>a, RoundShape, RepairsAssumption DEF TypeOK, Members
  <1>5. RepairAtZero'
    BY <1>1, <1>2, <1>a DEF RepairAtZero, TypeOK
  <1>6. RunsCounted'
    BY <1>1, <1>2, <1>3, <1>a, RoundShape DEF RunsCounted, TypeOK, Members
  <1>7. PassedRan'
    <2>1. \A i \in Members : i < index => last'[i] = last[i]
      BY <1>1, <1>a, RoundShape DEF Members
    <2> QED
      BY <2>1, <1>1, <1>2, <1>3, <1>a, RoundShape DEF PassedRan, Members
  <1>8. VerdictIsReported'
    <2>1. \A i \in saidDone : i \in Members /\ i < index
      BY <1>1, <1>3, <1>a DEF VerdictIsReported, TypeOK
    <2> QED
      BY <2>1, <1>1, <1>2, <1>3, <1>a, RoundShape
         DEF VerdictIsReported, ReportsResult, Members
  <1>9. ClosedByVerdict'
    BY <1>1, <1>2, <1>a DEF ClosedByVerdict
  <1> QED
    BY <1>4, <1>5, <1>6, <1>7, <1>8, <1>9 DEF Inv, IndInv

LEMMA ContinueInv ==
  ASSUME Inv, ContinueAfterFailure
  PROVE  Inv'
  <1>a. /\ TypeOK /\ RepairAtZero /\ RunsCounted /\ PassedRan /\ VerdictIsReported
        /\ ClosedByVerdict /\ round \in Rounds
    BY DEF Inv, IndInv, TypeOK
  <1>1. /\ round' = round /\ Members' = Members /\ index \in Members
        /\ last' \in [Members -> Outcomes]
        /\ \A i \in Members : last'[i] = IF i = index THEN "failed" ELSE last[i]
        /\ runs' = runs + 1 /\ runs \in Nat /\ status = "running"
    BY RanFacts DEF ContinueAfterFailure, Outcomes
  <1>2. /\ failures' = failures \cup {index} /\ MayContinue /\ GoTo(index + 1)
        /\ UNCHANGED <<repairs, resume, verdict, saidDone>>
    BY DEF ContinueAfterFailure
  <1>3. resume = None /\ Reached = index
    BY <1>1, <1>2, <1>a DEF MayContinue, RepairAtZero, Reached
  <1>b. index + 1 \in 1 .. round.size
    BY <1>1, <1>a, RoundShape DEF Members
  <1>4. /\ index' = index + 1
        /\ index + 1 < round.size => status' = "running"
        /\ index + 1 = round.size => status' = "completed"
        /\ status' \in {"running", "completed", "failed", "cancelled"}
        /\ task' \in {"open", "done", "assigned", "waiting_for_human", "blocked"}
        /\ task' = "done" /\ round.capable =>
             task = "done" \/ (verdict' = "done" /\ status' = "completed")
    BY <1>1, <1>2, <1>b, GoToFacts, <1>a, RoundShape
  <1>5. /\ Reached' = index + 1 /\ resume' = None
        /\ index + 1 \in 1 .. round.size
        /\ \A i \in Members : i < index + 1 <=> i < Reached \/ i = index
    BY <1>1, <1>2, <1>3, <1>4, <1>b, <1>a, RoundShape DEF Reached, Members
  <1>c. /\ status' \in {"running", "completed"}
        /\ status' = "running" => index + 1 < round.size
        /\ status' = "completed" => index + 1 = round.size
    BY <1>4, <1>b, <1>a, RoundShape
  <1>6. TypeOK'
    <2>1. /\ round' \in Rounds /\ repairs' \in 0 .. MaxRepairs
          /\ resume' \in Members' \cup {None} /\ failures' \subseteq Members'
          /\ verdict' \in Verdicts \cup {"none"} /\ saidDone' \subseteq Members'
      BY <1>1, <1>2, <1>a DEF TypeOK
    <2>2. index' \in 0 .. round'.size /\ runs' \in Nat
      BY <1>1, <1>4, <1>5, <1>a, RoundShape
    <2> QED
      BY <2>1, <2>2, <1>1, <1>4 DEF TypeOK
  <1>7. RepairAtZero'
    BY <1>5 DEF RepairAtZero
  <1>8. RunsCounted'
    <2>1. runs = index + 2 * repairs
      BY <1>1, <1>3, <1>a, RoundShape DEF RunsCounted, TypeOK, Members
    <2>2. status' \notin {"failed", "cancelled"}
      BY <1>c
    <2> QED
      BY <2>1, <2>2, <1>1, <1>2, <1>5, <1>a, RoundShape DEF RunsCounted, TypeOK, Members
  <1>9. PassedRan'
    <2>1. ASSUME NEW i \in Members, i < index + 1
          PROVE  last'[i] = "ok" \/ (last'[i] = "failed" /\ i \in failures')
      <3>1. CASE i = index
        BY <3>1, <1>1, <1>2
      <3>2. CASE i # index
        BY <2>1, <3>2, <1>1, <1>2, <1>3, <1>5, <1>a DEF PassedRan
      <3> QED
        BY <3>1, <3>2
    <2> QED
      BY <2>1, <1>1, <1>4, <1>5, <1>c DEF PassedRan
  <1>10. VerdictIsReported'
    <2>1. \A i \in saidDone : i \in Members /\ i < index /\ last[i] = "ok"
      BY <1>1, <1>3, <1>a DEF VerdictIsReported, TypeOK
    <2>2. \A i \in saidDone : i < index + 1 /\ last'[i] = "ok"
      BY <2>1, <1>1, RoundShape, <1>a DEF Members
    <2>3. verdict = "done" => \E i \in saidDone : ReportsResult(i)
      BY <1>a DEF VerdictIsReported
    <2> QED
      BY <2>2, <2>3, <1>1, <1>2, <1>5 DEF VerdictIsReported, ReportsResult
  <1>11. ClosedByVerdict'
    BY <1>1, <1>4, <1>a DEF ClosedByVerdict
  <1> QED
    BY <1>6, <1>7, <1>8, <1>9, <1>10, <1>11 DEF Inv, IndInv

\* A run that ends the round, failed or cancelled.
LEMMA EndInv ==
  ASSUME Inv, NEW how \in {"failed", "cancelled"}, Ran(how), End(how),
         UNCHANGED <<index, saidDone, policy>>
  PROVE  Inv'
  <1>a. /\ TypeOK /\ RepairAtZero /\ RunsCounted /\ PassedRan /\ VerdictIsReported
        /\ ClosedByVerdict /\ round \in Rounds
    BY DEF Inv, IndInv, TypeOK
  <1>1. /\ round' = round /\ Members' = Members /\ index \in Members
        /\ last' \in [Members -> Outcomes]
        /\ \A i \in Members : last'[i] = IF i = index THEN how ELSE last[i]
        /\ runs' = runs + 1 /\ runs \in Nat /\ status = "running"
    BY RanFacts DEF Outcomes
  <1>2. /\ UNCHANGED <<index, saidDone, repairs, resume, failures, verdict>>
        /\ status' = how /\ task' \in {"blocked", task}
    BY DEF End, policy
  <1>3. Reached' = Reached /\ Reached \in Nat
    BY <1>1, <1>2, <1>a, RoundShape DEF Reached, TypeOK, Members
  <1>4. TypeOK'
    BY <1>1, <1>2, <1>a, RoundShape DEF TypeOK
  <1>5. RepairAtZero'
    BY <1>1, <1>2, <1>a DEF RepairAtZero
  <1>6. RunsCounted'
    BY <1>1, <1>2, <1>3, <1>a DEF RunsCounted, TypeOK
  <1>7. PassedRan'
    BY <1>1, <1>2, <1>3, <1>a DEF PassedRan
  <1>8. VerdictIsReported'
    BY <1>1, <1>2, <1>3, <1>a DEF VerdictIsReported, ReportsResult
  <1>9. ClosedByVerdict'
    BY <1>1, <1>2, <1>a DEF ClosedByVerdict
  <1> QED
    BY <1>4, <1>5, <1>6, <1>7, <1>8, <1>9 DEF Inv, IndInv

LEMMA NextInv ==
  ASSUME Inv, [Next]_vars
  PROVE  Inv'
  <1>1. CASE Succeed
    BY <1>1, SucceedInv
  <1>2. CASE SendBackForRepair
    BY <1>2, SendBackInv
  <1>3. CASE ContinueAfterFailure
    BY <1>3, ContinueInv
  <1>4. CASE FailRound
    BY <1>4, EndInv DEF FailRound
  <1>5. CASE RunCancelled
    BY <1>5, EndInv DEF RunCancelled
  <1>6. CASE UNCHANGED vars
    BY <1>6 DEF vars, Inv, TypeOK, IndInv, RepairAtZero, RunsCounted, PassedRan,
                VerdictIsReported, ClosedByVerdict, ReportsResult, Reached, Members
  <1> QED
    BY <1>1, <1>2, <1>3, <1>4, <1>5, <1>6
       DEF Next, ExitNonZero, RunFailed, Over

-----------------------------------------------------------------------------
\* The strengthened invariant of the round's bookkeeping holds in every state.
THEOREM Invariance == Spec => []Inv
  <1>1. Init => Inv
    BY InitInv
  <1>2. Inv /\ [Next]_vars => Inv'
    BY NextInv
  <1> QED
    BY <1>1, <1>2, PTL DEF Spec

\* The cursor of a round never leaves it, whatever runs fail.
THEOREM TypeCorrect == Spec => []TypeOK
  <1>1. Inv => TypeOK
    BY DEF Inv
  <1> QED
    BY <1>1, Invariance, PTL

\* A round of any size takes at most two extra runs for each repair allowed:
\* _send_back_for_repair cannot loop.
THEOREM RepairsTerminate == Spec => []RunsBounded
  <1>1. Inv => RunsBounded
    <2> SUFFICES ASSUME Inv PROVE RunsBounded
      OBVIOUS
    <2>1. /\ Reached \in 0 .. round.size
          /\ repairs \in 0 .. MaxRepairs /\ runs \in Nat
          /\ resume # None => repairs > 0
          /\ status \in {"failed", "cancelled"} => index < round.size
          /\ resume # None => resume < round.size
      BY RoundShape DEF Inv, IndInv, TypeOK, PassedRan, RepairAtZero, Reached, Members
    <2>2. status \in {"failed", "cancelled"} /\ resume = None => Reached < round.size
      BY <2>1 DEF Reached
    <2>3. RunsCounted /\ round.size \in Nat
      BY RoundShape DEF Inv, IndInv, TypeOK
    <2> QED
      BY <2>1, <2>2, <2>3, RepairsAssumption DEF RunsCounted, RunsBounded
  <1> QED
    BY <1>1, Invariance, PTL

\* advance_after_success resumes where the round broke, so a completed round ran
\* every assignment, whichever of them failed on the way.
THEOREM NoneLeftOut == Spec => []NobodySkipped
  <1>1. Inv => NobodySkipped
    <2> SUFFICES ASSUME Inv, status = "completed", NEW i \in Members
                 PROVE  last[i] = "ok" \/ (last[i] = "failed" /\ i \in failures)
      BY DEF NobodySkipped
    <2>1. index = round.size /\ resume = None /\ i < Reached
      BY RoundShape DEF Inv, IndInv, TypeOK, PassedRan, Reached, Members
    <2> QED
      BY <2>1 DEF Inv, IndInv, PassedRan
  <1> QED
    BY <1>1, Invariance, PTL

\* A task is done only by the verdict of the assignment that speaks for the
\* round, given in a run that succeeded, on every daemon that reports verdicts:
\* no other member, and no member that failed, can close it.
THEOREM DoneNeedsVerdict == Spec => []DoneIsReported
  <1>1. Inv => DoneIsReported
    <2> SUFFICES ASSUME Inv, task = "done", round.capable
                 PROVE  /\ verdict = "done"
                        /\ \E i \in Members : /\ ReportsResult(i)
                                              /\ last[i] = "ok" /\ i \in saidDone
      BY DEF DoneIsReported
    <2>1. status = "completed" /\ verdict = "done"
      BY DEF Inv, IndInv, ClosedByVerdict
    <2>2. PICK i \in saidDone : ReportsResult(i)
      BY <2>1 DEF Inv, IndInv, VerdictIsReported
    <2>3. i \in Members /\ last[i] = "ok"
      BY <2>1 DEF Inv, IndInv, TypeOK, VerdictIsReported
    <2> QED
      BY <2>1, <2>2, <2>3
  <1> QED
    BY <1>1, Invariance, PTL
=============================================================================
