--------------------------- MODULE RoundPipeline ---------------------------
(***************************************************************************)
(* The policy of one collaboration round: which assignment runs next after *)
(* a run ended, when the coordinator repairs, whose verdict counts, and    *)
(* what becomes of the task.  collaboration/policy.py decides; the         *)
(* registry applies each decision under its terminal claim, which is one   *)
(* step here: DispatchOutbox shows that a run's end is applied once.       *)
(*                                                                         *)
(* An assignment is its position, as in the code, and a round is a record: *)
(*   size, mode  the assignments 0 .. size-1 and the mode of each          *)
(*   leads       is assignment 0 marked coordinator?                       *)
(*   synth       the assignments marked synthesizer                        *)
(*   task        does the round belong to a task?                          *)
(*   capable     does the node's daemon report verdicts?                   *)
(***************************************************************************)
EXTENDS Integers

CONSTANTS Rounds, MaxRepairs

Modes    == {"action", "ask", "review"}
Verdicts == {"done", "continue", "blocked"}

ASSUME RoundsAssumption ==
  \A r \in Rounds :
    /\ r.size \in Nat \ {0} /\ r.mode \in [0 .. r.size - 1 -> Modes]
    /\ r.synth \subseteq 0 .. r.size - 1
    /\ r.leads \in BOOLEAN /\ r.task \in BOOLEAN /\ r.capable \in BOOLEAN
ASSUME RepairsAssumption == MaxRepairs \in Nat

VARIABLES
  round,     \* the round's manifest: never changes
  status,    \* of the run request
  index,     \* currentIndex
  repairs,   \* _relay_repair_count
  resume,    \* _relay_repair_resume_index, or None
  failures,  \* _relay_participant_failures
  verdict,   \* _relay_round_result, or "none"
  task,      \* status the round gives its task; "open" until it ends
  last,      \* history: how the last run of each assignment ended
  saidDone,  \* history: the assignments whose latest verdict was "done"
  runs       \* history: runs that have ended

vars   == <<round, status, index, repairs, resume, failures, verdict, task,
            last, saidDone, runs>>
policy == <<repairs, resume, failures, verdict>>

None    == -1
Members == 0 .. round.size - 1

Init ==
  /\ round \in Rounds
  /\ status = "running" /\ index = 0 /\ repairs = 0 /\ resume = None
  /\ failures = {} /\ verdict = "none" /\ task = "open"
  /\ last = [i \in Members |-> "none"] /\ saidDone = {} /\ runs = 0

-----------------------------------------------------------------------------
\* assignment_reports_round_result: the last synthesizer, or the last that may
\* write; never one that only discusses.
ReportsResult(i) ==
  /\ round.mode[i] # "ask"
  /\ IF round.synth # {}
       THEN i \in round.synth /\ \A j \in round.synth : j <= i
       ELSE \A j \in Members : j > i => round.mode[j] = "ask"

\* decide_failure.
CanRepairAnyone ==   \* mutant: the coordinator is sent back to itself
             /\ round.task /\ repairs < MaxRepairs
             /\ round.leads /\ round.mode[0] = "action"
CanRepairForever ==   \* mutant: repairs are not bounded
             /\ round.task /\ index > 0
             /\ round.leads /\ round.mode[0] = "action"
CanRepair == /\ round.task /\ index > 0 /\ repairs < MaxRepairs
             /\ round.leads /\ round.mode[0] = "action"
MayContinue == round.mode[index] \in {"ask", "review"}

\* _round_outcome, and _complete_run_request where there is no verdict.
TaskOutcome(v) ==
  CASE v = "done"     -> "done"
    [] v = "continue" -> "assigned"
    [] v = "blocked"  -> "waiting_for_human"
    [] OTHER          -> IF round.capable THEN "waiting_for_human" ELSE "done"

\* The cursor moves to the next assignment to run; past the last one, the
\* round is complete.
GoTo(next) ==
  /\ index' = next
  /\ IF next < round.size
       THEN UNCHANGED <<status, task>>
       ELSE /\ status' = "completed"
            /\ task' = IF round.task THEN TaskOutcome(verdict') ELSE task

End(how) == status' = how /\ task' = (IF round.task THEN "blocked" ELSE task)

Ran(outcome) == /\ status = "running"
                /\ last' = [last EXCEPT ![index] = outcome]
                /\ runs' = runs + 1
                /\ UNCHANGED round

\* The verdict a successful run wrote for the round, or "none".
Said(v) == saidDone' = IF v = "none" THEN saidDone
                       ELSE IF v = "done" THEN saidDone \cup {index}
                       ELSE saidDone \ {index}

SucceedForgets ==   \* mutant: a repair resumes after the failed assignment
  /\ Ran("ok")
  /\ \E v \in Verdicts \cup {"none"} :
       /\ verdict' = IF ReportsResult(index) /\ v # "none" THEN v ELSE verdict
       /\ Said(v)
  /\ IF index = 0 /\ resume # None
       THEN resume' = None /\ GoTo(resume + 1)
       ELSE UNCHANGED resume /\ GoTo(index + 1)
  /\ UNCHANGED <<repairs, failures>>

SucceedAnyVerdict ==   \* mutant: every member's verdict is taken
  /\ Ran("ok")
  /\ \E v \in Verdicts \cup {"none"} :
       /\ verdict' = IF v # "none" THEN v ELSE verdict
       /\ Said(v)
  /\ IF index = 0 /\ resume # None
       THEN resume' = None /\ GoTo(resume)
       ELSE UNCHANGED resume /\ GoTo(index + 1)
  /\ UNCHANGED <<repairs, failures>>

\* run.completed with exit code 0: advance_after_success.
Succeed ==
  /\ Ran("ok")
  /\ \E v \in Verdicts \cup {"none"} :
       /\ verdict' = IF ReportsResult(index) /\ v # "none" THEN v ELSE verdict
       /\ Said(v)
  /\ IF index = 0 /\ resume # None
       THEN resume' = None /\ GoTo(resume)
       ELSE UNCHANGED resume /\ GoTo(index + 1)
  /\ UNCHANGED <<repairs, failures>>

SendBackUncounted ==   \* mutant: the repair is not counted
  /\ Ran("failed") /\ CanRepair
  /\ resume' = index /\ index' = 0
  /\ UNCHANGED <<status, task, repairs, failures, verdict, saidDone>>

\* _send_back_for_repair: the coordinator gets a turn to fix what made the
\* assignment fail, and the round then resumes there.
SendBackForRepair ==
  /\ Ran("failed") /\ CanRepair
  /\ repairs' = repairs + 1 /\ resume' = index /\ index' = 0
  /\ UNCHANGED <<status, task, failures, verdict, saidDone>>

\* _continue_after_non_action_failure.  A run.failed event comes straight here,
\* and decide_failure still answers "repair" first, which stops the round.
ContinueAfterFailure ==
  /\ Ran("failed") /\ ~CanRepair /\ MayContinue
  /\ failures' = failures \cup {index}
  /\ UNCHANGED <<repairs, resume, verdict, saidDone>>
  /\ GoTo(index + 1)

\* The round fails with the run.
FailRound ==
  /\ Ran("failed") /\ (CanRepair \/ ~MayContinue)
  /\ End("failed")
  /\ UNCHANGED <<index, saidDone, policy>>

\* run.failed, and run.completed with another exit code, which is sent back
\* for repair where it can be.
RunFailed    == ContinueAfterFailure \/ FailRound
ExitNonZero  == SendBackForRepair \/ ContinueAfterFailure \/ (~CanRepair /\ FailRound)

RunCancelled ==
  /\ Ran("cancelled")
  /\ End("cancelled")
  /\ UNCHANGED <<index, saidDone, policy>>

\* The round is over: nothing happens to it any more.
Over == status # "running" /\ UNCHANGED vars

Next == Succeed \/ ExitNonZero \/ RunFailed \/ RunCancelled \/ Over

Spec == Init /\ [][Next]_vars

-----------------------------------------------------------------------------
Outcomes == {"none", "ok", "failed", "cancelled"}

\* The cursor stays inside the round or is past its end, and what the run
\* request's state carries between runs has the shape the policy reads.
TypeOK ==
  /\ round \in Rounds
  /\ status \in {"running", "completed", "failed", "cancelled"}
  /\ index \in 0 .. round.size /\ repairs \in 0 .. MaxRepairs
  /\ resume \in Members \cup {None}
  /\ failures \subseteq Members /\ verdict \in Verdicts \cup {"none"}
  /\ task \in {"open", "done", "assigned", "waiting_for_human", "blocked"}
  /\ last \in [Members -> Outcomes] /\ saidDone \subseteq Members /\ runs \in Nat

\* A coordinator repairs a bounded number of times and the round resumes where
\* it broke, so a round takes at most two extra runs a repair: it cannot loop
\* between a coordinator and a member that keeps failing, and it ends, as a
\* running round always has a next run.
RunsBounded == runs <= round.size + 2 * MaxRepairs

\* A completed round left nobody out: every assignment ran, and its last run
\* succeeded or is among the participant failures the outcome reports.
NobodySkipped ==
  status = "completed" =>
    \A i \in Members : last[i] = "ok" \/ (last[i] = "failed" /\ i \in failures)

\* "A late or malformed member response cannot silently mark a task done"
\* (ADR-014): on a daemon that reports verdicts, a task is done only when the
\* assignment that speaks for the round said so in a run that succeeded.
DoneIsReported ==
  task = "done" /\ round.capable =>
    /\ verdict = "done"
    /\ \E i \in Members : ReportsResult(i) /\ last[i] = "ok" /\ i \in saidDone

\* "Keep collecting discussion/review results after one member fails"
\* (_continue_after_non_action_failure): only an action assignment ends the
\* round by failing.  The code does not keep this: for a run.failed event with
\* a repair left, decide_failure answers "repair", and nobody repairs.
DiscussionGoesOn == status = "failed" => round.mode[index] = "action"

-----------------------------------------------------------------------------
(* The inductive invariant.                                                *)

\* The assignment the round has reached, repairs apart.
Reached == IF resume = None THEN index ELSE resume

\* A repair goes on at assignment 0 for an assignment behind it.
RepairAtZero == resume # None => /\ index = 0 /\ resume > 0 /\ repairs > 0
                                 /\ round.mode[0] = "action"

\* Every repair has cost the failed run and the coordinator's, or costs it.
RunsCounted ==
  runs = Reached + 2 * repairs +
           (IF status \in {"failed", "cancelled"} THEN 1 ELSE 0)
                 - (IF resume = None THEN 0 ELSE 1)

\* What the cursor has passed ran, and failed only as a recorded participant.
PassedRan ==
  /\ \A i \in Members : i < Reached =>
       \/ last[i] = "ok"
       \/ last[i] = "failed" /\ i \in failures
       \/ i = 0 /\ resume # None
       \/ i = index /\ status \in {"failed", "cancelled"}
  /\ status \in {"running", "failed", "cancelled"} => index < round.size
  /\ status = "completed" => index = round.size /\ resume = None

\* A verdict is the latest of the assignment that speaks for the round, and who
\* gave one does not fail later in a round that goes on.
VerdictIsReported ==
  /\ verdict = "done" => \E i \in saidDone : ReportsResult(i)
  /\ status \in {"running", "completed"} =>
       \A i \in saidDone : i < Reached /\ last[i] = "ok"

\* A task is closed by the verdict the round completed with.
ClosedByVerdict ==
  task = "done" /\ round.capable => status = "completed" /\ verdict = "done"

IndInv == /\ RepairAtZero /\ RunsCounted /\ PassedRan
          /\ VerdictIsReported /\ ClosedByVerdict

=============================================================================
