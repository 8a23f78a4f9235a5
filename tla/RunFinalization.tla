--------------------------- MODULE RunFinalization --------------------------
(***************************************************************************)
(* What the backend does with the end of a delivered run: the terminal     *)
(* event of the daemon, made durable in the command row, then applied to   *)
(* the session's log and to the run request under a terminal claim.        *)
(* Around it, the writers that do not look at that claim: the progress     *)
(* note of streamed output or a renewed lease, the reaper's timeout, and   *)
(* the stop of a user.                                                     *)
(*                                                                         *)
(* Handlers and transactions are those of DispatchOutbox, which shows how  *)
(* the next run reaches a daemon: here that is one step, Dispatch.  A run  *)
(* is its position in the round, from 1; 0 is no run.  The tasks and the   *)
(* verdicts are in RoundPipeline.                                          *)
(***************************************************************************)
EXTENDS Integers

CONSTANTS
  Handler,   \* threads of the backend replicas that can be at work at once
  Claim,     \* ids of terminal claims
  NoClaim,
  Turns,     \* runs the round takes
  Possible,  \* the Hazards that may happen
  MaxHazards \* bound: how many do

Hazards == {"retry",    \* a terminal event posted again
            "note",     \* a progress note
            "timeout",  \* a run reaped as idle or too long
            "stop",     \* a stop request of the user
            "crash",    \* a handler lost between two transactions
            "slow"}     \* a claim that expires while its holder is alive

ASSUME TurnsAssumption == Turns \in Nat \ {0}
ASSUME ClaimAssumption == NoClaim \notin Claim
ASSUME HazardsAssumption == Possible \subseteq Hazards /\ MaxHazards \in Nat

VARIABLES
  req,          \* the run request row
  cmds,         \* status of the command of each run
  reports,      \* the daemon's terminal event of each run, or "none"
  session,      \* status of the session projection
  completions,  \* agent.completed events of each run in the session's log
  h,            \* the handlers
  lost,         \* history: an unguarded update overwrote a change it had not read
  applied,      \* history: how often the end of each run moved the request
  happened,     \* the hazards that happened so far
  left          \* how many more may

history == <<lost, applied>>
used    == <<happened, left>>
vars    == <<req, cmds, reports, session, completions, h, history, used>>

-----------------------------------------------------------------------------
Run      == 1 .. Turns
Terminal == {"completed", "failed", "cancelled"}
Active   == {"running", "finalizing"}

First == [status |-> "running", cmd |-> 0, turn |-> 1, event |-> "none",
          claim |-> NoClaim, live |-> FALSE]

PCs  == {"idle", "markRead", "markWrite", "recordTimeout", "claim", "fence",
         "readSession", "record", "advance", "endSession", "settle", "complete",
         "readRow", "writeRow", "note", "suppress", "stopSession"}
Jobs == {"none", "event", "timeout", "note", "stop", "close"}

Idle == [pc |-> "idle", job |-> "none", cmd |-> 0, event |-> "none",
         claim |-> NoClaim, logged |-> FALSE, seen |-> "none", to |-> "none",
         row |-> First]

FreeClaims == Claim \ ({req.claim} \cup {h[i].claim : i \in Handler}
                                   \cup {h[i].row.claim : i \in Handler})
NewClaim   == CHOOSE k \in FreeClaims : TRUE

Init ==
  /\ req = First
  /\ cmds = [r \in Run |-> "none"] /\ reports = [r \in Run |-> "none"]
  /\ session = "running"
  /\ completions = [r \in Run |-> 0] /\ applied = [r \in Run |-> 0]
  /\ h = [i \in Handler |-> Idle]
  /\ lost = FALSE
  /\ happened = {} /\ left = MaxHazards

At(i, pc)   == h[i].pc = pc
Begin(i, r) == h' = [h EXCEPT ![i] = r]
Return(i)   == Begin(i, Idle)
Goto(i, pc) == Begin(i, [h[i] EXCEPT !.pc = pc])
Spend(k)    == /\ k \in Possible /\ left > 0
               /\ happened' = happened \cup {k} /\ left' = left - 1

\* The next run is claimed, staged, linked, published and taken by the daemon.
\* After a lost update the code may run an assignment again under a new run id;
\* that second run is left out.
Dispatch ==
  /\ req.status = "running" /\ req.cmd = 0 /\ req.turn \in Run
  /\ session \notin Terminal /\ cmds[req.turn] = "none"
  /\ req' = [req EXCEPT !.cmd = req.turn]
  /\ cmds' = [cmds EXCEPT ![req.turn] = "delivered"]
  /\ UNCHANGED <<reports, session, completions, h, history, used>>

-----------------------------------------------------------------------------
(* The terminal event.                                                     *)

\* The daemon posts the end of a run until it is answered, and a post that got
\* no answer in time may still be in a handler's hands.  A command that ended
\* the same way is a replay, which tries to finish what the first post began.
TerminalEvent(i) ==
  /\ At(i, "idle")
  /\ \E r \in Run, e \in Terminal :
       /\ cmds[r] # "none" /\ reports[r] \in {"none", e}
       /\ reports' = [reports EXCEPT ![r] = e]
       /\ IF cmds[r] = "delivered" /\ \A j \in Handler : h[j].cmd # r
            THEN UNCHANGED used ELSE Spend("retry")
       /\ cmds[r] \in {"delivered", e}
       /\ Begin(i, [Idle EXCEPT !.pc = IF cmds[r] = "delivered" THEN "markRead"
                                       ELSE "claim",
                                !.job = "event", !.cmd = r, !.event = e])
  /\ UNCHANGED <<req, cmds, session, completions, history>>

\* _mark_command_terminal reads the command without a lock ...
MarkRead(i) ==
  /\ At(i, "markRead")
  /\ IF cmds[h[i].cmd] = "delivered" THEN Goto(i, "markWrite") ELSE Return(i)
  /\ UNCHANGED <<req, cmds, reports, session, completions, history, used>>

\* ... and writes it by its id.
MarkWrite(i) ==
  /\ At(i, "markWrite")
  /\ cmds' = [cmds EXCEPT ![h[i].cmd] = h[i].event]
  /\ Goto(i, IF h[i].job = "timeout" THEN "recordTimeout" ELSE "claim")
  /\ UNCHANGED <<req, reports, session, completions, history, used>>

ClaimAnyStatus(i) ==   \* mutant: the request may be over
  /\ At(i, "claim")
  /\ IF req.cmd = h[i].cmd /\ ~(req.status = "finalizing" /\ req.live)
       THEN /\ FreeClaims # {}
            /\ req' = [req EXCEPT !.status = "finalizing", !.event = h[i].event,
                                  !.claim = NewClaim, !.live = TRUE]
            /\ Begin(i, [h[i] EXCEPT !.pc = "fence", !.claim = NewClaim])
       ELSE Return(i) /\ UNCHANGED req
  /\ UNCHANGED <<cmds, reports, session, completions, history, used>>

\* claim_terminal_run_request.
ClaimTerminal(i) ==
  /\ At(i, "claim")
  /\ IF /\ req.status \in Active /\ req.cmd = h[i].cmd
        /\ ~(req.status = "finalizing" /\ req.live)
       THEN /\ FreeClaims # {}
            /\ req' = [req EXCEPT !.status = "finalizing", !.event = h[i].event,
                                  !.claim = NewClaim, !.live = TRUE]
            /\ Begin(i, [h[i] EXCEPT !.pc = "fence", !.claim = NewClaim])
       ELSE Return(i) /\ UNCHANGED req
  /\ UNCHANGED <<cmds, reports, session, completions, history, used>>

Owns(i) == req.claim = h[i].claim

\* _advance_run_request: the claim is checked once before the session is read ...
CheckClaim(i) ==
  /\ At(i, "fence")
  /\ IF Owns(i) THEN Goto(i, "readSession") ELSE Return(i)
  /\ UNCHANGED <<req, cmds, reports, session, completions, history, used>>

ReadSessionBlind(i) ==   \* mutant: existing_completion is not looked up
  /\ At(i, "readSession")
  /\ Begin(i, [h[i] EXCEPT !.pc = "record", !.seen = session])
  /\ UNCHANGED <<req, cmds, reports, session, completions, history, used>>

ReadSession(i) ==
  /\ At(i, "readSession")
  /\ Begin(i, [h[i] EXCEPT !.pc = "record", !.seen = session,
                           !.logged = completions[h[i].cmd] > 0])
  /\ UNCHANGED <<req, cmds, reports, session, completions, history, used>>

EndRoundUnnamed(i, s) ==   \* mutant: the outcome is not kept
  Begin(i, [h[i] EXCEPT !.pc = IF h[i].seen = s THEN "settle" ELSE "endSession"])

EndRoundQuietly(i, s) ==   \* mutant: the session is not told
  Begin(i, [h[i] EXCEPT !.to = s, !.pc = "settle"])

\* The session is written unless it was read with that status.
EndRound(i, s) ==
  Begin(i, [h[i] EXCEPT !.to = s,
              !.pc = IF h[i].seen = s THEN "settle" ELSE "endSession"])

RecordLate(i) ==   \* mutant: the request moves before the run is logged
  /\ At(i, "record")
  /\ UNCHANGED completions
  /\ \/ h[i].event \in {"completed", "failed"} /\ Goto(i, "advance")
     \/ h[i].event \in {"failed", "cancelled"} /\ EndRound(i, h[i].event)
  /\ UNCHANGED <<req, cmds, reports, session, history, used>>

\* ... the run's end is appended to the session's log unless it is there, and
\* the round goes on or ends: a failed run does either (RoundPipeline).
RecordCompletion(i) ==
  /\ At(i, "record")
  /\ completions' = IF h[i].logged THEN completions
                    ELSE [completions EXCEPT ![h[i].cmd] = @ + 1]
  /\ \/ h[i].event \in {"completed", "failed"} /\ Goto(i, "advance")
     \/ h[i].event \in {"failed", "cancelled"} /\ EndRound(i, h[i].event)
  /\ UNCHANGED <<req, cmds, reports, session, history, used>>

Applied(i) == applied' = [applied EXCEPT ![h[i].cmd] = @ + 1]

AdvanceUnclaimed(i) ==   \* mutant: the claim is not checked again
  /\ At(i, "advance")
  /\ req' = [req EXCEPT !.status = "running", !.turn = h[i].cmd + 1, !.cmd = 0,
                       !.event = "none", !.claim = NoClaim, !.live = FALSE]
  /\ Applied(i)
  /\ IF req'.turn \in Run THEN Return(i)
     ELSE Begin(i, [Idle EXCEPT !.pc = "complete", !.job = "close"])
  /\ UNCHANGED <<cmds, reports, session, completions, lost, used>>

\* The cursor moves under the claim.  A handler that lost it stops, but when the
\* run had failed it takes that for the end of the round.
Advance(i) ==
  /\ At(i, "advance")
  /\ IF Owns(i)
       THEN /\ req' = [req EXCEPT !.status = "running", !.turn = h[i].cmd + 1,
                         !.cmd = 0, !.event = "none", !.claim = NoClaim, !.live = FALSE]
            /\ Applied(i)
            /\ IF req'.turn \in Run THEN Return(i)
               ELSE Begin(i, [Idle EXCEPT !.pc = "complete", !.job = "close"])
       ELSE /\ UNCHANGED <<req, applied>>
            /\ IF h[i].event = "failed" THEN EndRound(i, "failed") ELSE Return(i)
  /\ UNCHANGED <<cmds, reports, session, completions, lost, used>>

EndSession(i) ==
  /\ At(i, "endSession")
  /\ session' = h[i].to
  /\ IF h[i].job = "timeout" THEN Goto(i, "readRow") ELSE Goto(i, "settle")
  /\ UNCHANGED <<req, cmds, reports, completions, history, used>>

\* A cancelled request keeps its claim and event.
Settle(i) ==
  /\ At(i, "settle")
  /\ IF Owns(i)
       THEN /\ req' = IF h[i].to = "failed"
                        THEN [req EXCEPT !.status = "failed", !.event = "none",
                                         !.claim = NoClaim, !.live = FALSE]
                        ELSE [req EXCEPT !.status = h[i].to]
            /\ Applied(i)
       ELSE UNCHANGED <<req, applied>>
  /\ Return(i)
  /\ UNCHANGED <<cmds, reports, session, completions, lost, used>>

\* _complete_run_request, past the last assignment.
CompleteSession(i) ==
  /\ At(i, "complete")
  /\ session' = "completed"
  /\ Begin(i, [h[i] EXCEPT !.pc = "readRow", !.to = "completed"])
  /\ UNCHANGED <<req, cmds, reports, completions, history, used>>

\* update_run_request reads the row in one transaction and writes all of it back
\* in the next, guarded by nothing.
ReadRow(i) ==
  /\ At(i, "readRow")
  /\ Begin(i, [h[i] EXCEPT !.pc = "writeRow", !.row = req])
  /\ UNCHANGED <<req, cmds, reports, session, completions, history, used>>

WriteRow(i) ==
  /\ At(i, "writeRow")
  /\ req' = IF h[i].job = "note" THEN h[i].row
            ELSE [h[i].row EXCEPT !.status = h[i].to]
  /\ lost' = (lost \/ [h[i].row EXCEPT !.live = req.live] # req)
  /\ Return(i)
  /\ UNCHANGED <<cmds, reports, session, completions, applied, used>>

-----------------------------------------------------------------------------
(* The writers that hold no claim.                                         *)

\* Output, a collaboration event or a renewed lease of a running command, ...
ReceiveProgress(i) ==
  /\ At(i, "idle") /\ Spend("note")
  /\ \E r \in Run : /\ cmds[r] = "delivered"
                   /\ Begin(i, [Idle EXCEPT !.pc = "note", !.job = "note", !.cmd = r])
  /\ UNCHANGED <<req, cmds, reports, session, completions, history>>

\* ... which _note_run_progress writes to a request active with that command.
NoteProgress(i) ==
  /\ At(i, "note")
  /\ IF req.cmd = h[i].cmd /\ req.status \in Active
       THEN Goto(i, "readRow") ELSE Return(i)
  /\ UNCHANGED <<req, cmds, reports, session, completions, history, used>>

\* _stale_run_outcome and _fail_run_request: the reaper ends the command as the
\* daemon would, and gives way when the command has ended already.
ReapStale(i) ==
  /\ At(i, "idle") /\ Spend("timeout")
  /\ session \notin Terminal /\ req.status = "running" /\ req.cmd # 0
  /\ cmds[req.cmd] = "delivered"
  /\ Begin(i, [Idle EXCEPT !.pc = "markRead", !.job = "timeout", !.cmd = req.cmd,
                           !.event = "failed", !.to = "failed"])
  /\ UNCHANGED <<req, cmds, reports, session, completions, history>>

RecordTimeout(i) ==
  /\ At(i, "recordTimeout")
  /\ completions' = [completions EXCEPT ![h[i].cmd] = @ + 1]
  /\ Goto(i, "endSession")
  /\ UNCHANGED <<req, cmds, reports, session, history, used>>

ReapFinalizingLive(i) ==   \* mutant: waits for a claim that is live
  /\ req.status = "finalizing" /\ req.live
  /\ Begin(i, [Idle EXCEPT !.pc = "claim", !.job = "event", !.cmd = req.cmd,
                           !.event = req.event])

\* A claim that ran out is taken over with the event kept in the request.
ReapFinalizing(i) ==
  /\ req.status = "finalizing" /\ ~req.live
  /\ Begin(i, [Idle EXCEPT !.pc = "claim", !.job = "event", !.cmd = req.cmd,
                           !.event = req.event])

\* The command has ended, and nobody claimed it: its event is in its row.
ReapEnded(i) ==
  /\ session \notin Terminal /\ req.status = "running" /\ req.cmd # 0
  /\ cmds[req.cmd] \in Terminal
  /\ Begin(i, [Idle EXCEPT !.pc = "claim", !.job = "event", !.cmd = req.cmd,
                           !.event = cmds[req.cmd]])

ReapPastEnd(i) ==
  /\ session \notin Terminal /\ req.status = "running" /\ req.turn \notin Run
  /\ Begin(i, [Idle EXCEPT !.pc = "complete", !.job = "close"])

ReapTerminalSession(i) ==
  /\ session \in Terminal /\ req.status = "running"
  /\ Begin(i, [Idle EXCEPT !.pc = "suppress", !.seen = "running", !.to = session])

Reap(i) ==
  /\ At(i, "idle")
  /\ \/ ReapFinalizing(i) \/ ReapEnded(i) \/ ReapPastEnd(i) \/ ReapTerminalSession(i)
  /\ UNCHANGED <<req, cmds, reports, session, completions, history, used>>

\* cancel_session_run: the request is fenced if it was not finalizing, ...
BeginStop(i) ==
  /\ At(i, "idle") /\ Spend("stop")
  /\ Begin(i, [Idle EXCEPT !.job = "stop", !.seen = req.status, !.to = "cancelled",
                 !.pc = IF req.status = "running" THEN "suppress" ELSE "stopSession"])
  /\ UNCHANGED <<req, cmds, reports, session, completions, history>>

\* update_run_request_if_status, for a stop or a terminal session.
Suppress(i) ==
  /\ At(i, "suppress")
  /\ req' = IF req.status # h[i].seen THEN req
            ELSE [req EXCEPT !.status = h[i].to]
  /\ IF h[i].job = "stop" THEN Goto(i, "stopSession") ELSE Return(i)
  /\ UNCHANGED <<cmds, reports, session, completions, history, used>>

\* ... and a run with a daemon is left to its run.cancel.  Else the thread is
\* cancelled here, unless it was found terminal.
StopSession(i) ==
  /\ At(i, "stopSession")
  /\ session' \in IF \E r \in Run : cmds[r] = "delivered" THEN {session}
                  ELSE {"cancelled"} \cup ({session} \cap Terminal)
  /\ Return(i)
  /\ UNCHANGED <<req, cmds, reports, completions, history, used>>

-----------------------------------------------------------------------------
ExpireClaim ==
  /\ req.live
  /\ IF \E i \in Handler : h[i].claim = req.claim
       THEN Spend("slow") ELSE UNCHANGED used
  /\ req' = [req EXCEPT !.live = FALSE]
  /\ UNCHANGED <<cmds, reports, session, completions, h, history>>

Crash(i) ==
  /\ ~At(i, "idle") /\ Spend("crash")
  /\ Return(i)
  /\ UNCHANGED <<req, cmds, reports, session, completions, history>>

Step(i) ==
  \/ MarkRead(i) \/ MarkWrite(i) \/ RecordTimeout(i) \/ ClaimTerminal(i)
  \/ CheckClaim(i) \/ ReadSession(i) \/ RecordCompletion(i) \/ Advance(i)
  \/ EndSession(i) \/ Settle(i) \/ CompleteSession(i) \/ ReadRow(i)
  \/ WriteRow(i) \/ NoteProgress(i) \/ Suppress(i) \/ StopSession(i)

Next ==
  \/ \E i \in Handler : \/ TerminalEvent(i) \/ ReceiveProgress(i) \/ ReapStale(i)
                        \/ Reap(i) \/ BeginStop(i) \/ Step(i) \/ Crash(i)
  \/ Dispatch \/ ExpireClaim

\* As in DispatchOutbox: the daemon ends every run it was given, the reaper runs
\* on every pass of monitor_nodes, a lease whose holder is gone runs out, and a
\* handler that does not die goes on.
Spec ==
  /\ Init /\ [][Next]_vars
  /\ \A i \in Handler : WF_vars(Step(i))
  /\ WF_vars(\E i \in Handler : TerminalEvent(i))
  /\ WF_vars(\E i \in Handler : Reap(i))
  /\ WF_vars(Dispatch) /\ WF_vars(ExpireClaim)

-----------------------------------------------------------------------------
Request == [status : Active \cup Terminal, cmd : 0 .. Turns, turn : 1 .. Turns + 1,
            event : Terminal \cup {"none"}, claim : Claim \cup {NoClaim},
            live : BOOLEAN]

Work == [pc : PCs, job : Jobs, cmd : 0 .. Turns, event : Terminal \cup {"none"},
         claim : Claim \cup {NoClaim}, logged : BOOLEAN,
         seen : Active \cup Terminal \cup {"none"}, to : Terminal \cup {"none"},
         row : Request]

\* The rows, the log's counts and what a handler holds have the shapes the code
\* gives them; an event that is claimed is one the store has kept.
TypeOK ==
  /\ req \in Request
  /\ cmds \in [Run -> Terminal \cup {"none", "delivered"}]
  /\ reports \in [Run -> Terminal \cup {"none"}]
  /\ session \in Terminal \cup {"running"}
  /\ completions \in [Run -> Nat] /\ applied \in [Run -> Nat]
  /\ h \in [Handler -> Work]
  /\ lost \in BOOLEAN /\ happened \subseteq Possible /\ left \in 0 .. MaxHazards

\* Retries, duplicates, takeovers and late handlers apply the end of a run to the
\* request once: the cursor does not move twice for it, nor after it ended the
\* round.
AppliedOnce == ~lost => \A r \in Run : applied[r] <= 1

\* The request moves past a run only when the run's end is in the session's log,
\* so no crash leaves a run that "never ended" behind the cursor.
LoggedFirst == \A r \in Run : applied[r] > 0 => completions[r] > 0

\* A handler that dies after it logged the end is taken over without a second
\* agent.completed ("existing_completion").  The check is not atomic with the
\* append: a claim that runs out under its holder, or a timeout, can double it.
LoggedOnce ==
  ~lost /\ happened \cap {"slow", "timeout"} = {} =>
    \A r \in Run : completions[r] <= 1

Quiet == /\ \A i \in Handler : At(i, "idle")
         /\ \A r \in Run : cmds[r] # "delivered"

\* A request that is over leaves no thread running behind it, not even while the
\* handler that ended it is at work, but for a stop.
ThreadEnds ==
  "stop" \notin happened /\ req.status \in Terminal => session \in Terminal

\* Nothing but an unguarded update reopens a request that is over: one that was
\* lost, or the timeout's, which keeps the claim of a handler at work.
TerminalIsFinal ==
  [][req.status \in Terminal /\ ~lost' /\ "timeout" \notin happened
       => req'.status \in Terminal]_vars

\* A round whose runs all end is over, whatever handlers die and whatever claims
\* run out on the way.
RoundEnds == <>(lost \/ req.status \in Terminal)

\* "Stop must never be a dead end that leaves a thread stuck running forever"
\* (cancel_session_run).  The code does not keep this: it fences the request of a
\* delivered run and leaves the thread to the run's event, which then finds no
\* request to claim.
StopEndsThread == Quiet /\ req.status \in Terminal /\ ~lost => session \in Terminal

\* "A late chunk from a superseded command must not revive the request"
\* (_note_run_progress).  The code does not keep this: the check is made on a
\* read that the write, of a whole row read again, does not depend on.
ProgressNeverRevives ==
  [][req.status \in Terminal => req'.status \in Terminal]_vars

-----------------------------------------------------------------------------
(* The inductive invariant behind AppliedOnce and LoggedFirst.             *)

\* A row that is being finalized names its run and the event of it.
Claimed(row) == row.status = "finalizing" => row.cmd \in Run /\ row.event \in Terminal

\* What a handler with work w has read, its next step needs.
Ready(w) ==
  /\ Claimed(w.row)
  /\ w.pc \in {"markRead", "markWrite", "recordTimeout", "claim", "fence", "readSession",
               "record", "advance"} => w.cmd \in Run /\ w.event \in Terminal
  /\ w.pc \in {"endSession", "settle"} => w.cmd \in Run /\ w.to \in Terminal
  /\ w.pc \in {"suppress", "readRow", "writeRow"} /\ w.job # "note" => w.to \in Terminal
  /\ w.pc = "recordTimeout" => w.job = "timeout"
  /\ w.pc = "note" => w.job = "note"
  /\ w.job = "note" => w.pc \in {"note", "readRow", "writeRow"}
  /\ w.job = "timeout" =>
       /\ w.pc \in {"markRead", "markWrite", "recordTimeout", "endSession", "readRow",
                    "writeRow"}
       /\ w.to = "failed"

Prepared == Claimed(req) /\ \A i \in Handler : Ready(h[i])

\* A handler past the log has found the run's end there, or put it there.
HasLogged(w, log) ==
  w.logged \/ w.pc \in {"advance", "endSession", "settle"} =>
    w.cmd \in Run /\ log[w.cmd] > 0

LoggedBefore == \A i \in Handler : HasLogged(h[i], completions)

\* A claim is held by one handler, and the end of a run is applied under one.
Works(pc, job) ==
  \/ pc \in {"fence", "readSession", "record", "advance", "settle"}
  \/ pc = "endSession" /\ job # "timeout"

HasClaim(w) == Works(w.pc, w.job) => w.claim \in Claim

ClaimHeldOnce ==
  /\ \A i \in Handler : HasClaim(h[i])
  /\ \A i, j \in Handler : h[i].claim \in Claim /\ h[i].claim = h[j].claim => i = j

\* The run at the cursor is not applied while the request waits for it, or while
\* somebody holds the claim for it; those after it are not applied at all.
CursorAhead ==
  ~lost =>
    /\ req.cmd \in {0, req.turn}
    /\ \A r \in Run : applied[r] <= 1 /\ (r > req.turn => applied[r] = 0)
    /\ req.turn \in Run /\ (req.cmd = 0 \/ req.status \in Active) => applied[req.turn] = 0
    /\ \A i \in Handler : h[i].claim \in Claim /\ Owns(i) =>
         req.cmd = h[i].cmd /\ h[i].cmd \in Run /\ applied[h[i].cmd] = 0

IndInv == Prepared /\ LoggedBefore /\ LoggedFirst /\ ClaimHeldOnce /\ CursorAhead

-----------------------------------------------------------------------------
(* What TerminalIsFinal, LoggedOnce and ThreadEnds need beyond it.         *)

\* A timeout or a stop at work has happened, only a running request is suppressed,
\* and no holder of a claim updates the whole row.
MarkedWork(w) ==
  /\ w.job \in {"timeout", "stop"} => w.job \in happened
  /\ w.pc = "suppress" => w.seen = "running"
  /\ w.pc \in {"complete", "readRow", "writeRow"} => w.job \in {"note", "timeout", "close"}

Marked == \A i \in Handler : MarkedWork(h[i])

\* Who closes the round is past its last run.
ClosesPastEnd == ~lost => \A i \in Handler : h[i].job = "close" => req.turn \notin Run

\* While somebody has the claim of the request, nobody else changes its status.
HolderFinalizes ==
  ~lost /\ "timeout" \notin happened =>
    \A i \in Handler : h[i].claim \in Claim /\ Owns(i) => req.status = "finalizing"

\* A claim does not run out under its holder, so nobody takes it over; ...
Undisturbed == ~lost /\ happened \cap {"slow", "timeout"} = {}

HoldersOwn ==
  Undisturbed =>
    \A i \in Handler : h[i].claim \in Claim =>
      /\ Owns(i) /\ req.live
      /\ \A j \in Handler : h[j].row.claim = h[i].claim => h[j].row.live

\* ... and a handler that found no end of the run in the log is the only one to add it.
AddsFirst ==
  Undisturbed =>
    /\ \A r \in Run : completions[r] <= 1
    /\ \A i \in Handler :
         h[i].pc = "record" /\ ~h[i].logged => completions[h[i].cmd] = 0

\* A handler that has ended the session, or has seen it or its request ended.
HasEnded(w) ==
  \/ w.seen \in Terminal \/ w.row.status \in Terminal \/ w.pc \in {"settle", "suppress"}
  \/ w.pc \in {"readRow", "writeRow"} /\ w.job # "note"

\* The session is ended before the request is, and stays so.
SessionFirst ==
  "stop" \notin happened /\ (req.status \in Terminal \/ \E i \in Handler : HasEnded(h[i]))
    => session \in Terminal

EndInv ==
  Marked /\ ClosesPastEnd /\ HolderFinalizes /\ HoldersOwn /\ AddsFirst /\ SessionFirst

=============================================================================
