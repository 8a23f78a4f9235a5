--------------------------- MODULE DispatchOutbox ---------------------------
(***************************************************************************)
(* The outbox between the collaboration conductor and the daemon nodes:    *)
(* one durable run request, the run.start commands staged for it and the   *)
(* session (thread) it runs in.                                            *)
(*                                                                         *)
(* Every action is one database transaction (a store_transaction of        *)
(* daemon_store.py, or a locked append to the session's event log) made by *)
(* a handler: a request thread, a terminal-event thread, a poll or the     *)
(* reaper, in any backend replica.  What a handler read before its next    *)
(* transaction stays in its record h[i], and may be stale when used.  The  *)
(* registry's locks are not modelled: they are per process, and            *)
(* dispatch_scope and dispatch_lock do not exclude each other.             *)
(*                                                                         *)
(* Placement eligibility, the outcome of a run and the lease clocks are    *)
(* nondeterministic.  The thread is new: its session exists, its round is  *)
(* not recorded yet.  A round runs on one node (ADR-011), so the request   *)
(* never changes node.                                                     *)
(***************************************************************************)
EXTENDS Naturals

CONSTANTS
  Handler,      \* threads of the backend replicas that can be at work at once
  Command,      \* ids of run.start commands, and of the agent runs they start
  Claim,        \* ids of dispatch and terminal claims
  Turns,        \* runs the round takes, repairs included
  MaxCrashes,   \* bound: handlers lost between two transactions
  MaxSlow,      \* bound: claims that expire while their holder is alive
  MaxStops,     \* bound: stop requests of the user
  NoCommand, NoClaim

ASSUME TurnsAssumption  == Turns \in Nat \ {0}
ASSUME IdsAssumption    == NoCommand \notin Command /\ NoClaim \notin Claim
ASSUME BoundsAssumption ==
  MaxCrashes \in Nat /\ MaxSlow \in Nat /\ MaxStops \in Nat

VARIABLES
  req,      \* the run request row
  cmds,     \* the command rows; "none" is no row
  session,  \* status of the session projection
  round,    \* is collaboration.round.started in the session's log?
  h,        \* the handlers
  lost,     \* history: an unguarded update overwrote a change it had not read
  fenced,   \* history: a stop fenced the request while nothing was delivered
  stopped,  \* history: a stop cancelled the thread with nothing in flight
  crashes, slow, stops

counters == <<crashes, slow, stops>>
history  == <<lost, fenced, stopped>>
vars     == <<req, cmds, session, round, h, history, counters>>

-----------------------------------------------------------------------------
Terminal      == {"completed", "failed", "cancelled"}
Cancellable   == {"prepared", "running", "dispatching"}
Active        == Cancellable \cup {"finalizing"}
SessionStatus == {"running"} \cup Terminal

\* "leased" and "delivered" are both the store's "dispatched": leased by a
\* poll whose answer is not written yet, and written in the answer.
CommandStatus == {"none", "pending", "queued", "leased", "delivered", "done"}
Delivered     == {"leased", "delivered"}
InFlight      == {"queued"} \cup Delivered

Jobs == {"none", "dispatch", "recover", "expire", "stop"}
PCs  == {"idle", "record", "activate", "cas", "recheck", "claim", "stage",
         "start", "link", "publish", "reclaim", "stamp", "fence", "discard",
         "stopSession", "deliver", "finalize", "advance", "endSession",
         "settle", "close", "write", "overwrite", "expireSession"}

Prepared == [status |-> "prepared", cmd |-> NoCommand, claim |-> NoClaim,
             live |-> FALSE, turn |-> 0]

Idle == [pc |-> "idle", job |-> "none", cmd |-> NoCommand, claim |-> NoClaim,
         turn |-> 0, seen |-> "none", to |-> "none", row |-> Prepared]

ClaimsInUse == {req.claim} \cup {cmds[c].claim : c \in Command}
                           \cup {h[i].claim : i \in Handler}
                           \cup {h[i].row.claim : i \in Handler}
FreeClaims  == Claim \ ClaimsInUse

\* A run id is recorded in the session for ever: not reused once started.
FreeCommands ==
  {c \in Command : /\ cmds[c].status = "none"
                   /\ ~cmds[c].started
                   /\ \A i \in Handler : h[i].cmd # c}

NewClaim   == CHOOSE k \in FreeClaims : TRUE
NewCommand == CHOOSE c \in FreeCommands : TRUE

With(S)  == {c \in Command : cmds[c].status \in S}
Pending  == With({"pending"})

Unused == [status |-> "none", turn |-> 0, claim |-> NoClaim, started |-> FALSE]

Init ==
  /\ req = Prepared
  /\ cmds = [c \in Command |-> Unused]
  /\ session = "running"
  /\ round = FALSE
  /\ h = [i \in Handler |-> Idle]
  /\ lost = FALSE /\ fenced = FALSE /\ stopped = FALSE
  /\ crashes = 0 /\ slow = 0 /\ stops = 0

At(i, pc)   == h[i].pc = pc
Begin(i, r) == h' = [h EXCEPT ![i] = r]
Return(i)   == Begin(i, Idle)
Goto(i, pc) == Begin(i, [h[i] EXCEPT !.pc = pc])
SetStatus(c, s) == cmds' = [cmds EXCEPT ![c].status = s]

-----------------------------------------------------------------------------
(* Admission: a request thread records the round and activates the request. *)

\* The first attempt, or a retry that finds the same prepared request.
Admit(i) ==
  /\ At(i, "idle") /\ req.status = "prepared"
  /\ Begin(i, [Idle EXCEPT !.pc = "record", !.job = "dispatch"])
  /\ UNCHANGED <<req, cmds, session, round, history, counters>>

RecordRound(i) ==
  /\ At(i, "record")
  /\ round' = TRUE
  /\ Goto(i, "activate")
  /\ UNCHANGED <<req, cmds, session, history, counters>>

\* A terminal session turns a prepared request terminal instead.
ActivateCheck(i) ==
  /\ At(i, "activate")
  /\ IF session \in Terminal
       THEN /\ req' = IF req.status = "prepared"
                        THEN [req EXCEPT !.status = session] ELSE req
            /\ Return(i)
       ELSE Goto(i, "cas") /\ UNCHANGED req
  /\ UNCHANGED <<cmds, session, round, history, counters>>

ActivateCas(i) ==
  /\ At(i, "cas")
  /\ req' = IF req.status = "prepared"
              THEN [req EXCEPT !.status = "running"] ELSE req
  /\ IF req'.status \in {"running", "dispatching"} /\ req.cmd = NoCommand
       THEN Begin(i, [h[i] EXCEPT !.pc = "recheck", !.turn = req.turn])
       ELSE Return(i)
  /\ UNCHANGED <<cmds, session, round, history, counters>>

ActivateRecheck(i) ==
  /\ At(i, "recheck")
  /\ IF session \in Terminal THEN Return(i) ELSE Goto(i, "claim")
  /\ UNCHANGED <<req, cmds, session, round, history, counters>>

-----------------------------------------------------------------------------
(* Dispatch of the assignment h[i].turn, as the handler last saw it.       *)

Claimable == /\ req.status \in {"running", "dispatching"}
             /\ req.cmd = NoCommand
             /\ ~(req.status = "dispatching" /\ req.live)

ClaimedBy(k) == [req EXCEPT !.status = "dispatching", !.claim = k, !.live = TRUE]

\* claim_run_request_dispatch for a command that is not staged yet.
ClaimDispatch(i) ==
  /\ At(i, "claim") /\ h[i].turn < Turns
  /\ IF Claimable
       THEN /\ FreeClaims # {} /\ FreeCommands # {}
            /\ req' = ClaimedBy(NewClaim)
            /\ Begin(i, [h[i] EXCEPT !.pc = "stage", !.claim = NewClaim,
                              !.cmd = NewCommand])
       ELSE Return(i) /\ UNCHANGED req
  /\ UNCHANGED <<cmds, session, round, history, counters>>

\* The placement is no longer eligible, or the cursor is past the last
\* assignment: the round ends without a claim.
EndWithoutClaim(i) ==
  /\ At(i, "claim")
  /\ Begin(i, [h[i] EXCEPT !.pc = "close",
                    !.to = IF h[i].turn < Turns THEN "failed" ELSE "completed"])
  /\ UNCHANGED <<req, cmds, session, round, history, counters>>

Owns(i) == req.status = "dispatching" /\ req.claim = h[i].claim

StageUnrecorded(i) ==   \* mutant: agent.started is forgotten
  /\ At(i, "stage")
  /\ IF Owns(i)
       THEN /\ cmds' = [cmds EXCEPT ![h[i].cmd].status = "pending",
                 ![h[i].cmd].turn = h[i].turn, ![h[i].cmd].claim = h[i].claim]
            /\ Goto(i, "link")
       ELSE Return(i) /\ UNCHANGED cmds
  /\ UNCHANGED <<req, session, round, history, counters>>

StageCommand(i) ==
  /\ At(i, "stage")
  /\ IF Owns(i)
       THEN /\ cmds' = [cmds EXCEPT ![h[i].cmd].status = "pending",
                 ![h[i].cmd].turn = h[i].turn, ![h[i].cmd].claim = h[i].claim]
            /\ Goto(i, "start")
       ELSE Return(i) /\ UNCHANGED cmds
  /\ UNCHANGED <<req, session, round, history, counters>>

\* agent.started is idempotent by run id, and sets the session running
\* whatever its status was.
EnsureStarted(i) ==
  /\ At(i, "start")
  /\ cmds' = [cmds EXCEPT ![h[i].cmd].started = TRUE]
  /\ session' = IF cmds[h[i].cmd].started THEN session ELSE "running"
  /\ Goto(i, "link")
  /\ UNCHANGED <<req, round, history, counters>>

LinkUnclaimed(i) ==   \* mutant: the claim is not compared
  /\ At(i, "link")
  /\ req' = [req EXCEPT !.status = "running", !.cmd = h[i].cmd,
                        !.claim = NoClaim, !.live = FALSE]
  /\ Goto(i, "publish")
  /\ UNCHANGED <<cmds, session, round, history, counters>>

\* The link replaces the request's state, so the dispatch claim is dropped.
\* The reaper claims again, once, when its link is refused.
LinkCommand(i) ==
  /\ At(i, "link")
  /\ IF Owns(i)
       THEN /\ req' = [req EXCEPT !.status = "running", !.cmd = h[i].cmd,
                                  !.claim = NoClaim, !.live = FALSE]
            /\ Goto(i, "publish")
       ELSE /\ UNCHANGED req
            /\ IF h[i].job = "recover"
                 THEN Begin(i, [h[i] EXCEPT !.pc = "reclaim", !.job = "dispatch"])
                 ELSE Return(i)
  /\ UNCHANGED <<cmds, session, round, history, counters>>

PublishCommand(i) ==
  /\ At(i, "publish")
  /\ IF /\ req.status = "running" /\ req.cmd = h[i].cmd
        /\ cmds[h[i].cmd].status = "pending"
       THEN SetStatus(h[i].cmd, "queued") ELSE UNCHANGED cmds
  /\ Return(i)
  /\ UNCHANGED <<req, session, round, history, counters>>

-----------------------------------------------------------------------------
(* The daemon's poll, and its terminal event.                              *)

RequestIsLive(c) == req.status = "running" /\ req.cmd = c

TakeUnchecked(i) ==   \* mutant: the request is not looked at
  /\ At(i, "idle")
  /\ \E c \in With(InFlight) :
       /\ \A j \in Handler : ~(At(j, "deliver") /\ h[j].cmd = c)
       /\ SetStatus(c, "leased")
       /\ Begin(i, [Idle EXCEPT !.pc = "deliver", !.cmd = c])
  /\ UNCHANGED <<req, session, round, history, counters>>

\* take_queued_commands: a queued command, or one whose lease ran out, is
\* leased if its request is still waiting for it, and cancelled if not.  A
\* lease outlasts the poll that took it, and redelivery to a daemon that has the
\* command already changes nothing here.
TakeQueued(i) ==
  /\ At(i, "idle")
  /\ \E c \in With(InFlight) :
       /\ \A j \in Handler : ~(At(j, "deliver") /\ h[j].cmd = c)
       /\ ~(cmds[c].status = "delivered" /\ RequestIsLive(c))
       /\ IF RequestIsLive(c)
            THEN /\ SetStatus(c, "leased")
                 /\ Begin(i, [Idle EXCEPT !.pc = "deliver", !.cmd = c])
            ELSE SetStatus(c, "done") /\ UNCHANGED h
  /\ UNCHANGED <<req, session, round, history, counters>>

\* _take_commands_unlocked looks at the request and the session again before
\* it writes the answer.
Deliver(i) ==
  /\ At(i, "deliver")
  /\ IF RequestIsLive(h[i].cmd) /\ session \notin Terminal
       THEN /\ IF cmds[h[i].cmd].status = "leased"
                 THEN SetStatus(h[i].cmd, "delivered") ELSE UNCHANGED cmds
            /\ Return(i)
       ELSE /\ IF cmds[h[i].cmd].status \in Delivered
                 THEN SetStatus(h[i].cmd, "done") ELSE UNCHANGED cmds
            /\ IF req.status \in Cancellable
                 THEN Begin(i, [h[i] EXCEPT !.pc = "fence", !.seen = req.status,
                      !.to = IF session \in Terminal THEN session ELSE "cancelled"])
                 ELSE Return(i)
  /\ UNCHANGED <<req, session, round, history, counters>>

\* The node has lost a capability that the workspace of the command needs: the
\* request is failed, with the command it waits for, unless that one is over.
RefuseNode(i) ==
  /\ At(i, "deliver")
  /\ IF req.cmd \in Command \ With(InFlight)
       THEN Return(i) /\ UNCHANGED cmds
       ELSE /\ Begin(i, [Idle EXCEPT !.pc = "close", !.to = "failed"])
            /\ IF req.cmd = NoCommand THEN UNCHANGED cmds ELSE SetStatus(req.cmd, "done")
  /\ UNCHANGED <<req, session, round, history, counters>>

\* mark_command_terminal accepts the event of a delivered command.
TerminalEvent(i) ==
  /\ At(i, "idle")
  /\ \E c \in With({"delivered"}) :
       /\ SetStatus(c, "done")
       /\ Begin(i, [Idle EXCEPT !.pc = "finalize", !.cmd = c])
  /\ UNCHANGED <<req, session, round, history, counters>>

ClaimTerminal(i) ==
  /\ At(i, "finalize")
  /\ IF /\ req.status \in Active /\ req.cmd = h[i].cmd
        /\ ~(req.status = "finalizing" /\ req.live)
       THEN /\ FreeClaims # {}
            /\ req' = [req EXCEPT !.status = "finalizing", !.claim = NewClaim,
                                  !.live = TRUE]
            /\ Begin(i, [h[i] EXCEPT !.pc = "advance", !.claim = NewClaim])
       ELSE Return(i) /\ UNCHANGED req
  /\ UNCHANGED <<cmds, session, round, history, counters>>

\* The run succeeded: the cursor moves and the same handler goes on.
AdvanceNext(i) ==
  /\ At(i, "advance")
  /\ IF req.claim = h[i].claim
       THEN /\ req' = [req EXCEPT !.status = "running", !.turn = req.turn + 1,
                         !.cmd = NoCommand, !.claim = NoClaim, !.live = FALSE]
            /\ Begin(i, [h[i] EXCEPT !.pc = "claim", !.turn = req.turn + 1,
                       !.job = "dispatch", !.cmd = NoCommand,
                       !.claim = NoClaim])
       ELSE Return(i) /\ UNCHANGED req
  /\ UNCHANGED <<cmds, session, round, history, counters>>

AdvanceEndUnnamed(i) ==   \* mutant: the outcome is not kept
  /\ At(i, "advance") /\ req.claim = h[i].claim
  /\ Goto(i, "endSession")
  /\ UNCHANGED <<req, cmds, session, round, history, counters>>

\* The run failed or was cancelled, and that ends the round.  The session is
\* not written when it was read with that status.
AdvanceEnd(i) ==
  /\ At(i, "advance") /\ req.claim = h[i].claim
  /\ \E s \in {"failed", "cancelled"} :
       Begin(i, [h[i] EXCEPT !.to = s,
                   !.pc = IF session = s THEN "settle" ELSE "endSession"])
  /\ UNCHANGED <<req, cmds, session, round, history, counters>>

EndSession(i) ==
  /\ At(i, "endSession")
  /\ session' = h[i].to
  /\ Goto(i, "settle")
  /\ UNCHANGED <<req, cmds, round, history, counters>>

Settle(i) ==
  /\ At(i, "settle")
  /\ req' = IF req.claim = h[i].claim
              THEN [req EXCEPT !.status = h[i].to,
                      !.claim = IF h[i].to = "failed" THEN NoClaim ELSE @]
              ELSE req
  /\ Return(i)
  /\ UNCHANGED <<cmds, session, round, history, counters>>

\* _complete_run_request and _fail_run_request: the session first, then the
\* request.
CloseSession(i) ==
  /\ At(i, "close")
  /\ session' = h[i].to
  /\ Goto(i, "write")
  /\ UNCHANGED <<req, cmds, round, history, counters>>

\* update_run_request reads the row, and then writes all of it back with the
\* new status, guarded by nothing.
ReadRow(i) ==
  /\ At(i, "write")
  /\ Begin(i, [h[i] EXCEPT !.pc = "overwrite", !.row = req])
  /\ UNCHANGED <<req, cmds, session, round, history, counters>>

OverwriteRow(i) ==
  /\ At(i, "overwrite")
  /\ req' = [h[i].row EXCEPT !.status = h[i].to]
  /\ lost' = (lost \/ [h[i].row EXCEPT !.live = req.live] # req)
  /\ IF h[i].job = "expire" THEN Goto(i, "expireSession") ELSE Return(i)
  /\ UNCHANGED <<cmds, session, round, fenced, stopped, counters>>

-----------------------------------------------------------------------------
(* The reaper.  A pass reads the request, the session and the staged       *)
(* command, and acts on what it read.                                      *)

Recovery(i, pc) == [Idle EXCEPT !.pc = pc, !.job = "recover", !.turn = req.turn]

\* The session is terminal: the request takes its status and is not delivered.
ReapTerminalSession(i) ==
  /\ session \in Terminal
  /\ \/ /\ req.status = "prepared"
        /\ Begin(i, [Recovery(i, "write") EXCEPT !.to = session])
     \/ /\ req.status \in {"running", "dispatching"}
        /\ Begin(i, [Recovery(i, "fence") EXCEPT !.seen = req.status,
                                                 !.to = session])

\* A prepared request is activated if its round is durable, and expires if not.
ReapPrepared(i) ==
  /\ session \notin Terminal /\ req.status = "prepared"
  /\ Begin(i, IF round THEN Recovery(i, "activate")
              ELSE [Recovery(i, "write") EXCEPT !.job = "expire", !.to = "failed"])

ReapFinalizing(i) ==
  /\ req.status = "finalizing" /\ ~req.live
  /\ Begin(i, [Recovery(i, "finalize") EXCEPT !.cmd = req.cmd])

ReapStagedStarted(i) ==   \* mutant: waits for agent.started
  /\ session \notin Terminal
  /\ req.status \in {"running", "dispatching"} /\ req.cmd = NoCommand
  /\ \E c \in Pending :
       /\ cmds[c].started
       /\ Begin(i, [Recovery(i, "link") EXCEPT !.cmd = c, !.claim = cmds[c].claim])

\* A command is staged but not linked: take it over.
ReapStaged(i) ==
  /\ session \notin Terminal
  /\ req.status \in {"running", "dispatching"} /\ req.cmd = NoCommand
  /\ \E c \in Pending :
       Begin(i, [Recovery(i, IF cmds[c].started THEN "link" ELSE "reclaim")
                   EXCEPT !.cmd = c, !.claim = cmds[c].claim])

\* Nothing is staged and no live claim says it will be: dispatch again.
ReapUnstaged(i) ==
  /\ session \notin Terminal
  /\ req.cmd = NoCommand /\ Pending = {} /\ Claimable
  /\ Begin(i, Recovery(i, "claim"))

ReapLinked(i) ==
  /\ session \notin Terminal
  /\ req.status = "running" /\ req.cmd # NoCommand
  /\ \/ /\ cmds[req.cmd].status = "pending"
        /\ Begin(i, [Recovery(i, "publish") EXCEPT !.cmd = req.cmd])
     \/ /\ cmds[req.cmd].status = "done"
        /\ Begin(i, [Recovery(i, "finalize") EXCEPT !.cmd = req.cmd])

Reap(i) ==
  /\ At(i, "idle")
  /\ \/ ReapTerminalSession(i) \/ ReapPrepared(i) \/ ReapFinalizing(i)
     \/ ReapStaged(i) \/ ReapUnstaged(i) \/ ReapLinked(i)
  /\ UNCHANGED <<req, cmds, session, round, history, counters>>

\* claim_run_request_dispatch for a command that is staged already.
ReclaimDispatch(i) ==
  /\ At(i, "reclaim")
  /\ IF Claimable
       THEN /\ FreeClaims # {}
            /\ req' = ClaimedBy(NewClaim)
            /\ Begin(i, [h[i] EXCEPT !.pc = "stamp", !.claim = NewClaim])
       ELSE Return(i) /\ UNCHANGED req
  /\ UNCHANGED <<cmds, session, round, history, counters>>

\* update_staged_command writes the new claim into the command.
StampCommand(i) ==
  /\ At(i, "stamp")
  /\ cmds' = IF cmds[h[i].cmd].status = "pending"
               THEN [cmds EXCEPT ![h[i].cmd].claim = h[i].claim] ELSE cmds
  /\ Goto(i, "start")
  /\ UNCHANGED <<req, session, round, history, counters>>

ExpireSession(i) ==
  /\ At(i, "expireSession")
  /\ session' = "failed"
  /\ Return(i)
  /\ UNCHANGED <<req, cmds, round, history, counters>>

-----------------------------------------------------------------------------
(* Stop: the user cancels the thread, or marks it done.                    *)

BeginStop(i) ==
  /\ At(i, "idle") /\ stops < MaxStops
  /\ stops' = stops + 1
  /\ Begin(i, [Idle EXCEPT !.job = "stop", !.seen = req.status, !.to = "cancelled",
                 !.pc = IF req.status \in Cancellable THEN "fence" ELSE "stopSession"])
  /\ UNCHANGED <<req, cmds, session, round, history, crashes, slow>>

\* update_run_request_if_status from the status the handler read: for a stop,
\* for a request whose session is terminal and for a delivery suppressed.
Fence(i) ==
  /\ At(i, "fence")
  /\ IF req.status = h[i].seen
       THEN /\ req' = [req EXCEPT !.status = h[i].to,
                         !.claim = IF h[i].job = "stop" THEN NoClaim ELSE @]
            /\ IF h[i].job = "none" THEN Return(i) ELSE Goto(i, "discard")
            /\ fenced' = (fenced \/ (h[i].job = "stop" /\ With(Delivered) = {}))
       ELSE /\ UNCHANGED <<req, fenced>>
            /\ IF h[i].job = "stop" THEN Goto(i, "stopSession") ELSE Return(i)
  /\ UNCHANGED <<cmds, session, round, lost, stopped, counters>>

\* The staged command of a fenced request is deleted.
Discard(i) ==
  /\ At(i, "discard")
  /\ LET staged == IF req.cmd # NoCommand THEN Pending \cap {req.cmd} ELSE Pending
     IN  IF staged = {} THEN UNCHANGED cmds
         ELSE \E c \in staged :
                cmds' = [cmds EXCEPT ![c] = [Unused EXCEPT !.started = cmds[c].started]]
  /\ IF h[i].job = "stop" THEN Goto(i, "stopSession") ELSE Return(i)
  /\ UNCHANGED <<req, session, round, history, counters>>

\* A run in flight is left to its run.cancel command; else the thread is
\* cancelled here, unless it was found terminal.  A decision of the user ends it
\* in both cases: cancelled, or completed when the thread is marked done.
StopSession(i) ==
  /\ At(i, "stopSession")
  /\ \/ With(InFlight) # {} /\ UNCHANGED <<session, stopped>>
     \/ /\ session' \in {"cancelled", "completed"} \cup ({session} \cap Terminal)
        /\ stopped' = (stopped \/ With(InFlight) = {})
  /\ Return(i)
  /\ UNCHANGED <<req, cmds, round, lost, fenced, counters>>

-----------------------------------------------------------------------------
\* The lease of the dispatch or terminal claim runs out.  That is in time for
\* a handler that is gone, and early for one that is merely slow.
ExpireClaim ==
  /\ req.live
  /\ LET held == \E i \in Handler : /\ h[i].claim = req.claim
                                     /\ h[i].pc \notin {"idle", "reclaim"}
     IN  IF held THEN slow < MaxSlow /\ slow' = slow + 1 ELSE UNCHANGED slow
  /\ req' = [req EXCEPT !.live = FALSE]
  /\ UNCHANGED <<cmds, session, round, h, history, crashes, stops>>

\* The process of a handler dies between two transactions.
Crash(i) ==
  /\ ~At(i, "idle") /\ crashes < MaxCrashes
  /\ crashes' = crashes + 1
  /\ Return(i)
  /\ UNCHANGED <<req, cmds, session, round, history, slow, stops>>

Step(i) ==
  \/ RecordRound(i) \/ ActivateCheck(i) \/ ActivateCas(i) \/ ActivateRecheck(i)
  \/ ClaimDispatch(i) \/ EndWithoutClaim(i) \/ StageCommand(i)
  \/ EnsureStarted(i) \/ LinkCommand(i) \/ PublishCommand(i) \/ Deliver(i)
  \/ RefuseNode(i)
  \/ ClaimTerminal(i) \/ AdvanceNext(i) \/ AdvanceEnd(i) \/ EndSession(i)
  \/ Settle(i) \/ CloseSession(i) \/ ReadRow(i) \/ OverwriteRow(i) \/ ReclaimDispatch(i)
  \/ StampCommand(i) \/ ExpireSession(i)
  \/ Fence(i) \/ Discard(i) \/ StopSession(i)

Next ==
  \/ \E i \in Handler : \/ Admit(i) \/ TakeQueued(i) \/ TerminalEvent(i)
                        \/ Reap(i) \/ BeginStop(i) \/ Step(i) \/ Crash(i)
  \/ ExpireClaim

Spec == Init /\ [][Next]_vars

\* The reaper runs on every pass of monitor_nodes, the daemon keeps polling
\* and ends every run it was given, a lease whose holder is gone runs out,
\* and a handler that does not die goes on.
FairSpec ==
  /\ Spec
  /\ \A i \in Handler : WF_vars(Step(i))
  /\ WF_vars(\E i \in Handler : TakeQueued(i))
  /\ WF_vars(\E i \in Handler : TerminalEvent(i))
  /\ WF_vars(\E i \in Handler : Reap(i))
  /\ WF_vars(ExpireClaim)

-----------------------------------------------------------------------------
Request      == [status : Active \cup Terminal, cmd : Command \cup {NoCommand},
                 claim : Claim \cup {NoClaim}, live : BOOLEAN, turn : Nat]
CommandRow   == [status : CommandStatus, turn : Nat, claim : Claim \cup {NoClaim},
                 started : BOOLEAN]
HandlerState == [pc : PCs, job : Jobs, cmd : Command \cup {NoCommand},
                 claim : Claim \cup {NoClaim}, turn : Nat,
                 seen : Active \cup Terminal \cup {"none"}, to : Terminal \cup {"none"},
                 row : Request]

\* The rows, the session and what a handler holds between two transactions
\* have the shapes the store and the registry give them: a cursor that is a
\* number, a terminal status to write, a command and a claim or none.
TypeOK ==
  /\ req \in Request
  /\ cmds \in [Command -> CommandRow]
  /\ session \in SessionStatus
  /\ round \in BOOLEAN
  /\ h \in [Handler -> HandlerState]
  /\ lost \in BOOLEAN /\ fenced \in BOOLEAN /\ stopped \in BOOLEAN
  /\ crashes \in Nat /\ slow \in Nat /\ stops \in Nat

-----------------------------------------------------------------------------
(* Safety.                                                                 *)

\* "The assignment is authorized and recorded before a daemon can claim it"
\* (ADR-016): whatever is queued or with a daemon has its agent.started in the
\* session's log, through every crash, takeover and late handler.
RecordedBeforeDelivery == \A c \in With(InFlight) : cmds[c].started

\* Claim, link and publish exclude each other, so a request never has two runs
\* queued or with a daemon, though two handlers may each have staged one; only
\* a lost update of update_run_request can break this.
OneRunInFlight == ~lost => \A c, d \in With(InFlight) : c = d

\* A stop that fenced the request while nothing was delivered is final: no
\* staged, linked or queued command reaches a daemon afterwards, lost updates
\* apart.
FencedNeverDelivered == fenced /\ ~lost => With(Delivered) = {}

\* A stop that found nothing in flight and cancelled the thread is final too
\* (ADR-016: cancellation "cannot race a prepared request into daemon
\* delivery").  The code does not keep this: the fence is a compare-and-set
\* from a status read earlier, and gives up when the status has moved on.
StoppedNeverDelivered == stopped => With({"delivered"}) = {}

\* Only a reservation whose round "never committed" expires (ADR-016), so none
\* does when its run is with a daemon.  The code does not keep this: the round is
\* looked up before update_run_request, which compares nothing when it writes.
ExpiredNeverDelivered ==
  \A i \in Handler : At(i, "expireSession") => With({"delivered"}) = {}

(* The inductive invariant.                                                *)

\* Where a handler works under a terminal claim.
Finalizing == {"advance", "endSession", "settle"}

\* A handler past its read knows what its next transaction needs.
Knows(r) ==
  /\ r.pc \in {"stage", "start", "link", "stamp", "publish", "reclaim",
               "deliver", "finalize"} => r.cmd \in Command
  /\ r.pc \in Finalizing => r.claim \in Claim
  /\ r.pc \in {"fence", "endSession", "settle", "close", "write", "overwrite"}
       => r.to \in Terminal
  /\ r.pc = "fence" => r.seen \in Cancellable

HandlersKnow == \A i \in Handler : Knows(h[i])

\* A command about to be staged is new and in one handler's hands.
StagedOnce ==
  \A i \in Handler : At(i, "stage") =>
    /\ cmds[h[i].cmd].status = "none" /\ ~cmds[h[i].cmd].started
    /\ \A j \in Handler : h[j].cmd = h[i].cmd => j = i

\* Only a request that is running, finalizing or over has a current command,
\* and one that is finalizing has.
CommandMatchesStatus ==
  /\ req.status \in {"prepared", "dispatching"} => req.cmd = NoCommand
  /\ req.status = "finalizing" => req.cmd # NoCommand

\* Only a recorded run is linked, in the row or in a handler's copy of it.
RecordedBeforeLink ==
  /\ req.cmd # NoCommand => cmds[req.cmd].started
  /\ \A i \in Handler :
       /\ At(i, "link") => cmds[h[i].cmd].started
       /\ h[i].row.cmd # NoCommand => cmds[h[i].row.cmd].started

\* What is in flight is the request's current command.
InFlightIsLinked == \A c \in With(InFlight) : req.cmd = c

\* A request is finalized for a run that is over.
FinalizedIsDone ==
  /\ req.status = "finalizing" => req.cmd \in With({"done"})
  /\ \A i \in Handler :
       /\ At(i, "finalize") => h[i].cmd \in With({"done"})
       /\ h[i].pc \in Finalizing /\ h[i].claim = req.claim
            => req.cmd \in With({"done"})

\* A fenced request stays over: no claim is left that could move it.
FenceHolds ==
  fenced => /\ req.status \in Terminal /\ req.claim = NoClaim
            /\ With(Delivered) = {}

IndInv ==
  /\ HandlersKnow /\ StagedOnce /\ CommandMatchesStatus /\ RecordedBeforeLink
  /\ RecordedBeforeDelivery
  /\ ~lost => InFlightIsLinked /\ FinalizedIsDone /\ FenceHolds

-----------------------------------------------------------------------------
(* Liveness.                                                               *)

\* A prepared request is never stuck: whatever handlers die and whatever claims
\* run out early, the request ends, and with it the reservation of the session
\* and of the node's capacity.
RequestTerminates == <>(req.status \in Terminal)

=============================================================================
