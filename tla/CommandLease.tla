---------------------------- MODULE CommandLease ----------------------------
(***************************************************************************)
(* Delivery of one run.start command, and of the run.cancel that may       *)
(* follow it, to a daemon node: leases, polls, heartbeats, terminal events *)
(* and what the network and the processes lose.                            *)
(*                                                                         *)
(* The daemon (packages/relay-daemon) polls in a loop, one poll at a time, *)
(* renews the leases of its active runs from a timer, and posts the end of *)
(* a run until it is answered.  Backend handlers act in transactions, as   *)
(* in DispatchOutbox; one that reads a row without a lock and writes all   *)
(* of it back can be overtaken between the two.  Lease ids are numbered    *)
(* from 1 as they are given; 0 is none.  The expiry of a lease is a flag.  *)
(***************************************************************************)
EXTENDS Integers

CONSTANTS
  Handler,    \* threads of the backend replicas that can be at work at once
  Possible,   \* the Hazards that may happen
  MaxHazards  \* bound: how many do

Hazards == {"lost",     \* the answer to a poll does not reach the daemon
            "retry",    \* a post is made again while the first is being handled
            "late",     \* a lease expires though the daemon holds it
            "slow",     \* others act between the read and the write of a row
            "restart",  \* the daemon process dies and starts again
            "die",      \* a backend handler dies between two transactions
            "stop",     \* the user stops the thread
            "timeout"}  \* the reaper ends the run as idle or too long

ASSUME HazardsAssumption == Possible \subseteq Hazards /\ MaxHazards \in Nat

VARIABLES
  start,     \* the run.start row
  given,     \* how many leases it was given
  cancel,    \* the run.cancel row
  request,   \* is the run request running, with this command current?
  answer,    \* what a poll has taken and the daemon has not got yet
  d,         \* the daemon: its entry in activeRuns
  h,         \* the backend handlers
  begun,     \* history: the run has begun at least once
  ended,     \* history: the run.start row was terminal before
  happened,  \* the hazards that happened so far
  left       \* how many more may

history == <<begun, ended>>
used    == <<happened, left>>
vars    == <<start, given, cancel, request, answer, d, h, history, used>>

-----------------------------------------------------------------------------
Terminal == {"completed", "failed", "cancelled"}

Nothing == [start |-> 0, cancel |-> FALSE, here |-> FALSE]

\* phase   what the entry is doing; "idle" is no entry
\* ran     how the agent of this entry ended
\* sent    lease id in the body of the event being posted
NotActive == [phase |-> "idle", lease |-> 0, sent |-> 0, event |-> "none",
              ran |-> "none", aborted |-> FALSE]

Idle == [pc |-> "idle", job |-> "none", event |-> "none", lease |-> 0,
         phase |-> "idle",
         row |-> [status |-> "queued", lease |-> 0, live |-> FALSE]]

Init ==
  /\ start = [status |-> "queued", lease |-> 0, live |-> FALSE]
  /\ given = 0
  /\ cancel = [status |-> "none", live |-> FALSE]
  /\ request = TRUE
  /\ answer = Nothing
  /\ d = NotActive
  /\ h = [i \in Handler |-> Idle]
  /\ begun = FALSE /\ ended = FALSE
  /\ happened = {} /\ left = MaxHazards

At(i, pc)   == h[i].pc = pc
Begin(i, r) == h' = [h EXCEPT ![i] = r]
Return(i)   == Begin(i, Idle)
Goto(i, pc) == Begin(i, [h[i] EXCEPT !.pc = pc])
Spend(k)    == /\ k \in Possible /\ left > 0
               /\ happened' = happened \cup {k} /\ left' = left - 1

-----------------------------------------------------------------------------
(* The poll.                                                               *)

AvailableUnheld(row) == ~row.live   \* mutant: whatever its status

Available(row) == row.status = "queued" \/ (row.status = "dispatched" /\ ~row.live)

\* take_queued_commands: a queued command, or one whose lease ran out, gets a
\* new lease, and is cancelled when its request is not waiting for it.
Taken(row) ==
  IF ~Available(row) THEN row
  ELSE IF request
    THEN [status |-> "dispatched", lease |-> given + 1, live |-> TRUE]
    ELSE [row EXCEPT !.status = "cancelled"]

TakeCommands ==
  /\ ~answer.here
  /\ start' = Taken(start)
  /\ LET taken == Available(cancel)
     IN  /\ cancel' = IF taken THEN [status |-> "dispatched", live |-> TRUE] ELSE cancel
         /\ answer' = [here |-> TRUE, cancel |-> taken,
                       start |-> IF start'.lease # start.lease THEN given + 1 ELSE 0]
  /\ given' = IF start'.lease # start.lease THEN given + 1 ELSE given
  /\ ended' = (ended \/ start'.status \in Terminal)
  /\ UNCHANGED <<request, d, h, begun, used>>

\* A duplicate of an active run only refreshes its lease; else the run begins.
WithStart(e, lease) ==
  IF lease = 0 THEN e
  ELSE IF e.phase # "idle" THEN [e EXCEPT !.lease = lease]
  ELSE [e EXCEPT !.phase = "running", !.lease = lease]

CancelIgnored(e) == e   \* mutant: the daemon does not abort

\* The abort of a run whose end is being posted breaks off that post: the end of
\* a running agent is then "cancelled", and a second post is given up.
WithCancel(e) ==
  CASE e.phase = "running" -> [e EXCEPT !.aborted = TRUE]
    [] e.phase = "posting" /\ ~e.aborted ->
         [e EXCEPT !.phase = "reposting", !.aborted = TRUE,
                   !.event = "cancelled", !.sent = e.lease]
    [] e.phase = "reposting" /\ ~e.aborted -> NotActive
    [] OTHER -> e

\* The daemon handles the commands of an answer in order.
ReceiveAnswer ==
  /\ answer.here
  /\ d' = LET e == WithStart(d, answer.start)
          IN  IF answer.cancel THEN WithCancel(e) ELSE e
  /\ begun' = (begun \/ answer.start > 0)
  /\ answer' = Nothing
  /\ UNCHANGED <<given, start, cancel, request, h, ended, used>>

LoseAnswer ==
  /\ answer.here /\ Spend("lost")
  /\ answer' = Nothing
  /\ UNCHANGED <<given, start, cancel, request, d, h, history>>

-----------------------------------------------------------------------------
(* The run, and its terminal event.                                        *)

\* The agent ends by itself, ...
Finish ==
  /\ d.phase = "running" /\ ~d.aborted
  /\ \E e \in {"completed", "failed"} :
       d' = [d EXCEPT !.phase = "posting", !.event = e, !.ran = e, !.sent = d.lease]
  /\ UNCHANGED <<given, start, cancel, request, answer, h, history, used>>

\* ... or because it was aborted.
FinishAborted ==
  /\ d.phase = "running" /\ d.aborted
  /\ d' = [d EXCEPT !.phase = "posting", !.event = "cancelled", !.sent = d.lease]
  /\ UNCHANGED <<given, start, cancel, request, answer, h, history, used>>

Posting == d.phase \in {"posting", "reposting"}

\* postJsonWithRetry: the body, with its lease id, is the same at every attempt.
Post(i) ==
  /\ At(i, "idle") /\ Posting
  /\ IF \E j \in Handler : h[j].job = "event" /\ h[j].lease = d.sent /\ h[j].phase = d.phase
       THEN Spend("retry") ELSE UNCHANGED used
  /\ Begin(i, [Idle EXCEPT !.pc = "check", !.job = "event", !.event = d.event,
                           !.lease = d.sent, !.phase = d.phase])
  /\ UNCHANGED <<given, start, cancel, request, answer, d, history>>

\* The answer reaches the daemon if that post is still the one it waits for.
Answered(i) == h[i].job = "event" /\ d.phase = h[i].phase /\ d.sent = h[i].lease

\* A refused event is given up, but a run.completed or run.failed that was posted
\* by the run itself is followed by a run.failed under the lease now held.
Refused ==
  IF d.phase = "posting" /\ ~d.aborted
    THEN [d EXCEPT !.phase = "reposting", !.event = "failed", !.sent = d.lease]
    ELSE NotActive

CheckEventStrict(i) ==   \* mutant: an event that comes again is refused
  /\ At(i, "check")
  /\ IF start.status = "dispatched" /\ start.lease = h[i].lease
       THEN Goto(i, "mark") /\ UNCHANGED d
       ELSE Return(i) /\ d' = IF Answered(i) THEN Refused ELSE d
  /\ UNCHANGED <<given, start, cancel, request, answer, history, used>>

CompleteFirst(i) ==   \* mutant: the cancels are completed before the run is
  /\ At(i, "check")
  /\ cancel' = IF cancel.status = "none" THEN cancel
               ELSE [status |-> "completed", live |-> FALSE]
  /\ Goto(i, "mark")
  /\ UNCHANGED <<given, start, request, answer, d, history, used>>

\* _handle_event_unlocked: an event under another lease is refused, one that
\* repeats the end of the command is replayed, and any other is ignored.
CheckEvent(i) ==
  /\ At(i, "check")
  /\ IF start.status = "dispatched"
       THEN IF start.lease = h[i].lease THEN Goto(i, "mark") /\ UNCHANGED d
            ELSE Return(i) /\ d' = IF Answered(i) THEN Refused ELSE d
     ELSE IF start.status = h[i].event /\ start.lease = h[i].lease
       THEN Goto(i, "cancels") /\ UNCHANGED d
       ELSE Return(i) /\ d' = IF Answered(i) THEN NotActive ELSE d
  /\ UNCHANGED <<given, start, cancel, request, answer, history, used>>

Markable(i) ==
  \/ start.status = "dispatched" /\ h[i].lease \in {0, start.lease}
  \/ start.status = "queued" /\ h[i].lease = 0

\* _mark_command_terminal: lease 0 is the reaper's, which has none to compare.
Mark(i) ==
  /\ At(i, "mark")
  /\ IF Markable(i)
       THEN /\ start' = [start EXCEPT !.status = h[i].event]
            /\ ended' = TRUE
            /\ Goto(i, "cancels") /\ UNCHANGED d
       ELSE /\ Return(i)
            /\ d' = IF Answered(i) THEN NotActive ELSE d
            /\ UNCHANGED <<start, ended>>
  /\ UNCHANGED <<given, cancel, request, answer, begun, used>>

\* It reads the row without a lock, ...
MarkRead(i) ==
  /\ At(i, "mark") /\ Markable(i) /\ Spend("slow")
  /\ Begin(i, [h[i] EXCEPT !.pc = "markWrite", !.row = start])
  /\ UNCHANGED <<given, start, cancel, request, answer, d, history>>

\* ... and writes all of it back by its id.
MarkWrite(i) ==
  /\ At(i, "markWrite")
  /\ start' = [h[i].row EXCEPT !.status = h[i].event]
  /\ ended' = TRUE
  /\ Goto(i, "cancels")
  /\ UNCHANGED <<given, cancel, request, answer, d, begun, used>>

CancelsAsEvent(i) ==   \* mutant: the cancels get the status of the run
  /\ At(i, "cancels")
  /\ cancel' = IF cancel.status = "none" THEN cancel
               ELSE [status |-> h[i].event, live |-> FALSE]
  /\ Goto(i, "close")
  /\ UNCHANGED <<given, start, request, answer, d, history, used>>

\* mark_cancel_commands_completed.
CompleteCancels(i) ==
  /\ At(i, "cancels")
  /\ cancel' = IF cancel.status = "none" THEN cancel
               ELSE [status |-> "completed", live |-> FALSE]
  /\ Goto(i, "close")
  /\ UNCHANGED <<given, start, request, answer, d, history, used>>

\* The request is claimed and advanced, or failed, and the post is answered.
Close(i) ==
  /\ At(i, "close")
  /\ request' = FALSE
  /\ Return(i)
  /\ d' = IF Answered(i) THEN NotActive ELSE d
  /\ UNCHANGED <<given, start, cancel, answer, history, used>>

\* The reaper finishes for a handler that died after the mark.
ReapEnded ==
  /\ request /\ start.status \in Terminal
  /\ \A i \in Handler : h[i].pc \notin {"cancels", "close"}
  /\ request' = FALSE
  /\ UNCHANGED <<given, start, cancel, answer, d, h, history, used>>

-----------------------------------------------------------------------------
(* Heartbeats and leases.                                                  *)

Held == d.phase # "idle" /\ start.status = "dispatched" /\ start.lease = d.lease

\* renew_command_leases, called by the heartbeat.
Renew ==
  /\ Held /\ ~start.live
  /\ start' = [start EXCEPT !.live = TRUE]
  /\ UNCHANGED <<given, cancel, request, answer, d, h, history, used>>

\* It too reads the row without a lock ...
RenewRead(i) ==
  /\ At(i, "idle") /\ Held /\ Spend("slow")
  /\ Begin(i, [Idle EXCEPT !.pc = "renewWrite", !.job = "renew", !.row = start])
  /\ UNCHANGED <<given, start, cancel, request, answer, d, history>>

\* ... and writes all of it back by its id, with a new expiry.
RenewWrite(i) ==
  /\ At(i, "renewWrite")
  /\ start' = [h[i].row EXCEPT !.live = TRUE]
  /\ Return(i)
  /\ UNCHANGED <<given, cancel, request, answer, d, history, used>>

ExpireStartNever == FALSE /\ UNCHANGED vars   \* mutant: a lease has no end

\* A lease runs out when nobody renews it: its answer was lost, or the daemon
\* died; or though it is held, when renewals come too late.
ExpireStart ==
  /\ start.status = "dispatched" /\ start.live
  /\ IF Held \/ answer.start = start.lease
       THEN Spend("late") ELSE UNCHANGED used
  /\ start' = [start EXCEPT !.live = FALSE]
  /\ UNCHANGED <<given, cancel, request, answer, d, h, history>>

ExpireCancel ==
  /\ cancel.status = "dispatched" /\ cancel.live /\ ~answer.cancel
  /\ cancel' = [cancel EXCEPT !.live = FALSE]
  /\ UNCHANGED <<given, start, request, answer, d, h, history, used>>

-----------------------------------------------------------------------------
(* Stop, timeout, and processes that die.                                  *)

\* cancel_run_request_before_delivery, ...
Stop(i) ==
  /\ At(i, "idle") /\ Spend("stop")
  /\ request' = FALSE
  /\ Begin(i, [Idle EXCEPT !.pc = "enqueue", !.job = "stop"])
  /\ UNCHANGED <<given, start, cancel, answer, d, history>>

\* _reap_stale_runs_unlocked, for a request it finds running: a run.cancel, and
\* then _fail_run_request at once.
Timeout(i) ==
  /\ At(i, "idle") /\ request /\ Spend("timeout")
  /\ Begin(i, [Idle EXCEPT !.pc = "enqueue", !.job = "timeout", !.event = "failed"])
  /\ UNCHANGED <<given, start, cancel, request, answer, d, history>>

\* ... and cancel_active_run, when the run is active, or this replica still has it
\* among its active_commands.  (A row for a second run.cancel is not told apart.)
EnqueueCancel(i) ==
  /\ At(i, "enqueue")
  /\ \E found \in {TRUE, start.status \notin Terminal} :
       cancel' = IF found THEN [status |-> "queued", live |-> FALSE] ELSE cancel
  /\ IF h[i].job = "timeout" THEN Goto(i, "mark") ELSE Return(i)
  /\ UNCHANGED <<given, start, request, answer, d, history, used>>

Restart ==
  /\ Spend("restart")
  /\ d' = NotActive
  /\ answer' = Nothing
  /\ UNCHANGED <<given, start, cancel, request, h, history>>

\* A post whose handler died is made again.
Die(i) ==
  /\ ~At(i, "idle") /\ Spend("die")
  /\ Return(i)
  /\ UNCHANGED <<given, start, cancel, request, answer, d, history>>

Step(i) ==
  \/ CheckEvent(i) \/ Mark(i) \/ MarkWrite(i) \/ CompleteCancels(i)
  \/ Close(i) \/ RenewWrite(i) \/ EnqueueCancel(i)

Next ==
  \/ TakeCommands \/ ReceiveAnswer \/ LoseAnswer \/ Finish \/ FinishAborted
  \/ ReapEnded \/ Renew \/ ExpireStart \/ ExpireCancel \/ Restart
  \/ \E i \in Handler : Post(i) \/ MarkRead(i) \/ RenewRead(i) \/ Stop(i) \/ Timeout(i)
                        \/ Step(i) \/ Die(i)

\* The daemon polls, gets its answers, ends what it was told to abort and posts;
\* leases that nobody renews run out; handlers that do not die go on.  An agent
\* need not end by itself.
Spec ==
  /\ Init /\ [][Next]_vars
  /\ WF_vars(TakeCommands) /\ WF_vars(ReceiveAnswer) /\ WF_vars(FinishAborted)
  /\ WF_vars(ReapEnded) /\ WF_vars(ExpireStart) /\ WF_vars(ExpireCancel)
  /\ \A i \in Handler : WF_vars(Step(i))
  /\ SF_vars(\E i \in Handler : Post(i))

-----------------------------------------------------------------------------
Events == Terminal \cup {"none"}
Row    == [status : Terminal \cup {"queued", "dispatched"}, lease : Nat, live : BOOLEAN]

Entry  == [phase : {"idle", "running", "posting", "reposting"}, lease : Nat,
           sent : Nat, event : Events, ran : Events, aborted : BOOLEAN]
Work   == [pc : {"idle", "check", "mark", "markWrite", "cancels", "close",
                 "renewWrite", "enqueue"},
           job : {"none", "event", "renew", "stop", "timeout"}, event : Events,
           lease : Nat, phase : {"idle", "posting", "reposting"}, row : Row]

\* The rows, the daemon's entry and what a handler holds have the shapes the code
\* gives them; a lease id is that of an attempt that was made.
TypeOK ==
  /\ start \in Row /\ given \in Nat /\ start.lease <= given /\ d.lease <= given
  /\ cancel \in [status : {"none", "queued", "dispatched", "completed"}, live : BOOLEAN]
  /\ request \in BOOLEAN
  /\ answer \in [start : Nat, cancel : BOOLEAN, here : BOOLEAN]
  /\ d \in Entry /\ h \in [Handler -> Work]
  /\ begun \in BOOLEAN /\ ended \in BOOLEAN
  /\ happened \subseteq Possible /\ left \in 0 .. MaxHazards

\* A run whose end was accepted is not executed again: redelivery is for runs
\* nobody reported.  Only a transaction that writes back a row that has changed, or a
\* timeout that ends a command under way to the daemon, can break this.
EndedNotRestarted ==
  [][d.phase = "idle" /\ d'.phase = "running" /\ ended
       => happened \cap {"slow", "timeout"} # {}]_vars

\* run.cancel "remains retryable until the target run becomes terminal" (ADR-010):
\* it is not completed before.
CancelOutlivesRun ==
  cancel.status = "completed" /\ "slow" \notin happened => start.status \in Terminal

\* What an agent did is what is recorded: a run that completed is not failed by
\* its own daemon, whatever answers, posts and processes are lost.  A lease that
\* runs out while it is held, or a renewal that writes an old one back, can do that:
\* the daemon's run.completed is refused, and a run.failed follows that carries the
\* lease it then holds.
OutcomeKept ==
  d.ran = "completed" /\ happened \cap {"late", "slow"} = {} => d.event # "failed"

\* A lost answer, a dead handler or a daemon that starts again does not lose the
\* command: it begins, unless it is over first.
Delivered == <>(begun \/ start.status \in Terminal)

\* A run.cancel that was enqueued ends the run, whatever answers, posts and
\* processes are lost: the daemon has no agent running and the command is over,
\* though the agent would not have ended by itself.  The timeout's is completed at
\* once.  When a lease runs out while it is held, the next poll cancels the command
\* under the agent; and a renewal can make an ended command one under way again.
StopEndsRun ==
  (cancel.status # "none")
    ~> \/ d.phase = "idle" /\ start.status \in Terminal
       \/ happened \cap {"late", "slow", "timeout"} # {}

\* "Lost cancel responses are retried and cannot silently leave a run executing"
\* (ADR-010).  The code does not keep this for the run.cancel of a timeout: failing
\* the request completes it before a poll can take it.
CancelReachesRun == (cancel.status # "none") ~> (d.phase = "idle")

-----------------------------------------------------------------------------
(* The inductive invariant behind TypeOK and the safety properties.        *)

Without(k) == happened \cap k = {}

\* Who reports the end of a run has an end to report, and a lease for it unless it
\* is the reaper.
Prepared ==
  /\ Posting => d.event \in Terminal /\ d.sent > 0
  /\ d.phase # "idle" => d.lease > 0
  /\ \A i \in Handler :
       /\ h[i].pc \in {"check", "mark", "markWrite"} =>
            h[i].event \in Terminal /\ h[i].job \in {"event", "timeout"}
       /\ h[i].job = "event" => h[i].lease > 0
       /\ h[i].job = "timeout" => h[i].event = "failed" /\ "timeout" \in happened

\* Nobody has a lease that was not given.
LeasesGiven ==
  /\ answer.start <= given /\ d.sent <= given
  /\ \A i \in Handler : h[i].lease <= given /\ h[i].row.lease <= given

\* A command that ended stays so, while no row is written back late.
EndStays ==
  "slow" \notin happened =>
    /\ ended => start.status \in Terminal
    /\ \A i \in Handler :
         /\ h[i].pc \notin {"markWrite", "renewWrite"}
         /\ h[i].pc = "cancels" => start.status \in Terminal

\* Nobody can end the command under a lease that is on its way to the daemon: what
\* the daemon and its posts have is older.
LeaseUnderWay ==
  Without({"slow", "timeout"}) /\ answer.start > 0 =>
    /\ answer.here /\ start.status = "dispatched" /\ start.lease = answer.start
    /\ d.lease < answer.start /\ d.sent < answer.start
    /\ \A i \in Handler : h[i].job = "event" => h[i].lease < answer.start

\* While no held lease runs out, the lease of the row is the one that the daemon has,
\* or that is on its way to it.
Kept == start.status # "queued" /\ (start.status = "dispatched" => start.live)

LeaseHeld ==
  Without({"slow", "late"}) =>
    /\ d.phase # "idle" => Kept /\ start.lease = d.lease
    /\ d.phase = "posting" => d.sent = d.lease
    /\ answer.start > 0 =>
         answer.here /\ Kept /\ start.lease = answer.start /\ d.phase = "idle"

IndInv ==
  /\ Prepared /\ LeasesGiven /\ EndStays /\ CancelOutlivesRun
  /\ LeaseUnderWay /\ LeaseHeld /\ OutcomeKept

=============================================================================
