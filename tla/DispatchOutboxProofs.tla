------------------------ MODULE DispatchOutboxProofs ------------------------
(***************************************************************************)
(* Proofs that the dispatch outbox keeps its promises for any number of    *)
(* handlers, commands, assignments, crashes, early expiries and stops.     *)
(*                                                                         *)
(* Each step lemma has one step per action.  The types of the rows and of  *)
(* the handlers stay folded: an action's update is typed by the lemmas     *)
(* Moves, Goes and Returns, and expanded only where it is built.           *)
(***************************************************************************)
EXTENDS DispatchOutbox, TLAPS

\* The fresh ids a claim takes are free when any id is.
LEMMA FreshClaim == FreeClaims # {} => NewClaim \in FreeClaims
BY DEF NewClaim

LEMMA FreshCommand == FreeCommands # {} => NewCommand \in FreeCommands
BY DEF NewCommand

\* Every program counter, status and job an action writes is one.
LEMMA Labels ==
  /\ {"idle", "record", "activate", "cas", "recheck", "claim", "stage", "start",
      "link", "publish", "reclaim", "stamp", "fence", "discard", "stopSession",
      "deliver", "finalize", "advance", "endSession", "settle", "close", "write",
      "overwrite", "expireSession"} \subseteq PCs
  /\ {"none", "dispatch", "recover", "expire", "stop"} \subseteq Jobs
BY DEF PCs, Jobs

LEMMA Statuses ==
  /\ {"prepared", "running", "dispatching", "finalizing"} \subseteq Active
  /\ Cancellable \subseteq Active
  /\ {"completed", "failed", "cancelled"} = Terminal
  /\ {"none", "pending", "queued", "leased", "delivered", "done"} = CommandStatus
  /\ SessionStatus = {"running"} \cup Terminal
BY DEF Active, Cancellable, Terminal, CommandStatus, SessionStatus

\* Each field of a handler can be replaced by a value of its type.
LEMMA Fields ==
  \A s \in HandlerState :
    /\ \A x \in PCs : [s EXCEPT !.pc = x] \in HandlerState
    /\ \A x \in Jobs : [s EXCEPT !.job = x] \in HandlerState
    /\ \A x \in Command \cup {NoCommand} : [s EXCEPT !.cmd = x] \in HandlerState
    /\ \A x \in Claim \cup {NoClaim} : [s EXCEPT !.claim = x] \in HandlerState
    /\ \A x \in Nat : [s EXCEPT !.turn = x] \in HandlerState
    /\ \A x \in Active \cup Terminal : [s EXCEPT !.seen = x] \in HandlerState
    /\ \A x \in Terminal : [s EXCEPT !.to = x] \in HandlerState
BY DEF HandlerState

\* A handler that takes a typed record stays typed.
LEMMA Moves ==
  ASSUME NEW i \in Handler, h \in [Handler -> HandlerState],
         NEW r \in HandlerState, Begin(i, r)
  PROVE  h' \in [Handler -> HandlerState]
BY DEF Begin

LEMMA IdleTyped == Prepared \in Request /\ Idle \in HandlerState
<1>1. Prepared \in Request
  BY Statuses DEF Prepared, Request
<1> QED
  BY <1>1, Labels DEF Idle, HandlerState

LEMMA Returns ==
  ASSUME NEW i \in Handler, h \in [Handler -> HandlerState], Return(i)
  PROVE  h' \in [Handler -> HandlerState]
BY IdleTyped, Moves DEF Return

LEMMA Goes ==
  ASSUME NEW i \in Handler, h \in [Handler -> HandlerState],
         NEW pc \in PCs, Goto(i, pc)
  PROVE  h' \in [Handler -> HandlerState]
<1>1. [h[i] EXCEPT !.pc = pc] \in HandlerState
  BY DEF HandlerState
<1> QED
  BY <1>1, Moves DEF Goto

\* A command that changes its status stays typed.
LEMMA StatusSet ==
  ASSUME NEW c, NEW s \in CommandStatus, cmds \in [Command -> CommandRow],
         SetStatus(c, s)
  PROVE  cmds' \in [Command -> CommandRow]
BY DEF SetStatus, CommandRow

-----------------------------------------------------------------------------
\* Every step keeps the types.
LEMMA TypeStep == TypeOK /\ HandlersKnow /\ [Next]_vars => TypeOK'
<1> SUFFICES ASSUME TypeOK, HandlersKnow, [Next]_vars PROVE TypeOK'
  OBVIOUS
<1> USE DEF TypeOK
<1>a. /\ req.status \in Active \cup Terminal /\ req.turn \in Nat
      /\ req.cmd \in Command \cup {NoCommand}
  BY DEF Request
<1>b. \A c \in Command : cmds[c].claim \in Claim \cup {NoClaim}
  BY DEF CommandRow
<1>c. \A i \in Handler : /\ h[i] \in HandlerState /\ h[i].turn \in Nat
                         /\ h[i].cmd \in Command \cup {NoCommand}
  BY DEF HandlerState
<1>1. ASSUME NEW i \in Handler, Admit(i) PROVE TypeOK'
  <2>1. [Idle EXCEPT !.pc = "record", !.job = "dispatch"] \in HandlerState
    BY IdleTyped, Labels DEF HandlerState
  <2> QED
    BY <1>1, <2>1, Moves DEF Admit, counters, history
<1>2. ASSUME NEW i \in Handler, RecordRound(i) PROVE TypeOK'
  <2>1. h' \in [Handler -> HandlerState]
    BY <1>2, Goes, Labels DEF RecordRound
  <2> QED
    BY <1>2, <2>1 DEF RecordRound, counters, history
<1>3. ASSUME NEW i \in Handler, ActivateCheck(i) PROVE TypeOK'
  <2>1. h' \in [Handler -> HandlerState]
    BY <1>3, Goes, Returns, Labels DEF ActivateCheck
  <2>2. req' \in Request
    BY <1>3, Statuses DEF ActivateCheck, Request
  <2> QED
    BY <1>3, <2>1, <2>2 DEF ActivateCheck, counters, history
<1>4. ASSUME NEW i \in Handler, ActivateCas(i) PROVE TypeOK'
  <2>1. [h[i] EXCEPT !.pc = "recheck", !.turn = req.turn] \in HandlerState
    BY Labels DEF HandlerState, Request
  <2>2. h' \in [Handler -> HandlerState]
    BY <1>4, <2>1, Moves, Returns DEF ActivateCas
  <2>3. req' \in Request
    BY <1>4, Statuses DEF ActivateCas, Request
  <2> QED
    BY <1>4, <2>2, <2>3 DEF ActivateCas, counters, history
<1>5. ASSUME NEW i \in Handler, ActivateRecheck(i) PROVE TypeOK'
  <2>1. h' \in [Handler -> HandlerState]
    BY <1>5, Goes, Returns, Labels DEF ActivateRecheck
  <2> QED
    BY <1>5, <2>1 DEF ActivateRecheck, counters, history
<1>6. ASSUME NEW i \in Handler, ClaimDispatch(i) PROVE TypeOK'
  <2>1. CASE Claimable
    <3>1. NewClaim \in Claim /\ NewCommand \in Command
      BY <1>6, <2>1, FreshClaim, FreshCommand
         DEF ClaimDispatch, FreeClaims, FreeCommands
    <3>2. [h[i] EXCEPT !.pc = "stage", !.claim = NewClaim, !.cmd = NewCommand]
            \in HandlerState
      BY <3>1, Labels DEF HandlerState
    <3>3. ClaimedBy(NewClaim) \in Request
      BY <3>1, Statuses DEF ClaimedBy, Request
    <3> QED
      BY <1>6, <2>1, <3>2, <3>3, Moves DEF ClaimDispatch, counters, history
  <2>2. CASE ~Claimable
    BY <1>6, <2>2, Returns DEF ClaimDispatch, counters, history
  <2> QED
    BY <2>1, <2>2
<1>7. ASSUME NEW i \in Handler, EndWithoutClaim(i) PROVE TypeOK'
  <2>1. [h[i] EXCEPT !.pc = "close",
           !.to = IF h[i].turn < Turns THEN "failed" ELSE "completed"]
          \in HandlerState
    BY Labels, Statuses DEF HandlerState
  <2> QED
    BY <1>7, <2>1, Moves DEF EndWithoutClaim, counters, history
<1>8. ASSUME NEW i \in Handler, StageCommand(i) PROVE TypeOK'
  <2>1. h' \in [Handler -> HandlerState]
    BY <1>8, Goes, Returns, Labels DEF StageCommand
  <2>2. cmds' \in [Command -> CommandRow]
    BY <1>8, Statuses DEF StageCommand, HandlerState, CommandRow
  <2> QED
    BY <1>8, <2>1, <2>2 DEF StageCommand, counters, history
<1>9. ASSUME NEW i \in Handler, EnsureStarted(i) PROVE TypeOK'
  <2>1. h' \in [Handler -> HandlerState]
    BY <1>9, Goes, Labels DEF EnsureStarted
  <2>2. cmds' \in [Command -> CommandRow]
    BY <1>9 DEF EnsureStarted, CommandRow
  <2>3. session' \in SessionStatus
    BY <1>9, Statuses DEF EnsureStarted
  <2> QED
    BY <1>9, <2>1, <2>2, <2>3 DEF EnsureStarted, counters, history
<1>10. ASSUME NEW i \in Handler, LinkCommand(i) PROVE TypeOK'
  <2>1. [h[i] EXCEPT !.pc = "reclaim", !.job = "dispatch"] \in HandlerState
    BY Labels DEF HandlerState
  <2>2. h' \in [Handler -> HandlerState]
    BY <1>10, <2>1, Moves, Goes, Returns, Labels DEF LinkCommand
  <2>3. req' \in Request
    <3>1. [req EXCEPT !.status = "running", !.cmd = h[i].cmd,
                      !.claim = NoClaim, !.live = FALSE] \in Request
      BY <1>c, Statuses DEF Request
    <3> QED
      BY <1>10, <3>1 DEF LinkCommand
  <2> QED
    BY <1>10, <2>2, <2>3 DEF LinkCommand, counters, history
<1>11. ASSUME NEW i \in Handler, PublishCommand(i) PROVE TypeOK'
  <2>1. cmds' \in [Command -> CommandRow]
    BY <1>11, StatusSet, Statuses DEF PublishCommand
  <2> QED
    BY <1>11, <2>1, Returns DEF PublishCommand, counters, history
<1>12. ASSUME NEW i \in Handler, TakeQueued(i) PROVE TypeOK'
  <2>1. PICK c \in With(InFlight) :
          IF RequestIsLive(c)
            THEN /\ SetStatus(c, "leased")
                 /\ Begin(i, [Idle EXCEPT !.pc = "deliver", !.cmd = c])
            ELSE SetStatus(c, "done") /\ UNCHANGED h
    BY <1>12 DEF TakeQueued
  <2>2. [Idle EXCEPT !.pc = "deliver", !.cmd = c] \in HandlerState
    BY IdleTyped, Labels DEF HandlerState, With
  <2>3. cmds' \in [Command -> CommandRow]
    BY <2>1, StatusSet, Statuses
  <2> QED
    BY <1>12, <2>1, <2>2, <2>3, Moves DEF TakeQueued, counters, history
<1>13. ASSUME NEW i \in Handler, Deliver(i) PROVE TypeOK'
  <2>1. cmds' \in [Command -> CommandRow]
    BY <1>13, StatusSet, Statuses DEF Deliver
  <2>2. [h[i] EXCEPT !.pc = "fence", !.seen = req.status,
           !.to = IF session \in Terminal THEN session ELSE "cancelled"]
          \in HandlerState
    <3>1. (IF session \in Terminal THEN session ELSE "cancelled") \in Terminal
      BY Statuses
    <3> QED
      BY <1>a, <1>c, <3>1, Labels DEF HandlerState
  <2>3. h' \in [Handler -> HandlerState]
    BY <1>13, <2>2, Moves, Returns DEF Deliver
  <2> QED
    BY <1>13, <2>1, <2>3 DEF Deliver, counters, history
<1>14. ASSUME NEW i \in Handler, TerminalEvent(i) PROVE TypeOK'
  <2>1. PICK c \in With({"delivered"}) :
          /\ SetStatus(c, "done")
          /\ Begin(i, [Idle EXCEPT !.pc = "finalize", !.cmd = c])
    BY <1>14 DEF TerminalEvent
  <2>2. [Idle EXCEPT !.pc = "finalize", !.cmd = c] \in HandlerState
    BY IdleTyped, Labels DEF HandlerState, With
  <2>3. cmds' \in [Command -> CommandRow]
    BY <2>1, StatusSet, Statuses
  <2> QED
    BY <1>14, <2>1, <2>2, <2>3, Moves DEF TerminalEvent, counters, history
<1>15. ASSUME NEW i \in Handler, ClaimTerminal(i) PROVE TypeOK'
  <2>1. CASE UNCHANGED req /\ Return(i)
    BY <1>15, <2>1, Returns DEF ClaimTerminal, counters, history
  <2>2. CASE ~(UNCHANGED req /\ Return(i))
    <3>1. NewClaim \in Claim
      BY <1>15, <2>2, FreshClaim DEF ClaimTerminal, FreeClaims
    <3>2. [h[i] EXCEPT !.pc = "advance", !.claim = NewClaim] \in HandlerState
      BY <3>1, Labels DEF HandlerState
    <3>3. req' \in Request
      BY <1>15, <3>1, Statuses DEF ClaimTerminal, Request
    <3> QED
      BY <1>15, <2>2, <3>2, <3>3, Moves DEF ClaimTerminal, counters, history
  <2> QED
    BY <2>1, <2>2
<1>16. ASSUME NEW i \in Handler, AdvanceNext(i) PROVE TypeOK'
  <2>1. [h[i] EXCEPT !.pc = "claim", !.turn = req.turn + 1, !.job = "dispatch",
           !.cmd = NoCommand, !.claim = NoClaim] \in HandlerState
    <3>1. req.turn + 1 \in Nat
      BY <1>a
    <3> QED
      BY <1>c, <3>1, Labels DEF HandlerState
  <2>2. h' \in [Handler -> HandlerState]
    BY <1>16, <2>1, Moves, Returns DEF AdvanceNext
  <2>3. req' \in Request
    <3>1. [req EXCEPT !.status = "running", !.turn = req.turn + 1,
             !.cmd = NoCommand, !.claim = NoClaim, !.live = FALSE] \in Request
      <4>1. req.turn + 1 \in Nat
        BY <1>a
      <4>2. \A n \in Nat :
              [req EXCEPT !.status = "running", !.turn = n, !.cmd = NoCommand,
                          !.claim = NoClaim, !.live = FALSE] \in Request
        BY Statuses DEF Request
      <4> QED
        BY <4>1, <4>2
    <3> QED
      BY <1>16, <3>1 DEF AdvanceNext
  <2> QED
    BY <1>16, <2>2, <2>3 DEF AdvanceNext, counters, history
<1>17. ASSUME NEW i \in Handler, AdvanceEnd(i) PROVE TypeOK'
  <2>1. PICK s \in {"failed", "cancelled"}, p \in {"settle", "endSession"} :
          Begin(i, [h[i] EXCEPT !.to = s, !.pc = p])
    BY <1>17 DEF AdvanceEnd
  <2>2. [h[i] EXCEPT !.to = s, !.pc = p] \in HandlerState
    BY Labels, Statuses DEF HandlerState
  <2> QED
    BY <1>17, <2>1, <2>2, Moves DEF AdvanceEnd, counters, history
<1>18. ASSUME NEW i \in Handler, EndSession(i) PROVE TypeOK'
  <2>1. h' \in [Handler -> HandlerState]
    BY <1>18, Goes, Labels DEF EndSession
  <2>2. session' \in SessionStatus
    BY <1>18, Statuses DEF EndSession, At, HandlersKnow, Knows
  <2> QED
    BY <1>18, <2>1, <2>2 DEF EndSession, counters, history
<1>19. ASSUME NEW i \in Handler, Settle(i) PROVE TypeOK'
  <2>1. req' \in Request
    BY <1>19 DEF Settle, Request, At, HandlersKnow, Knows
  <2> QED
    BY <1>19, <2>1, Returns DEF Settle, counters, history
<1>20. ASSUME NEW i \in Handler, CloseSession(i) PROVE TypeOK'
  <2>1. h' \in [Handler -> HandlerState]
    BY <1>20, Goes, Labels DEF CloseSession
  <2>2. session' \in SessionStatus
    BY <1>20, Statuses DEF CloseSession, At, HandlersKnow, Knows
  <2> QED
    BY <1>20, <2>1, <2>2 DEF CloseSession, counters, history
<1>21. ASSUME NEW i \in Handler, ReadRow(i) PROVE TypeOK'
  <2>1. [h[i] EXCEPT !.pc = "overwrite", !.row = req] \in HandlerState
    BY <1>c, Labels DEF HandlerState
  <2> QED
    BY <1>21, <2>1, Moves DEF ReadRow, counters, history
<1>22. ASSUME NEW i \in Handler, Reap(i) PROVE TypeOK'
  <2>1. \A pc \in PCs : Recovery(i, pc) \in HandlerState
    BY IdleTyped, Labels DEF Recovery, HandlerState, Request
  <2>2. \A pc \in PCs, c \in Command \cup {NoCommand} :
          [Recovery(i, pc) EXCEPT !.cmd = c] \in HandlerState
    BY <2>1 DEF HandlerState
  <2>3. h' \in [Handler -> HandlerState]
    <3>1. CASE ReapTerminalSession(i)
      <4>1. [Recovery(i, "write") EXCEPT !.to = session] \in HandlerState
              \/ session \notin Terminal
        BY <2>1, Labels DEF HandlerState
      <4>2. [Recovery(i, "fence") EXCEPT !.seen = req.status, !.to = session]
              \in HandlerState \/ session \notin Terminal
        BY <1>a, <2>1, Labels, Fields
      <4> QED
        BY <3>1, <4>1, <4>2, Moves DEF ReapTerminalSession
    <3>2. CASE ReapPrepared(i)
      <4>1. [Recovery(i, "write") EXCEPT !.job = "expire", !.to = "failed"]
              \in HandlerState
        BY <2>1, Labels, Statuses, Fields
      <4> QED
        BY <3>2, <4>1, <2>1, Labels, Moves DEF ReapPrepared
    <3>3. CASE ReapFinalizing(i)
      BY <3>3, <2>2, Labels, Moves DEF ReapFinalizing, Request
    <3>4. CASE ReapStaged(i)
      <4>1. PICK c \in Pending :
              Begin(i, [Recovery(i, IF cmds[c].started THEN "link" ELSE "reclaim")
                          EXCEPT !.cmd = c, !.claim = cmds[c].claim])
        BY <3>4 DEF ReapStaged
      <4>2. c \in Command
        BY DEF Pending, With
      <4>3. [Recovery(i, IF cmds[c].started THEN "link" ELSE "reclaim")
               EXCEPT !.cmd = c, !.claim = cmds[c].claim] \in HandlerState
        <5>1. (IF cmds[c].started THEN "link" ELSE "reclaim") \in PCs
          BY Labels
        <5> QED
          BY <1>b, <4>2, <5>1, <2>1, Fields
      <4> QED
        BY <4>1, <4>3, Moves
    <3>5. CASE ReapUnstaged(i)
      BY <3>5, <2>1, Labels, Moves DEF ReapUnstaged
    <3>6. CASE ReapLinked(i)
      BY <3>6, <2>2, Labels, Moves DEF ReapLinked, Request
    <3> QED
      BY <1>22, <3>1, <3>2, <3>3, <3>4, <3>5, <3>6 DEF Reap
  <2> QED
    BY <1>22, <2>3 DEF Reap, counters, history
<1>23. ASSUME NEW i \in Handler, ReclaimDispatch(i) PROVE TypeOK'
  <2>1. CASE Claimable
    <3>1. NewClaim \in Claim
      BY <1>23, <2>1, FreshClaim DEF ReclaimDispatch, FreeClaims
    <3>2. [h[i] EXCEPT !.pc = "stamp", !.claim = NewClaim] \in HandlerState
      BY <3>1, Labels DEF HandlerState
    <3>3. ClaimedBy(NewClaim) \in Request
      BY <3>1, Statuses DEF ClaimedBy, Request
    <3> QED
      BY <1>23, <2>1, <3>2, <3>3, Moves DEF ReclaimDispatch, counters, history
  <2>2. CASE ~Claimable
    BY <1>23, <2>2, Returns DEF ReclaimDispatch, counters, history
  <2> QED
    BY <2>1, <2>2
<1>24. ASSUME NEW i \in Handler, StampCommand(i) PROVE TypeOK'
  <2>1. h' \in [Handler -> HandlerState]
    BY <1>24, Goes, Labels DEF StampCommand
  <2>2. h[i].claim \in Claim \cup {NoClaim}
    BY <1>c DEF HandlerState
  <2>3. cmds' \in [Command -> CommandRow]
    BY <1>24, <2>2 DEF StampCommand, CommandRow
  <2> QED
    BY <1>24, <2>1, <2>3 DEF StampCommand, counters, history
<1>25. ASSUME NEW i \in Handler, OverwriteRow(i) PROVE TypeOK'
  <2>1. h' \in [Handler -> HandlerState]
    BY <1>25, Goes, Returns, Labels DEF OverwriteRow
  <2>2. h[i].row \in Request /\ h[i].to \in Terminal
    BY <1>25, <1>c DEF OverwriteRow, At, HandlerState, HandlersKnow, Knows
  <2>3. req' \in Request
    BY <1>25, <2>2 DEF OverwriteRow, Request
  <2>4. lost' \in BOOLEAN
    BY <1>25 DEF OverwriteRow
  <2> QED
    BY <1>25, <2>1, <2>3, <2>4 DEF OverwriteRow, counters, history
<1>26. ASSUME NEW i \in Handler, RefuseNode(i) PROVE TypeOK'
  <2>1. [Idle EXCEPT !.pc = "close", !.to = "failed"] \in HandlerState
    BY IdleTyped, Labels, Statuses DEF HandlerState
  <2>2. h' \in [Handler -> HandlerState]
    BY <1>26, <2>1, Moves, Returns DEF RefuseNode
  <2>3. cmds' \in [Command -> CommandRow]
    BY <1>26, StatusSet, Statuses DEF RefuseNode
  <2> QED
    BY <1>26, <2>2, <2>3 DEF RefuseNode, counters, history
<1>27. ASSUME NEW i \in Handler, ExpireSession(i) PROVE TypeOK'
  BY <1>27, Returns, Statuses DEF ExpireSession, counters, history
<1>28. ASSUME NEW i \in Handler, BeginStop(i) PROVE TypeOK'
  <2>1. [Idle EXCEPT !.job = "stop", !.seen = req.status, !.to = "cancelled",
           !.pc = IF req.status \in Cancellable THEN "fence" ELSE "stopSession"]
          \in HandlerState
    <3>1. (IF req.status \in Cancellable THEN "fence" ELSE "stopSession") \in PCs
      BY Labels
    <3> QED
      BY <1>a, <3>1, IdleTyped, Labels, Statuses, Fields
  <2> QED
    BY <1>28, <2>1, Moves DEF BeginStop, history
<1>29. ASSUME NEW i \in Handler, Fence(i) PROVE TypeOK'
  <2>1. h' \in [Handler -> HandlerState]
    BY <1>29, Goes, Returns, Labels DEF Fence
  <2>2. req' \in Request
    BY <1>29 DEF Fence, Request, At, HandlersKnow, Knows
  <2>3. fenced' \in BOOLEAN
    BY <1>29 DEF Fence
  <2> QED
    BY <1>29, <2>1, <2>2, <2>3 DEF Fence, counters, history
<1>30. ASSUME NEW i \in Handler, Discard(i) PROVE TypeOK'
  <2>1. h' \in [Handler -> HandlerState]
    BY <1>30, Goes, Returns, Labels DEF Discard
  <2>2. \A c \in Command : [Unused EXCEPT !.started = cmds[c].started] \in CommandRow
    BY Statuses DEF Unused, CommandRow
  <2>3. cmds' \in [Command -> CommandRow]
    BY <1>30, <2>2 DEF Discard, Pending, With
  <2> QED
    BY <1>30, <2>1, <2>3 DEF Discard, counters, history
<1>31. ASSUME NEW i \in Handler, StopSession(i) PROVE TypeOK'
  <2>1. session' \in SessionStatus /\ stopped' \in BOOLEAN
    BY <1>31, Statuses DEF StopSession
  <2> QED
    BY <1>31, <2>1, Returns DEF StopSession, counters, history
<1>32. ASSUME NEW i \in Handler, Crash(i) PROVE TypeOK'
  BY <1>32, Returns DEF Crash, history
<1>33. CASE ExpireClaim
  <2>1. req' \in Request
    BY <1>33 DEF ExpireClaim, Request
  <2>2. slow' \in Nat
    BY <1>33 DEF ExpireClaim
  <2> QED
    BY <1>33, <2>1, <2>2 DEF ExpireClaim, history
<1>34. CASE UNCHANGED vars
  BY <1>34 DEF vars, counters, history
<1> QED
  BY <1>1, <1>2, <1>3, <1>4, <1>5, <1>6, <1>7, <1>8, <1>9, <1>10, <1>11,
     <1>12, <1>13, <1>14, <1>15, <1>16, <1>17, <1>18, <1>19, <1>20, <1>21,
     <1>22, <1>23, <1>24, <1>25, <1>26, <1>27, <1>28, <1>29, <1>30, <1>31,
     <1>32, <1>33, <1>34 DEF Next, Step

-----------------------------------------------------------------------------
(* The inductive invariant, one frame lemma per kind of step: a handler    *)
(* moves, and with it nothing, a command row or the request row.           *)

\* A step of handler i changes no other handler.
LEMMA Moved ==
  ASSUME TypeOK, NEW i \in Handler, NEW r, Begin(i, r)
  PROVE  h'[i] = r /\ \A j \in Handler \ {i} : h'[j] = h[j]
BY DEF Begin, TypeOK

\* r can be the next record of handler i: it knows what its next transaction
\* needs, takes no command another handler is about to stage, and its copy of
\* the row links a recorded run.
Fits(i, r) ==
  /\ Knows(r)
  /\ \A j \in Handler \ {i} : At(j, "stage") => h[j].cmd # r.cmd
  /\ r.row.cmd # NoCommand => cmds[r.row.cmd].started

LEMMA HandlerFrame ==
  ASSUME TypeOK, IndInv, NEW i \in Handler, NEW r, Begin(i, r), Fits(i, r),
         UNCHANGED <<req, cmds, lost, fenced>>, r.pc # "stage",
         r.pc = "link" => cmds[r.cmd].started,
         ~lost /\ r.pc = "finalize" => r.cmd \in With({"done"}),
         r.pc \in Finalizing => h[i].pc \in Finalizing /\ r.claim = h[i].claim
  PROVE  IndInv'
<1> USE Moved DEF IndInv, Fits, At, With
<1>1. HandlersKnow'
  BY DEF HandlersKnow, Knows
<1>2. StagedOnce'
  BY DEF StagedOnce
<1>3. CommandMatchesStatus'
  BY DEF CommandMatchesStatus
<1>4. RecordedBeforeLink'
  BY DEF RecordedBeforeLink
<1>5. RecordedBeforeDelivery'
  BY DEF RecordedBeforeDelivery
<1>6. ~lost' => InFlightIsLinked' /\ FenceHolds'
  BY DEF InFlightIsLinked, FenceHolds
<1>7. ~lost' => FinalizedIsDone'
  BY DEF FinalizedIsDone
<1> QED
  BY <1>1, <1>2, <1>3, <1>4, <1>5, <1>6, <1>7

\* The statuses a command row may take when the request row does not change:
\* delivered, published, discarded, or staged by the one that holds it.
MayBecome(i, c, s) ==
  \/ s = cmds[c].status
  \/ cmds[c].status \in InFlight /\ s \in {"leased", "delivered", "done"}
  \/ cmds[c].status = "pending" /\ s = "none"
  \/ cmds[c].status = "pending" /\ s = "queued" /\ req.cmd = c
  \/ cmds[c].status = "none" /\ s = "pending"

LEMMA CommandFrame ==
  ASSUME TypeOK, IndInv, NEW i \in Handler, NEW r, h'[i] = r,
         r.row.cmd \in Command \cup {NoCommand},
         \A j \in Handler \ {i} : h'[j] = h[j],
         Fits(i, r), UNCHANGED <<req, lost, fenced>>,
         \A c \in Command : /\ cmds[c].started => cmds'[c].started
                            /\ MayBecome(i, c, cmds'[c].status),
         \A c \in Command : cmds'[c].status \in Delivered =>
            c \in With(Delivered) \/ req.status = "running",
         \A j \in Handler \ {i} : At(j, "stage") => cmds'[h[j].cmd] = cmds[h[j].cmd],
         r.pc \notin Finalizing \cup {"stage"},
         r.pc = "link" => cmds'[r.cmd].started,
         ~lost /\ r.pc = "finalize" => cmds'[r.cmd].status = "done"
  PROVE  IndInv'
<1>a. req.cmd # NoCommand => req.cmd \in Command
  BY DEF TypeOK, Request
<1>b. \A j \in Handler : h[j].row.cmd # NoCommand => h[j].row.cmd \in Command
  BY DEF TypeOK, HandlerState, Request
<1>c. \A c \in With(InFlight)' : c \in With(InFlight) \/ req.cmd = c
  BY DEF With, MayBecome, InFlight, Delivered
<1>d. \A c \in With(Delivered)' : c \in With(Delivered) \/ req.status = "running"
  BY DEF With, Delivered
<1>e. \A c \in With({"done"}) : c \in With({"done"})'
  BY DEF With, MayBecome, InFlight, Delivered
<1>f. r.row.cmd # NoCommand => r.row.cmd \in Command /\ cmds'[r.row.cmd].started
  BY DEF Fits
<1>1. HandlersKnow'
  BY DEF IndInv, Fits, HandlersKnow, Knows
<1>2. StagedOnce'
  BY DEF IndInv, Fits, StagedOnce, At
<1>3. CommandMatchesStatus'
  BY DEF IndInv, CommandMatchesStatus
<1>4. RecordedBeforeLink'
  <2>1. req'.cmd # NoCommand => cmds'[req'.cmd].started
    BY <1>a DEF IndInv, RecordedBeforeLink
  <2>2. ASSUME NEW j \in Handler PROVE (At(j, "link") => cmds[h[j].cmd].started)'
    BY DEF IndInv, RecordedBeforeLink, HandlersKnow, Knows, At
  <2>3. ASSUME NEW j \in Handler
        PROVE  (h[j].row.cmd # NoCommand => cmds[h[j].row.cmd].started)'
    BY <1>b, <1>f DEF IndInv, RecordedBeforeLink
  <2> QED
    BY <2>1, <2>2, <2>3 DEF RecordedBeforeLink
<1>5. RecordedBeforeDelivery'
  <2> SUFFICES ASSUME NEW c \in With(InFlight)' PROVE cmds'[c].started
    BY DEF RecordedBeforeDelivery
  <2>1. c \in Command
    BY DEF With
  <2> QED
    BY <2>1, <1>c, IdsAssumption DEF IndInv, RecordedBeforeDelivery, RecordedBeforeLink
<1>6. ~lost' => InFlightIsLinked'
  BY <1>c DEF IndInv, InFlightIsLinked
<1>7. ~lost' => FenceHolds'
  BY <1>d DEF IndInv, FenceHolds, Terminal
<1>8. ~lost' => FinalizedIsDone'
  <2> SUFFICES ASSUME ~lost PROVE FinalizedIsDone'
    OBVIOUS
  <2>1. FinalizedIsDone
    BY DEF IndInv
  <2>2. r.pc = "finalize" => r.cmd \in With({"done"})'
    BY DEF Fits, Knows, With
  <2> QED
    BY <1>e, <2>1, <2>2 DEF FinalizedIsDone, At
<1> QED
  BY <1>1, <1>2, <1>3, <1>4, <1>5, <1>6, <1>7, <1>8 DEF IndInv

LEMMA RequestFrame ==
  ASSUME TypeOK, IndInv, NEW i \in Handler, NEW r, Begin(i, r), Fits(i, r),
         UNCHANGED cmds, r.pc # "link",
         r.pc = "stage" => /\ cmds[r.cmd].status = "none" /\ ~cmds[r.cmd].started
                           /\ \A j \in Handler \ {i} : h[j].cmd # r.cmd,
         CommandMatchesStatus',
         req'.cmd # NoCommand => cmds[req'.cmd].started,
         ~lost' =>
           /\ ~lost /\ r.pc # "finalize" /\ InFlightIsLinked' /\ FenceHolds'
           /\ req'.status = "finalizing" => req'.cmd \in With({"done"})
           /\ \A j \in Handler :
                h'[j].pc \in Finalizing /\ h'[j].claim = req'.claim
                  => req'.cmd \in With({"done"})
  PROVE  IndInv'
<1> USE Moved DEF IndInv, Fits, At, With
<1>1. HandlersKnow'
  BY DEF HandlersKnow, Knows
<1>2. StagedOnce'
  BY DEF StagedOnce
<1>3. RecordedBeforeLink'
  BY DEF RecordedBeforeLink
<1>4. RecordedBeforeDelivery'
  BY DEF RecordedBeforeDelivery
<1>5. ~lost' => FinalizedIsDone'
  BY DEF FinalizedIsDone
<1> QED
  BY <1>1, <1>2, <1>3, <1>4, <1>5

\* A handler that is done, or goes on with what it has, fits.
LEMMA IdleFits ==
  ASSUME TypeOK, IndInv, NEW i \in Handler
  PROVE  Fits(i, Idle) /\ Idle.pc = "idle"
<1>1. Idle.pc = "idle" /\ Idle.cmd = NoCommand /\ Idle.row.cmd = NoCommand
  BY DEF Idle, Prepared
<1> QED
  BY <1>1, IdsAssumption DEF Fits, Knows, IndInv, HandlersKnow, At, Finalizing

\* A record that starts from Idle or from Recovery fits when it knows its next
\* transaction and its command is none or a command with a row.
LEMMA FreshFits ==
  ASSUME TypeOK, IndInv, NEW i \in Handler, NEW r, Knows(r), r.row = Prepared,
         \/ r.cmd = NoCommand
         \/ cmds[r.cmd].status # "none" \/ cmds[r.cmd].started
  PROVE  Fits(i, r)
BY IdsAssumption DEF Fits, Knows, IndInv, HandlersKnow, StagedOnce, At, Prepared

\* So does a record that keeps the handler's command and copy of the row.
LEMMA SameFits ==
  ASSUME TypeOK, IndInv, NEW i \in Handler, NEW r, Knows(r),
         r.cmd \in {h[i].cmd, NoCommand}, r.row \in {h[i].row, Prepared}
  PROVE  Fits(i, r)
BY IdsAssumption
   DEF Fits, Knows, IndInv, HandlersKnow, StagedOnce, RecordedBeforeLink, At, Prepared

\* What goes unchanged when a handler moves its program counter only.
LEMMA PcOnly ==
  ASSUME TypeOK, NEW i \in Handler, NEW pc, NEW r, r = [h[i] EXCEPT !.pc = pc]
  PROVE  /\ r.pc = pc /\ r.cmd = h[i].cmd /\ r.claim = h[i].claim /\ r.to = h[i].to
         /\ r.seen = h[i].seen /\ r.row = h[i].row
<1>1. h[i] \in HandlerState
  BY DEF TypeOK
<1> QED
  BY <1>1 DEF HandlerState

LEMMA ReturnOnly ==
  ASSUME TypeOK, IndInv, NEW i \in Handler, Return(i),
         UNCHANGED <<req, cmds, lost, fenced>>
  PROVE  IndInv'
BY IdleFits, HandlerFrame DEF Return, Finalizing

LEMMA GotoOnly ==
  ASSUME TypeOK, IndInv, NEW i \in Handler, NEW pc, Goto(i, pc),
         UNCHANGED <<req, cmds, lost, fenced>>,
         pc \notin {"stage", "start", "link", "stamp", "publish", "reclaim",
                   "deliver", "finalize", "fence"},
         pc \in {"write", "overwrite", "close"} => h[i].to \in Terminal,
         pc \in Finalizing => h[i].pc \in Finalizing /\ h[i].to \in Terminal
  PROVE  IndInv'
<1> DEFINE r == [h[i] EXCEPT !.pc = pc]
<1>1. /\ r.pc = pc /\ r.cmd = h[i].cmd /\ r.claim = h[i].claim /\ r.to = h[i].to
      /\ r.seen = h[i].seen /\ r.row = h[i].row
  BY PcOnly
<1>2. Begin(i, r)
  BY DEF Goto
<1> HIDE DEF r
<1>3. Knows(r)
  BY <1>1 DEF Knows, IndInv, HandlersKnow, Finalizing
<1> QED
  BY <1>1, <1>2, <1>3, SameFits, HandlerFrame

-----------------------------------------------------------------------------
\* Every step keeps the inductive invariant.
LEMMA IndStep == TypeOK /\ IndInv /\ [Next]_vars => IndInv'
<1> SUFFICES ASSUME TypeOK, IndInv, [Next]_vars PROVE IndInv'
  OBVIOUS
<1> USE DEF history
<1>a. req.cmd # NoCommand => req.cmd \in Command /\ cmds[req.cmd].started
  BY DEF IndInv, RecordedBeforeLink, TypeOK, Request
<1>b. \A j \in Handler : /\ h[j] \in HandlerState
                         /\ h[j].row.cmd \in Command \cup {NoCommand}
  BY DEF TypeOK, HandlerState, Request
<1>c. \A j \in Handler : Knows(h[j])
  BY DEF IndInv, HandlersKnow
<1>d. \A j \in Handler : h[j].row.cmd # NoCommand => cmds[h[j].row.cmd].started
  BY DEF IndInv, RecordedBeforeLink
<1>e. Prepared.cmd = NoCommand
  BY DEF Prepared
<1>f. \A j \in Handler : At(j, "stage") => h[j].cmd \in Command
  BY <1>c DEF Knows, At
<1>1. ASSUME NEW i \in Handler, Admit(i) PROVE IndInv'
  <2> DEFINE r == [Idle EXCEPT !.pc = "record", !.job = "dispatch"]
  <2>1. r.pc = "record" /\ r.cmd = NoCommand /\ r.row = Prepared
    BY DEF Idle
  <2> HIDE DEF r
  <2>2. Fits(i, r)
    BY <2>1, FreshFits DEF Knows, Finalizing
  <2> QED
    BY <1>1, <2>1, <2>2, HandlerFrame DEF Admit, Finalizing, r
<1>2. ASSUME NEW i \in Handler, RecordRound(i) PROVE IndInv'
  BY <1>2, GotoOnly DEF RecordRound, Finalizing
<1>3. ASSUME NEW i \in Handler, ActivateCheck(i) PROVE IndInv'
  <2>1. CASE UNCHANGED req
    BY <1>3, <2>1, GotoOnly, ReturnOnly DEF ActivateCheck, Finalizing
  <2>2. CASE req' # req
    <3>1. /\ req.status = "prepared" /\ session \in Terminal /\ Begin(i, Idle)
          /\ UNCHANGED <<cmds, lost, fenced>>
      BY <1>3, <2>2 DEF ActivateCheck, Return
    <3>2. req'.status = session /\ req'.cmd = NoCommand /\ req'.claim = req.claim
      BY <1>3, <2>2, <3>1
         DEF ActivateCheck, TypeOK, Request, IndInv, CommandMatchesStatus
    <3>3. CommandMatchesStatus'
      BY <3>1, <3>2 DEF CommandMatchesStatus, Terminal
    <3>4. ~lost' => InFlightIsLinked' /\ FenceHolds'
      BY <3>1, <3>2
         DEF IndInv, CommandMatchesStatus, InFlightIsLinked, FenceHolds, With
    <3>5. ASSUME ~lost
          PROVE  \A j \in Handler :
                   h'[j].pc \in Finalizing /\ h'[j].claim = req'.claim
                     => req'.cmd \in With({"done"})
      BY <3>1, <3>2, <3>5, Moved, IdleFits, IdsAssumption
         DEF IndInv, CommandMatchesStatus, FinalizedIsDone, With, Finalizing
    <3> QED
      BY <3>1, <3>2, <3>3, <3>4, <3>5, IdleFits, RequestFrame DEF Terminal
  <2> QED
    BY <2>1, <2>2
<1>4. ASSUME NEW i \in Handler, ActivateCas(i) PROVE IndInv'
  <2>1. /\ req'.status = IF req.status = "prepared" THEN "running" ELSE req.status
        /\ req'.cmd = req.cmd /\ req'.claim = req.claim
        /\ UNCHANGED <<cmds, lost, fenced>>
    BY <1>4 DEF ActivateCas, TypeOK, Request
  <2>2. PICK r \in HandlerState :
          /\ Begin(i, r) /\ r.pc \in {"idle", "recheck"}
          /\ r.cmd \in {NoCommand, h[i].cmd} /\ r.row \in {Prepared, h[i].row}
    <3>1. CASE Return(i)
      BY <3>1, IdleTyped DEF Return, Idle
    <3>2. CASE Begin(i, [h[i] EXCEPT !.pc = "recheck", !.turn = req.turn])
      <4> DEFINE r == [h[i] EXCEPT !.pc = "recheck", !.turn = req.turn]
      <4>1. req.turn \in Nat
        BY DEF TypeOK, Request
      <4>2. r \in HandlerState
        BY <1>b, <4>1, Fields, Labels
      <4>3. r.pc = "recheck" /\ r.cmd = h[i].cmd /\ r.row = h[i].row
        BY <1>b DEF HandlerState
      <4> HIDE DEF r
      <4> QED
        BY <3>2, <4>2, <4>3 DEF r
    <3> QED
      BY <1>4, <3>1, <3>2 DEF ActivateCas
  <2>3. Fits(i, r)
    BY <2>2, SameFits DEF Knows, Finalizing
  <2>4. CommandMatchesStatus'
    BY <2>1 DEF IndInv, CommandMatchesStatus
  <2>5. ASSUME ~lost
        PROVE  /\ InFlightIsLinked' /\ FenceHolds'
               /\ req'.status = "finalizing" => req'.cmd \in With({"done"})
               /\ \A j \in Handler :
                    h'[j].pc \in Finalizing /\ h'[j].claim = req'.claim
                      => req'.cmd \in With({"done"})
    BY <2>1, <2>2, <2>5, Moved
       DEF IndInv, InFlightIsLinked, FenceHolds, FinalizedIsDone, With, Terminal, Finalizing
  <2> QED
    BY <1>a, <2>1, <2>2, <2>3, <2>4, <2>5, RequestFrame
<1>5. ASSUME NEW i \in Handler, ActivateRecheck(i) PROVE IndInv'
  BY <1>5, GotoOnly, ReturnOnly DEF ActivateRecheck, Finalizing
<1>6. ASSUME NEW i \in Handler, ClaimDispatch(i) PROVE IndInv'
  <2>1. CASE Claimable
    <3>1. /\ NewClaim \in Claim
          /\ \A j \in Handler : h[j].claim # NewClaim
      BY <1>6, <2>1, FreshClaim DEF ClaimDispatch, FreeClaims, ClaimsInUse
    <3>2. /\ NewCommand \in Command /\ cmds[NewCommand].status = "none"
          /\ ~cmds[NewCommand].started /\ \A j \in Handler : h[j].cmd # NewCommand
      BY <1>6, <2>1, FreshCommand DEF ClaimDispatch, FreeCommands
    <3>3. /\ req.status \in {"running", "dispatching"} /\ req.cmd = NoCommand
          /\ req'.status = "dispatching" /\ req'.cmd = NoCommand
          /\ req'.claim = NewClaim /\ UNCHANGED <<cmds, lost, fenced>>
      BY <1>6, <2>1 DEF ClaimDispatch, Claimable, ClaimedBy, TypeOK, Request
    <3> DEFINE r == [h[i] EXCEPT !.pc = "stage", !.claim = NewClaim, !.cmd = NewCommand]
    <3>4. r.pc = "stage" /\ r.cmd = NewCommand /\ r.row = h[i].row
      BY <1>b DEF HandlerState
    <3>5. Begin(i, r)
      BY <1>6, <2>1 DEF ClaimDispatch
    <3> HIDE DEF r
    <3>6. Fits(i, r)
      BY <1>d, <3>2, <3>4 DEF Fits, Knows, Finalizing
    <3>7. CommandMatchesStatus'
      BY <3>3 DEF CommandMatchesStatus
    <3>8. ASSUME ~lost
          PROVE  /\ InFlightIsLinked' /\ FenceHolds'
                 /\ \A j \in Handler :
                      ~(h'[j].pc \in Finalizing /\ h'[j].claim = req'.claim)
      BY <3>1, <3>3, <3>4, <3>5, <3>8, Moved
         DEF IndInv, InFlightIsLinked, FenceHolds, With, Terminal, Finalizing
    <3> QED
      BY <3>2, <3>3, <3>4, <3>5, <3>6, <3>7, <3>8, RequestFrame
  <2>2. CASE ~Claimable
    BY <1>6, <2>2, ReturnOnly DEF ClaimDispatch
  <2> QED
    BY <2>1, <2>2
<1>7. ASSUME NEW i \in Handler, EndWithoutClaim(i) PROVE IndInv'
  <2> DEFINE to == IF h[i].turn < Turns THEN "failed" ELSE "completed"
             r  == [h[i] EXCEPT !.pc = "close", !.to = to]
  <2>1. to \in Terminal
    BY DEF Terminal
  <2>2. Begin(i, r)
    BY <1>7 DEF EndWithoutClaim
  <2> HIDE DEF to
  <2>3. r.pc = "close" /\ r.cmd = h[i].cmd /\ r.row = h[i].row /\ r.to = to
    BY <1>b DEF HandlerState
  <2> HIDE DEF r
  <2>4. Fits(i, r)
    BY <2>1, <2>3, SameFits DEF Knows, Finalizing
  <2> QED
    BY <1>7, <2>2, <2>3, <2>4, HandlerFrame DEF EndWithoutClaim, Finalizing
<1>8. ASSUME NEW i \in Handler, StageCommand(i) PROVE IndInv'
  <2>1. CASE Owns(i)
    <3> DEFINE r == [h[i] EXCEPT !.pc = "start"]
    <3>1. r.pc = "start" /\ r.cmd = h[i].cmd /\ r.row = h[i].row
      BY PcOnly
    <3>2. /\ h[i].cmd \in Command /\ cmds[h[i].cmd].status = "none"
          /\ \A j \in Handler \ {i} : h[j].cmd # h[i].cmd
      BY <1>8, <1>f DEF StageCommand, At, IndInv, StagedOnce
    <3>3. /\ cmds'[h[i].cmd].status = "pending"
          /\ cmds'[h[i].cmd].started = cmds[h[i].cmd].started
          /\ \A c \in Command \ {h[i].cmd} : cmds'[c] = cmds[c]
          /\ UNCHANGED <<req, lost, fenced>>
      BY <1>8, <2>1, <3>2 DEF StageCommand, TypeOK, CommandRow
    <3>4. h'[i] = r /\ \A j \in Handler \ {i} : h'[j] = h[j]
      BY <1>8, <2>1, Moved DEF StageCommand, Goto
    <3> HIDE DEF r
    <3>5. Fits(i, r)
      BY <3>1, <3>2, SameFits DEF Knows, Finalizing
    <3>6. \A c \in Command : /\ cmds[c].started => cmds'[c].started
                             /\ MayBecome(i, c, cmds'[c].status)
                             /\ cmds'[c].status \in Delivered => c \in With(Delivered)
      BY <3>2, <3>3 DEF MayBecome, With, Delivered
    <3> QED
      BY <1>b, <1>f, <3>1, <3>2, <3>3, <3>4, <3>5, <3>6, CommandFrame DEF Finalizing
  <2>2. CASE ~Owns(i)
    BY <1>8, <2>2, ReturnOnly DEF StageCommand
  <2> QED
    BY <2>1, <2>2
<1>9. ASSUME NEW i \in Handler, EnsureStarted(i) PROVE IndInv'
  <2> DEFINE r == [h[i] EXCEPT !.pc = "link"]
  <2>1. r.pc = "link" /\ r.cmd = h[i].cmd /\ r.row = h[i].row
    BY PcOnly
  <2>2. h[i].cmd \in Command /\ \A j \in Handler \ {i} : At(j, "stage") => h[j].cmd # h[i].cmd
    BY <1>9, <1>c DEF EnsureStarted, At, Knows, IndInv, StagedOnce
  <2>3. /\ cmds'[h[i].cmd].status = cmds[h[i].cmd].status
        /\ cmds'[h[i].cmd].started
        /\ \A c \in Command \ {h[i].cmd} : cmds'[c] = cmds[c]
        /\ UNCHANGED <<req, lost, fenced>>
    BY <1>9, <2>2 DEF EnsureStarted, TypeOK, CommandRow
  <2>4. h'[i] = r /\ \A j \in Handler \ {i} : h'[j] = h[j]
    BY <1>9, Moved DEF EnsureStarted, Goto
  <2> HIDE DEF r
  <2>5. Fits(i, r)
    BY <2>1, <2>2, SameFits DEF Knows, Finalizing
  <2>6. \A c \in Command : /\ cmds[c].started => cmds'[c].started
                           /\ MayBecome(i, c, cmds'[c].status)
                           /\ cmds'[c].status \in Delivered => c \in With(Delivered)
    BY <2>2, <2>3 DEF MayBecome, With
  <2> QED
    BY <1>b, <1>f, <2>1, <2>2, <2>3, <2>4, <2>5, <2>6, CommandFrame DEF Finalizing
<1>10. ASSUME NEW i \in Handler, LinkCommand(i) PROVE IndInv'
  <2>1. CASE Owns(i)
    <3>1. /\ h[i].cmd \in Command /\ cmds[h[i].cmd].started
          /\ req.status = "dispatching" /\ req.cmd = NoCommand
      BY <1>10, <2>1, <1>c
         DEF LinkCommand, At, Knows, Owns, IndInv, RecordedBeforeLink, CommandMatchesStatus
    <3>2. /\ req'.status = "running" /\ req'.cmd = h[i].cmd /\ req'.claim = NoClaim
          /\ UNCHANGED <<cmds, lost, fenced>>
      BY <1>10, <2>1 DEF LinkCommand, TypeOK, Request
    <3> DEFINE r == [h[i] EXCEPT !.pc = "publish"]
    <3>3. r.pc = "publish" /\ r.cmd = h[i].cmd /\ r.row = h[i].row
      BY PcOnly
    <3>4. Begin(i, r)
      BY <1>10, <2>1 DEF LinkCommand, Goto
    <3> HIDE DEF r
    <3>5. Fits(i, r)
      BY <3>1, <3>3, SameFits DEF Knows, Finalizing
    <3>6. CommandMatchesStatus'
      BY <3>2 DEF CommandMatchesStatus
    <3>7. ASSUME ~lost
          PROVE  InFlightIsLinked' /\ FenceHolds'
      BY <3>1, <3>2, <3>7, IdsAssumption
         DEF IndInv, InFlightIsLinked, FenceHolds, With, Terminal
    <3>8. \A j \in Handler : ~(h'[j].pc \in Finalizing /\ h'[j].claim = req'.claim)
      BY <1>c, <3>2, <3>3, <3>4, Moved, IdsAssumption DEF Knows, Finalizing
    <3> QED
      BY <3>1, <3>2, <3>3, <3>4, <3>5, <3>6, <3>7, <3>8, RequestFrame
  <2>2. CASE ~Owns(i) /\ h[i].job = "recover"
    <3> DEFINE r == [h[i] EXCEPT !.pc = "reclaim", !.job = "dispatch"]
    <3>1. r.pc = "reclaim" /\ r.cmd = h[i].cmd /\ r.row = h[i].row
      BY <1>b DEF HandlerState
    <3>2. Begin(i, r) /\ UNCHANGED <<req, cmds, lost, fenced>>
      BY <1>10, <2>2 DEF LinkCommand
    <3> HIDE DEF r
    <3>3. Knows(r)
      BY <1>10, <1>c, <3>1 DEF LinkCommand, At, Knows, Finalizing
    <3> QED
      BY <3>1, <3>2, <3>3, SameFits, HandlerFrame DEF Finalizing
  <2>3. CASE ~Owns(i) /\ h[i].job # "recover"
    BY <1>10, <2>3, ReturnOnly DEF LinkCommand
  <2> QED
    BY <2>1, <2>2, <2>3
<1>11. ASSUME NEW i \in Handler, PublishCommand(i) PROVE IndInv'
  <2>1. CASE cmds' = cmds
    BY <1>11, <2>1, ReturnOnly DEF PublishCommand
  <2>2. CASE cmds' # cmds
    <3>1. /\ req.cmd = h[i].cmd /\ h[i].cmd \in Command
          /\ cmds[h[i].cmd].status = "pending" /\ SetStatus(h[i].cmd, "queued")
      BY <1>11, <2>2, <1>c DEF PublishCommand, At, Knows
    <3>2. /\ cmds'[h[i].cmd].status = "queued"
          /\ cmds'[h[i].cmd].started = cmds[h[i].cmd].started
          /\ \A c \in Command \ {h[i].cmd} : cmds'[c] = cmds[c]
          /\ UNCHANGED <<req, lost, fenced>>
      BY <1>11, <3>1 DEF PublishCommand, SetStatus, TypeOK, CommandRow
    <3>3. h'[i] = Idle /\ \A j \in Handler \ {i} : h'[j] = h[j]
      BY <1>11, Moved DEF PublishCommand, Return
    <3>4. \A c \in Command : /\ cmds[c].started => cmds'[c].started
                             /\ MayBecome(i, c, cmds'[c].status)
                             /\ cmds'[c].status \in Delivered => c \in With(Delivered)
      BY <3>1, <3>2 DEF MayBecome, With, Delivered
    <3>5. \A j \in Handler \ {i} : At(j, "stage") => cmds'[h[j].cmd] = cmds[h[j].cmd]
      BY <1>f, <3>1, <3>2 DEF IndInv, StagedOnce
    <3>6. Idle.row.cmd = NoCommand
      BY <1>e DEF Idle
    <3> QED
      BY <3>2, <3>3, <3>4, <3>5, <3>6, IdleFits, CommandFrame DEF Finalizing
  <2> QED
    BY <2>1, <2>2
<1>12. ASSUME NEW i \in Handler, TakeQueued(i) PROVE IndInv'
  <2>1. PICK c \in With(InFlight) :
          IF RequestIsLive(c)
            THEN /\ SetStatus(c, "leased")
                 /\ Begin(i, [Idle EXCEPT !.pc = "deliver", !.cmd = c])
            ELSE SetStatus(c, "done") /\ UNCHANGED h
    BY <1>12 DEF TakeQueued
  <2>2. /\ c \in Command /\ cmds[c].status \in InFlight
        /\ UNCHANGED <<req, lost, fenced>> /\ h[i].pc = "idle"
    BY <1>12, <2>1 DEF TakeQueued, With, At
  <2>3. /\ cmds'[c].status = IF RequestIsLive(c) THEN "leased" ELSE "done"
        /\ cmds'[c].started = cmds[c].started
        /\ \A d \in Command \ {c} : cmds'[d] = cmds[d]
    BY <2>1, <2>2 DEF SetStatus, TypeOK, CommandRow
  <2>4. \A d \in Command : /\ cmds[d].started => cmds'[d].started
                           /\ MayBecome(i, d, cmds'[d].status)
    BY <2>2, <2>3 DEF MayBecome
  <2>5. \A d \in Command : cmds'[d].status \in Delivered =>
          d \in With(Delivered) \/ req.status = "running"
    BY <2>2, <2>3 DEF Delivered, With, RequestIsLive
  <2>6. \A j \in Handler : At(j, "stage") => cmds'[h[j].cmd] = cmds[h[j].cmd]
    BY <1>f, <2>2, <2>3 DEF IndInv, StagedOnce, InFlight, Delivered
  <2>7. CASE RequestIsLive(c)
    <3> DEFINE r == [Idle EXCEPT !.pc = "deliver", !.cmd = c]
    <3>1. r.pc = "deliver" /\ r.cmd = c /\ r.row = Prepared
      BY DEF Idle
    <3>2. h'[i] = r /\ \A j \in Handler \ {i} : h'[j] = h[j]
      BY <2>1, <2>7, Moved
    <3> HIDE DEF r
    <3>3. Fits(i, r)
      BY <2>2, <3>1, FreshFits DEF Knows, Finalizing, InFlight, Delivered
    <3> QED
      BY <1>e, <2>2, <2>4, <2>5, <2>6, <3>1, <3>2, <3>3, CommandFrame DEF Finalizing
  <2>8. CASE ~RequestIsLive(c)
    <3>1. \A j \in Handler : h'[j] = h[j]
      BY <2>1, <2>8
    <3>2. Fits(i, h[i])
      BY <1>c, SameFits
    <3> QED
      BY <1>b, <2>2, <2>4, <2>5, <2>6, <3>1, <3>2, CommandFrame DEF Finalizing
  <2> QED
    BY <2>7, <2>8
<1>13. ASSUME NEW i \in Handler, Deliver(i) PROVE IndInv'
  <2> DEFINE c == h[i].cmd
  <2>1. c \in Command /\ UNCHANGED <<req, lost, fenced>>
    BY <1>13, <1>c DEF Deliver, At, Knows
  <2>2. \/ UNCHANGED cmds
        \/ /\ cmds[c].status \in Delivered /\ cmds'[c].status \in {"delivered", "done"}
           /\ cmds'[c].started = cmds[c].started
           /\ \A d \in Command \ {c} : cmds'[d] = cmds[d]
    BY <1>13, <2>1 DEF Deliver, SetStatus, Delivered, TypeOK, CommandRow
  <2>3. PICK r : /\ Begin(i, r) /\ Fits(i, r) /\ r.pc \in {"idle", "fence"}
                 /\ r.row.cmd \in Command \cup {NoCommand}
    <3>1. CASE Return(i)
      <4>1. Begin(i, Idle) /\ Idle.row.cmd = NoCommand
        BY <1>e, <3>1 DEF Return, Idle
      <4> QED
        BY <4>1, IdleFits
    <3>2. CASE ~Return(i)
      <4> DEFINE to == IF session \in Terminal THEN session ELSE "cancelled"
                 r == [h[i] EXCEPT !.pc = "fence", !.seen = req.status, !.to = to]
      <4>1. Begin(i, r) /\ req.status \in Cancellable
        BY <1>13, <3>2 DEF Deliver
      <4>2. to \in Terminal
        BY DEF Terminal
      <4> HIDE DEF to
      <4>3. /\ r.pc = "fence" /\ r.seen = req.status /\ r.to = to
            /\ r.cmd = h[i].cmd /\ r.row = h[i].row
        BY <1>b DEF HandlerState
      <4> HIDE DEF r
      <4>4. Fits(i, r)
        BY <4>1, <4>2, <4>3, SameFits DEF Knows, Finalizing
      <4> QED
        BY <1>b, <4>1, <4>3, <4>4
    <3> QED
      BY <3>1, <3>2
  <2>4. h'[i] = r /\ \A j \in Handler \ {i} : h'[j] = h[j]
    BY <2>3, Moved
  <2> HIDE DEF c
  <2>5. \A d \in Command : /\ cmds[d].started => cmds'[d].started
                           /\ MayBecome(i, d, cmds'[d].status)
                           /\ cmds'[d].status \in Delivered => d \in With(Delivered)
    BY <2>1, <2>2 DEF MayBecome, With, InFlight, Delivered
  <2>6. \A j \in Handler : At(j, "stage") => cmds'[h[j].cmd] = cmds[h[j].cmd]
    BY <1>f, <2>1, <2>2 DEF IndInv, StagedOnce, Delivered
  <2> QED
    BY <2>1, <2>3, <2>4, <2>5, <2>6, CommandFrame DEF Finalizing
<1>14. ASSUME NEW i \in Handler, TerminalEvent(i) PROVE IndInv'
  <2>1. PICK c \in With({"delivered"}) :
          /\ SetStatus(c, "done")
          /\ Begin(i, [Idle EXCEPT !.pc = "finalize", !.cmd = c])
    BY <1>14 DEF TerminalEvent
  <2>2. /\ c \in Command /\ cmds[c].status = "delivered"
        /\ UNCHANGED <<req, lost, fenced>>
    BY <1>14, <2>1 DEF TerminalEvent, With
  <2>3. /\ cmds'[c].status = "done" /\ cmds'[c].started = cmds[c].started
        /\ \A d \in Command \ {c} : cmds'[d] = cmds[d]
    BY <2>1, <2>2 DEF SetStatus, TypeOK, CommandRow
  <2>4. \A d \in Command : /\ cmds[d].started => cmds'[d].started
                           /\ MayBecome(i, d, cmds'[d].status)
                           /\ cmds'[d].status \in Delivered => d \in With(Delivered)
    BY <2>2, <2>3 DEF MayBecome, With, InFlight, Delivered
  <2>5. \A j \in Handler : At(j, "stage") => cmds'[h[j].cmd] = cmds[h[j].cmd]
    BY <1>f, <2>2, <2>3 DEF IndInv, StagedOnce
  <2> DEFINE r == [Idle EXCEPT !.pc = "finalize", !.cmd = c]
  <2>6. r.pc = "finalize" /\ r.cmd = c /\ r.row = Prepared
    BY DEF Idle
  <2>7. h'[i] = r /\ \A j \in Handler \ {i} : h'[j] = h[j]
    BY <2>1, Moved
  <2> HIDE DEF r
  <2>8. Fits(i, r)
    BY <2>2, <2>6, FreshFits DEF Knows, Finalizing
  <2> QED
    BY <1>e, <2>2, <2>3, <2>4, <2>5, <2>6, <2>7, <2>8, CommandFrame DEF Finalizing
<1>15. ASSUME NEW i \in Handler, ClaimTerminal(i) PROVE IndInv'
  <2>1. CASE UNCHANGED req /\ Return(i)
    BY <1>15, <2>1, ReturnOnly DEF ClaimTerminal
  <2>2. CASE ~(UNCHANGED req /\ Return(i))
    <3> DEFINE r == [h[i] EXCEPT !.pc = "advance", !.claim = NewClaim]
    <3>1. /\ NewClaim \in Claim /\ \A j \in Handler : h[j].claim # NewClaim
          /\ Begin(i, r) /\ req.status \in Active /\ req.cmd = h[i].cmd
      BY <1>15, <2>2, FreshClaim DEF ClaimTerminal, FreeClaims, ClaimsInUse
    <3>2. /\ req'.status = "finalizing" /\ req'.cmd = req.cmd /\ req'.claim = NewClaim
          /\ UNCHANGED <<cmds, lost, fenced>>
      BY <1>15, <2>2 DEF ClaimTerminal, TypeOK, Request
    <3>3. r.pc = "advance" /\ r.cmd = h[i].cmd /\ r.row = h[i].row /\ r.claim = NewClaim
      BY <1>b DEF HandlerState
    <3> HIDE DEF r
    <3>4. Fits(i, r)
      BY <3>1, <3>3, SameFits DEF Knows, Finalizing
    <3>5. h[i].cmd \in Command
      BY <1>15, <1>c DEF ClaimTerminal, At, Knows
    <3>6. CommandMatchesStatus'
      BY <3>1, <3>2, <3>5, IdsAssumption DEF CommandMatchesStatus
    <3>7. ASSUME ~lost
          PROVE  InFlightIsLinked' /\ FenceHolds' /\ req.cmd \in With({"done"})
      BY <1>15, <3>1, <3>2, <3>7
         DEF ClaimTerminal, IndInv, InFlightIsLinked, FenceHolds, FinalizedIsDone, With,
             Active, Cancellable, Terminal
    <3> QED
      BY <1>a, <3>1, <3>2, <3>3, <3>4, <3>6, <3>7, RequestFrame DEF With
  <2> QED
    BY <2>1, <2>2
<1>16. ASSUME NEW i \in Handler, AdvanceNext(i) PROVE IndInv'
  <2>1. CASE req.claim = h[i].claim
    <3> DEFINE n == req.turn + 1
               r == [h[i] EXCEPT !.pc = "claim", !.turn = n, !.job = "dispatch",
                                 !.cmd = NoCommand, !.claim = NoClaim]
    <3>1. /\ h[i].pc = "advance" /\ req.claim \in Claim /\ Begin(i, r)
      BY <1>16, <2>1, <1>c DEF AdvanceNext, At, Knows, Finalizing
    <3>2. /\ req'.status = "running" /\ req'.cmd = NoCommand /\ req'.claim = NoClaim
          /\ UNCHANGED <<cmds, lost, fenced>>
      BY <1>16, <2>1 DEF AdvanceNext, TypeOK, Request
    <3> HIDE DEF n
    <3>3. r.pc = "claim" /\ r.cmd = NoCommand /\ r.row = h[i].row
      BY <1>b DEF HandlerState
    <3> HIDE DEF r
    <3>4. Fits(i, r)
      BY <3>3, SameFits DEF Knows, Finalizing
    <3>5. CommandMatchesStatus'
      BY <3>2 DEF CommandMatchesStatus
    <3>6. ASSUME ~lost
          PROVE  InFlightIsLinked' /\ FenceHolds'
      <4>1. req.cmd \in With({"done"})
        BY <2>1, <3>1, <3>6 DEF IndInv, FinalizedIsDone, Finalizing
      <4>2. With(InFlight) = {}
        BY <4>1, <3>6 DEF IndInv, InFlightIsLinked, With, InFlight, Delivered
      <4>3. ~fenced
        BY <3>1, <3>6, IdsAssumption DEF IndInv, FenceHolds
      <4> QED
        BY <3>2, <4>2, <4>3 DEF InFlightIsLinked, FenceHolds, With
    <3>7. \A j \in Handler : ~(h'[j].pc \in Finalizing /\ h'[j].claim = req'.claim)
      BY <1>c, <3>1, <3>2, <3>3, Moved, IdsAssumption DEF Knows, Finalizing
    <3> QED
      BY <3>1, <3>2, <3>3, <3>4, <3>5, <3>6, <3>7, RequestFrame
  <2>2. CASE req.claim # h[i].claim
    BY <1>16, <2>2, ReturnOnly DEF AdvanceNext
  <2> QED
    BY <2>1, <2>2
<1>17. ASSUME NEW i \in Handler, AdvanceEnd(i) PROVE IndInv'
  <2>1. PICK s \in {"failed", "cancelled"}, p \in {"settle", "endSession"} :
          Begin(i, [h[i] EXCEPT !.to = s, !.pc = p])
    BY <1>17 DEF AdvanceEnd
  <2> DEFINE r == [h[i] EXCEPT !.to = s, !.pc = p]
  <2>2. /\ r.pc = p /\ r.cmd = h[i].cmd /\ r.row = h[i].row
        /\ r.claim = h[i].claim /\ r.to = s
    BY <1>b DEF HandlerState
  <2>3. Begin(i, r) /\ h[i].pc = "advance" /\ UNCHANGED <<req, cmds, lost, fenced>>
    BY <1>17, <2>1 DEF AdvanceEnd, At
  <2> HIDE DEF r
  <2>4. Fits(i, r)
    BY <1>c, <2>1, <2>2, <2>3, SameFits DEF Knows, Finalizing, Terminal
  <2> QED
    BY <2>2, <2>3, <2>4, HandlerFrame DEF Finalizing
<1>18. ASSUME NEW i \in Handler, EndSession(i) PROVE IndInv'
  BY <1>18, <1>c, GotoOnly DEF EndSession, At, Knows, Finalizing
<1>19. ASSUME NEW i \in Handler, Settle(i) PROVE IndInv'
  <2>1. CASE req.claim = h[i].claim
    <3>1. /\ h[i].pc = "settle" /\ h[i].to \in Terminal /\ req.claim \in Claim
          /\ Begin(i, Idle) /\ Idle.pc = "idle"
      BY <1>19, <1>c, <2>1 DEF Settle, At, Knows, Finalizing, Return, Idle
    <3>2. /\ req'.status = h[i].to /\ req'.cmd = req.cmd
          /\ req'.claim \in {NoClaim, req.claim}
          /\ UNCHANGED <<cmds, lost, fenced>>
      BY <1>19, <2>1 DEF Settle, TypeOK, Request
    <3>3. CommandMatchesStatus'
      BY <3>1, <3>2 DEF CommandMatchesStatus, Terminal
    <3>4. ASSUME ~lost
          PROVE  InFlightIsLinked' /\ FenceHolds' /\ req.cmd \in With({"done"})
      BY <2>1, <3>1, <3>2, <3>4, IdsAssumption
         DEF IndInv, InFlightIsLinked, FenceHolds, FinalizedIsDone, Finalizing, With
    <3> QED
      BY <1>a, <3>1, <3>2, <3>3, <3>4, IdleFits, RequestFrame DEF With
  <2>2. CASE req.claim # h[i].claim
    BY <1>19, <2>2, ReturnOnly DEF Settle
  <2> QED
    BY <2>1, <2>2
<1>20. ASSUME NEW i \in Handler, CloseSession(i) PROVE IndInv'
  BY <1>20, <1>c, GotoOnly DEF CloseSession, At, Knows, Finalizing
<1>21. ASSUME NEW i \in Handler, ReadRow(i) PROVE IndInv'
  <2> DEFINE r == [h[i] EXCEPT !.pc = "overwrite", !.row = req]
  <2>1. r.pc = "overwrite" /\ r.cmd = h[i].cmd /\ r.row = req /\ r.to = h[i].to
    BY <1>b DEF HandlerState
  <2>2. /\ Begin(i, r) /\ h[i].to \in Terminal /\ h[i].pc = "write"
        /\ UNCHANGED <<req, cmds, lost, fenced>>
    BY <1>21, <1>c DEF ReadRow, At, Knows
  <2> HIDE DEF r
  <2>3. Fits(i, r)
    BY <1>a, <1>c, <2>1, <2>2 DEF Fits, Knows, Finalizing, IndInv, StagedOnce
  <2> QED
    BY <2>1, <2>2, <2>3, HandlerFrame DEF Finalizing
<1>22. ASSUME NEW i \in Handler, Reap(i) PROVE IndInv'
  <2>1. UNCHANGED <<req, cmds, lost, fenced>>
    BY <1>22 DEF Reap
  <2>2. ASSUME NEW r, Begin(i, r), r.row = Prepared, Knows(r),
               r.pc \notin Finalizing \cup {"stage"},
               r.pc = "link" => cmds[r.cmd].started,
               ~lost /\ r.pc = "finalize" => r.cmd \in With({"done"}),
               \/ r.cmd = NoCommand
               \/ cmds[r.cmd].status # "none" \/ cmds[r.cmd].started
        PROVE  IndInv'
    BY <2>1, <2>2, FreshFits, HandlerFrame DEF Finalizing
  <2>3. CASE ReapTerminalSession(i)
    <3>1. PICK r : /\ Begin(i, r) /\ r.pc \in {"write", "fence"} /\ r.cmd = NoCommand
                   /\ r.row = Prepared /\ r.to \in Terminal
                   /\ r.pc = "fence" => r.seen \in Cancellable
      <4> DEFINE w == [Recovery(i, "write") EXCEPT !.to = session]
                 f == [Recovery(i, "fence") EXCEPT !.seen = req.status,
                                                   !.to = session]
      <4>1. w.pc = "write" /\ w.cmd = NoCommand /\ w.row = Prepared /\ w.to = session
        BY DEF Recovery, Idle
      <4>2. /\ f.pc = "fence" /\ f.cmd = NoCommand /\ f.row = Prepared
            /\ f.to = session /\ f.seen = req.status
        BY DEF Recovery, Idle
      <4>3. /\ session \in Terminal
            /\ \/ Begin(i, w)
               \/ req.status \in Cancellable /\ Begin(i, f)
        BY <2>3 DEF ReapTerminalSession, Cancellable
      <4> HIDE DEF w, f
      <4> QED
        BY <4>1, <4>2, <4>3
    <3> QED
      BY <2>2, <3>1 DEF Knows, Finalizing
  <2>4. CASE ReapPrepared(i)
    <3>1. PICK r : /\ Begin(i, r) /\ r.pc \in {"activate", "write"} /\ r.cmd = NoCommand
                   /\ r.row = Prepared
                   /\ r.pc = "write" => r.to \in Terminal
      <4> DEFINE a == Recovery(i, "activate")
                 w == [Recovery(i, "write") EXCEPT !.job = "expire", !.to = "failed"]
      <4>1. /\ a.pc = "activate" /\ a.cmd = NoCommand /\ a.row = Prepared
            /\ w.pc = "write" /\ w.cmd = NoCommand /\ w.row = Prepared
            /\ w.to \in Terminal
        BY DEF Recovery, Idle, Terminal
      <4>2. Begin(i, a) \/ Begin(i, w)
        BY <2>4 DEF ReapPrepared
      <4> HIDE DEF a, w
      <4> QED
        BY <4>1, <4>2
    <3> QED
      BY <2>2, <3>1 DEF Knows, Finalizing
  <2>5. CASE ReapFinalizing(i)
    <3> DEFINE r == [Recovery(i, "finalize") EXCEPT !.cmd = req.cmd]
    <3>1. r.pc = "finalize" /\ r.cmd = req.cmd /\ r.row = Prepared /\ Begin(i, r)
      BY <2>5 DEF ReapFinalizing, Recovery, Idle
    <3> HIDE DEF r
    <3>2. req.cmd # NoCommand /\ (~lost => req.cmd \in With({"done"}))
      BY <2>5 DEF ReapFinalizing, IndInv, CommandMatchesStatus, FinalizedIsDone
    <3> QED
      BY <1>a, <2>2, <3>1, <3>2 DEF Knows, Finalizing
  <2>6. CASE ReapStaged(i)
    <3>1. PICK c \in Pending :
            Begin(i, [Recovery(i, IF cmds[c].started THEN "link" ELSE "reclaim")
                        EXCEPT !.cmd = c, !.claim = cmds[c].claim])
      BY <2>6 DEF ReapStaged
    <3> DEFINE r == [Recovery(i, IF cmds[c].started THEN "link" ELSE "reclaim")
                       EXCEPT !.cmd = c, !.claim = cmds[c].claim]
    <3>2. /\ r.pc = (IF cmds[c].started THEN "link" ELSE "reclaim")
          /\ r.cmd = c /\ r.row = Prepared
      BY DEF Recovery, Idle
    <3>3. c \in Command /\ cmds[c].status = "pending"
      BY DEF Pending, With
    <3>4. Begin(i, r)
      BY <3>1
    <3> HIDE DEF r
    <3> QED
      BY <2>2, <3>2, <3>3, <3>4 DEF Knows, Finalizing
  <2>7. CASE ReapUnstaged(i)
    <3> DEFINE r == Recovery(i, "claim")
    <3>1. r.pc = "claim" /\ r.cmd = NoCommand /\ r.row = Prepared /\ Begin(i, r)
      BY <2>7 DEF ReapUnstaged, Recovery, Idle
    <3> HIDE DEF r
    <3> QED
      BY <2>2, <3>1 DEF Knows, Finalizing
  <2>8. CASE ReapLinked(i)
    <3>1. PICK r : /\ Begin(i, r) /\ r.pc \in {"publish", "finalize"}
                   /\ r.cmd = req.cmd /\ r.row = Prepared
                   /\ r.pc = "finalize" => cmds[req.cmd].status = "done"
      <4> DEFINE p == [Recovery(i, "publish") EXCEPT !.cmd = req.cmd]
                 f == [Recovery(i, "finalize") EXCEPT !.cmd = req.cmd]
      <4>1. /\ p.pc = "publish" /\ p.cmd = req.cmd /\ p.row = Prepared
            /\ f.pc = "finalize" /\ f.cmd = req.cmd /\ f.row = Prepared
        BY DEF Recovery, Idle
      <4>2. Begin(i, p) \/ (Begin(i, f) /\ cmds[req.cmd].status = "done")
        BY <2>8 DEF ReapLinked
      <4> HIDE DEF p, f
      <4> QED
        BY <4>1, <4>2
    <3>2. req.cmd \in Command /\ cmds[req.cmd].started
      BY <1>a, <2>8 DEF ReapLinked
    <3> QED
      BY <2>2, <3>1, <3>2 DEF Knows, Finalizing, With
  <2> QED
    BY <1>22, <2>3, <2>4, <2>5, <2>6, <2>7, <2>8 DEF Reap
<1>23. ASSUME NEW i \in Handler, ReclaimDispatch(i) PROVE IndInv'
  <2>1. CASE Claimable
    <3> DEFINE r == [h[i] EXCEPT !.pc = "stamp", !.claim = NewClaim]
    <3>1. /\ NewClaim \in Claim /\ \A j \in Handler : h[j].claim # NewClaim
          /\ Begin(i, r)
      BY <1>23, <2>1, FreshClaim DEF ReclaimDispatch, FreeClaims, ClaimsInUse
    <3>2. /\ req.status \in {"running", "dispatching"} /\ req.cmd = NoCommand
          /\ h[i].cmd \in Command
      BY <1>23, <1>c, <2>1 DEF ReclaimDispatch, Claimable, At, Knows
    <3>3. /\ req'.status = "dispatching" /\ req'.cmd = NoCommand
          /\ req'.claim = NewClaim /\ UNCHANGED <<cmds, lost, fenced>>
      BY <1>23, <2>1 DEF ReclaimDispatch, Claimable, ClaimedBy, TypeOK, Request
    <3>4. r.pc = "stamp" /\ r.cmd = h[i].cmd /\ r.row = h[i].row
      BY <1>b DEF HandlerState
    <3> HIDE DEF r
    <3>5. Fits(i, r)
      BY <3>2, <3>4, SameFits DEF Knows, Finalizing
    <3>6. CommandMatchesStatus'
      BY <3>3 DEF CommandMatchesStatus
    <3>7. ASSUME ~lost
          PROVE  /\ InFlightIsLinked' /\ FenceHolds'
                 /\ \A j \in Handler :
                      ~(h'[j].pc \in Finalizing /\ h'[j].claim = req'.claim)
      BY <3>1, <3>2, <3>3, <3>4, <3>7, Moved
         DEF IndInv, InFlightIsLinked, FenceHolds, With, Terminal, Finalizing
    <3> QED
      BY <3>1, <3>3, <3>4, <3>5, <3>6, <3>7, RequestFrame
  <2>2. CASE ~Claimable
    BY <1>23, <2>2, ReturnOnly DEF ReclaimDispatch
  <2> QED
    BY <2>1, <2>2
<1>24. ASSUME NEW i \in Handler, StampCommand(i) PROVE IndInv'
  <2> DEFINE r == [h[i] EXCEPT !.pc = "start"]
  <2>1. r.pc = "start" /\ r.cmd = h[i].cmd /\ r.row = h[i].row
    BY PcOnly
  <2>2. h[i].cmd \in Command /\ \A j \in Handler \ {i} : At(j, "stage") => h[j].cmd # h[i].cmd
    BY <1>24, <1>c DEF StampCommand, At, Knows, IndInv, StagedOnce
  <2>3. /\ \A c \in Command : /\ cmds'[c].status = cmds[c].status
                              /\ cmds'[c].started = cmds[c].started
        /\ \A c \in Command \ {h[i].cmd} : cmds'[c] = cmds[c]
        /\ UNCHANGED <<req, lost, fenced>>
    BY <1>24, <2>2 DEF StampCommand, TypeOK, CommandRow
  <2>4. h'[i] = r /\ \A j \in Handler \ {i} : h'[j] = h[j]
    BY <1>24, Moved DEF StampCommand, Goto
  <2> HIDE DEF r
  <2>5. Fits(i, r)
    BY <2>1, <2>2, SameFits DEF Knows, Finalizing
  <2>6. \A c \in Command : /\ cmds[c].started => cmds'[c].started
                           /\ MayBecome(i, c, cmds'[c].status)
                           /\ cmds'[c].status \in Delivered => c \in With(Delivered)
    BY <2>3 DEF MayBecome, With
  <2> QED
    BY <1>b, <1>f, <2>1, <2>2, <2>3, <2>4, <2>5, <2>6, CommandFrame DEF Finalizing
<1>25. ASSUME NEW i \in Handler, OverwriteRow(i) PROVE IndInv'
  <2>1. /\ h[i].pc = "overwrite" /\ h[i].to \in Terminal /\ h[i].row \in Request
        /\ UNCHANGED <<cmds, fenced>>
    BY <1>25, <1>b, <1>c DEF OverwriteRow, At, Knows, HandlerState
  <2>2. req'.status = h[i].to /\ req'.cmd = h[i].row.cmd /\ req'.claim = h[i].row.claim
    BY <1>25, <2>1 DEF OverwriteRow, Request
  <2>3. ~lost' => ~lost /\ h[i].row.cmd = req.cmd /\ h[i].row.claim = req.claim
                        /\ h[i].row.status = req.status
    BY <1>25, <2>1 DEF OverwriteRow, Request, TypeOK
  <2>4. PICK r : /\ Begin(i, r) /\ r.pc \in {"idle", "expireSession"} /\ Fits(i, r)
    <3>1. CASE Return(i)
      BY <3>1, IdleFits DEF Return
    <3>2. CASE Goto(i, "expireSession")
      <4> DEFINE r == [h[i] EXCEPT !.pc = "expireSession"]
      <4>1. r.pc = "expireSession" /\ r.cmd = h[i].cmd /\ r.row = h[i].row
        BY PcOnly
      <4>2. Begin(i, r)
        BY <3>2 DEF Goto
      <4> HIDE DEF r
      <4> QED
        BY <4>1, <4>2, SameFits DEF Knows, Finalizing
    <3> QED
      BY <1>25, <3>1, <3>2 DEF OverwriteRow
  <2>5. CommandMatchesStatus'
    BY <2>1, <2>2 DEF CommandMatchesStatus, Terminal
  <2>6. ASSUME ~lost'
        PROVE  /\ InFlightIsLinked' /\ FenceHolds'
               /\ \A j \in Handler :
                    h'[j].pc \in Finalizing /\ h'[j].claim = req'.claim
                      => req'.cmd \in With({"done"})
    BY <2>1, <2>2, <2>3, <2>4, <2>6, Moved
       DEF IndInv, InFlightIsLinked, FenceHolds, FinalizedIsDone, With, Finalizing
  <2> QED
    BY <1>d, <2>1, <2>2, <2>3, <2>4, <2>5, <2>6, RequestFrame DEF Terminal
<1>26. ASSUME NEW i \in Handler, ExpireSession(i) PROVE IndInv'
  BY <1>26, ReturnOnly DEF ExpireSession
<1>27. ASSUME NEW i \in Handler, BeginStop(i) PROVE IndInv'
  <2> DEFINE pc == IF req.status \in Cancellable THEN "fence" ELSE "stopSession"
             r  == [Idle EXCEPT !.job = "stop", !.seen = req.status,
                                !.to = "cancelled", !.pc = pc]
  <2>1. /\ r.pc = pc /\ r.cmd = NoCommand /\ r.row = Prepared /\ r.to = "cancelled"
        /\ r.seen = req.status
    BY DEF Idle
  <2>2. pc \in {"fence", "stopSession"} /\ (pc = "fence" => req.status \in Cancellable)
    OBVIOUS
  <2>3. Begin(i, r) /\ UNCHANGED <<req, cmds, lost, fenced>>
    BY <1>27 DEF BeginStop
  <2> HIDE DEF r, pc
  <2>4. Fits(i, r)
    BY <2>1, <2>2, FreshFits DEF Knows, Finalizing, Terminal
  <2> QED
    BY <2>1, <2>2, <2>3, <2>4, HandlerFrame DEF Finalizing
<1>28. ASSUME NEW i \in Handler, Fence(i) PROVE IndInv'
  <2>1. h[i].pc = "fence" /\ h[i].to \in Terminal /\ h[i].seen \in Cancellable
    BY <1>28, <1>c DEF Fence, At, Knows
  <2>2. CASE req.status = h[i].seen
    <3>1. /\ req'.status = h[i].to /\ req'.cmd = req.cmd
          /\ req'.claim = IF h[i].job = "stop" THEN NoClaim ELSE req.claim
          /\ UNCHANGED <<cmds, lost>>
          /\ fenced' = (fenced \/ (h[i].job = "stop" /\ With(Delivered) = {}))
      BY <1>28, <2>2 DEF Fence, TypeOK, Request
    <3>2. PICK r : /\ Begin(i, r) /\ r.pc \in {"idle", "discard"} /\ Fits(i, r)
      <4>1. CASE Return(i)
        BY <4>1, IdleFits DEF Return
      <4>2. CASE Goto(i, "discard")
        <5> DEFINE r == [h[i] EXCEPT !.pc = "discard"]
        <5>1. r.pc = "discard" /\ r.cmd = h[i].cmd /\ r.row = h[i].row
          BY PcOnly
        <5>2. Begin(i, r)
          BY <4>2 DEF Goto
        <5> HIDE DEF r
        <5> QED
          BY <5>1, <5>2, SameFits DEF Knows, Finalizing
      <4> QED
        BY <1>28, <2>2, <4>1, <4>2 DEF Fence
    <3>3. CommandMatchesStatus'
      BY <2>1, <3>1 DEF CommandMatchesStatus, Terminal
    <3>4. ASSUME ~lost
          PROVE  InFlightIsLinked' /\ FenceHolds'
      BY <2>1, <2>2, <3>1, <3>4
         DEF IndInv, InFlightIsLinked, FenceHolds, With, Cancellable, Terminal
    <3>5. ASSUME ~lost
          PROVE  \A j \in Handler :
                   h'[j].pc \in Finalizing /\ h'[j].claim = req'.claim
                     => req'.cmd \in With({"done"})
      BY <1>c, <3>1, <3>2, <3>5, Moved, IdsAssumption
         DEF IndInv, FinalizedIsDone, Knows, Finalizing
    <3> QED
      BY <1>a, <2>1, <3>1, <3>2, <3>3, <3>4, <3>5, RequestFrame DEF Terminal
  <2>3. CASE req.status # h[i].seen
    BY <1>28, <2>3, GotoOnly, ReturnOnly DEF Fence, Finalizing
  <2> QED
    BY <2>2, <2>3
<1>29. ASSUME NEW i \in Handler, Discard(i) PROVE IndInv'
  <2>1. \A c \in Command :
          /\ cmds'[c].started = cmds[c].started
          /\ \/ cmds'[c] = cmds[c]
             \/ cmds[c].status = "pending" /\ cmds'[c].status = "none"
    <3>1. CASE UNCHANGED cmds
      BY <3>1
    <3>2. CASE \E c \in Pending :
                 cmds' = [cmds EXCEPT ![c] = [Unused EXCEPT !.started = cmds[c].started]]
      BY <3>2 DEF Pending, With, Unused, TypeOK
    <3> QED
      BY <1>29, <3>1, <3>2 DEF Discard
  <2>2. UNCHANGED <<req, lost, fenced>>
    BY <1>29 DEF Discard
  <2>3. PICK r : /\ Begin(i, r) /\ r.pc \in {"idle", "stopSession"} /\ Fits(i, r)
                 /\ r.row.cmd \in Command \cup {NoCommand}
    <3>1. CASE Return(i)
      BY <1>e, <3>1, IdleFits DEF Return, Idle
    <3>2. CASE Goto(i, "stopSession")
      <4> DEFINE r == [h[i] EXCEPT !.pc = "stopSession"]
      <4>1. r.pc = "stopSession" /\ r.cmd = h[i].cmd /\ r.row = h[i].row
        BY PcOnly
      <4>2. Begin(i, r)
        BY <3>2 DEF Goto
      <4> HIDE DEF r
      <4> QED
        BY <1>b, <4>1, <4>2, SameFits DEF Knows, Finalizing
    <3> QED
      BY <1>29, <3>1, <3>2 DEF Discard
  <2>4. h'[i] = r /\ \A j \in Handler \ {i} : h'[j] = h[j]
    BY <2>3, Moved
  <2>5. \A c \in Command : /\ cmds[c].started => cmds'[c].started
                           /\ MayBecome(i, c, cmds'[c].status)
                           /\ cmds'[c].status \in Delivered => c \in With(Delivered)
    BY <2>1 DEF MayBecome, With, Delivered
  <2>6. \A j \in Handler : At(j, "stage") => cmds'[h[j].cmd] = cmds[h[j].cmd]
    BY <1>f, <2>1 DEF IndInv, StagedOnce
  <2> QED
    BY <2>2, <2>3, <2>4, <2>5, <2>6, CommandFrame DEF Finalizing
<1>30. ASSUME NEW i \in Handler, StopSession(i) PROVE IndInv'
  BY <1>30, ReturnOnly DEF StopSession
<1>31. ASSUME NEW i \in Handler, Crash(i) PROVE IndInv'
  BY <1>31, ReturnOnly DEF Crash
<1>32. CASE ExpireClaim
  <2>1. /\ req'.status = req.status /\ req'.cmd = req.cmd /\ req'.claim = req.claim
        /\ UNCHANGED <<cmds, h, lost, fenced>>
    BY <1>32 DEF ExpireClaim, TypeOK, Request
  <2> QED
    BY <2>1
       DEF IndInv, HandlersKnow, Knows, StagedOnce, CommandMatchesStatus,
           RecordedBeforeLink, RecordedBeforeDelivery, InFlightIsLinked,
           FinalizedIsDone, FenceHolds, With, At
<1>33. CASE UNCHANGED vars
  BY <1>33
     DEF vars, IndInv, HandlersKnow, Knows, StagedOnce, CommandMatchesStatus,
         RecordedBeforeLink, RecordedBeforeDelivery, InFlightIsLinked,
         FinalizedIsDone, FenceHolds, With, At
<1>34. ASSUME NEW i \in Handler, RefuseNode(i) PROVE IndInv'
  <2> DEFINE r == [Idle EXCEPT !.pc = "close", !.to = "failed"]
  <2>1. UNCHANGED <<req, lost, fenced>>
    BY <1>34 DEF RefuseNode, history
  <2>2. CASE Return(i) /\ UNCHANGED cmds
    BY <2>1, <2>2, ReturnOnly
  <2>3. CASE Begin(i, r) /\ req.cmd \in {NoCommand} \cup With(InFlight)
    <3>1. r.pc = "close" /\ r.to = "failed" /\ r.cmd = NoCommand /\ r.row = Prepared
      BY DEF Idle
    <3>2. h'[i] = r /\ \A j \in Handler \ {i} : h'[j] = h[j]
      BY <2>3, Moved
    <3> HIDE DEF r
    <3>3. Fits(i, r)
      BY <3>1, IdsAssumption
         DEF Fits, Knows, Finalizing, Terminal, Prepared, IndInv, HandlersKnow, At
    <3>4. CASE req.cmd = NoCommand
      <4>1. UNCHANGED cmds
        BY <1>34, <2>3, <3>4, IdsAssumption DEF RefuseNode, With
      <4> QED
        BY <2>1, <2>3, <3>1, <3>3, <4>1, HandlerFrame DEF Finalizing
    <3>5. CASE req.cmd \in With(InFlight) /\ req.cmd # NoCommand
      <4> DEFINE c == req.cmd
      <4>1. c \in Command /\ cmds[c].status \in InFlight
        BY <3>5 DEF With
      <4>2. SetStatus(c, "done")
        BY <1>34, <3>5 DEF RefuseNode, With
      <4>3. /\ cmds'[c].status = "done" /\ cmds'[c].started = cmds[c].started
            /\ \A d \in Command \ {c} : cmds'[d] = cmds[d]
        BY <4>1, <4>2 DEF SetStatus, TypeOK, CommandRow
      <4> HIDE DEF c
      <4>4. \A d \in Command : /\ cmds[d].started => cmds'[d].started
                               /\ MayBecome(i, d, cmds'[d].status)
                               /\ cmds'[d].status \in Delivered => d \in With(Delivered)
        BY <4>1, <4>3 DEF MayBecome, With, Delivered
      <4>5. \A j \in Handler : At(j, "stage") => cmds'[h[j].cmd] = cmds[h[j].cmd]
        BY <1>f, <4>1, <4>3 DEF IndInv, StagedOnce, InFlight, Delivered
      <4>6. r.row.cmd \in Command \cup {NoCommand}
        BY <3>1 DEF Prepared
      <4> QED
        BY <2>1, <3>1, <3>2, <3>3, <4>4, <4>5, <4>6, CommandFrame DEF Finalizing
    <3> QED
      BY <2>3, <3>4, <3>5
  <2> QED
    BY <1>34, <1>a, <2>2, <2>3 DEF RefuseNode
<1> QED
  BY <1>1, <1>2, <1>3, <1>4, <1>5, <1>6, <1>7, <1>8, <1>9, <1>10, <1>11,
     <1>12, <1>13, <1>14, <1>15, <1>16, <1>17, <1>18, <1>19, <1>20, <1>21,
     <1>22, <1>23, <1>24, <1>25, <1>26, <1>27, <1>28, <1>29, <1>30, <1>31,
     <1>32, <1>33, <1>34 DEF Next, Step

LEMMA InitTyped == Init => TypeOK /\ IndInv
<1> SUFFICES ASSUME Init PROVE TypeOK /\ IndInv
  OBVIOUS
<1> USE DEF Init
<1>1. req \in Request
  BY IdleTyped
<1>2. cmds \in [Command -> CommandRow]
  BY Statuses DEF Unused, CommandRow
<1>3. h \in [Handler -> HandlerState]
  BY IdleTyped
<1>4. TypeOK
  BY <1>1, <1>2, <1>3, Statuses DEF TypeOK
<1>5. \A i \in Handler : h[i].pc = "idle" /\ h[i].row.cmd = NoCommand
  BY DEF Idle, Prepared
<1>6. With(InFlight) = {}
  BY DEF With, InFlight, Delivered, Unused
<1>7. req.status = "prepared" /\ req.cmd = NoCommand
  BY DEF Prepared
<1>8. IndInv
  BY <1>5, <1>6, <1>7
     DEF IndInv, HandlersKnow, Knows, StagedOnce, CommandMatchesStatus,
         RecordedBeforeLink, RecordedBeforeDelivery, InFlightIsLinked,
         FinalizedIsDone, FenceHolds, Finalizing, At
<1> QED
  BY <1>4, <1>8

-----------------------------------------------------------------------------
(* The theorems.                                                           *)

\* The types and the inductive invariant hold in every reachable state.
THEOREM Invariance == Spec => [](TypeOK /\ IndInv)
<1>1. TypeOK /\ IndInv /\ [Next]_vars => (TypeOK /\ IndInv)'
  BY TypeStep, IndStep DEF IndInv
<1> QED
  BY InitTyped, <1>1, PTL DEF Spec

\* The rows and the handlers keep their types through every transaction of
\* daemon_store.py, in whatever order the handlers run them.
THEOREM TypeCorrect == Spec => []TypeOK
BY Invariance, PTL

\* No command is queued for a daemon, or with one, whose agent.started was not
\* appended to the session by _ensure_agent_started_for_command: only what the
\* request links is published, and only what is recorded is ever linked, by the
\* row or by a stale copy of it that is written back.
THEOREM RecordedFirst == Spec => []RecordedBeforeDelivery
<1>1. IndInv => RecordedBeforeDelivery
  BY DEF IndInv
<1> QED
  BY Invariance, <1>1, PTL

\* Claims, link and publish admit one run of a request at a time, whatever
\* handlers crash, are slow, or take over from each other, as long as no
\* update_run_request overwrites a change it has not read.
THEOREM OneInFlight == Spec => []OneRunInFlight
<1>1. IndInv => OneRunInFlight
  BY DEF IndInv, OneRunInFlight, InFlightIsLinked
<1> QED
  BY Invariance, <1>1, PTL

\* When cancel_run_request_before_delivery fences a request that no daemon
\* has, no later link, publish or poll hands it to one, lost updates apart.
THEOREM FenceIsFinal == Spec => []FencedNeverDelivered
<1>1. IndInv => FencedNeverDelivered
  BY DEF IndInv, FencedNeverDelivered, FenceHolds
<1> QED
  BY Invariance, <1>1, PTL

=============================================================================
