------------------------- MODULE RunFinalizationProofs -------------------------
(***************************************************************************)
(* Proofs about RunFinalization, for any handlers, claims, runs and        *)
(* hazards.  What a handler holds stays folded in Work: an action's update *)
(* is typed by Moves, Goes and Returns.                                    *)
(***************************************************************************)
EXTENDS RunFinalization, TLAPS

\* Every label and status that an action writes is one.
LEMMA Labels ==
  /\ {"idle", "markRead", "markWrite", "recordTimeout", "claim", "fence", "readSession",
      "record", "advance", "endSession", "settle", "complete", "readRow", "writeRow",
      "note", "suppress", "stopSession"} \subseteq PCs
  /\ Jobs = {"none", "event", "timeout", "note", "stop", "close"}
  /\ Terminal = {"completed", "failed", "cancelled"}
  /\ Active = {"running", "finalizing"}
  BY DEF PCs, Jobs, Terminal, Active

\* A run is a number within the round.
LEMMA Runs ==
  /\ 0 \in 0 .. Turns /\ 1 \in 1 .. Turns + 1
  /\ \A r \in Run : r \in 0 .. Turns /\ r # 0 /\ r + 1 \in 1 .. Turns + 1
  /\ \A r \in 0 .. Turns : r # 0 => r \in Run
  BY TurnsAssumption DEF Run

\* A request that has just begun and a handler at rest are typed.
LEMMA IdleTyped ==
  /\ First \in Request /\ Idle \in Work
  /\ Idle.pc = "idle" /\ Idle.job = "none" /\ Idle.claim = NoClaim /\ ~Idle.logged
  /\ Idle.row = First /\ First.status = "running"
  <1>1. First \in Request
    BY Labels, Runs DEF First, Request
  <1>2. Idle \in Work
    BY <1>1, Labels, Runs DEF Idle, Work
  <1> QED
    BY <1>1, <1>2 DEF Idle, First

\* A handler that takes a typed record stays typed, and the others stay as they are.
LEMMA Moves ==
  ASSUME h \in [Handler -> Work], NEW i \in Handler, NEW r \in Work, Begin(i, r)
  PROVE  /\ h' \in [Handler -> Work] /\ h'[i] = r
         /\ \A j \in Handler : j # i => h'[j] = h[j]
  BY DEF Begin

LEMMA Returns ==
  ASSUME h \in [Handler -> Work], NEW i \in Handler, Return(i)
  PROVE  /\ h' \in [Handler -> Work] /\ h'[i] = Idle
         /\ \A j \in Handler : j # i => h'[j] = h[j]
  BY IdleTyped, Moves DEF Return

LEMMA Goes ==
  ASSUME h \in [Handler -> Work], NEW i \in Handler, NEW pc \in PCs, Goto(i, pc)
  PROVE  /\ h' \in [Handler -> Work] /\ h'[i] = [h[i] EXCEPT !.pc = pc]
         /\ \A j \in Handler : j # i => h'[j] = h[j]
  <1>1. [h[i] EXCEPT !.pc = pc] \in Work
    BY DEF Work
  <1> QED
    BY <1>1, Moves DEF Goto

\* The fields that a step writes can be replaced by values of their types.
LEMMA Fields ==
  ASSUME NEW s \in Work, NEW p \in PCs
  PROVE  /\ \A x \in Terminal : [s EXCEPT !.to = x, !.pc = p] \in Work
         /\ \A x \in Terminal : [s EXCEPT !.pc = p, !.to = x] \in Work
         /\ \A x \in Claim : [s EXCEPT !.pc = p, !.claim = x] \in Work
         /\ \A x \in Request : [s EXCEPT !.pc = p, !.row = x] \in Work
         /\ \A x \in Terminal \cup {"running"}, b \in BOOLEAN :
              [s EXCEPT !.pc = p, !.seen = x, !.logged = b] \in Work
  <1>1. \A x \in Terminal :
          [s EXCEPT !.to = x, !.pc = p] \in Work /\ [s EXCEPT !.pc = p, !.to = x] \in Work
    BY DEF Work
  <1>2. \A x \in Claim : [s EXCEPT !.pc = p, !.claim = x] \in Work
    BY DEF Work
  <1>3. \A x \in Request : [s EXCEPT !.pc = p, !.row = x] \in Work
    BY DEF Work
  <1>4. \A x \in Terminal \cup {"running"}, b \in BOOLEAN :
          [s EXCEPT !.pc = p, !.seen = x, !.logged = b] \in Work
    <2>1. Terminal \cup {"running"} \subseteq Active \cup Terminal \cup {"none"}
      BY Labels
    <2> QED
      BY <2>1 DEF Work
  <1> QED
    BY <1>1, <1>2, <1>3, <1>4

Keeps(s, t) == t.job = s.job /\ t.cmd = s.cmd /\ t.event = s.event

\* ... and the other fields keep theirs.
LEMMA Written ==
  ASSUME NEW s \in Work, NEW p
  PROVE  /\ LET t == [s EXCEPT !.pc = p]
            IN  /\ t.pc = p /\ Keeps(s, t) /\ t.claim = s.claim /\ t.logged = s.logged
                /\ t.to = s.to /\ t.row = s.row
         /\ \A x : LET t == [s EXCEPT !.to = x, !.pc = p]
                  IN  /\ t.pc = p /\ Keeps(s, t) /\ t.claim = s.claim
                      /\ t.logged = s.logged /\ t.to = x /\ t.row = s.row
         /\ \A x : LET t == [s EXCEPT !.pc = p, !.to = x]
                  IN  /\ t.pc = p /\ Keeps(s, t) /\ t.claim = s.claim
                      /\ t.logged = s.logged /\ t.to = x /\ t.row = s.row
         /\ \A x : LET t == [s EXCEPT !.pc = p, !.claim = x]
                  IN  /\ t.pc = p /\ Keeps(s, t) /\ t.claim = x
                      /\ t.logged = s.logged /\ t.to = s.to /\ t.row = s.row
         /\ \A x : LET t == [s EXCEPT !.pc = p, !.row = x]
                  IN  /\ t.pc = p /\ Keeps(s, t) /\ t.claim = s.claim
                      /\ t.logged = s.logged /\ t.to = s.to /\ t.row = x
         /\ \A x, b : LET t == [s EXCEPT !.pc = p, !.seen = x, !.logged = b]
                     IN  /\ t.pc = p /\ Keeps(s, t) /\ t.claim = s.claim
                         /\ t.logged = b /\ t.to = s.to /\ t.row = s.row
  BY DEF Work, Keeps

\* A count in the log or in the history goes up.
LEMMA Counts ==
  ASSUME NEW f \in [Run -> Nat], NEW r
  PROVE  [f EXCEPT ![r] = @ + 1] \in [Run -> Nat]
  <1>1. \A x \in Run : f[x] \in Nat /\ f[x] + 1 \in Nat
    OBVIOUS
  <1>2. [f EXCEPT ![r] = @ + 1] = [x \in Run |-> IF x = r THEN f[r] + 1 ELSE f[x]]
    OBVIOUS
  <1> QED
    BY <1>1, <1>2

\* The end of the round is written to the session, or found there.
LEMMA Ends ==
  ASSUME h \in [Handler -> Work], NEW i \in Handler, NEW s \in Terminal, EndRound(i, s)
  PROVE  /\ h' \in [Handler -> Work]
         /\ \/ h'[i] = [h[i] EXCEPT !.to = s, !.pc = "settle"]
            \/ h'[i] = [h[i] EXCEPT !.to = s, !.pc = "endSession"]
         /\ \A j \in Handler : j # i => h'[j] = h[j]
  <1>1. /\ [h[i] EXCEPT !.to = s, !.pc = "settle"] \in Work
        /\ [h[i] EXCEPT !.to = s, !.pc = "endSession"] \in Work
    BY Fields, Labels, Zenon
  <1> QED
    BY <1>1, Moves DEF EndRound

\* A hazard that happens is one that may.
LEMMA SpendType ==
  ASSUME TypeOK, NEW k, Spend(k)
  PROVE  happened' \subseteq Possible /\ left' \in 0 .. MaxHazards
  BY HazardsAssumption DEF TypeOK, Spend

\* A new claim is nobody's.
LEMMA NewClaimType ==
  ASSUME FreeClaims # {}
  PROVE  /\ NewClaim \in Claim /\ NewClaim # req.claim
         /\ \A i \in Handler : h[i].claim # NewClaim
  BY DEF NewClaim, FreeClaims

\* The first run waits to be dispatched, and nothing is logged or claimed.
LEMMA InitIndInv ==
  ASSUME Init
  PROVE  TypeOK /\ IndInv
  <1> USE DEF Init
  <1>1. TypeOK
    <2>1. left \in 0 .. MaxHazards /\ happened \subseteq Possible
      BY HazardsAssumption
    <2>2. h \in [Handler -> Work]
      BY IdleTyped
    <2> QED
      BY <2>1, <2>2, IdleTyped, Labels DEF TypeOK
  <1>2. Prepared /\ LoggedBefore /\ LoggedFirst
    BY IdleTyped DEF Prepared, Ready, Claimed, LoggedBefore, HasLogged, LoggedFirst
  <1>3. ClaimHeldOnce
    BY IdleTyped, ClaimAssumption DEF ClaimHeldOnce, HasClaim, Works
  <1>4. CursorAhead
    BY IdleTyped, ClaimAssumption DEF CursorAhead, First, Run
  <1> QED
    BY <1>1, <1>2, <1>3, <1>4 DEF IndInv

-----------------------------------------------------------------------------
\* Every action keeps the types: a handler takes a step only with what it needs.
LEMMA StepTypeOK ==
  ASSUME TypeOK, Prepared, [Next]_vars
  PROVE  TypeOK'
  <1> USE DEF TypeOK
  <1>a. /\ req.status \in Active \cup Terminal /\ req.cmd \in 0 .. Turns
        /\ req.event \in Terminal \cup {"none"}
    BY DEF Request
  <1>b. \A i \in Handler :
          /\ h[i] \in Work /\ h[i].cmd \in 0 .. Turns /\ h[i].row \in Request
          /\ h[i].event \in Terminal \cup {"none"}
    BY DEF Work
  <1>1. ASSUME NEW i \in Handler, TerminalEvent(i) PROVE TypeOK'
    <2>1. \A r \in Run, e \in Terminal, p \in PCs :
            [Idle EXCEPT !.pc = p, !.job = "event", !.cmd = r, !.event = e] \in Work
      BY IdleTyped, Labels, Runs, Zenon DEF Work
    <2>2. PICK r \in Run, e \in Terminal :
            /\ reports' = [reports EXCEPT ![r] = e]
            /\ \/ Begin(i, [Idle EXCEPT !.pc = "markRead", !.job = "event", !.cmd = r,
                                        !.event = e])
               \/ Begin(i, [Idle EXCEPT !.pc = "claim", !.job = "event", !.cmd = r,
                                        !.event = e])
            /\ UNCHANGED used \/ Spend("retry")
      BY <1>1 DEF TerminalEvent
    <2>3. h' \in [Handler -> Work]
      BY <2>1, <2>2, Moves, Labels
    <2> QED
      BY <1>1, <2>2, <2>3, SpendType DEF TerminalEvent, used, history
  <1>2. ASSUME NEW i \in Handler, ReceiveProgress(i) PROVE TypeOK'
    <2>1. \A r \in Run :
            [Idle EXCEPT !.pc = "note", !.job = "note", !.cmd = r] \in Work
      BY IdleTyped, Labels, Runs DEF Work
    <2>2. h' \in [Handler -> Work]
      BY <1>2, <2>1, Moves DEF ReceiveProgress
    <2> QED
      BY <1>2, <2>2, SpendType DEF ReceiveProgress, history
  <1>3. ASSUME NEW i \in Handler, ReapStale(i) PROVE TypeOK'
    <2>1. [Idle EXCEPT !.pc = "markRead", !.job = "timeout", !.cmd = req.cmd,
                       !.event = "failed", !.to = "failed"] \in Work
      BY <1>a, IdleTyped, Labels DEF Work
    <2>2. h' \in [Handler -> Work]
      BY <1>3, <2>1, Moves DEF ReapStale
    <2> QED
      BY <1>3, <2>2, SpendType DEF ReapStale, history
  <1>4. ASSUME NEW i \in Handler, Reap(i) PROVE TypeOK'
    <2>1. \A e \in Terminal :
            [Idle EXCEPT !.pc = "claim", !.job = "event", !.cmd = req.cmd, !.event = e]
              \in Work
      BY <1>a, IdleTyped, Labels, Zenon DEF Work
    <2>2. [Idle EXCEPT !.pc = "complete", !.job = "close"] \in Work
      BY IdleTyped, Labels DEF Work
    <2>3. \A s \in Terminal :
            [Idle EXCEPT !.pc = "suppress", !.seen = "running", !.to = s] \in Work
      BY IdleTyped, Labels, Zenon DEF Work
    <2>4. h' \in [Handler -> Work]
      BY <1>4, <2>1, <2>2, <2>3, Moves
         DEF Reap, ReapFinalizing, ReapEnded, ReapPastEnd, ReapTerminalSession, Prepared, Ready,
             Claimed
    <2> QED
      BY <1>4, <2>4 DEF Reap, used, history
  <1>5. ASSUME NEW i \in Handler, BeginStop(i) PROVE TypeOK'
    <2>1. \A p \in PCs :
            [Idle EXCEPT !.job = "stop", !.seen = req.status, !.to = "cancelled",
                         !.pc = p] \in Work
      BY <1>a, IdleTyped, Labels, Zenon DEF Work
    <2>2. h' \in [Handler -> Work]
      BY <1>5, <2>1, Moves, Labels DEF BeginStop
    <2> QED
      BY <1>5, <2>2, SpendType DEF BeginStop, history
  <1>6. ASSUME NEW i \in Handler, MarkRead(i) PROVE TypeOK'
    <2>1. h' \in [Handler -> Work]
      BY <1>6, Goes, Returns, Labels DEF MarkRead
    <2> QED
      BY <1>6, <2>1 DEF MarkRead, used, history
  <1>7. ASSUME NEW i \in Handler, MarkWrite(i) PROVE TypeOK'
    <2>1. h' \in [Handler -> Work]
      BY <1>7, Goes, Labels DEF MarkWrite
    <2>2. h[i].event \in Terminal
      BY <1>7 DEF MarkWrite, At, Prepared, Ready
    <2> QED
      BY <1>7, <2>1, <2>2 DEF MarkWrite, used, history
  <1>8. ASSUME NEW i \in Handler, RecordTimeout(i) PROVE TypeOK'
    <2>1. h' \in [Handler -> Work]
      BY <1>8, Goes, Labels DEF RecordTimeout
    <2>2. completions' \in [Run -> Nat]
      BY <1>8, Counts DEF RecordTimeout
    <2> QED
      BY <1>8, <2>1, <2>2 DEF RecordTimeout, used, history
  <1>9. ASSUME NEW i \in Handler, ClaimTerminal(i) PROVE TypeOK'
    <2>1. CASE UNCHANGED req /\ Return(i)
      BY <1>9, <2>1, Returns DEF ClaimTerminal, used, history
    <2>2. CASE ~(UNCHANGED req /\ Return(i))
      <3>1. NewClaim \in Claim
        BY <1>9, <2>2, NewClaimType DEF ClaimTerminal
      <3>2. [h[i] EXCEPT !.pc = "fence", !.claim = NewClaim] \in Work
        BY <1>b, <3>1, Fields, Labels, Zenon
      <3>3. h[i].event \in Terminal
        BY <1>9 DEF ClaimTerminal, At, Prepared, Ready
      <3>4. [req EXCEPT !.status = "finalizing", !.event = h[i].event,
                        !.claim = NewClaim, !.live = TRUE] \in Request
        BY <3>1, <3>3, Labels DEF Request
      <3> QED
        BY <1>9, <2>2, <3>2, <3>4, Moves DEF ClaimTerminal, used, history
    <2> QED
      BY <2>1, <2>2
  <1>10. ASSUME NEW i \in Handler, CheckClaim(i) PROVE TypeOK'
    <2>1. h' \in [Handler -> Work]
      BY <1>10, Goes, Returns, Labels DEF CheckClaim
    <2> QED
      BY <1>10, <2>1 DEF CheckClaim, used, history
  <1>11. ASSUME NEW i \in Handler, ReadSession(i) PROVE TypeOK'
    <2>1. \A b \in BOOLEAN :
            [h[i] EXCEPT !.pc = "record", !.seen = session, !.logged = b] \in Work
      BY <1>b, Fields, Labels, Zenon
    <2>2. \E b \in BOOLEAN :
            Begin(i, [h[i] EXCEPT !.pc = "record", !.seen = session, !.logged = b])
      <3>1. (completions[h[i].cmd] > 0) \in BOOLEAN
        OBVIOUS
      <3> QED
        BY <1>11, <3>1 DEF ReadSession
    <2>3. h' \in [Handler -> Work]
      BY <2>1, <2>2, Moves
    <2> QED
      BY <1>11, <2>3 DEF ReadSession, used, history
  <1>12. ASSUME NEW i \in Handler, RecordCompletion(i) PROVE TypeOK'
    <2>1. h' \in [Handler -> Work]
      BY <1>12, Goes, Ends, Labels, Zenon DEF RecordCompletion
    <2>2. completions' \in [Run -> Nat]
      BY <1>12, Counts DEF RecordCompletion
    <2> QED
      BY <1>12, <2>1, <2>2 DEF RecordCompletion, used, history
  <1>13. ASSUME NEW i \in Handler, Advance(i) PROVE TypeOK'
    <2>1. [Idle EXCEPT !.pc = "complete", !.job = "close"] \in Work
      BY IdleTyped, Labels DEF Work
    <2>2. h' \in [Handler -> Work]
      BY <1>13, <2>1, Moves, Returns, Ends, Labels, Zenon DEF Advance
    <2>3. h[i].cmd + 1 \in 1 .. Turns + 1
      BY <1>13, Runs DEF Advance, At, Prepared, Ready
    <2>4. [req EXCEPT !.status = "running", !.turn = h[i].cmd + 1, !.cmd = 0,
                      !.event = "none", !.claim = NoClaim, !.live = FALSE] \in Request
      BY <2>3, Labels, Runs DEF Request
    <2>5. req' \in Request /\ applied' \in [Run -> Nat]
      BY <1>13, <2>4 DEF Advance, Applied
    <2> QED
      BY <1>13, <2>2, <2>5 DEF Advance, used
  <1>14. ASSUME NEW i \in Handler, EndSession(i) PROVE TypeOK'
    <2>1. h' \in [Handler -> Work]
      BY <1>14, Goes, Labels DEF EndSession
    <2>2. h[i].to \in Terminal
      BY <1>14 DEF EndSession, At, Prepared, Ready
    <2> QED
      BY <1>14, <2>1, <2>2 DEF EndSession, used, history
  <1>15. ASSUME NEW i \in Handler, Settle(i) PROVE TypeOK'
    <2>1. h[i].to \in Terminal
      BY <1>15 DEF Settle, At, Prepared, Ready
    <2>2. /\ [req EXCEPT !.status = "failed", !.event = "none",
                         !.claim = NoClaim, !.live = FALSE] \in Request
          /\ [req EXCEPT !.status = h[i].to] \in Request
      BY <2>1, Labels DEF Request
    <2>3. req' \in Request /\ applied' \in [Run -> Nat]
      BY <1>15, <2>2 DEF Settle, Applied
    <2> QED
      BY <1>15, <2>3, Returns DEF Settle, used
  <1>16. ASSUME NEW i \in Handler, CompleteSession(i) PROVE TypeOK'
    <2>1. [h[i] EXCEPT !.pc = "readRow", !.to = "completed"] \in Work
      BY <1>b, Fields, Labels, Zenon
    <2> QED
      BY <1>16, <2>1, Moves, Labels DEF CompleteSession, used, history
  <1>17. ASSUME NEW i \in Handler, ReadRow(i) PROVE TypeOK'
    <2>1. [h[i] EXCEPT !.pc = "writeRow", !.row = req] \in Work
      BY <1>b, Fields, Labels, Zenon
    <2> QED
      BY <1>17, <2>1, Moves DEF ReadRow, used, history
  <1>18. ASSUME NEW i \in Handler, WriteRow(i) PROVE TypeOK'
    <2>1. h[i].job # "note" => h[i].to \in Terminal
      BY <1>18 DEF WriteRow, At, Prepared, Ready
    <2>2. \A s \in Terminal : [h[i].row EXCEPT !.status = s] \in Request
      BY <1>b DEF Request
    <2>3. req' \in Request
      BY <1>18, <1>b, <2>1, <2>2 DEF WriteRow
    <2> QED
      BY <1>18, <2>3, Returns DEF WriteRow, used
  <1>19. ASSUME NEW i \in Handler, NoteProgress(i) PROVE TypeOK'
    <2>1. h' \in [Handler -> Work]
      BY <1>19, Goes, Returns, Labels DEF NoteProgress
    <2> QED
      BY <1>19, <2>1 DEF NoteProgress, used, history
  <1>20. ASSUME NEW i \in Handler, Suppress(i) PROVE TypeOK'
    <2>1. h' \in [Handler -> Work]
      BY <1>20, Goes, Returns, Labels DEF Suppress
    <2>2. CASE h[i].job = "note"
      BY <1>20, <2>2 DEF Suppress, At, Prepared, Ready
    <2>3. CASE h[i].job # "note"
      <3>1. h[i].to \in Terminal
        BY <1>20, <2>3 DEF Suppress, At, Prepared, Ready
      <3>2. [req EXCEPT !.status = h[i].to] \in Request
        BY <3>1 DEF Request
      <3> QED
        BY <1>20, <2>1, <3>2 DEF Suppress, used, history
    <2> QED
      BY <2>2, <2>3
  <1>21. ASSUME NEW i \in Handler, StopSession(i) PROVE TypeOK'
    <2>1. session' \in Terminal \cup {"running"}
      BY <1>21, Labels DEF StopSession
    <2> QED
      BY <1>21, <2>1, Returns DEF StopSession, used, history
  <1>22. ASSUME NEW i \in Handler, Crash(i) PROVE TypeOK'
    BY <1>22, SpendType, Returns DEF Crash, history
  <1>23. CASE Dispatch
    <2>1. req.turn \in Run => [req EXCEPT !.cmd = req.turn] \in Request
      BY Runs DEF Request
    <2> QED
      BY <1>23, <2>1 DEF Dispatch, used, history
  <1>24. CASE ExpireClaim
    <2>1. [req EXCEPT !.live = FALSE] \in Request
      BY DEF Request
    <2>2. happened' \subseteq Possible /\ left' \in 0 .. MaxHazards
      BY <1>24, SpendType DEF ExpireClaim, used
    <2> QED
      BY <1>24, <2>1, <2>2 DEF ExpireClaim, history
  <1>25. CASE UNCHANGED vars
    BY <1>25 DEF vars, used, history
  <1> QED
    BY <1>1, <1>2, <1>3, <1>4, <1>5, <1>6, <1>7, <1>8, <1>9, <1>10, <1>11, <1>12,
       <1>13, <1>14, <1>15, <1>16, <1>17, <1>18, <1>19, <1>20, <1>21, <1>22, <1>23,
       <1>24, <1>25 DEF Next, Step
-----------------------------------------------------------------------------
\* A handler that is ready after its step leaves everyone ready.
LEMMA ReadyMoves ==
  ASSUME Prepared, h \in [Handler -> Work], NEW i \in Handler, NEW w \in Work,
         Begin(i, w), Ready(w), Claimed(req)'
  PROVE  Prepared'
  BY Moves DEF Prepared

LEMMA ReadyReturns ==
  ASSUME Prepared, h \in [Handler -> Work], NEW i \in Handler, Return(i), Claimed(req)'
  PROVE  Prepared'
  BY IdleTyped, ReadyMoves DEF Return, Ready, Claimed

\* Work s that goes on at p is ready there.
Onward(s, p) ==
  \A w \in Work :
    w.pc = p /\ Keeps(s, w) /\ w.to = s.to /\ w.row = s.row => Ready(w)

LEMMA ReadyGoes ==
  ASSUME Prepared, h \in [Handler -> Work], NEW i \in Handler, NEW p \in PCs, Goto(i, p),
         Onward(h[i], p),
         Claimed(req)'
  PROVE  Prepared'
  <1>1. [h[i] EXCEPT !.pc = p] \in Work
    BY DEF Work
  <1> QED
    BY <1>1, Written, ReadyMoves DEF Goto, Onward

LEMMA ReadyEnds ==
  ASSUME Prepared, h \in [Handler -> Work], NEW i \in Handler, NEW s \in Terminal,
         EndRound(i, s), h[i].cmd \in Run, h[i].job \notin {"note", "timeout"},
         Claimed(req)'
  PROVE  Prepared'
  <1>1. \A p \in {"settle", "endSession"} :
          /\ [h[i] EXCEPT !.to = s, !.pc = p] \in Work
          /\ Ready([h[i] EXCEPT !.to = s, !.pc = p])
    <2> SUFFICES ASSUME NEW p \in {"settle", "endSession"}
                 PROVE  /\ [h[i] EXCEPT !.to = s, !.pc = p] \in Work
                        /\ Ready([h[i] EXCEPT !.to = s, !.pc = p])
      OBVIOUS
    <2> DEFINE w == [h[i] EXCEPT !.to = s, !.pc = p]
    <2>1. Claimed(h[i].row)
      BY DEF Prepared, Ready
    <2>2. w \in Work
      BY Fields, Labels, Zenon
    <2>3. w.pc = p /\ Keeps(h[i], w) /\ w.to = s /\ w.row = h[i].row
      BY DEF Work, Keeps
    <2> HIDE DEF w
    <2>4. Ready(w)
      BY <2>1, <2>3 DEF Keeps, Ready
    <2> QED
      BY <2>2, <2>4 DEF w
  <1> QED
    BY <1>1, ReadyMoves DEF EndRound

\* Whoever begins a step has read what the step needs.
LEMMA StepPrepared ==
  ASSUME TypeOK, Prepared, [Next]_vars
  PROVE  Prepared'
  <1>a. /\ h \in [Handler -> Work] /\ req \in Request /\ Claimed(req)
        /\ \A i \in Handler : Ready(h[i]) /\ h[i] \in Work
    BY DEF TypeOK, Prepared
  <1>b. UNCHANGED req => Claimed(req)'
    BY <1>a DEF Claimed
  <1>1. ASSUME NEW i \in Handler, TerminalEvent(i) PROVE Prepared'
    <2>1. PICK r \in Run, e \in Terminal, p \in {"markRead", "claim"} :
            Begin(i, [Idle EXCEPT !.pc = p, !.job = "event", !.cmd = r, !.event = e])
      BY <1>1 DEF TerminalEvent
    <2> DEFINE w == [Idle EXCEPT !.pc = p, !.job = "event", !.cmd = r, !.event = e]
    <2>2. w \in Work
      BY IdleTyped, Labels, Runs, Zenon DEF Work
    <2>3. w.pc = p /\ w.job = "event" /\ w.cmd = r /\ w.event = e /\ w.row = First
      BY DEF Idle
    <2> HIDE DEF w
    <2>4. Ready(w)
      BY <2>3, IdleTyped DEF Ready, Claimed
    <2> QED
      BY <1>1, <1>a, <1>b, <2>1, <2>2, <2>4, ReadyMoves DEF TerminalEvent, w
  <1>2. ASSUME NEW i \in Handler, ReceiveProgress(i) PROVE Prepared'
    <2>1. \A r \in Run :
            LET w == [Idle EXCEPT !.pc = "note", !.job = "note", !.cmd = r]
            IN  w \in Work /\ Ready(w)
      <3>1. \A r \in Run :
              [Idle EXCEPT !.pc = "note", !.job = "note", !.cmd = r] \in Work
        BY IdleTyped, Labels, Runs DEF Work
      <3> QED
        BY <3>1, IdleTyped DEF Idle, Ready, Claimed
    <2> QED
      BY <1>2, <1>a, <1>b, <2>1, ReadyMoves DEF ReceiveProgress
  <1>3. ASSUME NEW i \in Handler, ReapStale(i) PROVE Prepared'
    <2> DEFINE w == [Idle EXCEPT !.pc = "markRead", !.job = "timeout", !.cmd = req.cmd,
                                 !.event = "failed", !.to = "failed"]
    <2>1. req.cmd \in Run
      BY <1>3, <1>a, Runs DEF ReapStale, Request
    <2>2. w \in Work
      BY <2>1, IdleTyped, Labels, Runs DEF Work
    <2>3. Ready(w)
      BY <2>1, IdleTyped, Labels DEF Idle, Ready, Claimed
    <2> QED
      BY <1>3, <1>a, <1>b, <2>2, <2>3, ReadyMoves DEF ReapStale
  <1>4. ASSUME NEW i \in Handler, Reap(i) PROVE Prepared'
    <2>1. \A r \in Run, e \in Terminal :
            LET w == [Idle EXCEPT !.pc = "claim", !.job = "event", !.cmd = r, !.event = e]
            IN  w \in Work /\ Ready(w)
      <3> TAKE r \in Run, e \in Terminal
      <3> DEFINE w == [Idle EXCEPT !.pc = "claim", !.job = "event", !.cmd = r, !.event = e]
      <3>1. w \in Work
        BY IdleTyped, Labels, Runs DEF Work
      <3>2. w.pc = "claim" /\ w.job = "event" /\ w.cmd = r /\ w.event = e /\ w.row = First
        BY DEF Idle
      <3> HIDE DEF w
      <3>3. Ready(w)
        BY <3>2, IdleTyped DEF Ready, Claimed
      <3> QED
        BY <3>1, <3>3 DEF w
    <2>2. LET w == [Idle EXCEPT !.pc = "complete", !.job = "close"]
          IN  w \in Work /\ Ready(w)
      <3>1. [Idle EXCEPT !.pc = "complete", !.job = "close"] \in Work
        BY IdleTyped, Labels DEF Work
      <3> QED
        BY <3>1, IdleTyped DEF Idle, Ready, Claimed
    <2>3. \A s \in Terminal :
            LET w == [Idle EXCEPT !.pc = "suppress", !.seen = "running", !.to = s]
            IN  w \in Work /\ Ready(w)
      <3>1. \A s \in Terminal :
              [Idle EXCEPT !.pc = "suppress", !.seen = "running", !.to = s] \in Work
        BY IdleTyped, Labels, Zenon DEF Work
      <3> QED
        BY <3>1, IdleTyped DEF Idle, Ready, Claimed
    <2>4. req.status = "finalizing" => req.cmd \in Run /\ req.event \in Terminal
      BY <1>a DEF Claimed
    <2>5. req.cmd # 0 => req.cmd \in Run
      BY <1>a, Runs DEF Request
    <2> QED
      BY <1>4, <1>a, <1>b, <2>1, <2>2, <2>3, <2>4, <2>5, ReadyMoves
         DEF Reap, ReapFinalizing, ReapEnded, ReapPastEnd, ReapTerminalSession
  <1>5. ASSUME NEW i \in Handler, BeginStop(i) PROVE Prepared'
    <2>1. \A p \in {"suppress", "stopSession"} :
            LET w == [Idle EXCEPT !.job = "stop", !.seen = req.status,
                                  !.to = "cancelled", !.pc = p]
            IN  w \in Work /\ Ready(w)
      <3>1. req.status \in Active \cup Terminal
        BY <1>a DEF Request
      <3>2. \A p \in {"suppress", "stopSession"} :
              [Idle EXCEPT !.job = "stop", !.seen = req.status, !.to = "cancelled",
                           !.pc = p] \in Work
        BY <3>1, IdleTyped, Labels, Zenon DEF Work
      <3> QED
        BY <3>2, IdleTyped, Labels, Zenon DEF Idle, Ready, Claimed
    <2> QED
      BY <1>5, <1>a, <1>b, <2>1, ReadyMoves DEF BeginStop
  <1>6. ASSUME NEW i \in Handler, MarkRead(i) PROVE Prepared'
    <2>1. Onward(h[i], "markWrite")
      BY <1>6, <1>a DEF MarkRead, At, Ready, Keeps, Onward
    <2> QED
      BY <1>6, <1>a, <1>b, <2>1, ReadyGoes, ReadyReturns, Labels DEF MarkRead
  <1>7. ASSUME NEW i \in Handler, MarkWrite(i) PROVE Prepared'
    <2>1. h[i].job = "timeout" => Onward(h[i], "recordTimeout")
      BY <1>7, <1>a DEF MarkWrite, At, Ready, Keeps, Onward
    <2>2. h[i].job # "timeout" => Onward(h[i], "claim")
      BY <1>7, <1>a DEF MarkWrite, At, Ready, Keeps, Onward
    <2> QED
      BY <1>7, <1>a, <1>b, <2>1, <2>2, ReadyGoes, Labels DEF MarkWrite
  <1>8. ASSUME NEW i \in Handler, RecordTimeout(i) PROVE Prepared'
    <2>1. h[i].job = "timeout" /\ h[i].to \in Terminal
      BY <1>8, <1>a, Labels DEF RecordTimeout, At, Ready
    <2>2. Onward(h[i], "endSession")
      BY <1>8, <1>a, <2>1 DEF RecordTimeout, At, Ready, Keeps, Onward
    <2> QED
      BY <1>8, <1>a, <1>b, <2>2, ReadyGoes, Labels DEF RecordTimeout
  <1>9. ASSUME NEW i \in Handler, ClaimTerminal(i) PROVE Prepared'
    <2>1. CASE UNCHANGED req /\ Return(i)
      BY <1>a, <1>b, <2>1, ReadyReturns
    <2>2. CASE ~(UNCHANGED req /\ Return(i))
      <3> DEFINE w == [h[i] EXCEPT !.pc = "fence", !.claim = NewClaim]
      <3>1. h[i].cmd \in Run /\ h[i].event \in Terminal /\ h[i].job \notin {"note", "timeout"}
            /\ Claimed(h[i].row)
        BY <1>9, <1>a DEF ClaimTerminal, At, Ready
      <3>2. NewClaim \in Claim
        BY <1>9, <2>2, NewClaimType DEF ClaimTerminal
      <3>3. w \in Work
        BY <1>a, <3>2, Fields, Labels, Zenon
      <3>4. w.pc = "fence" /\ Keeps(h[i], w) /\ w.row = h[i].row
        BY <1>a DEF Work, Keeps
      <3>5. Begin(i, w)
        BY <1>9, <2>2 DEF ClaimTerminal
      <3> HIDE DEF w
      <3>6. Ready(w)
        BY <3>1, <3>4 DEF Ready, Keeps
      <3>7. Claimed(req)'
        BY <1>9, <1>a, <2>2, <3>1 DEF ClaimTerminal, Claimed, Request
      <3> QED
        BY <1>a, <3>3, <3>5, <3>6, <3>7, ReadyMoves
    <2> QED
      BY <2>1, <2>2
  <1>10. ASSUME NEW i \in Handler, CheckClaim(i) PROVE Prepared'
    <2>1. Onward(h[i], "readSession")
      BY <1>10, <1>a DEF CheckClaim, At, Ready, Keeps, Onward
    <2> QED
      BY <1>10, <1>a, <1>b, <2>1, ReadyGoes, ReadyReturns, Labels DEF CheckClaim
  <1>11. ASSUME NEW i \in Handler, ReadSession(i) PROVE Prepared'
    <2> DEFINE w == [h[i] EXCEPT !.pc = "record", !.seen = session,
                                 !.logged = completions[h[i].cmd] > 0]
    <2>1. w \in Work
      <3>1. (completions[h[i].cmd] > 0) \in BOOLEAN
        OBVIOUS
      <3> QED
        BY <1>a, <3>1, Fields, Labels, Zenon DEF TypeOK
    <2>2. w.pc = "record" /\ Keeps(h[i], w) /\ w.row = h[i].row
      BY <1>a DEF Work, Keeps
    <2>3. Begin(i, w)
      BY <1>11 DEF ReadSession
    <2> HIDE DEF w
    <2>4. Ready(w)
      BY <1>11, <1>a, <2>2 DEF ReadSession, At, Ready, Keeps
    <2> QED
      BY <1>11, <1>a, <1>b, <2>1, <2>3, <2>4, ReadyMoves DEF ReadSession
  <1>12. ASSUME NEW i \in Handler, RecordCompletion(i) PROVE Prepared'
    <2>1. h[i].cmd \in Run /\ h[i].job \notin {"note", "timeout"}
      BY <1>12, <1>a DEF RecordCompletion, At, Ready
    <2>2. Goto(i, "advance") \/ \E s \in Terminal : EndRound(i, s)
      BY <1>12, Labels DEF RecordCompletion
    <2>3. CASE Goto(i, "advance")
      <3>1. Onward(h[i], "advance")
        BY <1>12, <1>a DEF RecordCompletion, At, Ready, Keeps, Onward
      <3> QED
        BY <1>12, <1>a, <1>b, <2>3, <3>1, ReadyGoes, Labels DEF RecordCompletion
    <2> QED
      BY <1>12, <1>a, <1>b, <2>1, <2>2, <2>3, ReadyEnds DEF RecordCompletion
  <1>13. ASSUME NEW i \in Handler, Advance(i) PROVE Prepared'
    <2>1. h[i].cmd \in Run /\ h[i].job \notin {"note", "timeout"}
      BY <1>13, <1>a DEF Advance, At, Ready
    <2>2. CASE Owns(i)
      <3>1. LET w == [Idle EXCEPT !.pc = "complete", !.job = "close"]
            IN  w \in Work /\ Ready(w)
        <4>1. [Idle EXCEPT !.pc = "complete", !.job = "close"] \in Work
          BY IdleTyped, Labels DEF Work
        <4> QED
          BY <4>1, IdleTyped DEF Idle, Ready, Claimed
      <3>2. Claimed(req)'
        BY <1>13, <1>a, <2>2 DEF Advance, Claimed, Request
      <3>3. Return(i) \/ Begin(i, [Idle EXCEPT !.pc = "complete", !.job = "close"])
        BY <1>13, <2>2 DEF Advance
      <3> QED
        BY <1>a, <3>1, <3>2, <3>3, ReadyMoves, ReadyReturns
    <2>3. CASE ~Owns(i)
      BY <1>13, <1>a, <1>b, <2>1, <2>3, ReadyEnds, ReadyReturns, Labels DEF Advance
    <2> QED
      BY <2>2, <2>3
  <1>14. ASSUME NEW i \in Handler, EndSession(i) PROVE Prepared'
    <2>1. CASE Goto(i, "readRow") /\ h[i].job = "timeout"
      <3>1. Onward(h[i], "readRow")
        BY <1>14, <1>a, <2>1 DEF EndSession, At, Ready, Keeps, Onward
      <3> QED
        BY <1>14, <1>a, <1>b, <2>1, <3>1, ReadyGoes, Labels DEF EndSession
    <2>2. CASE Goto(i, "settle") /\ h[i].job # "timeout"
      <3>1. Onward(h[i], "settle")
        BY <1>14, <1>a, <2>2 DEF EndSession, At, Ready, Keeps, Onward
      <3> QED
        BY <1>14, <1>a, <1>b, <2>2, <3>1, ReadyGoes, Labels DEF EndSession
    <2> QED
      BY <1>14, <2>1, <2>2 DEF EndSession
  <1>15. ASSUME NEW i \in Handler, Settle(i) PROVE Prepared'
    <2>1. h[i].to \in Terminal
      BY <1>15, <1>a DEF Settle, At, Ready
    <2>2. Claimed([req EXCEPT !.status = h[i].to])
      BY <1>a, <2>1, Labels DEF Claimed, Request
    <2>3. Claimed([req EXCEPT !.status = "failed", !.event = "none",
                              !.claim = NoClaim, !.live = FALSE])
      BY <1>a DEF Claimed, Request
    <2>4. Claimed(req)'
      BY <1>15, <1>b, <2>2, <2>3 DEF Settle, Claimed
    <2> QED
      BY <1>15, <1>a, <2>4, ReadyReturns DEF Settle
  <1>16. ASSUME NEW i \in Handler, CompleteSession(i) PROVE Prepared'
    <2> DEFINE w == [h[i] EXCEPT !.pc = "readRow", !.to = "completed"]
    <2>1. w \in Work
      BY <1>a, Fields, Labels, Zenon
    <2>2. w.pc = "readRow" /\ Keeps(h[i], w) /\ w.row = h[i].row /\ w.to = "completed"
      BY <1>a DEF Work, Keeps
    <2>3. Begin(i, w)
      BY <1>16 DEF CompleteSession
    <2> HIDE DEF w
    <2>4. Ready(w)
      BY <1>16, <1>a, <2>2, Labels DEF CompleteSession, At, Ready, Keeps
    <2> QED
      BY <1>16, <1>a, <1>b, <2>1, <2>3, <2>4, ReadyMoves DEF CompleteSession
  <1>17. ASSUME NEW i \in Handler, ReadRow(i) PROVE Prepared'
    <2> DEFINE w == [h[i] EXCEPT !.pc = "writeRow", !.row = req]
    <2>1. w \in Work
      BY <1>a, Fields, Labels, Zenon
    <2>2. w.pc = "writeRow" /\ Keeps(h[i], w) /\ w.row = req /\ w.to = h[i].to
      BY <1>a DEF Work, Keeps
    <2>3. Begin(i, w)
      BY <1>17 DEF ReadRow
    <2> HIDE DEF w
    <2>4. Ready(w)
      BY <1>17, <1>a, <2>2, Labels DEF ReadRow, At, Ready, Keeps
    <2> QED
      BY <1>17, <1>a, <1>b, <2>1, <2>3, <2>4, ReadyMoves DEF ReadRow
  <1>18. ASSUME NEW i \in Handler, WriteRow(i) PROVE Prepared'
    <2>1. h[i].row \in Request /\ Claimed(h[i].row)
      BY <1>a DEF Work, Ready
    <2>2. h[i].job # "note" => h[i].to \in Terminal
      BY <1>18, <1>a DEF WriteRow, At, Ready
    <2>3. \A s \in Terminal : Claimed([h[i].row EXCEPT !.status = s])
      BY <2>1, Labels DEF Claimed, Request
    <2>4. Claimed(req)'
      BY <1>18, <2>1, <2>2, <2>3 DEF WriteRow, Claimed
    <2> QED
      BY <1>18, <1>a, <2>4, ReadyReturns DEF WriteRow
  <1>19. ASSUME NEW i \in Handler, NoteProgress(i) PROVE Prepared'
    <2>1. Onward(h[i], "readRow")
      BY <1>19, <1>a DEF NoteProgress, At, Ready, Keeps, Onward
    <2> QED
      BY <1>19, <1>a, <1>b, <2>1, ReadyGoes, ReadyReturns, Labels DEF NoteProgress
  <1>20. ASSUME NEW i \in Handler, Suppress(i) PROVE Prepared'
    <2>1. h[i].to \in Terminal /\ h[i].job \notin {"note", "timeout"}
      BY <1>20, <1>a DEF Suppress, At, Ready
    <2>2. Claimed([req EXCEPT !.status = h[i].to])
      BY <1>a, <2>1, Labels DEF Claimed, Request
    <2>3. Claimed(req)'
      BY <1>20, <1>a, <2>2 DEF Suppress, Claimed
    <2>4. Onward(h[i], "stopSession")
      BY <1>20, <1>a, <2>1 DEF Suppress, At, Ready, Keeps, Onward
    <2> QED
      BY <1>20, <1>a, <2>3, <2>4, ReadyGoes, ReadyReturns, Labels DEF Suppress
  <1>21. ASSUME NEW i \in Handler, StopSession(i) PROVE Prepared'
    BY <1>21, <1>a, <1>b, ReadyReturns DEF StopSession
  <1>22. ASSUME NEW i \in Handler, Crash(i) PROVE Prepared'
    BY <1>22, <1>a, <1>b, ReadyReturns DEF Crash
  <1>23. CASE Dispatch
    BY <1>23, <1>a DEF Dispatch, Prepared, Claimed, Request
  <1>24. CASE ExpireClaim
    BY <1>24, <1>a DEF ExpireClaim, Prepared, Claimed, Request
  <1>25. CASE UNCHANGED vars
    BY <1>25 DEF vars, Prepared, Claimed
  <1> QED
    BY <1>1, <1>2, <1>3, <1>4, <1>5, <1>6, <1>7, <1>8, <1>9, <1>10, <1>11, <1>12,
       <1>13, <1>14, <1>15, <1>16, <1>17, <1>18, <1>19, <1>20, <1>21, <1>22, <1>23,
       <1>24, <1>25 DEF Next, Step

-----------------------------------------------------------------------------
\* The log only grows, so that what a handler has seen there stays true.
Grows == \A r \in Run : completions[r] > 0 => completions'[r] > 0

LEMMA LogMoves ==
  ASSUME LoggedBefore, h \in [Handler -> Work], NEW i \in Handler, NEW w \in Work,
         Begin(i, w), HasLogged(w, completions'), Grows
  PROVE  LoggedBefore'
  BY Moves DEF LoggedBefore, HasLogged, Grows

LEMMA LogReturns ==
  ASSUME LoggedBefore, h \in [Handler -> Work], NEW i \in Handler, Return(i), Grows
  PROVE  LoggedBefore'
  BY IdleTyped, LogMoves DEF Return, HasLogged

LEMMA LogGoes ==
  ASSUME LoggedBefore, h \in [Handler -> Work], NEW i \in Handler, NEW p \in PCs,
         Goto(i, p), Grows,
         p \in {"advance", "endSession", "settle"} =>
           h[i].cmd \in Run /\ completions'[h[i].cmd] > 0
  PROVE  LoggedBefore'
  <1> DEFINE w == [h[i] EXCEPT !.pc = p]
  <1>1. w \in Work
    BY DEF Work
  <1>2. w.pc = p /\ w.cmd = h[i].cmd /\ w.logged = h[i].logged
    BY DEF Work
  <1>3. Begin(i, w)
    BY DEF Goto
  <1> HIDE DEF w
  <1>4. HasLogged(w, completions')
    BY <1>2 DEF LoggedBefore, HasLogged, Grows
  <1> QED
    BY <1>1, <1>3, <1>4, LogMoves

LEMMA LogEnds ==
  ASSUME LoggedBefore, h \in [Handler -> Work], NEW i \in Handler, NEW s \in Terminal,
         EndRound(i, s), Grows, h[i].cmd \in Run, completions'[h[i].cmd] > 0
  PROVE  LoggedBefore'
  <1>1. PICK p \in {"settle", "endSession"} : Begin(i, [h[i] EXCEPT !.to = s, !.pc = p])
    BY DEF EndRound
  <1> DEFINE w == [h[i] EXCEPT !.to = s, !.pc = p]
  <1>2. w \in Work
    BY Fields, Labels, Zenon
  <1>3. w.cmd = h[i].cmd
    BY DEF Work
  <1>4. Begin(i, w)
    BY <1>1
  <1> HIDE DEF w
  <1> QED
    BY <1>2, <1>3, <1>4, LogMoves DEF HasLogged

\* A handler that begins has nothing to show yet.
LEMMA LogBegins ==
  ASSUME TypeOK, Prepared, LoggedBefore, NEW i \in Handler, UNCHANGED completions,
         \/ TerminalEvent(i) \/ ReceiveProgress(i) \/ ReapStale(i) \/ Reap(i)
         \/ BeginStop(i)
  PROVE  LoggedBefore'
  <1>1. h'[i].logged = FALSE /\ h'[i].pc \notin {"advance", "endSession", "settle"}
    <2>1. CASE TerminalEvent(i)
      <3>1. PICK r \in Run, e \in Terminal, p \in {"markRead", "claim"} :
              Begin(i, [Idle EXCEPT !.pc = p, !.job = "event", !.cmd = r, !.event = e])
        BY <2>1 DEF TerminalEvent
      <3> QED
        BY <3>1 DEF TypeOK, Begin, Idle
    <2> USE DEF TypeOK, Begin, Idle
    <2>2. CASE ReceiveProgress(i)
      BY <2>2 DEF ReceiveProgress
    <2>3. CASE ReapStale(i)
      BY <2>3 DEF ReapStale
    <2>4. CASE ReapFinalizing(i)
      BY <2>4 DEF ReapFinalizing
    <2>5. CASE ReapEnded(i)
      BY <2>5 DEF ReapEnded
    <2>6. CASE ReapPastEnd(i)
      BY <2>6 DEF ReapPastEnd
    <2>7. CASE ReapTerminalSession(i)
      BY <2>7 DEF ReapTerminalSession
    <2>8. CASE BeginStop(i)
      BY <2>8 DEF BeginStop
    <2> QED
      BY <2>1, <2>2, <2>3, <2>4, <2>5, <2>6, <2>7, <2>8 DEF Reap
  <1>2. \A j \in Handler : j # i => h'[j] = h[j]
    BY DEF TypeOK, TerminalEvent, ReceiveProgress, ReapStale, Reap, ReapFinalizing,
           ReapEnded, ReapPastEnd, ReapTerminalSession, BeginStop, Begin
  <1> QED
    BY <1>1, <1>2 DEF LoggedBefore, HasLogged

\* The end of a run is logged before it is applied to the request.
LEMMA StepLogged ==
  ASSUME TypeOK, Prepared, LoggedBefore, LoggedFirst, [Next]_vars
  PROVE  LoggedBefore' /\ LoggedFirst'
  <1>a. /\ h \in [Handler -> Work] /\ completions \in [Run -> Nat]
        /\ applied \in [Run -> Nat]
        /\ \A i \in Handler : Ready(h[i]) /\ h[i] \in Work /\ HasLogged(h[i], completions)
    BY DEF TypeOK, Prepared, LoggedBefore
  <1>b. UNCHANGED <<completions, applied>> => Grows /\ LoggedFirst'
    BY DEF Grows, LoggedFirst
  <1>1. ASSUME NEW i \in Handler,
               \/ TerminalEvent(i) \/ ReceiveProgress(i) \/ ReapStale(i) \/ Reap(i)
               \/ BeginStop(i)
        PROVE  LoggedBefore' /\ LoggedFirst'
    <2>1. UNCHANGED <<completions, applied>>
      BY <1>1 DEF TerminalEvent, ReceiveProgress, ReapStale, Reap, BeginStop, history
    <2> QED
      BY <1>1, <1>b, <2>1, LogBegins
  <1>2. ASSUME NEW i \in Handler, MarkRead(i) \/ CheckClaim(i) \/ NoteProgress(i)
        PROVE  LoggedBefore' /\ LoggedFirst'
    BY <1>2, <1>a, <1>b, LogGoes, LogReturns, Labels
       DEF MarkRead, CheckClaim, NoteProgress, history
  <1>3. ASSUME NEW i \in Handler, MarkWrite(i) \/ Suppress(i)
        PROVE  LoggedBefore' /\ LoggedFirst'
    BY <1>3, <1>a, <1>b, LogGoes, LogReturns, Labels DEF MarkWrite, Suppress, history
  <1>4. ASSUME NEW i \in Handler, StopSession(i) \/ Crash(i)
        PROVE  LoggedBefore' /\ LoggedFirst'
    BY <1>4, <1>a, <1>b, LogReturns DEF StopSession, Crash, history
  <1>5. ASSUME NEW i \in Handler, WriteRow(i) PROVE LoggedBefore' /\ LoggedFirst'
    BY <1>5, <1>a, <1>b, LogReturns DEF WriteRow
  <1>6. ASSUME NEW i \in Handler, RecordTimeout(i) PROVE LoggedBefore' /\ LoggedFirst'
    <2>1. h[i].cmd \in Run
      BY <1>6, <1>a DEF RecordTimeout, At, Ready
    <2>2. Grows /\ completions'[h[i].cmd] > 0
      BY <1>6, <1>a, <2>1 DEF RecordTimeout, Grows
    <2>3. LoggedFirst'
      BY <1>6, <2>2 DEF RecordTimeout, Grows, LoggedFirst, history
    <2> QED
      BY <1>6, <1>a, <2>1, <2>2, <2>3, LogGoes, Labels DEF RecordTimeout
  <1>7. ASSUME NEW i \in Handler, ClaimTerminal(i) PROVE LoggedBefore' /\ LoggedFirst'
    <2>1. Grows /\ LoggedFirst'
      BY <1>7, <1>b DEF ClaimTerminal, history
    <2>2. CASE Return(i)
      BY <1>a, <2>1, <2>2, LogReturns
    <2>3. CASE ~Return(i)
      <3> DEFINE w == [h[i] EXCEPT !.pc = "fence", !.claim = NewClaim]
      <3>1. NewClaim \in Claim
        BY <1>7, <2>3, NewClaimType DEF ClaimTerminal
      <3>2. w \in Work
        BY <1>a, <3>1, Fields, Labels, Zenon
      <3>3. w.pc = "fence" /\ w.cmd = h[i].cmd /\ w.logged = h[i].logged
        BY <1>a DEF Work
      <3>4. Begin(i, w)
        BY <1>7, <2>3 DEF ClaimTerminal
      <3> HIDE DEF w
      <3>5. HasLogged(w, completions')
        BY <1>7, <1>a, <3>3 DEF HasLogged, ClaimTerminal
      <3> QED
        BY <1>a, <2>1, <3>2, <3>4, <3>5, LogMoves
    <2> QED
      BY <2>2, <2>3
  <1>8. ASSUME NEW i \in Handler, ReadSession(i) PROVE LoggedBefore' /\ LoggedFirst'
    <2> DEFINE w == [h[i] EXCEPT !.pc = "record", !.seen = session,
                                 !.logged = completions[h[i].cmd] > 0]
    <2>1. w \in Work
      <3>1. (completions[h[i].cmd] > 0) \in BOOLEAN
        OBVIOUS
      <3> QED
        BY <1>a, <3>1, Fields, Labels, Zenon DEF TypeOK
    <2>2. w.pc = "record" /\ w.cmd = h[i].cmd /\ w.logged = (completions[h[i].cmd] > 0)
      BY <1>a DEF Work
    <2>3. Begin(i, w)
      BY <1>8 DEF ReadSession
    <2>4. h[i].cmd \in Run
      BY <1>8, <1>a DEF ReadSession, At, Ready
    <2>5. Grows /\ LoggedFirst'
      BY <1>8, <1>b DEF ReadSession, history
    <2> HIDE DEF w
    <2>6. HasLogged(w, completions')
      BY <1>8, <2>2, <2>4 DEF HasLogged, ReadSession
    <2> QED
      BY <1>a, <2>1, <2>3, <2>5, <2>6, LogMoves
  <1>9. ASSUME NEW i \in Handler, RecordCompletion(i) PROVE LoggedBefore' /\ LoggedFirst'
    <2>1. h[i].cmd \in Run
      BY <1>9, <1>a DEF RecordCompletion, At, Ready
    <2>2. Grows /\ completions'[h[i].cmd] > 0
      <3>1. CASE h[i].logged
        BY <1>9, <1>a, <2>1, <3>1 DEF RecordCompletion, Grows, HasLogged
      <3>2. CASE ~h[i].logged
        BY <1>9, <1>a, <2>1, <3>2 DEF RecordCompletion, Grows
      <3> QED
        BY <3>1, <3>2
    <2>3. LoggedFirst'
      BY <1>9, <2>2 DEF RecordCompletion, Grows, LoggedFirst, history
    <2>4. Goto(i, "advance") \/ \E s \in Terminal : EndRound(i, s)
      BY <1>9, Labels DEF RecordCompletion
    <2> QED
      BY <1>a, <2>1, <2>2, <2>3, <2>4, LogGoes, LogEnds, Labels
  <1>10. ASSUME NEW i \in Handler, Advance(i) PROVE LoggedBefore' /\ LoggedFirst'
    <2>1. h[i].cmd \in Run /\ completions[h[i].cmd] > 0 /\ UNCHANGED completions
      BY <1>10, <1>a DEF Advance, At, HasLogged
    <2>2. Grows
      BY <2>1 DEF Grows
    <2>3. LoggedFirst'
      BY <1>10, <1>a, <2>1 DEF Advance, Applied, LoggedFirst
    <2>4. Return(i) \/ Begin(i, [Idle EXCEPT !.pc = "complete", !.job = "close"])
          \/ \E s \in Terminal : EndRound(i, s)
      BY <1>10, Labels DEF Advance
    <2>5. CASE Begin(i, [Idle EXCEPT !.pc = "complete", !.job = "close"])
      <3> DEFINE w == [Idle EXCEPT !.pc = "complete", !.job = "close"]
      <3>1. w \in Work
        BY IdleTyped, Labels DEF Work
      <3>2. HasLogged(w, completions')
        BY DEF Idle, HasLogged
      <3>3. Begin(i, w)
        BY <2>5
      <3> HIDE DEF w
      <3>4. LoggedBefore'
        BY <1>a, <2>2, <3>1, <3>2, <3>3, LogMoves
      <3> QED
        BY <2>3, <3>4
    <2> QED
      BY <1>a, <2>1, <2>2, <2>3, <2>4, <2>5, LogReturns, LogEnds
  <1>11. ASSUME NEW i \in Handler, EndSession(i) PROVE LoggedBefore' /\ LoggedFirst'
    <2>1. h[i].cmd \in Run /\ completions[h[i].cmd] > 0 /\ UNCHANGED completions
      BY <1>11, <1>a DEF EndSession, At, HasLogged
    <2> QED
      BY <1>11, <1>a, <1>b, <2>1, LogGoes, Labels DEF EndSession, history
  <1>12. ASSUME NEW i \in Handler, Settle(i) PROVE LoggedBefore' /\ LoggedFirst'
    <2>1. h[i].cmd \in Run /\ completions[h[i].cmd] > 0 /\ UNCHANGED completions
      BY <1>12, <1>a DEF Settle, At, HasLogged
    <2>2. Grows /\ Return(i)
      BY <1>12, <2>1 DEF Grows, Settle
    <2>3. LoggedFirst'
      BY <1>12, <1>a, <2>1 DEF Settle, Applied, LoggedFirst
    <2> QED
      BY <1>a, <2>2, <2>3, LogReturns
  <1>13. ASSUME NEW i \in Handler, CompleteSession(i) PROVE LoggedBefore' /\ LoggedFirst'
    <2> DEFINE w == [h[i] EXCEPT !.pc = "readRow", !.to = "completed"]
    <2>1. w \in Work
      BY <1>a, Fields, Labels, Zenon
    <2>2. w.pc = "readRow" /\ w.cmd = h[i].cmd /\ w.logged = h[i].logged
      BY <1>a DEF Work
    <2>3. Begin(i, w) /\ UNCHANGED <<completions, applied>>
      BY <1>13 DEF CompleteSession, history
    <2> HIDE DEF w
    <2>4. HasLogged(w, completions')
      BY <1>a, <2>2, <2>3 DEF HasLogged
    <2> QED
      BY <1>a, <1>b, <2>1, <2>3, <2>4, LogMoves
  <1>14. ASSUME NEW i \in Handler, ReadRow(i) PROVE LoggedBefore' /\ LoggedFirst'
    <2> DEFINE w == [h[i] EXCEPT !.pc = "writeRow", !.row = req]
    <2>1. w \in Work
      BY <1>a, Fields, Labels, Zenon DEF TypeOK
    <2>2. w.pc = "writeRow" /\ w.cmd = h[i].cmd /\ w.logged = h[i].logged
      BY <1>a DEF Work
    <2>3. Begin(i, w) /\ UNCHANGED <<completions, applied>>
      BY <1>14 DEF ReadRow, history
    <2> HIDE DEF w
    <2>4. HasLogged(w, completions')
      BY <1>a, <2>2, <2>3 DEF HasLogged
    <2> QED
      BY <1>a, <1>b, <2>1, <2>3, <2>4, LogMoves
  <1>15. CASE Dispatch \/ ExpireClaim \/ UNCHANGED vars
    BY <1>15 DEF Dispatch, ExpireClaim, vars, history, LoggedBefore, LoggedFirst
  <1> QED
    BY <1>1, <1>2, <1>3, <1>4, <1>5, <1>6, <1>7, <1>8, <1>9, <1>10, <1>11, <1>12,
       <1>13, <1>14, <1>15 DEF Next, Step

-----------------------------------------------------------------------------
\* Only ClaimTerminal gives a claim: in any other step, handler i keeps its claim
\* with the run it is for, or drops it, and goes nowhere without one that needs it.
KeepsClaim(i) ==
  /\ \A j \in Handler : j # i => h'[j] = h[j]
  /\ \/ h'[i].claim = NoClaim
     \/ h'[i].claim = h[i].claim /\ h'[i].cmd = h[i].cmd
  /\ HasClaim(h'[i])

LEMMA ReturnKeeps ==
  ASSUME TypeOK, NEW i \in Handler, Return(i)
  PROVE  KeepsClaim(i)
  BY Returns, IdleTyped DEF TypeOK, KeepsClaim, HasClaim, Works

LEMMA GoesKeeps ==
  ASSUME TypeOK, NEW i \in Handler, NEW p \in PCs, Goto(i, p),
         Works(p, h[i].job) => h[i].claim \in Claim
  PROVE  KeepsClaim(i)
  <1>1. h'[i] = [h[i] EXCEPT !.pc = p] /\ h[i] \in Work
        /\ \A j \in Handler : j # i => h'[j] = h[j]
    BY Goes DEF TypeOK
  <1>2. h'[i].pc = p /\ h'[i].job = h[i].job /\ h'[i].claim = h[i].claim
        /\ h'[i].cmd = h[i].cmd
    BY <1>1 DEF Work
  <1> QED
    BY <1>1, <1>2 DEF KeepsClaim, HasClaim, Works

LEMMA EndsKeeps ==
  ASSUME TypeOK, NEW i \in Handler, NEW s \in Terminal, EndRound(i, s), h[i].claim \in Claim
  PROVE  KeepsClaim(i)
  <1>1. h[i] \in Work /\ \A j \in Handler : j # i => h'[j] = h[j]
    BY Ends DEF TypeOK
  <1>2. \/ h'[i] = [h[i] EXCEPT !.to = s, !.pc = "settle"]
        \/ h'[i] = [h[i] EXCEPT !.to = s, !.pc = "endSession"]
    BY Ends DEF TypeOK
  <1>3. h'[i].claim = h[i].claim /\ h'[i].cmd = h[i].cmd
    BY <1>1, <1>2 DEF Work
  <1> QED
    BY <1>1, <1>3 DEF KeepsClaim, HasClaim, Works

\* A handler that begins has no claim.
LEMMA BeginsKeep ==
  ASSUME TypeOK, NEW i \in Handler,
         \/ TerminalEvent(i) \/ ReceiveProgress(i) \/ ReapStale(i) \/ Reap(i)
         \/ BeginStop(i)
  PROVE  KeepsClaim(i)
  <1>1. \A j \in Handler : j # i => h'[j] = h[j]
    BY DEF TypeOK, TerminalEvent, ReceiveProgress, ReapStale, Reap, ReapFinalizing,
           ReapEnded, ReapPastEnd, ReapTerminalSession, BeginStop, Begin
  <1>2. /\ h'[i].claim = NoClaim
        /\ h'[i].pc \notin {"fence", "readSession", "record", "advance", "settle",
                            "endSession"}
    <2>1. CASE TerminalEvent(i)
      <3>1. PICK r \in Run, e \in Terminal, p \in {"markRead", "claim"} :
              Begin(i, [Idle EXCEPT !.pc = p, !.job = "event", !.cmd = r, !.event = e])
        BY <2>1 DEF TerminalEvent
      <3> QED
        BY <3>1 DEF TypeOK, Begin, Idle
    <2> USE DEF TypeOK, Begin, Idle
    <2>2. CASE ReceiveProgress(i)
      BY <2>2 DEF ReceiveProgress
    <2>3. CASE ReapStale(i)
      BY <2>3 DEF ReapStale
    <2>4. CASE ReapFinalizing(i)
      BY <2>4 DEF ReapFinalizing
    <2>5. CASE ReapEnded(i)
      BY <2>5 DEF ReapEnded
    <2>6. CASE ReapPastEnd(i)
      BY <2>6 DEF ReapPastEnd
    <2>7. CASE ReapTerminalSession(i)
      BY <2>7 DEF ReapTerminalSession
    <2>8. CASE BeginStop(i)
      BY <2>8 DEF BeginStop
    <2> QED
      BY <2>1, <2>2, <2>3, <2>4, <2>5, <2>6, <2>7, <2>8 DEF Reap
  <1> QED
    BY <1>1, <1>2 DEF KeepsClaim, HasClaim, Works

LEMMA StepsKeep ==
  ASSUME TypeOK, Prepared, ClaimHeldOnce, NEW i \in Handler,
         Crash(i) \/ (Step(i) /\ ~ClaimTerminal(i))
  PROVE  KeepsClaim(i)
  <1>a. h[i] \in Work /\ Ready(h[i]) /\ HasClaim(h[i])
    BY DEF TypeOK, Prepared, ClaimHeldOnce
  <1>1. CASE Crash(i) \/ WriteRow(i) \/ StopSession(i) \/ Settle(i)
    BY <1>1, ReturnKeeps DEF Crash, WriteRow, StopSession, Settle
  <1>2. CASE MarkRead(i) \/ NoteProgress(i) \/ Suppress(i) \/ MarkWrite(i)
    BY <1>2, ReturnKeeps, GoesKeeps, Labels
       DEF MarkRead, NoteProgress, Suppress, MarkWrite, Works
  <1>3. CASE RecordTimeout(i)
    BY <1>3, <1>a, GoesKeeps, Labels DEF RecordTimeout, At, Ready, Works
  <1>4. CASE CheckClaim(i)
    BY <1>4, <1>a, ReturnKeeps, GoesKeeps, Labels DEF CheckClaim, At, HasClaim, Works
  <1>5. CASE RecordCompletion(i)
    <2>1. h[i].claim \in Claim
      BY <1>5, <1>a DEF RecordCompletion, At, HasClaim, Works
    <2>2. Goto(i, "advance") \/ \E s \in Terminal : EndRound(i, s)
      BY <1>5, Labels DEF RecordCompletion
    <2> QED
      BY <2>1, <2>2, GoesKeeps, EndsKeeps, Labels
  <1>6. CASE EndSession(i)
    BY <1>6, <1>a, GoesKeeps, Labels DEF EndSession, At, HasClaim, Works
  <1>7. CASE Advance(i)
    <2>1. h[i].claim \in Claim
      BY <1>7, <1>a DEF Advance, At, HasClaim, Works
    <2>2. CASE Begin(i, [Idle EXCEPT !.pc = "complete", !.job = "close"])
      BY <2>2 DEF TypeOK, Begin, Idle, KeepsClaim, HasClaim, Works
    <2>3. Return(i) \/ Begin(i, [Idle EXCEPT !.pc = "complete", !.job = "close"])
          \/ \E s \in Terminal : EndRound(i, s)
      BY <1>7, Labels DEF Advance
    <2> QED
      BY <2>1, <2>2, <2>3, ReturnKeeps, EndsKeeps
  <1>8. CASE ReadSession(i)
    <2> DEFINE w == [h[i] EXCEPT !.pc = "record", !.seen = session,
                                 !.logged = completions[h[i].cmd] > 0]
    <2>1. h[i].claim \in Claim
      BY <1>8, <1>a DEF ReadSession, At, HasClaim, Works
    <2>2. w.cmd = h[i].cmd /\ w.claim = h[i].claim
      BY <1>a DEF Work
    <2>3. Begin(i, w)
      BY <1>8 DEF ReadSession
    <2> HIDE DEF w
    <2> QED
      BY <2>1, <2>2, <2>3 DEF TypeOK, Begin, KeepsClaim, HasClaim, Works
  <1>9. CASE CompleteSession(i)
    <2> DEFINE w == [h[i] EXCEPT !.pc = "readRow", !.to = "completed"]
    <2>1. w.pc = "readRow" /\ w.cmd = h[i].cmd /\ w.claim = h[i].claim
      BY <1>a DEF Work
    <2>2. Begin(i, w)
      BY <1>9 DEF CompleteSession
    <2> HIDE DEF w
    <2> QED
      BY <2>1, <2>2 DEF TypeOK, Begin, KeepsClaim, HasClaim, Works
  <1>10. CASE ReadRow(i)
    <2> DEFINE w == [h[i] EXCEPT !.pc = "writeRow", !.row = req]
    <2>1. w.pc = "writeRow" /\ w.cmd = h[i].cmd /\ w.claim = h[i].claim
      BY <1>a DEF Work
    <2>2. Begin(i, w)
      BY <1>10 DEF ReadRow
    <2> HIDE DEF w
    <2> QED
      BY <2>1, <2>2 DEF TypeOK, Begin, KeepsClaim, HasClaim, Works
  <1> QED
    BY <1>1, <1>2, <1>3, <1>4, <1>5, <1>6, <1>7, <1>8, <1>9, <1>10 DEF Step

\* A handler that claims the request holds a claim that nobody had.
LEMMA ClaimTaken ==
  ASSUME TypeOK, NEW i \in Handler, ClaimTerminal(i), ~Return(i)
  PROVE  /\ h'[i].claim \in Claim /\ h'[i].claim = req'.claim /\ h'[i].cmd = h[i].cmd
         /\ h'[i].claim # req.claim /\ \A j \in Handler : h[j].claim # h'[i].claim
         /\ \A j \in Handler : j # i => h'[j] = h[j]
         /\ req.cmd = h[i].cmd /\ req.status \in Active /\ req'.status = "finalizing"
         /\ req'.cmd = req.cmd /\ req'.turn = req.turn
  <1> DEFINE w == [h[i] EXCEPT !.pc = "fence", !.claim = NewClaim]
  <1>1. h[i] \in Work /\ req \in Request
    BY DEF TypeOK
  <1>2. w.claim = NewClaim /\ w.cmd = h[i].cmd
    BY <1>1 DEF Work
  <1>3. Begin(i, w)
    BY DEF ClaimTerminal
  <1> HIDE DEF w
  <1>4. h'[i] = w /\ \A j \in Handler : j # i => h'[j] = h[j]
    BY <1>3 DEF TypeOK, Begin
  <1>5. /\ NewClaim \in Claim /\ NewClaim # req.claim
        /\ \A j \in Handler : h[j].claim # NewClaim
    BY NewClaimType DEF ClaimTerminal
  <1>6. /\ req'.claim = NewClaim /\ req'.status = "finalizing" /\ req'.cmd = req.cmd
        /\ req'.turn = req.turn /\ req.cmd = h[i].cmd /\ req.status \in Active
    BY <1>1 DEF ClaimTerminal, Request
  <1> QED
    BY <1>2, <1>4, <1>5, <1>6

\* Every step of a handler keeps the claims, but for the one that takes a new one.
LEMMA ActionsKeep ==
  ASSUME TypeOK, Prepared, ClaimHeldOnce, [Next]_vars
  PROVE  \/ UNCHANGED h
         \/ \E i \in Handler : KeepsClaim(i)
         \/ \E i \in Handler : ClaimTerminal(i) /\ ~Return(i)
  <1>1. ASSUME NEW i \in Handler, ClaimTerminal(i), Return(i) PROVE KeepsClaim(i)
    BY <1>1, ReturnKeeps
  <1>2. Dispatch \/ ExpireClaim \/ UNCHANGED vars => UNCHANGED h
    BY DEF Dispatch, ExpireClaim, vars
  <1> QED
    BY <1>1, <1>2, BeginsKeep, StepsKeep DEF Next

\* A claim is given once, and dropped with the work.
LEMMA StepClaimHeldOnce ==
  ASSUME TypeOK, Prepared, ClaimHeldOnce, [Next]_vars
  PROVE  ClaimHeldOnce'
  <1>1. CASE UNCHANGED h
    BY <1>1 DEF ClaimHeldOnce, HasClaim, Works
  <1>2. ASSUME NEW i \in Handler, KeepsClaim(i) PROVE ClaimHeldOnce'
    BY <1>2, ClaimAssumption DEF ClaimHeldOnce, KeepsClaim, HasClaim, Works
  <1>3. ASSUME NEW i \in Handler, ClaimTerminal(i), ~Return(i) PROVE ClaimHeldOnce'
    BY <1>3, ClaimTaken DEF ClaimHeldOnce, HasClaim, Works
  <1> QED
    BY <1>1, <1>2, <1>3, ActionsKeep

-----------------------------------------------------------------------------
\* A step that moves nothing, and at most ends the request, keeps the cursor ahead.
LEMMA CursorStays ==
  ASSUME CursorAhead, UNCHANGED <<applied, lost>>,
         req'.cmd = req.cmd, req'.turn = req.turn, req'.claim = req.claim,
         req'.status \in Active => req.status \in Active,
         UNCHANGED h \/ \E i \in Handler : KeepsClaim(i)
  PROVE  CursorAhead'
  <1>1. ASSUME NEW j \in Handler
        PROVE  \/ h'[j].claim = NoClaim
               \/ h'[j].claim = h[j].claim /\ h'[j].cmd = h[j].cmd
    BY DEF KeepsClaim
  <1> QED
    BY <1>1, ClaimAssumption DEF CursorAhead, Owns

\* The first holder of a claim takes it for the run at the cursor.
LEMMA CursorClaimed ==
  ASSUME TypeOK, Prepared, CursorAhead, NEW i \in Handler, ClaimTerminal(i), ~Return(i)
  PROVE  CursorAhead'
  <1> SUFFICES ASSUME ~lost PROVE CursorAhead'
    BY DEF CursorAhead, ClaimTerminal, history
  <1>1. /\ UNCHANGED <<applied, lost>> /\ h[i].cmd \in Run
    BY DEF ClaimTerminal, history, Prepared, Ready, At
  <1>2. /\ h'[i].claim = req'.claim /\ h'[i].cmd = h[i].cmd
        /\ \A j \in Handler : h[j].claim # h'[i].claim
        /\ \A j \in Handler : j # i => h'[j] = h[j]
        /\ req.cmd = h[i].cmd /\ req.status \in Active
        /\ req'.cmd = req.cmd /\ req'.turn = req.turn
    BY ClaimTaken
  <1>3. h[i].cmd # 0
    BY <1>1, Runs
  <1>4. req.turn = h[i].cmd /\ applied[h[i].cmd] = 0
    BY <1>1, <1>2, <1>3 DEF CursorAhead
  <1> QED
    BY <1>1, <1>2, <1>4 DEF CursorAhead, Owns

\* The holder applies the run at the cursor, which nobody applied before.
LEMMA HolderApplies ==
  ASSUME TypeOK, Prepared, ClaimHeldOnce, CursorAhead, ~lost, NEW i \in Handler,
         Owns(i), h[i].pc \in {"advance", "settle"}
  PROVE  /\ h[i].claim \in Claim /\ h[i].cmd \in Run /\ applied[h[i].cmd] = 0
         /\ req.cmd = h[i].cmd /\ req.turn = h[i].cmd
         /\ \A j \in Handler : h[j].claim \in Claim /\ req.claim = h[j].claim => j = i
  <1>1. h[i].claim \in Claim
    BY DEF ClaimHeldOnce, HasClaim, Works
  <1>2. h[i].cmd \in Run /\ applied[h[i].cmd] = 0 /\ req.cmd = h[i].cmd
    BY <1>1 DEF CursorAhead
  <1>3. req.turn = h[i].cmd
    BY <1>2, Runs DEF CursorAhead
  <1> QED
    BY <1>1, <1>2, <1>3 DEF ClaimHeldOnce, Owns

LEMMA CursorAdvances ==
  ASSUME TypeOK, Prepared, ClaimHeldOnce, CursorAhead, NEW i \in Handler, Advance(i)
  PROVE  CursorAhead'
  <1> SUFFICES ASSUME ~lost PROVE CursorAhead'
    BY DEF CursorAhead, Advance
  <1>0. KeepsClaim(i)
    BY StepsKeep DEF Step, Advance, ClaimTerminal, At
  <1>1. CASE ~Owns(i)
    <2>1. UNCHANGED <<req, applied, lost>>
      BY <1>1 DEF Advance
    <2> QED
      BY <1>0, <2>1, CursorStays
  <1>2. CASE Owns(i)
    <2>1. /\ h[i].cmd \in Run /\ applied[h[i].cmd] = 0 /\ req.turn = h[i].cmd
      BY <1>2, HolderApplies DEF Advance, At
    <2>2. /\ req'.cmd = 0 /\ req'.turn = h[i].cmd + 1 /\ req'.claim = NoClaim
          /\ applied' = [applied EXCEPT ![h[i].cmd] = @ + 1] /\ UNCHANGED lost
      BY <1>2 DEF Advance, Applied, TypeOK, Request
    <2>3. \A r \in Run : applied'[r] <= 1 /\ (r > h[i].cmd => applied'[r] = 0)
      BY <2>1, <2>2, TurnsAssumption DEF CursorAhead, TypeOK, Run
    <2>4. req'.turn \in Run => applied'[req'.turn] = 0
      BY <2>1, <2>2, <2>3, TurnsAssumption DEF Run
    <2>5. \A r \in Run : r > req'.turn => applied'[r] = 0
      BY <2>1, <2>2, <2>3, TurnsAssumption DEF Run
    <2> QED
      BY <2>2, <2>3, <2>4, <2>5, ClaimAssumption DEF CursorAhead, Owns
  <1> QED
    BY <1>1, <1>2

LEMMA CursorSettles ==
  ASSUME TypeOK, Prepared, ClaimHeldOnce, CursorAhead, NEW i \in Handler, Settle(i)
  PROVE  CursorAhead'
  <1> SUFFICES ASSUME ~lost PROVE CursorAhead'
    BY DEF CursorAhead, Settle
  <1>0. KeepsClaim(i)
    BY ReturnKeeps DEF Settle
  <1>1. CASE ~Owns(i)
    <2>1. UNCHANGED <<req, applied, lost>>
      BY <1>1 DEF Settle
    <2> QED
      BY <1>0, <2>1, CursorStays
  <1>2. CASE Owns(i)
    <2>1. /\ h[i].cmd \in Run /\ applied[h[i].cmd] = 0
          /\ req.cmd = h[i].cmd /\ req.turn = h[i].cmd
          /\ \A j \in Handler : h[j].claim \in Claim /\ req.claim = h[j].claim => j = i
      BY <1>2, HolderApplies DEF Settle, At
    <2>2. h[i].to \in Terminal
      BY DEF Settle, At, Prepared, Ready
    <2>3. /\ req'.cmd = req.cmd /\ req'.turn = req.turn
          /\ req'.claim \in {req.claim, NoClaim} /\ req'.status \in Terminal
      BY <1>2, <2>2, Labels DEF Settle, TypeOK, Request
    <2>4. applied' = [applied EXCEPT ![h[i].cmd] = @ + 1] /\ UNCHANGED lost
      BY <1>2 DEF Settle, Applied
    <2>5. \A r \in Run : applied'[r] <= 1 /\ (r > req'.turn => applied'[r] = 0)
      BY <2>1, <2>3, <2>4, TurnsAssumption DEF CursorAhead, TypeOK, Run
    <2>6. req'.cmd # 0 /\ req'.status \notin Active
      BY <2>1, <2>3, Runs, Labels
    <2>7. \A j \in Handler : ~(h'[j].claim \in Claim /\ req'.claim = h'[j].claim)
      <3>1. /\ h'[i].claim = NoClaim
            /\ \A j \in Handler : j # i => h'[j] = h[j]
        BY Returns, IdleTyped DEF Settle, TypeOK
      <3> QED
        BY <2>1, <2>3, <3>1, ClaimAssumption
    <2> QED
      BY <2>1, <2>3, <2>4, <2>5, <2>6, <2>7 DEF CursorAhead, Owns
  <1> QED
    BY <1>1, <1>2

\* An update that was not lost writes back what the row still says.
LEMMA CursorWritten ==
  ASSUME TypeOK, Prepared, CursorAhead, NEW i \in Handler, WriteRow(i)
  PROVE  CursorAhead'
  <1> SUFFICES ASSUME ~lost' PROVE CursorAhead'
    BY DEF CursorAhead
  <1>0. KeepsClaim(i)
    BY ReturnKeeps DEF WriteRow
  <1>1. UNCHANGED <<applied, lost>>
    BY DEF WriteRow, TypeOK
  <1>2. h[i].row \in Request /\ req \in Request
    BY DEF TypeOK, Work
  <1>3. [h[i].row EXCEPT !.live = req.live] = req
    BY DEF WriteRow
  <1>4. /\ h[i].row.cmd = req.cmd /\ h[i].row.turn = req.turn
        /\ h[i].row.claim = req.claim /\ h[i].row.status = req.status
    BY <1>2, <1>3 DEF Request
  <1>5. h[i].job # "note" => h[i].to \in Terminal
    BY DEF WriteRow, At, Prepared, Ready
  <1>6. /\ req'.cmd = req.cmd /\ req'.turn = req.turn /\ req'.claim = req.claim
        /\ req'.status = req.status \/ req'.status \in Terminal
    BY <1>2, <1>4, <1>5 DEF WriteRow, Request
  <1>7. req'.status \in Active => req.status \in Active
    BY <1>6, Labels
  <1> QED
    BY <1>0, <1>1, <1>6, <1>7, CursorStays

LEMMA StepCursorAhead ==
  ASSUME TypeOK, Prepared, ClaimHeldOnce, CursorAhead, [Next]_vars
  PROVE  CursorAhead'
  <1>1. ASSUME NEW i \in Handler,
               \/ TerminalEvent(i) \/ ReceiveProgress(i) \/ ReapStale(i) \/ Reap(i)
               \/ BeginStop(i)
        PROVE  CursorAhead'
    <2>1. UNCHANGED <<req, applied, lost>>
      BY <1>1 DEF TerminalEvent, ReceiveProgress, ReapStale, Reap, BeginStop, history
    <2> QED
      BY <1>1, <2>1, BeginsKeep, CursorStays
  <1>2. ASSUME NEW i \in Handler,
               \/ MarkRead(i) \/ MarkWrite(i) \/ RecordTimeout(i) \/ CheckClaim(i)
               \/ ReadSession(i) \/ RecordCompletion(i) \/ EndSession(i)
               \/ CompleteSession(i) \/ ReadRow(i) \/ NoteProgress(i) \/ StopSession(i)
               \/ Crash(i)
        PROVE  CursorAhead'
    <2>1. UNCHANGED <<req, applied, lost>>
      BY <1>2 DEF MarkRead, MarkWrite, RecordTimeout, CheckClaim, ReadSession,
                  RecordCompletion, EndSession, CompleteSession, ReadRow, NoteProgress,
                  StopSession, Crash, history
    <2>2. KeepsClaim(i)
      BY <1>2, StepsKeep
         DEF Step, MarkRead, MarkWrite, RecordTimeout, CheckClaim, ReadSession,
             RecordCompletion, EndSession, CompleteSession, ReadRow, NoteProgress,
             StopSession, ClaimTerminal, At
    <2> QED
      BY <2>1, <2>2, CursorStays
  <1>3. ASSUME NEW i \in Handler, ClaimTerminal(i) PROVE CursorAhead'
    <2>1. CASE Return(i)
      <3>1. CASE UNCHANGED req
        BY <1>3, <2>1, <3>1, ReturnKeeps, CursorStays DEF ClaimTerminal, history
      <3>2. CASE ~UNCHANGED req
        <4>1. Begin(i, [h[i] EXCEPT !.pc = "fence", !.claim = NewClaim])
          BY <1>3, <3>2 DEF ClaimTerminal
        <4>2. h'[i].pc = "fence"
          BY <4>1 DEF Begin, TypeOK, Work
        <4>3. h'[i].pc = "idle"
          BY <2>1, Returns, IdleTyped DEF TypeOK
        <4> QED
          BY <4>2, <4>3
      <3> QED
        BY <3>1, <3>2
    <2> QED
      BY <1>3, <2>1, CursorClaimed
  <1>4. ASSUME NEW i \in Handler, Suppress(i) PROVE CursorAhead'
    <2>1. h[i].to \in Terminal
      BY <1>4 DEF Suppress, At, Prepared, Ready
    <2>2. /\ req'.cmd = req.cmd /\ req'.turn = req.turn /\ req'.claim = req.claim
          /\ req'.status = req.status \/ req'.status \in Terminal
      BY <1>4, <2>1 DEF Suppress, TypeOK, Request
    <2>3. req'.status \in Active => req.status \in Active
      BY <2>2, Labels
    <2>4. KeepsClaim(i)
      BY <1>4, StepsKeep DEF Step, Suppress, ClaimTerminal, At
    <2> QED
      BY <1>4, <2>2, <2>3, <2>4, CursorStays DEF Suppress, history
  <1>5. CASE Dispatch
    <2>1. /\ req.cmd = 0 /\ req.turn \in Run /\ req'.cmd = req.turn
          /\ req'.turn = req.turn /\ req'.claim = req.claim
          /\ UNCHANGED <<h, applied, lost>>
      BY <1>5 DEF Dispatch, TypeOK, Request, history
    <2> QED
      BY <2>1, Runs DEF CursorAhead, Owns
  <1>6. CASE ExpireClaim
    <2>1. /\ req'.cmd = req.cmd /\ req'.turn = req.turn /\ req'.claim = req.claim
          /\ req'.status = req.status /\ UNCHANGED <<h, applied, lost>>
      BY <1>6 DEF ExpireClaim, TypeOK, Request, history
    <2> QED
      BY <2>1, CursorStays
  <1>7. CASE UNCHANGED vars
    BY <1>7, CursorStays DEF vars, history
  <1> QED
    BY <1>1, <1>2, <1>3, <1>4, <1>5, <1>6, <1>7, CursorAdvances, CursorSettles,
       CursorWritten DEF Next, Step

-----------------------------------------------------------------------------
(* What TerminalIsFinal, LoggedOnce and ThreadEnds need, step by step.     *)

\* What a handler keeps that goes on: all but where it is and how it ends the round.
Stays(s, t) ==
  /\ Keeps(s, t) /\ t.claim = s.claim /\ t.logged = s.logged /\ t.seen = s.seen
  /\ t.row = s.row

\* Handler i is the only one to do something.
Alone(i) == \A j \in Handler : j # i => h'[j] = h[j]

LEMMA GoesOn ==
  ASSUME TypeOK, NEW i \in Handler, NEW p \in PCs, Goto(i, p)
  PROVE  h'[i].pc = p /\ h'[i].to = h[i].to /\ Stays(h[i], h'[i]) /\ Alone(i)
  <1>1. h'[i] = [h[i] EXCEPT !.pc = p] /\ h[i] \in Work /\ Alone(i)
    BY Goes DEF TypeOK, Alone
  <1> QED
    BY <1>1 DEF Work, Stays, Keeps

LEMMA ReturnsIdle ==
  ASSUME TypeOK, NEW i \in Handler, Return(i)
  PROVE  h'[i] = Idle /\ Alone(i)
  BY Returns DEF TypeOK, Alone

\* Only who has seen the session ended does not end it.
LEMMA EndsOn ==
  ASSUME TypeOK, NEW i \in Handler, NEW s \in Terminal, EndRound(i, s)
  PROVE  /\ h'[i].pc = "endSession" \/ (h'[i].pc = "settle" /\ h[i].seen = s)
         /\ h'[i].to = s /\ Stays(h[i], h'[i]) /\ Alone(i)
  <1>1. h[i] \in Work
    BY DEF TypeOK
  <1>2. PICK p \in {"settle", "endSession"} :
          /\ Begin(i, [h[i] EXCEPT !.to = s, !.pc = p])
          /\ p = "settle" => h[i].seen = s
    BY DEF EndRound
  <1> DEFINE w == [h[i] EXCEPT !.to = s, !.pc = p]
  <1>3. w.pc = p /\ w.to = s /\ Stays(h[i], w)
    BY <1>1 DEF Work, Stays, Keeps
  <1>4. Begin(i, w)
    BY <1>2
  <1> HIDE DEF w
  <1>5. h'[i] = w /\ Alone(i)
    BY <1>4 DEF TypeOK, Begin, Alone
  <1> QED
    BY <1>2, <1>3, <1>5

\* A handler that begins has read nothing yet but what it came for.
Fresh(w) == w.claim = NoClaim /\ w.row = First /\ w.pc \notin {"record", "settle"}

LEMMA BeginsFresh ==
  ASSUME TypeOK, NEW i \in Handler,
         \/ TerminalEvent(i) \/ ReceiveProgress(i) \/ ReapStale(i) \/ Reap(i)
         \/ BeginStop(i)
  PROVE  /\ Alone(i) /\ Fresh(h'[i]) /\ happened \subseteq happened'
         /\ MarkedWork(h[i])'
         /\ h'[i].job = "close" => req.turn \notin Run
         /\ "stop" \notin happened' /\ HasEnded(h'[i]) => session \in Terminal
  <1> USE DEF TypeOK, Begin, Idle, Alone, Fresh, MarkedWork, HasEnded, Spend
  <1>1. CASE TerminalEvent(i)
    <2>1. PICK r \in Run, e \in Terminal, p \in {"markRead", "claim"} :
            Begin(i, [Idle EXCEPT !.pc = p, !.job = "event", !.cmd = r, !.event = e])
      BY <1>1 DEF TerminalEvent
    <2>2. happened \subseteq happened'
      BY <1>1 DEF TerminalEvent, used
    <2> QED
      BY <2>1, <2>2, Labels DEF First
  <1>2. CASE ReceiveProgress(i)
    <2>1. PICK r \in Run : Begin(i, [Idle EXCEPT !.pc = "note", !.job = "note", !.cmd = r])
      BY <1>2 DEF ReceiveProgress
    <2>2. happened \subseteq happened'
      BY <1>2 DEF ReceiveProgress
    <2> QED
      BY <2>1, <2>2, Labels DEF First
  <1>3. CASE ReapStale(i)
    BY <1>3, Labels DEF ReapStale, First
  <1>4. CASE Reap(i)
    <2>1. UNCHANGED happened
      BY <1>4 DEF Reap, used
    <2>2. CASE ReapFinalizing(i)
      BY <2>1, <2>2, Labels DEF ReapFinalizing, First
    <2>3. CASE ReapEnded(i)
      BY <2>1, <2>3, Labels DEF ReapEnded, First
    <2>4. CASE ReapPastEnd(i)
      BY <2>1, <2>4, Labels DEF ReapPastEnd, First
    <2>5. CASE ReapTerminalSession(i)
      BY <2>1, <2>5, Labels DEF ReapTerminalSession, First
    <2> QED
      BY <1>4, <2>2, <2>3, <2>4, <2>5 DEF Reap
  <1>5. CASE BeginStop(i)
    BY <1>5, Labels DEF BeginStop, First
  <1> QED
    BY <1>1, <1>2, <1>3, <1>4, <1>5

\* A step that leaves the request and the log alone: what its handler takes on is sound.
LEMMA QuietStep ==
  ASSUME TypeOK, EndInv, NEW i \in Handler, Alone(i),
         UNCHANGED <<req, completions, lost>>, happened \subseteq happened',
         session \in Terminal => session' \in Terminal,
         MarkedWork(h[i])',
         ~lost /\ h'[i].job = "close" => req.turn \notin Run,
         h'[i].claim \in {h[i].claim, NoClaim},
         h'[i].row \in {h[i].row, req, First},
         h'[i].pc = "record" /\ ~h'[i].logged /\ Undisturbed => completions[h'[i].cmd] = 0,
         "stop" \notin happened' /\ HasEnded(h'[i]) => session' \in Terminal
  PROVE  EndInv'
  <1>0. Undisturbed' => Undisturbed
    BY DEF Undisturbed
  <1>1. Marked'
    BY DEF EndInv, Marked, MarkedWork, Alone
  <1>2. ClosesPastEnd'
    BY DEF EndInv, ClosesPastEnd, Alone
  <1>3. HolderFinalizes'
    BY ClaimAssumption DEF EndInv, HolderFinalizes, Alone, Owns
  <1>4. HoldersOwn'
    <2> SUFFICES ASSUME Undisturbed, NEW k \in Handler, h'[k].claim \in Claim
                 PROVE  /\ req.claim = h'[k].claim /\ req.live
                        /\ \A j \in Handler : h'[j].row.claim = h'[k].claim => h'[j].row.live
      BY <1>0 DEF HoldersOwn, Owns
    <2>1. h[k].claim = h'[k].claim
      BY ClaimAssumption DEF Alone
    <2>2. req.claim = h'[k].claim /\ req.live
          /\ \A j \in Handler : h[j].row.claim = h'[k].claim => h[j].row.live
      BY <2>1 DEF EndInv, HoldersOwn, Owns
    <2>3. First.claim # h'[k].claim
      BY ClaimAssumption DEF First
    <2> QED
      BY <2>2, <2>3 DEF Alone
  <1>5. AddsFirst'
    BY <1>0 DEF EndInv, AddsFirst, Alone
  <1>6. SessionFirst'
    BY DEF EndInv, SessionFirst, Alone
  <1> QED
    BY <1>1, <1>2, <1>3, <1>4, <1>5, <1>6 DEF EndInv

\* A handler that goes on to a plain step takes nothing on.
LEMMA QuietGoes ==
  ASSUME TypeOK, Prepared, EndInv, NEW i \in Handler,
         NEW p \in {"markWrite", "recordTimeout", "claim", "readSession", "stopSession"},
         Goto(i, p), UNCHANGED <<req, completions, lost, session, happened>>
  PROVE  EndInv'
  <1>1. h'[i].pc = p /\ Stays(h[i], h'[i]) /\ Alone(i)
    BY GoesOn, Labels
  <1>2. MarkedWork(h[i])'
    BY <1>1 DEF EndInv, Marked, MarkedWork, Stays, Keeps
  <1>3. ~lost /\ h'[i].job = "close" => req.turn \notin Run
    BY <1>1 DEF EndInv, ClosesPastEnd, Stays, Keeps
  <1>4. "stop" \notin happened' /\ HasEnded(h'[i]) => session' \in Terminal
    BY <1>1 DEF EndInv, SessionFirst, HasEnded, Stays
  <1> QED
    BY <1>1, <1>2, <1>3, <1>4, QuietStep DEF Stays

LEMMA QuietReturns ==
  ASSUME TypeOK, EndInv, NEW i \in Handler, Return(i), UNCHANGED <<req, completions, lost>>,
         happened \subseteq happened', session \in Terminal => session' \in Terminal
  PROVE  EndInv'
  <1>1. h'[i] = Idle /\ Alone(i)
    BY ReturnsIdle
  <1>2. MarkedWork(h[i])'
    BY <1>1 DEF MarkedWork, Idle
  <1>3. ~HasEnded(Idle)
    BY Labels DEF HasEnded, Idle, First
  <1> QED
    BY <1>1, <1>2, <1>3, IdleTyped, QuietStep

\* The end of the round without the claim, or with the log written.
LEMMA QuietEnds ==
  ASSUME TypeOK, EndInv, NEW i \in Handler, NEW s \in Terminal, EndRound(i, s),
         UNCHANGED <<req, completions, lost, session, happened>>
  PROVE  EndInv'
  <1>1. /\ h'[i].pc = "endSession" \/ (h'[i].pc = "settle" /\ h[i].seen = s)
        /\ Stays(h[i], h'[i]) /\ Alone(i)
    BY EndsOn
  <1>2. MarkedWork(h[i])'
    BY <1>1 DEF EndInv, Marked, MarkedWork, Stays, Keeps
  <1>3. ~lost /\ h'[i].job = "close" => req.turn \notin Run
    BY <1>1 DEF EndInv, ClosesPastEnd, Stays, Keeps
  <1>4. "stop" \notin happened' /\ HasEnded(h'[i]) => session' \in Terminal
    BY <1>1 DEF EndInv, SessionFirst, HasEnded, Stays
  <1> QED
    BY <1>1, <1>2, <1>3, <1>4, QuietStep DEF Stays

LEMMA BeginsEnd ==
  ASSUME TypeOK, EndInv, NEW i \in Handler,
         \/ TerminalEvent(i) \/ ReceiveProgress(i) \/ ReapStale(i) \/ Reap(i)
         \/ BeginStop(i)
  PROVE  EndInv'
  <1>1. UNCHANGED <<req, completions, lost, session>>
    BY DEF TerminalEvent, ReceiveProgress, ReapStale, Reap, BeginStop, history
  <1>2. /\ Alone(i) /\ Fresh(h'[i]) /\ happened \subseteq happened' /\ MarkedWork(h[i])'
        /\ h'[i].job = "close" => req.turn \notin Run
        /\ "stop" \notin happened' /\ HasEnded(h'[i]) => session \in Terminal
    BY BeginsFresh
  <1> QED
    BY <1>1, <1>2, QuietStep DEF Fresh

\* The steps of a handler that leave the request and the log alone.
LEMMA QuietSteps ==
  ASSUME TypeOK, Prepared, EndInv, NEW i \in Handler,
         \/ MarkRead(i) \/ MarkWrite(i) \/ CheckClaim(i) \/ ReadSession(i) \/ EndSession(i)
         \/ CompleteSession(i) \/ ReadRow(i) \/ NoteProgress(i) \/ StopSession(i) \/ Crash(i)
  PROVE  EndInv'
  <1>a. /\ h[i] \in Work /\ Ready(h[i]) /\ MarkedWork(h[i])
        /\ ~lost /\ h[i].job = "close" => req.turn \notin Run
        /\ "stop" \notin happened /\ HasEnded(h[i]) => session \in Terminal
    BY DEF TypeOK, Prepared, EndInv, Marked, ClosesPastEnd, SessionFirst
  <1>1. CASE MarkRead(i) \/ MarkWrite(i) \/ CheckClaim(i)
    BY <1>1, QuietGoes, QuietReturns DEF MarkRead, MarkWrite, CheckClaim, history, used
  <1>2. CASE ReadSession(i)
    <2>1. UNCHANGED <<req, completions, lost, session, happened>>
      BY <1>2 DEF ReadSession, history, used
    <2> DEFINE w == [h[i] EXCEPT !.pc = "record", !.seen = session,
                                 !.logged = completions[h[i].cmd] > 0]
    <2>2. /\ w.pc = "record" /\ w.seen = session /\ Keeps(h[i], w)
          /\ w.claim = h[i].claim /\ w.row = h[i].row
          /\ w.logged = (completions[h[i].cmd] > 0)
      BY <1>a DEF Work, Keeps
    <2>3. Begin(i, w)
      BY <1>2 DEF ReadSession
    <2> HIDE DEF w
    <2>4. h'[i] = w /\ Alone(i)
      BY <2>3 DEF TypeOK, Begin, Alone
    <2>5. MarkedWork(h[i])'
      BY <1>a, <2>1, <2>2, <2>4 DEF MarkedWork, Keeps
    <2>6. "stop" \notin happened' /\ HasEnded(w) => session \in Terminal
      BY <1>a, <2>1, <2>2 DEF HasEnded
    <2>7. ~w.logged => completions[w.cmd] = 0
      <3>1. completions[h[i].cmd] \in Nat
        BY <1>2, <1>a DEF ReadSession, At, Ready, TypeOK
      <3>2. ~w.logged => ~(completions[h[i].cmd] > 0)
        BY <2>2, Zenon
      <3> QED
        BY <2>2, <3>1, <3>2 DEF Keeps
    <2> QED
      BY <1>a, <2>1, <2>2, <2>4, <2>5, <2>6, <2>7, QuietStep DEF Keeps
  <1>3. CASE EndSession(i)
    <2>1. h[i].to \in Terminal
      BY <1>3, <1>a DEF EndSession, At, Ready
    <2>2. UNCHANGED <<req, completions, lost, happened>> /\ session' \in Terminal
      BY <1>3, <2>1 DEF EndSession, history, used
    <2>3. PICK p \in {"readRow", "settle"} :
            Goto(i, p) /\ (p = "readRow" => h[i].job = "timeout")
      BY <1>3 DEF EndSession
    <2>4. h'[i].pc = p /\ Stays(h[i], h'[i]) /\ Alone(i)
      BY <2>3, GoesOn, Labels
    <2>5. MarkedWork(h[i])'
      BY <1>a, <2>2, <2>3, <2>4 DEF MarkedWork, Stays, Keeps
    <2> QED
      BY <1>a, <2>2, <2>4, <2>5, QuietStep DEF Stays, Keeps
  <1>4. CASE CompleteSession(i)
    <2>1. UNCHANGED <<req, completions, lost, happened>> /\ session' \in Terminal
      BY <1>4, Labels DEF CompleteSession, history, used
    <2> DEFINE w == [h[i] EXCEPT !.pc = "readRow", !.to = "completed"]
    <2>2. w.pc = "readRow" /\ Stays(h[i], w)
      BY <1>a DEF Work, Stays, Keeps
    <2>3. Begin(i, w)
      BY <1>4 DEF CompleteSession
    <2> HIDE DEF w
    <2>4. h'[i] = w /\ Alone(i)
      BY <2>3 DEF TypeOK, Begin, Alone
    <2>5. MarkedWork(h[i])'
      BY <1>4, <1>a, <2>1, <2>2, <2>4 DEF CompleteSession, At, MarkedWork, Stays, Keeps
    <2> QED
      BY <1>a, <2>1, <2>2, <2>4, <2>5, QuietStep DEF Stays, Keeps
  <1>5. CASE ReadRow(i)
    <2>1. UNCHANGED <<req, completions, lost, session, happened>>
      BY <1>5 DEF ReadRow, history, used
    <2> DEFINE w == [h[i] EXCEPT !.pc = "writeRow", !.row = req]
    <2>2. w.pc = "writeRow" /\ Keeps(h[i], w) /\ w.claim = h[i].claim /\ w.seen = h[i].seen
          /\ w.row = req
      BY <1>a DEF Work, Keeps
    <2>3. Begin(i, w)
      BY <1>5 DEF ReadRow
    <2> HIDE DEF w
    <2>4. h'[i] = w /\ Alone(i)
      BY <2>3 DEF TypeOK, Begin, Alone
    <2>5. MarkedWork(h[i])'
      BY <1>5, <1>a, <2>1, <2>2, <2>4 DEF ReadRow, At, MarkedWork, Keeps
    <2>6. "stop" \notin happened' /\ HasEnded(w) => session \in Terminal
      BY <1>5, <1>a, <2>1, <2>2 DEF ReadRow, At, HasEnded, Keeps, EndInv, SessionFirst
    <2> QED
      BY <1>a, <2>1, <2>2, <2>4, <2>5, <2>6, QuietStep DEF Keeps
  <1>6. CASE NoteProgress(i)
    <2>1. UNCHANGED <<req, completions, lost, session, happened>>
      BY <1>6 DEF NoteProgress, history, used
    <2>2. CASE Goto(i, "readRow")
      <3>1. h'[i].pc = "readRow" /\ Stays(h[i], h'[i]) /\ Alone(i)
        BY <2>2, GoesOn, Labels
      <3>2. h[i].job = "note"
        BY <1>6, <1>a DEF NoteProgress, At, Ready
      <3>3. MarkedWork(h[i])'
        BY <3>1, <3>2 DEF MarkedWork, Stays, Keeps
      <3>4. HasEnded(h'[i]) => HasEnded(h[i])
        BY <3>1, <3>2 DEF HasEnded, Stays, Keeps
      <3> QED
        BY <1>a, <2>1, <3>1, <3>3, <3>4, QuietStep DEF Stays, Keeps
    <2> QED
      BY <1>6, <2>1, <2>2, QuietReturns DEF NoteProgress
  <1>7. CASE StopSession(i)
    <2>1. session \in Terminal => session' \in Terminal
      BY <1>7, Labels DEF StopSession
    <2> QED
      BY <1>7, <2>1, QuietReturns DEF StopSession, history, used
  <1>8. CASE Crash(i)
    BY <1>8, QuietReturns DEF Crash, Spend, history
  <1> QED
    BY <1>1, <1>2, <1>3, <1>4, <1>5, <1>6, <1>7, <1>8

\* The request is claimed only when nobody holds a claim that has not run out.
LEMMA ClaimEnd ==
  ASSUME TypeOK, IndInv, EndInv, NEW i \in Handler, ClaimTerminal(i)
  PROVE  EndInv'
  <1>0. UNCHANGED <<completions, lost, session, happened>>
    BY DEF ClaimTerminal, history, used
  <1>1. CASE Return(i) /\ UNCHANGED req
    BY <1>0, <1>1, QuietReturns
  <1>2. CASE ~(Return(i) /\ UNCHANGED req)
    <2> DEFINE w == [h[i] EXCEPT !.pc = "fence", !.claim = NewClaim]
    <2>1. h[i] \in Work /\ req \in Request /\ Prepared /\ ClaimHeldOnce
      BY DEF TypeOK, IndInv
    <2>2. /\ w.pc = "fence" /\ Keeps(h[i], w) /\ w.claim = NewClaim
          /\ w.seen = h[i].seen /\ w.row = h[i].row
      BY <2>1 DEF Work, Keeps
    <2>3. Begin(i, w)
      BY <1>2 DEF ClaimTerminal
    <2> HIDE DEF w
    <2>4. h'[i] = w /\ Alone(i)
      BY <2>3 DEF TypeOK, Begin, Alone
    <2>5. /\ req'.status = "finalizing" /\ req'.claim = NewClaim /\ req'.live
          /\ req'.turn = req.turn /\ req.status \in Active
          /\ ~(req.status = "finalizing" /\ req.live) /\ FreeClaims # {}
      BY <1>2, <2>1 DEF ClaimTerminal, Request
    <2>6. /\ NewClaim \in Claim /\ \A j \in Handler : h[j].claim # NewClaim
          /\ \A j \in Handler : h[j].row.claim # NewClaim
      BY <2>5 DEF NewClaim, FreeClaims
    <2>7. Marked'
      BY <1>0, <2>2, <2>4 DEF EndInv, Marked, MarkedWork, Alone, Keeps
    <2>8. ClosesPastEnd'
      BY <1>0, <2>2, <2>4, <2>5 DEF EndInv, ClosesPastEnd, Alone, Keeps
    <2>9. HolderFinalizes'
      BY <2>5 DEF HolderFinalizes
    <2>10. HoldersOwn'
      <3> SUFFICES ASSUME Undisturbed, NEW k \in Handler, h'[k].claim \in Claim
                   PROVE  k = i
        BY <1>0, <2>2, <2>4, <2>5, <2>6 DEF HoldersOwn, Undisturbed, Owns, Alone
      <3>1. k # i => h[k].claim \in Claim
        BY <2>4 DEF Alone
      <3> QED
        BY <2>5, <3>1 DEF EndInv, HolderFinalizes, HoldersOwn, Undisturbed
    <2>11. AddsFirst'
      BY <1>0, <2>2, <2>4 DEF EndInv, AddsFirst, Undisturbed, Alone
    <2>12. SessionFirst'
      BY <1>0, <2>2, <2>4, <2>5, Labels DEF EndInv, SessionFirst, HasEnded, Alone
    <2> QED
      BY <2>7, <2>8, <2>9, <2>10, <2>11, <2>12 DEF EndInv
  <1> QED
    BY <1>1, <1>2

\* A timeout's own entry comes after it happened.
LEMMA TimeoutEnd ==
  ASSUME TypeOK, IndInv, EndInv, NEW i \in Handler, RecordTimeout(i)
  PROVE  EndInv'
  <1>1. UNCHANGED <<req, lost, session, happened>>
    BY DEF RecordTimeout, history, used
  <1>2. h'[i].pc = "endSession" /\ Stays(h[i], h'[i]) /\ Alone(i)
    BY GoesOn, Labels DEF RecordTimeout
  <1>3. h[i].job = "timeout" /\ "timeout" \in happened
    BY DEF RecordTimeout, At, IndInv, Prepared, Ready, EndInv, Marked, MarkedWork
  <1>4. Marked'
    BY <1>1, <1>2 DEF EndInv, Marked, MarkedWork, Alone, Stays, Keeps
  <1>5. ClosesPastEnd'
    BY <1>1, <1>2 DEF EndInv, ClosesPastEnd, Alone, Stays, Keeps
  <1>6. HolderFinalizes' /\ HoldersOwn' /\ AddsFirst'
    BY <1>1, <1>3 DEF HolderFinalizes, HoldersOwn, AddsFirst, Undisturbed
  <1>7. SessionFirst'
    BY <1>1, <1>2 DEF EndInv, SessionFirst, HasEnded, Alone, Stays
  <1> QED
    BY <1>4, <1>5, <1>6, <1>7 DEF EndInv

\* Undisturbed, the one holder of the claim adds the end of its run once.
LEMMA RecordEnd ==
  ASSUME TypeOK, IndInv, EndInv, NEW i \in Handler, RecordCompletion(i)
  PROVE  EndInv'
  <1>1. UNCHANGED <<req, lost, session, happened>>
    BY DEF RecordCompletion, history, used
  <1>2. Goto(i, "advance") \/ \E s \in Terminal : EndRound(i, s)
    BY Labels DEF RecordCompletion
  <1>3. /\ Stays(h[i], h'[i]) /\ Alone(i)
        /\ \/ h'[i].pc \in {"advance", "endSession"}
           \/ h'[i].pc = "settle" /\ h[i].seen \in Terminal
    BY <1>2, GoesOn, EndsOn, Labels
  <1>4. h[i].cmd \in Run /\ h[i].claim \in Claim /\ h[i].pc = "record"
    BY DEF RecordCompletion, At, IndInv, Prepared, Ready, ClaimHeldOnce, HasClaim, Works
  <1>5. Marked'
    BY <1>1, <1>3 DEF EndInv, Marked, MarkedWork, Alone, Stays, Keeps
  <1>6. ClosesPastEnd'
    BY <1>1, <1>3 DEF EndInv, ClosesPastEnd, Alone, Stays, Keeps
  <1>7. HolderFinalizes'
    BY <1>1, <1>3 DEF EndInv, HolderFinalizes, Owns, Alone, Stays
  <1>8. HoldersOwn'
    BY <1>1, <1>3 DEF EndInv, HoldersOwn, Undisturbed, Owns, Alone, Stays
  <1>9. AddsFirst'
    <2> SUFFICES ASSUME Undisturbed
                 PROVE  /\ \A r \in Run : completions'[r] <= 1
                        /\ \A k \in Handler :
                             h'[k].pc = "record" /\ ~h'[k].logged =>
                               completions'[h'[k].cmd] = 0
      BY <1>1 DEF AddsFirst, Undisturbed
    <2>1. \A r \in Run : completions'[r] <= 1
      <3>1. h[i].logged \/ completions[h[i].cmd] = 0
        BY <1>4 DEF EndInv, AddsFirst
      <3> QED
        BY <1>4, <3>1 DEF EndInv, AddsFirst, RecordCompletion, TypeOK
    <2>2. \A k \in Handler : h'[k].pc # "record"
      <3> SUFFICES ASSUME NEW k \in Handler, k # i, h[k].pc = "record" PROVE FALSE
        BY <1>3 DEF Alone
      <3>1. h[k].claim \in Claim
        BY DEF IndInv, ClaimHeldOnce, HasClaim, Works
      <3>2. h[k].claim = h[i].claim
        BY <1>4, <3>1 DEF EndInv, HoldersOwn, Owns
      <3> QED
        BY <1>4, <3>2 DEF IndInv, ClaimHeldOnce
    <2> QED
      BY <2>1, <2>2
  <1>10. SessionFirst'
    BY <1>1, <1>3 DEF EndInv, SessionFirst, HasEnded, Alone, Stays
  <1> QED
    BY <1>5, <1>6, <1>7, <1>8, <1>9, <1>10 DEF EndInv

\* When the holder has applied the run, nobody holds the request.
LEMMA Released ==
  ASSUME TypeOK, IndInv, ~lost, NEW i \in Handler, Owns(i), h[i].pc \in {"advance", "settle"},
         Alone(i), h'[i].claim = NoClaim, req'.claim \in {req.claim, NoClaim}
  PROVE  \A k \in Handler : h'[k].claim \in Claim => req'.claim # h'[k].claim
  <1>1. \A j \in Handler : h[j].claim \in Claim /\ req.claim = h[j].claim => j = i
    BY HolderApplies DEF IndInv
  <1> QED
    BY <1>1, ClaimAssumption DEF Alone

LEMMA ReleasedEnd ==
  ASSUME TypeOK, IndInv, EndInv, NEW i \in Handler, Owns(i), h[i].pc \in {"advance", "settle"},
         Alone(i), h'[i].claim = NoClaim, h'[i].row = First, h'[i].pc # "record",
         req'.claim \in {req.claim, NoClaim}, UNCHANGED <<completions, lost, happened>>
  PROVE  HolderFinalizes' /\ HoldersOwn' /\ AddsFirst'
  <1>1. ~lost => \A k \in Handler : h'[k].claim \in Claim => req'.claim # h'[k].claim
    BY Released
  <1>2. HolderFinalizes'
    BY <1>1 DEF HolderFinalizes, Owns
  <1>3. HoldersOwn'
    <2> SUFFICES ASSUME Undisturbed, NEW k \in Handler, h'[k].claim \in Claim PROVE FALSE
      BY DEF HoldersOwn, Undisturbed
    <2>1. h[k].claim \in Claim /\ h[k].claim = h'[k].claim
      BY ClaimAssumption DEF Alone
    <2>2. h[i].claim \in Claim /\ k # i
      BY ClaimAssumption DEF IndInv, ClaimHeldOnce, HasClaim, Works
    <2>3. req.claim = h[k].claim /\ req.claim = h[i].claim
      BY <2>1, <2>2 DEF EndInv, HoldersOwn, Owns
    <2> QED
      BY <2>2, <2>3 DEF IndInv, ClaimHeldOnce
  <1>4. AddsFirst'
    BY DEF EndInv, AddsFirst, Undisturbed, Alone
  <1> QED
    BY <1>2, <1>3, <1>4

\* Who closes the round has not got the cursor: a holder has.
LEMMA NoneCloses ==
  ASSUME TypeOK, IndInv, EndInv, ~lost, NEW i \in Handler, Owns(i),
         h[i].pc \in {"advance", "settle"}
  PROVE  \A j \in Handler : h[j].job # "close"
  <1>1. req.turn \in Run
    BY HolderApplies DEF IndInv
  <1> QED
    BY <1>1 DEF EndInv, ClosesPastEnd

LEMMA AdvanceEnd ==
  ASSUME TypeOK, IndInv, EndInv, NEW i \in Handler, Advance(i)
  PROVE  EndInv'
  <1>0. UNCHANGED <<completions, lost, session, happened>> /\ h[i].pc = "advance"
    BY DEF Advance, At, used
  <1>1. CASE ~Owns(i)
    <2>1. UNCHANGED req /\ (Return(i) \/ \E s \in Terminal : EndRound(i, s))
      BY <1>1, Labels DEF Advance
    <2> QED
      BY <1>0, <2>1, QuietReturns, QuietEnds DEF IndInv
  <1>2. CASE Owns(i)
    <2>1. /\ req'.status = "running" /\ req'.claim = NoClaim
          /\ Return(i) \/ /\ Begin(i, [Idle EXCEPT !.pc = "complete", !.job = "close"])
                          /\ req'.turn \notin Run
      BY <1>2 DEF Advance, TypeOK, Request
    <2> DEFINE w == [Idle EXCEPT !.pc = "complete", !.job = "close"]
    <2>2. w.pc = "complete" /\ w.job = "close" /\ w.claim = NoClaim /\ w.row = First
          /\ w.seen = "none"
      BY DEF Idle
    <2>3. Alone(i) /\ (h'[i] = Idle \/ (h'[i] = w /\ req'.turn \notin Run))
      BY <2>1, ReturnsIdle DEF TypeOK, Begin, Alone
    <2> HIDE DEF w
    <2>4. Idle.seen = "none" /\ ~HasEnded(Idle) /\ ~HasEnded(w) /\ w.pc # "record"
      BY <2>2, IdleTyped, Labels DEF HasEnded, Idle, First
    <2>5. Marked'
      BY <1>0, <2>2, <2>3, IdleTyped DEF EndInv, Marked, MarkedWork, Alone
    <2>6. ClosesPastEnd'
      BY <1>0, <1>2, <2>2, <2>3, IdleTyped, NoneCloses DEF ClosesPastEnd, Alone
    <2>7. HolderFinalizes' /\ HoldersOwn' /\ AddsFirst'
      BY <1>0, <1>2, <2>1, <2>2, <2>3, <2>4, IdleTyped, ReleasedEnd
    <2>8. SessionFirst'
      BY <1>0, <2>1, <2>3, <2>4, Labels DEF EndInv, SessionFirst, Alone
    <2> QED
      BY <2>5, <2>6, <2>7, <2>8 DEF EndInv
  <1> QED
    BY <1>1, <1>2

\* Who settles the request has ended the session.
LEMMA SettleEnd ==
  ASSUME TypeOK, IndInv, EndInv, NEW i \in Handler, Settle(i)
  PROVE  EndInv'
  <1>0. /\ UNCHANGED <<completions, lost, session, happened>> /\ h[i].pc = "settle"
        /\ Return(i)
    BY DEF Settle, At, used
  <1>1. CASE ~Owns(i)
    <2>1. UNCHANGED req
      BY <1>1 DEF Settle
    <2> QED
      BY <1>0, <2>1, QuietReturns
  <1>2. CASE Owns(i)
    <2>1. req'.claim \in {req.claim, NoClaim} /\ req'.turn = req.turn
      BY <1>2 DEF Settle, TypeOK, Request
    <2>2. h'[i] = Idle /\ Alone(i)
      BY <1>0, ReturnsIdle
    <2>3. Marked'
      BY <1>0, <2>2, IdleTyped DEF EndInv, Marked, MarkedWork, Alone
    <2>4. ClosesPastEnd'
      BY <1>0, <2>1, <2>2, IdleTyped DEF EndInv, ClosesPastEnd, Alone
    <2>5. HolderFinalizes' /\ HoldersOwn' /\ AddsFirst'
      BY <1>0, <1>2, <2>1, <2>2, IdleTyped, ReleasedEnd
    <2>6. SessionFirst'
      BY <1>0, <2>2 DEF EndInv, SessionFirst, HasEnded, Alone, Idle, First
    <2> QED
      BY <2>3, <2>4, <2>5, <2>6 DEF EndInv
  <1> QED
    BY <1>1, <1>2

\* An update that was not lost writes back the row as it is, but for what its writer ends.
LEMMA Rewritten ==
  ASSUME TypeOK, Prepared, NEW i \in Handler, WriteRow(i), ~lost'
  PROVE  /\ ~lost /\ req'.claim = req.claim /\ req'.turn = req.turn
         /\ h[i].row.claim = req.claim /\ h[i].row.status = req.status
         /\ req'.live = h[i].row.live
         /\ \/ h[i].job = "note" /\ req'.status = req.status
            \/ h[i].job # "note" /\ req'.status = h[i].to /\ h[i].to \in Terminal
  <1>1. h[i].row \in Request /\ req \in Request
    BY DEF TypeOK, Work
  <1>2. [h[i].row EXCEPT !.live = req.live] = req /\ ~lost
    BY DEF WriteRow, TypeOK
  <1>3. /\ h[i].row.turn = req.turn /\ h[i].row.claim = req.claim
        /\ h[i].row.status = req.status
    BY <1>1, <1>2 DEF Request
  <1>4. h[i].job # "note" => h[i].to \in Terminal
    BY DEF WriteRow, At, Prepared, Ready
  <1> QED
    BY <1>1, <1>2, <1>3, <1>4 DEF WriteRow, Request

\* Who ends the request by a whole row closes the round, which no holder of a claim
\* has to finish, or has timed out.
LEMMA WriteEnd ==
  ASSUME TypeOK, IndInv, EndInv, NEW i \in Handler, WriteRow(i)
  PROVE  EndInv'
  <1>0. /\ UNCHANGED <<completions, session, happened>> /\ h[i].pc = "writeRow"
        /\ h'[i] = Idle /\ Alone(i)
    BY ReturnsIdle DEF WriteRow, At, used
  <1>1. Marked'
    BY <1>0, IdleTyped DEF EndInv, Marked, MarkedWork, Alone
  <1>2. ASSUME ~lost'
        PROVE  ClosesPastEnd' /\ HolderFinalizes' /\ HoldersOwn' /\ AddsFirst'
    <2>1. /\ ~lost /\ req'.claim = req.claim /\ req'.turn = req.turn
          /\ h[i].row.claim = req.claim /\ req'.live = h[i].row.live
          /\ (h[i].job = "note" /\ req'.status = req.status) \/ h[i].job # "note"
      BY <1>2, Rewritten DEF IndInv
    <2>2. ClosesPastEnd'
      BY <1>0, <2>1, IdleTyped DEF EndInv, ClosesPastEnd, Alone
    <2>3. HolderFinalizes'
      <3> SUFFICES ASSUME "timeout" \notin happened, NEW k \in Handler,
                          h'[k].claim \in Claim, req'.claim = h'[k].claim
                   PROVE  req'.status = "finalizing"
        BY <1>0 DEF HolderFinalizes, Owns
      <3>1. k # i /\ h[k].claim \in Claim /\ Owns(k)
        BY <1>0, <2>1, IdleTyped, ClaimAssumption DEF Alone, Owns
      <3>2. req.status = "finalizing"
        BY <2>1, <3>1 DEF EndInv, HolderFinalizes
      <3>3. req.turn \in Run
        BY <2>1, <3>1, Runs DEF IndInv, CursorAhead
      <3>4. h[i].job = "note"
        BY <1>0, <2>1, <3>3 DEF EndInv, Marked, MarkedWork, ClosesPastEnd
      <3> QED
        BY <2>1, <3>2, <3>4
    <2>4. HoldersOwn'
      <3> SUFFICES ASSUME Undisturbed, NEW k \in Handler, h'[k].claim \in Claim
                   PROVE  /\ req'.claim = h'[k].claim /\ req'.live
                          /\ \A j \in Handler :
                               h'[j].row.claim = h'[k].claim => h'[j].row.live
        BY <1>0, <2>1 DEF HoldersOwn, Undisturbed, Owns
      <3>1. k # i /\ h[k].claim = h'[k].claim
        BY <1>0, IdleTyped, ClaimAssumption DEF Alone
      <3>2. /\ req.claim = h[k].claim /\ h[i].row.claim = h[k].claim
            /\ \A j \in Handler : h[j].row.claim = h[k].claim => h[j].row.live
        BY <2>1, <3>1 DEF EndInv, HoldersOwn, Owns
      <3>3. First.claim # h'[k].claim
        BY ClaimAssumption DEF First
      <3> QED
        BY <1>0, <2>1, <3>1, <3>2, <3>3, IdleTyped DEF Alone
    <2>5. AddsFirst'
      BY <1>0, <2>1, IdleTyped DEF EndInv, AddsFirst, Undisturbed, Alone
    <2> QED
      BY <2>2, <2>3, <2>4, <2>5
  <1>3. lost' => ClosesPastEnd' /\ HolderFinalizes' /\ HoldersOwn' /\ AddsFirst'
    BY DEF ClosesPastEnd, HolderFinalizes, HoldersOwn, AddsFirst, Undisturbed
  <1>4. SessionFirst'
    <2>1. req'.status = h[i].row.status \/ h[i].job # "note"
      BY DEF WriteRow
    <2>2. req'.status \in Terminal => HasEnded(h[i])
      BY <1>0, <2>1 DEF HasEnded
    <2>3. ~HasEnded(Idle)
      BY Labels DEF HasEnded, Idle, First
    <2> QED
      BY <1>0, <2>2, <2>3 DEF EndInv, SessionFirst, Alone
  <1> QED
    BY <1>1, <1>2, <1>3, <1>4 DEF EndInv

\* A running request is nobody's to finalize: it may be suppressed.
LEMMA SuppressEnd ==
  ASSUME TypeOK, IndInv, EndInv, NEW i \in Handler, Suppress(i)
  PROVE  EndInv'
  <1>0. UNCHANGED <<completions, lost, session, happened>> /\ h[i].pc = "suppress"
    BY DEF Suppress, At, history, used
  <1>1. Goto(i, "stopSession") \/ Return(i)
    BY DEF Suppress
  <1>2. CASE UNCHANGED req
    <2>1. "stopSession" \in {"markWrite", "recordTimeout", "claim", "readSession",
                             "stopSession"}
      OBVIOUS
    <2> QED
      BY <1>0, <1>1, <1>2, <2>1, QuietGoes, QuietReturns DEF IndInv
  <1>3. CASE ~UNCHANGED req
    <2>1. /\ req.status = "running" /\ req'.claim = req.claim /\ req'.turn = req.turn
          /\ req'.live = req.live
      BY <1>0, <1>3 DEF Suppress, TypeOK, Request, EndInv, Marked, MarkedWork
    <2>2. Alone(i) /\ ((Stays(h[i], h'[i]) /\ h'[i].pc = "stopSession") \/ h'[i] = Idle)
      BY <1>1, GoesOn, ReturnsIdle, Labels
    <2>3. Marked'
      BY <1>0, <2>2, IdleTyped DEF EndInv, Marked, MarkedWork, Alone, Stays, Keeps
    <2>4. ClosesPastEnd'
      BY <1>0, <2>1, <2>2, IdleTyped DEF EndInv, ClosesPastEnd, Alone, Stays, Keeps
    <2>5. HolderFinalizes'
      <3> SUFFICES ASSUME ~lost, "timeout" \notin happened, NEW k \in Handler,
                          h'[k].claim \in Claim, req.claim = h'[k].claim
                   PROVE  FALSE
        BY <1>0, <2>1 DEF HolderFinalizes, Owns
      <3>1. h[k].claim = h'[k].claim
        BY <2>2, IdleTyped, ClaimAssumption DEF Alone, Stays
      <3> QED
        BY <2>1, <3>1 DEF EndInv, HolderFinalizes, Owns
    <2>6. HoldersOwn'
      <3> SUFFICES ASSUME Undisturbed, NEW k \in Handler, h'[k].claim \in Claim
                   PROVE  /\ req'.claim = h'[k].claim /\ req'.live
                          /\ \A j \in Handler :
                               h'[j].row.claim = h'[k].claim => h'[j].row.live
        BY <1>0 DEF HoldersOwn, Undisturbed, Owns
      <3>1. h[k].claim = h'[k].claim
        BY <2>2, IdleTyped, ClaimAssumption DEF Alone, Stays
      <3>2. /\ req.claim = h[k].claim /\ req.live
            /\ \A j \in Handler : h[j].row.claim = h[k].claim => h[j].row.live
        BY <3>1 DEF EndInv, HoldersOwn, Owns
      <3>3. First.claim # h'[k].claim
        BY ClaimAssumption DEF First
      <3> QED
        BY <2>1, <2>2, <3>1, <3>2, <3>3, IdleTyped DEF Alone, Stays
    <2>7. AddsFirst'
      BY <1>0, <2>2, IdleTyped DEF EndInv, AddsFirst, Undisturbed, Alone
    <2>8. SessionFirst'
      <3>1. HasEnded(h[i]) /\ ~HasEnded(Idle)
        BY <1>0, Labels DEF HasEnded, Idle, First
      <3> QED
        BY <1>0, <2>2, <3>1 DEF EndInv, SessionFirst, Alone
    <2> QED
      BY <2>3, <2>4, <2>5, <2>6, <2>7, <2>8 DEF EndInv
  <1> QED
    BY <1>2, <1>3

LEMMA DispatchEnd ==
  ASSUME TypeOK, EndInv, Dispatch
  PROVE  EndInv'
  <1>1. /\ UNCHANGED <<completions, lost, session, happened, h>>
        /\ req'.status = req.status /\ req'.claim = req.claim /\ req'.turn = req.turn
        /\ req'.live = req.live
    BY DEF Dispatch, history, used, TypeOK, Request
  <1>2. Marked' /\ ClosesPastEnd' /\ HolderFinalizes'
    BY <1>1 DEF EndInv, Marked, MarkedWork, ClosesPastEnd, HolderFinalizes, Owns
  <1>3. HoldersOwn' /\ AddsFirst' /\ SessionFirst'
    BY <1>1 DEF EndInv, HoldersOwn, AddsFirst, Undisturbed, Owns, SessionFirst, HasEnded
  <1> QED
    BY <1>2, <1>3 DEF EndInv

\* A claim that runs out under its holder is a hazard.
LEMMA ExpireEnd ==
  ASSUME TypeOK, EndInv, ExpireClaim
  PROVE  EndInv'
  <1>1. /\ UNCHANGED <<completions, lost, session, h>> /\ happened \subseteq happened'
        /\ req'.status = req.status /\ req'.claim = req.claim /\ req'.turn = req.turn
        /\ \A i \in Handler : h[i].claim = req.claim => "slow" \in happened'
    BY DEF ExpireClaim, Spend, history, used, TypeOK, Request
  <1>2. Marked' /\ ClosesPastEnd' /\ HolderFinalizes'
    BY <1>1 DEF EndInv, Marked, MarkedWork, ClosesPastEnd, HolderFinalizes, Owns
  <1>3. HoldersOwn'
    BY <1>1 DEF EndInv, HoldersOwn, Undisturbed, Owns
  <1>4. AddsFirst' /\ SessionFirst'
    BY <1>1 DEF EndInv, AddsFirst, Undisturbed, SessionFirst, HasEnded
  <1> QED
    BY <1>2, <1>3, <1>4 DEF EndInv

\* At the start nobody works, nothing is logged, and the thread runs.
LEMMA InitEndInv ==
  ASSUME Init
  PROVE  EndInv
  <1> USE DEF Init
  <1>1. \A i \in Handler : h[i] = Idle
    OBVIOUS
  <1>2. ~HasEnded(Idle) /\ Idle.pc = "idle" /\ Idle.claim \notin Claim
    BY Labels, ClaimAssumption DEF HasEnded, Idle, First
  <1>3. Marked /\ ClosesPastEnd
    BY <1>1, IdleTyped DEF Marked, MarkedWork, ClosesPastEnd
  <1>4. HolderFinalizes /\ HoldersOwn /\ AddsFirst
    BY <1>1, <1>2 DEF HolderFinalizes, HoldersOwn, AddsFirst
  <1>5. SessionFirst
    BY <1>1, <1>2, Labels DEF SessionFirst, First
  <1> QED
    BY <1>3, <1>4, <1>5 DEF EndInv

LEMMA StepEndInv ==
  ASSUME TypeOK, IndInv, EndInv, [Next]_vars
  PROVE  EndInv'
  <1>1. CASE UNCHANGED vars
    BY <1>1
       DEF vars, history, used, EndInv, Marked, MarkedWork, ClosesPastEnd, HolderFinalizes,
           HoldersOwn, AddsFirst, Undisturbed, Owns, SessionFirst, HasEnded
  <1>2. Prepared
    BY DEF IndInv
  <1> QED
    BY <1>1, <1>2, BeginsEnd, QuietSteps, ClaimEnd, TimeoutEnd, RecordEnd, AdvanceEnd,
       SettleEnd, WriteEnd, SuppressEnd, DispatchEnd, ExpireEnd DEF Next, Step

\* Who moves a request that is over has not got its claim.
LEMMA StaysOver ==
  ASSUME TypeOK, IndInv, EndInv, [Next]_vars, req.status \in Terminal, ~lost',
         "timeout" \notin happened
  PROVE  req'.status \in Terminal
  <1>0. req.status \notin Active
    BY Labels
  <1>1. ASSUME NEW i \in Handler,
               \/ TerminalEvent(i) \/ ReceiveProgress(i) \/ ReapStale(i) \/ Reap(i)
               \/ BeginStop(i)
        PROVE  UNCHANGED req
    BY <1>1 DEF TerminalEvent, ReceiveProgress, ReapStale, Reap, BeginStop
  <1>2. ASSUME NEW i \in Handler,
               \/ MarkRead(i) \/ MarkWrite(i) \/ RecordTimeout(i) \/ CheckClaim(i)
               \/ ReadSession(i) \/ RecordCompletion(i) \/ EndSession(i)
               \/ CompleteSession(i) \/ ReadRow(i) \/ NoteProgress(i) \/ StopSession(i)
               \/ Crash(i)
        PROVE  UNCHANGED req
    BY <1>2 DEF MarkRead, MarkWrite, RecordTimeout, CheckClaim, ReadSession,
                RecordCompletion, EndSession, CompleteSession, ReadRow, NoteProgress,
                StopSession, Crash
  <1>3. ASSUME NEW i \in Handler, ClaimTerminal(i) PROVE UNCHANGED req
    BY <1>0, <1>3 DEF ClaimTerminal
  <1>4. ASSUME NEW i \in Handler, Advance(i) PROVE UNCHANGED req
    <2>1. ~lost /\ h[i].claim \in Claim
      BY <1>4 DEF Advance, At, IndInv, ClaimHeldOnce, HasClaim, Works
    <2>2. ~Owns(i)
      BY <1>0, <2>1, Labels DEF EndInv, HolderFinalizes
    <2> QED
      BY <1>4, <2>2 DEF Advance
  <1>5. ASSUME NEW i \in Handler, Settle(i) PROVE req'.status \in Terminal
    <2>1. h[i].to \in Terminal
      BY <1>5 DEF Settle, At, IndInv, Prepared, Ready
    <2> QED
      BY <1>5, <2>1 DEF Settle, TypeOK, Request
  <1>6. ASSUME NEW i \in Handler, WriteRow(i) PROVE req'.status \in Terminal
    BY <1>6, Rewritten DEF IndInv
  <1>7. ASSUME NEW i \in Handler, Suppress(i) PROVE req'.status \in Terminal
    BY <1>0, <1>7, Labels DEF Suppress, At, EndInv, Marked, MarkedWork
  <1>8. Dispatch => FALSE
    BY <1>0, Labels DEF Dispatch
  <1>9. ExpireClaim => req'.status = req.status
    BY DEF ExpireClaim, TypeOK, Request
  <1>10. UNCHANGED vars => UNCHANGED req
    BY DEF vars
  <1> QED
    BY <1>1, <1>2, <1>3, <1>4, <1>5, <1>6, <1>7, <1>8, <1>9, <1>10 DEF Next, Step

-----------------------------------------------------------------------------
(* The invariant and what follows from it.                                 *)

\* The inductive invariant of the end of a run holds in every reachable state.
THEOREM Invariance == Spec => [](TypeOK /\ IndInv)
  <1>1. Init => TypeOK /\ IndInv
    BY InitIndInv
  <1>2. TypeOK /\ IndInv /\ [Next]_vars => (TypeOK /\ IndInv)'
    <2> SUFFICES ASSUME TypeOK, IndInv, [Next]_vars PROVE (TypeOK /\ IndInv)'
      OBVIOUS
    <2>1. TypeOK' /\ Prepared'
      BY StepTypeOK, StepPrepared DEF IndInv
    <2>2. LoggedBefore' /\ LoggedFirst'
      BY StepLogged DEF IndInv
    <2>3. ClaimHeldOnce' /\ CursorAhead'
      BY StepClaimHeldOnce, StepCursorAhead DEF IndInv
    <2> QED
      BY <2>1, <2>2, <2>3 DEF IndInv
  <1> QED
    BY <1>1, <1>2, PTL DEF Spec

\* The rows, the log and the handlers keep their shapes, the events they name are those
\* a run can end with (registry.py, daemon_store.py).
THEOREM TypeCorrect == Spec => []TypeOK
  BY Invariance, PTL

\* But for a lost update, the end of a run moves its request once, whatever claims
\* run out and whatever handlers come late (claim_terminal_run_request,
\* update_run_request_if_terminal_claim).
THEOREM AppliesOnce == Spec => []AppliedOnce
  <1>1. IndInv => AppliedOnce
    BY DEF IndInv, CursorAhead, AppliedOnce
  <1> QED
    BY <1>1, Invariance, PTL

\* The request moves past a run only when the run's end is in the session's log
\* (_advance_run_request appends agent.completed before it advances).
THEOREM LogsFirst == Spec => []LoggedFirst
  <1>1. IndInv => LoggedFirst
    BY DEF IndInv
  <1> QED
    BY <1>1, Invariance, PTL

\* The second part of the invariant holds in every reachable state.
THEOREM EndInvariance == Spec => [](TypeOK /\ IndInv /\ EndInv)
  <1>1. Init => EndInv
    BY InitEndInv
  <1>2. TypeOK /\ IndInv /\ EndInv /\ [Next]_vars => EndInv'
    BY StepEndInv
  <1> QED
    BY <1>1, <1>2, Invariance, PTL DEF Spec

\* But for a claim that runs out under its holder, a timeout and a lost update, the
\* session's log has the end of a run once, however often it is posted and whichever
\* handlers die (_advance_run_request looks for existing_completion).
THEOREM LogsOnce == Spec => []LoggedOnce
  <1>1. EndInv => LoggedOnce
    BY DEF EndInv, AddsFirst, Undisturbed, LoggedOnce
  <1> QED
    BY <1>1, EndInvariance, PTL

\* But for a stop, a request is over only after its thread is, whoever ends it: the
\* last run, a failed one, the reaper or a late writer (_fail_run_request,
\* _complete_run_request and _advance_run_request write the session first).
THEOREM EndsThread == Spec => []ThreadEnds
  <1>1. EndInv => ThreadEnds
    BY DEF EndInv, SessionFirst, ThreadEnds
  <1> QED
    BY <1>1, EndInvariance, PTL

\* But for a lost update and a timeout, a request that is over stays over
\* (update_run_request_if_status, update_run_request_if_terminal_claim).
THEOREM OverIsFinal == Spec => TerminalIsFinal
  <1>1. TypeOK /\ IndInv /\ EndInv /\ [Next]_vars
          => [req.status \in Terminal /\ ~lost' /\ "timeout" \notin happened
                => req'.status \in Terminal]_vars
    BY StaysOver
  <1> QED
    BY <1>1, EndInvariance, PTL DEF Spec, TerminalIsFinal

================================================================================
