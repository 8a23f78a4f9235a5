------------------------- MODULE CommandLeaseProofs -------------------------
(* Proofs about CommandLease, for any handlers and number of hazards.      *)
EXTENDS CommandLease, TLAPS

\* A handler that has nothing to do is well formed.
LEMMA IdleTyped ==
  /\ Idle \in Work /\ Idle.pc = "idle" /\ Idle.job = "none" /\ Idle.lease = 0
  /\ Idle.row.lease = 0
  BY DEF Idle, Work, Row, Events, Terminal

\* The state of a daemon without the run is well formed.
LEMMA NotActiveTyped ==
  /\ NotActive \in Entry /\ NotActive.phase = "idle" /\ NotActive.lease = 0
  /\ NotActive.sent = 0 /\ NotActive.ran = "none"
  BY DEF NotActive, Entry, Events, Terminal

\* Nothing was given, sent or ended yet.
LEMMA InitIndInv ==
  ASSUME Init
  PROVE  TypeOK /\ IndInv
  <1> USE IdleTyped, NotActiveTyped DEF Init
  <1>1. TypeOK
    <2>1. start \in Row /\ answer \in [start : Nat, cancel : BOOLEAN, here : BOOLEAN]
      BY DEF Row, Nothing, Terminal
    <2>2. left \in 0 .. MaxHazards /\ happened \subseteq Possible
      BY HazardsAssumption
    <2>3. start.lease <= given /\ d.lease <= given /\ given \in Nat
      OBVIOUS
    <2>4. h \in [Handler -> Work] /\ d \in Entry
      BY Zenon
    <2>5. /\ cancel \in [status : {"none", "queued", "dispatched", "completed"},
                         live : BOOLEAN]
          /\ request \in BOOLEAN /\ begun \in BOOLEAN /\ ended \in BOOLEAN
      OBVIOUS
    <2> QED
      BY <2>1, <2>2, <2>3, <2>4, <2>5 DEF TypeOK
  <1>2. Prepared /\ LeasesGiven
    BY DEF Prepared, LeasesGiven, Posting, Nothing
  <1>3. EndStays /\ CancelOutlivesRun
    BY DEF EndStays, CancelOutlivesRun
  <1>4. LeaseUnderWay /\ LeaseHeld /\ OutcomeKept
    BY DEF LeaseUnderWay, LeaseHeld, OutcomeKept, Nothing
  <1> QED
    BY <1>1, <1>2, <1>3, <1>4 DEF IndInv

\* A hazard that happens stays happened.
LEMMA SpendType ==
  ASSUME TypeOK, NEW k, Spend(k)
  PROVE  /\ happened' = happened \cup {k} /\ happened' \subseteq Possible
         /\ left' \in 0 .. MaxHazards
  BY HazardsAssumption DEF TypeOK, Spend

\* What happened once is not undone.
LEMMA HappenedGrows ==
  ASSUME [Next]_vars
  PROVE  happened \subseteq happened'
  BY DEF Next, Step, vars, history, used, Spend, TakeCommands, ReceiveAnswer,
     LoseAnswer, Finish, FinishAborted, ReapEnded, Renew, ExpireStart, ExpireCancel,
     Restart, Post, MarkRead, RenewRead, Stop, Timeout, CheckEvent, Mark, MarkWrite,
     CompleteCancels, Close, RenewWrite, EnqueueCancel, Die

\* A handler begins some work, and the others keep theirs.
LEMMA Moves ==
  ASSUME TypeOK, NEW i \in Handler, NEW w \in Work, Begin(i, w)
  PROVE  /\ h' \in [Handler -> Work] /\ h'[i] = w
         /\ \A j \in Handler : j # i => h'[j] = h[j]
  BY DEF TypeOK, Begin

\* A handler ends its work.
LEMMA Returns ==
  ASSUME TypeOK, NEW i \in Handler, Return(i)
  PROVE  /\ h' \in [Handler -> Work] /\ h'[i] = Idle
         /\ \A j \in Handler : j # i => h'[j] = h[j]
  BY Moves, IdleTyped DEF Return

\* A handler goes on to the next step of its work.
LEMMA Goes ==
  ASSUME TypeOK, NEW i \in Handler,
         NEW pc \in {"mark", "cancels", "close"}, Goto(i, pc)
  PROVE  /\ h' \in [Handler -> Work] /\ h'[i].pc = pc /\ h'[i].job = h[i].job
         /\ h'[i].event = h[i].event /\ h'[i].lease = h[i].lease
         /\ h'[i].row = h[i].row
         /\ \A j \in Handler : j # i => h'[j] = h[j]
  <1>1. h[i] \in Work
    BY DEF TypeOK
  <1>2. [h[i] EXCEPT !.pc = pc] \in Work
    BY <1>1 DEF Work
  <1> QED
    BY <1>1, <1>2, Moves DEF Goto, Work

\* A poll takes the command under a new lease, or cancels it, or leaves it.
LEMMA Takes ==
  ASSUME TypeOK, TakeCommands
  PROVE  /\ start' \in Row /\ given' \in Nat /\ given' >= given
         /\ start'.lease <= given'
         /\ answer'.here /\ answer' \in [start : Nat, cancel : BOOLEAN, here : BOOLEAN]
         /\ \/ /\ Available(start) /\ request /\ given' = given + 1
               /\ start' = [status |-> "dispatched", lease |-> given + 1, live |-> TRUE]
               /\ answer'.start = given + 1
            \/ /\ Available(start) /\ given' = given /\ answer'.start = 0
               /\ start'.status = "cancelled" /\ start'.lease = start.lease
            \/ /\ ~Available(start) /\ given' = given /\ answer'.start = 0
               /\ start' = start
  <1> USE DEF TakeCommands, Taken, TypeOK
  <1>0. /\ start.lease \in Nat /\ start.status \in Terminal \cup {"queued", "dispatched"}
        /\ start.live \in BOOLEAN /\ start.lease < given + 1
    BY DEF Row
  <1>1. CASE Available(start) /\ request
    <2>1. start' = [status |-> "dispatched", lease |-> given + 1, live |-> TRUE]
      BY <1>1
    <2> QED
      BY <1>0, <1>1, <2>1 DEF Row, Available
  <1>2. CASE Available(start) /\ ~request
    <2>1. start' = [start EXCEPT !.status = "cancelled"]
      BY <1>2
    <2> QED
      BY <1>0, <1>2, <2>1 DEF Row, Available, Terminal
  <1>3. CASE ~Available(start)
    BY <1>0, <1>3 DEF Row, Available
  <1> QED
    BY <1>1, <1>2, <1>3

\* What the daemon makes of the run.start of an answer.
LEMMA Starts ==
  ASSUME NEW e \in Entry, NEW l \in Nat
  PROVE  /\ WithStart(e, l) \in Entry
         /\ WithStart(e, l).sent = e.sent /\ WithStart(e, l).event = e.event
         /\ WithStart(e, l).ran = e.ran /\ WithStart(e, l).aborted = e.aborted
         /\ l = 0 => WithStart(e, l) = e
         /\ l > 0 => /\ WithStart(e, l).lease = l
                     /\ e.phase = "idle" => WithStart(e, l).phase = "running"
                     /\ e.phase # "idle" => WithStart(e, l).phase = e.phase
  <1> USE DEF WithStart
  <1>1. CASE l = 0
    BY <1>1
  <1>2. CASE l > 0 /\ e.phase # "idle"
    <2>1. WithStart(e, l) = [e EXCEPT !.lease = l]
      BY <1>2
    <2> QED
      BY <1>2, <2>1 DEF Entry
  <1>3. CASE l > 0 /\ e.phase = "idle"
    <2>1. WithStart(e, l) = [e EXCEPT !.phase = "running", !.lease = l]
      BY <1>3
    <2> QED
      BY <1>3, <2>1 DEF Entry
  <1> QED
    BY <1>1, <1>2, <1>3

\* What the daemon makes of the run.cancel of an answer.
LEMMA Cancels ==
  ASSUME NEW e \in Entry
  PROVE  /\ WithCancel(e) \in Entry
         /\ \/ WithCancel(e) = NotActive
            \/ /\ WithCancel(e).lease = e.lease /\ WithCancel(e).ran = e.ran
               /\ \/ WithCancel(e).phase = e.phase /\ WithCancel(e).sent = e.sent
                     /\ WithCancel(e).event = e.event
                  \/ WithCancel(e).phase = "reposting" /\ e.phase = "posting"
                     /\ WithCancel(e).event = "cancelled"
                     /\ WithCancel(e).sent = e.lease
  <1> USE DEF WithCancel
  <1>1. CASE e.phase = "running"
    BY <1>1 DEF Entry
  <1>2. CASE e.phase = "posting" /\ ~e.aborted
    BY <1>2 DEF Entry, Events, Terminal
  <1>3. CASE e.phase = "reposting" /\ ~e.aborted
    BY <1>3, NotActiveTyped
  <1>4. CASE e.phase \notin {"running", "posting", "reposting"} \/ (e.phase # "running" /\ e.aborted)
    BY <1>4
  <1> QED
    BY <1>1, <1>2, <1>3, <1>4 DEF Entry

\* What the daemon makes of a refused event.
LEMMA Refuses ==
  ASSUME TypeOK
  PROVE  /\ Refused \in Entry
         /\ \/ Refused = NotActive
            \/ /\ d.phase = "posting" /\ Refused.phase = "reposting"
               /\ Refused.lease = d.lease /\ Refused.sent = d.lease
               /\ Refused.event = "failed" /\ Refused.ran = d.ran
  BY NotActiveTyped DEF TypeOK, Refused, Entry, Events, Terminal
-----------------------------------------------------------------------------
(* Each part of the invariant is kept by every action.                     *)

\* Every action keeps the shapes.
LEMMA StepTypeOK ==
  ASSUME TypeOK, Prepared, LeasesGiven, [Next]_vars
  PROVE  TypeOK'
  <1> USE DEF TypeOK
  <1>1. CASE TakeCommands
    <2>1. /\ cancel' \in [status : {"none", "queued", "dispatched", "completed"},
                          live : BOOLEAN]
          /\ ended' \in BOOLEAN /\ UNCHANGED <<request, d, h, begun, used>>
      BY <1>1 DEF TakeCommands
    <2>2. d.lease \in Nat
      BY DEF Entry
    <2> QED
      BY <2>1, <2>2, <1>1, Takes DEF used
  <1>2. CASE ReceiveAnswer
    <2>1. /\ answer.start \in Nat /\ WithStart(d, answer.start) \in Entry
          /\ WithStart(d, answer.start).lease <= given
      BY Starts DEF LeasesGiven
    <2>2. d' \in Entry /\ d'.lease <= given
      BY <1>2, <2>1, Cancels, NotActiveTyped DEF ReceiveAnswer
    <2> QED
      BY <1>2, <2>2 DEF ReceiveAnswer, Nothing, used
  <1>3. CASE LoseAnswer
    BY <1>3, SpendType DEF LoseAnswer, Nothing, history
  <1>4. CASE Finish
    <2>1. d' \in Entry /\ d'.lease = d.lease
      BY <1>4 DEF Finish, Entry, Events, Terminal
    <2> QED
      BY <1>4, <2>1 DEF Finish, history, used
  <1>5. CASE FinishAborted
    <2>1. d' \in Entry /\ d'.lease = d.lease
      BY <1>5 DEF FinishAborted, Entry, Events, Terminal
    <2> QED
      BY <1>5, <2>1 DEF FinishAborted, history, used
  <1>6. CASE ReapEnded
    BY <1>6 DEF ReapEnded, history, used
  <1>7. CASE Renew
    <2>1. start' \in Row /\ start'.lease = start.lease
      BY <1>7 DEF Renew, Row, Terminal
    <2> QED
      BY <1>7, <2>1, SpendType DEF Renew, history, used
  <1>8. CASE ExpireStart
    <2>1. start' \in Row /\ start'.lease = start.lease
      BY <1>8 DEF ExpireStart, Row, Terminal
    <2> QED
      BY <1>8, <2>1, SpendType DEF ExpireStart, history, used
  <1>9. CASE ExpireCancel
    BY <1>9 DEF ExpireCancel, history, used
  <1>10. CASE Restart
    BY <1>10, SpendType, NotActiveTyped DEF Restart, Nothing, history
  <1>11. ASSUME NEW i \in Handler, Post(i) PROVE TypeOK'
    <2>1. [Idle EXCEPT !.pc = "check", !.job = "event", !.event = d.event,
                         !.lease = d.sent, !.phase = d.phase] \in Work
      BY <1>11, IdleTyped DEF Post, Posting, Work, Entry
    <2>2. h' \in [Handler -> Work]
      BY <1>11, <2>1, Moves DEF Post
    <2> QED
      BY <1>11, <2>2, SpendType DEF Post, history, used
  <1>12. ASSUME NEW i \in Handler, MarkRead(i) PROVE TypeOK'
    <2>1. [h[i] EXCEPT !.pc = "markWrite", !.row = start] \in Work
      BY <1>12, IdleTyped DEF MarkRead, Work
    <2>2. h' \in [Handler -> Work]
      BY <1>12, <2>1, Moves DEF MarkRead
    <2> QED
      BY <1>12, <2>2, SpendType DEF MarkRead, history, used
  <1>13. ASSUME NEW i \in Handler, RenewRead(i) PROVE TypeOK'
    <2>1. [Idle EXCEPT !.pc = "renewWrite", !.job = "renew", !.row = start] \in Work
      BY <1>13, IdleTyped DEF RenewRead, Work
    <2>2. h' \in [Handler -> Work]
      BY <1>13, <2>1, Moves DEF RenewRead
    <2> QED
      BY <1>13, <2>2, SpendType DEF RenewRead, history, used
  <1>14. ASSUME NEW i \in Handler, Stop(i) PROVE TypeOK'
    <2>1. [Idle EXCEPT !.pc = "enqueue", !.job = "stop"] \in Work
      BY <1>14, IdleTyped DEF Stop, Work
    <2>2. h' \in [Handler -> Work]
      BY <1>14, <2>1, Moves DEF Stop
    <2> QED
      BY <1>14, <2>2, SpendType DEF Stop, history, used
  <1>15. ASSUME NEW i \in Handler, Timeout(i) PROVE TypeOK'
    <2>1. [Idle EXCEPT !.pc = "enqueue", !.job = "timeout", !.event = "failed"] \in Work
      BY <1>15, IdleTyped DEF Timeout, Work, Row, Events, Terminal
    <2>2. h' \in [Handler -> Work]
      BY <1>15, <2>1, Moves DEF Timeout
    <2> QED
      BY <1>15, <2>2, SpendType DEF Timeout, history, used
  <1>16. ASSUME NEW i \in Handler, CheckEvent(i) PROVE TypeOK'
    <2>1. h' \in [Handler -> Work]
      BY <1>16, Goes, Returns DEF CheckEvent
    <2> QED
      BY <1>16, <2>1, NotActiveTyped, Refuses DEF CheckEvent, history, used
  <1>17. ASSUME NEW i \in Handler, Mark(i) PROVE TypeOK'
    <2>1. h' \in [Handler -> Work]
      BY <1>17, Goes, Returns DEF Mark
    <2>2. start' \in Row /\ start'.lease <= given
      BY <1>17 DEF Mark, Row, Prepared, LeasesGiven, At, Work
    <2>3. d' = d \/ d' = NotActive
      BY <1>17 DEF Mark
    <2>4. ended' \in BOOLEAN
      BY <1>17 DEF Mark
    <2> QED
      BY <1>17, <2>1, <2>2, <2>3, <2>4, NotActiveTyped DEF Mark, history, used
  <1>18. ASSUME NEW i \in Handler, MarkWrite(i) PROVE TypeOK'
    <2>1. h' \in [Handler -> Work]
      BY <1>18, Goes, Returns DEF MarkWrite
    <2>2. start' \in Row /\ start'.lease <= given
      BY <1>18 DEF MarkWrite, Row, Prepared, LeasesGiven, At, Work
    <2> QED
      BY <1>18, <2>1, <2>2 DEF MarkWrite, history, used
  <1>19. ASSUME NEW i \in Handler, CompleteCancels(i) PROVE TypeOK'
    <2>1. h' \in [Handler -> Work]
      BY <1>19, Goes, Returns DEF CompleteCancels
    <2> QED
      BY <1>19, <2>1, NotActiveTyped DEF CompleteCancels, history, used
  <1>20. ASSUME NEW i \in Handler, Close(i) PROVE TypeOK'
    <2>1. h' \in [Handler -> Work]
      BY <1>20, Goes, Returns DEF Close
    <2>2. d' \in Entry /\ d'.lease <= given
      BY <1>20, NotActiveTyped DEF Close
    <2>3. UNCHANGED <<given, start, cancel, answer, history, used>> /\ request' = FALSE
      BY <1>20 DEF Close
    <2> QED
      BY <2>1, <2>2, <2>3 DEF history, used
  <1>21. ASSUME NEW i \in Handler, RenewWrite(i) PROVE TypeOK'
    <2>1. h' \in [Handler -> Work] /\ h[i] \in Work /\ h[i].row.lease <= given
      BY <1>21, Returns DEF RenewWrite, LeasesGiven
    <2>2. start' \in Row /\ start'.lease <= given
      BY <1>21, <2>1 DEF RenewWrite, Row, Work
    <2> QED
      BY <1>21, <2>1, <2>2 DEF RenewWrite, history, used
  <1>22. ASSUME NEW i \in Handler, EnqueueCancel(i) PROVE TypeOK'
    <2>1. h' \in [Handler -> Work]
      BY <1>22, Goes, Returns DEF EnqueueCancel
    <2> QED
      BY <1>22, <2>1, NotActiveTyped DEF EnqueueCancel, history, used
  <1>23. ASSUME NEW i \in Handler, Die(i) PROVE TypeOK'
    <2>1. h' \in [Handler -> Work]
      BY <1>23, Returns DEF Die
    <2> QED
      BY <1>23, <2>1, SpendType DEF Die, history
  <1>24. CASE UNCHANGED vars
    BY <1>24 DEF vars, history, used
  <1> QED
    BY <1>1, <1>2, <1>3, <1>4, <1>5, <1>6, <1>7, <1>8, <1>9, <1>10, <1>11, <1>12,
       <1>13, <1>14, <1>15, <1>16, <1>17, <1>18, <1>19, <1>20, <1>21, <1>22, <1>23,
       <1>24 DEF Next, Step

\* What an answer makes of the run: one that had begun, or begins, and is aborted
\* or not, or none.
LEMMA Receives ==
  ASSUME TypeOK, ReceiveAnswer
  PROVE  \/ d' = NotActive
         \/ /\ d'.ran = d.ran
            /\ d'.lease = IF answer.start > 0 THEN answer.start ELSE d.lease
            /\ answer.start = 0 /\ d.phase = "idle" => d'.phase = "idle"
            /\ \/ /\ d'.sent = d.sent /\ d'.event = d.event
                  /\ \/ d'.phase = d.phase
                     \/ /\ d.phase = "idle" /\ answer.start > 0
                        /\ d'.phase = "running"
               \/ /\ d.phase = "posting" /\ d'.phase = "reposting"
                  /\ d'.event = "cancelled" /\ d'.sent = d'.lease
  <1> DEFINE e == WithStart(d, answer.start)
  <1>1. answer.start \in Nat /\ d \in Entry
    BY DEF TypeOK
  <1>2. /\ e \in Entry /\ e.sent = d.sent /\ e.event = d.event /\ e.ran = d.ran
        /\ answer.start = 0 => e = d
        /\ answer.start > 0 => /\ e.lease = answer.start
                               /\ d.phase = "idle" => e.phase = "running"
                               /\ d.phase # "idle" => e.phase = d.phase
    BY <1>1, Starts
  <1>3. d' = e \/ d' = WithCancel(e)
    BY DEF ReceiveAnswer
  <1>4. \/ WithCancel(e) = NotActive
        \/ /\ WithCancel(e).lease = e.lease /\ WithCancel(e).ran = e.ran
           /\ \/ WithCancel(e).phase = e.phase /\ WithCancel(e).sent = e.sent
                 /\ WithCancel(e).event = e.event
              \/ WithCancel(e).phase = "reposting" /\ e.phase = "posting"
                 /\ WithCancel(e).event = "cancelled"
                 /\ WithCancel(e).sent = e.lease
    BY <1>2, Cancels
  <1> HIDE DEF e
  <1> QED
    BY <1>1, <1>2, <1>3, <1>4

\* The end of an agent, posted under the lease that the daemon has.
LEMMA Ends ==
  ASSUME TypeOK, Finish \/ FinishAborted
  PROVE  /\ d.phase = "running" /\ d'.phase = "posting"
         /\ d'.lease = d.lease /\ d'.sent = d.lease
         /\ \/ d'.event \in {"completed", "failed"} /\ d'.ran = d'.event
            \/ d'.event = "cancelled" /\ d'.ran = d.ran
  BY DEF TypeOK, Entry, Finish, FinishAborted

\* The five ways to begin some work, and what the handler then holds.
LEMMA Begins ==
  ASSUME TypeOK, NEW i \in Handler
  PROVE  /\ Post(i) =>
              /\ h'[i].pc = "check" /\ h'[i].job = "event" /\ h'[i].event = d.event
              /\ h'[i].lease = d.sent /\ h'[i].row.lease = 0
         /\ MarkRead(i) =>
              /\ h'[i].pc = "markWrite" /\ h'[i].job = h[i].job
              /\ h'[i].event = h[i].event /\ h'[i].lease = h[i].lease
              /\ h'[i].row = start
         /\ RenewRead(i) =>
              /\ h'[i].pc = "renewWrite" /\ h'[i].job = "renew" /\ h'[i].lease = 0
              /\ h'[i].row = start
         /\ Stop(i) =>
              /\ h'[i].pc = "enqueue" /\ h'[i].job = "stop" /\ h'[i].lease = 0
              /\ h'[i].row.lease = 0
         /\ Timeout(i) =>
              /\ h'[i].pc = "enqueue" /\ h'[i].job = "timeout" /\ h'[i].event = "failed"
              /\ h'[i].lease = 0 /\ h'[i].row.lease = 0
         /\ Post(i) \/ MarkRead(i) \/ RenewRead(i) \/ Stop(i) \/ Timeout(i) =>
              \A j \in Handler : j # i => h'[j] = h[j]
  <1>1. h[i] \in Work /\ Idle \in Work
    BY IdleTyped DEF TypeOK
  <1>2. i \in DOMAIN h
    BY DEF TypeOK
  <1>3. Idle.row.lease = 0 /\ Idle.lease = 0
    BY IdleTyped
  <1> USE DEF Begin, Work, TypeOK
  <1>4. ASSUME Post(i)
        PROVE  h'[i] = [Idle EXCEPT !.pc = "check", !.job = "event", !.event = d.event,
                                    !.lease = d.sent, !.phase = d.phase]
    BY <1>4 DEF Post
  <1>5. ASSUME MarkRead(i) PROVE h'[i] = [h[i] EXCEPT !.pc = "markWrite", !.row = start]
    BY <1>5 DEF MarkRead
  <1>6. ASSUME RenewRead(i)
        PROVE  h'[i] = [Idle EXCEPT !.pc = "renewWrite", !.job = "renew", !.row = start]
    BY <1>6 DEF RenewRead
  <1>7. ASSUME Stop(i) PROVE h'[i] = [Idle EXCEPT !.pc = "enqueue", !.job = "stop"]
    BY <1>7 DEF Stop
  <1>8. ASSUME Timeout(i)
        PROVE  h'[i] = [Idle EXCEPT !.pc = "enqueue", !.job = "timeout", !.event = "failed"]
    BY <1>8 DEF Timeout
  <1>9. Post(i) \/ MarkRead(i) \/ RenewRead(i) \/ Stop(i) \/ Timeout(i) =>
          \A j \in Handler : j # i => h'[j] = h[j]
    BY DEF Post, MarkRead, RenewRead, Stop, Timeout
  <1>10. Post(i) =>
              /\ h'[i].pc = "check" /\ h'[i].job = "event" /\ h'[i].event = d.event
              /\ h'[i].lease = d.sent /\ h'[i].row.lease = 0
    BY <1>1, <1>3, <1>4
  <1>11. MarkRead(i) =>
              /\ h'[i].pc = "markWrite" /\ h'[i].job = h[i].job
              /\ h'[i].event = h[i].event /\ h'[i].lease = h[i].lease
              /\ h'[i].row = start
    BY <1>1, <1>5
  <1>12. RenewRead(i) =>
              /\ h'[i].pc = "renewWrite" /\ h'[i].job = "renew" /\ h'[i].lease = 0
              /\ h'[i].row = start
    BY <1>1, <1>3, <1>6
  <1>13. Stop(i) =>
              /\ h'[i].pc = "enqueue" /\ h'[i].job = "stop" /\ h'[i].lease = 0
              /\ h'[i].row.lease = 0
    BY <1>1, <1>3, <1>7
  <1>14. Timeout(i) =>
              /\ h'[i].pc = "enqueue" /\ h'[i].job = "timeout" /\ h'[i].event = "failed"
              /\ h'[i].lease = 0 /\ h'[i].row.lease = 0
    BY <1>1, <1>3, <1>8
  <1> QED
    BY <1>9, <1>10, <1>11, <1>12, <1>13, <1>14

\* Who reports an end has one, and a lease.
LEMMA StepPrepared ==
  ASSUME TypeOK, IndInv, [Next]_vars
  PROVE  Prepared'
  <1> USE DEF IndInv, Prepared
  <1>1. CASE TakeCommands
    BY <1>1, HappenedGrows DEF TakeCommands, Posting, used
  <1>2. CASE ReceiveAnswer
    BY <1>2, Receives, NotActiveTyped
       DEF ReceiveAnswer, Posting, used, TypeOK, Terminal
  <1>3. CASE LoseAnswer
    BY <1>3, HappenedGrows DEF LoseAnswer, Posting, used, history
  <1>4. CASE Finish
    BY <1>4, Ends DEF Finish, Posting, used, history, Terminal
  <1>5. CASE FinishAborted
    BY <1>5, Ends DEF FinishAborted, Posting, used, history, Terminal
  <1>6. CASE ReapEnded
    BY <1>6, HappenedGrows DEF ReapEnded, Posting, used, history
  <1>7. CASE Renew
    BY <1>7, HappenedGrows DEF Renew, Posting, used, history
  <1>8. CASE ExpireStart
    BY <1>8, HappenedGrows DEF ExpireStart, Posting, used, history
  <1>9. CASE ExpireCancel
    BY <1>9, HappenedGrows DEF ExpireCancel, Posting, used, history
  <1>10. CASE Restart
    BY <1>10, NotActiveTyped, HappenedGrows DEF Restart, Posting
  <1>11. ASSUME NEW i \in Handler, Post(i) PROVE Prepared'
    BY <1>11, Begins, HappenedGrows, NotActiveTyped DEF Post, At, Posting, used,
       history, Spend
  <1>12. ASSUME NEW i \in Handler, MarkRead(i) PROVE Prepared'
    <2>1. /\ UNCHANGED d
          /\ h'[i].pc \in {"check", "mark", "markWrite"} =>
               h'[i].event \in Terminal /\ h'[i].job \in {"event", "timeout"}
          /\ h'[i].job = "event" => h'[i].lease > 0
          /\ h'[i].job = "timeout" => h'[i].event = "failed" /\ "timeout" \in happened'
      BY <1>12, Begins, HappenedGrows DEF MarkRead, At, history
    <2>2. \A j \in Handler : j # i => h'[j] = h[j]
      BY <1>12, Begins DEF MarkRead
    <2> QED
      BY <2>1, <2>2, HappenedGrows DEF Posting
  <1>13. ASSUME NEW i \in Handler, RenewRead(i) PROVE Prepared'
    BY <1>13, Begins, HappenedGrows, NotActiveTyped DEF RenewRead, At, Posting,
       used, history, Spend
  <1>14. ASSUME NEW i \in Handler, Stop(i) PROVE Prepared'
    <2>1. /\ UNCHANGED d
          /\ h'[i].pc \in {"check", "mark", "markWrite"} =>
               h'[i].event \in Terminal /\ h'[i].job \in {"event", "timeout"}
          /\ h'[i].job = "event" => h'[i].lease > 0
          /\ h'[i].job = "timeout" => h'[i].event = "failed" /\ "timeout" \in happened'
      BY <1>14, Begins, HappenedGrows DEF Stop, At, history
    <2>2. \A j \in Handler : j # i => h'[j] = h[j]
      BY <1>14, Begins DEF Stop
    <2> QED
      BY <2>1, <2>2, HappenedGrows DEF Posting
  <1>15. ASSUME NEW i \in Handler, Timeout(i) PROVE Prepared'
    BY <1>15, Begins, HappenedGrows, NotActiveTyped DEF Timeout, At, Posting, used,
       history, Spend
  <1>16. ASSUME NEW i \in Handler, CheckEvent(i) PROVE Prepared'
    <2>1. \/ UNCHANGED d \/ d' = NotActive
          \/ /\ d.phase = "posting" /\ d'.phase = "reposting" /\ d'.lease = d.lease
             /\ d'.sent = d.lease /\ d'.event = "failed"
      BY <1>16, Refuses DEF CheckEvent
    <2>2. /\ \/ /\ h'[i].pc \in {"mark", "cancels"} /\ h'[i].job = h[i].job
                /\ h'[i].event = h[i].event /\ h'[i].lease = h[i].lease
             \/ h'[i] = Idle
          /\ h[i].pc = "check" /\ \A j \in Handler : j # i => h'[j] = h[j]
      BY <1>16, Goes, Returns DEF CheckEvent, At
    <2>3. /\ Posting' => d'.event \in Terminal /\ d'.sent > 0
          /\ d'.phase # "idle" => d'.lease > 0
      BY <2>1, NotActiveTyped DEF Posting, Terminal
    <2> QED
      BY <2>2, <2>3, IdleTyped, HappenedGrows
  <1>17. ASSUME NEW i \in Handler, Mark(i) PROVE Prepared'
    BY <1>17, Goes, Returns, IdleTyped, HappenedGrows, NotActiveTyped DEF Mark, At,
       Posting, used, history, Spend
  <1>18. ASSUME NEW i \in Handler, MarkWrite(i) PROVE Prepared'
    BY <1>18, Goes, HappenedGrows, NotActiveTyped DEF MarkWrite, At, Posting, used,
       history, Spend
  <1>19. ASSUME NEW i \in Handler, CompleteCancels(i) PROVE Prepared'
    BY <1>19, Goes, HappenedGrows, NotActiveTyped DEF CompleteCancels, At, Posting,
       used, history, Spend
  <1>20. ASSUME NEW i \in Handler, Close(i) PROVE Prepared'
    BY <1>20, Returns, IdleTyped, HappenedGrows, NotActiveTyped DEF Close, At,
       Posting, used, history, Spend
  <1>21. ASSUME NEW i \in Handler, RenewWrite(i) PROVE Prepared'
    BY <1>21, Returns, IdleTyped, HappenedGrows, NotActiveTyped DEF RenewWrite, At,
       Posting, used, history, Spend
  <1>22. ASSUME NEW i \in Handler, EnqueueCancel(i) PROVE Prepared'
    <2>1. /\ UNCHANGED <<d, happened>>
          /\ \/ /\ h'[i].pc = "mark" /\ h'[i].job = h[i].job /\ h[i].job = "timeout"
                /\ h'[i].event = h[i].event /\ h'[i].lease = h[i].lease
             \/ h'[i] = Idle
          /\ \A j \in Handler : j # i => h'[j] = h[j]
      BY <1>22, Goes, Returns DEF EnqueueCancel, used
    <2> QED
      BY <2>1, IdleTyped DEF Posting, Terminal
  <1>23. ASSUME NEW i \in Handler, Die(i) PROVE Prepared'
    BY <1>23, Returns, IdleTyped, HappenedGrows, NotActiveTyped DEF Die, At,
       Posting, used, history, Spend
  <1>24. CASE UNCHANGED vars
    BY <1>24 DEF vars, history, used, Posting
  <1> QED
    BY <1>1, <1>2, <1>3, <1>4, <1>5, <1>6, <1>7, <1>8, <1>9, <1>10, <1>11, <1>12,
       <1>13, <1>14, <1>15, <1>16, <1>17, <1>18, <1>19, <1>20, <1>21, <1>22, <1>23,
       <1>24 DEF Next, Step

\* A lease that is held was given.
LEMMA StepLeasesGiven ==
  ASSUME TypeOK, IndInv, [Next]_vars
  PROVE  LeasesGiven'
  <1> USE DEF IndInv, LeasesGiven
  <1>1. CASE TakeCommands
    BY <1>1, Takes DEF TakeCommands, used, TypeOK, Entry, Work, Row
  <1>2. CASE ReceiveAnswer
    <2>1. answer'.start <= given /\ d'.sent <= given
      BY <1>2, Receives, NotActiveTyped DEF ReceiveAnswer, Nothing, TypeOK
    <2> QED
      BY <1>2, <2>1 DEF ReceiveAnswer
  <1>3. CASE LoseAnswer
    BY <1>3 DEF LoseAnswer, Nothing, TypeOK, history
  <1>4. CASE Finish
    BY <1>4, Ends DEF Finish, TypeOK, history, used
  <1>5. CASE FinishAborted
    BY <1>5, Ends DEF FinishAborted, TypeOK, history, used
  <1>6. CASE ReapEnded
    BY <1>6 DEF ReapEnded, history, used
  <1>7. CASE Renew
    BY <1>7 DEF Renew, history, used
  <1>8. CASE ExpireStart
    BY <1>8 DEF ExpireStart, history, used
  <1>9. CASE ExpireCancel
    BY <1>9 DEF ExpireCancel, history, used
  <1>10. CASE Restart
    BY <1>10, NotActiveTyped DEF Restart, Nothing, TypeOK, history
  <1>11. ASSUME NEW i \in Handler, Post(i) PROVE LeasesGiven'
    BY <1>11, Begins, NotActiveTyped DEF Post, TypeOK, used, history, At
  <1>12. ASSUME NEW i \in Handler, MarkRead(i) PROVE LeasesGiven'
    BY <1>12, Begins, NotActiveTyped DEF MarkRead, TypeOK, used, history, At
  <1>13. ASSUME NEW i \in Handler, RenewRead(i) PROVE LeasesGiven'
    BY <1>13, Begins, NotActiveTyped DEF RenewRead, TypeOK, used, history, At
  <1>14. ASSUME NEW i \in Handler, Stop(i) PROVE LeasesGiven'
    <2>1. UNCHANGED <<given, answer, d>>
      BY <1>14 DEF Stop
    <2>2. h'[i].lease = 0 /\ h'[i].row.lease = 0 /\ \A j \in Handler : j # i => h'[j] = h[j]
      BY <1>14, Begins
    <2> QED
      BY <2>1, <2>2 DEF TypeOK
  <1>15. ASSUME NEW i \in Handler, Timeout(i) PROVE LeasesGiven'
    BY <1>15, Begins, NotActiveTyped DEF Timeout, TypeOK, used, history, At
  <1>16. ASSUME NEW i \in Handler, CheckEvent(i) PROVE LeasesGiven'
    BY <1>16, Goes, Returns, IdleTyped, Refuses, NotActiveTyped DEF CheckEvent,
       TypeOK, used, history
  <1>17. ASSUME NEW i \in Handler, Mark(i) PROVE LeasesGiven'
    BY <1>17, Goes, Returns, IdleTyped, NotActiveTyped DEF Mark, TypeOK, used,
       history, At
  <1>18. ASSUME NEW i \in Handler, MarkWrite(i) PROVE LeasesGiven'
    BY <1>18, Goes, NotActiveTyped DEF MarkWrite, TypeOK, used, history, At
  <1>19. ASSUME NEW i \in Handler, CompleteCancels(i) PROVE LeasesGiven'
    BY <1>19, Goes, NotActiveTyped DEF CompleteCancels, TypeOK, used, history, At
  <1>20. ASSUME NEW i \in Handler, Close(i) PROVE LeasesGiven'
    BY <1>20, Returns, IdleTyped, NotActiveTyped DEF Close, TypeOK, used, history,
       At
  <1>21. ASSUME NEW i \in Handler, RenewWrite(i) PROVE LeasesGiven'
    BY <1>21, Returns, IdleTyped, NotActiveTyped DEF RenewWrite, TypeOK, used,
       history, At
  <1>22. ASSUME NEW i \in Handler, EnqueueCancel(i) PROVE LeasesGiven'
    BY <1>22, Goes, Returns, IdleTyped, NotActiveTyped DEF EnqueueCancel, TypeOK,
       used, history, At
  <1>23. ASSUME NEW i \in Handler, Die(i) PROVE LeasesGiven'
    BY <1>23, Returns, IdleTyped, NotActiveTyped DEF Die, TypeOK, used, history, At
  <1>24. CASE UNCHANGED vars
    BY <1>24 DEF vars, history, used
  <1> QED
    BY <1>1, <1>2, <1>3, <1>4, <1>5, <1>6, <1>7, <1>8, <1>9, <1>10, <1>11, <1>12,
       <1>13, <1>14, <1>15, <1>16, <1>17, <1>18, <1>19, <1>20, <1>21, <1>22, <1>23,
       <1>24 DEF Next, Step

\* Without late writes, a command that ended stays so.
LEMMA StepEndStays ==
  ASSUME TypeOK, IndInv, [Next]_vars
  PROVE  EndStays'
  <1> USE DEF IndInv, EndStays
  <1>1. CASE TakeCommands
    <2>1. start'.status \in Terminal \/ (~Available(start) /\ start' = start)
          \/ (Available(start) /\ start'.status = "dispatched")
      BY <1>1, Takes DEF Terminal
    <2>2. start.status \in Terminal => ~Available(start)
      BY DEF Available, Terminal
    <2>3. ended' = (ended \/ start'.status \in Terminal) /\ UNCHANGED <<h, happened>>
      BY <1>1 DEF TakeCommands, used
    <2> QED
      BY <2>1, <2>2, <2>3
  <1>2. CASE ReceiveAnswer
    BY <1>2, HappenedGrows DEF ReceiveAnswer, Spend, history, used
  <1>3. CASE LoseAnswer
    BY <1>3, HappenedGrows DEF LoseAnswer, Spend, history, used
  <1>4. CASE Finish
    BY <1>4, HappenedGrows DEF Finish, Spend, history, used
  <1>5. CASE FinishAborted
    BY <1>5, HappenedGrows DEF FinishAborted, Spend, history, used
  <1>6. CASE ReapEnded
    BY <1>6, HappenedGrows DEF ReapEnded, Spend, history, used
  <1>7. CASE Renew
    BY <1>7 DEF Renew, Held, history, used, TypeOK, Row, Terminal
  <1>8. CASE ExpireStart
    BY <1>8, HappenedGrows DEF ExpireStart, history, used, TypeOK, Row, Terminal
  <1>9. CASE ExpireCancel
    BY <1>9, HappenedGrows DEF ExpireCancel, Spend, history, used
  <1>10. CASE Restart
    BY <1>10, HappenedGrows DEF Restart, Spend, history, used
  <1>11. ASSUME NEW i \in Handler, Post(i) PROVE EndStays'
    BY <1>11, Begins, HappenedGrows DEF Post, Spend, At, history, used, TypeOK
  <1>12. ASSUME NEW i \in Handler, MarkRead(i) PROVE EndStays'
    BY <1>12, Begins, HappenedGrows DEF MarkRead, Spend, At, history, used, TypeOK
  <1>13. ASSUME NEW i \in Handler, RenewRead(i) PROVE EndStays'
    BY <1>13, Begins, HappenedGrows DEF RenewRead, Spend, At, history, used, TypeOK
  <1>14. ASSUME NEW i \in Handler, Stop(i) PROVE EndStays'
    <2>1. h'[i].pc = "enqueue" /\ UNCHANGED <<start, ended>>
      BY <1>14, Begins DEF Stop, history
    <2>2. \A j \in Handler : j # i => h'[j] = h[j]
      BY <1>14, Begins
    <2> QED
      BY <2>1, <2>2, HappenedGrows
  <1>15. ASSUME NEW i \in Handler, Timeout(i) PROVE EndStays'
    BY <1>15, Begins, HappenedGrows DEF Timeout, Spend, At, history, used, TypeOK
  <1>16. ASSUME NEW i \in Handler, CheckEvent(i) PROVE EndStays'
    <2>1. h[i].pc = "check" /\ UNCHANGED <<start, ended, happened>>
      BY <1>16 DEF CheckEvent, At, history, used
    <2>2. \/ h'[i].pc = "mark" \/ h'[i].pc = "idle"
          \/ h'[i].pc = "cancels" /\ start.status = h[i].event
      BY <1>16, Goes, Returns, IdleTyped DEF CheckEvent
    <2>3. \A j \in Handler : j # i => h'[j] = h[j]
      BY <1>16, Goes, Returns DEF CheckEvent
    <2> QED
      BY <2>1, <2>2, <2>3 DEF Prepared
  <1>17. ASSUME NEW i \in Handler, Mark(i) PROVE EndStays'
    BY <1>17, Goes, Returns, IdleTyped DEF Mark, At, history, used, TypeOK, Row,
       Prepared
  <1>18. ASSUME NEW i \in Handler, MarkWrite(i) PROVE EndStays'
    BY <1>18 DEF MarkWrite, At, used
  <1>19. ASSUME NEW i \in Handler, CompleteCancels(i) PROVE EndStays'
    BY <1>19, Goes, HappenedGrows DEF CompleteCancels, Spend, At, history, used,
       TypeOK
  <1>20. ASSUME NEW i \in Handler, Close(i) PROVE EndStays'
    BY <1>20, Returns, IdleTyped, HappenedGrows DEF Close, Spend, At, history, used,
       TypeOK
  <1>21. ASSUME NEW i \in Handler, RenewWrite(i) PROVE EndStays'
    BY <1>21 DEF RenewWrite, At, used
  <1>22. ASSUME NEW i \in Handler, EnqueueCancel(i) PROVE EndStays'
    BY <1>22, Goes, Returns, IdleTyped, HappenedGrows DEF EnqueueCancel, Spend, At,
       history, used, TypeOK
  <1>23. ASSUME NEW i \in Handler, Die(i) PROVE EndStays'
    BY <1>23, Returns, IdleTyped, HappenedGrows DEF Die, Spend, At, history, used,
       TypeOK
  <1>24. CASE UNCHANGED vars
    BY <1>24 DEF vars, history, used
  <1> QED
    BY <1>1, <1>2, <1>3, <1>4, <1>5, <1>6, <1>7, <1>8, <1>9, <1>10, <1>11, <1>12,
       <1>13, <1>14, <1>15, <1>16, <1>17, <1>18, <1>19, <1>20, <1>21, <1>22, <1>23,
       <1>24 DEF Next, Step

\* A run.cancel is completed after its run.
LEMMA StepCancelOutlivesRun ==
  ASSUME TypeOK, IndInv, [Next]_vars
  PROVE  CancelOutlivesRun'
  <1> USE DEF IndInv, CancelOutlivesRun
  <1>1. CASE TakeCommands
    BY <1>1, Takes, HappenedGrows DEF TakeCommands, used, Available, Terminal
  <1>2. CASE ReceiveAnswer
    BY <1>2, HappenedGrows DEF ReceiveAnswer, history, used
  <1>3. CASE LoseAnswer
    BY <1>3, HappenedGrows DEF LoseAnswer, history, used
  <1>4. CASE Finish
    BY <1>4, HappenedGrows DEF Finish, history, used
  <1>5. CASE FinishAborted
    BY <1>5, HappenedGrows DEF FinishAborted, history, used
  <1>6. CASE ReapEnded
    BY <1>6, HappenedGrows DEF ReapEnded, history, used
  <1>7. CASE Renew
    BY <1>7 DEF Renew, Held, history, used, Terminal
  <1>8. CASE ExpireStart
    BY <1>8, HappenedGrows DEF ExpireStart, TypeOK, Row, Terminal, history, used
  <1>9. CASE ExpireCancel
    BY <1>9, HappenedGrows DEF ExpireCancel, used, history
  <1>10. CASE Restart
    BY <1>10, HappenedGrows DEF Restart, history, used
  <1>11. ASSUME NEW i \in Handler, Post(i) PROVE CancelOutlivesRun'
    BY <1>11, HappenedGrows DEF Post, history, used
  <1>12. ASSUME NEW i \in Handler, MarkRead(i) PROVE CancelOutlivesRun'
    BY <1>12, HappenedGrows DEF MarkRead, history, used
  <1>13. ASSUME NEW i \in Handler, RenewRead(i) PROVE CancelOutlivesRun'
    BY <1>13, HappenedGrows DEF RenewRead, history, used
  <1>14. ASSUME NEW i \in Handler, Stop(i) PROVE CancelOutlivesRun'
    BY <1>14, HappenedGrows DEF Stop, history, used
  <1>15. ASSUME NEW i \in Handler, Timeout(i) PROVE CancelOutlivesRun'
    BY <1>15, HappenedGrows DEF Timeout, history, used
  <1>16. ASSUME NEW i \in Handler, CheckEvent(i) PROVE CancelOutlivesRun'
    BY <1>16, HappenedGrows DEF CheckEvent, history, used
  <1>17. ASSUME NEW i \in Handler, Mark(i) PROVE CancelOutlivesRun'
    BY <1>17 DEF Mark, used, Prepared, At, TypeOK, Row
  <1>18. ASSUME NEW i \in Handler, MarkWrite(i) PROVE CancelOutlivesRun'
    BY <1>18 DEF MarkWrite, EndStays, At, used
  <1>19. ASSUME NEW i \in Handler, CompleteCancels(i) PROVE CancelOutlivesRun'
    BY <1>19 DEF CompleteCancels, EndStays, At, used
  <1>20. ASSUME NEW i \in Handler, Close(i) PROVE CancelOutlivesRun'
    BY <1>20, HappenedGrows DEF Close, history, used
  <1>21. ASSUME NEW i \in Handler, RenewWrite(i) PROVE CancelOutlivesRun'
    BY <1>21 DEF RenewWrite, EndStays, At, used
  <1>22. ASSUME NEW i \in Handler, EnqueueCancel(i) PROVE CancelOutlivesRun'
    BY <1>22, HappenedGrows DEF EnqueueCancel, history, used
  <1>23. ASSUME NEW i \in Handler, Die(i) PROVE CancelOutlivesRun'
    BY <1>23, HappenedGrows DEF Die, history, used
  <1>24. CASE UNCHANGED vars
    BY <1>24 DEF vars, history, used
  <1> QED
    BY <1>1, <1>2, <1>3, <1>4, <1>5, <1>6, <1>7, <1>8, <1>9, <1>10, <1>11, <1>12,
       <1>13, <1>14, <1>15, <1>16, <1>17, <1>18, <1>19, <1>20, <1>21, <1>22, <1>23,
       <1>24 DEF Next, Step

\* The numbers in the rows and in the daemon's entry.
LEMMA Numbers ==
  ASSUME TypeOK
  PROVE  /\ answer.start \in Nat /\ start.lease \in Nat /\ given \in Nat
         /\ d.lease \in Nat /\ d.sent \in Nat
         /\ \A i \in Handler : h[i].lease \in Nat
         /\ start.status \in Terminal \cup {"queued", "dispatched"}
  BY DEF TypeOK, Row, Entry, Work

\* Without a late write, no handler is between a read and a write.
LEMMA NoLateWrite ==
  ASSUME IndInv, "slow" \notin happened, NEW i \in Handler
  PROVE  ~MarkWrite(i) /\ ~RenewWrite(i)
  BY DEF IndInv, EndStays, MarkWrite, RenewWrite, At

\* What a handler that checks, marks or writes an event does to the daemon.
LEMMA Answers ==
  ASSUME TypeOK, NEW i \in Handler, CheckEvent(i) \/ Mark(i)
  PROVE  \/ UNCHANGED d \/ d' = NotActive
         \/ /\ d.phase = "posting" /\ d'.phase = "reposting" /\ d'.lease = d.lease
            /\ d'.sent = d.lease /\ d'.event = "failed" /\ d'.ran = d.ran
            /\ start.status = "dispatched" /\ start.lease # h[i].lease
            /\ d.sent = h[i].lease
  BY Refuses DEF CheckEvent, Mark, Answered

\* What the daemon has is older than a lease under way.
LEMMA StepLeaseUnderWay ==
  ASSUME TypeOK, IndInv, [Next]_vars
  PROVE  LeaseUnderWay'
  <1> USE DEF IndInv, LeaseUnderWay
  <1>1. CASE TakeCommands
    <2>1. CASE answer'.start = 0
      BY <2>1
    <2>2. CASE answer'.start # 0
      <3>1. /\ answer'.start = given + 1 /\ answer'.here
            /\ start'.status = "dispatched" /\ start'.lease = given + 1
        BY <1>1, <2>2, Takes
      <3>2. UNCHANGED <<d, h>>
        BY <1>1 DEF TakeCommands
      <3>3. /\ d.lease < given + 1 /\ d.sent < given + 1
            /\ \A i \in Handler : h[i].lease < given + 1
        BY Numbers DEF LeasesGiven, TypeOK
      <3> QED
        BY <3>1, <3>2, <3>3
    <2> QED
      BY <2>1, <2>2
  <1>2. CASE ReceiveAnswer
    BY <1>2 DEF ReceiveAnswer, Nothing
  <1>3. CASE LoseAnswer
    BY <1>3 DEF LoseAnswer, Nothing
  <1>4. CASE Finish
    BY <1>4, HappenedGrows DEF Finish, history, used, Without
  <1>5. CASE FinishAborted
    BY <1>5, HappenedGrows DEF FinishAborted, history, used, Without
  <1>6. CASE ReapEnded
    BY <1>6, HappenedGrows DEF ReapEnded, history, used, Without
  <1>7. CASE Renew
    BY <1>7, HappenedGrows DEF Renew, history, used, Without
  <1>8. CASE ExpireStart
    BY <1>8, HappenedGrows DEF ExpireStart, history, used, Without
  <1>9. CASE ExpireCancel
    BY <1>9, HappenedGrows DEF ExpireCancel, history, used, Without
  <1>10. CASE Restart
    BY <1>10 DEF Restart, Nothing
  <1>11. ASSUME NEW i \in Handler, Post(i) PROVE LeaseUnderWay'
    BY <1>11, HappenedGrows, NotActiveTyped, IdleTyped, Begins DEF Post, history,
       used, Without, At
  <1>12. ASSUME NEW i \in Handler, MarkRead(i) PROVE LeaseUnderWay'
    BY <1>12, HappenedGrows, NotActiveTyped, IdleTyped, Begins DEF MarkRead,
       history, used, Without, At
  <1>13. ASSUME NEW i \in Handler, RenewRead(i) PROVE LeaseUnderWay'
    BY <1>13, HappenedGrows, NotActiveTyped, IdleTyped, Begins DEF RenewRead,
       history, used, Without, At
  <1>14. ASSUME NEW i \in Handler, Stop(i) PROVE LeaseUnderWay'
    BY <1>14, HappenedGrows, NotActiveTyped, IdleTyped, Begins DEF Stop, history,
       used, Without, At
  <1>15. ASSUME NEW i \in Handler, Timeout(i) PROVE LeaseUnderWay'
    BY <1>15, HappenedGrows, NotActiveTyped, IdleTyped, Begins DEF Timeout, history,
       used, Without, At
  <1>16. ASSUME NEW i \in Handler, CheckEvent(i) PROVE LeaseUnderWay'
    <2>1. d' = d \/ d' = NotActive \/ (d'.lease = d.lease /\ d'.sent = d.lease)
      BY <1>16, Answers
    <2>2. \/ h'[i].lease = h[i].lease /\ h'[i].job = h[i].job
          \/ h'[i].lease = 0
      BY <1>16, Goes, Returns, IdleTyped DEF CheckEvent
    <2>3. \A j \in Handler : j # i => h'[j] = h[j]
      BY <1>16, Goes, Returns DEF CheckEvent

    <2>4. UNCHANGED <<start, answer, happened>>
      BY <1>16 DEF CheckEvent, used
    <2> QED
      BY <2>1, <2>2, <2>3, <2>4, NotActiveTyped DEF Without
  <1>17. ASSUME NEW i \in Handler, Mark(i) PROVE LeaseUnderWay'
    <2>1. d' = d \/ d' = NotActive \/ (d'.lease = d.lease /\ d'.sent = d.lease)
      BY <1>17, Answers
    <2>2. \/ h'[i].lease = h[i].lease /\ h'[i].job = h[i].job
          \/ h'[i].lease = 0
      BY <1>17, Goes, Returns, IdleTyped DEF Mark
    <2>3. \A j \in Handler : j # i => h'[j] = h[j]
      BY <1>17, Goes, Returns DEF Mark

    <2>4. Without({"slow", "timeout"}) /\ answer.start > 0 => ~Markable(i)
      BY <1>17, Numbers DEF Mark, At, Markable, Without, Prepared
    <2>5. UNCHANGED <<answer, happened>> /\ (~Markable(i) => UNCHANGED start)
      BY <1>17 DEF Mark, used
    <2> QED
      BY <2>1, <2>2, <2>3, <2>4, <2>5, NotActiveTyped DEF Without
  <1>18. ASSUME NEW i \in Handler, MarkWrite(i) PROVE LeaseUnderWay'
    <2>1. UNCHANGED happened
      BY <1>18 DEF MarkWrite, used
    <2> QED
      BY <1>18, <2>1, NoLateWrite DEF Without
  <1>19. ASSUME NEW i \in Handler, CompleteCancels(i) PROVE LeaseUnderWay'
    BY <1>19, HappenedGrows, NotActiveTyped, IdleTyped, Goes, Returns DEF
       CompleteCancels, history, used, Without, At
  <1>20. ASSUME NEW i \in Handler, Close(i) PROVE LeaseUnderWay'
    BY <1>20, HappenedGrows, NotActiveTyped, IdleTyped, Goes, Returns DEF Close,
       history, used, Without, At
  <1>21. ASSUME NEW i \in Handler, RenewWrite(i) PROVE LeaseUnderWay'
    <2>1. UNCHANGED happened
      BY <1>21 DEF RenewWrite, used
    <2> QED
      BY <1>21, <2>1, NoLateWrite DEF Without
  <1>22. ASSUME NEW i \in Handler, EnqueueCancel(i) PROVE LeaseUnderWay'
    BY <1>22, HappenedGrows, NotActiveTyped, IdleTyped, Goes, Returns DEF
       EnqueueCancel, history, used, Without, At
  <1>23. ASSUME NEW i \in Handler, Die(i) PROVE LeaseUnderWay'
    BY <1>23, HappenedGrows, NotActiveTyped, IdleTyped, Goes, Returns DEF Die,
       history, used, Without, At
  <1>24. CASE UNCHANGED vars
    BY <1>24 DEF vars, history, used, Without
  <1> QED
    BY <1>1, <1>2, <1>3, <1>4, <1>5, <1>6, <1>7, <1>8, <1>9, <1>10, <1>11, <1>12,
       <1>13, <1>14, <1>15, <1>16, <1>17, <1>18, <1>19, <1>20, <1>21, <1>22, <1>23,
       <1>24 DEF Next, Step

\* While no held lease runs out, the row has it.
LEMMA StepLeaseHeld ==
  ASSUME TypeOK, IndInv, [Next]_vars
  PROVE  LeaseHeld'
  <1> USE DEF IndInv, LeaseHeld
  <1>1. CASE TakeCommands
    <2>1. UNCHANGED <<d, happened>> /\ ~answer.here
      BY <1>1 DEF TakeCommands, used
    <2>2. Without({"slow", "late"}) /\ Available(start) => d.phase = "idle"
      BY DEF Available, Kept
    <2>3. start'.status = "dispatched" => start'.live \/ (start' = start /\ ~Available(start))
      BY <1>1, Takes
    <2>4. start'.status # "queued"
      BY <1>1, Takes DEF Available
    <2>5. Kept'
      BY <2>3, <2>4 DEF Kept, Available
    <2>6. \/ answer'.start = 0 /\ start'.lease = start.lease
          \/ answer'.start = start'.lease /\ Available(start)
      BY <1>1, Takes
    <2>7. answer'.here
      BY <1>1, Takes
    <2> QED
      BY <2>1, <2>2, <2>5, <2>6, <2>7 DEF Without
  <1>2. CASE ReceiveAnswer
    <2>1. UNCHANGED <<start, happened>> /\ answer'.start = 0
      BY <1>2 DEF ReceiveAnswer, Nothing, used
    <2>2. answer.start > 0 \/ answer.start = 0
      BY Numbers
    <2> QED
      BY <1>2, <2>1, <2>2, Receives, NotActiveTyped DEF Without, Kept
  <1>3. CASE LoseAnswer
    BY <1>3, HappenedGrows DEF LoseAnswer, Nothing, Without, Kept
  <1>4. CASE Finish
    BY <1>4, HappenedGrows, NotActiveTyped DEF Finish, history, used, Without, Kept
  <1>5. CASE FinishAborted
    BY <1>5, HappenedGrows, NotActiveTyped DEF FinishAborted, history, used,
       Without, Kept
  <1>6. CASE ReapEnded
    BY <1>6, HappenedGrows, NotActiveTyped DEF ReapEnded, history, used, Without,
       Kept
  <1>7. CASE Renew
    BY <1>7, HappenedGrows, NotActiveTyped DEF Renew, history, used, Without, Kept
  <1>8. CASE ExpireStart
    <2>1. start.status = "dispatched" /\ start.live /\ UNCHANGED <<d, answer>>
      BY <1>8 DEF ExpireStart
    <2>2. Held \/ answer.start = start.lease => "late" \in happened'
      BY <1>8 DEF ExpireStart, Spend
    <2>3. happened \subseteq happened'
      BY HappenedGrows
    <2>4. Without({"slow", "late"})' =>
            Without({"slow", "late"}) /\ d.phase = "idle" /\ answer.start = 0
      BY <2>1, <2>2, <2>3, Numbers DEF Without, Held
    <2> QED
      BY <2>1, <2>4
  <1>9. CASE ExpireCancel
    BY <1>9, HappenedGrows, NotActiveTyped DEF ExpireCancel, history, used, Without,
       Kept
  <1>10. CASE Restart
    BY <1>10, NotActiveTyped DEF Restart, Nothing
  <1>11. ASSUME NEW i \in Handler, Post(i) PROVE LeaseHeld'
    BY <1>11, HappenedGrows, NotActiveTyped DEF Post, history, used, Without, Kept
  <1>12. ASSUME NEW i \in Handler, MarkRead(i) PROVE LeaseHeld'
    BY <1>12, HappenedGrows, NotActiveTyped DEF MarkRead, history, used, Without,
       Kept
  <1>13. ASSUME NEW i \in Handler, RenewRead(i) PROVE LeaseHeld'
    BY <1>13, HappenedGrows, NotActiveTyped DEF RenewRead, history, used, Without,
       Kept
  <1>14. ASSUME NEW i \in Handler, Stop(i) PROVE LeaseHeld'
    BY <1>14, HappenedGrows, NotActiveTyped DEF Stop, history, used, Without, Kept
  <1>15. ASSUME NEW i \in Handler, Timeout(i) PROVE LeaseHeld'
    BY <1>15, HappenedGrows, NotActiveTyped DEF Timeout, history, used, Without,
       Kept
  <1>16. ASSUME NEW i \in Handler, CheckEvent(i) PROVE LeaseHeld'
    <2>1. \/ UNCHANGED d \/ d' = NotActive
          \/ d.phase = "posting" /\ d'.phase = "reposting" /\ d'.lease = d.lease
      BY <1>16, Answers
    <2>2. UNCHANGED <<start, answer, happened>>
      BY <1>16 DEF CheckEvent, used
    <2> QED
      BY <2>1, <2>2, NotActiveTyped DEF Without, Kept
  <1>17. ASSUME NEW i \in Handler, Mark(i) PROVE LeaseHeld'
    <2>1. UNCHANGED d \/ d' = NotActive
      BY <1>17 DEF Mark
    <2>2. /\ start'.lease = start.lease
          /\ start' = start \/ start'.status \in Terminal
      BY <1>17 DEF Mark, Prepared, At, TypeOK, Row
    <2>3. Kept => Kept'
      BY <2>2 DEF Kept, Terminal
    <2>4. UNCHANGED <<answer, happened>>
      BY <1>17 DEF Mark, used
    <2> QED
      BY <2>1, <2>2, <2>3, <2>4, NotActiveTyped DEF Without
  <1>18. ASSUME NEW i \in Handler, MarkWrite(i) PROVE LeaseHeld'
    <2>1. UNCHANGED happened
      BY <1>18 DEF MarkWrite, used
    <2> QED
      BY <1>18, <2>1, NoLateWrite DEF Without
  <1>19. ASSUME NEW i \in Handler, CompleteCancels(i) PROVE LeaseHeld'
    BY <1>19, HappenedGrows, NotActiveTyped DEF CompleteCancels, history, used,
       Without, Kept
  <1>20. ASSUME NEW i \in Handler, Close(i) PROVE LeaseHeld'
    BY <1>20, HappenedGrows, NotActiveTyped DEF Close, history, used, Without, Kept
  <1>21. ASSUME NEW i \in Handler, RenewWrite(i) PROVE LeaseHeld'
    <2>1. UNCHANGED happened
      BY <1>21 DEF RenewWrite, used
    <2> QED
      BY <1>21, <2>1, NoLateWrite DEF Without
  <1>22. ASSUME NEW i \in Handler, EnqueueCancel(i) PROVE LeaseHeld'
    BY <1>22, HappenedGrows, NotActiveTyped DEF EnqueueCancel, history, used,
       Without, Kept
  <1>23. ASSUME NEW i \in Handler, Die(i) PROVE LeaseHeld'
    BY <1>23, HappenedGrows, NotActiveTyped DEF Die, history, used, Without, Kept
  <1>24. CASE UNCHANGED vars
    BY <1>24 DEF vars, history, used, Without, Kept
  <1> QED
    BY <1>1, <1>2, <1>3, <1>4, <1>5, <1>6, <1>7, <1>8, <1>9, <1>10, <1>11, <1>12,
       <1>13, <1>14, <1>15, <1>16, <1>17, <1>18, <1>19, <1>20, <1>21, <1>22, <1>23,
       <1>24 DEF Next, Step

\* A run that completed is not failed by its daemon.
LEMMA StepOutcomeKept ==
  ASSUME TypeOK, IndInv, [Next]_vars
  PROVE  OutcomeKept'
  <1> USE DEF IndInv, OutcomeKept
  <1>1. CASE TakeCommands
    BY <1>1, HappenedGrows, NotActiveTyped DEF TakeCommands, history, used
  <1>2. CASE ReceiveAnswer
    BY <1>2, Receives, NotActiveTyped DEF ReceiveAnswer, used
  <1>3. CASE LoseAnswer
    BY <1>3, HappenedGrows, NotActiveTyped DEF LoseAnswer, history, used
  <1>4. CASE Finish
    BY <1>4, Ends DEF Finish, used
  <1>5. CASE FinishAborted
    BY <1>5, Ends DEF FinishAborted, used
  <1>6. CASE ReapEnded
    BY <1>6, HappenedGrows, NotActiveTyped DEF ReapEnded, history, used
  <1>7. CASE Renew
    BY <1>7, HappenedGrows, NotActiveTyped DEF Renew, history, used
  <1>8. CASE ExpireStart
    BY <1>8, HappenedGrows, NotActiveTyped DEF ExpireStart, history, used
  <1>9. CASE ExpireCancel
    BY <1>9, HappenedGrows, NotActiveTyped DEF ExpireCancel, history, used
  <1>10. CASE Restart
    BY <1>10, HappenedGrows, NotActiveTyped DEF Restart, history, used
  <1>11. ASSUME NEW i \in Handler, Post(i) PROVE OutcomeKept'
    BY <1>11, HappenedGrows, NotActiveTyped DEF Post, history, used
  <1>12. ASSUME NEW i \in Handler, MarkRead(i) PROVE OutcomeKept'
    BY <1>12, HappenedGrows, NotActiveTyped DEF MarkRead, history, used
  <1>13. ASSUME NEW i \in Handler, RenewRead(i) PROVE OutcomeKept'
    BY <1>13, HappenedGrows, NotActiveTyped DEF RenewRead, history, used
  <1>14. ASSUME NEW i \in Handler, Stop(i) PROVE OutcomeKept'
    BY <1>14, HappenedGrows, NotActiveTyped DEF Stop, history, used
  <1>15. ASSUME NEW i \in Handler, Timeout(i) PROVE OutcomeKept'
    BY <1>15, HappenedGrows, NotActiveTyped DEF Timeout, history, used
  <1>16. ASSUME NEW i \in Handler, CheckEvent(i) PROVE OutcomeKept'
    <2>1. UNCHANGED happened
      BY <1>16 DEF CheckEvent, used
    <2>2. CASE d' = d \/ d' = NotActive
      BY <2>1, <2>2, NotActiveTyped
    <2>3. CASE ~(d' = d \/ d' = NotActive)
      <3>1. /\ d.phase = "posting" /\ start.status = "dispatched"
            /\ start.lease # d.sent
        BY <1>16, <2>3, Answers
      <3>2. ~Without({"slow", "late"})
        BY <3>1 DEF LeaseHeld
      <3> QED
        BY <2>1, <3>2 DEF Without
    <2> QED
      BY <2>2, <2>3
  <1>17. ASSUME NEW i \in Handler, Mark(i) PROVE OutcomeKept'
    BY <1>17, HappenedGrows, NotActiveTyped DEF Mark, history, used
  <1>18. ASSUME NEW i \in Handler, MarkWrite(i) PROVE OutcomeKept'
    BY <1>18, HappenedGrows, NotActiveTyped DEF MarkWrite, history, used
  <1>19. ASSUME NEW i \in Handler, CompleteCancels(i) PROVE OutcomeKept'
    BY <1>19, HappenedGrows, NotActiveTyped DEF CompleteCancels, history, used
  <1>20. ASSUME NEW i \in Handler, Close(i) PROVE OutcomeKept'
    BY <1>20, HappenedGrows, NotActiveTyped DEF Close, history, used
  <1>21. ASSUME NEW i \in Handler, RenewWrite(i) PROVE OutcomeKept'
    BY <1>21, HappenedGrows, NotActiveTyped DEF RenewWrite, history, used
  <1>22. ASSUME NEW i \in Handler, EnqueueCancel(i) PROVE OutcomeKept'
    BY <1>22, HappenedGrows, NotActiveTyped DEF EnqueueCancel, history, used
  <1>23. ASSUME NEW i \in Handler, Die(i) PROVE OutcomeKept'
    BY <1>23, HappenedGrows, NotActiveTyped DEF Die, history, used
  <1>24. CASE UNCHANGED vars
    BY <1>24 DEF vars, history, used
  <1> QED
    BY <1>1, <1>2, <1>3, <1>4, <1>5, <1>6, <1>7, <1>8, <1>9, <1>10, <1>11, <1>12,
       <1>13, <1>14, <1>15, <1>16, <1>17, <1>18, <1>19, <1>20, <1>21, <1>22, <1>23,
       <1>24 DEF Next, Step

-----------------------------------------------------------------------------
(* The invariant and what follows from it.                                 *)

\* The inductive invariant of a command's delivery holds in every reachable state.
THEOREM Invariance == Spec => [](TypeOK /\ IndInv)
  <1>1. Init => TypeOK /\ IndInv
    BY InitIndInv
  <1>2. TypeOK /\ IndInv /\ [Next]_vars => (TypeOK /\ IndInv)'
    <2> SUFFICES ASSUME TypeOK, IndInv, [Next]_vars
                 PROVE  TypeOK' /\ IndInv'
      OBVIOUS
    <2>1. TypeOK'
      BY StepTypeOK DEF IndInv
    <2>2. Prepared' /\ LeasesGiven' /\ EndStays'
      BY StepPrepared, StepLeasesGiven, StepEndStays
    <2>3. CancelOutlivesRun' /\ LeaseUnderWay' /\ LeaseHeld' /\ OutcomeKept'
      BY StepCancelOutlivesRun, StepLeaseUnderWay, StepLeaseHeld, StepOutcomeKept
    <2> QED
      BY <2>1, <2>2, <2>3 DEF IndInv
  <1> QED
    BY <1>1, <1>2, PTL DEF Spec

\* The rows, the daemon's entry and the handlers keep their shapes, and no lease is
\* held that was not given (daemon_store.py, relay-daemon/src/index.ts).
THEOREM TypeCorrect == Spec => []TypeOK
  BY Invariance, PTL

\* Without a late write, mark_cancel_commands_completed completes a run.cancel only
\* when its run is terminal, whoever polls, posts, retries, dies or restarts.
THEOREM CancelsOutlive == Spec => []CancelOutlivesRun
  <1>1. IndInv => CancelOutlivesRun
    BY DEF IndInv
  <1> QED
    BY <1>1, Invariance, PTL

\* While no lease that is held runs out, the daemon is never refused the end of its
\* run, and so does not follow a run.completed with a run.failed.
THEOREM OutcomesKept == Spec => []OutcomeKept
  <1>1. IndInv => OutcomeKept
    BY DEF IndInv
  <1> QED
    BY <1>1, Invariance, PTL

\* A run whose end was accepted is not begun again by a redelivery.
THEOREM NeverRestarted == Spec => EndedNotRestarted
  <1> DEFINE Ok ==
        d.phase = "idle" /\ d'.phase = "running" /\ ended
          => happened \cap {"slow", "timeout"} # {}
  <1>1. TypeOK /\ IndInv /\ [Next]_vars => [Ok]_vars
    <2> SUFFICES ASSUME TypeOK, IndInv, [Next]_vars, d.phase = "idle",
                        d'.phase = "running", ended
                 PROVE  happened \cap {"slow", "timeout"} # {}
      OBVIOUS
    <2>1. ReceiveAnswer
      <3>1. ~Finish /\ ~FinishAborted
        BY Ends
      <3>2. \A i \in Handler : ~CheckEvent(i) /\ ~Mark(i)
        BY Answers, NotActiveTyped
      <3>3. d' # NotActive /\ d' # d
        BY NotActiveTyped
      <3> QED
        BY <3>1, <3>2, <3>3
           DEF Next, Step, vars, TakeCommands, LoseAnswer, ReapEnded, Renew, ExpireStart,
               ExpireCancel, Restart, Post, MarkRead, RenewRead, Stop, Timeout, MarkWrite,
               CompleteCancels, Close, RenewWrite, EnqueueCancel, Die
    <2>2. answer.start > 0
      BY <2>1, Receives, NotActiveTyped, Numbers
    <2>3. Without({"slow", "timeout"}) => ~ended
      BY <2>2 DEF IndInv, LeaseUnderWay, EndStays, Without, Terminal
    <2> QED
      BY <2>3 DEF Without
  <1> QED
    BY <1>1, Invariance, PTL DEF Spec, EndedNotRestarted

=============================================================================
