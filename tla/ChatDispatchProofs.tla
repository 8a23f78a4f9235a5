-------------------------- MODULE ChatDispatchProofs --------------------------
(* Proofs about ChatDispatch, for any deliveries and number of hazards.    *)
EXTENDS ChatDispatch, TLAPS

\* The store and the backend know nothing of the message yet.
LEMMA InitIndInv ==
  ASSUME Init
  PROVE  TypeOK /\ IndInv
  <1> USE DEF Init, Idle
  <1>1. TypeOK
    <2>1. h \in [Handler -> [pc : {"idle"}, to : {"new"}, started : {FALSE}]]
      OBVIOUS
    <2>2. left \in 0 .. MaxHazards /\ happened \subseteq Possible
      BY HazardsAssumption
    <2>3. /\ provider \in {"telegram", "detached"} /\ fresh \in BOOLEAN
          /\ accepted \in BOOLEAN /\ awaited \in Handler \cup {Nobody}
      OBVIOUS
    <2> QED
      BY <2>1, <2>2, <2>3 DEF TypeOK
  <1>2. StartedLate /\ WorksAlone
    BY DEF StartedLate, WorksAlone, Working
  <1>3. RunSeen /\ RunPerKey
    BY DEF RunSeen, RunPerKey, Over
  <1>4. KeyStays /\ TriedOnce
    BY DEF KeyStays, TriedOnce, At
  <1> QED
    BY <1>1, <1>2, <1>3, <1>4 DEF IndInv

\* A hazard that happens stays happened.
LEMMA SpendType ==
  ASSUME TypeOK, NEW k, Spend(k)
  PROVE  /\ happened \subseteq happened' /\ happened' \subseteq Possible
         /\ left' \in 0 .. MaxHazards
  BY HazardsAssumption DEF TypeOK, Spend

\* An answer to the provider that is lost costs a hazard.
LEMMA AnswerType ==
  ASSUME TypeOK, NEW i \in Handler, NEW status, Answer(i, status)
  PROVE  /\ happened \subseteq happened' /\ happened' \subseteq Possible
         /\ left' \in 0 .. MaxHazards
         /\ awaited' \in Handler \cup {Nobody} /\ accepted' \in BOOLEAN
  BY SpendType DEF TypeOK, Answer, used

\* Every action keeps the shapes.
LEMMA StepTypeOK ==
  ASSUME TypeOK, [Next]_vars
  PROVE  TypeOK'
  <1> USE DEF TypeOK, At, Goto, Return, Idle, used, backend
  <1>1. ASSUME NEW i \in Handler, Deliver(i) PROVE TypeOK'
    BY <1>1, SpendType DEF Deliver
  <1>2. ASSUME NEW i \in Handler, Claim(i) PROVE TypeOK'
    <2>1. UNCHANGED <<awaited, accepted, used>> \/ Answer(i, 200)
      BY <1>2 DEF Claim
    <2>2. /\ happened' \subseteq Possible /\ left' \in 0 .. MaxHazards
          /\ awaited' \in Handler \cup {Nobody} /\ accepted' \in BOOLEAN
      BY <2>1, AnswerType
    <2>3. Goto(i, "announce") \/ Return(i)
      BY <1>2 DEF Claim
    <2>4. h' \in [Handler -> [pc : {"idle", "claim", "announce", "run", "bind",
                                    "runStarted", "tell", "failed", "done"},
                             to : {"new", "bound"}, started : BOOLEAN]]
      <3>1. CASE Goto(i, "announce")
        BY <3>1
      <3>2. CASE Return(i)
        BY <3>2
      <3> QED
        BY <2>3, <3>1, <3>2
    <2>5. receipt' \in {"none", "pending", "old", "completed"}
      BY <1>2 DEF Claim
    <2>6. UNCHANGED <<provider, fresh, backend>>
      BY <1>2 DEF Claim
    <2> QED
      BY <2>2, <2>4, <2>5, <2>6
  <1>3. ASSUME NEW i \in Handler, Announce(i) PROVE TypeOK'
    BY <1>3, SpendType DEF Announce
  <1>4. ASSUME NEW i \in Handler, StartRun(i) PROVE TypeOK'
    BY <1>4, SpendType DEF StartRun, Refused, Known, Admit
  <1>5. ASSUME NEW i \in Handler, Bind(i) PROVE TypeOK'
    BY <1>5, SpendType DEF Bind, Bound
  <1>6. ASSUME NEW i \in Handler, RunStarted(i) PROVE TypeOK'
    BY <1>6, SpendType DEF RunStarted
  <1>7. ASSUME NEW i \in Handler, Tell(i) PROVE TypeOK'
    BY <1>7, SpendType DEF Tell
  <1>8. ASSUME NEW i \in Handler, FailTelegram(i) PROVE TypeOK'
    BY <1>8, SpendType, AnswerType DEF FailTelegram
  <1>9. ASSUME NEW i \in Handler, FailDetached(i) PROVE TypeOK'
    BY <1>9 DEF FailDetached
  <1>10. ASSUME NEW i \in Handler, Done(i) PROVE TypeOK'
    BY <1>10, SpendType, AnswerType DEF Done
  <1>11. CASE EndRun
    BY <1>11 DEF EndRun
  <1>12. CASE GrowOld
    BY <1>12, SpendType DEF GrowOld
  <1>13. CASE Crash
    BY <1>13, SpendType DEF Crash
  <1>14. CASE UNCHANGED vars
    BY <1>14 DEF vars, used, backend
  <1> QED
        BY <1>1, <1>2, <1>3, <1>4, <1>5, <1>6, <1>7, <1>8, <1>9, <1>10, <1>11,
       <1>12, <1>13, <1>14 DEF Next, Step

\* Every state of a dispatch is well formed, whatever fails (packages/relay-chat).
THEOREM TypeCorrect == Spec => []TypeOK
  <1>1. Init => TypeOK
    BY InitIndInv
  <1>2. TypeOK /\ [Next]_vars => TypeOK'
    BY StepTypeOK
  <1> QED
    BY <1>1, <1>2, PTL DEF Spec

-----------------------------------------------------------------------------
(* The parts of the invariant.                                             *)

\* started is set by RunStarted, and cleared when the delivery returns.
LEMMA StepStartedLate ==
  ASSUME TypeOK, IndInv, [Next]_vars
  PROVE  StartedLate'
  <1> USE DEF TypeOK, At, Goto, Return, Idle, used, backend, IndInv, StartedLate
  <1>1. ASSUME NEW i \in Handler, Deliver(i) PROVE StartedLate'
    BY <1>1 DEF Deliver
  <1>2. ASSUME NEW i \in Handler, Claim(i) PROVE StartedLate'
    BY <1>2 DEF Claim
  <1>3. ASSUME NEW i \in Handler, Announce(i) PROVE StartedLate'
    BY <1>3 DEF Announce
  <1>4. ASSUME NEW i \in Handler, StartRun(i) PROVE StartedLate'
    BY <1>4 DEF StartRun
  <1>5. ASSUME NEW i \in Handler, Bind(i) PROVE StartedLate'
    BY <1>5 DEF Bind
  <1>6. ASSUME NEW i \in Handler, RunStarted(i) PROVE StartedLate'
    BY <1>6 DEF RunStarted
  <1>7. ASSUME NEW i \in Handler, Tell(i) PROVE StartedLate'
    BY <1>7 DEF Tell
  <1>8. ASSUME NEW i \in Handler, FailTelegram(i) PROVE StartedLate'
    BY <1>8 DEF FailTelegram
  <1>9. ASSUME NEW i \in Handler, FailDetached(i) PROVE StartedLate'
    BY <1>9 DEF FailDetached
  <1>10. ASSUME NEW i \in Handler, Done(i) PROVE StartedLate'
    BY <1>10 DEF Done
  <1>11. CASE EndRun
    BY <1>11 DEF EndRun
  <1>12. CASE GrowOld
    BY <1>12 DEF GrowOld
  <1>13. CASE Crash
    BY <1>13 DEF Crash
  <1>14. CASE UNCHANGED vars
    BY <1>14 DEF vars, used, backend
  <1> QED
        BY <1>1, <1>2, <1>3, <1>4, <1>5, <1>6, <1>7, <1>8, <1>9, <1>10, <1>11,
       <1>12, <1>13, <1>14 DEF Next, Step

\* Nobody claims a receipt while another is at work, unless it grew old.
LEMMA StepWorksAlone ==
  ASSUME TypeOK, IndInv, [Next]_vars
  PROVE  WorksAlone'
  <1> USE DEF TypeOK, At, Goto, Return, Idle, used, backend, Spend, Working,
      IndInv, StartedLate, WorksAlone
  <1>1. ASSUME NEW i \in Handler, Deliver(i) PROVE WorksAlone'
    BY <1>1 DEF Deliver
  <1>2. ASSUME NEW i \in Handler, Claim(i) PROVE WorksAlone'
    BY <1>2, AnswerType DEF Claim
  <1>3. ASSUME NEW i \in Handler, Announce(i) PROVE WorksAlone'
    BY <1>3 DEF Announce
  <1>4. ASSUME NEW i \in Handler, StartRun(i) PROVE WorksAlone'
    BY <1>4 DEF StartRun
  <1>5. ASSUME NEW i \in Handler, Bind(i) PROVE WorksAlone'
    BY <1>5 DEF Bind
  <1>6. ASSUME NEW i \in Handler, RunStarted(i) PROVE WorksAlone'
    BY <1>6 DEF RunStarted
  <1>7. ASSUME NEW i \in Handler, Tell(i) PROVE WorksAlone'
    BY <1>7 DEF Tell
  <1>8. ASSUME NEW i \in Handler, FailTelegram(i) PROVE WorksAlone'
    BY <1>8, AnswerType DEF FailTelegram
  <1>9. ASSUME NEW i \in Handler, FailDetached(i) PROVE WorksAlone'
    BY <1>9 DEF FailDetached
  <1>10. ASSUME NEW i \in Handler, Done(i) PROVE WorksAlone'
    BY <1>10, AnswerType DEF Done
  <1>11. CASE EndRun
    BY <1>11 DEF EndRun
  <1>12. CASE GrowOld
    BY <1>12 DEF GrowOld
  <1>13. CASE Crash
    BY <1>13 DEF Crash
  <1>14. CASE UNCHANGED vars
    BY <1>14 DEF vars, used, backend
  <1> QED
        BY <1>1, <1>2, <1>3, <1>4, <1>5, <1>6, <1>7, <1>8, <1>9, <1>10, <1>11,
       <1>12, <1>13, <1>14 DEF Next, Step

\* The run is counted before anything tells of it.
LEMMA StepRunSeen ==
  ASSUME TypeOK, IndInv, [Next]_vars
  PROVE  RunSeen'
  <1> USE DEF TypeOK, At, Goto, Return, Idle, used, backend, IndInv, Over,
      RunSeen
  <1>1. ASSUME NEW i \in Handler, Deliver(i) PROVE RunSeen'
    BY <1>1 DEF Deliver
  <1>2. ASSUME NEW i \in Handler, Claim(i) PROVE RunSeen'
    BY <1>2 DEF Claim
  <1>3. ASSUME NEW i \in Handler, Announce(i) PROVE RunSeen'
    BY <1>3 DEF Announce
  <1>4. ASSUME NEW i \in Handler, StartRun(i) PROVE RunSeen'
    BY <1>4 DEF StartRun, Refused, Known, Admit
  <1>5. ASSUME NEW i \in Handler, Bind(i) PROVE RunSeen'
    BY <1>5 DEF Bind
  <1>6. ASSUME NEW i \in Handler, RunStarted(i) PROVE RunSeen'
    BY <1>6 DEF RunStarted
  <1>7. ASSUME NEW i \in Handler, Tell(i) PROVE RunSeen'
    BY <1>7 DEF Tell
  <1>8. ASSUME NEW i \in Handler, FailTelegram(i) PROVE RunSeen'
    BY <1>8 DEF FailTelegram
  <1>9. ASSUME NEW i \in Handler, FailDetached(i) PROVE RunSeen'
    BY <1>9 DEF FailDetached
  <1>10. ASSUME NEW i \in Handler, Done(i) PROVE RunSeen'
    BY <1>10 DEF Done
  <1>11. CASE EndRun
    BY <1>11 DEF EndRun
  <1>12. CASE GrowOld
    BY <1>12 DEF GrowOld
  <1>13. CASE Crash
    BY <1>13 DEF Crash
  <1>14. CASE UNCHANGED vars
    BY <1>14 DEF vars, used, backend
  <1> QED
        BY <1>1, <1>2, <1>3, <1>4, <1>5, <1>6, <1>7, <1>8, <1>9, <1>10, <1>11,
       <1>12, <1>13, <1>14 DEF Next, Step

\* The backend starts one run for a key.
LEMMA StepRunPerKey ==
  ASSUME TypeOK, IndInv, [Next]_vars
  PROVE  RunPerKey'
  <1> USE DEF TypeOK, At, Goto, Return, Idle, used, backend, IndInv, Over,
      RunSeen, RunPerKey
  <1>1. ASSUME NEW i \in Handler, Deliver(i) PROVE RunPerKey'
    BY <1>1 DEF Deliver
  <1>2. ASSUME NEW i \in Handler, Claim(i) PROVE RunPerKey'
    BY <1>2 DEF Claim
  <1>3. ASSUME NEW i \in Handler, Announce(i) PROVE RunPerKey'
    BY <1>3 DEF Announce
  <1>4. ASSUME NEW i \in Handler, StartRun(i) PROVE RunPerKey'
    BY <1>4 DEF StartRun, Refused, Known, Admit
  <1>5. ASSUME NEW i \in Handler, Bind(i) PROVE RunPerKey'
    BY <1>5 DEF Bind
  <1>6. ASSUME NEW i \in Handler, RunStarted(i) PROVE RunPerKey'
    BY <1>6 DEF RunStarted
  <1>7. ASSUME NEW i \in Handler, Tell(i) PROVE RunPerKey'
    BY <1>7 DEF Tell
  <1>8. ASSUME NEW i \in Handler, FailTelegram(i) PROVE RunPerKey'
    BY <1>8 DEF FailTelegram
  <1>9. ASSUME NEW i \in Handler, FailDetached(i) PROVE RunPerKey'
    BY <1>9 DEF FailDetached
  <1>10. ASSUME NEW i \in Handler, Done(i) PROVE RunPerKey'
    BY <1>10 DEF Done
  <1>11. CASE EndRun
    BY <1>11 DEF EndRun
  <1>12. CASE GrowOld
    BY <1>12 DEF GrowOld
  <1>13. CASE Crash
    BY <1>13 DEF Crash
  <1>14. CASE UNCHANGED vars
    BY <1>14 DEF vars, used, backend
  <1> QED
        BY <1>1, <1>2, <1>3, <1>4, <1>5, <1>6, <1>7, <1>8, <1>9, <1>10, <1>11,
       <1>12, <1>13, <1>14 DEF Next, Step

\* The thread is bound by the attempt that is not repeated.
LEMMA StepKeyStays ==
  ASSUME TypeOK, IndInv, [Next]_vars
  PROVE  KeyStays'
  <1> USE DEF TypeOK, At, Goto, Return, Idle, used, backend, Spend, Working,
      IndInv, Without, Dest, StartedLate, WorksAlone, KeyStays
  <1>1. ASSUME NEW i \in Handler, Deliver(i) PROVE KeyStays'
    BY <1>1 DEF Deliver
  <1>2. ASSUME NEW i \in Handler, Claim(i) PROVE KeyStays'
    BY <1>2, AnswerType DEF Claim
  <1>3. ASSUME NEW i \in Handler, Announce(i) PROVE KeyStays'
    BY <1>3 DEF Announce
  <1>4. ASSUME NEW i \in Handler, StartRun(i) PROVE KeyStays'
    <2> SUFFICES ASSUME provider = "telegram", ~fresh,
                        Without({"slow", "crash", "unsaved"})
                 PROVE  KeyStays'
      BY <1>4 DEF StartRun
    <2>1. receipt = "pending" /\ \A j \in Handler : Working(j) => j = i
      BY <1>4 DEF StartRun
    <2>2. h[i].to = Dest /\ keys \subseteq {Dest}
      BY <1>4, <2>1 DEF StartRun
    <2>3. Dest' = Dest
      BY <1>4, <2>2 DEF StartRun, Admit
    <2>4. keys' \subseteq {Dest}
      BY <1>4, <2>2 DEF StartRun, Admit
    <2>5. \A j \in Handler : h'[j].pc # "run"
      BY <1>4, <2>1 DEF StartRun
    <2> HIDE DEF Dest
    <2>6. keys' # {"new", "bound"}
      BY <2>4
    <2> QED
      BY <2>3, <2>4, <2>5, <2>6
  <1>5. ASSUME NEW i \in Handler, Bind(i) PROVE KeyStays'
    BY <1>5 DEF Bind, Bound
  <1>6. ASSUME NEW i \in Handler, RunStarted(i) PROVE KeyStays'
    BY <1>6 DEF RunStarted
  <1>7. ASSUME NEW i \in Handler, Tell(i) PROVE KeyStays'
    BY <1>7 DEF Tell
  <1>8. ASSUME NEW i \in Handler, FailTelegram(i) PROVE KeyStays'
    BY <1>8, AnswerType DEF FailTelegram
  <1>9. ASSUME NEW i \in Handler, FailDetached(i) PROVE KeyStays'
    BY <1>9 DEF FailDetached
  <1>10. ASSUME NEW i \in Handler, Done(i) PROVE KeyStays'
    BY <1>10, AnswerType DEF Done
  <1>11. CASE EndRun
    BY <1>11 DEF EndRun
  <1>12. CASE GrowOld
    BY <1>12 DEF GrowOld
  <1>13. CASE Crash
    BY <1>13 DEF Crash
  <1>14. CASE UNCHANGED vars
    BY <1>14 DEF vars, used, backend
  <1> QED
        BY <1>1, <1>2, <1>3, <1>4, <1>5, <1>6, <1>7, <1>8, <1>9, <1>10, <1>11,
       <1>12, <1>13, <1>14 DEF Next, Step

\* An attempt that fails after the run was started spends a hazard.
LEMMA StepTriedOnce ==
  ASSUME TypeOK, IndInv, [Next]_vars
  PROVE  TriedOnce'
  <1> USE DEF TypeOK, At, Goto, Return, Idle, used, backend, Spend, Working,
      IndInv, Without, Over, StartedLate, WorksAlone, TriedOnce
  <1>1. ASSUME NEW i \in Handler, Deliver(i) PROVE TriedOnce'
    BY <1>1 DEF Deliver
  <1>2. ASSUME NEW i \in Handler, Claim(i) PROVE TriedOnce'
    BY <1>2, AnswerType DEF Claim
  <1>3. ASSUME NEW i \in Handler, Announce(i) PROVE TriedOnce'
    BY <1>3 DEF Announce
  <1>4. ASSUME NEW i \in Handler, StartRun(i) PROVE TriedOnce'
    BY <1>4 DEF StartRun, Refused, Known, Admit
  <1>5. ASSUME NEW i \in Handler, Bind(i) PROVE TriedOnce'
    BY <1>5 DEF Bind
  <1>6. ASSUME NEW i \in Handler, RunStarted(i) PROVE TriedOnce'
    BY <1>6 DEF RunStarted
  <1>7. ASSUME NEW i \in Handler, Tell(i) PROVE TriedOnce'
    <2>1. CASE Spend("mute")
      BY <1>7, <2>1 DEF Tell
    <2>2. CASE Goto(i, "done") /\ UNCHANGED used
      <3>1. \A j \in Handler : Over(j) => Over(j)'
        BY <2>2
      <3> QED
        BY <1>7, <2>2, <3>1 DEF Tell
    <2> QED
      BY <1>7, <2>1, <2>2 DEF Tell
  <1>8. ASSUME NEW i \in Handler, FailTelegram(i) PROVE TriedOnce'
    BY <1>8, AnswerType DEF FailTelegram
  <1>9. ASSUME NEW i \in Handler, FailDetached(i) PROVE TriedOnce'
    BY <1>9 DEF FailDetached
  <1>10. ASSUME NEW i \in Handler, Done(i) PROVE TriedOnce'
    BY <1>10, AnswerType DEF Done
  <1>11. CASE EndRun
    BY <1>11 DEF EndRun
  <1>12. CASE GrowOld
    BY <1>12 DEF GrowOld
  <1>13. CASE Crash
    BY <1>13 DEF Crash
  <1>14. CASE UNCHANGED vars
    BY <1>14 DEF vars, used, backend
  <1> QED
        BY <1>1, <1>2, <1>3, <1>4, <1>5, <1>6, <1>7, <1>8, <1>9, <1>10, <1>11,
       <1>12, <1>13, <1>14 DEF Next, Step

-----------------------------------------------------------------------------
(* The invariant and what follows from it.                                 *)

\* The inductive invariant of a dispatch holds in every reachable state.
THEOREM Invariance == Spec => [](TypeOK /\ IndInv)
  <1>1. Init => TypeOK /\ IndInv
    BY InitIndInv
  <1>2. TypeOK /\ IndInv /\ [Next]_vars => (TypeOK /\ IndInv)'
    <2> SUFFICES ASSUME TypeOK, IndInv, [Next]_vars PROVE (TypeOK /\ IndInv)'
      OBVIOUS
    <2>1. TypeOK'
      BY StepTypeOK
    <2>2. StartedLate' /\ WorksAlone'
      BY StepStartedLate, StepWorksAlone
    <2>3. RunSeen' /\ RunPerKey'
      BY StepRunSeen, StepRunPerKey
    <2>4. KeyStays' /\ TriedOnce'
      BY StepKeyStays, StepTriedOnce
    <2> QED
      BY <2>1, <2>2, <2>3, <2>4 DEF IndInv
  <1> QED
    BY <1>1, <1>2, PTL DEF Spec

\* A message starts one agent run, but for the failures that OneRun names: the retry
\* loops of relay-chat and the backend's idempotency keys, for any number of them.
THEOREM RunsOnce == Spec => []OneRun
  <1>1. TypeOK /\ IndInv => OneRun
    <2> SUFFICES ASSUME TypeOK, IndInv, runs > 1 PROVE OneRun
      BY DEF OneRun
    <2>1. CASE provider = "telegram"
      <3>1. keys = {"new", "bound"}
        BY <2>1 DEF IndInv, RunPerKey, TypeOK
      <3>2. ~fresh
        BY <3>1 DEF IndInv, RunPerKey
      <3>3. ~Without({"slow", "crash", "unsaved"})
        BY <2>1, <3>1, <3>2 DEF IndInv, KeyStays
      <3> QED
        BY <2>1, <3>2, <3>3 DEF OneRun, Without
    <2>2. CASE provider = "detached"
      <3>1. ~Without({"unheard", "mute", "slow", "crash"})
        BY <2>2 DEF IndInv, TriedOnce, TypeOK
      <3> QED
        BY <2>2, <3>1 DEF OneRun, Without
    <2> QED
      BY <2>1, <2>2 DEF TypeOK
  <1> QED
    BY <1>1, Invariance, PTL

\* The store marks an event completed only when its run was started.
THEOREM CompletedTold == Spec => []CompletedWasRun
  <1>1. IndInv => CompletedWasRun
    BY DEF IndInv, RunSeen, CompletedWasRun
  <1> QED
    BY <1>1, Invariance, PTL

\* Releasing a receipt never reopens a completed one, unless the receipt grew old
\* while its claimant was at work (FileProviderEventStore.release, runtime.ts).
THEOREM StaysCompleted == Spec => CompletedIsFinal
  <1> DEFINE Final ==
      receipt = "completed" => receipt' = "completed" \/ "slow" \in happened
  <1>1. TypeOK /\ IndInv /\ [Next]_vars => [Final]_vars
    <2> SUFFICES ASSUME TypeOK, IndInv, [Next]_vars, receipt = "completed",
                        "slow" \notin happened
                 PROVE  receipt' = "completed"
      OBVIOUS
    <2>1. ASSUME NEW i \in Handler, Deliver(i) \/ Step(i) PROVE receipt' = "completed"
      <3>1. CASE FailTelegram(i)
        <4>1. h[i].started
          BY <3>1 DEF FailTelegram, IndInv, WorksAlone, Working, At
        <4> QED
          BY <3>1, <4>1 DEF FailTelegram
      <3> QED
        BY <2>1, <3>1 DEF Deliver, Step, Claim, Announce, StartRun, Bind, RunStarted,
                          Tell, FailDetached, Done
    <2>2. CASE EndRun \/ GrowOld \/ Crash
      BY <2>2 DEF EndRun, GrowOld, Crash
    <2>3. CASE UNCHANGED vars
      BY <2>3 DEF vars
    <2> QED
      BY <2>1, <2>2, <2>3 DEF Next
  <1> QED
    BY <1>1, Invariance, PTL DEF Spec, CompletedIsFinal

================================================================================
