-------------------------- MODULE ManagedNodeProofs --------------------------
(* Proofs about ManagedNode, for any number of changes, attempts and       *)
(* hazards.                                                                *)
EXTENDS ManagedNode, SequenceTheorems, TLAPS

\* The bounds are numbers, of which 1 is the first generation.
LEMMA Bounds ==
  /\ MaxGeneration \in Nat /\ MaxAttempts \in Nat /\ MaxHazards \in Nat
  /\ 1 \in Generations /\ Possible \subseteq Hazards
  BY HazardsAssumption DEF Generations

\* The indices of a sequence.
LEMMA Domains ==
  ASSUME NEW S, NEW as \in Seq(S)
  PROVE  /\ DOMAIN as = 1 .. Len(as) /\ Len(as) \in Nat
         /\ \A i \in DOMAIN as : as[i] \in S /\ i \in Nat /\ i > 0
         /\ as \in [DOMAIN as -> S]
  <1>1. /\ Len(as) \in Nat /\ as \in [1 .. Len(as) -> S] /\ DOMAIN as = 1 .. Len(as)
    BY LenProperties
  <1>2. \A i \in 1 .. Len(as) : as[i] \in S
    BY <1>1
  <1>3. \A i \in 1 .. Len(as) : i \in Nat /\ i > 0
    BY <1>1
  <1>4. as \in [DOMAIN as -> S]
    BY <1>1
  <1> QED
    BY <1>1, <1>2, <1>3, <1>4, Zenon

\* A function on 1 .. n is a sequence.
LEMMA Sequence ==
  ASSUME NEW S, NEW n \in Nat, NEW f \in [1 .. n -> S]
  PROVE  f \in Seq(S)
  OBVIOUS

\* One record of a sequence is replaced.
LEMMA Replaces ==
  ASSUME NEW S, NEW as \in Seq(S), NEW i \in DOMAIN as, NEW r \in S
  PROVE  /\ [as EXCEPT ![i] = r] \in Seq(S)
         /\ DOMAIN [as EXCEPT ![i] = r] = DOMAIN as
         /\ [as EXCEPT ![i] = r][i] = r
         /\ \A j \in DOMAIN as : j # i => [as EXCEPT ![i] = r][j] = as[j]
  <1>1. i \in 1 .. Len(as) /\ DOMAIN as = 1 .. Len(as) /\ as \in [DOMAIN as -> S]
    BY Domains
  <1>2. [as EXCEPT ![i] = r] \in Seq(S)
    BY <1>1, ExceptSeq
  <1> QED
    BY <1>1, <1>2

-----------------------------------------------------------------------------
(* What a step makes of the attempts.                                      *)

\* A record that is changed otherwise than by a spawn: its generation and that of its
\* process stay, no process comes into being, and a daemon that has a row keeps one.
Follows(a, b) ==
  /\ b \in Record /\ b.gen = a.gen /\ b.spec = a.spec /\ b.inst \in Indices
  /\ a.proc = "gone" => b.proc = "gone"
  /\ a.row # "none" => b.row # "none"
  /\ b.row # "none" => b.status = "succeeded"
  /\ b.proc \in {"enrolled", "registered"} => b.row # "none"

\* So is every record.
Updated(as) ==
  /\ as \in Seq(Record) /\ DOMAIN as = DOMAIN attempts
  /\ \A i \in DOMAIN attempts : Follows(attempts[i], as[i])

\* No change is a change.
LEMMA Stays ==
  ASSUME TypeOK, Enrolled
  PROVE  Updated(attempts)
  BY Domains DEF Updated, Follows, TypeOK, Enrolled

\* One record is changed.
LEMMA Replaced ==
  ASSUME TypeOK, Enrolled, NEW i \in DOMAIN attempts, NEW r, Follows(attempts[i], r)
  PROVE  Updated([attempts EXCEPT ![i] = r])
  <1>1. r \in Record
    BY DEF Follows
  <1>2. /\ [attempts EXCEPT ![i] = r] \in Seq(Record)
        /\ DOMAIN [attempts EXCEPT ![i] = r] = DOMAIN attempts
        /\ [attempts EXCEPT ![i] = r][i] = r
        /\ \A j \in DOMAIN attempts : j # i => [attempts EXCEPT ![i] = r][j] = attempts[j]
    BY <1>1, Replaces DEF TypeOK
  <1> QED
    BY <1>2, Stays DEF Updated

\* A process is stopped, if there is one of that name.
LEMMA Kills ==
  ASSUME TypeOK, Enrolled, NEW i
  PROVE  Updated(Killed(i))
  <1>1. CASE i = None
    BY <1>1, Stays DEF Killed
  <1>2. CASE i # None /\ i \in DOMAIN attempts
    <2> DEFINE r == [attempts[i] EXCEPT !.proc = "gone", !.hung = FALSE]
    <2>1. attempts[i] \in Record
      BY <1>2, Domains DEF TypeOK
    <2>2. Follows(attempts[i], r)
      BY <1>2, <2>1 DEF Follows, Record, Procs, TypeOK
    <2>3. Killed(i) = [attempts EXCEPT ![i] = r]
      BY <1>2, <2>1, Domains DEF Killed, TypeOK
    <2> HIDE DEF r
    <2> QED
      BY <1>2, <2>2, <2>3, Replaced
  <1>3. CASE i # None /\ i \notin DOMAIN attempts
    <2>1. Killed(i) = attempts
      BY <1>3, Domains DEF Killed, TypeOK
    <2> QED
      BY <2>1, Stays
  <1> QED
    BY <1>1, <1>2, <1>3

\* The attempts of an old generation are cancelled.
LEMMA Cancels ==
  ASSUME TypeOK, Enrolled, NEW as, Updated(as)
  PROVE  Updated(Cancelled(as))
  <1>1. as \in [1 .. Len(as) -> Record] /\ Len(as) \in Nat /\ DOMAIN as = 1 .. Len(as)
    BY LenProperties DEF Updated
  <1>2. \A i \in DOMAIN as :
          /\ Cancelled(as)[i] \in Record
          /\ \/ Cancelled(as)[i] = as[i]
             \/ /\ as[i].status = "active"
                /\ Cancelled(as)[i] = [as[i] EXCEPT !.status = "cancelled"]
    BY <1>1 DEF Cancelled, Record, Statuses
  <1>3. DOMAIN Cancelled(as) = DOMAIN as /\ Cancelled(as) \in [1 .. Len(as) -> Record]
    BY <1>1, <1>2 DEF Cancelled
  <1>4. Cancelled(as) \in Seq(Record)
    BY <1>1, <1>3, Sequence
  <1>5. \A i \in DOMAIN attempts : Follows(attempts[i], Cancelled(as)[i])
    <2> SUFFICES ASSUME NEW i \in DOMAIN attempts
                 PROVE  Follows(attempts[i], Cancelled(as)[i])
      OBVIOUS
    <2>1. Follows(attempts[i], as[i]) /\ i \in DOMAIN as
      BY DEF Updated
    <2>2. CASE Cancelled(as)[i] = as[i]
      BY <2>1, <2>2
    <2>3. CASE as[i].status = "active" /\ Cancelled(as)[i] = [as[i] EXCEPT !.status = "cancelled"]
      BY <2>1, <2>3, <1>2 DEF Follows, Record
    <2> QED
      BY <1>2, <2>1, <2>2, <2>3
  <1> QED
    BY <1>3, <1>4, <1>5 DEF Updated

\* The daemon of the node is fenced.
LEMMA RetiresRow ==
  ASSUME TypeOK, Enrolled, node.daemon # None
  PROVE  Updated([attempts EXCEPT ![node.daemon].row = "retired"])
  <1> DEFINE r == [attempts[node.daemon] EXCEPT !.row = "retired"]
  <1>1. node.daemon \in DOMAIN attempts
    BY DEF TypeOK, Named, Indices
  <1>2. attempts[node.daemon] \in Record
    BY <1>1, Domains DEF TypeOK
  <1>3. Follows(attempts[node.daemon], r)
    BY <1>1, <1>2 DEF Follows, Record, Rows, TypeOK, Enrolled
  <1> HIDE DEF r
  <1>4. Updated([attempts EXCEPT ![node.daemon] = r])
    BY <1>1, <1>3, Replaced
  <1> QED
    BY <1>4 DEF r

\* An attempt fails that had not succeeded.
LEMMA Fails ==
  ASSUME TypeOK, Enrolled, NEW i \in DOMAIN attempts,
         attempts[i].status \in {"active", "failed"}
  PROVE  Updated([attempts EXCEPT ![i].status = "failed"])
  <1> DEFINE r == [attempts[i] EXCEPT !.status = "failed"]
  <1>1. attempts[i] \in Record
    BY Domains DEF TypeOK
  <1>2. Follows(attempts[i], r)
    BY <1>1 DEF Follows, Record, Statuses, TypeOK, Enrolled
  <1> HIDE DEF r
  <1>3. Updated([attempts EXCEPT ![i] = r])
    BY <1>2, Replaced
  <1> QED
    BY <1>3 DEF r

\* Every step but a creation or a spawn only changes records.
LEMMA StepUpdates ==
  ASSUME TypeOK, IndInv, [Next]_vars
  PROVE  Updated(attempts') \/ Create \/ Spawn
  <1> USE DEF IndInv
  <1>1. ASSUME NEW s \in Desires, SetDesired(s) PROVE Updated(attempts') \/ Create \/ Spawn
    <2> DEFINE as == IF s # "running" /\ node.daemon # None
                     THEN [attempts EXCEPT ![node.daemon].row = "retired"] ELSE attempts
    <2>1. CASE as = attempts
      BY <1>1, <2>1, Stays, Cancels DEF SetDesired
    <2>2. CASE node.daemon # None /\ as = [attempts EXCEPT ![node.daemon].row = "retired"]
      <3>1. Updated(as)
        BY <2>2, RetiresRow
      <3> QED
        BY <1>1, <3>1, Cancels DEF SetDesired
    <2> QED
      BY <2>1, <2>2
  <1>2. CASE Reconfigure
    BY <1>2, Stays, Cancels DEF Reconfigure
  <1>3. CASE ListNodes
    BY <1>3, Stays DEF ListNodes
  <1>4. CASE ListDaemons
    BY <1>4, Stays DEF ListDaemons
  <1>5. CASE Decide
    BY <1>5, Stays DEF Decide
  <1>6. CASE Retire
    BY <1>6, Stays, RetiresRow DEF Retire
  <1>7. CASE Stop
    BY <1>7, Kills DEF Stop
  <1>8. CASE Recycle
    BY <1>8, Kills DEF Recycle
  <1>9. CASE Clear
    BY <1>9, Kills DEF Clear
  <1>10. CASE Examine
    BY <1>10, Kills, Stays DEF Examine
  <1>11. CASE Abandon
    <2>1. UNCHANGED attempts \/ /\ Failed(sup.node.attempt)
                                /\ attempts[sup.node.attempt].status \in {"active", "failed"}
      BY <1>11 DEF Abandon
    <2>2. sup.node.attempt \in DOMAIN attempts
      BY <1>11 DEF Abandon, At, IndInv, Prepared, Named, Indices
    <2> QED
      BY <2>1, <2>2, Stays, Fails DEF Failed
  <1>12. CASE Create
    BY <1>12 DEF Create
  <1>13. CASE Allocate
    BY <1>13, Stays DEF Allocate
  <1>14. CASE Ensure
    BY <1>14, Stays DEF Ensure
  <1>15. CASE Spawn
    BY <1>15 DEF Spawn
  <1>16. CASE Write
    BY <1>16, Stays DEF Write
  <1>17. CASE Link
    <2> DEFINE r == [attempts[sup.made] EXCEPT !.inst = sup.inst]
    <2>1. sup.made \in DOMAIN attempts /\ sup.inst \in Indices /\ sup.inst \in Nat
      BY <1>17 DEF Link, At, IndInv, Prepared, Indices
    <2>2. attempts[sup.made] \in Record
      BY <2>1, Domains DEF TypeOK
    <2>3. Follows(attempts[sup.made], r)
      BY <2>1, <2>2 DEF Follows, Record, TypeOK, Enrolled
    <2>4. UNCHANGED attempts \/ attempts' = [attempts EXCEPT ![sup.made] = r]
      BY <1>17, <2>1 DEF Link
    <2> HIDE DEF r
    <2> QED
      BY <2>1, <2>3, <2>4, Replaced, Stays
  <1>18. CASE GiveUp
    <2>1. \/ UNCHANGED attempts
          \/ Failed(sup.made) /\ attempts[sup.made].status = "active"
      BY <1>18 DEF GiveUp
    <2>2. sup.made \in DOMAIN attempts
      BY <1>18 DEF GiveUp, At, IndInv, Prepared, Indices
    <2> QED
      BY <2>1, <2>2, Stays, Fails DEF Failed
  <1>19. CASE CallLost
    BY <1>19, Stays DEF CallLost
  <1>20. CASE Crash
    BY <1>20, Stays DEF Crash
  <1>21. ASSUME NEW i \in DOMAIN attempts, Enroll(i)
        PROVE  Updated(attempts') \/ Create \/ Spawn
    <2>1. CASE attempts' = Killed(i)
      BY <2>1, Kills
    <2>2. CASE attempts' # Killed(i)
      <3> DEFINE r(heard) == [attempts[i] EXCEPT !.status = "succeeded",
                                !.row = IF @ = "none" THEN "fresh" ELSE @,
                                !.proc = IF heard THEN "enrolled" ELSE @]
      <3>1. attempts[i] \in Record
        BY Domains DEF TypeOK
      <3>2. PICK heard \in BOOLEAN : attempts' = [attempts EXCEPT ![i] = r(heard)]
        BY <1>21, <2>2 DEF Enroll
      <3>3. Follows(attempts[i], r(heard))
        BY <1>21, <3>1 DEF Enroll, Follows, Record, Procs, Rows, Statuses, TypeOK
      <3> HIDE DEF r
      <3> QED
        BY <3>2, <3>3, Replaced
    <2> QED
      BY <2>1, <2>2
  <1>22. ASSUME NEW i \in DOMAIN attempts, Register(i)
        PROVE  Updated(attempts') \/ Create \/ Spawn
    <2> DEFINE r == [attempts[i] EXCEPT !.proc = "registered",
                                 !.row = IF @ = "retired" THEN @ ELSE "fresh"]
    <2>1. attempts[i] \in Record
      BY Domains DEF TypeOK
    <2>2. Follows(attempts[i], r)
      BY <1>22, <2>1 DEF Register, Follows, Record, Procs, Rows, TypeOK, Enrolled
    <2>3. attempts' = [attempts EXCEPT ![i] = r]
      BY <1>22 DEF Register
    <2> HIDE DEF r
    <2> QED
      BY <2>2, <2>3, Replaced
  <1>23. ASSUME NEW i \in DOMAIN attempts, Heartbeat(i)
        PROVE  Updated(attempts') \/ Create \/ Spawn
    <2> DEFINE r == [attempts[i] EXCEPT !.row = "fresh"]
    <2>1. attempts[i] \in Record
      BY Domains DEF TypeOK
    <2>2. Follows(attempts[i], r)
      BY <1>23, <2>1 DEF Heartbeat, Follows, Record, Procs, Rows, TypeOK, Enrolled
    <2>3. attempts' = [attempts EXCEPT ![i] = r]
      BY <1>23 DEF Heartbeat
    <2> HIDE DEF r
    <2> QED
      BY <2>2, <2>3, Replaced
  <1>24. ASSUME NEW i \in DOMAIN attempts, FallSilent(i)
        PROVE  Updated(attempts') \/ Create \/ Spawn
    <2> DEFINE r == [attempts[i] EXCEPT !.row = IF @ = "fresh" THEN "recent" ELSE "old"]
    <2>1. attempts[i] \in Record
      BY Domains DEF TypeOK
    <2>2. Follows(attempts[i], r)
      BY <1>24, <2>1 DEF FallSilent, Follows, Record, Procs, Rows, TypeOK, Enrolled
    <2>3. attempts' = [attempts EXCEPT ![i] = r]
      BY <1>24 DEF FallSilent
    <2> HIDE DEF r
    <2> QED
      BY <2>2, <2>3, Replaced
  <1>25. ASSUME NEW i \in DOMAIN attempts, Exit(i)
        PROVE  Updated(attempts') \/ Create \/ Spawn
    BY <1>25, Kills DEF Exit
  <1>26. ASSUME NEW i \in DOMAIN attempts, Hang(i)
        PROVE  Updated(attempts') \/ Create \/ Spawn
    <2> DEFINE r == [attempts[i] EXCEPT !.hung = TRUE]
    <2>1. attempts[i] \in Record
      BY Domains DEF TypeOK
    <2>2. Follows(attempts[i], r)
      BY <1>26, <2>1 DEF Hang, Follows, Record, Procs, Rows, TypeOK, Enrolled
    <2>3. attempts' = [attempts EXCEPT ![i] = r]
      BY <1>26 DEF Hang
    <2> HIDE DEF r
    <2> QED
      BY <2>2, <2>3, Replaced
  <1>27. ASSUME NEW i \in DOMAIN attempts, Resume(i)
        PROVE  Updated(attempts') \/ Create \/ Spawn
    <2> DEFINE r == [attempts[i] EXCEPT !.hung = FALSE]
    <2>1. attempts[i] \in Record
      BY Domains DEF TypeOK
    <2>2. Follows(attempts[i], r)
      BY <1>27, <2>1 DEF Resume, Follows, Record, Procs, Rows, TypeOK, Enrolled
    <2>3. attempts' = [attempts EXCEPT ![i] = r]
      BY <1>27 DEF Resume
    <2> HIDE DEF r
    <2> QED
      BY <2>2, <2>3, Replaced
  <1>28. ASSUME NEW g \in Generations, GrowStale(g) PROVE Updated(attempts') \/ Create \/ Spawn
    BY <1>28, Stays DEF GrowStale
  <1>29. ASSUME NEW g \in Generations, RetryDue(g) PROVE Updated(attempts') \/ Create \/ Spawn
    BY <1>29, Stays DEF RetryDue
  <1>30. CASE UNCHANGED vars
    BY <1>30, Stays DEF vars, used
  <1> QED
    BY <1>1, <1>2, <1>3, <1>4, <1>5, <1>6, <1>7, <1>8, <1>9, <1>10, <1>11, <1>12,
       <1>13, <1>14, <1>15, <1>16, <1>17, <1>18, <1>19, <1>20, <1>21, <1>22, <1>23,
       <1>24, <1>25, <1>26, <1>27, <1>28, <1>29, <1>30 DEF Next, Pass, Daemon,
       Desires

\* A creation adds an attempt without a process, or does nothing.
LEMMA Creates ==
  ASSUME TypeOK, IndInv, Create
  PROVE  \/ UNCHANGED <<attempts, node>>
         \/ LET n == Len(attempts) + 1 IN
            /\ attempts' \in Seq(Record) /\ n \notin DOMAIN attempts
            /\ DOMAIN attempts' = DOMAIN attempts \cup {n}
            /\ attempts'[n] = NewAttempt(node.gen)
            /\ \A i \in DOMAIN attempts : attempts'[i] = attempts[i]
            /\ node' = [node EXCEPT !.phase = "changing", !.attempt = n]
  <1> DEFINE n == Len(attempts) + 1
  <1>1. CASE UNCHANGED <<attempts, node>>
    BY <1>1
  <1>2. CASE ~UNCHANGED <<attempts, node>>
    <2>1. /\ attempts' = Append(attempts, NewAttempt(node.gen))
          /\ node' = [node EXCEPT !.phase = "changing", !.attempt = n]
      BY <1>2 DEF Create
    <2>2. NewAttempt(node.gen) \in Record
      BY DEF NewAttempt, Record, TypeOK, Named, NodeRow, Statuses, Procs, Rows, None
    <2>3. /\ attempts' \in Seq(Record) /\ Len(attempts') = n /\ Len(attempts) \in Nat
          /\ \A i \in 1 .. Len(attempts) : attempts'[i] = attempts[i]
          /\ attempts'[n] = NewAttempt(node.gen)
      BY <2>1, <2>2, AppendProperties, LenProperties DEF TypeOK
    <2>4. DOMAIN attempts = 1 .. Len(attempts) /\ DOMAIN attempts' = 1 .. n
      BY <2>3, Domains DEF TypeOK
    <2>5. 1 .. n = 1 .. Len(attempts) \cup {n} /\ n \notin 1 .. Len(attempts)
      BY <2>3
    <2> HIDE DEF n
    <2>6. \/ UNCHANGED <<attempts, node>>
          \/ /\ attempts' \in Seq(Record) /\ n \notin DOMAIN attempts
             /\ DOMAIN attempts' = DOMAIN attempts \cup {n}
             /\ attempts'[n] = NewAttempt(node.gen)
             /\ \A i \in DOMAIN attempts : attempts'[i] = attempts[i]
             /\ node' = [node EXCEPT !.phase = "changing", !.attempt = n]
      BY <2>1, <2>3, <2>4, <2>5
    <2> QED
      BY <2>6 DEF n
  <1> QED
    BY <1>1, <1>2

\* A spawn gives the attempt of the pass a process, of the generation of the pass.
LEMMA Spawns ==
  ASSUME TypeOK, IndInv, Spawn
  PROVE  \/ UNCHANGED attempts /\ sup'.pc = "giveUp"
         \/ /\ sup.made \in DOMAIN attempts /\ attempts' \in Seq(Record)
            /\ DOMAIN attempts' = DOMAIN attempts
            /\ attempts'[sup.made] = [attempts[sup.made] EXCEPT !.proc = "booting",
                                                              !.spec = sup.node.gen]
            /\ \A i \in DOMAIN attempts : i # sup.made => attempts'[i] = attempts[i]
            /\ sup' = [sup EXCEPT !.pc = "write"] /\ UNCHANGED file
  <1> DEFINE r == [attempts[sup.made] EXCEPT !.proc = "booting", !.spec = sup.node.gen]
  <1>1. sup.made \in DOMAIN attempts /\ sup.pc = "spawn" /\ sup.node \in NodeRow
    BY DEF Spawn, At, IndInv, Prepared, Indices, Named
  <1>2. attempts[sup.made] \in Record
    BY <1>1, Domains DEF TypeOK
  <1>3. r \in Record
    BY <1>1, <1>2 DEF Record, NodeRow, Procs
  <1>4. \/ UNCHANGED attempts /\ sup' = [sup EXCEPT !.pc = "giveUp"]
        \/ /\ attempts' = [attempts EXCEPT ![sup.made] = r]
           /\ sup' = [sup EXCEPT !.pc = "write"] /\ UNCHANGED file
    BY <1>1, <1>2, Domains DEF Spawn, TypeOK
  <1>5. sup \in [pc : PCs, node : NodeRow, seen : Rows, made : Nat, inst : Nat]
    BY DEF IndInv, Prepared
  <1> HIDE DEF r
  <1>6. attempts' = [attempts EXCEPT ![sup.made] = r] =>
          /\ attempts' \in Seq(Record) /\ DOMAIN attempts' = DOMAIN attempts
          /\ attempts'[sup.made] = r
          /\ \A i \in DOMAIN attempts : i # sup.made => attempts'[i] = attempts[i]
    BY <1>1, <1>3, Replaces DEF TypeOK
  <1>7. sup' = [sup EXCEPT !.pc = "giveUp"] => sup'.pc = "giveUp"
    BY <1>5
  <1> QED
    BY <1>1, <1>4, <1>6, <1>7 DEF r

\* No attempt is forgotten, nor its generation, nor the row of its daemon.
LEMMA Grows ==
  ASSUME TypeOK, IndInv, [Next]_vars
  PROVE  /\ attempts' \in Seq(Record) /\ DOMAIN attempts \subseteq DOMAIN attempts'
         /\ Indices \subseteq Indices'
         /\ \A i \in DOMAIN attempts :
              /\ attempts'[i].gen = attempts[i].gen
              /\ attempts[i].row # "none" => attempts'[i].row # "none"
  <1>1. CASE Updated(attempts')
    BY <1>1 DEF Updated, Follows, Indices
  <1>2. CASE Create
    BY <1>2, Creates DEF TypeOK, Indices
  <1>3. CASE Spawn
    <2>1. CASE UNCHANGED attempts
      BY <2>1, Stays DEF Updated, Follows, Indices, IndInv
    <2>2. CASE ~UNCHANGED attempts
      <3>1. attempts[sup.made] \in Record /\ sup.made \in DOMAIN attempts
        BY <1>3, <2>2, Spawns, Domains DEF TypeOK
      <3>2. /\ attempts'[sup.made].gen = attempts[sup.made].gen
            /\ attempts'[sup.made].row = attempts[sup.made].row
        BY <1>3, <2>2, <3>1, Spawns DEF Record
      <3> QED
        BY <1>3, <2>2, <3>2, Spawns DEF Indices
    <2> QED
      BY <2>1, <2>2
  <1> QED
    BY <1>1, <1>2, <1>3, StepUpdates

\* The record of a node with another attempt.
LEMMA NodeFields ==
  ASSUME TypeOK, NEW k \in Nat,
         node' = [node EXCEPT !.phase = "changing", !.attempt = k]
  PROVE  /\ node' \in NodeRow /\ node'.gen = node.gen /\ node'.attempt = k
         /\ node'.daemon = node.daemon
  <1>1. node \in NodeRow
    BY DEF TypeOK, Named
  <1> QED
    BY <1>1 DEF NodeRow, Phases

\* The record of the node names what there is, and its daemon has a row.
LEMMA StepNode ==
  ASSUME TypeOK, IndInv, [Next]_vars
  PROVE  /\ node' \in NodeRow /\ node.gen <= node'.gen /\ node'.attempt \in Indices'
         /\ \/ node'.daemon = node.daemon
            \/ /\ node'.daemon \in DOMAIN attempts
               /\ attempts'[node'.daemon].row # "none"
  <1> DEFINE Goal ==
         /\ node' \in NodeRow /\ node.gen <= node'.gen /\ node'.attempt \in Indices'
         /\ \/ node'.daemon = node.daemon
            \/ /\ node'.daemon \in DOMAIN attempts
               /\ attempts'[node'.daemon].row # "none"
  <1> USE DEF Named
  <1>0. /\ node \in NodeRow /\ node.gen \in Nat /\ node.attempt \in Indices
        /\ \A x \in Indices : x \in Indices'
    BY Grows DEF TypeOK, NodeRow, Generations
  <1>a. UNCHANGED node => Goal
    BY <1>0
  <1>1. ASSUME NEW s \in Desires, SetDesired(s) PROVE Goal
    <2>1. node.gen \in Generations /\ node.gen < MaxGeneration
      BY <1>0, <1>1 DEF SetDesired, NodeRow
    <2>2. node.gen + 1 \in Generations /\ node.gen <= node.gen + 1
      BY <2>1, Bounds DEF Generations
    <2> QED
      BY <1>0, <1>1, <2>2 DEF SetDesired, NodeRow, Desires, Phases, Indices, None
  <1>2. CASE Reconfigure
    <2>1. node.gen \in Generations /\ node.gen < MaxGeneration
      BY <1>0, <1>2 DEF Reconfigure, NodeRow
    <2>2. node.gen + 1 \in Generations /\ node.gen <= node.gen + 1
      BY <2>1, Bounds DEF Generations
    <2> QED
      BY <1>0, <1>2, <2>2 DEF Reconfigure, NodeRow, Desires, Phases, Indices, None
  <1>3. CASE ListNodes
    BY <1>3, <1>a DEF ListNodes
  <1>4. CASE ListDaemons
    BY <1>4, <1>a DEF ListDaemons
  <1>5. CASE Decide
    BY <1>5, <1>a DEF Decide
  <1>6. CASE Retire
    BY <1>6, <1>a DEF Retire
  <1>7. CASE Stop
    <2>1. UNCHANGED node \/ \E p \in Phases : node' = [node EXCEPT !.phase = p]
      BY <1>7 DEF Stop, At, IndInv, Prepared, Named, NodeRow, Phases, Desires
    <2> QED
      BY <1>0, <2>1 DEF NodeRow
  <1>8. CASE Recycle
    <2>1. UNCHANGED node \/ \E p \in Phases : node' = [node EXCEPT !.phase = p]
      BY <1>8 DEF Recycle, IndInv, Prepared, Named, NodeRow, Phases, Desires
    <2> QED
      BY <1>0, <2>1 DEF NodeRow
  <1>9. CASE Clear
    BY <1>9, <1>a DEF Clear
  <1>10. CASE Examine
    BY <1>10, <1>a DEF Examine
  <1>11. CASE Abandon
    <2>1. CASE UNCHANGED node
      BY <2>1, <1>a
    <2>2. CASE ~UNCHANGED node
      <3>1. PICK k \in {None, node.attempt} :
              node' = [node EXCEPT !.phase = "changing", !.attempt = k]
        BY <1>11, <2>2 DEF Abandon, Failed
      <3>2. k \in Nat /\ k \in Indices'
        BY <1>0, <3>1 DEF NodeRow, None, Indices
      <3>3. /\ node' \in NodeRow /\ node'.gen = node.gen /\ node'.attempt = k
            /\ node'.daemon = node.daemon
        BY <3>1, <3>2, NodeFields
      <3> QED
        BY <1>0, <3>2, <3>3
    <2> QED
      BY <2>1, <2>2
  <1>12. CASE Create
    <2>1. CASE UNCHANGED node
      BY <2>1, <1>a
    <2>2. CASE ~UNCHANGED node
      <3> DEFINE k == Len(attempts) + 1
      <3>1. /\ node' = [node EXCEPT !.phase = "changing", !.attempt = k]
            /\ k \in DOMAIN attempts'
        BY <1>12, <2>2, Creates
      <3>2. k \in Nat
        BY Domains DEF TypeOK
      <3> HIDE DEF k
      <3>3. k \in Indices'
        BY <3>1 DEF Indices
      <3>4. /\ node' \in NodeRow /\ node'.gen = node.gen /\ node'.attempt = k
            /\ node'.daemon = node.daemon
        BY <3>1, <3>2, NodeFields
      <3> QED
        BY <1>0, <3>3, <3>4
    <2> QED
      BY <2>1, <2>2
  <1>13. CASE Allocate
    <2>1. UNCHANGED node \/ \E p \in Phases : node' = [node EXCEPT !.phase = p]
      BY <1>13 DEF Allocate, IndInv, Prepared, Named, NodeRow, Phases, Desires
    <2> QED
      BY <1>0, <2>1 DEF NodeRow
  <1>14. CASE Ensure
    BY <1>14, <1>a DEF Ensure
  <1>15. CASE Spawn
    BY <1>15, <1>a DEF Spawn
  <1>16. CASE Write
    BY <1>16, <1>a DEF Write
  <1>17. CASE Link
    <2>1. UNCHANGED node \/ \E p \in Phases : node' = [node EXCEPT !.phase = p]
      BY <1>17 DEF Link, IndInv, Prepared, Named, NodeRow, Phases, Desires
    <2> QED
      BY <1>0, <2>1 DEF NodeRow
  <1>18. CASE GiveUp
    <2>1. CASE UNCHANGED node
      BY <2>1, <1>a
    <2>2. CASE ~UNCHANGED node
      <3>1. PICK k \in {None, node.attempt} :
              node' = [node EXCEPT !.phase = "changing", !.attempt = k]
        BY <1>18, <2>2 DEF GiveUp, Failed
      <3>2. k \in Nat /\ k \in Indices'
        BY <1>0, <3>1 DEF NodeRow, None, Indices
      <3>3. /\ node' \in NodeRow /\ node'.gen = node.gen /\ node'.attempt = k
            /\ node'.daemon = node.daemon
        BY <3>1, <3>2, NodeFields
      <3> QED
        BY <1>0, <3>2, <3>3
    <2> QED
      BY <2>1, <2>2
  <1>19. CASE CallLost
    BY <1>19, <1>a DEF CallLost
  <1>20. CASE Crash
    BY <1>20, <1>a DEF Crash
  <1>21. ASSUME NEW i \in DOMAIN attempts, Enroll(i)
        PROVE  Goal
    <2>1. CASE UNCHANGED node
      BY <2>1, <1>a
    <2>2. CASE ~UNCHANGED node
      <3>1. /\ node' = [node EXCEPT !.phase = "changing", !.daemon = i, !.attempt = None]
            /\ \E heard \in BOOLEAN :
                 attempts' = [attempts EXCEPT ![i].status = "succeeded",
                                              ![i].row = IF @ = "none" THEN "fresh" ELSE @,
                                              ![i].proc = IF heard THEN "enrolled" ELSE @]
        BY <1>21, <2>2 DEF Enroll
      <3>2. attempts[i] \in Record /\ i \in Nat
        BY Domains DEF TypeOK
      <3>3. attempts'[i].row # "none"
        <4>1. PICK heard \in BOOLEAN :
                attempts' = [attempts EXCEPT ![i].status = "succeeded",
                                             ![i].row = IF @ = "none" THEN "fresh" ELSE @,
                                             ![i].proc = IF heard THEN "enrolled" ELSE @]
          BY <3>1
        <4>2. i \in DOMAIN attempts /\ attempts \in [DOMAIN attempts -> Record]
          BY Domains DEF TypeOK
        <4>3. attempts'[i].row = IF attempts[i].row = "none" THEN "fresh" ELSE attempts[i].row
          BY <3>2, <4>1, <4>2 DEF Record
        <4> QED
          BY <4>3
      <3>4. None \in Nat /\ None \in Indices'
        BY DEF None, Indices
      <3>5. /\ node' \in NodeRow /\ node'.gen = node.gen /\ node'.attempt = None
            /\ node'.daemon = i
        BY <1>0, <3>1, <3>2, <3>4 DEF NodeRow, Phases
      <3> QED
        BY <1>0, <3>3, <3>4, <3>5
    <2> QED
      BY <2>1, <2>2
  <1>22. ASSUME NEW i \in DOMAIN attempts, Register(i)
        PROVE  Goal
    <2>1. UNCHANGED node \/ \E p \in Phases : node' = [node EXCEPT !.phase = p]
      BY <1>22 DEF Register, IndInv, Prepared, Named, NodeRow, Phases, Desires
    <2> QED
      BY <1>0, <2>1 DEF NodeRow
  <1>23. ASSUME NEW i \in DOMAIN attempts, Heartbeat(i)
        PROVE  Goal
    BY <1>23, <1>a DEF Heartbeat
  <1>24. ASSUME NEW i \in DOMAIN attempts, FallSilent(i)
        PROVE  Goal
    BY <1>24, <1>a DEF FallSilent
  <1>25. ASSUME NEW i \in DOMAIN attempts, Exit(i)
        PROVE  Goal
    BY <1>25, <1>a DEF Exit
  <1>26. ASSUME NEW i \in DOMAIN attempts, Hang(i)
        PROVE  Goal
    BY <1>26, <1>a DEF Hang
  <1>27. ASSUME NEW i \in DOMAIN attempts, Resume(i)
        PROVE  Goal
    BY <1>27, <1>a DEF Resume
  <1>28. ASSUME NEW g \in Generations, GrowStale(g) PROVE Goal
    BY <1>28, <1>a DEF GrowStale
  <1>29. ASSUME NEW g \in Generations, RetryDue(g) PROVE Goal
    BY <1>29, <1>a DEF RetryDue
  <1>30. CASE UNCHANGED vars
    BY <1>30, <1>a DEF vars, used
  <1> QED
    BY <1>1, <1>2, <1>3, <1>4, <1>5, <1>6, <1>7, <1>8, <1>9, <1>10, <1>11, <1>12,
       <1>13, <1>14, <1>15, <1>16, <1>17, <1>18, <1>19, <1>20, <1>21, <1>22, <1>23,
       <1>24, <1>25, <1>26, <1>27, <1>28, <1>29, <1>30 DEF Next, Pass, Daemon,
       Desires

\* What was named before a step is named after it.
LEMMA StaysNamed ==
  ASSUME TypeOK, IndInv, [Next]_vars, NEW n, Named(n)
  PROVE  Named(n)'
  <1>1. /\ Indices \subseteq Indices' /\ node.gen <= node'.gen
        /\ node' \in NodeRow /\ node \in NodeRow
    BY Grows, StepNode DEF TypeOK, Named
  <1>2. n \in NodeRow /\ n.gen <= node.gen /\ {n.attempt, n.daemon} \subseteq Indices
    BY DEF Named
  <1>3. n.gen \in Nat /\ node.gen \in Nat /\ node'.gen \in Nat
    BY <1>1, <1>2 DEF NodeRow, Generations
  <1> QED
    BY <1>1, <1>2, <1>3 DEF Named

\* What a pass needs at p.
Needs(p, n, made) ==
  /\ p \in PCs
  /\ p \in {"allocate", "ensure", "spawn", "write", "link", "giveUp"} => made # None
  /\ p = "abandon" => n.attempt # None
  /\ p \in {"retireStopped", "stop"} => n.desired # "running"

\* A pass that has what it needs is prepared.
LEMMA PassPrepared ==
  ASSUME TypeOK, IndInv, [Next]_vars,
         NEW p, NEW n, NEW seen \in Rows, NEW made \in Indices', NEW inst \in Indices',
         sup' = [pc |-> p, node |-> n, seen |-> seen, made |-> made, inst |-> inst],
         Named(n)', Needs(p, n, made)
  PROVE  Prepared'
  <1>1. made \in Nat /\ inst \in Nat
    <2>1. attempts' \in Seq(Record)
      BY Grows
    <2>2. \A i \in DOMAIN attempts' : i \in Nat
      BY <2>1, Domains
    <2> QED
      BY <2>2 DEF Indices, None
  <1>2. n \in NodeRow
    BY DEF Named
  <1>3. /\ sup'.pc = p /\ sup'.node = n /\ sup'.seen = seen /\ sup'.made = made
        /\ sup'.inst = inst
    OBVIOUS
  <1>4. sup' \in [pc : PCs, node : NodeRow, seen : Rows, made : Nat, inst : Nat]
    BY <1>1, <1>2 DEF Needs
  <1> QED
    BY <1>3, <1>4 DEF Prepared, Needs

\* The parts of a pass.
LEMMA PassParts ==
  ASSUME IndInv
  PROVE  /\ sup = [pc |-> sup.pc, node |-> sup.node, seen |-> sup.seen,
                   made |-> sup.made, inst |-> sup.inst]
         /\ sup.seen \in Rows /\ Named(sup.node) /\ sup.made \in Indices
         /\ sup.inst \in Indices /\ Needs(sup.pc, sup.node, sup.made)
  BY DEF IndInv, Prepared, Needs

\* A pass that begins again has nothing.
LEMMA Rests ==
  ASSUME TypeOK, IndInv, [Next]_vars, sup' = Resting
  PROVE  Prepared'
  <1>1. None \in Indices' /\ "none" \in Rows /\ "idle" \in PCs
    BY DEF Indices, Rows, PCs
  <1>2. node' \in NodeRow /\ node'.gen \in Generations
    BY StepNode DEF NodeRow
  <1>3. Named(NewNode)'
    <2>1. 1 \in Generations /\ 1 <= node'.gen
      BY <1>2, Bounds DEF Generations
    <2> QED
      BY <1>1, <2>1 DEF Named, NewNode, NodeRow, Desires, Phases, None
  <1>4. Needs("idle", NewNode, None)
    BY <1>1 DEF Needs
  <1> QED
    BY <1>1, <1>3, <1>4, PassPrepared DEF Resting

\* A pass goes on to a step it has what it needs for.
LEMMA GoesOn ==
  ASSUME TypeOK, IndInv, [Next]_vars, NEW p, Needs(p, sup.node, sup.made), Goto(p)
  PROVE  Prepared'
  <1>1. CASE p = "idle"
    BY <1>1, Rests DEF Goto
  <1>2. CASE p # "idle"
    <2>1. sup' = [pc |-> p, node |-> sup.node, seen |-> sup.seen, made |-> sup.made,
                  inst |-> sup.inst]
      BY <1>2, PassParts DEF Goto
    <2> DEFINE n == sup.node
               made == sup.made
               inst == sup.inst
               seen == sup.seen
    <2>2. Named(n) /\ made \in Indices' /\ inst \in Indices' /\ seen \in Rows
      BY PassParts, Grows
    <2> QED
      BY <2>1, <2>2, StaysNamed, PassPrepared
  <1> QED
    BY <1>1, <1>2

\* Whatever happens, a pass can end, or give up what it made.
LEMMA Throws ==
  ASSUME TypeOK, IndInv, [Next]_vars, Throw
  PROVE  Prepared'
  <1>1. Needs("idle", sup.node, sup.made)
    BY DEF Needs, PCs
  <1>2. sup.pc \in {"allocate", "link"} => Needs("giveUp", sup.node, sup.made)
    BY PassParts DEF Needs, PCs
  <1> QED
    BY <1>1, <1>2, GoesOn DEF Throw

\* A pass that stays is prepared.
LEMMA PassStays ==
  ASSUME TypeOK, IndInv, [Next]_vars, UNCHANGED sup
  PROVE  Prepared'
  <1> DEFINE n == sup.node
             made == sup.made
             inst == sup.inst
             seen == sup.seen
             p == sup.pc
  <1>1. Named(n) /\ made \in Indices' /\ inst \in Indices' /\ seen \in Rows
        /\ Needs(p, n, made)
        /\ sup = [pc |-> p, node |-> n, seen |-> seen, made |-> made, inst |-> inst]
    BY PassParts, Grows
  <1> HIDE DEF n, made, inst, seen, p
  <1>2. sup' = [pc |-> p, node |-> n, seen |-> seen, made |-> made, inst |-> inst]
    BY <1>1
  <1> QED
    BY <1>1, <1>2, StaysNamed, PassPrepared

\* A pass has what its next step needs.
LEMMA StepPrepared ==
  ASSUME TypeOK, IndInv, [Next]_vars
  PROVE  Prepared'
  <1>1. ASSUME NEW s \in Desires, SetDesired(s) PROVE Prepared'
    BY <1>1, PassStays DEF SetDesired
  <1>2. CASE Reconfigure
    BY <1>2, PassStays DEF Reconfigure
  <1>3. CASE ListNodes
    <2> DEFINE m == node
    <2>1. /\ sup' = [pc |-> "listDaemons", node |-> m, seen |-> "none", made |-> None,
                     inst |-> None]
          /\ Needs("listDaemons", m, None) /\ None \in Indices' /\ "none" \in Rows
      BY <1>3 DEF ListNodes, Resting, Needs, PCs, Indices, Rows
    <2>2. Named(m)
      BY DEF TypeOK
    <2> HIDE DEF m
    <2> QED
      BY <2>1, <2>2, StaysNamed, PassPrepared
  <1>4. CASE ListDaemons
    <2> DEFINE m == sup.node
               made == sup.made
               inst == sup.inst
               row == IF m.daemon = None \/ attempts[m.daemon].row = "retired"
                        THEN "none" ELSE attempts[m.daemon].row
    <2>1. /\ sup' = [pc |-> "decide", node |-> m, seen |-> row, made |-> made,
                     inst |-> inst]
          /\ Needs("decide", m, made) /\ made \in Indices' /\ inst \in Indices' /\ Named(m)
      BY <1>4, PassParts, Grows DEF ListDaemons, Needs, PCs
    <2>2. row \in Rows
      <3>1. m.daemon = None \/ attempts[m.daemon] \in Record
        BY <2>1, Domains DEF Named, Indices, TypeOK
      <3> QED
        BY <3>1 DEF Record, Rows
    <2> HIDE DEF m, made, inst, row
    <2> QED
      BY <2>1, <2>2, StaysNamed, PassPrepared
  <1>5. CASE Decide
    <2>1. PICK p \in {"idle", "examine", "retireSilent", "retireOutdated",
                       "retireStopped", "stop"} :
            /\ Goto(p)
            /\ p \in {"retireStopped", "stop"} => sup.node.desired # "running"
      BY <1>5 DEF Decide
    <2>2. Needs(p, sup.node, sup.made)
      BY <2>1 DEF Needs, PCs
    <2> QED
      BY <2>1, <2>2, GoesOn
  <1>6. CASE Retire
    <2>1. \/ Throw
          \/ \E p \in {"idle", "stop", "recycle", "clear"} :
               Goto(p) /\ (p = "stop" => sup.pc = "retireStopped")
      BY <1>6 DEF Retire, Answered, At
    <2>2. \A p \in {"idle", "stop", "recycle", "clear"} :
            (p = "stop" => sup.pc = "retireStopped") => Needs(p, sup.node, sup.made)
      BY PassParts DEF Needs, PCs
    <2> QED
      BY <2>1, <2>2, GoesOn, Throws
  <1>7. CASE Stop
    <2>1. Goto("idle") \/ Throw
      BY <1>7 DEF Stop, Answered
    <2>2. Needs("idle", sup.node, sup.made)
      BY <1>7, PassParts DEF Stop, Needs, PCs, At
    <2> QED
      BY <2>1, <2>2, GoesOn, Throws
  <1>8. CASE Recycle
    <2>1. Goto("examine") \/ Throw
      BY <1>8 DEF Recycle, Answered
    <2>2. Needs("examine", sup.node, sup.made)
      BY <1>8, PassParts DEF Recycle, Needs, PCs, At
    <2> QED
      BY <2>1, <2>2, GoesOn, Throws
  <1>9. CASE Clear
    <2>1. Goto("examine")
      BY <1>9 DEF Clear, Answered
    <2>2. Needs("examine", sup.node, sup.made)
      BY <1>9, PassParts DEF Clear, Needs, PCs, At
    <2> QED
      BY <2>1, <2>2, GoesOn
  <1>10. CASE Examine
    <2>1. PICK p \in {"idle", "abandon", "create"} :
            Goto(p) /\ (p = "abandon" => sup.node.attempt # None)
      BY <1>10 DEF Examine
    <2>2. Needs(p, sup.node, sup.made)
      BY <2>1 DEF Needs, PCs
    <2> QED
      BY <2>1, <2>2, GoesOn
  <1>11. CASE Abandon
    <2>1. Goto("idle") \/ Throw
      BY <1>11 DEF Abandon, Answered
    <2>2. Needs("idle", sup.node, sup.made)
      BY <1>11, PassParts DEF Abandon, Needs, PCs, At
    <2> QED
      BY <2>1, <2>2, GoesOn, Throws
  <1>12. CASE Create
    <2>1. CASE Goto("idle") \/ Throw
      BY <2>1, GoesOn, Throws DEF Needs, PCs
    <2>2. CASE ~(Goto("idle") \/ Throw)
      <3> DEFINE m == sup.node
                 inst == sup.inst
                 seen == sup.seen
                 k == Len(attempts) + 1
      <3>1. sup' = [sup EXCEPT !.pc = "allocate", !.made = k] /\ attempts' # attempts
        <4>1. /\ sup' = [sup EXCEPT !.pc = "allocate", !.made = k]
              /\ attempts' = Append(attempts, NewAttempt(node.gen))
          BY <1>12, <2>2 DEF Create
        <4>2. NewAttempt(node.gen) \in Record
          BY DEF NewAttempt, Record, TypeOK, Named, NodeRow, Statuses, Procs, Rows, None
        <4>3. Len(attempts') = Len(attempts) + 1 /\ Len(attempts) \in Nat
          BY <4>1, <4>2, AppendProperties, LenProperties DEF TypeOK
        <4> QED
          BY <4>1, <4>3
      <3>2. k \in DOMAIN attempts' /\ k \in Indices' /\ k # None
        <4>1. k \in DOMAIN attempts'
          BY <1>12, <3>1, Creates
        <4>2. Len(attempts) \in Nat
          BY LenProperties DEF TypeOK
        <4> QED
          BY <4>1, <4>2 DEF Indices, None
      <3>3. /\ Named(m) /\ inst \in Indices' /\ seen \in Rows
            /\ sup' = [pc |-> "allocate", node |-> m, seen |-> seen, made |-> k,
                       inst |-> inst]
        BY <3>1, PassParts, Grows
      <3>4. Needs("allocate", m, k)
        BY <3>2 DEF Needs, PCs
      <3> HIDE DEF m, inst, seen, k
      <3> QED
        BY <3>2, <3>3, <3>4, StaysNamed, PassPrepared
    <2> QED
      BY <2>1, <2>2
  <1>13. CASE Allocate
    <2>1. Goto("ensure") \/ Goto("giveUp") \/ Throw
      BY <1>13 DEF Allocate, Answered
    <2>2. Needs("ensure", sup.node, sup.made) /\ Needs("giveUp", sup.node, sup.made)
      BY <1>13, PassParts DEF Allocate, Needs, PCs, At
    <2> QED
      BY <2>1, <2>2, GoesOn, Throws
  <1>14. CASE Ensure
    <2>1. Needs("spawn", sup.node, sup.made) /\ Needs("giveUp", sup.node, sup.made)
          /\ Needs("link", sup.node, sup.made)
      BY <1>14, PassParts DEF Ensure, Needs, PCs, At
    <2>2. CASE Goto("spawn") \/ Goto("giveUp")
      BY <2>1, <2>2, GoesOn
    <2>3. CASE ~(Goto("spawn") \/ Goto("giveUp"))
      <3> DEFINE m == sup.node
                 made == sup.made
                 seen == sup.seen
                 k == file[sup.node.gen]
      <3>1. sup' = [sup EXCEPT !.pc = "link", !.inst = k] /\ k > None
        BY <1>14, <2>3 DEF Ensure, Goto
      <3>2. k \in Indices
        BY <3>1, PassParts DEF Named, NodeRow, TypeOK, Allocating, None
      <3>3. /\ Named(m) /\ made \in Indices' /\ seen \in Rows /\ k \in Indices'
            /\ sup' = [pc |-> "link", node |-> m, seen |-> seen, made |-> made,
                       inst |-> k]
        BY <3>1, <3>2, PassParts, Grows
      <3>4. Needs("link", m, made)
        BY <2>1
      <3> HIDE DEF m, made, seen, k
      <3> QED
        BY <3>3, <3>4, StaysNamed, PassPrepared
    <2> QED
      BY <2>2, <2>3
  <1>15. CASE Spawn
    <2>1. Goto("write") \/ Goto("giveUp")
      BY <1>15 DEF Spawn, Goto
    <2>2. Needs("write", sup.node, sup.made) /\ Needs("giveUp", sup.node, sup.made)
      BY <1>15, PassParts DEF Spawn, Needs, PCs, At
    <2> QED
      BY <2>1, <2>2, GoesOn
  <1>16. CASE Write
    <2> DEFINE m == sup.node
               made == sup.made
               seen == sup.seen
    <2>1. Needs("link", m, made)
      BY <1>16, PassParts DEF Write, Needs, PCs, At
    <2>2. /\ Named(m) /\ made \in Indices' /\ seen \in Rows
          /\ sup' = [pc |-> "link", node |-> m, seen |-> seen, made |-> made,
                     inst |-> made]
      BY <1>16, PassParts, Grows DEF Write
    <2> HIDE DEF m, made, seen
    <2> QED
      BY <2>1, <2>2, StaysNamed, PassPrepared
  <1>17. CASE Link
    <2>1. Goto("idle") \/ Goto("giveUp") \/ Throw
      BY <1>17 DEF Link, Answered
    <2>2. Needs("idle", sup.node, sup.made) /\ Needs("giveUp", sup.node, sup.made)
      BY <1>17, PassParts DEF Link, Needs, PCs, At
    <2> QED
      BY <2>1, <2>2, GoesOn, Throws
  <1>18. CASE GiveUp
    <2>1. Goto("idle")
      BY <1>18 DEF GiveUp, Answered
    <2>2. Needs("idle", sup.node, sup.made)
      BY <1>18, PassParts DEF GiveUp, Needs, PCs, At
    <2> QED
      BY <2>1, <2>2, GoesOn
  <1>19. CASE CallLost
    BY <1>19, Throws DEF CallLost
  <1>20. CASE Crash
    BY <1>20, Rests DEF Crash
  <1>21. ASSUME NEW i \in DOMAIN attempts, Enroll(i)
        PROVE  Prepared'
    BY <1>21, PassStays DEF Enroll
  <1>22. ASSUME NEW i \in DOMAIN attempts, Register(i)
        PROVE  Prepared'
    BY <1>22, PassStays DEF Register
  <1>23. ASSUME NEW i \in DOMAIN attempts, Heartbeat(i)
        PROVE  Prepared'
    BY <1>23, PassStays DEF Heartbeat
  <1>24. ASSUME NEW i \in DOMAIN attempts, FallSilent(i)
        PROVE  Prepared'
    BY <1>24, PassStays DEF FallSilent
  <1>25. ASSUME NEW i \in DOMAIN attempts, Exit(i)
        PROVE  Prepared'
    BY <1>25, PassStays DEF Exit
  <1>26. ASSUME NEW i \in DOMAIN attempts, Hang(i)
        PROVE  Prepared'
    BY <1>26, PassStays DEF Hang
  <1>27. ASSUME NEW i \in DOMAIN attempts, Resume(i)
        PROVE  Prepared'
    BY <1>27, PassStays DEF Resume
  <1>28. ASSUME NEW g \in Generations, GrowStale(g) PROVE Prepared'
    BY <1>28, PassStays DEF GrowStale
  <1>29. ASSUME NEW g \in Generations, RetryDue(g) PROVE Prepared'
    BY <1>29, PassStays DEF RetryDue
  <1>30. CASE UNCHANGED vars
    BY <1>30, PassStays DEF vars, used
  <1> QED
    BY <1>1, <1>2, <1>3, <1>4, <1>5, <1>6, <1>7, <1>8, <1>9, <1>10, <1>11, <1>12,
       <1>13, <1>14, <1>15, <1>16, <1>17, <1>18, <1>19, <1>20, <1>21, <1>22, <1>23,
       <1>24, <1>25, <1>26, <1>27, <1>28, <1>29, <1>30 DEF Next, Pass, Daemon,
       Desires

\* Who has a daemon has a row for it.
LEMMA StepEnrolled ==
  ASSUME TypeOK, IndInv, [Next]_vars
  PROVE  Enrolled'
  <1> USE DEF Enrolled
  <1>1. node'.daemon # None => attempts'[node'.daemon].row # "none"
    <2>1. node.daemon # None => node.daemon \in DOMAIN attempts
      BY DEF TypeOK, Named, Indices
    <2> QED
      BY <2>1, Grows, StepNode DEF IndInv
  <1>2. \A i \in DOMAIN attempts' :
          attempts'[i].proc \in {"enrolled", "registered"} => attempts'[i].row # "none"
    <2>1. CASE Updated(attempts')
      BY <2>1 DEF Updated, Follows
    <2>2. CASE Create
      BY <2>2, Creates DEF NewAttempt, IndInv
    <2>3. CASE Spawn
      <3>1. sup.made \in DOMAIN attempts => attempts[sup.made] \in Record
        BY Domains DEF TypeOK
      <3> QED
        BY <2>3, <3>1, Spawns DEF Record, IndInv
    <2> QED
      BY <2>1, <2>2, <2>3, StepUpdates
  <1> QED
    BY <1>1, <1>2

\* The attempts name what there is, and who has a row succeeded.
LEMMA StepRecords ==
  ASSUME TypeOK, IndInv, [Next]_vars
  PROVE  \A i \in DOMAIN attempts' :
           /\ attempts'[i].gen <= node'.gen /\ attempts'[i].spec <= node'.gen
           /\ attempts'[i].inst \in Indices'
           /\ attempts'[i].row # "none" => attempts'[i].status = "succeeded"
  <1>0. /\ node.gen \in Nat /\ node'.gen \in Nat /\ node.gen <= node'.gen
        /\ node.gen \in Generations /\ Indices \subseteq Indices' /\ None \in Indices'
    BY StepNode, Grows DEF TypeOK, Named, NodeRow, Generations, Indices
  <1>1. \A i \in DOMAIN attempts :
          /\ attempts[i] \in Record /\ attempts[i].gen \in Nat /\ attempts[i].spec \in Nat
          /\ attempts[i].gen <= node'.gen /\ attempts[i].spec <= node'.gen
          /\ attempts[i].inst \in Indices'
          /\ attempts[i].row # "none" => attempts[i].status = "succeeded"
    <2> SUFFICES ASSUME NEW i \in DOMAIN attempts
                 PROVE  /\ attempts[i] \in Record /\ attempts[i].gen \in Nat
                        /\ attempts[i].spec \in Nat
                        /\ attempts[i].gen <= node'.gen /\ attempts[i].spec <= node'.gen
                        /\ attempts[i].inst \in Indices'
                        /\ attempts[i].row # "none" => attempts[i].status = "succeeded"
      OBVIOUS
    <2>1. attempts[i] \in Record
      BY Domains DEF TypeOK
    <2>2. attempts[i].gen \in Nat /\ attempts[i].spec \in Nat
      BY <2>1 DEF Record, Generations
    <2> QED
      BY <1>0, <2>1, <2>2 DEF TypeOK
  <1>2. CASE Updated(attempts')
    BY <1>0, <1>1, <1>2 DEF Updated, Follows
  <1>3. CASE Create
    <2>1. CASE UNCHANGED attempts
      BY <1>1, <2>1
    <2>2. CASE ~UNCHANGED attempts
      <3> DEFINE k == Len(attempts) + 1
      <3>1. /\ DOMAIN attempts' = DOMAIN attempts \cup {k}
            /\ attempts'[k] = NewAttempt(node.gen)
            /\ \A i \in DOMAIN attempts : attempts'[i] = attempts[i]
        BY <1>3, <2>2, Creates
      <3> HIDE DEF k
      <3>2. /\ attempts'[k].gen = node.gen /\ attempts'[k].spec = node.gen
            /\ attempts'[k].inst = None /\ attempts'[k].row = "none"
        BY <3>1 DEF NewAttempt
      <3> QED
        BY <1>0, <1>1, <3>1, <3>2
    <2> QED
      BY <2>1, <2>2
  <1>4. CASE Spawn
    <2>1. CASE UNCHANGED attempts
      BY <1>1, <2>1
    <2>2. CASE ~UNCHANGED attempts
      <3>1. /\ sup.made \in DOMAIN attempts /\ DOMAIN attempts' = DOMAIN attempts
            /\ attempts'[sup.made] = [attempts[sup.made] EXCEPT !.proc = "booting",
                                                              !.spec = sup.node.gen]
            /\ \A i \in DOMAIN attempts : i # sup.made => attempts'[i] = attempts[i]
        BY <1>4, <2>2, Spawns
      <3>2. sup.node.gen \in Nat /\ sup.node.gen <= node'.gen
        BY <1>0, PassParts DEF Named, NodeRow, Generations
      <3>3. /\ attempts'[sup.made].gen = attempts[sup.made].gen
            /\ attempts'[sup.made].spec = sup.node.gen
            /\ attempts'[sup.made].inst = attempts[sup.made].inst
            /\ attempts'[sup.made].row = attempts[sup.made].row
            /\ attempts'[sup.made].status = attempts[sup.made].status
        BY <1>1, <3>1 DEF Record
      <3> SUFFICES ASSUME NEW i \in DOMAIN attempts
                   PROVE  /\ attempts'[i].gen <= node'.gen /\ attempts'[i].spec <= node'.gen
                          /\ attempts'[i].inst \in Indices'
                          /\ attempts'[i].row # "none" => attempts'[i].status = "succeeded"
        BY <3>1
      <3>4. CASE i = sup.made
        BY <1>1, <3>2, <3>3, <3>4
      <3>5. CASE i # sup.made
        BY <1>1, <3>1, <3>5
      <3> QED
        BY <3>4, <3>5
    <2> QED
      BY <2>1, <2>2
  <1> QED
    BY <1>2, <1>3, <1>4, StepUpdates

\* The generation of an attempt is one.
LEMMA AttemptGen ==
  ASSUME TypeOK, NEW i \in DOMAIN attempts
  PROVE  attempts[i].gen \in Generations
  <1>1. attempts[i] \in Record
    BY Domains DEF TypeOK
  <1> QED
    BY <1>1 DEF Record

\* The supervisor's files and memory name what there is.
LEMMA StepFiles ==
  ASSUME TypeOK, IndInv, [Next]_vars
  PROVE  /\ tracked' \in Indices' /\ file' \in [Generations -> {Allocating} \cup Indices']
         /\ backoff' \subseteq Generations
  <1> DEFINE Goal ==
         /\ tracked' \in Indices' /\ file' \in [Generations -> {Allocating} \cup Indices']
         /\ backoff' \subseteq Generations
  <1>0. /\ None \in Indices' /\ Indices \subseteq Indices' /\ tracked \in Indices
        /\ file \in [Generations -> {Allocating} \cup Indices] /\ backoff \subseteq Generations
        /\ sup.made \in Indices' /\ sup.node.gen \in Generations
    BY Grows, PassParts DEF TypeOK, Named, NodeRow, Indices
  <1>a. file \in [Generations -> {Allocating} \cup Indices']
    BY <1>0
  <1>1. ASSUME NEW s \in Desires, SetDesired(s) PROVE Goal
    BY <1>1, <1>0, <1>a DEF SetDesired
  <1>2. CASE Reconfigure
    BY <1>2, <1>0, <1>a DEF Reconfigure
  <1>3. CASE ListNodes
    BY <1>3, <1>0, <1>a DEF ListNodes
  <1>4. CASE ListDaemons
    BY <1>4, <1>0, <1>a DEF ListDaemons
  <1>5. CASE Decide
    BY <1>5, <1>0, <1>a DEF Decide
  <1>6. CASE Retire
    BY <1>6, <1>0, <1>a DEF Retire
  <1>7. CASE Stop
    BY <1>7, <1>0, <1>a DEF Stop
  <1>8. CASE Recycle
    BY <1>8, <1>0, <1>a DEF Recycle
  <1>9. CASE Clear
    BY <1>9, <1>0, <1>a DEF Clear
  <1>10. CASE Examine
    BY <1>10, <1>0, <1>a DEF Examine
  <1>11. CASE Abandon
    <2>1. sup.node.attempt \in DOMAIN attempts
      BY <1>11 DEF Abandon, At, IndInv, Prepared, Named, Indices
    <2>2. backoff' \subseteq Generations
      BY <1>11, <1>0, <2>1, AttemptGen DEF Abandon, Failed
    <2> QED
      BY <1>11, <1>0, <1>a, <2>2 DEF Abandon
  <1>12. CASE Create
    BY <1>12, <1>0, <1>a DEF Create
  <1>13. CASE Allocate
    BY <1>13, <1>0, <1>a DEF Allocate
  <1>14. CASE Ensure
    <2>1. file' = file \/ file' = [file EXCEPT ![sup.node.gen] = Allocating]
      BY <1>14 DEF Ensure
    <2>2. tracked' = tracked \/ (tracked' = file[sup.node.gen] /\ file[sup.node.gen] > None)
      BY <1>14 DEF Ensure
    <2>3. file[sup.node.gen] > None => file[sup.node.gen] \in Indices
      BY <1>0 DEF Allocating, None
    <2> QED
      BY <1>14, <1>0, <1>a, <2>1, <2>2, <2>3 DEF Ensure
  <1>15. CASE Spawn
    BY <1>15, <1>0, <1>a DEF Spawn
  <1>16. CASE Write
    BY <1>16, <1>0, <1>a DEF Write
  <1>17. CASE Link
    BY <1>17, <1>0, <1>a DEF Link
  <1>18. CASE GiveUp
    <2>1. sup.made \in DOMAIN attempts
      BY <1>18 DEF GiveUp, At, IndInv, Prepared, Named, Indices
    <2>2. backoff' \subseteq Generations
      BY <1>18, <1>0, <2>1, AttemptGen DEF GiveUp, Failed
    <2> QED
      BY <1>18, <1>0, <1>a, <2>2 DEF GiveUp
  <1>19. CASE CallLost
    BY <1>19, <1>0, <1>a DEF CallLost
  <1>20. CASE Crash
    BY <1>20, <1>0, <1>a DEF Crash
  <1>21. ASSUME NEW i \in DOMAIN attempts, Enroll(i)
        PROVE  Goal
    BY <1>21, <1>0, <1>a DEF Enroll
  <1>22. ASSUME NEW i \in DOMAIN attempts, Register(i)
        PROVE  Goal
    BY <1>22, <1>0, <1>a DEF Register
  <1>23. ASSUME NEW i \in DOMAIN attempts, Heartbeat(i)
        PROVE  Goal
    BY <1>23, <1>0, <1>a DEF Heartbeat
  <1>24. ASSUME NEW i \in DOMAIN attempts, FallSilent(i)
        PROVE  Goal
    BY <1>24, <1>0, <1>a DEF FallSilent
  <1>25. ASSUME NEW i \in DOMAIN attempts, Exit(i)
        PROVE  Goal
    BY <1>25, <1>0, <1>a DEF Exit
  <1>26. ASSUME NEW i \in DOMAIN attempts, Hang(i)
        PROVE  Goal
    BY <1>26, <1>0, <1>a DEF Hang
  <1>27. ASSUME NEW i \in DOMAIN attempts, Resume(i)
        PROVE  Goal
    BY <1>27, <1>0, <1>a DEF Resume
  <1>28. ASSUME NEW g \in Generations, GrowStale(g) PROVE Goal
    BY <1>28, <1>0, <1>a DEF GrowStale
  <1>29. ASSUME NEW g \in Generations, RetryDue(g) PROVE Goal
    BY <1>29, <1>0, <1>a DEF RetryDue
  <1>30. CASE UNCHANGED vars
    BY <1>30, <1>0, <1>a DEF vars, used
  <1> QED
    BY <1>1, <1>2, <1>3, <1>4, <1>5, <1>6, <1>7, <1>8, <1>9, <1>10, <1>11, <1>12,
       <1>13, <1>14, <1>15, <1>16, <1>17, <1>18, <1>19, <1>20, <1>21, <1>22, <1>23,
       <1>24, <1>25, <1>26, <1>27, <1>28, <1>29, <1>30 DEF Next, Pass, Daemon,
       Desires

\* The hazards stay within their bounds.
LEMMA StepUsed ==
  ASSUME TypeOK, IndInv, [Next]_vars
  PROVE  happened' \subseteq Possible \cup Races /\ left' \in 0 .. MaxHazards
  <1>0. /\ happened \subseteq Possible \cup Races /\ left \in 0 .. MaxHazards
        /\ MaxHazards \in Nat
        /\ left > 0 => left - 1 \in 0 .. MaxHazards
    BY Bounds DEF TypeOK
  <1>a. \A k : Spend(k) => happened' \subseteq Possible \cup Races /\ left' \in 0 .. MaxHazards
    BY <1>0 DEF Spend
  <1>b. UNCHANGED used => happened' \subseteq Possible \cup Races /\ left' \in 0 .. MaxHazards
    BY <1>0 DEF used
  <1>1. ASSUME NEW s \in Desires, SetDesired(s) PROVE happened' \subseteq Possible \cup Races /\ left' \in 0 .. MaxHazards
    BY <1>1, <1>b DEF SetDesired
  <1>2. CASE Reconfigure
    BY <1>2, <1>b DEF Reconfigure
  <1>3. CASE ListNodes
    BY <1>3, <1>b DEF ListNodes
  <1>4. CASE ListDaemons
    BY <1>4, <1>b DEF ListDaemons
  <1>5. CASE Decide
    BY <1>5, <1>b DEF Decide
  <1>6. CASE Retire
    BY <1>6, <1>a, <1>b DEF Retire, Answered
  <1>7. CASE Stop
    BY <1>7, <1>a, <1>b DEF Stop, Answered
  <1>8. CASE Recycle
    BY <1>8, <1>a, <1>b DEF Recycle, Answered
  <1>9. CASE Clear
    BY <1>9, <1>b DEF Clear
  <1>10. CASE Examine
    BY <1>10, <1>b DEF Examine
  <1>11. CASE Abandon
    BY <1>11, <1>a, <1>b DEF Abandon, Answered
  <1>12. CASE Create
    BY <1>12, <1>a, <1>b DEF Create, Answered
  <1>13. CASE Allocate
    BY <1>13, <1>a, <1>b DEF Allocate, Answered
  <1>14. CASE Ensure
    BY <1>14, <1>b DEF Ensure
  <1>15. CASE Spawn
    BY <1>15, <1>0, <1>a DEF Spawn, Seen, Races
  <1>16. CASE Write
    BY <1>16, <1>b DEF Write
  <1>17. CASE Link
    BY <1>17, <1>a, <1>b DEF Link, Answered
  <1>18. CASE GiveUp
    BY <1>18, <1>b DEF GiveUp
  <1>19. CASE CallLost
    BY <1>19, <1>a DEF CallLost
  <1>20. CASE Crash
    BY <1>20, <1>0 DEF Crash, Races
  <1>21. ASSUME NEW i \in DOMAIN attempts, Enroll(i)
        PROVE  happened' \subseteq Possible \cup Races /\ left' \in 0 .. MaxHazards
    BY <1>21, <1>0, <1>b DEF Enroll, Races
  <1>22. ASSUME NEW i \in DOMAIN attempts, Register(i)
        PROVE  happened' \subseteq Possible \cup Races /\ left' \in 0 .. MaxHazards
    BY <1>22, <1>0 DEF Register, Seen, Races
  <1>23. ASSUME NEW i \in DOMAIN attempts, Heartbeat(i)
        PROVE  happened' \subseteq Possible \cup Races /\ left' \in 0 .. MaxHazards
    BY <1>23, <1>b DEF Heartbeat
  <1>24. ASSUME NEW i \in DOMAIN attempts, FallSilent(i)
        PROVE  happened' \subseteq Possible \cup Races /\ left' \in 0 .. MaxHazards
    BY <1>24, <1>b DEF FallSilent
  <1>25. ASSUME NEW i \in DOMAIN attempts, Exit(i)
        PROVE  happened' \subseteq Possible \cup Races /\ left' \in 0 .. MaxHazards
    BY <1>25, <1>a DEF Exit
  <1>26. ASSUME NEW i \in DOMAIN attempts, Hang(i)
        PROVE  happened' \subseteq Possible \cup Races /\ left' \in 0 .. MaxHazards
    BY <1>26, <1>0 DEF Hang, Races
  <1>27. ASSUME NEW i \in DOMAIN attempts, Resume(i)
        PROVE  happened' \subseteq Possible \cup Races /\ left' \in 0 .. MaxHazards
    BY <1>27, <1>b DEF Resume
  <1>28. ASSUME NEW g \in Generations, GrowStale(g) PROVE happened' \subseteq Possible \cup Races /\ left' \in 0 .. MaxHazards
    BY <1>28, <1>b DEF GrowStale
  <1>29. ASSUME NEW g \in Generations, RetryDue(g) PROVE happened' \subseteq Possible \cup Races /\ left' \in 0 .. MaxHazards
    BY <1>29, <1>b DEF RetryDue
  <1>30. CASE UNCHANGED vars
    BY <1>30, <1>b DEF vars, used
  <1> QED
    BY <1>1, <1>2, <1>3, <1>4, <1>5, <1>6, <1>7, <1>8, <1>9, <1>10, <1>11, <1>12,
       <1>13, <1>14, <1>15, <1>16, <1>17, <1>18, <1>19, <1>20, <1>21, <1>22, <1>23,
       <1>24, <1>25, <1>26, <1>27, <1>28, <1>29, <1>30 DEF Next, Pass, Daemon,
       Desires

\* No process comes into being but by a spawn, nor changes its generation.
LEMMA Quiet ==
  ASSUME TypeOK, IndInv, Updated(attempts')
  PROVE  /\ \A i \in DOMAIN attempts : Running(i)' => Running(i)
         /\ \A i \in DOMAIN attempts : attempts'[i].spec = attempts[i].spec
         /\ DOMAIN attempts' = DOMAIN attempts
  BY DEF Updated, Follows, Running

\* A creation and a spawn are steps of the pass.
LEMMA Moves ==
  ASSUME TypeOK, IndInv, [Next]_vars, UNCHANGED sup
  PROVE  Updated(attempts')
  <1>1. sup \in [pc : PCs, node : NodeRow, seen : Rows, made : Nat, inst : Nat]
    BY DEF IndInv, Prepared
  <1>2. ~Create
    <2> SUFFICES ASSUME Create
                 PROVE  FALSE
      OBVIOUS
    <2>1. sup.pc = "create"
      BY DEF Create, At
    <2>2. \/ Goto("idle") \/ Throw
          \/ sup' = [sup EXCEPT !.pc = "allocate", !.made = Len(attempts) + 1]
      BY DEF Create
    <2>3. Goto("idle") \/ Throw => sup'.pc = "idle"
      BY <2>1 DEF Goto, Throw, Resting
    <2> QED
      BY <1>1, <2>1, <2>2, <2>3
  <1>3. ~Spawn
    BY <1>1 DEF Spawn, At
  <1> QED
    BY <1>2, <1>3, StepUpdates

\* An allocation belongs to the pass, whose attempt has no process yet.
LEMMA StepAllocated ==
  ASSUME TypeOK, IndInv, [Next]_vars
  PROVE  Allocated'
  <1> USE DEF Allocated
  <1>0. sup \in [pc : PCs, node : NodeRow, seen : Rows, made : Nat, inst : Nat]
    BY DEF IndInv, Prepared
  <1>a. Updated(attempts') /\ UNCHANGED sup
        /\ (UNCHANGED file \/ sup.pc \notin {"spawn", "write"}) => Allocated'
    <2> SUFFICES ASSUME Updated(attempts'), UNCHANGED sup,
                        UNCHANGED file \/ sup.pc \notin {"spawn", "write"}
                 PROVE  Allocated'
      OBVIOUS
    <2>1. sup.pc \in {"allocate", "ensure", "spawn", "write"} => sup.made \in DOMAIN attempts
      BY DEF IndInv, Prepared, Indices
    <2>3. sup.pc \in {"allocate", "ensure", "spawn"} => ~(sup.made # None /\ attempts'[sup.made].proc # "gone")
      BY <2>1, Quiet DEF IndInv, Running
    <2> QED
      BY <2>1, <2>3, Quiet DEF IndInv, Running
  <1>b. UNCHANGED sup => Updated(attempts')
    BY Moves
  <1>1. ASSUME NEW s \in Desires, SetDesired(s) PROVE Allocated'
    <2>1. UNCHANGED <<file, sup>>
      BY <1>1 DEF SetDesired
    <2> QED
      BY <2>1, <1>a, <1>b
  <1>2. CASE Reconfigure
    <2>1. UNCHANGED <<file, sup>>
      BY <1>2 DEF Reconfigure
    <2> QED
      BY <2>1, <1>a, <1>b
  <1>3. CASE ListNodes
    <2>1. sup'.pc \notin {"allocate", "ensure", "spawn", "write"}
      BY <1>3, <1>0 DEF ListNodes, Answered, Throw, Goto, Resting, At
    <2> QED
      BY <2>1
  <1>4. CASE ListDaemons
    <2>1. sup'.pc \notin {"allocate", "ensure", "spawn", "write"}
      BY <1>4, <1>0 DEF ListDaemons, Answered, Throw, Goto, Resting, At
    <2> QED
      BY <2>1
  <1>5. CASE Decide
    <2>1. sup'.pc \notin {"allocate", "ensure", "spawn", "write"}
      BY <1>5, <1>0 DEF Decide, Answered, Throw, Goto, Resting, At
    <2> QED
      BY <2>1
  <1>6. CASE Retire
    <2>1. sup'.pc \notin {"allocate", "ensure", "spawn", "write"}
      BY <1>6, <1>0 DEF Retire, Answered, Throw, Goto, Resting, At
    <2> QED
      BY <2>1
  <1>7. CASE Stop
    <2>1. sup'.pc \notin {"allocate", "ensure", "spawn", "write"}
      BY <1>7, <1>0 DEF Stop, Answered, Throw, Goto, Resting, At
    <2> QED
      BY <2>1
  <1>8. CASE Recycle
    <2>1. sup'.pc \notin {"allocate", "ensure", "spawn", "write"}
      BY <1>8, <1>0 DEF Recycle, Answered, Throw, Goto, Resting, At
    <2> QED
      BY <2>1
  <1>9. CASE Clear
    <2>1. sup'.pc \notin {"allocate", "ensure", "spawn", "write"}
      BY <1>9, <1>0 DEF Clear, Answered, Throw, Goto, Resting, At
    <2> QED
      BY <2>1
  <1>10. CASE Examine
    <2>1. sup'.pc \notin {"allocate", "ensure", "spawn", "write"}
      BY <1>10, <1>0 DEF Examine, Answered, Throw, Goto, Resting, At
    <2> QED
      BY <2>1
  <1>11. CASE Abandon
    <2>1. sup'.pc \notin {"allocate", "ensure", "spawn", "write"}
      BY <1>11, <1>0 DEF Abandon, Answered, Throw, Goto, Resting, At
    <2> QED
      BY <2>1
  <1>12. CASE Create
    <2>a. (Goto("idle") \/ Throw) => sup'.pc \notin {"allocate", "ensure", "spawn", "write"}
      BY <1>0, <1>12 DEF Throw, Goto, Resting, Create, At
    <2>1. CASE sup'.pc # "allocate"
      <3>1. sup'.pc \notin {"allocate", "ensure", "spawn", "write"}
        <4>1. \/ Goto("idle") \/ Throw
              \/ sup' = [sup EXCEPT !.pc = "allocate", !.made = Len(attempts) + 1]
          BY <1>12 DEF Create
        <4> QED
          BY <1>0, <2>1, <2>a, <4>1
      <3> QED
        BY <3>1
    <2>2. CASE sup'.pc = "allocate"
      <3> DEFINE k == Len(attempts) + 1
      <3>1. /\ sup' = [sup EXCEPT !.pc = "allocate", !.made = k]
            /\ attempts' = Append(attempts, NewAttempt(node.gen))
        BY <1>12, <1>0, <2>2, <2>a DEF Create
      <3>2. attempts'[k] = NewAttempt(node.gen)
        <4>1. NewAttempt(node.gen) \in Record
          BY DEF NewAttempt, Record, TypeOK, Named, NodeRow, Statuses, Procs, Rows, None
        <4> QED
          BY <3>1, <4>1, AppendProperties DEF TypeOK
      <3>3. sup'.made = k
        BY <1>0, <3>1
      <3>4. ~Running(sup.made)'
        BY <3>2, <3>3 DEF Running, NewAttempt
      <3> QED
        BY <2>2, <3>4
    <2> QED
      BY <2>1, <2>2
  <1>13. CASE Allocate
    <2>1. /\ sup'.pc \notin {"spawn", "write"} /\ sup.pc = "allocate"
          /\ UNCHANGED attempts
          /\ sup'.pc \in {"allocate", "ensure"} => sup'.made = sup.made
      BY <1>13, <1>0 DEF Allocate, Answered, Throw, Goto, Resting, At
    <2> QED
      BY <2>1 DEF Running, IndInv
  <1>14. CASE Ensure
    <2>1. sup.pc = "ensure" /\ UNCHANGED attempts
      BY <1>14 DEF Ensure, At
    <2>2. \/ sup'.pc \in {"link", "giveUp"}
          \/ /\ sup'.pc = "spawn" /\ sup'.made = sup.made /\ sup'.node = sup.node
             /\ file' = [file EXCEPT ![sup.node.gen] = Allocating]
      BY <1>14, <1>0 DEF Ensure
    <2>3. sup.node.gen \in Generations /\ file \in [Generations -> {Allocating} \cup Indices]
      BY PassParts DEF Named, NodeRow, TypeOK
    <2> QED
      BY <2>1, <2>2, <2>3 DEF Running, IndInv
  <1>15. CASE Spawn
    <2>1. CASE sup'.pc = "giveUp"
      BY <2>1
    <2>2. CASE sup'.pc # "giveUp"
      <3>1. /\ sup.made \in DOMAIN attempts
            /\ attempts'[sup.made] = [attempts[sup.made] EXCEPT !.proc = "booting",
                                                              !.spec = sup.node.gen]
            /\ sup' = [sup EXCEPT !.pc = "write"] /\ UNCHANGED file
        BY <1>15, <2>2, Spawns
      <3>2. attempts[sup.made] \in Record /\ sup.pc = "spawn"
        BY <1>15, <3>1, Domains DEF TypeOK, Spawn, At
      <3>3. attempts'[sup.made].spec = sup.node.gen
        BY <3>1, <3>2 DEF Record
      <3>4. sup'.pc = "write" /\ sup'.made = sup.made /\ sup'.node = sup.node
        BY <1>0, <3>1
      <3> QED
        BY <3>1, <3>2, <3>3, <3>4 DEF IndInv
    <2> QED
      BY <2>1, <2>2
  <1>16. CASE Write
    <2>1. sup'.pc \notin {"allocate", "ensure", "spawn", "write"}
      BY <1>16, <1>0 DEF Write, Answered, Throw, Goto, Resting, At
    <2> QED
      BY <2>1
  <1>17. CASE Link
    <2>1. sup'.pc \notin {"allocate", "ensure", "spawn", "write"}
      BY <1>17, <1>0 DEF Link, Answered, Throw, Goto, Resting, At
    <2> QED
      BY <2>1
  <1>18. CASE GiveUp
    <2>1. sup'.pc \notin {"allocate", "ensure", "spawn", "write"}
      BY <1>18, <1>0 DEF GiveUp, Answered, Throw, Goto, Resting, At
    <2> QED
      BY <2>1
  <1>19. CASE CallLost
    <2>1. sup'.pc \notin {"allocate", "ensure", "spawn", "write"}
      BY <1>19, <1>0 DEF CallLost, Answered, Throw, Goto, Resting, At
    <2> QED
      BY <2>1
  <1>20. CASE Crash
    <2>1. sup'.pc \notin {"allocate", "ensure", "spawn", "write"}
      BY <1>20, <1>0 DEF Crash, Answered, Throw, Goto, Resting, At
    <2> QED
      BY <2>1
  <1>21. ASSUME NEW i \in DOMAIN attempts, Enroll(i)
        PROVE  Allocated'
    <2>1. UNCHANGED <<file, sup>>
      BY <1>21 DEF Enroll
    <2> QED
      BY <2>1, <1>a, <1>b
  <1>22. ASSUME NEW i \in DOMAIN attempts, Register(i)
        PROVE  Allocated'
    <2>1. UNCHANGED <<file, sup>>
      BY <1>22 DEF Register
    <2> QED
      BY <2>1, <1>a, <1>b
  <1>23. ASSUME NEW i \in DOMAIN attempts, Heartbeat(i)
        PROVE  Allocated'
    <2>1. UNCHANGED <<file, sup>>
      BY <1>23 DEF Heartbeat
    <2> QED
      BY <2>1, <1>a, <1>b
  <1>24. ASSUME NEW i \in DOMAIN attempts, FallSilent(i)
        PROVE  Allocated'
    <2>1. UNCHANGED <<file, sup>>
      BY <1>24 DEF FallSilent
    <2> QED
      BY <2>1, <1>a, <1>b
  <1>25. ASSUME NEW i \in DOMAIN attempts, Exit(i)
        PROVE  Allocated'
    <2>1. UNCHANGED <<file, sup>>
      BY <1>25 DEF Exit
    <2> QED
      BY <2>1, <1>a, <1>b
  <1>26. ASSUME NEW i \in DOMAIN attempts, Hang(i)
        PROVE  Allocated'
    <2>1. UNCHANGED <<file, sup>>
      BY <1>26 DEF Hang
    <2> QED
      BY <2>1, <1>a, <1>b
  <1>27. ASSUME NEW i \in DOMAIN attempts, Resume(i)
        PROVE  Allocated'
    <2>1. UNCHANGED <<file, sup>>
      BY <1>27 DEF Resume
    <2> QED
      BY <2>1, <1>a, <1>b
  <1>28. ASSUME NEW g \in Generations, GrowStale(g) PROVE Allocated'
    <2>1. sup.pc \notin {"spawn", "write"} /\ UNCHANGED sup
      BY <1>28 DEF GrowStale
    <2> QED
      BY <2>1, <1>a, <1>b
  <1>29. ASSUME NEW g \in Generations, RetryDue(g) PROVE Allocated'
    <2>1. UNCHANGED <<file, sup>>
      BY <1>29 DEF RetryDue
    <2> QED
      BY <2>1, <1>a, <1>b
  <1>30. CASE UNCHANGED vars
    BY <1>30, <1>a, <1>b DEF vars
  <1> QED
    BY <1>1, <1>2, <1>3, <1>4, <1>5, <1>6, <1>7, <1>8, <1>9, <1>10, <1>11, <1>12,
       <1>13, <1>14, <1>15, <1>16, <1>17, <1>18, <1>19, <1>20, <1>21, <1>22, <1>23,
       <1>24, <1>25, <1>26, <1>27, <1>28, <1>29, <1>30 DEF Next, Pass, Daemon,
       Desires

\* What happened is not forgotten.
LEMMA StepHappened ==
  ASSUME [Next]_vars
  PROVE  happened \subseteq happened'
  <1>a. \A k : Spend(k) => happened \subseteq happened'
    BY DEF Spend
  <1>b. UNCHANGED used => happened \subseteq happened'
    BY DEF used
  <1>1. ASSUME NEW s \in Desires, SetDesired(s) PROVE happened \subseteq happened'
    BY <1>1, <1>b DEF SetDesired
  <1>2. CASE Reconfigure
    BY <1>2, <1>b DEF Reconfigure
  <1>3. CASE ListNodes
    BY <1>3, <1>b DEF ListNodes
  <1>4. CASE ListDaemons
    BY <1>4, <1>b DEF ListDaemons
  <1>5. CASE Decide
    BY <1>5, <1>b DEF Decide
  <1>6. CASE Retire
    BY <1>6, <1>a, <1>b DEF Retire, Answered
  <1>7. CASE Stop
    BY <1>7, <1>a, <1>b DEF Stop, Answered
  <1>8. CASE Recycle
    BY <1>8, <1>a, <1>b DEF Recycle, Answered
  <1>9. CASE Clear
    BY <1>9, <1>b DEF Clear
  <1>10. CASE Examine
    BY <1>10, <1>b DEF Examine
  <1>11. CASE Abandon
    BY <1>11, <1>a, <1>b DEF Abandon, Answered
  <1>12. CASE Create
    BY <1>12, <1>a, <1>b DEF Create, Answered
  <1>13. CASE Allocate
    BY <1>13, <1>a, <1>b DEF Allocate, Answered
  <1>14. CASE Ensure
    BY <1>14, <1>b DEF Ensure
  <1>15. CASE Spawn
    BY <1>15, <1>a DEF Spawn, Seen
  <1>16. CASE Write
    BY <1>16, <1>b DEF Write
  <1>17. CASE Link
    BY <1>17, <1>a, <1>b DEF Link, Answered
  <1>18. CASE GiveUp
    BY <1>18, <1>b DEF GiveUp
  <1>19. CASE CallLost
    BY <1>19, <1>a DEF CallLost
  <1>20. CASE Crash
    BY <1>20 DEF Crash
  <1>21. ASSUME NEW i \in DOMAIN attempts, Enroll(i)
        PROVE  happened \subseteq happened'
    BY <1>21, <1>b DEF Enroll
  <1>22. ASSUME NEW i \in DOMAIN attempts, Register(i)
        PROVE  happened \subseteq happened'
    BY <1>22 DEF Register, Seen
  <1>23. ASSUME NEW i \in DOMAIN attempts, Heartbeat(i)
        PROVE  happened \subseteq happened'
    BY <1>23, <1>b DEF Heartbeat
  <1>24. ASSUME NEW i \in DOMAIN attempts, FallSilent(i)
        PROVE  happened \subseteq happened'
    BY <1>24, <1>b DEF FallSilent
  <1>25. ASSUME NEW i \in DOMAIN attempts, Exit(i)
        PROVE  happened \subseteq happened'
    BY <1>25, <1>a DEF Exit
  <1>26. ASSUME NEW i \in DOMAIN attempts, Hang(i)
        PROVE  happened \subseteq happened'
    BY <1>26 DEF Hang
  <1>27. ASSUME NEW i \in DOMAIN attempts, Resume(i)
        PROVE  happened \subseteq happened'
    BY <1>27, <1>b DEF Resume
  <1>28. ASSUME NEW g \in Generations, GrowStale(g) PROVE happened \subseteq happened'
    BY <1>28, <1>b DEF GrowStale
  <1>29. ASSUME NEW g \in Generations, RetryDue(g) PROVE happened \subseteq happened'
    BY <1>29, <1>b DEF RetryDue
  <1>30. CASE UNCHANGED vars
    BY <1>30, <1>b DEF vars, used
  <1> QED
    BY <1>1, <1>2, <1>3, <1>4, <1>5, <1>6, <1>7, <1>8, <1>9, <1>10, <1>11, <1>12,
       <1>13, <1>14, <1>15, <1>16, <1>17, <1>18, <1>19, <1>20, <1>21, <1>22, <1>23,
       <1>24, <1>25, <1>26, <1>27, <1>28, <1>29, <1>30 DEF Next, Pass, Daemon,
       Desires

\* The files of the processes stay, and so does the one that the pass is about to write.
LEMMA FiledStays ==
  ASSUME TypeOK, IndInv, [Next]_vars, Updated(attempts'),
         \A i \in DOMAIN attempts :
           file[attempts[i].spec] = i => file'[attempts[i].spec] = i,
         sup.pc = "write" => sup'.pc = "write" /\ sup'.made = sup.made
  PROVE  Filed'
  <1> SUFFICES ASSUME "orphan" \notin happened', NEW i \in DOMAIN attempts', Running(i)'
               PROVE  \/ file'[attempts'[i].spec] = i
                      \/ sup'.pc = "write" /\ sup'.made = i
    BY DEF Filed
  <1>1. i \in DOMAIN attempts /\ Running(i) /\ attempts'[i].spec = attempts[i].spec
    BY Quiet
  <1>2. "orphan" \notin happened
    BY StepHappened
  <1>3. file[attempts[i].spec] = i \/ (sup.pc = "write" /\ sup.made = i)
    BY <1>1, <1>2 DEF IndInv, Filed
  <1> QED
    BY <1>1, <1>3

\* A process that runs is in its file, or about to be written there.
LEMMA StepFiled ==
  ASSUME TypeOK, IndInv, [Next]_vars
  PROVE  Filed'
  <1>0. /\ sup \in [pc : PCs, node : NodeRow, seen : Rows, made : Nat, inst : Nat]
        /\ file \in [Generations -> {Allocating} \cup Indices]
        /\ sup.node.gen \in Generations
    BY PassParts DEF IndInv, Prepared, TypeOK, Named, NodeRow
  <1>a. Updated(attempts') /\ UNCHANGED file /\ sup.pc # "write" => Filed'
    BY FiledStays
  <1>b. UNCHANGED <<file, sup>> => Filed'
    BY Moves, FiledStays
  <1>c. \A i \in DOMAIN attempts :
          /\ attempts[i] \in Record /\ attempts[i].spec \in Generations
          /\ i # Allocating /\ i # None /\ i > None
    <2> SUFFICES ASSUME NEW i \in DOMAIN attempts
                 PROVE  /\ attempts[i] \in Record /\ attempts[i].spec \in Generations
                        /\ i # Allocating /\ i # None /\ i > None
      OBVIOUS
    <2>1. attempts[i] \in Record /\ i \in Nat /\ i > 0
      BY Domains DEF TypeOK
    <2> QED
      BY <2>1 DEF Record, Allocating, None
  <1>d. ~Create /\ ~Spawn => Updated(attempts')
    BY StepUpdates
  <1>1. ASSUME NEW s \in Desires, SetDesired(s) PROVE Filed'
    BY <1>1, <1>b DEF SetDesired
  <1>2. CASE Reconfigure
    BY <1>2, <1>b DEF Reconfigure
  <1>3. CASE ListNodes
    <2>1. sup.pc \notin {"create", "spawn", "write"} /\ UNCHANGED file
      BY <1>3 DEF ListNodes, At
    <2>2. ~Create /\ ~Spawn
      BY <2>1 DEF Create, Spawn, At
    <2> QED
      BY <1>a, <1>d, <2>1, <2>2
  <1>4. CASE ListDaemons
    <2>1. sup.pc \notin {"create", "spawn", "write"} /\ UNCHANGED file
      BY <1>4 DEF ListDaemons, At
    <2>2. ~Create /\ ~Spawn
      BY <2>1 DEF Create, Spawn, At
    <2> QED
      BY <1>a, <1>d, <2>1, <2>2
  <1>5. CASE Decide
    <2>1. sup.pc \notin {"create", "spawn", "write"} /\ UNCHANGED file
      BY <1>5 DEF Decide, At
    <2>2. ~Create /\ ~Spawn
      BY <2>1 DEF Create, Spawn, At
    <2> QED
      BY <1>a, <1>d, <2>1, <2>2
  <1>6. CASE Retire
    <2>1. sup.pc \notin {"create", "spawn", "write"} /\ UNCHANGED file
      BY <1>6 DEF Retire, At
    <2>2. ~Create /\ ~Spawn
      BY <2>1 DEF Create, Spawn, At
    <2> QED
      BY <1>a, <1>d, <2>1, <2>2
  <1>7. CASE Stop
    <2>1. sup.pc \notin {"create", "spawn", "write"} /\ UNCHANGED file
      BY <1>7 DEF Stop, At
    <2>2. ~Create /\ ~Spawn
      BY <2>1 DEF Create, Spawn, At
    <2> QED
      BY <1>a, <1>d, <2>1, <2>2
  <1>8. CASE Recycle
    <2>1. sup.pc \notin {"create", "spawn", "write"} /\ UNCHANGED file
      BY <1>8 DEF Recycle, At
    <2>2. ~Create /\ ~Spawn
      BY <2>1 DEF Create, Spawn, At
    <2> QED
      BY <1>a, <1>d, <2>1, <2>2
  <1>9. CASE Clear
    <2>1. sup.pc \notin {"create", "spawn", "write"} /\ UNCHANGED file
      BY <1>9 DEF Clear, At
    <2>2. ~Create /\ ~Spawn
      BY <2>1 DEF Create, Spawn, At
    <2> QED
      BY <1>a, <1>d, <2>1, <2>2
  <1>10. CASE Examine
    <2>1. sup.pc \notin {"create", "spawn", "write"} /\ UNCHANGED file
      BY <1>10 DEF Examine, At
    <2>2. ~Create /\ ~Spawn
      BY <2>1 DEF Create, Spawn, At
    <2> QED
      BY <1>a, <1>d, <2>1, <2>2
  <1>11. CASE Abandon
    <2>1. sup.pc \notin {"create", "spawn", "write"} /\ UNCHANGED file
      BY <1>11 DEF Abandon, At
    <2>2. ~Create /\ ~Spawn
      BY <2>1 DEF Create, Spawn, At
    <2> QED
      BY <1>a, <1>d, <2>1, <2>2
  <1>12. CASE Create
    <2> SUFFICES ASSUME "orphan" \notin happened', NEW i \in DOMAIN attempts', Running(i)'
                 PROVE  file'[attempts'[i].spec] = i
      BY DEF Filed
    <2>1. UNCHANGED file /\ sup.pc = "create"
      BY <1>12 DEF Create, At
    <2>2. i \in DOMAIN attempts /\ attempts'[i] = attempts[i]
      BY <1>12, Creates DEF Running, NewAttempt
    <2>3. Running(i) /\ "orphan" \notin happened
      BY <2>2, StepHappened DEF Running
    <2> QED
      BY <2>1, <2>2, <2>3 DEF IndInv, Filed
  <1>13. CASE Allocate
    <2>1. sup.pc \notin {"create", "spawn", "write"} /\ UNCHANGED file
      BY <1>13 DEF Allocate, At
    <2>2. ~Create /\ ~Spawn
      BY <2>1 DEF Create, Spawn, At
    <2> QED
      BY <1>a, <1>d, <2>1, <2>2
  <1>14. CASE Ensure
    <2>1. sup.pc = "ensure" /\ UNCHANGED attempts
      BY <1>14 DEF Ensure, At
    <2>2. \/ UNCHANGED file
          \/ /\ file' = [file EXCEPT ![sup.node.gen] = Allocating]
             /\ ~(file[sup.node.gen] > None /\ Running(file[sup.node.gen]))
      BY <1>14 DEF Ensure
    <2> SUFFICES ASSUME "orphan" \notin happened', NEW i \in DOMAIN attempts, Running(i)
                 PROVE  file'[attempts[i].spec] = i
      BY <2>1 DEF Filed, Running
    <2>3. file[attempts[i].spec] = i
      BY <2>1, StepHappened DEF IndInv, Filed
    <2> QED
      BY <1>0, <1>c, <2>2, <2>3
  <1>15. CASE Spawn
    <2>1. sup.pc = "spawn" /\ file[sup.node.gen] = Allocating
      BY <1>15 DEF Spawn, At, IndInv, Allocated
    <2>2. \A i \in DOMAIN attempts :
            "orphan" \notin happened' /\ Running(i) => file[attempts[i].spec] = i
      BY <2>1, StepHappened DEF IndInv, Filed
    <2>3. CASE sup'.pc = "giveUp"
      <3>1. /\ file' = [file EXCEPT ![sup.node.gen] = None]
            /\ UNCHANGED attempts
        BY <1>0, <1>15, <2>3 DEF Spawn
      <3> SUFFICES ASSUME "orphan" \notin happened', NEW i \in DOMAIN attempts, Running(i)
                   PROVE  file'[attempts[i].spec] = i
        BY <3>1 DEF Filed, Running
      <3> QED
        BY <1>0, <1>c, <2>1, <2>2, <3>1
    <2>4. CASE sup'.pc # "giveUp"
      <3>1. /\ sup.made \in DOMAIN attempts /\ DOMAIN attempts' = DOMAIN attempts
            /\ \A i \in DOMAIN attempts : i # sup.made => attempts'[i] = attempts[i]
            /\ sup' = [sup EXCEPT !.pc = "write"] /\ UNCHANGED file
        BY <1>15, <2>4, Spawns
      <3>2. sup'.pc = "write" /\ sup'.made = sup.made
        BY <1>0, <3>1
      <3> SUFFICES ASSUME "orphan" \notin happened', NEW i \in DOMAIN attempts, Running(i)',
                          i # sup.made
                   PROVE  file'[attempts'[i].spec] = i
        BY <3>1, <3>2 DEF Filed
      <3>3. Running(i)
        BY <3>1 DEF Running
      <3> QED
        BY <2>2, <3>1, <3>3
    <2> QED
      BY <2>3, <2>4
  <1>16. CASE Write
    <2>1. /\ sup.pc = "write" /\ UNCHANGED attempts
          /\ file' = [file EXCEPT ![sup.node.gen] = sup.made]
      BY <1>16 DEF Write, At
    <2>2. file[sup.node.gen] = Allocating /\ attempts[sup.made].spec = sup.node.gen
      BY <2>1 DEF IndInv, Allocated
    <2> SUFFICES ASSUME "orphan" \notin happened', NEW i \in DOMAIN attempts, Running(i)
                 PROVE  file'[attempts[i].spec] = i
      BY <2>1 DEF Filed, Running
    <2>3. file[attempts[i].spec] = i \/ sup.made = i
      BY StepHappened DEF IndInv, Filed
    <2> QED
      BY <1>0, <1>c, <2>1, <2>2, <2>3
  <1>17. CASE Link
    <2>1. sup.pc \notin {"create", "spawn", "write"} /\ UNCHANGED file
      BY <1>17 DEF Link, At
    <2>2. ~Create /\ ~Spawn
      BY <2>1 DEF Create, Spawn, At
    <2> QED
      BY <1>a, <1>d, <2>1, <2>2
  <1>18. CASE GiveUp
    <2>1. sup.pc \notin {"create", "spawn", "write"} /\ UNCHANGED file
      BY <1>18 DEF GiveUp, At
    <2>2. ~Create /\ ~Spawn
      BY <2>1 DEF Create, Spawn, At
    <2> QED
      BY <1>a, <1>d, <2>1, <2>2
  <1>19. CASE CallLost
    <2>1. CASE UNCHANGED sup
      BY <1>19, <1>b, <2>1 DEF CallLost
    <2>2. sup.pc # "write" /\ UNCHANGED <<attempts, file>>
      BY <1>19 DEF CallLost
    <2>3. Updated(attempts')
      BY <2>2, Stays DEF IndInv, Updated
    <2> QED
      BY <1>a, <2>2, <2>3
  <1>20. CASE Crash
    <2>1. UNCHANGED <<attempts, file>>
      BY <1>20 DEF Crash
    <2>2. Updated(attempts')
      BY <2>1, Stays DEF IndInv, Updated
    <2>3. sup.pc = "write" => "orphan" \in happened'
      BY <1>20 DEF Crash, At
    <2> QED
      BY <1>a, <2>1, <2>2, <2>3 DEF Filed
  <1>21. ASSUME NEW i \in DOMAIN attempts, Enroll(i)
        PROVE  Filed'
    BY <1>21, <1>b DEF Enroll
  <1>22. ASSUME NEW i \in DOMAIN attempts, Register(i)
        PROVE  Filed'
    BY <1>22, <1>b DEF Register
  <1>23. ASSUME NEW i \in DOMAIN attempts, Heartbeat(i)
        PROVE  Filed'
    BY <1>23, <1>b DEF Heartbeat
  <1>24. ASSUME NEW i \in DOMAIN attempts, FallSilent(i)
        PROVE  Filed'
    BY <1>24, <1>b DEF FallSilent
  <1>25. ASSUME NEW i \in DOMAIN attempts, Exit(i)
        PROVE  Filed'
    BY <1>25, <1>b DEF Exit
  <1>26. ASSUME NEW i \in DOMAIN attempts, Hang(i)
        PROVE  Filed'
    BY <1>26, <1>b DEF Hang
  <1>27. ASSUME NEW i \in DOMAIN attempts, Resume(i)
        PROVE  Filed'
    BY <1>27, <1>b DEF Resume
  <1>28. ASSUME NEW g \in Generations, GrowStale(g) PROVE Filed'
    <2>1. /\ sup.pc # "write" /\ UNCHANGED <<attempts, sup>>
          /\ file[g] = Allocating /\ file' = [file EXCEPT ![g] = None]
      BY <1>28 DEF GrowStale
    <2>2. Updated(attempts')
      BY <2>1, Moves
    <2>3. \A i \in DOMAIN attempts :
            file[attempts[i].spec] = i => file'[attempts[i].spec] = i
      BY <1>0, <1>c, <2>1
    <2> QED
      BY <2>1, <2>2, <2>3, FiledStays
  <1>29. ASSUME NEW g \in Generations, RetryDue(g) PROVE Filed'
    BY <1>29, <1>b DEF RetryDue
  <1>30. CASE UNCHANGED vars
    BY <1>30, <1>b DEF vars
  <1> QED
    BY <1>1, <1>2, <1>3, <1>4, <1>5, <1>6, <1>7, <1>8, <1>9, <1>10, <1>11, <1>12,
       <1>13, <1>14, <1>15, <1>16, <1>17, <1>18, <1>19, <1>20, <1>21, <1>22, <1>23,
       <1>24, <1>25, <1>26, <1>27, <1>28, <1>29, <1>30 DEF Next, Pass, Daemon,
       Desires

-----------------------------------------------------------------------------
(* What StoppedIsStopped needs, step by step.                              *)

\* A record with nothing new: nobody becomes active, enrolls, starts or is recorded.
Lapses(a, b) ==
  /\ b.status \in {"active", "succeeded"} => a.status = b.status
  /\ b.inst = a.inst
  /\ a.row # "none" <=> b.row # "none"
  /\ a.proc = "gone" => b.proc = "gone"

AllLapse(as) ==
  DOMAIN as = DOMAIN attempts /\ \A i \in DOMAIN attempts : Lapses(attempts[i], as[i])

LEMMA StaysLapse ==
  AllLapse(attempts)
  BY DEF AllLapse, Lapses

LEMMA ReplacedLapses ==
  ASSUME TypeOK, NEW i \in DOMAIN attempts, NEW r, Lapses(attempts[i], r)
  PROVE  AllLapse([attempts EXCEPT ![i] = r])
  BY DEF AllLapse, Lapses

LEMMA KillsLapse ==
  ASSUME TypeOK, NEW i
  PROVE  AllLapse(Killed(i))
  <1>1. CASE i \notin DOMAIN attempts \/ i = None
    <2>1. Killed(i) = attempts
      BY <1>1, Domains DEF Killed, TypeOK
    <2> QED
      BY <2>1, StaysLapse
  <1>2. CASE i \in DOMAIN attempts /\ i # None
    <2> DEFINE r == [attempts[i] EXCEPT !.proc = "gone", !.hung = FALSE]
    <2>1. attempts[i] \in Record
      BY <1>2, Domains DEF TypeOK
    <2>2. Lapses(attempts[i], r)
      BY <2>1 DEF Lapses, Record
    <2>3. Killed(i) = [attempts EXCEPT ![i] = r]
      BY <1>2, <2>1, Domains DEF Killed, TypeOK
    <2> HIDE DEF r
    <2> QED
      BY <1>2, <2>2, <2>3, ReplacedLapses
  <1> QED
    BY <1>1, <1>2

LEMMA RetiresLapse ==
  ASSUME TypeOK, Enrolled, node.daemon # None
  PROVE  AllLapse([attempts EXCEPT ![node.daemon].row = "retired"])
  <1> DEFINE r == [attempts[node.daemon] EXCEPT !.row = "retired"]
  <1>1. node.daemon \in DOMAIN attempts
    BY DEF TypeOK, Named, Indices
  <1>2. attempts[node.daemon] \in Record
    BY <1>1, Domains DEF TypeOK
  <1>3. Lapses(attempts[node.daemon], r)
    BY <1>1, <1>2 DEF Lapses, Record, Enrolled
  <1> HIDE DEF r
  <1>4. AllLapse([attempts EXCEPT ![node.daemon] = r])
    BY <1>1, <1>3, ReplacedLapses
  <1> QED
    BY <1>4 DEF r

\* No attempt of an old generation is active.
LEMMA CancelsLapse ==
  ASSUME TypeOK, Enrolled, NEW as, Updated(as), AllLapse(as)
  PROVE  /\ AllLapse(Cancelled(as))
         /\ \A i \in DOMAIN attempts : Cancelled(as)[i].status # "active"
  <1>1. as \in [1 .. Len(as) -> Record] /\ DOMAIN as = DOMAIN attempts
    BY LenProperties DEF Updated
  <1>2. \A i \in DOMAIN as :
          \/ Cancelled(as)[i] = as[i] /\ as[i].status # "active"
          \/ Cancelled(as)[i] = [as[i] EXCEPT !.status = "cancelled"]
    BY <1>1 DEF Cancelled
  <1>3. DOMAIN Cancelled(as) = DOMAIN as
    BY DEF Cancelled
  <1>4. ASSUME NEW i \in DOMAIN attempts
        PROVE  Lapses(attempts[i], Cancelled(as)[i]) /\ Cancelled(as)[i].status # "active"
    <2>1. Lapses(attempts[i], as[i]) /\ as[i] \in Record
      BY <1>1 DEF AllLapse
    <2>2. CASE Cancelled(as)[i] = as[i] /\ as[i].status # "active"
      BY <2>1, <2>2
    <2>3. CASE Cancelled(as)[i] = [as[i] EXCEPT !.status = "cancelled"]
      BY <2>1, <2>3 DEF Lapses, Record
    <2> QED
      BY <1>1, <1>2, <2>2, <2>3
  <1> QED
    BY <1>1, <1>3, <1>4 DEF AllLapse

LEMMA FailsLapse ==
  ASSUME TypeOK, NEW i \in DOMAIN attempts
  PROVE  /\ AllLapse([attempts EXCEPT ![i].status = "failed"])
         /\ [attempts EXCEPT ![i].status = "failed"][i].status = "failed"
  <1> DEFINE r == [attempts[i] EXCEPT !.status = "failed"]
  <1>1. attempts[i] \in Record
    BY Domains DEF TypeOK
  <1>2. Lapses(attempts[i], r) /\ r.status = "failed"
    BY <1>1 DEF Lapses, Record
  <1> HIDE DEF r
  <1>3. AllLapse([attempts EXCEPT ![i] = r]) /\ [attempts EXCEPT ![i] = r][i] = r
    BY <1>2, ReplacedLapses
  <1> QED
    BY <1>2, <1>3 DEF r

\* What a pass may do that neither reads the node nor begins to make an attempt.
PassGoes ==
  /\ sup'.pc \in Looking => sup.pc \in Looking /\ sup'.node = sup.node
  /\ sup'.pc \in Making => sup.pc \in Making /\ sup'.made = sup.made
  /\ sup'.pc = "create" => sup'.node.attempt = None

\* Such a step keeps the invariant if nothing new happens in the attempts.
LEMMA LapseKeeps ==
  ASSUME TypeOK, IndInv, StopInv, AllLapse(attempts'), happened \subseteq happened',
         PassGoes, node'.daemon = node.daemon,
         "unlinked" \notin happened =>
           /\ \A i \in DOMAIN attempts :
                attempts'[i].status = "active" => node'.attempt = node.attempt
           /\ ToReplace' => ToReplace \/ Served' = {}
           /\ node'.phase = node'.desired => node.phase = node.desired \/ Served' = {}
  PROVE  StopInv'
  <1>1. Served' \subseteq Served /\ DOMAIN attempts' = DOMAIN attempts
    BY DEF AllLapse, Lapses, Served, Running
  <1>2. ActiveIsLast'
    BY DEF AllLapse, Lapses, StopInv, ActiveIsLast
  <1>3. CreatesNext'
    BY DEF CreatesNext, PassGoes
  <1>4. MadeLast'
    <2> SUFFICES ASSUME sup'.pc \in Making
                 PROVE  /\ \A j \in DOMAIN attempts' : j <= sup'.made
                        /\ attempts'[sup'.made].inst = None
                        /\ attempts'[sup'.made].row = "none" \/ "unlinked" \in happened'
      BY DEF MadeLast
    <2>1. sup.pc \in Making /\ sup'.made = sup.made
      BY DEF PassGoes
    <2>2. sup.made \in DOMAIN attempts
      BY <2>1 DEF Making, IndInv, Prepared, Indices
    <2> QED
      BY <1>1, <2>1, <2>2 DEF StopInv, MadeLast, AllLapse, Lapses
  <1>5. ASSUME "unlinked" \notin happened'
        PROVE  ActiveNamed' /\ OneServes' /\ NoneReplaced' /\ NoneStopped'
    <2>0. "unlinked" \notin happened
      BY <1>5
    <2>1. ActiveNamed'
      <3> SUFFICES ASSUME NEW i \in DOMAIN attempts, attempts'[i].status = "active"
                   PROVE  node'.attempt = i /\ (sup'.pc \in Looking => sup'.node.attempt = i)
        BY <1>1 DEF ActiveNamed
      <3>1. attempts[i].status = "active"
        BY DEF AllLapse, Lapses
      <3> QED
        BY <2>0, <3>1 DEF StopInv, ActiveNamed, PassGoes
    <2>2. OneServes'
      <3> SUFFICES ASSUME NEW i \in Served'
                   PROVE  /\ attempts'[i].inst = i /\ node'.daemon = i
                          /\ \A j \in DOMAIN attempts :
                               attempts'[j].status # "active"
                               /\ (j > i => attempts'[j].inst = None)
                          /\ sup'.pc \in Looking /\ sup'.node.attempt = None
                               => sup'.node.daemon = i
        BY <1>1 DEF OneServes
      <3>1. i \in Served /\ i \in DOMAIN attempts
        BY <1>1 DEF Served
      <3>2. /\ attempts[i].inst = i /\ node.daemon = i
            /\ \A j \in DOMAIN attempts :
                 attempts[j].status # "active" /\ (j > i => attempts[j].inst = None)
            /\ sup.pc \in Looking /\ sup.node.attempt = None => sup.node.daemon = i
        BY <2>0, <3>1 DEF StopInv, OneServes
      <3> QED
        BY <3>1, <3>2 DEF AllLapse, Lapses, PassGoes
    <2>3. NoneReplaced'
      BY <1>1, <2>0 DEF StopInv, NoneReplaced
    <2>4. NoneStopped'
      BY <1>1, <2>0 DEF StopInv, NoneStopped
    <2> QED
      BY <2>1, <2>2, <2>3, <2>4
  <1> QED
    BY <1>2, <1>3, <1>4, <1>5 DEF StopInv

\* A step after which the invariant holds for want of anything new.
NodeKeeps ==
  /\ node'.daemon = node.daemon /\ node'.attempt = node.attempt
  /\ node'.phase = node'.desired => node.phase = node.desired

PassKeeps == PassGoes /\ (ToReplace' => ToReplace)

Keeps ==
  /\ AllLapse(attempts') /\ PassGoes /\ node'.daemon = node.daemon
  /\ "unlinked" \notin happened =>
       /\ \A i \in DOMAIN attempts :
            attempts'[i].status = "active" => node'.attempt = node.attempt
       /\ ToReplace' => ToReplace \/ Served' = {}
       /\ node'.phase = node'.desired => node.phase = node.desired \/ Served' = {}

LEMMA Keeping ==
  ASSUME AllLapse(attempts'), NodeKeeps, PassKeeps
  PROVE  Keeps
  BY DEF Keeps, NodeKeeps, PassKeeps

LEMMA NodeStays ==
  ASSUME UNCHANGED node
  PROVE  NodeKeeps
  BY DEF NodeKeeps

LEMMA PassRests ==
  ASSUME StopInv, UNCHANGED sup
  PROVE  PassKeeps
  BY DEF PassKeeps, PassGoes, ToReplace, StopInv, CreatesNext

\* The node is not what was wanted when its phase is one on the way there.
LEMMA Turns ==
  ASSUME TypeOK, NEW p \in {"changing", "ready"}, node' = [node EXCEPT !.phase = p]
  PROVE  NodeKeeps
  <1>1. node \in NodeRow
    BY DEF TypeOK, Named
  <1> QED
    BY <1>1 DEF NodeKeeps, NodeRow, Desires

\* The admin changes the node: no attempt is active then.
LEMMA Changes ==
  ASSUME TypeOK, StopInv, UNCHANGED sup, AllLapse(attempts'),
         \A i \in DOMAIN attempts : attempts'[i].status # "active",
         node'.daemon = node.daemon, node'.phase = "changing", node'.desired \in Desires
  PROVE  Keeps
  BY PassRests DEF Keeps, PassKeeps, Desires

\* An attempt fails: if another is active, the node still names that one.
LEMMA FailureKeeps ==
  ASSUME TypeOK, StopInv, NEW i \in DOMAIN attempts, Failed(i), PassKeeps
  PROVE  Keeps
  <1>1. AllLapse(attempts') /\ attempts'[i].status = "failed"
    BY FailsLapse DEF Failed
  <1>2. node \in NodeRow
    BY DEF TypeOK, Named
  <1>3. /\ node'.daemon = node.daemon /\ node'.phase # node'.desired
        /\ node.attempt # i => node'.attempt = node.attempt
    BY <1>2 DEF Failed, NodeRow, Desires
  <1>4. ASSUME NEW j \in DOMAIN attempts, attempts'[j].status = "active",
               "unlinked" \notin happened
        PROVE  node'.attempt = node.attempt
    <2>1. attempts[j].status = "active" /\ j # i
      BY <1>1, <1>4 DEF AllLapse, Lapses
    <2>2. node.attempt = j
      BY <1>4, <2>1 DEF StopInv, ActiveNamed
    <2> QED
      BY <1>3, <2>1, <2>2
  <1> QED
    BY <1>1, <1>3, <1>4 DEF Keeps, PassKeeps

\* The process that serves the node is the recorded one.
LEMMA ServedRecorded ==
  ASSUME TypeOK, StopInv, "unlinked" \notin happened, NEW i \in Served
  PROVE  Recorded = i /\ attempts[i].inst = i /\ i \in DOMAIN attempts /\ i # None
  <1>1. /\ i \in DOMAIN attempts /\ attempts[i].inst = i
        /\ \A j \in DOMAIN attempts : j > i => attempts[j].inst = None
    BY DEF Served, StopInv, OneServes
  <1>2. \A j \in DOMAIN attempts : j \in Nat /\ j > 0
    BY Domains DEF TypeOK
  <1> DEFINE with == {j \in DOMAIN attempts : attempts[j].inst # None}
  <1>3. i \in with /\ i # None
    BY <1>1, <1>2 DEF None
  <1>4. \A j \in with : j <= i /\ j \in Nat
    BY <1>1, <1>2
  <1>5. \A k \in with : (\A j \in with : j <= k) => k = i
    BY <1>2, <1>3, <1>4
  <1>6. Recorded = CHOOSE k \in with : \A j \in with : j <= k
    BY <1>3 DEF Recorded
  <1>7. Recorded \in with /\ \A j \in with : j <= Recorded
    <2> HIDE DEF with
    <2> QED
      BY <1>3, <1>4, <1>6
  <1> QED
    BY <1>1, <1>3, <1>5, <1>7

\* When it is killed, none does.
LEMMA KillServed ==
  ASSUME TypeOK, StopInv, NEW k, attempts' = Killed(k),
         \A i \in Served : k = i
  PROVE  Served' = {}
  <1> SUFFICES ASSUME NEW i \in Served' PROVE FALSE
    OBVIOUS
  <1>1. AllLapse(attempts')
    BY KillsLapse
  <1>2. i \in Served /\ i \in DOMAIN attempts /\ attempts'[i].proc # "gone" /\ i # None
    BY <1>1 DEF AllLapse, Lapses, Served, Running
  <1>3. k = i /\ attempts[i] \in Record
    BY <1>2, Domains DEF TypeOK
  <1>4. attempts' = [attempts EXCEPT ![i].proc = "gone", ![i].hung = FALSE]
    BY <1>2, <1>3 DEF Killed
  <1>5. attempts \in [DOMAIN attempts -> Record]
    BY Domains DEF TypeOK
  <1>6. attempts'[i].proc = "gone"
    BY <1>2, <1>3, <1>4, <1>5 DEF Record
  <1> QED
    BY <1>2, <1>6

LEMMA KillRecorded ==
  ASSUME TypeOK, StopInv, "unlinked" \notin happened, attempts' = Killed(InstOf(Recorded))
  PROVE  Served' = {}
  <1>1. \A i \in Served : InstOf(Recorded) = i
    BY ServedRecorded DEF InstOf
  <1> QED
    BY <1>1, KillServed

\* The steps that bring something new.
Renews == ListNodes \/ Create \/ Spawn \/ Link \/ \E i \in DOMAIN attempts : Enroll(i)

\* Every other step keeps the invariant.
LEMMA StepKeeps ==
  ASSUME TypeOK, IndInv, StopInv, [Next]_vars, ~Renews
  PROVE  Keeps
  <1> USE DEF IndInv
  <1>0. /\ sup \in [pc : PCs, node : NodeRow, seen : Rows, made : Nat, inst : Nat]
        /\ node \in NodeRow
    BY DEF Prepared, TypeOK, Named
  <1>a. UNCHANGED attempts => AllLapse(attempts')
    BY StaysLapse
  <1>b. UNCHANGED attempts => Served' = Served
    BY DEF Served, Running
  <1>1. ASSUME NEW s \in Desires, SetDesired(s) PROVE Keeps
    <2> DEFINE as == IF s # "running" /\ node.daemon # None
                     THEN [attempts EXCEPT ![node.daemon].row = "retired"] ELSE attempts
    <2>1. Updated(as) /\ AllLapse(as)
      BY Stays, StaysLapse, RetiresRow, RetiresLapse
    <2>2. attempts' = Cancelled(as) /\ UNCHANGED sup
      BY <1>1 DEF SetDesired
    <2>3. node'.daemon = node.daemon /\ node'.phase = "changing" /\ node'.desired \in Desires
      BY <1>0, <1>1 DEF SetDesired, NodeRow
    <2> HIDE DEF as
    <2> QED
      BY <2>1, <2>2, <2>3, CancelsLapse, Changes
  <1>2. CASE Reconfigure
    <2>1. attempts' = Cancelled(attempts) /\ UNCHANGED sup
      BY <1>2 DEF Reconfigure
    <2>2. node'.daemon = node.daemon /\ node'.phase = "changing" /\ node'.desired \in Desires
      BY <1>0, <1>2 DEF Reconfigure, NodeRow
    <2> QED
      BY <2>1, <2>2, Stays, StaysLapse, CancelsLapse, Changes
  <1>4. CASE ListDaemons
    <2>1. PassKeeps
      BY <1>4, <1>0 DEF ListDaemons, At, PassKeeps, PassGoes, Looking, Making, ToReplace
    <2>2. NodeKeeps /\ AllLapse(attempts')
      BY <1>4, <1>a, NodeStays DEF ListDaemons
    <2> QED
      BY <2>1, <2>2, Keeping
  <1>5. CASE Decide
    <2>1. /\ sup.pc = "decide"
          /\ sup' = Resting
             \/ \E p \in {"retireStopped", "stop", "retireSilent", "examine", "retireOutdated"} :
                  sup' = [sup EXCEPT !.pc = p] /\ (p = "examine" => sup.node.daemon = None)
      BY <1>5 DEF Decide, Goto, At
    <2>2. PassGoes
      BY <1>0, <2>1 DEF PassGoes, Looking, Making, Resting
    <2>3. ToReplace' => sup.node.attempt = None /\ sup.node.daemon = None
      BY <1>0, <2>1 DEF ToReplace, Making, Resting
    <2>4. UNCHANGED <<node, attempts>>
      BY <1>5 DEF Decide
    <2>5. ASSUME "unlinked" \notin happened, ToReplace' PROVE Served' = {}
      <3>1. \A i \in Served : sup.node.daemon = i /\ i # None
        BY <2>1, <2>3, <2>5 DEF StopInv, OneServes, Looking, Served, Running
      <3> QED
        BY <1>b, <2>3, <2>4, <2>5, <3>1
    <2> QED
      BY <1>a, <2>2, <2>4, <2>5 DEF Keeps
  <1>6. CASE Retire
    <2>1. /\ sup.pc \in {"retireStopped", "retireSilent", "retireOutdated"}
          /\ sup' = Resting \/ \E p \in {"stop", "recycle", "clear"} : sup' = [sup EXCEPT !.pc = p]
      BY <1>6 DEF Retire, Answered, Throw, Goto, At
    <2>2. PassKeeps
      BY <1>0, <2>1 DEF PassKeeps, PassGoes, Looking, Making, ToReplace, Resting
    <2>3. NodeKeeps /\ AllLapse(attempts')
      BY <1>6, <1>a, RetiresLapse, NodeStays DEF Retire
    <2> QED
      BY <2>2, <2>3, Keeping
  <1>7. CASE Stop
    <2>1. sup' = Resting
      BY <1>7 DEF Stop, Answered, Throw, Goto, At
    <2>2. PassKeeps
      BY <2>1 DEF PassKeeps, PassGoes, Looking, Making, ToReplace, Resting
    <2>3. node'.daemon = node.daemon /\ node'.attempt = node.attempt
      BY <1>0, <1>7 DEF Stop, NodeRow
    <2>4. AllLapse(attempts') /\ ("unlinked" \notin happened => Served' = {})
      BY <1>7, KillsLapse, KillRecorded DEF Stop
    <2> QED
      BY <2>2, <2>3, <2>4 DEF Keeps, PassKeeps
  <1>8. CASE Recycle
    <2>1. /\ sup.pc = "recycle"
          /\ sup' = Resting \/ sup' = [sup EXCEPT !.pc = "examine"]
      BY <1>8 DEF Recycle, Answered, Throw, Goto, At
    <2>2. PassGoes
      BY <1>0, <2>1 DEF PassGoes, Looking, Making, Resting
    <2>3. NodeKeeps
      BY <1>8, Turns DEF Recycle
    <2>4. AllLapse(attempts') /\ ("unlinked" \notin happened => Served' = {})
      BY <1>8, KillsLapse, KillRecorded DEF Recycle
    <2> QED
      BY <2>2, <2>3, <2>4 DEF Keeps, NodeKeeps
  <1>9. CASE Clear
    <2>1. sup.pc = "clear" /\ sup' = [sup EXCEPT !.pc = "examine"]
      BY <1>9 DEF Clear, Goto, At
    <2>2. PassGoes
      BY <1>0, <2>1 DEF PassGoes, Looking, Making
    <2>3. NodeKeeps /\ AllLapse(attempts') /\ attempts' = Killed(InstOf(Linked))
      BY <1>9, NodeStays, KillsLapse DEF Clear
    <2>4. ASSUME "unlinked" \notin happened, ToReplace' PROVE Served' = {}
      <3>1. sup.node.attempt = None
        BY <1>0, <2>1, <2>4 DEF ToReplace, Making
      <3>2. ASSUME NEW i \in Served PROVE InstOf(Linked) = i
        <4>1. Recorded = i /\ attempts[i].inst = i /\ i # None
          BY <2>4, ServedRecorded
        <4>2. sup.node.daemon = i
          BY <2>1, <2>4, <3>1 DEF StopInv, OneServes, Looking
        <4>3. Linked = i
          BY <3>1, <4>1, <4>2 DEF Linked
        <4> QED
          BY <4>1, <4>3 DEF InstOf
      <3> QED
        BY <2>3, <3>2, KillServed
    <2> QED
      BY <2>2, <2>3, <2>4 DEF Keeps, NodeKeeps
  <1>10. CASE Examine
    <2>1. /\ sup.pc = "examine"
          /\ \/ sup' = Resting
             \/ sup' = [sup EXCEPT !.pc = "abandon"]
             \/ sup' = [sup EXCEPT !.pc = "create"] /\ sup.node.attempt = None
      BY <1>10 DEF Examine, Goto, At
    <2>2. PassKeeps
      BY <1>0, <2>1 DEF PassKeeps, PassGoes, Looking, Making, ToReplace, Resting
    <2>3. NodeKeeps /\ AllLapse(attempts')
      BY <1>10, NodeStays, StaysLapse, KillsLapse DEF Examine
    <2> QED
      BY <2>2, <2>3, Keeping
  <1>11. CASE Abandon
    <2>1. sup' = Resting /\ sup.pc = "abandon"
      BY <1>11 DEF Abandon, Answered, Throw, Goto, At
    <2>2. PassKeeps
      BY <2>1 DEF PassKeeps, PassGoes, Looking, Making, ToReplace, Resting
    <2>3. sup.node.attempt \in DOMAIN attempts
      BY <2>1 DEF Prepared, Named, Indices
    <2>4. Failed(sup.node.attempt) \/ UNCHANGED <<node, attempts>>
      BY <1>11 DEF Abandon
    <2> QED
      BY <1>a, <2>2, <2>3, <2>4, FailureKeeps, NodeStays, Keeping
  <1>13. CASE Allocate
    <2>1. /\ sup.pc = "allocate"
          /\ sup' = [sup EXCEPT !.pc = "ensure"] \/ sup' = [sup EXCEPT !.pc = "giveUp"]
      BY <1>13 DEF Allocate, Answered, Throw, Goto, At
    <2>2. PassKeeps
      BY <1>0, <2>1 DEF PassKeeps, PassGoes, Looking, Making, ToReplace
    <2>3. NodeKeeps /\ AllLapse(attempts')
      BY <1>13, <1>a, NodeStays, Turns DEF Allocate
    <2> QED
      BY <2>2, <2>3, Keeping
  <1>14. CASE Ensure
    <2>1. /\ sup.pc = "ensure"
          /\ \E p \in {"link", "giveUp", "spawn"}, k \in {sup.inst, file[sup.node.gen]} :
               sup' = [sup EXCEPT !.pc = p, !.inst = k]
      BY <1>14, <1>0 DEF Ensure, At
    <2>2. PassKeeps
      BY <1>0, <2>1 DEF PassKeeps, PassGoes, Looking, Making, ToReplace
    <2>3. NodeKeeps /\ AllLapse(attempts')
      BY <1>14, <1>a, NodeStays DEF Ensure
    <2> QED
      BY <2>2, <2>3, Keeping
  <1>16. CASE Write
    <2>1. sup.pc = "write" /\ sup' = [sup EXCEPT !.pc = "link", !.inst = sup.made]
      BY <1>16 DEF Write, At
    <2>2. PassKeeps
      BY <1>0, <2>1 DEF PassKeeps, PassGoes, Looking, Making, ToReplace
    <2>3. NodeKeeps /\ AllLapse(attempts')
      BY <1>16, <1>a, NodeStays DEF Write
    <2> QED
      BY <2>2, <2>3, Keeping
  <1>18. CASE GiveUp
    <2>1. sup' = Resting /\ sup.pc = "giveUp"
      BY <1>18 DEF GiveUp, Goto, At
    <2>2. PassKeeps
      BY <2>1 DEF PassKeeps, PassGoes, Looking, Making, ToReplace, Resting
    <2>3. sup.made \in DOMAIN attempts
      BY <2>1 DEF Prepared, Indices
    <2>4. Failed(sup.made) \/ UNCHANGED <<node, attempts>>
      BY <1>18 DEF GiveUp
    <2> QED
      BY <1>a, <2>2, <2>3, <2>4, FailureKeeps, NodeStays, Keeping
  <1>19. CASE CallLost
    <2>1. sup' = Resting \/ sup' = [sup EXCEPT !.pc = "giveUp"]
      BY <1>19 DEF CallLost, Throw, Goto
    <2>2. PassKeeps
      BY <1>0, <2>1 DEF PassKeeps, PassGoes, Looking, Making, ToReplace, Resting
    <2>3. NodeKeeps /\ AllLapse(attempts')
      BY <1>19, <1>a, NodeStays DEF CallLost
    <2> QED
      BY <2>2, <2>3, Keeping
  <1>20. CASE Crash
    <2>1. PassKeeps
      BY <1>20 DEF Crash, PassKeeps, PassGoes, Looking, Making, ToReplace, Resting
    <2>2. NodeKeeps /\ AllLapse(attempts')
      BY <1>20, <1>a, NodeStays DEF Crash
    <2> QED
      BY <2>1, <2>2, Keeping
  <1>22. ASSUME NEW i \in DOMAIN attempts, Register(i) PROVE Keeps
    <2> DEFINE r == [attempts[i] EXCEPT !.proc = "registered",
                                 !.row = IF @ = "retired" THEN @ ELSE "fresh"]
    <2>1. attempts[i] \in Record
      BY Domains DEF TypeOK
    <2>2. Lapses(attempts[i], r)
      BY <1>22, <2>1 DEF Register, Lapses, Record, Enrolled
    <2>3. attempts' = [attempts EXCEPT ![i] = r]
      BY <1>22 DEF Register
    <2>4. PassKeeps /\ NodeKeeps
      BY <1>22, PassRests, NodeStays, Turns DEF Register
    <2> HIDE DEF r
    <2> QED
      BY <2>2, <2>3, <2>4, ReplacedLapses, Keeping
  <1>23. ASSUME NEW i \in DOMAIN attempts, Heartbeat(i) PROVE Keeps
    <2> DEFINE r == [attempts[i] EXCEPT !.row = "fresh"]
    <2>1. attempts[i] \in Record
      BY Domains DEF TypeOK
    <2>2. Lapses(attempts[i], r)
      BY <1>23, <2>1 DEF Heartbeat, Lapses, Record
    <2>3. attempts' = [attempts EXCEPT ![i] = r]
      BY <1>23 DEF Heartbeat
    <2>4. PassKeeps /\ NodeKeeps
      BY <1>23, PassRests, NodeStays DEF Heartbeat
    <2> HIDE DEF r
    <2> QED
      BY <2>2, <2>3, <2>4, ReplacedLapses, Keeping
  <1>24. ASSUME NEW i \in DOMAIN attempts, FallSilent(i) PROVE Keeps
    <2> DEFINE r == [attempts[i] EXCEPT !.row = IF @ = "fresh" THEN "recent" ELSE "old"]
    <2>1. attempts[i] \in Record
      BY Domains DEF TypeOK
    <2>2. Lapses(attempts[i], r)
      BY <1>24, <2>1 DEF FallSilent, Lapses, Record
    <2>3. attempts' = [attempts EXCEPT ![i] = r]
      BY <1>24 DEF FallSilent
    <2>4. PassKeeps /\ NodeKeeps
      BY <1>24, PassRests, NodeStays DEF FallSilent
    <2> HIDE DEF r
    <2> QED
      BY <2>2, <2>3, <2>4, ReplacedLapses, Keeping
  <1>25. ASSUME NEW i \in DOMAIN attempts, Exit(i) PROVE Keeps
    <2>1. PassKeeps /\ NodeKeeps /\ AllLapse(attempts')
      BY <1>25, KillsLapse, PassRests, NodeStays DEF Exit
    <2> QED
      BY <2>1, Keeping
  <1>26. ASSUME NEW i \in DOMAIN attempts, NEW h \in BOOLEAN, UNCHANGED <<node, sup>>,
                attempts' = [attempts EXCEPT ![i].hung = h]
         PROVE  Keeps
    <2> DEFINE r == [attempts[i] EXCEPT !.hung = h]
    <2>1. attempts[i] \in Record
      BY Domains DEF TypeOK
    <2>2. Lapses(attempts[i], r)
      BY <2>1 DEF Lapses, Record
    <2>3. attempts' = [attempts EXCEPT ![i] = r]
      BY <1>26
    <2>4. PassKeeps /\ NodeKeeps
      BY <1>26, PassRests, NodeStays
    <2> HIDE DEF r
    <2> QED
      BY <2>2, <2>3, <2>4, ReplacedLapses, Keeping
  <1>27. ASSUME NEW i \in DOMAIN attempts, Hang(i) \/ Resume(i) PROVE Keeps
    BY <1>26, <1>27 DEF Hang, Resume
  <1>28. ASSUME NEW g \in Generations, GrowStale(g) \/ RetryDue(g) PROVE Keeps
    <2>1. PassKeeps /\ NodeKeeps /\ AllLapse(attempts')
      BY <1>28, <1>a, PassRests, NodeStays DEF GrowStale, RetryDue
    <2> QED
      BY <2>1, Keeping
  <1>30. CASE UNCHANGED vars
    <2>1. PassKeeps /\ NodeKeeps /\ AllLapse(attempts')
      BY <1>30, <1>a, PassRests, NodeStays DEF vars
    <2> QED
      BY <2>1, Keeping
  <1> QED
    BY <1>1, <1>2, <1>4, <1>5, <1>6, <1>7, <1>8, <1>9, <1>10, <1>11, <1>13, <1>14, <1>16,
       <1>18, <1>19, <1>20, <1>22, <1>23, <1>24, <1>25, <1>27, <1>28, <1>30
       DEF Next, Pass, Daemon, Desires, Renews

\* A pass begins with the node as it is.
LEMMA ListKeeps ==
  ASSUME TypeOK, IndInv, StopInv, ListNodes
  PROVE  StopInv'
  <1>1. UNCHANGED <<node, attempts, used>> /\ sup'.pc = "listDaemons" /\ sup'.node = node
    BY DEF ListNodes, Resting
  <1>2. UNCHANGED <<Served, happened>>
    BY <1>1 DEF Served, Running, used
  <1>3. sup'.pc \notin Making /\ ~ToReplace'
    BY <1>1 DEF Making, ToReplace
  <1>4. ActiveIsLast' /\ CreatesNext' /\ MadeLast'
    BY <1>1, <1>3 DEF StopInv, ActiveIsLast, CreatesNext, MadeLast
  <1>5. ASSUME "unlinked" \notin happened'
        PROVE  ActiveNamed' /\ OneServes' /\ NoneReplaced' /\ NoneStopped'
    <2>1. ActiveNamed /\ OneServes /\ NoneStopped
      BY <1>2, <1>5 DEF StopInv
    <2>2. ActiveNamed'
      BY <1>1, <2>1 DEF ActiveNamed
    <2>3. OneServes'
      BY <1>1, <1>2, <2>1 DEF OneServes
    <2>4. NoneReplaced' /\ NoneStopped'
      BY <1>1, <1>2, <1>3, <2>1 DEF NoneReplaced, NoneStopped
    <2> QED
      BY <2>2, <2>3, <2>4
  <1> QED
    BY <1>4, <1>5 DEF StopInv

\* While none serves the node, there is little to keep.
LEMMA NoneServes ==
  ASSUME ActiveIsLast', CreatesNext', MadeLast',
         "unlinked" \notin happened' => ActiveNamed' /\ Served' = {}
  PROVE  StopInv'
  BY DEF StopInv, OneServes, NoneReplaced, NoneStopped

\* An attempt is made when no other is active and no process serves the node.
LEMMA CreateKeeps ==
  ASSUME TypeOK, IndInv, StopInv, [Next]_vars, Create
  PROVE  StopInv'
  <1>0. /\ sup \in [pc : PCs, node : NodeRow, seen : Rows, made : Nat, inst : Nat]
        /\ node \in NodeRow /\ sup.pc = "create"
    BY DEF IndInv, Prepared, TypeOK, Named, Create, At
  <1>1. CASE UNCHANGED <<attempts, node>>
    <2>1. sup' = Resting
      BY <1>1, Creates, Domains DEF Create, Throw, Goto, At, TypeOK
    <2>2. PassKeeps
      BY <2>1 DEF PassKeeps, PassGoes, Looking, Making, ToReplace, Resting
    <2>3. Keeps
      BY <1>1, <2>2, NodeStays, StaysLapse, Keeping
    <2> QED
      BY <2>3, StepHappened, LapseKeeps DEF Keeps
  <1>2. CASE ~UNCHANGED <<attempts, node>>
    <2> DEFINE n == Len(attempts) + 1
    <2>1. /\ n \notin DOMAIN attempts /\ DOMAIN attempts' = DOMAIN attempts \cup {n}
          /\ attempts'[n] = NewAttempt(node.gen)
          /\ \A i \in DOMAIN attempts : attempts'[i] = attempts[i]
          /\ node' = [node EXCEPT !.phase = "changing", !.attempt = n]
      BY <1>2, Creates
    <2>2. /\ \A i \in DOMAIN attempts : attempts[i].status # "active"
          /\ sup' = [sup EXCEPT !.pc = "allocate", !.made = n] \/ sup' = Resting
      BY <1>0, <1>2 DEF Create, ActiveAttempts, Throw, Goto
    <2>3. /\ n \in Nat /\ \A j \in DOMAIN attempts' : j <= n
          /\ attempts'[n].status = "active" /\ attempts'[n].inst = None
          /\ attempts'[n].row = "none" /\ attempts'[n].proc = "gone"
      <3>1. DOMAIN attempts = 1 .. Len(attempts) /\ Len(attempts) \in Nat
        BY Domains DEF TypeOK
      <3> QED
        BY <2>1, <3>1 DEF NewAttempt
    <2> HIDE DEF n
    <2>4. ActiveIsLast'
      BY <2>1, <2>2, <2>3 DEF StopInv, ActiveIsLast
    <2>a. (sup'.pc = "allocate" /\ sup'.made = n) \/ sup'.pc = "idle"
      <3>1. \/ sup' = [pc |-> "allocate", node |-> sup.node, seen |-> sup.seen,
                       made |-> n, inst |-> sup.inst]
            \/ sup' = Resting
        BY <2>2, PassParts
      <3> QED
        BY <3>1 DEF Resting
    <2>5. CreatesNext' /\ sup'.pc \notin Looking
      BY <2>a DEF CreatesNext, Looking
    <2>6. MadeLast'
      BY <2>3, <2>a DEF MadeLast, Making
    <2>7. ActiveNamed'
      <3>1. node'.attempt = n
        BY <1>0, <2>1, <2>3 DEF NodeRow
      <3> QED
        BY <2>1, <2>2, <2>5, <3>1 DEF ActiveNamed
    <2>8. "unlinked" \notin happened' => Served' = {}
      <3>1. Served' \subseteq Served
        BY <2>1, <2>3 DEF Served, Running
      <3>2. ToReplace
        BY <1>0 DEF ToReplace
      <3> QED
        BY <3>1, <3>2, StepHappened DEF StopInv, NoneReplaced
    <2> QED
      BY <2>4, <2>5, <2>6, <2>7, <2>8, NoneServes
  <1> QED
    BY <1>1, <1>2

\* The process that is started has yet to enroll.
LEMMA SpawnKeeps ==
  ASSUME TypeOK, IndInv, StopInv, [Next]_vars, Spawn
  PROVE  StopInv'
  <1>0. /\ sup \in [pc : PCs, node : NodeRow, seen : Rows, made : Nat, inst : Nat]
        /\ sup.pc = "spawn" /\ sup.pc \in Making /\ ToReplace /\ UNCHANGED node
    BY DEF IndInv, Prepared, Spawn, At, Making, ToReplace
  <1>1. CASE UNCHANGED attempts
    <2>1. \E p \in {"write", "giveUp"} : sup' = [sup EXCEPT !.pc = p]
      BY DEF Spawn
    <2>2. PassKeeps
      BY <1>0, <2>1 DEF PassKeeps, PassGoes, Looking, Making, ToReplace
    <2>3. Keeps
      BY <1>0, <1>1, <2>2, NodeStays, StaysLapse, Keeping
    <2> QED
      BY <2>3, StepHappened, LapseKeeps DEF Keeps
  <1>2. CASE ~UNCHANGED attempts
    <2>1. /\ sup.made \in DOMAIN attempts /\ DOMAIN attempts' = DOMAIN attempts
          /\ attempts'[sup.made] = [attempts[sup.made] EXCEPT !.proc = "booting",
                                                            !.spec = sup.node.gen]
          /\ \A i \in DOMAIN attempts : i # sup.made => attempts'[i] = attempts[i]
          /\ sup' = [sup EXCEPT !.pc = "write"]
      BY <1>2, Spawns
    <2>2. attempts[sup.made] \in Record
      BY <2>1, Domains DEF TypeOK
    <2>3. \A i \in DOMAIN attempts :
            /\ attempts'[i].status = attempts[i].status /\ attempts'[i].row = attempts[i].row
            /\ attempts'[i].inst = attempts[i].inst
            /\ i # sup.made => attempts'[i].proc = attempts[i].proc
      BY <2>1, <2>2 DEF Record
    <2>4. sup'.pc = "write" /\ sup'.made = sup.made
      BY <1>0, <2>1
    <2>5. ActiveIsLast' /\ CreatesNext'
      BY <2>1, <2>3, <2>4 DEF StopInv, ActiveIsLast, CreatesNext
    <2>6. MadeLast'
      BY <1>0, <2>1, <2>3, <2>4, StepHappened DEF StopInv, MadeLast
    <2>7. ASSUME "unlinked" \notin happened' PROVE ActiveNamed' /\ Served' = {}
      <3>0. "unlinked" \notin happened
        BY <2>7, StepHappened
      <3>1. ActiveNamed'
        BY <1>0, <2>1, <2>3, <2>4, <3>0 DEF StopInv, ActiveNamed, Looking
      <3>2. Served = {} /\ attempts[sup.made].row = "none"
        BY <1>0, <3>0 DEF StopInv, NoneReplaced, MadeLast
      <3>3. Served' \subseteq Served
        BY <2>1, <2>3, <3>2 DEF Served, Running
      <3> QED
        BY <3>1, <3>2, <3>3
    <2> QED
      BY <2>5, <2>6, <2>7, NoneServes
  <1> QED
    BY <1>1, <1>2

\* No process serves the node when an instance is recorded.
LEMMA LinkKeeps ==
  ASSUME TypeOK, IndInv, StopInv, [Next]_vars, Link
  PROVE  StopInv'
  <1>0. /\ sup \in [pc : PCs, node : NodeRow, seen : Rows, made : Nat, inst : Nat]
        /\ sup.pc = "link" /\ ToReplace /\ sup.made \in DOMAIN attempts
    BY DEF IndInv, Prepared, Link, At, Making, ToReplace, Indices
  <1>1. sup' = Resting \/ sup' = [sup EXCEPT !.pc = "giveUp"]
    BY <1>0 DEF Link, Answered, Throw, Goto
  <1>2. sup'.pc \notin Making /\ sup'.pc \notin Looking /\ CreatesNext' /\ MadeLast'
    BY <1>0, <1>1 DEF Making, Looking, Resting, CreatesNext, MadeLast
  <1>3. /\ DOMAIN attempts' = DOMAIN attempts /\ node'.attempt = node.attempt
        /\ \A i \in DOMAIN attempts :
             /\ attempts'[i].status = attempts[i].status
             /\ attempts'[i].row = attempts[i].row /\ attempts'[i].proc = attempts[i].proc
    <2>1. CASE UNCHANGED <<node, attempts>>
      BY <2>1
    <2>2. CASE ~UNCHANGED <<node, attempts>>
      <3>1. /\ attempts' = [attempts EXCEPT ![sup.made].inst = sup.inst]
            /\ node' = [node EXCEPT !.phase = "changing"]
        BY <2>2 DEF Link
      <3>2. attempts[sup.made] \in Record /\ node \in NodeRow
        BY <1>0, Domains DEF TypeOK, Named
      <3> QED
        BY <1>0, <3>1, <3>2 DEF Record, NodeRow
    <2> QED
      BY <2>1, <2>2
  <1>4. ActiveIsLast'
    BY <1>3 DEF StopInv, ActiveIsLast
  <1>5. ASSUME "unlinked" \notin happened' PROVE ActiveNamed' /\ Served' = {}
    <2>0. "unlinked" \notin happened
      BY <1>5, StepHappened
    <2>1. ActiveNamed'
      BY <1>2, <1>3, <2>0 DEF StopInv, ActiveNamed
    <2>2. Served' = Served
      BY <1>3 DEF Served, Running
    <2> QED
      BY <1>0, <2>0, <2>1, <2>2 DEF StopInv, NoneReplaced
  <1> QED
    BY <1>2, <1>4, <1>5, NoneServes

\* What an enrollment does: it is refused, or the node gets its daemon.
LEMMA Enrolls ==
  ASSUME TypeOK, NEW i \in DOMAIN attempts, Enroll(i)
  PROVE  \/ UNCHANGED <<node, used>> /\ AllLapse(attempts')
         \/ /\ attempts[i].status \in {"active", "succeeded"} /\ attempts[i].proc = "booting"
            /\ node'.phase = "changing" /\ node'.desired = "running"
            /\ node'.daemon = i /\ node'.attempt = None
            /\ DOMAIN attempts' = DOMAIN attempts
            /\ attempts'[i].status = "succeeded" /\ attempts'[i].row # "none"
            /\ attempts'[i].inst = attempts[i].inst
            /\ \A j \in DOMAIN attempts : j # i => attempts'[j] = attempts[j]
            /\ attempts[i].inst # i => "unlinked" \in happened'
  <1>1. CASE attempts' = Killed(i) /\ UNCHANGED <<node, used>>
    BY <1>1, KillsLapse
  <1>2. CASE ~(attempts' = Killed(i) /\ UNCHANGED <<node, used>>)
    <2>1. /\ node.desired = "running" /\ attempts[i].status \in {"active", "succeeded"}
          /\ attempts[i].proc = "booting"
          /\ node' = [node EXCEPT !.phase = "changing", !.daemon = i, !.attempt = None]
          /\ attempts[i].inst # i => "unlinked" \in happened'
          /\ \E heard \in BOOLEAN :
               attempts' = [attempts EXCEPT ![i].status = "succeeded",
                                            ![i].row = IF @ = "none" THEN "fresh" ELSE @,
                                            ![i].proc = IF heard THEN "enrolled" ELSE @]
      BY <1>2 DEF Enroll, Accepts
    <2>2. node \in NodeRow /\ attempts[i] \in Record
      BY Domains DEF TypeOK, Named
    <2>3. /\ node'.phase = "changing" /\ node'.desired = "running"
          /\ node'.daemon = i /\ node'.attempt = None
      BY <2>1, <2>2 DEF NodeRow
    <2> DEFINE r(heard) == [attempts[i] EXCEPT !.status = "succeeded",
                              !.row = IF @ = "none" THEN "fresh" ELSE @,
                              !.proc = IF heard THEN "enrolled" ELSE @]
    <2>4. PICK heard \in BOOLEAN : attempts' = [attempts EXCEPT ![i] = r(heard)]
      BY <2>1
    <2>5. /\ r(heard).status = "succeeded" /\ r(heard).row # "none"
          /\ r(heard).inst = attempts[i].inst
      BY <2>2 DEF Record
    <2> HIDE DEF r
    <2>6. /\ DOMAIN attempts' = DOMAIN attempts /\ attempts'[i] = r(heard)
          /\ \A j \in DOMAIN attempts : j # i => attempts'[j] = attempts[j]
      BY <2>4
    <2> QED
      BY <2>1, <2>3, <2>5, <2>6
  <1> QED
    BY <1>1, <1>2

\* A daemon whose instance is recorded is the only one to serve the node.
LEMMA EnrollKeeps ==
  ASSUME TypeOK, IndInv, StopInv, [Next]_vars, NEW i \in DOMAIN attempts, Enroll(i)
  PROVE  StopInv'
  <1>0. UNCHANGED sup /\ (ToReplace' <=> ToReplace)
    BY DEF Enroll, ToReplace
  <1>1. CASE UNCHANGED <<node, used>> /\ AllLapse(attempts')
    <2>1. Keeps
      BY <1>0, <1>1, PassRests, NodeStays, Keeping
    <2> QED
      BY <2>1, StepHappened, LapseKeeps DEF Keeps
  <1>2. CASE ~(UNCHANGED <<node, used>> /\ AllLapse(attempts'))
    <2>1. /\ attempts[i].status \in {"active", "succeeded"} /\ attempts[i].proc = "booting"
          /\ node'.phase = "changing" /\ node'.desired = "running"
          /\ node'.daemon = i /\ node'.attempt = None
          /\ DOMAIN attempts' = DOMAIN attempts
          /\ attempts'[i].status = "succeeded" /\ attempts'[i].row # "none"
          /\ attempts'[i].inst = attempts[i].inst
          /\ \A j \in DOMAIN attempts : j # i => attempts'[j] = attempts[j]
          /\ attempts[i].inst # i => "unlinked" \in happened'
      BY <1>2, Enrolls
    <2>2. \A j \in DOMAIN attempts : j \in Nat /\ j > 0 /\ j # None
      BY Domains DEF TypeOK, None
    <2>3. ActiveIsLast'
      BY <2>1 DEF StopInv, ActiveIsLast
    <2>4. CreatesNext'
      BY <1>0 DEF StopInv, CreatesNext
    <2>5. ASSUME sup.pc \in Making
          PROVE  /\ sup.made \in DOMAIN attempts /\ \A j \in DOMAIN attempts : j <= sup.made
                 /\ attempts[sup.made].inst = None
                 /\ attempts[sup.made].row = "none" \/ "unlinked" \in happened
      BY <2>5 DEF StopInv, MadeLast, IndInv, Prepared, Making, Indices
    <2>6. MadeLast'
      <3> SUFFICES ASSUME sup.pc \in Making
                   PROVE  /\ \A j \in DOMAIN attempts : j <= sup.made
                          /\ attempts'[sup.made].inst = None
                          /\ attempts'[sup.made].row = "none" \/ "unlinked" \in happened'
        BY <1>0, <2>1 DEF MadeLast
      <3>1. CASE sup.made = i
        BY <2>1, <2>2, <2>5, <3>1
      <3>2. CASE sup.made # i
        BY <2>1, <2>5, <3>2, StepHappened
      <3> QED
        BY <3>1, <3>2
    <2>7. ASSUME "unlinked" \notin happened'
          PROVE  ActiveNamed' /\ OneServes' /\ NoneReplaced' /\ NoneStopped'
      <3>0. "unlinked" \notin happened /\ attempts[i].inst = i
        BY <2>1, <2>7, StepHappened
      <3>1. \A k \in Served' : k \in DOMAIN attempts /\ (k = i \/ k \in Served)
        BY <2>1 DEF Served, Running
      <3>2. ASSUME attempts[i].row = "none"
            PROVE  /\ \A j \in DOMAIN attempts : j <= i
                   /\ \A j \in DOMAIN attempts : attempts[j].status = "active" => j = i
                   /\ Served = {} /\ ~ToReplace
                   /\ ~(sup.pc \in Looking /\ sup.node.attempt = None)
        <4>1. attempts[i].status = "active"
          BY <2>1, <3>2 DEF StopInv, ActiveIsLast
        <4>2. \A j \in DOMAIN attempts : j <= i
          BY <4>1 DEF StopInv, ActiveIsLast
        <4>3. \A j \in DOMAIN attempts : attempts[j].status = "active" => j = i
          BY <2>2, <4>2 DEF StopInv, ActiveIsLast
        <4>4. Served = {}
          BY <3>0, <4>1 DEF StopInv, OneServes
        <4>5. ~(sup.pc \in Looking /\ sup.node.attempt = None)
          BY <2>2, <3>0, <4>1 DEF StopInv, ActiveNamed
        <4>6. sup.pc \notin Making
          BY <2>2, <2>5, <3>0, <4>2
        <4>7. ~ToReplace
          BY <4>5, <4>6 DEF ToReplace, StopInv, CreatesNext, Looking
        <4> QED
          BY <4>2, <4>3, <4>4, <4>5, <4>7
      <3>3. ASSUME attempts[i].row # "none"
            PROVE  /\ \A j \in DOMAIN attempts :
                        attempts[j].status # "active" /\ (j > i => attempts[j].inst = None)
                   /\ Served \subseteq {i} /\ ~ToReplace
                   /\ sup.pc \in Looking /\ sup.node.attempt = None => sup.node.daemon = i
        <4>1. i \in Served
          BY <2>1, <2>2, <3>3 DEF Served, Running
        <4>2. /\ node.daemon = i
              /\ \A j \in DOMAIN attempts :
                   attempts[j].status # "active" /\ (j > i => attempts[j].inst = None)
              /\ sup.pc \in Looking /\ sup.node.attempt = None => sup.node.daemon = i
          BY <3>0, <4>1 DEF StopInv, OneServes
        <4>3. Served \subseteq {i}
          BY <3>0, <4>2 DEF StopInv, OneServes
        <4>4. ~ToReplace
          BY <3>0, <4>1 DEF StopInv, NoneReplaced
        <4> QED
          BY <4>2, <4>3, <4>4
      <3>4. /\ \A j \in DOMAIN attempts : attempts[j].status = "active" => j = i
            /\ \A j \in DOMAIN attempts : j > i => attempts[j].inst = None
            /\ Served' \subseteq {i} /\ ~ToReplace
            /\ sup.pc \in Looking /\ sup.node.attempt = None => sup.node.daemon = i
        BY <2>2, <3>1, <3>2, <3>3
      <3>5. \A j \in DOMAIN attempts : attempts'[j].status # "active"
        BY <2>1, <3>4
      <3>6. ActiveNamed'
        BY <2>1, <3>5 DEF ActiveNamed
      <3>7. OneServes'
        <4> SUFFICES ASSUME NEW k \in Served'
                     PROVE  /\ attempts'[k].inst = k /\ node'.daemon = k
                            /\ \A j \in DOMAIN attempts' :
                                 attempts'[j].status # "active"
                                 /\ (j > k => attempts'[j].inst = None)
                            /\ sup'.pc \in Looking /\ sup'.node.attempt = None
                                 => sup'.node.daemon = k
          BY DEF OneServes
        <4>1. k = i
          BY <3>4
        <4>2. \A j \in DOMAIN attempts : j > i => attempts'[j].inst = None
          BY <2>1, <2>2, <3>4
        <4> QED
          BY <1>0, <2>1, <3>0, <3>4, <3>5, <4>1, <4>2
      <3>8. NoneReplaced' /\ NoneStopped'
        BY <1>0, <2>1, <3>4 DEF NoneReplaced, NoneStopped
      <3> QED
        BY <3>6, <3>7, <3>8
    <2> QED
      BY <2>3, <2>4, <2>6, <2>7 DEF StopInv
  <1> QED
    BY <1>1, <1>2

\* Every step keeps the invariant.
LEMMA StepStop ==
  ASSUME TypeOK, IndInv, StopInv, [Next]_vars
  PROVE  StopInv'
  <1>1. CASE ~Renews
    BY <1>1, StepKeeps, StepHappened, LapseKeeps DEF Keeps
  <1>2. CASE Renews
    BY <1>2, ListKeeps, CreateKeeps, SpawnKeeps, LinkKeeps, EnrollKeeps DEF Renews
  <1> QED
    BY <1>1, <1>2

-----------------------------------------------------------------------------
(* The theorems.                                                           *)

\* In the beginning there is a node and nothing else.
LEMMA Begins ==
  ASSUME Init
  PROVE  TypeOK /\ IndInv
  <1>1. attempts = <<>> /\ DOMAIN attempts = {} /\ attempts \in Seq(Record)
    BY EmptySeq DEF Init
  <1>2. None \in Indices /\ None \in Nat
    BY DEF Indices, None
  <1>3. NewNode \in NodeRow /\ NewNode.gen = 1 /\ NewNode.attempt = None
        /\ NewNode.daemon = None
    BY <1>2, Bounds DEF NewNode, NodeRow, Desires, Phases
  <1>4. Named(node) /\ Named(NewNode)
    BY <1>2, <1>3 DEF Init, Named
  <1>5. TypeOK
    <2>1. file \in [Generations -> {Allocating} \cup Indices]
      BY <1>2 DEF Init
    <2>2. sup.made = None /\ left \in 0 .. MaxHazards
      BY Bounds DEF Init, Resting
    <2> QED
      BY <1>1, <1>2, <1>4, <2>1, <2>2 DEF Init, TypeOK
  <1>6. Prepared
    <2>1. sup = Resting
      BY DEF Init
    <2>2. sup \in [pc : PCs, node : NodeRow, seen : Rows, made : Nat, inst : Nat]
      BY <1>2, <1>3, <2>1 DEF Resting, PCs, Rows
    <2> QED
      BY <1>2, <1>4, <2>1, <2>2 DEF Prepared, Resting
  <1>7. Enrolled /\ Allocated /\ Filed
    BY <1>1, <1>3 DEF Init, Enrolled, Allocated, Filed, Resting
  <1> QED
    BY <1>5, <1>6, <1>7 DEF IndInv

\* A step keeps the types.
LEMMA StepTypes ==
  ASSUME TypeOK, IndInv, [Next]_vars
  PROVE  TypeOK'
  <1>1. /\ node' \in NodeRow /\ node.gen <= node'.gen /\ node'.attempt \in Indices'
        /\ node'.daemon \in Indices'
    BY StepNode, Grows DEF TypeOK, Named, Indices
  <1>2. Named(node)'
    BY <1>1 DEF Named, NodeRow, Generations
  <1>3. sup'.made \in Indices'
    BY StepPrepared DEF Prepared
  <1> QED
    BY <1>2, <1>3, StepFiles, StepRecords, StepUsed, Grows DEF TypeOK

\* The types and the inductive invariant, of every behaviour.
THEOREM Invariance == Spec => [](TypeOK /\ IndInv)
  <1>1. Init => TypeOK /\ IndInv
    BY Begins
  <1>2. TypeOK /\ IndInv /\ [Next]_vars => (TypeOK /\ IndInv)'
    BY StepTypes, StepPrepared, StepEnrolled, StepAllocated, StepFiled DEF IndInv
  <1> QED
    BY <1>1, <1>2, PTL DEF Spec

\* The supervisor, the store and the daemons keep their records in shape, and what
\* they name exists, however passes are cut short.
THEOREM TypeCorrect == Spec => []TypeOK
  BY Invariance, PTL

\* A generation has one process, unless the supervisor died between spawning a process
\* and writing it down: what ensure finds in the state file is the process that runs.
THEOREM OneEach == Spec => []OneProcess
  <1>1. TypeOK /\ IndInv => OneProcess
    <2> SUFFICES ASSUME TypeOK, IndInv, "orphan" \notin happened,
                        NEW i \in DOMAIN attempts, NEW j \in DOMAIN attempts,
                        Running(i), Running(j), attempts[i].spec = attempts[j].spec
                 PROVE  i = j
      BY DEF OneProcess
    <2>1. /\ file[attempts[i].spec] = i \/ (sup.pc = "write" /\ sup.made = i)
          /\ file[attempts[j].spec] = j \/ (sup.pc = "write" /\ sup.made = j)
      BY DEF IndInv, Filed
    <2>2. i # Allocating /\ j # Allocating
      BY Domains DEF TypeOK, Allocating
    <2>3. sup.pc = "write" =>
            file[sup.node.gen] = Allocating /\ attempts[sup.made].spec = sup.node.gen
      BY DEF IndInv, Allocated
    <2> QED
      BY <2>1, <2>2, <2>3
  <1> QED
    BY <1>1, Invariance, PTL

\* The process that serves the node is the one whose instance is recorded, and no other
\* is made while it runs, unless a daemon enrolled before its instance was recorded:
\* TypeOK, IndInv and StopInv, of every behaviour.
THEOREM StopInvariance == Spec => [](TypeOK /\ IndInv /\ StopInv)
  <1>1. Init => StopInv
    <2> SUFFICES ASSUME Init PROVE StopInv
      OBVIOUS
    <2>1. DOMAIN attempts = {} /\ sup.pc = "idle"
      BY EmptySeq DEF Init, Resting
    <2>2. Served = {}
      BY <2>1 DEF Served
    <2> QED
      BY <2>1, <2>2 DEF StopInv, ActiveIsLast, CreatesNext, MadeLast, Making, ActiveNamed,
         OneServes, NoneReplaced, NoneStopped
  <1>2. TypeOK /\ IndInv /\ StopInv /\ [Next]_vars => StopInv'
    BY StepStop
  <1> QED
    BY <1>1, <1>2, Invariance, PTL DEF Spec

\* When the node is stopped or deleted, no daemon goes on that had enrolled, unless one
\* enrolled before its instance was recorded: the stop kills the recorded process, which
\* is the one that serves the node.
THEOREM StopsAll == Spec => []StoppedIsStopped
  <1>1. TypeOK /\ IndInv /\ StopInv => StoppedIsStopped
    <2> SUFFICES ASSUME TypeOK, IndInv, StopInv, node.phase = node.desired,
                        "unlinked" \notin happened, NEW i \in DOMAIN attempts,
                        attempts[i].proc \notin {"gone", "booting"}
                 PROVE  FALSE
      BY DEF StoppedIsStopped
    <2>1. i # None /\ attempts[i] \in Record
      BY Domains DEF TypeOK, None
    <2>2. attempts[i].row # "none"
      BY <2>1 DEF IndInv, Enrolled, Record, Procs
    <2>3. i \in Served
      BY <2>1, <2>2 DEF Served, Running
    <2> QED
      BY <2>3 DEF StopInv, NoneStopped
  <1> QED
    BY <1>1, StopInvariance, PTL

=============================================================================
