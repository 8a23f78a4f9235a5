-------------------------- MODULE WorkspaceRunGate --------------------------
(***************************************************************************)
(* The runs that want one project workspace, in several daemon processes   *)
(* of one computer (workspace-run-gate.ts).  Within a process they wait    *)
(* for each other on a chain of promises, between processes on a lock      *)
(* file.                                                                   *)
(*                                                                         *)
(* JavaScript between two awaits is one step for the runs of the same      *)
(* process but not for other processes: every system call on the lock file *)
(* is a step of its own.  The file has an identity, its maker: unlink      *)
(* removes whatever file has the name, a write reaches the file that was   *)
(* opened.  A daemon that starts again has another pid: another process.   *)
(* A process that lives does not take 30 s (INCOMPLETE_LOCK_STALE_MS) from *)
(* one of these calls to the next.  A call that cleans up may fail: the    *)
(* code swallows it and the file stays.  The unlink of a stale lock, which *)
(* is tried again, does not fail.                                          *)
(***************************************************************************)
CONSTANTS
  Runs,         \* runs that want the workspace
  Processes,    \* daemon processes, by their pid
  ProcessOf,    \* the process of each run
  Mortal,       \* bound: the processes that may die
  Cancellable,  \* bound: the runs whose signal may be aborted
  Failing       \* bound: the runs whose clean-up of the lock file may fail

ASSUME ProcessAssumption ==
  /\ ProcessOf \in [Runs -> Processes]
  /\ Mortal \subseteq Processes /\ Cancellable \subseteq Runs /\ Failing \subseteq Runs
  /\ "nobody" \notin Runs

VARIABLES
  pc,       \* what each run is doing
  ahead,    \* the runs its predecessor promise waits for
  aborted,  \* runs whose signal is aborted
  lock,     \* the lock file
  seen,     \* whose pid a run has read in it; then, whose file it found stale
  robbed,   \* history: the runs that held the lock file when another removed it
  alive     \* processes that have not died

vars == <<pc, ahead, aborted, lock, seen, robbed, alive>>

-----------------------------------------------------------------------------
\* holding  the file is made and written; about to test the signal and to work
\* discard  the file is made and could not be written
Holding == {"write", "discard", "holding", "work", "release", "unlink"}
Turned  == {"open", "check", "judge", "remove"} \cup Holding
Active  == {"queued"} \cup Turned
Gone    == {"over", "dead"}

NoLock   == [maker |-> "nobody", state |-> "absent"]
Empty(r) == lock = [maker |-> r, state |-> "empty"]
Mine(r)  == lock = [maker |-> r, state |-> "full"]

Init ==
  /\ pc = [r \in Runs |-> "new"]
  /\ ahead = [r \in Runs |-> {}]
  /\ aborted = {}
  /\ lock = NoLock
  /\ seen = [r \in Runs |-> "nobody"]
  /\ robbed = {}
  /\ alive = Processes

Goto(r, l) == pc' = [pc EXCEPT ![r] = l]
At(r, l)   == pc[r] = l
Live(r)    == ProcessOf[r] \in alive

\* The runs of its process whose promise chain a run arriving now appends to.
Unreleased(r) == {s \in Runs : ProcessOf[s] = ProcessOf[r] /\ pc[s] \in Active}

Arrive(r) ==
  /\ At(r, "new") /\ Live(r)
  /\ Goto(r, "queued")
  /\ ahead' = [ahead EXCEPT ![r] = Unreleased(r)]
  /\ UNCHANGED <<aborted, lock, seen, robbed, alive>>

Abort(r) ==
  /\ pc[r] \in Active /\ r \in Cancellable \ aborted
  /\ aborted' = aborted \cup {r}
  /\ UNCHANGED <<pc, ahead, lock, seen, robbed, alive>>

ReleasedLast(r) ==   \* mutant: the tail of a run is its own turn only
  \A s \in ahead[r] : (\A t \in ahead[r] \ {s} : t \in ahead[s]) => pc[s] = "over"

\* The tail of a run resolves when its predecessor's has and it has released.
Released(r) == \A s \in ahead[r] : pc[s] = "over"

GetTurn(r) ==
  /\ At(r, "queued") /\ Released(r) /\ r \notin aborted
  /\ Goto(r, "open")
  /\ UNCHANGED <<ahead, aborted, lock, seen, robbed, alive>>

\* The signal rejects the wait for the turn, and the wait for the next attempt.
GiveUp(r) ==
  /\ pc[r] \in {"queued", "open"} /\ r \in aborted
  /\ Goto(r, "over")
  /\ UNCHANGED <<ahead, aborted, lock, seen, robbed, alive>>

-----------------------------------------------------------------------------
(* The lock file.                                                          *)

\* openSync(.., "wx") creates the file, or finds it there.
Open(r) ==
  /\ At(r, "open") /\ r \notin aborted
  /\ IF lock = NoLock
       THEN lock' = [maker |-> r, state |-> "empty"] /\ Goto(r, "write")
       ELSE UNCHANGED lock /\ Goto(r, "check")
  /\ UNCHANGED <<ahead, aborted, seen, robbed, alive>>

\* The owner's pid and token go to the file that was opened, whatever the name
\* stands for by now.
Write(r) ==
  /\ At(r, "write")
  /\ lock' = IF Empty(r) THEN [maker |-> r, state |-> "full"] ELSE lock
  /\ Goto(r, "holding")
  /\ UNCHANGED <<ahead, aborted, seen, robbed, alive>>

\* The write fails: the descriptor is closed, and then the file removed.
WriteFails(r) ==
  /\ At(r, "write")
  /\ Goto(r, "discard")
  /\ UNCHANGED <<ahead, aborted, lock, seen, robbed, alive>>

\* unlinkSync removes whatever file has the name now.  When it should not have been
\* removed by this run, its holder is robbed of it.
Unlinked(wrongly) ==
  /\ lock' = NoLock
  /\ robbed' = IF wrongly
                 THEN robbed \cup {s \in Runs : lock.maker = s /\ pc[s] \in Holding}
                 ELSE robbed

Discard(r) ==
  /\ At(r, "discard")
  /\ \/ Unlinked(r \in robbed)
     \/ r \in Failing /\ UNCHANGED <<lock, robbed>>
  /\ Goto(r, "over")
  /\ UNCHANGED <<ahead, aborted, seen, alive>>

\* staleLock reads the pid in the file, ...
Read(r) ==
  /\ At(r, "check")
  /\ seen' = [seen EXCEPT ![r] = IF lock.state = "full" THEN lock.maker ELSE "nobody"]
  /\ Goto(r, "judge")
  /\ UNCHANGED <<ahead, aborted, lock, robbed, alive>>

StaleWhenFull(r) ==   \* mutant: the age of an empty file is not looked at
  seen[r] # "nobody" /\ ProcessOf[seen[r]] \notin alive

StaleUnlessMine(r) ==   \* mutant: any lock of another process is taken over
  seen[r] # "nobody" /\ ProcessOf[seen[r]] # ProcessOf[r]

\* ... and asks whether that process is dead; if it could read none, whether the
\* file is older than 30 s.
Stale(r) ==
  IF seen[r] # "nobody" THEN ProcessOf[seen[r]] \notin alive ELSE lock.state = "old"

Judge(r) ==
  /\ At(r, "judge")
  /\ IF Stale(r)
       THEN /\ Goto(r, "remove")
            /\ seen' = [seen EXCEPT ![r] = IF @ = "nobody" THEN lock.maker ELSE @]
       ELSE /\ Goto(r, "open")
            /\ seen' = [seen EXCEPT ![r] = "nobody"]
  /\ UNCHANGED <<ahead, aborted, lock, robbed, alive>>

\* The stale lock is removed; or, too late, the one that was made in its place.
Remove(r) ==
  /\ At(r, "remove")
  /\ Unlinked(lock.maker # seen[r])
  /\ seen' = [seen EXCEPT ![r] = "nobody"]
  /\ Goto(r, "open")
  /\ UNCHANGED <<ahead, aborted, alive>>

Enter(r) ==
  /\ At(r, "holding")
  /\ Goto(r, IF r \in aborted THEN "release" ELSE "work")
  /\ UNCHANGED <<ahead, aborted, lock, seen, robbed, alive>>

EndWork(r) ==
  /\ At(r, "work")
  /\ Goto(r, "release")
  /\ UNCHANGED <<ahead, aborted, lock, seen, robbed, alive>>

\* releaseOwnedLock reads the token, ...
ReadToken(r) ==
  /\ At(r, "release")
  /\ Goto(r, IF Mine(r) THEN "unlink" ELSE "over")
  /\ UNCHANGED <<ahead, aborted, lock, seen, robbed, alive>>

\* ... and removes the file if it is its own.
Unlink(r) ==
  /\ At(r, "unlink")
  /\ Unlinked(r \in robbed)
  /\ Goto(r, "over")
  /\ UNCHANGED <<ahead, aborted, seen, alive>>

\* Either call fails, and the file stays with the pid of a process that lives.
ReleaseFails(r) ==
  /\ pc[r] \in {"release", "unlink"} /\ r \in Failing
  /\ Goto(r, "over")
  /\ UNCHANGED <<ahead, aborted, lock, seen, robbed, alive>>

-----------------------------------------------------------------------------
(* Processes die and time passes.                                          *)

Die(p) ==
  /\ p \in alive \cap Mortal
  /\ alive' = alive \ {p}
  /\ pc' = [r \in Runs |-> IF ProcessOf[r] = p /\ pc[r] \in Active THEN "dead" ELSE pc[r]]
  /\ seen' = [r \in Runs |-> IF ProcessOf[r] = p THEN "nobody" ELSE seen[r]]
  /\ UNCHANGED <<ahead, aborted, lock, robbed>>

GrowOldAbsent ==   \* mutant: a file that is not there has an age
  /\ lock.state \in {"absent", "empty"}
  /\ lock' = [lock EXCEPT !.state = "old"]
  /\ UNCHANGED <<pc, ahead, aborted, seen, robbed, alive>>

\* The file that a run created, and neither wrote nor removed before it was over or
\* its process dead, grows older than 30 s.
GrowOld ==
  /\ lock.state = "empty" /\ pc[lock.maker] \in Gone
  /\ lock' = [lock EXCEPT !.state = "old"]
  /\ UNCHANGED <<pc, ahead, aborted, seen, robbed, alive>>

Step(r) ==
  \/ GetTurn(r) \/ GiveUp(r) \/ Open(r) \/ Write(r) \/ WriteFails(r) \/ Discard(r)
  \/ Read(r) \/ Judge(r) \/ Remove(r) \/ Enter(r) \/ EndWork(r)
  \/ ReadToken(r) \/ Unlink(r) \/ ReleaseFails(r)

Next ==
  \/ \E r \in Runs : Arrive(r) \/ Abort(r) \/ Step(r)
  \/ \E p \in Processes : Die(p)
  \/ GrowOld

\* A process that lives runs its callbacks and timers, the work of a run ends, and
\* a lock file grows older.
Fairness == WF_vars(GrowOld) /\ \A r \in Runs : WF_vars(Step(r))

Spec == Init /\ [][Next]_vars /\ Fairness

-----------------------------------------------------------------------------
\* The states have the shapes the code gives them.
TypeOK ==
  /\ pc \in [Runs -> {"new", "over", "dead"} \cup Active]
  /\ ahead \in [Runs -> SUBSET Runs]
  /\ aborted \subseteq Runs
  /\ lock \in {NoLock} \cup [maker : Runs, state : {"empty", "full", "old"}]
  /\ seen \in [Runs -> Runs \cup {"nobody"}]
  /\ robbed \subseteq Runs
  /\ alive \subseteq Processes

\* "Serializes writes that target the same physical project workspace"
\* (workspace-run-gate.ts:26): two runs never work in it at a time.  The exemption is
\* the takeover race (line 103): two daemons find the same lock stale, one removes
\* it and makes its own, and the other then removes that one.  Whoever works beside
\* another is of another daemon, and one of them lost its lock file in that race, or
\* to a run that had lost its own.
SerializedWrites ==
  \A r, s \in Runs :
    At(r, "work") /\ At(s, "work") /\ r # s =>
      ProcessOf[r] # ProcessOf[s] /\ {r, s} \cap robbed # {}

\* The inductive invariant.  In a process, the runs at the gate wait for each other
\* in one order, and only the first is past its turn: what is queued behind a run
\* that gave up still waits for the runs before that one.
InTurn ==
  /\ \A r, s \in Runs :
       /\ s \in ahead[r] => ProcessOf[s] = ProcessOf[r] /\ pc[s] # "new" /\ pc[r] # "new"
       /\ r # s /\ ProcessOf[r] = ProcessOf[s] /\ pc[r] \in Active /\ pc[s] \in Active
            => r \in ahead[s] \/ s \in ahead[r]
       /\ pc[r] \in Turned /\ s \in ahead[r] => pc[s] = "over"
  /\ \A r \in Runs : pc[r] \in Active => Live(r)
  /\ \A r \in Runs : pc[r] = "dead" => ~Live(r)

\* A run that is past taking the lock has the file, unless it was robbed of it; and a
\* file that nobody holds was left by a run that is over or dead.
LockOwned ==
  \A r \in Runs :
    /\ pc[r] \in {"write", "discard"} => Empty(r) \/ r \in robbed
    /\ pc[r] \in Holding \ {"write", "discard"} => Mine(r) \/ r \in robbed
    /\ lock.maker = r => pc[r] \in Holding \cup Gone
    /\ lock.state = "old" /\ lock.maker = r => pc[r] \in Gone

\* Who is about to remove a file has found stale that of a run that is over or dead.
Judged ==
  \A r \in Runs :
    /\ seen[r] \in Runs => pc[seen[r]] # "new"
    /\ pc[r] = "remove" => seen[r] \in Runs /\ pc[seen[r]] \in Gone

IndInv == InTurn /\ LockOwned /\ Judged

\* A run that is over has left its lock in a process that lives: a clean-up that
\* failed, which no other process may take for stale.
Leaked == lock.state = "full" /\ pc[lock.maker] = "over" /\ Live(lock.maker)

\* Every run that came to the gate leaves it, though others die holding the lock or
\* between creating and writing it, are cancelled, or fail to write or remove it.
\* The exemption is a lock that its process failed to remove and outlives: "a
\* surviving lock is recovered by PID liveness" (workspace-run-gate.ts:196) only when
\* that process ends.
EveryRunLeaves ==
  <>[]Leaked \/ \A r \in Runs : pc[r] = "queued" ~> pc[r] \in Gone

\* The gate does what ExclusiveRuns promises.
Stage(r) ==
  CASE pc[r] = "new" -> "idle"
    [] pc[r] \in {"queued", "open", "check", "judge", "remove", "write", "discard",
                  "holding"} -> "waiting"
    [] pc[r] = "work" -> "working"
    [] pc[r] \in {"release", "unlink"} -> "leaving"
    [] OTHER -> "over"

Promise == INSTANCE ExclusiveRuns
             WITH stage <- [r \in Runs |-> Stage(r)], before <- ahead,
                  cancelled <- aborted, lost <- robbed

Implements == Promise!Spec

=============================================================================
