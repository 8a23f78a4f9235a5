----------------------------- MODULE ManagedNode -----------------------------
(***************************************************************************)
(* One managed computer, from what the admin wants to the daemon process   *)
(* that serves it: the supervisor's reconciliation loop                    *)
(* (relay-supervisor/src/managed-reconcile.ts) over the local process      *)
(* provider (providers.ts), the backend's store of nodes and attempts      *)
(* (services/managed_nodes.py, api/managed_node_routes.py), and the        *)
(* daemon, which enrolls, registers, and registers again every so often.   *)
(*                                                                         *)
(* A call to the backend is a step; what the supervisor does to processes  *)
(* between two calls is part of the next one.  The node is read at the     *)
(* beginning of a pass and used until its end.  A process is named by the  *)
(* attempt it was spawned for.  Phases that no code here tells apart, from *)
(* "requested" to "registering" and "failed", are "changing".  One         *)
(* supervisor; nothing else creates attempts.                              *)
(***************************************************************************)
EXTENDS Integers, Sequences, FiniteSets

CONSTANTS
  MaxGeneration,  \* bound: the admin's changes, and one
  MaxAttempts,    \* bound: provisioning attempts
  Possible,       \* the Hazards that may happen
  MaxHazards      \* bound: how many do

Hazards == {"crash",    \* the supervisor dies and starts again
            "lost",     \* a call of the supervisor, an enrollment, or its answer is lost
            "busy",     \* a run is in progress: the runtime cannot be retired
            "nospawn",  \* the process does not start
            "exit",     \* a daemon exits by itself
            "hang"}     \* a daemon is silent, maybe for ever

ASSUME HazardsAssumption ==
  /\ MaxGeneration \in Nat \ {0} /\ MaxAttempts \in Nat \ {0}
  /\ Possible \subseteq Hazards /\ MaxHazards \in Nat

VARIABLES
  node,      \* the managed node's record
  attempts,  \* its provisioning attempts, with their processes and daemon rows
  file,      \* the provider's state file of each generation
  sup,       \* the supervisor's pass
  tracked,   \* the instance in its memory
  backoff,   \* the generations whose retry deadline has not come
  happened, left

used == <<happened, left>>
vars == <<node, attempts, file, sup, tracked, backoff, used>>

-----------------------------------------------------------------------------
None       == 0
Allocating == -1   \* in a state file: a process may have been spawned

Attempt     == 1 .. MaxAttempts
Generations == 1 .. MaxGeneration

\* inst  the process recorded as the attempt's provider instance
\* proc  the process spawned for it; "gone" also before
\* spec  the generation whose configuration the process was spawned with
\* row   its daemon node: the age of the last heartbeat, or retired
NewAttempt(gen) ==
  [gen |-> gen, status |-> "active", inst |-> None, proc |-> "gone", spec |-> gen,
   hung |-> FALSE, row |-> "none"]

NewNode == [desired |-> "running", phase |-> "changing", gen |-> 1,
            attempt |-> None, daemon |-> None]

\* node  the record as it was read    seen  the daemon's row, likewise
\* made  the attempt of this pass     inst  what ensure returned
Resting == [pc |-> "idle", node |-> NewNode, seen |-> "none", made |-> None, inst |-> None]

Init ==
  /\ node = NewNode
  /\ attempts = <<>>
  /\ file = [g \in Generations |-> None]
  /\ sup = Resting
  /\ tracked = None /\ backoff = {}
  /\ happened = {} /\ left = MaxHazards

Spend(k)   == k \in Possible /\ left > 0 /\ happened' = happened \cup {k} /\ left' = left - 1
Seen(k, b) == happened' = (IF b THEN happened \cup {k} ELSE happened) /\ UNCHANGED left

Running(i) == i # None /\ attempts[i].proc # "gone"
Killed(i)  == IF i = None THEN attempts
              ELSE [attempts EXCEPT ![i].proc = "gone", ![i].hung = FALSE]

InstOf(i)  == IF i = None THEN None ELSE attempts[i].inst

\* The last attempt with an instance.
Recorded ==
  LET with == {i \in DOMAIN attempts : attempts[i].inst # None}
  IN IF with = {} THEN None ELSE CHOOSE i \in with : \A j \in with : j <= i

\* The attempt that the node's daemon belongs to, as far as the supervisor can tell.
Linked ==
  IF sup.seen # "none" THEN sup.node.daemon
  ELSE IF sup.node.attempt # None THEN sup.node.attempt ELSE Recorded

-----------------------------------------------------------------------------
(* The store.                                                              *)

ActiveAttempts == {i \in DOMAIN attempts : attempts[i].status = "active"}

\* update_attempt to "failed", with a retry deadline.
Failed(i) ==
  /\ attempts' = [attempts EXCEPT ![i].status = "failed"]
  /\ node' = [node EXCEPT !.phase = "changing",
                          !.attempt = IF @ = i THEN None ELSE @]
  /\ backoff' = backoff \cup {attempts[i].gen}

CancelledAll(as) == [i \in DOMAIN as |-> [as[i] EXCEPT !.status = "cancelled"]]   \* mutant

CancelledNone(as) == as   \* mutant: the attempt of the old generation stays active

\* A new generation cancels the attempt of the old one.
Cancelled(as) ==
  [i \in DOMAIN as |-> IF as[i].status = "active" THEN [as[i] EXCEPT !.status = "cancelled"]
                                                  ELSE as[i]]

\* The admin wants the node to run, to stop or to go: its daemon is fenced.
SetDesired(d) ==
  /\ d # node.desired /\ node.gen < MaxGeneration
  /\ node' = [node EXCEPT !.desired = d, !.phase = "changing", !.gen = @ + 1, !.attempt = None]
  /\ attempts' = Cancelled(IF d # "running" /\ node.daemon # None
                             THEN [attempts EXCEPT ![node.daemon].row = "retired"]
                             ELSE attempts)
  /\ UNCHANGED <<file, sup, tracked, backoff, used>>

\* The admin changes what its processes are spawned with.
Reconfigure ==
  /\ node.desired = "running" /\ node.gen < MaxGeneration
  /\ node' = [node EXCEPT !.phase = "changing", !.gen = @ + 1, !.attempt = None]
  /\ attempts' = Cancelled(attempts)
  /\ UNCHANGED <<file, sup, tracked, backoff, used>>

-----------------------------------------------------------------------------
(* A pass of the supervisor.                                               *)

At(pc)   == sup.pc = pc
Goto(pc) == sup' = IF pc = "idle" THEN Resting ELSE [sup EXCEPT !.pc = pc]

\* Where a call that fails leaves the pass.
Throw == Goto(IF sup.pc \in {"allocate", "link"} THEN "giveUp" ELSE "idle")

\* A call was handled: the answer arrives or not.
Answered(pc) == \/ Goto(pc) /\ UNCHANGED used
                \/ Throw /\ Spend("lost")

\* A call does not reach the backend.
CallLost ==
  /\ sup.pc \notin {"idle", "clear", "examine", "ensure", "spawn", "write"}
  /\ UNCHANGED node /\ Throw /\ Spend("lost")
  /\ UNCHANGED <<attempts, file, tracked, backoff>>

\* The pass begins: listManagedNodes, ...
ListNodes ==
  /\ At("idle")
  /\ sup' = [Resting EXCEPT !.pc = "listDaemons", !.node = node]
  /\ UNCHANGED <<node, attempts, file, tracked, backoff, used>>

\* ... listDaemonNodes, which leaves out the retired, ...
ListDaemons ==
  /\ At("listDaemons")
  /\ LET d == sup.node.daemon
     IN sup' = [sup EXCEPT !.pc = "decide",
                           !.seen = IF d = None \/ attempts[d].row = "retired"
                                      THEN "none" ELSE attempts[d].row]
  /\ UNCHANGED <<node, attempts, file, tracked, backoff, used>>

\* ... and what to do.  A deletion under way for ten minutes does not wait for runs.
Decide ==
  /\ At("decide")
  /\ LET n == sup.node IN
     IF n.desired # "running"
       THEN IF n.phase = n.desired THEN Goto("idle")
            ELSE \/ n.daemon # None /\ Goto("retireStopped")
                 \/ (n.daemon = None \/ n.desired = "deleted") /\ Goto("stop")
     ELSE IF n.phase = "ready"
       THEN Goto(IF sup.seen = "fresh" \/ (sup.seen = "recent" /\ Running(InstOf(Recorded)))
                   THEN "idle" ELSE "retireSilent")
     ELSE IF n.daemon = None THEN Goto("examine")
     ELSE Goto(IF Linked # None /\ attempts[Linked].gen = n.gen /\ Running(InstOf(Linked))
                 THEN "idle" ELSE "retireOutdated")
  /\ UNCHANGED <<node, attempts, file, tracked, backoff, used>>

\* retireRuntimeWhenDrained: of the node as it is now.
Retire ==
  /\ sup.pc \in {"retireStopped", "retireSilent", "retireOutdated"}
  /\ UNCHANGED <<node, file, tracked, backoff>>
  /\ \/ Goto("idle") /\ Spend("busy") /\ UNCHANGED attempts
     \/ /\ attempts' = IF node.daemon = None THEN attempts
                       ELSE [attempts EXCEPT ![node.daemon].row = "retired"]
        /\ Answered(CASE At("retireStopped") -> "stop" [] At("retireSilent") -> "recycle"
                      [] OTHER -> "clear")

StopActive ==   \* mutant: the instance of the active attempt, if there is one
  /\ At("stop")
  /\ attempts' = Killed(InstOf(sup.node.attempt)) /\ tracked' = None
  /\ node' = [node EXCEPT !.phase = sup.node.desired]
  /\ Answered("idle")
  /\ UNCHANGED <<file, backoff>>

\* The process is stopped, and the node is what was wanted.
Stop ==
  /\ At("stop")
  /\ attempts' = Killed(InstOf(Recorded)) /\ tracked' = None
  /\ node' = [node EXCEPT !.phase = sup.node.desired]
  /\ Answered("idle")
  /\ UNCHANGED <<file, backoff>>

\* The process of a silent daemon is stopped.
Recycle ==
  /\ At("recycle")
  /\ attempts' = Killed(InstOf(Recorded)) /\ tracked' = None
  /\ node' = [node EXCEPT !.phase = "changing"]
  /\ Answered("examine")
  /\ UNCHANGED <<file, backoff>>

\* The process of a daemon that is outdated, or not running, is stopped.
Clear ==
  /\ At("clear")
  /\ attempts' = Killed(InstOf(Linked)) /\ tracked' = None
  /\ UNCHANGED node /\ Goto("examine")
  /\ UNCHANGED <<file, backoff, used>>

\* Is there an instance already?
Examine ==
  /\ At("examine") /\ UNCHANGED node
  /\ LET n == sup.node
         outdated == tracked # None /\ attempts[tracked].spec # n.gen
         kept == Running(tracked) /\ ~outdated
         active == InstOf(n.attempt)
     IN /\ tracked' = IF kept THEN tracked ELSE None
        /\ attempts' = IF outdated THEN Killed(tracked) ELSE attempts
        /\ Goto(IF kept \/ (active # None /\ attempts'[active].proc # "gone") THEN "idle"
                ELSE IF n.attempt # None THEN "abandon"
                ELSE IF n.gen \in backoff THEN "idle" ELSE "create")
  /\ UNCHANGED <<file, backoff, used>>

\* The active attempt has no instance: it failed.  A terminal one is left as it is.
Abandon ==
  /\ At("abandon")
  /\ IF attempts[sup.node.attempt].status \in {"active", "failed"}
       THEN Failed(sup.node.attempt)
       ELSE UNCHANGED <<node, attempts, backoff>>
  /\ Answered("idle")
  /\ UNCHANGED <<file, tracked>>

Create ==
  /\ At("create")
  /\ IF node.desired # "running" \/ ActiveAttempts # {}
       THEN UNCHANGED <<node, attempts>> /\ Goto("idle") /\ UNCHANGED used
       ELSE LET i == Len(attempts) + 1 IN
            /\ i <= MaxAttempts
            /\ attempts' = Append(attempts, NewAttempt(node.gen))
            /\ node' = [node EXCEPT !.phase = "changing", !.attempt = i]
            /\ \/ sup' = [sup EXCEPT !.pc = "allocate", !.made = i] /\ UNCHANGED used
               \/ Throw /\ Spend("lost")
  /\ UNCHANGED <<file, tracked, backoff>>

Allocate ==
  /\ At("allocate")
  /\ IF attempts[sup.made].status = "active"
       THEN node' = [node EXCEPT !.phase = "changing"] /\ Answered("ensure")
       ELSE UNCHANGED node /\ Goto("giveUp") /\ UNCHANGED used
  /\ UNCHANGED <<attempts, file, tracked, backoff>>

EnsureAnew ==   \* mutant: an instance that runs is not looked for
  /\ At("ensure")
  /\ LET i == file[sup.node.gen] IN
     IF i = Allocating
       THEN sup' = [sup EXCEPT !.pc = "giveUp"] /\ UNCHANGED <<file, tracked>>
     ELSE /\ file' = [file EXCEPT ![sup.node.gen] = Allocating]
          /\ sup' = [sup EXCEPT !.pc = "spawn"] /\ UNCHANGED tracked
  /\ UNCHANGED <<node, attempts, backoff, used>>

\* LocalProcessProvider.ensure: the instance of the generation, if it runs; nothing
\* while an allocation may be under way; or a new process.
Ensure ==
  /\ At("ensure")
  /\ LET i == file[sup.node.gen] IN
     IF i > None /\ Running(i)
       THEN /\ sup' = [sup EXCEPT !.pc = "link", !.inst = i] /\ tracked' = i
            /\ UNCHANGED file
     ELSE IF i = Allocating
       THEN sup' = [sup EXCEPT !.pc = "giveUp"] /\ UNCHANGED <<file, tracked>>
     ELSE /\ file' = [file EXCEPT ![sup.node.gen] = Allocating]
          /\ sup' = [sup EXCEPT !.pc = "spawn"] /\ UNCHANGED tracked
  /\ UNCHANGED <<node, attempts, backoff, used>>

\* The node may have been changed since it was read: the process is then spawned for
\* an attempt of another generation ("drift").
Spawn ==
  /\ At("spawn")
  /\ \/ /\ attempts' = [attempts EXCEPT ![sup.made].proc = "booting",
                                        ![sup.made].spec = sup.node.gen]
        /\ sup' = [sup EXCEPT !.pc = "write"]
        /\ Seen("drift", attempts[sup.made].gen # sup.node.gen) /\ UNCHANGED file
     \/ /\ file' = [file EXCEPT ![sup.node.gen] = None]
        /\ sup' = [sup EXCEPT !.pc = "giveUp"]
        /\ Spend("nospawn") /\ UNCHANGED attempts
  /\ UNCHANGED <<node, tracked, backoff>>

Write ==
  /\ At("write")
  /\ file' = [file EXCEPT ![sup.node.gen] = sup.made]
  /\ sup' = [sup EXCEPT !.pc = "link", !.inst = sup.made]
  /\ tracked' = sup.made
  /\ UNCHANGED <<node, attempts, backoff, used>>

\* update_attempt to "registering", with the instance: refused when the attempt is
\* over, as it is when the daemon was quicker.
Link ==
  /\ At("link")
  /\ IF attempts[sup.made].status = "active"
       THEN /\ attempts' = [attempts EXCEPT ![sup.made].inst = sup.inst]
            /\ node' = [node EXCEPT !.phase = "changing"]
            /\ Answered("idle")
       ELSE UNCHANGED <<node, attempts, used>> /\ Goto("giveUp")
  /\ UNCHANGED <<file, tracked, backoff>>

\* The attempt failed, as far as the supervisor knows.
GiveUp ==
  /\ At("giveUp")
  /\ IF attempts[sup.made].status = "active"
       THEN Failed(sup.made)
       ELSE UNCHANGED <<node, attempts, backoff>>
  /\ Goto("idle")
  /\ UNCHANGED <<file, tracked, used>>

Pass ==
  \/ ListNodes \/ ListDaemons \/ Decide \/ Retire \/ Stop \/ Recycle \/ Clear \/ Examine
  \/ Abandon \/ Create \/ Allocate \/ Ensure \/ Spawn \/ Write \/ Link \/ GiveUp

\* The supervisor dies and starts again; the processes go on.  One that it spawned
\* and did not write down is an "orphan".
Crash ==
  /\ ~At("idle") \/ tracked # None
  /\ "crash" \in Possible /\ left > 0 /\ left' = left - 1
  /\ happened' = happened \cup {"crash"} \cup {k \in {"orphan"} : At("write")}
  /\ sup' = Resting /\ tracked' = None
  /\ UNCHANGED <<node, attempts, file, backoff>>

-----------------------------------------------------------------------------
(* The daemons.                                                            *)

\* consume_enrollment_grant
Accepts(i) ==
  /\ node.desired = "running" /\ node.gen = attempts[i].gen
  /\ attempts[i].status \in {"active", "succeeded"}

\* The daemon exchanges its grant for an identity, which a repeated call gets again;
\* one that is refused exits.  It may be quicker than the supervisor, which has not
\* recorded its instance yet ("unlinked").
Enroll(i) ==
  /\ attempts[i].proc = "booting" /\ ~attempts[i].hung
  /\ IF Accepts(i) /\ (attempts[i].row # "none"
                        \/ \A j \in DOMAIN attempts : attempts[j].row \in {"none", "retired"})
       THEN /\ node' = [node EXCEPT !.phase = "changing", !.daemon = i, !.attempt = None]
            /\ \E heard \in BOOLEAN :
                 /\ attempts' = [attempts EXCEPT
                      ![i].status = "succeeded",
                      ![i].row = IF @ = "none" THEN "fresh" ELSE @,
                      ![i].proc = IF heard THEN "enrolled" ELSE @]
                 /\ happened' = happened
                      \cup {k \in {"unlinked"} : attempts[i].inst # i}
                      \cup {k \in {"lost"} : ~heard}
                 /\ IF heard THEN UNCHANGED left
                    ELSE "lost" \in Possible /\ left > 0 /\ left' = left - 1
       ELSE attempts' = Killed(i) /\ UNCHANGED <<node, used>>
  /\ UNCHANGED <<file, sup, tracked, backoff>>

\* The daemon registers, and again every so often: the node whose daemon it is
\* becomes ready, whatever generation the node has by now ("overtaken").
Register(i) ==
  /\ attempts[i].proc \in {"enrolled", "registered"} /\ ~attempts[i].hung
  /\ LET readies == node.daemon = i /\ attempts[i].row # "retired" IN
     /\ attempts[i].proc = "enrolled" \/ (readies /\ node.phase # "ready")
     /\ attempts' = [attempts EXCEPT ![i].proc = "registered",
                                     ![i].row = IF @ = "retired" THEN @ ELSE "fresh"]
     /\ node' = IF readies THEN [node EXCEPT !.phase = "ready"] ELSE node
     /\ Seen("overtaken", readies /\ node.gen # attempts[i].gen)
  /\ UNCHANGED <<file, sup, tracked, backoff>>

Heartbeat(i) ==
  /\ attempts[i].proc = "registered" /\ ~attempts[i].hung
  /\ attempts[i].row \in {"recent", "old"}
  /\ attempts' = [attempts EXCEPT ![i].row = "fresh"]
  /\ UNCHANGED <<node, file, sup, tracked, backoff, used>>

Exit(i) ==
  /\ Running(i) /\ Spend("exit")
  /\ attempts' = Killed(i)
  /\ UNCHANGED <<node, file, sup, tracked, backoff>>

\* A process that hangs before it has registered is waited for ("early").
Hang(i) ==
  /\ Running(i) /\ ~attempts[i].hung
  /\ "hang" \in Possible /\ left > 0 /\ left' = left - 1
  /\ happened' = happened \cup {"hang"} \cup {k \in {"early"} : attempts[i].proc # "registered"}
  /\ attempts' = [attempts EXCEPT ![i].hung = TRUE]
  /\ UNCHANGED <<node, file, sup, tracked, backoff>>

Resume(i) ==
  /\ attempts[i].hung
  /\ attempts' = [attempts EXCEPT ![i].hung = FALSE]
  /\ UNCHANGED <<node, file, sup, tracked, backoff, used>>

-----------------------------------------------------------------------------
(* Time passes.                                                            *)

\* A daemon that does not send heartbeats goes offline, and then is not waited for.
FallSilent(i) ==
  /\ attempts[i].row \in {"fresh", "recent"} /\ (~Running(i) \/ attempts[i].hung)
  /\ attempts' = [attempts EXCEPT ![i].row = IF @ = "fresh" THEN "recent" ELSE "old"]
  /\ UNCHANGED <<node, file, sup, tracked, backoff, used>>

\* An allocation that nobody is at is forgotten after 60 s.
GrowStale(g) ==
  /\ file[g] = Allocating /\ sup.pc \notin {"spawn", "write"}
  /\ file' = [file EXCEPT ![g] = None]
  /\ UNCHANGED <<node, attempts, sup, tracked, backoff, used>>

\* Three retries take longer than that: their delays are 10, 20 and 40 s.
RetryDue(g) ==
  /\ g \in backoff
  /\ file[g] = Allocating
       => Cardinality({i \in DOMAIN attempts :
                         attempts[i].gen = g /\ attempts[i].status = "failed"}) < 3
  /\ backoff' = backoff \ {g}
  /\ UNCHANGED <<node, attempts, file, sup, tracked, used>>

Daemon(i) == Enroll(i) \/ Register(i) \/ Heartbeat(i) \/ FallSilent(i)

Next ==
  \/ \E d \in {"running", "stopped", "deleted"} : SetDesired(d)
  \/ Reconfigure \/ Pass \/ CallLost \/ Crash
  \/ \E i \in DOMAIN attempts : Daemon(i) \/ Exit(i) \/ Hang(i) \/ Resume(i)
  \/ \E g \in Generations : GrowStale(g) \/ RetryDue(g)

\* The supervisor's loop goes on, a daemon that is not hung runs, and time passes.
Spec ==
  /\ Init /\ [][Next]_vars /\ WF_vars(Pass)
  /\ \A i \in Attempt : WF_vars(i \in DOMAIN attempts /\ Daemon(i))
  /\ \A g \in Generations : WF_vars(GrowStale(g)) /\ WF_vars(RetryDue(g))

-----------------------------------------------------------------------------
Races == {"orphan", "unlinked", "drift", "overtaken", "early"}

Desires  == {"running", "stopped", "deleted"}
Phases   == {"changing", "ready", "stopped", "deleted"}
Statuses == {"active", "succeeded", "failed", "cancelled"}
Procs    == {"booting", "enrolled", "registered", "gone"}
Rows     == {"none", "fresh", "recent", "old", "retired"}
Indices  == {None} \cup DOMAIN attempts

NodeRow == [desired : Desires, phase : Phases, gen : Generations, attempt : Nat,
            daemon : Nat]
Record  == [gen : Generations, status : Statuses, inst : Nat, proc : Procs,
            spec : Generations, hung : BOOLEAN, row : Rows]

\* A node's record names what there is.
Named(n) == n \in NodeRow /\ n.gen <= node.gen /\ {n.attempt, n.daemon} \subseteq Indices

\* The records have the shapes the code gives them; who enrolled, succeeded.
TypeOK ==
  /\ Named(node) /\ attempts \in Seq(Record)
  /\ \A i \in DOMAIN attempts : LET a == attempts[i] IN
       /\ a.gen <= node.gen /\ a.spec <= node.gen /\ a.inst \in Indices
       /\ a.row # "none" => a.status = "succeeded"
  /\ file \in [Generations -> {Allocating} \cup Indices]
  /\ sup.made \in Indices /\ tracked \in Indices
  /\ backoff \subseteq Generations
  /\ happened \subseteq Possible \cup Races /\ left \in 0 .. MaxHazards

\* "An ensure retry must return or repair the same provider instance instead of
\* creating a duplicate" (managed-node-provisioning.md:89): no two processes of one
\* generation run, though passes are cut short anywhere.  A supervisor that dies
\* between spawning a process and writing it down forgets it after 60 s.
OneProcess ==
  \A i, j \in DOMAIN attempts :
    Running(i) /\ Running(j) /\ attempts[i].spec = attempts[j].spec
      => i = j \/ "orphan" \in happened

\* "Provider runtime is stopped and no linked daemon is active"
\* (managed-node-provisioning.md:231): what runs on when the node is stopped or
\* deleted has yet to enroll, which it will not be let.  A daemon that enrolled before
\* its instance was recorded goes on, for the supervisor does not know its process.
StoppedIsStopped ==
  node.phase = node.desired
    => \A i \in DOMAIN attempts :
         attempts[i].proc \in {"gone", "booting"} \/ "unlinked" \in happened

\* "Repeating reconciliation after a crash must converge safely"
\* (managed-node-provisioning.md:85).
Settled ==
  IF node.desired = "running"
    THEN /\ node.phase = "ready"
         /\ LET d == attempts[node.daemon] IN
            d.proc = "registered" /\ ~d.hung /\ d.row = "fresh" /\ d.spec = node.gen
    ELSE node.phase = node.desired /\ \A i \in DOMAIN attempts : ~Running(i)

\* Whatever calls are lost and processes die, in the end the node is what was wanted
\* last.  It is not when a daemon enrolled before its instance was recorded, when one
\* spawned with an outdated record or of an outdated generation made the node ready,
\* or when a process hangs before it registers: the code does not come back to these.
Converges == <>(happened \cap (Races \ {"orphan"}) # {}) \/ <>[]Settled

\* "a non-retired daemon is linked to the current generation" when the node is ready
\* (managed-node-provisioning.md:258).  The code does not keep this.
ReadyIsCurrent ==
  node.phase = "ready" => attempts[node.daemon].gen = node.gen

-----------------------------------------------------------------------------
(* The inductive invariant behind TypeOK and OneProcess.                   *)

PCs == {"idle", "listDaemons", "decide", "retireStopped", "retireSilent", "retireOutdated",
        "stop", "recycle", "clear", "examine", "abandon", "create", "allocate", "ensure",
        "spawn", "write", "link", "giveUp"}

\* A pass has what its next step needs: an attempt to work for, or a node to stop.
Prepared ==
  /\ sup \in [pc : PCs, node : NodeRow, seen : Rows, made : Nat, inst : Nat]
  /\ Named(sup.node) /\ {sup.made, sup.inst} \subseteq Indices
  /\ sup.pc \in {"allocate", "ensure", "spawn", "write", "link", "giveUp"} =>
       sup.made # None
  /\ sup.pc = "abandon" => sup.node.attempt # None
  /\ sup.pc \in {"retireStopped", "stop"} => sup.node.desired # "running"

\* A daemon has a row from its enrollment on.
Enrolled ==
  /\ node.daemon # None => attempts[node.daemon].row # "none"
  /\ \A i \in DOMAIN attempts :
       attempts[i].proc \in {"enrolled", "registered"} => attempts[i].row # "none"

\* The allocation of a pass is its own, and its attempt has no process yet.
Allocated ==
  /\ sup.pc \in {"spawn", "write"} => file[sup.node.gen] = Allocating
  /\ sup.pc \in {"allocate", "ensure", "spawn"} => ~Running(sup.made)
  /\ sup.pc = "write" => attempts[sup.made].spec = sup.node.gen

\* A process that runs is the one in the file of its generation, or is about to be.
Filed ==
  "orphan" \notin happened =>
    \A i \in DOMAIN attempts : Running(i) =>
      file[attempts[i].spec] = i \/ (sup.pc = "write" /\ sup.made = i)

IndInv == Prepared /\ Enrolled /\ Allocated /\ Filed

-----------------------------------------------------------------------------
(* What StoppedIsStopped needs beyond it.                                  *)

\* The processes whose daemon has enrolled, heard of it or not.
Served == {i \in DOMAIN attempts : Running(i) /\ attempts[i].row # "none"}

\* Only the last attempt is active; who succeeded, enrolled.
ActiveIsLast ==
  \A i \in DOMAIN attempts :
    /\ attempts[i].status = "active" => \A j \in DOMAIN attempts : j <= i
    /\ attempts[i].status = "succeeded" => attempts[i].row # "none"

Looking == {"listDaemons", "decide", "retireStopped", "retireSilent", "retireOutdated",
            "stop", "recycle", "clear", "examine", "abandon", "create"}
Making  == {"allocate", "ensure", "spawn", "write", "link"}

\* An attempt is created only by a pass that has read the node without one.
CreatesNext == sup.pc = "create" => sup.node.attempt = None

\* ... and has no instance before the last step of the pass.
MadeLast ==
  sup.pc \in Making =>
    /\ \A j \in DOMAIN attempts : j <= sup.made
    /\ attempts[sup.made].inst = None
    /\ attempts[sup.made].row = "none" \/ "unlinked" \in happened

\* The node names the active attempt, and so does what the supervisor has read of it.
ActiveNamed ==
  \A i \in DOMAIN attempts : attempts[i].status = "active" =>
    node.attempt = i /\ (sup.pc \in Looking => sup.node.attempt = i)

\* One process serves the node: its instance is recorded, and is the last recorded.
OneServes ==
  \A i \in Served :
    /\ attempts[i].inst = i /\ node.daemon = i
    /\ \A j \in DOMAIN attempts :
         attempts[j].status # "active" /\ (j > i => attempts[j].inst = None)
    /\ sup.pc \in Looking /\ sup.node.attempt = None => sup.node.daemon = i

\* None does when an attempt is to be created, until its instance is recorded, ...
ToReplace ==
  (sup.pc = "examine" /\ sup.node.attempt = None) \/ sup.pc = "create" \/ sup.pc \in Making

NoneReplaced == ToReplace => Served = {}

\* ... nor when the node was stopped.
NoneStopped == node.phase = node.desired => Served = {}

StopInv ==
  /\ ActiveIsLast /\ CreatesNext /\ MadeLast
  /\ "unlinked" \notin happened => ActiveNamed /\ OneServes /\ NoneReplaced /\ NoneStopped

=============================================================================
