# Orchestrix: a TLA+ verification project

Orchestrix runs coding agents for teams. A message or a task becomes a *round*
of assignments; a backend of several replicas (`backend/relay`) turns the round
into one durable *run request*, and hands its runs one after another to a
*daemon* (`packages/relay-daemon`) on the user's computer or in a managed box.
The hard part is not any of the steps but what happens between them: replicas
share nothing but a database, every handler can die between two transactions,
the daemon polls over a network that loses answers, and a user may stop the
thread at any time. Around that core are a gate that serialises the runs of one
workspace, a supervisor that keeps managed daemons as their admin wants them, a
bridge from chat providers, and a web client that follows a thread live. This
project models what these do concurrently, checks it with TLC on small instances
and proves its central invariants with TLAPS.

## 1. The system

| Component | State | Operations | Hard behaviour |
|---|---|---|---|
| Command delivery store (`persistence/daemon_store.py`) | `commands`, `run_requests`, `runs`, nodes | stage, publish, take, renew, end a command; claim, update a request | whole-row writes of rows read without a lock; leases and claims that expire |
| Run-request lifecycle (`daemon_registry/registry.py`) | per-process locks and caches over the store | prepare, activate, dispatch, deliver, handle events, reap, cancel | crashes between transactions, takeover by the reaper of another replica, stale reads |
| Collaboration policy (`collaboration/policy.py`) | the counters in a request's `state` | repair, continue, accept a verdict | loops, skipped assignments, the wrong verdict closing a task |
| Conductor (`collaboration/service.py`, `node_backend.py`) | round manifest | compile, admit, record the round | a crash between admission and its round; concurrent retries |
| Sessions (`sessions/`, `session_store.py`, `store_common.py`) | append-only event log and its projection | append, reduce | late events that reopen a finished thread |
| Tasks (`tasks/scheduler.py`, `services/task_*.py`) | task rows | claim, dispatch a round, take its outcome | two schedulers, a task changed meanwhile |
| Daemon runtime (`relay-daemon/src/index.ts`) | `activeRuns`, leases | poll, execute, abort, post events | lost answers, repeated posts, restarts |
| Workspace run gate (`workspace-run-gate.ts`) | a chain of promises, a lock file | run exclusively | takeover of a stale lock, a dead or cancelled holder |
| Managed nodes, supervisor (`managed_nodes.py`, `relay-supervisor`) | nodes, attempts, grants; state files; processes | reconcile, provision, enroll, register, retire | a pass cut short anywhere, a node changed under it, a daemon that is quicker |
| Chat bridge (`relay-chat`) | receipts of provider events, bindings of conversations | claim, dispatch, retry | redeliveries, lost answers, crashes |
| Web client: thread cache (`web/src/hooks`, `lib/session*.ts`) | the sessions query, an event stream | poll, fetch, tail, mutate, roll back | answers that arrive late and out of order |
| Output streams | sequence numbers per run and stream | append, drop duplicates | redelivery starts again at 0 |
| Node registration, placement | node rows, liveness | register, heartbeat, rank | liveness is local to a replica |
| Boxes, adapters, security, catalogue stores, migrations, web pages | | | no protocol of their own |

How they interact: a request thread admits a round (*prepared*), records
`collaboration.round.started` in the session's log and activates the request
(*running*). Dispatch claims it (*dispatching*), stages a command, records
`agent.started`, links the command to the request and publishes it. The
daemon's poll leases it. The daemon's terminal event ends the command, claims
the request (*finalizing*), logs `agent.completed` and moves the cursor or ends
the round. The reaper, called from `monitor_nodes` and from polls, takes every
half-done state further. A stop fences the request, enqueues `run.cancel` or
ends the session. The daemon runs a command when the gate of its workspace lets
it in. A managed daemon is spawned by the supervisor for a provisioning attempt
of its node, exchanges a grant for an identity and registers. A chat message
becomes a request through the API, under a receipt that tells its redeliveries;
the web client reads threads by polls and follows the open one by events.

What makes it correct: a run is recorded before a daemon gets it; one run of a
request is in flight; a fence holds; the end of a run is applied once and after
it is logged; what ended stays ended; a completed round left nobody out and a
task is done only when its owner said so; delivery is at least once, and a
cancel reaches its run; whatever dies, a request ends. One run at a time works
in a workspace. A managed node becomes what its admin wanted last, with one
process. A chat message starts one run. The transcript on the screen is the
log's, in order and without a gap.

`PROJECT.json` lists the components with their status, and under `hazards`
what is hard to test, each at its line.

## 2. The modules

| Module | What it models | Checked by | Proved in |
|---|---|---|---|
| `DispatchOutbox` | admission, dispatch, delivery, the reaper and the stop of one run request | `MCDispatchOutbox*` | `DispatchOutboxProofs` |
| `RoundPipeline` | the policy of a round | `MCRoundPipeline*` | `RoundPipelineProofs` |
| `RunFinalization` | the end of a run, and who writes around it | `MCRunFinalization*` | `RunFinalizationProofs` |
| `CommandLease` | one command and its cancel between backend and daemon | `MCCommandLease*` | `CommandLeaseProofs` |
| `ExclusiveRuns` | the promise of the gate, abstractly | as a PROPERTY of `MCWorkspaceRunGate` | |
| `WorkspaceRunGate` | the runs that want one workspace, in several daemons | `MCWorkspaceRunGate*` | `WorkspaceRunGateProofs` |
| `ManagedNode` | one managed computer: admin, supervisor, store, daemons | `MCManagedNode*` | `ManagedNodeProofs` |
| `ChatDispatch` | one chat message from the webhook to the run | `MCChatDispatch*` | `ChatDispatchProofs` |
| `SessionCache` | the open thread in the web client's cache | `MCSessionCache*` | `SessionCacheProofs` |

The first four overlap at their edges only. What one module details is a single step of
the other: `RunFinalization!Dispatch` is the whole of `DispatchOutbox`'s
dispatch; the outcome of a run, nondeterministic in `DispatchOutbox`, follows
the policy in `RoundPipeline`; the delivery that is one step in
`DispatchOutbox` is `CommandLease`. The others meet that core at one point each:
`CommandLease` takes a run that has passed the gate, `ChatDispatch!Admit` is the
admission, and what `SessionCache` shows is the log that the core writes.

**Steps.** In the three backend modules a step is one database transaction (or
one locked append to a session's log) and `h[i]` holds what handler `i`, a
thread of some replica, read before. `update_run_request` reads a row in one
transaction and writes all of it back in the next, so it is two steps.
Transactions that read a row without a lock and write it back whole
(`_mark_command_terminal`, `renew_command_leases`) are two steps in
`RunFinalization` (the mark) and `CommandLease` (both; there being overtaken
spends the hazard `slow`). The registry's locks are left out: they are per
process, and `dispatch_scope` and `dispatch_lock` do not exclude each other even
there.

**`DispatchOutbox`.** `req` is the row of `run_requests`, `cmds` the rows of
`commands` (`leased` and `delivered` are both the store's `dispatched`: taken by
a poll, and written in its answer), `session` the projection's status, `round`
whether the round is in the log. Claims are ids; their expiry is the flag
`live`, cleared by `ExpireClaim`, and an expiry while the holder is at work
costs one of `MaxSlow`. Each branch of `_reap_stale_runs_unlocked` is an
operator `Reap...`. A thread is new and its round not recorded yet. `Deliver` and
`RefuseNode` are what a poll does with a command it has leased: hand it out,
suppress it, or fail its request when the node has lost the capability that the
workspace needs. `EnsureStarted` joins the search of the session for the run and
the append that follows. Not modelled: a node move (ADR-011 keeps a round on one
node), the timeout of a run (in `RunFinalization`), the revival of an admission
that expired, a sandbox that vanished, queue limits. Marking a thread done and
ending its task take the same stop path.

**`RoundPipeline`.** An assignment is its position. `Succeed`, `ExitNonZero`,
`RunFailed` and `RunCancelled` are the events that `_advance_run_request` tells
apart; each is one step, since the claim makes the rest atomic
(`RunFinalization!AppliedOnce`). `saidDone`, `last` and `runs` are history.

**`RunFinalization`.** Duplicated terminal events, the crash of a finalizer,
an expired claim under a live one, the progress note, the reaper's timeout and
the stop are the `Hazards`; `Possible` says which may happen and `MaxHazards`
how many in all. After a lost update the code may dispatch an assignment a
second time; that second run is left out.

**`CommandLease`.** `start` and `cancel` are the two command rows, `d` the
daemon's entry in `activeRuns`, `answer` the response to a poll on its way.
Lease ids are numbers. `Refused` is the daemon's behaviour on a 403: the run's
own post throws, and the handler of that exception posts `run.failed` with the
lease then held. The backend side is short here: `Close` stands for the
finalization.

**`WorkspaceRunGate`.** What JavaScript does between two awaits is one step for
the runs of a process, but other processes see the lock file between any two
system calls, so open, write, the read of the pid, the test whether it is alive
(or the file old), unlink and the read of the token are steps of their own. A lock
file is identified by its maker: a write reaches the file that was opened, an
unlink whatever has the name. `seen` is the pid that `staleLock` has read, and from
the verdict on the file that was judged; `robbed`, a history variable, are the runs
whose file was removed by one that had judged another file, or that had itself been
robbed. The promise chain is `ahead`, the runs whose release a tail waits for. The
clean-up of a run in `Failing` may fail, as the code allows: the file then stays,
empty or with a living pid. A daemon that starts again is another process, with
another pid. Not modelled: a `closeSync` that fails, a read of the pid that fails
though the file is there, and the unlink of a stale file that fails and is tried
again.

`ExclusiveRuns` knows nothing of files or promises; `Promise` maps the one to the
other. It says what is promised and where the promise ends: a run that waits in one
daemon, when another run is gone, may put a third out of its place (`Usurp`), and
two runs work at a time only if one of them was put out.

**`ManagedNode`.** A call to the backend is a step and `sup` holds what the pass
has read; what the supervisor does to processes between two calls belongs to the
next one: `Stop` is the kill and the update that follows, so a supervisor that dies
between the two is one that died before both, and stops the process again. A
configuration changes only while the node is wanted to run, a stop does not wait for
the check of running runs, and a provider that is not installed (which only writes
a condition) is left out. `attempts` joins an attempt's record with the process spawned for it
and its daemon row; `file` is the provider's state file of a generation. The
phases that nothing here tells apart are `changing`, and time is an order: an
allocation is stale after 60 s, sooner than a fourth retry. `unlinked`, `drift`,
`overtaken`, `early` and `orphan` are not faults that are injected: they record
that a race of the code has happened, so that a property can except it by name.

**`ChatDispatch`.** Two deliveries of one message are in progress at once.
Telegram's is answered at the end and asks for another; Discord's and Lark's is
answered at once and repeated by the process. `to` in `keys` is the backend's
memory of the idempotency key, scoped as `_scoped_idempotency_key` does.

**`SessionCache`.** `log` is the thread at the server and event ids are its
positions. A poll, a detail fetch and the answer of a mutation are read at one
moment and merged at another; `tail` is the effect with its `EventSource`, the
events received and not yet flushed, and the index of ids that
`SessionEventIdIndex` keeps. Of a session's projection only the status is kept,
which is what decides whether the stream is open. `Applied` is the projection of
a batch; React's cleanup and re-render are `Render`.

## 3. The runs

| Run | Instance | Shows |
|---|---|---|
| `outbox` | 2 handlers, 2 turns, 3 commands, 6 claims, 1 crash, 1 slow claim, 1 stop; 3.6 million states | recorded, single, fenced delivery, and that the request ends |
| `pipeline` | every round of 1 to 3 assignments, 2 repairs; 0.13 million states, deadlock checked | bounded, complete rounds, honest tasks |
| `finalization` | 2 handlers, 2 turns, all hazards, 2 of them; 0.5 million states | once-only application, final terminal states, termination |
| `lease` | 2 handlers, all hazards, 2 of them; 75 thousand states, deadlock checked | at-least-once delivery |
| `gate` | 5 runs of 3 processes, one of which may die, one cancelled, one that fails to clean up; 0.41 million states | mutual exclusion but for whom the takeover race robs, the refinement of `ExclusiveRuns`, nobody stuck |
| `managed` | 3 generations, every hazard, 1 of them; 3.2 million states | one process, stopped means stopped, convergence |
| `chat` | 2 deliveries, every hazard, 4 of them; 0.33 million states | one run for a message, receipts that tell the truth, dispatch |
| `cache` | 3 events, every hazard, 1 of them; 0.35 million states | ordered transcript without gaps, convergence |
| `outbox_stop`, `finalization_stop`, `lease_cancel`, `managed_ready` | small | a statement of the repository that the code does not keep |

The bounds. Two handlers are what every race in the list needs: one that is
late and one that overtakes it. Two turns let a late handler of one run meet the
next run; three commands are those two and one repetition. Claims are never
short: the actions that take one need a free one, and six cover two handlers
with a claim each in hand and in a copied row, the request and a command. A
budget of two hazards combines each pair, such as a crash and an expired claim;
`finalization` and `lease` also pass with three (3.2 and 1.0 million states; 2
minutes each), `chat` with six (1.8 million), `managed` with two hazards and two
generations (4.9 million) and `cache` with four events and no hazard. Three assignments are a coordinator, a member and a last one that
speaks, and `mode`, `synth`, `leads` and the rest take every value, so the rounds
include some the compiler would not make. Two repairs exceed the code's one.
Five
runs of three processes are a queue of three, which the order of a daemon needs, an
owner that dies or leaves its file behind, and a second daemon that takes it over
while the first does: with fewer, the takeover race cannot happen. Without the
exemption TLC finds it in this very instance. Three
generations are two changes of mind, the second while the first is carried out;
`MaxAttempts` is above what one hazard can use up. Three events are a beginning,
what is seen and what is missed. Deadlock is not checked where everything may be
over: a finished request (`DispatchOutbox`, `RunFinalization`), runs that left
the gate, a node that is as wanted, a message that was answered, a thread that
is read.

What the properties except. Several hold only without a race that the code has:
`~lost` (a whole-row update overwrote a change it had not read), or a named
hazard. Each exception was forced by a counterexample, and states precisely
which races the code tolerates and which it does not. The most serious have a
violation run of their own; the others are in the list of hazards.

The findings, each with a run:

1. **`outbox_stop`** A stop compares the status it read earlier; when the
   request moved on in between, the fence does nothing and the run is delivered.
2. **`finalization_stop`** A stop of a delivered run cancels the request; the
   daemon's `run.cancelled` then finds no active request, and the session stays
   running.
3. **`lease_cancel`** The reaper completes its own `run.cancel` before a poll can
   take it, and the agent goes on.
4. **`managed_ready`** A daemon of the old configuration that registers after a
   change makes the new generation ready, and is then left alone for good.

More configurations are run by hand. All but the last two rows state something that
the code does not keep:

| Configuration | What TLC finds |
|---|---|
| `MCDispatchOutbox_expiry.cfg` | the expiry of a prepared request (`registry.py:2334`) overwrites one that was activated and dispatched meanwhile |
| `MCRoundPipeline_failed.cfg` | `run.failed` of a member that only discusses fails the round while a repair is left (`registry.py:3266`) |
| `MCRunFinalization_revive.cfg` | a progress note written late reopens a request (`registry.py:2548`) |
| `MCWorkspaceRunGate_takeover.cfg` | three daemons, of which one dies with the lock: two find it stale, and the second removes the lock the first has made (`workspace-run-gate.ts:103`) |
| `MCWorkspaceRunGate_leak.cfg` | a daemon fails to remove its lock and lives on: the runs of the others wait for ever, since the pid in the file is alive, though "a surviving lock is recovered by PID liveness" (`workspace-run-gate.ts:196`) |
| `MCChatDispatch_accepted.cfg` | a message answered 200 is never dispatched: redelivered within 60 s of a crash, it is taken for a duplicate (`telegram.ts:51`), against `chat-integrations.md:350` |
| `MCChatDispatch_restart.cfg` | a Telegram message starts two runs, since its key is scoped to a thread it was not bound to the first time (`service.py:669`), against `chat-integrations.md:349` |
| `MCSessionCache_rollback.cfg` | a delete that fails puts an older list back (`useRelayMutations.ts:97`), against `CODEX-NAVIGATION-GUIDE.md:103` |
| `MCDispatchOutbox_safety.cfg`, with symmetry | nothing: it checks `IndInv`, the invariant of the proofs, before they are tried |
| `MCRunFinalization_safety.cfg`, `MCManagedNode_safety.cfg`, `MCSessionCache_safety.cfg` | nothing: likewise `EndInv`, `StopInv` and `CacheInv` |

## 4. Fairness

Weak fairness of a handler's steps: a thread that does not die goes on. Of the
reaper: `monitor_nodes` calls it for ever. Of the polls and the terminal events:
the daemon polls in a loop and posts until it is answered
(`postJsonWithRetry` has no limit of attempts). Of the expiry of leases and
claims: it is the clock's. In `CommandLease` posting has strong fairness, since a
handler that is free again and again will take the post; an agent need not end
by itself there, only one that was aborted must. In `DispatchOutbox` and
`RunFinalization`, where the daemon's side is one action, it ends each run it
was given; the timeout of those it does not end is a hazard of `RunFinalization`.
Crashes, losses and slow claims are bounded by the constants, so that liveness
says: when failures stop, the request ends.

Of the gate: a process that lives runs its callbacks and timers, the work of a
run ends, and a file grows older. Of the supervisor: its loop (`cli.ts`) begins a
pass after every pass, and retry deadlines and stale allocations come due. Of a
daemon: a process that does not hang enrolls, registers and sends heartbeats; a
process that hangs need not resume. Of the chat bridge: what is in progress goes
on, the provider delivers until it is answered 200, and a run in a thread ends.
Of the web client: polls repeat every few seconds, an answer that was read
arrives, effects run after a render, and a broken stream is opened again by the
browser; nobody is made to send another message or to open the thread.

## 5. The proofs

`DispatchOutboxProofs` proves, for any number of handlers, commands, claims and
runs and any bounds, that `TypeOK /\ IndInv` is inductive (`Invariance`), and
from it `TypeCorrect`, `RecordedFirst`, `OneInFlight` and `FenceIsFinal`. It
assumes that `Turns` is positive, that `NoCommand` and `NoClaim` are not ids, and
that the bounds are numbers.

Why the invariant is needed: `OneRunInFlight` is not inductive, as a handler may
hold a command it is about to publish. `InFlightIsLinked` says that what is in
flight is the request's *current* command, and `FinalizedIsDone` that the
current command can be replaced only when it is over: the advance clears it
under a claim that was taken for a finished command, and that claim is compared.
`RecordedBeforeDelivery` needs that a linked command is recorded, in the row and
in every copy of the row that a handler may write back (`RecordedBeforeLink`);
`FenceHolds` needs that a fenced request keeps no claim that could move it. The
proof has one lemma per group of actions and one step per action.

`RoundPipelineProofs` does the same for every set of rounds and every
`MaxRepairs`. `RunsCounted` is the equation behind `RepairsTerminate`: the runs
so far are the position reached, two for every repair, plus the one that ended
the round and less the repair under way. That bound is also what justifies the
constant `Turns` of the other modules. `PassedRan` and `VerdictIsReported` carry
`NobodySkipped` and `DoneIsReported`.

`WorkspaceRunGateProofs` proves, for every set of runs, every set of processes
and every assignment of the one to the other, whichever die, are cancelled or fail
to clean up: `Typing`; that the promise chain lets one run of a process past its
turn (`Turns`), by induction over `InTurn`, in which `ahead` orders the runs of a
process that are at the gate; `Exclusion`; and that the gate implements
`ExclusiveRuns` (`Refinement`). It assumes no more than that each run has a process
and that "nobody" is not a run. `LockOwned` says that the file is that of the run
past taking it, unless that run was robbed, or was left by one that is gone.
`Judged` is what makes the exemption of `SerializedWrites` a narrow one: who is about
to remove a file has judged one whose owner is gone, and stays gone, so as long as
the name still stands for that file nobody is robbed. The file of a run that holds
the lock is lost to it only when the name has changed hands between the verdict and
the unlink, or when a robbed run removes what it takes for its own. The proofs rest
on the model's assumption that a live process takes less than the 30 s of
`INCOMPLETE_LOCK_STALE_MS` from one of its calls to the next.

`RunFinalizationProofs` proves, for any number of handlers, turns and claims and
any set of hazards, `TypeCorrect`, `AppliesOnce` and `LogsFirst`. It assumes that
`Turns` is positive, that `NoClaim` is not a claim, and that the bounds are
numbers. `AppliedOnce` is not inductive, as a handler keeps what it read while the
request moves on. `CursorAhead` says what the claim is for: the run at the cursor
is not applied yet while the request waits for it, or while somebody owns the
claim that the row names. `ClaimHeldOnce` makes the comparison of claims an
argument: a claim is held by one handler, since each is a fresh id, so a
handler whose claim was replaced fails the comparison and writes nothing.
`LoggedBefore` says that whoever is past the append has found the run's end in the
log or put it there, which `LogsFirst` needs; `Prepared`, that a handler has what
its next step reads. A lost update is the exemption the property states: a row
that is written back whole from an old read can move the cursor back.

A second invariant on top of that one, `EndInv`, carries `LogsOnce`, `EndsThread`
and `OverIsFinal`. `HoldersOwn`: while no claim runs out at work, no timeout fires
and no update is lost, whoever holds a claim is the one that the row names; so, by
`AddsFirst`, the handler that found no end of the run in the log is the only one
that can add it. `HolderFinalizes` says that the request is *finalizing* under a
claim, and `ClosesPastEnd` that the round is closed after its last run, hence
nothing reopens what is over. `SessionFirst` says, of the row and of every handler
that is on its way to write it, that the session is ended before; a stop is
excepted, since it fences the request first (finding 2).

`ChatDispatchProofs` proves, for any number of deliveries and any set of failures,
`TypeCorrect`, `RunsOnce`, `CompletedTold` and `StaysCompleted`; it assumes that
`Nobody` is not a delivery and that the bounds are numbers. `WorksAlone` is what
the receipt is for: while none has grown old under a claimant at work, one
delivery at most is at work. `KeyStays` is why a Telegram message whose answer was
lost runs once: the thread is bound by the last step of an attempt, so that all
attempts before it send one idempotency key; the message that asks for a new
thread has one key always (`RunPerKey`). `TriedOnce` says of the detached retry
loop, which has no key, that an attempt whose answer was heard is the last.

`CommandLeaseProofs` proves, for any number of handlers and hazards, `TypeCorrect`,
`CancelsOutlive`, `OutcomesKept` and `NeverRestarted`; it assumes of the constants
what `HazardsAssumption` says. `EndStays` carries the first: without a late write a
command that is over stays over, and a cancel is completed by whoever ends the
start. `LeaseUnderWay` says that what the daemon and its posts hold is older than a
lease on its way to it; hence nobody ends the command under that lease, and what
was ended is not begun again. `LeaseHeld` says that while no held lease runs out
the row's lease is the daemon's or the one under way, so its `run.completed` is not
refused. `LeasesGiven` and `Prepared` support `TypeOK`: no lease is held that was
not given, and a handler has what its next step reads.

`ManagedNodeProofs` proves, for any number of changes, attempts and hazards,
`TypeCorrect` and `OneEach`, with `HazardsAssumption` alone. `OneProcess` is not
inductive, since a process is spawned for an attempt and found again by its
generation. `Filed` relates the two: a process that runs is the one in the state
file of its generation, or the one that the pass is about to write there;
`Allocated`, that the file is marked while this happens, which is why `ensure`
looks at the mark before it spawns. `Prepared` says that a pass has the attempt its
next step works for, wherever the pass before was cut short; `Enrolled`, that a
daemon has a row from its enrollment on.

A second invariant on top of that one, `StopInv`, carries `StopsAll`. A stop kills
the process of the instance that the node names, so the proof is that no other
serves. `OneServes` says that a process whose daemon has enrolled is the last
recorded instance, and that the node and the pass at work name it; `ActiveNamed`
and `MadeLast`, that an attempt under way is the newest, named by the node and
still without an instance; `NoneReplaced`, that an attempt is created only when
nobody serves, which is what `CreatesNext` and `examine` establish. All but the
shapes hold as long as no daemon enrolled before its instance was recorded
(`unlinked`), which is the exemption the property states.

`SessionCacheProofs` proves, for a log of any bound and any number of hazards,
`TypeCorrect`, `KeepsOrder` and `LeavesNoGap`, with `HazardsAssumption` alone.
`InOrder` is not inductive: a flush appends what the stream held back behind a
transcript that an answer may have moved on meanwhile. `MissingPassed` is the
reason why that is in order: what is new in the buffer is no event that the
transcript lacks *before* its last one, hence comes after it. It survives a
rollback, since the stream, which is never set back, has passed whatever the saved
list lacks, and `SavedOlder` says that this list is the older one. `NoGap` needs
`Whole`: up to the cursor of the stream every event is in the cache or held back,
and the index of known ids, which decides what is dropped, holds nothing that the
cache does not. A failed deletion and a poll that was read before the thread was
created (`Answers`) are what breaks that, and the property names them. `Without`
and `After` replace a filter and a fold of the community modules, whose recursion
the provers cannot follow. The lemmas about them and about sequences in order are
proved by a least counterexample (`Least`, from the well-foundedness of `<` on
the naturals), since the induction rules of the library cannot be instantiated;
`Selects` shows that the recursive function in `Without` has a value at all.

What stays with TLC is what is temporal: `RequestTerminates`, `RoundEnds`,
`Delivered`, `StopEndsRun`, `EveryRunLeaves`, `Dispatched`, `TranscriptCompletes`,
`StatusConverges` and `Converges` hold by fairness, which the prover does not
handle (nor `ENABLED`). Every invariant and every action property that a passing
run checks is proved. No recursive operator is used; the functions that are
defined by recursion are proved about by least counterexamples only.

## 6. Not modelled, and the plan

Pure I/O, types, wording, authentication, catalogue rows, migrations and the
pages of the web client are left out for good. Of the parts that are modelled:
several commands of one daemon at once and its orderly shutdown; node moves;
several threads and the other queries in the web client; several supervisors,
purging and expired grants; the lock of the chat bridge's receipt file, which has
the takeover of the workspace gate. In order, the plan is:

1. `TaskScheduler`: replicas that claim assigned tasks, dispatch a round and take
   its outcome, against edits and deletion.
2. `OutputStream`: sequence numbers over retries and redelivery, refining an
   abstract stream that only grows.
3. `Admission`: keyed retries that converge on one session and one request.
4. `SessionProjection`: the reducer over the events the other modules append, in
   the backend and in the web client.
5. `AgentRun`, an abstract life of a run (waiting, running, over), which
   `CommandLease` and `RunFinalization` implement but for the named races; and an
   abstract round that `DispatchOutbox` with `RoundPipeline` implements.
6. Proofs: a refinement of each module by the abstract specifications of 5, step
   by step, as `WorkspaceRunGateProofs` does for the gate.

## 7. Running it

    tlc -config MCDispatchOutbox.cfg MCDispatchOutbox
    tlapm DispatchOutboxProofs.tla

Each run of `PROJECT.json` names its module and configuration. Definitions whose
comment says *mutant* are seeded faults: put in the place of the definition that
`mutants` names, each makes the property it is listed with fail. They are part of
no specification.
