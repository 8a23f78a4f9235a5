---------------------------- MODULE SessionCache ----------------------------
(***************************************************************************)
(* The web console's cached copy of the open thread (web/src): the summary *)
(* poll, the detail fetch, the event stream and the answers to the user's  *)
(* own requests all write it, in any order.  useSessionEvents.ts,          *)
(* useSessionDetail.ts, useRelayData.ts, useRelayMutations.ts, and the     *)
(* merges of sessionEventMerge.ts and sessionPollMerge.ts.                 *)
(*                                                                         *)
(* An event is its position in the thread's log; of its content the kind   *)
(* is kept, which is what the status is made of.  A response holds a prefix *)
(* of the log, by its length: what the server had when it read it.  Poll   *)
(* ticks are 3 s apart: the effects of one have run when the next begins.  *)
(***************************************************************************)
EXTENDS Naturals, Sequences, SequencesExt

CONSTANTS
  MaxEvents,  \* bound: the length of the log
  Possible,   \* the Hazards that may happen
  MaxHazards  \* bound: how many do

Hazards == {"drop",      \* the stream's connection breaks
            "down",      \* and cannot be opened again, five times
            "error",     \* a detail fetch fails, or the answer to a request is lost
            "rollback",  \* the deletion of a thread fails
            "leave"}     \* the user opens another thread and comes back

ASSUME HazardsAssumption ==
  MaxEvents \in Nat \ {0} /\ Possible \subseteq Hazards /\ MaxHazards \in Nat

VARIABLES
  log,       \* the thread's events on the server, by kind
  entry,     \* the thread in the query cache: a set of at most one record
  selected,  \* the user has the thread open
  poll, detail, request,  \* what is being fetched
  tail,      \* the effect of useSessionEvents, while it is mounted
  hydrated,  \* the effect of useSessionDetail is mounted
  saved,     \* the thread as a deletion in progress restores it when it fails
  happened, left

used == <<happened, left>>
vars == <<log, entry, selected, poll, detail, request, tail, hydrated, saved, used>>

-----------------------------------------------------------------------------
Idle == [st |-> "idle", at |-> 0]
Read == [st |-> "read", at |-> Len(log)]

\* stream   of the EventSource: "done" means that the server has sent its last frame
\* cursor   the last event received
\* pending  events received and not yet in the cache
\* ids, count, boundary  the SessionEventIdIndex
Unmounted == [stream |-> "none", cursor |-> 0, pending |-> <<>>,
              ids |-> {}, count |-> 0, boundary |-> 0]

Spend(k) == k \in Possible /\ left > 0 /\ happened' = happened \cup {k} /\ left' = left - 1

\* What events of these kinds make of the status: agent.started and session.completed
\* set it, output does not.
After(status, kinds) ==
  LET LastTurn(kind) == \E i \in DOMAIN kinds :
        kinds[i] = kind /\ \A j \in DOMAIN kinds : j > i => kinds[j] = "output"
  IN IF LastTurn("start") THEN "running" ELSE IF LastTurn("end") THEN "over" ELSE status

StatusAt(n) == After("running", SubSeq(log, 1, n))

LastId(events) == IF events = <<>> THEN 0 ELSE Last(events)
Prefix(n)      == [i \in 1 .. n |-> i]

\* The events that are not known yet.  (None is queued twice: Receive sees to that.)
Without(events, known) ==
  LET fresh[i \in 0 .. Len(events)] ==
        IF i = 0 THEN <<>>
        ELSE IF events[i] \in known THEN fresh[i - 1] ELSE Append(fresh[i - 1], events[i])
  IN fresh[Len(events)]

\* applySessionEventsUnchecked appends and projects.
Applied(e, events) ==
  [events |-> e.events \o events,
   status |-> After(e.status, [i \in DOMAIN events |-> log[events[i]]])]

Init ==
  /\ log \in {<<>>, <<"start">>}
  /\ entry = {} /\ selected = TRUE
  /\ poll = Idle /\ detail = Idle /\ request = Idle
  /\ tail = Unmounted /\ hydrated = FALSE
  /\ saved = {}
  /\ happened = {} /\ left = MaxHazards

-----------------------------------------------------------------------------
(* The server.                                                             *)

\* The run of the thread reports; a thread that is over has no run.
Report(kind) ==
  /\ log # <<>> /\ Len(log) < MaxEvents
  /\ kind \in {"output", "end"} /\ StatusAt(Len(log)) = "running"
  /\ log' = log \o <<kind>>
  /\ UNCHANGED <<entry, selected, poll, detail, request, tail, hydrated, saved, used>>

\* The user writes to the thread, or creates it, or stops its run: the answer holds
\* the thread as it then is.  (A message is "midway" when the stream is ending with
\* the run before it.)
Request(kind) ==
  /\ request = Idle /\ Len(log) < MaxEvents
  /\ log # <<>> => selected /\ entry # {}
  /\ kind = "end" => log # <<>> /\ StatusAt(Len(log)) = "running"
  /\ log' = log \o <<kind>>
  /\ request' = [st |-> "read", at |-> Len(log')]
  /\ happened' = happened
       \cup {k \in {"midway"} : tail.stream # "none" /\ StatusAt(Len(log)) = "over"}
  /\ UNCHANGED <<entry, selected, poll, detail, tail, hydrated, saved, left>>

-----------------------------------------------------------------------------
(* The merges.                                                             *)

SummaryOnlyNew(n) ==   \* mutant: the events decide what status a known thread has
  IF n = 0 THEN {}
  ELSE IF entry = {} THEN {[events |-> <<>>, status |-> StatusAt(n)]} ELSE entry

\* mergeSessionSummaries: a thread that is not in the response goes, a new one comes
\* without events, an older summary does nothing, a newer one sets the status.
WithSummary(n) ==
  IF n = 0 THEN {}
  ELSE IF entry = {} THEN {[events |-> <<>>, status |-> StatusAt(n)]}
  ELSE {IF n < Len(e.events) THEN e ELSE [e EXCEPT !.status = StatusAt(n)] : e \in entry}

SnapshotReplaces(n) == {[events |-> Prefix(n), status |-> StatusAt(n)]}   \* mutant

\* mergeSessionSnapshotIntoSessions: the snapshot, and the cached events it lacks.
WithSnapshot(n) ==
  LET snapshot == [events |-> Prefix(n), status |-> StatusAt(n)] IN
  IF entry = {} THEN {snapshot}
  ELSE {Applied(snapshot, Without(e.events, 1 .. n)) : e \in entry}

\* A summary is "ahead" when it ends the thread before all its events are in the
\* cache: the stream that would bring them is closed.  It is "behind" when it was
\* read before the thread was created: the thread goes until the next one.
Note(n) ==
  /\ happened' = happened
       \cup {k \in {"ahead"} : \E e \in entry' : e.status = "over" /\ Len(e.events) < n}
       \cup {k \in {"behind"} : entry # {} /\ entry' = {}}
  /\ UNCHANGED left

\* SessionEventIdIndex.synchronize
Synchronized(t, events) ==
  LET appended == t.count <= Len(events) /\ (t.count = 0 \/ events[t.count] = t.boundary)
  IN [t EXCEPT !.ids      = (IF appended THEN t.ids ELSE {}) \cup ToSet(events),
               !.count    = Len(events),
               !.boundary = LastId(events)]

-----------------------------------------------------------------------------
(* The effects.                                                            *)

Open    == selected /\ entry # {}
Tailing == Open /\ \E e \in entry : e.status = "running"
Mounted == tail.stream # "none"
InSync  == hydrated = Open /\ Mounted = Tailing

\* The stream begins after the last event in the cache.
Mount ==
  LET e == CHOOSE x \in entry : TRUE IN
  Synchronized([Unmounted EXCEPT !.stream = "open", !.cursor = LastId(e.events)], e.events)

RenderUncancelled ==   \* mutant: the cleanup does not cancel the flush
  /\ ~InSync
  /\ hydrated' = Open
  /\ detail' = IF hydrated = Open THEN detail
               ELSE IF Open THEN [st |-> "asked", at |-> 0] ELSE Idle
  /\ tail' = IF Mounted = Tailing THEN tail
             ELSE IF Tailing THEN Mount ELSE [tail EXCEPT !.stream = "none"]
  /\ UNCHANGED <<log, entry, selected, poll, request, saved, used>>

\* React runs the effects whose inputs changed.  A cleanup closes the stream and
\* cancels the flush; the fetch of the detail is aborted.
Render ==
  /\ ~InSync
  /\ hydrated' = Open
  /\ detail' = IF hydrated = Open THEN detail
               ELSE IF Open THEN [st |-> "asked", at |-> 0] ELSE Idle
  /\ tail' = IF Mounted = Tailing THEN tail ELSE IF Tailing THEN Mount ELSE Unmounted
  /\ UNCHANGED <<log, entry, selected, poll, request, saved, used>>

Navigate ==
  /\ IF selected THEN Spend("leave") ELSE UNCHANGED used
  /\ selected' = ~selected
  /\ UNCHANGED <<log, entry, poll, detail, request, tail, hydrated, saved>>

-----------------------------------------------------------------------------
(* Responses.                                                              *)

\* cancelQueries, and a response that fails, leave nothing.
PollRead ==
  /\ poll = Idle /\ InSync
  /\ poll' = Read
  /\ UNCHANGED <<log, entry, selected, detail, request, tail, hydrated, saved, used>>

PollMerge ==
  /\ poll # Idle
  /\ poll' = Idle
  /\ entry' = WithSummary(poll.at) /\ Note(poll.at)
  /\ UNCHANGED <<log, selected, detail, request, tail, hydrated, saved>>

DetailRead ==
  /\ detail.st = "asked"
  /\ \/ log # <<>> /\ detail' = Read /\ UNCHANGED used
     \/ detail' = Idle /\ Spend("error")
  /\ UNCHANGED <<log, entry, selected, poll, request, tail, hydrated, saved>>

DetailMerge ==
  /\ detail.st = "read"
  /\ detail' = Idle
  /\ entry' = WithSnapshot(detail.at)
  /\ UNCHANGED <<log, selected, poll, request, tail, hydrated, saved, used>>

\* onSuccess: cacheSession
RequestAnswered ==
  /\ request # Idle
  /\ request' = Idle
  /\ \/ entry' = WithSnapshot(request.at) /\ UNCHANGED used
     \/ UNCHANGED entry /\ Spend("error")
  /\ UNCHANGED <<log, selected, poll, detail, tail, hydrated, saved>>

-----------------------------------------------------------------------------
(* The event stream.                                                       *)

\* A frame arrives; what is known or queued is dropped.
Receive ==
  /\ tail.stream = "open" /\ tail.cursor < Len(log)
  /\ LET id == tail.cursor + 1
         known == id \in tail.ids \cup ToSet(tail.pending)
     IN tail' = [tail EXCEPT !.cursor = id,
                             !.pending = IF known THEN @ ELSE Append(@, id)]
  /\ UNCHANGED <<log, entry, selected, poll, detail, request, hydrated, saved, used>>

FlushUnchecked ==   \* mutant: the index is not brought up to date first
  /\ tail.stream # "none" /\ tail.pending # <<>>
  /\ entry' = {Applied(e, Without(tail.pending, tail.ids)) : e \in entry}
  /\ tail' = [tail EXCEPT !.pending = <<>>]
  /\ UNCHANGED <<log, selected, poll, detail, request, hydrated, saved, used>>

\* The frame scheduler fires: mergeSessionEventsIntoSessions.
Flush ==
  /\ tail.pending # <<>>
  /\ IF entry = {}
       THEN UNCHANGED entry /\ tail' = [tail EXCEPT !.pending = <<>>]
       ELSE \E e \in entry :
              \E known \in {Synchronized(tail, e.events)} :
              \E merged \in {Applied(e, Without(tail.pending, known.ids))} :
                 /\ entry' = {merged}
                 /\ tail' = [Synchronized(known, merged.events) EXCEPT !.pending = <<>>]
  /\ UNCHANGED <<log, selected, poll, detail, request, hydrated, saved, used>>

\* The server ends the stream of a thread that is over when all of it is sent.
SendDone ==
  /\ tail.stream = "open" /\ tail.cursor = Len(log) /\ StatusAt(Len(log)) = "over"
  /\ tail' = [tail EXCEPT !.stream = "done"]
  /\ UNCHANGED <<log, entry, selected, poll, detail, request, hydrated, saved, used>>

ReceiveDone ==
  /\ tail.stream = "done"
  /\ tail' = [tail EXCEPT !.stream = "closed"]
  /\ UNCHANGED <<log, entry, selected, poll, detail, request, hydrated, saved, used>>

\* The connection breaks, also before the last frame arrives, or the server caps it.
Drop ==
  /\ tail.stream \in {"open", "done"} /\ Spend("drop")
  /\ tail' = [tail EXCEPT !.stream = "connecting"]
  /\ UNCHANGED <<log, entry, selected, poll, detail, request, hydrated, saved>>

ReconnectNever ==   \* mutant: any error closes the stream
  /\ tail.stream = "connecting"
  /\ tail' = [tail EXCEPT !.stream = "closed"]
  /\ UNCHANGED <<log, entry, selected, poll, detail, request, hydrated, saved, used>>

\* EventSource opens it again with Last-Event-ID; after five failures it is closed.
Reconnect ==
  /\ tail.stream = "connecting"
  /\ \/ tail' = [tail EXCEPT !.stream = "open"] /\ UNCHANGED used
     \/ tail' = [tail EXCEPT !.stream = "closed"] /\ Spend("down")
  /\ UNCHANGED <<log, entry, selected, poll, detail, request, hydrated, saved>>

-----------------------------------------------------------------------------
(* Deletions.                                                              *)

\* The user deletes another thread: onMutate cancels the poll and saves the list.
Delete ==
  /\ saved = {} /\ entry # {}
  /\ "rollback" \in Possible /\ left > 0 /\ left' = left - 1
  /\ saved' = entry
  /\ poll' = Idle
  /\ UNCHANGED <<log, entry, selected, detail, request, tail, hydrated, happened>>

Deleted ==
  /\ saved # {}
  /\ saved' = {}
  /\ UNCHANGED <<log, entry, selected, poll, detail, request, tail, hydrated, used>>

\* The deletion failed: onError puts the saved list back.
RollBack ==
  /\ saved # {}
  /\ entry' = saved
  /\ saved' = {}
  /\ happened' = happened \cup {"rollback"}
  /\ UNCHANGED <<log, selected, poll, detail, request, tail, hydrated, left>>

-----------------------------------------------------------------------------
Fetch == PollMerge \/ DetailRead \/ DetailMerge \/ RequestAnswered
Stream == Receive \/ Flush \/ SendDone \/ ReceiveDone \/ Reconnect

Next ==
  \/ \E kind \in {"output", "end"} : Report(kind)
  \/ \E kind \in {"start", "end"} : Request(kind)
  \/ Render \/ Navigate \/ PollRead \/ Fetch \/ Stream \/ Drop
  \/ Delete \/ Deleted \/ RollBack

\* The page and the server run, a poll follows a poll, and requests are answered.
Spec ==
  /\ Init /\ [][Next]_vars
  /\ WF_vars(Render) /\ WF_vars(PollRead) /\ WF_vars(PollMerge)
  /\ WF_vars(DetailRead) /\ WF_vars(DetailMerge) /\ WF_vars(RequestAnswered)
  /\ WF_vars(Receive) /\ WF_vars(Flush) /\ WF_vars(SendDone) /\ WF_vars(ReceiveDone)
  /\ WF_vars(Reconnect) /\ WF_vars(Deleted \/ RollBack)

-----------------------------------------------------------------------------
Ids == 1 .. MaxEvents
Entries == [events : BoundedSeq(Ids, MaxEvents), status : {"running", "over"}]

\* The cache, the responses and the stream have the shapes the code gives them.
TypeOK ==
  /\ log \in BoundedSeq({"start", "output", "end"}, MaxEvents)
  /\ entry \subseteq Entries /\ Cardinality(entry) <= 1
  /\ \A r \in {poll, detail, request} :
       r.st \in {"idle", "asked", "read"} /\ r.at \in 0 .. Len(log)
  /\ tail.stream \in {"none", "open", "connecting", "done", "closed"}
  /\ tail.cursor \in 0 .. Len(log) /\ ToSet(tail.pending) \subseteq 1 .. tail.cursor
  /\ tail.stream = "none" => tail = Unmounted
  /\ happened \subseteq Possible \cup {"ahead", "behind", "midway"} /\ left \in 0 .. MaxHazards

\* "keep event application monotonic and idempotent" (CODEX-NAVIGATION-GUIDE.md:104):
\* the transcript has every event once, in the order of the log, however polls,
\* snapshots and the stream interleave.
InOrder ==
  \A e \in entry : \A i, j \in DOMAIN e.events : i < j => e.events[i] < e.events[j]

\* The transcript has no gap: it is all of the log up to its last event.  The list
\* that a failed deletion restores lacks what was streamed meanwhile, and the stream,
\* which goes on after its cursor, does not bring it again; nor what it brought while
\* the thread was not in the list.
NoGap ==
  \/ happened \cap {"rollback", "behind"} # {}
  \/ \A e \in entry : e.events = Prefix(Len(e.events))

\* What the user has open is complete in the end.  The code does not repair a
\* transcript that a poll declared over before the stream brought its end, that a
\* failed deletion rolled back, whose stream was given up or went on while the thread
\* was not in the list, whose detail fetch failed, or whose stream is closed by the
\* end of one run when the next has begun: the user has to open it again.
TranscriptCompletes ==
  <>(happened \cap {"ahead", "behind", "midway", "rollback", "down", "error"} # {})
  \/ <>[](Open => \A e \in entry : e.events = Prefix(Len(log)))

\* "The 3s list query remains the fallback/source of truth for everything else"
\* (useSessionEvents.ts:17): whatever is lost, and though the stream may bring back
\* an older status for a moment, the status the console shows is the server's in the end.
StatusConverges == <>[](\A e \in entry : e.status = StatusAt(Len(log)))

\* "Never replace a cache entry with an older snapshot after SSE has advanced it"
\* (CODEX-NAVIGATION-GUIDE.md:103).  A failed deletion of another thread does.
NeverOlder ==
  [][\A e \in entry, f \in entry' : LastId(e.events) <= LastId(f.events)]_vars

-----------------------------------------------------------------------------
(* The inductive invariant behind TypeOK, InOrder and NoGap.               *)

Cached == entry \cup saved

Increasing(s) == \A i, j \in DOMAIN s : i < j => s[i] < s[j]

\* The events that a transcript lacks before its last one.
Missing(e) == (1 .. LastId(e.events)) \ ToSet(e.events)

\* A transcript holds events of the log, in its order.
Transcript(e) ==
  /\ e \in [events : Seq(Nat), status : {"running", "over"}]
  /\ ToSet(e.events) \subseteq 1 .. Len(log) /\ Increasing(e.events)

\* There is at most one in the cache, and one saved.
Ordered ==
  /\ entry = {} \/ \E e \in entry : entry = {e}
  /\ saved = {} \/ \E e \in saved : saved = {e}
  /\ \A e \in Cached : Transcript(e)

Tails == [stream : {"none", "open", "connecting", "done", "closed"}, cursor : Nat,
          pending : Seq(Nat), ids : SUBSET Nat, count : Nat, boundary : Nat]

\* The events that the stream holds back are in order.
Buffered == tail \in Tails /\ Increasing(tail.pending)

\* What a transcript lacks the stream has passed, and does not hold back.
MissingPassed ==
  Mounted => \A e \in Cached :
    /\ Missing(e) \subseteq 1 .. tail.cursor
    /\ Missing(e) \cap ToSet(tail.pending) = {}

\* A response was read when there was a thread, but for one that was read before.
Answers ==
  /\ entry # {} => Len(log) > 0
  /\ detail.st = "read" => detail.at > 0
  /\ request # Idle => request.at > 0

\* The thread does not go while a deletion is under way, nor lose what was saved.
SavedOlder ==
  saved # {} =>
    /\ entry # {} /\ "rollback" \in Possible
    /\ poll # Idle => poll.at > 0
    /\ \A f \in saved, e \in entry : LastId(f.events) <= LastId(e.events)

\* What was received is in the cache or held back, and what is indexed is in the cache.
Whole ==
  happened \cap {"rollback", "behind"} = {} =>
    /\ Mounted => entry # {}
    /\ \A e \in entry :
         /\ Missing(e) = {}
         /\ 1 .. tail.cursor \subseteq ToSet(e.events) \cup ToSet(tail.pending)
         /\ tail.ids \subseteq ToSet(e.events)

CacheInv ==
  Ordered /\ Buffered /\ MissingPassed /\ Answers /\ SavedOlder /\ Whole

=============================================================================
