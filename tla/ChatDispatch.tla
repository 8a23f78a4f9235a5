---------------------------- MODULE ChatDispatch ----------------------------
(***************************************************************************)
(* One "/relay run" message of a chat provider, from the webhook to the    *)
(* agent run (packages/relay-chat): the event receipt that tells a         *)
(* redelivery from a new message, the dispatch, and its retries.           *)
(*                                                                         *)
(* Telegram is answered when the dispatch is over, and delivers again      *)
(* until it is answered 200; the dispatch carries an idempotency key,      *)
(* which the backend scopes to the thread it is sent to (service.py,       *)
(* _scoped_idempotency_key).  Discord and Lark are answered at once; the   *)
(* process then retries the dispatch itself, without a key.                *)
(*                                                                         *)
(* The operations of FileProviderEventStore run under its file lock and    *)
(* are single steps.  A receipt is "old" when it is pending for more than  *)
(* 60 s.                                                                   *)
(***************************************************************************)
EXTENDS Naturals

CONSTANTS
  Handler,    \* deliveries that can be in progress at once
  Nobody,     \* no delivery
  Possible,   \* the Hazards that may happen
  MaxHazards  \* bound: how many do

Hazards == {"fails",    \* a call before the run is started fails
            "unheard",  \* the run is started and the backend's answer is lost
            "unbound",  \* the new thread is not bound to the conversation
            "mute",     \* a message to the chat fails after the run was started
            "unsaved",  \* the receipt cannot be written
            "again",    \* the provider gives up waiting and delivers again
            "lost",     \* an answer does not reach the provider
            "slow",     \* a receipt becomes old though its claimant is at work
            "crash"}    \* the process dies and starts again

ASSUME HazardsAssumption ==
  Possible \subseteq Hazards /\ MaxHazards \in Nat /\ Nobody \notin Handler

VARIABLES
  provider,  \* "telegram", or "detached" for Discord and Lark
  receipt,   \* the record of the event in the store
  h,         \* the deliveries in progress
  awaited,   \* the delivery whose answer the provider waits for
  accepted,  \* the provider was answered 200
  fresh,     \* the command is "/relay new", which starts a thread in any case
  thread,    \* the thread the conversation is bound to, and what runs in it
  keys,      \* where runs were admitted under the message's key
  runs,      \* how many agent runs were started for the message
  happened,  \* the hazards that happened so far
  left       \* how many more may

used == <<happened, left>>
backend == <<thread, keys, runs>>
vars == <<provider, fresh, receipt, h, awaited, accepted, backend, used>>

-----------------------------------------------------------------------------
\* to       where the run is sent: a "new" thread, or the "bound" one
\* started  runStarted was called
Idle == [pc |-> "idle", to |-> "new", started |-> FALSE]

Init ==
  /\ provider \in {"telegram", "detached"}
  /\ receipt = "none"
  /\ h = [i \in Handler |-> Idle]
  /\ awaited = Nobody /\ accepted = FALSE
  /\ fresh \in BOOLEAN /\ thread \in {"none", "idle", "busy"}
  /\ keys = {} /\ runs = 0
  /\ happened = {} /\ left = MaxHazards

At(i, pc)   == h[i].pc = pc
Goto(i, pc) == h' = [h EXCEPT ![i].pc = pc]
Return(i)   == h' = [h EXCEPT ![i] = Idle]
Spend(k)    == /\ k \in Possible /\ left > 0
               /\ happened' = happened \cup {k} /\ left' = left - 1

\* The answer of delivery i reaches the provider if that still waits for it.
Answer(i, status) ==
  /\ awaited' = IF awaited = i THEN Nobody ELSE awaited
  /\ \/ accepted' = (accepted \/ (awaited = i /\ status = 200)) /\ UNCHANGED used
     \/ awaited = i /\ Spend("lost") /\ UNCHANGED accepted

\* The provider delivers until it is answered 200.
Deliver(i) ==
  /\ At(i, "idle") /\ ~accepted
  /\ IF awaited = Nobody THEN UNCHANGED used ELSE Spend("again")
  /\ awaited' = i
  /\ Goto(i, "claim")
  /\ UNCHANGED <<provider, fresh, receipt, accepted, backend>>

ClaimPending(i) ==   \* mutant: a pending receipt is claimed again at once
  /\ At(i, "claim")
  /\ IF receipt # "completed"
       THEN receipt' = "pending" /\ Goto(i, "announce")
       ELSE UNCHANGED receipt /\ Return(i)
  /\ IF receipt # "completed" /\ provider = "telegram"
       THEN UNCHANGED <<awaited, accepted, used>>
       ELSE Answer(i, 200)
  /\ UNCHANGED <<provider, fresh, backend>>

ClaimCompletes(i) ==   \* mutant: the receipt is completed when it is claimed
  /\ At(i, "claim")
  /\ IF receipt \in {"none", "old"}
       THEN receipt' = "completed" /\ Goto(i, "announce")
       ELSE UNCHANGED receipt /\ Return(i)
  /\ IF receipt \in {"none", "old"} /\ provider = "telegram"
       THEN UNCHANGED <<awaited, accepted, used>>
       ELSE Answer(i, 200)
  /\ UNCHANGED <<provider, fresh, backend>>

\* claim: an event that is completed, or pending for less than 60 s, is a duplicate
\* and answered 200.
Claim(i) ==
  /\ At(i, "claim")
  /\ IF receipt \in {"none", "old"}
       THEN receipt' = "pending" /\ Goto(i, "announce")
       ELSE UNCHANGED receipt /\ Return(i)
  /\ IF receipt \in {"none", "old"} /\ provider = "telegram"
       THEN UNCHANGED <<awaited, accepted, used>>
       ELSE Answer(i, 200)
  /\ UNCHANGED <<provider, fresh, backend>>

\* dispatchProviderCommand tells the chat that the request was accepted, and
\* RelayChatGateway.run looks up the identity and the thread of the conversation.
Announce(i) ==
  /\ At(i, "announce")
  /\ \/ /\ h' = [h EXCEPT ![i].pc = "run",
                           ![i].to = IF fresh \/ thread = "none" THEN "new" ELSE "bound"]
        /\ UNCHANGED used
     \/ Goto(i, "failed") /\ Spend("fails")
  /\ UNCHANGED <<provider, fresh, receipt, awaited, accepted, backend>>

KnownUnkeyed(to) ==   \* mutant: the message is sent without its key
  to = "bound" /\ thread = "mine"

\* The backend answers with the run it has: one of the same key, or of the same
\* message under way in the same thread (idempotent_run, idempotent_session_run).
Known(to) ==
  IF provider = "telegram" THEN to \in keys ELSE to = "bound" /\ thread = "mine"

\* A thread with an active run takes no other.
Refused(to) == ~Known(to) /\ to = "bound" /\ thread \in {"busy", "mine"}

Admit(to) ==
  IF Known(to)
    THEN UNCHANGED backend
    ELSE /\ runs' = runs + 1 /\ keys' = keys \cup {to}
         /\ thread' = IF to = "bound" THEN "mine" ELSE thread

\* continueThread or startAgentRun.
StartRun(i) ==
  /\ At(i, "run")
  /\ \/ Refused(h[i].to) /\ Goto(i, "failed") /\ UNCHANGED <<backend, used>>
     \/ ~Refused(h[i].to) /\ Goto(i, "failed") /\ Spend("fails") /\ UNCHANGED backend
     \/ ~Refused(h[i].to) /\ Goto(i, "failed") /\ Spend("unheard") /\ Admit(h[i].to)
     \/ ~Refused(h[i].to) /\ Goto(i, "bind") /\ UNCHANGED used /\ Admit(h[i].to)
  /\ UNCHANGED <<provider, fresh, receipt, awaited, accepted>>

\* The thread that the backend answered with is bound already.
Bound(i) == h[i].to = "bound" \/ (provider = "telegram" /\ thread = "mine")

\* bindConversationSession, whose failure is only reported.
Bind(i) ==
  /\ At(i, "bind")
  /\ \/ thread' = (IF Bound(i) THEN thread ELSE "busy") /\ UNCHANGED used
     \/ UNCHANGED thread /\ Spend("unbound")
  /\ Goto(i, "runStarted")
  /\ UNCHANGED <<provider, fresh, receipt, awaited, accepted, keys, runs>>

\* The run in the thread of the conversation is over.
EndRun ==
  /\ thread \in {"busy", "mine"}
  /\ thread' = "idle"
  /\ UNCHANGED <<provider, fresh, receipt, h, awaited, accepted, keys, runs, used>>

\* sink.started calls runStarted, which completes the receipt of a Telegram event, ...
RunStarted(i) ==
  /\ At(i, "runStarted")
  /\ IF provider = "telegram"
       THEN \/ receipt' = "completed" /\ UNCHANGED used
               /\ h' = [h EXCEPT ![i].pc = "tell", ![i].started = TRUE]
            \/ UNCHANGED receipt /\ Spend("unsaved")
               /\ h' = [h EXCEPT ![i].pc = "failed", ![i].started = TRUE]
       ELSE Goto(i, "tell") /\ UNCHANGED <<receipt, used>>
  /\ UNCHANGED <<provider, fresh, awaited, accepted, backend>>

\* ... and tells the chat.
Tell(i) ==
  /\ At(i, "tell")
  /\ \/ Goto(i, "done") /\ UNCHANGED used
     \/ Goto(i, "failed") /\ Spend("mute")
  /\ UNCHANGED <<provider, fresh, receipt, awaited, accepted, backend>>

FailReleased(i) ==   \* mutant: a released record is kept as such
  /\ At(i, "failed") /\ provider = "telegram" /\ ~h[i].started
  /\ receipt' = "released" /\ Answer(i, 500)
  /\ Return(i)
  /\ UNCHANGED <<provider, fresh, backend>>

\* The dispatch failed.  Telegram is asked to deliver again, unless the run was
\* started; a receipt that cannot be released stays pending.
FailTelegram(i) ==
  /\ At(i, "failed") /\ provider = "telegram"
  /\ \/ h[i].started /\ UNCHANGED receipt /\ Answer(i, 200)
     \/ ~h[i].started /\ receipt' = "none" /\ Answer(i, 500)
     \/ ~h[i].started /\ UNCHANGED <<receipt, accepted>> /\ Spend("unsaved")
        /\ awaited' = IF awaited = i THEN Nobody ELSE awaited
  /\ Return(i)
  /\ UNCHANGED <<provider, fresh, backend>>

FailDetachedOnce(i) ==   \* mutant: the loop gives up
  /\ At(i, "failed") /\ provider = "detached"
  /\ Return(i)
  /\ UNCHANGED <<provider, fresh, receipt, awaited, accepted, backend, used>>

\* retryProviderDispatch waits and dispatches again, from the start.
FailDetached(i) ==
  /\ At(i, "failed") /\ provider = "detached"
  /\ Goto(i, "announce")
  /\ UNCHANGED <<provider, fresh, receipt, awaited, accepted, backend, used>>

\* The dispatch is over.  (Telegram's receipt is complete; the detached loop writes
\* its own until it is saved.)
Done(i) ==
  /\ At(i, "done")
  /\ Return(i)
  /\ IF provider = "telegram"
       THEN Answer(i, 200) /\ UNCHANGED receipt
       ELSE receipt' = "completed" /\ UNCHANGED <<awaited, accepted, used>>
  /\ UNCHANGED <<provider, fresh, backend>>

-----------------------------------------------------------------------------
Working(i) == h[i].pc \notin {"idle", "claim"}

\* A pending receipt becomes 60 s old: its claimant has died, or is slow.  (The
\* waits of the detached loop grow to 60 s.)
GrowOld ==
  /\ receipt = "pending"
  /\ IF \E i \in Handler : Working(i) THEN Spend("slow") ELSE UNCHANGED used
  /\ receipt' = "old"
  /\ UNCHANGED <<provider, fresh, h, awaited, accepted, backend>>

\* What was in progress is lost, and so are the connections; the store is a file.
Crash ==
  /\ \E i \in Handler : ~At(i, "idle")
  /\ Spend("crash")
  /\ h' = [i \in Handler |-> Idle]
  /\ awaited' = Nobody
  /\ UNCHANGED <<provider, fresh, receipt, accepted, backend>>

Step(i) ==
  \/ Claim(i) \/ Announce(i) \/ StartRun(i) \/ Bind(i) \/ RunStarted(i) \/ Tell(i)
  \/ FailTelegram(i) \/ FailDetached(i) \/ Done(i)

Next ==
  \/ \E i \in Handler : Deliver(i) \/ Step(i)
  \/ EndRun \/ GrowOld \/ Crash

\* The provider delivers again when it is not answered 200, the process runs, and a
\* run ends (DispatchOutbox!RequestTerminates).
Spec ==
  /\ Init /\ [][Next]_vars /\ WF_vars(EndRun)
  /\ WF_vars(\E i \in Handler : Deliver(i)) /\ \A i \in Handler : WF_vars(Step(i))

-----------------------------------------------------------------------------
\* The receipt and the deliveries have the shapes the code gives them.
TypeOK ==
  /\ provider \in {"telegram", "detached"}
  /\ receipt \in {"none", "pending", "old", "completed"}
  /\ h \in [Handler -> [pc : {"idle", "claim", "announce", "run", "bind", "runStarted",
                              "tell", "failed", "done"},
                       to : {"new", "bound"}, started : BOOLEAN]]
  /\ awaited \in Handler \cup {Nobody}
  /\ accepted \in BOOLEAN /\ fresh \in BOOLEAN
  /\ thread \in {"none", "idle", "busy", "mine"}
  /\ keys \subseteq {"new", "bound"} /\ runs \in Nat
  /\ happened \subseteq Possible /\ left \in 0 .. MaxHazards

\* A message starts one agent run: a failed dispatch, a redelivery or a restart does
\* not repeat it.  The first run of a conversation is admitted under the key scoped
\* to a new thread and binds that thread; an attempt that finds it bound uses another
\* key.  So an attempt after a crash, a receipt that grew old or one that was not
\* saved starts a second run.  Discord and Lark have no key: whatever fails after the
\* run was started repeats it.
OneRun ==
  runs > 1 =>
    IF provider = "telegram"
      THEN ~fresh /\ happened \cap {"slow", "crash", "unsaved"} # {}
      ELSE happened \cap {"unheard", "mute", "slow", "crash"} # {}

\* A completed receipt, which makes every redelivery a duplicate, means that the
\* message was dispatched.
CompletedWasRun == receipt = "completed" => runs > 0

\* A completed receipt stays complete.  An attempt that was overtaken because its
\* receipt grew old, and then fails, releases the receipt of the one that succeeded.
CompletedIsFinal ==
  [][receipt = "completed" => receipt' = "completed" \/ "slow" \in happened]_vars

\* The message is dispatched in the end, whatever calls fail and answers are lost.
\* A redelivery that arrives while the first attempt is at work, or within 60 s of
\* the crash that ended it, is answered 200 as a duplicate: nobody tries again.
Dispatched == <>(runs > 0 \/ happened \cap {"again", "crash", "unsaved"} # {})

\* "FileProviderEventStore [...] so provider retries are deduplicated across process
\* restarts" (chat-integrations.md:349).  The code does not keep this.
RetriesDeduplicated == provider = "telegram" => runs <= 1

\* "Accepted work is retried with backoff until dispatch and receipt persistence
\* succeed" (chat-integrations.md:350).  The code does not keep this.
AcceptedIsDispatched == accepted ~> runs > 0

-----------------------------------------------------------------------------
(* The inductive invariant behind OneRun, CompletedWasRun and              *)
(* CompletedIsFinal.                                                       *)

Without(k) == happened \cap k = {}

\* Delivery i knows that the run was started, and has yet to say so.
Over(i) == h[i].pc \in {"bind", "runStarted", "tell", "done"}

\* runStarted is called for Telegram only, once the run was started.
StartedLate ==
  \A i \in Handler :
    h[i].started => provider = "telegram" /\ h[i].pc \in {"tell", "failed", "done"}

\* While no receipt grows old too early, one delivery is at work and the receipt is
\* its own: pending, or completed by it.
WorksAlone ==
  "slow" \notin happened =>
    \A i \in Handler : Working(i) =>
      /\ receipt = "pending" \/ (receipt = "completed" /\ h[i].started)
      /\ \A j \in Handler : Working(j) => j = i

\* Whatever shows that the message ran is seen after it ran.
RunSeen ==
  (receipt = "completed" \/ thread = "mine" \/ keys # {} \/ \E i \in Handler : Over(i))
    => runs > 0

\* A Telegram message runs once under each of its keys ("/relay new" has one).
RunPerKey ==
  /\ provider = "telegram" => \/ runs <= 1 /\ (keys = {} => runs = 0)
                              \/ runs = 2 /\ keys = {"new", "bound"}
  /\ fresh => keys \subseteq {"new"} /\ \A i \in Handler : h[i].to = "new"

\* Where an attempt that begins now is sent to.
Dest == IF thread = "none" THEN "new" ELSE "bound"

\* The attempts of a Telegram message use one key, as the thread is bound by the last.
KeyStays ==
  provider = "telegram" /\ ~fresh /\ Without({"slow", "crash", "unsaved"}) =>
    /\ keys # {"new", "bound"}
    /\ \A i \in Handler : At(i, "run") => h[i].to = Dest
    /\ \/ receipt = "completed" \/ (\E i \in Handler : At(i, "runStarted"))
       \/ keys \subseteq {Dest}

\* The detached loop does not try again after an attempt that was heard.
TriedOnce ==
  provider = "detached" /\ Without({"unheard", "mute", "slow", "crash"}) =>
    \/ runs = 0
    \/ runs = 1 /\ (receipt = "completed" \/ \E i \in Handler : Over(i))

IndInv ==
  StartedLate /\ WorksAlone /\ RunSeen /\ RunPerKey /\ KeyStays /\ TriedOnce

=============================================================================
