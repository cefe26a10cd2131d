-------------------------------- MODULE Outbox --------------------------------
(***************************************************************************)
(* The transactional outbox of workers/outbox-lib.ts: the table            *)
(* outbox_events and the runner processes that poll it.                    *)
(*                                                                         *)
(* A runner claims a batch in one transaction (which first releases the    *)
(* locks older than OUTBOX_LOCK_TIMEOUT_SEC), runs the handler on each     *)
(* event in turn and records the outcome.  None of the three outcome       *)
(* updates looks at status, locked_by or attempts of the row it writes.    *)
(* Nor does the other code that writes the table: the operator's requeue,  *)
(* and the endpoints of the payouts, which stop and reopen the events of   *)
(* payout.requested while a runner may be at work on them.                 *)
(*                                                                         *)
(* Events are numbered in the order of created_at.  A clock is abstracted  *)
(* to two sets: due, the events whose available_at has passed, and stale,  *)
(* the locks older than the timeout.  Which of two locks ages first is     *)
(* left open, so the model has every order the clock can produce.          *)
(***************************************************************************)
EXTENDS Naturals, FiniteSets

CONSTANTS NumEvents,    \* how many events are ever inserted
          Workers,      \* the runner processes
          NoWorker,     \* locked_by IS NULL
          Topics,       \* the topics
          TopicOf,      \* the topic of an event
          Subscribed,   \* the topics a runner polls
          Limit,        \* LIMIT of the claim query
          MaxAttempts,  \* maxAttemptsForTopic
          SteeredTopics,  \* the topics whose events other code stops and reopens
          MaxCrashes,   \* bound: how many times a runner dies
          MaxOverruns,  \* bound: how many locks age out under a live runner
          MaxOverwrites \* bound: how many times other code than a runner writes a row

Events == 1 .. NumEvents

ASSUME OutboxAssumption ==
  /\ NumEvents \in Nat /\ Limit \in Nat \ {0}
  /\ MaxCrashes \in Nat /\ MaxOverruns \in Nat /\ MaxOverwrites \in Nat
  /\ SteeredTopics \subseteq Topics
  /\ NoWorker \notin Workers
  /\ TopicOf \in [Events -> Topics]
  /\ Subscribed \in [Workers -> SUBSET Topics]
  /\ MaxAttempts \in [Topics -> Nat \ {0}]

VARIABLES
  status,     \* outbox_events.status, "absent" before the insert
  attempts,   \* outbox_events.attempts
  lockedBy,   \* outbox_events.locked_by
  due,        \* events with available_at <= now()
  stale,      \* locked events with locked_at < now() - timeout
  held,       \* a runner's batch: the attempt number of each event still in it
  phase,      \* what the handler did with the event the runner is at
  handled,    \* history: events for which some handler run has returned
  orphaned,   \* history: locked events whose runner died
  loose,      \* history: events unlocked while a live runner was at work on them
  stopped,    \* history: events other code has set to sent and nothing has written since
  crashes, overruns, overwrites

table == <<status, attempts, lockedBy, due, stale>>
memory == <<held, phase>>
budgets == <<crashes, overruns, overwrites>>
vars == <<table, memory, handled, orphaned, loose, stopped, budgets>>

Statuses == {"absent", "pending", "processing", "sent", "deadletter"}
Phases == {"running", "returned", "threw"}

TypeOK ==
  /\ status \in [Events -> Statuses]
  /\ attempts \in [Events -> Nat]
  /\ lockedBy \in [Events -> Workers \cup {NoWorker}]
  /\ due \in SUBSET Events
  /\ stale \in SUBSET Events
  /\ held \in [Workers -> [Events -> Nat]]
  /\ phase \in [Workers -> Phases]
  /\ handled \in SUBSET Events
  /\ orphaned \in SUBSET Events
  /\ loose \in SUBSET Events
  /\ stopped \in SUBSET Events
  /\ crashes \in 0 .. MaxCrashes
  /\ overruns \in 0 .. MaxOverruns
  /\ overwrites \in 0 .. MaxOverwrites

EmptyBatch == [e \in Events |-> 0]
Holds(w, e) == held[w][e] > 0
Idle(w) == held[w] = EmptyBatch

\* The batch is handled one event at a time, in the order of the query.
IsCurrent(w, e) ==
  /\ Holds(w, e)
  /\ \A f \in Events : Holds(w, f) => e <= f

\* The lock of e belongs to a runner that still has e in its batch.
LiveLock(e) == \E w \in Workers : lockedBy[e] = w /\ Holds(w, e)

Init ==
  /\ status = [e \in Events |-> "absent"]
  /\ attempts = [e \in Events |-> 0]
  /\ lockedBy = [e \in Events |-> NoWorker]
  /\ due = {} /\ stale = {}
  /\ held = [w \in Workers |-> EmptyBatch]
  /\ phase = [w \in Workers |-> "running"]
  /\ handled = {} /\ orphaned = {} /\ loose = {} /\ stopped = {}
  /\ crashes = 0 /\ overruns = 0 /\ overwrites = 0

-----------------------------------------------------------------------------
\* Faulty: on conflict the row is put back to pending.
EnqueueOverwrites(e) ==
  /\ status[e] \in {"absent", "sent"}
  /\ \A f \in Events : f < e => status[f] # "absent"
  /\ status' = [status EXCEPT ![e] = "pending"]
  /\ due' = due \cup {e}
  /\ UNCHANGED <<attempts, lockedBy, stale, memory, handled, orphaned, loose, stopped, budgets>>

\* enqueueOutbox: the insert, for now or (options.availableAt) for later.  An
\* insert whose idempotency key is taken does nothing.
Enqueue(e) ==
  /\ status[e] = "absent"
  /\ \A f \in Events : f < e => status[f] # "absent"
  /\ status' = [status EXCEPT ![e] = "pending"]
  /\ due' \in {due, due \cup {e}}
  /\ UNCHANGED <<attempts, lockedBy, stale, memory, handled, orphaned, loose, stopped, budgets>>

\* The clock passes available_at.
BecomeDue(e) ==
  /\ status[e] = "pending" /\ e \notin due
  /\ due' = due \cup {e}
  /\ UNCHANGED <<status, attempts, lockedBy, stale, memory, handled, orphaned, loose, stopped, budgets>>

\* The clock passes locked_at + OUTBOX_LOCK_TIMEOUT_SEC: of a lock left behind
\* by a dead runner, or of one whose runner is slower than the timeout.
LockAges(e) ==
  /\ status[e] = "processing" /\ e \notin stale
  /\ IF LiveLock(e)
     THEN overruns < MaxOverruns /\ overruns' = overruns + 1
     ELSE UNCHANGED overruns
  /\ stale' = stale \cup {e}
  /\ UNCHANGED <<status, attempts, lockedBy, due, memory, handled, orphaned, loose, stopped, crashes, overwrites>>

-----------------------------------------------------------------------------
\* Faulty: the claim releases no aged lock.
StatusNotReleased == status

\* First statement of the claim: the aged locks of every topic are released.
StatusAfterRelease == [e \in Events |-> IF e \in stale THEN "pending" ELSE status[e]]

\* Faulty: the claim query has no status = 'pending'.
ClaimableAnyLive(w) ==
  {e \in due : /\ StatusAfterRelease[e] \in {"pending", "processing"}
              /\ TopicOf[e] \in Subscribed[w]}

Claimable(w) ==
  {e \in due : StatusAfterRelease[e] = "pending" /\ TopicOf[e] \in Subscribed[w]}

\* ORDER BY created_at LIMIT: the oldest claimable events, at most Limit of them.
IsBatch(w, S) ==
  /\ S \subseteq Claimable(w)
  /\ Cardinality(S) <= Limit
  /\ \A e \in S, f \in Claimable(w) \ S : e < f
  /\ Cardinality(S) < Limit => S = Claimable(w)

\* claimOutboxBatch: one transaction.
Claim(w, S) ==
  /\ Idle(w)
  /\ IsBatch(w, S)
  /\ S \cup stale # {}
  /\ status' = [e \in Events |-> IF e \in S THEN "processing" ELSE StatusAfterRelease[e]]
  /\ attempts' = [e \in Events |-> IF e \in S THEN attempts[e] + 1 ELSE attempts[e]]
  /\ lockedBy' = [e \in Events |-> IF e \in S THEN w
                                   ELSE IF e \in stale THEN NoWorker
                                   ELSE lockedBy[e]]
  /\ held' = [held EXCEPT ![w] = [e \in Events |-> IF e \in S THEN attempts[e] + 1 ELSE 0]]
  /\ stale' = {}
  /\ loose' = loose \cup {e \in stale : LiveLock(e)}
  /\ orphaned' = orphaned \ stale
  /\ UNCHANGED <<due, phase, handled, stopped, budgets>>

\* The handler returns or throws.  A handler that throws may have done its work.
HandlerReturns(w, e) ==
  /\ IsCurrent(w, e) /\ phase[w] = "running"
  /\ phase' = [phase EXCEPT ![w] = "returned"]
  /\ handled' = handled \cup {e}
  /\ UNCHANGED <<table, held, orphaned, loose, stopped, budgets>>

HandlerThrows(w, e) ==
  /\ IsCurrent(w, e) /\ phase[w] = "running"
  /\ phase' = [phase EXCEPT ![w] = "threw"]
  /\ UNCHANGED <<table, held, handled, orphaned, loose, stopped, budgets>>

\* What the three outcome updates share: the lock columns are cleared, whoever
\* holds the lock, and the runner moves on to the next event of its batch.
Settle(w, e, s) ==
  /\ status' = [status EXCEPT ![e] = s]
  /\ lockedBy' = [lockedBy EXCEPT ![e] = NoWorker]
  /\ stale' = stale \ {e}
  /\ orphaned' = orphaned \ {e}
  /\ stopped' = stopped \ {e}
  /\ held' = [held EXCEPT ![w][e] = 0]
  /\ phase' = [phase EXCEPT ![w] = "running"]
  /\ UNCHANGED <<attempts, handled, loose, budgets>>

\* Faulty: the handler is not awaited.
MarkSentEarly(w, e) ==
  /\ IsCurrent(w, e) /\ phase[w] # "threw"
  /\ Settle(w, e, "sent")
  /\ UNCHANGED due

\* markOutboxSent
MarkSent(w, e) ==
  /\ IsCurrent(w, e) /\ phase[w] = "returned"
  /\ Settle(w, e, "sent")
  /\ UNCHANGED due

\* markOutboxSent stands inside the try: when it fails the event is rescheduled.
MarkSentFails(w, e) ==
  /\ IsCurrent(w, e) /\ phase[w] = "returned"
  /\ phase' = [phase EXCEPT ![w] = "threw"]
  /\ UNCHANGED <<table, held, handled, orphaned, loose, stopped, budgets>>

Exhausted(w, e) == held[w][e] >= MaxAttempts[TopicOf[e]]

\* rescheduleOutbox: backoffSeconds is at least one second, so e is not due.
Reschedule(w, e) ==
  /\ IsCurrent(w, e) /\ phase[w] = "threw" /\ ~Exhausted(w, e)
  /\ Settle(w, e, "pending")
  /\ due' = due \ {e}

\* Faulty: a status no query knows.
MarkDeadMisspelt(w, e) ==
  /\ IsCurrent(w, e) /\ phase[w] = "threw" /\ Exhausted(w, e)
  /\ Settle(w, e, "dead")
  /\ UNCHANGED due

\* markOutboxDead
MarkDead(w, e) ==
  /\ IsCurrent(w, e) /\ phase[w] = "threw" /\ Exhausted(w, e)
  /\ Settle(w, e, "deadletter")
  /\ UNCHANGED due

\* The runner dies in the middle of a batch and is started again.
Crash(w) ==
  /\ crashes < MaxCrashes /\ ~Idle(w)
  /\ crashes' = crashes + 1
  /\ held' = [held EXCEPT ![w] = EmptyBatch]
  /\ phase' = [phase EXCEPT ![w] = "running"]
  /\ orphaned' = orphaned \cup {e \in Events : lockedBy[e] = w}
  /\ UNCHANGED <<table, handled, loose, stopped, overruns, overwrites>>

-----------------------------------------------------------------------------
(* Writers other than the runners.  They find the row by its key or its id and *)
(* clear its lock, whatever its status is and whoever is at work on it.        *)

Overwrite(e, s) ==
  /\ overwrites < MaxOverwrites /\ overwrites' = overwrites + 1
  /\ status[e] # "absent"
  /\ status' = [status EXCEPT ![e] = s]
  /\ lockedBy' = [lockedBy EXCEPT ![e] = NoWorker]
  /\ stale' = stale \ {e}
  /\ orphaned' = orphaned \ {e}
  /\ loose' = IF \E w \in Workers : Holds(w, e) THEN loose \cup {e} ELSE loose
  /\ UNCHANGED <<memory, handled, crashes, overruns>>

\* POST /api/admin/outbox/:id/requeue: any row, attempts kept.
AdminRequeue(e) ==
  /\ Overwrite(e, "pending")
  /\ due' = due \cup {e}
  /\ stopped' = stopped \ {e}
  /\ UNCHANGED attempts

Steer(e, s) ==
  /\ TopicOf[e] \in SteeredTopics
  /\ Overwrite(e, s)

\* createDispute, the refund of resolveDisputeAdmin and the admin mark: the event
\* is not to fire, so it is set to sent.
Stop(e) ==
  /\ Steer(e, "sent")
  /\ stopped' = stopped \cup {e}
  /\ UNCHANGED <<attempts, due>>

\* cancelDispute and the uphold of resolveDisputeAdmin: pending again, for now or
\* for the end of the hold.
Reopen(e) ==
  /\ Steer(e, "pending")
  /\ due' \in {due \cup {e}, due \ {e}}
  /\ stopped' = stopped \ {e}
  /\ UNCHANGED attempts

\* The admin retry, and the unblocking when the worker's payout address is verified:
\* the attempts start again as well.
Restart(e) ==
  /\ Steer(e, "pending")
  /\ attempts' = [attempts EXCEPT ![e] = 0]
  /\ due' \in {due \cup {e}, due \ {e}}
  /\ stopped' = stopped \ {e}

OverwriteNext(e) == AdminRequeue(e) \/ Stop(e) \/ Reopen(e) \/ Restart(e)

-----------------------------------------------------------------------------
ClaimSome(w) == \E S \in SUBSET Events : Claim(w, S)

HandleNext(w) == \E e \in Events : HandlerReturns(w, e) \/ HandlerThrows(w, e)

SettleNext(w) ==
  \E e \in Events : MarkSent(w, e) \/ MarkSentFails(w, e) \/ Reschedule(w, e) \/ MarkDead(w, e)

Next ==
  \/ \E e \in Events : Enqueue(e) \/ BecomeDue(e) \/ LockAges(e) \/ OverwriteNext(e)
  \/ \E w \in Workers : ClaimSome(w) \/ HandleNext(w) \/ SettleNext(w) \/ Crash(w)

\* runOutboxLoop polls for ever, a handler is bounded by its request timeouts,
\* and clocks advance.  A lock under a live runner need not age.
Fairness ==
  /\ \A w \in Workers :
       WF_vars(ClaimSome(w)) /\ WF_vars(HandleNext(w)) /\ WF_vars(SettleNext(w))
  /\ \A e \in Events :
       WF_vars(BecomeDue(e)) /\ WF_vars(e \in orphaned /\ LockAges(e))

Spec == Init /\ [][Next]_vars
FairSpec == Spec /\ Fairness

-----------------------------------------------------------------------------
\* A row is locked exactly while it is processing, only a lock can be stale,
\* and a lock is either being worked on by the runner it names or was left by
\* one that died: no path of runOutboxLoop leaves a lock behind, so the timeout
\* is needed for crashes alone (claimOutboxBatch, markOutbox*, rescheduleOutbox).
LocksAreSound ==
  /\ \A e \in Events : status[e] = "processing" <=> lockedBy[e] # NoWorker
  /\ \A e \in stale \cup orphaned : status[e] = "processing"
  /\ \A e \in Events : status[e] = "processing" => LiveLock(e) \/ e \in orphaned

\* Two runners are at work on the same event only if its lock was taken away
\* from a live runner, by the timeout or by one of the other writers: among the
\* runners SKIP LOCKED and the status column are enough as long as handlers are
\* faster than the timeout (claimOutboxBatch, markOutbox*, rescheduleOutbox).
SingleHolder ==
  \A e \in Events \ loose : \A v, w \in Workers :
    Holds(v, e) => lockedBy[e] = v /\ (Holds(w, e) => v = w)

\* An event is sent only after some run of its handler returned, or because a
\* dispute, a refund or an operator's mark stopped it and nothing has written it
\* since; also when runners crash, overrun the lock or settle an event they lost.
SentMeansHandled ==
  \A e \in Events : status[e] = "sent" => e \in handled \/ e \in stopped

\* A restart may set attempts to 0 under a runner at work on the event; what the
\* runner counted is then ahead of the row.
Miscounted(e) == TopicOf[e] \in SteeredTopics /\ e \in loose

\* No event is given up before maxAttemptsForTopic claims of it since its attempts
\* were last set to 0, unless they were while a runner was at work on it.
DeadletterMeansExhausted ==
  \A e \in Events :
    status[e] = "deadletter" /\ ~Miscounted(e) => attempts[e] >= MaxAttempts[TopicOf[e]]

\* What a runner knows in memory agrees with the table: attempt numbers are not
\* ahead of it but by a restart, a returned handler was counted, an idle runner
\* starts afresh, and a stopped event is still as the stop left it.
RunnersAreSound ==
  /\ \A w \in Workers, e \in Events : Miscounted(e) \/ held[w][e] <= attempts[e]
  /\ \A w \in Workers, e \in Events :
       phase[w] = "returned" /\ IsCurrent(w, e) => e \in handled
  /\ \A w \in Workers : Idle(w) => phase[w] = "running"
  /\ \A e \in stopped : status[e] = "sent"

\* The inductive invariant: the lock discipline needs what runners remember.
IInv ==
  /\ TypeOK /\ LocksAreSound /\ SingleHolder
  /\ SentMeansHandled /\ DeadletterMeansExhausted /\ RunnersAreSound

\* A settled event is settled for good as far as the runners and enqueueOutbox are
\* concerned: no late write of a runner and no second enqueue changes it, unless its
\* lock was once taken away from a live runner.  What may is an operator's requeue
\* and, for payout.requested, the writers that stop and reopen a payout's event.
SettledIsFinal ==
  [][\A e \in Events \ loose :
       status[e] \in {"sent", "deadletter"} /\ status'[e] # status[e] => OverwriteNext(e)]_vars

\* Every accepted event is eventually sent or dead-lettered, whatever its
\* handler does, whichever runners die and whoever overwrites it (finitely often).
Progress ==
  \A e \in Events :
    status[e] \in {"pending", "processing"} ~> status[e] \in {"sent", "deadletter"}

\* The outbox implements LeaseQueue: a processing row is still queued, and an
\* event is in hand of the runners whose batch it is in.
Queue == INSTANCE LeaseQueue WITH
  state <- [e \in Events |-> IF status[e] \in {"pending", "processing"} THEN "queued"
                             ELSE status[e]],
  takers <- [e \in Events |-> {w \in Workers : Holds(w, e)}],
  Steered <- {e \in Events : TopicOf[e] \in SteeredTopics}

ImplementsLeaseQueue == Queue!Spec

\* docs/runbooks/StuckJobs.md: "If outbox events exceed MAX_OUTBOX_ATTEMPTS, they
\* enter deadletter": an event over the limit leaves its lock for nothing else
\* than sent or deadletter.  Attempts are compared only when a handler throws,
\* so an event whose runner dies is retried for ever.
OverLimitEntersDeadletter ==
  [][\A e \in Events :
       /\ attempts[e] > MaxAttempts[TopicOf[e]]
       /\ status[e] = "processing" /\ status'[e] # "processing"
       => status'[e] \in {"sent", "deadletter"}]_vars
=============================================================================
