----------------------------- MODULE OutboxProofs -----------------------------
(* The safety of the outbox, for every number of events, runners, topics and   *)
(* attempts, and for every bound on crashes, overruns and overwrites.          *)
EXTENDS Outbox, TLAPS

\* The bounds are numbers.
LEMMA BoundsAreNat == MaxCrashes \in Nat /\ MaxOverruns \in Nat /\ MaxOverwrites \in Nat
BY OutboxAssumption DEF OutboxAssumption

\* What the four writers that are not runners have in common.
LEMMA OverwriteSummary ==
  ASSUME NEW e \in Events, OverwriteNext(e)
  PROVE  \E s \in {"pending", "sent"} :
           /\ Overwrite(e, s)
           /\ stopped' = IF s = "sent" THEN stopped \cup {e} ELSE stopped \ {e}
           /\ due' \in {due, due \cup {e}, due \ {e}}
           /\ \/ attempts' = attempts
              \/ attempts' = [attempts EXCEPT ![e] = 0] /\ TopicOf[e] \in SteeredTopics
           /\ s = "sent" => Stop(e)
BY DEF OverwriteNext, AdminRequeue, Stop, Reopen, Restart, Steer

\* Every step keeps the types.
LEMMA TypeStep == TypeOK /\ [Next]_vars => TypeOK'
<1> SUFFICES ASSUME TypeOK, [Next]_vars PROVE TypeOK'
  OBVIOUS
<1> USE DEF TypeOK, Statuses, Phases, table, memory, budgets
<1>1. ASSUME NEW e \in Events, Enqueue(e) PROVE TypeOK'
  BY <1>1 DEF Enqueue
<1>2. ASSUME NEW e \in Events, BecomeDue(e) PROVE TypeOK'
  BY <1>2 DEF BecomeDue
<1>3. ASSUME NEW e \in Events, LockAges(e) PROVE TypeOK'
  BY <1>3, BoundsAreNat DEF LockAges
<1>4. ASSUME NEW e \in Events, OverwriteNext(e) PROVE TypeOK'
  <2>1. PICK s \in {"pending", "sent"} :
          /\ Overwrite(e, s)
          /\ stopped' = IF s = "sent" THEN stopped \cup {e} ELSE stopped \ {e}
          /\ due' \in {due, due \cup {e}, due \ {e}}
          /\ attempts' = attempts \/ attempts' = [attempts EXCEPT ![e] = 0]
    BY <1>4, OverwriteSummary
  <2>2. stopped' \in SUBSET Events /\ due' \in SUBSET Events
    BY <2>1
  <2>3. QED
    BY <2>1, <2>2, BoundsAreNat DEF Overwrite
<1>5. ASSUME NEW w \in Workers, NEW S \in SUBSET Events, Claim(w, S) PROVE TypeOK'
  BY <1>5 DEF Claim, StatusAfterRelease
<1>6. ASSUME NEW w \in Workers, NEW e \in Events, HandlerReturns(w, e) PROVE TypeOK'
  BY <1>6 DEF HandlerReturns
<1>7. ASSUME NEW w \in Workers, NEW e \in Events, HandlerThrows(w, e) PROVE TypeOK'
  BY <1>7 DEF HandlerThrows
<1>8. ASSUME NEW w \in Workers, NEW e \in Events, NEW s \in Statuses, Settle(w, e, s),
             due' \in SUBSET Events
      PROVE  TypeOK'
  BY <1>8 DEF Settle
<1>9. ASSUME NEW w \in Workers, NEW e \in Events, MarkSent(w, e) PROVE TypeOK'
  BY <1>9, <1>8 DEF MarkSent
<1>10. ASSUME NEW w \in Workers, NEW e \in Events, MarkSentFails(w, e) PROVE TypeOK'
  BY <1>10 DEF MarkSentFails
<1>11. ASSUME NEW w \in Workers, NEW e \in Events, Reschedule(w, e) PROVE TypeOK'
  BY <1>11, <1>8 DEF Reschedule
<1>12. ASSUME NEW w \in Workers, NEW e \in Events, MarkDead(w, e) PROVE TypeOK'
  BY <1>12, <1>8 DEF MarkDead
<1>13. ASSUME NEW w \in Workers, Crash(w) PROVE TypeOK'
  BY <1>13, BoundsAreNat DEF Crash, EmptyBatch
<1>14. CASE UNCHANGED vars
  BY <1>14 DEF vars
<1>15. QED
  BY <1>1, <1>2, <1>3, <1>4, <1>5, <1>6, <1>7, <1>9, <1>10, <1>11, <1>12, <1>13, <1>14
  DEF Next, ClaimSome, HandleNext, SettleNext

\* The state is always of the types of the table and of the runners' memory.
THEOREM TypeCorrect == Spec => []TypeOK
<1>1. Init => TypeOK
  BY BoundsAreNat DEF Init, TypeOK, EmptyBatch, Statuses, Phases
<1>2. QED
  BY <1>1, TypeStep, PTL DEF Spec

\* Every step keeps the inductive invariant, action by action.
LEMMA InvariantStep == IInv /\ [Next]_vars => IInv'
<1> SUFFICES ASSUME IInv, [Next]_vars PROVE IInv'
  OBVIOUS
<1> USE DEF IInv, TypeOK, table, memory, budgets, Statuses, Phases
<1>0. TypeOK'
  BY TypeStep
<1>1. ASSUME NEW e \in Events, Enqueue(e) PROVE IInv'
  <2>1. LocksAreSound'
    BY <1>1 DEF Enqueue, LocksAreSound, LiveLock, Holds
  <2>2. SingleHolder'
    BY <1>1 DEF Enqueue, SingleHolder, Holds
  <2>3. SentMeansHandled'
    BY <1>1 DEF Enqueue, SentMeansHandled
  <2>4. DeadletterMeansExhausted'
    BY <1>1 DEF Enqueue, DeadletterMeansExhausted, Miscounted, RunnersAreSound
  <2>5. RunnersAreSound'
    BY <1>1 DEF Enqueue, RunnersAreSound, Miscounted, IsCurrent, Holds, Idle
  <2>6. QED
    BY <2>1, <2>2, <2>3, <2>4, <2>5, <1>0 DEF IInv
<1>2. ASSUME NEW e \in Events, BecomeDue(e) PROVE IInv'
  <2>1. LocksAreSound'
    BY <1>2 DEF BecomeDue, LocksAreSound, LiveLock, Holds
  <2>2. SingleHolder'
    BY <1>2 DEF BecomeDue, SingleHolder, Holds
  <2>3. SentMeansHandled'
    BY <1>2 DEF BecomeDue, SentMeansHandled
  <2>4. DeadletterMeansExhausted'
    BY <1>2 DEF BecomeDue, DeadletterMeansExhausted, Miscounted, RunnersAreSound
  <2>5. RunnersAreSound'
    BY <1>2 DEF BecomeDue, RunnersAreSound, Miscounted, IsCurrent, Holds, Idle
  <2>6. QED
    BY <2>1, <2>2, <2>3, <2>4, <2>5, <1>0 DEF IInv
<1>3. ASSUME NEW e \in Events, LockAges(e) PROVE IInv'
  <2>1. LocksAreSound'
    BY <1>3 DEF LockAges, LocksAreSound, LiveLock, Holds
  <2>2. SingleHolder'
    BY <1>3 DEF LockAges, SingleHolder, Holds, LiveLock
  <2>3. SentMeansHandled'
    BY <1>3 DEF LockAges, SentMeansHandled, LiveLock
  <2>4. DeadletterMeansExhausted'
    BY <1>3 DEF LockAges, DeadletterMeansExhausted, Miscounted, RunnersAreSound, LiveLock
  <2>5. RunnersAreSound'
    BY <1>3 DEF LockAges, RunnersAreSound, Miscounted, IsCurrent, Holds, Idle, LiveLock
  <2>6. QED
    BY <2>1, <2>2, <2>3, <2>4, <2>5, <1>0 DEF IInv
<1>4. ASSUME NEW e \in Events, OverwriteNext(e) PROVE IInv'
  <2>0. PICK s \in {"pending", "sent"} :
          /\ Overwrite(e, s)
          /\ stopped' = IF s = "sent" THEN stopped \cup {e} ELSE stopped \ {e}
          /\ \/ attempts' = attempts
             \/ attempts' = [attempts EXCEPT ![e] = 0] /\ TopicOf[e] \in SteeredTopics
    BY <1>4, OverwriteSummary
  <2>1. LocksAreSound'
    BY <2>0 DEF Overwrite, LocksAreSound, LiveLock, Holds
  <2>2. SingleHolder'
    BY <2>0 DEF Overwrite, SingleHolder, Holds
  <2>3. SentMeansHandled'
    BY <2>0 DEF Overwrite, SentMeansHandled
  <2>4. DeadletterMeansExhausted'
    BY <2>0 DEF Overwrite, DeadletterMeansExhausted, Miscounted
  <2>5. RunnersAreSound'
    <3>1. ASSUME NEW w \in Workers, NEW f \in Events, ~Miscounted(f)'
          PROVE  held'[w][f] <= attempts'[f]
      <4>1. ~Miscounted(f) /\ held'[w][f] = held[w][f] /\ held[w][f] <= attempts[f]
        BY <2>0, <3>1 DEF Overwrite, Miscounted, RunnersAreSound
      <4>2. CASE attempts'[f] = attempts[f]
        BY <4>1, <4>2
      <4>3. CASE f = e /\ attempts'[f] = 0 /\ TopicOf[e] \in SteeredTopics
        BY <2>0, <3>1, <4>1, <4>3 DEF Overwrite, Miscounted, Holds
      <4>4. QED
        BY <2>0, <4>2, <4>3
    <3>2. \A f \in stopped' : status'[f] = "sent"
      BY <2>0 DEF Overwrite, RunnersAreSound
    <3>3. QED
      BY <2>0, <3>1, <3>2 DEF Overwrite, RunnersAreSound, IsCurrent, Holds, Idle
  <2>6. QED
    BY <2>1, <2>2, <2>3, <2>4, <2>5, <1>0 DEF IInv
<1>5. ASSUME NEW w \in Workers, NEW S \in SUBSET Events, Claim(w, S) PROVE IInv'
  <2> DEFINE free == S \cup stale
  <2>a. /\ \A f \in Events : ~Holds(w, f)
        /\ \A f \in S : status[f] = "pending" \/ f \in stale
    <3>1. \A f \in Events : ~Holds(w, f)
      BY <1>5 DEF Claim, Idle, EmptyBatch, Holds
    <3>2. \A f \in S : f \in Events /\ StatusAfterRelease[f] = "pending"
      BY <1>5 DEF Claim, IsBatch, Claimable
    <3>3. QED
      BY <3>1, <3>2 DEF StatusAfterRelease
  <2>b. \A f \in Events : /\ f \in S => lockedBy'[f] = w /\ status'[f] = "processing"
                          /\ f \in stale \ S => lockedBy'[f] = NoWorker /\ status'[f] = "pending"
                          /\ f \notin free => lockedBy'[f] = lockedBy[f] /\ status'[f] = status[f]
    BY <1>5 DEF Claim, StatusAfterRelease
  <2>c. \A v \in Workers, f \in Events : Holds(v, f)' <=> IF v = w THEN f \in S ELSE Holds(v, f)
    BY <1>5 DEF Claim, Holds
  <2>d. stale' = {} /\ orphaned' = orphaned \ stale /\ loose' = loose \cup {f \in stale : LiveLock(f)}
    BY <1>5 DEF Claim
  <2>1. LocksAreSound'
    <3>1. NoWorker # w
      BY OutboxAssumption DEF OutboxAssumption
    <3>2. \A f \in Events : status'[f] = "processing" <=> lockedBy'[f] # NoWorker
      BY <3>1, <2>b DEF LocksAreSound
    <3>3. \A f \in (stale \cup orphaned)' : status'[f] = "processing"
      BY <2>b, <2>d DEF LocksAreSound
    <3>4. ASSUME NEW f \in Events, status'[f] = "processing"
          PROVE  (\E v \in Workers : lockedBy'[f] = v /\ Holds(v, f)') \/ f \in orphaned'
      <4>1. CASE f \in S
        BY <4>1, <2>b, <2>c
      <4>2. CASE f \notin S
        BY <3>4, <4>2, <2>a, <2>b, <2>c, <2>d DEF LocksAreSound, LiveLock
      <4>3. QED
        BY <4>1, <4>2
    <3>5. QED
      BY <3>2, <3>3, <3>4 DEF LocksAreSound, LiveLock
  <2>2. SingleHolder'
    <3> SUFFICES ASSUME NEW f \in Events \ loose', NEW v \in Workers, Holds(v, f)'
                 PROVE  lockedBy'[f] = v /\ \A u \in Workers : Holds(u, f)' => u = v
      BY DEF SingleHolder
    <3>1. f \in free => \A u \in Workers : ~Holds(u, f)
      <4>1. f \in stale => ~LiveLock(f)
        BY <2>d
      <4>2. f \in S \ stale => lockedBy[f] = NoWorker
        BY <2>a DEF LocksAreSound
      <4>3. \A u \in Workers : Holds(u, f) => lockedBy[f] = u
        BY <2>d DEF SingleHolder
      <4>4. NoWorker \notin Workers
        BY OutboxAssumption DEF OutboxAssumption
      <4>5. QED
        BY <4>1, <4>2, <4>3, <4>4 DEF LiveLock
    <3>2. CASE f \in free
      BY <3>1, <3>2, <2>b, <2>c
    <3>3. CASE f \notin free
      BY <3>3, <2>a, <2>b, <2>c, <2>d DEF SingleHolder
    <3>4. QED
      BY <3>2, <3>3
  <2>3. SentMeansHandled'
    BY <1>5 DEF Claim, SentMeansHandled, StatusAfterRelease, Claimable, IsBatch, LiveLock, EmptyBatch, Idle
  <2>4. DeadletterMeansExhausted'
    BY <1>5 DEF Claim, DeadletterMeansExhausted, Miscounted, RunnersAreSound, StatusAfterRelease, Claimable, IsBatch, LiveLock, EmptyBatch, Idle
  <2>5. RunnersAreSound'
    <3>1. ASSUME NEW v \in Workers, NEW f \in Events, ~Miscounted(f)'
          PROVE  held'[v][f] <= attempts'[f]
      BY <1>5, <3>1 DEF Claim, RunnersAreSound, Miscounted, EmptyBatch, Idle
    <3>2. ASSUME NEW v \in Workers, NEW f \in Events, phase'[v] = "returned", IsCurrent(v, f)'
          PROVE  f \in handled'
      <4>1. phase[w] = "running" /\ phase' = phase /\ handled' = handled
        BY <1>5 DEF Claim, RunnersAreSound
      <4>2. v # w
        BY <3>2, <4>1
      <4>3. IsCurrent(v, f)
        BY <3>2, <4>2, <2>c DEF IsCurrent
      <4>4. QED
        BY <3>2, <4>1, <4>3 DEF RunnersAreSound
    <3>3. ASSUME NEW v \in Workers, Idle(v)' PROVE phase'[v] = "running"
      BY <1>5, <3>3 DEF Claim, RunnersAreSound, Idle, EmptyBatch
    <3>4. ASSUME NEW f \in stopped' PROVE status'[f] = "sent"
      <4>1. f \in Events /\ f \in stopped /\ status[f] = "sent"
        BY <1>5 DEF Claim, RunnersAreSound
      <4>2. QED
        BY <4>1, <2>a, <2>b DEF LocksAreSound
    <3>5. QED
      BY <3>1, <3>2, <3>3, <3>4 DEF RunnersAreSound
  <2>6. QED
    BY <2>1, <2>2, <2>3, <2>4, <2>5, <1>0 DEF IInv
<1>6. ASSUME NEW w \in Workers, NEW e \in Events, HandlerReturns(w, e) PROVE IInv'
  <2>1. LocksAreSound'
    BY <1>6 DEF HandlerReturns, LocksAreSound, LiveLock, Holds
  <2>2. SingleHolder'
    BY <1>6 DEF HandlerReturns, SingleHolder, Holds
  <2>3. SentMeansHandled'
    BY <1>6 DEF HandlerReturns, SentMeansHandled
  <2>4. DeadletterMeansExhausted'
    BY <1>6 DEF HandlerReturns, DeadletterMeansExhausted, Miscounted, RunnersAreSound
  <2>5. RunnersAreSound'
    BY <1>6, OutboxAssumption DEF HandlerReturns, RunnersAreSound, Miscounted, IsCurrent, Holds, Idle, EmptyBatch, Events, OutboxAssumption
  <2>6. QED
    BY <2>1, <2>2, <2>3, <2>4, <2>5, <1>0 DEF IInv
<1>7. ASSUME NEW w \in Workers, NEW e \in Events, HandlerThrows(w, e) PROVE IInv'
  <2>1. LocksAreSound'
    BY <1>7 DEF HandlerThrows, LocksAreSound, LiveLock, Holds
  <2>2. SingleHolder'
    BY <1>7 DEF HandlerThrows, SingleHolder, Holds
  <2>3. SentMeansHandled'
    BY <1>7 DEF HandlerThrows, SentMeansHandled
  <2>4. DeadletterMeansExhausted'
    BY <1>7 DEF HandlerThrows, DeadletterMeansExhausted, Miscounted, RunnersAreSound
  <2>5. RunnersAreSound'
    BY <1>7 DEF HandlerThrows, RunnersAreSound, Miscounted, IsCurrent, Holds, Idle, EmptyBatch
  <2>6. QED
    BY <2>1, <2>2, <2>3, <2>4, <2>5, <1>0 DEF IInv
<1>8. ASSUME NEW w \in Workers, NEW e \in Events, MarkSent(w, e) PROVE IInv'
  <2>1. LocksAreSound'
    BY <1>8 DEF MarkSent, LocksAreSound, LiveLock, Holds, Settle, IsCurrent, RunnersAreSound
  <2>2. SingleHolder'
    BY <1>8 DEF MarkSent, SingleHolder, Holds, Settle, IsCurrent, RunnersAreSound
  <2>3. SentMeansHandled'
    BY <1>8 DEF MarkSent, SentMeansHandled, Settle, IsCurrent, RunnersAreSound
  <2>4. DeadletterMeansExhausted'
    BY <1>8 DEF MarkSent, DeadletterMeansExhausted, Miscounted, RunnersAreSound, Settle, IsCurrent
  <2>5. RunnersAreSound'
    BY <1>8 DEF MarkSent, RunnersAreSound, Miscounted, IsCurrent, Holds, Idle, Settle
  <2>6. QED
    BY <2>1, <2>2, <2>3, <2>4, <2>5, <1>0 DEF IInv
<1>9. ASSUME NEW w \in Workers, NEW e \in Events, MarkSentFails(w, e) PROVE IInv'
  <2>1. LocksAreSound'
    BY <1>9 DEF MarkSentFails, LocksAreSound, LiveLock, Holds
  <2>2. SingleHolder'
    BY <1>9 DEF MarkSentFails, SingleHolder, Holds
  <2>3. SentMeansHandled'
    BY <1>9 DEF MarkSentFails, SentMeansHandled
  <2>4. DeadletterMeansExhausted'
    BY <1>9 DEF MarkSentFails, DeadletterMeansExhausted, Miscounted, RunnersAreSound
  <2>5. RunnersAreSound'
    BY <1>9 DEF MarkSentFails, RunnersAreSound, Miscounted, IsCurrent, Holds, Idle
  <2>6. QED
    BY <2>1, <2>2, <2>3, <2>4, <2>5, <1>0 DEF IInv
<1>10. ASSUME NEW w \in Workers, NEW e \in Events, Reschedule(w, e) PROVE IInv'
  <2>1. LocksAreSound'
    BY <1>10 DEF Reschedule, LocksAreSound, LiveLock, Holds, Settle, IsCurrent
  <2>2. SingleHolder'
    BY <1>10 DEF Reschedule, SingleHolder, Holds, Settle, IsCurrent
  <2>3. SentMeansHandled'
    BY <1>10 DEF Reschedule, SentMeansHandled, Settle, IsCurrent
  <2>4. DeadletterMeansExhausted'
    BY <1>10 DEF Reschedule, DeadletterMeansExhausted, Miscounted, RunnersAreSound, Settle, IsCurrent
  <2>5. RunnersAreSound'
    BY <1>10 DEF Reschedule, RunnersAreSound, Miscounted, IsCurrent, Holds, Idle, Settle
  <2>6. QED
    BY <2>1, <2>2, <2>3, <2>4, <2>5, <1>0 DEF IInv
<1>11. ASSUME NEW w \in Workers, NEW e \in Events, MarkDead(w, e) PROVE IInv'
  <2>1. LocksAreSound'
    BY <1>11 DEF MarkDead, LocksAreSound, LiveLock, Holds, Settle, Exhausted, IsCurrent
  <2>2. SingleHolder'
    BY <1>11 DEF MarkDead, SingleHolder, Holds, Settle, Exhausted, IsCurrent
  <2>3. SentMeansHandled'
    BY <1>11 DEF MarkDead, SentMeansHandled, Settle, Exhausted, IsCurrent
  <2>4. DeadletterMeansExhausted'
    <3>1. MaxAttempts[TopicOf[e]] \in Nat
      BY OutboxAssumption DEF OutboxAssumption
    <3>2. Miscounted(e) \/ attempts[e] >= MaxAttempts[TopicOf[e]]
      BY <1>11, <3>1 DEF MarkDead, Exhausted, RunnersAreSound
    <3>3. QED
      BY <1>11, <3>2 DEF MarkDead, Settle, DeadletterMeansExhausted, Miscounted
  <2>5. RunnersAreSound'
    BY <1>11 DEF MarkDead, RunnersAreSound, Miscounted, IsCurrent, Holds, Idle, Settle, Exhausted
  <2>6. QED
    BY <2>1, <2>2, <2>3, <2>4, <2>5, <1>0 DEF IInv
<1>12. ASSUME NEW w \in Workers, Crash(w) PROVE IInv'
  <2>1. LocksAreSound'
    <3>1. \A f \in Events : LiveLock(f) => LiveLock(f)' \/ f \in orphaned'
      BY <1>12 DEF Crash, LiveLock, Holds
    <3>2. NoWorker # w
      BY OutboxAssumption DEF OutboxAssumption
    <3>3. QED
      BY <1>12, <3>1, <3>2 DEF Crash, LocksAreSound
  <2>2. SingleHolder'
    BY <1>12 DEF Crash, SingleHolder, Holds, EmptyBatch, Idle, LiveLock
  <2>3. SentMeansHandled'
    BY <1>12 DEF Crash, SentMeansHandled, EmptyBatch, Idle, LiveLock
  <2>4. DeadletterMeansExhausted'
    BY <1>12 DEF Crash, DeadletterMeansExhausted, Miscounted, RunnersAreSound, EmptyBatch, Idle, LiveLock
  <2>5. RunnersAreSound'
    BY <1>12 DEF Crash, RunnersAreSound, Miscounted, IsCurrent, Holds, Idle, EmptyBatch, LiveLock
  <2>6. QED
    BY <2>1, <2>2, <2>3, <2>4, <2>5, <1>0 DEF IInv
<1>13. CASE UNCHANGED vars
  BY <1>13, <1>0 DEF vars, LocksAreSound, LiveLock, SingleHolder, Holds, SentMeansHandled,
                   DeadletterMeansExhausted, Miscounted, RunnersAreSound, IsCurrent, Idle, IInv
<1>14. QED
  BY <1>1, <1>2, <1>3, <1>4, <1>5, <1>6, <1>7, <1>8, <1>9, <1>10, <1>11, <1>12, <1>13
  DEF Next, ClaimSome, HandleNext, SettleNext

\* The lock discipline and what is recorded of handlers, together.
THEOREM InvariantCorrect == Spec => []IInv
<1>1. Init => IInv
  BY BoundsAreNat DEF Init, IInv, TypeOK, Statuses, Phases, EmptyBatch, LocksAreSound, LiveLock,
     SingleHolder, Holds, SentMeansHandled, DeadletterMeansExhausted, Miscounted, RunnersAreSound,
     IsCurrent, Idle
<1>2. QED
  BY <1>1, InvariantStep, PTL DEF Spec

\* locked_by, status and the runners' batches agree, so the lock timeout is
\* needed for the locks of dead runners alone.
THEOREM LocksStaySound == Spec => []LocksAreSound
BY InvariantCorrect, PTL DEF IInv

\* Without a lock taken from a live runner no two runners work on one event.
THEOREM HolderIsUnique == Spec => []SingleHolder
BY InvariantCorrect, PTL DEF IInv

\* markOutboxSent never runs ahead of a handler: an unhandled event is sent only
\* where a dispute, a refund or an operator's mark has stopped it.
THEOREM SentWasHandled == Spec => []SentMeansHandled
BY InvariantCorrect, PTL DEF IInv

\* markOutboxDead never runs before maxAttemptsForTopic claims of the event since its
\* attempts were last set to 0, unless they were while a runner was at work on it.
THEOREM DeadWasExhausted == Spec => []DeadletterMeansExhausted
BY InvariantCorrect, PTL DEF IInv

\* Only the other writers change a settled event, if its lock was never taken from a
\* live runner: a late runner would have to hold it, and the only holder of an event
\* is the runner that its lock names.
THEOREM SettledStays == Spec => SettledIsFinal
<1>1. ASSUME IInv, [Next]_vars, NEW e \in Events \ loose,
             status[e] \in {"sent", "deadletter"}, status'[e] # status[e]
      PROVE  OverwriteNext(e)
  <2> USE DEF IInv, TypeOK, table, memory
  <2>1. lockedBy[e] = NoWorker /\ NoWorker \notin Workers /\ e \notin stale
    BY <1>1, OutboxAssumption DEF LocksAreSound, OutboxAssumption
  <2>2. \A w \in Workers : ~Holds(w, e)
    BY <1>1, <2>1 DEF SingleHolder
  <2>3. ASSUME NEW w \in Workers, NEW S \in SUBSET Events, Claim(w, S) PROVE FALSE
    BY <1>1, <2>1, <2>3 DEF Claim, IsBatch, Claimable, StatusAfterRelease
  <2>4. ASSUME NEW w \in Workers, NEW f \in Events,
               MarkSent(w, f) \/ Reschedule(w, f) \/ MarkDead(w, f)
        PROVE  FALSE
    BY <1>1, <2>2, <2>4 DEF MarkSent, Reschedule, MarkDead, Settle, IsCurrent
  <2>5. ASSUME NEW f \in Events, Enqueue(f) PROVE FALSE
    BY <1>1, <2>5 DEF Enqueue
  <2>6. ASSUME NEW f \in Events, OverwriteNext(f) PROVE OverwriteNext(e)
    BY <1>1, <2>6, OverwriteSummary DEF Overwrite
  <2>7. ASSUME UNCHANGED status PROVE FALSE
    BY <1>1, <2>7
  <2>8. QED
    BY <1>1, <2>3, <2>4, <2>5, <2>6, <2>7
    DEF Next, ClaimSome, HandleNext, SettleNext, vars, BecomeDue, LockAges, HandlerReturns,
        HandlerThrows, MarkSentFails, Crash
<1>2. IInv /\ [Next]_vars =>
        [\A e \in Events \ loose :
           status[e] \in {"sent", "deadletter"} /\ status'[e] # status[e] => OverwriteNext(e)]_vars
  BY <1>1
<1>3. QED
  BY <1>2, InvariantCorrect, PTL DEF Spec, SettledIsFinal

-----------------------------------------------------------------------------
\* Every step of a reachable outbox is a step of the queue, or none.
LEMMA QueueStep == IInv /\ [Next]_vars => [Queue!Next]_(Queue!vars)
<1> SUFFICES ASSUME IInv, [Next]_vars PROVE [Queue!Next]_(Queue!vars)
  OBVIOUS
<1> DEFINE state == [e \in Events |-> IF status[e] \in {"pending", "processing"} THEN "queued"
                                     ELSE status[e]]
           takers == [e \in Events |-> {w \in Workers : Holds(w, e)}]
           same == state' = state /\ takers' = takers /\ handled' = handled /\ loose' = loose
<1> USE DEF IInv, TypeOK, table, memory, budgets, Statuses, Phases
<1>0. /\ same => UNCHANGED Queue!vars
      /\ Queue!Next => [Queue!Next]_(Queue!vars)
  BY DEF Queue!vars
<1>1. ASSUME NEW e \in Events, Enqueue(e) PROVE Queue!Put(e)
  BY <1>1 DEF Enqueue, Queue!Put, Holds
<1>2. ASSUME NEW e \in Events, OverwriteNext(e)
      PROVE  Queue!Requeue(e) \/ (Queue!Stop(e) /\ TopicOf[e] \in SteeredTopics)
  <2>1. PICK s \in {"pending", "sent"} : Overwrite(e, s) /\ (s = "sent" => Stop(e))
    BY <1>2, OverwriteSummary
  <2>2. /\ state' = [state EXCEPT ![e] = IF s = "pending" THEN "queued" ELSE s]
        /\ takers' = takers /\ handled' = handled /\ state[e] # "absent"
        /\ loose' = IF takers[e] # {} THEN loose \cup {e} ELSE loose
    BY <2>1 DEF Overwrite, Holds
  <2>3. QED
    BY <2>1, <2>2 DEF Queue!Requeue, Queue!Stop, Queue!LoosenIfTaken, Stop, Steer
<1>3. ASSUME NEW w \in Workers, NEW S \in SUBSET Events, Claim(w, S)
      PROVE  \E L \in SUBSET Events : Queue!Take(w, S, L)
  <2> DEFINE L == {f \in stale : LiveLock(f)}
  <2>1. \A f \in Events : ~Holds(w, f)
    BY <1>3 DEF Claim, Idle, EmptyBatch, Holds
  <2>2. \A f \in L : takers[f] # {} /\ state[f] = "queued"
    BY DEF LiveLock, LocksAreSound
  <2>3. \A f \in S : f \in Events /\ StatusAfterRelease[f] = "pending"
    BY <1>3 DEF Claim, IsBatch, Claimable
  <2>4. ASSUME NEW f \in S PROVE state[f] = "queued" /\ (takers[f] = {} \/ f \in loose \cup L)
    <3>1. status[f] = "pending" \/ f \in stale
      BY <2>3 DEF StatusAfterRelease
    <3>2. state[f] = "queued"
      BY <2>3, <3>1 DEF LocksAreSound
    <3>3. ASSUME NEW v \in Workers, Holds(v, f), f \notin loose PROVE f \in L
      <4>1. lockedBy[f] = v /\ v # NoWorker
        BY <2>3, <3>3, OutboxAssumption DEF SingleHolder, OutboxAssumption
      <4>2. QED
        BY <2>3, <3>1, <3>3, <4>1 DEF LocksAreSound, LiveLock
    <3>4. QED
      BY <2>3, <3>2, <3>3
  <2>5. takers' = [f \in Events |-> IF f \in S THEN takers[f] \cup {w} ELSE takers[f]]
    <3>1. \A v \in Workers, f \in Events :
            Holds(v, f)' <=> IF v = w THEN f \in S ELSE Holds(v, f)
      BY <1>3 DEF Claim, Holds
    <3>2. ASSUME NEW f \in Events
          PROVE  {v \in Workers : Holds(v, f)'} =
                   IF f \in S THEN takers[f] \cup {w} ELSE takers[f]
      BY <2>1, <3>1
    <3>3. QED
      BY <3>2
  <2>6. state' = state
    <3>1. ASSUME NEW f \in Events
          PROVE  (status'[f] \in {"pending", "processing"}) <=> (status[f] \in {"pending", "processing"})
      BY <1>3, <2>3 DEF Claim, StatusAfterRelease, LocksAreSound
    <3>2. ASSUME NEW f \in Events, status[f] \notin {"pending", "processing"}
          PROVE  status'[f] = status[f]
      BY <1>3, <2>3, <3>2 DEF Claim, StatusAfterRelease, LocksAreSound
    <3>3. QED
      BY <3>1, <3>2
  <2>7. handled' = handled /\ loose' = loose \cup L
    BY <1>3 DEF Claim
  <2>8. QED
    BY <2>1, <2>2, <2>4, <2>5, <2>6, <2>7 DEF Queue!Take
<1>4. ASSUME NEW w \in Workers, NEW e \in Events, HandlerReturns(w, e) PROVE Queue!Handle(w, e)
  BY <1>4 DEF HandlerReturns, IsCurrent, Queue!Handle, Holds
<1>5. ASSUME NEW w \in Workers, NEW e \in Events,
             MarkSent(w, e) \/ Reschedule(w, e) \/ MarkDead(w, e)
      PROVE  \E s \in {"queued", "sent", "deadletter"} : Queue!PutDown(w, e, s)
  <2>1. Holds(w, e)
    BY <1>5 DEF MarkSent, Reschedule, MarkDead, IsCurrent
  <2>2. PICK s \in {"pending", "sent", "deadletter"} : Settle(w, e, s) /\ (s = "sent" => e \in handled)
    BY <1>5 DEF MarkSent, Reschedule, MarkDead, RunnersAreSound
  <2>3. e \notin loose => state[e] = "queued" /\ takers[e] = {w}
    BY <2>1, OutboxAssumption DEF SingleHolder, LocksAreSound, OutboxAssumption
  <2>4. takers' = [takers EXCEPT ![e] = @ \ {w}]
    <3>1. \A v \in Workers, f \in Events : Holds(v, f)' <=> Holds(v, f) /\ ~(v = w /\ f = e)
      BY <2>2 DEF Settle, Holds
    <3>2. QED
      BY <3>1
  <2>5. state' = [state EXCEPT ![e] = IF s = "pending" THEN "queued" ELSE s]
    BY <2>2 DEF Settle
  <2>6. handled' = handled /\ loose' = loose
    BY <2>2 DEF Settle
  <2>7. QED
    BY <2>1, <2>2, <2>3, <2>4, <2>5, <2>6 DEF Queue!PutDown
<1>6. ASSUME NEW w \in Workers, Crash(w) PROVE Queue!Die(w)
  <2>1. \A v \in Workers, f \in Events : Holds(v, f)' <=> Holds(v, f) /\ v # w
    BY <1>6 DEF Crash, Holds, EmptyBatch
  <2>2. takers' = [f \in Events |-> takers[f] \ {w}]
    BY <2>1
  <2>3. QED
    BY <1>6, <2>2 DEF Crash, Queue!Die
<1>7. ASSUME NEW e \in Events, BecomeDue(e) \/ LockAges(e) PROVE same
  BY <1>7 DEF BecomeDue, LockAges, Holds
<1>8. ASSUME NEW w \in Workers, NEW e \in Events, HandlerThrows(w, e) \/ MarkSentFails(w, e)
      PROVE  same
  BY <1>8 DEF HandlerThrows, MarkSentFails, Holds
<1>9. CASE UNCHANGED vars
  BY <1>9, <1>0 DEF vars, Holds
<1>10. QED
  BY <1>0, <1>1, <1>2, <1>3, <1>4, <1>5, <1>6, <1>7, <1>8, <1>9
  DEF Next, ClaimSome, HandleNext, SettleNext, Queue!Next

\* The outbox implements LeaseQueue, with every writer of its table: hidden behind
\* rows, batches, attempts and clocks its users find that queue, whose events other
\* code may requeue and, on the topics it steers, stop.
THEOREM OutboxImplementsQueue == Spec => ImplementsLeaseQueue
<1>1. Init => Queue!Init
  BY DEF Init, Queue!Init, Holds, EmptyBatch
<1>2. QED
  BY <1>1, QueueStep, InvariantCorrect, PTL DEF Spec, ImplementsLeaseQueue, Queue!Spec
=============================================================================
