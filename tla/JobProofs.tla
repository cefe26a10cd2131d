------------------------------- MODULE JobProofs -------------------------------
(***************************************************************************)
(* Theorems about JobLifecycle: leases, payouts, idempotency keys and the  *)
(* wait for verification, for any number of jobs, workers, keys, requests  *)
(* and handler runs and whatever the bounds.                               *)
(*                                                                         *)
(* submit and verdict write back a row they read before, so each property  *)
(* rests on what such a write cannot do: it never leaves a job open or     *)
(* claimed, so leases are leaseJob's and releaseJobLease's alone; and if   *)
(* the row is still the one it read, no event was ended in between, so the *)
(* event it enqueued is still to come.                                     *)
(***************************************************************************)
EXTENDS JobStepProofs

-----------------------------------------------------------------------------
(* The leases *)

\* When the clock moves on and leases are given back, no lease becomes live.
LEMMA LiveLeasesShrink ==
  ASSUME NEW e \in Nat, NEW f \in Nat, NEW g \in Nat, NEW G, NEW K, e <= f, G \subseteq K
  PROVE  (f + 1 .. g) \ K \subseteq (e + 1 .. g) \ G
  OBVIOUS

\* The leases: the unexpired ones of a job stay the one its row names, and a
\* worker's jobs under unexpired leases stay one. A new lease is granted only for
\* a job that has no live one, to a worker who has no such job.
LEMMA LeasesHold ==
  ASSUME JobTypes, LeaseTypes, LeaseTypes', JobTypes', LeaseKept, LeaseExclusive,
         OneLiveClaim, JobMoves, LeaseMoves
  PROVE  LeaseKept' /\ LeaseExclusive' /\ OneLiveClaim'
<1> USE JobAssumption DEF JobAssumption, LeaseTypes
<1>1. CASE UNCHANGED granted
  <2>1. \A l \in 1 .. granted : grant'[l] = grant[l]
    BY DEF LeaseMoves
  <2>2. \A j \in Jobs : LiveLeases(j)' \subseteq LiveLeases(j)
    BY <1>1, <2>1 DEF LeaseMoves, LiveLeases
  <2>3. LeaseExclusive'
    <3>1. (expired' + 1 .. granted') \ given' \subseteq (expired + 1 .. granted) \ given
      <4>1. granted' = granted /\ expired' \in Nat /\ expired \in Nat /\ granted \in Nat
        BY <1>1
      <4>2. expired <= expired' /\ given \subseteq given'
        BY DEF LeaseMoves
      <4> DEFINE f == expired'  K == given'
      <4>3. (f + 1 .. granted) \ K \subseteq (expired + 1 .. granted) \ given
        <5>1. f \in Nat /\ expired <= f /\ given \subseteq K
          BY <4>1, <4>2
        <5> HIDE DEF f, K, LeaseTypes
        <5> QED BY <4>1, <5>1, LiveLeasesShrink
      <4> QED BY <4>1, <4>3
    <3>2. \A l \in (expired + 1 .. granted) \ given : grant'[l] = grant[l]
      BY <2>1
    <3> QED BY <3>1, <3>2 DEF LeaseExclusive
  <2>4. ASSUME NEW j \in Jobs
        PROVE  \/ job'[j] = job[j]
               \/ job'[j].status \notin {"open", "claimed"} /\ job'[j].lease <= granted
               \/ Released(j)
    <3>1. \A w \in Workers : ~Leased(w, j)
      BY <1>1 DEF Leased
    <3> QED BY <3>1 DEF JobMoves
  <2>5. \A j \in Jobs : job'[j].status = "claimed" => job'[j] = job[j]
    BY <2>4 DEF Released
  <2>6. ASSUME NEW j \in Jobs, Released(j) PROVE LiveLeases(j)' = {}
    <3>1. LiveLeases(j) \subseteq {job[j].lease}
      BY <2>6 DEF Released, LeaseKept
    <3>2. job[j].lease \in given'
      BY <2>6 DEF Released
    <3>3. job[j].lease \notin LiveLeases(j)'
      BY <3>2 DEF LiveLeases
    <3> QED BY <2>2, <3>1, <3>3
  <2>7. LeaseKept'
    BY <1>1, <2>2, <2>4, <2>5, <2>6 DEF LeaseKept, Released
  <2>8. \A j \in Jobs : job'[j].status = "claimed" =>
          Holder(j)' = Holder(j) /\ (Live(job[j].lease)' => Live(job[j].lease))
    <3>1. \A j \in Jobs : job[j].status = "claimed" => job[j].lease \in 1 .. granted
      BY DEF LeaseKept, JobTypes, Job
    <3> QED BY <2>1, <2>5, <3>1 DEF Holder, Live, LeaseMoves
  <2>9. OneLiveClaim'
    BY <2>5, <2>8 DEF OneLiveClaim, Live
  <2> QED BY <2>3, <2>7, <2>9
<1>2. ASSUME NEW w \in Workers, NEW j \in Jobs, Leased(w, j)
      PROVE  LeaseKept' /\ LeaseExclusive' /\ OneLiveClaim'
  <2>1. \A l \in 1 .. granted : grant'[l] = grant[l]
    BY DEF LeaseMoves
  <2>2. LiveLeases(j) = {}
    BY <1>2 DEF Leased, Leasable, LeaseKept, LiveLeases, Live
  <2>3. \A i \in Jobs \ {j} : LiveLeases(i)' = LiveLeases(i)
    BY <1>2, <2>1 DEF Leased, LiveLeases
  <2>4. LiveLeases(j)' = {granted + 1}
    BY <1>2, <2>1, <2>2 DEF Leased, LiveLeases
  <2>5. LeaseKept'
    <3>1. job'[j].status = "claimed" /\ job'[j].lease = granted + 1 /\ granted' = granted + 1
      BY <1>2 DEF Leased
    <3>2. \A i \in Jobs \ {j} : job'[i] = job[i] /\ job[i].lease \in 0 .. MaxLeases
      BY <1>2 DEF Leased, JobTypes, Job
    <3> QED BY <2>3, <2>4, <3>1, <3>2 DEF LeaseKept
  <2>6. LeaseExclusive'
    BY <1>2, <2>1, <2>2 DEF Leased, LiveLeases, LeaseExclusive
  <2>7. ASSUME NEW i \in Jobs \ {j}, job'[i].status = "claimed", Live(job[i].lease)'
        PROVE  /\ job[i].status = "claimed" /\ Live(job[i].lease) /\ Holder(i)' = Holder(i)
               /\ Holder(i) # w
    <3>1. job'[i] = job[i] /\ UNCHANGED expired
      BY <1>2 DEF Leased
    <3>2. job[i].lease \in 1 .. granted
      BY <2>7, <3>1 DEF LeaseKept, JobTypes, Job
    <3>3. ~Active(w, i)
      BY <1>2 DEF Leased, FreeToLease
    <3> QED BY <2>1, <2>7, <3>1, <3>2, <3>3 DEF Holder, Live, Active
  <2>8. Holder(j)' = w
    BY <1>2 DEF Leased, Holder
  <2>9. OneLiveClaim'
    BY <2>7, <2>8 DEF OneLiveClaim
  <2> QED BY <2>5, <2>6, <2>9
<1> QED BY <1>1, <1>2 DEF LeaseMoves
-----------------------------------------------------------------------------
(* Events, requests and runs *)

\* An event has its verification, and a claimed or finished verification its
\* event.
LEMMA EventsKnownStep ==
  WorkTypes /\ SubTypes /\ ReqTypes /\ RunTypes /\ EventsKnown /\ RequestsKnown /\ RunsKnown /\
  NextKnown /\ [Next]_vars
    => EventsKnown'
<1> SUFFICES ASSUME WorkTypes, SubTypes, ReqTypes, RunTypes, EventsKnown, RequestsKnown, RunsKnown,
                    NextKnown, [Next]_vars
             PROVE  EventsKnown'
  OBVIOUS
<1> USE JobAssumption DEF leasing, subs, work, budgets, admin, history, paying, JobAssumption, WorkTypes,
   EventsKnown,
          Verification, Queued, Finished
<1>1. CASE UNCHANGED <<inserted, ver, event>>
  BY <1>1
<1>2. ASSUME NEW r \in Requests, SubmitInserts(r) PROVE EventsKnown'
  <2>1. inserted' = inserted + 1 /\ inserted \in Nat /\ UNCHANGED <<ver, event>>
    BY <1>2 DEF SubmitInserts, SubTypes
  <2>2. \A x \in Subs \X Attempts : x[1] \in Nat
    BY DEF Subs
  <2> QED BY <2>1, <2>2
<1>3. ASSUME NEW r \in Requests, SubmitAddsVerification(r) PROVE EventsKnown'
  BY <1>3 DEF SubmitAddsVerification
<1>4. ASSUME NEW r \in Requests, SubmitEnqueues(r) PROVE EventsKnown'
  <2>1. req[r].sub \in 1 .. inserted /\ ver[<<req[r].sub, 1>>].status # "none"
    BY <1>4 DEF SubmitEnqueues, RequestsKnown, RequestKnown
  <2> QED BY <1>4, <2>1 DEF SubmitEnqueues, EnqueueVerification
<1>5. ASSUME NEW v \in Verifiers, NEW x \in Subs \X Attempts, VerifierClaim(v, x) PROVE EventsKnown'
  BY <1>5 DEF VerifierClaim, At, Overrun, RunAt
<1>6. ASSUME NEW v \in Verifiers, NEW x \in Subs \X Attempts, VerifierClaimRefused(v, x)
      PROVE  EventsKnown'
  BY <1>6 DEF VerifierClaimRefused, At
<1>7. ASSUME NEW x \in Subs \X Attempts, ClaimExpires(x) PROVE EventsKnown'
  BY <1>7 DEF ClaimExpires, Overrun
<1>8. ASSUME NEW v \in Verifiers, NEW verdict \in Verdicts, Judge(v, verdict) PROVE EventsKnown'
  <2>1. event[Item(v)] # "absent" /\ Item(v) \in Subs \X Attempts
    BY <1>8, ItemTyped DEF Judge, At, RunsKnown, RunKnown
  <2> HIDE DEF Item
  <2> QED BY <1>8, <2>1 DEF Judge
<1>9. ASSUME NEW v \in Verifiers, VerdictRefused(v) PROVE EventsKnown'
  <2>1. event[Item(v)] # "absent" /\ Item(v) \in Subs \X Attempts
    BY <1>9, ItemTyped DEF VerdictRefused, At, RunsKnown, RunKnown
  <2> QED BY <1>9, <2>1 DEF VerdictRefused
<1>10. ASSUME NEW v \in Verifiers, Extend(v) PROVE EventsKnown'
  BY <1>10 DEF Extend, At
<1>11. ASSUME NEW v \in Verifiers, EnqueueNext(v) PROVE EventsKnown'
  <2>1. run[v].sub \in Subs /\ run[v].sub <= inserted /\ run[v].next \in Attempts
        /\ ver[<<run[v].sub, run[v].next>>].status # "none"
    BY <1>11, ItemTyped DEF EnqueueNext, At, RunsKnown, RunKnown, NextKnown, NextOwn
  <2> DEFINE x == <<run[v].sub, run[v].next>>
  <2>2. x \in Subs \X Attempts /\ x[1] <= inserted /\ ver[x].status # "none"
    BY <2>1
  <2>3. EnqueueVerification(x) /\ UNCHANGED <<ver, inserted>>
    BY <1>11 DEF EnqueueNext
  <2> HIDE DEF x
  <2> QED BY <2>2, <2>3 DEF EnqueueVerification
<1>12. ASSUME NEW v \in Verifiers, HandlerReturns(v) PROVE EventsKnown'
  <2>1. event[Item(v)] # "absent" /\ Item(v) \in Subs \X Attempts
    BY <1>12, ItemTyped DEF HandlerReturns, At, RunsKnown, RunKnown
  <2> QED BY <1>12, <2>1 DEF HandlerReturns
<1>13. ASSUME NEW v \in Verifiers, HandlerFails(v) PROVE EventsKnown'
  <2>1. event[Item(v)] # "absent" /\ Item(v) \in Subs \X Attempts
    BY <1>13, ItemTyped DEF HandlerFails, At, RunsKnown, RunKnown
  <2> QED BY <1>13, <2>1 DEF HandlerFails
<1>14. ASSUME NEW x \in Subs \X Attempts, RequeueVerification(x) PROVE EventsKnown'
  BY <1>14 DEF RequeueVerification
<1> QED
  BY <1>1, <1>2, <1>3, <1>4, <1>5, <1>6, <1>7, <1>8, <1>9, <1>10, <1>11, <1>12, <1>13, <1>14 DEF
     Next, SubmitStep, VerdictStep, ClaimSome, vars, ClaimRequest, LeaseJob, LeaseRefused,
     LeaseExpires, ReapExpiredLeases, ReleaseJobLease, SubmitRead, SubmitFindsEarlier, SubmitIsNew,
     SubmitConflicts, SubmitRefused, SubmitDuplicate, SubmitUpdatesJob, RequestDies, Score, Load,
     KeepVerifying, Close, AddPayout, RequestPayout, MarkDuplicate, OverrideVerdict, Mark, OverrideStep, OverrideLoads, OverrideCloses, OverrideAddsPayout, OverrideRequestsPayout, OverrideRegisters, OverrideDies

\* What is known of a request stays so while others work.
LEMMA RequestStays ==
  ASSUME ReqTypes, JobTypes, LeaseTypes, SubTypes, WorkTypes, RequestsKnown, JobMoves,
         LeaseMoves, SubMoves, WorkMoves, LeaseTypes', SubTypes', JobTypes',
         NEW r \in Requests, req'[r] = req[r]
  PROVE  RequestKnown(r)'
<1> SUFFICES ASSUME req[r].pc # "idle" PROVE RequestKnown(r)'
  BY DEF RequestKnown
<1>1. req[r] \in Request /\ req[r].job \in Jobs /\ req[r].snap \in Job
  BY RequestTyped
<1>2. RequestKnown(r)
  BY DEF RequestsKnown
<1>3. req[r].snap.lease \in 1 .. granted'
  <2>1. granted \in Nat /\ granted' \in Nat /\ granted <= granted'
    BY JobAssumption DEF LeaseTypes, LeaseMoves, JobAssumption
  <2> QED BY <1>2, <2>1 DEF RequestKnown
<1>4. req[r].snap.writes <= job'[req[r].job].writes
  <2>1. job[req[r].job].writes \in Nat /\ req[r].snap.writes \in Nat
    BY <1>1 DEF JobTypes, Job
  <2>2. job'[req[r].job].writes \in {job[req[r].job].writes, job[req[r].job].writes + 1}
    BY <1>1 DEF JobMoves
  <2> QED BY <1>2, <2>1, <2>2 DEF RequestKnown
<1>5. ASSUME req[r].pc \in {"inserted", "verifiable", "enqueued"}
      PROVE  req[r].sub \in 1 .. inserted' /\ sub'[req[r].sub].job = req[r].job
  <2>1. req[r].sub \in 1 .. inserted /\ sub[req[r].sub].job = req[r].job
    BY <1>2, <1>5 DEF RequestKnown
  <2>2. inserted \in Nat /\ inserted' \in Nat /\ inserted <= inserted'
    BY JobAssumption DEF SubTypes, SubMoves, JobAssumption
  <2> QED BY <2>1, <2>2 DEF SubMoves
<1>6. ASSUME req[r].pc \in {"verifiable", "enqueued"}
      PROVE  <<req[r].sub, 1>> \in Subs \X Attempts
  <2>1. req[r].sub \in 1 .. inserted /\ inserted \in 0 .. MaxSubs
    BY <1>2, <1>6 DEF RequestKnown, SubTypes
  <2> QED BY <2>1, JobAssumption DEF Subs, Attempts, JobAssumption
<1>7. /\ req[r].pc \in {"verifiable", "enqueued"} => ver'[<<req[r].sub, 1>>].status # "none"
      /\ req[r].pc = "enqueued" => event'[<<req[r].sub, 1>>] # "absent"
  BY <1>2, <1>6 DEF RequestKnown, WorkMoves
<1> QED BY <1>3, <1>4, <1>5, <1>7 DEF RequestKnown

\* What is known of the submit requests is kept by every step.
LEMMA RequestsKnownStep ==
  ASSUME ReqTypes, JobTypes, LeaseTypes, SubTypes, WorkTypes, LeaseKept, EventsKnown,
         RequestsKnown, JobMoves, LeaseMoves, SubMoves, WorkMoves, LeaseTypes', SubTypes',
         JobTypes', [Next]_vars
  PROVE  RequestsKnown'
<1> SUFFICES ASSUME NEW p \in Requests, req'[p] # req[p] PROVE RequestKnown(p)'
  BY RequestStays DEF RequestsKnown
<1> USE DEF leasing, subs, work, budgets, admin, history, paying
<1>1. CASE UNCHANGED <<req>>
  BY <1>1
<1>2. ASSUME NEW r \in Requests, NEW j \in Jobs, NEW k \in Keys, SubmitRead(r, j, k)
      PROVE  RequestKnown(p)'
  <2>1. r = p
    BY <1>2 DEF SubmitRead, ReqTypes, Answer
  <2>2. req'[p] = [pc |-> "read", job |-> j, snap |-> job[j], key |-> k, sub |-> 0, retry |-> FALSE]
    BY <1>2, <2>1 DEF SubmitRead, ReqTypes
  <2>3. job[j].lease \in 1 .. granted /\ UNCHANGED <<job, granted>> /\ job[j].writes \in Nat
    BY <1>2 DEF SubmitRead, LeaseKept, JobTypes, Job
  <2> QED BY <2>2, <2>3 DEF RequestKnown
<1>3. ASSUME NEW r \in Requests, SubmitFindsEarlier(r) PROVE RequestKnown(p)'
  <2>1. r = p
    BY <1>3 DEF SubmitFindsEarlier, ReqTypes, Answer
  <2>2. PICK s \in Earlier(p) : req' = [req EXCEPT ![p] = [req[p] EXCEPT !.pc = "inserted", !.sub = s, !.retry = TRUE]]
    BY <1>3, <2>1 DEF SubmitFindsEarlier
  <2>3. req[p] \in Request /\ req[p].pc # "idle"
    BY <1>3, <2>1, RequestTyped DEF SubmitFindsEarlier
  <2>4. req'[p] = [req[p] EXCEPT !.pc = "inserted", !.sub = s, !.retry = TRUE]
    BY <2>2 DEF ReqTypes
  <2>5. s \in 1 .. inserted /\ sub[s].job = req[p].job
    BY DEF Earlier
  <2> QED BY <1>3, <2>1, <2>3, <2>4, <2>5 DEF SubmitFindsEarlier, RequestsKnown, RequestKnown,
     Request
<1>4. ASSUME NEW r \in Requests, SubmitIsNew(r) PROVE RequestKnown(p)'
  <2>1. r = p
    BY <1>4 DEF SubmitIsNew, ReqTypes, Answer
  <2>2. req[p] \in Request /\ req[p].pc # "idle"
    BY <1>4, <2>1, RequestTyped DEF SubmitIsNew
  <2>3. req'[p] = [req[p] EXCEPT !.pc = "new"]
    BY <1>4, <2>1 DEF SubmitIsNew, ReqTypes
  <2>4. req'[p].pc = "new" /\ req'[p].job = req[p].job /\ req'[p].snap = req[p].snap
    BY <2>2, <2>3 DEF Request
  <2>5. RequestKnown(p) /\ UNCHANGED <<job, granted>>
    BY <1>4 DEF SubmitIsNew, RequestsKnown
  <2> QED BY <2>2, <2>4, <2>5 DEF RequestKnown
<1>5. ASSUME NEW r \in Requests, SubmitInserts(r) PROVE RequestKnown(p)'
  <2>1. r = p
    BY <1>5 DEF SubmitInserts, ReqTypes, Answer
  <2>2. req[p] \in Request /\ req[p].pc # "idle"
    BY <1>5, <2>1, RequestTyped DEF SubmitInserts
  <2>3. req'[p] = [req[p] EXCEPT !.pc = "inserted", !.sub = inserted + 1]
    BY <1>5, <2>1 DEF SubmitInserts, ReqTypes
  <2>4. inserted \in Nat /\ inserted' = inserted + 1 /\ sub'[inserted + 1].job = req[p].job
    BY <1>5, <2>1, SubmissionInserted
  <2>5. UNCHANGED <<job, granted>>
    BY <1>5 DEF SubmitInserts
  <2>6. req'[p].pc = "inserted" /\ req'[p].job = req[p].job /\ req'[p].snap = req[p].snap
        /\ req'[p].sub = inserted + 1
    BY <2>2, <2>3 DEF Request
  <2>7. inserted + 1 \in 1 .. inserted' /\ RequestKnown(p)
    BY <2>4 DEF RequestsKnown
  <2> QED BY <2>2, <2>4, <2>5, <2>6, <2>7 DEF RequestKnown
<1>6. ASSUME NEW r \in Requests, SubmitConflicts(r) PROVE RequestKnown(p)'
  <2>1. r = p
    BY <1>6 DEF SubmitConflicts, ReqTypes, Answer
  <2>2. req'[p].pc = "idle"
    BY <1>6, <2>1 DEF SubmitConflicts, Answer, ReqTypes, NoRequest
  <2> QED BY <2>2 DEF RequestKnown
<1>7. ASSUME NEW r \in Requests, SubmitRefused(r) PROVE RequestKnown(p)'
  <2>1. r = p
    BY <1>7 DEF SubmitRefused, ReqTypes, Answer
  <2>2. req'[p].pc = "idle"
    BY <1>7, <2>1 DEF SubmitRefused, Answer, ReqTypes, NoRequest
  <2> QED BY <2>2 DEF RequestKnown
<1>8. ASSUME NEW r \in Requests, SubmitDuplicate(r) PROVE RequestKnown(p)'
  <2>1. r = p
    BY <1>8 DEF SubmitDuplicate, ReqTypes, Answer
  <2>2. req'[p].pc = "idle"
    BY <1>8, <2>1 DEF SubmitDuplicate, Answer, ReqTypes, NoRequest
  <2> QED BY <2>2 DEF RequestKnown
<1>9. ASSUME NEW r \in Requests, SubmitAddsVerification(r) PROVE RequestKnown(p)'
  <2>1. r = p
    BY <1>9 DEF SubmitAddsVerification, ReqTypes, Answer
  <2>2. req[p] \in Request /\ req[p].pc # "idle" /\ req[p].pc = "inserted"
    BY <1>9, <2>1, RequestTyped DEF SubmitAddsVerification
  <2> DEFINE x == <<req[p].sub, 1>>
             pc == IF ver[x].status \in {"none", "queued"} THEN "verifiable" ELSE "enqueued"
  <2>3. req'[p] = [req[p] EXCEPT !.pc = pc]
    BY <1>9, <2>1 DEF SubmitAddsVerification, ReqTypes
  <2>4. x \in Subs \X Attempts
    <3>1. req[p].sub \in 1 .. inserted
      BY <2>2 DEF RequestsKnown, RequestKnown
    <3> QED BY <3>1, JobAssumption DEF SubTypes, Subs, Attempts, JobAssumption
  <2>5. ver' = IF ver[x].status = "none" THEN [ver EXCEPT ![x] = Queued] ELSE ver
    BY <1>9, <2>1 DEF SubmitAddsVerification
  <2>6. UNCHANGED <<job, granted, inserted, sub, event>>
    BY <1>9 DEF SubmitAddsVerification
  <2>7. RequestKnown(p) /\ ver[x] \in Verification
    BY <2>4 DEF RequestsKnown, WorkTypes
  <2>8. ver'[x].status # "none"
    BY <2>4, <2>5 DEF WorkTypes, Queued
  <2>9. pc = "enqueued" => event[x] # "absent"
    BY <2>4, <2>7 DEF EventsKnown, Verification
  <2>10. req'[p].pc = pc /\ pc \in {"verifiable", "enqueued"} /\ req'[p].job = req[p].job
         /\ req'[p].snap = req[p].snap /\ req'[p].sub = req[p].sub
    BY <2>2, <2>3 DEF Request
  <2> HIDE DEF pc
  <2> QED BY <2>2, <2>6, <2>7, <2>8, <2>9, <2>10 DEF RequestKnown
<1>10. ASSUME NEW r \in Requests, SubmitEnqueues(r) PROVE RequestKnown(p)'
  <2>1. r = p
    BY <1>10 DEF SubmitEnqueues, ReqTypes, Answer
  <2>2. req[p] \in Request /\ req[p].pc # "idle" /\ req[p].pc = "verifiable"
    BY <1>10, <2>1, RequestTyped DEF SubmitEnqueues
  <2> DEFINE x == <<req[p].sub, 1>>
  <2>3. req'[p] = [req[p] EXCEPT !.pc = "enqueued"]
    BY <1>10, <2>1 DEF SubmitEnqueues, ReqTypes
  <2>4. x \in Subs \X Attempts
    <3>1. req[p].sub \in 1 .. inserted
      BY <2>2 DEF RequestsKnown, RequestKnown
    <3> QED BY <3>1, JobAssumption DEF SubTypes, Subs, Attempts, JobAssumption
  <2>5. event'[x] # "absent"
    BY <1>10, <2>1, <2>4 DEF SubmitEnqueues, EnqueueVerification, WorkTypes
  <2>6. UNCHANGED <<job, granted, inserted, sub, ver>>
    BY <1>10 DEF SubmitEnqueues
  <2> QED BY <2>2, <2>3, <2>5, <2>6 DEF RequestsKnown, RequestKnown, Request
<1>11. ASSUME NEW r \in Requests, SubmitUpdatesJob(r) PROVE RequestKnown(p)'
  <2>1. r = p
    BY <1>11 DEF SubmitUpdatesJob, ReqTypes, Answer
  <2>2. req'[p].pc = "idle"
    BY <1>11, <2>1 DEF SubmitUpdatesJob, Answer, ReqTypes, NoRequest
  <2> QED BY <2>2 DEF RequestKnown
<1>12. ASSUME NEW r \in Requests, RequestDies(r) PROVE RequestKnown(p)'
  <2>1. r = p
    BY <1>12 DEF RequestDies, ReqTypes, Answer
  <2>2. req'[p].pc = "idle"
    BY <1>12, <2>1 DEF RequestDies, Answer, ReqTypes, NoRequest
  <2> QED BY <2>2 DEF RequestKnown
<1> QED
  BY <1>1, <1>2, <1>3, <1>4, <1>5, <1>6, <1>7, <1>8, <1>9, <1>10, <1>11, <1>12 DEF Next, SubmitStep,
     VerdictStep, ClaimSome, vars, ClaimRequest, LeaseJob, LeaseRefused, LeaseExpires,
     ReapExpiredLeases, ReleaseJobLease, VerifierClaim, VerifierClaimRefused, ClaimExpires, Judge,
     VerdictRefused, Score, Load, Extend, EnqueueNext, KeepVerifying, Close, AddPayout,
     RequestPayout, HandlerReturns, HandlerFails, RequeueVerification, MarkDuplicate, OverrideVerdict, Mark, OverrideStep, OverrideLoads, OverrideCloses, OverrideAddsPayout, OverrideRequestsPayout, OverrideRegisters, OverrideDies

\* What is known of a run stays so while others work, and when it goes on with
\* the same event.
LEMMA RunGoesOn ==
  ASSUME RunTypes, JobTypes, LeaseTypes, SubTypes, WorkTypes, RunsKnown, JobMoves,
         LeaseMoves, SubMoves, WorkMoves, LeaseTypes', SubTypes', JobTypes',
         NEW v \in Verifiers, run[v].pc # "idle",
         run'[v].sub = run[v].sub, run'[v].attempt = run[v].attempt, run'[v].snap \in
         {run[v].snap, NoJob}
  PROVE  RunKnown(v)'
<1>1. run[v].sub \in Subs /\ Item(v) \in Subs \X Attempts /\ run[v].snap \in Job
  BY ItemTyped
<1>2. RunKnown(v)
  BY DEF RunsKnown
<1>3. /\ run[v].sub \in 1 .. inserted /\ run[v].sub <= inserted'
      /\ sub'[run[v].sub].job = sub[run[v].sub].job /\ sub[run[v].sub].job \in Jobs
  <2>1. inserted \in Nat /\ inserted' \in Nat /\ inserted <= inserted'
    BY JobAssumption DEF SubTypes, SubMoves, JobAssumption
  <2>2. run[v].sub \in 1 .. inserted
    BY <1>1, <1>2, <2>1 DEF RunKnown, Subs
  <2> QED BY <2>1, <2>2 DEF SubMoves, SubTypes, Submission
<1>4. run'[v].snap.lease <= granted'
  <2>1. granted \in Nat /\ granted' \in Nat /\ granted <= granted'
    BY JobAssumption DEF LeaseTypes, LeaseMoves, JobAssumption
  <2>2. run[v].snap.lease <= granted /\ run[v].snap.lease \in Nat /\ NoJob.lease = 0
    BY <1>1, <1>2, JobAssumption DEF RunKnown, Job, NoJob, JobAssumption
  <2> QED BY <2>1, <2>2
<1>5. run'[v].snap.writes <= job'[sub'[run'[v].sub].job].writes
  <2> DEFINE j == sub[run[v].sub].job
  <2>1. job[j].writes \in Nat /\ run[v].snap.writes \in Nat /\ NoJob.writes = 0
    BY <1>1, <1>3 DEF JobTypes, Job, NoJob
  <2>2. job'[j].writes \in {job[j].writes, job[j].writes + 1}
    BY <1>3 DEF JobMoves
  <2>3. run[v].snap.writes <= job[j].writes
    BY <1>2 DEF RunKnown
  <2> QED BY <1>3, <2>1, <2>2, <2>3
<1>6. event'[Item(v)'] # "absent"
  BY <1>1, <1>2 DEF RunKnown, WorkMoves, Item
<1> QED BY <1>3, <1>4, <1>5, <1>6 DEF RunKnown

\* What is known of the handler runs is kept by every step.
LEMMA RunsKnownStep ==
  ASSUME RunTypes, JobTypes, LeaseTypes, SubTypes, WorkTypes, LeaseKept, EventsKnown,
         RunsKnown, JobMoves, LeaseMoves, SubMoves, WorkMoves, LeaseTypes', SubTypes',
         JobTypes', [Next]_vars
  PROVE  RunsKnown'
<1> SUFFICES ASSUME NEW p \in Verifiers, run'[p] # run[p] PROVE RunKnown(p)'
  <2>1. ASSUME NEW p \in Verifiers, run'[p] = run[p] PROVE RunKnown(p)'
    <3>1. CASE run[p].pc = "idle"
      BY <2>1, <3>1 DEF RunKnown
    <3>2. CASE run[p].pc # "idle"
      BY <2>1, <3>2, RunGoesOn
    <3> QED BY <3>1, <3>2
  <2> QED BY <2>1 DEF RunsKnown
<1> USE DEF leasing, subs, work, budgets, admin, history, paying
<1>1. CASE UNCHANGED <<run>>
  BY <1>1
<1>2. ASSUME NEW v \in Verifiers, NEW x \in Subs \X Attempts, VerifierClaim(v, x) PROVE RunKnown(p)'
  <2>1. v = p
    BY <1>2 DEF VerifierClaim, RunTypes
  <2>2. run'[p] = RunAt("claimed", x)
    BY <1>2, <2>1 DEF VerifierClaim, RunTypes
  <2>3. /\ run'[p].sub = x[1] /\ run'[p].attempt = x[2] /\ run'[p].snap.lease = 0
        /\ run'[p].snap.writes = 0
    BY <2>2 DEF RunAt, NoJob
  <2>4. event[x] = "queued" /\ UNCHANGED <<job, granted, sub, inserted, event>>
    BY <1>2 DEF VerifierClaim
  <2>5. x[1] \in 1 .. inserted
    BY <2>4 DEF EventsKnown, Subs, SubTypes
  <2>6. sub[x[1]].job \in Jobs
    BY <2>5 DEF SubTypes, Submission
  <2>7. 0 <= granted /\ 0 <= job[sub[x[1]].job].writes
    BY <2>6, JobAssumption DEF LeaseTypes, JobTypes, Job, JobAssumption
  <2>8. <<x[1], x[2]>> = x
    OBVIOUS
  <2> QED BY <2>3, <2>4, <2>5, <2>7, <2>8 DEF RunKnown, Item
<1>3. ASSUME NEW v \in Verifiers, NEW verdict \in Verdicts, Judge(v, verdict) PROVE RunKnown(p)'
  <2>1. v = p
    BY <1>3 DEF Judge, RunTypes
  <2>2. run[p] \in Run /\ run[p].pc # "idle"
    BY <1>3, <2>1, ItemTyped DEF Judge, At
  <2>3. run'[p] = [run[p] EXCEPT !.pc = "judged", !.verdict = verdict]
    BY <1>3, <2>1 DEF Judge, RunTypes
  <2>4. run'[p].sub = run[p].sub /\ run'[p].attempt = run[p].attempt /\ run'[p].snap = run[p].snap
    BY <2>2, <2>3 DEF Run
  <2> QED BY <2>2, <2>4, RunGoesOn
<1>4. ASSUME NEW v \in Verifiers, VerdictRefused(v) PROVE RunKnown(p)'
  <2>1. v = p
    BY <1>4 DEF VerdictRefused, RunTypes
  <2>2. run'[p].pc = "idle"
    BY <1>4, <2>1 DEF VerdictRefused, RunTypes, NoRun
  <2> QED BY <2>2 DEF RunKnown
<1>5. ASSUME NEW v \in Verifiers, Score(v) PROVE RunKnown(p)'
  <2>1. v = p
    BY <1>5 DEF Score, RunTypes
  <2>2. run[p] \in Run /\ run[p].pc # "idle"
    BY <1>5, <2>1, ItemTyped DEF Score, At
  <2>3. run'[p] = [run[p] EXCEPT !.pc = "scored"]
    BY <1>5, <2>1 DEF Score, RunTypes
  <2>4. run'[p].sub = run[p].sub /\ run'[p].attempt = run[p].attempt /\ run'[p].snap = run[p].snap
    BY <2>2, <2>3 DEF Run
  <2> QED BY <2>2, <2>4, RunGoesOn
<1>6. ASSUME NEW v \in Verifiers, Load(v) PROVE RunKnown(p)'
  <2>1. v = p
    BY <1>6 DEF Load, RunTypes
  <2>2. run[p] \in Run /\ run[p].pc # "idle" /\ run[p].sub \in Subs
    BY <1>6, <2>1, ItemTyped DEF Load, At
  <2> DEFINE j == sub[run[p].sub].job
  <2>3. run'[p] = [run[p] EXCEPT !.pc = "loaded", !.snap = job[j]]
    BY <1>6, <2>1 DEF Load, RunTypes
  <2>4. run'[p].sub = run[p].sub /\ run'[p].attempt = run[p].attempt /\ run'[p].snap = job[j]
    BY <2>2, <2>3 DEF Run
  <2>5. RunKnown(p) /\ UNCHANGED <<job, granted, sub, inserted, event>>
    BY <1>6 DEF Load, RunsKnown, leasing, subs, work
  <2>6. j \in Jobs
    BY <2>2, <2>5 DEF RunKnown, SubTypes, Submission, Subs
  <2>7. job[j].lease <= granted /\ job[j].writes \in Nat
    BY <2>6 DEF LeaseKept, JobTypes, Job
  <2> QED BY <2>2, <2>4, <2>5, <2>7 DEF RunKnown, Item
<1>7. ASSUME NEW v \in Verifiers, Extend(v) PROVE RunKnown(p)'
  <2>1. v = p
    BY <1>7 DEF Extend, RunTypes
  <2>2. run[p] \in Run /\ run[p].pc # "idle"
    BY <1>7, <2>1, ItemTyped DEF Extend, At
  <2>3. run'[p] = [run[p] EXCEPT !.pc = "extended", !.next = LastAttempt(run[p].sub) + 1]
    BY <1>7, <2>1 DEF Extend, RunTypes
  <2>4. run'[p].sub = run[p].sub /\ run'[p].attempt = run[p].attempt /\ run'[p].snap = run[p].snap
    BY <2>2, <2>3 DEF Run
  <2> QED BY <2>2, <2>4, RunGoesOn
<1>8. ASSUME NEW v \in Verifiers, EnqueueNext(v) PROVE RunKnown(p)'
  <2>1. v = p
    BY <1>8 DEF EnqueueNext, RunTypes
  <2>2. run[p] \in Run /\ run[p].pc # "idle"
    BY <1>8, <2>1, ItemTyped DEF EnqueueNext, At
  <2>3. run'[p] = [run[p] EXCEPT !.pc = "enqueued"]
    BY <1>8, <2>1 DEF EnqueueNext, RunTypes
  <2>4. run'[p].sub = run[p].sub /\ run'[p].attempt = run[p].attempt /\ run'[p].snap = run[p].snap
    BY <2>2, <2>3 DEF Run
  <2> QED BY <2>2, <2>4, RunGoesOn
<1>9. ASSUME NEW v \in Verifiers, KeepVerifying(v) PROVE RunKnown(p)'
  <2>1. v = p
    BY <1>9 DEF KeepVerifying, RunTypes
  <2>2. run[p].pc # "idle" /\ Item(p) \in Subs \X Attempts
    BY <1>9, <2>1, ItemTyped DEF KeepVerifying, At
  <2>3. run'[p] \in {Answered(p), [Answered(p) EXCEPT !.pc = "closed"]}
    BY <1>9, <2>1 DEF KeepVerifying, RunTypes
  <2>4. run'[p].sub = run[p].sub /\ run'[p].attempt = run[p].attempt /\ run'[p].snap = NoJob
    BY <2>3 DEF Answered, RunAt, Item
  <2> QED BY <2>2, <2>4, RunGoesOn
<1>10. ASSUME NEW v \in Verifiers, Close(v) PROVE RunKnown(p)'
  <2>1. v = p
    BY <1>10 DEF Close, RunTypes
  <2>2. run[p].pc # "idle" /\ Item(p) \in Subs \X Attempts
    BY <1>10, <2>1, ItemTyped DEF Close, At
  <2>3. run'[p] \in {Answered(p), [Answered(p) EXCEPT !.pc = "closed"]}
    BY <1>10, <2>1 DEF Close, RunTypes
  <2>4. run'[p].sub = run[p].sub /\ run'[p].attempt = run[p].attempt /\ run'[p].snap = NoJob
    BY <2>3 DEF Answered, RunAt, Item
  <2> QED BY <2>2, <2>4, RunGoesOn
<1>11. ASSUME NEW v \in Verifiers, AddPayout(v) PROVE RunKnown(p)'
  <2>1. v = p
    BY <1>11 DEF AddPayout, RunTypes
  <2>2. run[p] \in Run /\ run[p].pc # "idle"
    BY <1>11, <2>1, ItemTyped DEF AddPayout, At
  <2>3. run'[p] = [run[p] EXCEPT !.pc = "payable"]
    BY <1>11, <2>1 DEF AddPayout, RunTypes
  <2>4. run'[p].sub = run[p].sub /\ run'[p].attempt = run[p].attempt /\ run'[p].snap = run[p].snap
    BY <2>2, <2>3 DEF Run
  <2> QED BY <2>2, <2>4, RunGoesOn
<1>12. ASSUME NEW v \in Verifiers, RequestPayout(v) PROVE RunKnown(p)'
  <2>1. v = p
    BY <1>12 DEF RequestPayout, RunTypes
  <2>2. run[p] \in Run /\ run[p].pc # "idle"
    BY <1>12, <2>1, ItemTyped DEF RequestPayout, At
  <2>3. run'[p] = [run[p] EXCEPT !.pc = "answered"]
    BY <1>12, <2>1 DEF RequestPayout, RunTypes
  <2>4. run'[p].sub = run[p].sub /\ run'[p].attempt = run[p].attempt /\ run'[p].snap = run[p].snap
    BY <2>2, <2>3 DEF Run
  <2> QED BY <2>2, <2>4, RunGoesOn
<1>13. ASSUME NEW v \in Verifiers, HandlerReturns(v) PROVE RunKnown(p)'
  <2>1. v = p
    BY <1>13 DEF HandlerReturns, RunTypes
  <2>2. run'[p].pc = "idle"
    BY <1>13, <2>1 DEF HandlerReturns, RunTypes, NoRun
  <2> QED BY <2>2 DEF RunKnown
<1>14. ASSUME NEW v \in Verifiers, HandlerFails(v) PROVE RunKnown(p)'
  <2>1. v = p
    BY <1>14 DEF HandlerFails, RunTypes
  <2>2. run'[p].pc = "idle"
    BY <1>14, <2>1 DEF HandlerFails, RunTypes, NoRun
  <2> QED BY <2>2 DEF RunKnown
<1> QED
  BY <1>1, <1>2, <1>3, <1>4, <1>5, <1>6, <1>7, <1>8, <1>9, <1>10, <1>11, <1>12, <1>13, <1>14 DEF
     Next, SubmitStep, VerdictStep, ClaimSome, vars, ClaimRequest, LeaseJob, LeaseRefused,
     LeaseExpires, ReapExpiredLeases, ReleaseJobLease, SubmitRead, SubmitFindsEarlier, SubmitIsNew,
     SubmitInserts, SubmitConflicts, SubmitRefused, SubmitDuplicate, SubmitAddsVerification,
     SubmitEnqueues, SubmitUpdatesJob, RequestDies, VerifierClaimRefused, ClaimExpires,
     RequeueVerification, MarkDuplicate, OverrideVerdict, Mark, OverrideStep, OverrideLoads, OverrideCloses, OverrideAddsPayout, OverrideRequestsPayout, OverrideRegisters, OverrideDies

\* What is known of a run's next attempt stays so while nobody enqueues that
\* attempt.
LEMMA NextStays ==
  ASSUME RunTypes, WorkTypes, WorkMoves, RunsKnown, NextKnown, NEW v \in Verifiers, run'[v]
         = run[v],
         run[v].pc = "extended" => event'[<<run[v].sub, run[v].next>>] = "absent"
  PROVE  NextOwn(v)'
<1>1. NextOwn(v)
  BY DEF NextKnown
<1>2. run[v].pc \in {"extended", "enqueued"} => <<run[v].sub, run[v].next>> \in Subs \X Attempts
  BY <1>1, ItemTyped DEF NextOwn
<1> QED BY <1>1, <1>2 DEF NextOwn, WorkMoves

\* Extend adds an attempt that was not there: neither a verification nor an
\* event.
LEMMA ExtendNext ==
  ASSUME RunTypes, WorkTypes, EventsKnown, RunsKnown, NEW v \in Verifiers, Extend(v)
  PROVE  /\ run[v] \in Run /\ run[v].sub \in Subs
         /\ LastAttempt(run[v].sub) + 1 \in Attempts
         /\ run[v].attempt < LastAttempt(run[v].sub) + 1 /\ run'[v].attempt = run[v].attempt
         /\ ver[<<run[v].sub, LastAttempt(run[v].sub) + 1>>].status = "none"
         /\ event[<<run[v].sub, LastAttempt(run[v].sub) + 1>>] = "absent"
         /\ ver'[<<run[v].sub, LastAttempt(run[v].sub) + 1>>].status # "none"
         /\ run'[v].pc = "extended" /\ run'[v].sub = run[v].sub
         /\ run'[v].next = LastAttempt(run[v].sub) + 1
         /\ \A u \in Verifiers \ {v} : run'[u] = run[u]
         /\ UNCHANGED event
<1> DEFINE last == LastAttempt(run[v].sub)
<1>1. /\ run[v] \in Run /\ run[v].sub \in Subs /\ run[v].attempt \in Attempts
      /\ ver[<<run[v].sub, run[v].attempt>>].status # "none"
  BY ItemTyped DEF Extend, At, RunsKnown, RunKnown, EventsKnown, Item
<1>2. /\ last \in Attempts
      /\ \A b \in Attempts : ver[<<run[v].sub, b>>].status # "none" => b <= last
  BY <1>1, LastAttemptIsLast
<1>3. last + 1 \in Attempts /\ run[v].attempt < last + 1
  BY <1>1, <1>2, JobAssumption DEF Extend, Retries, Attempts, JobAssumption
<1>4. ver[<<run[v].sub, last + 1>>].status = "none"
  <2>1. last + 1 \in Attempts /\ ~(last + 1 <= last)
    BY <1>2, <1>3 DEF Attempts
  <2> QED BY <1>2, <2>1
<1>5. <<run[v].sub, last + 1>> \in Subs \X Attempts
  BY <1>1, <1>3
<1>6. event[<<run[v].sub, last + 1>>] = "absent"
  BY <1>4, <1>5 DEF EventsKnown
<1>7. /\ ver' = [ver EXCEPT ![<<run[v].sub, last + 1>>] = Queued] /\ UNCHANGED event
      /\ run' = [run EXCEPT ![v] = [run[v] EXCEPT !.pc = "extended", !.next = last + 1]]
  BY DEF Extend
<1>8. ver'[<<run[v].sub, last + 1>>].status # "none"
  BY <1>5, <1>7 DEF WorkTypes, Queued
<1>9. run'[v] = [run[v] EXCEPT !.pc = "extended", !.next = last + 1]
  BY <1>7 DEF RunTypes
<1>10. /\ run'[v].pc = "extended" /\ run'[v].sub = run[v].sub /\ run'[v].attempt = run[v].attempt
       /\ run'[v].next = last + 1
  BY <1>1, <1>9 DEF Run
<1>11. \A u \in Verifiers \ {v} : run'[u] = run[u]
  BY <1>7 DEF RunTypes
<1> QED BY <1>1, <1>3, <1>4, <1>6, <1>7, <1>8, <1>10, <1>11

\* What is known of a run's next attempt is kept by every step: only the run
\* itself enqueues it.
LEMMA NextOwnStep ==
  ASSUME RunTypes, WorkTypes, WorkMoves, EventsKnown, RunsKnown, NextKnown, [Next]_vars, NEW
         p \in Verifiers
  PROVE  NextOwn(p)'
<1> USE DEF leasing, subs, work, budgets, admin, history, paying
<1>1. CASE UNCHANGED <<event, run>>
  BY <1>1, NextStays DEF NextKnown, NextOwn
<1>2. ASSUME NEW r \in Requests, SubmitEnqueues(r) PROVE NextOwn(p)'
  <2>1. \A x \in Subs \X Attempts : event[x] = "absent" /\ x # <<req[r].sub, 1>> => event'[x] = "absent"
    BY <1>2 DEF SubmitEnqueues, EnqueueVerification, WorkTypes
  <2>2. UNCHANGED run
    BY <1>2 DEF SubmitEnqueues
  <2>3. ASSUME run[p].pc = "extended" PROVE event'[<<run[p].sub, run[p].next>>] = "absent"
    <3>1. run[p].attempt \in Attempts /\ run[p].next \in Attempts /\ run[p].attempt < run[p].next
      BY <2>3, ItemTyped DEF NextKnown, NextOwn
    <3>2. run[p].next # 1
      BY <3>1 DEF Attempts
    <3> QED BY <2>1, <2>3, <3>1, <3>2, ItemTyped DEF NextKnown, NextOwn
  <2> QED BY <2>2, <2>3, NextStays
<1>3. ASSUME NEW v \in Verifiers, NEW x \in Subs \X Attempts, VerifierClaim(v, x) PROVE NextOwn(p)'
  <2>1. CASE p = v
    <3>1. run'[p].pc \notin {"extended", "enqueued"}
      BY <1>3, <2>1 DEF VerifierClaim, At, RunTypes, RunAt
    <3> QED BY <3>1 DEF NextOwn
  <2>2. CASE p # v
    <3>1. run'[p] = run[p]
      BY <1>3, <2>2 DEF VerifierClaim, RunTypes
    <3>2. UNCHANGED event
      BY <1>3 DEF VerifierClaim
    <3> QED BY <3>1, <3>2, NextStays DEF NextKnown, NextOwn
  <2> QED BY <2>1, <2>2
<1>4. ASSUME NEW v \in Verifiers, NEW x \in Subs \X Attempts, VerifierClaimRefused(v, x)
      PROVE  NextOwn(p)'
  <2>1. \A y \in Subs \X Attempts : event[y] = "absent" => event'[y] = "absent"
    BY <1>4 DEF VerifierClaimRefused, WorkTypes
  <2>2. UNCHANGED run
    BY <1>4 DEF VerifierClaimRefused
  <2> QED BY <2>1, <2>2, NextStays, ItemTyped DEF NextKnown, NextOwn
<1>5. ASSUME NEW v \in Verifiers, NEW verdict \in Verdicts, Judge(v, verdict) PROVE NextOwn(p)'
  <2>1. CASE p = v
    <3>1. run'[p].pc \notin {"extended", "enqueued"}
      BY <1>5, <2>1, ItemTyped DEF Judge, At, RunTypes, Run
    <3> QED BY <3>1 DEF NextOwn
  <2>2. CASE p # v
    <3>1. run'[p] = run[p]
      BY <1>5, <2>2 DEF Judge, RunTypes
    <3>2. UNCHANGED event
      BY <1>5 DEF Judge
    <3> QED BY <3>1, <3>2, NextStays DEF NextKnown, NextOwn
  <2> QED BY <2>1, <2>2
<1>6. ASSUME NEW v \in Verifiers, VerdictRefused(v) PROVE NextOwn(p)'
  <2>1. CASE p = v
    <3>1. run'[p].pc \notin {"extended", "enqueued"}
      BY <1>6, <2>1 DEF VerdictRefused, At, RunTypes, NoRun
    <3> QED BY <3>1 DEF NextOwn
  <2>2. CASE p # v
    <3>1. run'[p] = run[p]
      BY <1>6, <2>2 DEF VerdictRefused, RunTypes
    <3>2. event[Item(v)] # "absent"
      BY <1>6 DEF VerdictRefused, At, RunsKnown, RunKnown
    <3>3. \A x \in Subs \X Attempts : event[x] = "absent" => event'[x] = "absent"
      BY <1>6, <3>2 DEF VerdictRefused, WorkTypes
    <3> QED BY <3>1, <3>3, NextStays, ItemTyped DEF NextKnown, NextOwn
  <2> QED BY <2>1, <2>2
<1>7. ASSUME NEW v \in Verifiers, Score(v) PROVE NextOwn(p)'
  <2>1. CASE p = v
    <3>1. run'[p].pc \notin {"extended", "enqueued"}
      BY <1>7, <2>1, ItemTyped DEF Score, At, RunTypes, Run
    <3> QED BY <3>1 DEF NextOwn
  <2>2. CASE p # v
    <3>1. run'[p] = run[p]
      BY <1>7, <2>2 DEF Score, RunTypes
    <3>2. UNCHANGED event
      BY <1>7 DEF Score
    <3> QED BY <3>1, <3>2, NextStays DEF NextKnown, NextOwn
  <2> QED BY <2>1, <2>2
<1>8. ASSUME NEW v \in Verifiers, Load(v) PROVE NextOwn(p)'
  <2>1. CASE p = v
    <3>1. run'[p].pc \notin {"extended", "enqueued"}
      BY <1>8, <2>1, ItemTyped DEF Load, At, RunTypes, Run
    <3> QED BY <3>1 DEF NextOwn
  <2>2. CASE p # v
    <3>1. run'[p] = run[p]
      BY <1>8, <2>2 DEF Load, RunTypes
    <3>2. UNCHANGED event
      BY <1>8 DEF Load
    <3> QED BY <3>1, <3>2, NextStays DEF NextKnown, NextOwn
  <2> QED BY <2>1, <2>2
<1>9. ASSUME NEW v \in Verifiers, Extend(v) PROVE NextOwn(p)'
  <2>1. CASE p = v
    BY <1>9, <2>1, ExtendNext DEF NextOwn
  <2>2. CASE p # v
    BY <1>9, <2>2, ExtendNext, NextStays DEF NextKnown, NextOwn
  <2> QED BY <2>1, <2>2
<1>10. ASSUME NEW v \in Verifiers, EnqueueNext(v) PROVE NextOwn(p)'
  <2> DEFINE x == <<run[v].sub, run[v].next>>
  <2>1. /\ run[v] \in Run /\ run[v].pc = "extended" /\ run[v].next \in Attempts
        /\ run[v].attempt < run[v].next /\ x \in Subs \X Attempts
    BY <1>10, ItemTyped DEF EnqueueNext, At, NextKnown, NextOwn
  <2>2. event'[x] # "absent" /\ \A y \in Subs \X Attempts : y # x => event'[y] = event[y]
    BY <1>10, <2>1 DEF EnqueueNext, EnqueueVerification, WorkTypes
  <2>3. CASE p = v
    <3>1. run'[v] = [run[v] EXCEPT !.pc = "enqueued"]
      BY <1>10 DEF EnqueueNext, RunTypes
    <3>2. /\ run'[v].pc = "enqueued" /\ run'[v].sub = run[v].sub /\ run'[v].next = run[v].next
          /\ run'[v].attempt = run[v].attempt
      BY <2>1, <3>1 DEF Run
    <3> QED BY <2>1, <2>2, <2>3, <3>2 DEF NextOwn
  <2>4. CASE p # v
    <3>1. run'[p] = run[p]
      BY <1>10, <2>4 DEF EnqueueNext, RunTypes
    <3>2. ASSUME run[p].pc = "extended" PROVE event'[<<run[p].sub, run[p].next>>] = "absent"
      <4>1. /\ run[p].next \in Attempts /\ run[p].sub \in Subs
            /\ event[<<run[p].sub, run[p].next>>] = "absent"
        BY <3>2, ItemTyped DEF NextKnown, NextOwn
      <4>2. <<run[p].sub, run[p].next>> # x
        BY <2>1, <2>4, <3>2 DEF NextKnown
      <4> QED BY <2>2, <4>1, <4>2
    <3> QED BY <3>1, <3>2, NextStays
  <2> QED BY <2>3, <2>4
<1>11. ASSUME NEW v \in Verifiers, KeepVerifying(v) PROVE NextOwn(p)'
  <2>1. CASE p = v
    <3>1. run'[p].pc \notin {"extended", "enqueued"}
      BY <1>11, <2>1 DEF KeepVerifying, At, RunTypes, Answered, RunAt
    <3> QED BY <3>1 DEF NextOwn
  <2>2. CASE p # v
    <3>1. run'[p] = run[p]
      BY <1>11, <2>2 DEF KeepVerifying, RunTypes
    <3>2. UNCHANGED event
      BY <1>11 DEF KeepVerifying
    <3> QED BY <3>1, <3>2, NextStays DEF NextKnown, NextOwn
  <2> QED BY <2>1, <2>2
<1>12. ASSUME NEW v \in Verifiers, Close(v) PROVE NextOwn(p)'
  <2>1. CASE p = v
    <3>1. run'[p].pc \notin {"extended", "enqueued"}
      BY <1>12, <2>1 DEF Close, At, RunTypes, Answered, RunAt
    <3> QED BY <3>1 DEF NextOwn
  <2>2. CASE p # v
    <3>1. run'[p] = run[p]
      BY <1>12, <2>2 DEF Close, RunTypes
    <3>2. UNCHANGED event
      BY <1>12 DEF Close
    <3> QED BY <3>1, <3>2, NextStays DEF NextKnown, NextOwn
  <2> QED BY <2>1, <2>2
<1>13. ASSUME NEW v \in Verifiers, AddPayout(v) PROVE NextOwn(p)'
  <2>1. CASE p = v
    <3>1. run'[p].pc \notin {"extended", "enqueued"}
      BY <1>13, <2>1, ItemTyped DEF AddPayout, At, RunTypes, Run
    <3> QED BY <3>1 DEF NextOwn
  <2>2. CASE p # v
    <3>1. run'[p] = run[p]
      BY <1>13, <2>2 DEF AddPayout, RunTypes
    <3>2. UNCHANGED event
      BY <1>13 DEF AddPayout
    <3> QED BY <3>1, <3>2, NextStays DEF NextKnown, NextOwn
  <2> QED BY <2>1, <2>2
<1>14. ASSUME NEW v \in Verifiers, RequestPayout(v) PROVE NextOwn(p)'
  <2>1. CASE p = v
    <3>1. run'[p].pc \notin {"extended", "enqueued"}
      BY <1>14, <2>1, ItemTyped DEF RequestPayout, At, RunTypes, Run
    <3> QED BY <3>1 DEF NextOwn
  <2>2. CASE p # v
    <3>1. run'[p] = run[p]
      BY <1>14, <2>2 DEF RequestPayout, RunTypes
    <3>2. UNCHANGED event
      BY <1>14 DEF RequestPayout
    <3> QED BY <3>1, <3>2, NextStays DEF NextKnown, NextOwn
  <2> QED BY <2>1, <2>2
<1>15. ASSUME NEW v \in Verifiers, HandlerReturns(v) PROVE NextOwn(p)'
  <2>1. CASE p = v
    <3>1. run'[p].pc \notin {"extended", "enqueued"}
      BY <1>15, <2>1 DEF HandlerReturns, At, RunTypes, NoRun
    <3> QED BY <3>1 DEF NextOwn
  <2>2. CASE p # v
    <3>1. run'[p] = run[p]
      BY <1>15, <2>2 DEF HandlerReturns, RunTypes
    <3>2. event[Item(v)] # "absent"
      BY <1>15 DEF HandlerReturns, At, RunsKnown, RunKnown
    <3>3. \A x \in Subs \X Attempts : event[x] = "absent" => event'[x] = "absent"
      BY <1>15, <3>2 DEF HandlerReturns, WorkTypes
    <3> QED BY <3>1, <3>3, NextStays, ItemTyped DEF NextKnown, NextOwn
  <2> QED BY <2>1, <2>2
<1>16. ASSUME NEW v \in Verifiers, HandlerFails(v) PROVE NextOwn(p)'
  <2>1. CASE p = v
    <3>1. run'[p].pc \notin {"extended", "enqueued"}
      BY <1>16, <2>1 DEF HandlerFails, At, RunTypes, NoRun
    <3> QED BY <3>1 DEF NextOwn
  <2>2. CASE p # v
    <3>1. run'[p] = run[p]
      BY <1>16, <2>2 DEF HandlerFails, RunTypes
    <3>2. event[Item(v)] # "absent"
      BY <1>16 DEF HandlerFails, At, RunsKnown, RunKnown
    <3>3. \A x \in Subs \X Attempts : event[x] = "absent" => event'[x] = "absent"
      BY <1>16, <3>2 DEF HandlerFails, WorkTypes
    <3> QED BY <3>1, <3>3, NextStays, ItemTyped DEF NextKnown, NextOwn
  <2> QED BY <2>1, <2>2
<1> QED
  BY <1>1, <1>2, <1>3, <1>4, <1>5, <1>6, <1>7, <1>8, <1>9, <1>10, <1>11, <1>12, <1>13, <1>14, <1>15,
     <1>16 DEF Next, SubmitStep, VerdictStep, ClaimSome, vars, ClaimRequest, LeaseJob, LeaseRefused,
     LeaseExpires, ReapExpiredLeases, ReleaseJobLease, SubmitRead, SubmitFindsEarlier, SubmitIsNew,
     SubmitInserts, SubmitConflicts, SubmitRefused, SubmitDuplicate, SubmitAddsVerification,
     SubmitUpdatesJob, RequestDies, ClaimExpires, RequeueVerification, MarkDuplicate, OverrideVerdict, Mark, OverrideStep, OverrideLoads, OverrideCloses, OverrideAddsPayout, OverrideRequestsPayout, OverrideRegisters, OverrideDies

\* No two runs add the same attempt (the second finds it among the
\* verifications).
LEMMA NextUniqueStep ==
  ASSUME RunTypes, WorkTypes, WorkMoves, EventsKnown, RunsKnown, NextKnown, [Next]_vars, NEW
         p \in Verifiers, NEW q \in Verifiers,
         run'[p].pc = "extended", run'[q].pc = "extended",
         run'[p].sub = run'[q].sub, run'[p].next = run'[q].next
  PROVE  p = q
<1> USE DEF leasing, subs, work, budgets, admin, history, paying, NextKnown
<1>1. CASE UNCHANGED <<run>>
  BY <1>1
<1>2. ASSUME NEW v \in Verifiers, NEW x \in Subs \X Attempts, VerifierClaim(v, x) PROVE p = q
  <2>1. run'[v].pc # "extended"
    BY <1>2 DEF VerifierClaim, At, RunTypes, NoRun, Answered, RunAt
  <2>2. \A u \in Verifiers \ {v} : run'[u] = run[u]
    BY <1>2 DEF VerifierClaim, RunTypes
  <2> QED BY <2>1, <2>2
<1>3. ASSUME NEW v \in Verifiers, NEW verdict \in Verdicts, Judge(v, verdict) PROVE p = q
  <2>1. run'[v].pc # "extended"
    BY <1>3, ItemTyped DEF Judge, At, RunTypes, Run
  <2>2. \A u \in Verifiers \ {v} : run'[u] = run[u]
    BY <1>3 DEF Judge, RunTypes
  <2> QED BY <2>1, <2>2
<1>4. ASSUME NEW v \in Verifiers, VerdictRefused(v) PROVE p = q
  <2>1. run'[v].pc # "extended"
    BY <1>4 DEF VerdictRefused, At, RunTypes, NoRun, Answered, RunAt
  <2>2. \A u \in Verifiers \ {v} : run'[u] = run[u]
    BY <1>4 DEF VerdictRefused, RunTypes
  <2> QED BY <2>1, <2>2
<1>5. ASSUME NEW v \in Verifiers, Score(v) PROVE p = q
  <2>1. run'[v].pc # "extended"
    BY <1>5, ItemTyped DEF Score, At, RunTypes, Run
  <2>2. \A u \in Verifiers \ {v} : run'[u] = run[u]
    BY <1>5 DEF Score, RunTypes
  <2> QED BY <2>1, <2>2
<1>6. ASSUME NEW v \in Verifiers, Load(v) PROVE p = q
  <2>1. run'[v].pc # "extended"
    BY <1>6, ItemTyped DEF Load, At, RunTypes, Run
  <2>2. \A u \in Verifiers \ {v} : run'[u] = run[u]
    BY <1>6 DEF Load, RunTypes
  <2> QED BY <2>1, <2>2
<1>7. ASSUME NEW v \in Verifiers, Extend(v) PROVE p = q
  <2>1. \A u \in Verifiers \ {v} : ~(run[u].pc = "extended" /\ run[u].sub = run[v].sub
                                     /\ run[u].next = LastAttempt(run[v].sub) + 1)
    BY <1>7, ExtendNext DEF NextKnown, NextOwn
  <2>2. \A u \in Verifiers \ {v} : run'[u] = run[u]
    BY <1>7, ExtendNext
  <2>3. run'[v].sub = run[v].sub /\ run'[v].next = LastAttempt(run[v].sub) + 1
    BY <1>7, ExtendNext
  <2> QED BY <2>1, <2>2, <2>3
<1>8. ASSUME NEW v \in Verifiers, EnqueueNext(v) PROVE p = q
  <2>1. run'[v].pc # "extended"
    BY <1>8, ItemTyped DEF EnqueueNext, At, RunTypes, Run
  <2>2. \A u \in Verifiers \ {v} : run'[u] = run[u]
    BY <1>8 DEF EnqueueNext, RunTypes
  <2> QED BY <2>1, <2>2
<1>9. ASSUME NEW v \in Verifiers, KeepVerifying(v) PROVE p = q
  <2>1. run'[v].pc # "extended"
    BY <1>9 DEF KeepVerifying, At, RunTypes, NoRun, Answered, RunAt
  <2>2. \A u \in Verifiers \ {v} : run'[u] = run[u]
    BY <1>9 DEF KeepVerifying, RunTypes
  <2> QED BY <2>1, <2>2
<1>10. ASSUME NEW v \in Verifiers, Close(v) PROVE p = q
  <2>1. run'[v].pc # "extended"
    BY <1>10 DEF Close, At, RunTypes, NoRun, Answered, RunAt
  <2>2. \A u \in Verifiers \ {v} : run'[u] = run[u]
    BY <1>10 DEF Close, RunTypes
  <2> QED BY <2>1, <2>2
<1>11. ASSUME NEW v \in Verifiers, AddPayout(v) PROVE p = q
  <2>1. run'[v].pc # "extended"
    BY <1>11, ItemTyped DEF AddPayout, At, RunTypes, Run
  <2>2. \A u \in Verifiers \ {v} : run'[u] = run[u]
    BY <1>11 DEF AddPayout, RunTypes
  <2> QED BY <2>1, <2>2
<1>12. ASSUME NEW v \in Verifiers, RequestPayout(v) PROVE p = q
  <2>1. run'[v].pc # "extended"
    BY <1>12, ItemTyped DEF RequestPayout, At, RunTypes, Run
  <2>2. \A u \in Verifiers \ {v} : run'[u] = run[u]
    BY <1>12 DEF RequestPayout, RunTypes
  <2> QED BY <2>1, <2>2
<1>13. ASSUME NEW v \in Verifiers, HandlerReturns(v) PROVE p = q
  <2>1. run'[v].pc # "extended"
    BY <1>13 DEF HandlerReturns, At, RunTypes, NoRun, Answered, RunAt
  <2>2. \A u \in Verifiers \ {v} : run'[u] = run[u]
    BY <1>13 DEF HandlerReturns, RunTypes
  <2> QED BY <2>1, <2>2
<1>14. ASSUME NEW v \in Verifiers, HandlerFails(v) PROVE p = q
  <2>1. run'[v].pc # "extended"
    BY <1>14 DEF HandlerFails, At, RunTypes, NoRun, Answered, RunAt
  <2>2. \A u \in Verifiers \ {v} : run'[u] = run[u]
    BY <1>14 DEF HandlerFails, RunTypes
  <2> QED BY <2>1, <2>2
<1> QED
  BY <1>1, <1>2, <1>3, <1>4, <1>5, <1>6, <1>7, <1>8, <1>9, <1>10, <1>11, <1>12, <1>13, <1>14 DEF
     Next, SubmitStep, VerdictStep, ClaimSome, vars, ClaimRequest, LeaseJob, LeaseRefused,
     LeaseExpires, ReapExpiredLeases, ReleaseJobLease, SubmitRead, SubmitFindsEarlier, SubmitIsNew,
     SubmitInserts, SubmitConflicts, SubmitRefused, SubmitDuplicate, SubmitAddsVerification,
     SubmitEnqueues, SubmitUpdatesJob, RequestDies, VerifierClaimRefused, ClaimExpires,
     RequeueVerification, MarkDuplicate, OverrideVerdict, Mark, OverrideStep, OverrideLoads, OverrideCloses, OverrideAddsPayout, OverrideRequestsPayout, OverrideRegisters, OverrideDies

-----------------------------------------------------------------------------
(* Payouts *)

\* What a run knows to be passed and paid stays so.
LEMMA PassStays ==
  ASSUME PassKnown, NEW v \in Verifiers, passed \subseteq passed', payout \subseteq payout',
         run'[v] = run[v]
  PROVE  PassOwn(v)'
  BY DEF PassKnown, PassOwn

\* Where a run is on its way to a payout, its submission has been passed.
LEMMA PassOwnStep ==
  ASSUME RunTypes, PassKnown, [Next]_vars, NEW p \in Verifiers
  PROVE  PassOwn(p)'
<1> USE DEF leasing, subs, work, budgets, admin, history, paying
<1>1. CASE UNCHANGED <<payout, run, passed>>
  BY <1>1, PassStays
<1>2. ASSUME NEW v \in Verifiers, NEW x \in Subs \X Attempts, VerifierClaim(v, x) PROVE PassOwn(p)'
  <2>1. passed \subseteq passed' /\ payout \subseteq payout'
    BY <1>2 DEF VerifierClaim
  <2>2. CASE p = v
    <3>1. run'[p].pc \notin {"scored", "loaded", "closed", "payable"}
      BY <1>2, <2>2 DEF VerifierClaim, RunTypes, NoRun, Answered, RunAt
    <3> QED BY <3>1 DEF PassOwn
  <2>3. CASE p # v
    <3>1. run'[p] = run[p]
      BY <1>2, <2>3 DEF VerifierClaim, RunTypes
    <3> QED BY <2>1, <3>1, PassStays
  <2> QED BY <2>2, <2>3
<1>3. ASSUME NEW v \in Verifiers, NEW verdict \in Verdicts, Judge(v, verdict) PROVE PassOwn(p)'
  <2>1. passed \subseteq passed' /\ payout \subseteq payout'
    BY <1>3 DEF Judge
  <2>2. CASE p = v
    <3>1. run[p] \in Run /\ PassOwn(p)
      BY <1>3, <2>2, ItemTyped DEF Judge, At, PassKnown
    <3>2. run'[p] = [run[p] EXCEPT !.pc = "judged", !.verdict = verdict]
      BY <1>3, <2>2 DEF Judge, RunTypes
    <3>3. run'[p].pc = "judged"
      BY <3>1, <3>2 DEF Run
    <3> QED BY <1>3, <2>2, <3>1, <3>3 DEF Judge, At, PassOwn
  <2>3. CASE p # v
    <3>1. run'[p] = run[p]
      BY <1>3, <2>3 DEF Judge, RunTypes
    <3> QED BY <2>1, <3>1, PassStays
  <2> QED BY <2>2, <2>3
<1>4. ASSUME NEW v \in Verifiers, VerdictRefused(v) PROVE PassOwn(p)'
  <2>1. passed \subseteq passed' /\ payout \subseteq payout'
    BY <1>4 DEF VerdictRefused
  <2>2. CASE p = v
    <3>1. run'[p].pc \notin {"scored", "loaded", "closed", "payable"}
      BY <1>4, <2>2 DEF VerdictRefused, RunTypes, NoRun, Answered, RunAt
    <3> QED BY <3>1 DEF PassOwn
  <2>3. CASE p # v
    <3>1. run'[p] = run[p]
      BY <1>4, <2>3 DEF VerdictRefused, RunTypes
    <3> QED BY <2>1, <3>1, PassStays
  <2> QED BY <2>2, <2>3
<1>5. ASSUME NEW v \in Verifiers, Score(v) PROVE PassOwn(p)'
  <2>1. passed \subseteq passed' /\ payout \subseteq payout'
    BY <1>5 DEF Score
  <2>2. CASE p = v
    <3>1. run[p] \in Run /\ PassOwn(p)
      BY <1>5, <2>2, ItemTyped DEF Score, At, PassKnown
    <3>2. run'[p] = [run[p] EXCEPT !.pc = "scored"]
      BY <1>5, <2>2 DEF Score, RunTypes
    <3>3. run'[p].pc = "scored" /\ run'[p].sub = run[p].sub /\ run'[p].verdict = run[p].verdict
      BY <3>1, <3>2 DEF Run
    <3> QED BY <1>5, <2>2, <3>1, <3>3 DEF Score, At, PassOwn
  <2>3. CASE p # v
    <3>1. run'[p] = run[p]
      BY <1>5, <2>3 DEF Score, RunTypes
    <3> QED BY <2>1, <3>1, PassStays
  <2> QED BY <2>2, <2>3
<1>6. ASSUME NEW v \in Verifiers, Load(v) PROVE PassOwn(p)'
  <2>1. passed \subseteq passed' /\ payout \subseteq payout'
    BY <1>6 DEF Load
  <2>2. CASE p = v
    <3>1. run[p] \in Run /\ PassOwn(p)
      BY <1>6, <2>2, ItemTyped DEF Load, At, PassKnown
    <3>2. run'[p] = [run[p] EXCEPT !.pc = "loaded", !.snap = job[sub[run[p].sub].job]]
      BY <1>6, <2>2 DEF Load, RunTypes
    <3>3. run'[p].pc = "loaded" /\ run'[p].sub = run[p].sub /\ run'[p].verdict = run[p].verdict
      BY <3>1, <3>2 DEF Run
    <3> QED BY <1>6, <2>2, <3>1, <3>3 DEF Load, At, PassOwn
  <2>3. CASE p # v
    <3>1. run'[p] = run[p]
      BY <1>6, <2>3 DEF Load, RunTypes
    <3> QED BY <2>1, <3>1, PassStays
  <2> QED BY <2>2, <2>3
<1>7. ASSUME NEW v \in Verifiers, Extend(v) PROVE PassOwn(p)'
  <2>1. passed \subseteq passed' /\ payout \subseteq payout'
    BY <1>7 DEF Extend
  <2>2. CASE p = v
    <3>1. run[p] \in Run /\ PassOwn(p)
      BY <1>7, <2>2, ItemTyped DEF Extend, At, PassKnown
    <3>2. run'[p] = [run[p] EXCEPT !.pc = "extended", !.next = LastAttempt(run[p].sub) + 1]
      BY <1>7, <2>2 DEF Extend, RunTypes
    <3>3. run'[p].pc = "extended"
      BY <3>1, <3>2 DEF Run
    <3> QED BY <1>7, <2>2, <3>1, <3>3 DEF Extend, At, PassOwn
  <2>3. CASE p # v
    <3>1. run'[p] = run[p]
      BY <1>7, <2>3 DEF Extend, RunTypes
    <3> QED BY <2>1, <3>1, PassStays
  <2> QED BY <2>2, <2>3
<1>8. ASSUME NEW v \in Verifiers, EnqueueNext(v) PROVE PassOwn(p)'
  <2>1. passed \subseteq passed' /\ payout \subseteq payout'
    BY <1>8 DEF EnqueueNext
  <2>2. CASE p = v
    <3>1. run[p] \in Run /\ PassOwn(p)
      BY <1>8, <2>2, ItemTyped DEF EnqueueNext, At, PassKnown
    <3>2. run'[p] = [run[p] EXCEPT !.pc = "enqueued"]
      BY <1>8, <2>2 DEF EnqueueNext, RunTypes
    <3>3. run'[p].pc = "enqueued"
      BY <3>1, <3>2 DEF Run
    <3> QED BY <1>8, <2>2, <3>1, <3>3 DEF EnqueueNext, At, PassOwn
  <2>3. CASE p # v
    <3>1. run'[p] = run[p]
      BY <1>8, <2>3 DEF EnqueueNext, RunTypes
    <3> QED BY <2>1, <3>1, PassStays
  <2> QED BY <2>2, <2>3
<1>9. ASSUME NEW v \in Verifiers, KeepVerifying(v) PROVE PassOwn(p)'
  <2>1. passed \subseteq passed' /\ payout \subseteq payout'
    BY <1>9 DEF KeepVerifying
  <2>2. CASE p = v
    <3>1. run'[p].pc \notin {"scored", "loaded", "closed", "payable"}
      BY <1>9, <2>2 DEF KeepVerifying, RunTypes, NoRun, Answered, RunAt
    <3> QED BY <3>1 DEF PassOwn
  <2>3. CASE p # v
    <3>1. run'[p] = run[p]
      BY <1>9, <2>3 DEF KeepVerifying, RunTypes
    <3> QED BY <2>1, <3>1, PassStays
  <2> QED BY <2>2, <2>3
<1>10. ASSUME NEW v \in Verifiers, Close(v) PROVE PassOwn(p)'
  <2>1. passed \subseteq passed' /\ payout \subseteq payout'
    BY <1>10 DEF Close
  <2>2. CASE p = v
    <3>1. PassOwn(p) /\ run[p].pc = "loaded"
      BY <1>10, <2>2 DEF Close, At, PassKnown
    <3>2. CASE run[p].verdict = "pass"
      <4>1. run'[p] = [Answered(p) EXCEPT !.pc = "closed"]
        BY <1>10, <2>2, <3>2 DEF Close, RunTypes
      <4>2. run'[p].pc = "closed" /\ run'[p].sub = run[p].sub
        BY <4>1 DEF Answered, RunAt, Item
      <4> QED BY <2>1, <3>1, <3>2, <4>2 DEF PassOwn
    <3>3. CASE run[p].verdict # "pass"
      <4>1. run'[p].pc = "answered"
        BY <1>10, <2>2, <3>3 DEF Close, RunTypes, Answered, RunAt
      <4> QED BY <4>1 DEF PassOwn
    <3> QED BY <3>2, <3>3
  <2>3. CASE p # v
    <3>1. run'[p] = run[p]
      BY <1>10, <2>3 DEF Close, RunTypes
    <3> QED BY <2>1, <3>1, PassStays
  <2> QED BY <2>2, <2>3
<1>11. ASSUME NEW v \in Verifiers, AddPayout(v) PROVE PassOwn(p)'
  <2>1. passed \subseteq passed' /\ payout \subseteq payout'
    BY <1>11 DEF AddPayout
  <2>2. CASE p = v
    <3>1. run[p] \in Run /\ PassOwn(p)
      BY <1>11, <2>2, ItemTyped DEF AddPayout, At, PassKnown
    <3>2. run'[p] = [run[p] EXCEPT !.pc = "payable"]
      BY <1>11, <2>2 DEF AddPayout, RunTypes
    <3>3. run'[p].pc = "payable" /\ run'[p].sub = run[p].sub /\ run'[p].verdict = run[p].verdict
      BY <3>1, <3>2 DEF Run
    <3> QED BY <1>11, <2>2, <3>1, <3>3 DEF AddPayout, At, PassOwn
  <2>3. CASE p # v
    <3>1. run'[p] = run[p]
      BY <1>11, <2>3 DEF AddPayout, RunTypes
    <3> QED BY <2>1, <3>1, PassStays
  <2> QED BY <2>2, <2>3
<1>12. ASSUME NEW v \in Verifiers, RequestPayout(v) PROVE PassOwn(p)'
  <2>1. passed \subseteq passed' /\ payout \subseteq payout'
    BY <1>12 DEF RequestPayout
  <2>2. CASE p = v
    <3>1. run[p] \in Run /\ PassOwn(p)
      BY <1>12, <2>2, ItemTyped DEF RequestPayout, At, PassKnown
    <3>2. run'[p] = [run[p] EXCEPT !.pc = "answered"]
      BY <1>12, <2>2 DEF RequestPayout, RunTypes
    <3>3. run'[p].pc = "answered" /\ run'[p].sub = run[p].sub /\ run'[p].verdict = run[p].verdict
      BY <3>1, <3>2 DEF Run
    <3> QED BY <1>12, <2>2, <3>1, <3>3 DEF RequestPayout, At, PassOwn
  <2>3. CASE p # v
    <3>1. run'[p] = run[p]
      BY <1>12, <2>3 DEF RequestPayout, RunTypes
    <3> QED BY <2>1, <3>1, PassStays
  <2> QED BY <2>2, <2>3
<1>13. ASSUME NEW v \in Verifiers, HandlerReturns(v) PROVE PassOwn(p)'
  <2>1. passed \subseteq passed' /\ payout \subseteq payout'
    BY <1>13 DEF HandlerReturns
  <2>2. CASE p = v
    <3>1. run'[p].pc \notin {"scored", "loaded", "closed", "payable"}
      BY <1>13, <2>2 DEF HandlerReturns, RunTypes, NoRun, Answered, RunAt
    <3> QED BY <3>1 DEF PassOwn
  <2>3. CASE p # v
    <3>1. run'[p] = run[p]
      BY <1>13, <2>3 DEF HandlerReturns, RunTypes
    <3> QED BY <2>1, <3>1, PassStays
  <2> QED BY <2>2, <2>3
<1>14. ASSUME NEW v \in Verifiers, HandlerFails(v) PROVE PassOwn(p)'
  <2>1. passed \subseteq passed' /\ payout \subseteq payout'
    BY <1>14 DEF HandlerFails
  <2>2. CASE p = v
    <3>1. run'[p].pc \notin {"scored", "loaded", "closed", "payable"}
      BY <1>14, <2>2 DEF HandlerFails, RunTypes, NoRun, Answered, RunAt
    <3> QED BY <3>1 DEF PassOwn
  <2>3. CASE p # v
    <3>1. run'[p] = run[p]
      BY <1>14, <2>3 DEF HandlerFails, RunTypes
    <3> QED BY <2>1, <3>1, PassStays
  <2> QED BY <2>2, <2>3
<1>15. ASSUME NEW a \in Admins, NEW s \in Subs, NEW verdict \in Verdicts, OverrideVerdict(a, s, verdict)
      PROVE  PassOwn(p)'
  <2>1. passed \subseteq passed' /\ payout \subseteq payout' /\ UNCHANGED run
    BY <1>15 DEF OverrideVerdict, Mark
  <2> QED BY <2>1, PassStays
<1>16. ASSUME NEW a \in Admins, OverrideAddsPayout(a) PROVE PassOwn(p)'
  <2>1. passed \subseteq passed' /\ payout \subseteq payout' /\ UNCHANGED run
    BY <1>16 DEF OverrideAddsPayout
  <2> QED BY <2>1, PassStays
<1>17. ASSUME NEW a \in Admins, NEW s \in Subs, MarkDuplicate(a, s) PROVE PassOwn(p)'
  <2>1. passed \subseteq passed' /\ payout \subseteq payout' /\ UNCHANGED run
    BY <1>17 DEF MarkDuplicate, Mark
  <2> QED BY <2>1, PassStays
<1> QED
  BY <1>1, <1>2, <1>3, <1>4, <1>5, <1>6, <1>7, <1>8, <1>9, <1>10, <1>11, <1>12, <1>13, <1>14, <1>15,
     <1>16, <1>17
     DEF Next, SubmitStep, VerdictStep, ClaimSome, vars, ClaimRequest, LeaseJob, LeaseRefused,
     LeaseExpires, ReapExpiredLeases, ReleaseJobLease, SubmitRead, SubmitFindsEarlier, SubmitIsNew,
     SubmitInserts, SubmitConflicts, SubmitRefused, SubmitDuplicate, SubmitAddsVerification,
     SubmitEnqueues, SubmitUpdatesJob, RequestDies, VerifierClaimRefused, ClaimExpires,
     RequeueVerification, OverrideStep, OverrideLoads, OverrideCloses, OverrideRequestsPayout, OverrideRegisters, OverrideDies

\* A payout is added only for a submission that was passed.
LEMMA PayoutNeedsPassStep ==
  PassKnown /\ OverridesKnown /\ PayoutNeedsPass /\ [Next]_vars => PayoutNeedsPass'
<1> SUFFICES ASSUME PassKnown, OverridesKnown, PayoutNeedsPass, [Next]_vars PROVE PayoutNeedsPass'
  OBVIOUS
<1> USE DEF leasing, subs, work, budgets, admin, history, paying, PayoutNeedsPass, PassKnown, PassOwn
<1>1. CASE UNCHANGED <<payout, passed>>
  BY <1>1
<1>2. ASSUME NEW v \in Verifiers, Score(v) PROVE PayoutNeedsPass'
  BY <1>2 DEF Score, At
<1>3. ASSUME NEW v \in Verifiers, AddPayout(v) PROVE PayoutNeedsPass'
  BY <1>3 DEF AddPayout, At
<1>4. ASSUME NEW a \in Admins, NEW s \in Subs, NEW verdict \in Verdicts, OverrideVerdict(a, s, verdict)
      PROVE  PayoutNeedsPass'
  BY <1>4 DEF OverrideVerdict, Mark
<1>5. ASSUME NEW a \in Admins, OverrideAddsPayout(a) PROVE PayoutNeedsPass'
  BY <1>5 DEF OverrideAddsPayout, OverridesKnown, OverrideOwn
<1>6. ASSUME NEW a \in Admins, NEW s \in Subs, MarkDuplicate(a, s) PROVE PayoutNeedsPass'
  BY <1>6 DEF MarkDuplicate, Mark
<1> QED
  BY <1>1, <1>2, <1>3, <1>4, <1>5, <1>6 DEF Next, SubmitStep, VerdictStep, ClaimSome, vars, ClaimRequest,
     LeaseJob, LeaseRefused, LeaseExpires, ReapExpiredLeases, ReleaseJobLease, SubmitRead,
     SubmitFindsEarlier, SubmitIsNew, SubmitInserts, SubmitConflicts, SubmitRefused,
     SubmitDuplicate, SubmitAddsVerification, SubmitEnqueues, SubmitUpdatesJob, RequestDies,
     VerifierClaim, VerifierClaimRefused, ClaimExpires, Judge, VerdictRefused, Load, Extend,
     EnqueueNext, KeepVerifying, Close, RequestPayout, HandlerReturns, HandlerFails,
     RequeueVerification, OverrideStep, OverrideLoads, OverrideCloses, OverrideRequestsPayout, OverrideRegisters, OverrideDies

-----------------------------------------------------------------------------
(* Idempotency keys *)

\* addSubmission does not insert a key that its worker has used for the job.
LEMMA OneSubmissionStep ==
  ASSUME SubTypes, OneSubmissionPerKey, SubMoves
  PROVE  OneSubmissionPerKey'
<1> DEFINE Name(s) == <<sub'[s].job, sub'[s].worker, sub'[s].key>>
           Same(s, t) == Name(s) = Name(t)
<1>1. \A s, t \in 1 .. inserted : sub'[s].key # NoKey /\ Same(s, t) => s = t
  BY DEF OneSubmissionPerKey, SubMoves
<1>2. CASE UNCHANGED inserted
  BY <1>1, <1>2 DEF OneSubmissionPerKey
<1>3. ASSUME NEW r \in Requests, SubmitInserts(r), inserted' = inserted + 1,
             sub'[inserted + 1].job = req[r].job, sub'[inserted + 1].worker = Submitter(r),
             sub'[inserted + 1].key = req[r].key
      PROVE  OneSubmissionPerKey'
  <2>1. Earlier(r) = {} /\ inserted \in Nat
    BY <1>3, JobAssumption DEF SubmitInserts, SubTypes, JobAssumption
  <2>2. \A s \in 1 .. inserted : ~(sub'[s].key # NoKey /\ Same(s, inserted + 1))
    <3>1. \A s \in 1 .. inserted : s \notin Earlier(r)
      BY <2>1
    <3> QED BY <1>3, <3>1 DEF Earlier, SubMoves
  <2>3. 1 .. inserted' = (1 .. inserted) \cup {inserted + 1}
    BY <1>3, <2>1
  <2> QED BY <1>1, <2>2, <2>3 DEF OneSubmissionPerKey
<1> QED BY <1>2, <1>3 DEF SubMoves

-----------------------------------------------------------------------------
(* The wait for verification *)

\* A job that has left open and claimed does not come back to them.
LEMMA PastStaysPast ==
  ASSUME JobMoves, NEW j \in Jobs, Past(job[j])
  PROVE  Past(job'[j])
  BY DEF JobMoves, Past, Leased, Leasable, Released

\* A spent event is the event of a submission there is.
LEMMA SpentKnown ==
  ASSUME EventsKnown, RunsKnown, RunTypes, NEW x \in Subs \X Attempts, Spent(x)
  PROVE  event[x] # "absent" /\ x[1] <= inserted
<1>1. event[x] # "absent"
  BY DEF RunsKnown, RunKnown, Spent, Written
<1> QED BY <1>1 DEF EventsKnown

\* The run v has just written the row of the job of its event x.
SpentNow(x, v) ==
  /\ run[v].pc # "idle" /\ Item(v) = x
  /\ job'[sub[x[1]].job].writes = job[sub[x[1]].job].writes + 1 /\ Past(job'[sub[x[1]].job])

\* An event becomes spent only by the run that works on it, in the step that
\* writes the job's row.
LEMMA SpentMoves ==
  ASSUME RunTypes, WorkTypes, JobTypes, SubTypes, RunsKnown, [Next]_vars, NEW x \in Subs \X Attempts
  PROVE  Spent(x)' => Spent(x) \/ \E u \in Verifiers : SpentNow(x, u)
<1> USE DEF leasing, subs, work, budgets, admin, history, paying
<1>1. CASE UNCHANGED <<event, run>>
  BY <1>1 DEF Spent, Item
<1>2. ASSUME NEW r \in Requests, SubmitEnqueues(r)
      PROVE  Spent(x)' => Spent(x) \/ \E u \in Verifiers : SpentNow(x, u)
  <2>1. event'[x] = "sent" => event[x] = "sent"
    BY <1>2 DEF SubmitEnqueues, EnqueueVerification, WorkTypes
  <2>2. UNCHANGED run
    BY <1>2 DEF SubmitEnqueues
  <2> QED BY <2>1, <2>2 DEF Spent, Item
<1>3. ASSUME NEW v \in Verifiers, NEW y \in Subs \X Attempts, VerifierClaim(v, y)
      PROVE  Spent(x)' => Spent(x) \/ \E u \in Verifiers : SpentNow(x, u)
  <2>1. run'[v].pc \notin Written /\ \A u \in Verifiers \ {v} : run'[u] = run[u]
    BY <1>3 DEF VerifierClaim, At, RunTypes, Written, RunAt
  <2>2. UNCHANGED event
    BY <1>3 DEF VerifierClaim
  <2> QED BY <2>1, <2>2 DEF Spent, Item
<1>4. ASSUME NEW v \in Verifiers, NEW y \in Subs \X Attempts, VerifierClaimRefused(v, y)
      PROVE  Spent(x)' => Spent(x) \/ \E u \in Verifiers : SpentNow(x, u)
  <2>1. event'[x] = "sent" => event[x] = "sent"
    BY <1>4 DEF VerifierClaimRefused, WorkTypes
  <2>2. UNCHANGED run
    BY <1>4 DEF VerifierClaimRefused
  <2> QED BY <2>1, <2>2 DEF Spent, Item
<1>5. ASSUME NEW v \in Verifiers, NEW verdict \in Verdicts, Judge(v, verdict)
      PROVE  Spent(x)' => Spent(x) \/ \E u \in Verifiers : SpentNow(x, u)
  <2>1. run[v] \in Run /\ run'[v] = [run[v] EXCEPT !.pc = "judged", !.verdict = verdict]
    BY <1>5, ItemTyped DEF Judge, At, RunTypes
  <2>2. run'[v].pc \notin Written /\ \A u \in Verifiers \ {v} : run'[u] = run[u]
    <3>1. run'[v].pc = "judged"
      BY <2>1 DEF Run
    <3> QED BY <1>5, <3>1 DEF Judge, RunTypes, Written
  <2>3. event'[x] = "sent" => event[x] = "sent"
    BY <1>5 DEF Judge
  <2> QED BY <2>2, <2>3 DEF Spent, Item
<1>6. ASSUME NEW v \in Verifiers, VerdictRefused(v)
      PROVE  Spent(x)' => Spent(x) \/ \E u \in Verifiers : SpentNow(x, u)
  <2>1. run'[v].pc \notin Written /\ \A u \in Verifiers \ {v} : run'[u] = run[u]
    BY <1>6 DEF VerdictRefused, At, RunTypes, Written, NoRun
  <2>2. event'[x] = "sent" => Spent(x)
    BY <1>6 DEF VerdictRefused, At, WorkTypes, Spent, Written
  <2> QED BY <2>1, <2>2 DEF Spent, Item
<1>7. ASSUME NEW v \in Verifiers, Score(v)
      PROVE  Spent(x)' => Spent(x) \/ \E u \in Verifiers : SpentNow(x, u)
  <2>1. run[v] \in Run /\ run'[v] = [run[v] EXCEPT !.pc = "scored"]
    BY <1>7, ItemTyped DEF Score, At, RunTypes
  <2>2. run'[v].pc \notin Written /\ \A u \in Verifiers \ {v} : run'[u] = run[u]
    <3>1. run'[v].pc = "scored"
      BY <2>1 DEF Run
    <3> QED BY <1>7, <3>1 DEF Score, RunTypes, Written
  <2>3. event'[x] = "sent" => event[x] = "sent"
    BY <1>7 DEF Score
  <2> QED BY <2>2, <2>3 DEF Spent, Item
<1>8. ASSUME NEW v \in Verifiers, Load(v)
      PROVE  Spent(x)' => Spent(x) \/ \E u \in Verifiers : SpentNow(x, u)
  <2>1. /\ run[v] \in Run
        /\ run'[v] = [run[v] EXCEPT !.pc = "loaded", !.snap = job[sub[run[v].sub].job]]
    BY <1>8, ItemTyped DEF Load, At, RunTypes
  <2>2. run'[v].pc \notin Written /\ \A u \in Verifiers \ {v} : run'[u] = run[u]
    <3>1. run'[v].pc = "loaded"
      BY <2>1 DEF Run
    <3> QED BY <1>8, <3>1 DEF Load, RunTypes, Written
  <2>3. event'[x] = "sent" => event[x] = "sent"
    BY <1>8 DEF Load
  <2> QED BY <2>2, <2>3 DEF Spent, Item
<1>9. ASSUME NEW v \in Verifiers, Extend(v)
      PROVE  Spent(x)' => Spent(x) \/ \E u \in Verifiers : SpentNow(x, u)
  <2>1. /\ run[v] \in Run
        /\ run'[v] = [run[v] EXCEPT !.pc = "extended", !.next = LastAttempt(run[v].sub) + 1]
    BY <1>9, ItemTyped DEF Extend, At, RunTypes
  <2>2. run'[v].pc \notin Written /\ \A u \in Verifiers \ {v} : run'[u] = run[u]
    <3>1. run'[v].pc = "extended"
      BY <2>1 DEF Run
    <3> QED BY <1>9, <3>1 DEF Extend, RunTypes, Written
  <2>3. event'[x] = "sent" => event[x] = "sent"
    BY <1>9 DEF Extend
  <2> QED BY <2>2, <2>3 DEF Spent, Item
<1>10. ASSUME NEW v \in Verifiers, EnqueueNext(v)
      PROVE  Spent(x)' => Spent(x) \/ \E u \in Verifiers : SpentNow(x, u)
  <2>1. run[v] \in Run /\ run'[v] = [run[v] EXCEPT !.pc = "enqueued"]
    BY <1>10, ItemTyped DEF EnqueueNext, At, RunTypes
  <2>2. run'[v].pc \notin Written /\ \A u \in Verifiers \ {v} : run'[u] = run[u]
    <3>1. run'[v].pc = "enqueued"
      BY <2>1 DEF Run
    <3> QED BY <1>10, <3>1 DEF EnqueueNext, RunTypes, Written
  <2>3. event'[x] = "sent" => event[x] = "sent"
    BY <1>10 DEF EnqueueNext, EnqueueVerification, WorkTypes
  <2> QED BY <2>2, <2>3 DEF Spent, Item
<1>11. ASSUME NEW v \in Verifiers, KeepVerifying(v)
      PROVE  Spent(x)' => Spent(x) \/ \E u \in Verifiers : SpentNow(x, u)
  <2>1. run[v].pc # "idle" /\ run[v].snap \in Job /\ run[v].sub \in 1 .. inserted
    BY <1>11, ItemTyped DEF KeepVerifying, At, RunsKnown, RunKnown, Subs
  <2> DEFINE row == [run[v].snap EXCEPT !.status = "verifying"]
             j == sub[run[v].sub].job
  <2>2. j \in Jobs /\ row \in Job /\ row.status = "verifying"
    BY <2>1, JobAssumption DEF Job, JobAssumption, SubTypes, Submission
  <2>3. UpdateJob(j, run[v].snap, row)
    BY <1>11 DEF KeepVerifying
  <2>4. job'[j].writes = job[j].writes + 1 /\ Past(job'[j])
    <3> HIDE DEF row, j
    <3> QED BY <2>2, <2>3, UpdateJobWrites DEF Past
  <2>5. SpentNow(Item(v), v)
    BY <2>1, <2>4 DEF SpentNow, Item
  <2>6. Item(v)' = Item(v) /\ \A u \in Verifiers \ {v} : run'[u] = run[u]
    BY <1>11 DEF KeepVerifying, RunTypes, Answered, RunAt, Item
  <2>7. UNCHANGED event
    BY <1>11 DEF KeepVerifying
  <2> HIDE DEF row, j
  <2> QED BY <2>5, <2>6, <2>7 DEF Spent, Item
<1>12. ASSUME NEW v \in Verifiers, Close(v)
      PROVE  Spent(x)' => Spent(x) \/ \E u \in Verifiers : SpentNow(x, u)
  <2>1. run[v].pc # "idle" /\ run[v].snap \in Job /\ run[v].sub \in 1 .. inserted
    BY <1>12, ItemTyped DEF Close, At, RunsKnown, RunKnown, Subs
  <2> DEFINE row == [run[v].snap EXCEPT !.status = "done"]
             j == sub[run[v].sub].job
  <2>2. j \in Jobs /\ row \in Job /\ row.status = "done"
    BY <2>1, JobAssumption DEF Job, JobAssumption, SubTypes, Submission
  <2>3. UpdateJob(j, run[v].snap, row)
    BY <1>12 DEF Close
  <2>4. job'[j].writes = job[j].writes + 1 /\ Past(job'[j])
    <3> HIDE DEF row, j
    <3> QED BY <2>2, <2>3, UpdateJobWrites DEF Past
  <2>5. SpentNow(Item(v), v)
    BY <2>1, <2>4 DEF SpentNow, Item
  <2>6. Item(v)' = Item(v) /\ \A u \in Verifiers \ {v} : run'[u] = run[u]
    BY <1>12 DEF Close, RunTypes, Answered, RunAt, Item
  <2>7. UNCHANGED event
    BY <1>12 DEF Close
  <2> HIDE DEF row, j
  <2> QED BY <2>5, <2>6, <2>7 DEF Spent, Item
<1>13. ASSUME NEW v \in Verifiers, AddPayout(v)
      PROVE  Spent(x)' => Spent(x) \/ \E u \in Verifiers : SpentNow(x, u)
  <2>1. run[v] \in Run /\ run'[v] = [run[v] EXCEPT !.pc = "payable"]
    BY <1>13, ItemTyped DEF AddPayout, At, RunTypes
  <2>2. run[v].pc \in Written /\ run'[v].sub = run[v].sub /\ run'[v].attempt = run[v].attempt
    BY <1>13, <2>1 DEF AddPayout, At, Run, Written
  <2>3. \A u \in Verifiers \ {v} : run'[u] = run[u]
    BY <1>13 DEF AddPayout, RunTypes
  <2>4. UNCHANGED event
    BY <1>13 DEF AddPayout
  <2> QED BY <2>2, <2>3, <2>4 DEF Spent, Item
<1>14. ASSUME NEW v \in Verifiers, RequestPayout(v)
      PROVE  Spent(x)' => Spent(x) \/ \E u \in Verifiers : SpentNow(x, u)
  <2>1. run[v] \in Run /\ run'[v] = [run[v] EXCEPT !.pc = "answered"]
    BY <1>14, ItemTyped DEF RequestPayout, At, RunTypes
  <2>2. run[v].pc \in Written /\ run'[v].sub = run[v].sub /\ run'[v].attempt = run[v].attempt
    BY <1>14, <2>1 DEF RequestPayout, At, Run, Written
  <2>3. \A u \in Verifiers \ {v} : run'[u] = run[u]
    BY <1>14 DEF RequestPayout, RunTypes
  <2>4. UNCHANGED event
    BY <1>14 DEF RequestPayout
  <2> QED BY <2>2, <2>3, <2>4 DEF Spent, Item
<1>15. ASSUME NEW v \in Verifiers, HandlerReturns(v)
      PROVE  Spent(x)' => Spent(x) \/ \E u \in Verifiers : SpentNow(x, u)
  <2>1. run'[v].pc \notin Written /\ \A u \in Verifiers \ {v} : run'[u] = run[u]
    BY <1>15 DEF HandlerReturns, At, RunTypes, Written, NoRun
  <2>2. event'[x] = "sent" => Spent(x)
    BY <1>15 DEF HandlerReturns, At, WorkTypes, Spent, Written
  <2> QED BY <2>1, <2>2 DEF Spent, Item
<1>16. ASSUME NEW v \in Verifiers, HandlerFails(v)
      PROVE  Spent(x)' => Spent(x) \/ \E u \in Verifiers : SpentNow(x, u)
  <2>1. run'[v].pc \notin Written /\ \A u \in Verifiers \ {v} : run'[u] = run[u]
    BY <1>16 DEF HandlerFails, At, RunTypes, Written, NoRun
  <2>2. event'[x] = "sent" => Spent(x)
    BY <1>16 DEF HandlerFails, At, WorkTypes, Spent, Written
  <2> QED BY <2>1, <2>2 DEF Spent, Item
<1> QED
  BY <1>1, <1>2, <1>3, <1>4, <1>5, <1>6, <1>7, <1>8, <1>9, <1>10, <1>11, <1>12, <1>13, <1>14, <1>15,
     <1>16 DEF Next, SubmitStep, VerdictStep, ClaimSome, vars, ClaimRequest, LeaseJob, LeaseRefused,
     LeaseExpires, ReapExpiredLeases, ReleaseJobLease, SubmitRead, SubmitFindsEarlier, SubmitIsNew,
     SubmitInserts, SubmitConflicts, SubmitRefused, SubmitDuplicate, SubmitAddsVerification,
     SubmitUpdatesJob, RequestDies, ClaimExpires, RequeueVerification, MarkDuplicate, OverrideVerdict, Mark, OverrideStep, OverrideLoads, OverrideCloses, OverrideAddsPayout, OverrideRequestsPayout, OverrideRegisters, OverrideDies

\* How events become spent.
SpentMove == \A x \in Subs \X Attempts : Spent(x)' => Spent(x) \/ \E u \in Verifiers : SpentNow(x, u)

\* The job of a spent event is past open and claimed.
LEMMA SpentIsPastStep ==
  ASSUME SubTypes, JobTypes, RunTypes, EventsKnown, RunsKnown, SpentIsPast, JobMoves,
         SubMoves, SpentMove
  PROVE  SpentIsPast'
<1> SUFFICES ASSUME NEW x \in Subs \X Attempts, Spent(x)'
             PROVE  Past(job'[sub'[x[1]].job])
  BY DEF SpentIsPast
<1>1. x[1] <= inserted
  BY SpentKnown DEF SpentMove, SpentNow, RunsKnown, RunKnown, Item
<1>2. sub'[x[1]].job = sub[x[1]].job /\ sub[x[1]].job \in Jobs
  <2>1. x[1] \in 1 .. inserted
    BY <1>1, JobAssumption DEF SubTypes, Subs, JobAssumption
  <2> QED BY <2>1 DEF SubMoves, SubTypes, Submission
<1>3. CASE Spent(x)
  BY <1>1, <1>2, <1>3, PastStaysPast DEF SpentIsPast
<1>4. ASSUME NEW v \in Verifiers, SpentNow(x, v) PROVE Past(job'[sub'[x[1]].job])
  BY <1>2, <1>4 DEF SpentNow
<1> QED BY <1>3, <1>4 DEF SpentMove

\* While the job's row is not written, no event of it becomes spent.
LEMMA UnspentStays ==
  ASSUME SubTypes, JobTypes, SpentMove, NEW x \in Subs \X Attempts, ~Spent(x), x[1] <= inserted,
         job'[sub[x[1]].job] = job[sub[x[1]].job]
  PROVE  ~Spent(x)'
<1>1. sub[x[1]].job \in Jobs
  BY JobAssumption DEF SubTypes, Subs, JobAssumption, Submission
<1>2. job[sub[x[1]].job].writes \in Nat
  BY <1>1 DEF JobTypes, Job
<1>3. \A v \in Verifiers : ~SpentNow(x, v)
  BY <1>2 DEF SpentNow
<1> QED BY <1>3 DEF SpentMove

\* A request whose snapshot is still the row: while others work the event it
\* enqueued is not spent, for that would have written the row.
LEMMA FreshRequestStays ==
  ASSUME SubTypes, JobTypes, ReqTypes, RequestsKnown, JobMoves, SpentMove,
         NEW r \in Requests, FreshRequest(r), req'[r] = req[r]
  PROVE  FreshRequest(r)'
<1> SUFFICES ASSUME req[r].pc \in {"inserted", "verifiable", "enqueued"}, ~req[r].retry,
                    req[r].snap = job'[req[r].job]
             PROVE  ~Spent(<<req[r].sub, 1>>)'
  BY DEF FreshRequest
<1> DEFINE x == <<req[r].sub, 1>>
<1>1. req[r].job \in Jobs /\ req[r].snap \in Job /\ RequestKnown(r)
  BY RequestTyped DEF RequestsKnown
<1>2. req[r].sub \in 1 .. inserted /\ sub[req[r].sub].job = req[r].job
  BY <1>1 DEF RequestKnown
<1>3. x \in Subs \X Attempts /\ x[1] <= inserted /\ sub[x[1]].job = req[r].job
  BY <1>2, JobAssumption DEF SubTypes, Subs, Attempts, JobAssumption
<1>4. job'[req[r].job] = job[req[r].job]
  <2>1. req[r].snap.writes <= job[req[r].job].writes /\ job[req[r].job].writes \in Nat
    BY <1>1 DEF RequestKnown, JobTypes, Job
  <2>2. job'[req[r].job].writes # job[req[r].job].writes + 1
    BY <2>1
  <2> QED BY <1>1, <2>2 DEF JobMoves
<1>5. ~Spent(x)
  BY <1>4 DEF FreshRequest
<1>6. ~Spent(x)'
  BY <1>3, <1>4, <1>5, UnspentStays
<1> QED BY <1>6 DEF Spent

\* A run whose snapshot is still the row: while others work the event it enqueued
\* is not spent.
LEMMA FreshRunStays ==
  ASSUME SubTypes, SubTypes', JobTypes, RunTypes, RunsKnown, NextKnown, JobMoves, SubMoves,
         SpentMove,
         NEW v \in Verifiers, FreshRun(v), run'[v] = run[v]
  PROVE  FreshRun(v)'
<1> SUFFICES ASSUME run[v].pc = "enqueued", run[v].snap = job'[sub'[run[v].sub].job]
             PROVE  ~Spent(<<run[v].sub, run[v].next>>)'
  BY DEF FreshRun
<1> DEFINE x == <<run[v].sub, run[v].next>>
           j == sub[run[v].sub].job
<1>1. run[v].sub \in Subs /\ run[v].next \in Attempts /\ run[v].snap \in Job /\ RunKnown(v)
  BY ItemTyped DEF RunsKnown, NextKnown, NextOwn
<1>2. run[v].sub \in 1 .. inserted
  BY <1>1, JobAssumption DEF RunKnown, SubTypes, Subs, JobAssumption
<1>3. j \in Jobs /\ sub'[run[v].sub].job = j
  BY <1>2 DEF SubMoves, SubTypes, Submission
<1>4. job'[j] = job[j]
  <2>1. run[v].snap.writes <= job[j].writes /\ job[j].writes \in Nat
    BY <1>1, <1>3 DEF RunKnown, JobTypes, Job
  <2>2. job'[j].writes # job[j].writes + 1
    BY <1>3, <2>1
  <2> QED BY <1>3, <2>2 DEF JobMoves
<1>5. ~Spent(x)
  BY <1>3, <1>4 DEF FreshRun
<1>6. x \in Subs \X Attempts /\ x[1] <= inserted /\ sub[x[1]].job = j
  BY <1>1, <1>2 DEF RunKnown
<1>7. ~Spent(x)'
  BY <1>4, <1>5, <1>6, UnspentStays
<1> QED BY <1>7 DEF Spent

\* The same, whatever step is taken.
LEMMA FreshRequestStep ==
  ASSUME ReqTypes, JobTypes, SubTypes, WorkTypes, RunTypes, EventsKnown, RequestsKnown,
         RunsKnown, NextKnown, FreshIsUnspent, JobMoves, SubMoves, SpentMove, [Next]_vars,
         NEW p \in Requests
  PROVE  FreshRequest(p)'
<1> SUFFICES ASSUME req'[p] # req[p] PROVE FreshRequest(p)'
  BY FreshRequestStays DEF FreshIsUnspent
<1> USE DEF leasing, subs, work, budgets, admin, history, paying
<1>1. CASE UNCHANGED <<req>>
  BY <1>1
<1>2. ASSUME NEW r \in Requests, NEW j \in Jobs, NEW k \in Keys, SubmitRead(r, j, k)
      PROVE  FreshRequest(p)'
  <2>1. r = p
    BY <1>2 DEF SubmitRead, ReqTypes, Answer
  <2>2. req'[p].pc = "read"
    BY <1>2, <2>1 DEF SubmitRead, ReqTypes
  <2> QED BY <2>2 DEF FreshRequest
<1>3. ASSUME NEW r \in Requests, SubmitFindsEarlier(r) PROVE FreshRequest(p)'
  <2>1. r = p
    BY <1>3 DEF SubmitFindsEarlier, ReqTypes, Answer
  <2>2. req[p] \in Request
    BY <1>3, <2>1, RequestTyped DEF SubmitFindsEarlier
  <2>3. PICK s \in Earlier(p) : req' = [req EXCEPT ![p] = [req[p] EXCEPT !.pc = "inserted", !.sub = s, !.retry = TRUE]]
    BY <1>3, <2>1 DEF SubmitFindsEarlier
  <2>4. req'[p].retry
    BY <2>2, <2>3 DEF ReqTypes, Request
  <2> QED BY <2>4 DEF FreshRequest
<1>4. ASSUME NEW r \in Requests, SubmitIsNew(r) PROVE FreshRequest(p)'
  <2>1. r = p
    BY <1>4 DEF SubmitIsNew, ReqTypes, Answer
  <2>2. req[p] \in Request
    BY <1>4, <2>1, RequestTyped DEF SubmitIsNew
  <2>3. req'[p].pc = "new"
    <3>1. req'[p] = [req[p] EXCEPT !.pc = "new"]
      BY <1>4, <2>1 DEF SubmitIsNew, ReqTypes
    <3> QED BY <2>2, <3>1 DEF Request
  <2> QED BY <2>3 DEF FreshRequest
<1>5. ASSUME NEW r \in Requests, SubmitInserts(r) PROVE FreshRequest(p)'
  <2>1. r = p
    BY <1>5 DEF SubmitInserts, ReqTypes, Answer
  <2>2. req[p] \in Request
    BY <1>5, <2>1, RequestTyped DEF SubmitInserts
  <2>3. req'[p].sub = inserted + 1
    <3>1. req'[p] = [req[p] EXCEPT !.pc = "inserted", !.sub = inserted + 1]
      BY <1>5, <2>1 DEF SubmitInserts, ReqTypes
    <3> QED BY <2>2, <3>1 DEF Request
  <2> DEFINE x == <<inserted + 1, 1>>
  <2>4. x \in Subs \X Attempts /\ ~(x[1] <= inserted)
    BY <1>5, JobAssumption DEF SubmitInserts, SubTypes, Subs, Attempts, JobAssumption
  <2>5. ~Spent(x)
    BY <2>4, SpentKnown
  <2>6. UNCHANGED <<run, event>>
    BY <1>5 DEF SubmitInserts
  <2> QED BY <2>3, <2>5, <2>6 DEF FreshRequest, Spent, Item
<1>6. ASSUME NEW r \in Requests, SubmitConflicts(r) PROVE FreshRequest(p)'
  <2>1. r = p
    BY <1>6 DEF SubmitConflicts, ReqTypes, Answer
  <2>2. req'[p].pc = "idle"
    BY <1>6, <2>1 DEF SubmitConflicts, Answer, ReqTypes, NoRequest
  <2> QED BY <2>2 DEF FreshRequest
<1>7. ASSUME NEW r \in Requests, SubmitRefused(r) PROVE FreshRequest(p)'
  <2>1. r = p
    BY <1>7 DEF SubmitRefused, ReqTypes, Answer
  <2>2. req'[p].pc = "idle"
    BY <1>7, <2>1 DEF SubmitRefused, Answer, ReqTypes, NoRequest
  <2> QED BY <2>2 DEF FreshRequest
<1>8. ASSUME NEW r \in Requests, SubmitDuplicate(r) PROVE FreshRequest(p)'
  <2>1. r = p
    BY <1>8 DEF SubmitDuplicate, ReqTypes, Answer
  <2>2. req'[p].pc = "idle"
    BY <1>8, <2>1 DEF SubmitDuplicate, Answer, ReqTypes, NoRequest
  <2> QED BY <2>2 DEF FreshRequest
<1>9. ASSUME NEW r \in Requests, SubmitAddsVerification(r) PROVE FreshRequest(p)'
  <2>1. r = p
    BY <1>9 DEF SubmitAddsVerification, ReqTypes, Answer
  <2>2. req[p] \in Request
    BY <1>9, <2>1, RequestTyped DEF SubmitAddsVerification
  <2>3. /\ req[p].pc = "inserted"
        /\ req'[p].sub = req[p].sub /\ req'[p].job = req[p].job /\ req'[p].snap = req[p].snap
        /\ req'[p].retry = req[p].retry
    <3>1. req'[p] = [req[p] EXCEPT !.pc = req'[p].pc]
      BY <1>9, <2>1 DEF SubmitAddsVerification, ReqTypes
    <3>2. req[p].pc = "inserted"
      BY <1>9, <2>1 DEF SubmitAddsVerification
    <3> QED BY <2>2, <3>1, <3>2 DEF Request
  <2>4. UNCHANGED <<run, event, job>> /\ FreshRequest(p)
    BY <1>9 DEF SubmitAddsVerification, FreshIsUnspent
  <2> QED BY <2>3, <2>4 DEF FreshRequest, Spent, Item
<1>10. ASSUME NEW r \in Requests, SubmitEnqueues(r) PROVE FreshRequest(p)'
  <2>1. r = p
    BY <1>10 DEF SubmitEnqueues, ReqTypes, Answer
  <2>2. req[p] \in Request
    BY <1>10, <2>1, RequestTyped DEF SubmitEnqueues
  <2>3. /\ req[p].pc = "verifiable"
        /\ req'[p].sub = req[p].sub /\ req'[p].job = req[p].job /\ req'[p].snap = req[p].snap
        /\ req'[p].retry = req[p].retry
    <3>1. req'[p] = [req[p] EXCEPT !.pc = "enqueued"]
      BY <1>10, <2>1 DEF SubmitEnqueues, ReqTypes
    <3>2. req[p].pc = "verifiable"
      BY <1>10, <2>1 DEF SubmitEnqueues
    <3> QED BY <2>2, <3>1, <3>2 DEF Request
  <2> DEFINE x == <<req[p].sub, 1>>
  <2>4. UNCHANGED <<run, job>> /\ FreshRequest(p)
    BY <1>10 DEF SubmitEnqueues, FreshIsUnspent
  <2>5. event' = IF event[x] = "absent" THEN [event EXCEPT ![x] = "queued"] ELSE event
    BY <1>10, <2>1 DEF SubmitEnqueues, EnqueueVerification
  <2>6. event'[x] = "sent" => event[x] = "sent"
    BY <2>5 DEF WorkTypes
  <2>7. ~Spent(x) => ~(event'[x] = "sent" \/ \E v \in Verifiers : run[v].pc \in Written /\ Item(v) = x)
    BY <2>6 DEF Spent
  <2> QED BY <2>3, <2>4, <2>7 DEF FreshRequest, Spent, Item
<1>11. ASSUME NEW r \in Requests, SubmitUpdatesJob(r) PROVE FreshRequest(p)'
  <2>1. r = p
    BY <1>11 DEF SubmitUpdatesJob, ReqTypes, Answer
  <2>2. req'[p].pc = "idle"
    BY <1>11, <2>1 DEF SubmitUpdatesJob, Answer, ReqTypes, NoRequest
  <2> QED BY <2>2 DEF FreshRequest
<1>12. ASSUME NEW r \in Requests, RequestDies(r) PROVE FreshRequest(p)'
  <2>1. r = p
    BY <1>12 DEF RequestDies, ReqTypes, Answer
  <2>2. req'[p].pc = "idle"
    BY <1>12, <2>1 DEF RequestDies, Answer, ReqTypes, NoRequest
  <2> QED BY <2>2 DEF FreshRequest
<1> QED
  BY <1>1, <1>2, <1>3, <1>4, <1>5, <1>6, <1>7, <1>8, <1>9, <1>10, <1>11, <1>12 DEF Next, SubmitStep,
     VerdictStep, ClaimSome, vars, ClaimRequest, LeaseJob, LeaseRefused, LeaseExpires,
     ReapExpiredLeases, ReleaseJobLease, VerifierClaim, VerifierClaimRefused, ClaimExpires, Judge,
     VerdictRefused, Score, Load, Extend, EnqueueNext, KeepVerifying, Close, AddPayout,
     RequestPayout, HandlerReturns, HandlerFails, RequeueVerification, MarkDuplicate, OverrideVerdict, Mark, OverrideStep, OverrideLoads, OverrideCloses, OverrideAddsPayout, OverrideRequestsPayout, OverrideRegisters, OverrideDies

\* The same for runs, whatever step is taken: the event a run enqueues is new.
LEMMA FreshRunStep ==
  ASSUME ReqTypes, JobTypes, SubTypes, WorkTypes, RunTypes, EventsKnown, RequestsKnown,
         RunsKnown, NextKnown, FreshIsUnspent, JobMoves, SubMoves, SpentMove, SubTypes',
         [Next]_vars, NEW p \in Verifiers
  PROVE  FreshRun(p)'
<1> SUFFICES ASSUME run'[p] # run[p] PROVE FreshRun(p)'
  BY FreshRunStays DEF FreshIsUnspent
<1> USE DEF leasing, subs, work, budgets, admin, history, paying
<1>1. CASE UNCHANGED <<run>>
  BY <1>1
<1>2. ASSUME NEW v \in Verifiers, NEW x \in Subs \X Attempts, VerifierClaim(v, x) PROVE FreshRun(p)'
  <2>1. v = p
    BY <1>2 DEF VerifierClaim, RunTypes
  <2>2. run'[p].pc # "enqueued"
    BY <1>2, <2>1 DEF VerifierClaim, At, RunTypes, NoRun, Answered, RunAt
  <2> QED BY <2>2 DEF FreshRun
<1>3. ASSUME NEW v \in Verifiers, NEW verdict \in Verdicts, Judge(v, verdict) PROVE FreshRun(p)'
  <2>1. v = p
    BY <1>3 DEF Judge, RunTypes
  <2>2. run'[p].pc # "enqueued"
    BY <1>3, <2>1, ItemTyped DEF Judge, At, RunTypes, Run
  <2> QED BY <2>2 DEF FreshRun
<1>4. ASSUME NEW v \in Verifiers, VerdictRefused(v) PROVE FreshRun(p)'
  <2>1. v = p
    BY <1>4 DEF VerdictRefused, RunTypes
  <2>2. run'[p].pc # "enqueued"
    BY <1>4, <2>1 DEF VerdictRefused, At, RunTypes, NoRun, Answered, RunAt
  <2> QED BY <2>2 DEF FreshRun
<1>5. ASSUME NEW v \in Verifiers, Score(v) PROVE FreshRun(p)'
  <2>1. v = p
    BY <1>5 DEF Score, RunTypes
  <2>2. run'[p].pc # "enqueued"
    BY <1>5, <2>1, ItemTyped DEF Score, At, RunTypes, Run
  <2> QED BY <2>2 DEF FreshRun
<1>6. ASSUME NEW v \in Verifiers, Load(v) PROVE FreshRun(p)'
  <2>1. v = p
    BY <1>6 DEF Load, RunTypes
  <2>2. run'[p].pc # "enqueued"
    BY <1>6, <2>1, ItemTyped DEF Load, At, RunTypes, Run
  <2> QED BY <2>2 DEF FreshRun
<1>7. ASSUME NEW v \in Verifiers, Extend(v) PROVE FreshRun(p)'
  <2>1. v = p
    BY <1>7 DEF Extend, RunTypes
  <2>2. run'[p].pc # "enqueued"
    BY <1>7, <2>1, ItemTyped DEF Extend, At, RunTypes, Run
  <2> QED BY <2>2 DEF FreshRun
<1>8. ASSUME NEW v \in Verifiers, EnqueueNext(v) PROVE FreshRun(p)'
  <2>1. v = p
    BY <1>8 DEF EnqueueNext, RunTypes
  <2>2. run[p] \in Run /\ run[p].pc = "extended" /\ run[p].sub \in Subs /\ NextOwn(p)
    BY <1>8, <2>1, ItemTyped DEF EnqueueNext, At, NextKnown
  <2>3. run'[p] = [run[p] EXCEPT !.pc = "enqueued"] /\ \A u \in Verifiers \ {p} : run'[u] = run[u]
    BY <1>8, <2>1 DEF EnqueueNext, RunTypes
  <2>4. run'[p].pc = "enqueued" /\ run'[p].sub = run[p].sub /\ run'[p].next = run[p].next
    BY <2>2, <2>3 DEF Run
  <2> DEFINE x == <<run[p].sub, run[p].next>>
  <2>5. x \in Subs \X Attempts /\ event[x] = "absent"
    BY <2>2 DEF NextOwn
  <2>6. ~Spent(x)
    BY <2>5, SpentKnown
  <2>7. event'[x] = "queued"
    BY <1>8, <2>1, <2>5 DEF EnqueueNext, EnqueueVerification, WorkTypes
  <2>8. \A u \in Verifiers \ {p} : ~(run'[u].pc \in Written /\ <<run'[u].sub, run'[u].attempt>> = x)
    BY <2>3, <2>6 DEF Spent, Item
  <2>9. "enqueued" \notin Written /\ x = <<run'[p].sub, run'[p].next>>
    BY <2>4 DEF Written
  <2> HIDE DEF x
  <2> QED BY <2>4, <2>7, <2>8, <2>9 DEF FreshRun, Spent, Item
<1>9. ASSUME NEW v \in Verifiers, KeepVerifying(v) PROVE FreshRun(p)'
  <2>1. v = p
    BY <1>9 DEF KeepVerifying, RunTypes
  <2>2. run'[p].pc # "enqueued"
    BY <1>9, <2>1 DEF KeepVerifying, At, RunTypes, NoRun, Answered, RunAt
  <2> QED BY <2>2 DEF FreshRun
<1>10. ASSUME NEW v \in Verifiers, Close(v) PROVE FreshRun(p)'
  <2>1. v = p
    BY <1>10 DEF Close, RunTypes
  <2>2. run'[p].pc # "enqueued"
    BY <1>10, <2>1 DEF Close, At, RunTypes, NoRun, Answered, RunAt
  <2> QED BY <2>2 DEF FreshRun
<1>11. ASSUME NEW v \in Verifiers, AddPayout(v) PROVE FreshRun(p)'
  <2>1. v = p
    BY <1>11 DEF AddPayout, RunTypes
  <2>2. run'[p].pc # "enqueued"
    BY <1>11, <2>1, ItemTyped DEF AddPayout, At, RunTypes, Run
  <2> QED BY <2>2 DEF FreshRun
<1>12. ASSUME NEW v \in Verifiers, RequestPayout(v) PROVE FreshRun(p)'
  <2>1. v = p
    BY <1>12 DEF RequestPayout, RunTypes
  <2>2. run'[p].pc # "enqueued"
    BY <1>12, <2>1, ItemTyped DEF RequestPayout, At, RunTypes, Run
  <2> QED BY <2>2 DEF FreshRun
<1>13. ASSUME NEW v \in Verifiers, HandlerReturns(v) PROVE FreshRun(p)'
  <2>1. v = p
    BY <1>13 DEF HandlerReturns, RunTypes
  <2>2. run'[p].pc # "enqueued"
    BY <1>13, <2>1 DEF HandlerReturns, At, RunTypes, NoRun, Answered, RunAt
  <2> QED BY <2>2 DEF FreshRun
<1>14. ASSUME NEW v \in Verifiers, HandlerFails(v) PROVE FreshRun(p)'
  <2>1. v = p
    BY <1>14 DEF HandlerFails, RunTypes
  <2>2. run'[p].pc # "enqueued"
    BY <1>14, <2>1 DEF HandlerFails, At, RunTypes, NoRun, Answered, RunAt
  <2> QED BY <2>2 DEF FreshRun
<1> QED
  BY <1>1, <1>2, <1>3, <1>4, <1>5, <1>6, <1>7, <1>8, <1>9, <1>10, <1>11, <1>12, <1>13, <1>14 DEF
     Next, SubmitStep, VerdictStep, ClaimSome, vars, ClaimRequest, LeaseJob, LeaseRefused,
     LeaseExpires, ReapExpiredLeases, ReleaseJobLease, SubmitRead, SubmitFindsEarlier, SubmitIsNew,
     SubmitInserts, SubmitConflicts, SubmitRefused, SubmitDuplicate, SubmitAddsVerification,
     SubmitEnqueues, SubmitUpdatesJob, RequestDies, VerifierClaimRefused, ClaimExpires,
     RequeueVerification, MarkDuplicate, OverrideVerdict, Mark, OverrideStep, OverrideLoads, OverrideCloses, OverrideAddsPayout, OverrideRequestsPayout, OverrideRegisters, OverrideDies

\* A job that waits for an event goes on waiting while its row is not written.
LEMMA WaitsStays ==
  ASSUME SubTypes, JobTypes, JobMoves, SubMoves, WorkMoves, SpentMove,
         NEW j \in Jobs, Waits(j), job'[j] = job[j]
  PROVE  Waits(j)'
<1>1. PICK s \in 1 .. inserted, a \in Attempts :
        sub[s].job = j /\ event[<<s, a>>] # "absent" /\ ~Spent(<<s, a>>)
  BY DEF Waits
<1> DEFINE x == <<s, a>>
<1>2. x \in Subs \X Attempts /\ x[1] <= inserted /\ sub[x[1]].job = j
  BY <1>1, JobAssumption DEF SubTypes, Subs, JobAssumption
<1>3. ~Spent(x)'
  BY <1>1, <1>2, UnspentStays
<1>4. event'[x] # "absent"
  BY <1>1, <1>2 DEF WorkMoves
<1>5. s \in 1 .. inserted' /\ sub'[s].job = j
  <2>1. inserted \in Nat /\ inserted <= inserted'
    BY JobAssumption DEF SubTypes, SubMoves, JobAssumption
  <2> QED BY <1>1, <2>1 DEF SubMoves
<1> QED BY <1>3, <1>4, <1>5 DEF Waits

\* A job that is verifying waits for an event that is not spent: who writes
\* verifying over the row it read has enqueued one, and who ends an event writes
\* the job past it.
LEMMA VerifyingWaitsStep ==
  ASSUME ReqTypes, RunTypes, JobTypes, LeaseTypes, SubTypes, WorkTypes, EventsKnown,
         RequestsKnown, RunsKnown, NextKnown, SpentIsPast, FreshIsUnspent, VerifyingWaits,
         JobMoves, SubMoves, WorkMoves, SpentMove, JobTypes', AdminTypes,
         OverridesKnown, [Next]_vars
  PROVE  VerifyingWaits'
<1> SUFFICES ASSUME NEW j \in Jobs, j \notin clobbered', job'[j].status = "verifying" PROVE Waits(j)'
  BY DEF VerifyingWaits
<1>0. ASSUME j \notin clobbered, job'[j] = job[j] PROVE Waits(j)'
  BY <1>0, WaitsStays DEF VerifyingWaits
<1> USE DEF leasing, subs, work, budgets, admin, history, paying
<1>1. CASE UNCHANGED <<job, clobbered>>
  BY <1>1, <1>0
<1>2. ASSUME NEW w \in Workers, NEW i \in Jobs, LeaseJob(w, i) PROVE Waits(j)'
  <2>1. job'[i].status = "claimed" /\ \A k \in Jobs \ {i} : job'[k] = job[k]
    BY <1>2, LeaseJobLeases DEF Leased
  <2>2. UNCHANGED clobbered
    BY <1>2 DEF LeaseJob
  <2> QED BY <1>0, <2>1, <2>2
<1>3. CASE ReapExpiredLeases
  <2>1. job'[j] = job[j] \/ job'[j].status = "expired"
    <3>1. 0 \in 0 .. MaxLeases
      BY JobAssumption DEF JobAssumption
    <3>2. Edited(job[j], "expired", 0).status = "expired"
      BY <3>1, RowEdited DEF JobTypes
    <3>3. job'[j] = job[j] \/ job'[j] = Edited(job[j], "expired", 0)
      BY <1>3 DEF ReapExpiredLeases
    <3> QED BY <3>2, <3>3
  <2>2. UNCHANGED clobbered
    BY <1>3 DEF ReapExpiredLeases
  <2> QED BY <1>0, <2>1, <2>2
<1>4. ASSUME NEW i \in Jobs, ReleaseJobLease(i) PROVE Waits(j)'
  <2>1. job'[i].status = "open" /\ \A k \in Jobs \ {i} : job'[k] = job[k]
    <3>1. 0 \in 0 .. MaxLeases
      BY JobAssumption DEF JobAssumption
    <3>2. job' = [job EXCEPT ![i] = Edited(@, "open", 0)]
      BY <1>4 DEF ReleaseJobLease
    <3> QED BY <3>1, <3>2, LeaseMoved
  <2>2. UNCHANGED clobbered
    BY <1>4 DEF ReleaseJobLease
  <2> QED BY <1>0, <2>1, <2>2
<1>5. ASSUME NEW r \in Requests, SubmitDuplicate(r) PROVE Waits(j)'
  <2>1. req[r].job \in Jobs /\ req[r].snap \in Job /\ req[r].sub \in 0 .. MaxSubs
    BY <1>5, RequestTyped DEF SubmitDuplicate
  <2> DEFINE row == [req[r].snap EXCEPT !.status = "done", !.sub = req[r].sub]
  <2>2. row \in Job /\ row.status = "done"
    BY <2>1, JobAssumption DEF Job, JobAssumption
  <2>3. UpdateJob(req[r].job, req[r].snap, row)
    BY <1>5 DEF SubmitDuplicate
  <2> HIDE DEF row
  <2> QED BY <1>0, <2>1, <2>2, <2>3, UpdateJobWrites
<1>6. ASSUME NEW r \in Requests, SubmitUpdatesJob(r) PROVE Waits(j)'
  <2> DEFINE early == ~req[r].retry \/ req[r].snap.status \in {"claimed", "open"}
             row == [req[r].snap EXCEPT !.status = IF early THEN "verifying" ELSE @, !.sub =
         req[r].sub]
  <2>1. /\ req[r].job \in Jobs /\ req[r].snap \in Job /\ req[r].sub \in 0 .. MaxSubs
        /\ req[r].pc = "enqueued" /\ RequestKnown(r)
    BY <1>6, RequestTyped DEF SubmitUpdatesJob, RequestsKnown
  <2>2. row \in Job /\ row.status = IF early THEN "verifying" ELSE req[r].snap.status
    BY <2>1, JobAssumption DEF Job, JobAssumption
  <2>3. UpdateJob(req[r].job, req[r].snap, row) \/ UNCHANGED <<job, clobbered>>
    BY <1>6 DEF SubmitUpdatesJob
  <2>4. UNCHANGED <<run, event, sub, inserted>>
    BY <1>6 DEF SubmitUpdatesJob
  <2>5. Waits(j) => Waits(j)'
    BY <2>4 DEF Waits, Spent, Item
  <2>6. ASSUME UpdateJob(req[r].job, req[r].snap, row), j = req[r].job PROVE Waits(j)'
    <3>1. req[r].snap = job[j] /\ row.status = "verifying" /\ j \notin clobbered
      <4> HIDE DEF row, early
      <4> QED BY <2>1, <2>2, <2>6, UpdateJobWrites
    <3>2. CASE ~early
      BY <2>2, <2>5, <3>1, <3>2 DEF VerifyingWaits
    <3>3. CASE early
      <4> DEFINE x == <<req[r].sub, 1>>
      <4>1. /\ req[r].sub \in 1 .. inserted /\ sub[req[r].sub].job = j /\ event[x] # "absent"
        BY <2>1, <2>6 DEF RequestKnown
      <4>2. x \in Subs \X Attempts /\ x[1] <= inserted
        BY <4>1, JobAssumption DEF SubTypes, Subs, Attempts, JobAssumption
      <4>3. ~Spent(x)
        <5>1. CASE ~req[r].retry
          BY <2>1, <2>6, <3>1, <5>1 DEF FreshIsUnspent, FreshRequest
        <5>2. CASE req[r].snap.status \in {"claimed", "open"}
          <6>1. sub[x[1]].job = j /\ ~Past(job[j])
            BY <3>1, <4>1, <5>2 DEF Past
          <6> QED BY <4>2, <6>1 DEF SpentIsPast
        <5> QED BY <3>3, <5>1, <5>2
      <4>4. Waits(j)
        BY <4>1, <4>2, <4>3 DEF Waits
      <4> QED BY <2>5, <4>4
    <3> QED BY <3>2, <3>3
  <2> HIDE DEF row
  <2>7. ASSUME UpdateJob(req[r].job, req[r].snap, row), j # req[r].job PROVE Waits(j)'
    BY <1>0, <2>1, <2>2, <2>7, UpdateJobWrites
  <2>8. CASE UNCHANGED <<job, clobbered>>
    BY <1>0, <2>8
  <2> QED BY <2>3, <2>6, <2>7, <2>8
<1>7. ASSUME NEW v \in Verifiers, KeepVerifying(v) PROVE Waits(j)'
  <2>1. run[v].pc # "idle" /\ run[v].snap \in Job /\ run[v].sub \in 1 .. inserted
    BY <1>7, ItemTyped DEF KeepVerifying, At, RunsKnown, RunKnown, Subs
  <2> DEFINE row == [run[v].snap EXCEPT !.status = "verifying"]
             i == sub[run[v].sub].job
  <2>2. i \in Jobs /\ row \in Job /\ row.status = "verifying"
    BY <2>1, JobAssumption DEF Job, JobAssumption, SubTypes, Submission
  <2>3. UpdateJob(i, run[v].snap, row)
    BY <1>7 DEF KeepVerifying
  <2> HIDE DEF row, i
  <2>4. CASE j # i
    BY <1>0, <2>2, <2>3, <2>4, UpdateJobWrites
  <2>5. CASE j = i
    <3>1. run[v].snap = job[i]
      BY <2>2, <2>3, <2>5, UpdateJobWrites
    <3> DEFINE x == <<run[v].sub, run[v].next>>
    <3>2. /\ run[v].pc = "enqueued" /\ run[v].attempt \in Attempts /\ run[v].next \in Attempts
          /\ run[v].attempt < run[v].next /\ event[x] # "absent"
      BY <1>7, ItemTyped DEF KeepVerifying, At, NextKnown, NextOwn
    <3>3. ~Spent(x)
      BY <3>1, <3>2 DEF FreshIsUnspent, FreshRun, i
    <3>4. /\ run' = [run EXCEPT ![v] = Answered(v)] /\ UNCHANGED <<event, sub, inserted>>
      BY <1>7 DEF KeepVerifying
    <3>5. \A u \in Verifiers : u # v => run'[u] = run[u]
      BY <3>4 DEF RunTypes
    <3>6. run'[v].attempt # run[v].next
      <4>1. run'[v].attempt = run[v].attempt
        BY <3>4 DEF RunTypes, Answered, RunAt, Item
      <4> QED BY <3>2, <4>1 DEF Attempts
    <3>7. event'[x] # "absent" /\ event'[x] # "sent"
      BY <3>2, <3>3, <3>4 DEF Spent
    <3>8. \A u \in Verifiers : ~(run'[u].pc \in Written /\ <<run'[u].sub, run'[u].attempt>> = x)
      BY <3>3, <3>5, <3>6 DEF Spent, Item
    <3>9. run[v].sub \in 1 .. inserted' /\ sub'[run[v].sub].job = i
      BY <2>1, <3>4 DEF i
    <3>10. PICK s, a : s = run[v].sub /\ a = run[v].next
      OBVIOUS
    <3>11. /\ s \in 1 .. inserted' /\ a \in Attempts /\ sub'[s].job = j
           /\ event'[<<s, a>>] # "absent" /\ ~Spent(<<s, a>>)'
      BY <2>5, <3>2, <3>7, <3>8, <3>9, <3>10 DEF Spent, Item
    <3> QED BY <3>11 DEF Waits
  <2> QED BY <2>4, <2>5
<1>8. ASSUME NEW v \in Verifiers, Close(v) PROVE Waits(j)'
  <2>1. run[v].pc # "idle" /\ run[v].snap \in Job /\ run[v].sub \in 1 .. inserted
    BY <1>8, ItemTyped DEF Close, At, RunsKnown, RunKnown, Subs
  <2> DEFINE row == [run[v].snap EXCEPT !.status = "done"]
             i == sub[run[v].sub].job
  <2>2. i \in Jobs /\ row \in Job /\ row.status = "done"
    BY <2>1, JobAssumption DEF Job, JobAssumption, SubTypes, Submission
  <2>3. UpdateJob(i, run[v].snap, row)
    BY <1>8 DEF Close
  <2> HIDE DEF row, i
  <2> QED BY <1>0, <2>2, <2>3, UpdateJobWrites
<1>9. ASSUME NEW a \in Admins, OverrideCloses(a) PROVE Waits(j)'
  <2>1. override[a].pc # "idle"
    BY <1>9 DEF OverrideCloses
  <2> DEFINE row == [override[a].snap EXCEPT !.status = "done"]
             i == sub[override[a].sub].job
  <2>2. i \in Jobs /\ row \in Job /\ row.status = "done"
    BY <2>1, OverrideTyped, JobAssumption DEF Job, JobAssumption
  <2>3. UpdateJob(i, override[a].snap, row)
    BY <1>9 DEF OverrideCloses
  <2> HIDE DEF row, i
  <2> QED BY <1>0, <2>2, <2>3, UpdateJobWrites
<1> QED
  BY <1>1, <1>2, <1>3, <1>4, <1>5, <1>6, <1>7, <1>8, <1>9 DEF Next, SubmitStep, VerdictStep,
     ClaimSome, vars, ClaimRequest, LeaseRefused, LeaseExpires, SubmitRead, SubmitFindsEarlier,
     SubmitIsNew, SubmitInserts, SubmitConflicts, SubmitRefused, SubmitAddsVerification,
     SubmitEnqueues, RequestDies, VerifierClaim, VerifierClaimRefused, ClaimExpires, Judge,
     VerdictRefused, Score, Load, Extend, EnqueueNext, AddPayout, RequestPayout, HandlerReturns,
     HandlerFails, RequeueVerification, MarkDuplicate, OverrideVerdict, Mark, OverrideStep, OverrideLoads, OverrideAddsPayout, OverrideRequestsPayout, OverrideRegisters, OverrideDies

-----------------------------------------------------------------------------
(* The invariant *)

\* TypeOK is its parts.
LEMMA TypeParts ==
  TypeOK <=> /\ JobTypes /\ LeaseTypes /\ SubTypes /\ PayTypes /\ WorkTypes /\ ReqTypes /\ RunTypes
             /\ AdminTypes /\ CountTypes
  BY DEF TypeOK, JobTypes, LeaseTypes, SubTypes, PayTypes, WorkTypes, ReqTypes, RunTypes, AdminTypes,
     CountTypes

\* The initial state satisfies the invariant.
LEMMA JobStarts == Init => JobInv
<1> SUFFICES ASSUME Init PROVE JobInv
  OBVIOUS
<1> USE JobAssumption DEF Init, JobAssumption
<1>1. NoJob \in Job
  BY DEF NoJob, Job
<1>2. JobTypes /\ SubTypes /\ PayTypes /\ CountTypes
  <2>1. JobTypes
    BY <1>1 DEF JobTypes
  <2>2. SubTypes
    <3>1. 1 .. inserted = {} /\ sub = <<>>
      OBVIOUS
    <3>2. sub \in [1 .. inserted -> Submission]
      BY <3>1
    <3>3. inserted \in 0 .. MaxSubs
      OBVIOUS
    <3>4. registered \in BOOLEAN
      BY Zenon
    <3> HIDE DEF Init
    <3> QED BY <3>2, <3>3, <3>4 DEF SubTypes
  <2>3. PayTypes /\ CountTypes
    BY DEF PayTypes, CountTypes
  <2> QED BY <2>1, <2>2, <2>3
<1>3. LeaseTypes
  BY DEF LeaseTypes
<1>4. WorkTypes
  BY DEF WorkTypes, NoVerification, Verification
<1>5. ReqTypes /\ RunTypes /\ AdminTypes
  BY DEF ReqTypes, RunTypes, AdminTypes
<1>6. EventsKnown /\ RequestsKnown /\ RunsKnown /\ NextKnown /\ PassKnown /\ OverridesKnown
  BY DEF EventsKnown, NoVerification, RequestsKnown, RequestKnown, NoRequest, RunsKnown, RunKnown,
     NoRun, NextKnown, NextOwn, PassKnown, PassOwn, OverridesKnown, OverrideOwn, NoOverride
<1>7. LeaseKept /\ LeaseExclusive /\ OneLiveClaim
  BY DEF LeaseKept, LiveLeases, LeaseExclusive, OneLiveClaim, NoJob
<1>8. PayoutNeedsPass /\ OneSubmissionPerKey
  BY DEF PayoutNeedsPass, OneSubmissionPerKey
<1>9. SpentIsPast /\ FreshIsUnspent /\ VerifyingWaits
  BY DEF SpentIsPast, Spent, Written, NoRun, FreshIsUnspent, FreshRequest, FreshRun, NoRequest,
     VerifyingWaits, NoJob
<1> QED BY <1>2, <1>3, <1>4, <1>5, <1>6, <1>7, <1>8, <1>9, TypeParts DEF JobInv

\* Every step keeps it: first what the step may change, then each part from that.
LEMMA JobInvStep == JobInv /\ [Next]_vars => JobInv'
<1> SUFFICES ASSUME JobInv, [Next]_vars PROVE JobInv'
  OBVIOUS
<1> USE DEF JobInv
<1>1. /\ JobTypes /\ LeaseTypes /\ SubTypes /\ PayTypes /\ WorkTypes /\ ReqTypes /\ RunTypes
      /\ AdminTypes /\ CountTypes
  BY TypeParts
<1>2. LeaseTypes' /\ LeaseMoves
  BY <1>1, LeaseStep
<1>3. JobTypes' /\ JobMoves
  BY <1>1, JobStep
<1>4. SubTypes' /\ SubMoves
  BY <1>1, SubTypesStep, SubStep
<1>5. WorkTypes' /\ WorkMoves
  BY <1>1, WorkStep
<1>6. PayTypes' /\ ReqTypes' /\ RunTypes' /\ AdminTypes' /\ CountTypes'
  BY <1>1, PayTypesStep, ReqTypesStep, RunTypesStep, AdminTypesStep, CountTypesStep
<1>7. LeaseKept' /\ LeaseExclusive' /\ OneLiveClaim'
  BY <1>1, <1>2, <1>3, LeasesHold
<1>8. EventsKnown'
  BY <1>1, EventsKnownStep
<1>9. RequestsKnown' /\ RunsKnown'
  BY <1>1, <1>2, <1>3, <1>4, <1>5, RequestsKnownStep, RunsKnownStep
<1>10. NextKnown'
  <2>1. \A p \in Verifiers : NextOwn(p)'
    BY <1>1, <1>5, NextOwnStep
  <2>2. \A p, q \in Verifiers :
          /\ run'[p].pc = "extended" /\ run'[q].pc = "extended"
          /\ run'[p].sub = run'[q].sub /\ run'[p].next = run'[q].next
          => p = q
    BY <1>1, <1>5, NextUniqueStep
  <2> QED BY <2>1, <2>2 DEF NextKnown
<1>11. PassKnown' /\ OverridesKnown' /\ PayoutNeedsPass'
  BY <1>1, <1>2, <1>4, PassOwnStep, OverridesKnownStep, PayoutNeedsPassStep DEF PassKnown
<1>12. OneSubmissionPerKey'
  BY <1>1, <1>4, OneSubmissionStep
<1>13. SpentMove
  BY <1>1, SpentMoves DEF SpentMove
<1>14. SpentIsPast'
  BY <1>1, <1>3, <1>4, <1>13, SpentIsPastStep
<1>15. FreshIsUnspent'
  <2>1. \A p \in Requests : FreshRequest(p)'
    BY <1>1, <1>3, <1>4, <1>13, FreshRequestStep
  <2>2. \A p \in Verifiers : FreshRun(p)'
    BY <1>1, <1>3, <1>4, <1>13, FreshRunStep
  <2> QED BY <2>1, <2>2 DEF FreshIsUnspent
<1>16. VerifyingWaits'
  BY <1>1, <1>3, <1>4, <1>5, <1>13, VerifyingWaitsStep
<1>17. TypeOK'
  BY <1>2, <1>3, <1>4, <1>5, <1>6 DEF TypeOK, JobTypes, LeaseTypes, SubTypes, PayTypes, WorkTypes,
     ReqTypes, RunTypes, AdminTypes, CountTypes
<1> QED BY <1>7, <1>8, <1>9, <1>10, <1>11, <1>12, <1>14, <1>15, <1>16, <1>17

\* In every run, whatever requests, handlers, operators and the clock do.
THEOREM JobInvariant == Spec => []JobInv
<1> QED BY JobStarts, JobInvStep, PTL DEF Spec

\* The variables keep their types: the statuses are those of the migrations, and
\* what names a lease, a submission or an attempt names one there is.
THEOREM JobTypeCorrect == Spec => []TypeOK
<1>1. JobInv => TypeOK
  BY DEF JobInv
<1> QED BY JobInvariant, <1>1, PTL

\* A job has one lease that is neither expired nor given back (leaseJob,
\* releaseJobLease, against every updateJob of an older row).
THEOREM OneLeaseAJob == Spec => []LeaseExclusive
<1>1. JobInv => LeaseExclusive
  BY DEF JobInv
<1> QED BY JobInvariant, <1>1, PTL

\* A worker has one job under an unexpired lease, however many claims passed their
\* checks at once (leaseJob's advisory lock).
THEOREM OneJobAWorker == Spec => []OneLiveClaim
<1>1. JobInv => OneLiveClaim
  BY DEF JobInv
<1> QED BY JobInvariant, <1>1, PTL

\* A payout is for a submission that a verdict or an admin passed (the verdict
\* handler, however often it runs, and the override).
THEOREM NoPayoutWithoutPass == Spec => []PayoutNeedsPass
<1>1. JobInv => PayoutNeedsPass
  BY DEF JobInv
<1> QED BY JobInvariant, <1>1, PTL

\* A worker's key names one submission of a job, whichever twin requests race
\* (findSubmissionByIdempotency and the unique index).
THEOREM OneSubmissionAKey == Spec => []OneSubmissionPerKey
<1>1. JobInv => OneSubmissionPerKey
  BY DEF JobInv
<1> QED BY JobInvariant, <1>1, PTL

\* A job whose row was not overwritten by an older read and that is verifying has an
\* event queued or dead-lettered (submit, handleVerificationRequested).
THEOREM VerifyingHasAnEvent == Spec => []VerifyingIsAwaited
<1>1. ASSUME JobInv PROVE VerifyingIsAwaited
  <2> SUFFICES ASSUME NEW j \in Jobs \ clobbered, job[j].status = "verifying"
               PROVE  \E s \in 1 .. inserted, a \in Attempts :
                        sub[s].job = j /\ event[<<s, a>>] \in {"queued", "deadletter"}
    BY DEF VerifyingIsAwaited
  <2>1. PICK s \in 1 .. inserted, a \in Attempts :
          sub[s].job = j /\ event[<<s, a>>] # "absent" /\ ~Spent(<<s, a>>)
    BY <1>1 DEF JobInv, VerifyingWaits, Waits
  <2>2. <<s, a>> \in Subs \X Attempts
    BY <1>1, TypeParts, JobAssumption DEF JobInv, SubTypes, Subs, JobAssumption
  <2>3. event[<<s, a>>] \in {"absent", "queued", "sent", "deadletter"}
    BY <1>1, <2>2, TypeParts DEF JobInv, WorkTypes
  <2>4. event[<<s, a>>] # "sent"
    BY <2>1 DEF Spent
  <2> QED BY <2>1, <2>3, <2>4
<1> QED BY JobInvariant, <1>1, PTL
=============================================================================
