----------------------------- MODULE JobStepProofs -----------------------------
(***************************************************************************)
(* What a step of JobLifecycle may change, for any number of jobs,         *)
(* workers, requests and runs: the variables keep their types, leases and  *)
(* submissions once there stay as they are, and a job's row is written in  *)
(* one of three ways.  JobProofs builds its inductive invariant on these.  *)
(***************************************************************************)
EXTENDS JobLifecycle, SequenceTheorems, WellFoundedInduction, TLAPS

-----------------------------------------------------------------------------
(* The parts of the inductive invariant *)

\* The leases of a job that are neither expired nor given back.
LiveLeases(j) == {l \in (expired + 1 .. granted) \ given : grant[l].job = j}

\* An open job has no such lease, a claimed one none but its own.
LeaseKept ==
  \A j \in Jobs :
    /\ job[j].lease <= granted
    /\ job[j].status = "open" => LiveLeases(j) = {}
    /\ job[j].status = "claimed" => job[j].lease # 0 /\ LiveLeases(j) \subseteq {job[j].lease}

\* An event that has been delivered to its end, or whose handler has written its job's row.
Written == {"closed", "payable", "answered"}
Spent(x) == event[x] = "sent" \/ \E v \in Verifiers : run[v].pc \in Written /\ Item(v) = x

\* An event is one of an attempt that was added, of a submission that was inserted.
EventsKnown ==
  \A x \in Subs \X Attempts :
    /\ event[x] # "absent" => ver[x].status # "none" /\ x[1] <= inserted
    /\ ver[x].status \in {"in_progress", "finished"} => event[x] # "absent"

\* What a submission in progress has read and written so far is still there; the row may have moved on.
RequestKnown(r) ==
  req[r].pc # "idle" =>
    /\ req[r].snap.lease \in 1 .. granted
    /\ req[r].snap.writes <= job[req[r].job].writes
    /\ req[r].pc \in {"inserted", "verifiable", "enqueued"} =>
         req[r].sub \in 1 .. inserted /\ sub[req[r].sub].job = req[r].job
    /\ req[r].pc \in {"verifiable", "enqueued"} => ver[<<req[r].sub, 1>>].status # "none"
    /\ req[r].pc = "enqueued" => event[<<req[r].sub, 1>>] # "absent"
RequestsKnown == \A r \in Requests : RequestKnown(r)

\* The same for a verdict or a handler.
RunKnown(v) ==
  run[v].pc # "idle" =>
    /\ run[v].sub <= inserted
    /\ run[v].snap.lease <= granted
    /\ run[v].snap.writes <= job[sub[run[v].sub].job].writes
    /\ event[Item(v)] # "absent"
RunsKnown == \A v \in Verifiers : RunKnown(v)

\* The next attempt a handler adds is its own: no other one, and no event, is there before it.
NextOwn(v) ==
  /\ run[v].pc \in {"extended", "enqueued"} => run[v].next \in Attempts /\ run[v].attempt < run[v].next
  /\ run[v].pc = "extended" =>
       /\ ver[<<run[v].sub, run[v].next>>].status # "none"
       /\ event[<<run[v].sub, run[v].next>>] = "absent"
  /\ run[v].pc = "enqueued" => event[<<run[v].sub, run[v].next>>] # "absent"
NextKnown ==
  /\ \A v \in Verifiers : NextOwn(v)
  /\ \A u, v \in Verifiers :
       /\ run[u].pc = "extended" /\ run[v].pc = "extended"
       /\ run[u].sub = run[v].sub /\ run[u].next = run[v].next
       => u = v

\* A run that closes a job as passed belongs to a submission that passed.
PassOwn(v) ==
  /\ run[v].pc \in {"scored", "loaded"} /\ run[v].verdict = "pass" => run[v].sub \in passed
  /\ run[v].pc \in {"closed", "payable"} => run[v].sub \in passed
  /\ run[v].pc = "payable" => run[v].sub \in payout
PassKnown == \A v \in Verifiers : PassOwn(v)

\* An admin request knows its submission; one that passes it has said so, and pays it after.
OverrideOwn(a) ==
  override[a].pc # "idle" =>
    /\ override[a].sub \in 1 .. inserted
    /\ override[a].snap.lease <= granted
    /\ override[a].verdict = "pass" \/ override[a].pc \in {"closed", "payable"}
         => override[a].sub \in passed
    /\ override[a].pc = "payable" => override[a].sub \in payout
OverridesKnown == \A a \in Admins : OverrideOwn(a)

\* A job whose event is spent has left open and claimed, and never comes back to them.
Past(row) == row.status \notin {"open", "claimed"}
SpentIsPast ==
  \A x \in Subs \X Attempts : x[1] <= inserted /\ Spent(x) => Past(job[sub[x[1]].job])

\* Who read the row as it still is writes "verifying" for an event that is not spent.
FreshRequest(r) ==
  /\ req[r].pc \in {"inserted", "verifiable", "enqueued"} /\ ~req[r].retry
  /\ req[r].snap = job[req[r].job]
  => ~Spent(<<req[r].sub, 1>>)
FreshRun(v) ==
  run[v].pc = "enqueued" /\ run[v].snap = job[sub[run[v].sub].job] =>
    ~Spent(<<run[v].sub, run[v].next>>)
FreshIsUnspent == (\A r \in Requests : FreshRequest(r)) /\ (\A v \in Verifiers : FreshRun(v))

\* A verifying job waits for an event that is not spent, unless its row was written over.
Waits(j) ==
  \E s \in 1 .. inserted, a \in Attempts :
    sub[s].job = j /\ event[<<s, a>>] # "absent" /\ ~Spent(<<s, a>>)
VerifyingWaits == \A j \in Jobs \ clobbered : job[j].status = "verifying" => Waits(j)

\* The inductive invariant.
JobInv ==
  /\ TypeOK /\ EventsKnown /\ RequestsKnown /\ RunsKnown /\ NextKnown
  /\ LeaseKept /\ LeaseExclusive /\ OneLiveClaim
  /\ PassKnown /\ OverridesKnown /\ PayoutNeedsPass
  /\ OneSubmissionPerKey
  /\ SpentIsPast /\ FreshIsUnspent /\ VerifyingWaits

\* TypeOK in parts, so that a lemma can name those it needs.
JobTypes == job \in [Jobs -> Job]
LeaseTypes ==
  /\ granted \in 0 .. MaxLeases /\ expired \in 0 .. granted
  /\ grant \in [1 .. granted -> [job : Jobs, worker : Workers]]
  /\ given \in SUBSET (1 .. granted)
  /\ asking \in SUBSET (Workers \X Jobs)
SubTypes ==
  /\ inserted \in 0 .. MaxSubs
  /\ sub \in [1 .. inserted -> Submission]
  /\ registered \in BOOLEAN
PayTypes ==
  /\ payout \in SUBSET (1 .. inserted) /\ requested \in SUBSET payout
  /\ passed \in SUBSET (1 .. inserted)
WorkTypes ==
  /\ ver \in [Subs \X Attempts -> Verification]
  /\ event \in [Subs \X Attempts -> {"absent", "queued", "sent", "deadletter"}]
ReqTypes == req \in [Requests -> Request \cup {NoRequest}]
RunTypes == run \in [Verifiers -> Run \cup {NoRun}]
AdminTypes == override \in [Admins -> Override \cup {NoOverride}]
CountTypes ==
  /\ clobbered \in SUBSET Jobs
  /\ failures \in 0 .. MaxFailures
  /\ redeliveries \in 0 .. MaxRedeliveries
  /\ overrides \in 0 .. MaxOverrides

-----------------------------------------------------------------------------
(* Sequences and maxima *)

\* A sequence with one element appended, as a function.
LEMMA AppendMaps ==
  ASSUME NEW S, NEW n \in Nat, NEW f \in [1 .. n -> S], NEW e \in S
  PROVE  /\ Append(f, e) \in [1 .. n + 1 -> S]
         /\ Append(f, e)[n + 1] = e
         /\ \A i \in 1 .. n : Append(f, e)[i] = f[i]
<1>1. f \in Seq(S)
  BY SeqDef
<1>2. Len(f) = n
  <2>1. DOMAIN f = 1 .. Len(f) /\ Len(f) \in Nat
    BY <1>1, LenProperties
  <2>2. DOMAIN f = 1 .. n
    OBVIOUS
  <2> QED BY <2>1, <2>2
<1>3. Append(f, e) \in Seq(S) /\ Len(Append(f, e)) = n + 1
  BY <1>1, <1>2
<1>4. Append(f, e) \in [1 .. n + 1 -> S]
  BY <1>3, LenProperties
<1> QED BY <1>1, <1>2, <1>4

\* A non-empty set of numbers up to n has a greatest one.
LEMMA MaxExists ==
  ASSUME NEW n \in Nat, NEW T \in SUBSET (1 .. n), T # {}
  PROVE  \E a \in T : \A b \in T : b <= a
<1> DEFINE R == OpToRel(<, Nat)
           D == {k \in Nat : \E a \in T : k = n - a}
<1>1. D \subseteq Nat /\ D # {}
  <2>1. PICK a \in T : TRUE
    OBVIOUS
  <2>2. n - a \in D
    BY <2>1 DEF D
  <2> QED BY <2>2 DEF D
<1>2. IsWellFoundedOn(R, Nat)
  BY NatLessThanWellFounded
<1>3. PICK k \in D : \A m \in D : <<m, k>> \notin R
  <2> HIDE DEF R, D
  <2> QED BY <1>1, <1>2, WFMin
<1>4. PICK a \in T : k = n - a
  BY DEF D
<1>5. ASSUME NEW b \in T PROVE b <= a
  <2>1. n - b \in D /\ n - b \in Nat
    BY DEF D
  <2>2. ~(n - b < k)
    BY <1>1, <1>3, <2>1 DEF R, OpToRel
  <2> QED BY <1>4, <2>2
<1> QED BY <1>5

-----------------------------------------------------------------------------
(* The rows and records *)

\* One row of the jobs table is written, whole.
LEMMA RowWritten ==
  ASSUME JobTypes, NEW j \in Jobs, NEW row \in Job, job' = [job EXCEPT ![j] = row]
  PROVE  JobTypes' /\ job'[j] = row /\ \A i \in Jobs \ {j} : job'[i] = job[i]
  BY DEF JobTypes

\* What updateJob leaves: the row it is given with one write more, and the job
\* among the clobbered if the row was not the one read.
LEMMA UpdateJobWrites ==
  ASSUME JobTypes, NEW j \in Jobs, NEW snap, NEW row \in Job, UpdateJob(j, snap, row)
  PROVE  /\ JobTypes' /\ \A i \in Jobs \ {j} : job'[i] = job[i]
         /\ job'[j].status = row.status /\ job'[j].lease = row.lease /\ job'[j].sub = row.sub
         /\ job'[j].writes = job[j].writes + 1
         /\ clobbered' = IF job[j] # snap THEN clobbered \cup {j} ELSE clobbered
<1> DEFINE new == [row EXCEPT !.writes = job[j].writes + 1]
<1>1. job[j].writes \in Nat
  BY DEF JobTypes, Job
<1>2. new \in Job /\ new.status = row.status /\ new.lease = row.lease /\ new.sub = row.sub
      /\ new.writes = job[j].writes + 1
  BY <1>1, JobAssumption DEF Job, JobAssumption
<1>3. job' = [job EXCEPT ![j] = new] /\ clobbered' = IF job[j] # snap THEN clobbered \cup {j} ELSE clobbered
  BY DEF UpdateJob
<1> HIDE DEF new
<1> QED BY <1>2, <1>3, RowWritten

\* The record of a run that has just claimed its event, or has its answer.
LEMMA RunAtTyped ==
  ASSUME NEW x \in Subs \X Attempts, NEW p \in {"claimed", "closed", "answered"}
  PROVE  /\ RunAt(p, x) \in Run /\ RunAt(p, x).pc = p /\ RunAt(p, x).sub = x[1]
         /\ RunAt(p, x).attempt = x[2]
<1>1. NoJob \in Job
  BY JobAssumption DEF NoJob, Job, JobAssumption
<1> QED BY <1>1, JobAssumption DEF RunAt, Run, Verdicts, JobAssumption, Subs, Attempts

\* What a run that is under way holds.
LEMMA ItemTyped ==
  ASSUME RunTypes, NEW v \in Verifiers, run[v].pc # "idle"
  PROVE  /\ run[v] \in Run /\ run[v].sub \in Subs /\ run[v].attempt \in Attempts
         /\ Item(v) \in Subs \X Attempts
         /\ run[v].snap \in Job /\ run[v].verdict \in Verdicts
<1>1. run[v] \in Run
  BY DEF RunTypes, NoRun
<1> QED BY <1>1 DEF Run, Item

\* What a submit request that is under way holds.
LEMMA RequestTyped ==
  ASSUME ReqTypes, NEW r \in Requests, req[r].pc # "idle"
  PROVE  req[r] \in Request /\ req[r].job \in Jobs /\ req[r].snap \in Job /\ req[r].key \in Keys
         /\ req[r].sub \in 0 .. MaxSubs /\ req[r].retry \in BOOLEAN
<1>1. req[r] \in Request
  BY DEF ReqTypes, NoRequest
<1> QED BY <1>1 DEF Request

\* A row whose status, and perhaps lease, were changed in place is a row.
LEMMA RowEdited ==
  ASSUME NEW row \in Job, NEW s \in {"open", "claimed", "expired"}, NEW l \in 0 .. MaxLeases
  PROVE  /\ Edited(row, s, l) \in Job
         /\ Edited(row, s, l).status = s /\ Edited(row, s, l).lease = l
         /\ Edited(row, s, l).writes = row.writes + 1
<1>1. row.writes + 1 \in Nat
  BY DEF Job
<1>2. \A n \in Nat : [row EXCEPT !.status = s, !.lease = l, !.writes = n] \in Job
  BY JobAssumption DEF Job, JobAssumption
<1> QED BY <1>1, <1>2 DEF Edited, Job

\* A step that changes the status and the lease of one job.
LEMMA LeaseMoved ==
  ASSUME JobTypes, NEW j \in Jobs, NEW s \in {"open", "claimed"}, NEW l \in 0 .. MaxLeases,
         job' = [job EXCEPT ![j] = Edited(@, s, l)]
  PROVE  /\ JobTypes' /\ \A i \in Jobs \ {j} : job'[i] = job[i]
         /\ job'[j].status = s /\ job'[j].lease = l /\ job'[j].writes = job[j].writes + 1
<1> DEFINE row == Edited(job[j], s, l)
<1>1. row \in Job /\ row.status = s /\ row.lease = l /\ row.writes = job[j].writes + 1
  BY RowEdited DEF JobTypes
<1>2. job' = [job EXCEPT ![j] = row]
  BY DEF JobTypes
<1> HIDE DEF row
<1> QED BY <1>1, <1>2, RowWritten

\* What an admin request that is under way holds.
LEMMA OverrideTyped ==
  ASSUME AdminTypes, SubTypes, OverridesKnown, NEW a \in Admins, override[a].pc # "idle"
  PROVE  /\ override[a] \in Override /\ override[a].sub \in 1 .. inserted
         /\ override[a].snap \in Job /\ override[a].snap.lease <= granted
         /\ sub[override[a].sub].job \in Jobs
<1>1. override[a] \in Override
  BY DEF AdminTypes, NoOverride
<1>2. override[a].sub \in 1 .. inserted /\ override[a].snap.lease <= granted
  BY DEF OverridesKnown, OverrideOwn
<1>3. override[a].snap \in Job
  BY <1>1 DEF Override
<1>4. sub[override[a].sub] \in Submission
  BY <1>2 DEF SubTypes
<1> QED BY <1>1, <1>2, <1>3, <1>4 DEF Submission

\* max(attempt_no) is an attempt there is, and none is greater.
LEMMA LastAttemptIsLast ==
  ASSUME NEW s \in Subs, NEW a \in Attempts, ver[<<s, a>>].status # "none"
  PROVE  /\ LastAttempt(s) \in Attempts /\ ver[<<s, LastAttempt(s)>>].status # "none"
         /\ \A b \in Attempts : ver[<<s, b>>].status # "none" => b <= LastAttempt(s)
<1> DEFINE T == {b \in Attempts : ver[<<s, b>>].status # "none"}
<1>1. \E b \in T : \A c \in T : c <= b
  <2>1. MaxAttempt \in Nat /\ T \in SUBSET (1 .. MaxAttempt) /\ T # {}
    BY JobAssumption DEF JobAssumption, Attempts
  <2> HIDE DEF T
  <2> QED BY <2>1, MaxExists
<1>2. \E b \in Attempts : /\ ver[<<s, b>>].status # "none"
                          /\ \A c \in Attempts : ver[<<s, c>>].status # "none" => c <= b
  BY <1>1
<1> QED BY <1>2 DEF LastAttempt

\* leaseJob's effect on the job j and the leases.
Leased(w, j) ==
  /\ FreeToLease(w) /\ Leasable(j)
  /\ granted' = granted + 1 /\ grant'[granted + 1] = [job |-> j, worker |-> w]
  /\ UNCHANGED <<expired, given>>
  /\ job'[j].status = "claimed" /\ job'[j].lease = granted + 1
  /\ \A i \in Jobs \ {j} : job'[i] = job[i]

\* releaseJobLease's effect.
Released(j) ==
  /\ job[j].status = "claimed" /\ job'[j].status = "open" /\ job'[j].lease = 0
  /\ UNCHANGED <<granted, expired>> /\ given' = given \cup {job[j].lease}

\* How a step may write the rows of the jobs table.
JobMoves ==
  \A j \in Jobs :
    \/ job'[j] = job[j]
    \/ /\ job'[j].writes = job[j].writes + 1
       /\ \/ job'[j].status \notin {"open", "claimed"} /\ job'[j].lease <= granted
          \/ \E w \in Workers : Leased(w, j)
          \/ Released(j)

\* How a step may change the leases.
LeaseMoves ==
  /\ granted <= granted' /\ expired <= expired' /\ given \subseteq given'
  /\ \A l \in 1 .. granted : grant'[l] = grant[l]
  /\ UNCHANGED granted \/ \E w \in Workers, j \in Jobs : Leased(w, j)

Grant == [job : Jobs, worker : Workers]

\* leaseJob: the new lease is the last of the sequence and the job's own.
LEMMA LeaseJobLeases ==
  ASSUME JobTypes, LeaseTypes, NEW w \in Workers, NEW j \in Jobs, LeaseJob(w, j)
  PROVE  /\ LeaseTypes' /\ JobTypes' /\ Leased(w, j) /\ job'[j].writes = job[j].writes + 1
         /\ \A l \in 1 .. granted : grant'[l] = grant[l]
<1> DEFINE new == [job |-> j, worker |-> w]
<1> USE DEF leasing
<1>1. granted' = granted + 1 /\ granted' \in 0 .. MaxLeases /\ UNCHANGED <<expired, given>>
  BY JobAssumption DEF LeaseJob, LeaseTypes, JobAssumption
<1>2. /\ new \in Grant /\ granted \in Nat /\ grant \in [1 .. granted -> Grant]
      /\ grant' = Append(grant, new)
  BY JobAssumption DEF LeaseJob, LeaseTypes, Grant, JobAssumption
<1>3. grant' \in [1 .. granted + 1 -> Grant]
  <2> HIDE DEF new
  <2> QED BY <1>2, AppendMaps
<1>4. grant'[granted + 1] = new /\ \A l \in 1 .. granted : grant'[l] = grant[l]
  <2> HIDE DEF new
  <2> QED BY <1>2, AppendMaps
<1>5. job' = [job EXCEPT ![j] = Edited(@, "claimed", granted + 1)]
  BY DEF LeaseJob
<1>6. /\ JobTypes' /\ \A i \in Jobs \ {j} : job'[i] = job[i]
      /\ job'[j].status = "claimed"
      /\ job'[j].lease = granted + 1
      /\ job'[j].writes = job[j].writes + 1
  BY <1>1, <1>5, LeaseMoved
<1>7. asking' \in SUBSET (Workers \X Jobs) /\ FreeToLease(w) /\ Leasable(j)
  BY DEF LeaseJob, LeaseTypes
<1>8. LeaseTypes'
  <2>1. expired' \in 0 .. granted' /\ given' \in SUBSET (1 .. granted')
    BY <1>1, <1>2 DEF LeaseTypes
  <2> QED BY <1>1, <1>3, <1>7, <2>1 DEF LeaseTypes, Grant
<1> QED BY <1>1, <1>4, <1>6, <1>7, <1>8 DEF Leased

\* How a step may change the submissions.
SubMoves ==
  /\ inserted <= inserted'
  /\ \A s \in 1 .. inserted :
       sub'[s].job = sub[s].job /\ sub'[s].worker = sub[s].worker /\ sub'[s].key = sub[s].key
  /\ \/ UNCHANGED inserted
     \/ \E r \in Requests : SubmitInserts(r) /\ inserted' = inserted + 1
          /\ sub'[inserted + 1].job = req[r].job
          /\ sub'[inserted + 1].worker = Submitter(r)
          /\ sub'[inserted + 1].key = req[r].key

\* addSubmission: the new row is the last of the sequence, and made of the
\* request.
LEMMA SubmissionInserted ==
  ASSUME SubTypes, NEW r \in Requests, SubmitInserts(r)
  PROVE  /\ inserted \in Nat /\ inserted' = inserted + 1
         /\ sub'[inserted + 1].job = req[r].job /\ sub'[inserted + 1].worker = Submitter(r)
         /\ sub'[inserted + 1].key = req[r].key
         /\ \A s \in 1 .. inserted : sub'[s] = sub[s]
<1> DEFINE new(dup) == [job |-> req[r].job, worker |-> Submitter(r), key |-> req[r].key,
                        status |-> IF dup THEN "duplicate" ELSE "submitted"]
<1>1. PICK dup \in BOOLEAN : sub' = Append(sub, new(dup))
  BY DEF SubmitInserts
<1>2. inserted \in Nat /\ inserted' = inserted + 1
  BY JobAssumption DEF SubmitInserts, SubTypes, JobAssumption
<1>3. sub \in [1 .. inserted -> Submission \cup {new(dup)}]
  BY DEF SubTypes
<1>4. sub'[inserted + 1] = new(dup) /\ \A s \in 1 .. inserted : sub'[s] = sub[s]
  <2> HIDE DEF new
  <2> QED BY <1>1, <1>2, <1>3, AppendMaps
<1> QED BY <1>2, <1>4

\* Verifications and events stay.
WorkMoves ==
  \A x \in Subs \X Attempts :
    /\ ver[x].status # "none" => ver'[x].status # "none"
    /\ event[x] # "absent" => event'[x] # "absent"

\* No step touches a lease that was granted; only leaseJob grants one.
LEMMA LeaseStep == LeaseTypes /\ JobTypes /\ LeaseKept /\ [Next]_vars => LeaseTypes' /\ LeaseMoves
<1> SUFFICES ASSUME LeaseTypes, JobTypes, LeaseKept, [Next]_vars PROVE LeaseTypes' /\ LeaseMoves
  OBVIOUS
<1> USE JobAssumption DEF leasing, subs, work, budgets, admin, history, paying, JobAssumption, LeaseTypes,
   LeaseMoves
<1>1. CASE UNCHANGED <<grant, granted, expired, given, asking>>
  BY <1>1
<1>2. ASSUME NEW w \in Workers, NEW j \in Jobs, ClaimRequest(w, j) PROVE LeaseTypes' /\ LeaseMoves
  BY <1>2 DEF ClaimRequest
<1>3. ASSUME NEW w \in Workers, NEW j \in Jobs, LeaseJob(w, j) PROVE LeaseTypes' /\ LeaseMoves
  <2>1. granted \in Nat
    OBVIOUS
  <2>2. LeaseTypes' /\ Leased(w, j) /\ \A l \in 1 .. granted : grant'[l] = grant[l]
    BY <1>3, LeaseJobLeases
  <2> QED BY <2>1, <2>2 DEF Leased
<1>4. ASSUME NEW w \in Workers, NEW j \in Jobs, LeaseRefused(w, j) PROVE LeaseTypes' /\ LeaseMoves
  BY <1>4 DEF LeaseRefused
<1>5. CASE LeaseExpires
  BY <1>5 DEF LeaseExpires
<1>6. ASSUME NEW j \in Jobs, ReleaseJobLease(j) PROVE LeaseTypes' /\ LeaseMoves
  <2>1. job[j].lease \in 1 .. granted
    BY <1>6 DEF ReleaseJobLease, LeaseKept, JobTypes, Job
  <2>2. UNCHANGED <<grant, granted, expired, asking>> /\ given' = given \cup {job[j].lease}
    BY <1>6 DEF ReleaseJobLease
  <2>3. given' \in SUBSET (1 .. granted')
    BY <2>1, <2>2
  <2>4. LeaseTypes'
    BY <2>2, <2>3
  <2>5. LeaseMoves
    BY <2>2
  <2> QED BY <2>4, <2>5
<1> QED
  BY <1>1, <1>2, <1>3, <1>4, <1>5, <1>6 DEF Next, SubmitStep, VerdictStep, ClaimSome, vars,
     ReapExpiredLeases, SubmitRead, SubmitFindsEarlier, SubmitIsNew, SubmitInserts, SubmitConflicts,
     SubmitRefused, SubmitDuplicate, SubmitAddsVerification, SubmitEnqueues, SubmitUpdatesJob,
     RequestDies, VerifierClaim, VerifierClaimRefused, ClaimExpires, Judge, VerdictRefused, Score,
     Load, Extend, EnqueueNext, KeepVerifying, Close, AddPayout, RequestPayout, HandlerReturns,
     HandlerFails, RequeueVerification, MarkDuplicate, OverrideVerdict, Mark, OverrideStep, OverrideLoads, OverrideCloses, OverrideAddsPayout, OverrideRequestsPayout, OverrideRegisters, OverrideDies

\* Every write of a job's row is one of three: a lease, a release, or one that
\* leaves the job past open and claimed.
LEMMA JobStep ==
  JobTypes /\ LeaseTypes /\ ReqTypes /\ RunTypes /\ SubTypes /\ RequestsKnown /\ RunsKnown /\
  LeaseKept /\ AdminTypes /\ OverridesKnown /\ [Next]_vars
    => JobTypes' /\ JobMoves
<1> SUFFICES ASSUME JobTypes, LeaseTypes, ReqTypes, RunTypes, SubTypes, RequestsKnown, RunsKnown,
                    LeaseKept, AdminTypes, OverridesKnown, [Next]_vars
             PROVE  JobTypes' /\ JobMoves
  OBVIOUS
<1> USE DEF leasing, subs, work, budgets, admin, history, paying, JobMoves
<1>1. CASE UNCHANGED <<job>>
  BY <1>1 DEF JobTypes
<1>2. ASSUME NEW w \in Workers, NEW j \in Jobs, LeaseJob(w, j) PROVE JobTypes' /\ JobMoves
  <2>1. JobTypes' /\ Leased(w, j) /\ job'[j].writes = job[j].writes + 1
    BY <1>2, LeaseJobLeases
  <2>2. \A i \in Jobs \ {j} : job'[i] = job[i]
    BY <2>1 DEF Leased
  <2> QED BY <2>1, <2>2
<1>3. CASE ReapExpiredLeases
  <2> DEFINE row(i) == Edited(job[i], "expired", 0)
  <2>1. 0 \in 0 .. MaxLeases /\ granted \in Nat
    BY JobAssumption DEF JobAssumption, LeaseTypes
  <2>2. \A i \in Jobs : row(i) \in Job
    BY <2>1, RowEdited DEF JobTypes
  <2>3. \A i \in Jobs : row(i).status = "expired" /\ row(i).lease = 0 /\ row(i).writes = job[i].writes + 1
    BY <2>1, RowEdited DEF JobTypes
  <2>4. \A i \in Jobs : job'[i] = job[i] \/ job'[i] = row(i)
    BY <1>3 DEF ReapExpiredLeases
  <2>5. job' = [i \in Jobs |-> job'[i]]
    BY <1>3 DEF ReapExpiredLeases
  <2> HIDE DEF row
  <2> QED BY <2>1, <2>2, <2>3, <2>4, <2>5 DEF JobTypes
<1>4. ASSUME NEW j \in Jobs, ReleaseJobLease(j) PROVE JobTypes' /\ JobMoves
  <2>1. 0 \in 0 .. MaxLeases
    BY JobAssumption DEF JobAssumption
  <2>2. job' = [job EXCEPT ![j] = Edited(@, "open", 0)]
    BY <1>4 DEF ReleaseJobLease
  <2>3. /\ job[j].status = "claimed" /\ UNCHANGED <<granted, expired>>
        /\ given' = given \cup {job[j].lease}
    BY <1>4 DEF ReleaseJobLease
  <2>4. /\ JobTypes' /\ \A i \in Jobs \ {j} : job'[i] = job[i]
        /\ job'[j].status = "open" /\ job'[j].lease = 0 /\ job'[j].writes = job[j].writes + 1
    BY <2>1, <2>2, LeaseMoved
  <2> QED BY <2>3, <2>4 DEF Released
<1>5. ASSUME NEW r \in Requests, SubmitDuplicate(r) PROVE JobTypes' /\ JobMoves
  <2>1. req[r].pc # "idle"
    BY <1>5 DEF SubmitDuplicate
  <2> DEFINE row == [req[r].snap EXCEPT !.status = "done", !.sub = req[r].sub]
  <2>2. /\ req[r].snap \in Job /\ req[r].snap.lease <= granted /\ req[r].sub \in 0 .. MaxSubs
        /\ req[r].job \in Jobs
    <3>1. req[r].snap.lease \in 1 .. granted
      BY <2>1 DEF RequestsKnown, RequestKnown
    <3>2. granted \in Nat
      BY JobAssumption DEF LeaseTypes, JobAssumption
    <3> QED BY <2>1, <3>1, <3>2, RequestTyped
  <2>3. row \in Job /\ row.status = "done" /\ row.lease = req[r].snap.lease
    BY <2>2, JobAssumption DEF Job, JobAssumption
  <2>4. UpdateJob(req[r].job, req[r].snap, row)
    BY <1>5 DEF SubmitDuplicate
  <2> HIDE DEF row
  <2> QED BY <2>2, <2>3, <2>4, UpdateJobWrites
<1>6. ASSUME NEW r \in Requests, SubmitUpdatesJob(r) PROVE JobTypes' /\ JobMoves
  <2> DEFINE early == ~req[r].retry \/ req[r].snap.status \in {"claimed", "open"}
             row == [req[r].snap EXCEPT !.status = IF early THEN "verifying" ELSE @, !.sub =
         req[r].sub]
  <2>1. req[r].pc # "idle"
    BY <1>6 DEF SubmitUpdatesJob
  <2>2. /\ req[r].snap \in Job /\ req[r].snap.lease <= granted /\ req[r].sub \in 0 .. MaxSubs
        /\ req[r].job \in Jobs
    <3>1. req[r].snap.lease \in 1 .. granted
      BY <2>1 DEF RequestsKnown, RequestKnown
    <3>2. granted \in Nat
      BY JobAssumption DEF LeaseTypes, JobAssumption
    <3> QED BY <2>1, <3>1, <3>2, RequestTyped
  <2>3. row \in Job /\ row.status \notin {"open", "claimed"} /\ row.lease = req[r].snap.lease
    BY <2>2, JobAssumption DEF Job, JobAssumption
  <2>4. UpdateJob(req[r].job, req[r].snap, row) \/ UNCHANGED job
    BY <1>6 DEF SubmitUpdatesJob
  <2> HIDE DEF row
  <2>5. CASE UpdateJob(req[r].job, req[r].snap, row)
    BY <2>2, <2>3, <2>5, UpdateJobWrites
  <2> QED BY <1>1, <2>4, <2>5
<1>7. ASSUME NEW v \in Verifiers, KeepVerifying(v) PROVE JobTypes' /\ JobMoves
  <2>1. run[v].pc # "idle"
    BY <1>7 DEF KeepVerifying, At
  <2>2. run[v].snap \in Job /\ run[v].snap.lease <= granted /\ sub[run[v].sub].job \in Jobs
    BY <2>1, ItemTyped DEF SubTypes, RunsKnown, RunKnown, Submission, Subs
  <2> DEFINE row == [run[v].snap EXCEPT !.status = "verifying"]
  <2>3. row \in Job /\ row.status = "verifying" /\ row.lease = run[v].snap.lease
    BY <2>2, JobAssumption DEF Job, JobAssumption
  <2>4. UpdateJob(sub[run[v].sub].job, run[v].snap, row)
    BY <1>7 DEF KeepVerifying
  <2> HIDE DEF row
  <2> QED BY <2>2, <2>3, <2>4, UpdateJobWrites
<1>8. ASSUME NEW v \in Verifiers, Close(v) PROVE JobTypes' /\ JobMoves
  <2>1. run[v].pc # "idle"
    BY <1>8 DEF Close, At
  <2>2. run[v].snap \in Job /\ run[v].snap.lease <= granted /\ sub[run[v].sub].job \in Jobs
    BY <2>1, ItemTyped DEF SubTypes, RunsKnown, RunKnown, Submission, Subs
  <2> DEFINE row == [run[v].snap EXCEPT !.status = "done"]
  <2>3. row \in Job /\ row.status = "done" /\ row.lease = run[v].snap.lease
    BY <2>2, JobAssumption DEF Job, JobAssumption
  <2>4. UpdateJob(sub[run[v].sub].job, run[v].snap, row)
    BY <1>8 DEF Close
  <2> HIDE DEF row
  <2> QED BY <2>2, <2>3, <2>4, UpdateJobWrites
<1>9. ASSUME NEW a \in Admins, OverrideCloses(a) PROVE JobTypes' /\ JobMoves
  <2>1. override[a].pc # "idle"
    BY <1>9 DEF OverrideCloses
  <2> DEFINE row == [override[a].snap EXCEPT !.status = "done"]
             i == sub[override[a].sub].job
  <2>2. override[a].snap \in Job /\ override[a].snap.lease <= granted /\ i \in Jobs
    BY <2>1, OverrideTyped
  <2>3. row \in Job /\ row.status = "done" /\ row.lease = override[a].snap.lease
    BY <2>2, JobAssumption DEF Job, JobAssumption
  <2>4. UpdateJob(i, override[a].snap, row)
    BY <1>9 DEF OverrideCloses
  <2> HIDE DEF row, i
  <2> QED BY <2>2, <2>3, <2>4, UpdateJobWrites
<1> QED
  BY <1>1, <1>2, <1>3, <1>4, <1>5, <1>6, <1>7, <1>8, <1>9 DEF Next, SubmitStep, VerdictStep,
     ClaimSome, vars, ClaimRequest, LeaseRefused, LeaseExpires, SubmitRead, SubmitFindsEarlier,
     SubmitIsNew, SubmitInserts, SubmitConflicts, SubmitRefused, SubmitAddsVerification,
     SubmitEnqueues, RequestDies, VerifierClaim, VerifierClaimRefused, ClaimExpires, Judge,
     VerdictRefused, Score, Load, Extend, EnqueueNext, AddPayout, RequestPayout, HandlerReturns,
     HandlerFails, RequeueVerification, MarkDuplicate, OverrideVerdict, Mark, OverrideStep, OverrideLoads, OverrideAddsPayout, OverrideRequestsPayout, OverrideRegisters, OverrideDies

\* The submissions keep their types.
LEMMA SubTypesStep ==
  SubTypes /\ ReqTypes /\ RequestsKnown /\ RunsKnown /\ LeaseTypes /\ [Next]_vars
    => SubTypes'
<1> SUFFICES ASSUME SubTypes, ReqTypes, RequestsKnown, RunsKnown, LeaseTypes, [Next]_vars
             PROVE  SubTypes'
  OBVIOUS
<1> USE JobAssumption DEF leasing, subs, work, budgets, admin, history, paying, JobAssumption, SubTypes,
   Submission,
          StatusFor
<1>1. CASE UNCHANGED <<sub, inserted, registered>>
  BY <1>1
<1>2. ASSUME NEW r \in Requests, SubmitInserts(r) PROVE SubTypes'
  <2>1. req[r].job \in Jobs /\ req[r].key \in Keys /\ Submitter(r) \in Workers
    BY <1>2, RequestTyped DEF SubmitInserts, RequestsKnown, RequestKnown, LeaseTypes, Submitter
  <2> DEFINE new(dup) == [job |-> req[r].job, worker |-> Submitter(r), key |-> req[r].key,
                          status |-> IF dup THEN "duplicate" ELSE "submitted"]
  <2>2. PICK dup \in BOOLEAN : sub' = Append(sub, new(dup))
    BY <1>2 DEF SubmitInserts
  <2>3. new(dup) \in Submission
    BY <2>1
  <2>4. sub' \in [1 .. inserted + 1 -> Submission]
    <3>1. inserted \in Nat
      OBVIOUS
    <3> HIDE DEF Submission, new
    <3> QED BY <2>2, <2>3, <3>1, AppendMaps
  <2>5. inserted' = inserted + 1 /\ inserted' \in 0 .. MaxSubs /\ UNCHANGED registered
    BY <1>2 DEF SubmitInserts
  <2> QED BY <2>4, <2>5
<1>3. ASSUME NEW v \in Verifiers, Score(v) PROVE SubTypes'
  BY <1>3 DEF Score, At
<1>4. ASSUME NEW a \in Admins, NEW s \in Subs, MarkDuplicate(a, s) PROVE SubTypes'
  BY <1>4 DEF MarkDuplicate, Mark
<1>5. ASSUME NEW a \in Admins, NEW s \in Subs, NEW verdict \in Verdicts, OverrideVerdict(a, s, verdict)
      PROVE  SubTypes'
  BY <1>5 DEF OverrideVerdict, Mark
<1>6. ASSUME NEW a \in Admins, OverrideRegisters(a) PROVE SubTypes'
  BY <1>6 DEF OverrideRegisters
<1> QED
  BY <1>1, <1>2, <1>3, <1>4, <1>5, <1>6 DEF Next, SubmitStep, VerdictStep, ClaimSome, vars, ClaimRequest,
     LeaseJob, LeaseRefused, LeaseExpires, ReapExpiredLeases, ReleaseJobLease, SubmitRead,
     SubmitFindsEarlier, SubmitIsNew, SubmitConflicts, SubmitRefused, SubmitDuplicate,
     SubmitAddsVerification, SubmitEnqueues, SubmitUpdatesJob, RequestDies, VerifierClaim,
     VerifierClaimRefused, ClaimExpires, Judge, VerdictRefused, Load, Extend, EnqueueNext,
     KeepVerifying, Close, AddPayout, RequestPayout, HandlerReturns, HandlerFails,
     RequeueVerification, OverrideStep, OverrideLoads, OverrideCloses, OverrideAddsPayout, OverrideRequestsPayout, OverrideDies

\* The histories and the bounded counters keep their types.
LEMMA CountTypesStep ==
  CountTypes /\ SubTypes /\ ReqTypes /\ RunTypes /\ RunsKnown /\ AdminTypes /\ OverridesKnown /\ [Next]_vars
    => CountTypes'
<1> SUFFICES ASSUME CountTypes, SubTypes, ReqTypes, RunTypes, RunsKnown, AdminTypes, OverridesKnown, [Next]_vars
             PROVE  CountTypes'
  OBVIOUS
<1> USE JobAssumption DEF leasing, subs, work, budgets, admin, history, paying, JobAssumption, CountTypes
<1>1. CASE UNCHANGED <<clobbered, failures, redeliveries, overrides>>
  BY <1>1
<1>2. ASSUME NEW r \in Requests, SubmitDuplicate(r) PROVE CountTypes'
  <2>1. clobbered' \in SUBSET Jobs
    BY <1>2, RequestTyped DEF SubmitDuplicate, UpdateJob
  <2>2. UNCHANGED <<failures, redeliveries, overrides>>
    BY <1>2 DEF SubmitDuplicate
  <2> QED BY <2>1, <2>2
<1>3. ASSUME NEW r \in Requests, SubmitUpdatesJob(r) PROVE CountTypes'
  <2>1. clobbered' \in SUBSET Jobs
    BY <1>3, RequestTyped DEF SubmitUpdatesJob, UpdateJob
  <2>2. UNCHANGED <<failures, redeliveries, overrides>>
    BY <1>3 DEF SubmitUpdatesJob
  <2> QED BY <2>1, <2>2
<1>4. ASSUME NEW r \in Requests, RequestDies(r) PROVE CountTypes'
  BY <1>4 DEF RequestDies, Answer
<1>5. ASSUME NEW v \in Verifiers, NEW x \in Subs \X Attempts, VerifierClaim(v, x) PROVE CountTypes'
  BY <1>5 DEF VerifierClaim, At, Overrun, RunAt
<1>6. ASSUME NEW x \in Subs \X Attempts, ClaimExpires(x) PROVE CountTypes'
  BY <1>6 DEF ClaimExpires, Overrun
<1>7. ASSUME NEW v \in Verifiers, KeepVerifying(v) PROVE CountTypes'
  <2>1. clobbered' \in SUBSET Jobs
    BY <1>7, ItemTyped DEF KeepVerifying, UpdateJob, At, SubTypes, RunsKnown, RunKnown, Submission,
       Subs
  <2>2. UNCHANGED <<failures, redeliveries, overrides>>
    BY <1>7 DEF KeepVerifying
  <2> QED BY <2>1, <2>2
<1>8. ASSUME NEW v \in Verifiers, Close(v) PROVE CountTypes'
  <2>1. clobbered' \in SUBSET Jobs
    BY <1>8, ItemTyped DEF Close, UpdateJob, At, SubTypes, RunsKnown, RunKnown, Submission, Subs
  <2>2. UNCHANGED <<failures, redeliveries, overrides>>
    BY <1>8 DEF Close
  <2> QED BY <2>1, <2>2
<1>9. ASSUME NEW v \in Verifiers, HandlerFails(v) PROVE CountTypes'
  BY <1>9 DEF HandlerFails, At
<1>10. ASSUME NEW x \in Subs \X Attempts, RequeueVerification(x) PROVE CountTypes'
  BY <1>10 DEF RequeueVerification
<1>11. ASSUME NEW a \in Admins, NEW s \in Subs, MarkDuplicate(a, s) PROVE CountTypes'
  BY <1>11 DEF MarkDuplicate, Mark
<1>12. ASSUME NEW a \in Admins, NEW s \in Subs, NEW verdict \in Verdicts, OverrideVerdict(a, s, verdict)
      PROVE  CountTypes'
  BY <1>12 DEF OverrideVerdict, Mark
<1>13. ASSUME NEW a \in Admins, OverrideCloses(a) PROVE CountTypes'
  <2>1. clobbered' \in SUBSET Jobs
    BY <1>13, OverrideTyped DEF OverrideCloses, UpdateJob
  <2>2. UNCHANGED <<failures, redeliveries, overrides>>
    BY <1>13 DEF OverrideCloses
  <2> QED BY <2>1, <2>2
<1>14. ASSUME NEW a \in Admins, OverrideDies(a) PROVE CountTypes'
  BY <1>14 DEF OverrideDies
<1> QED
  BY <1>1, <1>2, <1>3, <1>4, <1>5, <1>6, <1>7, <1>8, <1>9, <1>10, <1>11, <1>12, <1>13, <1>14
     DEF Next, SubmitStep,
     VerdictStep, ClaimSome, vars, ClaimRequest, LeaseJob, LeaseRefused, LeaseExpires,
     ReapExpiredLeases, ReleaseJobLease, SubmitRead, SubmitFindsEarlier, SubmitIsNew, SubmitInserts,
     SubmitConflicts, SubmitRefused, SubmitAddsVerification, SubmitEnqueues, VerifierClaimRefused,
     Judge, VerdictRefused, Score, Load, Extend, EnqueueNext, AddPayout, RequestPayout,
     HandlerReturns, OverrideStep, OverrideLoads, OverrideAddsPayout, OverrideRequestsPayout, OverrideRegisters

\* The submit requests keep their types.
LEMMA ReqTypesStep == ReqTypes /\ SubTypes /\ JobTypes /\ [Next]_vars => ReqTypes'
<1> SUFFICES ASSUME ReqTypes, SubTypes, JobTypes, [Next]_vars PROVE ReqTypes'
  OBVIOUS
<1> USE JobAssumption DEF leasing, subs, work, budgets, admin, history, paying, JobAssumption, ReqTypes,
   Request, NoRequest
<1>1. CASE UNCHANGED <<inserted, req>>
  BY <1>1
<1>2. ASSUME NEW r \in Requests, NEW j \in Jobs, NEW k \in Keys, SubmitRead(r, j, k) PROVE ReqTypes'
  <2>1. [pc |-> "read", job |-> j, snap |-> job[j], key |-> k, sub |-> 0, retry |-> FALSE] \in Request
    BY DEF JobTypes
  <2> HIDE DEF Request
  <2> QED BY <1>2, <2>1 DEF SubmitRead
<1>3. ASSUME NEW r \in Requests, SubmitFindsEarlier(r) PROVE ReqTypes'
  <2>1. PICK s \in Earlier(r) : req' = [req EXCEPT ![r] = [req[r] EXCEPT !.pc = "inserted", !.sub = s, !.retry = TRUE]]
    BY <1>3 DEF SubmitFindsEarlier
  <2>2. s \in 0 .. MaxSubs /\ req[r] \in Request
    BY <1>3, <2>1, RequestTyped DEF Earlier, SubTypes, SubmitFindsEarlier
  <2>3. [req[r] EXCEPT !.pc = "inserted", !.sub = s, !.retry = TRUE] \in Request
    BY <2>2
  <2> HIDE DEF Request
  <2> QED BY <2>1, <2>3
<1>4. ASSUME NEW r \in Requests, SubmitIsNew(r) PROVE ReqTypes'
  BY <1>4 DEF SubmitIsNew
<1>5. ASSUME NEW r \in Requests, SubmitInserts(r) PROVE ReqTypes'
  <2>1. inserted + 1 \in 0 .. MaxSubs /\ req[r] \in Request
    BY <1>5, RequestTyped DEF SubTypes, SubmitInserts
  <2>2. [req[r] EXCEPT !.pc = "inserted", !.sub = inserted + 1] \in Request
    BY <2>1
  <2> HIDE DEF Request
  <2> QED BY <1>5, <2>2 DEF SubmitInserts
<1>6. ASSUME NEW r \in Requests, SubmitConflicts(r) PROVE ReqTypes'
  BY <1>6 DEF SubmitConflicts, Answer
<1>7. ASSUME NEW r \in Requests, SubmitRefused(r) PROVE ReqTypes'
  BY <1>7 DEF SubmitRefused, Answer
<1>8. ASSUME NEW r \in Requests, SubmitDuplicate(r) PROVE ReqTypes'
  BY <1>8 DEF SubmitDuplicate, Answer, UpdateJob
<1>9. ASSUME NEW r \in Requests, SubmitAddsVerification(r) PROVE ReqTypes'
  BY <1>9 DEF SubmitAddsVerification
<1>10. ASSUME NEW r \in Requests, SubmitEnqueues(r) PROVE ReqTypes'
  BY <1>10 DEF SubmitEnqueues, EnqueueVerification
<1>11. ASSUME NEW r \in Requests, SubmitUpdatesJob(r) PROVE ReqTypes'
  BY <1>11 DEF SubmitUpdatesJob, Answer, UpdateJob
<1>12. ASSUME NEW r \in Requests, RequestDies(r) PROVE ReqTypes'
  BY <1>12 DEF RequestDies, Answer
<1> QED
  BY <1>1, <1>2, <1>3, <1>4, <1>5, <1>6, <1>7, <1>8, <1>9, <1>10, <1>11, <1>12 DEF Next, SubmitStep,
     VerdictStep, ClaimSome, vars, ClaimRequest, LeaseJob, LeaseRefused, LeaseExpires,
     ReapExpiredLeases, ReleaseJobLease, VerifierClaim, VerifierClaimRefused, ClaimExpires, Judge,
     VerdictRefused, Score, Load, Extend, EnqueueNext, KeepVerifying, Close, AddPayout,
     RequestPayout, HandlerReturns, HandlerFails, RequeueVerification, MarkDuplicate, OverrideVerdict, Mark, OverrideStep, OverrideLoads, OverrideCloses, OverrideAddsPayout, OverrideRequestsPayout, OverrideRegisters, OverrideDies

\* The handler runs keep their types: a next attempt is no more than the last one
\* allowed.
LEMMA RunTypesStep ==
  RunTypes /\ JobTypes /\ SubTypes /\ RunsKnown /\ EventsKnown /\ [Next]_vars
    => RunTypes'
<1> SUFFICES ASSUME RunTypes, JobTypes, SubTypes, RunsKnown, EventsKnown, [Next]_vars
             PROVE  RunTypes'
  OBVIOUS
<1> USE JobAssumption DEF leasing, subs, work, budgets, admin, history, paying, JobAssumption, RunTypes,
   Run, NoRun
<1>1. CASE UNCHANGED <<run>>
  BY <1>1
<1>2. ASSUME NEW v \in Verifiers, NEW x \in Subs \X Attempts, VerifierClaim(v, x) PROVE RunTypes'
  <2>1. RunAt("claimed", x) \in Run
    BY RunAtTyped
  <2> HIDE DEF Run
  <2> QED BY <1>2, <2>1 DEF VerifierClaim
<1>3. ASSUME NEW v \in Verifiers, NEW verdict \in Verdicts, Judge(v, verdict) PROVE RunTypes'
  <2>1. run[v] \in Run
    BY <1>3, ItemTyped DEF Judge, At
  <2>2. [run[v] EXCEPT !.pc = "judged", !.verdict = verdict] \in Run
    BY <2>1
  <2> HIDE DEF Run
  <2> QED BY <1>3, <2>2 DEF Judge
<1>4. ASSUME NEW v \in Verifiers, VerdictRefused(v) PROVE RunTypes'
  BY <1>4 DEF VerdictRefused, At
<1>5. ASSUME NEW v \in Verifiers, Score(v) PROVE RunTypes'
  BY <1>5 DEF Score, At
<1>6. ASSUME NEW v \in Verifiers, Load(v) PROVE RunTypes'
  <2>1. run[v] \in Run /\ job[sub[run[v].sub].job] \in Job
    BY <1>6, ItemTyped DEF Load, At, SubTypes, RunsKnown, RunKnown, Submission, JobTypes, Subs
  <2>2. [run[v] EXCEPT !.pc = "loaded", !.snap = job[sub[run[v].sub].job]] \in Run
    BY <2>1
  <2> HIDE DEF Run
  <2> QED BY <1>6, <2>2 DEF Load
<1>7. ASSUME NEW v \in Verifiers, Extend(v) PROVE RunTypes'
  <2>1. /\ run[v] \in Run /\ run[v].sub \in Subs /\ ver[Item(v)].status # "none"
        /\ run[v].attempt \in Attempts
    BY <1>7, ItemTyped DEF Extend, At, RunsKnown, RunKnown, EventsKnown, Subs
  <2>2. LastAttempt(run[v].sub) \in Attempts
    BY <2>1, LastAttemptIsLast DEF Item
  <2>3. LastAttempt(run[v].sub) + 1 \in 0 .. MaxAttempt
    BY <1>7, <2>2 DEF Extend, Retries, Attempts
  <2>4. [run[v] EXCEPT !.pc = "extended", !.next = LastAttempt(run[v].sub) + 1] \in Run
    BY <2>1, <2>3
  <2> HIDE DEF Run
  <2> QED BY <1>7, <2>4 DEF Extend
<1>8. ASSUME NEW v \in Verifiers, EnqueueNext(v) PROVE RunTypes'
  BY <1>8 DEF EnqueueNext, At, EnqueueVerification
<1>9. ASSUME NEW v \in Verifiers, KeepVerifying(v) PROVE RunTypes'
  <2>1. Answered(v) \in Run /\ [Answered(v) EXCEPT !.pc = "closed"] \in Run
    <3>1. Answered(v) \in Run
      BY <1>9, ItemTyped, RunAtTyped DEF KeepVerifying, At, Answered
    <3> QED BY <3>1
  <2> HIDE DEF Run
  <2> QED BY <1>9, <2>1 DEF KeepVerifying
<1>10. ASSUME NEW v \in Verifiers, Close(v) PROVE RunTypes'
  <2>1. Answered(v) \in Run /\ [Answered(v) EXCEPT !.pc = "closed"] \in Run
    <3>1. Answered(v) \in Run
      BY <1>10, ItemTyped, RunAtTyped DEF Close, At, Answered
    <3> QED BY <3>1
  <2> HIDE DEF Run
  <2> QED BY <1>10, <2>1 DEF Close
<1>11. ASSUME NEW v \in Verifiers, AddPayout(v) PROVE RunTypes'
  BY <1>11 DEF AddPayout, At
<1>12. ASSUME NEW v \in Verifiers, RequestPayout(v) PROVE RunTypes'
  BY <1>12 DEF RequestPayout, At
<1>13. ASSUME NEW v \in Verifiers, HandlerReturns(v) PROVE RunTypes'
  BY <1>13 DEF HandlerReturns, At
<1>14. ASSUME NEW v \in Verifiers, HandlerFails(v) PROVE RunTypes'
  BY <1>14 DEF HandlerFails, At
<1> QED
  BY <1>1, <1>2, <1>3, <1>4, <1>5, <1>6, <1>7, <1>8, <1>9, <1>10, <1>11, <1>12, <1>13, <1>14 DEF
     Next, SubmitStep, VerdictStep, ClaimSome, vars, ClaimRequest, LeaseJob, LeaseRefused,
     LeaseExpires, ReapExpiredLeases, ReleaseJobLease, SubmitRead, SubmitFindsEarlier, SubmitIsNew,
     SubmitInserts, SubmitConflicts, SubmitRefused, SubmitDuplicate, SubmitAddsVerification,
     SubmitEnqueues, SubmitUpdatesJob, RequestDies, VerifierClaimRefused, ClaimExpires,
     RequeueVerification, MarkDuplicate, OverrideVerdict, Mark, OverrideStep, OverrideLoads, OverrideCloses, OverrideAddsPayout, OverrideRequestsPayout, OverrideRegisters, OverrideDies

\* The payouts keep their types: one is requested only where there is one.
LEMMA PayTypesStep ==
  PayTypes /\ SubTypes /\ RunTypes /\ RunsKnown /\ PassKnown /\ AdminTypes /\ OverridesKnown /\ [Next]_vars
    => PayTypes'
<1> SUFFICES ASSUME PayTypes, SubTypes, RunTypes, RunsKnown, PassKnown, AdminTypes,
                    OverridesKnown, [Next]_vars
             PROVE  PayTypes'
  OBVIOUS
<1> USE JobAssumption DEF leasing, subs, work, budgets, admin, history, paying, JobAssumption, SubTypes,
   PayTypes
<1>1. CASE UNCHANGED <<inserted, payout, requested, passed>>
  BY <1>1
<1>2. ASSUME NEW r \in Requests, SubmitInserts(r) PROVE PayTypes'
  BY <1>2 DEF SubmitInserts
<1>3. ASSUME NEW v \in Verifiers, Score(v) PROVE PayTypes'
  <2>1. run[v].sub \in 1 .. inserted
    BY <1>3, ItemTyped DEF Score, At, RunsKnown, RunKnown, Subs
  <2> QED BY <1>3, <2>1 DEF Score
<1>4. ASSUME NEW v \in Verifiers, AddPayout(v) PROVE PayTypes'
  <2>1. run[v].sub \in 1 .. inserted
    BY <1>4, ItemTyped DEF AddPayout, At, RunsKnown, RunKnown, Subs
  <2> QED BY <1>4, <2>1 DEF AddPayout
<1>5. ASSUME NEW v \in Verifiers, RequestPayout(v) PROVE PayTypes'
  <2>1. run[v].sub \in payout
    BY <1>5 DEF RequestPayout, At, PassKnown, PassOwn
  <2> QED BY <1>5, <2>1 DEF RequestPayout
<1>6. ASSUME NEW a \in Admins, NEW s \in Subs, MarkDuplicate(a, s) PROVE PayTypes'
  BY <1>6 DEF MarkDuplicate, Mark
<1>7. ASSUME NEW a \in Admins, NEW s \in Subs, NEW verdict \in Verdicts, OverrideVerdict(a, s, verdict)
      PROVE  PayTypes'
  <2>1. s \in 1 .. inserted
    BY <1>7 DEF OverrideVerdict, Mark, Subs
  <2> QED BY <1>7, <2>1 DEF OverrideVerdict, Mark
<1>8. ASSUME NEW a \in Admins, OverrideAddsPayout(a) PROVE PayTypes'
  BY <1>8, OverrideTyped DEF OverrideAddsPayout
<1>9. ASSUME NEW a \in Admins, OverrideRequestsPayout(a) PROVE PayTypes'
  <2>1. override[a].sub \in payout
    BY <1>9 DEF OverrideRequestsPayout, OverridesKnown, OverrideOwn
  <2> QED BY <1>9, <2>1 DEF OverrideRequestsPayout
<1> QED
  BY <1>1, <1>2, <1>3, <1>4, <1>5, <1>6, <1>7, <1>8, <1>9 DEF Next, SubmitStep, VerdictStep, ClaimSome, vars,
     ClaimRequest, LeaseJob, LeaseRefused, LeaseExpires, ReapExpiredLeases, ReleaseJobLease,
     SubmitRead, SubmitFindsEarlier, SubmitIsNew, SubmitConflicts, SubmitRefused, SubmitDuplicate,
     SubmitAddsVerification, SubmitEnqueues, SubmitUpdatesJob, RequestDies, VerifierClaim,
     VerifierClaimRefused, ClaimExpires, Judge, VerdictRefused, Load, Extend, EnqueueNext,
     KeepVerifying, Close, HandlerReturns, HandlerFails, RequeueVerification, OverrideStep, OverrideLoads, OverrideCloses, OverrideRegisters, OverrideDies

\* The verifications and events keep their types, and none of them disappears.
LEMMA WorkStep ==
  WorkTypes /\ RunTypes /\ RequestsKnown /\ RunsKnown /\ [Next]_vars
    => WorkTypes' /\ WorkMoves
<1> SUFFICES ASSUME WorkTypes, RunTypes, RequestsKnown, RunsKnown, [Next]_vars
             PROVE  WorkTypes' /\ WorkMoves
  OBVIOUS
<1> USE JobAssumption DEF leasing, subs, work, budgets, admin, history, paying, JobAssumption, WorkTypes,
   WorkMoves,
          Verification, Queued, Finished
<1>1. CASE UNCHANGED <<ver, event>>
  BY <1>1
<1>2. ASSUME NEW r \in Requests, SubmitAddsVerification(r) PROVE WorkTypes' /\ WorkMoves
  BY <1>2 DEF SubmitAddsVerification
<1>3. ASSUME NEW r \in Requests, SubmitEnqueues(r) PROVE WorkTypes' /\ WorkMoves
  BY <1>3 DEF SubmitEnqueues, EnqueueVerification
<1>4. ASSUME NEW v \in Verifiers, NEW x \in Subs \X Attempts, VerifierClaim(v, x)
      PROVE  WorkTypes' /\ WorkMoves
  BY <1>4 DEF VerifierClaim, At, Overrun, RunAt
<1>5. ASSUME NEW v \in Verifiers, NEW x \in Subs \X Attempts, VerifierClaimRefused(v, x)
      PROVE  WorkTypes' /\ WorkMoves
  BY <1>5 DEF VerifierClaimRefused, At
<1>6. ASSUME NEW x \in Subs \X Attempts, ClaimExpires(x) PROVE WorkTypes' /\ WorkMoves
  BY <1>6 DEF ClaimExpires, Overrun
<1>7. ASSUME NEW v \in Verifiers, NEW verdict \in Verdicts, Judge(v, verdict)
      PROVE  WorkTypes' /\ WorkMoves
  BY <1>7 DEF Judge, At
<1>8. ASSUME NEW v \in Verifiers, VerdictRefused(v) PROVE WorkTypes' /\ WorkMoves
  BY <1>8 DEF VerdictRefused, At
<1>9. ASSUME NEW v \in Verifiers, Extend(v) PROVE WorkTypes' /\ WorkMoves
  BY <1>9 DEF Extend, At
<1>10. ASSUME NEW v \in Verifiers, EnqueueNext(v) PROVE WorkTypes' /\ WorkMoves
  BY <1>10 DEF EnqueueNext, At, EnqueueVerification
<1>11. ASSUME NEW v \in Verifiers, HandlerReturns(v) PROVE WorkTypes' /\ WorkMoves
  BY <1>11 DEF HandlerReturns, At
<1>12. ASSUME NEW v \in Verifiers, HandlerFails(v) PROVE WorkTypes' /\ WorkMoves
  BY <1>12 DEF HandlerFails, At
<1>13. ASSUME NEW x \in Subs \X Attempts, RequeueVerification(x) PROVE WorkTypes' /\ WorkMoves
  BY <1>13 DEF RequeueVerification
<1> QED
  BY <1>1, <1>2, <1>3, <1>4, <1>5, <1>6, <1>7, <1>8, <1>9, <1>10, <1>11, <1>12, <1>13 DEF Next,
     SubmitStep, VerdictStep, ClaimSome, vars, ClaimRequest, LeaseJob, LeaseRefused, LeaseExpires,
     ReapExpiredLeases, ReleaseJobLease, SubmitRead, SubmitFindsEarlier, SubmitIsNew, SubmitInserts,
     SubmitConflicts, SubmitRefused, SubmitDuplicate, SubmitUpdatesJob, RequestDies, Score, Load,
     KeepVerifying, Close, AddPayout, RequestPayout, MarkDuplicate, OverrideVerdict, Mark, OverrideStep, OverrideLoads, OverrideCloses, OverrideAddsPayout, OverrideRequestsPayout, OverrideRegisters, OverrideDies

\* No step changes whose a submission is; one is inserted at a time.
LEMMA SubStep == SubTypes /\ RunTypes /\ RunsKnown /\ [Next]_vars => SubMoves
<1> SUFFICES ASSUME SubTypes, RunTypes, RunsKnown, [Next]_vars PROVE SubMoves
  OBVIOUS
<1> USE JobAssumption DEF leasing, subs, work, budgets, admin, history, paying, JobAssumption, SubTypes,
   SubMoves,
          Submission
<1>1. CASE UNCHANGED <<sub, inserted>>
  BY <1>1
<1>2. ASSUME NEW r \in Requests, SubmitInserts(r) PROVE SubMoves
  BY <1>2, SubmissionInserted
<1>3. ASSUME NEW v \in Verifiers, Score(v) PROVE SubMoves
  <2>1. run[v].sub \in 1 .. inserted
    BY <1>3, ItemTyped DEF Score, At, RunsKnown, RunKnown, Subs
  <2> QED BY <1>3, <2>1 DEF Score
<1>4. ASSUME NEW a \in Admins, NEW s \in Subs, MarkDuplicate(a, s) PROVE SubMoves
  BY <1>4 DEF MarkDuplicate, Mark
<1>5. ASSUME NEW a \in Admins, NEW s \in Subs, NEW verdict \in Verdicts, OverrideVerdict(a, s, verdict)
      PROVE  SubMoves
  BY <1>5 DEF OverrideVerdict, Mark
<1> QED
  BY <1>1, <1>2, <1>3, <1>4, <1>5 DEF Next, SubmitStep, VerdictStep, ClaimSome, vars, ClaimRequest,
     LeaseJob, LeaseRefused, LeaseExpires, ReapExpiredLeases, ReleaseJobLease, SubmitRead,
     SubmitFindsEarlier, SubmitIsNew, SubmitConflicts, SubmitRefused, SubmitDuplicate,
     SubmitAddsVerification, SubmitEnqueues, SubmitUpdatesJob, RequestDies, VerifierClaim,
     VerifierClaimRefused, ClaimExpires, Judge, VerdictRefused, Load, Extend, EnqueueNext,
     KeepVerifying, Close, AddPayout, RequestPayout, HandlerReturns, HandlerFails,
     RequeueVerification, OverrideStep, OverrideLoads, OverrideCloses, OverrideAddsPayout, OverrideRequestsPayout, OverrideRegisters, OverrideDies

\* What an admin request may do to the admin requests: it begins, loads the row,
\* goes on with its payout, or ends.
AdminMoves ==
  \A a \in Admins :
    \/ override'[a] = override[a]
    \/ override'[a] = NoOverride
    \/ \E s \in Subs, verdict \in Verdicts \cup {"duplicate"} :
         /\ s <= inserted /\ override'[a] = Overriding("marked", s, verdict)
         /\ verdict = "pass" => s \in passed'
    \/ /\ override[a].pc = "marked"
       /\ override'[a] = [override[a] EXCEPT !.pc = "loaded", !.snap = job[sub[override[a].sub].job]]
    \/ /\ override[a].pc = "loaded" /\ override[a].verdict = "pass"
       /\ override'[a] = Overriding("closed", override[a].sub, "pass")
    \/ /\ override[a].pc = "closed" /\ override[a].sub \in payout'
       /\ override'[a] = [override[a] EXCEPT !.pc = "payable"]
    \/ /\ override[a].pc = "payable"
       /\ override'[a] = [override[a] EXCEPT !.pc = "requested"]

\* Every step is one of these, and makes no submission unpassed or unpaid.
LEMMA AdminStep ==
  ASSUME AdminTypes, [Next]_vars
  PROVE  AdminMoves /\ override' = [a \in Admins |-> override'[a]]
         /\ passed \subseteq passed' /\ payout \subseteq payout'
<1> USE DEF leasing, subs, work, budgets, admin, history, paying, AdminMoves, AdminTypes
<1>1. CASE UNCHANGED override /\ passed \subseteq passed' /\ payout \subseteq payout'
  BY <1>1
<1>2. ASSUME NEW b \in Admins, NEW s \in Subs, MarkDuplicate(b, s)
      PROVE  AdminMoves /\ override' = [a \in Admins |-> override'[a]]
             /\ passed \subseteq passed' /\ payout \subseteq payout'
  <2>1. s <= inserted /\ passed \subseteq passed' /\ payout \subseteq payout'
        /\ override' = [override EXCEPT ![b] = Overriding("marked", s, "duplicate")]
    BY <1>2 DEF MarkDuplicate, Mark
  <2> QED BY <2>1
<1>3. ASSUME NEW b \in Admins, NEW s \in Subs, NEW verdict \in Verdicts, OverrideVerdict(b, s, verdict)
      PROVE  AdminMoves /\ override' = [a \in Admins |-> override'[a]]
             /\ passed \subseteq passed' /\ payout \subseteq payout'
  <2>1. s <= inserted /\ passed \subseteq passed' /\ payout \subseteq payout'
        /\ (verdict = "pass" => s \in passed')
        /\ override' = [override EXCEPT ![b] = Overriding("marked", s, verdict)]
    BY <1>3 DEF OverrideVerdict, Mark
  <2> QED BY <2>1
<1>4. ASSUME NEW b \in Admins, OverrideLoads(b)
      PROVE  AdminMoves /\ override' = [a \in Admins |-> override'[a]]
             /\ passed \subseteq passed' /\ payout \subseteq payout'
  BY <1>4 DEF OverrideLoads
<1>5. ASSUME NEW b \in Admins, OverrideCloses(b)
      PROVE  AdminMoves /\ override' = [a \in Admins |-> override'[a]]
             /\ passed \subseteq passed' /\ payout \subseteq payout'
  BY <1>5 DEF OverrideCloses
<1>6. ASSUME NEW b \in Admins, OverrideAddsPayout(b)
      PROVE  AdminMoves /\ override' = [a \in Admins |-> override'[a]]
             /\ passed \subseteq passed' /\ payout \subseteq payout'
  BY <1>6 DEF OverrideAddsPayout
<1>7. ASSUME NEW b \in Admins, OverrideRequestsPayout(b)
      PROVE  AdminMoves /\ override' = [a \in Admins |-> override'[a]]
             /\ passed \subseteq passed' /\ payout \subseteq payout'
  BY <1>7 DEF OverrideRequestsPayout
<1>8. ASSUME NEW b \in Admins, OverrideRegisters(b) \/ OverrideDies(b)
      PROVE  AdminMoves /\ override' = [a \in Admins |-> override'[a]]
             /\ passed \subseteq passed' /\ payout \subseteq payout'
  BY <1>8 DEF OverrideRegisters, OverrideDies
<1> QED
  BY <1>1, <1>2, <1>3, <1>4, <1>5, <1>6, <1>7, <1>8 DEF
     Next, SubmitStep, VerdictStep, ClaimSome, vars, ClaimRequest, LeaseJob, LeaseRefused,
     LeaseExpires, ReapExpiredLeases, ReleaseJobLease, SubmitRead, SubmitFindsEarlier,
     SubmitIsNew, SubmitInserts, SubmitConflicts, SubmitRefused, SubmitDuplicate,
     SubmitAddsVerification, SubmitEnqueues, SubmitUpdatesJob, RequestDies, VerifierClaim,
     VerifierClaimRefused, ClaimExpires, Judge, VerdictRefused, Score, Load, Extend,
     EnqueueNext, KeepVerifying, Close, AddPayout, RequestPayout, HandlerReturns, HandlerFails,
     RequeueVerification, OverrideStep

\* The admin requests keep their types.
LEMMA AdminTypesStep ==
  ASSUME AdminTypes, SubTypes, JobTypes, OverridesKnown, [Next]_vars
  PROVE  AdminTypes'
<1>1. AdminMoves /\ override' = [a \in Admins |-> override'[a]]
  BY AdminStep
<1>2. NoJob \in Job
  BY JobAssumption DEF NoJob, Job, JobAssumption
<1>3. ASSUME NEW a \in Admins PROVE override'[a] \in Override \cup {NoOverride}
  <2>1. override[a] \in Override \cup {NoOverride}
    BY DEF AdminTypes
  <2>2. \A p \in {"marked", "closed"}, s \in Subs, verdict \in Verdicts \cup {"duplicate"} :
          Overriding(p, s, verdict) \in Override
    BY <1>2 DEF Overriding, Override
  <2>3. ASSUME override[a].pc # "idle"
        PROVE  /\ override[a] \in Override /\ override[a].sub \in Subs
               /\ job[sub[override[a].sub].job] \in Job
    BY <2>3, OverrideTyped DEF JobTypes, Override
  <2>4. ASSUME NEW row \in Override, NEW snap \in Job
        PROVE  /\ [row EXCEPT !.pc = "loaded", !.snap = snap] \in Override
               /\ [row EXCEPT !.pc = "payable"] \in Override
               /\ [row EXCEPT !.pc = "requested"] \in Override
    BY DEF Override
  <2>5. "pass" \in Verdicts
    BY DEF Verdicts
  <2>6. \/ override'[a] = override[a]
        \/ override'[a] = NoOverride
        \/ \E s \in Subs, verdict \in Verdicts \cup {"duplicate"} :
             override'[a] = Overriding("marked", s, verdict)
        \/ /\ override[a].pc # "idle"
           /\ override'[a] = [override[a] EXCEPT !.pc = "loaded", !.snap = job[sub[override[a].sub].job]]
        \/ override[a].pc # "idle" /\ override'[a] = Overriding("closed", override[a].sub, "pass")
        \/ override[a].pc # "idle" /\ override'[a] = [override[a] EXCEPT !.pc = "payable"]
        \/ override[a].pc # "idle" /\ override'[a] = [override[a] EXCEPT !.pc = "requested"]
    <3>1. "marked" # "idle" /\ "loaded" # "idle" /\ "closed" # "idle" /\ "payable" # "idle"
      OBVIOUS
    <3> QED BY <1>1, <3>1, Zenon DEF AdminMoves
  <2>7. CASE override[a].pc # "idle"
    <3>1. Overriding("closed", override[a].sub, "pass") \in Override
      BY <2>2, <2>3, <2>5, <2>7
    <3>2. /\ [override[a] EXCEPT !.pc = "loaded", !.snap = job[sub[override[a].sub].job]] \in Override
          /\ [override[a] EXCEPT !.pc = "payable"] \in Override
          /\ [override[a] EXCEPT !.pc = "requested"] \in Override
      BY <2>3, <2>4, <2>7, Zenon
    <3>3. override[a] \in Override
      BY <2>3, <2>7
    <3>4. \A s \in Subs, verdict \in Verdicts \cup {"duplicate"} :
            Overriding("marked", s, verdict) \in Override
      BY <2>2
    <3> QED BY <2>6, <3>1, <3>2, <3>3, <3>4, Zenon
  <2>8. CASE override[a].pc = "idle"
    BY <2>1, <2>2, <2>6, <2>8, Zenon
  <2> QED BY <2>7, <2>8
<1> QED BY <1>1, <1>3 DEF AdminTypes

\* What an admin request knows stays so, whatever it and the others do.
LEMMA OverridesKnownStep ==
  ASSUME AdminTypes, SubTypes, JobTypes, LeaseTypes, LeaseKept, OverridesKnown, LeaseTypes',
         SubTypes', LeaseMoves, SubMoves, [Next]_vars
  PROVE  OverridesKnown'
<1> SUFFICES ASSUME NEW a \in Admins, override'[a].pc # "idle" PROVE OverrideOwn(a)'
  BY DEF OverridesKnown, OverrideOwn
<1>1. AdminMoves /\ passed \subseteq passed' /\ payout \subseteq payout'
  BY AdminStep
<1>2. inserted \in Nat /\ inserted' \in Nat /\ inserted <= inserted'
  BY JobAssumption DEF SubTypes, SubMoves, JobAssumption
<1>3. granted \in Nat /\ granted' \in Nat /\ granted <= granted'
  BY JobAssumption DEF LeaseTypes, LeaseMoves, JobAssumption
<1>4. OverrideOwn(a)
  BY DEF OverridesKnown
<1>5. CASE override'[a] = override[a]
  <2>1. override[a].snap.lease \in Nat
    BY <1>5, OverrideTyped DEF Job
  <2> QED BY <1>1, <1>2, <1>3, <1>4, <1>5, <2>1 DEF OverrideOwn
<1>6. ASSUME NEW s \in Subs, NEW verdict \in Verdicts \cup {"duplicate"},
             s <= inserted, override'[a] = Overriding("marked", s, verdict),
             verdict = "pass" => s \in passed'
      PROVE  OverrideOwn(a)'
  <2>1. s \in 1 .. inserted'
    BY <1>2, <1>6 DEF Subs
  <2>2. /\ override'[a].pc = "marked" /\ override'[a].sub = s /\ override'[a].verdict = verdict
        /\ override'[a].snap.lease = 0
    BY <1>6 DEF Overriding, NoJob
  <2> QED BY <1>3, <1>6, <2>1, <2>2 DEF OverrideOwn
<1>7. ASSUME override[a].pc = "marked",
             override'[a] = [override[a] EXCEPT !.pc = "loaded", !.snap = job[sub[override[a].sub].job]]
      PROVE  OverrideOwn(a)'
  <2>1. override[a] \in Override /\ override[a].sub \in 1 .. inserted /\ sub[override[a].sub].job \in Jobs
    BY <1>7, OverrideTyped
  <2>2. /\ override'[a].pc = "loaded" /\ override'[a].sub = override[a].sub
        /\ override'[a].verdict = override[a].verdict
        /\ override'[a].snap = job[sub[override[a].sub].job]
    BY <1>7, <2>1 DEF Override
  <2>3. override'[a].snap.lease <= granted /\ override'[a].snap.lease \in Nat
    BY <2>1, <2>2 DEF LeaseKept, JobTypes, Job
  <2>4. override[a].verdict = "pass" => override[a].sub \in passed'
    BY <1>1, <1>4, <1>7 DEF OverrideOwn
  <2> QED BY <1>2, <1>3, <2>1, <2>2, <2>3, <2>4 DEF OverrideOwn
<1>8. ASSUME override[a].pc = "loaded", override[a].verdict = "pass",
             override'[a] = Overriding("closed", override[a].sub, "pass")
      PROVE  OverrideOwn(a)'
  <2>1. /\ override'[a].pc = "closed" /\ override'[a].sub = override[a].sub
        /\ override'[a].snap.lease = 0
    BY <1>8 DEF Overriding, NoJob
  <2>2. override[a].sub \in 1 .. inserted /\ override[a].sub \in passed'
    BY <1>1, <1>4, <1>8 DEF OverrideOwn
  <2> QED BY <1>2, <1>3, <2>1, <2>2 DEF OverrideOwn
<1>9. ASSUME NEW p \in {"payable", "requested"}, override'[a] = [override[a] EXCEPT !.pc = p],
             p = "payable" => override[a].pc = "closed" /\ override[a].sub \in payout',
             p = "requested" => override[a].pc = "payable"
      PROVE  OverrideOwn(a)'
  <2>1. override[a].pc \in {"closed", "payable"}
    BY <1>9
  <2>2. /\ override[a] \in Override /\ override[a].sub \in 1 .. inserted
        /\ override[a].snap.lease <= granted /\ override[a].snap.lease \in Nat
    BY <2>1, OverrideTyped DEF Job
  <2>3. /\ override'[a].pc = p /\ override'[a].sub = override[a].sub
        /\ override'[a].snap = override[a].snap
    BY <1>9, <2>2 DEF Override
  <2>4. override[a].sub \in passed'
    BY <1>1, <1>4, <2>1 DEF OverrideOwn
  <2> QED BY <1>2, <1>3, <1>9, <2>2, <2>3, <2>4 DEF OverrideOwn
<1>10. override'[a] # NoOverride
  BY DEF NoOverride
<1>11. \/ override'[a] = override[a]
       \/ \E s \in Subs, verdict \in Verdicts \cup {"duplicate"} :
            /\ s <= inserted /\ override'[a] = Overriding("marked", s, verdict)
            /\ verdict = "pass" => s \in passed'
       \/ /\ override[a].pc = "marked"
          /\ override'[a] = [override[a] EXCEPT !.pc = "loaded", !.snap = job[sub[override[a].sub].job]]
       \/ /\ override[a].pc = "loaded" /\ override[a].verdict = "pass"
          /\ override'[a] = Overriding("closed", override[a].sub, "pass")
       \/ /\ override[a].pc = "closed" /\ override[a].sub \in payout'
          /\ override'[a] = [override[a] EXCEPT !.pc = "payable"]
       \/ /\ override[a].pc = "payable"
          /\ override'[a] = [override[a] EXCEPT !.pc = "requested"]
  BY <1>1, <1>10 DEF AdminMoves
<1> QED BY <1>5, <1>6, <1>7, <1>8, <1>9, <1>11

=============================================================================
