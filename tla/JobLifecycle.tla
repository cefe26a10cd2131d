----------------------------- MODULE JobLifecycle -----------------------------
(***************************************************************************)
(* A job from its lease to its payout: the worker endpoints of             *)
(* src/server.ts (claim, release, submit), the verifier endpoints (claim,  *)
(* verdict) driven by handleVerificationRequested, the lease reaper and    *)
(* the admin overrides, over the tables jobs, submissions, verifications,  *)
(* payouts and the verification.requested events of the outbox.            *)
(*                                                                         *)
(* leaseJob is a transaction and one action.  submit and verdict are not:  *)
(* they read the job row, await other queries and write the whole row back *)
(* (updateJob), so each is a process whose steps are its awaits.  So are   *)
(* the admin's override of a verdict and mark-duplicate.                   *)
(*                                                                         *)
(* A lease is numbered in the order it was granted; the number stands for  *)
(* lease_worker_id, lease_nonce and lease_expires_at, which are always     *)
(* written together.  All leases have the same TTL, so they expire in that *)
(* order.  A claim token is the verifier process that was given it.  The   *)
(* outbox is used through the promise of LeaseQueue.                       *)
(***************************************************************************)
EXTENDS Naturals, FiniteSets, Sequences

CONSTANTS Jobs, Workers,
          Keys,           \* the Idempotency-Keys a worker uses for a job, NoKey among
                          \* them if it may send none
          NoKey,
          Nobody,         \* no worker, no verifier
          Requests,       \* concurrent submit requests
          Verifiers,      \* concurrent runs of handleVerificationRequested
          Admins,         \* concurrent requests of an admin
          MaxAttempt,     \* MAX_VERIFICATION_ATTEMPTS
          MaxLeases,      \* bound: leases granted
          MaxSubs,        \* bound: submissions inserted
          MaxFailures,    \* bound: requests and handlers that die half-way
          MaxRedeliveries,\* bound: events and claims that outlast a live handler's hold
          MaxOverrides    \* bound: admin interventions

ASSUME JobAssumption ==
  /\ MaxAttempt \in Nat \ {0}
  /\ MaxLeases \in Nat /\ MaxSubs \in Nat
  /\ MaxFailures \in Nat /\ MaxRedeliveries \in Nat /\ MaxOverrides \in Nat
  /\ Nobody \notin Workers \cup Verifiers

Leases == 1 .. MaxLeases
Subs == 1 .. MaxSubs
Attempts == 1 .. MaxAttempt

VARIABLES
  job,        \* jobs: status, lease (0: no lease), sub = current_submission_id (0: none);
              \* writes is history: how often the row was written
  grant,      \* history: who was granted a lease, and for which job
  granted,    \* how many leases were granted
  expired,    \* how many of them have passed lease_expires_at
  given,      \* history: leases given back with POST .../release
  asking,     \* claim requests past their own checks, not yet at leaseJob
  sub,        \* submissions: job, worker, key, status
  inserted,   \* how many submissions there are
  registered, \* accepted_dedupe has a row for this bounty
  payout,     \* submissions with a payout row
  requested,  \* submissions with a payout.requested event
  ver,        \* verifications: status, holder of claim_token, live: not expired
  event,      \* verification.requested events, by submission and attempt
  req,        \* the submit requests in progress
  run,        \* the handler runs in progress
  override,   \* the admin requests in progress
  passed,     \* history: submissions some verdict or admin passed
  clobbered,  \* history: jobs on which updateJob undid a newer write
  failures, redeliveries, overrides

leasing == <<grant, granted, expired, given, asking>>
subs == <<sub, inserted, registered>>
work == <<ver, event>>
admin == <<override, overrides>>
budgets == <<failures, redeliveries, admin>>
history == <<passed, clobbered>>
paying == <<payout, requested>>
vars == <<job, leasing, subs, paying, work, req, run, history, budgets>>

Job == [status : {"open", "claimed", "verifying", "done", "expired"},
        lease : 0 .. MaxLeases, sub : 0 .. MaxSubs, writes : Nat]
NoJob == [status |-> "open", lease |-> 0, sub |-> 0, writes |-> 0]
Submission == [job : Jobs, worker : Workers, key : Keys,
               status : {"submitted", "duplicate", "accepted", "failed", "inconclusive"}]
Verification == [status : {"none", "queued", "in_progress", "finished"},
                 holder : Verifiers \cup {Nobody}, live : BOOLEAN]
NoVerification == [status |-> "none", holder |-> Nobody, live |-> FALSE]
Queued == [status |-> "queued", holder |-> Nobody, live |-> FALSE]
Finished == [status |-> "finished", holder |-> Nobody, live |-> FALSE]
Verdicts == {"pass", "fail", "inconclusive"}

\* A submit request: pc, the job it read and its snapshot, the key, its submission.
NoRequest == [pc |-> "idle"]
Request == [pc : {"read", "new", "inserted", "verifiable", "enqueued"}, job : Jobs, snap : Job,
            key : Keys, sub : 0 .. MaxSubs, retry : BOOLEAN]

\* A handler run: the event it works on, the verdict and the job snapshot.
NoRun == [pc |-> "idle"]
Run == [pc : {"claimed", "judged", "scored", "loaded", "extended", "enqueued", "closed",
              "payable", "answered"},
        sub : Subs, attempt : Attempts, verdict : Verdicts, snap : Job, next : 0 .. MaxAttempt]

\* An admin request: the submission, its new verdict, the job snapshot.
NoOverride == [pc |-> "idle"]
Override == [pc : {"marked", "loaded", "closed", "payable", "requested"},
             sub : Subs, verdict : Verdicts \cup {"duplicate"}, snap : Job]

TypeOK ==
  /\ job \in [Jobs -> Job]
  /\ granted \in 0 .. MaxLeases /\ expired \in 0 .. granted
  /\ grant \in [1 .. granted -> [job : Jobs, worker : Workers]]
  /\ given \in SUBSET (1 .. granted)
  /\ asking \in SUBSET (Workers \X Jobs)
  /\ inserted \in 0 .. MaxSubs
  /\ sub \in [1 .. inserted -> Submission]
  /\ registered \in BOOLEAN
  /\ payout \in SUBSET (1 .. inserted) /\ requested \in SUBSET payout
  /\ ver \in [Subs \X Attempts -> Verification]
  /\ event \in [Subs \X Attempts -> {"absent", "queued", "sent", "deadletter"}]
  /\ req \in [Requests -> Request \cup {NoRequest}]
  /\ run \in [Verifiers -> Run \cup {NoRun}]
  /\ override \in [Admins -> Override \cup {NoOverride}]
  /\ passed \in SUBSET (1 .. inserted)
  /\ clobbered \in SUBSET Jobs
  /\ failures \in 0 .. MaxFailures
  /\ redeliveries \in 0 .. MaxRedeliveries
  /\ overrides \in 0 .. MaxOverrides

Init ==
  /\ job = [j \in Jobs |-> NoJob]
  /\ grant = <<>> /\ granted = 0 /\ expired = 0 /\ given = {} /\ asking = {}
  /\ sub = <<>> /\ inserted = 0 /\ registered = FALSE
  /\ payout = {} /\ requested = {}
  /\ ver = [x \in Subs \X Attempts |-> NoVerification]
  /\ event = [x \in Subs \X Attempts |-> "absent"]
  /\ req = [r \in Requests |-> NoRequest]
  /\ run = [v \in Verifiers |-> NoRun]
  /\ override = [a \in Admins |-> NoOverride]
  /\ passed = {} /\ clobbered = {}
  /\ failures = 0 /\ redeliveries = 0 /\ overrides = 0

-----------------------------------------------------------------------------
(* Leases *)

Live(l) == l > expired            \* lease_expires_at >= now()
Holder(j) == IF job[j].lease = 0 THEN Nobody ELSE grant[job[j].lease].worker

\* What leaseJob asks of the worker, under its advisory lock, and of the job.
Active(w, j) ==
  /\ Holder(j) = w
  /\ job[j].status = "verifying" \/ (job[j].status = "claimed" /\ Live(job[j].lease))
\* Faulty: only jobs under verification count.
FreeToLeaseWhileClaiming(w) == \A j \in Jobs : Active(w, j) => job[j].status # "verifying"
FreeToLease(w) == \A j \in Jobs : ~Active(w, j)
\* Faulty: lease_expires_at is not asked about.
LeasableAnyClaimed(j) == job[j].status \in {"open", "claimed"}
Leasable(j) ==
  \/ job[j].status = "open"
  \/ job[j].status = "claimed" /\ ~Live(job[j].lease)

\* getActiveJobForWorker: claimed counts even when the lease has expired.
Busy(w) == \E j \in Jobs : Holder(j) = w /\ job[j].status \in {"claimed", "verifying"}

\* The row after a statement that sets its status and its lease.
Edited(row, status, lease) ==
  [row EXCEPT !.status = status, !.lease = lease, !.writes = @ + 1]

\* POST /api/jobs/:jobId/claim: the endpoint's own checks, before leaseJob.
ClaimRequest(w, j) ==
  /\ <<w, j>> \notin asking
  /\ ~Busy(w)
  /\ job[j].status = "open" \/ (job[j].lease # 0 /\ ~Live(job[j].lease))
  /\ asking' = asking \cup {<<w, j>>}
  /\ UNCHANGED <<job, grant, granted, expired, given, subs, paying, work, req, run, history, budgets>>

LeaseJob(w, j) ==
  /\ <<w, j>> \in asking
  /\ FreeToLease(w) /\ Leasable(j)
  /\ granted < MaxLeases
  /\ granted' = granted + 1
  /\ grant' = Append(grant, [job |-> j, worker |-> w])
  /\ job' = [job EXCEPT ![j] = Edited(@, "claimed", granted + 1)]
  /\ asking' = asking \ {<<w, j>>}
  /\ UNCHANGED <<expired, given, subs, paying, work, req, run, history, budgets>>

LeaseRefused(w, j) ==
  /\ <<w, j>> \in asking
  /\ ~(FreeToLease(w) /\ Leasable(j))
  /\ asking' = asking \ {<<w, j>>}
  /\ UNCHANGED <<job, grant, granted, expired, given, subs, paying, work, req, run, history, budgets>>

\* The clock passes the next lease_expires_at.
LeaseExpires ==
  /\ expired < granted
  /\ expired' = expired + 1
  /\ UNCHANGED <<job, grant, granted, given, asking, subs, paying, work, req, run, history, budgets>>

\* releaseJobLease: by worker and nonce, expired or not.
ReleaseJobLease(j) ==
  /\ job[j].status = "claimed"
  /\ given' = given \cup {job[j].lease}
  /\ job' = [job EXCEPT ![j] = Edited(@, "open", 0)]
  /\ UNCHANGED <<grant, granted, expired, asking, subs, paying, work, req, run, history, budgets>>

\* Faulty: a status the jobs table does not know.
ReapExpiredMisspelt ==
  /\ \E j \in Jobs : job[j].status = "claimed" /\ ~Live(job[j].lease)
  /\ job' = [j \in Jobs |-> IF job[j].status = "claimed" /\ ~Live(job[j].lease)
                            THEN Edited(job[j], "reaped", 0)
                            ELSE job[j]]
  /\ UNCHANGED <<leasing, subs, paying, work, req, run, history, budgets>>

\* reapExpiredLeases: such a job is never leased again.
ReapExpiredLeases ==
  LET reaped == {j \in Jobs : job[j].status = "claimed" /\ ~Live(job[j].lease)} IN
  /\ reaped # {}
  /\ job' = [j \in Jobs |-> IF j \in reaped
                            THEN Edited(job[j], "expired", 0)
                            ELSE job[j]]
  /\ UNCHANGED <<leasing, subs, paying, work, req, run, history, budgets>>

-----------------------------------------------------------------------------
(* Submit *)

\* updateJob writes the whole row from what the handler read before.
UpdateJob(j, snap, row) ==
  /\ job' = [job EXCEPT ![j] = [row EXCEPT !.writes = job[j].writes + 1]]
  /\ clobbered' = IF job[j] # snap THEN clobbered \cup {j} ELSE clobbered

\* The request is checked against the job row it reads.  With a current
\* submission of the same worker that submission is the answer (path 1).
SubmitRead(r, j, k) ==
  /\ req[r].pc = "idle"
  /\ job[j].lease # 0 /\ Live(job[j].lease)
  /\ job[j].sub # 0 => sub[job[j].sub].worker # Holder(j)
  /\ inserted < MaxSubs \/ \E s \in 1 .. inserted : sub[s].key = k /\ k # NoKey
  /\ req' = [req EXCEPT ![r] = [pc |-> "read", job |-> j, snap |-> job[j], key |-> k,
                                sub |-> 0, retry |-> FALSE]]
  /\ UNCHANGED <<job, leasing, subs, paying, work, run, history, budgets>>

Submitter(r) == grant[req[r].snap.lease].worker

Answer(r) == req' = [req EXCEPT ![r] = NoRequest]

\* findSubmissionByIdempotency
Earlier(r) ==
  {s \in 1 .. inserted : /\ sub[s].job = req[r].job /\ sub[s].worker = Submitter(r)
                         /\ sub[s].key = req[r].key /\ req[r].key # NoKey}

\* Path 2: the key is known, the submission of the first request is taken up.
SubmitFindsEarlier(r) ==
  /\ req[r].pc = "read"
  /\ \E s \in Earlier(r) :
       req' = [req EXCEPT ![r] = [req[r] EXCEPT !.pc = "inserted", !.sub = s, !.retry = TRUE]]
  /\ UNCHANGED <<job, leasing, subs, paying, work, run, history, budgets>>

\* No key, or no submission under it yet: the request goes on as a first one.
SubmitIsNew(r) ==
  /\ req[r].pc = "read" /\ Earlier(r) = {}
  /\ req' = [req EXCEPT ![r].pc = "new"]
  /\ UNCHANGED <<job, leasing, subs, paying, work, run, history, budgets>>

\* Faulty: no unique index on (job, worker, idempotency_key).
SubmitInsertsUnindexed(r) ==
  /\ req[r].pc = "new" /\ inserted < MaxSubs
  /\ sub' = Append(sub, [job |-> req[r].job, worker |-> Submitter(r), key |-> req[r].key,
                         status |-> "submitted"])
  /\ inserted' = inserted + 1
  /\ req' = [req EXCEPT ![r] = [req[r] EXCEPT !.pc = "inserted", !.sub = inserted + 1]]
  /\ UNCHANGED <<job, leasing, registered, paying, work, run, history, budgets>>

\* findDuplicate and addSubmission.  Once a key is registered for the bounty the
\* content may or may not be a duplicate.
SubmitInserts(r) ==
  /\ req[r].pc = "new" /\ Earlier(r) = {} /\ inserted < MaxSubs
  /\ \E dup \in IF registered THEN BOOLEAN ELSE {FALSE} :
       sub' = Append(sub, [job |-> req[r].job, worker |-> Submitter(r), key |-> req[r].key,
                           status |-> IF dup THEN "duplicate" ELSE "submitted"])
  /\ inserted' = inserted + 1
  /\ req' = [req EXCEPT ![r] = [req[r] EXCEPT !.pc = "inserted", !.sub = inserted + 1]]
  /\ UNCHANGED <<job, leasing, registered, paying, work, run, history, budgets>>

\* A twin request has inserted the key since: the unique index refuses the row.
SubmitConflicts(r) ==
  /\ req[r].pc = "new" /\ Earlier(r) # {}
  /\ Answer(r)
  /\ UNCHANGED <<job, leasing, subs, paying, work, run, history, budgets>>

\* attachSubmissionArtifacts throws (an unscanned artifact: 400), or a twin request
\* has added the verification already (unique index: 500).  The row stays.
SubmitRefused(r) ==
  /\ req[r].pc = "inserted"
  /\ Answer(r)
  /\ UNCHANGED <<job, leasing, subs, paying, work, run, history, budgets>>

\* A new duplicate ends the job at once.
SubmitDuplicate(r) ==
  /\ req[r].pc = "inserted" /\ ~req[r].retry /\ sub[req[r].sub].status = "duplicate"
  /\ UpdateJob(req[r].job, req[r].snap, [req[r].snap EXCEPT !.status = "done", !.sub = req[r].sub])
  /\ Answer(r)
  /\ UNCHANGED <<leasing, subs, paying, work, run, passed, budgets>>

\* addVerification; a retry adds it only when it is missing, and skips the event
\* unless the verification is still queued.
SubmitAddsVerification(r) ==
  LET x == <<req[r].sub, 1>> IN
  /\ req[r].pc = "inserted"
  /\ ~req[r].retry => sub[req[r].sub].status # "duplicate" /\ ver[x].status = "none"
  /\ ver' = IF ver[x].status = "none" THEN [ver EXCEPT ![x] = Queued] ELSE ver
  /\ req' = [req EXCEPT ![r].pc = IF ver[x].status \in {"none", "queued"} THEN "verifiable"
                                                                          ELSE "enqueued"]
  /\ UNCHANGED <<job, leasing, subs, paying, event, run, history, budgets>>

\* enqueueOutbox under the key verification:<submission>:<attempt>
EnqueueVerification(x) ==
  event' = IF event[x] = "absent" THEN [event EXCEPT ![x] = "queued"] ELSE event

SubmitEnqueues(r) ==
  /\ req[r].pc = "verifiable"
  /\ EnqueueVerification(<<req[r].sub, 1>>)
  /\ req' = [req EXCEPT ![r].pc = "enqueued"]
  /\ UNCHANGED <<job, leasing, subs, paying, ver, run, history, budgets>>

\* The last updateJob.  A retry writes the row only if the job it read was not
\* past submission yet (respondWithExistingSubmission heals a missing pointer).
SubmitUpdatesJob(r) ==
  LET snap == req[r].snap
      early == ~req[r].retry \/ snap.status \in {"claimed", "open"} IN
  /\ req[r].pc = "enqueued"
  /\ IF early \/ snap.sub = 0
     THEN UpdateJob(req[r].job, snap,
                    [snap EXCEPT !.status = IF early THEN "verifying" ELSE @, !.sub = req[r].sub])
     ELSE UNCHANGED <<job, clobbered>>
  /\ Answer(r)
  /\ UNCHANGED <<leasing, subs, paying, work, run, passed, budgets>>

\* The API process dies or a query fails; the client may retry.
RequestDies(r) ==
  /\ req[r].pc # "idle" /\ failures < MaxFailures
  /\ failures' = failures + 1
  /\ Answer(r)
  /\ UNCHANGED <<job, leasing, subs, paying, work, run, history, redeliveries, admin>>

-----------------------------------------------------------------------------
(* Verification: handleVerificationRequested, verifier claim and verdict *)

At(v, p) == run[v].pc = p
RunAt(p, x) == [pc |-> p, sub |-> x[1], attempt |-> x[2], verdict |-> "fail", snap |-> NoJob, next |-> 0]
Item(v) == <<run[v].sub, run[v].attempt>>
Answered(v) == RunAt("answered", Item(v))

\* Something is taken from a handler that still runs: its lock or its claim.
Overrun(really) ==
  /\ really => redeliveries < MaxRedeliveries
  /\ redeliveries' = IF really THEN redeliveries + 1 ELSE redeliveries

\* Faulty: a finished verification is refused, as "already claimed".
VerifierClaimUnfinished(v, x) ==
  /\ At(v, "idle") /\ event[x] = "queued"
  /\ Overrun(\E u \in Verifiers : ~At(u, "idle") /\ Item(u) = x)
  /\ ver[x].status # "finished" /\ ~(ver[x].status = "in_progress" /\ ver[x].live)
  /\ ver' = [ver EXCEPT ![x] = [status |-> "in_progress", holder |-> v, live |-> TRUE]]
  /\ run' = [run EXCEPT ![v] = RunAt("claimed", x)]
  /\ UNCHANGED <<job, leasing, subs, paying, event, req, history, failures, admin>>

\* The event is taken and POST /api/verifier/claim answers with a token, also
\* when the verification is finished.  A missing verification is created.
VerifierClaim(v, x) ==
  /\ At(v, "idle") /\ event[x] = "queued"
  /\ Overrun(\E u \in Verifiers : ~At(u, "idle") /\ Item(u) = x)
  /\ ~(ver[x].status = "in_progress" /\ ver[x].live)
  /\ ver' = [ver EXCEPT ![x] = [status |-> "in_progress", holder |-> v, live |-> TRUE]]
  /\ run' = [run EXCEPT ![v] = RunAt("claimed", x)]
  /\ UNCHANGED <<job, leasing, subs, paying, event, req, history, failures, admin>>

\* already_claimed, as often as there are attempts (a refusal before the last one
\* leaves the event queued).
VerifierClaimRefused(v, x) ==
  /\ At(v, "idle") /\ event[x] = "queued"
  /\ ver[x].status = "in_progress" /\ ver[x].live
  /\ event' = [event EXCEPT ![x] = "deadletter"]
  /\ UNCHANGED <<job, leasing, subs, paying, ver, req, run, history, budgets>>

\* The clock passes claim_expires_at.
ClaimExpires(x) ==
  /\ ver[x].status = "in_progress" /\ ver[x].live
  /\ Overrun(\E v \in Verifiers : At(v, "claimed") /\ Item(v) = x /\ ver[x].holder = v)
  /\ ver' = [ver EXCEPT ![x].live = FALSE]
  /\ UNCHANGED <<job, leasing, subs, paying, event, req, run, history, failures, admin>>

Valid(v) == ver[Item(v)].holder = v /\ ver[Item(v)].live

\* The gateway has decided; POST /api/verifier/verdict finishes the verification.
\* Its token is not looked at again.
Judge(v, verdict) ==
  /\ At(v, "claimed") /\ Valid(v)
  /\ ver' = [ver EXCEPT ![Item(v)] = Finished]
  /\ run' = [run EXCEPT ![v] = [run[v] EXCEPT !.pc = "judged", !.verdict = verdict]]
  /\ UNCHANGED <<job, leasing, subs, paying, event, req, history, budgets>>

\* invalid_claim or claim_expired: the handler throws, the event is rescheduled or
\* out of attempts.
VerdictRefused(v) ==
  /\ At(v, "claimed") /\ ~Valid(v)
  /\ \E outcome \in {"queued", "deadletter"} : event' = [event EXCEPT ![Item(v)] = outcome]
  /\ run' = [run EXCEPT ![v] = NoRun]
  /\ UNCHANGED <<job, leasing, subs, paying, ver, req, history, budgets>>

StatusFor(verdict) ==
  CASE verdict = "pass" -> "accepted" [] verdict = "fail" -> "failed" [] OTHER -> "inconclusive"

\* updateSubmission; on a pass, registerAcceptedDedupe.
Score(v) ==
  /\ At(v, "judged")
  /\ sub' = [sub EXCEPT ![run[v].sub].status = StatusFor(run[v].verdict)]
  /\ registered' = (registered \/ run[v].verdict = "pass")
  /\ passed' = IF run[v].verdict = "pass" THEN passed \cup {run[v].sub} ELSE passed
  /\ run' = [run EXCEPT ![v].pc = "scored"]
  /\ UNCHANGED <<job, leasing, inserted, paying, work, req, clobbered, budgets>>

\* getJob
Load(v) ==
  /\ At(v, "scored")
  /\ run' = [run EXCEPT ![v] = [run[v] EXCEPT !.pc = "loaded", !.snap = job[sub[run[v].sub].job]]]
  /\ UNCHANGED <<job, leasing, subs, paying, work, req, history, budgets>>

\* max(attempt_no) of the submission
LastAttempt(s) ==
  CHOOSE a \in Attempts : /\ ver[<<s, a>>].status # "none"
                          /\ \A b \in Attempts : ver[<<s, b>>].status # "none" => b <= a

Retries(v) == run[v].verdict = "inconclusive" /\ LastAttempt(run[v].sub) < MaxAttempt

\* Inconclusive and attempts remain: the next attempt is added, then its event.
Extend(v) ==
  /\ At(v, "loaded") /\ Retries(v)
  /\ LET next == LastAttempt(run[v].sub) + 1 IN
       /\ ver' = [ver EXCEPT ![<<run[v].sub, next>>] = Queued]
       /\ run' = [run EXCEPT ![v] = [run[v] EXCEPT !.pc = "extended", !.next = next]]
  /\ UNCHANGED <<job, leasing, subs, paying, event, req, history, budgets>>

\* Faulty: the key does not name the attempt, so the insert conflicts.
EnqueueNextUnderOldKey(v) ==
  /\ At(v, "extended")
  /\ EnqueueVerification(Item(v))
  /\ run' = [run EXCEPT ![v].pc = "enqueued"]
  /\ UNCHANGED <<job, leasing, subs, paying, ver, req, history, budgets>>

EnqueueNext(v) ==
  /\ At(v, "extended")
  /\ EnqueueVerification(<<run[v].sub, run[v].next>>)
  /\ run' = [run EXCEPT ![v].pc = "enqueued"]
  /\ UNCHANGED <<job, leasing, subs, paying, ver, req, history, budgets>>

KeepVerifying(v) ==
  /\ At(v, "enqueued")
  /\ UpdateJob(sub[run[v].sub].job, run[v].snap, [run[v].snap EXCEPT !.status = "verifying"])
  /\ run' = [run EXCEPT ![v] = Answered(v)]
  /\ UNCHANGED <<leasing, subs, paying, work, req, passed, budgets>>

\* Faulty: whatever did not fail goes on to addPayout.
CloseUnlessFailed(v) ==
  /\ At(v, "loaded") /\ ~Retries(v)
  /\ UpdateJob(sub[run[v].sub].job, run[v].snap, [run[v].snap EXCEPT !.status = "done"])
  /\ run' = [run EXCEPT ![v] = IF run[v].verdict = "fail" THEN Answered(v)
                               ELSE [Answered(v) EXCEPT !.pc = "closed"]]
  /\ UNCHANGED <<leasing, subs, paying, work, req, passed, budgets>>

\* Otherwise the job is done, whatever it was.
Close(v) ==
  /\ At(v, "loaded") /\ ~Retries(v)
  /\ UpdateJob(sub[run[v].sub].job, run[v].snap, [run[v].snap EXCEPT !.status = "done"])
  /\ run' = [run EXCEPT ![v] = IF run[v].verdict = "pass" THEN [Answered(v) EXCEPT !.pc = "closed"]
                                                          ELSE Answered(v)]
  /\ UNCHANGED <<leasing, subs, paying, work, req, passed, budgets>>

\* addPayout: one row per submission, the old one if there is one.
AddPayout(v) ==
  /\ At(v, "closed")
  /\ payout' = payout \cup {run[v].sub}
  /\ run' = [run EXCEPT ![v].pc = "payable"]
  /\ UNCHANGED <<job, leasing, subs, requested, work, req, history, budgets>>

\* enqueueOutbox under the key payout:<payoutId>
RequestPayout(v) ==
  /\ At(v, "payable")
  /\ requested' = requested \cup {run[v].sub}
  /\ run' = [run EXCEPT ![v].pc = "answered"]
  /\ UNCHANGED <<job, leasing, subs, payout, work, req, history, budgets>>

\* The handler returns and the event is marked sent.
HandlerReturns(v) ==
  /\ At(v, "answered")
  /\ event' = [event EXCEPT ![Item(v)] = "sent"]
  /\ run' = [run EXCEPT ![v] = NoRun]
  /\ UNCHANGED <<job, leasing, subs, paying, ver, req, history, budgets>>

\* The handler is lost at any of its awaits: with its process (the event stays
\* queued), or with an error that reschedules the event or dead-letters it.
HandlerFails(v) ==
  /\ ~At(v, "idle") /\ failures < MaxFailures
  /\ failures' = failures + 1
  /\ \E outcome \in {event[Item(v)], "queued", "deadletter"} :
       event' = [event EXCEPT ![Item(v)] = outcome]
  /\ run' = [run EXCEPT ![v] = NoRun]
  /\ UNCHANGED <<job, leasing, subs, paying, ver, req, history, redeliveries, admin>>

-----------------------------------------------------------------------------
(* Admin endpoints *)

\* POST .../verifications/:id/requeue: no event is enqueued.
RequeueVerification(x) ==
  /\ ver[x].status # "none" /\ overrides < MaxOverrides
  /\ overrides' = overrides + 1
  /\ ver' = [ver EXCEPT ![x] = Queued]
  /\ UNCHANGED <<job, leasing, subs, paying, event, req, run, override, history, failures, redeliveries>>

Overriding(p, s, verdict) == [pc |-> p, sub |-> s, verdict |-> verdict, snap |-> NoJob]

\* The first write of both endpoints, updateSubmission.
Mark(a, s, verdict, status) ==
  /\ override[a].pc = "idle" /\ s <= inserted /\ overrides < MaxOverrides
  /\ overrides' = overrides + 1
  /\ sub' = [sub EXCEPT ![s].status = status]
  /\ passed' = IF verdict = "pass" THEN passed \cup {s} ELSE passed
  /\ override' = [override EXCEPT ![a] = Overriding("marked", s, verdict)]
  /\ UNCHANGED <<job, leasing, inserted, registered, paying, work, req, run, clobbered,
                 failures, redeliveries>>

MarkDuplicate(a, s) == Mark(a, s, "duplicate", "duplicate")
OverrideVerdict(a, s, verdict) == Mark(a, s, verdict, StatusFor(verdict))

\* getJob
OverrideLoads(a) ==
  /\ override[a].pc = "marked"
  /\ override' = [override EXCEPT ![a] = [override[a] EXCEPT !.pc = "loaded",
                                                 !.snap = job[sub[override[a].sub].job]]]
  /\ UNCHANGED <<job, leasing, subs, paying, work, req, run, history, failures, redeliveries, overrides>>

\* The job is done, whatever it was; only a pass goes on.
OverrideCloses(a) ==
  LET o == override[a] IN
  /\ o.pc = "loaded"
  /\ UpdateJob(sub[o.sub].job, o.snap, [o.snap EXCEPT !.status = "done"])
  /\ override' = [override EXCEPT ![a] = IF o.verdict = "pass" THEN Overriding("closed", o.sub, "pass")
                                                              ELSE NoOverride]
  /\ UNCHANGED <<leasing, subs, paying, work, req, run, passed, failures, redeliveries, overrides>>

OverrideAddsPayout(a) ==
  /\ override[a].pc = "closed"
  /\ payout' = payout \cup {override[a].sub}
  /\ override' = [override EXCEPT ![a].pc = "payable"]
  /\ UNCHANGED <<job, leasing, subs, requested, work, req, run, history, failures, redeliveries, overrides>>

OverrideRequestsPayout(a) ==
  /\ override[a].pc = "payable"
  /\ requested' = requested \cup {override[a].sub}
  /\ override' = [override EXCEPT ![a].pc = "requested"]
  /\ UNCHANGED <<job, leasing, subs, payout, work, req, run, history, failures, redeliveries, overrides>>

\* registerAcceptedDedupe: an override registers the key last, a verdict before its payout.
OverrideRegisters(a) ==
  /\ override[a].pc = "requested"
  /\ registered' = TRUE
  /\ override' = [override EXCEPT ![a] = NoOverride]
  /\ UNCHANGED <<job, leasing, sub, inserted, paying, work, req, run, history, failures, redeliveries, overrides>>

\* The request is lost between two awaits; nothing takes it up again.
OverrideDies(a) ==
  /\ override[a].pc # "idle" /\ failures < MaxFailures
  /\ failures' = failures + 1
  /\ override' = [override EXCEPT ![a] = NoOverride]
  /\ UNCHANGED <<job, leasing, subs, paying, work, req, run, history, redeliveries, overrides>>

-----------------------------------------------------------------------------
SubmitStep(r) ==
  \/ SubmitFindsEarlier(r) \/ SubmitIsNew(r) \/ SubmitInserts(r) \/ SubmitConflicts(r)
  \/ SubmitRefused(r) \/ SubmitDuplicate(r)
  \/ SubmitAddsVerification(r) \/ SubmitEnqueues(r) \/ SubmitUpdatesJob(r)

VerdictStep(v) ==
  \/ \E verdict \in Verdicts : Judge(v, verdict)
  \/ VerdictRefused(v) \/ Score(v) \/ Load(v) \/ Extend(v) \/ EnqueueNext(v)
  \/ KeepVerifying(v) \/ Close(v) \/ AddPayout(v) \/ RequestPayout(v) \/ HandlerReturns(v)

OverrideStep(a) ==
  \/ OverrideLoads(a) \/ OverrideCloses(a)
  \/ OverrideAddsPayout(a) \/ OverrideRequestsPayout(a) \/ OverrideRegisters(a)

ClaimSome(v) == \E x \in Subs \X Attempts : VerifierClaim(v, x)

Next ==
  \/ \E w \in Workers, j \in Jobs : ClaimRequest(w, j) \/ LeaseJob(w, j) \/ LeaseRefused(w, j)
  \/ LeaseExpires \/ ReapExpiredLeases
  \/ \E j \in Jobs : ReleaseJobLease(j)
  \/ \E r \in Requests :
       \/ \E j \in Jobs, k \in Keys : SubmitRead(r, j, k)
       \/ SubmitStep(r) \/ RequestDies(r)
  \/ \E v \in Verifiers : ClaimSome(v) \/ VerdictStep(v) \/ HandlerFails(v)
  \/ \E v \in Verifiers, x \in Subs \X Attempts : VerifierClaimRefused(v, x)
  \/ \E x \in Subs \X Attempts : ClaimExpires(x) \/ RequeueVerification(x)
  \/ \E a \in Admins :
       \/ \E s \in Subs :
            MarkDuplicate(a, s) \/ \E verdict \in Verdicts : OverrideVerdict(a, s, verdict)
       \/ OverrideStep(a) \/ OverrideDies(a)

Spec == Init /\ [][Next]_vars

\* The runner polls for ever and its calls are bounded by timeouts; a request
\* runs to its end unless its process dies; claims run out.
Fairness ==
  /\ \A v \in Verifiers : WF_vars(ClaimSome(v)) /\ WF_vars(VerdictStep(v))
  /\ \A r \in Requests : WF_vars(SubmitStep(r))
  /\ \A a \in Admins : WF_vars(OverrideStep(a))
  /\ \A x \in Subs \X Attempts : WF_vars(ClaimExpires(x))

FairSpec == Spec /\ Fairness

-----------------------------------------------------------------------------
(* Correctness *)

\* A job has at most one lease that is neither expired nor given back, although
\* two workers race for it and old requests keep writing the row: the where
\* clauses of leaseJob and releaseJobLease decide, not the row's last writer.
LeaseExclusive ==
  \A l, m \in (expired + 1 .. granted) \ given : grant[l].job = grant[m].job => l = m

\* A worker never has two jobs under unexpired leases at once, although several
\* of its claim requests may have passed their checks (the advisory lock).
OneLiveClaim ==
  \A i, j \in Jobs :
    /\ job[i].status = "claimed" /\ job[j].status = "claimed"
    /\ Live(job[i].lease) /\ Live(job[j].lease) /\ Holder(i) = Holder(j)
    => i = j

\* Nothing is paid for a submission that no verdict and no admin ever passed,
\* however often its event is delivered and whichever runs overlap.
PayoutNeedsPass == payout \subseteq passed

\* One Idempotency-Key of a worker names one submission of a job, although twin
\* requests both looked for it and found nothing.
OneSubmissionPerKey ==
  \A s, t \in 1 .. inserted :
    /\ sub[s].key # NoKey
    /\ <<sub[s].job, sub[s].worker, sub[s].key>> = <<sub[t].job, sub[t].worker, sub[t].key>>
    => s = t

\* A verifying job waits for something: an event of one of its submissions is
\* still queued or was dead-lettered for an operator.  The exception is a job
\* whose row was overwritten by an older read.
VerifyingIsAwaited ==
  \A j \in Jobs \ clobbered : job[j].status = "verifying" =>
    \E s \in 1 .. inserted, a \in Attempts :
      sub[s].job = j /\ event[<<s, a>>] \in {"queued", "deadletter"}

\* The payout of an accepted submission is eventually requested, although the
\* verdict handler can die at any step before: the event is delivered again.
AwaitsPayout(s) ==
  /\ s <= inserted
  /\ sub[s].status = "accepted" /\ s \notin requested
  /\ \A a \in Attempts : event[<<s, a>>] # "deadletter"
AcceptedIsPaid == \A s \in Subs : AwaitsPayout(s) ~> ~AwaitsPayout(s)

\* src/store.ts: "Ensure one active job per worker" (leaseJob), with leaseJob's
\* own meaning of active: verifying, or claimed under an unexpired lease.
OneActiveJob == \A w \in Workers : Cardinality({j \in Jobs : Active(w, j)}) <= 1

\* docs/runbooks/UniversalWorker.md: submit "is safe to retry" with a key: a retry
\* that finds its submission does not put a finished job back to verifying.
RetryIsSafe ==
  [][\A r \in Requests, j \in Jobs :
       SubmitUpdatesJob(r) /\ req[r].retry /\ job[j].status = "done" => job'[j].status = "done"]_vars
=============================================================================
