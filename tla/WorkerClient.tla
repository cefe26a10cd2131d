------------------------------ MODULE WorkerClient ------------------------------
(***************************************************************************)
(* The universal worker's loop against the choice of a job by the API: the *)
(* worker remembers for a while the jobs it refused or failed at and asks  *)
(* not to be offered them; the API looks only at the best Window jobs that *)
(* are not so excluded, and passes over those the worker is unfit for.     *)
(*                                                                         *)
(* A turn of the loop is the unit of time; jobs are numbered in the order  *)
(* in which they are offered.  Other workers take jobs and give them back. *)
(***************************************************************************)
EXTENDS Integers, Sequences, FiniteSets

CONSTANTS NumJobs,
          Window,       \* the LIMIT of findClaimableJob's query
          MaxExclude,   \* how many job ids are excluded
          MaxRefusals,  \* how many refusals are remembered
          RefusalTurns, ClaimTurns,   \* how long a refusal, and a claim that failed, are remembered
          FailingTurns, \* how long a job takes that fails in the end
          MaxTakes,     \* bound: jobs taken by other workers
          MaxTroubles   \* bound: crashes, calls that fail and leases that run out

ASSUME ClientAssumption ==
  /\ {NumJobs, Window, MaxExclude, RefusalTurns, ClaimTurns, FailingTurns} \subseteq Nat \ {0}
  /\ MaxRefusals \in Nat /\ MaxRefusals >= MaxExclude
  /\ ClaimTurns <= RefusalTurns /\ MaxTakes \in Nat /\ MaxTroubles \in Nat

Offerable == 1 .. NumJobs

VARIABLES
  wanted,     \* history: a good job whose fate is watched
  nature,     \* each job is, to this worker: unfit, refused (by its preflight), failing or good
  jobAt,      \* each job: open, mine, lapsed (mine, its lease has run out), other, verifying, over
  refusals,   \* refuseCache, the jobs in the order of their insertion
  left,       \* the turns a refusal is still remembered
  client,     \* where the loop is, and the job it is at
  takes, hitches

clientVars == <<wanted, nature, jobAt, refusals, left, client, takes, hitches>>

Natures == {"unfit", "refused", "failing", "good"}
Polling == [pc |-> "polling", job |-> 1]
Down == [pc |-> "down", job |-> 1]
NotInstalled == [pc |-> "absent", job |-> 1]

ClientTypeOK ==
  /\ wanted \in Offerable /\ nature \in [Offerable -> Natures]
  /\ jobAt \in [Offerable -> {"open", "mine", "lapsed", "other", "verifying", "over"}]
  /\ refusals \in Seq(Offerable) /\ Len(refusals) <= MaxRefusals
  /\ left \in [Offerable -> 0 .. RefusalTurns]
  /\ client \in [pc : {"absent", "down", "polling", "offered", "working", "failed"}, job : Offerable]
  /\ takes \in 0 .. MaxTakes /\ hitches \in 0 .. MaxTroubles

ClientInit ==
  /\ wanted \in Offerable
  /\ nature \in [Offerable -> Natures] /\ nature[wanted] = "good"
  /\ jobAt = [j \in Offerable |-> "open"]
  /\ refusals = <<>> /\ left = [j \in Offerable |-> 0]
  /\ client = NotInstalled /\ takes = 0 /\ hitches = 0

Hitch == hitches < MaxTroubles /\ hitches' = hitches + 1

-----------------------------------------------------------------------------
(* The refusals *)

Remembered(seq) == {seq[i] : i \in 1 .. Len(seq)}

\* excludeJobIdsCsv: the oldest ones.
Excluded == {refusals[i] : i \in {k \in 1 .. Len(refusals) : k <= MaxExclude}}

Aged(turns) == [j \in Offerable |-> IF left[j] > turns THEN left[j] - turns ELSE 0]

\* pruneRefuseCache: what has run out goes, then the oldest one if there are too many.
Kept(seq, remains) ==
  LET kept[n \in 0 .. Len(seq)] ==
        IF n = 0 THEN <<>>
        ELSE IF remains[seq[n]] > 0 THEN Append(kept[n - 1], seq[n]) ELSE kept[n - 1]
  IN  kept[Len(seq)]

Pruned(seq, remains) ==
  IF Len(Kept(seq, remains)) > MaxRefusals THEN Tail(Kept(seq, remains)) ELSE Kept(seq, remains)

\* The turn ends without a refusal.
TurnOver(turns) ==
  /\ left' = Aged(turns)
  /\ refusals' = Pruned(refusals, left')
  /\ client' = Polling

\* Faulty: the job that failed is not remembered.
TurnOverForgetting(j, lasts, turns) == TurnOver(turns)

\* addRefusal at the end of the turn; a refusal that is repeated keeps its place.
TurnOverRefusing(j, lasts, turns) ==
  LET remains == [Aged(turns) EXCEPT ![j] = lasts]
      seq == IF j \in Remembered(refusals) THEN refusals ELSE Append(refusals, j)
  IN  /\ refusals' = Pruned(seq, remains)
      /\ left' = [i \in Offerable |-> IF i \in Remembered(refusals') THEN remains[i] ELSE 0]
      /\ client' = Polling

-----------------------------------------------------------------------------
(* GET /api/jobs/next *)

\* getActiveJobForWorker: a lease that has run out still counts.
Active == {j \in Offerable : jobAt[j] \in {"mine", "lapsed", "verifying"}}

Candidates == {j \in Offerable : jobAt[j] = "open"} \ Excluded

\* findClaimableJob: the query, then the filters.
InWindow == {j \in Candidates : Cardinality({i \in Candidates : i < j}) < Window}
Claimable == {j \in InWindow : nature[j] # "unfit"}

InstallClient ==
  /\ client = NotInstalled /\ client' = Polling
  /\ UNCHANGED <<wanted, nature, jobAt, refusals, left, takes, hitches>>

StartClient ==
  /\ client = Down /\ client' = Polling
  /\ UNCHANGED <<wanted, nature, jobAt, refusals, left, takes, hitches>>

\* Blocked by a job of its own, or idle.
PollIdle ==
  /\ client.pc = "polling" /\ (Active # {} \/ Claimable = {})
  /\ TurnOver(1)
  /\ UNCHANGED <<wanted, nature, jobAt, takes, hitches>>

\* An error, or the intake is paused or backlogged.
PollFails ==
  /\ client.pc = "polling" /\ Hitch
  /\ TurnOver(1)
  /\ UNCHANGED <<wanted, nature, jobAt, takes>>

PollOffers ==
  /\ client.pc = "polling" /\ Active = {}
  /\ \E j \in Claimable :
       /\ \A i \in Claimable : j <= i
       /\ client' = [pc |-> "offered", job |-> j]
  /\ UNCHANGED <<wanted, nature, jobAt, refusals, left, takes, hitches>>

-----------------------------------------------------------------------------
(* The rest of the loop *)

At(pc) == client.pc = pc
Goes(pc) == client' = [client EXCEPT !.pc = pc]
Becomes(j, state) == jobAt' = [jobAt EXCEPT ![j] = state]

\* preflightJobOrThrow.
Preflight ==
  /\ At("offered") /\ nature[client.job] = "refused"
  /\ TurnOverRefusing(client.job, RefusalTurns, 1)
  /\ UNCHANGED <<wanted, nature, jobAt, takes, hitches>>

ClaimOffered ==
  /\ At("offered") /\ nature[client.job] # "refused"
  /\ IF jobAt[client.job] = "open"
     THEN Goes("working") /\ Becomes(client.job, "mine") /\ UNCHANGED <<refusals, left>>
     ELSE TurnOverRefusing(client.job, ClaimTurns, 1) /\ UNCHANGED jobAt
  /\ UNCHANGED <<wanted, nature, takes, hitches>>

\* A module of the job throws.
WorkFails ==
  /\ At("working") /\ nature[client.job] = "failing"
  /\ Goes("failed")
  /\ UNCHANGED <<wanted, nature, jobAt, refusals, left, takes, hitches>>

\* The proof is submitted; the API refuses it when the lease has run out.
SubmitWork ==
  /\ At("working") /\ nature[client.job] # "failing"
  /\ IF jobAt[client.job] = "mine"
     THEN Becomes(client.job, "verifying") /\ TurnOver(1)
     ELSE Goes("failed") /\ UNCHANGED <<jobAt, refusals, left>>
  /\ UNCHANGED <<wanted, nature, takes, hitches>>

\* The API took the proof but its answer is lost.
SubmitUnanswered ==
  /\ At("working") /\ nature[client.job] # "failing" /\ jobAt[client.job] = "mine" /\ Hitch
  /\ Becomes(client.job, "verifying") /\ Goes("failed")
  /\ UNCHANGED <<wanted, nature, refusals, left, takes>>

\* The handler of errors: the lease is given back if it still is the worker's.
GiveUp ==
  /\ At("failed")
  /\ jobAt' = [jobAt EXCEPT ![client.job] = IF @ \in {"mine", "lapsed"} THEN "open" ELSE @]
  /\ TurnOverRefusing(client.job, RefusalTurns, FailingTurns)
  /\ UNCHANGED <<wanted, nature, takes, hitches>>

\* releaseLeaseEarly swallows its errors.
GiveUpUnheard ==
  /\ At("failed") /\ Hitch
  /\ TurnOverRefusing(client.job, RefusalTurns, FailingTurns)
  /\ UNCHANGED <<wanted, nature, jobAt, takes>>

\* A call throws outside of the job's try, or the process dies: the refusals go with it.
ClientDies ==
  /\ client \notin {Down, NotInstalled} /\ Hitch
  /\ client' = Down
  /\ refusals' = <<>> /\ left' = [j \in Offerable |-> 0]
  /\ UNCHANGED <<wanted, nature, jobAt, takes>>

-----------------------------------------------------------------------------
(* The others *)

LeaseLapses(j) ==
  /\ jobAt[j] = "mine" /\ Hitch
  /\ Becomes(j, "lapsed")
  /\ UNCHANGED <<wanted, nature, refusals, left, client, takes>>

OtherTakes(j) ==
  /\ jobAt[j] \in {"open", "lapsed"} /\ takes < MaxTakes
  /\ takes' = takes + 1
  /\ Becomes(j, "other")
  /\ UNCHANGED <<wanted, nature, refusals, left, client, hitches>>

\* Released, or run out, or done.
OtherLeaves(j) ==
  /\ jobAt[j] = "other"
  /\ \E state \in {"open", "over"} : Becomes(j, state)
  /\ UNCHANGED <<wanted, nature, refusals, left, client, takes, hitches>>

\* reapExpiredLeases, which only an operator calls.
Reaped(j) ==
  /\ jobAt[j] = "lapsed"
  /\ Becomes(j, "over")
  /\ UNCHANGED <<wanted, nature, refusals, left, client, takes, hitches>>

Judged(j) ==
  /\ jobAt[j] = "verifying"
  /\ Becomes(j, "over")
  /\ UNCHANGED <<wanted, nature, refusals, left, client, takes, hitches>>

-----------------------------------------------------------------------------
LoopStep ==
  \/ StartClient \/ PollIdle \/ PollOffers
  \/ Preflight \/ ClaimOffered \/ WorkFails \/ SubmitWork \/ GiveUp

ClientNext ==
  \/ InstallClient \/ LoopStep \/ PollFails \/ SubmitUnanswered \/ GiveUpUnheard \/ ClientDies
  \/ \E j \in Offerable : LeaseLapses(j) \/ OtherTakes(j) \/ OtherLeaves(j) \/ Reaped(j) \/ Judged(j)

\* An installed worker's loop goes on, the plugin starts it again (WorkerPlugin) and submissions are
\* judged (JobLifecycle); other workers and the operator need not do anything.
ClientFairness ==
  WF_clientVars(LoopStep) /\ WF_clientVars(\E j \in Offerable : Judged(j))

OfNature(n) == {j \in Offerable : nature[j] = n}

\* The turns that all refusals take but for the longest one.
OtherRefusals ==
  LET refused == Cardinality(OfNature("refused")) failing == Cardinality(OfNature("failing"))
  IN  refused + FailingTurns * failing - (IF failing = 0 THEN 1 ELSE FailingTurns)

\* What keeps a job from being offered for ever: as many jobs ahead as the window holds that the
\* worker is unfit for, more jobs it refuses than it may exclude, or so many, or so slow ones, that
\* some refusal is always forgotten before the last is made.
Clogged ==
  \/ Cardinality({i \in OfNature("unfit") : i < wanted}) >= Window
  \/ Cardinality(OfNature("refused") \cup OfNature("failing")) > MaxExclude
  \/ OtherRefusals >= RefusalTurns

\* The worker holds a lease of which its loop knows nothing any more.
HoldsForgotten == \E j \in Offerable : jobAt[j] \in {"mine", "lapsed"} /\ (client.job # j \/ At("polling"))

\* A job the worker is fit for is taken in the end, by it or another, however jobs are refused,
\* fail, are taken and come back, unless one of the limits clogs the choice or the worker is blocked
\* by a lease it did not give back (loop and its refuseCache against findClaimableJob).
SuitableIsTaken ==
  (jobAt[wanted] = "open" /\ client # NotInstalled /\ ~Clogged)
    ~> (jobAt[wanted] # "open" \/ HoldsForgotten)
=============================================================================
