------------------------------ MODULE Artifacts ------------------------------
(***************************************************************************)
(* One artifact with the S3 backend: its row, its object in the staging,   *)
(* clean and quarantine buckets, and the processes that move both: the     *)
(* client that uploads and completes, the scanner, the retention runner,   *)
(* the operator's quarantine and deletion, and the verdict that accepts.   *)
(*                                                                         *)
(* Every S3 call and every statement is a step of its own.  Nobody locks   *)
(* the row; each process reads it once and writes by id at its end.  The   *)
(* events are delivered as module Outbox promises.                         *)
(***************************************************************************)
EXTENDS Naturals

CONSTANTS MaxAttempts,    \* MAX_OUTBOX_ATTEMPTS
          MaxCompletes,   \* bound: completions of the upload
          MaxPuts,        \* bound: PUTs to the presigned URL
          MaxOrders,      \* bound: quarantines and deletions the operator asks for
          MaxFailures     \* bound: calls that fail, scanner errors and processes that die

ASSUME ArtifactAssumption ==
  /\ MaxAttempts \in Nat \ {0} /\ MaxCompletes \in Nat /\ MaxPuts \in Nat
  /\ MaxOrders \in Nat /\ MaxFailures \in Nat

VARIABLES
  status, bucket, deleted,  \* artifacts: status, bucket_kind, deleted_at
  attach,       \* the attachment to a submission; "yes" when artifacts.submission_id is set
  content,      \* what each bucket holds under the artifact's key: nothing, or bytes that are
                \* "good" or "bad" to the scanner
  complete,     \* the completion request
  scanEvent, scanTries,   \* artifact.scan.requested and its attempts
  scan,         \* the scanner
  job, due,     \* the artifact's retention job; its run_at has come
  sweep,        \* the retention runner's periodic enqueue
  deleteEvent, deleteTries,   \* artifact.delete.requested and its attempts
  remove,       \* deletions: by the retention runner and by the operator
  quarantine,   \* the operator's quarantine
  completes, puts, orders, failures,
  quarantined,  \* history: the operator's quarantine was carried out
  crossed,      \* history: two of scan, deletion and quarantine overlapped, or one ended half-way
  reput,        \* history: bytes were put when the artifact had been completed, or was or had been moved
  swapped,      \* history: bytes were put between the scanner's fetch and its copy
  reverted      \* history: a completion overwrote the outcome of a scan

row == <<status, bucket, deleted, attach>>
scanner == <<scanEvent, scanTries, scan>>
retention == <<job, due, sweep, deleteEvent, deleteTries>>
budgets == <<completes, puts, orders, failures>>
history == <<quarantined, crossed, reput, swapped, reverted>>
vars == <<row, content, complete, scanner, retention, remove, quarantine, budgets, history>>

Buckets == {"staging", "clean", "quarantine"}
Removers == {"retention", "admin"}
NotAtWork == [pc |-> "idle", bucket |-> "staging"]

TypeOK ==
  /\ status \in {"absent", "presigned", "uploaded", "scanned", "accepted", "blocked", "scan_failed", "deleted"}
  /\ bucket \in Buckets /\ content \in [Buckets -> {"none", "good", "bad"}]
  /\ attach \in {"no", "checked", "yes"} /\ complete \in {"idle", "checked", "marked"}
  /\ {scanEvent, deleteEvent} \subseteq {"absent", "pending", "processing", "sent", "dead"}
  /\ scanTries \in 0 .. MaxAttempts /\ deleteTries \in 0 .. MaxAttempts
  /\ scan \in [pc : {"idle", "taken", "loaded", "fetched", "marked", "copied", "moved", "returned", "thrown"},
              verdict : {"none", "good", "bad", "error"}]
  /\ job \in {"absent", "pending", "enqueued", "finished"} /\ sweep \in {"idle", "marked"}
  /\ remove \in [Removers -> [pc : {"idle", "taken", "loaded", "erased", "written", "returned", "thrown"},
                              bucket : Buckets]]
  /\ quarantine \in [pc : {"idle", "again", "loaded", "copied", "moved"}, bucket : Buckets]
  /\ completes \in 0 .. MaxCompletes /\ puts \in 0 .. MaxPuts
  /\ orders \in 0 .. MaxOrders /\ failures \in 0 .. MaxFailures
  /\ {deleted, due, quarantined, crossed, reput, swapped, reverted} \subseteq BOOLEAN

Init ==
  /\ status = "absent" /\ bucket = "staging" /\ deleted = FALSE /\ attach = "no"
  /\ content = [b \in Buckets |-> "none"] /\ complete = "idle"
  /\ scanEvent = "absent" /\ scanTries = 0 /\ scan = [pc |-> "idle", verdict |-> "none"]
  /\ job = "absent" /\ due = FALSE /\ sweep = "idle"
  /\ deleteEvent = "absent" /\ deleteTries = 0
  /\ remove = [r \in Removers |-> NotAtWork] /\ quarantine = NotAtWork
  /\ completes = 0 /\ puts = 0 /\ orders = 0 /\ failures = 0
  /\ quarantined = FALSE /\ crossed = FALSE /\ reput = FALSE /\ swapped = FALSE /\ reverted = FALSE

Outcomes == {"scanned", "accepted", "blocked"}
Scanning == scan.pc \notin {"idle", "taken", "returned", "thrown"}
Removing(r) == remove[r].pc \in {"loaded", "erased"}
Quarantining == quarantine.pc # "idle"
BeingMoved == Quarantining \/ \E r \in Removers : Removing(r)
Holders == {b \in Buckets : content[b] # "none"}
CopyTo(from, to) == content' = [content EXCEPT ![to] = content[from]]
EraseFrom(b) == content' = [content EXCEPT ![b] = "none"]
Others(busy) == crossed' = (crossed \/ busy)
Orders == orders < MaxOrders /\ orders' = orders + 1
Fails == failures < MaxFailures /\ failures' = failures + 1

-----------------------------------------------------------------------------
(* The client *)

\* presignUploads.  If the request dies before the retention job is scheduled the client
\* gets no URL.
Presign ==
  /\ status = "absent"
  /\ status' = "presigned" /\ job' = "pending"
  /\ UNCHANGED <<bucket, deleted, attach, content, complete, scanner, due, sweep, deleteEvent,
                 deleteTries, remove, quarantine, budgets, history>>

\* The URL stays good for a while, whatever happens to the row, and for any bytes.
Put ==
  /\ status # "absent" /\ puts < MaxPuts
  /\ puts' = puts + 1
  /\ \E bytes \in {"good", "bad"} : content' = [content EXCEPT !["staging"] = bytes]
  /\ swapped' = (swapped \/ scan.pc \in {"fetched", "marked"})
  /\ reput' = (reput \/ status # "presigned" \/ completes > 0 \/ BeingMoved)
  /\ UNCHANGED <<row, complete, scanner, retention, remove, quarantine, completes, orders, failures,
                 quarantined, crossed, reverted>>

CompleteCheck ==
  /\ complete = "idle" /\ completes < MaxCompletes
  /\ status # "absent" /\ ~deleted
  /\ complete' = "checked" /\ completes' = completes + 1
  /\ UNCHANGED <<row, content, scanner, retention, remove, quarantine, puts, orders, failures, history>>

\* The status is set whatever it was.
CompleteMark ==
  /\ complete = "checked"
  /\ complete' = "marked"
  /\ status' = "uploaded"
  /\ reverted' = (reverted \/ status \in Outcomes)
  /\ UNCHANGED <<bucket, deleted, attach, content, scanner, retention, remove, quarantine, budgets,
                 quarantined, crossed, reput, swapped>>

CompleteEnqueue ==
  /\ complete = "marked"
  /\ complete' = "idle"
  /\ scanEvent' = IF scanEvent = "absent" THEN "pending" ELSE scanEvent
  /\ UNCHANGED <<row, content, scanTries, scan, retention, remove, quarantine, budgets, history>>

CompleteDies ==
  /\ complete # "idle" /\ Fails
  /\ complete' = "idle"
  /\ UNCHANGED <<row, content, scanner, retention, remove, quarantine, completes, puts, orders, history>>

\* attachSubmissionArtifacts.
AttachCheck ==
  /\ attach = "no" /\ ~deleted /\ status \in {"scanned", "accepted"}
  /\ attach' = "checked"
  /\ UNCHANGED <<status, bucket, deleted, content, complete, scanner, retention, remove, quarantine,
                 budgets, history>>

Attach ==
  /\ attach = "checked"
  /\ attach' = "yes"
  /\ UNCHANGED <<status, bucket, deleted, content, complete, scanner, retention, remove, quarantine,
                 budgets, history>>

\* Faulty: the status is written in other words.
AcceptApproved ==
  /\ attach = "yes"
  /\ status' = "approved"
  /\ UNCHANGED <<bucket, deleted, attach, content, complete, scanner, retention, remove, quarantine,
                 budgets, history>>

\* markSubmissionArtifactsAccepted, at each passing verdict, whatever the artifact is now.
Accept ==
  /\ attach = "yes"
  /\ status' = "accepted"
  /\ UNCHANGED <<bucket, deleted, attach, content, complete, scanner, retention, remove, quarantine,
                 budgets, history>>

-----------------------------------------------------------------------------
(* The scanner: handleArtifactScanRequested, scanArtifactObject *)

ScanGoes(from, to) == scan.pc = from /\ scan' = [scan EXCEPT !.pc = to]
ScanEnds(from, to) == scan.pc = from /\ scan' = [pc |-> to, verdict |-> "none"]

ScanTake ==
  /\ ScanGoes("idle", "taken")
  /\ scanEvent = "pending" /\ scanEvent' = "processing"
  /\ scanTries' = IF scanTries < MaxAttempts THEN scanTries + 1 ELSE scanTries
  /\ UNCHANGED <<row, content, complete, retention, remove, quarantine, budgets, history>>

\* The row is read once; there may be nothing to do.
ScanLoad ==
  /\ IF deleted \/ status \in Outcomes \cup {"deleted"}
     THEN ScanEnds("taken", "returned") /\ UNCHANGED crossed
     ELSE ScanGoes("taken", "loaded") /\ Others(BeingMoved)
  /\ UNCHANGED <<row, content, complete, scanEvent, scanTries, retention, remove, quarantine, budgets,
                 quarantined, reput, swapped, reverted>>

\* Faulty: bytes the engine could not scan pass.
EngineErrorPasses == "good"

\* isScannerErrorReason: an engine that fails has found nothing.
EngineError == "error"

\* scanBytes: the content check and then, if one is set, the engine, which may fail.
Found(verdict) ==
  \/ verdict = scan.verdict /\ UNCHANGED failures
  \/ verdict = EngineError /\ Fails

\* The scanner holds the bytes from here on: what a scan of them will find is settled.
ScanFetch ==
  /\ scan.pc = "loaded"
  /\ scan' = IF "staging" \in Holders THEN [pc |-> "fetched", verdict |-> content["staging"]]
             ELSE [pc |-> "thrown", verdict |-> "none"]
  /\ UNCHANGED <<row, content, complete, scanEvent, scanTries, retention, remove, quarantine, budgets,
                 history>>

\* The row is marked, then the bytes are scanned.
ScanMark ==
  /\ scan.pc = "fetched"
  /\ status' = "uploaded"
  /\ \E v \in {"good", "bad", "error"} : Found(v) /\ scan' = [pc |-> "marked", verdict |-> v]
  /\ UNCHANGED <<bucket, deleted, attach, content, complete, scanEvent, scanTries, retention, remove,
                 quarantine, completes, puts, orders, history>>

\* Faulty: the failure is recorded but not thrown.
ScanFailedQuietly ==
  /\ scan.verdict = "error" /\ ScanEnds("marked", "returned")
  /\ status' = "scan_failed" /\ bucket' = "staging"
  /\ UNCHANGED <<deleted, attach, content, complete, scanEvent, scanTries, retention, remove,
                 quarantine, budgets, history>>

\* The scanner itself failed: the event is to be tried again.
ScanFailed ==
  /\ scan.verdict = "error" /\ ScanEnds("marked", "thrown")
  /\ status' = "scan_failed" /\ bucket' = "staging"
  /\ UNCHANGED <<deleted, attach, content, complete, scanEvent, scanTries, retention, remove,
                 quarantine, budgets, history>>

Destination(verdict) == IF verdict = "good" THEN "clean" ELSE "quarantine"

\* What the staging bucket holds now is copied, whatever was fetched.
ScanCopy ==
  /\ scan.verdict \in {"good", "bad"}
  /\ IF "staging" \in Holders
     THEN ScanGoes("marked", "copied") /\ CopyTo("staging", Destination(scan.verdict))
     ELSE ScanEnds("marked", "thrown") /\ UNCHANGED content
  /\ UNCHANGED <<row, complete, scanEvent, scanTries, retention, remove, quarantine, budgets, history>>

ScanRemove ==
  /\ ScanGoes("copied", "moved")
  /\ EraseFrom("staging")
  /\ UNCHANGED <<row, complete, scanEvent, scanTries, retention, remove, quarantine, budgets, history>>

\* A bad verdict is thrown as well; the next attempt finds the row blocked.
ScanWrite ==
  /\ ScanEnds("moved", IF scan.verdict = "good" THEN "returned" ELSE "thrown")
  /\ status' = IF scan.verdict = "good" THEN "scanned" ELSE "blocked"
  /\ bucket' = Destination(scan.verdict)
  /\ UNCHANGED <<deleted, attach, content, complete, scanEvent, scanTries, retention, remove,
                 quarantine, budgets, history>>

\* runOutboxLoop after the handler.
AfterThrow(tries) == IF tries >= MaxAttempts THEN "dead" ELSE "pending"

ScanSettle ==
  /\ \/ ScanEnds("returned", "idle") /\ scanEvent' = "sent"
     \/ ScanEnds("thrown", "idle") /\ scanEvent' = AfterThrow(scanTries)
  /\ UNCHANGED <<row, content, complete, scanTries, retention, remove, quarantine, budgets, history>>

\* A call fails and is thrown, or the runner dies.
ScanDies ==
  /\ scan.pc \notin {"idle", "returned", "thrown"} /\ Fails
  /\ scan' = [pc |-> "idle", verdict |-> "none"] /\ scanEvent' \in {"pending", AfterThrow(scanTries)}
  /\ Others(scan.pc \in {"copied", "moved"})
  /\ UNCHANGED <<row, content, complete, scanTries, retention, remove, quarantine, completes, puts,
                 orders, quarantined, reput, swapped, reverted>>

-----------------------------------------------------------------------------
(* Retention: enqueueDueRetentionDeletions, handleArtifactDeleteRequested *)

Expires ==
  /\ job = "pending" /\ ~due
  /\ due' = TRUE
  /\ UNCHANGED <<row, content, complete, scanner, job, sweep, deleteEvent, deleteTries, remove,
                 quarantine, budgets, history>>

\* Two statements: the job is enqueued before its event exists.
SweepMark ==
  /\ sweep = "idle" /\ job = "pending" /\ due
  /\ sweep' = "marked" /\ job' = "enqueued"
  /\ UNCHANGED <<row, content, complete, scanner, due, deleteEvent, deleteTries, remove, quarantine,
                 budgets, history>>

SweepEnqueue ==
  /\ sweep = "marked"
  /\ sweep' = "idle" /\ deleteEvent' = "pending"
  /\ UNCHANGED <<row, content, complete, scanner, job, due, deleteTries, remove, quarantine, budgets,
                 history>>

SweepDies ==
  /\ sweep = "marked" /\ Fails
  /\ sweep' = "idle"
  /\ UNCHANGED <<row, content, complete, scanner, job, due, deleteEvent, deleteTries, remove, quarantine,
                 completes, puts, orders, history>>

RemoveGoes(r, from, to) == remove[r].pc = from /\ remove' = [remove EXCEPT ![r].pc = to]

DeleteTake ==
  /\ RemoveGoes("retention", "idle", "taken")
  /\ deleteEvent = "pending" /\ deleteEvent' = "processing"
  /\ deleteTries' = IF deleteTries < MaxAttempts THEN deleteTries + 1 ELSE deleteTries
  /\ UNCHANGED <<row, content, complete, scanner, job, due, sweep, quarantine, budgets, history>>

\* Faulty: a blocked artifact is passed over.
NothingToRemoveBlocked == deleted \/ status = "blocked"

NothingToRemove == deleted

\* deleteArtifactObject reads the row; the operator's endpoint has found it there before.
RemoveLoad(r) ==
  /\ \/ r = "retention" /\ remove[r].pc = "taken" /\ UNCHANGED orders
     \/ r = "admin" /\ remove[r].pc = "idle" /\ status # "absent" /\ ~NothingToRemove /\ Orders
  /\ IF NothingToRemove
     THEN RemoveGoes(r, "taken", "written") /\ UNCHANGED crossed
     ELSE /\ remove' = [remove EXCEPT ![r] = [pc |-> "loaded", bucket |-> bucket]]
          /\ Others(Scanning \/ Quarantining)
  /\ UNCHANGED <<row, content, complete, scanner, retention, quarantine, completes, puts, failures,
                 quarantined, reput, swapped, reverted>>

\* Faulty: the staging bucket, as in deleteStorageObject.
EraseBucketStaging(r) == "staging"

EraseBucket(r) == remove[r].bucket

\* The object is deleted from the bucket the row named when it was read.
RemoveErase(r) ==
  /\ RemoveGoes(r, "loaded", "erased")
  /\ EraseFrom(EraseBucket(r))
  /\ UNCHANGED <<row, complete, scanner, retention, quarantine, budgets, history>>

RemoveWrite(r) ==
  /\ remove[r].pc = "erased"
  /\ remove' = [remove EXCEPT ![r] = IF r = "admin" THEN NotAtWork ELSE [NotAtWork EXCEPT !.pc = "written"]]
  /\ status' = "deleted" /\ deleted' = TRUE
  /\ UNCHANGED <<bucket, attach, content, complete, scanner, retention, quarantine, budgets, history>>

DeleteFinish ==
  /\ RemoveGoes("retention", "written", "returned")
  /\ job' = "finished"
  /\ UNCHANGED <<row, content, complete, scanner, due, sweep, deleteEvent, deleteTries, quarantine,
                 budgets, history>>

DeleteSent ==
  /\ RemoveGoes("retention", "returned", "idle")
  /\ deleteEvent' = "sent"
  /\ UNCHANGED <<row, content, complete, scanner, job, due, sweep, deleteTries, quarantine, budgets,
                 history>>

\* A call fails and is thrown, or the process dies.
RemoveFails(r) ==
  /\ remove[r].pc \in {"taken", "loaded", "erased", "written"} /\ Fails
  /\ remove' = [remove EXCEPT ![r] = NotAtWork]
  /\ deleteEvent' \in (IF r = "admin" THEN {deleteEvent} ELSE {"pending", AfterThrow(deleteTries)})
  /\ Others(remove[r].pc = "erased")
  /\ UNCHANGED <<row, content, complete, scanner, job, due, sweep, deleteTries, quarantine, completes,
                 puts, orders, quarantined, reput, swapped, reverted>>

-----------------------------------------------------------------------------
(* The operator's quarantine *)

QuarantineGoes(from, to) == quarantine.pc = from /\ quarantine' = [quarantine EXCEPT !.pc = to]

\* Nothing to do if the row is blocked.
QuarantineLoad ==
  /\ quarantine.pc = "idle" /\ status \notin {"absent", "blocked"} /\ ~deleted /\ Orders
  /\ quarantine' = [pc |-> IF bucket = "quarantine" THEN "again" ELSE "loaded", bucket |-> bucket]
  /\ Others(Scanning \/ \E r \in Removers : Removing(r))
  /\ UNCHANGED <<row, content, complete, scanner, retention, remove, completes, puts, failures,
                 quarantined, reput, swapped, reverted>>

\* The object is in quarantine already (a completion or a verdict had changed the status).
QuarantineAgain ==
  /\ quarantine.pc = "again" /\ quarantine' = NotAtWork
  /\ status' = "blocked" /\ quarantined' = TRUE
  /\ UNCHANGED <<bucket, deleted, attach, content, complete, scanner, retention, remove, budgets,
                 crossed, reput, swapped, reverted>>

QuarantineCopy ==
  /\ IF quarantine.bucket \in Holders
     THEN QuarantineGoes("loaded", "copied") /\ CopyTo(quarantine.bucket, "quarantine")
     ELSE quarantine.pc = "loaded" /\ quarantine' = NotAtWork /\ UNCHANGED content
  /\ UNCHANGED <<row, complete, scanner, retention, remove, budgets, history>>

QuarantineRemove ==
  /\ QuarantineGoes("copied", "moved")
  /\ EraseFrom(quarantine.bucket)
  /\ UNCHANGED <<row, complete, scanner, retention, remove, budgets, history>>

\* Faulty: the row is blocked but still names its old bucket.
QuarantineWriteStatus ==
  /\ quarantine.pc = "moved" /\ quarantine' = NotAtWork
  /\ status' = "blocked" /\ quarantined' = TRUE
  /\ UNCHANGED <<bucket, deleted, attach, content, complete, scanner, retention, remove, budgets,
                 crossed, reput, swapped, reverted>>

QuarantineWrite ==
  /\ quarantine.pc = "moved" /\ quarantine' = NotAtWork
  /\ status' = "blocked" /\ bucket' = "quarantine"
  /\ quarantined' = TRUE
  /\ UNCHANGED <<deleted, attach, content, complete, scanner, retention, remove, budgets, crossed,
                 reput, swapped, reverted>>

QuarantineDies ==
  /\ Quarantining /\ Fails
  /\ quarantine' = NotAtWork
  /\ Others(quarantine.pc \in {"copied", "moved"})
  /\ UNCHANGED <<row, content, complete, scanner, retention, remove, completes, puts, orders, quarantined, reput,
                 swapped, reverted>>

-----------------------------------------------------------------------------
ClientStep == Presign \/ Put \/ CompleteCheck \/ AttachCheck \/ Attach
CompleteStep == CompleteMark \/ CompleteEnqueue \/ CompleteDies
ScanStep ==
  \/ ScanTake \/ ScanLoad \/ ScanFetch \/ ScanMark \/ ScanFailed \/ ScanCopy \/ ScanRemove \/ ScanWrite
  \/ ScanSettle \/ ScanDies
RemoveStep(r) == RemoveLoad(r) \/ RemoveErase(r) \/ RemoveWrite(r) \/ RemoveFails(r)
SweepStep == SweepMark \/ SweepEnqueue \/ SweepDies
DeleteStep == DeleteTake \/ RemoveStep("retention") \/ DeleteFinish \/ DeleteSent
QuarantineStep ==
  QuarantineLoad \/ QuarantineAgain \/ QuarantineCopy \/ QuarantineRemove \/ QuarantineWrite \/ QuarantineDies

Next ==
  \/ ClientStep \/ CompleteStep \/ Accept \/ ScanStep
  \/ Expires \/ SweepStep \/ DeleteStep \/ RemoveStep("admin") \/ QuarantineStep

Spec == Init /\ [][Next]_vars

\* The runners poll for ever and a request that is not cut off ends; clients, operators,
\* failures and the day of expiry need not come.
Fairness ==
  /\ WF_vars(CompleteStep) /\ WF_vars(ScanStep)
  /\ WF_vars(SweepStep) /\ WF_vars(DeleteStep)

-----------------------------------------------------------------------------
(* Properties *)

\* What a download is redirected to.
Served == status \in {"scanned", "accepted"} /\ ~deleted /\ bucket = "clean"

\* What is served is bytes a scan found good, and is there unless a quarantine or a deletion is just
\* taking it away or was cut off doing so, whatever is put, completed, scanned again or accepted in
\* between.  Not so if bytes were put between the scanner's fetch and its copy: the copy is of those
\* (scanArtifactObject, presignArtifactDownloadUrl against the presigned PUT,
\* deleteArtifactObject and quarantineArtifactObjectAdmin).
ServedIsGood ==
  Served =>
    /\ content["clean"] = "bad" => swapped
    /\ "clean" \notin Holders => BeingMoved \/ crossed

\* What the operator put in quarantine is not served again: not by a verdict, a completion or a
\* scan that comes later.  Not so if the bytes were put again, or a scan or a deletion was under
\* way (quarantineArtifactObjectAdmin against everything that writes the status).
QuarantineHolds == quarantined /\ ~crossed /\ ~reput => ~Served

\* When an artifact is marked deleted no bucket holds its object any more, unless a scan or a
\* quarantine was moving it meanwhile or bytes were put after the first completion
\* (deleteArtifactObject, which trusts the bucket the row names).
DeletedIsGone == deleted /\ ~crossed /\ ~reput => Holders = {}

\* A queued scan comes to an outcome, a deletion or a deadletter, unless a completion overwrote
\* the outcome: its event was sent and is not sent again (uploads/complete and the scanner).
ScanComes ==
  scanEvent = "pending" ~> (status \in Outcomes \/ deleted \/ scanEvent = "dead" \/ reverted)

Lost == job = "enqueued" /\ sweep = "idle" /\ deleteEvent = "absent"

\* What has expired is deleted, unless the deletion is dead-lettered or the runner died after it
\* marked the job and before it wrote the event (enqueueDueRetentionDeletions).
ExpiredIsDeleted == due ~> (deleted \/ deleteEvent = "dead" \/ Lost)
=============================================================================
