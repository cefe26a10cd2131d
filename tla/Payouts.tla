------------------------------- MODULE Payouts -------------------------------
(***************************************************************************)
(* One payout from its row to the money: the payout runner (payout         *)
(* requests and confirmations), the chain or provider, the buyer's         *)
(* disputes with their automatic refund, the worker setting a payout       *)
(* address, and the operator's retry and mark.                             *)
(*                                                                         *)
(* The dispute functions are transactions and one action each, but for     *)
(* createDispute, which reads the payout without a lock and commits later. *)
(* The handlers and the admin endpoints are sequences of separate          *)
(* statements and so processes. The payout starts as addPayout leaves it,  *)
(* with its payout.requested event scheduled for hold_until. An event is   *)
(* pending, processing (locked by a runner), sent or deadletter, and a     *)
(* runner settles it without looking at its state (see module Outbox).     *)
(***************************************************************************)
EXTENDS Naturals, Sequences, FiniteSets

CONSTANTS Runners,        \* payout runners working on payout.requested
          MaxDisputes,    \* bound: disputes opened
          MaxTroubles     \* bound: handlers that throw or die, locks that age out under a live runner,
                          \* retries and marks by the operator, holds renewed, disputes committed late

ASSUME PayoutAssumption == MaxDisputes \in Nat /\ MaxTroubles \in Nat

VARIABLES
  provider,   \* PAYMENTS_PROVIDER: "crypto" or "http"
  status,     \* payouts.status
  blocked,    \* payouts.blocked_reason
  held,       \* hold_until is in the future
  request,    \* the payout.requested event
  confirm,    \* the payout.confirm.requested event
  refund,     \* the dispute.auto_refund.requested event of the last dispute
  due,        \* which of the events "request", "refund" have come due
  address,    \* the worker has a verified payout address
  unblocking, \* the worker's request has still to unblock payouts
  dispute,    \* the last dispute
  disputing,  \* a createDispute has passed its checks and has not committed
  txs,        \* transfers given to the chain or provider, by outcome
  leg,        \* payout_transfers: the transaction of the legs and their status
  run,        \* the runners
  check,      \* the confirmation handler
  admin,      \* the admin request in progress
  disputes, refunds,                          \* how many there were
  reheld, reopened, reissued, late, lost,     \* history: see the properties
  troubles

row == <<status, blocked, held>>
events == <<request, confirm, refund, due>>
worker == <<address, unblocking>>
claims == <<dispute, disputing, disputes, refunds>>
money == <<txs, leg>>
history == <<reheld, reopened, reissued, late, lost>>
vars == <<provider, row, events, worker, claims, money, run, check, admin, history, troubles>>

TypeOK ==
  /\ provider \in {"crypto", "http"}
  /\ status \in {"pending", "paid", "failed", "refunded"}
  /\ blocked \in {"none", "address", "dispute", "refund"}
  /\ request \in {"pending", "processing", "sent", "deadletter"}
  /\ confirm \in {"absent", "pending", "sent", "deadletter"}
  /\ refund \in {"absent", "pending", "sent"}
  /\ due \in SUBSET {"request", "refund"}
  /\ dispute \in {"none", "open", "cancelled", "refunded", "upheld"}
  /\ txs \in Seq({"pending", "ok", "reverted"})
  /\ leg \in [tx : 0 .. Len(txs), status : {"none", "broadcast", "confirmed", "failed"}]
  /\ run \in [Runners -> {"idle", "taken", "checked", "unaddressed", "ready", "broadcast",
                          "accepted", "rejected", "returned"}]
  /\ check \in {"idle", "loaded", "mined", "reverted", "confirmed", "failed", "returned"}
  /\ admin \in {"idle", "retry", "retried", "marked"}
  /\ {held, address, unblocking, disputing, reheld, reopened, reissued, late, lost} \subseteq BOOLEAN
  /\ disputes \in 0 .. MaxDisputes /\ refunds \in 0 .. disputes
  /\ troubles \in 0 .. MaxTroubles

Init ==
  /\ provider \in {"crypto", "http"}
  /\ status = "pending" /\ blocked = "none" /\ held = TRUE
  /\ request = "pending" /\ confirm = "absent" /\ refund = "absent" /\ due = {}
  /\ address \in BOOLEAN /\ unblocking = FALSE
  /\ dispute = "none" /\ disputing = FALSE /\ disputes = 0 /\ refunds = 0
  /\ txs = <<>> /\ leg = [tx |-> 0, status |-> "none"]
  /\ run = [r \in Runners |-> "idle"] /\ check = "idle" /\ admin = "idle"
  /\ reheld = FALSE /\ reopened = FALSE /\ reissued = FALSE /\ late = FALSE /\ lost = FALSE
  /\ troubles = 0

Trouble == troubles < MaxTroubles /\ troubles' = troubles + 1

Go(r, from, to) == run[r] = from /\ run' = [run EXCEPT ![r] = to]

\* An event put back to pending is scheduled at max(now, hold_until).
Schedule ==
  /\ request' = "pending"
  /\ due' = IF held THEN due \ {"request"} ELSE due \cup {"request"}

\* A dispute that has passed its checks by now commits late.
HoldEnds ==
  /\ held
  /\ IF disputing THEN Trouble ELSE UNCHANGED troubles
  /\ late' = (late \/ disputing)
  /\ held' = FALSE
  /\ due' = due \cup {"request", "refund"}
  /\ UNCHANGED <<provider, status, blocked, request, confirm, refund, worker, claims, money,
                 run, check, admin, reheld, reopened, reissued, lost>>

\* addPayout again (a verdict delivered twice, an override): the row is kept, but
\* the hold starts anew.  The event keeps its old time, which may have come.
AddPayoutAgain ==
  /\ Trouble
  /\ held' = TRUE /\ reheld' = TRUE
  /\ due' \in {due, due \cup {"request", "refund"}}
  /\ UNCHANGED <<provider, status, blocked, request, confirm, refund, worker, claims, money, run,
                 check, admin, reopened, reissued, late, lost>>

-----------------------------------------------------------------------------
(* The payout runner: handlePayoutRequested *)

\* Faulty: the runner takes the event without locking it.
TakeUnlocked(r) ==
  /\ request = "pending" /\ "request" \in due
  /\ Go(r, "idle", "taken")
  /\ UNCHANGED <<provider, row, events, worker, claims, money, check, admin, history, troubles>>

\* Taken while another runner has yet to settle it, the event may be marked sent
\* by that one and then lost with this one.
Take(r) ==
  /\ request = "pending" /\ "request" \in due
  /\ request' = "processing"
  /\ Go(r, "idle", "taken")
  /\ lost' = (lost \/ \E s \in Runners : run[s] # "idle")
  /\ UNCHANGED <<provider, row, confirm, refund, due, worker, claims, money, check, admin,
                 reheld, reopened, reissued, late, troubles>>

\* getPayout and the early returns.  A return because of the hold loses the event.
Load(r) ==
  /\ LET stop == status = "paid" \/ blocked # "none" \/ held IN
       /\ Go(r, "taken", IF stop THEN "returned" ELSE "checked")
       /\ lost' = (lost \/ (held /\ status # "paid" /\ blocked = "none"))
  /\ UNCHANGED <<provider, row, events, worker, claims, money, check, admin, reheld, reopened, reissued, late, troubles>>

ReadAddress(r) ==
  /\ provider = "crypto"
  /\ Go(r, "checked", IF address THEN "ready" ELSE "unaddressed")
  /\ UNCHANGED <<provider, row, events, worker, claims, money, check, admin, history, troubles>>

\* The payout is blocked on what was read before: the address may be there by now.
Block(r) ==
  /\ Go(r, "unaddressed", "returned")
  /\ blocked' = IF status = "pending" THEN "address" ELSE blocked
  /\ lost' = (lost \/ (status = "pending" /\ address /\ ~unblocking))
  /\ UNCHANGED <<provider, status, held, events, worker, claims, money, check, admin,
                 reheld, reopened, reissued, late, troubles>>

\* signAndBroadcastSplitterTx, inside the transaction that holds the nonce row.
Broadcast(r) ==
  /\ \A s \in Runners : run[s] # "broadcast"
  /\ Go(r, "ready", "broadcast")
  /\ txs' = Append(txs, "pending")
  /\ UNCHANGED <<provider, row, events, worker, claims, leg, check, admin, history, troubles>>

\* The transaction commits: the legs name the new transaction and a confirmation
\* is enqueued, unless the payout had one before: its key is the payout's.
Commit(r) ==
  /\ Go(r, "broadcast", "returned")
  /\ leg' = [tx |-> Len(txs), status |-> "broadcast"]
  /\ confirm' = IF confirm = "absent" THEN "pending" ELSE confirm
  /\ lost' = (lost \/ confirm = "sent")
  /\ UNCHANGED <<provider, row, request, refund, due, worker, claims, txs, check, admin,
                 reheld, reopened, reissued, late, troubles>>

\* createPayout of the mock or http provider, then markPayoutStatus.
CallProvider(r) ==
  /\ provider = "http"
  /\ \/ Go(r, "checked", "accepted") /\ txs' = Append(txs, "ok")
     \/ Go(r, "checked", "rejected") /\ UNCHANGED txs
  /\ UNCHANGED <<provider, row, events, worker, claims, leg, check, admin, history, troubles>>

MarkPayout(r) ==
  /\ \/ Go(r, "accepted", "returned") /\ status' = "paid"
     \/ Go(r, "rejected", "returned") /\ status' = "failed"
  /\ UNCHANGED <<provider, blocked, held, events, worker, claims, money, check, admin, history, troubles>>

\* markOutboxSent, also over an event that was made pending meanwhile.
MarkSent(r) ==
  /\ Go(r, "returned", "idle")
  /\ request' = "sent"
  /\ lost' = (lost \/ request = "pending")
  /\ UNCHANGED <<provider, row, confirm, refund, due, worker, claims, money, check, admin,
                 reheld, reopened, reissued, late, troubles>>

\* The runner dies, or the handler throws: rescheduled or out of attempts.
RunFails(r) ==
  /\ Trouble /\ run[r] # "idle"
  /\ run' = [run EXCEPT ![r] = "idle"]
  /\ request' \in {request, "pending", "deadletter"}
  /\ reissued' = (reissued \/ run[r] \in {"broadcast", "accepted", "returned"})
  /\ UNCHANGED <<provider, row, confirm, refund, due, worker, claims, money, check, admin,
                 reheld, reopened, late, lost>>

\* The lock ages out, of a dead runner or of a slow one.
LockTimeout ==
  LET live == \E r \in Runners : run[r] # "idle" IN
  /\ request = "processing"
  /\ IF live THEN Trouble ELSE UNCHANGED troubles
  /\ reissued' = (reissued \/ live)
  /\ request' = "pending"
  /\ UNCHANGED <<provider, row, confirm, refund, due, worker, claims, money, run, check, admin,
                 reheld, reopened, late, lost>>

-----------------------------------------------------------------------------
(* The chain, and handlePayoutConfirmRequested *)

Mine(t, outcome) ==
  /\ t \in 1 .. Len(txs) /\ txs[t] = "pending"
  /\ txs' = [txs EXCEPT ![t] = outcome]
  /\ UNCHANGED <<provider, row, events, worker, claims, leg, run, check, admin, history, troubles>>

ConfirmLoad ==
  /\ check = "idle" /\ confirm = "pending"
  /\ check' = IF status \in {"paid", "failed"} THEN "returned" ELSE "loaded"
  /\ UNCHANGED <<provider, row, events, worker, claims, money, run, admin, history, troubles>>

\* The legs and the receipt.  No receipt: the handler throws, and gives up after
\* the last attempt.
ConfirmReceipt ==
  /\ check = "loaded"
  /\ IF leg.status # "confirmed" /\ txs[leg.tx] = "pending"
     THEN check' = "idle" /\ confirm' \in {"pending", "deadletter"}
     ELSE /\ check' = IF leg.status = "confirmed" THEN "confirmed"
                      ELSE IF txs[leg.tx] = "ok" THEN "mined" ELSE "reverted"
          /\ UNCHANGED confirm
  /\ UNCHANGED <<provider, row, request, refund, due, worker, claims, money, run, admin, history, troubles>>

ConfirmLegs ==
  /\ \/ check = "mined" /\ check' = "confirmed" /\ leg' = [leg EXCEPT !.status = "confirmed"]
     \/ check = "reverted" /\ check' = "failed" /\ leg' = [leg EXCEPT !.status = "failed"]
  /\ UNCHANGED <<provider, row, events, worker, claims, txs, run, admin, history, troubles>>

\* markPayoutStatus, whatever the status has become.
ConfirmMark ==
  /\ \/ check = "confirmed" /\ status' = "paid"
     \/ check = "failed" /\ status' = "failed"
  /\ check' = "returned"
  /\ UNCHANGED <<provider, blocked, held, events, worker, claims, money, run, admin, history, troubles>>

ConfirmSent ==
  /\ check = "returned"
  /\ check' = "idle" /\ confirm' = "sent"
  /\ lost' = (lost \/ status = "pending")
  /\ UNCHANGED <<provider, row, request, refund, due, worker, claims, money, run, admin,
                 reheld, reopened, reissued, late, troubles>>

ConfirmFails ==
  /\ Trouble /\ check # "idle"
  /\ check' = "idle" /\ confirm' \in {"pending", "deadletter"}
  /\ UNCHANGED <<provider, row, request, refund, due, worker, claims, money, run, admin, history>>

-----------------------------------------------------------------------------
(* Disputes *)

\* Faulty: a dispute is accepted after the hold has ended.
AskDisputeLate ==
  /\ disputes < MaxDisputes /\ ~disputing
  /\ status # "paid" /\ dispute # "open"
  /\ disputing' = TRUE
  /\ UNCHANGED <<provider, row, events, worker, dispute, disputes, refunds, money, run, check, admin,
                 history, troubles>>

\* createDispute up to its writes: the payout, the hold and the open disputes as they are now.
AskDispute ==
  /\ disputes < MaxDisputes /\ ~disputing
  /\ status # "paid" /\ held /\ dispute # "open"
  /\ disputing' = TRUE
  /\ UNCHANGED <<provider, row, events, worker, dispute, disputes, refunds, money, run, check, admin,
                 history, troubles>>

\* Its writes and their commit, whatever the payout has become.
CreateDispute ==
  /\ disputing /\ disputing' = FALSE
  /\ disputes' = disputes + 1
  /\ dispute' = "open" /\ blocked' = "dispute"
  /\ request' = "sent"
  /\ refund' = "pending" /\ due' = IF held THEN due \ {"refund"} ELSE due \cup {"refund"}
  /\ reopened' = (reopened \/ status = "refunded" \/ refunds > 0)
  /\ UNCHANGED <<provider, status, held, confirm, worker, refunds, money, run, check, admin,
                 reheld, reissued, late, lost, troubles>>

CancelDispute ==
  /\ dispute = "open"
  /\ dispute' = "cancelled" /\ blocked' = "none"
  /\ Schedule
  /\ UNCHANGED <<provider, status, held, confirm, refund, worker, disputing, disputes, refunds, money, run,
                 check, admin, history, troubles>>

\* Faulty: a refund clears the block, as the other ways out of a dispute do.
RefundUnblocks ==
  /\ dispute = "open" /\ status \notin {"paid", "refunded"}
  /\ refunds' = refunds + 1
  /\ status' = "refunded" /\ blocked' = "none"
  /\ request' = "sent"
  /\ dispute' = "refunded"

\* Faulty: a misspelt status.
RefundMisspelt ==
  /\ dispute = "open" /\ status \notin {"paid", "refunded"}
  /\ refunds' = refunds + 1
  /\ status' = "refund" /\ blocked' = "refund"
  /\ request' = "sent"
  /\ dispute' = "refunded"

\* resolveDisputeAdmin(refund): credits the buyer and closes everything.  On a
\* refunded payout it returns at once, on a paid one it throws.
Refund ==
  /\ dispute = "open" /\ status \notin {"paid", "refunded"}
  /\ refunds' = refunds + 1
  /\ status' = "refunded" /\ blocked' = "refund"
  /\ request' = "sent"
  /\ dispute' = "refunded"

ResolveRefund ==
  /\ Refund
  /\ UNCHANGED <<provider, held, confirm, refund, due, worker, disputing, disputes, money, run, check, admin,
                 history, troubles>>

\* handleDisputeAutoRefundRequested: what cannot be refunded any more is skipped.
AutoRefund ==
  /\ refund = "pending" /\ "refund" \in due
  /\ refund' = "sent"
  /\ \/ Refund
     \/ ~(dispute = "open" /\ status \notin {"paid", "refunded"})
        /\ UNCHANGED <<status, blocked, request, dispute, refunds>>
  /\ UNCHANGED <<provider, held, confirm, due, worker, disputing, disputes, money, run, check, admin,
                 history, troubles>>

Uphold ==
  /\ dispute = "open" /\ status \notin {"paid", "refunded"}
  /\ dispute' = "upheld" /\ blocked' = "none"
  /\ Schedule
  /\ UNCHANGED <<provider, status, held, confirm, refund, worker, disputing, disputes, refunds, money, run,
                 check, admin, history, troubles>>

-----------------------------------------------------------------------------
(* The worker's payout address: two statements, the second a transaction *)

SetAddress ==
  /\ ~address
  /\ address' = TRUE /\ unblocking' = TRUE
  /\ UNCHANGED <<provider, row, events, claims, money, run, check, admin, history, troubles>>

\* Faulty: the payout is unblocked but its event is not put back.
UnblockOnly ==
  /\ unblocking
  /\ unblocking' = FALSE
  /\ blocked' = IF status = "pending" /\ blocked = "address" THEN "none" ELSE blocked
  /\ UNCHANGED <<provider, status, held, events, address, claims, money, run, check, admin,
                 history, troubles>>

Unblock ==
  /\ unblocking
  /\ unblocking' = FALSE
  /\ IF status = "pending" /\ blocked = "address"
     THEN blocked' = "none" /\ Schedule
     ELSE UNCHANGED <<blocked, request, due>>
  /\ UNCHANGED <<provider, status, held, confirm, refund, address, claims, money, run, check, admin,
                 history, troubles>>

-----------------------------------------------------------------------------
(* The operator: POST .../retry and .../mark, statement by statement *)

RetryCheck ==
  /\ admin = "idle" /\ Trouble
  /\ status \notin {"paid", "refunded"} /\ blocked = "none"
  /\ admin' = "retry"
  /\ UNCHANGED <<provider, row, events, worker, claims, money, run, check, history>>

RetryMark ==
  /\ admin = "retry" /\ admin' = "retried"
  /\ status' = "pending"
  /\ UNCHANGED <<provider, blocked, held, events, worker, claims, money, run, check, history, troubles>>

\* A retry while a transfer may still go through asks for a second one, and so
\* does one whose check has gone stale (a dispute blocked the payout meanwhile):
\* the runner that takes it is not seen by the dispute's end.
RetryQueue ==
  /\ admin = "retried" /\ admin' = "idle"
  /\ Schedule
  /\ reissued' = (\/ reissued \/ blocked # "none"
                  \/ \E t \in 1 .. Len(txs) : txs[t] # "reverted"
                  \/ \E r \in Runners : run[r] # "idle")
  /\ UNCHANGED <<provider, row, confirm, refund, worker, claims, money, run, check,
                 reheld, reopened, late, lost, troubles>>

Mark(s) ==
  /\ admin = "idle" /\ Trouble
  /\ status' = s /\ admin' = "marked"
  /\ UNCHANGED <<provider, blocked, held, events, worker, claims, money, run, check, history>>

MarkStops ==
  /\ admin = "marked" /\ admin' = "idle"
  /\ request' = "sent"
  /\ UNCHANGED <<provider, row, confirm, refund, due, worker, claims, money, run, check, history, troubles>>

-----------------------------------------------------------------------------
RunStep(r) ==
  \/ Load(r) \/ ReadAddress(r) \/ Block(r) \/ Broadcast(r) \/ Commit(r)
  \/ CallProvider(r) \/ MarkPayout(r) \/ MarkSent(r)
ConfirmStep == ConfirmLoad \/ ConfirmReceipt \/ ConfirmLegs \/ ConfirmMark \/ ConfirmSent
AdminStep == RetryMark \/ RetryQueue \/ MarkStops
MineSome == \E t \in 1 .. Len(txs) : Mine(t, "ok") \/ Mine(t, "reverted")

Next ==
  \/ HoldEnds \/ AddPayoutAgain
  \/ \E r \in Runners : Take(r) \/ RunStep(r) \/ RunFails(r)
  \/ LockTimeout
  \/ MineSome \/ ConfirmStep \/ ConfirmFails
  \/ AskDispute \/ CreateDispute \/ CancelDispute \/ ResolveRefund \/ AutoRefund \/ Uphold
  \/ SetAddress \/ Unblock
  \/ RetryCheck \/ AdminStep
  \/ \E s \in {"paid", "failed", "refunded"} : Mark(s)

Spec == Init /\ [][Next]_vars

\* The runner polls for ever and handlers end; requests run to their end; holds
\* run out and the locks of dead runners age; transactions get mined.
Fairness ==
  /\ \A r \in Runners : WF_vars(Take(r)) /\ WF_vars(RunStep(r))
  /\ WF_vars(HoldEnds) /\ WF_vars((\A r \in Runners : run[r] = "idle") /\ LockTimeout)
  /\ WF_vars(MineSome) /\ WF_vars(ConfirmStep)
  /\ WF_vars(Unblock) /\ WF_vars(AdminStep) /\ WF_vars(CreateDispute)

FairSpec == Spec /\ Fairness

-----------------------------------------------------------------------------
(* Correctness *)

Sent == {t \in 1 .. Len(txs) : txs[t] # "reverted"}

\* While a dispute is open no handler is past its checks, although the checks
\* are never made again: disputes open before the hold ends and handlers pass
\* after it.  Only a hold that started anew and a dispute that commits when the
\* hold it was checked against has ended break this (createDispute,
\* handlePayoutRequested).
DisputeFreezes ==
  dispute = "open" /\ ~reheld /\ ~late =>
    \A r \in Runners : run[r] \in {"idle", "taken", "returned"}

\* The buyer is not credited for a payout that was also sent to the worker, in
\* whatever order dispute, hold, runner and operator come; the known ways around
\* it are a hold that started anew, a dispute that commits late and a dispute on
\* a refunded payout.
PaidOrRefunded == refunds > 0 /\ ~reheld /\ ~reopened /\ ~late => Sent = {}

\* No second transfer is sent after one that went through or still may, unless a
\* handler was interrupted after its transfer, two runners overlapped, the
\* operator retried too early, the hold started anew, or a dispute committed late.
PaidOnce == ~reissued /\ ~reheld /\ ~late => Cardinality(Sent) <= 1

\* A payout that is due and not blocked is eventually settled or dead-lettered;
\* lost names all the ways its event can be spent without effect: a block written
\* after the address came, a late markOutboxSent, two runners at work on it, a
\* confirmation key used before.
Waiting ==
  /\ status = "pending" /\ blocked = "none" /\ ~held
  /\ ~lost /\ "deadletter" \notin {request, confirm}
Settles == Waiting ~> ~Waiting

\* src/store.ts, resolveDisputeAdmin: "Mark payout refunded (final)."
RefundIsFinal == [][status = "refunded" /\ refunds > 0 => status' = "refunded"]_vars
=============================================================================
