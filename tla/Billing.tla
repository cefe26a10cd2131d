------------------------------- MODULE Billing -------------------------------
(***************************************************************************)
(* The money of one organisation: its balance and ledger, the budget       *)
(* reserved for its bounties, what its jobs may cost, and the ways money   *)
(* comes in (Stripe Checkout with its webhook, the operator's top-up).     *)
(*                                                                         *)
(* publishBounty reads the reservation and the limits without a lock and   *)
(* debits later: two steps.  From its debit on it holds the account's row, *)
(* so debit to commit is one.  Of the work for a bounty only numbers are   *)
(* kept: its jobs under way (module JobLifecycle) and its payouts by       *)
(* status (module Payouts).  Its jobs all cost the same, a payout is of a  *)
(* submission, and a job may have several submissions that pass.           *)
(***************************************************************************)
EXTENDS Integers, Sequences, FiniteSets, FiniteSetsExt, FeeSplit, Origins

CONSTANTS Bounties, Requests,   \* bounties; publish requests
          Jobs,                 \* [Bounties -> Nat]: the fingerprint classes a bounty asks for
          Payout,               \* bounties.payout_cents
          Rate,                 \* the fee rates of the organisation and of Proofwork
          Quotas,               \* the quotas the buyer sets one after the other
          StripeTopup, AdminTopup,
          MaxTurns, MaxTopups,  \* bounds: midnights and changes of the quotas; top-ups;
          MaxTwins, MaxRefunds  \* payouts of a bounty beyond one for each of its jobs; refunds

ASSUME BillingAssumption ==
  /\ IsFiniteSet(Bounties) /\ Jobs \in [Bounties -> Nat]
  /\ Payout \in Nat \ {0} /\ StripeTopup \in Nat \ {0} /\ AdminTopup \in Nat \ {0}
  /\ Rate \in Rates
  /\ Quotas \in Seq([spend : Nat, jobs : Nat]) /\ Quotas # <<>>
  /\ MaxTurns \in Nat /\ MaxTopups \in Nat /\ MaxTwins \in Nat /\ MaxRefunds \in Nat

VARIABLES
  bounty,       \* bounties.status
  reservation,  \* bounty_budget_reservations.status
  work,         \* jobs.status and payouts.status: how many are open, and due (pending or failed)
  balance,      \* billing_accounts.balance_cents
  ledger,       \* billing_events: the sum of amount_cents by event_type
  today,        \* the part of reserve, release and dispute_refund events booked since midnight
  quota,        \* the organisation's quotas: the last of Quotas that was set
  pub,          \* the publish requests
  days,         \* midnights so far
  checkout,     \* the Checkout session, as its payment intent and Stripe know it
  hook,         \* the session's row of stripe_webhook_events (dropped: it will not be processed)
  topup,        \* the operator's top-up
  uncovered,    \* history: how many payouts were made after the reservation was released
  reopened      \* history: bounties paused after closing, or closed while being published

accounts == <<balance, ledger, today>>
quotas == <<quota, days>>
stripe == <<checkout, hook>>
history == <<uncovered, reopened>>
vars == <<bounty, reservation, work, accounts, quotas, pub, stripe, topup, history, originVars>>

Reserve(b) == Payout * (IF Jobs[b] = 0 THEN 1 ELSE Jobs[b])
NoWork == [open |-> 0, due |-> 0, paid |-> 0, refunded |-> 0]
Statuses == {"due", "paid", "refunded"}
Payouts(b) == work[b].due + work[b].paid + work[b].refunded
OpenJobs == MapThenSumSet(LAMBDA b : work[b].open, Bounties)
Refund == RefundCents(Payout, Rate)
Unbooked == IF topup = "credited" THEN AdminTopup ELSE 0
Booked == ledger.stripe_topup + ledger.admin_topup + ledger.reserve + ledger.release + ledger.dispute_refund
limit == Quotas[quota]
Spent == IF today < 0 THEN -today ELSE 0
Idle == [pc |-> "idle"]
Over == [pc |-> "over"]
Waiting == [pc : {"asked", "republishes"}, bounty : Bounties]
Debiting == [pc : {"debits"}, bounty : Bounties, jobs : Nat, day : 0 .. MaxTurns, stale : BOOLEAN]
InProgress(r) == pub[r] \notin {Idle, Over}

TypeOK ==
  /\ bounty \in [Bounties -> {"absent", "draft", "published", "paused", "closed"}]
  /\ reservation \in [Bounties -> {"none", "active", "released"}]
  /\ work \in [Bounties -> [open : Nat, due : Nat, paid : Nat, refunded : Nat]]
  /\ balance \in Int /\ today \in Int
  /\ ledger \in [stripe_topup : Int, admin_topup : Int, reserve : Int, release : Int, dispute_refund : Int]
  /\ quota \in DOMAIN Quotas /\ days \in 0 .. MaxTurns
  /\ pub \in [Requests -> {Idle, Over} \cup Waiting \cup Debiting]
  /\ checkout \in {"none", "pending", "deferred", "paid", "succeeded"}
  /\ hook \in {"absent", "received", "processed", "dropped"}
  /\ topup \in {"none", "credited", "booked"}
  /\ uncovered \in [Bounties -> Nat] /\ reopened \subseteq Bounties
  /\ OriginTypeOK

Init ==
  /\ bounty = [b \in Bounties |-> "absent"]
  /\ reservation = [b \in Bounties |-> "none"]
  /\ work = [b \in Bounties |-> NoWork]
  /\ balance = 0 /\ today = 0
  /\ ledger = [stripe_topup |-> 0, admin_topup |-> 0, reserve |-> 0, release |-> 0, dispute_refund |-> 0]
  /\ quota = 1 /\ days = 0
  /\ pub = [r \in Requests |-> Idle]
  /\ checkout = "none" /\ hook = "absent" /\ topup = "none"
  /\ uncovered = [b \in Bounties |-> 0] /\ reopened = {}
  /\ OriginInit

\* A change of the balance with its billing event.
Book(type, cents) ==
  /\ balance' = balance + cents
  /\ ledger' = [ledger EXCEPT ![type] = @ + cents]

-----------------------------------------------------------------------------
(* Bounties *)

CreateBounty(b) ==
  /\ bounty[b] = "absent" /\ OriginAllowed
  /\ bounty' = [bounty EXCEPT ![b] = "draft"]
  /\ UNCHANGED <<reservation, work, accounts, quotas, pub, stripe, topup, history, originVars>>

\* The endpoint's own checks, before the transaction.
AskToPublish(r, b) ==
  /\ pub[r] = Idle
  /\ bounty[b] \in {"draft", "paused"} /\ OriginAllowed
  /\ pub' = [pub EXCEPT ![r] = [pc |-> "asked", bounty |-> b]]
  /\ UNCHANGED <<bounty, reservation, work, accounts, quotas, stripe, topup, history, originVars>>

\* Faulty: what the bounty itself will cost is left out.
SpendAllowedBefore(b) == Spent < limit.spend

SpendAllowed(b) == Spent + Reserve(b) <= limit.spend

\* publishBounty up to the debit: quotas, reservation, spend limit.
ReadForPublish(r) ==
  /\ pub[r].pc = "asked"
  /\ LET b == pub[r].bounty
     IN  \/ /\ reservation[b] # "none"
            /\ pub' = [pub EXCEPT ![r] = [pc |-> "republishes", bounty |-> b]]
         \/ /\ reservation[b] = "none" /\ SpendAllowed(b)
            /\ pub' = [pub EXCEPT ![r] = [pc |-> "debits", bounty |-> b, jobs |-> limit.jobs,
                                          day |-> days, stale |-> FALSE]]
  /\ UNCHANGED <<bounty, reservation, work, accounts, quotas, stripe, topup, history, originVars>>

\* The requests that read the limits before this step: what they read is no longer so.
Outdated ==
  [r \in Requests |-> IF pub[r].pc = "debits"
                      THEN [pub[r] EXCEPT !.stale = TRUE] ELSE pub[r]]

RoomFor(b, max) == OpenJobs + Jobs[b] <= max

\* What the transaction does once the balance has been debited.
Publishes(r, b) ==
  /\ RoomFor(b, pub[r].jobs)
  /\ Book("reserve", -Reserve(b))
  /\ today' = IF pub[r].day = days THEN today - Reserve(b) ELSE today
  /\ reservation' = [reservation EXCEPT ![b] = "active"]
  /\ bounty' = [bounty EXCEPT ![b] = "published"]
  /\ work' = [work EXCEPT ![b].open = Jobs[b]]
  /\ pub' = [Outdated EXCEPT ![r] = Over]
  /\ UNCHANGED <<quotas, stripe, topup, history, originVars>>

\* Faulty: the debit does not ask for the balance.
DebitBlindly(r) ==
  /\ pub[r].pc = "debits"
  /\ reservation[pub[r].bounty] = "none"
  /\ Publishes(r, pub[r].bounty)

\* publishBounty from the debit to the commit.  The reservation is unique: a second
\* request fails on its insert and rolls back.
Debit(r) ==
  /\ pub[r].pc = "debits"
  /\ balance >= Reserve(pub[r].bounty) /\ reservation[pub[r].bounty] = "none"
  /\ Publishes(r, pub[r].bounty)

\* A bounty with a reservation is published, whatever has become of either.
Republish(r) ==
  /\ pub[r].pc = "republishes"
  /\ bounty' = [bounty EXCEPT ![pub[r].bounty] = "published"]
  /\ pub' = [pub EXCEPT ![r] = Over]
  /\ UNCHANGED <<reservation, work, accounts, quotas, stripe, topup, history, originVars>>

\* Insufficient funds, a limit, the unique index, or a request that dies: a rollback.
GiveUpPublish(r) ==
  /\ InProgress(r)
  /\ pub' = [pub EXCEPT ![r] = Over]
  /\ UNCHANGED <<bounty, reservation, work, accounts, quotas, stripe, topup, history, originVars>>

\* Faulty: pausing releases the budget as closing does.
PauseReleases(b) ==
  /\ bounty[b] # "absent"
  /\ bounty' = [bounty EXCEPT ![b] = "paused"]
  /\ reservation' = [reservation EXCEPT ![b] = IF @ = "active" THEN "released" ELSE @]
  /\ UNCHANGED <<work, accounts, quotas, pub, stripe, topup, history, originVars>>

\* Faulty: a status the table does not know.
PauseMisspelt(b) ==
  /\ bounty[b] # "absent"
  /\ bounty' = [bounty EXCEPT ![b] = "pause"]
  /\ UNCHANGED <<reservation, work, accounts, quotas, pub, stripe, topup, history, originVars>>

\* The status before is not looked at: drafts and closed bounties can be paused.
Pause(b) ==
  /\ bounty[b] # "absent"
  /\ bounty' = [bounty EXCEPT ![b] = "paused"]
  /\ reopened' = IF bounty[b] = "closed" THEN reopened \cup {b} ELSE reopened
  /\ UNCHANGED <<reservation, work, accounts, quotas, pub, stripe, topup, uncovered, originVars>>

\* Faulty: only what is paid is held back, not what is going to be.
RemainingPaid(b) == Max({0, Reserve(b) - Payout * work[b].paid})

\* The release at closing: all but the payouts there are, whatever their status.
Remaining(b) == Max({0, Reserve(b) - Payout * Payouts(b)})

Publishing(b) == \E r \in Requests : InProgress(r) /\ pub[r].bounty = b

Close(b) ==
  /\ bounty[b] # "absent"
  /\ bounty' = [bounty EXCEPT ![b] = "closed"]
  /\ IF reservation[b] = "active"
     THEN /\ Book("release", Remaining(b))
          /\ today' = today + Remaining(b)
          /\ reservation' = [reservation EXCEPT ![b] = "released"]
          /\ reopened' = IF Publishing(b) THEN reopened \cup {b} ELSE reopened
     ELSE UNCHANGED <<accounts, reservation, reopened>>
  /\ UNCHANGED <<work, quotas, pub, stripe, topup, uncovered, originVars>>

-----------------------------------------------------------------------------
(* Jobs and payouts.  Neither claim nor verdict looks at the bounty's status. *)

\* One of the bounty's jobs or payouts changes its status.
Moved(w, from, to) == [w EXCEPT ![from] = @ - 1, ![to] = @ + 1]
Moves(b, from, to) ==
  /\ work[b][from] > 0 /\ from # to
  /\ work' = [work EXCEPT ![b] = Moved(@, from, to)]

\* addPayout: one for each submission that passes.  It is the one its job is under way with,
\* or another of a job that has ended.
Pass(b) ==
  /\ Payouts(b) < Jobs[b] + MaxTwins
  /\ \/ Moves(b, "open", "due")
     \/ /\ reservation[b] # "none" /\ work[b].open < Jobs[b]
        /\ work' = [work EXCEPT ![b].due = @ + 1]
  /\ uncovered' = [uncovered EXCEPT ![b] = IF reservation[b] = "released" THEN @ + 1 ELSE @]
  /\ UNCHANGED <<bounty, reservation, accounts, quotas, pub, stripe, topup, reopened, originVars>>

\* A job ends without a payout, or a submission sent again puts one that had ended back to verifying.
Work(b) ==
  /\ \/ work[b].open > 0 /\ work' = [work EXCEPT ![b].open = @ - 1]
     \/ /\ reservation[b] # "none" /\ work[b].open < Jobs[b]
        /\ work' = [work EXCEPT ![b].open = @ + 1]
  /\ UNCHANGED <<bounty, reservation, accounts, quotas, pub, stripe, topup, history, originVars>>

\* The runners execute a payout, one that was refunded too, or the operator marks it as
\* whatever she says it is: with no money of the organisation's.
Settle(b) ==
  /\ \E from, to \in Statuses : Moves(b, from, to)
  /\ UNCHANGED <<bounty, reservation, accounts, quotas, pub, stripe, topup, history, originVars>>

\* resolveDisputeAdmin: a refund.  Proofwork keeps its fee.
DisputeRefund(b) ==
  /\ ledger.dispute_refund < MaxRefunds * Refund
  /\ Moves(b, "due", "refunded")
  /\ Book("dispute_refund", Refund)
  /\ today' = today + Refund
  /\ UNCHANGED <<bounty, reservation, quotas, pub, stripe, topup, history, originVars>>

-----------------------------------------------------------------------------
(* Quotas and midnight *)

SetQuotas ==
  /\ quota < Len(Quotas) /\ quota + days <= MaxTurns
  /\ quota' = quota + 1
  /\ pub' = Outdated
  /\ UNCHANGED <<bounty, reservation, work, accounts, days, stripe, topup, history, originVars>>

Midnight ==
  /\ quota + days <= MaxTurns
  /\ days' = days + 1
  /\ today' = 0
  /\ UNCHANGED <<bounty, reservation, work, balance, ledger, quota, pub, stripe, topup, history, originVars>>

-----------------------------------------------------------------------------
(* Money in.  Stripe sends the event of a completed session until it is     *)
(* answered with 2xx.                                                       *)

Topups == (IF checkout = "none" THEN 0 ELSE 1) + (IF topup = "none" THEN 0 ELSE 1)

\* The intent is recorded, then the session made and its id recorded: only then can the buyer pay.
Checkout ==
  /\ Topups < MaxTopups
  /\ checkout = "none" /\ checkout' = "pending"
  /\ UNCHANGED <<bounty, reservation, work, accounts, quotas, pub, hook, topup, history, originVars>>

\* The session completes, paid or with a payment that is to come; such a payment
\* has an event of its own, of a type the webhook ignores.
Pay ==
  /\ \/ checkout = "pending" /\ checkout' \in {"paid", "deferred"}
     \/ checkout = "deferred" /\ hook = "dropped" /\ checkout' = "paid"
  /\ UNCHANGED <<bounty, reservation, work, accounts, quotas, pub, hook, topup, history, originVars>>

\* The event's row is inserted in a statement of its own; a delivery that finds it does nothing.
HookReceives ==
  /\ checkout \in {"paid", "deferred"} /\ hook = "absent"
  /\ hook' = "received"
  /\ UNCHANGED <<bounty, reservation, work, accounts, quotas, pub, checkout, topup, history, originVars>>

\* Faulty: the balance is credited and the event books nothing.
HookCreditsUnbooked ==
  /\ hook = "received" /\ checkout = "paid"
  /\ balance' = balance + StripeTopup
  /\ checkout' = "succeeded" /\ hook' = "processed"
  /\ UNCHANGED <<bounty, reservation, work, ledger, today, quotas, pub, topup, history, originVars>>

HookCredits ==
  /\ hook = "received" /\ checkout = "paid"
  /\ Book("stripe_topup", StripeTopup)
  /\ checkout' = "succeeded" /\ hook' = "processed"
  /\ UNCHANGED <<bounty, reservation, work, today, quotas, pub, topup, history, originVars>>

\* The session is not paid yet and the event ignored, or the transaction fails, or the process
\* dies: Stripe's retry will find the row and do nothing.
HookDrops ==
  /\ hook = "received"
  /\ hook' = "dropped"
  /\ UNCHANGED <<bounty, reservation, work, accounts, quotas, pub, checkout, topup, history, originVars>>

\* The operator's top-up: two statements, and the process may end between them.
AdminTopupCredits ==
  /\ Topups < MaxTopups
  /\ topup = "none"
  /\ topup' = "credited"
  /\ balance' = balance + AdminTopup
  /\ UNCHANGED <<bounty, reservation, work, ledger, today, quotas, pub, stripe, history, originVars>>

AdminTopupBooks ==
  /\ topup = "credited"
  /\ topup' = "booked"
  /\ ledger' = [ledger EXCEPT !["admin_topup"] = @ + AdminTopup]
  /\ UNCHANGED <<bounty, reservation, work, balance, today, quotas, pub, stripe, history, originVars>>

-----------------------------------------------------------------------------
PublishStep(r) ==
  \/ \E b \in Bounties : AskToPublish(r, b)
  \/ ReadForPublish(r) \/ Debit(r) \/ Republish(r) \/ GiveUpPublish(r)

BountyStep == \E b \in Bounties : CreateBounty(b) \/ Pause(b) \/ Close(b)

JobStep == \E b \in Bounties : Pass(b) \/ Work(b) \/ Settle(b) \/ DisputeRefund(b)

HookStep == HookReceives \/ HookCredits \/ HookDrops

TopupStep == Checkout \/ Pay \/ HookStep \/ AdminTopupCredits \/ AdminTopupBooks

OriginStep ==
  /\ OriginNext
  /\ UNCHANGED <<bounty, reservation, work, accounts, quotas, pub, stripe, topup, history>>

Next ==
  \/ \E r \in Requests : PublishStep(r)
  \/ BountyStep \/ JobStep \/ SetQuotas \/ Midnight \/ TopupStep \/ OriginStep

Spec == Init /\ [][Next]_vars

-----------------------------------------------------------------------------
(* Properties *)

Deposits == ledger.stripe_topup + ledger.admin_topup + Unbooked

\* What was reserved for a bounty and has not come back: all of it, or after the release what
\* the payouts there were by then cost, as far as the reservation went.
Held(b) ==
  CASE reservation[b] = "none" -> 0
    [] reservation[b] = "active" -> Reserve(b)
    [] reservation[b] = "released" -> Min({Reserve(b), Payout * (Payouts(b) - uncovered[b])})

\* Every cent deposited or refunded is in the balance or held for a bounty: publishing twice,
\* closing with work in flight, second payouts of a job and payouts that change their status at
\* the release neither lose money of the organisation's nor make any (publishBounty,
\* setBountyStatus, resolveDisputeAdmin).  It does not say that what is held is enough: a payout
\* made after the release, a second one of a job and one executed although refunded have no
\* budget of their own.
Conserved ==
  balance + MapThenSumSet(Held, Bounties) = Deposits + ledger.dispute_refund

\* The balance is the sum of its billing events, but for an operator's top-up whose event has
\* still to be written (the statements that change billing_accounts).
BalanceIsLedger == balance = Booked + Unbooked

\* No order of publishing, closing and refunding overdraws the account (the conditional debit
\* of publishBounty).
NoOverdraft == balance >= 0

\* A published bounty has its budget, unless it was paused after it was closed or closed while
\* it was being published (publish, pause and close look at different things).
PublishedIsFunded ==
  \A b \in Bounties : bounty[b] = "published" => reservation[b] = "active" \/ b \in reopened

\* A debit keeps the day's spending within the quota, unless another debit or a change of the
\* quota came after the request had read it (publishBounty's spend limits).
SpendWithinLimit ==
  [][\A r \in Requests :
       pub[r].pc = "debits" /\ reservation' # reservation /\ pub'[r] = Over /\ ~pub[r].stale
         => (IF today' < 0 THEN -today' ELSE 0) <= limit.spend]_vars

\* A revoked origin stays revoked, unless a check that read it before is still going on
\* (checkOrigin, revokeOrigin).
RevokedIsFinal == [][origin = "revoked" /\ late = {} => origin' = "revoked"]_vars
=============================================================================
