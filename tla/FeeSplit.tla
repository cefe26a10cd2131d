------------------------------- MODULE FeeSplit -------------------------------
(***************************************************************************)
(* How a gross payout is divided: the buyer's platform takes its rate of   *)
(* the gross, Proofwork its rate of what is left, the worker the rest.     *)
(* Amounts are cents, rates basis points; both floors favour the payee     *)
(* that comes next.                                                        *)
(***************************************************************************)
EXTENDS Naturals

WholeBps == 10000

Bps == 0 .. WholeBps

\* The rates computePayoutSplitCents accepts: it throws on any others.
Rates == {r \in [platform : Bps, proofwork : Bps] : r.platform + r.proofwork <= WholeBps}

FeeCents(gross, bps) == (gross * bps) \div WholeBps

PayoutSplit(gross, rate) ==
  LET platform == FeeCents(gross, rate.platform)
      workerGross == gross - platform
      proofwork == FeeCents(workerGross, rate.proofwork)
  IN  [platform |-> platform, proofwork |-> proofwork, net |-> workerGross - proofwork]

\* What a refunded buyer gets back: everything but Proofwork's fee.
RefundCents(gross, rate) == gross - PayoutSplit(gross, rate).proofwork
=============================================================================
