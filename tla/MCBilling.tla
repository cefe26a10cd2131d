------------------------------ MODULE MCBilling ------------------------------
(***************************************************************************)
(* What the API keeps of an organisation, for TLC: billing with origins,   *)
(* and the allowlist behind CORS, which shares nothing with them. A        *)
(* behaviour is one of either part.                                        *)
(***************************************************************************)
EXTENDS Billing, Cors, TLC

VARIABLE part     \* the part the behaviour is of

\* One bounty with two jobs, one with one.
CONSTANTS b1, b2

MCJobs == [b \in Bounties |-> IF b = b1 THEN 2 ELSE 1]
MCRate == [platform |-> 1000, proofwork |-> 500]
MCQuotas == <<[spend |-> 500, jobs |-> 3], [spend |-> 400, jobs |-> 2]>>

OrganisationInit ==
  /\ part \in {"publishing", "paying", "cors"} /\ Init /\ CorsInit
  /\ part # "cors" => listed = {}

\* Bounds.  Where the requests of two bounties race, a job has one payout and none is executed;
\* where payouts do all they can there is one bounty.
RacingRequests == \A b \in Bounties : Payouts(b)' <= Jobs[b] /\ work'[b].paid = 0
RovingPayouts == bounty'[b2] = "absent" /\ origin' # "revoked"

OrganisationNext ==
  \/ part = "publishing" /\ Next /\ RacingRequests /\ UNCHANGED <<part, corsVars>>
  \/ part = "paying" /\ Next /\ RovingPayouts /\ UNCHANGED <<part, corsVars>>
  \/ part = "cors" /\ CorsNext /\ UNCHANGED <<part, vars>>

OrganisationSpec == OrganisationInit /\ [][OrganisationNext]_<<vars, corsVars, part>>

MCSymmetry == Permutations(Requests)
=============================================================================
