------------------------------ MODULE Settlement ------------------------------
(***************************************************************************)
(* What the payout code promises worker and buyer about one payout's       *)
(* money, without events, runners, holds, disputes or addresses.  At most  *)
(* one transfer to the worker stands at a time, another follows only when  *)
(* it has failed, and the buyer is credited once, while none stands and    *)
(* instead of one.  Where the code has no control the payout is excepted,  *)
(* and nothing is promised of it from then on.                             *)
(***************************************************************************)
EXTENDS Naturals

VARIABLES sent,      \* transfers that went through or still may
          credits,   \* times the buyer was credited
          excepted   \* the promise does not hold for this payout any more

vars == <<sent, credits, excepted>>

Init == sent = 0 /\ credits = 0 /\ excepted = FALSE

Send ==
  /\ sent = 0 /\ credits = 0
  /\ sent' = 1
  /\ UNCHANGED <<credits, excepted>>

Fail ==
  /\ sent = 1
  /\ sent' = 0
  /\ UNCHANGED <<credits, excepted>>

Credit ==
  /\ sent = 0 /\ credits = 0
  /\ credits' = 1
  /\ UNCHANGED <<sent, excepted>>

Except == excepted' = TRUE

Next == (~excepted /\ (Send \/ Fail \/ Credit)) \/ Except

Spec == Init /\ [][Next]_vars
=============================================================================
