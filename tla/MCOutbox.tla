------------------------------- MODULE MCOutbox -------------------------------
(* Outbox for TLC: two runners that poll the same two topics, as two payout    *)
(* runners do, with different limits on the attempts.                          *)
EXTENDS Outbox, TLC

CONSTANTS w1, w2, payout, confirm

MCTopicOf == [e \in Events |-> IF e = 1 THEN payout ELSE confirm]
MCSubscribed == (w1 :> {payout, confirm}) @@ (w2 :> {payout, confirm})
MCMaxAttempts == (payout :> 2) @@ (confirm :> 1)

\* Bound: where two rows are overwritten, or one twice, no runner dies or overruns.
MCNext == Next /\ (overwrites' > 1 => crashes' + overruns' = 0)

MCSpec == Init /\ [][MCNext]_vars /\ Fairness
=============================================================================
