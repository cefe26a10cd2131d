---------------------------- MODULE PayoutProofs ----------------------------
(* One payout, for any number of runners, disputes and troubles: a dispute      *)
(* freezes it, it is not paid and refunded, it is not paid twice.               *)
(*                                                                              *)
(* Each property needs what keeps a transfer from beginning.  Under an open     *)
(* dispute and after a refund that is the payout's block, written while the     *)
(* hold still kept every handler from its checks.  Against a second transfer it *)
(* is the event: it is offered, or comes back, only while nothing has been sent.*)
EXTENDS Payouts, FiniteSetTheorems, TLAPS

-----------------------------------------------------------------------------
(* The inductive invariant *)

\* Past the checks: the handler goes on to send, whatever happens to the payout.
Stopped == {"idle", "taken", "returned"}
\* Before its transfer: what fails here leaves no money behind.
Before == {"taken", "checked", "unaddressed", "ready", "rejected"}
Active == Before \cup {"broadcast", "accepted"}
AllIdle == \A r \in Runners : run[r] = "idle"

Counted ==
  /\ disputing => disputes < MaxDisputes
  /\ dispute = "open" => refunds < disputes

\* Until the first hold has ended nothing is taken, and a dispute that passed its checks has it.
HoldIsKept ==
  /\ held /\ ~reheld => "request" \notin due /\ AllIdle /\ txs = <<>>
  /\ disputing /\ ~reheld /\ ~late => held

\* An open dispute blocks the payout and nothing has been sent.
DisputeBlocks ==
  dispute = "open" /\ ~reheld /\ ~late =>
    blocked = "dispute" /\ txs = <<>> /\ \A r \in Runners : run[r] \in Stopped

RefundBlocks ==
  refunds > 0 /\ ~reheld /\ ~reopened /\ ~late =>
    /\ blocked = "refund" /\ dispute # "open" /\ txs = <<>>
    /\ \A r \in Runners : run[r] \in Stopped

Regular == ~reissued /\ ~reheld /\ ~late

\* One handler at a time is before the end of its transfer, and its event is not offered.
OneActive ==
  /\ \A r, s \in Runners : run[r] \in Active /\ run[s] \in Active => r = s
  /\ request = "pending" => \A r \in Runners : run[r] \notin Active

AddressBlocks ==
  blocked = "address" =>
    /\ request # "pending" /\ (request = "processing" => ~AllIdle)
    /\ \A r \in Runners : run[r] \notin Active

DisputeStops == dispute = "open" => request = "sent" /\ AllIdle

\* What may still lead to a transfer: an event a runner takes, or one that comes
\* back when a lock ages, an address arrives or a dispute ends, or a handler on its way.
MaySend ==
  \/ request = "pending" \/ (request = "processing" /\ AllIdle)
  \/ blocked = "address" \/ dispute = "open"
  \/ \E r \in Runners : run[r] \in Before
NoneSentYet == MaySend => Sent = {}

OneSent == \A t, u \in Sent : t = u

RegularInv == Regular => OneActive /\ AddressBlocks /\ DisputeStops /\ NoneSentYet /\ OneSent

PayoutInv == TypeOK /\ Counted /\ HoldIsKept /\ DisputeBlocks /\ RefundBlocks /\ RegularInv

-----------------------------------------------------------------------------
(* Its conjuncts, step by step *)

\* Every step keeps every variable in its type.
LEMMA TypeStep == TypeOK /\ Counted /\ [Next]_vars => TypeOK'
<1> SUFFICES ASSUME TypeOK, Counted, [Next]_vars PROVE TypeOK'
  OBVIOUS
<1> USE PayoutAssumption DEF row, events, worker, claims, money, history, TypeOK, Counted, PayoutAssumption
<1>1. ASSUME NEW r \in Runners, Take(r) PROVE TypeOK'
  BY <1>1 DEF Take, Go
<1>2. ASSUME NEW r \in Runners, Load(r) PROVE TypeOK'
  BY <1>2 DEF Load, Go
<1>3. ASSUME NEW r \in Runners, ReadAddress(r) PROVE TypeOK'
  BY <1>3 DEF ReadAddress, Go
<1>4. ASSUME NEW r \in Runners, Block(r) PROVE TypeOK'
  BY <1>4 DEF Block, Go
<1>5. ASSUME NEW r \in Runners, Broadcast(r) PROVE TypeOK'
  BY <1>5 DEF Broadcast, Go
<1>6. ASSUME NEW r \in Runners, Commit(r) PROVE TypeOK'
  BY <1>6 DEF Commit, Go
<1>7. ASSUME NEW r \in Runners, CallProvider(r) PROVE TypeOK'
  <2>1. txs' \in Seq({"pending", "ok", "reverted"}) /\ Len(txs') >= Len(txs)
    BY <1>7 DEF CallProvider, TypeOK
  <2>2. run' \in [Runners -> {"idle", "taken", "checked", "unaddressed", "ready", "broadcast",
                             "accepted", "rejected", "returned"}]
    BY <1>7 DEF CallProvider, Go, TypeOK
  <2>3. leg' \in [tx : 0 .. Len(txs'), status : {"none", "broadcast", "confirmed", "failed"}]
    BY <1>7, <2>1 DEF CallProvider, TypeOK
  <2> QED BY <1>7, <2>1, <2>2, <2>3 DEF CallProvider, TypeOK
<1>8. ASSUME NEW r \in Runners, MarkPayout(r) PROVE TypeOK'
  BY <1>8 DEF MarkPayout, Go
<1>9. ASSUME NEW r \in Runners, MarkSent(r) PROVE TypeOK'
  BY <1>9 DEF MarkSent, Go
<1>10. ASSUME NEW r \in Runners, RunFails(r) PROVE TypeOK'
  BY <1>10 DEF RunFails, Trouble
<1>11. CASE HoldEnds
  <2>1. due' \in SUBSET {"request", "refund"}
    BY <1>11 DEF HoldEnds, TypeOK
  <2>2. troubles' \in 0 .. MaxTroubles
    BY <1>11, PayoutAssumption DEF HoldEnds, Trouble, TypeOK, PayoutAssumption
  <2>3. late' \in BOOLEAN /\ held' \in BOOLEAN
    BY <1>11 DEF HoldEnds, TypeOK
  <2> QED BY <1>11, <2>1, <2>2, <2>3 DEF HoldEnds, TypeOK
<1>12. CASE AddPayoutAgain
  BY <1>12 DEF AddPayoutAgain, Trouble
<1>13. CASE LockTimeout
  BY <1>13 DEF LockTimeout, Trouble
<1>14. CASE ConfirmLoad
  BY <1>14 DEF ConfirmLoad
<1>15. CASE ConfirmReceipt
  BY <1>15 DEF ConfirmReceipt
<1>16. CASE ConfirmLegs
  BY <1>16 DEF ConfirmLegs
<1>17. CASE ConfirmMark
  BY <1>17 DEF ConfirmMark
<1>18. CASE ConfirmSent
  BY <1>18 DEF ConfirmSent
<1>19. CASE ConfirmFails
  BY <1>19 DEF ConfirmFails, Trouble
<1>20. CASE AskDispute
  BY <1>20 DEF AskDispute
<1>21. CASE CreateDispute
  <2>1. due' \in SUBSET {"request", "refund"}
    BY <1>21 DEF CreateDispute, TypeOK
  <2>2. disputes' \in 0 .. MaxDisputes /\ refunds' \in 0 .. disputes'
    BY <1>21, PayoutAssumption DEF CreateDispute, Counted, TypeOK, PayoutAssumption
  <2>3. reopened' \in BOOLEAN /\ disputing' \in BOOLEAN
    BY <1>21 DEF CreateDispute, TypeOK
  <2> QED BY <1>21, <2>1, <2>2, <2>3 DEF CreateDispute, TypeOK
<1>22. CASE CancelDispute
  BY <1>22 DEF CancelDispute, Schedule
<1>23. CASE ResolveRefund
  BY <1>23 DEF ResolveRefund, Refund
<1>24. CASE AutoRefund
  BY <1>24 DEF AutoRefund, Refund
<1>25. CASE Uphold
  BY <1>25 DEF Uphold, Schedule
<1>26. CASE SetAddress
  BY <1>26 DEF SetAddress
<1>27. CASE Unblock
  <2>1. due' \in SUBSET {"request", "refund"}
    BY <1>27 DEF Unblock, Schedule, TypeOK
  <2>2. request' \in {"pending", "processing", "sent", "deadletter"} /\ blocked' \in {"none", "address", "dispute", "refund"}
    BY <1>27 DEF Unblock, Schedule, TypeOK
  <2>3. unblocking' \in BOOLEAN
    BY <1>27 DEF Unblock
  <2>4. UNCHANGED <<provider, status, held, confirm, refund, address, claims, money, run, check, admin,
                    history, troubles>>
    BY <1>27 DEF Unblock
  <2> QED BY <2>1, <2>2, <2>3, <2>4 DEF TypeOK
<1>28. CASE RetryCheck
  BY <1>28 DEF RetryCheck, Trouble
<1>29. CASE RetryMark
  BY <1>29 DEF RetryMark
<1>30. CASE RetryQueue
  BY <1>30 DEF RetryQueue, Schedule
<1>31. CASE MarkStops
  BY <1>31 DEF MarkStops
<1>32. ASSUME NEW t \in 1 .. Len(txs), NEW outcome \in {"ok", "reverted"}, Mine(t, outcome)
      PROVE  TypeOK'
  BY <1>32 DEF Mine
<1>33. ASSUME NEW s \in {"paid", "failed", "refunded"}, Mark(s) PROVE TypeOK'
  BY <1>33 DEF Mark, Trouble
<1>34. CASE UNCHANGED vars
  BY <1>34 DEF vars
<1> QED
  BY <1>1, <1>2, <1>3, <1>4, <1>5, <1>6, <1>7, <1>8, <1>9, <1>10, <1>11, <1>12, <1>13, <1>14, <1>15,
     <1>16, <1>17, <1>18, <1>19, <1>20, <1>21, <1>22, <1>23, <1>24, <1>25, <1>26, <1>27, <1>28,
     <1>29, <1>30, <1>31, <1>32, <1>33, <1>34 DEF Next, RunStep, ConfirmStep, AdminStep, MineSome

\* A dispute leaves room for its count before it commits, and a refund ends the
\* dispute it is counted for (createDispute, resolveDisputeAdmin).
LEMMA CountedStep == TypeOK /\ Counted /\ [Next]_vars => Counted'
<1> SUFFICES ASSUME TypeOK, Counted, [Next]_vars PROVE Counted'
  OBVIOUS
<1> USE PayoutAssumption DEF row, events, worker, claims, money, history, TypeOK, Counted, PayoutAssumption
<1>1. CASE UNCHANGED <<dispute, disputing, disputes, refunds>>
  BY <1>1
<1>2. CASE AskDispute
  BY <1>2 DEF AskDispute
<1>3. CASE CreateDispute
  BY <1>3 DEF CreateDispute
<1>4. CASE CancelDispute
  BY <1>4 DEF CancelDispute, Schedule
<1>5. CASE ResolveRefund
  BY <1>5 DEF ResolveRefund, Refund
<1>6. CASE AutoRefund
  BY <1>6 DEF AutoRefund, Refund
<1>7. CASE Uphold
  BY <1>7 DEF Uphold, Schedule
<1> QED
  BY <1>1, <1>2, <1>3, <1>4, <1>5, <1>6, <1>7 DEF Next, RunStep, ConfirmStep, AdminStep, MineSome,
     vars, Take, Load, ReadAddress, Block, Broadcast, Commit, CallProvider, MarkPayout, MarkSent,
     RunFails, HoldEnds, AddPayoutAgain, LockTimeout, ConfirmLoad, ConfirmReceipt, ConfirmLegs,
     ConfirmMark, ConfirmSent, ConfirmFails, SetAddress, Unblock, RetryCheck, RetryMark, RetryQueue,
     MarkStops, Mine, Mark

\* Until the first hold ends no runner takes the event and nothing is sent: an
\* event put back to pending meanwhile is scheduled at hold_until.
LEMMA HoldStep == TypeOK /\ HoldIsKept /\ [Next]_vars => HoldIsKept'
<1> SUFFICES ASSUME TypeOK, HoldIsKept, [Next]_vars PROVE HoldIsKept'
  OBVIOUS
<1> USE DEF row, events, worker, claims, money, history, TypeOK, HoldIsKept, AllIdle
<1>1. CASE UNCHANGED <<held, request, due, disputing, txs, run, reheld, late>>
  BY <1>1
<1>2. ASSUME NEW r \in Runners, Take(r) PROVE HoldIsKept'
  BY <1>2 DEF Take, Go
<1>3. ASSUME NEW r \in Runners, Load(r) PROVE HoldIsKept'
  BY <1>3 DEF Load, Go
<1>4. ASSUME NEW r \in Runners, ReadAddress(r) PROVE HoldIsKept'
  BY <1>4 DEF ReadAddress, Go
<1>5. ASSUME NEW r \in Runners, Block(r) PROVE HoldIsKept'
  BY <1>5 DEF Block, Go
<1>6. ASSUME NEW r \in Runners, Broadcast(r) PROVE HoldIsKept'
  BY <1>6 DEF Broadcast, Go
<1>7. ASSUME NEW r \in Runners, Commit(r) PROVE HoldIsKept'
  BY <1>7 DEF Commit, Go
<1>8. ASSUME NEW r \in Runners, CallProvider(r) PROVE HoldIsKept'
  BY <1>8 DEF CallProvider, Go
<1>9. ASSUME NEW r \in Runners, MarkPayout(r) PROVE HoldIsKept'
  BY <1>9 DEF MarkPayout, Go
<1>10. ASSUME NEW r \in Runners, MarkSent(r) PROVE HoldIsKept'
  BY <1>10 DEF MarkSent, Go
<1>11. ASSUME NEW r \in Runners, RunFails(r) PROVE HoldIsKept'
  BY <1>11 DEF RunFails, Trouble
<1>12. CASE HoldEnds
  BY <1>12 DEF HoldEnds, Trouble
<1>13. CASE AddPayoutAgain
  BY <1>13 DEF AddPayoutAgain, Trouble
<1>14. CASE LockTimeout
  BY <1>14 DEF LockTimeout, Trouble
<1>15. CASE AskDispute
  BY <1>15 DEF AskDispute
<1>16. CASE CreateDispute
  BY <1>16 DEF CreateDispute
<1>17. CASE CancelDispute
  BY <1>17 DEF CancelDispute, Schedule
<1>18. CASE ResolveRefund
  BY <1>18 DEF ResolveRefund, Refund
<1>19. CASE AutoRefund
  BY <1>19 DEF AutoRefund, Refund
<1>20. CASE Uphold
  BY <1>20 DEF Uphold, Schedule
<1>21. CASE Unblock
  BY <1>21 DEF Unblock, Schedule
<1>22. CASE RetryQueue
  BY <1>22 DEF RetryQueue, Schedule
<1>23. CASE MarkStops
  BY <1>23 DEF MarkStops
<1>24. ASSUME NEW t \in 1 .. Len(txs), NEW outcome \in {"ok", "reverted"}, Mine(t, outcome)
      PROVE  HoldIsKept'
  BY <1>24 DEF Mine
<1> QED
  BY <1>1, <1>2, <1>3, <1>4, <1>5, <1>6, <1>7, <1>8, <1>9, <1>10, <1>11, <1>12, <1>13, <1>14, <1>15,
     <1>16, <1>17, <1>18, <1>19, <1>20, <1>21, <1>22, <1>23, <1>24 DEF Next, RunStep, ConfirmStep,
     AdminStep, MineSome, vars, ConfirmLoad, ConfirmReceipt, ConfirmLegs, ConfirmMark, ConfirmSent,
     ConfirmFails, SetAddress, RetryCheck, RetryMark, Mark

\* A dispute that opens within the hold finds no handler on its way and blocks
\* those to come, until a way out of the dispute unblocks the payout.
LEMMA DisputeStep == TypeOK /\ HoldIsKept /\ DisputeBlocks /\ [Next]_vars => DisputeBlocks'
<1> SUFFICES ASSUME TypeOK, HoldIsKept, DisputeBlocks, [Next]_vars PROVE DisputeBlocks'
  OBVIOUS
<1> USE DEF row, events, worker, claims, money, history, TypeOK, HoldIsKept, AllIdle,
          DisputeBlocks, Stopped
<1>1. CASE UNCHANGED <<blocked, dispute, txs, run, reheld, late>>
  BY <1>1
<1>2. ASSUME NEW r \in Runners, Take(r) PROVE DisputeBlocks'
  BY <1>2 DEF Take, Go
<1>3. ASSUME NEW r \in Runners, Load(r) PROVE DisputeBlocks'
  BY <1>3 DEF Load, Go
<1>4. ASSUME NEW r \in Runners, ReadAddress(r) PROVE DisputeBlocks'
  BY <1>4 DEF ReadAddress, Go
<1>5. ASSUME NEW r \in Runners, Block(r) PROVE DisputeBlocks'
  BY <1>5 DEF Block, Go
<1>6. ASSUME NEW r \in Runners, Broadcast(r) PROVE DisputeBlocks'
  BY <1>6 DEF Broadcast, Go
<1>7. ASSUME NEW r \in Runners, Commit(r) PROVE DisputeBlocks'
  BY <1>7 DEF Commit, Go
<1>8. ASSUME NEW r \in Runners, CallProvider(r) PROVE DisputeBlocks'
  BY <1>8 DEF CallProvider, Go
<1>9. ASSUME NEW r \in Runners, MarkPayout(r) PROVE DisputeBlocks'
  BY <1>9 DEF MarkPayout, Go
<1>10. ASSUME NEW r \in Runners, MarkSent(r) PROVE DisputeBlocks'
  BY <1>10 DEF MarkSent, Go
<1>11. ASSUME NEW r \in Runners, RunFails(r) PROVE DisputeBlocks'
  BY <1>11 DEF RunFails, Trouble
<1>12. CASE HoldEnds
  BY <1>12 DEF HoldEnds, Trouble
<1>13. CASE AddPayoutAgain
  BY <1>13 DEF AddPayoutAgain, Trouble
<1>14. CASE CreateDispute
  BY <1>14 DEF CreateDispute
<1>15. CASE CancelDispute
  BY <1>15 DEF CancelDispute, Schedule
<1>16. CASE ResolveRefund
  BY <1>16 DEF ResolveRefund, Refund
<1>17. CASE AutoRefund
  BY <1>17 DEF AutoRefund, Refund
<1>18. CASE Uphold
  BY <1>18 DEF Uphold, Schedule
<1>19. CASE Unblock
  BY <1>19 DEF Unblock, Schedule
<1>20. ASSUME NEW t \in 1 .. Len(txs), NEW outcome \in {"ok", "reverted"}, Mine(t, outcome)
      PROVE  DisputeBlocks'
  BY <1>20 DEF Mine
<1> QED
  BY <1>1, <1>2, <1>3, <1>4, <1>5, <1>6, <1>7, <1>8, <1>9, <1>10, <1>11, <1>12, <1>13, <1>14, <1>15,
     <1>16, <1>17, <1>18, <1>19, <1>20 DEF Next, RunStep, ConfirmStep, AdminStep, MineSome, vars,
     LockTimeout, ConfirmLoad, ConfirmReceipt, ConfirmLegs, ConfirmMark, ConfirmSent, ConfirmFails,
     AskDispute, SetAddress, RetryCheck, RetryMark, RetryQueue, MarkStops, Mark

\* The refund takes over the dispute's block, and nothing clears that one but a
\* new dispute (resolveDisputeAdmin).
LEMMA RefundStep == TypeOK /\ HoldIsKept /\ DisputeBlocks /\ RefundBlocks /\ [Next]_vars => RefundBlocks'
<1> SUFFICES ASSUME TypeOK, HoldIsKept, DisputeBlocks, RefundBlocks, [Next]_vars PROVE RefundBlocks'
  OBVIOUS
<1> USE DEF row, events, worker, claims, money, history, TypeOK, HoldIsKept, AllIdle,
          DisputeBlocks, RefundBlocks, Stopped
<1>1. CASE UNCHANGED <<blocked, dispute, refunds, txs, run, reheld, reopened, late>>
  BY <1>1
<1>2. ASSUME NEW r \in Runners, Take(r) PROVE RefundBlocks'
  BY <1>2 DEF Take, Go
<1>3. ASSUME NEW r \in Runners, Load(r) PROVE RefundBlocks'
  BY <1>3 DEF Load, Go
<1>4. ASSUME NEW r \in Runners, ReadAddress(r) PROVE RefundBlocks'
  BY <1>4 DEF ReadAddress, Go
<1>5. ASSUME NEW r \in Runners, Block(r) PROVE RefundBlocks'
  BY <1>5 DEF Block, Go
<1>6. ASSUME NEW r \in Runners, Broadcast(r) PROVE RefundBlocks'
  BY <1>6 DEF Broadcast, Go
<1>7. ASSUME NEW r \in Runners, Commit(r) PROVE RefundBlocks'
  BY <1>7 DEF Commit, Go
<1>8. ASSUME NEW r \in Runners, CallProvider(r) PROVE RefundBlocks'
  BY <1>8 DEF CallProvider, Go
<1>9. ASSUME NEW r \in Runners, MarkPayout(r) PROVE RefundBlocks'
  BY <1>9 DEF MarkPayout, Go
<1>10. ASSUME NEW r \in Runners, MarkSent(r) PROVE RefundBlocks'
  BY <1>10 DEF MarkSent, Go
<1>11. ASSUME NEW r \in Runners, RunFails(r) PROVE RefundBlocks'
  BY <1>11 DEF RunFails, Trouble
<1>12. CASE HoldEnds
  BY <1>12 DEF HoldEnds, Trouble
<1>13. CASE AddPayoutAgain
  BY <1>13 DEF AddPayoutAgain, Trouble
<1>14. CASE CreateDispute
  BY <1>14 DEF CreateDispute
<1>15. CASE CancelDispute
  BY <1>15 DEF CancelDispute, Schedule
<1>16. CASE ResolveRefund
  BY <1>16 DEF ResolveRefund, Refund
<1>17. CASE AutoRefund
  BY <1>17 DEF AutoRefund, Refund
<1>18. CASE Uphold
  BY <1>18 DEF Uphold, Schedule
<1>19. CASE Unblock
  BY <1>19 DEF Unblock, Schedule
<1>20. ASSUME NEW t \in 1 .. Len(txs), NEW outcome \in {"ok", "reverted"}, Mine(t, outcome)
      PROVE  RefundBlocks'
  BY <1>20 DEF Mine
<1> QED
  BY <1>1, <1>2, <1>3, <1>4, <1>5, <1>6, <1>7, <1>8, <1>9, <1>10, <1>11, <1>12, <1>13, <1>14, <1>15,
     <1>16, <1>17, <1>18, <1>19, <1>20 DEF Next, RunStep, ConfirmStep, AdminStep, MineSome, vars,
     LockTimeout, ConfirmLoad, ConfirmReceipt, ConfirmLegs, ConfirmMark, ConfirmSent, ConfirmFails,
     AskDispute, SetAddress, RetryCheck, RetryMark, RetryQueue, MarkStops, Mark

\* The exceptions of PaidOnce are history: a step never takes one back.
LEMMA RegularKept == TypeOK /\ Regular' /\ [Next]_vars => Regular
<1> SUFFICES ASSUME TypeOK, Regular', [Next]_vars PROVE Regular
  OBVIOUS
<1> USE DEF row, events, worker, claims, money, history, TypeOK, Regular
<1>1. CASE UNCHANGED <<reheld, reissued, late>>
  BY <1>1
<1>2. ASSUME NEW r \in Runners, RunFails(r) PROVE Regular
  BY <1>2 DEF RunFails, Trouble
<1>3. CASE HoldEnds
  BY <1>3 DEF HoldEnds, Trouble
<1>4. CASE AddPayoutAgain
  BY <1>4 DEF AddPayoutAgain, Trouble
<1>5. CASE LockTimeout
  BY <1>5 DEF LockTimeout, Trouble
<1>6. CASE RetryQueue
  BY <1>6 DEF RetryQueue, Schedule
<1> QED
  BY <1>1, <1>2, <1>3, <1>4, <1>5, <1>6 DEF Next, RunStep, ConfirmStep, AdminStep, MineSome, vars,
     Take, Load, ReadAddress, Block, Broadcast, Commit, CallProvider, MarkPayout, MarkSent,
     ConfirmLoad, ConfirmReceipt, ConfirmLegs, ConfirmMark, ConfirmSent, ConfirmFails, AskDispute,
     CreateDispute, CancelDispute, ResolveRefund, AutoRefund, Uphold, SetAddress, Unblock,
     RetryCheck, RetryMark, MarkStops, Mine, Mark

\* One handler at a time is before the end of its transfer; a block for want of
\* an address ends with the event kept from the runners.
LEMMA ControlStep ==
  TypeOK /\ HoldIsKept /\ DisputeBlocks /\ Regular /\ OneActive /\ AddressBlocks /\
  DisputeStops /\ Regular' /\ [Next]_vars
    => OneActive' /\ AddressBlocks' /\ DisputeStops'
<1> SUFFICES ASSUME TypeOK, HoldIsKept, DisputeBlocks, Regular, OneActive, AddressBlocks,
                    DisputeStops, Regular', [Next]_vars
             PROVE  OneActive' /\ AddressBlocks' /\ DisputeStops'
  OBVIOUS
<1> USE DEF row, events, worker, claims, money, history, TypeOK, HoldIsKept, DisputeBlocks,
          Regular, OneActive, AddressBlocks, DisputeStops, AllIdle, Active, Before
<1>1. CASE UNCHANGED <<blocked, request, dispute, run, reheld, reissued, late>>
  BY <1>1
<1>2. ASSUME NEW r \in Runners, Take(r) PROVE OneActive' /\ AddressBlocks' /\ DisputeStops'
  BY <1>2 DEF Take, Go
<1>3. ASSUME NEW r \in Runners, Load(r) PROVE OneActive' /\ AddressBlocks' /\ DisputeStops'
  BY <1>3 DEF Load, Go
<1>4. ASSUME NEW r \in Runners, ReadAddress(r) PROVE OneActive' /\ AddressBlocks' /\ DisputeStops'
  BY <1>4 DEF ReadAddress, Go
<1>5. ASSUME NEW r \in Runners, Block(r) PROVE OneActive' /\ AddressBlocks' /\ DisputeStops'
  BY <1>5 DEF Block, Go
<1>6. ASSUME NEW r \in Runners, Broadcast(r) PROVE OneActive' /\ AddressBlocks' /\ DisputeStops'
  BY <1>6 DEF Broadcast, Go
<1>7. ASSUME NEW r \in Runners, Commit(r) PROVE OneActive' /\ AddressBlocks' /\ DisputeStops'
  BY <1>7 DEF Commit, Go
<1>8. ASSUME NEW r \in Runners, CallProvider(r) PROVE OneActive' /\ AddressBlocks' /\ DisputeStops'
  BY <1>8 DEF CallProvider, Go
<1>9. ASSUME NEW r \in Runners, MarkPayout(r) PROVE OneActive' /\ AddressBlocks' /\ DisputeStops'
  BY <1>9 DEF MarkPayout, Go
<1>10. ASSUME NEW r \in Runners, MarkSent(r) PROVE OneActive' /\ AddressBlocks' /\ DisputeStops'
  BY <1>10 DEF MarkSent, Go
<1>11. ASSUME NEW r \in Runners, RunFails(r) PROVE OneActive' /\ AddressBlocks' /\ DisputeStops'
  BY <1>11 DEF RunFails, Trouble
<1>12. CASE HoldEnds
  BY <1>12 DEF HoldEnds, Trouble
<1>13. CASE AddPayoutAgain
  BY <1>13 DEF AddPayoutAgain, Trouble
<1>14. CASE LockTimeout
  BY <1>14 DEF LockTimeout, Trouble
<1>15. CASE CreateDispute
  BY <1>15 DEF CreateDispute
<1>16. CASE CancelDispute
  BY <1>16 DEF CancelDispute, Schedule
<1>17. CASE ResolveRefund
  BY <1>17 DEF ResolveRefund, Refund
<1>18. CASE AutoRefund
  BY <1>18 DEF AutoRefund, Refund
<1>19. CASE Uphold
  BY <1>19 DEF Uphold, Schedule
<1>20. CASE Unblock
  BY <1>20 DEF Unblock, Schedule
<1>21. CASE RetryQueue
  BY <1>21 DEF RetryQueue, Schedule
<1>22. CASE MarkStops
  BY <1>22 DEF MarkStops
<1> QED
  BY <1>1, <1>2, <1>3, <1>4, <1>5, <1>6, <1>7, <1>8, <1>9, <1>10, <1>11, <1>12, <1>13, <1>14, <1>15,
     <1>16, <1>17, <1>18, <1>19, <1>20, <1>21, <1>22 DEF Next, RunStep, ConfirmStep, AdminStep,
     MineSome, vars, ConfirmLoad, ConfirmReceipt, ConfirmLegs, ConfirmMark, ConfirmSent,
     ConfirmFails, AskDispute, SetAddress, RetryCheck, RetryMark, Mine, Mark

\* What begins a transfer has none before it, and what may begin one later (the
\* event put back by a lock's age, an address, a dispute's end, a failure) comes
\* before the first.
LEMMA SentStep ==
  TypeOK /\ HoldIsKept /\ DisputeBlocks /\ Regular /\ OneActive /\ AddressBlocks /\
  DisputeStops /\ NoneSentYet /\ OneSent /\ Regular' /\ [Next]_vars
    => NoneSentYet' /\ OneSent'
<1> SUFFICES ASSUME TypeOK, HoldIsKept, DisputeBlocks, Regular, OneActive, AddressBlocks,
                    DisputeStops, NoneSentYet, OneSent, Regular', [Next]_vars
             PROVE  NoneSentYet' /\ OneSent'
  OBVIOUS
<1> USE DEF row, events, worker, claims, money, history, TypeOK, HoldIsKept, DisputeBlocks,
          Regular, OneActive, AddressBlocks, DisputeStops, NoneSentYet, OneSent, MaySend, Sent,
          AllIdle, Active, Before
<1>1. CASE UNCHANGED <<blocked, request, dispute, txs, run, reheld, reissued, late>>
  BY <1>1
<1>2. ASSUME NEW r \in Runners, Take(r) PROVE NoneSentYet' /\ OneSent'
  BY <1>2 DEF Take, Go
<1>3. ASSUME NEW r \in Runners, Load(r) PROVE NoneSentYet' /\ OneSent'
  BY <1>3 DEF Load, Go
<1>4. ASSUME NEW r \in Runners, ReadAddress(r) PROVE NoneSentYet' /\ OneSent'
  BY <1>4 DEF ReadAddress, Go
<1>5. ASSUME NEW r \in Runners, Block(r) PROVE NoneSentYet' /\ OneSent'
  BY <1>5 DEF Block, Go
<1>6. ASSUME NEW r \in Runners, Broadcast(r) PROVE NoneSentYet' /\ OneSent'
  BY <1>6 DEF Broadcast, Go
<1>7. ASSUME NEW r \in Runners, Commit(r) PROVE NoneSentYet' /\ OneSent'
  BY <1>7 DEF Commit, Go
<1>8. ASSUME NEW r \in Runners, CallProvider(r) PROVE NoneSentYet' /\ OneSent'
  <2>1. Sent = {}
    BY <1>8 DEF CallProvider, Go
  <2>2. CASE Go(r, "checked", "accepted") /\ txs' = Append(txs, "ok")
    <3>1. \A t \in Sent' : t = Len(txs) + 1
      BY <2>1, <2>2
    <3>2. \A q \in Runners : run'[q] \notin Before
      BY <1>8, <2>2 DEF CallProvider, Go
    <3>3. ~MaySend'
      BY <1>8, <2>2, <3>2 DEF CallProvider, Go
    <3> QED BY <3>1, <3>3
  <2>3. CASE UNCHANGED txs
    BY <2>1, <2>3
  <2> QED BY <1>8, <2>2, <2>3 DEF CallProvider
<1>9. ASSUME NEW r \in Runners, MarkPayout(r) PROVE NoneSentYet' /\ OneSent'
  BY <1>9 DEF MarkPayout, Go
<1>10. ASSUME NEW r \in Runners, MarkSent(r) PROVE NoneSentYet' /\ OneSent'
  BY <1>10 DEF MarkSent, Go
<1>11. ASSUME NEW r \in Runners, RunFails(r) PROVE NoneSentYet' /\ OneSent'
  <2>1. run[r] \in Before
    BY <1>11 DEF RunFails
  <2>2. Sent = {} /\ UNCHANGED txs
    BY <1>11, <2>1 DEF RunFails
  <2> QED BY <2>2
<1>12. CASE HoldEnds
  BY <1>12 DEF HoldEnds, Trouble
<1>13. CASE AddPayoutAgain
  BY <1>13 DEF AddPayoutAgain, Trouble
<1>14. CASE LockTimeout
  <2>1. request = "processing" /\ AllIdle
    BY <1>14 DEF LockTimeout
  <2>2. Sent = {} /\ UNCHANGED txs
    BY <1>14, <2>1 DEF LockTimeout
  <2> QED BY <2>2
<1>15. CASE CreateDispute
  BY <1>15 DEF CreateDispute
<1>16. CASE CancelDispute
  BY <1>16 DEF CancelDispute, Schedule
<1>17. CASE ResolveRefund
  BY <1>17 DEF ResolveRefund, Refund
<1>18. CASE AutoRefund
  BY <1>18 DEF AutoRefund, Refund
<1>19. CASE Uphold
  BY <1>19 DEF Uphold, Schedule
<1>20. CASE Unblock
  BY <1>20 DEF Unblock, Schedule
<1>21. CASE RetryQueue
  BY <1>21 DEF RetryQueue, Schedule
<1>22. CASE MarkStops
  BY <1>22 DEF MarkStops
<1>23. ASSUME NEW t \in 1 .. Len(txs), NEW outcome \in {"ok", "reverted"}, Mine(t, outcome)
      PROVE  NoneSentYet' /\ OneSent'
  BY <1>23 DEF Mine
<1> QED
  BY <1>1, <1>2, <1>3, <1>4, <1>5, <1>6, <1>7, <1>8, <1>9, <1>10, <1>11, <1>12, <1>13, <1>14, <1>15,
     <1>16, <1>17, <1>18, <1>19, <1>20, <1>21, <1>22, <1>23 DEF Next, RunStep, ConfirmStep,
     AdminStep, MineSome, vars, ConfirmLoad, ConfirmReceipt, ConfirmLegs, ConfirmMark, ConfirmSent,
     ConfirmFails, AskDispute, SetAddress, RetryCheck, RetryMark, Mark

-----------------------------------------------------------------------------
(* The theorems *)

\* The payout as addPayout leaves it satisfies the invariant.
LEMMA PayoutStarts == Init => PayoutInv
<1> SUFFICES ASSUME Init PROVE PayoutInv
  OBVIOUS
<1> USE DEF Init
<1>1. TypeOK
  <2>1. txs \in Seq({"pending", "ok", "reverted"}) /\ Len(txs) = 0
    OBVIOUS
  <2>2. disputes \in 0 .. MaxDisputes /\ refunds \in 0 .. disputes /\ troubles \in 0 .. MaxTroubles
    BY PayoutAssumption DEF PayoutAssumption
  <2> QED BY <2>1, <2>2 DEF TypeOK
<1>2. Counted /\ HoldIsKept /\ DisputeBlocks /\ RefundBlocks
  BY PayoutAssumption DEF PayoutAssumption, Counted, HoldIsKept, DisputeBlocks, RefundBlocks, AllIdle, Stopped
<1>3. OneActive /\ AddressBlocks /\ DisputeStops
  BY DEF OneActive, AddressBlocks, DisputeStops, AllIdle, Active, Before
<1>4. NoneSentYet /\ OneSent
  BY DEF NoneSentYet, OneSent, Sent
<1> QED BY <1>1, <1>2, <1>3, <1>4 DEF PayoutInv, RegularInv

\* In every run, whatever the order of runner, hold, chain, dispute, worker and operator.
THEOREM PayoutInvariant == Spec => []PayoutInv
<1>1. PayoutInv /\ [Next]_vars => PayoutInv'
  <2> SUFFICES ASSUME PayoutInv, [Next]_vars PROVE PayoutInv'
    OBVIOUS
  <2>1. TypeOK' /\ Counted' /\ HoldIsKept' /\ DisputeBlocks' /\ RefundBlocks'
    BY TypeStep, CountedStep, HoldStep, DisputeStep, RefundStep DEF PayoutInv
  <2>2. RegularInv'
    BY RegularKept, ControlStep, SentStep DEF PayoutInv, RegularInv
  <2> QED BY <2>1, <2>2 DEF PayoutInv
<1> QED BY PayoutStarts, <1>1, PTL DEF Spec

\* The variables keep their types: the payout's statuses and those of its events
\* are the ones the migrations allow, and its legs name a transfer that was sent.
THEOREM TypeCorrect == Spec => []TypeOK
<1>1. PayoutInv => TypeOK
  BY DEF PayoutInv
<1> QED BY PayoutInvariant, <1>1, PTL

\* While a dispute is open no handler of the payout is past its checks
\* (createDispute, handlePayoutRequested).
THEOREM DisputesFreeze == Spec => []DisputeFreezes
<1>1. PayoutInv => DisputeFreezes
  BY DEF PayoutInv, DisputeBlocks, Stopped, DisputeFreezes
<1> QED BY PayoutInvariant, <1>1, PTL

\* A buyer who was refunded by a dispute did not also have the worker paid
\* (resolveDisputeAdmin, handleDisputeAutoRefundRequested).
THEOREM NotPaidAndRefunded == Spec => []PaidOrRefunded
<1>1. PayoutInv => PaidOrRefunded
  BY DEF PayoutInv, TypeOK, RefundBlocks, PaidOrRefunded, Sent
<1> QED BY PayoutInvariant, <1>1, PTL

\* The worker is sent the money once (handlePayoutRequested and all that puts its event back).
THEOREM NotPaidTwice == Spec => []PaidOnce
<1>1. ASSUME PayoutInv PROVE PaidOnce
  <2>1. CASE Sent = {}
    BY <2>1, FS_EmptySet DEF PaidOnce
  <2>2. ASSUME NEW t \in Sent, Regular PROVE Cardinality(Sent) = 1
    <3>1. Sent = {t}
      BY <1>1, <2>2 DEF PayoutInv, RegularInv, OneSent
    <3> QED BY <3>1, FS_Singleton
  <2> QED BY <2>1, <2>2 DEF PaidOnce, Regular
<1> QED BY PayoutInvariant, <1>1, PTL

-----------------------------------------------------------------------------
(* Nothing is forgotten: the safety half of Settles *)

\* What a payout that waits may wait for: its event is offered, or comes back when
\* a lock ages; or a confirmation or the operator's retry is on its way.
Coming ==
  \/ request = "pending" \/ request = "processing"
  \/ confirm = "pending" \/ check # "idle" \/ admin = "retried"

Awaited == status = "pending" /\ blocked = "none" /\ ~lost /\ "deadletter" \notin {request, confirm}

NothingIsForgotten == Waiting => Coming /\ (request = "pending" => "request" \in due)

\* The hold's end makes the event due, and no event is put off after it.
DueAfterHold == ~held => "request" \in due

OneAtWork ==
  ~lost => /\ \A r, s \in Runners : run[r] # "idle" /\ run[s] # "idle" => r = s
           /\ request = "deadletter" => AllIdle

MarkedIsOver == admin = "marked" => status # "pending"

\* A runner about to mark the event sent leaves something else to come.
StillComing ==
  Awaited =>
    /\ Coming
    /\ \A r \in Runners : run[r] = "returned" =>
         request = "pending" \/ confirm = "pending" \/ check # "idle" \/ admin = "retried"

ComingInv == DueAfterHold /\ OneAtWork /\ MarkedIsOver /\ StillComing

\* The event comes due with the hold's end, and what is scheduled later is due at once.
LEMMA DueStep == TypeOK /\ DueAfterHold /\ [Next]_vars => DueAfterHold'
<1> SUFFICES ASSUME TypeOK, DueAfterHold, [Next]_vars PROVE DueAfterHold'
  OBVIOUS
<1> USE DEF row, events, worker, claims, money, history, TypeOK, DueAfterHold
<1>1. CASE UNCHANGED <<held, due>>
  BY <1>1
<1>2. CASE HoldEnds
  BY <1>2 DEF HoldEnds, Trouble
<1>3. CASE AddPayoutAgain
  BY <1>3 DEF AddPayoutAgain, Trouble
<1>4. CASE CreateDispute
  BY <1>4 DEF CreateDispute
<1>5. CASE CancelDispute
  BY <1>5 DEF CancelDispute, Schedule
<1>6. CASE Uphold
  BY <1>6 DEF Uphold, Schedule
<1>7. CASE Unblock
  BY <1>7 DEF Unblock, Schedule
<1>8. CASE RetryQueue
  BY <1>8 DEF RetryQueue, Schedule
<1> QED
  BY <1>1, <1>2, <1>3, <1>4, <1>5, <1>6, <1>7, <1>8 DEF Next, RunStep, ConfirmStep, AdminStep,
     MineSome, vars, Take, Load, ReadAddress, Block, Broadcast, Commit, CallProvider,
     MarkPayout, MarkSent, RunFails, LockTimeout, ConfirmLoad, ConfirmReceipt, ConfirmMark,
     ConfirmSent, ConfirmFails, ResolveRefund, AutoRefund, RetryCheck, RetryMark, MarkStops,
     Mark, ConfirmLegs, AskDispute, SetAddress, Mine

\* While nothing counts as lost, a second runner takes the event only when the first has settled it.
LEMMA OneAtWorkStep == TypeOK /\ OneAtWork /\ [Next]_vars => OneAtWork'
<1> SUFFICES ASSUME TypeOK, OneAtWork, [Next]_vars PROVE OneAtWork'
  OBVIOUS
<1> USE DEF row, events, worker, claims, money, history, TypeOK, OneAtWork, AllIdle
<1>1. CASE UNCHANGED <<request, run, lost>>
  BY <1>1
<1>2. ASSUME NEW r \in Runners, Take(r) PROVE OneAtWork'
  BY <1>2 DEF Take, Go
<1>3. ASSUME NEW r \in Runners, Load(r) PROVE OneAtWork'
  BY <1>3 DEF Load, Go
<1>4. ASSUME NEW r \in Runners, ReadAddress(r) PROVE OneAtWork'
  BY <1>4 DEF ReadAddress, Go
<1>5. ASSUME NEW r \in Runners, Block(r) PROVE OneAtWork'
  BY <1>5 DEF Block, Go
<1>6. ASSUME NEW r \in Runners, Broadcast(r) PROVE OneAtWork'
  BY <1>6 DEF Broadcast, Go
<1>7. ASSUME NEW r \in Runners, Commit(r) PROVE OneAtWork'
  BY <1>7 DEF Commit, Go
<1>8. ASSUME NEW r \in Runners, CallProvider(r) PROVE OneAtWork'
  BY <1>8 DEF CallProvider, Go
<1>9. ASSUME NEW r \in Runners, MarkPayout(r) PROVE OneAtWork'
  BY <1>9 DEF MarkPayout, Go
<1>10. ASSUME NEW r \in Runners, MarkSent(r) PROVE OneAtWork'
  BY <1>10 DEF MarkSent, Go
<1>11. ASSUME NEW r \in Runners, RunFails(r) PROVE OneAtWork'
  BY <1>11 DEF RunFails, Trouble
<1>12. CASE LockTimeout
  BY <1>12 DEF LockTimeout, Trouble
<1>13. CASE ConfirmSent
  BY <1>13 DEF ConfirmSent
<1>14. CASE CreateDispute
  BY <1>14 DEF CreateDispute
<1>15. CASE CancelDispute
  BY <1>15 DEF CancelDispute, Schedule
<1>16. CASE ResolveRefund
  BY <1>16 DEF ResolveRefund, Refund
<1>17. CASE AutoRefund
  BY <1>17 DEF AutoRefund, Refund
<1>18. CASE Uphold
  BY <1>18 DEF Uphold, Schedule
<1>19. CASE Unblock
  BY <1>19 DEF Unblock, Schedule
<1>20. CASE RetryQueue
  BY <1>20 DEF RetryQueue, Schedule
<1>21. CASE MarkStops
  BY <1>21 DEF MarkStops
<1> QED
  BY <1>1, <1>2, <1>3, <1>4, <1>5, <1>6, <1>7, <1>8, <1>9, <1>10, <1>11, <1>12, <1>13, <1>14,
     <1>15, <1>16, <1>17, <1>18, <1>19, <1>20, <1>21 DEF Next, RunStep, ConfirmStep, AdminStep,
     MineSome, vars, HoldEnds, AddPayoutAgain, ConfirmLoad, ConfirmReceipt, ConfirmMark,
     ConfirmFails, RetryCheck, RetryMark, Mark, ConfirmLegs, AskDispute, SetAddress, Mine

\* The operator's mark ends the payout before it stops the event (POST .../mark).
LEMMA MarkedStep == TypeOK /\ MarkedIsOver /\ [Next]_vars => MarkedIsOver'
<1> SUFFICES ASSUME TypeOK, MarkedIsOver, [Next]_vars PROVE MarkedIsOver'
  OBVIOUS
<1> USE DEF row, events, worker, claims, money, history, TypeOK, MarkedIsOver
<1>1. CASE UNCHANGED <<status, admin>>
  BY <1>1
<1>2. ASSUME NEW r \in Runners, MarkPayout(r) PROVE MarkedIsOver'
  BY <1>2 DEF MarkPayout, Go
<1>3. CASE ConfirmMark
  BY <1>3 DEF ConfirmMark
<1>4. CASE ResolveRefund
  BY <1>4 DEF ResolveRefund, Refund
<1>5. CASE AutoRefund
  BY <1>5 DEF AutoRefund, Refund
<1>6. CASE RetryCheck
  BY <1>6 DEF RetryCheck, Trouble
<1>7. CASE RetryMark
  BY <1>7 DEF RetryMark
<1>8. CASE RetryQueue
  BY <1>8 DEF RetryQueue, Schedule
<1>9. CASE MarkStops
  BY <1>9 DEF MarkStops
<1>10. ASSUME NEW s \in {"paid", "failed", "refunded"}, Mark(s) PROVE MarkedIsOver'
  BY <1>10 DEF Mark, Trouble
<1> QED
  BY <1>1, <1>2, <1>3, <1>4, <1>5, <1>6, <1>7, <1>8, <1>9, <1>10 DEF Next, RunStep, ConfirmStep,
     AdminStep, MineSome, vars, Take, Load, ReadAddress, Block, Broadcast, Commit, CallProvider,
     MarkSent, RunFails, HoldEnds, AddPayoutAgain, LockTimeout, ConfirmLoad, ConfirmReceipt,
     ConfirmSent, ConfirmFails, CreateDispute, CancelDispute, Uphold, Unblock, ConfirmLegs,
     AskDispute, SetAddress, Mine

\* Whoever spends the event leaves a block, an end, a confirmation or a dead letter.
LEMMA ComingStep == TypeOK /\ OneAtWork /\ MarkedIsOver /\ StillComing /\ [Next]_vars => StillComing'
<1> SUFFICES ASSUME TypeOK, OneAtWork, MarkedIsOver, StillComing, [Next]_vars PROVE StillComing'
  OBVIOUS
<1> USE DEF row, events, worker, claims, money, history, TypeOK, OneAtWork, MarkedIsOver, AllIdle, StillComing, Awaited, Coming
<1>1. CASE UNCHANGED <<status, blocked, request, confirm, run, check, admin, lost>>
  BY <1>1
<1>2. ASSUME NEW r \in Runners, Take(r) PROVE StillComing'
  BY <1>2 DEF Take, Go
<1>3. ASSUME NEW r \in Runners, Load(r) PROVE StillComing'
  BY <1>3 DEF Load, Go
<1>4. ASSUME NEW r \in Runners, ReadAddress(r) PROVE StillComing'
  BY <1>4 DEF ReadAddress, Go
<1>5. ASSUME NEW r \in Runners, Block(r) PROVE StillComing'
  BY <1>5 DEF Block, Go
<1>6. ASSUME NEW r \in Runners, Broadcast(r) PROVE StillComing'
  BY <1>6 DEF Broadcast, Go
<1>7. ASSUME NEW r \in Runners, Commit(r) PROVE StillComing'
  BY <1>7 DEF Commit, Go
<1>8. ASSUME NEW r \in Runners, CallProvider(r) PROVE StillComing'
  BY <1>8 DEF CallProvider, Go
<1>9. ASSUME NEW r \in Runners, MarkPayout(r) PROVE StillComing'
  BY <1>9 DEF MarkPayout, Go
<1>10. ASSUME NEW r \in Runners, MarkSent(r) PROVE StillComing'
  BY <1>10 DEF MarkSent, Go
<1>11. ASSUME NEW r \in Runners, RunFails(r) PROVE StillComing'
  BY <1>11 DEF RunFails, Trouble
<1>12. CASE LockTimeout
  BY <1>12 DEF LockTimeout, Trouble
<1>13. CASE ConfirmLoad
  BY <1>13 DEF ConfirmLoad
<1>14. CASE ConfirmReceipt
  BY <1>14 DEF ConfirmReceipt
<1>15. CASE ConfirmMark
  BY <1>15 DEF ConfirmMark
<1>16. CASE ConfirmSent
  BY <1>16 DEF ConfirmSent
<1>17. CASE ConfirmFails
  BY <1>17 DEF ConfirmFails, Trouble
<1>18. CASE CreateDispute
  BY <1>18 DEF CreateDispute
<1>19. CASE CancelDispute
  BY <1>19 DEF CancelDispute, Schedule
<1>20. CASE ResolveRefund
  BY <1>20 DEF ResolveRefund, Refund
<1>21. CASE AutoRefund
  BY <1>21 DEF AutoRefund, Refund
<1>22. CASE Uphold
  BY <1>22 DEF Uphold, Schedule
<1>23. CASE Unblock
  BY <1>23 DEF Unblock, Schedule
<1>24. CASE RetryCheck
  BY <1>24 DEF RetryCheck, Trouble
<1>25. CASE RetryMark
  BY <1>25 DEF RetryMark
<1>26. CASE RetryQueue
  BY <1>26 DEF RetryQueue, Schedule
<1>27. CASE MarkStops
  BY <1>27 DEF MarkStops
<1>28. ASSUME NEW s \in {"paid", "failed", "refunded"}, Mark(s) PROVE StillComing'
  BY <1>28 DEF Mark, Trouble
<1> QED
  BY <1>1, <1>2, <1>3, <1>4, <1>5, <1>6, <1>7, <1>8, <1>9, <1>10, <1>11, <1>12, <1>13, <1>14,
     <1>15, <1>16, <1>17, <1>18, <1>19, <1>20, <1>21, <1>22, <1>23, <1>24, <1>25, <1>26, <1>27,
     <1>28 DEF Next, RunStep, ConfirmStep, AdminStep, MineSome, vars, HoldEnds, AddPayoutAgain,
     ConfirmLegs, AskDispute, SetAddress, Mine

\* In every run, for any number of runners, disputes and troubles.
THEOREM ComingInvariant == Spec => []ComingInv
<1>1. Init => ComingInv
  BY DEF Init, ComingInv, DueAfterHold, OneAtWork, MarkedIsOver, StillComing, Awaited, Coming, AllIdle
<1>2. TypeOK /\ ComingInv /\ [Next]_vars => ComingInv'
  BY DueStep, OneAtWorkStep, MarkedStep, ComingStep DEF ComingInv
<1> QED BY TypeCorrect, <1>1, <1>2, PTL DEF Spec

\* A payout that is due and not blocked is never left with nothing to move it: its
\* event is offered and due, or locked by a runner, dead or alive, or a confirmation
\* or the operator's retry is on its way (handlePayoutRequested,
\* handlePayoutConfirmRequested and all that marks or puts back their events).
THEOREM WaitingIsComing == Spec => []NothingIsForgotten
<1>1. ComingInv => NothingIsForgotten
  BY DEF ComingInv, DueAfterHold, StillComing, Awaited, Waiting, NothingIsForgotten
<1> QED BY ComingInvariant, <1>1, PTL

-----------------------------------------------------------------------------
(* The payout implements Settlement *)

Excepted == reissued \/ reheld \/ reopened \/ late

\* The transfers that stand are the ones the chain or the provider has not failed,
\* the credits are the refunds of disputes, and the exceptions are those the
\* invariants name.
Money == INSTANCE Settlement WITH
  sent <- Cardinality(Sent),
  credits <- refunds,
  excepted <- Excepted
ImplementsSettlement == Money!Spec

\* What was excepted stays so.
LEMMA ExceptedStays == TypeOK /\ Excepted /\ [Next]_vars => Excepted'
<1> SUFFICES ASSUME TypeOK, Excepted, [Next]_vars PROVE Excepted'
  OBVIOUS
<1>1. CASE ~Regular
  BY <1>1, RegularKept DEF Regular, Excepted
<1>2. CASE reopened
  <2> USE DEF row, events, worker, claims, money, history, TypeOK, Excepted
  <2>1. CASE UNCHANGED reopened
    BY <1>2, <2>1
  <2>2. CASE CreateDispute
    BY <1>2, <2>2 DEF CreateDispute
  <2> QED
    BY <2>1, <2>2 DEF Next, RunStep, ConfirmStep, AdminStep, MineSome, vars,
       Take, Load, ReadAddress, Block, Broadcast, Commit, CallProvider, MarkPayout, MarkSent, RunFails,
       HoldEnds, AddPayoutAgain, LockTimeout, ConfirmLoad, ConfirmReceipt, ConfirmLegs, ConfirmMark,
       ConfirmSent, ConfirmFails, AskDispute, CancelDispute, Uphold, SetAddress, Unblock, RetryCheck,
       RetryMark, RetryQueue, MarkStops, Mine, Mark,
       ResolveRefund, AutoRefund
<1> QED BY <1>1, <1>2 DEF Regular, Excepted

\* Only a refund credits the buyer: of an open dispute, and it sends nothing.
LEMMA RefundsCredit ==
  TypeOK /\ [Next]_vars =>
    \/ UNCHANGED refunds
    \/ dispute = "open" /\ refunds' = refunds + 1 /\ UNCHANGED txs
<1> SUFFICES ASSUME TypeOK, [Next]_vars, ~UNCHANGED refunds
             PROVE  dispute = "open" /\ refunds' = refunds + 1 /\ UNCHANGED txs
  OBVIOUS
<1> USE DEF row, events, worker, claims, money, history
<1>1. CASE ResolveRefund
  BY <1>1 DEF ResolveRefund, Refund
<1>2. CASE AutoRefund
  BY <1>2 DEF AutoRefund, Refund
<1> QED
  BY <1>1, <1>2 DEF Next, RunStep, ConfirmStep, AdminStep, MineSome, vars,
     Take, Load, ReadAddress, Block, Broadcast, Commit, CallProvider, MarkPayout, MarkSent, RunFails,
     HoldEnds, AddPayoutAgain, LockTimeout, ConfirmLoad, ConfirmReceipt, ConfirmLegs, ConfirmMark,
     ConfirmSent, ConfirmFails, AskDispute, CancelDispute, Uphold, SetAddress, Unblock, RetryCheck,
     RetryMark, RetryQueue, MarkStops, Mine, Mark,
     CreateDispute

\* Without exception no more than one transfer stands, and none beside a credit.
OneOrTheOther ==
  ~Excepted =>
    /\ Cardinality(Sent) \in {0, 1}
    /\ Cardinality(Sent) = 0 <=> Sent = {}
    /\ refunds > 0 => Sent = {} /\ dispute # "open"

\* So it is in every state of the invariant.
LEMMA MoneyFacts == PayoutInv => OneOrTheOther
<1> SUFFICES ASSUME PayoutInv, ~Excepted
             PROVE  /\ Cardinality(Sent) \in {0, 1}
                    /\ Cardinality(Sent) = 0 <=> Sent = {}
                    /\ refunds > 0 => Sent = {} /\ dispute # "open"
  BY DEF OneOrTheOther
<1>1. refunds > 0 => Sent = {} /\ dispute # "open"
  BY DEF PayoutInv, TypeOK, RefundBlocks, Excepted, Sent
<1>2. CASE Sent = {}
  BY <1>1, <1>2, FS_EmptySet
<1>3. ASSUME NEW t \in Sent PROVE Sent = {t} /\ Cardinality(Sent) = 1
  <2>1. Sent = {t}
    BY <1>3 DEF PayoutInv, RegularInv, Regular, OneSent, Excepted
  <2> QED BY <2>1, FS_Singleton
<1> QED BY <1>1, <1>2, <1>3

\* Every step settles the money as Settlement allows, or does not touch it.
LEMMA SettlementStep ==
  PayoutInv /\ OneOrTheOther /\ OneOrTheOther' /\ [Next]_vars => [Money!Next]_(Money!vars)
<1> SUFFICES ASSUME PayoutInv, OneOrTheOther, OneOrTheOther', [Next]_vars PROVE [Money!Next]_(Money!vars)
  OBVIOUS
<1>1. CASE Excepted'
  BY <1>1 DEF Money!Next, Money!Except
<1>2. CASE ~Excepted'
  <2>1. ~Excepted
    BY <1>2, ExceptedStays DEF PayoutInv
  <2>2. /\ Cardinality(Sent) \in {0, 1}
        /\ Cardinality(Sent) = 0 <=> Sent = {}
        /\ refunds > 0 => Sent = {} /\ dispute # "open"
    BY <2>1 DEF OneOrTheOther
  <2>3. /\ Cardinality(Sent') \in {0, 1}
        /\ Cardinality(Sent') = 0 <=> Sent' = {}
        /\ refunds' > 0 => Sent' = {}
    BY <1>2 DEF OneOrTheOther
  <2>4. refunds \in Nat
    BY PayoutAssumption DEF PayoutInv, TypeOK, PayoutAssumption
  <2>5. Excepted' = Excepted
    BY <1>2, <2>1, ExceptedStays DEF PayoutInv, TypeOK, Excepted
  <2>6. CASE UNCHANGED refunds
    <3>1. CASE Cardinality(Sent') = Cardinality(Sent)
      BY <2>5, <2>6, <3>1 DEF Money!vars
    <3>2. CASE Cardinality(Sent) = 0 /\ Cardinality(Sent') = 1
      BY <2>1, <2>3, <2>4, <2>5, <2>6, <3>2 DEF Money!Next, Money!Send
    <3>3. CASE Cardinality(Sent) = 1 /\ Cardinality(Sent') = 0
      BY <2>1, <2>5, <2>6, <3>3 DEF Money!Next, Money!Fail
    <3> QED BY <2>2, <2>3, <3>1, <3>2, <3>3
  <2>7. CASE dispute = "open" /\ refunds' = refunds + 1 /\ UNCHANGED txs
    <3>1. refunds = 0 /\ refunds' = 1
      BY <2>2, <2>4, <2>7
    <3>2. Sent' = Sent
      BY <2>7 DEF Sent
    <3>3. Cardinality(Sent) = 0 /\ Cardinality(Sent') = 0
      BY <2>2, <2>3, <3>1, <3>2
    <3> QED BY <2>1, <2>5, <3>1, <3>3 DEF Money!Next, Money!Credit
  <2> QED BY <2>6, <2>7, RefundsCredit DEF PayoutInv
<1> QED BY <1>1, <1>2

\* Whatever runners, chain, disputes, worker and operator do with the payout, its
\* money is settled as Settlement says: one transfer or one credit, until one of
\* the named exceptions (handlePayoutRequested, resolveDisputeAdmin).
THEOREM PayoutsImplementSettlement == Spec => ImplementsSettlement
<1>1. Init => Money!Init
  <2> SUFFICES ASSUME Init PROVE Money!Init
    OBVIOUS
  <2>1. Sent = {}
    BY DEF Init, Sent
  <2>2. Cardinality(Sent) = 0
    BY <2>1, FS_EmptySet
  <2>3. Excepted = FALSE /\ refunds = 0
    BY DEF Init, Excepted
  <2> QED BY <2>2, <2>3 DEF Money!Init
<1> QED BY <1>1, SettlementStep, MoneyFacts, PayoutInvariant, PTL DEF Spec, ImplementsSettlement, Money!Spec
=============================================================================
