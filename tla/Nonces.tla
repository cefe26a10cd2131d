-------------------------------- MODULE Nonces --------------------------------
(***************************************************************************)
(* The nonces of the one address that all payouts are sent from.  Module   *)
(* Payouts follows one payout; here the payout runners broadcast several.  *)
(* A transfer is one attempt to broadcast: it locks the nonce row if there *)
(* is one, asks a node for the pending nonce, signs and sends, and commits *)
(* the row with the payout's legs.  rpcCall turns to the next node of its  *)
(* list when the first does not answer.                                    *)
(***************************************************************************)
EXTENDS Naturals, FiniteSets

CONSTANTS Transfers,    \* attempts to broadcast a payout
          Nodes,        \* BASE_RPC_URLS and BASE_RPC_URL
          MaxNonce,     \* bound: nonces
          NoTransfer

ASSUME NonceAssumption == MaxNonce \in Nat /\ NoTransfer \notin Transfers

VARIABLES
  send,       \* each attempt: where it is and the nonce it took
  nonceRow,   \* crypto_nonces.next_nonce, or NoRow
  rowLock,    \* the attempt that holds the row's lock
  pool,       \* what each node holds for each nonce
  recorded,   \* attempts whose legs are committed
  rivals,     \* history: attempts that found no row
  lagged      \* history: attempts whose nonce came from a node that had not heard of all transfers

nonceVars == <<send, nonceRow, rowLock, pool, recorded, rivals, lagged>>

NoRow == MaxNonce + 2
NonceValues == 0 .. MaxNonce
Unsent == [pc |-> "waits", nonce |-> 0]

NonceTypeOK ==
  /\ send \in [Transfers -> [pc : {"waits", "locked", "has_nonce", "sent", "over"}, nonce : NonceValues]]
  /\ nonceRow \in 0 .. NoRow /\ rowLock \in Transfers \cup {NoTransfer}
  /\ pool \in [Nodes -> [NonceValues -> Transfers \cup {NoTransfer}]]
  /\ recorded \subseteq Transfers /\ rivals \subseteq Transfers /\ lagged \subseteq Transfers

NonceInit ==
  /\ send = [t \in Transfers |-> Unsent] /\ recorded = {} /\ rivals = {} /\ lagged = {}
  /\ nonceRow = NoRow /\ rowLock = NoTransfer
  /\ pool = [n \in Nodes |-> [k \in NonceValues |-> NoTransfer]]

Heard(n) == {k \in NonceValues : pool[n][k] # NoTransfer}
HeardAnywhere == UNION {Heard(n) : n \in Nodes}
SendGoes(t, from, to) == send[t].pc = from /\ send' = [send EXCEPT ![t].pc = to]
Unlocked(t) == IF rowLock = t THEN NoTransfer ELSE rowLock

\* Faulty: the select does not lock.
SelectRowUnlocked(t) ==
  /\ SendGoes(t, "waits", "locked")
  /\ rivals' = IF nonceRow = NoRow THEN rivals \cup {t} ELSE rivals
  /\ UNCHANGED <<nonceRow, rowLock, pool, recorded, lagged>>

\* SELECT ... FOR UPDATE: where there is no row there is nothing to lock.
SelectRow(t) ==
  /\ SendGoes(t, "waits", "locked")
  /\ IF nonceRow = NoRow
     THEN rivals' = rivals \cup {t} /\ UNCHANGED rowLock
     ELSE rowLock = NoTransfer /\ rowLock' = t /\ UNCHANGED rivals
  /\ UNCHANGED <<nonceRow, pool, recorded, lagged>>

\* eth_getTransactionCount of the pending block: the first nonce the node has nothing for.
Pending(n) == CHOOSE k \in 0 .. MaxNonce + 1 : k \notin Heard(n) /\ \A j \in 0 .. k - 1 : j \in Heard(n)

\* The chain's answer wins over the row, whichever of the two is larger.
AskNonce(t) ==
  /\ send[t].pc = "locked"
  /\ \E n \in Nodes :
       /\ Pending(n) <= MaxNonce
       /\ send' = [send EXCEPT ![t] = [pc |-> "has_nonce", nonce |-> Pending(n)]]
       /\ lagged' = IF Heard(n) # HeardAnywhere THEN lagged \cup {t} ELSE lagged
  /\ UNCHANGED <<nonceRow, rowLock, pool, recorded, rivals>>

\* The node takes a transfer for a nonce it has nothing for; one for a nonce it has another for
\* replaces that one if its fee is so much higher, and is refused if not.
SendRaw(t) ==
  /\ SendGoes(t, "has_nonce", "sent")
  /\ \E n \in Nodes : pool' = [pool EXCEPT ![n][send[t].nonce] = t]
  /\ UNCHANGED <<nonceRow, rowLock, recorded, rivals, lagged>>

\* The transaction commits; two that found no row both insert one, and the second fails.
CommitNonce(t) ==
  /\ SendGoes(t, "sent", "over")
  /\ t \in rivals => nonceRow = NoRow
  /\ nonceRow' = send[t].nonce + 1
  /\ recorded' = recorded \cup {t}
  /\ rowLock' = Unlocked(t)
  /\ UNCHANGED <<pool, rivals, lagged>>

\* A call fails, the node refuses the transfer or its answer is lost, or the runner dies: the
\* transaction is rolled back, whatever the nodes hold by then.
SendFails(t) ==
  /\ send[t].pc \in {"locked", "has_nonce", "sent"}
  /\ send' = [send EXCEPT ![t].pc = "over"]
  /\ rowLock' = Unlocked(t)
  /\ UNCHANGED <<nonceRow, pool, recorded, rivals, lagged>>

\* A node hears from another of a transfer whose nonce is free with it.
Gossip(from, to) ==
  /\ \E k \in Heard(from) \ Heard(to) : pool' = [pool EXCEPT ![to][k] = pool[from][k]]
  /\ UNCHANGED <<send, nonceRow, rowLock, recorded, rivals, lagged>>

NonceStep(t) == SelectRow(t) \/ AskNonce(t) \/ SendRaw(t) \/ CommitNonce(t) \/ SendFails(t)

NonceNext == (\E t \in Transfers : NonceStep(t)) \/ \E n, m \in Nodes : Gossip(n, m)

NonceSpec == NonceInit /\ [][NonceNext]_nonceVars

\* The transfer that a payout records is not displaced by that of another payout: no other holds
\* its nonce at any node, unless one of the two found no nonce row, or took its nonce from a node
\* that had not heard of all (handlePayoutRequested's nonce row against rpcCall's list of nodes).
RecordedKeepsNonce ==
  \A t \in recorded, n \in Nodes :
    LET holder == pool[n][send[t].nonce]
    IN  holder \in {NoTransfer, t} \/ {t, holder} \cap (rivals \cup lagged) # {}
=============================================================================
