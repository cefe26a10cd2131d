------------------------------ MODULE LeaseQueue ------------------------------
(***************************************************************************)
(* What the outbox promises the code behind it, without rows, locks,       *)
(* attempts or clocks.  An event is queued until it is sent or given up;   *)
(* runners take queued events and put them down again; a runner sends an   *)
(* event only once it was handled.  Two runners share an event only if it  *)
(* is loose: taken back from a live runner.  A loose event may be settled  *)
(* twice and come back after it was sent, so handlers must bear both.      *)
(*                                                                         *)
(* Other code has its say as well: an operator may requeue any event, and  *)
(* the endpoints that change a payout stop its event, handled or not, and  *)
(* queue it again, in a runner's hands or not.  Of such an event (Steered) *)
(* nothing follows from its being sent; of any other it does.              *)
(***************************************************************************)
EXTENDS Naturals

CONSTANTS Events, Workers,
          Steered    \* the events other code stops and reopens

VARIABLES state,     \* "absent", "queued", "sent" or "deadletter"
          takers,    \* the runners that have the event in hand
          handled,   \* events for which a handler has returned
          loose      \* events that were taken back from a live runner

vars == <<state, takers, handled, loose>>

Init ==
  /\ state = [e \in Events |-> "absent"]
  /\ takers = [e \in Events |-> {}]
  /\ handled = {} /\ loose = {}

Put(e) ==
  /\ state[e] = "absent"
  /\ state' = [state EXCEPT ![e] = "queued"]
  /\ UNCHANGED <<takers, handled, loose>>

\* Runner w takes the events S, after the events L were taken back.
Take(w, S, L) ==
  /\ \A e \in Events : w \notin takers[e]
  /\ \A e \in L : takers[e] # {} /\ state[e] = "queued"
  /\ \A e \in S : state[e] = "queued" /\ (takers[e] = {} \/ e \in loose \cup L)
  /\ takers' = [e \in Events |-> IF e \in S THEN takers[e] \cup {w} ELSE takers[e]]
  /\ loose' = loose \cup L
  /\ UNCHANGED <<state, handled>>

Handle(w, e) ==
  /\ w \in takers[e]
  /\ handled' = handled \cup {e}
  /\ UNCHANGED <<state, takers, loose>>

\* The runner is done with the event.
PutDown(w, e, s) ==
  /\ w \in takers[e]
  /\ s = "sent" => e \in handled
  /\ e \notin loose => state[e] = "queued" /\ takers[e] = {w}
  /\ state' = [state EXCEPT ![e] = s]
  /\ takers' = [takers EXCEPT ![e] = @ \ {w}]
  /\ UNCHANGED <<handled, loose>>

Die(w) ==
  /\ takers' = [e \in Events |-> takers[e] \ {w}]
  /\ UNCHANGED <<state, handled, loose>>

LoosenIfTaken(e) == loose' = IF takers[e] # {} THEN loose \cup {e} ELSE loose

\* An operator requeues the event or, if it is a payout's, the end of a dispute, the
\* unblocking of the payout or its retry does.
Requeue(e) ==
  /\ state[e] # "absent"
  /\ state' = [state EXCEPT ![e] = "queued"]
  /\ LoosenIfTaken(e)
  /\ UNCHANGED <<takers, handled>>

\* A dispute, a refund or an operator's mark stops a payout's event.
Stop(e) ==
  /\ state[e] # "absent"
  /\ state' = [state EXCEPT ![e] = "sent"]
  /\ LoosenIfTaken(e)
  /\ UNCHANGED <<takers, handled>>

Next ==
  \/ \E e \in Events : Put(e) \/ Requeue(e)
  \/ \E e \in Steered : Stop(e)
  \/ \E w \in Workers :
       \/ \E S, L \in SUBSET Events : Take(w, S, L)
       \/ \E e \in Events :
            \/ Handle(w, e)
            \/ \E s \in {"queued", "sent", "deadletter"} : PutDown(w, e, s)
       \/ Die(w)

Spec == Init /\ [][Next]_vars
=============================================================================
