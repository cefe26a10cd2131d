------------------------------- MODULE RateLimit -------------------------------
(***************************************************************************)
(* One bucket of the API's rate limiter, which all API tasks share: a      *)
(* request takes the time of its task before the transaction and the row's *)
(* lock only in it, so buckets are updated with times that run backwards.  *)
(*                                                                         *)
(* A token is Minute units, so that a tick of the clock fills PerMinute of *)
(* them and nothing is rounded.                                            *)
(***************************************************************************)
EXTENDS Integers

CONSTANTS Callers,      \* requests that may be under way at once
          PerMinute,    \* ratePerMin
          Minute,       \* ticks of the clock in a minute
          Skew,         \* how far the clocks of two tasks are apart
          MaxTicks, MaxAdmitted   \* bounds: of the clock and of the requests let through

ASSUME RateLimitAssumption ==
  /\ PerMinute \in Nat \ {0} /\ Minute \in Nat \ {0}
  /\ Skew \in Nat /\ MaxTicks \in Nat /\ MaxAdmitted \in Nat

VARIABLES
  tick,       \* the fastest clock
  stamp,      \* the time each request under way took, or NoStamp
  tokens, updatedAt,    \* the row of rate_limit_buckets
  opened,     \* history: the time the row was inserted with, or NoStamp
  admitted    \* history: requests let through

rateVars == <<tick, stamp, tokens, updatedAt, opened, admitted>>

NoStamp == -1
Times == 0 .. MaxTicks
Full == PerMinute * Minute
Opened == opened # NoStamp

RateTypeOK ==
  /\ tick \in Times /\ stamp \in [Callers -> Times \cup {NoStamp}]
  /\ tokens \in Int /\ updatedAt \in Times /\ opened \in Times \cup {NoStamp}
  /\ admitted \in 0 .. MaxAdmitted

RateInit ==
  /\ tick = 0 /\ stamp = [c \in Callers |-> NoStamp]
  /\ tokens = 0 /\ updatedAt = 0 /\ opened = NoStamp /\ admitted = 0

RateTick ==
  /\ tick < MaxTicks
  /\ tick' = tick + 1
  /\ UNCHANGED <<stamp, tokens, updatedAt, opened, admitted>>

RateAsk(c) ==
  /\ stamp[c] = NoStamp
  /\ \E t \in Times : t <= tick /\ tick - t <= Skew /\ stamp' = [stamp EXCEPT ![c] = t]
  /\ UNCHANGED <<tick, tokens, updatedAt, opened, admitted>>

AtMost(limit, n) == IF n < limit THEN n ELSE limit

\* Faulty: a time before that of the row fills the bucket as one after it does.
FilledAbs(now) ==
  IF Opened
  THEN AtMost(Full, tokens + PerMinute * (IF now < updatedAt THEN updatedAt - now ELSE now - updatedAt))
  ELSE Full

\* The row's tokens at this time; the first request inserts a full bucket.
Filled(now) == IF Opened THEN AtMost(Full, tokens + PerMinute * (now - updatedAt)) ELSE Full

\* The transaction: the request that found less than a token writes the row as well.
RateDecide(c) ==
  /\ stamp[c] # NoStamp /\ admitted < MaxAdmitted
  /\ LET filled == Filled(stamp[c])
     IN  \/ filled < Minute /\ tokens' = filled /\ UNCHANGED admitted
         \/ filled >= Minute /\ tokens' = filled - Minute /\ admitted' = admitted + 1
  /\ updatedAt' = stamp[c]
  /\ opened' = IF Opened THEN opened ELSE stamp[c]
  /\ stamp' = [stamp EXCEPT ![c] = NoStamp]
  /\ UNCHANGED tick

\* The transaction is rolled back and the request fails.
RateFails(c) ==
  /\ stamp[c] # NoStamp
  /\ stamp' = [stamp EXCEPT ![c] = NoStamp]
  /\ UNCHANGED <<tick, tokens, updatedAt, opened, admitted>>

RateNext == RateTick \/ \E c \in Callers : RateAsk(c) \/ RateDecide(c) \/ RateFails(c)

RateSpec == RateInit /\ [][RateNext]_rateVars

\* In all the time since the bucket was opened no more was let through than one bucket full and
\* what flowed in since, in whatever order requests with different clocks meet the row
\* (rateLimit, whose elapsed time may be negative).
RateIsLimited == Opened => admitted * Minute <= Full + PerMinute * (tick - opened)
=============================================================================
