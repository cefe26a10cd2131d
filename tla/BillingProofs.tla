---------------------------- MODULE BillingProofs ----------------------------
(* The money of an organisation, for every set of bounties and requests, every *)
(* payout, rate and sequence of quotas.                                        *)
EXTENDS Billing, FiniteSetTheorems, SequenceTheorems, NaturalsInduction,
        WellFoundedInduction, TLAPS

-----------------------------------------------------------------------------
(* Sums over finite sets.  The provers have no induction on data: each fact about all sets *)
(* is proved of a smallest set it would fail for.                                          *)

\* What sums up f over the subsets of S.
Chosen(s) == CHOOSE y \in s : TRUE
Unfolds(f, S, g) ==
  \A s \in SUBSET S : g[s] = IF s = {} THEN 0 ELSE f[Chosen(s)] + g[s \ {Chosen(s)}]
Sums(f, S, g) == g \in [SUBSET S -> Int] /\ Unfolds(f, S, g)

\* There is a smallest number in a set of numbers.
LEMMA Least ==
  ASSUME NEW T \in SUBSET Nat, T # {}
  PROVE  \E k \in T : \A m \in T : k <= m
<1> DEFINE R == OpToRel(<, Nat)
<1>1. IsWellFoundedOn(R, Nat)
  BY NatLessThanWellFounded
<1>2. PICK k \in T : \A m \in T : <<m, k>> \notin R
  <2> HIDE DEF R
  <2> QED BY <1>1, WFMin
<1>3. ASSUME NEW m \in T PROVE k <= m
  <2>1. k \in Nat /\ m \in Nat
    OBVIOUS
  <2>2. ~(m < k)
    BY <1>2, <2>1 DEF R, OpToRel
  <2> QED BY <2>1, <2>2
<1> QED BY <1>3

LEMMA ChosenIsIn ==
  ASSUME NEW s, s # {}
  PROVE  Chosen(s) \in s
  BY DEF Chosen

\* Sums up to n elements.
Partial(f, S, n, g) ==
  /\ g \in [{s \in SUBSET S : Cardinality(s) <= n} -> Int]
  /\ \A s \in SUBSET S : Cardinality(s) <= n =>
       g[s] = IF s = {} THEN 0 ELSE f[Chosen(s)] + g[s \ {Chosen(s)}]

LEMMA PartialExists ==
  ASSUME NEW S, IsFiniteSet(S), NEW f \in [S -> Int], NEW n \in Nat
  PROVE  \E g : Partial(f, S, n, g)
<1> DEFINE T == {k \in Nat : ~ \E g : Partial(f, S, k, g)}
<1> SUFFICES ASSUME T # {} PROVE FALSE
  OBVIOUS
<1>1. PICK k \in T : \A m \in T : k <= m
  <2>1. T \in SUBSET Nat
    OBVIOUS
  <2> HIDE DEF T
  <2> QED BY <2>1, Least
<1>2. \A s \in SUBSET S : IsFiniteSet(s) /\ Cardinality(s) \in Nat /\ (Cardinality(s) = 0 <=> s = {})
  BY FS_Subset, FS_CardinalityType, FS_EmptySet
<1>3. CASE k = 0
  <2> DEFINE g == [s \in {u \in SUBSET S : Cardinality(u) <= 0} |-> 0]
  <2>1. \A s \in SUBSET S : Cardinality(s) <= 0 => s = {}
    BY <1>2
  <2>2. Partial(f, S, 0, g)
    BY <2>1 DEF Partial
  <2> HIDE DEF g
  <2> QED BY <1>1, <1>3, <2>2
<1>4. CASE k # 0
  <2>1. k - 1 \in Nat /\ k - 1 \notin T
    <3>1. k \in Nat /\ ~(k <= k - 1)
      BY <1>4
    <3>2. k - 1 \in Nat
      BY <1>4, <3>1
    <3> HIDE DEF T
    <3> QED BY <1>1, <3>1, <3>2
  <2>2. PICK h : Partial(f, S, k - 1, h)
    BY <2>1
  <2> DEFINE g == [s \in {u \in SUBSET S : Cardinality(u) <= k} |->
                     IF s = {} THEN 0 ELSE f[Chosen(s)] + h[s \ {Chosen(s)}]]
  <2>3. ASSUME NEW s \in SUBSET S, Cardinality(s) <= k, s # {}
        PROVE  /\ Chosen(s) \in S /\ s \ {Chosen(s)} \in SUBSET S
               /\ Cardinality(s \ {Chosen(s)}) <= k - 1
    <3>1. Chosen(s) \in s
      BY <2>3, ChosenIsIn
    <3>2. Cardinality(s \ {Chosen(s)}) = Cardinality(s) - 1
      BY <3>1, <1>2, FS_RemoveElement
    <3>3. Cardinality(s) \in Nat /\ k \in Nat
      BY <1>2
    <3> QED BY <2>3, <3>1, <3>2, <3>3
  <2>4. g \in [{s \in SUBSET S : Cardinality(s) <= k} -> Int]
    <3> SUFFICES ASSUME NEW s \in SUBSET S, Cardinality(s) <= k, s # {}
                 PROVE  f[Chosen(s)] + h[s \ {Chosen(s)}] \in Int
      OBVIOUS
    <3>1. f[Chosen(s)] \in Int /\ h[s \ {Chosen(s)}] \in Int
      BY <2>2, <2>3 DEF Partial
    <3> QED BY <3>1
  <2>5. ASSUME NEW s \in SUBSET S, Cardinality(s) <= k - 1
        PROVE  g[s] = h[s]
    <3>1. Cardinality(s) <= k
      BY <2>5, <1>2, <2>1
    <3> QED BY <2>2, <2>5, <3>1 DEF Partial
  <2>6. ASSUME NEW s \in SUBSET S, Cardinality(s) <= k
        PROVE  g[s] = IF s = {} THEN 0 ELSE f[Chosen(s)] + g[s \ {Chosen(s)}]
    <3>1. g[s] = IF s = {} THEN 0 ELSE f[Chosen(s)] + h[s \ {Chosen(s)}]
      BY <2>6
    <3>2. s # {} => g[s \ {Chosen(s)}] = h[s \ {Chosen(s)}]
      BY <2>3, <2>5, <2>6
    <3> HIDE DEF g
    <3> QED BY <3>1, <3>2
  <2>7. Partial(f, S, k, g)
    <3> HIDE DEF g
    <3> QED BY <2>4, <2>6 DEF Partial
  <2> HIDE DEF g
  <2> QED BY <1>1, <2>7
<1> QED BY <1>3, <1>4

LEMMA SumsExist ==
  ASSUME NEW S, IsFiniteSet(S), NEW f \in [S -> Int]
  PROVE  \E g : Sums(f, S, g)
<1>1. Cardinality(S) \in Nat
  BY FS_CardinalityType
<1>2. \A s \in SUBSET S : Cardinality(s) <= Cardinality(S)
  BY FS_Subset
<1>3. PICK g : Partial(f, S, Cardinality(S), g)
  BY <1>1, PartialExists
<1>4. {s \in SUBSET S : Cardinality(s) <= Cardinality(S)} = SUBSET S
  BY <1>2
<1> QED BY <1>2, <1>3, <1>4 DEF Partial, Sums, Unfolds

\* A sum may be taken apart at any element.
LEMMA SumTakesOut ==
  ASSUME NEW S, IsFiniteSet(S), NEW f \in [S -> Int], NEW g, Sums(f, S, g),
         NEW u \in SUBSET S, NEW x0 \in u
  PROVE  g[u] = f[x0] + g[u \ {x0}]
<1> DEFINE Bad(s) == \E y \in s : g[s] # f[y] + g[s \ {y}]
           T == {k \in Nat : \E s \in SUBSET S : Cardinality(s) = k /\ Bad(s)}
<1> SUFFICES ASSUME Bad(u) PROVE FALSE
  OBVIOUS
<1>1. \A s \in SUBSET S : IsFiniteSet(s) /\ Cardinality(s) \in Nat
  BY FS_Subset, FS_CardinalityType
<1>2. T \in SUBSET Nat /\ T # {}
  BY <1>1
<1>3. PICK k \in T : \A m \in T : k <= m
  <2> HIDE DEF T
  <2> QED BY <1>2, Least
<1>4. PICK s \in SUBSET S : Cardinality(s) = k /\ Bad(s)
  OBVIOUS
<1>5. PICK y \in s : g[s] # f[y] + g[s \ {y}]
  BY <1>4
<1> DEFINE c == Chosen(s)
<1>6. c \in s /\ g[s] = f[c] + g[s \ {c}]
  BY <1>5, ChosenIsIn DEF Sums, Unfolds
<1>7. \A z \in s : Cardinality(s \ {z}) = k - 1 /\ s \ {z} \in SUBSET S
  BY <1>1, <1>4, FS_RemoveElement
<1>8. ASSUME NEW v \in SUBSET S, Cardinality(v) = k - 1 PROVE ~Bad(v)
  <2>1. k - 1 \in Nat /\ k \in Nat
    BY <1>1, <1>8
  <2>2. ~(k <= k - 1)
    BY <2>1
  <2>3. k - 1 \notin T
    <3> HIDE DEF T
    <3> QED BY <1>3, <2>2
  <2> HIDE DEF Bad
  <2> QED BY <1>8, <2>1, <2>3
<1> HIDE DEF c, T
<1>9. c # y
  BY <1>5, <1>6
<1>10. PICK rest \in SUBSET S : rest = (s \ {c}) \ {y} /\ rest = (s \ {y}) \ {c}
  OBVIOUS
<1>11. g[s \ {c}] = f[y] + g[rest]
  <2>1. ~Bad(s \ {c})
    BY <1>6, <1>7, <1>8
  <2>2. y \in s \ {c}
    BY <1>6, <1>9
  <2>3. g[s \ {c}] = f[y] + g[(s \ {c}) \ {y}]
    BY <2>1, <2>2
  <2> QED BY <2>3, <1>10
<1>12. g[s \ {y}] = f[c] + g[rest]
  <2>1. ~Bad(s \ {y})
    BY <1>6, <1>7, <1>8
  <2>2. c \in s \ {y}
    BY <1>6, <1>9
  <2>3. g[s \ {y}] = f[c] + g[(s \ {y}) \ {c}]
    BY <2>1, <2>2
  <2> QED BY <2>3, <1>10
<1>13. f[c] \in Int /\ f[y] \in Int /\ g[rest] \in Int
  BY <1>6, <1>10 DEF Sums, Unfolds
<1>14. g[s] = f[y] + g[s \ {y}]
  <2>1. g[s] = f[c] + (f[y] + g[rest])
    BY <1>6, <1>11
  <2>2. f[y] + g[s \ {y}] = f[y] + (f[c] + g[rest])
    BY <1>12
  <2>3. f[c] + (f[y] + g[rest]) = f[y] + (f[c] + g[rest])
    BY <1>13
  <2> QED BY <2>1, <2>2, <2>3
<1> QED BY <1>5, <1>14

\* Two sums of the same amounts are the same.
LEMMA SumsAgree ==
  ASSUME NEW S, IsFiniteSet(S), NEW f, NEW h, NEW g, NEW k, Unfolds(f, S, g), Unfolds(h, S, k),
         NEW u \in SUBSET S, \A y \in u : f[y] = h[y]
  PROVE  g[u] = k[u]
<1> DEFINE Bad(s) == g[s] # k[s]
           T == {m \in Nat : \E s \in SUBSET u : Cardinality(s) = m /\ Bad(s)}
<1> SUFFICES ASSUME Bad(u) PROVE FALSE
  OBVIOUS
<1>1. \A s \in SUBSET u : IsFiniteSet(s) /\ Cardinality(s) \in Nat /\ s \in SUBSET S
  BY FS_Subset, FS_CardinalityType
<1>2. T \in SUBSET Nat /\ T # {}
  BY <1>1
<1>3. PICK n \in T : \A m \in T : n <= m
  <2> HIDE DEF T
  <2> QED BY <1>2, Least
<1>4. PICK s \in SUBSET u : Cardinality(s) = n /\ Bad(s)
  OBVIOUS
<1>5. s # {}
  BY <1>1, <1>4 DEF Unfolds
<1> DEFINE c == Chosen(s)
<1>6. c \in s
  BY <1>5, ChosenIsIn
<1>7. Cardinality(s \ {c}) = n - 1 /\ s \ {c} \in SUBSET u
  BY <1>1, <1>4, <1>6, FS_RemoveElement
<1>8. ~Bad(s \ {c})
  <2>1. n - 1 \in Nat /\ n \in Nat
    BY <1>1, <1>7
  <2>2. ~(n <= n - 1)
    BY <2>1
  <2>3. n - 1 \notin T
    <3> HIDE DEF T
    <3> QED BY <1>3, <2>2
  <2> HIDE DEF Bad
  <2> QED BY <1>7, <2>1, <2>3
<1>9. g[s] = f[c] + g[s \ {c}] /\ k[s] = h[c] + k[s \ {c}]
  BY <1>1, <1>5 DEF Unfolds
<1> QED BY <1>4, <1>6, <1>8, <1>9

\* When one amount changes the sum changes by as much.
LEMMA SumMoves ==
  ASSUME NEW S, IsFiniteSet(S), NEW f \in [S -> Int], NEW h \in [S -> Int], NEW g, NEW k,
         Sums(f, S, g), Sums(h, S, k), NEW b \in S, \A y \in S \ {b} : f[y] = h[y]
  PROVE  k[S] = g[S] + h[b] - f[b]
<1>1. g[S \ {b}] = k[S \ {b}]
  BY SumsAgree DEF Sums
<1>2. g[S] = f[b] + g[S \ {b}] /\ k[S] = h[b] + k[S \ {b}]
  BY SumTakesOut
<1>3. g[S \ {b}] \in Int /\ f[b] \in Int /\ h[b] \in Int
  BY DEF Sums
<1> QED BY <1>1, <1>2, <1>3

-----------------------------------------------------------------------------
(* The fee split *)

\* A rate of at most the whole takes at most the gross.
LEMMA FeeIsPart ==
  ASSUME NEW gross \in Nat, NEW bps \in Bps
  PROVE  FeeCents(gross, bps) \in Nat /\ FeeCents(gross, bps) <= gross
<1> DEFINE p == gross * bps
<1>1. p \in Nat
  BY DEF Bps, WholeBps
<1>2. p <= gross * 10000
  BY DEF Bps, WholeBps
<1>3. p \div 10000 \in Nat /\ p \div 10000 <= gross
  <2> HIDE DEF p
  <2> QED BY <1>1, <1>2
<1> QED
  BY <1>3 DEF FeeCents, WholeBps

\* The three parts are amounts and add up to the gross, to the cent (computePayoutSplitCents).
THEOREM SplitAddsUp ==
  ASSUME NEW gross \in Nat, NEW rate \in Rates
  PROVE  LET split == PayoutSplit(gross, rate)
         IN  /\ split \in [platform : Nat, proofwork : Nat, net : Nat]
             /\ split.platform + split.proofwork + split.net = gross
<1> DEFINE platform == FeeCents(gross, rate.platform)
           rest == gross - platform
           proofwork == FeeCents(rest, rate.proofwork)
<1>1. rate.platform \in Bps /\ rate.proofwork \in Bps
  BY DEF Rates
<1>2. platform \in Nat /\ rest \in Nat
  <2>1. platform \in Nat /\ platform <= gross
    BY <1>1, FeeIsPart
  <2> HIDE DEF platform
  <2> QED BY <2>1
<1>3. proofwork \in Nat /\ proofwork <= rest
  <2> HIDE DEF rest
  <2> QED BY <1>1, <1>2, FeeIsPart
<1>4. PayoutSplit(gross, rate) = [platform |-> platform, proofwork |-> proofwork, net |-> rest - proofwork]
  BY DEF PayoutSplit
<1> QED
  <2>1. platform + rest = gross
    <3> HIDE DEF platform
    <3> QED BY <1>2
  <2> HIDE DEF platform, rest, proofwork
  <2> QED BY <1>2, <1>3, <1>4, <2>1

\* A refund is an amount, and no more than the payout.
LEMMA RefundIsPart == Refund \in Nat /\ Refund <= Payout
<1>1. Payout \in Nat /\ Rate \in Rates
  BY BillingAssumption DEF BillingAssumption
<1> DEFINE split == PayoutSplit(Payout, Rate)
<1>2. /\ split \in [platform : Nat, proofwork : Nat, net : Nat]
      /\ split.platform + split.proofwork + split.net = Payout
  BY <1>1, SplitAddsUp
<1>3. Refund = Payout - split.proofwork
  BY DEF Refund, RefundCents
<1> HIDE DEF split
<1> QED
  BY <1>1, <1>2, <1>3

-----------------------------------------------------------------------------
(* Amounts *)

LEMMA ReserveIsNat == \A b \in Bounties : Reserve(b) \in Nat
<1> SUFFICES ASSUME NEW b \in Bounties PROVE Reserve(b) \in Nat
  OBVIOUS
<1> DEFINE k == IF Jobs[b] = 0 THEN 1 ELSE Jobs[b]
<1>1. Payout \in Nat /\ k \in Nat
  BY BillingAssumption DEF BillingAssumption
<1>2. Payout * k \in Nat
  <2> HIDE DEF k
  <2> QED BY <1>1
<1> QED
  BY <1>2 DEF Reserve

\* The bounty's numbers are numbers.
LEMMA WorkTypes ==
  ASSUME TypeOK, NEW b \in Bounties
  PROVE  /\ work[b] \in [open : Nat, due : Nat, paid : Nat, refunded : Nat]
         /\ work[b].open \in Nat /\ work[b].due \in Nat /\ work[b].paid \in Nat /\ work[b].refunded \in Nat
         /\ Payouts(b) \in Nat /\ uncovered[b] \in Nat /\ Payout * Payouts(b) \in Nat
<1>1. /\ work[b] \in [open : Nat, due : Nat, paid : Nat, refunded : Nat] /\ uncovered[b] \in Nat
  BY DEF TypeOK
<1>2. Payout \in Nat
  BY BillingAssumption DEF BillingAssumption
<1>3. Payouts(b) \in Nat
  BY <1>1 DEF Payouts
<1>4. Payout * Payouts(b) \in Nat
  BY <1>2, <1>3
<1> QED
  BY <1>1, <1>3, <1>4

\* The smaller and the larger of two numbers.
LEMMA MinOfTwo ==
  ASSUME NEW x \in Int, NEW y \in Int
  PROVE  Min({x, y}) = IF x <= y THEN x ELSE y
<1> DEFINE IsMin(m) == \A z \in {x, y} : m <= z
<1>1. \E m \in {x, y} : IsMin(m)
  OBVIOUS
<1>2. Min({x, y}) \in {x, y} /\ IsMin(Min({x, y}))
  BY <1>1, Zenon DEF Min
<1> QED
  BY <1>2

LEMMA MaxOfTwo ==
  ASSUME NEW x \in Int, NEW y \in Int
  PROVE  Max({x, y}) = IF x <= y THEN y ELSE x
<1> DEFINE IsMax(m) == \A z \in {x, y} : m >= z
<1>1. \E m \in {x, y} : IsMax(m)
  OBVIOUS
<1>2. Max({x, y}) \in {x, y} /\ IsMax(Max({x, y}))
  BY <1>1, Zenon DEF Max
<1> QED
  BY <1>2

\* What closing releases is an amount: what the payouts leave of the reservation, if anything.
LEMMA RemainingIs ==
  ASSUME TypeOK, NEW b \in Bounties
  PROVE  /\ Remaining(b) \in Nat
         /\ Remaining(b) = Reserve(b) - Min({Reserve(b), Payout * Payouts(b)})
<1> DEFINE c == Payout * Payouts(b)
           left == Reserve(b) - c
<1>1. Reserve(b) \in Nat /\ c \in Nat
  BY ReserveIsNat, WorkTypes
<1>2. Remaining(b) = Max({0, left})
  BY DEF Remaining
<1> HIDE DEF c
<1>3. left \in Int
  BY <1>1
<1>4. Max({0, left}) = IF 0 <= left THEN left ELSE 0
  <2> HIDE DEF left
  <2> QED BY <1>3, MaxOfTwo
<1>5. Min({Reserve(b), c}) = IF Reserve(b) <= c THEN Reserve(b) ELSE c
  BY <1>1, MinOfTwo
<1> QED
  BY <1>1, <1>2, <1>4, <1>5 DEF c

LEMMA RemainingIsNat == TypeOK => \A b \in Bounties : Remaining(b) \in Nat
  BY RemainingIs

-----------------------------------------------------------------------------
(* Types *)

LEMMA ConstantTypes ==
  /\ Payout \in Nat /\ StripeTopup \in Nat /\ AdminTopup \in Nat /\ MaxTurns \in Nat
  /\ Len(Quotas) \in Nat /\ Len(Quotas) > 0 /\ DOMAIN Quotas = 1 .. Len(Quotas)
  /\ \A q \in DOMAIN Quotas : Quotas[q].spend \in Nat /\ Quotas[q].jobs \in Nat
<1>1. Quotas \in Seq([spend : Nat, jobs : Nat]) /\ Quotas # <<>>
  BY BillingAssumption DEF BillingAssumption
<1>2. \A q \in 1 .. Len(Quotas) : Quotas[q] \in [spend : Nat, jobs : Nat]
  BY <1>1, ElementOfSeq
<1>3. Len(Quotas) \in Nat /\ Len(Quotas) > 0 /\ DOMAIN Quotas = 1 .. Len(Quotas)
  BY <1>1
<1> QED
  BY <1>2, <1>3, BillingAssumption DEF BillingAssumption

\* The progress of a request says what else it knows.
LEMMA Progress ==
  ASSUME TypeOK, NEW r \in Requests
  PROVE  /\ pub[r].pc \in {"asked", "republishes"} => pub[r] \in Waiting
         /\ pub[r].pc = "debits" => pub[r] \in Debiting
         /\ InProgress(r) => pub[r].bounty \in Bounties
BY DEF TypeOK, Idle, Over, Waiting, Debiting, InProgress

\* What a change of the limits leaves of the requests.
LEMMA OutdatedType == TypeOK => Outdated \in [Requests -> {Idle, Over} \cup Waiting \cup Debiting]
<1> SUFFICES ASSUME TypeOK, NEW r \in Requests
             PROVE  Outdated[r] \in {Idle, Over} \cup Waiting \cup Debiting
  BY DEF Outdated
<1>1. CASE pub[r].pc = "debits"
  <2>1. pub[r] \in Debiting
    BY <1>1, Progress
  <2>2. [pub[r] EXCEPT !.stale = TRUE] \in Debiting
    BY <2>1 DEF Debiting
  <2> QED BY <1>1, <2>2 DEF Outdated
<1>2. CASE pub[r].pc # "debits"
  BY <1>2 DEF Outdated, TypeOK
<1> QED
  BY <1>1, <1>2

LEMMA BookTypes ==
  ASSUME TypeOK, NEW type \in DOMAIN ledger, NEW cents \in Int, Book(type, cents)
  PROVE  /\ balance' \in Int
         /\ ledger' \in [stripe_topup : Int, admin_topup : Int, reserve : Int, release : Int, dispute_refund : Int]
BY DEF TypeOK, Book

LEMMA OriginTypes == OriginTypeOK /\ [OriginNext]_originVars => OriginTypeOK'
<1> SUFFICES ASSUME OriginTypeOK, [OriginNext]_originVars PROVE OriginTypeOK'
  OBVIOUS
<1> USE DEF OriginTypeOK, originVars
<1>1. CASE AddOrigin
  BY <1>1 DEF AddOrigin
<1>2. CASE RevokeOrigin
  BY <1>2 DEF RevokeOrigin
<1>3. ASSUME NEW c \in Checkers, CheckOrigin(c) PROVE OriginTypeOK'
  BY <1>3 DEF CheckOrigin
<1>4. ASSUME NEW c \in Checkers, FinishCheck(c) PROVE OriginTypeOK'
  BY <1>4 DEF FinishCheck, Answers
<1>5. CASE UNCHANGED originVars
  BY <1>5
<1> QED
  BY <1>1, <1>2, <1>3, <1>4, <1>5 DEF OriginNext

\* What the steps of the work do to the numbers of their bounty; those of others stay.
Works(b, n) ==
  /\ work' \in [Bounties -> [open : Nat, due : Nat, paid : Nat, refunded : Nat]]
  /\ Payouts(b)' = Payouts(b) + n
  /\ \A c \in Bounties \ {b} : work'[c] = work[c]

LEMMA PassIs ==
  ASSUME TypeOK, NEW b \in Bounties, Pass(b)
  PROVE  /\ Works(b, 1)
         /\ uncovered' \in [Bounties -> Nat]
         /\ uncovered'[b] = IF reservation[b] = "released" THEN uncovered[b] + 1 ELSE uncovered[b]
         /\ \A c \in Bounties \ {b} : uncovered'[c] = uncovered[c]
<1>1. work \in [Bounties -> [open : Nat, due : Nat, paid : Nat, refunded : Nat]] /\ uncovered \in [Bounties -> Nat]
  BY DEF TypeOK
<1>2. PICK w \in [open : Nat, due : Nat, paid : Nat, refunded : Nat] : w = work[b]
  BY <1>1
<1>3. PICK row \in [open : Nat, due : Nat, paid : Nat, refunded : Nat] :
        /\ work' = [work EXCEPT ![b] = row]
        /\ row.due = w.due + 1 /\ row.paid = w.paid /\ row.refunded = w.refunded
  <2>1. CASE Moves(b, "open", "due")
    <3> DEFINE row == Moved(w, "open", "due")
    <3>1. work' = [work EXCEPT ![b] = row] /\ w.open > 0
      BY <1>2, <2>1 DEF Moves
    <3>2. /\ row \in [open : Nat, due : Nat, paid : Nat, refunded : Nat]
          /\ row.due = w.due + 1 /\ row.paid = w.paid /\ row.refunded = w.refunded
      BY <3>1 DEF Moved
    <3> HIDE DEF row
    <3> QED BY <3>1, <3>2
  <2>2. CASE work' = [work EXCEPT ![b].due = @ + 1]
    <3> DEFINE row == [w EXCEPT !.due = @ + 1]
    <3>1. /\ row \in [open : Nat, due : Nat, paid : Nat, refunded : Nat]
          /\ row.due = w.due + 1 /\ row.paid = w.paid /\ row.refunded = w.refunded
      OBVIOUS
    <3>2. work' = [work EXCEPT ![b] = row]
      BY <1>1, <1>2, <2>2
    <3> HIDE DEF row
    <3> QED BY <3>1, <3>2
  <2> QED BY <1>2, <2>1, <2>2 DEF Pass
<1>4. uncovered' = [uncovered EXCEPT ![b] = IF reservation[b] = "released" THEN @ + 1 ELSE @]
  BY DEF Pass
<1>5. work'[b] = row /\ (\A c \in Bounties \ {b} : work'[c] = work[c])
      /\ work' \in [Bounties -> [open : Nat, due : Nat, paid : Nat, refunded : Nat]]
  BY <1>1, <1>3
<1>6. Payouts(b)' = Payouts(b) + 1
  <2>1. w.due \in Nat /\ w.paid \in Nat /\ w.refunded \in Nat
    OBVIOUS
  <2> QED BY <1>2, <1>3, <1>5, <2>1 DEF Payouts
<1>7. /\ uncovered' \in [Bounties -> Nat]
      /\ uncovered'[b] = IF reservation[b] = "released" THEN uncovered[b] + 1 ELSE uncovered[b]
      /\ \A c \in Bounties \ {b} : uncovered'[c] = uncovered[c]
  BY <1>1, <1>4
<1>8. Works(b, 1)
  BY <1>5, <1>6 DEF Works
<1> QED BY <1>7, <1>8

LEMMA WorkIs ==
  ASSUME TypeOK, NEW b \in Bounties, Work(b)
  PROVE  Works(b, 0)
<1>1. work \in [Bounties -> [open : Nat, due : Nat, paid : Nat, refunded : Nat]]
  BY DEF TypeOK
<1>2. CASE work[b].open > 0 /\ work' = [work EXCEPT ![b].open = @ - 1]
  BY <1>1, <1>2 DEF Works, Payouts
<1>3. CASE work' = [work EXCEPT ![b].open = @ + 1]
  BY <1>1, <1>3 DEF Works, Payouts
<1> QED BY <1>2, <1>3 DEF Work

LEMMA MoveIs ==
  ASSUME TypeOK, NEW b \in Bounties, NEW from \in Statuses, NEW to \in Statuses, Moves(b, from, to)
  PROVE  Works(b, 0)
<1>1. work \in [Bounties -> [open : Nat, due : Nat, paid : Nat, refunded : Nat]]
  BY DEF TypeOK
<1>2. PICK w \in [open : Nat, due : Nat, paid : Nat, refunded : Nat] : w = work[b]
  BY <1>1
<1> DEFINE row == Moved(w, from, to)
<1>3. work' = [work EXCEPT ![b] = row] /\ w[from] > 0 /\ from # to
  BY <1>2 DEF Moves
<1>4. /\ row \in [open : Nat, due : Nat, paid : Nat, refunded : Nat]
      /\ row.due + row.paid + row.refunded = w.due + w.paid + w.refunded + 0
  BY <1>3 DEF Statuses, Moved
<1> HIDE DEF row
<1>5. work'[b] = row /\ (\A c \in Bounties \ {b} : work'[c] = work[c])
      /\ work' \in [Bounties -> [open : Nat, due : Nat, paid : Nat, refunded : Nat]]
  BY <1>1, <1>3, <1>4
<1>6. Payouts(b) = w.due + w.paid + w.refunded /\ Payouts(b)' = row.due + row.paid + row.refunded
  BY <1>2, <1>5 DEF Payouts
<1> QED BY <1>4, <1>5, <1>6 DEF Works

LEMMA SettleIs ==
  ASSUME TypeOK, NEW b \in Bounties, Settle(b)
  PROVE  Works(b, 0)
BY MoveIs DEF Settle

\* Every step keeps the types.
LEMMA TypeStep == TypeOK /\ [Next]_vars => TypeOK'
<1> SUFFICES ASSUME TypeOK, [Next]_vars PROVE TypeOK'
  OBVIOUS
<1> USE DEF TypeOK, OriginTypeOK, accounts, quotas, stripe, history, originVars
<1>1. ASSUME NEW b \in Bounties, CreateBounty(b) PROVE TypeOK'
  BY <1>1 DEF CreateBounty
<1>2. ASSUME NEW r \in Requests, NEW b \in Bounties, AskToPublish(r, b) PROVE TypeOK'
  BY <1>2 DEF AskToPublish, Waiting
<1>3. ASSUME NEW r \in Requests, ReadForPublish(r) PROVE TypeOK'
  <2>1. pub[r].bounty \in Bounties /\ limit.jobs \in Nat /\ days \in 0 .. MaxTurns
    BY <1>3, Progress, ConstantTypes DEF ReadForPublish, limit, Waiting
  <2> DEFINE b == pub[r].bounty
             waits == [pc |-> "republishes", bounty |-> b]
             debits == [pc |-> "debits", bounty |-> b, jobs |-> limit.jobs, day |-> days, stale |-> FALSE]
  <2>2. waits \in Waiting /\ debits \in Debiting
    BY <2>1 DEF Waiting, Debiting
  <2>3. pub' = [pub EXCEPT ![r] = waits] \/ pub' = [pub EXCEPT ![r] = debits]
    BY <1>3 DEF ReadForPublish
  <2> HIDE DEF waits, debits
  <2>4. pub' \in [Requests -> {Idle, Over} \cup Waiting \cup Debiting]
    BY <2>2, <2>3
  <2> QED
    BY <1>3, <2>4 DEF ReadForPublish
<1>4. ASSUME NEW r \in Requests, Debit(r) PROVE TypeOK'
  <2> DEFINE b == pub[r].bounty
  <2>1. b \in Bounties /\ Reserve(b) \in Nat
    BY <1>4, Progress, ReserveIsNat DEF Debit, Debiting
  <2>2. Publishes(r, b)
    BY <1>4 DEF Debit
  <2>3. /\ balance' \in Int
        /\ ledger' \in [stripe_topup : Int, admin_topup : Int, reserve : Int, release : Int, dispute_refund : Int]
    <3>1. Book("reserve", -Reserve(b)) /\ -Reserve(b) \in Int
      BY <2>1, <2>2 DEF Publishes
    <3> QED BY <3>1, BookTypes
  <2>4. today' \in Int
    <3> HIDE DEF b
    <3> QED BY <2>1, <2>2 DEF Publishes
  <2>5. pub' \in [Requests -> {Idle, Over} \cup Waiting \cup Debiting]
    BY <2>2, OutdatedType DEF Publishes
  <2>6. work' \in [Bounties -> [open : Nat, due : Nat, paid : Nat, refunded : Nat]]
    <3>1. Jobs[b] \in Nat /\ work' = [work EXCEPT ![b].open = Jobs[b]]
      BY <2>1, <2>2, BillingAssumption DEF BillingAssumption, Publishes
    <3> HIDE DEF b
    <3> QED BY <3>1, <2>1
  <2>7. bounty' \in [Bounties -> {"absent", "draft", "published", "paused", "closed"}]
        /\ reservation' \in [Bounties -> {"none", "active", "released"}]
    BY <2>1, <2>2 DEF Publishes
  <2> HIDE DEF b
  <2> QED
    BY <2>2, <2>3, <2>4, <2>5, <2>6, <2>7 DEF Publishes
<1>5. ASSUME NEW r \in Requests, Republish(r) PROVE TypeOK'
  <2>1. pub[r].bounty \in Bounties
    BY <1>5, Progress DEF Republish, Waiting
  <2> QED
    BY <1>5, <2>1 DEF Republish
<1>6. ASSUME NEW r \in Requests, GiveUpPublish(r) PROVE TypeOK'
  BY <1>6 DEF GiveUpPublish
<1>7. ASSUME NEW b \in Bounties, Pause(b) PROVE TypeOK'
  BY <1>7 DEF Pause
<1>8. ASSUME NEW b \in Bounties, Close(b) PROVE TypeOK'
  <2>1. Remaining(b) \in Nat
    BY RemainingIsNat
  <2>2. CASE reservation[b] = "active"
    <3>1. Book("release", Remaining(b)) /\ today' = today + Remaining(b)
      BY <1>8, <2>2 DEF Close
    <3>2. /\ balance' \in Int
          /\ ledger' \in [stripe_topup : Int, admin_topup : Int, reserve : Int, release : Int, dispute_refund : Int]
      BY <2>1, <3>1, BookTypes
    <3>3. today' \in Int
      BY <2>1, <3>1
    <3> QED
      BY <1>8, <2>2, <3>2, <3>3 DEF Close
  <2>3. CASE reservation[b] # "active"
    BY <1>8, <2>3 DEF Close
  <2> QED
    BY <2>2, <2>3
<1>9. ASSUME NEW b \in Bounties, Pass(b) PROVE TypeOK'
  <2>1. /\ work' \in [Bounties -> [open : Nat, due : Nat, paid : Nat, refunded : Nat]]
        /\ uncovered' \in [Bounties -> Nat]
    BY <1>9, PassIs DEF Works
  <2> QED
    BY <1>9, <2>1 DEF Pass
<1>10. ASSUME NEW b \in Bounties, Work(b) \/ Settle(b) PROVE TypeOK'
  <2>1. work' \in [Bounties -> [open : Nat, due : Nat, paid : Nat, refunded : Nat]]
    BY <1>10, WorkIs, SettleIs DEF Works
  <2> QED
    BY <1>10, <2>1 DEF Work, Settle
<1>11. ASSUME NEW b \in Bounties, DisputeRefund(b) PROVE TypeOK'
  <2>1. Book("dispute_refund", Refund) /\ Refund \in Int /\ today' = today + Refund
    BY <1>11, RefundIsPart DEF DisputeRefund
  <2>2. /\ balance' \in Int /\ today' \in Int
        /\ ledger' \in [stripe_topup : Int, admin_topup : Int, reserve : Int, release : Int, dispute_refund : Int]
    BY <2>1, BookTypes
  <2>3. work' \in [Bounties -> [open : Nat, due : Nat, paid : Nat, refunded : Nat]]
    BY <1>11, MoveIs DEF DisputeRefund, Statuses, Works
  <2> QED
    BY <1>11, <2>2, <2>3 DEF DisputeRefund
<1>12. CASE SetQuotas
  <2>1. quota' \in DOMAIN Quotas
    BY <1>12, ConstantTypes DEF SetQuotas
  <2> QED
    BY <1>12, <2>1, OutdatedType DEF SetQuotas
<1>13. CASE Midnight
  <2>1. days' \in 0 .. MaxTurns
    BY <1>13, ConstantTypes DEF Midnight
  <2> QED
    BY <1>13, <2>1 DEF Midnight
<1>14. CASE Checkout
  BY <1>14 DEF Checkout
<1>15. CASE Pay
  BY <1>15 DEF Pay
<1>16. CASE HookReceives
  BY <1>16 DEF HookReceives
<1>17. CASE HookCredits
  <2>1. /\ balance' \in Int
        /\ ledger' \in [stripe_topup : Int, admin_topup : Int, reserve : Int, release : Int, dispute_refund : Int]
    BY <1>17, ConstantTypes, BookTypes DEF HookCredits
  <2> QED
    BY <1>17, <2>1 DEF HookCredits
<1>18. CASE HookDrops
  BY <1>18 DEF HookDrops
<1>19. CASE AdminTopupCredits
  BY <1>19, ConstantTypes DEF AdminTopupCredits
<1>20. CASE AdminTopupBooks
  <2>1. ledger' \in [stripe_topup : Int, admin_topup : Int, reserve : Int, release : Int, dispute_refund : Int]
    <3>1. ledger' = [ledger EXCEPT !["admin_topup"] = @ + AdminTopup] /\ AdminTopup \in Int
      BY <1>20, ConstantTypes DEF AdminTopupBooks
    <3>2. ledger \in [stripe_topup : Int, admin_topup : Int, reserve : Int, release : Int, dispute_refund : Int]
      OBVIOUS
    <3> QED BY <3>1, <3>2
  <2> QED BY <1>20, <2>1 DEF AdminTopupBooks
<1>21. CASE OriginStep
  BY <1>21, OriginTypes DEF OriginStep
<1>22. CASE UNCHANGED vars
  BY <1>22 DEF vars
<1> QED
  BY <1>1, <1>2, <1>3, <1>4, <1>5, <1>6, <1>7, <1>8, <1>9, <1>10, <1>11, <1>12, <1>13, <1>14, <1>15, <1>16,
     <1>17, <1>18, <1>19, <1>20, <1>21, <1>22
  DEF Next, PublishStep, BountyStep, JobStep, TopupStep, HookStep

\* The state is always of the types of the tables and of the requests' memory.
THEOREM TypeCorrect == Spec => []TypeOK
<1>1. Init => TypeOK
  BY ConstantTypes DEF Init, TypeOK, OriginInit, OriginTypeOK, NoWork
<1> QED
  BY <1>1, TypeStep, PTL DEF Spec

-----------------------------------------------------------------------------
(* The balance and its ledger *)

\* A booking moves the balance and the ledger by the same amount.
LEMMA BookIsExact ==
  ASSUME TypeOK, NEW type \in DOMAIN ledger, NEW cents \in Int, Book(type, cents)
  PROVE  /\ balance' = balance + cents
         /\ Booked' = Booked + cents
BY DEF TypeOK, Book, Booked

LEMMA LedgerStep == TypeOK /\ BalanceIsLedger /\ [Next]_vars => BalanceIsLedger'
<1> SUFFICES ASSUME TypeOK, BalanceIsLedger, [Next]_vars PROVE BalanceIsLedger'
  OBVIOUS
<1> USE DEF accounts
<1>1. balance \in Int /\ Booked \in Int /\ Unbooked \in Int
  BY ConstantTypes DEF TypeOK, Booked, Unbooked
<1>2. ASSUME NEW type \in DOMAIN ledger, NEW cents \in Int, Book(type, cents), UNCHANGED topup
      PROVE  BalanceIsLedger'
  BY <1>1, <1>2, BookIsExact DEF BalanceIsLedger, Unbooked
<1>3. ASSUME UNCHANGED <<balance, ledger, topup>> PROVE BalanceIsLedger'
  BY <1>3 DEF BalanceIsLedger, Booked, Unbooked
<1>4. {"reserve", "release", "dispute_refund", "stripe_topup"} \subseteq DOMAIN ledger
  BY DEF TypeOK
<1>5. ASSUME NEW r \in Requests, PublishStep(r) PROVE BalanceIsLedger'
  <2>1. CASE Debit(r)
    <3>1. pub[r].bounty \in Bounties
      BY <2>1, Progress DEF Debit, Debiting
    <3>2. -Reserve(pub[r].bounty) \in Int
      BY <3>1, ReserveIsNat
    <3>3. Book("reserve", -Reserve(pub[r].bounty)) /\ UNCHANGED topup
      BY <2>1 DEF Debit, Publishes
    <3> QED
      BY <1>2, <1>4, <3>2, <3>3
  <2>2. CASE ~Debit(r)
    <3>1. UNCHANGED <<balance, ledger, topup>>
      BY <1>5, <2>2 DEF PublishStep, AskToPublish, ReadForPublish, Republish, GiveUpPublish
    <3> QED
      BY <1>3, <3>1
  <2> QED
    BY <2>1, <2>2
<1>6. CASE BountyStep
  <2>1. ASSUME NEW b \in Bounties, Close(b) PROVE BalanceIsLedger'
    <3>1. CASE reservation[b] = "active"
      <4>1. Book("release", Remaining(b)) /\ Remaining(b) \in Int /\ UNCHANGED topup
        BY <2>1, <3>1, RemainingIsNat DEF Close
      <4> QED
        BY <1>2, <1>4, <4>1
    <3>2. CASE reservation[b] # "active"
      BY <1>3, <2>1, <3>2 DEF Close
    <3> QED
      BY <3>1, <3>2
  <2>2. ASSUME NEW b \in Bounties, CreateBounty(b) \/ Pause(b) PROVE BalanceIsLedger'
    BY <1>3, <2>2 DEF CreateBounty, Pause
  <2> QED
    BY <1>6, <2>1, <2>2 DEF BountyStep
<1>7. CASE JobStep
  <2>1. ASSUME NEW b \in Bounties, DisputeRefund(b) PROVE BalanceIsLedger'
    <3>1. Book("dispute_refund", Refund) /\ Refund \in Int /\ UNCHANGED topup
      BY <2>1, RefundIsPart, ConstantTypes DEF DisputeRefund
    <3> QED
      BY <1>2, <1>4, <3>1
  <2>2. ASSUME NEW b \in Bounties, Pass(b) \/ Work(b) \/ Settle(b) PROVE BalanceIsLedger'
    BY <1>3, <2>2 DEF Pass, Work, Settle
  <2> QED
    BY <1>7, <2>1, <2>2 DEF JobStep
<1>8. CASE TopupStep
  <2>1. CASE HookCredits
    <3>1. Book("stripe_topup", StripeTopup) /\ StripeTopup \in Int /\ UNCHANGED topup
      BY <2>1, ConstantTypes DEF HookCredits
    <3> QED
      BY <1>2, <1>4, <3>1
  <2>2. CASE AdminTopupCredits
    BY <1>1, <2>2, ConstantTypes DEF AdminTopupCredits, BalanceIsLedger, Booked, Unbooked
  <2>3. CASE AdminTopupBooks
    <3>1. /\ ledger' = [ledger EXCEPT !["admin_topup"] = @ + AdminTopup] /\ AdminTopup \in Int
          /\ balance' = balance /\ Unbooked = AdminTopup /\ Unbooked' = 0
      BY <2>3, ConstantTypes DEF AdminTopupBooks, Unbooked
    <3>2. Booked' = Booked + AdminTopup
      BY <3>1 DEF Booked, TypeOK
    <3> QED BY <1>1, <3>1, <3>2 DEF BalanceIsLedger
  <2>4. CASE Checkout \/ Pay \/ HookReceives \/ HookDrops
    BY <1>3, <2>4 DEF Checkout, Pay, HookReceives, HookDrops
  <2> QED
    BY <1>8, <2>1, <2>2, <2>3, <2>4 DEF TopupStep, HookStep
<1>9. CASE SetQuotas \/ Midnight \/ OriginStep \/ UNCHANGED vars
  BY <1>3, <1>9 DEF SetQuotas, Midnight, OriginStep, vars
<1> QED
  BY <1>5, <1>6, <1>7, <1>8, <1>9 DEF Next

\* Whatever happens and in whatever order, the balance is the sum of the billing events, but
\* for an operator's top-up that is not booked yet.
THEOREM LedgerIsComplete == Spec => []BalanceIsLedger
<1>1. Init => TypeOK /\ BalanceIsLedger
  BY ConstantTypes DEF Init, TypeOK, OriginInit, OriginTypeOK, NoWork, BalanceIsLedger, Booked, Unbooked
<1> QED
  BY <1>1, TypeStep, LedgerStep, PTL DEF Spec

-----------------------------------------------------------------------------
(* The balance is never overdrawn *)

\* Only a debit takes from the balance, and no more than there is.
LEMMA OverdraftStep == TypeOK /\ NoOverdraft /\ [Next]_vars => NoOverdraft'
<1> SUFFICES ASSUME TypeOK, NoOverdraft, [Next]_vars PROVE NoOverdraft'
  OBVIOUS
<1> USE DEF accounts
<1>1. balance \in Int /\ balance >= 0
  BY DEF TypeOK, NoOverdraft
<1>2. ASSUME NEW cents \in Int, balance' = balance + cents, balance + cents >= 0 PROVE NoOverdraft'
  BY <1>2 DEF NoOverdraft
<1>3. ASSUME UNCHANGED balance PROVE NoOverdraft'
  BY <1>1, <1>3 DEF NoOverdraft
<1>4. ASSUME NEW r \in Requests, Debit(r) PROVE NoOverdraft'
  <2>1. pub[r].bounty \in Bounties
    BY <1>4, Progress DEF Debit, Debiting
  <2>2. balance >= Reserve(pub[r].bounty) /\ balance' = balance + (-Reserve(pub[r].bounty))
    BY <1>4 DEF Debit, Publishes, Book
  <2> QED
    BY <1>1, <1>2, <2>1, <2>2, ReserveIsNat
<1>5. ASSUME NEW r \in Requests, PublishStep(r), ~Debit(r) PROVE NoOverdraft'
  BY <1>3, <1>5 DEF PublishStep, AskToPublish, ReadForPublish, Republish, GiveUpPublish
<1>6. CASE BountyStep
  <2>1. ASSUME NEW b \in Bounties, Close(b) PROVE NoOverdraft'
    <3>1. CASE reservation[b] = "active"
      <4>1. balance' = balance + Remaining(b) /\ Remaining(b) \in Nat
        BY <2>1, <3>1, RemainingIsNat DEF Close, Book
      <4> QED
        BY <1>1, <1>2, <4>1
    <3>2. CASE reservation[b] # "active"
      BY <1>3, <2>1, <3>2 DEF Close
    <3> QED
      BY <3>1, <3>2
  <2>2. ASSUME NEW b \in Bounties, CreateBounty(b) \/ Pause(b) PROVE NoOverdraft'
    BY <1>3, <2>2 DEF CreateBounty, Pause
  <2> QED
    BY <1>6, <2>1, <2>2 DEF BountyStep
<1>7. CASE JobStep
  <2>1. ASSUME NEW b \in Bounties, DisputeRefund(b) PROVE NoOverdraft'
    <3>1. balance' = balance + Refund /\ Refund \in Nat
      BY <2>1, RefundIsPart DEF DisputeRefund, Book
    <3> QED
      BY <1>1, <1>2, <3>1
  <2>2. ASSUME NEW b \in Bounties, Pass(b) \/ Work(b) \/ Settle(b) PROVE NoOverdraft'
    BY <1>3, <2>2 DEF Pass, Work, Settle
  <2> QED
    BY <1>7, <2>1, <2>2 DEF JobStep
<1>8. CASE TopupStep
  <2>1. CASE HookCredits
    BY <1>1, <1>2, <2>1, ConstantTypes DEF HookCredits, Book
  <2>2. CASE AdminTopupCredits
    BY <1>1, <1>2, <2>2, ConstantTypes DEF AdminTopupCredits
  <2>3. CASE AdminTopupBooks \/ Checkout \/ Pay \/ HookReceives \/ HookDrops
    BY <1>3, <2>3 DEF AdminTopupBooks, Checkout, Pay, HookReceives, HookDrops
  <2> QED
    BY <1>8, <2>1, <2>2, <2>3 DEF TopupStep, HookStep
<1>9. CASE SetQuotas \/ Midnight \/ OriginStep \/ UNCHANGED vars
  BY <1>3, <1>9 DEF SetQuotas, Midnight, OriginStep, vars
<1> QED
  BY <1>4, <1>5, <1>6, <1>7, <1>8, <1>9 DEF Next

\* The account is never overdrawn, by however many concurrent publish requests.
THEOREM NeverOverdrawn == Spec => []NoOverdraft
<1>1. Init => TypeOK /\ NoOverdraft
  BY ConstantTypes DEF Init, TypeOK, OriginInit, OriginTypeOK, NoWork, NoOverdraft
<1> QED
  BY <1>1, TypeStep, OverdraftStep, PTL DEF Spec

-----------------------------------------------------------------------------
(* A published bounty has its budget *)

\* The strengthening: a reservation is never taken back to "none", and once it is released its
\* bounty is closed and nobody is publishing it, or it is one of the exceptions.
Funding ==
  /\ \A b \in Bounties :
       /\ bounty[b] = "published" => reservation[b] # "none"
       /\ reservation[b] = "released" => b \in reopened \/ (bounty[b] = "closed" /\ ~Publishing(b))
  /\ \A r \in Requests : pub[r].pc = "republishes" => reservation[pub[r].bounty] # "none"

\* Requests that go on publish the same bounty, except one that asks.
GoOn == \A q \in Requests : InProgress(q)' => InProgress(q) /\ pub'[q].bounty = pub[q].bounty

LEMMA PublishingGoesOn ==
  ASSUME GoOn, NEW b \in Bounties
  PROVE  Publishing(b)' => Publishing(b)
BY DEF GoOn, Publishing

\* What a change of the limits leaves of a request.
LEMMA OutdatedRequest ==
  ASSUME TypeOK, NEW q \in Requests
  PROVE  /\ Outdated[q].pc = pub[q].pc
         /\ Outdated[q] \notin {Idle, Over} => InProgress(q) /\ Outdated[q].bounty = pub[q].bounty
         /\ pub[q].pc = "republishes" => Outdated[q] = pub[q]
         /\ pub[q].pc = "debits" => Outdated[q] \notin {Idle, Over} /\ Outdated[q].stale
<1>1. CASE pub[q].pc = "debits"
  <2>1. pub[q] \in Debiting
    BY <1>1, Progress
  <2>2. Outdated[q] = [pub[q] EXCEPT !.stale = TRUE]
    BY <1>1 DEF Outdated
  <2> QED
    BY <1>1, <2>1, <2>2 DEF Debiting, Idle, Over, InProgress
<1>2. CASE pub[q].pc # "debits"
  BY <1>2 DEF Outdated, InProgress
<1> QED
  BY <1>1, <1>2

LEMMA FundingStep == TypeOK /\ Funding /\ [Next]_vars => Funding'
<1> SUFFICES ASSUME TypeOK, Funding, [Next]_vars PROVE Funding'
  OBVIOUS
<1> USE DEF Funding
<1>1. ASSUME UNCHANGED <<bounty, reservation, reopened, pub>> PROVE Funding'
  BY <1>1 DEF Publishing, InProgress
<1>2. ASSUME NEW c \in Bounties, CreateBounty(c) PROVE Funding'
  BY <1>2 DEF CreateBounty, Publishing, InProgress, TypeOK, history
<1>3. ASSUME NEW r \in Requests, NEW c \in Bounties, AskToPublish(r, c) PROVE Funding'
  <2>1. ASSUME NEW b \in Bounties, Publishing(b)' PROVE Publishing(b) \/ b = c
    BY <1>3, <2>1 DEF AskToPublish, Publishing, InProgress, TypeOK
  <2>2. \A q \in Requests : pub'[q].pc = "republishes" => pub[q].pc = "republishes" /\ pub'[q] = pub[q]
    BY <1>3 DEF AskToPublish, TypeOK
  <2> QED
    BY <1>3, <2>1, <2>2 DEF AskToPublish, history
<1>4. ASSUME NEW r \in Requests, ReadForPublish(r) PROVE Funding'
  <2>1. pub[r].bounty \in Bounties /\ InProgress(r)
    BY <1>4, Progress DEF ReadForPublish, InProgress, Idle, Over, Waiting
  <2>2. \A q \in Requests : q # r => pub'[q] = pub[q]
    BY <1>4 DEF ReadForPublish, TypeOK
  <2>3. /\ pub'[r].bounty = pub[r].bounty
        /\ pub'[r].pc = "republishes" => reservation[pub[r].bounty] # "none"
    BY <1>4 DEF ReadForPublish, TypeOK
  <2>4. GoOn
    BY <2>1, <2>2, <2>3 DEF GoOn, InProgress
  <2>5. \A b \in Bounties : Publishing(b)' => Publishing(b)
    BY <2>4, PublishingGoesOn
  <2>6. UNCHANGED <<bounty, reservation, reopened>>
    BY <1>4 DEF ReadForPublish, history
  <2> QED
    BY <2>2, <2>3, <2>5, <2>6
<1>5. ASSUME NEW r \in Requests, Debit(r) PROVE Funding'
  <2> DEFINE c == pub[r].bounty
  <2>1. c \in Bounties /\ Publishes(r, c)
    BY <1>5, Progress DEF Debit, Debiting
  <2>2. pub'[r] = Over /\ \A q \in Requests : q # r => pub'[q] = Outdated[q]
    BY <2>1 DEF Publishes, Outdated
  <2>3. GoOn
    BY <2>2, OutdatedRequest DEF GoOn, InProgress
  <2>4. \A b \in Bounties : Publishing(b)' => Publishing(b)
    BY <2>3, PublishingGoesOn
  <2>5. \A q \in Requests : pub'[q].pc = "republishes" => pub[q].pc = "republishes" /\ pub'[q] = pub[q]
    BY <2>2, OutdatedRequest DEF Over
  <2>6. /\ reservation' = [reservation EXCEPT ![c] = "active"]
        /\ bounty' = [bounty EXCEPT ![c] = "published"]
        /\ reopened' = reopened
    BY <2>1 DEF Publishes, history
  <2> HIDE DEF c
  <2> QED
    BY <2>1, <2>4, <2>5, <2>6, Progress DEF TypeOK
<1>6. ASSUME NEW r \in Requests, Republish(r) PROVE Funding'
  <2> DEFINE c == pub[r].bounty
  <2>1. c \in Bounties /\ InProgress(r)
    BY <1>6, Progress DEF Republish, InProgress, Idle, Over, Waiting
  <2>2. pub'[r] = Over /\ \A q \in Requests : q # r => pub'[q] = pub[q]
    BY <1>6 DEF Republish, TypeOK
  <2>3. GoOn
    BY <2>2 DEF GoOn, InProgress
  <2>4. \A b \in Bounties : Publishing(b)' => Publishing(b)
    BY <2>3, PublishingGoesOn
  <2>5. Publishing(c)
    BY <2>1 DEF Publishing
  <2>6. reservation[c] # "none"
    BY <1>6 DEF Republish
  <2>7. bounty' = [bounty EXCEPT ![c] = "published"] /\ UNCHANGED <<reservation, reopened>>
    BY <1>6 DEF Republish, history
  <2>8. \A q \in Requests : pub'[q].pc = "republishes" => pub[q].pc = "republishes" /\ pub'[q] = pub[q]
    BY <2>2 DEF Over
  <2> HIDE DEF c
  <2> QED
    BY <2>1, <2>4, <2>5, <2>6, <2>7, <2>8 DEF TypeOK
<1>7. ASSUME UNCHANGED <<bounty, reservation, reopened>>, GoOn,
             \A q \in Requests : pub'[q].pc = "republishes" => pub'[q] = pub[q]
      PROVE  Funding'
  BY <1>7, PublishingGoesOn
<1>8. ASSUME NEW r \in Requests, GiveUpPublish(r) PROVE Funding'
  <2>1. pub'[r] = Over /\ \A q \in Requests : q # r => pub'[q] = pub[q]
    BY <1>8 DEF GiveUpPublish, TypeOK
  <2>2. GoOn
    BY <2>1 DEF GoOn, InProgress
  <2> QED
    BY <1>7, <1>8, <2>1, <2>2 DEF GiveUpPublish, history, Over
<1>9. ASSUME NEW c \in Bounties, Pause(c) PROVE Funding'
  BY <1>9 DEF Pause, Publishing, InProgress, TypeOK
<1>10. ASSUME NEW c \in Bounties, Close(c) PROVE Funding'
  <2>1. CASE reservation[c] = "active"
    <3>1. /\ bounty' = [bounty EXCEPT ![c] = "closed"]
          /\ reservation' = [reservation EXCEPT ![c] = "released"]
          /\ reopened' = IF Publishing(c) THEN reopened \cup {c} ELSE reopened
          /\ pub' = pub
      BY <1>10, <2>1 DEF Close
    <3>2. \A b \in Bounties : Publishing(b)' <=> Publishing(b)
      BY <3>1 DEF Publishing, InProgress
    <3> QED
      BY <1>10, <2>1, <3>1, <3>2, Progress DEF TypeOK
  <2>2. CASE reservation[c] # "active"
    BY <1>10, <2>2 DEF Close, Publishing, InProgress, TypeOK
  <2> QED
    BY <2>1, <2>2
<1>11. CASE SetQuotas
  <2>1. UNCHANGED <<bounty, reservation, reopened>> /\ \A q \in Requests : pub'[q] = Outdated[q]
    BY <1>11 DEF SetQuotas, history
  <2>2. GoOn
    BY <2>1, OutdatedRequest DEF GoOn, InProgress
  <2> QED
    BY <1>7, <2>1, <2>2, OutdatedRequest
<1>12. CASE JobStep \/ Midnight \/ TopupStep \/ OriginStep \/ UNCHANGED vars
  BY <1>1, <1>12 DEF JobStep, Pass, Work, Settle, DisputeRefund, Midnight, TopupStep, Checkout, Pay, HookStep,
       HookReceives, HookCredits, HookDrops, AdminTopupCredits, AdminTopupBooks, OriginStep, history, vars
<1> QED
  BY <1>2, <1>3, <1>4, <1>5, <1>6, <1>8, <1>9, <1>10, <1>11, <1>12 DEF Next, PublishStep, BountyStep

\* A bounty is published without an active reservation only if it was paused after closing or
\* closed while being published: there is no third way.
THEOREM PublishedHasBudget == Spec => []PublishedIsFunded
<1>1. Init => TypeOK /\ Funding
  BY ConstantTypes DEF Init, TypeOK, OriginInit, OriginTypeOK, NoWork, Funding, Idle
<1>2. TypeOK /\ Funding => PublishedIsFunded
  BY DEF TypeOK, Funding, PublishedIsFunded
<1> QED
  BY <1>1, <1>2, TypeStep, FundingStep, PTL DEF Spec

-----------------------------------------------------------------------------
(* A revoked origin *)

\* A revoked row has been read only by checks that the revocation has overtaken.
Overtaken == origin = "revoked" => checking \subseteq late

\* Only the origin's own operations touch it.
LEMMA OriginsApart == [Next]_vars => OriginStep \/ UNCHANGED originVars
BY DEF Next, PublishStep, AskToPublish, ReadForPublish, Debit, Publishes, Republish, GiveUpPublish,
   BountyStep, CreateBounty, Pause, Close, JobStep, Pass, Work, Settle, DisputeRefund, SetQuotas, Midnight,
   TopupStep, Checkout, Pay, HookStep, HookReceives, HookCredits, HookDrops, AdminTopupCredits,
   AdminTopupBooks, vars

LEMMA OvertakenStep == Overtaken /\ [Next]_vars => Overtaken'
<1>1. Overtaken /\ OriginStep => Overtaken'
  BY DEF Overtaken, OriginStep, OriginNext, AddOrigin, RevokeOrigin, CheckOrigin, FinishCheck, Answers
<1>2. Overtaken /\ UNCHANGED originVars => Overtaken'
  BY DEF Overtaken, originVars
<1> QED
  BY <1>1, <1>2, OriginsApart

\* A revocation is undone only by a check that had read the row before it, for any number of
\* checks going on at once.
THEOREM RevocationLasts == Spec => RevokedIsFinal
<1>1. Init => Overtaken
  BY DEF Init, OriginInit, Overtaken
<1>2. Overtaken /\ [Next]_vars => [origin = "revoked" /\ late = {} => origin' = "revoked"]_vars
  <2> SUFFICES ASSUME Overtaken, [Next]_vars, origin = "revoked", late = {}
               PROVE  origin' = "revoked"
    OBVIOUS
  <2>1. checking = {}
    BY DEF Overtaken
  <2>2. OriginStep => origin' = "revoked"
    BY <2>1 DEF OriginStep, OriginNext, AddOrigin, RevokeOrigin, CheckOrigin, FinishCheck
  <2> QED
    BY <2>2, OriginsApart DEF originVars
<1> QED
  BY <1>1, <1>2, OvertakenStep, PTL DEF Spec, RevokedIsFinal

-----------------------------------------------------------------------------
(* The day's spending *)

\* What a request has read still allows its debit, unless it is stale: on the day it read, the
\* spending has not grown; on a later day nothing of it is booked that day.
Allows(r) ==
  pub[r].pc = "debits" /\ ~pub[r].stale =>
    /\ pub[r].day <= days
    /\ pub[r].day = days => Spent + Reserve(pub[r].bounty) <= limit.spend
    /\ pub[r].day # days => today >= 0

Reckoned == \A r \in Requests : Allows(r)

\* Money that comes back lowers the day's spending.
LEMMA SpendingFalls ==
  ASSUME TypeOK, NEW r \in Requests, Allows(r), NEW cents \in Nat,
         pub'[r] = pub[r], UNCHANGED quotas, today' = today + cents
  PROVE  Allows(r)'
<1>1. today \in Int /\ limit' = limit /\ days' = days
  BY DEF TypeOK, quotas, limit
<1>2. ASSUME pub[r].pc = "debits", ~pub[r].stale PROVE Allows(r)'
  <2>1. pub[r].bounty \in Bounties
    BY <1>2, Progress DEF Debiting
  <2>2. Reserve(pub[r].bounty) \in Nat /\ limit.spend \in Nat
    BY <2>1, ReserveIsNat, ConstantTypes DEF TypeOK, limit
  <2>3. Spent' <= Spent /\ Spent' \in Int /\ Spent \in Int
    BY <1>1 DEF Spent
  <2>4. CASE pub[r].day = days
    <3>1. Spent + Reserve(pub[r].bounty) <= limit.spend
      BY <1>2, <2>4 DEF Allows
    <3>2. Spent' + Reserve(pub[r].bounty) <= limit.spend
      BY <2>2, <2>3, <3>1
    <3>3. pub[r].day <= days
      BY <1>2 DEF Allows
    <3> QED
      BY <1>1, <2>4, <3>2, <3>3 DEF Allows
  <2>5. CASE pub[r].day # days
    BY <1>1, <1>2, <2>5 DEF Allows
  <2> QED
    BY <2>4, <2>5
<1>3. ASSUME ~(pub[r].pc = "debits" /\ ~pub[r].stale) PROVE Allows(r)'
  BY <1>3 DEF Allows
<1> QED
  BY <1>2, <1>3

LEMMA ReckonedStep == TypeOK /\ Reckoned /\ [Next]_vars => Reckoned'
<1> SUFFICES ASSUME TypeOK, Reckoned, [Next]_vars, NEW q \in Requests PROVE Allows(q)'
  BY DEF Reckoned
<1>1. Allows(q)
  BY DEF Reckoned
<1>2. ASSUME pub'[q] = pub[q], UNCHANGED <<quotas, today>> PROVE Allows(q)'
  <2>1. today \in Int /\ today' = today + 0
    BY <1>2 DEF TypeOK
  <2> QED
    BY <1>1, <1>2, <2>1, SpendingFalls
<1>3. ASSUME pub'[q].pc # "debits" PROVE Allows(q)'
  BY <1>3 DEF Allows
<1>4. ASSUME pub'[q] = Outdated[q] PROVE Allows(q)'
  BY <1>4, OutdatedRequest DEF Allows
<1>5. ASSUME NEW r \in Requests, NEW b \in Bounties, AskToPublish(r, b) PROVE Allows(q)'
  <2>1. q # r => pub'[q] = pub[q]
    BY <1>5 DEF AskToPublish, TypeOK
  <2>2. q = r => pub'[q].pc # "debits"
    BY <1>5 DEF AskToPublish, TypeOK
  <2> QED
    BY <1>2, <1>3, <1>5, <2>1, <2>2 DEF AskToPublish, accounts
<1>6. ASSUME NEW r \in Requests, ReadForPublish(r) PROVE Allows(q)'
  <2>1. q # r => pub'[q] = pub[q]
    BY <1>6 DEF ReadForPublish, TypeOK
  <2>2. UNCHANGED <<quotas, today>>
    BY <1>6 DEF ReadForPublish, accounts
  <2>3. ASSUME q = r PROVE Allows(q)'
    <3>1. CASE pub'[q] = [pc |-> "republishes", bounty |-> pub[q].bounty]
      BY <1>3, <3>1
    <3>2. CASE /\ SpendAllowed(pub[q].bounty)
               /\ pub'[q] = [pc |-> "debits", bounty |-> pub[q].bounty, jobs |-> limit.jobs,
                             day |-> days, stale |-> FALSE]
      <4>1. pub'[q].bounty = pub[q].bounty /\ pub'[q].day = days /\ days' = days
        BY <2>2, <3>2 DEF quotas
      <4>2. Spent' = Spent /\ limit' = limit
        BY <2>2 DEF Spent, limit, quotas
      <4>3. days \in Int
        BY ConstantTypes DEF TypeOK
      <4> QED
        BY <3>2, <4>1, <4>2, <4>3 DEF Allows, SpendAllowed
    <3> QED
      BY <1>6, <2>3, <3>1, <3>2 DEF ReadForPublish, TypeOK
  <2> QED
    BY <1>2, <2>1, <2>2, <2>3
<1>7. ASSUME NEW r \in Requests, Debit(r) PROVE Allows(q)'
  <2>1. pub' = [Outdated EXCEPT ![r] = Over]
    BY <1>7 DEF Debit, Publishes
  <2>2. q # r => pub'[q] = Outdated[q]
    BY <2>1 DEF Outdated
  <2>3. q = r => pub'[q].pc # "debits"
    BY <2>1 DEF Outdated, Over
  <2> QED
    BY <1>3, <1>4, <2>2, <2>3
<1>8. ASSUME NEW r \in Requests, Republish(r) \/ GiveUpPublish(r) PROVE Allows(q)'
  <2>1. q # r => pub'[q] = pub[q]
    BY <1>8 DEF Republish, GiveUpPublish, TypeOK
  <2>2. q = r => pub'[q].pc # "debits"
    BY <1>8 DEF Republish, GiveUpPublish, TypeOK, Over
  <2>3. UNCHANGED <<quotas, today>>
    BY <1>8 DEF Republish, GiveUpPublish, accounts
  <2> QED
    BY <1>2, <1>3, <2>1, <2>2, <2>3
<1>9. CASE BountyStep
  <2>1. ASSUME NEW b \in Bounties, CreateBounty(b) \/ Pause(b) PROVE Allows(q)'
    BY <1>2, <2>1 DEF CreateBounty, Pause, accounts
  <2>2. ASSUME NEW b \in Bounties, Close(b) PROVE Allows(q)'
    <3>1. CASE reservation[b] = "active"
      <4>1. today' = today + Remaining(b) /\ UNCHANGED <<quotas, pub>>
        BY <2>2, <3>1 DEF Close
      <4> QED
        BY <1>1, <4>1, RemainingIsNat, SpendingFalls
    <3>2. CASE reservation[b] # "active"
      BY <1>2, <2>2, <3>2 DEF Close, accounts
    <3> QED
      BY <3>1, <3>2
  <2> QED
    BY <1>9, <2>1, <2>2 DEF BountyStep
<1>10. CASE JobStep
  <2>1. ASSUME NEW b \in Bounties, DisputeRefund(b) PROVE Allows(q)'
    BY <1>1, <2>1, RefundIsPart, SpendingFalls DEF DisputeRefund
  <2>2. ASSUME NEW b \in Bounties, Pass(b) \/ Work(b) \/ Settle(b) PROVE Allows(q)'
    BY <1>2, <2>2 DEF Pass, Work, Settle, accounts
  <2> QED
    BY <1>10, <2>1, <2>2 DEF JobStep
<1>11. CASE SetQuotas
  BY <1>4, <1>11 DEF SetQuotas
<1>12. CASE Midnight
  <2>1. days' = days + 1 /\ today' = 0 /\ pub' = pub /\ days \in Int
    BY <1>12, ConstantTypes DEF Midnight, TypeOK
  <2>2. ASSUME pub[q].pc = "debits", ~pub[q].stale PROVE Allows(q)'
    <3>1. pub[q].day <= days /\ pub[q].day \in Int
      BY <1>1, <2>2, Progress, ConstantTypes DEF Allows, Debiting
    <3> QED
      BY <2>1, <3>1 DEF Allows
  <2> QED
    BY <2>1, <2>2 DEF Allows
<1>13. CASE TopupStep \/ OriginStep \/ UNCHANGED vars
  BY <1>2, <1>13 DEF TopupStep, Checkout, Pay, HookStep, HookReceives, HookCredits, HookDrops,
       AdminTopupCredits, AdminTopupBooks, OriginStep, accounts, vars
<1> QED
  BY <1>5, <1>6, <1>7, <1>8, <1>9, <1>10, <1>11, <1>12, <1>13 DEF Next, PublishStep

\* A debit whose request is not stale keeps the limit.
LEMMA DebitWithinLimit ==
  ASSUME TypeOK, Reckoned, NEW r \in Requests, Debit(r), ~pub[r].stale
  PROVE  Spent' <= limit.spend
<1> DEFINE cost == Reserve(pub[r].bounty)
<1>1. pub[r].pc = "debits" /\ pub[r].bounty \in Bounties
  BY Progress DEF Debit, Debiting
<1>2. cost \in Nat /\ today \in Int /\ limit.spend \in Nat
  BY <1>1, ReserveIsNat, ConstantTypes DEF TypeOK, limit
<1>3. today' = IF pub[r].day = days THEN today - cost ELSE today
  BY DEF Debit, Publishes
<1>4. /\ pub[r].day = days => Spent + cost <= limit.spend
      /\ pub[r].day # days => today >= 0
  BY <1>1 DEF Reckoned, Allows
<1> HIDE DEF cost
<1> QED
  BY <1>2, <1>3, <1>4 DEF Spent

\* No debit takes the day's spending over the quota unless another debit or a change of the
\* quota came after its request had read them: for any quotas, reserves and number of midnights.
THEOREM SpendingIsLimited == Spec => SpendWithinLimit
<1> DEFINE Step == \A r \in Requests :
             pub[r].pc = "debits" /\ reservation' # reservation /\ pub'[r] = Over /\ ~pub[r].stale
               => (IF today' < 0 THEN -today' ELSE 0) <= limit.spend
<1>1. Init => TypeOK /\ Reckoned
  BY ConstantTypes DEF Init, TypeOK, OriginInit, OriginTypeOK, NoWork, Reckoned, Allows, Idle
<1>2. TypeOK /\ Reckoned /\ [Next]_vars => [Step]_vars
  <2> SUFFICES ASSUME TypeOK, Reckoned, [Next]_vars, NEW r \in Requests, pub[r].pc = "debits",
                      reservation' # reservation, pub'[r] = Over, ~pub[r].stale
               PROVE  Spent' <= limit.spend
    BY DEF Spent
  <2>1. pub'[r] # pub[r] /\ pub'[r] # Outdated[r]
    BY OutdatedRequest DEF Over
  <2>2. ASSUME NEW s \in Requests, Debit(s), s # r PROVE FALSE
    <3>1. pub' = [Outdated EXCEPT ![s] = Over]
      BY <2>2 DEF Debit, Publishes
    <3> QED
      BY <2>1, <2>2, <3>1 DEF Outdated
  <2>3. \E s \in Requests : Debit(s)
    BY <2>1 DEF Next, PublishStep, AskToPublish, ReadForPublish, Republish, GiveUpPublish, BountyStep,
       CreateBounty, Pause, Close, JobStep, Pass, Work, Settle, DisputeRefund, SetQuotas, Midnight, TopupStep,
       Checkout, Pay, HookStep, HookReceives, HookCredits, HookDrops, AdminTopupCredits, AdminTopupBooks,
       OriginStep, vars
  <2> QED
    BY <2>2, <2>3, DebitWithinLimit
<1> QED
  BY <1>1, <1>2, TypeStep, ReckonedStep, PTL DEF Spec, SpendWithinLimit

-----------------------------------------------------------------------------
(* Conservation of money *)

Total == MapThenSumSet(Held, Bounties)
HeldOf == [b \in Bounties |-> Held(b)]
Refunds == ledger.dispute_refund

\* The strengthening: payouts lack a budget only once it has been released.
Covered == \A b \in Bounties : reservation[b] # "released" => uncovered[b] = 0

\* What is held for a bounty, for each state of its reservation.
Cost(b) == Payout * (Payouts(b) - uncovered[b])

LEMMA HeldIs ==
  ASSUME TypeOK, NEW b \in Bounties
  PROVE  /\ Held(b) \in Int /\ Reserve(b) \in Int
         /\ reservation[b] = "none" => Held(b) = 0
         /\ reservation[b] = "active" => Held(b) = Reserve(b)
         /\ reservation[b] = "released" => Held(b) = Min({Reserve(b), Cost(b)})
<1>1. reservation[b] \in {"none", "active", "released"}
  BY DEF TypeOK
<1>2. Reserve(b) \in Int
  BY ReserveIsNat
<1>3. Cost(b) \in Int
  <2> DEFINE n == Payouts(b) - uncovered[b]
  <2>1. n \in Int /\ Payout \in Int
    BY WorkTypes, ConstantTypes
  <2> HIDE DEF n
  <2>2. Payout * n \in Int
    BY <2>1
  <2> QED BY <2>2 DEF Cost, n
<1>4. Min({Reserve(b), Cost(b)}) \in Int
  BY <1>2, <1>3, MinOfTwo
<1> QED BY <1>1, <1>2, <1>4 DEF Held, Cost

\* It stays when the reservation does, and after the release the number of payouts with a budget.
LEMMA HeldSame ==
  ASSUME NEW b \in Bounties, reservation'[b] = reservation[b],
         reservation[b] = "released" => Payouts(b)' - uncovered'[b] = Payouts(b) - uncovered[b]
  PROVE  Held(b)' = Held(b)
<1>1. Reserve(b)' = Reserve(b)
  BY DEF Reserve
<1>2. reservation[b] = "released" => Cost(b)' = Cost(b)
  BY DEF Cost
<1> QED BY <1>1, <1>2 DEF Held, Cost

\* The sum of what is held, as one function from sets of bounties.
Summed == 
  /\ HeldOf \in [Bounties -> Int]
  /\ \E g : Sums(HeldOf, Bounties, g) /\ Total = g[Bounties] /\ Total \in Int

LEMMA TotalIsSum == TypeOK => Summed
<1> SUFFICES ASSUME TypeOK PROVE Summed
  OBVIOUS
<1> DEFINE Eq(k) == k = [s \in SUBSET Bounties |->
                           IF s = {} THEN 0
                           ELSE Held(CHOOSE x \in s : TRUE) + k[s \ {CHOOSE x \in s : TRUE}]]
<1>1. Total = (CHOOSE k : Eq(k))[Bounties]
  BY DEF Total, MapThenSumSet, MapThenFoldSet
<1>2. IsFiniteSet(Bounties)
  BY BillingAssumption DEF BillingAssumption
<1>3. HeldOf \in [Bounties -> Int]
  BY HeldIs DEF HeldOf
<1>4. PICK g : Sums(HeldOf, Bounties, g)
  BY <1>2, <1>3, SumsExist
<1>5. \A s \in SUBSET Bounties : s # {} => HeldOf[Chosen(s)] = Held(Chosen(s))
  BY ChosenIsIn DEF HeldOf
<1>6. Eq(g)
  <2>1. \A s \in SUBSET Bounties :
          g[s] = IF s = {} THEN 0 ELSE Held(Chosen(s)) + g[s \ {Chosen(s)}]
    BY <1>4, <1>5 DEF Sums, Unfolds
  <2>2. g = [s \in SUBSET Bounties |-> g[s]]
    BY <1>4 DEF Sums
  <2>3. g = [s \in SUBSET Bounties |-> IF s = {} THEN 0 ELSE Held(Chosen(s)) + g[s \ {Chosen(s)}]]
    BY <2>1, <2>2
  <2> QED BY <2>3 DEF Chosen
<1> DEFINE it == CHOOSE k : Eq(k)
<1>7. Eq(it)
  <2> HIDE DEF Eq
  <2> QED BY <1>6
<1>8. Unfolds(HeldOf, Bounties, it)
  <2> HIDE DEF it
  <2>1. \A s \in SUBSET Bounties :
          it[s] = IF s = {} THEN 0 ELSE Held(Chosen(s)) + it[s \ {Chosen(s)}]
    BY <1>7 DEF Chosen
  <2> HIDE DEF Eq
  <2> QED BY <2>1, <1>5 DEF Unfolds
<1> HIDE DEF it, Eq
<1>9. g[Bounties] = it[Bounties]
  BY <1>2, <1>4, <1>8, SumsAgree DEF Sums
<1>10. Total = it[Bounties]
  BY <1>1 DEF it
<1>11. g[Bounties] \in Int
  BY <1>4 DEF Sums
<1> QED BY <1>3, <1>4, <1>9, <1>10, <1>11 DEF Summed

\* The same of the next state.
LEMMA NextTotalIsSum == TypeOK' => Summed'
  BY TotalIsSum, PTL

\* When at most one bounty's part changes, the sum changes by as much.
LEMMA TotalMoves ==
  ASSUME TypeOK, TypeOK', NEW b \in Bounties, \A c \in Bounties \ {b} : Held(c)' = Held(c)
  PROVE  Total' = Total + Held(b)' - Held(b)
<1>1. IsFiniteSet(Bounties)
  BY BillingAssumption DEF BillingAssumption
<1>2. PICK g : Sums(HeldOf, Bounties, g) /\ Total = g[Bounties]
  BY TotalIsSum DEF Summed
<1>3. PICK k : Sums(HeldOf', Bounties, k) /\ Total' = k[Bounties]
  BY NextTotalIsSum DEF Summed
<1>4. HeldOf \in [Bounties -> Int] /\ HeldOf' \in [Bounties -> Int]
  BY TotalIsSum, NextTotalIsSum DEF Summed
<1>5. \A c \in Bounties : HeldOf[c] = Held(c) /\ HeldOf'[c] = Held(c)'
  BY DEF HeldOf
<1>6. k[Bounties] = g[Bounties] + HeldOf'[b] - HeldOf[b]
  BY <1>1, <1>2, <1>3, <1>4, <1>5, SumMoves
<1> QED BY <1>2, <1>3, <1>5, <1>6

\* When none changes, neither does the sum.
LEMMA TotalStays ==
  ASSUME TypeOK, TypeOK', \A c \in Bounties : Held(c)' = Held(c)
  PROVE  Total' = Total
<1>1. IsFiniteSet(Bounties)
  BY BillingAssumption DEF BillingAssumption
<1>2. PICK g : Sums(HeldOf, Bounties, g) /\ Total = g[Bounties]
  BY TotalIsSum DEF Summed
<1>3. PICK k : Sums(HeldOf', Bounties, k) /\ Total' = k[Bounties]
  BY NextTotalIsSum DEF Summed
<1>4. HeldOf' = HeldOf
  BY DEF HeldOf
<1> QED BY <1>1, <1>2, <1>3, <1>4, SumsAgree DEF Sums

-----------------------------------------------------------------------------
(* Steps that conserve *)

Amounts == balance \in Int /\ Deposits \in Int /\ Total \in Int /\ Refunds \in Int

LEMMA MoneyTypes == TypeOK => Amounts
<1> SUFFICES ASSUME TypeOK PROVE Amounts
  OBVIOUS
<1>1. balance \in Int /\ Deposits \in Int /\ Refunds \in Int
  BY ConstantTypes DEF TypeOK, Deposits, Unbooked, Refunds
<1>2. Total \in Int
  BY TotalIsSum DEF Summed
<1> QED BY <1>1, <1>2 DEF Amounts

LEMMA NextMoneyTypes == TypeOK' => Amounts'
  BY MoneyTypes, PTL

\* Nothing moves: what comes in is in the balance.
LEMMA DepositConserves ==
  ASSUME TypeOK, TypeOK', Conserved, \A b \in Bounties : Held(b)' = Held(b),
         NEW cents \in Int, balance' = balance + cents, Deposits' + Refunds' = Deposits + Refunds + cents
  PROVE  Conserved'
<1>1. balance + Total = Deposits + Refunds
  BY DEF Conserved, Total, Refunds
<1>2. Total' = Total
  BY TotalStays
<1>3. Deposits' \in Int /\ Refunds' \in Int
  BY MoneyTypes, NextMoneyTypes DEF Amounts
<1>4. balance' + Total' = Deposits' + Refunds'
  BY <1>1, <1>2, <1>3, MoneyTypes DEF Amounts
<1> QED BY <1>4 DEF Conserved, Total, Refunds

\* Money that goes from the balance to one bounty, or back.
LEMMA TransferConserves ==
  ASSUME TypeOK, TypeOK', Conserved, NEW b \in Bounties, \A c \in Bounties \ {b} : Held(c)' = Held(c),
         NEW cents \in Int, Held(b)' = Held(b) + cents,
         balance' = balance - cents, Deposits' = Deposits, Refunds' = Refunds
  PROVE  Conserved'
<1>1. balance + Total = Deposits + Refunds
  BY DEF Conserved, Total, Refunds
<1>2. Held(b) \in Int
  BY HeldIs
<1>3. Total' = Total + cents
  BY <1>2, TotalMoves, MoneyTypes DEF Amounts
<1>4. balance' + Total' = Deposits' + Refunds'
  BY <1>1, <1>2, <1>3, MoneyTypes DEF Amounts
<1> QED BY <1>4 DEF Conserved, Total, Refunds

\* A payout made after the release is uncovered from its first moment; before it, the whole
\* reservation is held whatever the payouts.
LEMMA WorkHolds ==
  ASSUME TypeOK, TypeOK', NEW b \in Bounties, Pass(b) \/ Work(b) \/ Settle(b) \/ DisputeRefund(b)
  PROVE  \A c \in Bounties : Held(c)' = Held(c)
<1>1. reservation' = reservation
  BY DEF Pass, Work, Settle, DisputeRefund
<1>2. CASE Pass(b)
  <2>1. ASSUME NEW c \in Bounties, c # b PROVE Held(c)' = Held(c)
    <3>1. work'[c] = work[c] /\ uncovered'[c] = uncovered[c]
      BY <1>2, <2>1, PassIs DEF Works
    <3> QED BY <1>1, <3>1, HeldSame DEF Payouts
  <2>2. Held(b)' = Held(b)
    <3>1. reservation[b] = "released" => Payouts(b)' = Payouts(b) + 1 /\ uncovered'[b] = uncovered[b] + 1
      BY <1>2, PassIs DEF Works
    <3>2. reservation[b] = "released" => Payouts(b)' - uncovered'[b] = Payouts(b) - uncovered[b]
      BY <3>1, WorkTypes
    <3> QED BY <1>1, <3>2, HeldSame
  <2> QED BY <2>1, <2>2
<1>3. CASE Work(b) \/ Settle(b) \/ DisputeRefund(b)
  <2>1. uncovered' = uncovered
    BY <1>3 DEF Work, Settle, DisputeRefund, history
  <2>2. Works(b, 0)
    BY <1>3, WorkIs, SettleIs, MoveIs DEF DisputeRefund, Statuses
  <2>3. Payouts(b)' = Payouts(b)
    BY <2>2, WorkTypes DEF Works
  <2>4. \A c \in Bounties \ {b} : Payouts(c)' = Payouts(c)
    BY <2>2 DEF Works, Payouts
  <2> QED BY <1>1, <2>1, <2>3, <2>4, HeldSame
<1> QED BY <1>2, <1>3

\* What is debited is held for the bounty.
LEMMA DebitConserves ==
  ASSUME TypeOK, TypeOK', Conserved, NEW r \in Requests, Debit(r)
  PROVE  Conserved'
<1>1. PICK b \in Bounties : b = pub[r].bounty
  BY Progress DEF Debit, Debiting
<1>2. /\ reservation[b] = "none" /\ reservation' = [reservation EXCEPT ![b] = "active"]
      /\ work' = [work EXCEPT ![b].open = Jobs[b]]
      /\ Book("reserve", -Reserve(b)) /\ UNCHANGED <<topup, uncovered>>
  BY <1>1 DEF Debit, Publishes, history
<1>3. ASSUME NEW c \in Bounties \ {b} PROVE Held(c)' = Held(c)
  <2>1. reservation'[c] = reservation[c] /\ work'[c] = work[c]
    BY <1>2 DEF TypeOK
  <2> QED BY <1>2, <2>1, HeldSame DEF Payouts
<1>4. Held(b)' = Held(b) + Reserve(b)
  <2>1. reservation'[b] = "active" /\ Reserve(b)' = Reserve(b)
    BY <1>2 DEF TypeOK, Reserve
  <2>2. Held(b)' = Reserve(b)'
    BY <2>1 DEF Held
  <2>3. Held(b) = 0 /\ Reserve(b) \in Int
    BY <1>2, HeldIs
  <2> QED BY <2>1, <2>2, <2>3
<1>5. balance' = balance - Reserve(b) /\ Reserve(b) \in Int /\ Deposits' = Deposits /\ Refunds' = Refunds
  BY <1>1, <1>2, ReserveIsNat, MoneyTypes DEF Book, Deposits, Unbooked, Refunds, TypeOK, Amounts
<1> QED BY <1>3, <1>4, <1>5, TransferConserves

\* What is given back is no longer held; what the payouts take still is.
LEMMA CloseConserves ==
  ASSUME TypeOK, TypeOK', Covered, Conserved, NEW b \in Bounties, Close(b), reservation[b] = "active"
  PROVE  Conserved'
<1>1. /\ reservation' = [reservation EXCEPT ![b] = "released"] /\ Book("release", Remaining(b))
      /\ UNCHANGED <<work, topup, uncovered>>
  BY DEF Close, history
<1>2. \A c \in Bounties \ {b} : Held(c)' = Held(c)
  <2>1. \A c \in Bounties \ {b} : reservation'[c] = reservation[c] /\ Payouts(c)' = Payouts(c)
    BY <1>1 DEF TypeOK, Payouts
  <2> QED BY <1>1, <2>1, HeldSame
<1>3. Held(b)' = Held(b) + (0 - Remaining(b)) /\ Remaining(b) \in Int
  <2>1. reservation'[b] = "released" /\ Payouts(b)' = Payouts(b) /\ Reserve(b)' = Reserve(b)
    BY <1>1 DEF TypeOK, Payouts, Reserve
  <2>2. uncovered[b] = 0 /\ uncovered'[b] = 0
    BY <1>1 DEF Covered
  <2>3. Payouts(b)' - uncovered'[b] = Payouts(b)
    BY <2>1, <2>2, WorkTypes
  <2>4. Held(b)' = Min({Reserve(b), Payout * Payouts(b)})
    BY <2>1, <2>3 DEF Held
  <2>5. Held(b) = Reserve(b) /\ Reserve(b) \in Int
    BY HeldIs
  <2>6. Min({Reserve(b), Payout * Payouts(b)}) \in Int
    BY <2>5, WorkTypes, MinOfTwo
  <2> DEFINE m == Min({Reserve(b), Payout * Payouts(b)})
  <2>7. Remaining(b) = Reserve(b) - m /\ Remaining(b) \in Int
    BY RemainingIs
  <2> HIDE DEF m
  <2> QED BY <2>4, <2>5, <2>6, <2>7 DEF m
<1>4. balance' = balance - (0 - Remaining(b)) /\ Deposits' = Deposits /\ Refunds' = Refunds
  BY <1>1, <1>3, MoneyTypes DEF Book, Deposits, Unbooked, Refunds, TypeOK, Amounts
<1>5. 0 - Remaining(b) \in Int
  BY <1>3
<1> QED BY <1>2, <1>3, <1>4, <1>5, TransferConserves

LEMMA CoveredStep == TypeOK /\ Covered /\ [Next]_vars => Covered'
<1> SUFFICES ASSUME TypeOK, Covered, [Next]_vars PROVE Covered'
  OBVIOUS
<1>1. ASSUME UNCHANGED uncovered,
             \A b \in Bounties : reservation[b] = "released" => reservation'[b] = "released"
      PROVE  Covered'
  BY <1>1 DEF Covered
<1>2. ASSUME NEW b \in Bounties, Pass(b) PROVE Covered'
  <2>1. reservation' = reservation
    BY <1>2 DEF Pass
  <2>2. \A c \in Bounties : reservation[c] # "released" => uncovered'[c] = uncovered[c]
    BY <1>2, PassIs
  <2> QED BY <2>1, <2>2 DEF Covered
<1>3. ASSUME NEW r \in Requests, Debit(r) PROVE Covered'
  <2>1. PICK b \in Bounties : b = pub[r].bounty
    BY <1>3, Progress DEF Debit, Debiting
  <2>2. reservation[b] = "none" /\ reservation' = [reservation EXCEPT ![b] = "active"] /\ UNCHANGED uncovered
    BY <1>3, <2>1 DEF Debit, Publishes, history
  <2> QED BY <1>1, <2>2 DEF TypeOK
<1>4. ASSUME NEW b \in Bounties, Close(b) PROVE Covered'
  <2>1. UNCHANGED uncovered
    BY <1>4 DEF Close
  <2>2. reservation' = [reservation EXCEPT ![b] = "released"] \/ reservation' = reservation
    BY <1>4 DEF Close
  <2> QED BY <1>1, <2>1, <2>2 DEF TypeOK
<1>5. CASE UNCHANGED <<uncovered, reservation>>
  BY <1>1, <1>5
<1>6. ASSUME NEW r \in Requests, PublishStep(r), ~Debit(r) PROVE Covered'
  BY <1>5, <1>6 DEF PublishStep, AskToPublish, ReadForPublish, Republish, GiveUpPublish, history
<1>7. ASSUME NEW b \in Bounties, CreateBounty(b) \/ Pause(b) \/ Work(b) \/ Settle(b) \/ DisputeRefund(b)
      PROVE  Covered'
  BY <1>5, <1>7 DEF CreateBounty, Pause, Work, Settle, DisputeRefund, history
<1>8. CASE SetQuotas \/ Midnight \/ TopupStep \/ OriginStep \/ UNCHANGED vars
  BY <1>5, <1>8 DEF SetQuotas, Midnight, TopupStep, Checkout, Pay, HookStep, HookReceives, HookCredits,
     HookDrops, AdminTopupCredits, AdminTopupBooks, OriginStep, history, vars
<1> QED BY <1>2, <1>3, <1>4, <1>6, <1>7, <1>8 DEF Next, BountyStep, JobStep

LEMMA ConservedStep == TypeOK /\ TypeOK' /\ Covered /\ Conserved /\ [Next]_vars => Conserved'
<1> SUFFICES ASSUME TypeOK, TypeOK', Covered, Conserved, [Next]_vars PROVE Conserved'
  OBVIOUS
<1>1. balance \in Int /\ Deposits \in Int /\ Refunds \in Int
  BY MoneyTypes DEF Amounts
<1>2. ASSUME UNCHANGED <<reservation, work, uncovered>> PROVE \A b \in Bounties : Held(b)' = Held(b)
  BY <1>2, HeldSame DEF Payouts
<1>3. ASSUME UNCHANGED <<reservation, work, uncovered, balance, ledger, topup>> PROVE Conserved'
  <2>1. balance' = balance + 0 /\ Deposits' + Refunds' = Deposits + Refunds + 0
    BY <1>1, <1>3 DEF Deposits, Unbooked, Refunds
  <2> QED BY <1>2, <1>3, <2>1, DepositConserves
<1>4. ASSUME NEW b \in Bounties, Pass(b) \/ Work(b) \/ Settle(b) PROVE Conserved'
  <2>1. UNCHANGED <<balance, ledger, topup>>
    BY <1>4 DEF Pass, Work, Settle, accounts
  <2>2. balance' = balance + 0 /\ Deposits' + Refunds' = Deposits + Refunds + 0
    BY <1>1, <2>1 DEF Deposits, Unbooked, Refunds
  <2> QED BY <1>4, <2>2, WorkHolds, DepositConserves
<1>5. ASSUME NEW b \in Bounties, DisputeRefund(b) PROVE Conserved'
  <2>1. balance' = balance + Refund /\ Deposits' = Deposits /\ Refunds' = Refunds + Refund /\ Refund \in Int
    BY <1>5, RefundIsPart DEF DisputeRefund, Book, Deposits, Unbooked, Refunds, TypeOK
  <2>2. Deposits' + Refunds' = Deposits + Refunds + Refund
    BY <1>1, <2>1
  <2> QED BY <1>5, <2>1, <2>2, WorkHolds, DepositConserves
<1>6. ASSUME NEW r \in Requests, PublishStep(r) PROVE Conserved'
  <2>1. CASE ~Debit(r)
    BY <1>3, <1>6, <2>1 DEF PublishStep, AskToPublish, ReadForPublish, Republish, GiveUpPublish, accounts, history
  <2> QED BY <2>1, DebitConserves
<1>7. CASE BountyStep
  <2>1. ASSUME NEW b \in Bounties, Close(b), reservation[b] # "active" PROVE Conserved'
    BY <1>3, <2>1 DEF Close, accounts, history
  <2>2. ASSUME NEW b \in Bounties, CreateBounty(b) \/ Pause(b) PROVE Conserved'
    BY <1>3, <2>2 DEF CreateBounty, Pause, accounts, history
  <2> QED BY <1>7, <2>1, <2>2, CloseConserves DEF BountyStep
<1>10. ASSUME UNCHANGED <<reservation, work, uncovered>>, NEW cents \in Int, balance' = balance + cents,
              Deposits' = Deposits + cents, Refunds' = Refunds
       PROVE  Conserved'
  <2>1. Deposits' + Refunds' = Deposits + Refunds + cents
    BY <1>1, <1>10
  <2> QED BY <1>2, <1>10, <2>1, DepositConserves
<1>8. CASE TopupStep
  <2>1. CASE HookCredits
    <3>1. balance' = balance + StripeTopup /\ Deposits' = Deposits + StripeTopup /\ Refunds' = Refunds
      <4>1. /\ balance' = balance + StripeTopup /\ topup' = topup
            /\ ledger' = [ledger EXCEPT !["stripe_topup"] = @ + StripeTopup]
        BY <2>1 DEF HookCredits, Book
      <4>2. /\ ledger'.stripe_topup = ledger.stripe_topup + StripeTopup
            /\ ledger'.admin_topup = ledger.admin_topup /\ ledger'.dispute_refund = ledger.dispute_refund
        BY <4>1 DEF TypeOK
      <4>3. ledger.stripe_topup \in Int /\ ledger.admin_topup \in Int /\ Unbooked \in Int /\ Unbooked' = Unbooked
        BY <4>1, ConstantTypes DEF TypeOK, Unbooked
      <4> QED BY <4>1, <4>2, <4>3, ConstantTypes DEF Deposits, Refunds
    <3>2. UNCHANGED <<reservation, work, uncovered>> /\ StripeTopup \in Int
      BY <2>1, ConstantTypes DEF HookCredits, history
    <3> QED BY <3>1, <3>2, <1>10
  <2>2. CASE AdminTopupCredits
    <3>1. balance' = balance + AdminTopup /\ Deposits' = Deposits + AdminTopup /\ Refunds' = Refunds
      BY <2>2, ConstantTypes DEF AdminTopupCredits, Deposits, Unbooked, Refunds, TypeOK
    <3>2. UNCHANGED <<reservation, work, uncovered>> /\ AdminTopup \in Int
      BY <2>2, ConstantTypes DEF AdminTopupCredits, history
    <3> QED BY <3>1, <3>2, <1>10
  <2>3. CASE AdminTopupBooks
    <3>1. balance' = balance + 0 /\ Deposits' = Deposits + 0 /\ Refunds' = Refunds
      BY <1>1, <2>3, ConstantTypes DEF AdminTopupBooks, Deposits, Unbooked, Refunds, TypeOK
    <3>2. UNCHANGED <<reservation, work, uncovered>>
      BY <2>3 DEF AdminTopupBooks, history
    <3> QED BY <3>1, <3>2, <1>10
  <2>4. CASE Checkout \/ Pay \/ HookReceives \/ HookDrops
    BY <1>3, <2>4 DEF Checkout, Pay, HookReceives, HookDrops, accounts, history
  <2> QED BY <1>8, <2>1, <2>2, <2>3, <2>4 DEF TopupStep, HookStep
<1>9. CASE SetQuotas \/ Midnight \/ OriginStep \/ UNCHANGED vars
  BY <1>3, <1>9 DEF SetQuotas, Midnight, OriginStep, accounts, history, vars
<1> QED BY <1>4, <1>5, <1>6, <1>7, <1>8, <1>9 DEF Next, JobStep

LEMMA NothingYet == Init => Covered /\ Conserved
<1> SUFFICES ASSUME Init PROVE Covered /\ Conserved
  OBVIOUS
<1>1. TypeOK
  BY ConstantTypes DEF Init, TypeOK, OriginInit, OriginTypeOK, NoWork, Idle
<1>2. Covered
  BY DEF Init, Covered
<1>3. \A b \in Bounties : Held(b) = 0
  BY DEF Init, Held
<1>4. Total = 0
  <2> DEFINE zero == [s \in SUBSET Bounties |-> 0]
  <2>1. IsFiniteSet(Bounties)
    BY BillingAssumption DEF BillingAssumption
  <2>2. PICK g : Sums(HeldOf, Bounties, g) /\ Total = g[Bounties]
    BY <1>1, TotalIsSum DEF Summed
  <2>3. Unfolds(HeldOf, Bounties, zero)
    <3> SUFFICES ASSUME NEW s \in SUBSET Bounties, s # {}
                 PROVE  0 = HeldOf[Chosen(s)] + zero[s \ {Chosen(s)}]
      BY DEF Unfolds
    <3>1. Chosen(s) \in Bounties /\ HeldOf[Chosen(s)] = 0
      BY <1>3, ChosenIsIn DEF HeldOf
    <3> QED BY <3>1
  <2>4. zero[Bounties] = 0
    OBVIOUS
  <2> HIDE DEF zero
  <2>5. g[Bounties] = zero[Bounties]
    BY <2>1, <2>2, <2>3, SumsAgree DEF Sums
  <2> QED BY <2>2, <2>4, <2>5
<1> QED BY <1>2, <1>4 DEF Init, Conserved, Total, Deposits, Unbooked

\* Every cent deposited or refunded is in the balance or held for a bounty: for every set of
\* bounties, every payout, every rate and any order of publishing, closing, passing twice,
\* paying, marking and refunding.
THEOREM MoneyIsConserved == Spec => []Conserved
<1>1. TypeOK /\ Covered /\ Conserved /\ [Next]_vars => (TypeOK /\ Covered /\ Conserved)'
  BY TypeStep, CoveredStep, ConservedStep
<1>2. Init => TypeOK /\ Covered /\ Conserved
  BY NothingYet, ConstantTypes DEF Init, TypeOK, OriginInit, OriginTypeOK, NoWork, Idle
<1> QED
  BY <1>1, <1>2, PTL DEF Spec
=============================================================================
