---------------------------- MODULE ServiceProofs ----------------------------
(***************************************************************************)
(* Theorems about RateLimit, Migrations, Ingest, Nonces, WorkerPlugin and  *)
(* WorkerClient: each component's safety properties, for every number of   *)
(* callers, services, files, starts, runners, transfers, nodes, processes, *)
(* commands and jobs, for every rate, skew and size of a cache, from an    *)
(* inductive invariant; and about the module that composes them.           *)
(***************************************************************************)
EXTENDS MCServices, ArtifactProofs, NaturalsInduction, WellFoundedInduction, TLAPS

-----------------------------------------------------------------------------
(* The rate limiter *)

\* Nothing is stamped later than the fastest clock.
StampsArePast ==
  /\ \A c \in Callers : stamp[c] <= tick
  /\ updatedAt <= tick /\ opened <= tick

\* What is in the bucket and what was let through are together no more than what was put in.
TokensAreAccounted ==
  /\ Opened => tokens + admitted * Minute <= Full + PerMinute * (updatedAt - opened)
  /\ ~Opened => admitted = 0 /\ tokens = 0 /\ updatedAt = 0

\* A bucket that was set back to an earlier time lacks at most what flows in until now.
DebtIsBounded == tokens + PerMinute * (tick - updatedAt) >= 0

RateInv == RateTypeOK /\ StampsArePast /\ TokensAreAccounted /\ DebtIsBounded

\* Multiplication distributes, as the provers need to be told.
LEMMA Distributes ==
  ASSUME NEW n \in Int, NEW a \in Int, NEW b \in Int
  PROVE  n * (a + b) = n * a + n * b /\ n * (a - b) = n * a - n * b
  BY SMT

\* The bucket filled at a time holds at most what it held and what flowed in.
LEMMA FilledBounds ==
  ASSUME RateTypeOK, RateLimitAssumption, NEW now \in Times
  PROVE  /\ Filled(now) \in Int /\ Full \in Nat
         /\ Opened => \/ Filled(now) = Full /\ Full <= tokens + PerMinute * (now - updatedAt)
                      \/ Filled(now) = tokens + PerMinute * (now - updatedAt)
         /\ ~Opened => Filled(now) = Full
<1>1. /\ PerMinute \in Nat /\ Minute \in Nat /\ now \in Int /\ updatedAt \in Int /\ tokens \in Int
  BY DEF RateLimitAssumption, RateTypeOK, Times
<1>2. Full \in Nat
  BY <1>1 DEF Full
<1>3. PerMinute * (now - updatedAt) \in Int
  BY <1>1
<1> QED
  BY <1>1, <1>2, <1>3 DEF Filled, AtMost

LEMMA RateInitInv == RateLimitAssumption /\ RateInit => RateInv
<1> SUFFICES ASSUME RateLimitAssumption, RateInit PROVE RateInv
  OBVIOUS
<1> USE DEF RateInit
<1>1. RateTypeOK
  BY DEF RateTypeOK, RateLimitAssumption, Times, NoStamp
<1>2. StampsArePast
  BY DEF StampsArePast, NoStamp
<1>3. TokensAreAccounted
  BY DEF TokensAreAccounted, Opened
<1>4. DebtIsBounded
  BY DEF DebtIsBounded, RateLimitAssumption
<1> QED
  BY <1>1, <1>2, <1>3, <1>4 DEF RateInv

LEMMA RateDecideInv ==
  ASSUME RateLimitAssumption, RateInv, NEW c \in Callers, RateDecide(c)
  PROVE  RateInv'
<1> DEFINE now == stamp[c]
           filled == Filled(now)
<1> USE DEF RateInv
<1>1. /\ now \in Times /\ now <= tick /\ now \in Int /\ tick \in Int /\ updatedAt \in Int
      /\ opened \in Int /\ tokens \in Int /\ admitted \in Int /\ PerMinute \in Nat /\ Minute \in Nat
      /\ MaxAdmitted \in Nat
  BY DEF RateDecide, RateTypeOK, RateLimitAssumption, StampsArePast, Times, NoStamp
<1>2. /\ filled \in Int /\ Full \in Nat
      /\ Opened => \/ filled = Full /\ Full <= tokens + PerMinute * (now - updatedAt)
                   \/ filled = tokens + PerMinute * (now - updatedAt)
      /\ ~Opened => filled = Full
  BY <1>1, FilledBounds
<1>3. /\ updatedAt' = now /\ tick' = tick /\ stamp' = [stamp EXCEPT ![c] = NoStamp]
      /\ opened' = IF Opened THEN opened ELSE now
      /\ \/ filled < Minute /\ tokens' = filled /\ admitted' = admitted
         \/ filled >= Minute /\ tokens' = filled - Minute /\ admitted' = admitted + 1
      /\ admitted < MaxAdmitted
  BY DEF RateDecide
<1> HIDE DEF now, filled
<1>4. tokens' \in Int /\ admitted' \in 0 .. MaxAdmitted
  BY <1>1, <1>2, <1>3 DEF RateTypeOK
<1>5. RateTypeOK'
  BY <1>1, <1>3, <1>4 DEF RateTypeOK
<1>6. StampsArePast'
  BY <1>1, <1>3 DEF StampsArePast, RateTypeOK, NoStamp, Times
<1>7. tokens' + admitted' * Minute = filled + admitted * Minute
  <2>1. (admitted + 1) * Minute = admitted * Minute + Minute /\ admitted * Minute \in Int
    BY <1>1, Distributes
  <2> QED
    BY <1>1, <1>2, <1>3, <2>1
<1>8. Opened'
  BY <1>1, <1>3 DEF Opened, NoStamp, Times
<1>9. TokensAreAccounted'
  <2>1. CASE Opened
    <3>1. opened' = opened
      BY <2>1, <1>3
    <3>2. PerMinute * (now - opened) = PerMinute * (now - updatedAt) + PerMinute * (updatedAt - opened)
      <4>1. now - opened = (now - updatedAt) + (updatedAt - opened)
        BY <1>1
      <4>2. PerMinute \in Int /\ now - updatedAt \in Int /\ updatedAt - opened \in Int
        BY <1>1
      <4> QED
        BY <4>1, <4>2, Distributes
    <3>3. tokens + admitted * Minute <= Full + PerMinute * (updatedAt - opened)
      BY <2>1 DEF TokensAreAccounted
    <3>4. filled <= tokens + PerMinute * (now - updatedAt)
      BY <2>1, <1>2, <1>1
    <3>5. /\ admitted * Minute \in Int /\ PerMinute * (now - updatedAt) \in Int
          /\ PerMinute * (updatedAt - opened) \in Int
      BY <1>1
    <3>6. filled + admitted * Minute <= Full + PerMinute * (now - opened)
      BY <1>1, <1>2, <3>2, <3>3, <3>4, <3>5
    <3> QED
      BY <3>1, <3>6, <1>3, <1>7, <1>8 DEF TokensAreAccounted, Full
  <2>2. CASE ~Opened
    <3>1. opened' = now /\ filled = Full /\ admitted = 0
      BY <2>2, <1>2, <1>3 DEF TokensAreAccounted
    <3>2. now - now = 0 /\ PerMinute * 0 = 0 /\ 0 * Minute = 0
      BY <1>1
    <3>3. tokens' + admitted' * Minute = Full
      BY <3>1, <3>2, <1>2, <1>7
    <3>4. Full' + PerMinute * (updatedAt' - opened') = Full
      BY <3>1, <3>2, <1>2, <1>3 DEF Full
    <3> QED
      BY <3>3, <3>4, <1>2, <1>8 DEF TokensAreAccounted
  <2> QED
    BY <2>1, <2>2
<1>10. DebtIsBounded'
  <2>1. PerMinute * (tick - now) \in Nat
    BY <1>1
  <2>2. CASE tokens' >= 0
    BY <2>1, <2>2, <1>3, <1>4 DEF DebtIsBounded
  <2>3. CASE tokens' < 0
    <3>1. tokens' = filled
      BY <2>3, <1>1, <1>2, <1>3
    <3>2. filled = tokens + PerMinute * (now - updatedAt)
      BY <3>1, <2>3, <1>2
    <3>3. PerMinute * (tick - updatedAt) = PerMinute * (tick - now) + PerMinute * (now - updatedAt)
      <4>1. tick - updatedAt = (tick - now) + (now - updatedAt)
        BY <1>1
      <4>2. PerMinute \in Int /\ tick - now \in Int /\ now - updatedAt \in Int
        BY <1>1
      <4> QED
        BY <4>1, <4>2, Distributes
    <3>4. tokens + PerMinute * (tick - updatedAt) >= 0
      BY DEF DebtIsBounded
    <3>5. PerMinute * (now - updatedAt) \in Int
      BY <1>1
    <3> QED
      BY <3>1, <3>2, <3>3, <3>4, <3>5, <2>1, <1>1, <1>3 DEF DebtIsBounded
  <2> QED
    BY <2>2, <2>3, <1>4
<1> QED
  BY <1>5, <1>6, <1>9, <1>10

LEMMA RateStepInv ==
  ASSUME RateLimitAssumption, RateInv, [RateNext]_rateVars
  PROVE  RateInv'
<1>1. CASE RateTick
  <2> USE <1>1 DEF RateTick, RateInv
  <2>1. tick \in Int /\ tick' \in Times /\ tick' = tick + 1 /\ updatedAt \in Int /\ PerMinute \in Nat
    BY DEF RateTypeOK, Times, RateLimitAssumption
  <2>2. RateTypeOK'
    BY <2>1 DEF RateTypeOK
  <2>3. StampsArePast'
    BY <2>1 DEF StampsArePast, RateTypeOK, Times, NoStamp
  <2>4. TokensAreAccounted'
    BY DEF TokensAreAccounted, Opened, Full
  <2>5. DebtIsBounded'
    <3>1. PerMinute * (tick' - updatedAt) = PerMinute * (tick - updatedAt) + PerMinute * 1
      <4>1. tick' - updatedAt = (tick - updatedAt) + 1
        BY <2>1
      <4> QED
        BY <4>1, <2>1, Distributes
    <3>2. PerMinute * (tick - updatedAt) \in Int /\ PerMinute * 1 >= 0 /\ PerMinute * 1 \in Int
      BY <2>1
    <3> QED
      BY <3>1, <3>2 DEF DebtIsBounded, RateTypeOK
  <2> QED
    BY <2>2, <2>3, <2>4, <2>5
<1>2. ASSUME NEW c \in Callers, RateAsk(c) PROVE RateInv'
  <2> USE <1>2 DEF RateAsk, RateInv
  <2>1. PICK t \in Times : t <= tick /\ stamp' = [stamp EXCEPT ![c] = t]
    OBVIOUS
  <2>2. RateTypeOK'
    BY <2>1 DEF RateTypeOK
  <2>3. StampsArePast'
    BY <2>1 DEF StampsArePast, RateTypeOK
  <2>4. TokensAreAccounted' /\ DebtIsBounded'
    BY DEF TokensAreAccounted, DebtIsBounded, Opened, Full
  <2> QED
    BY <2>2, <2>3, <2>4
<1>3. ASSUME NEW c \in Callers, RateDecide(c) PROVE RateInv'
  BY <1>3, RateDecideInv
<1>4. ASSUME NEW c \in Callers, RateFails(c) PROVE RateInv'
  <2> USE <1>4 DEF RateFails, RateInv
  <2>1. RateTypeOK'
    BY DEF RateTypeOK
  <2>2. StampsArePast'
    BY DEF StampsArePast, RateTypeOK, Times, NoStamp
  <2>3. TokensAreAccounted' /\ DebtIsBounded'
    BY DEF TokensAreAccounted, DebtIsBounded, Opened, Full
  <2> QED
    BY <2>1, <2>2, <2>3
<1>5. CASE UNCHANGED rateVars
  BY <1>5 DEF rateVars, RateInv, RateTypeOK, StampsArePast, TokensAreAccounted, DebtIsBounded, Opened, Full
<1> QED
  BY <1>1, <1>2, <1>3, <1>4, <1>5 DEF RateNext

LEMMA RateInvLimits == RateLimitAssumption /\ RateInv => RateIsLimited
<1> SUFFICES ASSUME RateLimitAssumption, RateInv, Opened
             PROVE  admitted * Minute <= Full + PerMinute * (tick - opened)
  BY DEF RateIsLimited
<1>1. /\ tick \in Int /\ updatedAt \in Int /\ opened \in Int /\ tokens \in Int /\ admitted \in Int
      /\ PerMinute \in Int /\ Minute \in Int
  BY DEF RateInv, RateTypeOK, Times, NoStamp, RateLimitAssumption
<1>2. PerMinute * (tick - opened) = PerMinute * (tick - updatedAt) + PerMinute * (updatedAt - opened)
  <2>1. tick - opened = (tick - updatedAt) + (updatedAt - opened)
    BY <1>1
  <2>2. tick - updatedAt \in Int /\ updatedAt - opened \in Int
    BY <1>1
  <2> QED
    BY <2>1, <2>2, <1>1, Distributes
<1>3. /\ PerMinute * (tick - updatedAt) \in Int /\ PerMinute * (updatedAt - opened) \in Int
      /\ admitted * Minute \in Int /\ Full \in Int
  BY <1>1 DEF Full
<1> QED
  BY <1>1, <1>2, <1>3 DEF RateInv, TokensAreAccounted, DebtIsBounded

\* The limit holds for every rate and skew and any number of requests under way (rateLimit): times
\* that run backwards take from the bucket what they give back later.
THEOREM LimitIsKept == RateSpec => []RateIsLimited
<1>1. RateInit => RateInv
  BY RateInitInv, RateLimitAssumption
<1>2. RateInv /\ [RateNext]_rateVars => RateInv'
  BY RateStepInv, RateLimitAssumption
<1>3. RateInv => RateIsLimited
  BY RateInvLimits, RateLimitAssumption
<1> QED
  BY <1>1, <1>2, <1>3, PTL DEF RateSpec

-----------------------------------------------------------------------------
(* The migrations *)

\* The table records what was committed, once each.
RunsAreRecorded == \A f \in AllFiles : runs[f] = IF f \in applied THEN 1 ELSE 0

\* What a service takes for applied is applied, and all of it once the service is up.
PastIsApplied ==
  \A s \in Services : past[s] \subseteq applied /\ (boot[s] = "up" => Files[s] \subseteq past[s])

\* A file somebody is at is not applied and nobody else's, and those before it are past.
ClaimsAreSound ==
  \A s \in Services : claims[s] # Nothing =>
    /\ boot[s] = "migrating"
    /\ claims[s] \in Files[s] \ applied
    /\ \A t \in Services : claims[t] = claims[s] => t = s
    /\ \A f \in Files[s] : f < claims[s] => f \in past[s]

MigrationInv == MigrationTypeOK /\ RunsAreRecorded /\ PastIsApplied /\ ClaimsAreSound

LEMMA FilesAreNumbered ==
  ASSUME MigrationAssumption
  PROVE  /\ AllFiles \subseteq Nat \ {0}
         /\ \A s \in Services : Files[s] \subseteq AllFiles
  BY DEF MigrationAssumption, AllFiles

LEMMA MigrationInitInv ==
  ASSUME MigrationAssumption, MigrationInit
  PROVE  MigrationInv
<1> USE DEF MigrationInit
<1>1. MigrationTypeOK
  BY DEF MigrationTypeOK, MigrationAssumption, Nothing
<1>2. RunsAreRecorded
  BY DEF RunsAreRecorded
<1>3. PastIsApplied
  BY DEF PastIsApplied
<1>4. ClaimsAreSound
  BY DEF ClaimsAreSound
<1> QED
  BY <1>1, <1>2, <1>3, <1>4 DEF MigrationInv

LEMMA ClaimFileInv ==
  ASSUME MigrationAssumption, MigrationInv, NEW s \in Services, NEW f \in Files[s], ClaimFile(s, f)
  PROVE  MigrationInv'
<1> USE DEF MigrationInv, ClaimFile
<1>1. f \in AllFiles /\ f # Nothing /\ f \in Nat
  BY FilesAreNumbered DEF Nothing
<1>2. MigrationTypeOK'
  BY <1>1 DEF MigrationTypeOK
<1>3. RunsAreRecorded' /\ PastIsApplied'
  BY DEF RunsAreRecorded, PastIsApplied
<1>4. \A g \in Files[s] : g < f => g \in past[s]
  <2>1. SUFFICES ASSUME NEW g \in Files[s], g < f, g \in Todo(s) PROVE FALSE
    BY DEF Todo
  <2>2. f <= g /\ g \in Nat
    BY <2>1, FilesAreNumbered DEF IsNextFile
  <2> QED
    BY <2>1, <2>2, <1>1
<1>5. /\ claims' = [claims EXCEPT ![s] = f] /\ claims \in [Services -> AllFiles \cup {Nothing}]
      /\ \A t \in Services : claims[t] # f
  BY DEF MigrationTypeOK, MayClaim
<1>6. ClaimsAreSound'
  <2> SUFFICES ASSUME NEW t \in Services, claims'[t] # Nothing
               PROVE  /\ boot[t] = "migrating"
                      /\ claims'[t] \in Files[t] \ applied
                      /\ \A u \in Services : claims'[u] = claims'[t] => u = t
                      /\ \A g \in Files[t] : g < claims'[t] => g \in past[t]
    BY DEF ClaimsAreSound
  <2>1. CASE t = s
    BY <2>1, <1>4, <1>5
  <2>2. CASE t # s
    BY <2>2, <1>5 DEF ClaimsAreSound
  <2> QED
    BY <2>1, <2>2
<1> QED
  BY <1>2, <1>3, <1>6

LEMMA CommitFileInv ==
  ASSUME MigrationAssumption, MigrationInv, NEW s \in Services, CommitFile(s)
  PROVE  MigrationInv'
<1> DEFINE f == claims[s]
<1> USE DEF MigrationInv, CommitFile
<1>1. /\ f \in AllFiles /\ f # Nothing /\ f \notin applied
      /\ \A t \in Services : claims[t] = f => t = s
  BY FilesAreNumbered DEF ClaimsAreSound
<1>2. /\ applied' = applied \cup {f} /\ runs' = [runs EXCEPT ![f] = @ + 1]
      /\ past' = [past EXCEPT ![s] = @ \cup {f}] /\ claims' = [claims EXCEPT ![s] = Nothing]
      /\ boot' = boot /\ starts' = starts
  OBVIOUS
<1>3. /\ claims \in [Services -> AllFiles \cup {Nothing}] /\ past \in [Services -> SUBSET AllFiles]
      /\ runs \in [AllFiles -> Nat] /\ applied \subseteq AllFiles
  BY DEF MigrationTypeOK
<1> HIDE DEF f
<1>4. MigrationTypeOK'
  BY <1>1, <1>2, <1>3 DEF MigrationTypeOK
<1>5. RunsAreRecorded'
  BY <1>1, <1>2, <1>3 DEF RunsAreRecorded
<1>6. PastIsApplied'
  BY <1>1, <1>2, <1>3 DEF PastIsApplied
<1>7. ClaimsAreSound'
  <2> SUFFICES ASSUME NEW t \in Services, claims'[t] # Nothing
               PROVE  /\ boot'[t] = "migrating"
                      /\ claims'[t] \in Files[t] \ applied'
                      /\ \A u \in Services : claims'[u] = claims'[t] => u = t
                      /\ \A g \in Files[t] : g < claims'[t] => g \in past'[t]
    BY DEF ClaimsAreSound
  <2>1. t # s /\ claims'[t] = claims[t] /\ claims[t] # f
    BY <1>1, <1>2, <1>3
  <2>2. /\ boot[t] = "migrating" /\ claims[t] \in Files[t] \ applied
        /\ \A u \in Services : claims[u] = claims[t] => u = t
        /\ \A g \in Files[t] : g < claims[t] => g \in past[t]
    BY <2>1 DEF ClaimsAreSound
  <2> QED
    BY <2>1, <2>2, <1>2, <1>3
<1> QED
  BY <1>4, <1>5, <1>6, <1>7

\* The steps that neither claim nor commit.
LEMMA OtherStepsInv ==
  ASSUME MigrationAssumption, MigrationInv, NEW s \in Services,
         \/ BootService(s) \/ ReadApplied(s) \/ BootFails(s) \/ ServiceIsUp(s)
         \/ \E f \in Files[s] : SkipFile(s, f)
  PROVE  MigrationInv'
<1>1. CASE BootService(s)
  BY <1>1 DEF BootService, MigrationInv, MigrationTypeOK, RunsAreRecorded, PastIsApplied, ClaimsAreSound,
              MigrationAssumption
<1>2. CASE ReadApplied(s)
  BY <1>2 DEF ReadApplied, MigrationInv, MigrationTypeOK, RunsAreRecorded, PastIsApplied, ClaimsAreSound
<1>3. CASE BootFails(s)
  BY <1>3 DEF BootFails, MigrationInv, MigrationTypeOK, RunsAreRecorded, PastIsApplied, ClaimsAreSound
<1>4. CASE ServiceIsUp(s)
  BY <1>4 DEF ServiceIsUp, Todo, MigrationInv, MigrationTypeOK, RunsAreRecorded, PastIsApplied,
              ClaimsAreSound
<1>5. ASSUME NEW f \in Files[s], SkipFile(s, f) PROVE MigrationInv'
  <2>1. f \in AllFiles
    BY FilesAreNumbered
  <2> QED
    BY <1>5, <2>1 DEF SkipFile, MigrationInv, MigrationTypeOK, RunsAreRecorded, PastIsApplied, ClaimsAreSound
<1> QED
  BY <1>1, <1>2, <1>3, <1>4, <1>5

LEMMA MigrationStepInv ==
  ASSUME MigrationAssumption, MigrationInv, [MigrationNext]_migrationVars
  PROVE  MigrationInv'
<1>1. CASE UNCHANGED migrationVars
  BY <1>1 DEF migrationVars, MigrationInv, MigrationTypeOK, RunsAreRecorded, PastIsApplied, ClaimsAreSound
<1>2. ASSUME NEW s \in Services, MigrationStep(s) PROVE MigrationInv'
  BY <1>2, ClaimFileInv, CommitFileInv, OtherStepsInv DEF MigrationStep
<1> QED
  BY <1>1, <1>2 DEF MigrationNext

\* Each migration is committed once and after those before it, and a service that is up has all of
\* its release, for any number of services, releases, files and restarts (runMigrations).
THEOREM MigrationsRunOnce == MigrationSpec => []MigratedOnceInOrder
<1>1. MigrationInit => MigrationInv
  BY MigrationInitInv, MigrationAssumption
<1>2. MigrationInv /\ [MigrationNext]_migrationVars => MigrationInv'
  BY MigrationStepInv, MigrationAssumption
<1>3. MigrationInv => MigratedOnceInOrder
  BY FilesAreNumbered, MigrationAssumption
     DEF MigrationInv, MigrationTypeOK, RunsAreRecorded, PastIsApplied, ClaimsAreSound, MigratedOnceInOrder
<1> QED
  BY <1>1, <1>2, <1>3, PTL DEF MigrationSpec

-----------------------------------------------------------------------------
(* The backfill *)

\* All events of the hours from the latest start up to this one were stored.
StoredUpTo(hour) ==
  \A h \in Hours, e \in 1 .. Parts : startHour <= h /\ h < hour => <<h, e>> \in rawEvents

\* Only hours that are over have files.
FilesArePast == published < hourNow /\ 1 <= hourNow

\* A call works on an hour before which nothing is missing, and has stored what it counted.
CallIsSound(r) ==
  /\ run[r].at \in {"create", "derive"} => 1 <= run[r].began
  /\ run[r].at \in {"fetch", "lines"} => run[r].hour \in Hours /\ StoredUpTo(run[r].hour)
  /\ run[r].at # "lines" => run[r].stored = 0
  /\ run[r].at = "lines" =>
       /\ run[r].hour <= published
       /\ \A e \in 1 .. run[r].stored : <<run[r].hour, e>> \in rawEvents

CallsAreSound == \A r \in Ingesters : CallIsSound(r)

IngestInv == IngestTypeOK /\ FilesArePast /\ CallsAreSound /\ BackfillHasNoGap

LEMMA IngestInitInv == IngestAssumption /\ IngestInit => IngestInv
  BY DEF IngestAssumption, IngestInit, IngestInv, IngestTypeOK, FilesArePast, CallsAreSound, CallIsSound,
         BackfillHasNoGap, Waiting, Hours, NoHour, NoSource

\* The clock and the archive.
LEMMA ClockInv ==
  ASSUME IngestAssumption, IngestInv, HourPasses \/ ArchivePublishes
  PROVE  IngestInv'
  BY DEF IngestAssumption, HourPasses, ArchivePublishes, IngestInv, IngestTypeOK, FilesArePast, CallsAreSound,
         CallIsSound, StoredUpTo, BackfillHasNoGap, Hours, NoHour, NoSource

LEMMA CallInv ==
  ASSUME IngestAssumption, IngestInv, NEW r \in Ingesters,
         \/ IngestPolls(r) \/ CreateSource(r) \/ DeriveHour(r) \/ Fetches(r)
         \/ StoreEvent(r) \/ AdvanceCursor(r) \/ IngestFails(r)
  PROVE  IngestInv'
<1> USE DEF IngestAssumption, IngestInv, IngestTypeOK, FilesArePast, CallsAreSound, CallIsSound, Hours
<1>1. CASE IngestPolls(r)
  BY <1>1 DEF IngestPolls, StoredUpTo, BackfillHasNoGap, NoHour, NoSource
<1>2. CASE CreateSource(r)
  BY <1>2 DEF CreateSource, StoredUpTo, BackfillHasNoGap, NoHour, NoSource
<1>3. CASE DeriveHour(r)
  BY <1>3 DEF DeriveHour, StoredUpTo, BackfillHasNoGap, Waiting, NoHour, NoSource
<1>4. CASE Fetches(r)
  <2>1. CASE run[r].hour <= published
    <3>1. run' = [run EXCEPT ![r] = [run[r] EXCEPT !.at = "lines"]] /\ run[r].at = "fetch"
      BY <1>4, <2>1 DEF Fetches
    <3>2. run'[r].at = "lines" /\ run'[r].hour = run[r].hour /\ run'[r].stored = run[r].stored
      BY <3>1
    <3>3. run[r].stored = 0
      BY <1>4 DEF Fetches
    <3> QED
      BY <1>4, <2>1, <3>1, <3>2, <3>3 DEF Fetches, StoredUpTo, BackfillHasNoGap
  <2>2. CASE ~(run[r].hour <= published)
    BY <1>4, <2>2 DEF Fetches, StoredUpTo, BackfillHasNoGap, Waiting, NoHour, NoSource
  <2> QED
    BY <2>1, <2>2
<1>5. CASE StoreEvent(r)
  <2>1. /\ run[r].at = "lines" /\ run[r].stored < Parts
        /\ rawEvents' = rawEvents \cup {<<run[r].hour, run[r].stored + 1>>}
        /\ run' = [run EXCEPT ![r].stored = run[r].stored + 1]
        /\ UNCHANGED <<hourNow, published, nextHour, startHour>>
    BY <1>5 DEF StoreEvent
  <2>2. run[r].hour \in Hours /\ run[r].stored \in 0 .. Parts
    BY <2>1
  <2>3. IngestTypeOK' /\ FilesArePast'
    BY <2>1, <2>2
  <2>4. BackfillHasNoGap'
    BY <2>1 DEF BackfillHasNoGap
  <2>5. CallsAreSound'
    <3> SUFFICES ASSUME NEW c \in Ingesters PROVE CallIsSound(c)'
      BY DEF CallsAreSound
    <3>1. CASE c # r
      BY <2>1, <2>2, <3>1 DEF StoredUpTo
    <3>2. CASE c = r
      <4>1. /\ run'[r].at = run[r].at /\ run'[r].hour = run[r].hour
            /\ run'[r].began = run[r].began /\ run'[r].stored = run[r].stored + 1
        BY <2>1
      <4> QED
        BY <2>1, <2>2, <3>2, <4>1 DEF StoredUpTo
    <3> QED
      BY <3>1, <3>2
  <2> QED
    BY <2>3, <2>4, <2>5
<1>6. CASE AdvanceCursor(r)
  BY <1>6 DEF AdvanceCursor, StoredUpTo, BackfillHasNoGap, Waiting, NoHour, NoSource
<1>7. CASE IngestFails(r)
  BY <1>7 DEF IngestFails, StoredUpTo, BackfillHasNoGap, Waiting, NoHour, NoSource
<1> QED
  BY <1>1, <1>2, <1>3, <1>4, <1>5, <1>6, <1>7

LEMMA IngestStepInv == IngestInv /\ [IngestNext]_ingestVars => IngestInv'
<1> SUFFICES ASSUME IngestInv, [IngestNext]_ingestVars PROVE IngestInv'
  OBVIOUS
<1>1. CASE UNCHANGED ingestVars
  BY <1>1 DEF ingestVars, IngestInv, IngestTypeOK, FilesArePast, CallsAreSound, CallIsSound, StoredUpTo,
              BackfillHasNoGap
<1>2. CASE IngestNext
  BY <1>2, ClockInv, CallInv, IngestAssumption DEF IngestNext
<1> QED
  BY <1>1, <1>2

\* The backfill leaves no gap, for any number of overlapping runners, of events in a file and of
\* hours (runGithubIngestOnce, which stores first and moves the cursor last).
THEOREM BackfillIsComplete == IngestSpec => []BackfillHasNoGap
<1>1. IngestInit => IngestInv
  BY IngestInitInv, IngestAssumption
<1>2. IngestInv => BackfillHasNoGap
  BY DEF IngestInv
<1> QED
  BY <1>1, IngestStepInv, <1>2, PTL DEF IngestSpec

-----------------------------------------------------------------------------
(* The nonces *)

\* A nonce counts as used by an attempt from the moment a node has its transfer.
Placed(t) == send[t].pc = "sent" \/ t \in recorded \/ \E n \in Nodes, k \in NonceValues : pool[n][k] = t

\* What a node holds was sent to some node, with this nonce.
PoolHoldsSent ==
  \A n \in Nodes, k \in NonceValues :
    pool[n][k] # NoTransfer =>
      send[pool[n][k]].nonce = k /\ send[pool[n][k]].pc \in {"sent", "over"}

\* An attempt that found a row holds its lock until it is over.
LockIsHeld ==
  \A t \in Transfers \ rivals : send[t].pc \in {"locked", "has_nonce", "sent"} => rowLock = t

RecordedIsOver == \A t \in recorded : send[t].pc = "over"

\* A nonce that was used stays known to some node.
UsedIsHeard == \A t \in Transfers : Placed(t) => send[t].nonce \in HeardAnywhere

Clean == Transfers \ (rivals \cup lagged)

\* Two attempts that found a row, and asked a node that had heard of all, do not use the same nonce.
CleanDiffer ==
  \A t \in Clean, u \in Clean :
    t # u /\ Placed(u) /\ (Placed(t) \/ send[t].pc = "has_nonce") => send[t].nonce # send[u].nonce

NonceInv ==
  /\ NonceTypeOK /\ PoolHoldsSent /\ LockIsHeld /\ RecordedIsOver /\ UsedIsHeard /\ CleanDiffer

\* The pending nonce is one the node has nothing for.
LEMMA PendingIsFree ==
  ASSUME NonceTypeOK, NonceAssumption, NEW n \in Nodes
  PROVE  Pending(n) \in 0 .. MaxNonce + 1 /\ Pending(n) \notin Heard(n)
<1> DEFINE D == {k \in Nat : k \notin Heard(n)}
           R == OpToRel(<, Nat)
<1>1. MaxNonce \in Nat
  BY NonceAssumption DEF NonceAssumption
<1>2. Heard(n) \subseteq 0 .. MaxNonce
  BY DEF Heard, NonceValues
<1>3. MaxNonce + 1 \in D /\ D \subseteq Nat
  BY <1>1, <1>2
<1>4. PICK k \in D : \A m \in D : <<m, k>> \notin R
  <2>1. IsWellFoundedOn(R, Nat)
    BY NatLessThanWellFounded
  <2> HIDE DEF R, D
  <2> QED BY <1>3, <2>1, WFMin
<1>5. \A m \in Nat : m < k => m \in Heard(n)
  BY <1>4 DEF R, OpToRel
<1>6. k <= MaxNonce + 1 /\ k \in Nat /\ k \notin Heard(n)
  <2>1. k \in Nat /\ k \notin Heard(n)
    BY DEF D
  <2>2. MaxNonce + 1 \notin Heard(n)
    BY <1>1, <1>2
  <2> QED BY <2>1, <2>2, <1>1, <1>5
<1>7. k \in 0 .. MaxNonce + 1 /\ \A j \in 0 .. k - 1 : j \in Heard(n)
  BY <1>1, <1>5, <1>6
<1> HIDE DEF D, R
<1> QED BY <1>6, <1>7 DEF Pending

LEMMA NonceInitInv == NonceAssumption /\ NonceInit => NonceInv
<1> SUFFICES ASSUME NonceAssumption, NonceInit PROVE NonceInv
  OBVIOUS
<1> USE DEF NonceInit, NonceValues, Unsent
<1>1. NonceTypeOK
  <2>1. MaxNonce \in Nat
    BY DEF NonceAssumption
  <2> QED BY <2>1 DEF NonceTypeOK, NoRow
<1>2. PoolHoldsSent /\ LockIsHeld /\ RecordedIsOver
  BY DEF PoolHoldsSent, LockIsHeld, RecordedIsOver
<1>3. \A t \in Transfers : ~Placed(t)
  BY DEF Placed, NonceAssumption
<1>4. UsedIsHeard /\ CleanDiffer
  BY <1>3 DEF UsedIsHeard, CleanDiffer, Clean
<1> QED BY <1>1, <1>2, <1>4 DEF NonceInv

LEMMA NonceTypes ==
  ASSUME NonceAssumption, NonceTypeOK, [NonceNext]_nonceVars
  PROVE  NonceTypeOK'
<1> USE DEF NonceTypeOK
<1>1. MaxNonce \in Nat /\ NoRow = MaxNonce + 2
  BY NonceAssumption DEF NonceAssumption, NoRow
<1>2. ASSUME NEW t \in Transfers, SelectRow(t) PROVE NonceTypeOK'
  BY <1>2 DEF SelectRow, SendGoes
<1>3. ASSUME NEW t \in Transfers, AskNonce(t) PROVE NonceTypeOK'
  <2>1. PICK n \in Nodes :
          /\ Pending(n) <= MaxNonce
          /\ send' = [send EXCEPT ![t] = [pc |-> "has_nonce", nonce |-> Pending(n)]]
    BY <1>3 DEF AskNonce
  <2>2. Pending(n) \in NonceValues
    BY <1>1, <2>1, PendingIsFree DEF NonceValues
  <2>3. send' \in [Transfers -> [pc : {"waits", "locked", "has_nonce", "sent", "over"}, nonce : NonceValues]]
    BY <2>1, <2>2
  <2>4. lagged' \subseteq Transfers
    BY <1>3 DEF AskNonce
  <2> QED BY <1>3, <2>3, <2>4 DEF AskNonce
<1>4. ASSUME NEW t \in Transfers, SendRaw(t) PROVE NonceTypeOK'
  <2>1. PICK n \in Nodes : pool' = [pool EXCEPT ![n][send[t].nonce] = t]
    BY <1>4 DEF SendRaw
  <2>2. pool' \in [Nodes -> [NonceValues -> Transfers \cup {NoTransfer}]]
    BY <2>1
  <2> QED BY <1>4, <2>2 DEF SendRaw, SendGoes
<1>5. ASSUME NEW t \in Transfers, CommitNonce(t) PROVE NonceTypeOK'
  <2>1. send[t].nonce \in 0 .. MaxNonce
    BY DEF NonceValues
  <2>2. nonceRow' \in 0 .. NoRow
    BY <1>1, <1>5, <2>1 DEF CommitNonce
  <2> QED BY <1>5, <2>2 DEF CommitNonce, SendGoes, Unlocked
<1>6. ASSUME NEW t \in Transfers, SendFails(t) PROVE NonceTypeOK'
  BY <1>6 DEF SendFails, Unlocked
<1>7. ASSUME NEW n \in Nodes, NEW m \in Nodes, Gossip(n, m) PROVE NonceTypeOK'
  <2>1. PICK k \in Heard(n) \ Heard(m) : pool' = [pool EXCEPT ![m][k] = pool[n][k]]
    BY <1>7 DEF Gossip
  <2>2. k \in NonceValues
    BY DEF Heard
  <2>3. pool' \in [Nodes -> [NonceValues -> Transfers \cup {NoTransfer}]]
    BY <2>1, <2>2
  <2> QED BY <1>7, <2>3 DEF Gossip
<1>8. CASE UNCHANGED nonceVars
  BY <1>8 DEF nonceVars
<1> QED BY <1>2, <1>3, <1>4, <1>5, <1>6, <1>7, <1>8 DEF NonceNext, NonceStep

\* A row is locked or found missing.
LEMMA SelectRowInv ==
  ASSUME NonceInv, NonceTypeOK', NEW t \in Transfers, SelectRow(t)
  PROVE  NonceInv'
<1> USE DEF NonceInv
<1>1. /\ send[t].pc = "waits" /\ send' = [send EXCEPT ![t].pc = "locked"]
      /\ UNCHANGED <<nonceRow, pool, recorded, lagged>>
      /\ \/ rivals' = rivals \cup {t} /\ rowLock' = rowLock
         \/ rivals' = rivals /\ rowLock = NoTransfer /\ rowLock' = t
  BY DEF SelectRow, SendGoes
<1>2. /\ send'[t].pc = "locked" /\ send'[t].nonce = send[t].nonce
      /\ \A u \in Transfers \ {t} : send'[u] = send[u]
  BY <1>1 DEF NonceTypeOK
<1>3. PoolHoldsSent'
  BY <1>1, <1>2 DEF PoolHoldsSent, NonceTypeOK
<1>4. LockIsHeld'
  <2>1. NoTransfer \notin Transfers
    BY NonceAssumption DEF NonceAssumption
  <2> QED BY <1>1, <1>2, <2>1 DEF LockIsHeld
<1>5. RecordedIsOver'
  BY <1>1, <1>2 DEF RecordedIsOver, NonceTypeOK
<1>6. \A u \in Transfers : Placed(u)' => Placed(u)
  BY <1>1, <1>2 DEF Placed
<1>7. UsedIsHeard'
  BY <1>1, <1>2, <1>6 DEF UsedIsHeard, HeardAnywhere, Heard
<1>8. CleanDiffer'
  BY <1>1, <1>2, <1>6 DEF CleanDiffer, Clean
<1> QED BY <1>3, <1>4, <1>5, <1>7, <1>8

\* A node that has heard of all names a nonce that nobody has used.
LEMMA AskNonceInv ==
  ASSUME NonceInv, NonceTypeOK', NEW t \in Transfers, AskNonce(t)
  PROVE  NonceInv'
<1> USE DEF NonceInv
<1>1. PICK n \in Nodes :
        /\ Pending(n) <= MaxNonce
        /\ send' = [send EXCEPT ![t] = [pc |-> "has_nonce", nonce |-> Pending(n)]]
        /\ lagged' = IF Heard(n) # HeardAnywhere THEN lagged \cup {t} ELSE lagged
  BY DEF AskNonce
<1>2. send[t].pc = "locked" /\ UNCHANGED <<nonceRow, rowLock, pool, recorded, rivals>>
  BY DEF AskNonce
<1>3. /\ send'[t].pc = "has_nonce" /\ send'[t].nonce = Pending(n)
      /\ \A u \in Transfers \ {t} : send'[u] = send[u]
  BY <1>1 DEF NonceTypeOK
<1>4. Pending(n) \notin Heard(n)
  BY NonceAssumption, PendingIsFree
<1>5. PoolHoldsSent'
  BY <1>2, <1>3 DEF PoolHoldsSent, NonceTypeOK
<1>6. LockIsHeld'
  BY <1>2, <1>3 DEF LockIsHeld
<1>7. RecordedIsOver'
  BY <1>2, <1>3 DEF RecordedIsOver, NonceTypeOK
<1>8. ~Placed(t)
  <2>1. \A m \in Nodes, k \in NonceValues : pool[m][k] # t
    BY <1>2, NonceAssumption DEF PoolHoldsSent, NonceAssumption
  <2> QED BY <1>2, <2>1 DEF Placed, RecordedIsOver
<1>9. ~Placed(t)' /\ \A u \in Transfers : Placed(u)' => Placed(u)
  BY <1>2, <1>3, <1>8 DEF Placed
<1>10. UsedIsHeard'
  BY <1>2, <1>3, <1>9 DEF UsedIsHeard, HeardAnywhere, Heard
<1>11. CleanDiffer'
  <2> SUFFICES ASSUME NEW u \in Clean', NEW v \in Clean', u # v, Placed(v)',
                      Placed(u)' \/ send'[u].pc = "has_nonce"
               PROVE  send'[u].nonce # send'[v].nonce
    BY DEF CleanDiffer
  <2>1. v # t /\ Placed(v) /\ send'[v] = send[v] /\ u \in Transfers /\ v \in Transfers
    BY <1>3, <1>9 DEF Clean
  <2>2. u \in Clean \cup {t} /\ v \in Clean
    BY <1>1, <1>2, <2>1 DEF Clean
  <2>3. CASE u = t
    <3>1. Heard(n) = HeardAnywhere
      BY <1>1, <2>3 DEF Clean
    <3>2. send[v].nonce \in HeardAnywhere
      BY <2>1 DEF UsedIsHeard
    <3> QED BY <3>1, <3>2, <1>3, <1>4, <2>1, <2>3
  <2>4. CASE u # t
    BY <2>1, <2>2, <2>4, <1>3, <1>9 DEF CleanDiffer
  <2> QED BY <2>3, <2>4
<1> QED BY <1>5, <1>6, <1>7, <1>10, <1>11

\* What is heard of stays heard of when a place of a pool is filled.
LEMMA FilledIsHeard ==
  ASSUME NonceTypeOK, NonceAssumption, NEW n \in Nodes, NEW k \in NonceValues, NEW t \in Transfers,
         pool' = [pool EXCEPT ![n][k] = t]
  PROVE  HeardAnywhere' = HeardAnywhere \cup {k}
<1>1. \A m \in Nodes, j \in NonceValues :
        pool'[m][j] = IF m = n /\ j = k THEN t ELSE pool[m][j]
  BY DEF NonceTypeOK
<1>2. Heard(n)' = Heard(n) \cup {k}
  BY <1>1 DEF Heard, NonceAssumption
<1>3. \A m \in Nodes \ {n} : Heard(m)' = Heard(m)
  BY <1>1 DEF Heard
<1> QED BY <1>2, <1>3 DEF HeardAnywhere

\* Only one attempt at a time gets from the nonce to a node among those that hold the lock.
LEMMA SendRawInv ==
  ASSUME NonceInv, NonceTypeOK', NEW t \in Transfers, SendRaw(t)
  PROVE  NonceInv'
<1> USE DEF NonceInv
<1>1. PICK n \in Nodes : pool' = [pool EXCEPT ![n][send[t].nonce] = t]
  BY DEF SendRaw
<1>2. /\ send[t].pc = "has_nonce" /\ send' = [send EXCEPT ![t].pc = "sent"]
      /\ UNCHANGED <<nonceRow, rowLock, recorded, rivals, lagged>>
  BY DEF SendRaw, SendGoes
<1>3. /\ send'[t].pc = "sent" /\ send'[t].nonce = send[t].nonce
      /\ \A u \in Transfers \ {t} : send'[u] = send[u]
  BY <1>2 DEF NonceTypeOK
<1>4. send[t].nonce \in NonceValues
  BY DEF NonceTypeOK
<1>5. \A m \in Nodes, k \in NonceValues :
        pool'[m][k] = IF m = n /\ k = send[t].nonce THEN t ELSE pool[m][k]
  BY <1>1, <1>4 DEF NonceTypeOK
<1>6. PoolHoldsSent'
  <2> SUFFICES ASSUME NEW m \in Nodes, NEW k \in NonceValues, pool'[m][k] # NoTransfer
               PROVE  send'[pool'[m][k]].nonce = k /\ send'[pool'[m][k]].pc \in {"sent", "over"}
    BY DEF PoolHoldsSent
  <2>1. CASE m = n /\ k = send[t].nonce
    <3>1. pool'[m][k] = t
      BY <2>1, <1>5
    <3> QED BY <3>1, <2>1, <1>3
  <2>2. CASE ~(m = n /\ k = send[t].nonce)
    <3> DEFINE u == pool[m][k]
    <3>1. pool'[m][k] = u
      BY <2>2, <1>5
    <3>2. u \in Transfers /\ send[u].nonce = k /\ send[u].pc \in {"sent", "over"}
      BY <3>1 DEF PoolHoldsSent, NonceTypeOK
    <3> HIDE DEF u
    <3>3. u # t
      BY <3>2, <1>2
    <3> QED BY <3>1, <3>2, <3>3, <1>3
  <2> QED BY <2>1, <2>2
<1>7. LockIsHeld'
  BY <1>2, <1>3 DEF LockIsHeld
<1>8. RecordedIsOver'
  BY <1>2, <1>3 DEF RecordedIsOver, NonceTypeOK
<1>9. \A u \in Transfers \ {t} : Placed(u)' => Placed(u)
  <2> SUFFICES ASSUME NEW u \in Transfers \ {t}, Placed(u)' PROVE Placed(u)
    OBVIOUS
  <2>1. CASE \E m \in Nodes, k \in NonceValues : pool'[m][k] = u
    BY <2>1, <1>5 DEF Placed
  <2>2. CASE send'[u].pc = "sent" \/ u \in recorded'
    BY <2>2, <1>2, <1>3 DEF Placed
  <2> QED BY <2>1, <2>2 DEF Placed
<1>10. HeardAnywhere' = HeardAnywhere \cup {send[t].nonce}
  BY <1>1, <1>4, NonceAssumption, FilledIsHeard
<1>11. UsedIsHeard'
  BY <1>3, <1>9, <1>10 DEF UsedIsHeard
<1>12. CleanDiffer'
  <2> SUFFICES ASSUME NEW u \in Clean', NEW v \in Clean', u # v, Placed(v)',
                      Placed(u)' \/ send'[u].pc = "has_nonce"
               PROVE  send'[u].nonce # send'[v].nonce
    BY DEF CleanDiffer
  <2>1. u \in Clean /\ v \in Clean /\ u \in Transfers /\ v \in Transfers
    BY <1>2 DEF Clean
  <2>2. CASE u = t
    BY <2>1, <2>2, <1>2, <1>3, <1>9 DEF CleanDiffer
  <2>3. CASE v = t
    <3>1. send'[u].pc # "has_nonce"
      BY <2>1, <2>3, <1>2, <1>3 DEF LockIsHeld, Clean
    <3>2. Placed(u)
      BY <2>1, <2>3, <3>1, <1>9
    <3> QED BY <2>1, <2>3, <3>2, <1>2, <1>3 DEF CleanDiffer
  <2>4. CASE u # t /\ v # t
    BY <2>1, <2>4, <1>3, <1>9 DEF CleanDiffer
  <2> QED BY <2>2, <2>3, <2>4
<1> QED BY <1>6, <1>7, <1>8, <1>11, <1>12

\* The transaction of an attempt ends, committed or not.
LEMMA SendEndsInv ==
  ASSUME NonceInv, NonceTypeOK', NEW t \in Transfers, CommitNonce(t) \/ SendFails(t)
  PROVE  NonceInv'
<1> USE DEF NonceInv
<1>1. /\ send[t].pc \in {"locked", "has_nonce", "sent"} /\ send' = [send EXCEPT ![t].pc = "over"]
      /\ rowLock' = Unlocked(t) /\ UNCHANGED <<pool, rivals, lagged>>
      /\ \/ recorded' = recorded
         \/ recorded' = recorded \cup {t} /\ send[t].pc = "sent"
  BY DEF CommitNonce, SendFails, SendGoes
<1>2. /\ send'[t].pc = "over" /\ send'[t].nonce = send[t].nonce
      /\ \A u \in Transfers \ {t} : send'[u] = send[u]
  BY <1>1 DEF NonceTypeOK
<1>3. PoolHoldsSent'
  BY <1>1, <1>2 DEF PoolHoldsSent, NonceTypeOK
<1>4. LockIsHeld'
  BY <1>1, <1>2 DEF LockIsHeld, Unlocked
<1>5. RecordedIsOver'
  BY <1>1, <1>2 DEF RecordedIsOver, NonceTypeOK
<1>6. \A u \in Transfers : Placed(u)' => Placed(u)
  BY <1>1, <1>2 DEF Placed
<1>7. UsedIsHeard'
  BY <1>1, <1>2, <1>6 DEF UsedIsHeard, HeardAnywhere, Heard
<1>8. CleanDiffer'
  BY <1>1, <1>2, <1>6 DEF CleanDiffer, Clean
<1> QED BY <1>3, <1>4, <1>5, <1>7, <1>8

\* Nodes tell each other only what was sent.
LEMMA GossipInv ==
  ASSUME NonceInv, NonceTypeOK', NEW from \in Nodes, NEW to \in Nodes, Gossip(from, to)
  PROVE  NonceInv'
<1> USE DEF NonceInv
<1>1. PICK k \in Heard(from) \ Heard(to) : pool' = [pool EXCEPT ![to][k] = pool[from][k]]
  BY DEF Gossip
<1>2. UNCHANGED <<send, nonceRow, rowLock, recorded, rivals, lagged>>
  BY DEF Gossip
<1>3. k \in NonceValues /\ pool[from][k] \in Transfers
  BY DEF Heard, NonceTypeOK
<1>4. \A m \in Nodes, j \in NonceValues :
        pool'[m][j] = IF m = to /\ j = k THEN pool[from][k] ELSE pool[m][j]
  BY <1>1, <1>3 DEF NonceTypeOK
<1>5. PoolHoldsSent'
  BY <1>2, <1>3, <1>4 DEF PoolHoldsSent
<1>6. LockIsHeld' /\ RecordedIsOver'
  BY <1>2 DEF LockIsHeld, RecordedIsOver
<1>7. \A u \in Transfers : Placed(u)' => Placed(u)
  <2> SUFFICES ASSUME NEW u \in Transfers, Placed(u)' PROVE Placed(u)
    OBVIOUS
  <2>1. CASE \E m \in Nodes, j \in NonceValues : pool'[m][j] = u
    BY <2>1, <1>3, <1>4 DEF Placed
  <2>2. CASE send'[u].pc = "sent" \/ u \in recorded'
    BY <2>2, <1>2 DEF Placed
  <2> QED BY <2>1, <2>2 DEF Placed
<1>8. HeardAnywhere \subseteq HeardAnywhere'
  BY <1>1, <1>3, NonceAssumption, FilledIsHeard
<1>9. UsedIsHeard'
  BY <1>2, <1>7, <1>8 DEF UsedIsHeard
<1>10. CleanDiffer'
  BY <1>2, <1>7 DEF CleanDiffer, Clean
<1> QED BY <1>5, <1>6, <1>9, <1>10

LEMMA NonceStepInv == NonceInv /\ [NonceNext]_nonceVars => NonceInv'
<1> SUFFICES ASSUME NonceInv, [NonceNext]_nonceVars PROVE NonceInv'
  OBVIOUS
<1>1. NonceTypeOK'
  BY NonceAssumption, NonceTypes DEF NonceInv
<1>2. ASSUME NEW t \in Transfers, NonceStep(t) PROVE NonceInv'
  BY <1>1, <1>2, SelectRowInv, AskNonceInv, SendRawInv, SendEndsInv DEF NonceStep
<1>3. ASSUME NEW n \in Nodes, NEW m \in Nodes, Gossip(n, m) PROVE NonceInv'
  BY <1>1, <1>3, GossipInv
<1>4. CASE UNCHANGED nonceVars
  <2> USE <1>4 DEF nonceVars
  <2>1. PoolHoldsSent' /\ LockIsHeld' /\ RecordedIsOver'
    BY DEF NonceInv, PoolHoldsSent, LockIsHeld, RecordedIsOver
  <2>2. UsedIsHeard' /\ CleanDiffer'
    BY DEF NonceInv, UsedIsHeard, CleanDiffer, Placed, Clean, HeardAnywhere, Heard
  <2> QED BY <1>1, <2>1, <2>2 DEF NonceInv
<1> QED BY <1>2, <1>3, <1>4 DEF NonceNext

\* The inductive invariant of the nonces.
THEOREM NonceInvariant == NonceSpec => []NonceInv
<1>1. NonceInit => NonceInv
  BY NonceAssumption, NonceInitInv
<1> QED BY <1>1, NonceStepInv, PTL DEF NonceSpec

\* The transfer that a payout records is not displaced by that of another payout, for every number
\* of attempts, nodes and nonces: unless one of the two found no nonce row, or took its nonce from
\* a node that had not heard of all (handlePayoutRequested's nonce row against rpcCall's nodes).
THEOREM RecordedIsNotDisplaced == NonceSpec => []RecordedKeepsNonce
<1>1. NonceInv => RecordedKeepsNonce
  <2> SUFFICES ASSUME NonceInv, NEW t \in recorded, NEW n \in Nodes,
                      pool[n][send[t].nonce] \notin {NoTransfer, t},
                      {t, pool[n][send[t].nonce]} \cap (rivals \cup lagged) = {}
               PROVE  FALSE
    BY DEF RecordedKeepsNonce
  <2> DEFINE u == pool[n][send[t].nonce]
  <2>1. t \in Transfers /\ send[t].nonce \in NonceValues /\ u \in Transfers
    BY DEF NonceInv, NonceTypeOK
  <2>2. send[u].nonce = send[t].nonce
    BY <2>1 DEF NonceInv, PoolHoldsSent
  <2>3. Placed(t) /\ Placed(u)
    BY <2>1 DEF Placed
  <2>4. t \in Clean /\ u \in Clean /\ t # u
    BY <2>1 DEF Clean
  <2> HIDE DEF u
  <2> QED BY <2>2, <2>3, <2>4 DEF NonceInv, CleanDiffer
<1> QED BY <1>1, NonceInvariant, PTL

-----------------------------------------------------------------------------
(* The supervisor of the worker *)

\* The child is forgotten when it is told to stop and when anything closes.
ChildMayLive == child # NoPid => proc[child] \in {"running", "exited"}

\* No command waits for a process that runs: names are given anew only when nobody refers to them.
WaitedIsOver == \A c \in Stops : stops[c].waits # NoPid => proc[stops[c].waits] # "running"

\* p will close, and a restart or the history of the forgotten will follow.
WillBeSeen(p) == proc[p] \in {"dying", "exited"} /\ (stoppingAll => ~StoppedByCommand(p))

\* As long as the worker is to run, one runs or something under way leads to the next.
SomethingFollows ==
  serving /\ ~pauseFile =>
    \/ forgotten \/ Running # {} \/ timers # {}
    \/ \E p \in Pids : WillBeSeen(p)
    \/ \E c \in Stops : stops[c].of = "restart"

PluginInv == PluginTypeOK /\ ChildMayLive /\ WaitedIsOver /\ OnlyChildRuns /\ SomethingFollows

\* What spawnWorker leaves: a process that runs, if it may spawn, or all as it was.
LEMMA SpawnResult ==
  ASSUME PluginTypeOK, NEW paused \in BOOLEAN, NEW known \in Pids \cup {NoPid}, Spawn(paused, known, proc)
  PROVE  \/ /\ paused \/ Alive(known)
            /\ child' = known /\ proc' = proc
         \/ /\ ~paused /\ ~Alive(known)
            /\ child' \in Pids /\ proc' = [proc EXCEPT ![child'] = "running"]
            /\ proc[child'] = "closed" /\ \A c \in Stops : stops[c].waits # child'
<1>1. CASE MaySpawn(paused, known)
  <2>1. child' \in Free(proc) /\ proc' = [proc EXCEPT ![child'] = "running"]
    BY <1>1 DEF Spawn
  <2> QED BY <2>1, <1>1 DEF Free, MaySpawn
<1>2. CASE ~MaySpawn(paused, known)
  BY <1>2 DEF Spawn, MaySpawn
<1> QED BY <1>1, <1>2

\* The process and the child as spawnWorker leaves them, when all that runs is the child it knows.
LEMMA SpawnKeeps ==
  ASSUME PluginTypeOK, PluginAssumption, ChildMayLive, WaitedIsOver,
         NEW paused \in BOOLEAN, NEW known \in {child, NoPid}, Spawn(paused, known, proc),
         known = NoPid => ~Alive(child)
  PROVE  /\ proc' \in [Pids -> {"running", "dying", "exited", "closed"}] /\ child' \in Pids \cup {NoPid}
         /\ ChildMayLive'
         /\ \A c \in Stops : stops[c].waits # NoPid => proc'[stops[c].waits] # "running"
         /\ \A p \in Pids : proc[p] # "closed" => proc'[p] = proc[p]
         /\ ~paused => {p \in Pids : proc'[p] = "running"} # {}
         /\ (\A p \in Running : p = child /\ ~pauseFile) =>
               \A p \in Pids : proc'[p] = "running" => p = child' /\ (p \notin Running => ~paused)
<1>1. known \in Pids \cup {NoPid} /\ child \in Pids \cup {NoPid}
  BY DEF PluginTypeOK
<1>2. CASE (paused \/ Alive(known)) /\ child' = known /\ proc' = proc
  <2>1. ChildMayLive'
    BY <1>2 DEF ChildMayLive
  <2>2. ~paused => {p \in Pids : proc'[p] = "running"} # {}
    BY <1>1, <1>2 DEF Alive, ChildMayLive
  <2>3. ASSUME \A p \in Running : p = child /\ ~pauseFile, NEW p \in Pids, proc'[p] = "running"
        PROVE  p = child' /\ (p \notin Running => ~paused)
    <3>1. p \in Running
      BY <2>3, <1>2 DEF Running
    <3>2. p = child /\ Alive(child)
      BY <3>1, <2>3, PluginAssumption DEF Running, Alive, PluginAssumption
    <3> QED BY <3>1, <3>2, <1>2
  <2> QED BY <1>2, <2>1, <2>2, <2>3 DEF PluginTypeOK, WaitedIsOver
<1>3. CASE /\ ~paused /\ ~Alive(known)
           /\ child' \in Pids /\ proc' = [proc EXCEPT ![child'] = "running"]
           /\ proc[child'] = "closed" /\ \A c \in Stops : stops[c].waits # child'
  <2>1. proc' \in [Pids -> {"running", "dying", "exited", "closed"}] /\ proc'[child'] = "running"
    BY <1>3 DEF PluginTypeOK
  <2>2. \A p \in Pids : p # child' => proc'[p] = proc[p]
    BY <1>3 DEF PluginTypeOK
  <2>3. ChildMayLive'
    BY <1>3, <2>1 DEF ChildMayLive
  <2>4. \A c \in Stops : stops[c].waits # NoPid => proc'[stops[c].waits] # "running"
    BY <1>3, <2>2 DEF WaitedIsOver, PluginTypeOK
  <2>5. \A p \in Pids : proc[p] # "closed" => proc'[p] = proc[p]
    BY <1>3, <2>2
  <2>6. {p \in Pids : proc'[p] = "running"} # {}
    BY <1>3, <2>1
  <2>7. ASSUME \A p \in Running : p = child /\ ~pauseFile, NEW p \in Pids, proc'[p] = "running"
        PROVE  p = child'
    <3>1. ~Alive(child)
      BY <1>3
    <3>2. p \notin Running
      BY <3>1, <2>7, PluginAssumption DEF Running, Alive, PluginAssumption
    <3> QED BY <3>2, <2>2, <2>7 DEF Running
  <2> QED BY <1>3, <2>1, <2>3, <2>4, <2>5, <2>6, <2>7
<1> QED BY <1>1, <1>2, <1>3, SpawnResult

LEMMA PluginInitInv == PluginAssumption /\ PluginInit => PluginInv
<1> SUFFICES ASSUME PluginAssumption, PluginInit PROVE PluginInv
  OBVIOUS
<1> USE DEF PluginInit
<1>1. PluginTypeOK
  <2>1. {stoppingAll, pauseFile, serving, mistaken, forgotten} \subseteq BOOLEAN
    BY Zenon
  <2>2. commands \in 0 .. MaxCommands /\ exits \in 0 .. MaxExits
    BY DEF PluginAssumption
  <2>3. stops \in [Stops -> [of : {"none"} \cup StopCommands, waits : Pids \cup {NoPid}]]
    BY DEF NoStop
  <2> QED BY <2>1, <2>2, <2>3 DEF PluginTypeOK
<1>2. ChildMayLive /\ WaitedIsOver /\ OnlyChildRuns /\ SomethingFollows
  BY DEF ChildMayLive, WaitedIsOver, OnlyChildRuns, SomethingFollows, NoStop, Running
<1> QED BY <1>1, <1>2 DEF PluginInv

\* The service starts, or the operator resumes, or a timer fires: spawnWorker as things are.
LEMMA SpawnStepInv ==
  ASSUME PluginAssumption, PluginInv,
         \/ ServiceStart \/ Resume \/ \E p \in Pids : RestartTimer(p)
  PROVE  PluginInv'
<1> USE DEF PluginInv
<1>1. PICK paused \in BOOLEAN :
        /\ Spawn(paused, child, proc) /\ pauseFile' = paused
        /\ paused => pauseFile
        /\ timers' \subseteq timers /\ timer' \in {timer, NoPid}
        /\ UNCHANGED <<stoppingAll, stops, exits, mistaken, forgotten>>
        /\ serving' \in BOOLEAN
        /\ commands' = commands \/ Commanded
  <2>1. pauseFile \in BOOLEAN /\ serving \in BOOLEAN
    BY Zenon DEF PluginTypeOK
  <2>2. CASE ServiceStart
    BY <2>1, <2>2 DEF ServiceStart
  <2>3. CASE Resume
    BY <2>1, <2>3 DEF Resume
  <2>4. CASE \E p \in Pids : RestartTimer(p)
    BY <2>1, <2>4 DEF RestartTimer
  <2> QED BY <2>2, <2>3, <2>4
<1>2. /\ proc' \in [Pids -> {"running", "dying", "exited", "closed"}] /\ child' \in Pids \cup {NoPid}
      /\ ChildMayLive'
      /\ \A c \in Stops : stops[c].waits # NoPid => proc'[stops[c].waits] # "running"
      /\ ~paused => {p \in Pids : proc'[p] = "running"} # {}
      /\ (\A p \in Running : p = child /\ ~pauseFile) =>
            \A p \in Pids : proc'[p] = "running" => p = child' /\ (p \notin Running => ~paused)
  <2>1. child = NoPid => ~Alive(child)
    BY DEF Alive
  <2> QED BY <1>1, <2>1, SpawnKeeps
<1>3. PluginTypeOK'
  <2>1. commands' \in 0 .. MaxCommands
    BY <1>1, PluginAssumption DEF Commanded, PluginTypeOK, PluginAssumption
  <2>2. {stoppingAll', pauseFile', serving', mistaken', forgotten'} \subseteq BOOLEAN
    BY <1>1, Zenon DEF PluginTypeOK
  <2>3. timers' \subseteq Pids /\ timer' \in Pids \cup {NoPid}
    BY <1>1 DEF PluginTypeOK
  <2> QED BY <1>1, <1>2, <2>1, <2>2, <2>3 DEF PluginTypeOK
<1>4. WaitedIsOver'
  BY <1>1, <1>2 DEF WaitedIsOver
<1>5. OnlyChildRuns'
  BY <1>1, <1>2 DEF OnlyChildRuns, Running
<1>6. SomethingFollows'
  BY <1>1, <1>2 DEF SomethingFollows, Running
<1> QED BY <1>2, <1>3, <1>4, <1>5, <1>6

\* A command tells the child to stop.
LEMMA BeginStopInv ==
  ASSUME PluginAssumption, PluginInv, NEW c \in Stops, NEW of \in StopCommands, BeginStop(c, of)
  PROVE  PluginInv'
<1> USE DEF PluginInv
<1>1. /\ child \in Pids /\ child # NoPid /\ Alive(child)
      /\ stops' = [stops EXCEPT ![c] = [of |-> of, waits |-> child]]
      /\ proc' = [proc EXCEPT ![child] = "dying"] /\ child' = NoPid
      /\ UNCHANGED <<exits, mistaken, forgotten>>
  BY DEF BeginStop, PluginTypeOK
<1>2. /\ proc'[child] = "dying" /\ \A p \in Pids \ {child} : proc'[p] = proc[p]
      /\ stops'[c] = [of |-> of, waits |-> child] /\ \A d \in Stops \ {c} : stops'[d] = stops[d]
  BY <1>1 DEF PluginTypeOK
<1>3. PluginTypeOK'
  <2>1. /\ commands' \in 0 .. MaxCommands /\ timers' \subseteq Pids /\ timer' = NoPid
        /\ exits' \in 0 .. MaxExits
    BY PluginAssumption DEF BeginStop, Commanded, PluginTypeOK, PluginAssumption
  <2>2. stops' \in [Stops -> [of : {"none"} \cup StopCommands, waits : Pids \cup {NoPid}]]
    BY <1>1 DEF PluginTypeOK
  <2>3. proc' \in [Pids -> {"running", "dying", "exited", "closed"}]
    BY <1>1 DEF PluginTypeOK
  <2>4. {stoppingAll', pauseFile', serving', mistaken', forgotten'} \subseteq BOOLEAN
    BY Zenon DEF BeginStop, PluginTypeOK
  <2> QED BY <1>1, <2>1, <2>2, <2>3, <2>4 DEF PluginTypeOK
<1>4. ChildMayLive'
  BY <1>1 DEF ChildMayLive
<1>5. WaitedIsOver'
  BY <1>2 DEF WaitedIsOver, PluginTypeOK
<1>6. OnlyChildRuns'
  BY <1>1, <1>2 DEF OnlyChildRuns, Running
<1>7. SomethingFollows'
  <2>1. CASE of = "restart"
    BY <2>1, <1>2 DEF SomethingFollows
  <2>2. CASE of \in {"pause", "stop"}
    BY <2>2 DEF SomethingFollows, BeginStop
  <2> QED BY <2>1, <2>2 DEF StopCommands
<1> QED BY <1>3, <1>4, <1>5, <1>6, <1>7

\* A command that finds no child to stop.
LEMMA StopAtOnceInv ==
  ASSUME PluginAssumption, PluginInv, NEW of \in StopCommands, StopAtOnce(of)
  PROVE  PluginInv'
<1> USE DEF PluginInv
<1> DEFINE paused == pauseFile' \/ of # "restart"
<1>1. /\ ~Alive(child) /\ Spawn(paused, NoPid, proc)
      /\ pauseFile' = (pauseFile \/ of = "pause") /\ serving' = (of # "stop")
      /\ timers' \subseteq timers /\ timer' = NoPid /\ stoppingAll' = FALSE
      /\ UNCHANGED <<stops, exits, mistaken, forgotten>>
  BY DEF StopAtOnce
<1>2. paused \in BOOLEAN
  OBVIOUS
<1> HIDE DEF paused
<1>3. /\ proc' \in [Pids -> {"running", "dying", "exited", "closed"}] /\ child' \in Pids \cup {NoPid}
      /\ ChildMayLive'
      /\ \A c \in Stops : stops[c].waits # NoPid => proc'[stops[c].waits] # "running"
      /\ ~paused => {p \in Pids : proc'[p] = "running"} # {}
      /\ (\A p \in Running : p = child /\ ~pauseFile) =>
            \A p \in Pids : proc'[p] = "running" => p = child' /\ (p \notin Running => ~paused)
  BY <1>1, <1>2, SpawnKeeps
<1>4. PluginTypeOK'
  <2>1. commands' \in 0 .. MaxCommands
    BY PluginAssumption DEF StopAtOnce, Commanded, PluginTypeOK, PluginAssumption
  <2>2. {stoppingAll', pauseFile', serving', mistaken', forgotten'} \subseteq BOOLEAN
    BY <1>1, Zenon DEF PluginTypeOK
  <2> QED BY <1>1, <1>3, <2>1, <2>2 DEF PluginTypeOK
<1>5. WaitedIsOver'
  BY <1>1, <1>3 DEF WaitedIsOver
<1>6. OnlyChildRuns'
  <2> SUFFICES ASSUME ~mistaken, NEW p \in Pids, proc'[p] = "running"
               PROVE  p = child' /\ ~pauseFile'
    BY <1>1 DEF OnlyChildRuns, Running
  <2>1. \A q \in Running : q = child /\ ~pauseFile
    BY DEF OnlyChildRuns
  <2>2. p \notin Running
    BY <1>1, <2>1, PluginAssumption DEF Running, Alive, PluginAssumption
  <2>3. p = child' /\ ~paused
    BY <1>3, <2>1, <2>2
  <2> QED BY <2>3 DEF paused
<1>7. SomethingFollows'
  <2> SUFFICES ASSUME serving', ~pauseFile' PROVE Running' # {}
    BY DEF SomethingFollows
  <2>1. ~paused
    BY <1>1 DEF paused, StopCommands
  <2> QED BY <2>1, <1>3 DEF Running
<1> QED BY <1>3, <1>4, <1>5, <1>6, <1>7

\* The process that a command waited for has exited.
LEMMA EndStopInv ==
  ASSUME PluginAssumption, PluginInv, NEW c \in Stops, EndStop(c)
  PROVE  PluginInv'
<1> USE DEF PluginInv
<1> DEFINE paused == pauseFile \/ stops[c].of # "restart"
<1>1. /\ Spawn(paused, child, proc)
      /\ stops' = [stops EXCEPT ![c] = NoStop] /\ stoppingAll' = FALSE
      /\ UNCHANGED <<timers, timer, pauseFile, serving, commands, exits, mistaken, forgotten>>
  BY DEF EndStop
<1>2. paused \in BOOLEAN /\ (child = NoPid => ~Alive(child))
  BY DEF Alive
<1> HIDE DEF paused
<1>3. /\ proc' \in [Pids -> {"running", "dying", "exited", "closed"}] /\ child' \in Pids \cup {NoPid}
      /\ ChildMayLive'
      /\ \A d \in Stops : stops[d].waits # NoPid => proc'[stops[d].waits] # "running"
      /\ \A p \in Pids : proc[p] # "closed" => proc'[p] = proc[p]
      /\ ~paused => {p \in Pids : proc'[p] = "running"} # {}
      /\ (\A p \in Running : p = child /\ ~pauseFile) =>
            \A p \in Pids : proc'[p] = "running" => p = child' /\ (p \notin Running => ~paused)
  BY <1>1, <1>2, SpawnKeeps
<1>4. stops'[c] = NoStop /\ \A d \in Stops \ {c} : stops'[d] = stops[d]
  BY <1>1 DEF PluginTypeOK
<1>5. PluginTypeOK'
  <2>1. {stoppingAll', pauseFile', serving', mistaken', forgotten'} \subseteq BOOLEAN
    BY <1>1, Zenon DEF PluginTypeOK
  <2>2. stops' \in [Stops -> [of : {"none"} \cup StopCommands, waits : Pids \cup {NoPid}]]
    BY <1>1 DEF PluginTypeOK, NoStop
  <2> QED BY <1>1, <1>3, <2>1, <2>2 DEF PluginTypeOK
<1>6. WaitedIsOver'
  BY <1>3, <1>4 DEF WaitedIsOver, NoStop
<1>7. OnlyChildRuns'
  BY <1>1, <1>3 DEF OnlyChildRuns, Running, paused
<1>8. SomethingFollows'
  <2> SUFFICES ASSUME serving, ~pauseFile, ~forgotten
               PROVE  \/ Running' # {} \/ timers' # {}
                      \/ \E p \in Pids : WillBeSeen(p)'
                      \/ \E d \in Stops : stops'[d].of = "restart"
    BY <1>1 DEF SomethingFollows
  <2>1. CASE ~paused
    BY <2>1, <1>3 DEF Running
  <2>2. CASE \E d \in Stops \ {c} : stops[d].of = "restart"
    BY <2>2, <1>4
  <2>3. CASE Running # {} \/ \E p \in Pids : WillBeSeen(p)
    BY <2>3, <1>1, <1>3 DEF Running, WillBeSeen
  <2> QED BY <2>1, <2>2, <2>3, <1>1 DEF paused, SomethingFollows
<1> QED BY <1>3, <1>5, <1>6, <1>7, <1>8

\* A process goes: it exits, told to or not.
LEMMA ExitInv ==
  ASSUME PluginAssumption, PluginInv, NEW p \in Pids, Die(p) \/ ExitBySelf(p)
  PROVE  PluginInv'
<1> USE DEF PluginInv
<1>1. /\ proc[p] \in {"running", "dying"} /\ proc' = [proc EXCEPT ![p] = "exited"]
      /\ UNCHANGED <<child, timers, timer, stoppingAll, pauseFile, serving, stops, commands, mistaken, forgotten>>
      /\ exits' \in 0 .. MaxExits
  <2>1. CASE Die(p)
    BY <2>1 DEF Die, PluginTypeOK
  <2>2. CASE ExitBySelf(p)
    BY <2>2, PluginAssumption DEF ExitBySelf, PluginTypeOK, PluginAssumption
  <2> QED BY <2>1, <2>2
<1>2. proc'[p] = "exited" /\ \A q \in Pids \ {p} : proc'[q] = proc[q]
  BY <1>1 DEF PluginTypeOK
<1>3. PluginTypeOK'
  <2>1. {stoppingAll', pauseFile', serving', mistaken', forgotten'} \subseteq BOOLEAN
    BY <1>1, Zenon DEF PluginTypeOK
  <2> QED BY <1>1, <2>1 DEF PluginTypeOK
<1>4. ChildMayLive'
  BY <1>1, <1>2 DEF ChildMayLive, PluginTypeOK
<1>5. WaitedIsOver'
  BY <1>1, <1>2 DEF WaitedIsOver, PluginTypeOK
<1>6. OnlyChildRuns'
  BY <1>1, <1>2 DEF OnlyChildRuns, Running
<1>7. SomethingFollows'
  <2>1. \A q \in Pids : WillBeSeen(q) => WillBeSeen(q)'
    BY <1>1, <1>2 DEF WillBeSeen, StoppedByCommand
  <2>2. CASE proc[p] = "running"
    <3>1. ~StoppedByCommand(p)
      BY <2>2, PluginAssumption DEF StoppedByCommand, WaitedIsOver, PluginAssumption
    <3>2. WillBeSeen(p)'
      BY <3>1, <1>1, <1>2 DEF WillBeSeen, StoppedByCommand
    <3> QED BY <3>2 DEF SomethingFollows
  <2>3. CASE proc[p] = "dying"
    <3>1. Running \subseteq Running'
      BY <2>3, <1>2 DEF Running
    <3> QED BY <2>1, <3>1, <1>1 DEF SomethingFollows
  <2> QED BY <2>2, <2>3, <1>1
<1> QED BY <1>3, <1>4, <1>5, <1>6, <1>7

\* Node reports an exit.
LEMMA CloseInv ==
  ASSUME PluginAssumption, PluginInv, NEW p \in Pids, Close(p)
  PROVE  PluginInv'
<1> USE DEF PluginInv
<1>1. /\ proc[p] = "exited" /\ proc' = [proc EXCEPT ![p] = "closed"] /\ child' = NoPid
      /\ mistaken' = (mistaken \/ child \notin {p, NoPid})
      /\ forgotten' = (forgotten \/ (stoppingAll /\ ~StoppedByCommand(p)))
      /\ \/ Restarts /\ timers' = timers \cup {p} /\ timer' = p
         \/ ~Restarts /\ UNCHANGED <<timers, timer>>
      /\ UNCHANGED <<stoppingAll, pauseFile, serving, stops, commands, exits>>
  BY DEF Close
<1>2. proc'[p] = "closed" /\ \A q \in Pids \ {p} : proc'[q] = proc[q]
  BY <1>1 DEF PluginTypeOK
<1>3. PluginTypeOK'
  <2>1. {stoppingAll', pauseFile', serving', mistaken', forgotten'} \subseteq BOOLEAN
    BY <1>1, Zenon DEF PluginTypeOK
  <2> QED BY <1>1, <2>1 DEF PluginTypeOK
<1>4. ChildMayLive'
  BY <1>1 DEF ChildMayLive
<1>5. WaitedIsOver'
  BY <1>1, <1>2 DEF WaitedIsOver, PluginTypeOK
<1>6. OnlyChildRuns'
  BY <1>1, <1>2, PluginAssumption DEF OnlyChildRuns, Running, PluginAssumption
<1>7. SomethingFollows'
  <2> SUFFICES ASSUME serving, ~pauseFile, ~forgotten, ~Restarts, stoppingAll => StoppedByCommand(p)
               PROVE  \/ Running' # {} \/ timers' # {}
                      \/ \E q \in Pids : WillBeSeen(q)'
                      \/ \E d \in Stops : stops'[d].of = "restart"
    BY <1>1 DEF SomethingFollows
  <2>1. stoppingAll /\ StoppedByCommand(p)
    BY DEF Restarts
  <2>2. Running \subseteq Running'
    BY <1>1, <1>2 DEF Running
  <2>3. ASSUME NEW q \in Pids, WillBeSeen(q) PROVE WillBeSeen(q)'
    BY <2>1, <2>3, <1>1, <1>2 DEF WillBeSeen, StoppedByCommand
  <2> QED BY <2>2, <2>3, <1>1 DEF SomethingFollows
<1> QED BY <1>3, <1>4, <1>5, <1>6, <1>7

LEMMA PluginStepInv == PluginInv /\ [PluginNext]_pluginVars => PluginInv'
<1> SUFFICES ASSUME PluginInv, [PluginNext]_pluginVars PROVE PluginInv'
  OBVIOUS
<1>1. CASE CommandStep
  BY <1>1, PluginAssumption, SpawnStepInv, StopAtOnceInv, BeginStopInv DEF CommandStep
<1>2. ASSUME NEW c \in Stops, EndStop(c) PROVE PluginInv'
  BY <1>2, PluginAssumption, EndStopInv
<1>3. ASSUME NEW p \in Pids, ProcessStep(p) PROVE PluginInv'
  BY <1>3, PluginAssumption, SpawnStepInv, ExitInv, CloseInv DEF ProcessStep
<1>4. CASE UNCHANGED pluginVars
  <2> USE <1>4 DEF pluginVars, PluginInv
  <2>1. PluginTypeOK'
    BY DEF PluginTypeOK
  <2>2. ChildMayLive' /\ WaitedIsOver' /\ OnlyChildRuns'
    BY DEF ChildMayLive, WaitedIsOver, OnlyChildRuns, Running
  <2>3. SomethingFollows'
    BY DEF SomethingFollows, Running, WillBeSeen, StoppedByCommand
  <2> QED BY <2>1, <2>2, <2>3
<1> QED BY <1>1, <1>2, <1>3, <1>4 DEF PluginNext

\* The inductive invariant of the supervisor.
THEOREM PluginInvariant == PluginSpec => []PluginInv
<1>1. PluginInit => PluginInv
  BY PluginAssumption, PluginInitInv
<1> QED BY <1>1, PluginStepInv, PTL DEF PluginSpec

\* For every number of processes and of commands that overlap: what runs, but for the processes
\* told to stop, is the child the plugin knows, and nothing runs while it is paused, unless a close
\* reported late cleared another child (spawnWorker, stopAllWorkers and the handler of close).
THEOREM OneWorkerRuns == PluginSpec => []OnlyChildRuns
<1>1. PluginInv => OnlyChildRuns
  BY DEF PluginInv
<1> QED BY <1>1, PluginInvariant, PTL

\* For every number of processes and of commands that overlap: a worker that is to run runs once
\* everything under way has ended, unless it exited by itself while a command was stopping another
\* (handler of close, restart timer, the end of the commands).
THEOREM NoWorkerIsLost == PluginSpec => []WorkerIsNotLost
<1>1. PluginInv => WorkerIsNotLost
  <2> SUFFICES ASSUME PluginInv, serving, ~pauseFile, Settled PROVE Running # {} \/ forgotten
    BY DEF WorkerIsNotLost
  <2>1. timers = {} /\ \A p \in Pids : ~WillBeSeen(p)
    BY DEF Settled, WillBeSeen
  <2>2. \A c \in Stops : stops[c].of # "restart"
    BY DEF Settled, NoStop
  <2> QED BY <2>1, <2>2 DEF PluginInv, SomethingFollows
<1> QED BY <1>1, PluginInvariant, PTL

-----------------------------------------------------------------------------
(* The worker client: the cache of refusals *)

\* A set of naturals has a least element: in place of an induction, the least counterexample.
LEMMA Least ==
  ASSUME NEW T \in SUBSET Nat, T # {}
  PROVE  \E k \in T : \A m \in T : k <= m
<1> DEFINE R == OpToRel(<, Nat)
<1>1. IsWellFoundedOn(R, Nat)
  BY NatLessThanWellFounded
<1>2. PICK k \in T : \A m \in T : <<m, k>> \notin R
  <2> HIDE DEF R
  <2> QED BY <1>1, WFMin
<1>3. ASSUME NEW m \in T PROVE k <= m
  <2>1. k \in Nat /\ m \in Nat
    OBVIOUS
  <2>2. ~(m < k)
    BY <1>2, <2>1 DEF R, OpToRel
  <2> QED BY <2>1, <2>2
<1> QED BY <1>3

\* No job is remembered twice.
Distinct(seq) == \A i, k \in 1 .. Len(seq) : seq[i] = seq[k] => i = k

\* The first n jobs of seq, but for those that have run out.
KeptOf(f, seq, remains, n) ==
  IF n = 0 THEN <<>>
  ELSE IF remains[seq[n]] > 0 THEN Append(f[n - 1], seq[n]) ELSE f[n - 1]

\* What is kept is what it should be, up to n.
KeepsWell(f, seq, remains, n) ==
  /\ f[n] \in Seq(Offerable) /\ Len(f[n]) <= n
  /\ Remembered(f[n]) = {j \in {seq[i] : i \in 1 .. n} : remains[j] > 0}
  /\ Distinct(seq) => Distinct(f[n])

\* A function that computes what is kept, up to m.
Keeps(f, seq, remains, m) == f = [n \in 0 .. m |-> KeptOf(f, seq, remains, n)]

LEMMA KeepsOneMore ==
  ASSUME NEW seq \in Seq(Offerable), NEW remains, NEW f, NEW n \in 1 .. Len(seq),
         KeepsWell(f, seq, remains, n - 1), f[n] = KeptOf(f, seq, remains, n)
  PROVE  KeepsWell(f, seq, remains, n)
<1> DEFINE s == f[n - 1]  t == f[n]
<1>0. /\ n \in Nat /\ n # 0 /\ seq[n] \in Offerable /\ s \in Seq(Offerable) /\ Len(s) <= n - 1
      /\ Remembered(s) = {j \in {seq[i] : i \in 1 .. n - 1} : remains[j] > 0}
      /\ t = IF remains[seq[n]] > 0 THEN Append(s, seq[n]) ELSE s
      /\ Distinct(seq) => Distinct(s)
  BY DEF KeepsWell, KeptOf
<1>1. {seq[i] : i \in 1 .. n} = {seq[i] : i \in 1 .. n - 1} \cup {seq[n]}
  <2>1. 1 .. n = (1 .. n - 1) \cup {n}
    BY <1>0
  <2> QED BY <2>1
<1>2. CASE remains[seq[n]] > 0
  <2> HIDE DEF s
  <2>1. t = Append(s, seq[n]) /\ t \in Seq(Offerable) /\ Len(t) = Len(s) + 1 /\ Len(s) \in Nat
        /\ t[Len(s) + 1] = seq[n] /\ \A i \in 1 .. Len(s) : t[i] = s[i]
    BY <1>0, <1>2
  <2> HIDE DEF t
  <2>2. 1 .. Len(t) = (1 .. Len(s)) \cup {Len(s) + 1}
    BY <2>1
  <2>3. Remembered(t) = Remembered(s) \cup {seq[n]}
    BY <2>1, <2>2 DEF Remembered
  <2>4. Remembered(t) = {j \in {seq[i] : i \in 1 .. n} : remains[j] > 0}
    BY <1>0, <1>1, <1>2, <2>3
  <2>5. ASSUME Distinct(seq) PROVE Distinct(t)
    <3>1. seq[n] \notin Remembered(s)
      <4> SUFFICES ASSUME NEW i \in 1 .. n - 1, seq[i] = seq[n] PROVE FALSE
        BY <1>0
      <4>1. i \in 1 .. Len(seq) /\ n \in 1 .. Len(seq) /\ i # n
        OBVIOUS
      <4> QED BY <2>5, <4>1 DEF Distinct
    <3>2. \A i \in 1 .. Len(s) : s[i] # seq[n]
      BY <3>1 DEF Remembered
    <3> SUFFICES ASSUME NEW i \in 1 .. Len(t), NEW k \in 1 .. Len(t), t[i] = t[k] PROVE i = k
      BY DEF Distinct
    <3>3. CASE i \in 1 .. Len(s) /\ k \in 1 .. Len(s)
      BY <1>0, <2>1, <2>5, <3>3 DEF Distinct
    <3>4. CASE i \notin 1 .. Len(s) \/ k \notin 1 .. Len(s)
      BY <2>1, <2>2, <3>2, <3>4
    <3> QED BY <3>3, <3>4
  <2>6. Len(t) <= n
    BY <1>0, <2>1
  <2> QED BY <2>1, <2>4, <2>5, <2>6 DEF KeepsWell, t
<1>3. CASE ~(remains[seq[n]] > 0)
  <2>1. t = s
    BY <1>0, <1>3
  <2>2. Remembered(s) = {j \in {seq[i] : i \in 1 .. n} : remains[j] > 0}
    BY <1>0, <1>1, <1>3
  <2>3. Len(s) <= n
    BY <1>0
  <2> QED BY <1>0, <2>1, <2>2, <2>3 DEF KeepsWell
<1> QED BY <1>2, <1>3

LEMMA KeepsExist ==
  ASSUME NEW seq \in Seq(Offerable), NEW remains, NEW m \in Nat
  PROVE  \E f : Keeps(f, seq, remains, m)
<1> DEFINE T == {k \in Nat : ~ \E f : Keeps(f, seq, remains, k)}
<1> SUFFICES ASSUME T # {} PROVE FALSE
  OBVIOUS
<1>1. PICK k \in T : \A i \in T : k <= i
  <2>1. T \in SUBSET Nat
    OBVIOUS
  <2> HIDE DEF T
  <2> QED BY <2>1, Least
<1>2. k \in Nat /\ ~ \E f : Keeps(f, seq, remains, k)
  OBVIOUS
<1>3. CASE k = 0
  <2> DEFINE f == [n \in 0 .. 0 |-> <<>>]
  <2>1. 0 .. 0 = {0} /\ \A n \in 0 .. 0 : KeptOf(f, seq, remains, n) = <<>>
    BY DEF KeptOf
  <2>2. Keeps(f, seq, remains, 0)
    BY <2>1 DEF Keeps
  <2> HIDE DEF f
  <2> QED BY <1>2, <1>3, <2>2
<1>4. CASE k # 0
  <2>1. k - 1 \in Nat /\ k - 1 \notin T /\ k - 1 \in 0 .. k - 1 /\ k \in 0 .. k
    <3>1. k - 1 \in Nat /\ ~(k <= k - 1) /\ k - 1 \in 0 .. k - 1 /\ k \in 0 .. k
      BY <1>2, <1>4
    <3> HIDE DEF T
    <3> QED BY <1>1, <3>1
  <2>2. PICK h : Keeps(h, seq, remains, k - 1)
    BY <2>1
  <2> HIDE DEF T
  <2> DEFINE f == [n \in 0 .. k |-> IF n = k THEN KeptOf(h, seq, remains, k) ELSE h[n]]
  <2>3. f[k] = KeptOf(h, seq, remains, k) /\ \A n \in 0 .. k - 1 : f[n] = h[n]
    BY <1>2, <2>1
  <2>4. ASSUME NEW n \in 0 .. k
        PROVE  f[n] = KeptOf(f, seq, remains, n)
    <3>1. n # 0 => f[n - 1] = h[n - 1]
      BY <1>2, <2>3
    <3> HIDE DEF f
    <3>2. KeptOf(f, seq, remains, n) = KeptOf(h, seq, remains, n)
      BY <3>1 DEF KeptOf
    <3>3. n # k => n \in 0 .. k - 1
      BY <1>2
    <3>4. n \in 0 .. k - 1 => h[n] = KeptOf(h, seq, remains, n)
      BY <2>2, Zenon DEF Keeps
    <3> QED BY <2>3, <3>2, <3>3, <3>4
  <2>5. Keeps(f, seq, remains, k)
    <3>1. f = [n \in 0 .. k |-> f[n]]
      OBVIOUS
    <3> HIDE DEF f
    <3> QED BY <2>4, <3>1, Zenon DEF Keeps
  <2> HIDE DEF f
  <2> QED BY <1>2, <2>5
<1> QED BY <1>3, <1>4

\* What Kept returns: the jobs that have not run out, no more of them than there were.
LEMMA KeptFacts ==
  ASSUME NEW seq \in Seq(Offerable), NEW remains
  PROVE  /\ Kept(seq, remains) \in Seq(Offerable) /\ Len(Kept(seq, remains)) <= Len(seq)
         /\ Remembered(Kept(seq, remains)) = {j \in Remembered(seq) : remains[j] > 0}
         /\ Distinct(seq) => Distinct(Kept(seq, remains))
<1>0. Len(seq) \in Nat
  OBVIOUS
<1> DEFINE kept == CHOOSE f : f = [n \in 0 .. Len(seq) |-> KeptOf(f, seq, remains, n)]
<1>1. PICK f : Keeps(f, seq, remains, Len(seq))
  BY <1>0, KeepsExist
<1>3. kept = [n \in 0 .. Len(seq) |-> KeptOf(kept, seq, remains, n)]
  BY <1>1, Zenon DEF Keeps
<1>4. Kept(seq, remains) = kept[Len(seq)]
  BY Zenon DEF Kept, KeptOf
<1> HIDE DEF kept
<1>5. \A n \in 0 .. Len(seq) : KeepsWell(kept, seq, remains, n)
  <2> DEFINE T == {n \in 0 .. Len(seq) : ~KeepsWell(kept, seq, remains, n)}
  <2> SUFFICES ASSUME T # {} PROVE FALSE
    OBVIOUS
  <2>1. PICK k \in T : \A i \in T : k <= i
    <3>1. T \in SUBSET Nat
      BY <1>0
    <3> HIDE DEF T
    <3> QED BY <3>1, Least
  <2>2. k \in 0 .. Len(seq) /\ ~KeepsWell(kept, seq, remains, k) /\ k \in Nat
    BY <1>0
  <2>3. kept[k] = KeptOf(kept, seq, remains, k)
    BY <1>3, <2>2, Zenon
  <2>4. CASE k = 0
    <3>1. kept[0] = <<>>
      BY <2>3, <2>4 DEF KeptOf
    <3>2. 1 .. 0 = {} /\ Len(<<>>) = 0 /\ <<>> \in Seq(Offerable)
      OBVIOUS
    <3> QED BY <2>2, <2>4, <3>1, <3>2 DEF KeepsWell, Remembered, Distinct
  <2>5. CASE k # 0
    <3>1. k \in 1 .. Len(seq) /\ k - 1 \in 0 .. Len(seq) /\ ~(k <= k - 1)
      BY <1>0, <2>2, <2>5
    <3>2. KeepsWell(kept, seq, remains, k - 1)
      BY <2>1, <3>1
    <3> QED BY <2>2, <2>3, <3>1, <3>2, KeepsOneMore
  <2> QED BY <2>4, <2>5
<1>6. KeepsWell(kept, seq, remains, Len(seq))
  BY <1>0, <1>5
<1> QED BY <1>4, <1>6 DEF KeepsWell, Remembered

\* The cache of refusals: each job once, as long as it is to be remembered.
RefusalInv ==
  /\ refusals \in Seq(Offerable) /\ Len(refusals) <= MaxRefusals
  /\ left \in [Offerable -> 0 .. RefusalTurns]
  /\ Distinct(refusals)
  /\ \A j \in Offerable : left[j] > 0 <=> j \in Remembered(refusals)

LEMMA PrunedFacts ==
  ASSUME ClientAssumption, NEW seq \in Seq(Offerable), Len(seq) <= MaxRefusals + 1, Distinct(seq), NEW remains
  PROVE  /\ Pruned(seq, remains) \in Seq(Offerable) /\ Len(Pruned(seq, remains)) <= MaxRefusals
         /\ Distinct(Pruned(seq, remains))
         /\ Remembered(Pruned(seq, remains)) \subseteq {j \in Remembered(seq) : remains[j] > 0}
         /\ Len(seq) <= MaxRefusals =>
              Remembered(Pruned(seq, remains)) = {j \in Remembered(seq) : remains[j] > 0}
<1> DEFINE kept == Kept(seq, remains)
<1>1. /\ kept \in Seq(Offerable) /\ Len(kept) <= Len(seq) /\ Distinct(kept)
      /\ Remembered(kept) = {j \in Remembered(seq) : remains[j] > 0}
  BY KeptFacts
<1>2. MaxRefusals \in Nat /\ Len(seq) \in Nat
  BY DEF ClientAssumption
<1>3. Pruned(seq, remains) = IF Len(kept) > MaxRefusals THEN Tail(kept) ELSE kept
  BY DEF Pruned
<1> HIDE DEF kept
<1>4. CASE ~(Len(kept) > MaxRefusals)
  <2>1. Len(kept) <= MaxRefusals
    BY <1>1, <1>2, <1>4
  <2> QED BY <1>1, <1>3, <1>4, <2>1
<1>5. CASE Len(kept) > MaxRefusals
  <2>1. /\ Tail(kept) \in Seq(Offerable) /\ Len(Tail(kept)) = Len(kept) - 1 /\ Len(kept) \in Nat
        /\ \A i \in 1 .. Len(kept) - 1 : Tail(kept)[i] = kept[i + 1] /\ i + 1 \in 1 .. Len(kept)
    BY <1>1, <1>2, <1>5
  <2>2. Len(Tail(kept)) <= MaxRefusals /\ ~(Len(seq) <= MaxRefusals)
    BY <1>1, <1>2, <1>5, <2>1
  <2>3. Distinct(Tail(kept))
    BY <1>1, <2>1 DEF Distinct
  <2>4. Remembered(Tail(kept)) \subseteq Remembered(kept)
    BY <2>1 DEF Remembered
  <2> QED BY <1>1, <1>3, <1>5, <2>1, <2>2, <2>3, <2>4
<1> QED BY <1>4, <1>5

LEMMA AgedFacts ==
  ASSUME ClientAssumption, left \in [Offerable -> 0 .. RefusalTurns], NEW turns \in Nat
  PROVE  /\ Aged(turns) \in [Offerable -> 0 .. RefusalTurns]
         /\ \A j \in Offerable : Aged(turns)[j] > 0 => left[j] > 0
<1>1. RefusalTurns \in Nat
  BY DEF ClientAssumption
<1> QED BY <1>1 DEF Aged

LEMMA TurnOverKeeps ==
  ASSUME ClientAssumption, RefusalInv, NEW turns \in Nat, TurnOver(turns)
  PROVE  RefusalInv'
<1>1. PICK remains : remains = Aged(turns)
  OBVIOUS
<1>2. remains \in [Offerable -> 0 .. RefusalTurns] /\ \A j \in Offerable : remains[j] > 0 => left[j] > 0
  BY <1>1, AgedFacts DEF RefusalInv
<1>3. left' = remains /\ refusals' = Pruned(refusals, remains)
  BY <1>1 DEF TurnOver
<1>4. PICK seq : seq = Pruned(refusals, remains)
  OBVIOUS
<1>5. Len(refusals) <= MaxRefusals + 1
  BY DEF RefusalInv, ClientAssumption
<1>6. /\ seq \in Seq(Offerable) /\ Len(seq) <= MaxRefusals /\ Distinct(seq)
      /\ Remembered(seq) = {j \in Remembered(refusals) : remains[j] > 0}
  BY <1>4, <1>5, PrunedFacts DEF RefusalInv
<1>7. \A j \in Offerable : remains[j] > 0 <=> j \in Remembered(seq)
  BY <1>2, <1>6 DEF RefusalInv
<1> QED BY <1>2, <1>3, <1>4, <1>6, <1>7 DEF RefusalInv

LEMMA RefusingKeeps ==
  ASSUME ClientAssumption, RefusalInv, NEW j \in Offerable, NEW lasts \in 0 .. RefusalTurns, NEW turns \in Nat,
         TurnOverRefusing(j, lasts, turns)
  PROVE  RefusalInv'
<1>1. PICK remains : remains = [Aged(turns) EXCEPT ![j] = lasts]
  OBVIOUS
<1>2. remains \in [Offerable -> 0 .. RefusalTurns]
  BY <1>1, AgedFacts DEF RefusalInv
<1>3. PICK seq : seq = IF j \in Remembered(refusals) THEN refusals ELSE Append(refusals, j)
  OBVIOUS
<1>4. seq \in Seq(Offerable) /\ Len(seq) <= MaxRefusals + 1 /\ Distinct(seq)
  <2>1. refusals \in Seq(Offerable) /\ Len(refusals) <= MaxRefusals /\ Distinct(refusals) /\ MaxRefusals \in Nat
        /\ Len(refusals) \in Nat
    BY DEF RefusalInv, ClientAssumption
  <2>2. CASE j \in Remembered(refusals)
    BY <1>3, <2>1, <2>2
  <2>3. CASE j \notin Remembered(refusals)
    <3>1. seq = Append(refusals, j)
      BY <1>3, <2>3
    <3>2. \A i \in 1 .. Len(refusals) : refusals[i] # j
      BY <2>3 DEF Remembered
    <3>3. seq \in Seq(Offerable) /\ Len(seq) = Len(refusals) + 1 /\ seq[Len(refusals) + 1] = j
          /\ \A i \in 1 .. Len(refusals) : seq[i] = refusals[i]
      BY <2>1, <3>1
    <3> HIDE <3>1
    <3>4. 1 .. Len(seq) = (1 .. Len(refusals)) \cup {Len(refusals) + 1}
      BY <2>1, <3>3
    <3>5. Distinct(seq)
      BY <2>1, <3>2, <3>3, <3>4 DEF Distinct
    <3> QED BY <2>1, <3>3, <3>5
  <2> QED BY <2>2, <2>3
<1>5. /\ refusals' = Pruned(seq, remains)
      /\ left' = [i \in Offerable |-> IF i \in Remembered(refusals') THEN remains[i] ELSE 0]
  BY <1>1, <1>3 DEF TurnOverRefusing
<1>6. PICK kept : kept = Pruned(seq, remains)
  OBVIOUS
<1>7. /\ kept \in Seq(Offerable) /\ Len(kept) <= MaxRefusals /\ Distinct(kept)
      /\ \A i \in Remembered(kept) : remains[i] > 0
  BY <1>4, <1>6, PrunedFacts
<1>8. PICK lefts : lefts = [i \in Offerable |-> IF i \in Remembered(kept) THEN remains[i] ELSE 0]
  OBVIOUS
<1>9. lefts \in [Offerable -> 0 .. RefusalTurns] /\ \A i \in Offerable : lefts[i] > 0 <=> i \in Remembered(kept)
  BY <1>2, <1>7, <1>8 DEF ClientAssumption
<1>10. refusals' = kept /\ left' = lefts
  BY <1>5, <1>6, <1>8
<1> QED BY <1>7, <1>9, <1>10 DEF RefusalInv

\* A lease is the one the loop works on, unless there was trouble.
LeaseIsKnown ==
  \A j \in Offerable :
    jobAt[j] \in {"mine", "lapsed"} =>
      hitches > 0 \/ (client.job = j /\ client.pc \in {"working", "failed"})

\* The worker is at one job, and when it is offered one at none.
OneAtATime ==
  /\ \A i, j \in Active : i = j
  /\ At("offered") => Active = {}
  /\ At("working") \/ At("failed") => Active \subseteq {client.job}

ClientInv == ClientTypeOK /\ RefusalInv /\ LeaseIsKnown /\ OneAtATime

LEMMA RefusalStep == ClientAssumption /\ ClientTypeOK /\ RefusalInv /\ [ClientNext]_clientVars => RefusalInv'
<1> SUFFICES ASSUME ClientAssumption, ClientTypeOK, RefusalInv, [ClientNext]_clientVars PROVE RefusalInv'
  OBVIOUS
<1>0. PICK current : current = client.job
  OBVIOUS
<1>1. /\ current \in Offerable /\ 1 \in Nat /\ FailingTurns \in Nat
      /\ RefusalTurns \in 0 .. RefusalTurns /\ ClaimTurns \in 0 .. RefusalTurns
  BY <1>0 DEF ClientTypeOK, ClientAssumption
<1>2. CASE UNCHANGED <<refusals, left>>
  BY <1>2 DEF RefusalInv
<1>3. CASE TurnOver(1)
  BY <1>1, <1>3, TurnOverKeeps
<1>4. CASE \E lasts \in {RefusalTurns, ClaimTurns}, turns \in {1, FailingTurns} : TurnOverRefusing(current, lasts, turns)
  BY <1>1, <1>4, RefusingKeeps
<1>5. CASE ClientDies
  <2>1. refusals' = <<>> /\ left' = [j \in Offerable |-> 0]
    BY <1>5 DEF ClientDies
  <2>2. <<>> \in Seq(Offerable) /\ Len(<<>>) = 0 /\ MaxRefusals \in Nat /\ RefusalTurns \in Nat
    BY DEF ClientAssumption
  <2> QED BY <2>1, <2>2 DEF RefusalInv, Distinct, Remembered
<1>6. CASE PollIdle \/ PollFails
  BY <1>3, <1>6 DEF PollIdle, PollFails
<1>7. CASE Preflight \/ GiveUp \/ GiveUpUnheard
  BY <1>0, <1>4, <1>7 DEF Preflight, GiveUp, GiveUpUnheard
<1>8. CASE ClaimOffered
  BY <1>0, <1>2, <1>4, <1>8 DEF ClaimOffered
<1>9. CASE SubmitWork
  BY <1>2, <1>3, <1>9 DEF SubmitWork
<1>10. CASE InstallClient \/ StartClient \/ PollOffers \/ WorkFails \/ SubmitUnanswered
  BY <1>2, <1>10 DEF InstallClient, StartClient, PollOffers, WorkFails, SubmitUnanswered
<1>11. CASE \E j \in Offerable : LeaseLapses(j) \/ OtherTakes(j) \/ OtherLeaves(j) \/ Reaped(j) \/ Judged(j)
  BY <1>2, <1>11 DEF LeaseLapses, OtherTakes, OtherLeaves, Reaped, Judged
<1>12. CASE UNCHANGED clientVars
  BY <1>2, <1>12 DEF clientVars
<1> QED
  BY <1>5, <1>6, <1>7, <1>8, <1>9, <1>10, <1>11, <1>12 DEF ClientNext, LoopStep

\* Where the loop may be, and the states of a job.
ClientPlaces == {"absent", "down", "polling", "offered", "working", "failed"}
JobStates == {"open", "mine", "lapsed", "other", "verifying", "over"}

LEMMA ClientTypeStep ==
  ClientAssumption /\ ClientTypeOK /\ RefusalInv' /\ [ClientNext]_clientVars => ClientTypeOK'
<1> SUFFICES ASSUME ClientAssumption, ClientTypeOK, RefusalInv', [ClientNext]_clientVars PROVE ClientTypeOK'
  OBVIOUS
<1>1. (refusals \in Seq(Offerable) /\ Len(refusals) <= MaxRefusals /\ left \in [Offerable -> 0 .. RefusalTurns])'
  BY DEF RefusalInv
<1>2. UNCHANGED <<wanted, nature>>
  BY DEF ClientNext, LoopStep, clientVars, InstallClient, StartClient, PollIdle, PollFails, PollOffers, Preflight,
         ClaimOffered, WorkFails, SubmitWork, SubmitUnanswered, GiveUp, GiveUpUnheard, ClientDies, LeaseLapses,
         OtherTakes, OtherLeaves, Reaped, Judged
<1>3. takes' \in 0 .. MaxTakes /\ hitches' \in 0 .. MaxTroubles
  <2>1. takes \in 0 .. MaxTakes /\ hitches \in 0 .. MaxTroubles /\ MaxTakes \in Nat /\ MaxTroubles \in Nat
    BY DEF ClientTypeOK, ClientAssumption
  <2>2. takes' = takes \/ (takes < MaxTakes /\ takes' = takes + 1)
    BY DEF ClientNext, LoopStep, clientVars, InstallClient, StartClient, PollIdle, PollFails, PollOffers,
           Preflight, ClaimOffered, WorkFails, SubmitWork, SubmitUnanswered, GiveUp, GiveUpUnheard, ClientDies,
           LeaseLapses, OtherTakes, OtherLeaves, Reaped, Judged
  <2>3. hitches' = hitches \/ Hitch
    BY DEF ClientNext, LoopStep, clientVars, InstallClient, StartClient, PollIdle, PollFails, PollOffers,
           Preflight, ClaimOffered, WorkFails, SubmitWork, SubmitUnanswered, GiveUp, GiveUpUnheard, ClientDies,
           LeaseLapses, OtherTakes, OtherLeaves, Reaped, Judged
  <2> QED BY <2>1, <2>2, <2>3 DEF Hitch
<1>4. jobAt' \in [Offerable -> JobStates]
  BY DEF ClientTypeOK, JobStates, Becomes,
         ClientNext, LoopStep, clientVars, InstallClient, StartClient, PollIdle, PollFails, PollOffers, Preflight,
         ClaimOffered, WorkFails, SubmitWork, SubmitUnanswered, GiveUp, GiveUpUnheard, ClientDies, LeaseLapses,
         OtherTakes, OtherLeaves, Reaped, Judged
<1>5. client' \in [pc : ClientPlaces, job : Offerable]
  <2>1. client \in [pc : ClientPlaces, job : Offerable] /\ 1 \in Offerable
    BY DEF ClientTypeOK, ClientPlaces, ClientAssumption, Offerable
  <2>2. Polling \in [pc : ClientPlaces, job : Offerable] /\ Down \in [pc : ClientPlaces, job : Offerable]
    BY <2>1 DEF Polling, Down, ClientPlaces
  <2>3. \A pc \in {"working", "failed"} : [client EXCEPT !.pc = pc] \in [pc : ClientPlaces, job : Offerable]
    BY <2>1 DEF ClientPlaces
  <2>4. \A j \in Claimable : [pc |-> "offered", job |-> j] \in [pc : ClientPlaces, job : Offerable]
    BY DEF Claimable, InWindow, Candidates, ClientPlaces
  <2>5. \/ client' = client \/ client' = Polling \/ client' = Down
        \/ \E pc \in {"working", "failed"} : client' = [client EXCEPT !.pc = pc]
        \/ \E j \in Claimable : client' = [pc |-> "offered", job |-> j]
    BY DEF TurnOver, TurnOverRefusing, Goes,
           ClientNext, LoopStep, clientVars, InstallClient, StartClient, PollIdle, PollFails, PollOffers, Preflight,
           ClaimOffered, WorkFails, SubmitWork, SubmitUnanswered, GiveUp, GiveUpUnheard, ClientDies, LeaseLapses,
           OtherTakes, OtherLeaves, Reaped, Judged
  <2> QED BY <2>1, <2>2, <2>3, <2>4, <2>5
<1> QED BY <1>1, <1>2, <1>3, <1>4, <1>5 DEF ClientTypeOK, ClientPlaces, JobStates

LEMMA LeaseStep ==
  ClientAssumption /\ ClientTypeOK /\ LeaseIsKnown /\ OneAtATime /\ [ClientNext]_clientVars
    => LeaseIsKnown' /\ OneAtATime'
<1> SUFFICES ASSUME ClientAssumption, ClientTypeOK, LeaseIsKnown, OneAtATime, [ClientNext]_clientVars
             PROVE  LeaseIsKnown' /\ OneAtATime'
  OBVIOUS
<1> USE DEF LeaseIsKnown, OneAtATime, Active, At
<1>0. /\ jobAt \in [Offerable -> {"open", "mine", "lapsed", "other", "verifying", "over"}]
      /\ client \in [pc : {"absent", "down", "polling", "offered", "working", "failed"}, job : Offerable]
      /\ hitches \in Nat /\ (Hitch => hitches' \in Nat /\ hitches' > 0)
  BY DEF ClientTypeOK, ClientAssumption, Hitch
<1>1. CASE InstallClient \/ StartClient
  BY <1>0, <1>1 DEF InstallClient, StartClient, Down, NotInstalled, Polling
<1>2. CASE PollIdle
  BY <1>0, <1>2 DEF PollIdle, TurnOver, Polling
<1>3. CASE PollFails
  BY <1>0, <1>3 DEF PollFails, TurnOver, Polling, Hitch
<1>4. CASE PollOffers
  BY <1>0, <1>4 DEF PollOffers
<1>5. CASE Preflight
  BY <1>0, <1>5 DEF Preflight, TurnOverRefusing, Polling
<1>6. CASE ClaimOffered
  BY <1>0, <1>6 DEF ClaimOffered, TurnOverRefusing, Polling, Goes, Becomes
<1>7. CASE WorkFails
  BY <1>0, <1>7 DEF WorkFails, Goes
<1>8. CASE SubmitWork
  BY <1>0, <1>8 DEF SubmitWork, TurnOver, Polling, Goes, Becomes
<1>9. CASE SubmitUnanswered
  BY <1>0, <1>9 DEF SubmitUnanswered, Goes, Becomes
<1>10. CASE GiveUp
  BY <1>0, <1>10 DEF GiveUp, TurnOverRefusing, Polling
<1>11. CASE GiveUpUnheard
  BY <1>0, <1>11 DEF GiveUpUnheard, TurnOverRefusing, Polling
<1>12. CASE ClientDies
  BY <1>0, <1>12 DEF ClientDies, Down
<1>13. ASSUME NEW j \in Offerable, LeaseLapses(j) \/ OtherTakes(j) \/ OtherLeaves(j) \/ Reaped(j) \/ Judged(j)
       PROVE  LeaseIsKnown' /\ OneAtATime'
  <2>1. CASE LeaseLapses(j)
    BY <1>0, <2>1 DEF LeaseLapses, Becomes
  <2>2. CASE OtherTakes(j)
    BY <1>0, <2>2 DEF OtherTakes, Becomes
  <2>3. CASE OtherLeaves(j)
    BY <1>0, <2>3 DEF OtherLeaves, Becomes
  <2>4. CASE Reaped(j) \/ Judged(j)
    BY <1>0, <2>4 DEF Reaped, Judged, Becomes
  <2> QED BY <1>13, <2>1, <2>2, <2>3, <2>4
<1>14. CASE UNCHANGED clientVars
  BY <1>14 DEF clientVars
<1> QED
  BY <1>1, <1>2, <1>3, <1>4, <1>5, <1>6, <1>7, <1>8, <1>9, <1>10, <1>11, <1>12, <1>13, <1>14
     DEF ClientNext, LoopStep

LEMMA ClientInitInv == ClientAssumption /\ ClientInit => ClientInv
<1> SUFFICES ASSUME ClientAssumption, ClientInit PROVE ClientInv
  OBVIOUS
<1>1. /\ <<>> \in Seq(Offerable) /\ Len(<<>>) = 0 /\ MaxRefusals \in Nat /\ RefusalTurns \in Nat
      /\ MaxTakes \in Nat /\ MaxTroubles \in Nat /\ 1 \in Offerable
  BY DEF ClientAssumption, Offerable
<1>2. RefusalInv
  BY <1>1 DEF ClientInit, RefusalInv, Distinct, Remembered
<1>3. ClientTypeOK
  BY <1>1 DEF ClientInit, ClientTypeOK, NotInstalled
<1>4. LeaseIsKnown /\ OneAtATime
  BY DEF ClientInit, LeaseIsKnown, OneAtATime, Active, At, NotInstalled
<1> QED BY <1>2, <1>3, <1>4 DEF ClientInv

LEMMA ClientStepInv == ClientInv /\ [ClientNext]_clientVars => ClientInv'
  BY ClientAssumption, RefusalStep, ClientTypeStep, LeaseStep DEF ClientInv

\* The worker client by itself.
ClientSpec == ClientInit /\ [][ClientNext]_clientVars

\* For every number of jobs and every size of the window and of the cache: the inductive invariant
\* of the loop and its cache.
THEOREM ClientInvariant == ClientSpec => []ClientInv
<1>1. ClientInit => ClientInv
  BY ClientAssumption, ClientInitInv
<1> QED BY <1>1, ClientStepInv, PTL DEF ClientSpec

\* A job is excluded exactly as long as its refusal lasts, once, and never more than MaxRefusals are
\* (addRefusal and pruneRefuseCache, however turns, crashes and repeated refusals come).
RefusalsAreCurrent ==
  /\ Len(refusals) <= MaxRefusals /\ Distinct(refusals)
  /\ \A j \in Offerable : j \in Remembered(refusals) <=> left[j] > 0

\* For every number of jobs, every window and every size of the cache.
THEOREM RefusalsStayCurrent == ClientSpec => []RefusalsAreCurrent
<1>1. ClientInv => RefusalsAreCurrent
  BY DEF ClientInv, RefusalInv, RefusalsAreCurrent
<1> QED BY <1>1, ClientInvariant, PTL

\* The worker is never at two jobs, although the API looks for an active one when it offers a job
\* and the job is claimed later (getActiveJobForWorker against the claim).
WorksAtOneJob == \A i, j \in Active : i = j

\* The worker holds no lease that its loop does not know of, unless it died, a call failed or a
\* lease ran out: what it gives up it gives back (the loop's handler of errors).
ForgetsNoLease == HoldsForgotten => hitches > 0

\* For every number of jobs and every order of claims, failures, expiries and restarts.
THEOREM LeasesAreKnown == ClientSpec => [](WorksAtOneJob /\ ForgetsNoLease)
<1>1. ClientInv => WorksAtOneJob /\ ForgetsNoLease
  BY DEF ClientInv, LeaseIsKnown, OneAtATime, WorksAtOneJob, ForgetsNoLease, HoldsForgotten, At
<1> QED BY <1>1, ClientInvariant, PTL

-----------------------------------------------------------------------------
(* The run of all components *)

\* The invariant of the component that moves.
MovingInv ==
  /\ moving = "artifacts" => ArtifactInv
  /\ moving = "nonces" => NonceInv
  /\ moving = "migrations" => MigrationInv
  /\ moving = "rates" => RateInv
  /\ moving = "ingest" => IngestInv
  /\ moving = "plugin" => PluginInv
  /\ moving = "client" => ClientInv

\* One component's step keeps the invariants.
LEMMA OnlyKeeps ==
  ASSUME MovingInv, NEW component,
         moving = component, moving' = moving,
         component = "artifacts" => [Next]_vars,
         component = "nonces" => [NonceNext]_nonceVars,
         component = "migrations" => [MigrationNext]_migrationVars,
         component = "rates" => [RateNext]_rateVars,
         component = "ingest" => [IngestNext]_ingestVars,
         component = "plugin" => [PluginNext]_pluginVars,
         component = "client" => [ClientNext]_clientVars
  PROVE  MovingInv'
<1>1. component = "artifacts" => ArtifactInv'
  BY ArtifactStepInv DEF MovingInv
<1>2. component = "nonces" => NonceInv'
  BY NonceStepInv DEF MovingInv
<1>3. component = "migrations" => MigrationInv'
  BY MigrationStepInv, MigrationAssumption DEF MovingInv
<1>4. component = "rates" => RateInv'
  BY RateStepInv, RateLimitAssumption DEF MovingInv
<1>5. component = "ingest" => IngestInv'
  BY IngestStepInv DEF MovingInv
<1>6. component = "plugin" => PluginInv'
  BY PluginStepInv DEF MovingInv
<1>7. component = "client" => ClientInv'
  BY ClientStepInv DEF MovingInv
<1> QED BY <1>1, <1>2, <1>3, <1>4, <1>5, <1>6, <1>7 DEF MovingInv

\* The type invariant of all seven components, for every value of their constants, as the run
\* composes them.
THEOREM ServicesTypeCorrect == ServicesSpec => []ServicesTypeOK
<1>1. ServicesInit => MovingInv
  BY ArtifactAssumption, ArtifactInitInv, NonceAssumption, NonceInitInv, MigrationAssumption, MigrationInitInv,
     RateLimitAssumption, RateInitInv, IngestAssumption, IngestInitInv, PluginAssumption, PluginInitInv,
     ClientAssumption, ClientInitInv
     DEF ServicesInit, MovingInv
<1>2. MovingInv /\ [ServicesNext]_servicesVars => MovingInv'
  <2> SUFFICES ASSUME MovingInv, [ServicesNext]_servicesVars PROVE MovingInv'
    OBVIOUS
  <2>1. CASE UNCHANGED servicesVars
    BY <2>1, OnlyKeeps DEF servicesVars, artifactVars
  <2>2. CASE ServicesNext
    BY <2>2, OnlyKeeps DEF ServicesNext, Only, ArtifactNext
  <2> QED BY <2>1, <2>2
<1>3. MovingInv => ServicesTypeOK
  BY DEF MovingInv, ServicesTypeOK, ArtifactInv, NonceInv, MigrationInv, RateInv, IngestInv, PluginInv, ClientInv
<1> QED BY <1>1, <1>2, <1>3, PTL DEF ServicesSpec
=============================================================================
