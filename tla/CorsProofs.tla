------------------------------ MODULE CorsProofs ------------------------------
(***************************************************************************)
(* No answer of the CORS hook is older than one cache entry, for every     *)
(* number of organisations, requests and changes and every lifetime.       *)
(***************************************************************************)
EXTENDS Cors, TLAPS

\* At some moment since this time the database said so: l was found, or not.
HeldSince(l, has, t) ==
  /\ l = Union /\ has => \E o \in Orgs : ListedAfter(o, t - 1)
  /\ l = Union /\ ~has => \A o \in Orgs : UnlistedAfter(o, t - 1)
  /\ \A o \in Orgs :
       /\ l = <<"key", o>> /\ has => ValidAfter(o, t - 1)
       /\ l = <<"key", o>> /\ ~has => o \notin keys
       /\ l = <<"list", o>> /\ has => ListedAfter(o, t - 1)
       /\ l = <<"list", o>> /\ ~has => UnlistedAfter(o, t - 1)

\* No time is later than the clock.
TimesArePast ==
  /\ \A b \in Browsers : request[b].now <= clock
  /\ \A l \in Lookups : cache[l].ends - CacheTtl <= clock

\* An entry says what held since the request that stored it came.
EntriesAreTrue ==
  \A l \in Lookups : cache[l].ends > 0 => HeldSince(l, cache[l].has, cache[l].ends - CacheTtl)

\* So does a row that was read, and who is at the list of an organisation has had its valid key.
RequestIsTrue(b) ==
  /\ request[b].row # "unread" => request[b].at \in Lookups
  /\ request[b].row = "yes" => HeldSince(request[b].at, TRUE, request[b].now)
  /\ request[b].row = "no" => HeldSince(request[b].at, FALSE, request[b].now)
  /\ request[b].at \in Lookups /\ request[b].at[1] = "list" =>
       ValidAfter(request[b].at[2], request[b].now - CacheTtl)

RequestsAreTrue == \A b \in Browsers : RequestIsTrue(b)

CorsInv == CorsTypeOK /\ TimesArePast /\ EntriesAreTrue /\ RequestsAreTrue

\* The three kinds of lookups, which are no answers.
LEMMA LookupKinds ==
  ASSUME NEW l \in Lookups
  PROVE  /\ \/ l = Union /\ l[1] = "union"
            \/ \E o \in Orgs : l = <<"key", o>> /\ l[1] = "key" /\ l[2] = o /\ l # Union
            \/ \E o \in Orgs : l = <<"list", o>> /\ l[1] = "list" /\ l[2] = o /\ l # Union
         /\ l \notin {Unasked, Allowed, Forbidden}
  BY DEF Lookups, Union, Unasked, Allowed, Forbidden

\* What held since a time goes on having held since then: a change dates what it ends.
LEMMA HeldStays ==
  ASSUME CorsAssumption, CorsTypeOK, NEW l \in Lookups, NEW has \in BOOLEAN, NEW t \in Int, t <= clock,
         HeldSince(l, has, t),
         \/ UNCHANGED <<listed, keys, relisted, revokedAt>>
         \/ \E o \in Orgs : SetAllowlist(o) \/ RevokeKey(o)
  PROVE  HeldSince(l, has, t)'
<1>1. CASE UNCHANGED <<listed, keys, relisted, revokedAt>>
  BY <1>1 DEF HeldSince, ListedAfter, UnlistedAfter, ValidAfter
<1>2. ASSUME NEW o \in Orgs, SetAllowlist(o) PROVE HeldSince(l, has, t)'
  BY <1>2, LookupKinds DEF SetAllowlist, HeldSince, ListedAfter, UnlistedAfter, ValidAfter, CorsTypeOK, Clock
<1>3. ASSUME NEW o \in Orgs, RevokeKey(o) PROVE HeldSince(l, has, t)'
  BY <1>3, LookupKinds DEF RevokeKey, HeldSince, ListedAfter, UnlistedAfter, ValidAfter, CorsTypeOK, Clock
<1> QED
  BY <1>1, <1>2, <1>3

\* What the database says at this moment holds since any earlier one.
LEMMA FoundHolds ==
  ASSUME CorsTypeOK, NEW l \in Lookups, NEW t
  PROVE  (l \in Found => HeldSince(l, TRUE, t)) /\ (l \notin Found => HeldSince(l, FALSE, t))
<1>1. (l = Union) => (l \in Found <=> listed # {})
  BY LookupKinds DEF Found, Union
<1>2. \A o \in Orgs : /\ l = <<"key", o>> => (l \in Found <=> o \in keys)
                      /\ l = <<"list", o>> => (l \in Found <=> o \in listed)
  BY LookupKinds DEF Found, Union
<1> QED
  BY <1>1, <1>2, LookupKinds DEF HeldSince, ListedAfter, UnlistedAfter, ValidAfter, CorsTypeOK

LEMMA CorsInitInv == CorsAssumption /\ CorsInit => CorsInv
<1> SUFFICES ASSUME CorsAssumption, CorsInit PROVE CorsInv
  OBVIOUS
<1> USE DEF CorsAssumption, CorsInit
<1>1. CorsTypeOK
  BY DEF CorsTypeOK, Clock, Never, Answered, Asking
<1>2. TimesArePast
  BY DEF TimesArePast, Answered, Asking
<1>3. EntriesAreTrue
  BY DEF EntriesAreTrue
<1>4. RequestsAreTrue
  BY LookupKinds DEF RequestsAreTrue, RequestIsTrue, Answered, Asking
<1> QED
  BY <1>1, <1>2, <1>3, <1>4 DEF CorsInv

\* The clock and the operators: what requests and entries say goes on having held.
LEMMA RowsInv ==
  ASSUME CorsAssumption, CorsInv, ClockTicks \/ \E o \in Orgs : SetAllowlist(o) \/ RevokeKey(o)
  PROVE  CorsInv'
<1>1. UNCHANGED <<cache, request>> /\ clock <= clock' /\ clock \in Int /\ clock' \in Int
  BY DEF ClockTicks, SetAllowlist, RevokeKey, CorsInv, CorsTypeOK, Clock
<1>2. CorsTypeOK'
  BY DEF ClockTicks, SetAllowlist, RevokeKey, CorsInv, CorsTypeOK, Clock, CorsAssumption
<1>3. TimesArePast'
  BY <1>1 DEF CorsInv, TimesArePast, CorsTypeOK, CorsAssumption, Clock
<1>4. \A l \in Lookups, has \in BOOLEAN, t \in Int :
        t <= clock /\ HeldSince(l, has, t) => HeldSince(l, has, t)'
  BY HeldStays DEF CorsInv, ClockTicks
<1>5. EntriesAreTrue'
  <2> SUFFICES ASSUME NEW l \in Lookups, cache[l].ends > 0
               PROVE  HeldSince(l, cache[l].has, cache[l].ends - CacheTtl)'
    BY <1>1 DEF EntriesAreTrue
  <2>1. PICK has \in BOOLEAN, t \in Int : has = cache[l].has /\ t = cache[l].ends - CacheTtl
    BY DEF CorsInv, CorsTypeOK, CorsAssumption
  <2>2. HeldSince(l, has, t)'
    BY <1>4, <2>1 DEF CorsInv, TimesArePast, EntriesAreTrue
  <2> QED
    BY <1>1, <2>1, <2>2 DEF HeldSince, ListedAfter, UnlistedAfter, ValidAfter
<1>6. RequestsAreTrue'
  <2> SUFFICES ASSUME NEW b \in Browsers PROVE RequestIsTrue(b)'
    BY DEF RequestsAreTrue
  <2>1. request[b].now \in Int /\ request[b].now <= clock /\ RequestIsTrue(b)
    BY DEF CorsInv, TimesArePast, CorsTypeOK, Clock, RequestsAreTrue
  <2>2. ASSUME NEW has \in BOOLEAN, request[b].row = IF has THEN "yes" ELSE "no"
        PROVE  HeldSince(request[b].at, has, request[b].now)'
    <3>1. PICK l \in Lookups, t \in Int : l = request[b].at /\ t = request[b].now
      BY <2>1, <2>2 DEF RequestIsTrue
    <3>2. HeldSince(l, has, t)'
      BY <1>4, <2>1, <2>2, <3>1 DEF RequestIsTrue
    <3> QED
      BY <1>1, <3>1, <3>2 DEF HeldSince, ListedAfter, UnlistedAfter, ValidAfter
  <2>3. ASSUME request[b].at \in Lookups, request[b].at[1] = "list"
        PROVE  ValidAfter(request[b].at[2], request[b].now - CacheTtl)'
    <3>1. PICK o \in Orgs : o = request[b].at[2]
      BY <2>3, LookupKinds
    <3>2. ValidAfter(o, request[b].now - CacheTtl)
      BY <2>1, <2>3, <3>1 DEF RequestIsTrue
    <3> QED
      BY <1>1, <2>1, <3>1, <3>2 DEF ClockTicks, SetAllowlist, RevokeKey, ValidAfter, CorsInv, CorsTypeOK,
         CorsAssumption, Clock
  <2> QED
    BY <1>1, <2>1, <2>2, <2>3 DEF RequestIsTrue
<1> QED
  BY <1>2, <1>3, <1>5, <1>6 DEF CorsInv

\* Nothing changes for a request, or for an entry, that a step of another request leaves alone.
LEMMA RequestStays ==
  ASSUME NEW b \in Browsers, RequestIsTrue(b), request'[b] = request[b],
         UNCHANGED <<listed, keys, relisted, revokedAt>>
  PROVE  RequestIsTrue(b)'
  BY DEF RequestIsTrue, HeldSince, ListedAfter, UnlistedAfter, ValidAfter

\* Where a lookup leads.
LEMMA DecidedCases ==
  ASSUME NEW q, q.at \in Lookups, NEW has \in BOOLEAN
  PROVE  \/ ~has /\ Decided(q, has) = Answered(Forbidden)
         \/ has /\ q.at = Union /\ Decided(q, has) = Answered(Allowed)
         \/ \E o \in Orgs :
              has /\ q.at = <<"key", o>> /\ Decided(q, has) = Asking(<<"list", o>>, q.now)
         \/ \E o \in Orgs : has /\ q.at = <<"list", o>> /\ Decided(q, has) = Answered(Allowed)
<1>1. CASE ~has
  BY <1>1 DEF Decided
<1>2. CASE has /\ q.at = Union
  BY <1>2 DEF Decided, Union
<1>3. ASSUME NEW o \in Orgs, has, q.at = <<"key", o>>
      PROVE  Decided(q, has) = Asking(<<"list", o>>, q.now)
  BY <1>3 DEF Decided
<1>4. ASSUME NEW o \in Orgs, has, q.at = <<"list", o>>
      PROVE  Decided(q, has) = Answered(Allowed)
  BY <1>4 DEF Decided
<1> QED
  BY <1>1, <1>2, <1>3, <1>4, LookupKinds

\* A lookup that ends with what was true not long ago leaves its request with what is true.
LEMMA DecidedIsTrue ==
  ASSUME CorsAssumption, CorsTypeOK, NEW b \in Browsers, NEW has \in BOOLEAN, NEW t \in Int,
         request[b].at \in Lookups, HeldSince(request[b].at, has, t),
         t > request[b].now - CacheTtl, request[b].now <= clock,
         request' = [request EXCEPT ![b] = Decided(request[b], has)],
         UNCHANGED <<clock, listed, keys, relisted, revokedAt>>
  PROVE  /\ RequestIsTrue(b)'
         /\ request' \in [Browsers -> [at : Lookups \cup {Unasked, Allowed, Forbidden},
                                       now : Clock, row : {"unread", "no", "yes"}]]
         /\ \A c \in Browsers : request'[c].now = request[c].now \/ request'[c].now = 0
<1>1. request[b].now \in Clock /\ 0 \in Clock /\ clock \in Clock
  BY DEF CorsTypeOK, CorsAssumption, Clock
<1>2. request'[b] = Decided(request[b], has)
  BY DEF CorsTypeOK
<1>3. CASE Decided(request[b], has) \in {Answered(Forbidden), Answered(Allowed)}
  <2>1. /\ request'[b].row = "unread" /\ request'[b].now = 0 /\ request'[b].at \in {Forbidden, Allowed}
        /\ request'[b] \in [at : Lookups \cup {Unasked, Allowed, Forbidden}, now : Clock,
                            row : {"unread", "no", "yes"}]
    BY <1>1, <1>2, <1>3 DEF Answered, Asking
  <2>2. request'[b].at \notin Lookups
    BY <2>1, LookupKinds
  <2> QED
    BY <1>2, <2>1, <2>2 DEF RequestIsTrue, CorsTypeOK
<1>4. ASSUME NEW o \in Orgs, has, request[b].at = <<"key", o>>,
             Decided(request[b], has) = Asking(<<"list", o>>, request[b].now)
      PROVE  /\ RequestIsTrue(b)'
             /\ request'[b] \in [at : Lookups \cup {Unasked, Allowed, Forbidden}, now : Clock,
                                 row : {"unread", "no", "yes"}]
             /\ request'[b].now = request[b].now
  <2>1. <<"list", o>> \in Lookups
    BY DEF Lookups
  <2>2. request'[b] = [at |-> <<"list", o>>, now |-> request[b].now, row |-> "unread"]
    BY <1>2, <1>4 DEF Asking
  <2>3. /\ request'[b].at = <<"list", o>> /\ request'[b].now = request[b].now /\ request'[b].row = "unread"
        /\ request'[b] \in [at : Lookups \cup {Unasked, Allowed, Forbidden}, now : Clock,
                            row : {"unread", "no", "yes"}]
    BY <1>1, <2>1, <2>2
  <2>4. ValidAfter(o, t - 1)
    BY <1>4 DEF HeldSince
  <2>5. ValidAfter(o, request[b].now - CacheTtl)'
    BY <1>1, <2>3, <2>4 DEF ValidAfter, CorsTypeOK, CorsAssumption, Clock, Never
  <2>6. ValidAfter(request[b].at[2], request[b].now - CacheTtl)'
    BY <2>3, <2>5 DEF ValidAfter
  <2> QED
    BY <2>3, <2>6 DEF RequestIsTrue
<1> QED
  BY <1>2, <1>3, <1>4, DecidedCases DEF CorsTypeOK, Answered, Asking

\* A step of one request keeps the invariant if it leaves the request with what is true and
\* stores what is true.
LEMMA StepOfOne ==
  ASSUME CorsAssumption, CorsInv, NEW b \in Browsers,
         UNCHANGED <<clock, listed, keys, relisted, revokedAt>>, CorsTypeOK',
         \A c \in Browsers \ {b} : request'[c] = request[c],
         request'[b].now <= clock, RequestIsTrue(b)',
         \A l \in Lookups : \/ cache'[l] = cache[l]
                            \/ /\ cache'[l].ends - CacheTtl <= clock
                               /\ HeldSince(l, cache'[l].has, cache'[l].ends - CacheTtl)
  PROVE  CorsInv'
<1>1. TimesArePast'
  BY DEF CorsInv, TimesArePast
<1>2. EntriesAreTrue'
  <2> SUFFICES ASSUME NEW l \in Lookups, cache'[l].ends > 0
               PROVE  HeldSince(l, cache[l].has, cache[l].ends - CacheTtl)'
    BY DEF EntriesAreTrue
  <2>1. HeldSince(l, cache'[l].has, cache'[l].ends - CacheTtl)
    BY DEF CorsInv, EntriesAreTrue
  <2> QED
    BY <2>1 DEF HeldSince, ListedAfter, UnlistedAfter, ValidAfter
<1>3. RequestsAreTrue'
  BY RequestStays DEF CorsInv, RequestsAreTrue
<1> QED
  BY <1>1, <1>2, <1>3 DEF CorsInv

LEMMA ArrivesInv ==
  ASSUME CorsAssumption, CorsInv, NEW b \in Browsers, Arrives(b)
  PROVE  CorsInv'
<1>1. PICK l \in ({"key"} \X Orgs) \cup {Union} :
        request' = [request EXCEPT ![b] = [at |-> l, now |-> clock, row |-> "unread"]]
  BY DEF Arrives, Asking
<1>2. l \in Lookups /\ l[1] # "list"
  BY DEF Lookups, Union
<1>3. request'[b] = [at |-> l, now |-> clock, row |-> "unread"] /\ clock \in Int
  BY <1>1 DEF CorsInv, CorsTypeOK, Clock
<1>4. RequestIsTrue(b)'
  BY <1>2, <1>3 DEF RequestIsTrue
<1>5. CorsTypeOK'
  BY <1>1, <1>2 DEF Arrives, CorsInv, CorsTypeOK
<1> QED
  BY <1>1, <1>3, <1>4, <1>5, StepOfOne DEF Arrives, CorsInv, CorsTypeOK

\* An entry that still counts holds since less than its lifetime ago.
LEMMA UsesCacheInv ==
  ASSUME CorsAssumption, CorsInv, NEW b \in Browsers, UsesCache(b)
  PROVE  CorsInv'
<1>1. /\ request[b].at \in Lookups /\ cache[request[b].at].ends > request[b].now
      /\ request[b].now \in Nat /\ cache[request[b].at].ends \in Int /\ CacheTtl \in Int
      /\ cache[request[b].at].has \in BOOLEAN /\ request[b].now <= clock
  BY DEF UsesCache, Looking, IsCached, CorsInv, CorsTypeOK, Clock, CorsAssumption, TimesArePast
<1>2. PICK has \in BOOLEAN, t \in Int :
        /\ has = cache[request[b].at].has /\ t = cache[request[b].at].ends - CacheTtl
        /\ HeldSince(request[b].at, has, t) /\ t > request[b].now - CacheTtl
  BY <1>1 DEF CorsInv, EntriesAreTrue
<1>3. request' = [request EXCEPT ![b] = Decided(request[b], has)]
  BY <1>2 DEF UsesCache
<1>4. /\ RequestIsTrue(b)'
      /\ request' \in [Browsers -> [at : Lookups \cup {Unasked, Allowed, Forbidden},
                                    now : Clock, row : {"unread", "no", "yes"}]]
      /\ request'[b].now = request[b].now \/ request'[b].now = 0
  BY <1>1, <1>2, <1>3, DecidedIsTrue DEF CorsInv, UsesCache
<1>5. CorsTypeOK'
  BY <1>4 DEF UsesCache, CorsInv, CorsTypeOK
<1>6. 0 <= clock
  BY DEF CorsInv, CorsTypeOK, Clock
<1> QED
  BY <1>1, <1>3, <1>4, <1>5, <1>6, StepOfOne DEF UsesCache, CorsInv, CorsTypeOK

\* What the database says now holds since the request came.
LEMMA ReadsRowInv ==
  ASSUME CorsAssumption, CorsInv, NEW b \in Browsers, ReadsRow(b)
  PROVE  CorsInv'
<1>1. request[b].at \in Lookups /\ request[b].now <= clock
  BY DEF ReadsRow, Looking, CorsInv, TimesArePast
<1>2. PICK row \in {"yes", "no"} :
        /\ row = IF request[b].at \in Found THEN "yes" ELSE "no"
        /\ request' = [request EXCEPT ![b].row = row]
  BY DEF ReadsRow
<1>3. request'[b].at = request[b].at /\ request'[b].now = request[b].now /\ request'[b].row = row
  BY <1>2 DEF CorsInv, CorsTypeOK
<1>4. /\ row = "yes" => HeldSince(request[b].at, TRUE, request[b].now)
      /\ row = "no" => HeldSince(request[b].at, FALSE, request[b].now)
  BY <1>1, <1>2, FoundHolds DEF CorsInv
<1>5. UNCHANGED <<clock, listed, keys, cache, relisted, revokedAt>>
  BY DEF ReadsRow
<1>6. /\ row = "yes" => HeldSince(request[b].at, TRUE, request[b].now)'
      /\ row = "no" => HeldSince(request[b].at, FALSE, request[b].now)'
  BY <1>3, <1>4, <1>5 DEF HeldSince, ListedAfter, UnlistedAfter, ValidAfter
<1>7. RequestIsTrue(b)'
  <2>1. request[b].at \in Lookups /\ request[b].at[1] = "list" =>
          ValidAfter(request[b].at[2], request[b].now - CacheTtl)
    BY DEF CorsInv, RequestsAreTrue, RequestIsTrue
  <2>2. request'[b].at \in Lookups /\ request'[b].at[1] = "list" =>
          ValidAfter(request[b].at[2], request[b].now - CacheTtl)'
    BY <1>3, <1>5, <2>1 DEF ValidAfter
  <2>3. /\ request'[b].row = "yes" => HeldSince(request[b].at, TRUE, request[b].now)'
        /\ request'[b].row = "no" => HeldSince(request[b].at, FALSE, request[b].now)'
    BY <1>3, <1>6
  <2> QED
    BY <1>1, <1>3, <2>2, <2>3 DEF RequestIsTrue
<1>8. CorsTypeOK'
  BY <1>2 DEF ReadsRow, CorsInv, CorsTypeOK
<1> QED
  BY <1>1, <1>2, <1>3, <1>5, <1>7, <1>8, StepOfOne DEF CorsInv, CorsTypeOK

\* What a row that was read says has held since its request came.
LEMMA RowHolds ==
  ASSUME CorsInv, NEW b \in Browsers, request[b].row # "unread"
  PROVE  \E has \in BOOLEAN : /\ HeldSince(request[b].at, has, request[b].now)
                              /\ has <=> request[b].row = "yes"
                              /\ Decided(request[b], request[b].row = "yes") = Decided(request[b], has)
<1>1. CASE request[b].row = "yes"
  <2>1. Decided(request[b], request[b].row = "yes") = Decided(request[b], TRUE)
    BY <1>1 DEF Decided
  <2> QED
    BY <1>1, <2>1 DEF CorsInv, RequestsAreTrue, RequestIsTrue
<1>2. CASE request[b].row = "no"
  <2>1. Decided(request[b], request[b].row = "yes") = Decided(request[b], FALSE)
    BY <1>2 DEF Decided
  <2> QED
    BY <1>2, <2>1 DEF CorsInv, RequestsAreTrue, RequestIsTrue
<1> QED
  BY <1>1, <1>2 DEF CorsInv, CorsTypeOK

\* The entry is dated with the time of its request.
LEMMA StoresEntryInv ==
  ASSUME CorsAssumption, CorsInv, NEW b \in Browsers, StoresEntry(b)
  PROVE  CorsInv'
<1>1. /\ request[b].row # "unread" /\ request[b].row \in {"unread", "no", "yes"}
      /\ request[b].now \in Clock /\ request[b].now \in Nat
      /\ request[b].now <= clock /\ CacheTtl \in Int /\ CacheTtl > 0 /\ MaxClock \in Int
  BY DEF StoresEntry, CorsInv, CorsTypeOK, Clock, CorsAssumption, TimesArePast
<1>2. PICK has \in BOOLEAN :
        /\ HeldSince(request[b].at, has, request[b].now)
        /\ has <=> request[b].row = "yes"
        /\ Decided(request[b], request[b].row = "yes") = Decided(request[b], has)
  BY <1>1, RowHolds
<1>3. PICK t \in Int : t = request[b].now /\ HeldSince(request[b].at, has, t)
  BY <1>1, <1>2
<1>4. /\ request' = [request EXCEPT ![b] = Decided(request[b], has)]
      /\ request[b].at \in Lookups /\ t > request[b].now - CacheTtl
  <2>1. request[b].at \in Lookups
    BY <1>1 DEF CorsInv, RequestsAreTrue, RequestIsTrue
  <2>2. t > request[b].now - CacheTtl
    BY <1>1, <1>3
  <2>3. request' = [request EXCEPT ![b] = Decided(request[b], request[b].row = "yes")]
    BY DEF StoresEntry
  <2> QED
    BY <1>2, <2>1, <2>2, <2>3
<1>5. /\ RequestIsTrue(b)'
      /\ request' \in [Browsers -> [at : Lookups \cup {Unasked, Allowed, Forbidden},
                                    now : Clock, row : {"unread", "no", "yes"}]]
      /\ request'[b].now = request[b].now \/ request'[b].now = 0
  BY <1>1, <1>3, <1>4, DecidedIsTrue DEF CorsInv, StoresEntry
<1>6. \/ cache' = cache
      \/ cache' = [cache EXCEPT ![request[b].at] = [has |-> has, ends |-> t + CacheTtl]]
  <2>1. (request[b].row = "yes") = has
    BY <1>2
  <2> QED
    BY <1>3, <2>1 DEF StoresEntry
<1>7. t + CacheTtl \in 0 .. MaxClock + CacheTtl /\ (t + CacheTtl) - CacheTtl = t
  BY <1>1, <1>3 DEF Clock
<1>8. CorsTypeOK'
  BY <1>4, <1>5, <1>6, <1>7 DEF StoresEntry, CorsInv, CorsTypeOK
<1>9. \A l \in Lookups : \/ cache'[l] = cache[l]
                         \/ /\ cache'[l].ends - CacheTtl <= clock
                            /\ HeldSince(l, cache'[l].has, cache'[l].ends - CacheTtl)
  BY <1>1, <1>3, <1>4, <1>6, <1>7 DEF CorsInv, CorsTypeOK
<1>10. 0 <= clock
  BY DEF CorsInv, CorsTypeOK, Clock
<1> QED
  BY <1>1, <1>4, <1>5, <1>8, <1>9, <1>10, StepOfOne DEF StoresEntry, CorsInv, CorsTypeOK

LEMMA LookupFailsInv ==
  ASSUME CorsAssumption, CorsInv, NEW b \in Browsers, LookupFails(b)
  PROVE  CorsInv'
<1>1. request' = [request EXCEPT ![b] = [at |-> Unasked, now |-> 0, row |-> "unread"]]
  BY DEF LookupFails, Answered, Asking
<1>2. request'[b] = [at |-> Unasked, now |-> 0, row |-> "unread"] /\ 0 \in Clock /\ 0 <= clock
  BY <1>1 DEF CorsInv, CorsTypeOK, Clock, CorsAssumption
<1>3. RequestIsTrue(b)'
  BY <1>2, LookupKinds DEF RequestIsTrue
<1>4. CorsTypeOK'
  BY <1>1, <1>2 DEF LookupFails, CorsInv, CorsTypeOK
<1> QED
  BY <1>1, <1>2, <1>3, <1>4, StepOfOne DEF LookupFails, CorsInv, CorsTypeOK

LEMMA CorsStepInv == CorsAssumption /\ CorsInv /\ [CorsNext]_corsVars => CorsInv'
<1> SUFFICES ASSUME CorsAssumption, CorsInv, [CorsNext]_corsVars PROVE CorsInv'
  OBVIOUS
<1>1. CASE ClockTicks \/ \E o \in Orgs : SetAllowlist(o) \/ RevokeKey(o)
  BY <1>1, RowsInv
<1>2. ASSUME NEW b \in Browsers,
             Arrives(b) \/ UsesCache(b) \/ ReadsRow(b) \/ StoresEntry(b) \/ LookupFails(b)
      PROVE  CorsInv'
  BY <1>2, ArrivesInv, UsesCacheInv, ReadsRowInv, StoresEntryInv, LookupFailsInv
<1>3. CASE UNCHANGED corsVars
  BY <1>3 DEF corsVars, CorsInv, CorsTypeOK, TimesArePast, EntriesAreTrue, RequestsAreTrue, RequestIsTrue,
     HeldSince, ListedAfter, UnlistedAfter, ValidAfter
<1> QED
  BY <1>1, <1>2, <1>3 DEF CorsNext

\* What is true of the lookup that decides is what the answer may say.
LEMMA DecidedIsFresh ==
  ASSUME CorsAssumption, CorsInv, NEW b \in Browsers, NEW has \in BOOLEAN, NEW t \in Int,
         request[b].at \in Lookups, HeldSince(request[b].at, has, t),
         t > request[b].now - CacheTtl,
         NEW answer \in {Allowed, Forbidden}, Decided(request[b], has).at = answer
  PROVE  IsFresh(request[b], answer)
<1> DEFINE limit == request[b].now - CacheTtl
<1>1. /\ CacheTtl \in Int /\ request[b].now \in Int /\ limit \in Int /\ limit <= t - 1
      /\ relisted \in [Orgs -> Int] /\ revokedAt \in [Orgs -> Int]
  BY DEF CorsInv, CorsTypeOK, CorsAssumption, Clock, Never
<1>2. /\ Allowed # Forbidden
      /\ has <=> answer = Allowed
  BY DecidedCases, LookupKinds DEF Answered, Asking, Lookups, Allowed, Forbidden
<1>3. CASE request[b].at = Union
  <2>0. request[b].at[1] \notin {"key", "list"}
    BY <1>3 DEF Union
  <2>1. CASE has
    <3>1. \E o \in Orgs : ListedAfter(o, limit)
      BY <1>1, <1>3, <2>1 DEF HeldSince, ListedAfter
    <3> QED
      BY <1>2, <1>3, <2>0, <2>1, <3>1 DEF IsFresh
  <2>2. CASE ~has
    <3>1. \A o \in Orgs : UnlistedAfter(o, limit)
      <4> SUFFICES ASSUME NEW o \in Orgs PROVE UnlistedAfter(o, limit)
        OBVIOUS
      <4>1. UnlistedAfter(o, t - 1)
        BY <1>3, <2>2 DEF HeldSince
      <4>2. relisted[o] \in Int
        BY <1>1
      <4> QED
        BY <1>1, <4>1, <4>2 DEF UnlistedAfter
    <3> QED
      BY <1>2, <1>3, <2>0, <2>2, <3>1 DEF IsFresh
  <2> QED
    BY <2>1, <2>2
<1>4. ASSUME NEW o \in Orgs, request[b].at = <<"key", o>> PROVE IsFresh(request[b], answer)
  <2>1. ~has
    <3> SUFFICES ASSUME has PROVE FALSE
      OBVIOUS
    <3>1. Decided(request[b], has).at = <<"list", o>> /\ <<"list", o>> \in Lookups
      BY <1>4 DEF Decided, Asking, Lookups
    <3> QED
      BY <3>1, LookupKinds
  <2> QED
    BY <1>2, <1>4, <2>1 DEF HeldSince, IsFresh, Union
<1>5. ASSUME NEW o \in Orgs, request[b].at = <<"list", o>> PROVE IsFresh(request[b], answer)
  <2>1. ValidAfter(o, limit)
    <3>1. request[b].at[1] = "list" /\ request[b].at[2] = o /\ RequestIsTrue(b)
      BY <1>5 DEF CorsInv, RequestsAreTrue
    <3> QED
      BY <3>1 DEF RequestIsTrue
  <2>2. has => ListedAfter(o, limit)
    BY <1>1, <1>5 DEF HeldSince, ListedAfter
  <2>3. ~has => UnlistedAfter(o, limit)
    BY <1>1, <1>5 DEF HeldSince, UnlistedAfter
  <2> HIDE DEF limit
  <2>4. request[b].at # Union /\ request[b].at[1] = "list" /\ request[b].at[2] = o
    BY <1>5 DEF Union
  <2> USE DEF limit
  <2> QED
    BY <1>2, <2>1, <2>2, <2>3, <2>4 DEF IsFresh
<1> QED
  BY <1>3, <1>4, <1>5, LookupKinds

\* An answer comes from a lookup that is cached or has just been read.
LEMMA StepIsFresh ==
  ASSUME CorsAssumption, CorsInv, [CorsNext]_corsVars, NEW b \in Browsers,
         request[b].at \in Lookups, request'[b].at \in {Allowed, Forbidden}
  PROVE  IsFresh(request[b], request'[b].at)
<1> DEFINE answer == request'[b].at
<1>1. request[b].at \notin {Unasked, Allowed, Forbidden} /\ Unasked \notin {Allowed, Forbidden}
  BY LookupKinds DEF Unasked, Allowed, Forbidden
<1>2. UsesCache(b) \/ StoresEntry(b)
  <2>1. request'[b] # request[b]
    BY <1>1
  <2>2. PICK c \in Browsers :
          Arrives(c) \/ UsesCache(c) \/ ReadsRow(c) \/ StoresEntry(c) \/ LookupFails(c)
    BY <2>1 DEF CorsNext, corsVars, ClockTicks, SetAllowlist, RevokeKey
  <2>3. c = b
    BY <2>1, <2>2 DEF Arrives, UsesCache, ReadsRow, StoresEntry, LookupFails, CorsInv, CorsTypeOK
  <2>4. ~Arrives(b)
    BY DEF Arrives
  <2>5. ASSUME ReadsRow(b) PROVE FALSE
    BY <1>1, <2>5 DEF ReadsRow, CorsInv, CorsTypeOK
  <2>6. ASSUME LookupFails(b) PROVE FALSE
    BY <1>1, <2>6 DEF LookupFails, CorsInv, CorsTypeOK, Answered, Asking
  <2> QED
    BY <2>2, <2>3, <2>4, <2>5, <2>6
<1>3. PICK has \in BOOLEAN, t \in Int :
        /\ HeldSince(request[b].at, has, t) /\ t > request[b].now - CacheTtl
        /\ Decided(request[b], has).at = answer
  <2>1. CASE UsesCache(b)
    <3>1. /\ cache[request[b].at].ends > request[b].now
          /\ request[b].now \in Nat /\ cache[request[b].at].ends \in Int /\ CacheTtl \in Int
          /\ cache[request[b].at].has \in BOOLEAN
      BY <2>1 DEF UsesCache, Looking, IsCached, CorsInv, CorsTypeOK, Clock, CorsAssumption
    <3>2. HeldSince(request[b].at, cache[request[b].at].has, cache[request[b].at].ends - CacheTtl)
      BY <3>1 DEF CorsInv, EntriesAreTrue
    <3>3. request'[b] = Decided(request[b], cache[request[b].at].has)
      BY <2>1 DEF UsesCache, CorsInv, CorsTypeOK
    <3> QED
      BY <3>1, <3>2, <3>3
  <2>2. CASE StoresEntry(b)
    <3>1. /\ request[b].row \in {"no", "yes"} /\ request[b].now \in Int
          /\ CacheTtl \in Int /\ CacheTtl > 0
      BY <2>2 DEF StoresEntry, CorsInv, CorsTypeOK, Clock, CorsAssumption
    <3>2. PICK has \in BOOLEAN :
            /\ HeldSince(request[b].at, has, request[b].now)
            /\ Decided(request[b], request[b].row = "yes") = Decided(request[b], has)
      BY <3>1, RowHolds
    <3>3. request'[b] = Decided(request[b], has)
      BY <2>2, <3>2 DEF StoresEntry, CorsInv, CorsTypeOK
    <3> QED
      BY <3>1, <3>2, <3>3
  <2> QED
    BY <1>2, <2>1, <2>2
<1> QED
  BY <1>3, DecidedIsFresh

\* Types, and what entries and requests say: an entry has held since the request that stored it came.
THEOREM EntriesStayTrue == CorsSpec => []CorsInv
<1>1. CorsInit => CorsInv
  BY CorsInitInv, CorsAssumption
<1>2. CorsInv /\ [CorsNext]_corsVars => CorsInv'
  BY CorsStepInv, CorsAssumption
<1> QED
  BY <1>1, <1>2, PTL DEF CorsSpec

\* No request is answered from anything that ceased to hold CacheTtl or longer before it came
\* (the onRequest hook of buildServer and its three caches).
THEOREM AnswersStayFresh == CorsSpec => AnswersAreFresh
<1>1. CorsInv /\ [CorsNext]_corsVars =>
        [\A b \in Browsers :
           request[b].at \in Lookups /\ request'[b].at \in {Allowed, Forbidden}
             => IsFresh(request[b], request'[b].at)]_corsVars
  BY StepIsFresh, CorsAssumption
<1> QED
  BY <1>1, EntriesStayTrue, PTL DEF CorsSpec, AnswersAreFresh
=============================================================================
