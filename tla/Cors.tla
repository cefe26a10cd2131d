--------------------------------- MODULE Cors ---------------------------------
(***************************************************************************)
(* Which browser requests of one origin an API task answers with CORS      *)
(* headers. The task caches the organisation of a buyer's key, the         *)
(* allowlist of an organisation and the union of all allowlists. A request *)
(* takes the time once, when it arrives, and dates with it all it looks up *)
(* and stores, however long the database takes.                            *)
(***************************************************************************)
EXTENDS Integers

CONSTANTS Orgs,         \* organisations, each with one buyer's key
          Browsers,     \* requests that may be under way at once
          CacheTtl,     \* ORG_CORS_CACHE_TTL_MS, in ticks of the clock
          MaxChanges, MaxClock      \* bounds: of the operators' changes and of the clock

ASSUME CorsAssumption == CacheTtl \in Nat \ {0} /\ MaxChanges \in Nat /\ MaxClock \in Nat

VARIABLES
  clock,
  listed,     \* organisations whose cors_allow_origins hold the origin
  keys,       \* organisations whose key is not revoked
  cache,      \* tokenOrgCache, orgCorsCache, unionCorsCache: what an entry says and when it ends
  request,    \* per browser: the lookup it is at or its answer, its time, the row it read
  changes,    \* changes so far
  relisted, revokedAt   \* history: the last change of each list, the end of each key

corsVars == <<clock, listed, keys, cache, request, changes, relisted, revokedAt>>

Union == <<"union">>
Lookups == ({"key", "list"} \X Orgs) \cup {Union}
Unasked == <<"unasked">>
Allowed == <<"allowed">>
Forbidden == <<"forbidden">>
Never == -CacheTtl
Clock == 0 .. MaxClock

CorsTypeOK ==
  /\ clock \in Clock /\ listed \subseteq Orgs /\ keys \subseteq Orgs /\ changes \in 0 .. MaxChanges
  /\ cache \in [Lookups -> [has : BOOLEAN, ends : 0 .. MaxClock + CacheTtl]]
  /\ request \in [Browsers -> [at : Lookups \cup {Unasked, Allowed, Forbidden},
                               now : Clock, row : {"unread", "no", "yes"}]]
  /\ relisted \in [Orgs -> Clock \cup {Never}] /\ revokedAt \in [Orgs -> Clock \cup {Never}]

Asking(l, now) == [at |-> l, now |-> now, row |-> "unread"]
Answered(answer) == Asking(answer, 0)

\* A new task, whose caches are empty.
CorsInit ==
  /\ clock = 0 /\ listed \in SUBSET Orgs /\ keys = Orgs /\ changes = 0
  /\ cache = [l \in Lookups |-> [has |-> FALSE, ends |-> 0]]
  /\ request = [b \in Browsers |-> Answered(Unasked)]
  /\ relisted = [o \in Orgs |-> Never] /\ revokedAt = [o \in Orgs |-> Never]

ClockTicks ==
  /\ clock < MaxClock /\ clock' = clock + 1
  /\ UNCHANGED <<listed, keys, cache, request, changes, relisted, revokedAt>>

\* PUT /api/org/cors-allow-origins adds the origin or leaves it out.
SetAllowlist(o) ==
  /\ changes < MaxChanges /\ changes' = changes + 1
  /\ listed' = IF o \in listed THEN listed \ {o} ELSE listed \cup {o}
  /\ relisted' = [relisted EXCEPT ![o] = clock]
  /\ UNCHANGED <<clock, keys, cache, request, revokedAt>>

\* A key is revoked for good.
RevokeKey(o) ==
  /\ changes < MaxChanges /\ changes' = changes + 1
  /\ o \in keys /\ keys' = keys \ {o}
  /\ revokedAt' = [revokedAt EXCEPT ![o] = clock]
  /\ UNCHANGED <<clock, listed, cache, request, relisted>>

\* A request with a buyer's key, or a preflight, which carries none.
Arrives(b) ==
  /\ request[b].at \notin Lookups
  /\ \E l \in ({"key"} \X Orgs) \cup {Union} : request' = [request EXCEPT ![b] = Asking(l, clock)]
  /\ UNCHANGED <<clock, listed, keys, cache, changes, relisted, revokedAt>>

\* What follows a lookup: a valid key leads to its organisation's list, a list decides.
Decided(q, has) ==
  CASE ~has -> Answered(Forbidden)
    [] has /\ q.at[1] = "key" -> Asking(<<"list", q.at[2]>>, q.now)
    [] has /\ q.at[1] # "key" -> Answered(Allowed)

Looking(q) == q.at \in Lookups /\ q.row = "unread"
IsCached(q) == cache[q.at].ends > q.now

UsesCache(b) ==
  /\ Looking(request[b]) /\ IsCached(request[b])
  /\ request' = [request EXCEPT ![b] = Decided(@, cache[@.at].has)]
  /\ UNCHANGED <<clock, listed, keys, cache, changes, relisted, revokedAt>>

\* The lookups the database answers with a row: getApiKey, getOrgCorsAllowOrigins and
\* listAllCorsAllowOrigins, asked for this origin.
Found == ({"key"} \X keys) \cup ({"list"} \X listed) \cup {l \in {Union} : listed # {}}

ReadsRow(b) ==
  /\ Looking(request[b]) /\ ~IsCached(request[b])
  /\ request' = [request EXCEPT ![b].row = IF request[b].at \in Found THEN "yes" ELSE "no"]
  /\ UNCHANGED <<clock, listed, keys, cache, changes, relisted, revokedAt>>

\* Faulty: the entry lives from the moment it is stored.
StoresEntryLate(b) ==
  /\ request[b].row # "unread"
  /\ LET q == request[b]
     IN  cache' = [cache EXCEPT ![q.at] = [has |-> q.row = "yes", ends |-> clock + CacheTtl]]
  /\ request' = [request EXCEPT ![b] = Decided(@, @.row = "yes")]
  /\ UNCHANGED <<clock, listed, keys, changes, relisted, revokedAt>>

\* The answer has come. An unknown key is not cached, an origin that is not listed is; a slower
\* request may write its older entry over a younger one.
StoresEntry(b) ==
  /\ request[b].row # "unread"
  /\ LET q == request[b]
     IN  cache' = IF q.at[1] = "key" /\ q.row = "no" THEN cache
                  ELSE [cache EXCEPT ![q.at] = [has |-> q.row = "yes", ends |-> q.now + CacheTtl]]
  /\ request' = [request EXCEPT ![b] = Decided(@, @.row = "yes")]
  /\ UNCHANGED <<clock, listed, keys, changes, relisted, revokedAt>>

\* The query fails, and the request with it.
LookupFails(b) ==
  /\ request[b].at \in Lookups
  /\ request' = [request EXCEPT ![b] = Answered(Unasked)]
  /\ UNCHANGED <<clock, listed, keys, cache, changes, relisted, revokedAt>>

CorsNext ==
  \/ ClockTicks
  \/ \E o \in Orgs : SetAllowlist(o) \/ RevokeKey(o)
  \/ \E b \in Browsers :
       Arrives(b) \/ UsesCache(b) \/ ReadsRow(b) \/ StoresEntry(b) \/ LookupFails(b)

CorsSpec == CorsInit /\ [][CorsNext]_corsVars

ListedAfter(o, t) == o \in listed \/ relisted[o] > t
UnlistedAfter(o, t) == o \notin listed \/ relisted[o] > t
ValidAfter(o, t) == o \in keys \/ revokedAt[o] > t

\* Who is let in had a valid key and a listed origin, and who is refused had not, less than
\* CacheTtl before the request came.
IsFresh(q, answer) ==
  LET limit == q.now - CacheTtl
  IN  CASE q.at = Union /\ answer = Allowed -> \E o \in Orgs : ListedAfter(o, limit)
        [] q.at = Union /\ answer = Forbidden -> \A o \in Orgs : UnlistedAfter(o, limit)
        [] q.at[1] = "key" /\ answer = Forbidden -> q.at[2] \notin keys
        [] q.at[1] = "list" /\ answer = Allowed -> ListedAfter(q.at[2], limit) /\ ValidAfter(q.at[2], limit)
        [] q.at[1] = "list" /\ answer = Forbidden -> UnlistedAfter(q.at[2], limit)
        [] OTHER -> FALSE

\* No answer is older than the lifetime of one cache entry, though it may come from two of them,
\* and whatever the order in which slow lookups fill them (the onRequest hook of buildServer).
AnswersAreFresh ==
  [][\A b \in Browsers :
       request[b].at \in Lookups /\ request'[b].at \in {Allowed, Forbidden}
         => IsFresh(request[b], request'[b].at)]_corsVars
=============================================================================
