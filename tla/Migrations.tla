------------------------------- MODULE Migrations -------------------------------
(***************************************************************************)
(* runMigrations: every service applies the migrations of its release when *)
(* it starts, and several services start at once, during a deployment also *)
(* of two releases.  A migration is claimed by inserting its name in the   *)
(* transaction that runs it; an insert of the same name waits for the end  *)
(* of that transaction.                                                    *)
(***************************************************************************)
EXTENDS Naturals

CONSTANTS Services,   \* the services that start
          Files,      \* the migrations of their releases, numbered in the order of their names
          MaxStarts   \* bound: starts of each service

ASSUME MigrationAssumption == Files \in [Services -> SUBSET (Nat \ {0})] /\ MaxStarts \in Nat

VARIABLES
  applied,    \* schema_migrations as committed
  boot,       \* each service: down, reading (the table is to be read), migrating or up
  past,       \* the files each service has read as applied, skipped or applied in this start
  claims,     \* the file whose open transaction the service has, or Nothing
  starts,
  runs        \* history: how often a file's SQL was committed

migrationVars == <<applied, boot, past, claims, starts, runs>>

AllFiles == UNION {Files[s] : s \in Services}
Nothing == 0

MigrationTypeOK ==
  /\ applied \subseteq AllFiles
  /\ boot \in [Services -> {"down", "reading", "migrating", "up"}]
  /\ past \in [Services -> SUBSET AllFiles]
  /\ claims \in [Services -> AllFiles \cup {Nothing}]
  /\ starts \in [Services -> 0 .. MaxStarts]
  /\ runs \in [AllFiles -> Nat]

MigrationInit ==
  /\ applied = {} /\ runs = [f \in AllFiles |-> 0]
  /\ boot = [s \in Services |-> "down"] /\ starts = [s \in Services |-> 0]
  /\ past = [s \in Services |-> {}] /\ claims = [s \in Services |-> Nothing]

BootService(s) ==
  /\ boot[s] = "down" /\ starts[s] < MaxStarts
  /\ boot' = [boot EXCEPT ![s] = "reading"]
  /\ starts' = [starts EXCEPT ![s] = @ + 1]
  /\ UNCHANGED <<applied, past, claims, runs>>

ReadApplied(s) ==
  /\ boot[s] = "reading"
  /\ boot' = [boot EXCEPT ![s] = "migrating"]
  /\ past' = [past EXCEPT ![s] = applied]
  /\ UNCHANGED <<applied, claims, starts, runs>>

Todo(s) == Files[s] \ past[s]

\* The next file in the order of the names.
IsNextFile(s, f) == f \in Todo(s) /\ \A g \in Todo(s) : f <= g

\* Faulty: the name is inserted without waiting for whoever is at it.
ClaimsNow(s, f) == TRUE

\* The insert goes on when no other transaction has the name.
MayClaim(s, f) == \A other \in Services : claims[other] # f

\* Nothing was inserted: the file has been applied meanwhile.
SkipFile(s, f) ==
  /\ boot[s] = "migrating" /\ claims[s] = Nothing
  /\ IsNextFile(s, f) /\ f \in applied
  /\ past' = [past EXCEPT ![s] = @ \cup {f}]
  /\ UNCHANGED <<applied, boot, claims, starts, runs>>

ClaimFile(s, f) ==
  /\ boot[s] = "migrating" /\ claims[s] = Nothing
  /\ IsNextFile(s, f) /\ f \notin applied /\ MayClaim(s, f)
  /\ claims' = [claims EXCEPT ![s] = f]
  /\ UNCHANGED <<applied, boot, past, starts, runs>>

\* The SQL has run; its effects and the name are committed together.
CommitFile(s) ==
  /\ claims[s] # Nothing
  /\ applied' = applied \cup {claims[s]}
  /\ runs' = [runs EXCEPT ![claims[s]] = @ + 1]
  /\ past' = [past EXCEPT ![s] = @ \cup {claims[s]}]
  /\ claims' = [claims EXCEPT ![s] = Nothing]
  /\ UNCHANGED <<boot, starts>>

\* A statement fails or the service dies, at any point: the transaction is rolled back.
BootFails(s) ==
  /\ boot[s] # "down"
  /\ boot' = [boot EXCEPT ![s] = "down"]
  /\ claims' = [claims EXCEPT ![s] = Nothing]
  /\ UNCHANGED <<applied, past, starts, runs>>

ServiceIsUp(s) ==
  /\ boot[s] = "migrating" /\ claims[s] = Nothing /\ Todo(s) = {}
  /\ boot' = [boot EXCEPT ![s] = "up"]
  /\ UNCHANGED <<applied, past, claims, starts, runs>>

MigrationStep(s) ==
  \/ BootService(s) \/ ReadApplied(s) \/ CommitFile(s) \/ BootFails(s) \/ ServiceIsUp(s)
  \/ \E f \in Files[s] : SkipFile(s, f) \/ ClaimFile(s, f)

MigrationNext == \E s \in Services : MigrationStep(s)

MigrationSpec == MigrationInit /\ [][MigrationNext]_migrationVars

\* However many services start at once, fail and start again: no migration is committed twice, a
\* service at work on one has all earlier ones of its release behind it, and a service that is up
\* has them all (runMigrations; docs/runbooks/Migrations.md asks for exactly once).
MigratedOnceInOrder ==
  /\ \A f \in AllFiles : runs[f] <= 1
  /\ \A s \in Services :
       /\ boot[s] = "up" => Files[s] \subseteq applied
       /\ claims[s] # Nothing => \A f \in Files[s] : f < claims[s] => f \in applied
=============================================================================
