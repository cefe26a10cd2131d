-------------------------------- MODULE Ingest --------------------------------
(***************************************************************************)
(* The backfill from the hourly archive: runners (one, and two while a     *)
(* deployment replaces it) take the hour from the row of github_sources,   *)
(* store the events of its file one by one and move the cursor on. Nothing *)
(* is locked, and every write of the row replaces the cursor.              *)
(***************************************************************************)
EXTENDS Integers

CONSTANTS Ingesters,    \* processes of the ingest runner
          Parts,        \* events in the file of an hour
          LastHour      \* bound: hours the clock reaches

ASSUME IngestAssumption == Parts \in Nat \ {0} /\ LastHour \in Nat \ {0}

VARIABLES
  hourNow,    \* the hour it is
  published,  \* the last hour whose file can be fetched
  nextHour,   \* cursor_json.nextHour; NoHour when the cursor is {}, NoSource without a row
  run,        \* per runner: where runGithubIngestOnce is, the hour it began in, its hour, events stored
  rawEvents,  \* rows ever stored in github_events_raw: <<hour, event>>
  startHour   \* history: the latest hour a cursor was started from

ingestVars == <<hourNow, published, nextHour, run, rawEvents, startHour>>

NoSource == -2
NoHour == -1
Hours == 0 .. LastHour
Waiting == [at |-> "poll", began |-> 0, hour |-> NoHour, stored |-> 0]

IngestTypeOK ==
  /\ hourNow \in Hours /\ published \in Hours \cup {NoHour}
  /\ nextHour \in Hours \cup {NoHour, NoSource}
  /\ run \in [Ingesters -> [at : {"poll", "create", "derive", "fetch", "lines"}, began : Hours,
                            hour : Hours \cup {NoHour}, stored : 0 .. Parts]]
  /\ rawEvents \subseteq Hours \X (1 .. Parts)
  /\ startHour \in Hours \cup {NoHour}

IngestInit ==
  /\ hourNow = 1 /\ published = NoHour /\ nextHour = NoSource
  /\ run = [r \in Ingesters |-> Waiting]
  /\ rawEvents = {} /\ startHour = NoHour

HourPasses ==
  /\ hourNow < LastHour /\ hourNow' = hourNow + 1
  /\ UNCHANGED <<published, nextHour, run, rawEvents, startHour>>

\* The file of an hour that is over becomes available.
ArchivePublishes ==
  /\ published + 1 < hourNow /\ published' = published + 1
  /\ UNCHANGED <<hourNow, nextHour, run, rawEvents, startHour>>

\* A call begins: it takes the time and reads the row.
IngestPolls(r) ==
  /\ run[r].at = "poll"
  /\ run' = [run EXCEPT ![r] =
       [at |-> CASE nextHour = NoSource -> "create" [] nextHour = NoHour -> "derive" [] OTHER -> "fetch",
        began |-> hourNow, hour |-> IF nextHour \in Hours THEN nextHour ELSE NoHour, stored |-> 0]]
  /\ UNCHANGED <<hourNow, published, nextHour, rawEvents, startHour>>

\* It found no row: the upsert with an empty cursor, over whatever was written since.
CreateSource(r) ==
  /\ run[r].at = "create"
  /\ nextHour' = NoHour
  /\ run' = [run EXCEPT ![r].at = "derive"]
  /\ UNCHANGED <<hourNow, published, rawEvents, startHour>>

\* It found no hour: the cursor starts from the hour before the one it began in.
DeriveHour(r) ==
  /\ run[r].at = "derive"
  /\ nextHour' = run[r].began - 1
  /\ startHour' = IF startHour > run[r].began - 1 THEN startHour ELSE run[r].began - 1
  /\ run' = [run EXCEPT ![r] = Waiting]
  /\ UNCHANGED <<hourNow, published, rawEvents>>

\* The answer: the file of the hour, or 404 while there is none, which leaves the cursor alone.
Fetches(r) ==
  /\ run[r].at = "fetch"
  /\ run' = [run EXCEPT ![r] = IF @.hour <= published THEN [@ EXCEPT !.at = "lines"] ELSE Waiting]
  /\ UNCHANGED <<hourNow, published, nextHour, rawEvents, startHour>>

\* One line of the file is stored; an event stored before is merged into its row.
StoreEvent(r) ==
  /\ run[r].at = "lines" /\ run[r].stored < Parts
  /\ rawEvents' = rawEvents \cup {<<run[r].hour, run[r].stored + 1>>}
  /\ run' = [run EXCEPT ![r].stored = @ + 1]
  /\ UNCHANGED <<hourNow, published, nextHour, startHour>>

\* Faulty: the cursor moves on when the file was opened.
AdvanceEarly(r) ==
  /\ run[r].at = "lines"
  /\ nextHour' = run[r].hour + 1
  /\ run' = [run EXCEPT ![r] = Waiting]
  /\ UNCHANGED <<hourNow, published, rawEvents, startHour>>

\* After the last line the cursor is written, to the hour after the one the call read.
AdvanceCursor(r) ==
  /\ run[r].at = "lines" /\ run[r].stored = Parts
  /\ nextHour' = run[r].hour + 1
  /\ run' = [run EXCEPT ![r] = Waiting]
  /\ UNCHANGED <<hourNow, published, rawEvents, startHour>>

\* A fetch or a statement fails, the file breaks off, or the process dies: what was stored stays.
IngestFails(r) ==
  /\ run[r].at # "poll"
  /\ run' = [run EXCEPT ![r] = Waiting]
  /\ UNCHANGED <<hourNow, published, nextHour, rawEvents, startHour>>

IngestNext ==
  \/ HourPasses \/ ArchivePublishes
  \/ \E r \in Ingesters :
       \/ IngestPolls(r) \/ CreateSource(r) \/ DeriveHour(r) \/ Fetches(r)
       \/ StoreEvent(r) \/ AdvanceCursor(r) \/ IngestFails(r)

IngestSpec == IngestInit /\ [][IngestNext]_ingestVars

\* The backfill leaves no gap: every event of every hour from the latest start to the cursor was
\* stored, though runners overlap, set the cursor back and die in the middle of an hour
\* (runGithubIngestOnce, which stores first and moves the cursor last).
BackfillHasNoGap ==
  nextHour \in Hours =>
    \A h \in Hours, e \in 1 .. Parts : startHour <= h /\ h < nextHour => <<h, e>> \in rawEvents
=============================================================================
