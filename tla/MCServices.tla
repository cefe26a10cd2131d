------------------------------ MODULE MCServices ------------------------------
(***************************************************************************)
(* The components that share no state with each other or with the payment  *)
(* path, for TLC in one run: a behaviour is one of one component, the      *)
(* others stay as they were initially.                                     *)
(***************************************************************************)
EXTENDS Artifacts, Nonces, Migrations, RateLimit, Ingest, WorkerPlugin, WorkerClient, TLC

VARIABLE moving     \* the component the behaviour is of

\* A deployment: the old release and two services of the new one, which brings migration 3.
CONSTANTS old, new1, new2
MCFiles == old :> {1, 2} @@ new1 :> {1, 2, 3} @@ new2 :> {1, 2, 3}

\* Bound: completions, PUTs, orders and failures in one behaviour of the artifact.
CONSTANT MaxHappenings

artifactVars == vars
servicesVars == <<artifactVars, nonceVars, migrationVars, rateVars, ingestVars, pluginVars, clientVars, moving>>

ServicesTypeOK ==
  /\ moving = "artifacts" => TypeOK
  /\ moving = "nonces" => NonceTypeOK
  /\ moving = "migrations" => MigrationTypeOK
  /\ moving = "rates" => RateTypeOK
  /\ moving = "ingest" => IngestTypeOK
  /\ moving = "plugin" => PluginTypeOK
  /\ moving = "client" => ClientTypeOK

\* The worker client starts with each mix of jobs for which it promises something; the watched one
\* has at most one behind it.
ServicesInit ==
  /\ moving \in {"artifacts", "nonces", "migrations", "rates", "ingest", "plugin", "client"}
  /\ Init /\ NonceInit /\ MigrationInit /\ RateInit /\ IngestInit /\ PluginInit /\ ClientInit
  /\ ~Clogged
  /\ moving = "client" => wanted \in {NumJobs - 1, NumJobs}
  /\ moving # "client" => wanted = 1 /\ nature = [j \in Offerable |-> "good"]

Only(component, step, others) == moving = component /\ step /\ UNCHANGED <<moving, others>>

ArtifactNext == Next /\ completes' + puts' + orders' + failures' <= MaxHappenings

ServicesNext ==
  \/ Only("artifacts", ArtifactNext, <<nonceVars, migrationVars, rateVars, ingestVars, pluginVars, clientVars>>)
  \/ Only("nonces", NonceNext, <<artifactVars, migrationVars, rateVars, ingestVars, pluginVars, clientVars>>)
  \/ Only("migrations", MigrationNext, <<artifactVars, nonceVars, rateVars, ingestVars, pluginVars, clientVars>>)
  \/ Only("rates", RateNext, <<artifactVars, nonceVars, migrationVars, ingestVars, pluginVars, clientVars>>)
  \/ Only("ingest", IngestNext, <<artifactVars, nonceVars, migrationVars, rateVars, pluginVars, clientVars>>)
  \/ Only("plugin", PluginNext, <<artifactVars, nonceVars, migrationVars, rateVars, ingestVars, clientVars>>)
  \/ Only("client", ClientNext, <<artifactVars, nonceVars, migrationVars, rateVars, ingestVars, pluginVars>>)

ServicesSpec ==
  /\ ServicesInit /\ [][ServicesNext]_servicesVars
  /\ Fairness /\ ClientFairness
=============================================================================
