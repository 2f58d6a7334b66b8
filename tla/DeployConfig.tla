---------------------------- MODULE DeployConfig ----------------------------
(***************************************************************************)
(* What the deployment scripts and the two services make of their          *)
(* environment: scripts/prod/preflight.js, the command line defaults of     *)
(* scripts/prod/lib.js, src/config/productionValidation.js,                 *)
(* src/config/index.js and src/main.js.                                     *)
(*                                                                         *)
(* An environment e is a record.  e.vars is the set of variables that have  *)
(* a non-empty value; of the values only what the code compares is kept:    *)
(*   mode    APP_MODE            node    NODE_ENV                           *)
(*   engine  DB_ENGINE           exec    WORKER_EXECUTION_MODE              *)
(*   shared  the invokers whose account is also the runtime's account       *)
(*   url     RUNTIME_WORKER_URL: the first deploy's placeholder, or a       *)
(*           service                                                        *)
(*   secret  IGA_CLIENT_SECRET: the secret itself, or a resource name       *)
(***************************************************************************)
AUTH_REQUIRED ==
    {"PUBLIC_API_ISSUER", "PUBLIC_API_AUDIENCE", "WORKER_OIDC_AUDIENCE",
     "WORKER_INVOKER_SERVICE_ACCOUNT_EMAIL", "SCHEDULER_OIDC_AUDIENCE",
     "SCHEDULER_INVOKER_SERVICE_ACCOUNT_EMAIL"}

PROD_CORE == {"GCP_PROJECT_ID", "JOB_ZIP_BUCKET", "ES_ENDPOINT", "ES_API_KEY", "DB_ENGINE"}

RUNTIME_REQUIRED ==
    {"WORKER_EXECUTION_MODE", "RUNTIME_WORKER_URL", "RUNTIME_SERVICE_ACCOUNT_EMAIL",
     "RUNTIME_BROKER_URL", "IGA_TOKEN_ENDPOINT", "IGA_CLIENT_ID", "IGA_CLIENT_SECRET",
     "IGA_BASE_URL"}

CLOUD_SQL_VARS == {"DB_INSTANCE_CONNECTION_NAME", "DB_USER", "DB_NAME"}

CLI_FLAGS == {"ES_API_KEY", "ES_ENDPOINT", "GCP_PROJECT_ID"}

Var == AUTH_REQUIRED \cup PROD_CORE \cup RUNTIME_REQUIRED \cup CLOUD_SQL_VARS
       \cup {"DATABASE_URL", "DB_ALLOW_DIRECT", "WORKER_RUNTIME_ISOLATION",
             "WORKER_REQUIRE_RUNTIME_ISOLATION"}

EnvType ==
    [mode   : {"production", "local"},
     node   : {"production", "test", "other"},
     vars   : SUBSET Var,
     engine : {"cloud-sql", "direct", "other"},
     exec   : {"isolated", "other"},
     shared : SUBSET {"worker", "scheduler"},
     url    : {"placeholder", "service"},
     secret : {"literal", "reference"}]

\* An unset DB_ENGINE means "direct" everywhere but in the startup validation.
Engine(e) == IF "DB_ENGINE" \in e.vars THEN e.engine ELSE "direct"

requireEnv(names, e) == names \ e.vars

\* Flags seed the variables the environment leaves unset; local mode ignores them.
applyCliDefaults(e, flags) ==
    IF e.mode = "local" THEN e ELSE [e EXCEPT !.vars = @ \cup (flags \cap CLI_FLAGS)]

HasEs(e) == {"ES_ENDPOINT", "ES_API_KEY"} \subseteq e.vars

HasPg(e) ==
    IF Engine(e) = "cloud-sql" THEN CLOUD_SQL_VARS \subseteq e.vars ELSE "DATABASE_URL" \in e.vars

getConfigOk(e) == requireEnv({"GCP_PROJECT_ID", "JOB_ZIP_BUCKET", "ES_ENDPOINT", "ES_API_KEY"}, e) = {}

createPgPoolOk(e) == Engine(e) # "other" /\ HasPg(e)

(***************************************************************************)
(* The preflight: every check runs, the faults are counted, and only a run  *)
(* without a fault exits 0.                                                 *)
(***************************************************************************)
\* Plausible bug: one variable of the Cloud SQL connection is not asked for.
EngineFaultsForgotten(e) ==
    CASE Engine(e) = "cloud-sql" -> requireEnv(CLOUD_SQL_VARS \ {"DB_NAME"}, e)
      [] "DB_ENGINE" \in e.vars /\ e.engine = "direct" -> requireEnv({"DATABASE_URL"}, e)
      [] "DB_ENGINE" \in e.vars /\ e.engine = "other" -> {"DB_ENGINE"}
      [] OTHER -> {}

EngineFaults(e) ==
    CASE Engine(e) = "cloud-sql" -> requireEnv(CLOUD_SQL_VARS, e)
      [] "DB_ENGINE" \in e.vars /\ e.engine = "direct" -> requireEnv({"DATABASE_URL"}, e)
      [] "DB_ENGINE" \in e.vars /\ e.engine = "other" -> {"DB_ENGINE"}
      [] OTHER -> {}

Shares(e, who, account) ==
    /\ who \in e.shared
    /\ {"RUNTIME_SERVICE_ACCOUNT_EMAIL", account} \subseteq e.vars

SemanticFaults(e) ==
    {f \in {"exec", "worker", "scheduler"} :
        \/ f = "exec" /\ "WORKER_EXECUTION_MODE" \in e.vars /\ e.exec # "isolated"
        \/ f = "worker" /\ Shares(e, f, "WORKER_INVOKER_SERVICE_ACCOUNT_EMAIL")
        \/ f = "scheduler" /\ Shares(e, f, "SCHEDULER_INVOKER_SERVICE_ACCOUNT_EMAIL")}

EnvFaults(e) ==
    requireEnv(AUTH_REQUIRED, e) \cup
    IF e.mode = "local" THEN {}
    ELSE requireEnv(PROD_CORE \cup RUNTIME_REQUIRED, e) \cup EngineFaults(e) \cup SemanticFaults(e)

\* The services a preflight of this environment talks to.
Probed(e) ==
    {p \in {"es", "pg", "gcs", "worker", "secret"} :
        /\ e.mode # "local"
        /\ \/ p = "es" /\ HasEs(e)
           \/ p = "pg" /\ HasPg(e)
           \/ p = "gcs" /\ "JOB_ZIP_BUCKET" \in e.vars
           \/ p = "worker" /\ "RUNTIME_WORKER_URL" \in e.vars /\ e.url # "placeholder"
           \/ p = "secret" /\ "IGA_CLIENT_SECRET" \in e.vars /\ e.secret = "reference"}
    \cup {p \in {"jwks"} : "PUBLIC_API_ISSUER" \in e.vars}

\* The services that did not do what the probe asked.  A Postgres that timed out
\* or refused the connection is not among them: the preflight only warns.
PreflightPasses(e, down) == EnvFaults(e) = {} /\ Probed(e) \cap down = {}

(***************************************************************************)
(* The checks the two services make when they start.                        *)
(***************************************************************************)
STARTUP_REQUIRED ==
    {"GCP_PROJECT_ID", "JOB_ZIP_BUCKET", "ES_ENDPOINT", "ES_API_KEY", "WORKER_OIDC_AUDIENCE",
     "WORKER_INVOKER_SERVICE_ACCOUNT_EMAIL", "SCHEDULER_OIDC_AUDIENCE",
     "SCHEDULER_INVOKER_SERVICE_ACCOUNT_EMAIL", "WORKER_EXECUTION_MODE",
     "RUNTIME_SERVICE_ACCOUNT_EMAIL", "RUNTIME_BROKER_URL", "IGA_TOKEN_ENDPOINT",
     "IGA_CLIENT_ID", "IGA_CLIENT_SECRET", "IGA_BASE_URL", "PUBLIC_API_ISSUER",
     "PUBLIC_API_AUDIENCE"}

validateProductionStartupConfig(e) ==
    \/ e.node = "test"
    \/ /\ requireEnv(STARTUP_REQUIRED, e) = {}
       /\ e.exec = "isolated"
       /\ e.shared = {}
       /\ "WORKER_RUNTIME_ISOLATION" \notin e.vars
       /\ "DB_ENGINE" \in e.vars
       /\ \/ e.engine = "cloud-sql" /\ requireEnv(CLOUD_SQL_VARS, e) = {}
          \/ e.engine = "direct" /\ requireEnv({"DATABASE_URL", "DB_ALLOW_DIRECT"}, e) = {}

\* WORKER_REQUIRE_RUNTIME_ISOLATION is in e.vars when its value is 'false', the
\* only one the worker accepts.
validateWorkerStartupConfig(e) ==
    \/ e.node = "test"
    \/ /\ requireEnv({"GCP_PROJECT_ID", "RUNTIME_SERVICE_ACCOUNT_EMAIL", "RUNTIME_BROKER_URL",
                      "JOB_ZIP_BUCKET", "ES_ENDPOINT", "ES_API_KEY"}, e) = {}
       /\ "WORKER_REQUIRE_RUNTIME_ISOLATION" \in e.vars

\* The backend main.js starts: none when the mode contradicts NODE_ENV.
resolveAppMode(e) ==
    IF e.mode = "local" /\ e.node = "production" THEN "refused" ELSE e.mode

\* The scheduler comes up: main.js picks the backend and, in production, the
\* startup validation accepts the environment.
SchedulerStarts(e) ==
    /\ resolveAppMode(e) # "refused"
    /\ resolveAppMode(e) = "production" => validateProductionStartupConfig(e)
=============================================================================
