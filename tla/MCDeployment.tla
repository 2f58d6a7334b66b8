---------------------------- MODULE MCDeployment ----------------------------
(***************************************************************************)
(* Small instances of Deployment: the two indices and the two migrations of *)
(* the repository, one or two operators, and the environments that matter   *)
(* to the scripts: complete ones, one for each place where the scripts and  *)
(* the services ask for a variable, and ones with a value that is refused.  *)
(***************************************************************************)
EXTENDS Deployment

MCIndices == <<"definitions", "audit">>

CloudEnv ==
    [mode |-> "production", node |-> "production",
     vars |-> AUTH_REQUIRED \cup PROD_CORE \cup RUNTIME_REQUIRED \cup CLOUD_SQL_VARS,
     engine |-> "cloud-sql", exec |-> "isolated", shared |-> {}, url |-> "service",
     secret |-> "reference"]

DirectEnv ==
    [CloudEnv EXCEPT !.engine = "direct", !.url = "placeholder", !.secret = "literal",
                     !.vars = (@ \ CLOUD_SQL_VARS) \cup {"DATABASE_URL"}]

\* One of the indices is there, and none or one of the migrations.
HalfIndexed == {[indices |-> {"definitions"}, migrated |-> k] : k \in {0, 1}}

HalfMigrated == {[indices |-> {"definitions"}, migrated |-> 1]}

\* The environments of the run: ES_API_KEY comes from a flag in all but the
\* first and the last.
FlagEnv == [CloudEnv EXCEPT !.vars = @ \ {"ES_API_KEY"}]

MCEnv ==
    {CloudEnv, FlagEnv, [FlagEnv EXCEPT !.vars = @ \ {"DB_NAME"}],
     [FlagEnv EXCEPT !.vars = @ \ {"JOB_ZIP_BUCKET"}],
     [FlagEnv EXCEPT !.vars = @ \ {"RUNTIME_BROKER_URL"}], [FlagEnv EXCEPT !.exec = "other"],
     [FlagEnv EXCEPT !.mode = "local"], [DirectEnv EXCEPT !.engine = "other"]}

OneEnv == {CloudEnv}

MCOptions == {{}, {"dry-run"}}

EveryOption == {{}, {"skip-preflight"}, {"dry-run"}, {"es-only"}, {"pg-only"}}
=============================================================================
