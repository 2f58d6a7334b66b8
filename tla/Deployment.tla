----------------------------- MODULE Deployment -----------------------------
(***************************************************************************)
(* Provisioning and teardown of the production stores: operators run        *)
(* scripts/prod/bootstrap-prod.js, scripts/bootstrap.js (and               *)
(* scripts/bootstrap-es-indices.js, its Elasticsearch half) and             *)
(* scripts/prod/teardown.js against one Elasticsearch, one Postgres and one *)
(* bootstrap-manifest.json.  Every call to a store is a step of its own,    *)
(* may fail, and the script may be killed before the next one.              *)
(*                                                                         *)
(* The migration runner (node-pg-migrate, external) holds a lock while it   *)
(* runs, so one call of it is one step; a call that fails may have done     *)
(* part of its work.  Migrations are applied and rolled back in order, so   *)
(* the ones in place are a prefix and `migrated' is its length.             *)
(***************************************************************************)
EXTENDS DeployConfig, Integers, Sequences, FiniteSets

CONSTANTS
    Operator,   \* the people and pipelines that run the scripts
    Indices,    \* the Elasticsearch indices, in the order they are created
    Migrations, \* the number of files under migrations/
    Env,        \* the environments the scripts may be run in
    CliFlags,   \* the variables the operators also pass as flags
    OptionSets, \* the combinations of options they use
    Origins     \* what may exist before the first script runs

Index == {Indices[k] : k \in 1..Len(Indices)}

Option == {"skip-preflight", "dry-run", "es-only", "pg-only"}

ASSUME DeployAssumption ==
    /\ Indices \in Seq(STRING)
    /\ Len(Indices) > 0
    /\ Migrations \in Nat
    /\ Env \subseteq EnvType
    /\ CliFlags \subseteq CLI_FLAGS
    /\ OptionSets \subseteq SUBSET Option
    /\ Origins \subseteq [indices : SUBSET Index, migrated : 0..Migrations]

VARIABLES
    env,       \* the environment, the same for every script
    indices,   \* the indices Elasticsearch holds
    migrated,  \* how many migrations are applied
    manifest,  \* bootstrap-manifest.json: a set of at most one record
    proc,      \* what each operator is running
    origin,    \* history: what existed before the first script ran
    calm       \* auxiliary: from now on no store fails, no script is killed and
               \* no other script is started than bootstrap-prod.js

vars == <<env, indices, migrated, manifest, proc, origin, calm>>

Idle == [script |-> "none", step |-> "none", opts |-> {}, at |-> 1, created |-> {},
         before |-> 0, applied |-> 0, checked |-> FALSE, faults |-> FALSE]

\* The environment a bootstrap script works in; teardown.js takes no such flags.
ScriptEnv == applyCliDefaults(env, CliFlags)

Init ==
    /\ env \in Env
    /\ origin \in Origins
    /\ indices = origin.indices
    /\ migrated = origin.migrated
    /\ manifest = {}
    /\ proc = [o \in Operator |-> Idle]
    /\ calm = FALSE

At(o, step) == proc[o].step = step

Go(o, p) == proc' = [proc EXCEPT ![o] = p]

Exit(o) == Go(o, Idle)

\* Only bootstrap-prod.js has anything to write after the seeding.
AfterSeed(p) == IF p.script = "bootstrap-prod" THEN "manifest" ELSE "validate"

AfterEs(p) ==
    CASE p.script = "teardown" -> "pgdown"
      [] "es-only" \in p.opts -> AfterSeed(p)
      [] OTHER -> "pgread"

\* Plausible bug: the loop runs one index too far.
NextIndexTooFar(p) ==
    IF p.at <= Len(Indices) THEN [p EXCEPT !.at = @ + 1, !.step = "es"]
    ELSE [p EXCEPT !.at = 1, !.step = AfterEs(p)]

\* The loop over the indices moves on, or ends.
NextIndex(p) ==
    IF p.at < Len(Indices) THEN [p EXCEPT !.at = @ + 1, !.step = "es"]
    ELSE [p EXCEPT !.at = 1, !.step = AfterEs(p)]

SkipEs(p) == [p EXCEPT !.step = AfterEs(p)]

AfterPreflight(p) ==
    CASE "dry-run" \in p.opts -> [p EXCEPT !.step = "validate"]
      [] "pg-only" \in p.opts -> SkipEs(p)
      [] OTHER -> [p EXCEPT !.step = "es"]

-----------------------------------------------------------------------------
(* bootstrap-prod.js and bootstrap.js *)

StartBootstrapProd(o, opts) ==
    /\ At(o, "none")
    /\ LET p == [Idle EXCEPT !.script = "bootstrap-prod", !.opts = opts]
       IN  Go(o, IF "skip-preflight" \in opts THEN AfterPreflight(p)
                 ELSE [p EXCEPT !.step = "preflight"])
    /\ UNCHANGED <<env, indices, migrated, manifest, origin, calm>>

\* bootstrap.js has no preflight and writes no manifest; in local mode it only
\* prepares the SQLite file.
StartBootstrap(o, opts) ==
    /\ At(o, "none")
    /\ env.mode # "local"
    /\ Go(o, AfterPreflight([Idle EXCEPT !.script = "bootstrap", !.opts = opts]))
    /\ UNCHANGED <<env, indices, migrated, manifest, origin, calm>>

Preflight(o, down) ==
    /\ At(o, "preflight")
    /\ IF PreflightPasses(ScriptEnv, down)
       THEN Go(o, AfterPreflight([proc[o] EXCEPT !.checked = TRUE]))
       ELSE Exit(o)
    /\ UNCHANGED <<env, indices, migrated, manifest, origin, calm>>

\* Without the two credentials bootstrap-prod.js counts a fault and bootstrap.js
\* warns; with them but without the rest of the configuration createEsClient throws.
EsMisconfigured(o) ==
    /\ At(o, "es") /\ proc[o].at = 1 /\ proc[o].script # "teardown"
    /\ ~getConfigOk(ScriptEnv)
    /\ IF HasEs(ScriptEnv) THEN Exit(o)
       ELSE Go(o, [SkipEs(proc[o]) EXCEPT !.faults = @ \/ proc[o].script = "bootstrap-prod"])
    /\ UNCHANGED <<env, indices, migrated, manifest, origin, calm>>

\* Plausible bug: every index is created without asking whether it exists.
IndexExistsUnasked(o) ==
    /\ At(o, "es") /\ proc[o].script # "teardown"
    /\ getConfigOk(ScriptEnv)
    /\ Go(o, [proc[o] EXCEPT !.step = "create"])
    /\ UNCHANGED <<env, indices, migrated, manifest, origin, calm>>

\* One that exists is left alone and not recorded as created.
IndexExists(o) ==
    /\ At(o, "es") /\ proc[o].script # "teardown"
    /\ getConfigOk(ScriptEnv)
    /\ Go(o, IF Indices[proc[o].at] \in indices THEN NextIndex(proc[o])
             ELSE [proc[o] EXCEPT !.step = "create"])
    /\ UNCHANGED <<env, indices, migrated, manifest, origin, calm>>

\* Elasticsearch refuses to create an index that exists by now, and the script dies.
CreateIndex(o) ==
    LET i == Indices[proc[o].at]
    IN  /\ At(o, "create")
        /\ IF i \in indices THEN Exit(o)
           ELSE Go(o, NextIndex([proc[o] EXCEPT
                    !.created = IF proc[o].script = "bootstrap-prod" THEN @ \cup {i} ELSE @]))
        /\ indices' = indices \cup {i}
        /\ UNCHANGED <<env, migrated, manifest, origin, calm>>

\* The names in pgmigrations before the runner is called.  A query that fails is
\* taken for a table that does not exist yet.
ReadApplied(o, answered) ==
    /\ At(o, "pgread")
    /\ IF ~HasPg(ScriptEnv)
       THEN Go(o, [proc[o] EXCEPT !.step = AfterSeed(proc[o]),
                                  !.faults = @ \/ proc[o].script = "bootstrap-prod"])
       ELSE IF ~createPgPoolOk(ScriptEnv) THEN Exit(o)
       ELSE Go(o, [proc[o] EXCEPT
                !.before = IF answered /\ proc[o].script = "bootstrap-prod" THEN migrated ELSE 0,
                !.step = "pgup"])
    /\ UNCHANGED <<env, indices, migrated, manifest, origin, calm>>

MigrateUp(o) ==
    /\ At(o, "pgup")
    /\ migrated' = Migrations
    /\ Go(o, [proc[o] EXCEPT !.step = IF proc[o].script = "bootstrap-prod" THEN "pgafter"
                                      ELSE "validate"])
    /\ UNCHANGED <<env, indices, manifest, origin, calm>>

\* The names in pgmigrations now that were not there before are called applied.
ReadAfter(o) ==
    /\ At(o, "pgafter")
    /\ Go(o, [proc[o] EXCEPT !.applied = IF migrated > proc[o].before
                                         THEN migrated - proc[o].before ELSE 0,
                             !.before = 0,
                             !.step = "manifest"])
    /\ UNCHANGED <<env, indices, migrated, manifest, origin, calm>>

\* A fault so far ends the script before it records what it created.
WriteManifest(o) ==
    /\ At(o, "manifest")
    /\ IF proc[o].faults THEN Exit(o) /\ UNCHANGED manifest
       ELSE /\ manifest' = {[created |-> proc[o].created, applied |-> proc[o].applied]}
            /\ Go(o, [Idle EXCEPT !.script = "bootstrap-prod", !.step = "validate"])
    /\ UNCHANGED <<env, indices, migrated, origin, calm>>

\* The read-back checks only decide the exit code.
Validate(o) ==
    /\ At(o, "validate")
    /\ Exit(o)
    /\ UNCHANGED <<env, indices, migrated, manifest, origin, calm>>

-----------------------------------------------------------------------------
(* teardown.js: the manifest is read once, at the start. *)

StartTeardown(o) ==
    /\ At(o, "none")
    /\ \E m \in manifest :
        /\ m.created # {} \/ m.applied > 0
        /\ LET p == [Idle EXCEPT !.script = "teardown", !.created = m.created,
                                 !.applied = m.applied]
           IN  Go(o, IF m.created = {} THEN SkipEs(p)
                     ELSE IF getConfigOk(env) THEN [p EXCEPT !.step = "es"]
                     ELSE [SkipEs(p) EXCEPT !.faults = TRUE])
    /\ UNCHANGED <<env, indices, migrated, manifest, origin, calm>>

\* Plausible bug: every scheduler index that exists is deleted.
TeardownExistsUnlisted(o) ==
    /\ At(o, "es") /\ proc[o].script = "teardown"
    /\ Go(o, IF Indices[proc[o].at] \in indices
             THEN [proc[o] EXCEPT !.step = "delete"] ELSE NextIndex(proc[o]))
    /\ UNCHANGED <<env, indices, migrated, manifest, origin, calm>>

\* The loop over the manifest's indices asks first and deletes second.
TeardownExists(o) ==
    LET i == Indices[proc[o].at]
    IN  /\ At(o, "es") /\ proc[o].script = "teardown"
        /\ Go(o, IF i \in proc[o].created /\ i \in indices
                 THEN [proc[o] EXCEPT !.step = "delete"] ELSE NextIndex(proc[o]))
        /\ UNCHANGED <<env, indices, migrated, manifest, origin, calm>>

\* An index that is gone by now is a failed delete.
DeleteIndex(o) ==
    LET i == Indices[proc[o].at]
    IN  /\ At(o, "delete")
        /\ Go(o, NextIndex([proc[o] EXCEPT !.faults = @ \/ i \notin indices]))
        /\ indices' = indices \ {i}
        /\ UNCHANGED <<env, migrated, manifest, origin, calm>>

\* As many migrations as the manifest names are rolled back, the latest first.
MigrateDown(o) ==
    /\ At(o, "pgdown")
    /\ IF proc[o].applied > 0 /\ createPgPoolOk(env)
       THEN migrated' = IF migrated > proc[o].applied THEN migrated - proc[o].applied ELSE 0
       ELSE UNCHANGED migrated
    /\ Go(o, [proc[o] EXCEPT !.step = "archive",
                             !.faults = @ \/ (proc[o].applied > 0 /\ ~createPgPoolOk(env))])
    /\ UNCHANGED <<env, indices, manifest, origin, calm>>

\* The file at the manifest's path is renamed, whoever wrote it; a teardown with
\* failures keeps it for the next try.
Archive(o) ==
    /\ At(o, "archive")
    /\ manifest' = IF proc[o].faults THEN manifest ELSE {}
    /\ Exit(o)
    /\ UNCHANGED <<env, indices, migrated, origin, calm>>

-----------------------------------------------------------------------------
(* Faults: a store that fails a call, and a script that is killed. *)

\* A failed call may or may not have had its effect.  It ends a bootstrap script;
\* teardown counts it and goes on.
EsError(o) ==
    LET p == proc[o]
        i == Indices[p.at]
    IN  /\ p.step \in {"es", "create", "delete"}
        /\ indices' \in CASE At(o, "create") -> {indices, indices \cup {i}}
                          [] At(o, "delete") -> {indices, indices \ {i}}
                          [] OTHER -> {indices}
        /\ IF p.script = "teardown" THEN Go(o, NextIndex([p EXCEPT !.faults = TRUE])) ELSE Exit(o)
        /\ UNCHANGED <<env, migrated, manifest, origin, calm>>

PgError(o) ==
    /\ proc[o].step \in {"pgup", "pgafter", "pgdown"}
    /\ migrated' \in CASE At(o, "pgup") -> migrated..Migrations
                       [] At(o, "pgdown") -> {k \in 0..migrated : k + proc[o].applied >= migrated}
                       [] OTHER -> {migrated}
    /\ IF At(o, "pgdown") THEN Go(o, [proc[o] EXCEPT !.step = "archive", !.faults = TRUE])
       ELSE Exit(o)
    /\ UNCHANGED <<env, indices, manifest, origin, calm>>

Crash(o) ==
    /\ ~At(o, "none")
    /\ Exit(o)
    /\ UNCHANGED <<env, indices, migrated, manifest, origin, calm>>

-----------------------------------------------------------------------------
\* One failed probe is as good as several.
Down == {{p} : p \in {"es", "pg", "gcs", "worker", "secret", "jwks"}}

\* A step of a script in which every store answers, or the start of a plain
\* bootstrap-prod.js.
Rerun(o) ==
    \/ StartBootstrapProd(o, {})
    \/ Preflight(o, {}) \/ EsMisconfigured(o) \/ IndexExists(o) \/ CreateIndex(o)
    \/ ReadApplied(o, TRUE) \/ MigrateUp(o) \/ ReadAfter(o) \/ WriteManifest(o) \/ Validate(o)
    \/ TeardownExists(o) \/ DeleteIndex(o) \/ MigrateDown(o) \/ Archive(o)

\* A fault, or the start of another script.
Disturbance(o) ==
    \/ \E opts \in OptionSets : StartBootstrapProd(o, opts) \/ StartBootstrap(o, opts)
    \/ StartTeardown(o)
    \/ (\E down \in Down : Preflight(o, down)) \/ ReadApplied(o, FALSE)
    \/ EsError(o) \/ PgError(o) \/ Crash(o)

Calm ==
    /\ ~calm
    /\ calm' = TRUE
    /\ UNCHANGED <<env, indices, migrated, manifest, proc, origin>>

Next ==
    \/ \E o \in Operator : Rerun(o) \/ (~calm /\ Disturbance(o))
    \/ Calm

Spec == Init /\ [][Next]_vars

\* An operator runs bootstrap-prod.js, again after it died, and a script that was
\* started goes on.
Fairness == \A o \in Operator : WF_vars(Rerun(o))

FairSpec == Spec /\ Fairness

-----------------------------------------------------------------------------
\* The stores, the manifest and every running script hold values of their types; no
\* loop over the indices leaves the list.
TypeOK ==
    /\ env \in Env
    /\ indices \subseteq Index
    /\ migrated \in 0..Migrations
    /\ manifest \in SUBSET [created : SUBSET Index, applied : 0..Migrations]
    /\ proc \in [Operator ->
                    [script  : {"none", "bootstrap-prod", "bootstrap", "teardown"},
                     step    : {"none", "preflight", "es", "create", "delete", "pgread", "pgup",
                                "pgafter", "pgdown", "manifest", "validate", "archive"},
                     opts    : SUBSET Option,
                     at      : 1..Len(Indices),
                     created : SUBSET Index,
                     before  : 0..Migrations,
                     applied : 0..Migrations,
                     checked : BOOLEAN,
                     faults  : BOOLEAN]]
    /\ origin \in [indices : SUBSET Index, migrated : 0..Migrations]
    /\ calm \in BOOLEAN

(***************************************************************************)
(* teardown.js "only deletes resources that were CREATED": whatever         *)
(* scripts ran, died, were repeated or ran side by side, an index that was  *)
(* there before the first of them is still there.                           *)
(***************************************************************************)
PreexistingIndicesSurvive == origin.indices \subseteq indices

(***************************************************************************)
(* A preflight that passed in production mode is enough: the seeding that   *)
(* follows never stops for want of configuration, and the scheduler started *)
(* in the same environment is not turned away by its startup validation,    *)
(* but for the two variables preflight only warns about or ignores.         *)
(***************************************************************************)
PreflightIsEnough ==
    \A o \in Operator :
        proc[o].checked /\ env.mode = "production" =>
            /\ ~proc[o].faults
            /\ getConfigOk(ScriptEnv) /\ createPgPoolOk(ScriptEnv)
            /\ \/ SchedulerStarts(ScriptEnv)
               \/ "WORKER_RUNTIME_ISOLATION" \in env.vars
               \/ env.engine = "direct" /\ "DB_ALLOW_DIRECT" \notin env.vars

Provisioned == indices = Index /\ migrated = Migrations

(***************************************************************************)
(* "Idempotent" and "safe to run multiple times": wherever deaths, partial  *)
(* runs and teardowns have left the stores, once the stores answer and      *)
(* nobody tears down any more, running bootstrap-prod.js again and again    *)
(* (by several operators at once, too) ends with everything in place.       *)
(***************************************************************************)
RerunsConverge ==
    calm /\ PreflightPasses(ScriptEnv, {}) /\ env.mode = "production" ~> []Provisioned

(***************************************************************************)
(* What the head of teardown.js says of the database: the migrations that   *)
(* were applied before the first script ran are never rolled back.          *)
(***************************************************************************)
PreexistingMigrationsSurvive == origin.migrated <= migrated
=============================================================================
