-------------------------- MODULE DeploymentProofs --------------------------
(***************************************************************************)
(* Proofs about the deployment scripts, for any number of operators,        *)
(* indices, migrations, environments, flags and options.                    *)
(***************************************************************************)
EXTENDS Deployment, TLAPS

Proc ==
    [script  : {"none", "bootstrap-prod", "bootstrap", "teardown"},
     step    : {"none", "preflight", "es", "create", "delete", "pgread", "pgup",
                "pgafter", "pgdown", "manifest", "validate", "archive"},
     opts    : SUBSET Option,
     at      : 1..Len(Indices),
     created : SUBSET Index,
     before  : 0..Migrations,
     applied : 0..Migrations,
     checked : BOOLEAN,
     faults  : BOOLEAN]

\* What is on record as created, by a running script or in the manifest, was not
\* there before the first script ran.
RecordsFit ==
    /\ \A m \in manifest : m.created \cap origin.indices = {}
    /\ \A o \in Operator : proc[o].created \cap origin.indices = {}

\* Only a teardown deletes, and only what it has on record; only a teardown rolls
\* migrations back.
DeletesFit ==
    \A o \in Operator :
        /\ proc[o].step = "delete" => /\ proc[o].script = "teardown"
                                      /\ Indices[proc[o].at] \in proc[o].created
        /\ proc[o].step = "pgdown" => proc[o].script = "teardown"

\* A script that has passed its preflight meets no fault of the configuration.
ChecksFit ==
    \A o \in Operator :
        /\ proc[o].step = "preflight" => proc[o].script = "bootstrap-prod" /\ proc[o].faults = FALSE
        /\ proc[o].checked = TRUE =>
              /\ proc[o].script = "bootstrap-prod"
              /\ EnvFaults(ScriptEnv) = {}
              /\ env.mode = "production" => proc[o].faults = FALSE

DInv == TypeOK /\ PreexistingIndicesSurvive /\ RecordsFit /\ DeletesFit /\ ChecksFit

-----------------------------------------------------------------------------
(* The environment *)

\* An environment the preflight accepts, in production mode, is one in which the
\* stores can be reached.
LEMMA AcceptedConfigures ==
    ASSUME NEW e \in EnvType, e.mode = "production", EnvFaults(e) = {}
    PROVE  /\ requireEnv(AUTH_REQUIRED \cup PROD_CORE \cup RUNTIME_REQUIRED, e) = {}
           /\ EngineFaults(e) = {} /\ SemanticFaults(e) = {}
           /\ getConfigOk(e) /\ HasPg(e) /\ createPgPoolOk(e)
<1>1. /\ requireEnv(AUTH_REQUIRED, e) = {} /\ requireEnv(PROD_CORE \cup RUNTIME_REQUIRED, e) = {}
      /\ EngineFaults(e) = {} /\ SemanticFaults(e) = {}
  BY DEF EnvFaults
<1>2. AUTH_REQUIRED \cup PROD_CORE \cup RUNTIME_REQUIRED \subseteq e.vars
  BY <1>1 DEF requireEnv
<1>3. "DB_ENGINE" \in e.vars /\ e.engine \in {"cloud-sql", "direct", "other"}
  BY <1>2 DEF PROD_CORE, EnvType
<1>4. e.engine # "other"
  BY <1>1, <1>3 DEF EngineFaults, Engine
<1>5. HasPg(e)
  <2>1. CASE e.engine = "cloud-sql"
    BY <1>1, <1>3, <2>1 DEF HasPg, EngineFaults, Engine, requireEnv
  <2>2. CASE e.engine = "direct"
    BY <1>1, <1>3, <2>2 DEF HasPg, EngineFaults, Engine, requireEnv
  <2> QED BY <1>3, <1>4, <2>1, <2>2
<1>6. getConfigOk(e)
  BY <1>2 DEF getConfigOk, requireEnv, PROD_CORE
<1> QED BY <1>1, <1>2, <1>3, <1>4, <1>5, <1>6 DEF createPgPoolOk, Engine, requireEnv

\* And one in which the scheduler starts, but for two variables.
LEMMA AcceptedStarts ==
    ASSUME NEW e \in EnvType, e.mode = "production", EnvFaults(e) = {},
           "WORKER_RUNTIME_ISOLATION" \notin e.vars,
           e.engine = "direct" => "DB_ALLOW_DIRECT" \in e.vars
    PROVE  SchedulerStarts(e)
<1>1. /\ AUTH_REQUIRED \cup PROD_CORE \cup RUNTIME_REQUIRED \subseteq e.vars
      /\ EngineFaults(e) = {} /\ SemanticFaults(e) = {}
  BY AcceptedConfigures DEF requireEnv
<1>2. requireEnv(STARTUP_REQUIRED, e) = {}
  <2>1. STARTUP_REQUIRED \subseteq AUTH_REQUIRED \cup PROD_CORE \cup RUNTIME_REQUIRED
    BY DEF STARTUP_REQUIRED, AUTH_REQUIRED, PROD_CORE, RUNTIME_REQUIRED
  <2> QED BY <1>1, <2>1 DEF requireEnv
<1>3. "WORKER_EXECUTION_MODE" \in e.vars /\ "RUNTIME_SERVICE_ACCOUNT_EMAIL" \in e.vars
  BY <1>1 DEF RUNTIME_REQUIRED
<1>4. /\ "WORKER_INVOKER_SERVICE_ACCOUNT_EMAIL" \in e.vars
      /\ "SCHEDULER_INVOKER_SERVICE_ACCOUNT_EMAIL" \in e.vars
  BY <1>1 DEF AUTH_REQUIRED
<1>5. "DB_ENGINE" \in e.vars
  BY <1>1 DEF PROD_CORE
<1>6. e.exec = "isolated"
  BY <1>1, <1>3 DEF SemanticFaults
<1>7. e.shared = {}
  <2>1. "worker" \notin e.shared /\ "scheduler" \notin e.shared
    BY <1>1, <1>3, <1>4 DEF SemanticFaults, Shares
  <2> QED BY <2>1 DEF EnvType
<1>8. \/ e.engine = "cloud-sql" /\ requireEnv(CLOUD_SQL_VARS, e) = {}
      \/ e.engine = "direct" /\ requireEnv({"DATABASE_URL", "DB_ALLOW_DIRECT"}, e) = {}
  <2>1. createPgPoolOk(e) /\ HasPg(e) /\ Engine(e) = e.engine
    BY <1>5, AcceptedConfigures DEF Engine
  <2>2. e.engine \in {"cloud-sql", "direct"}
    BY <2>1 DEF createPgPoolOk, EnvType
  <2> QED BY <2>1, <2>2 DEF HasPg, requireEnv
<1>9. validateProductionStartupConfig(e)
  BY <1>2, <1>5, <1>6, <1>7, <1>8 DEF validateProductionStartupConfig
<1> QED BY <1>9 DEF SchedulerStarts, resolveAppMode

-----------------------------------------------------------------------------
(* One script's step *)

\* q is p at another step.
Onward(p, q) ==
    /\ q \in Proc
    /\ q.script = p.script /\ q.created = p.created
    /\ q.checked = p.checked /\ q.faults = p.faults
    /\ q.step \notin {"delete", "preflight"}
    /\ q.step = "pgdown" => q.script = "teardown"

LEMMA OnwardSteps ==
    ASSUME NEW p \in Proc
    PROVE  /\ Onward(p, NextIndex(p)) /\ Onward(p, SkipEs(p)) /\ Onward(p, AfterPreflight(p))
           /\ AfterSeed(p) \in {"manifest", "validate"}
<1>1. /\ AfterSeed(p) \in {"manifest", "validate"}
      /\ AfterEs(p) \in {"pgdown", "manifest", "validate", "pgread"}
      /\ AfterEs(p) = "pgdown" => p.script = "teardown"
  BY DEF AfterSeed, AfterEs
<1>2. ASSUME NEW st \in {"es", "create", "pgread", "pgdown", "manifest", "validate"},
             st = "pgdown" => p.script = "teardown"
      PROVE  Onward(p, [p EXCEPT !.step = st])
  BY <1>2 DEF Onward, Proc
<1>3. Onward(p, SkipEs(p))
  BY <1>1, <1>2 DEF SkipEs
<1>4. Onward(p, AfterPreflight(p))
  BY <1>2, <1>3 DEF AfterPreflight
<1>5. Len(Indices) \in Nat /\ Len(Indices) > 0 /\ p.at \in 1..Len(Indices)
  BY DeployAssumption DEF Proc
<1>6. CASE p.at < Len(Indices)
  <2>1. p.at + 1 \in 1..Len(Indices)
    BY <1>5, <1>6
  <2>2. Onward(p, [p EXCEPT !.at = p.at + 1, !.step = "es"])
    BY <2>1 DEF Onward, Proc
  <2> QED BY <1>1, <1>3, <1>4, <1>6, <2>2 DEF NextIndex
<1>7. CASE ~(p.at < Len(Indices))
  <2>1. 1 \in 1..Len(Indices)
    BY <1>5
  <2>2. Onward(p, [p EXCEPT !.at = 1, !.step = AfterEs(p)])
    BY <1>1, <2>1 DEF Onward, Proc
  <2> QED BY <1>1, <1>3, <1>4, <1>7, <2>2 DEF NextIndex
<1> QED BY <1>6, <1>7

LEMMA IdleFacts ==
    /\ Idle \in Proc
    /\ Idle.step = "none" /\ Idle.script = "none" /\ Idle.created = {}
    /\ Idle.checked = FALSE /\ Idle.faults = FALSE
<1>1. 1 \in 1..Len(Indices) /\ 0 \in 0..Migrations
  BY DeployAssumption
<1> QED BY <1>1 DEF Idle, Proc

\* Operator o's script moves on to q, and everything on record still fits.
LEMMA ScriptMoves ==
    ASSUME DInv, NEW o \in Operator, NEW q \in Proc, proc' = [proc EXCEPT ![o] = q],
           UNCHANGED <<env, origin, calm>>,
           indices' \subseteq Index, origin.indices \subseteq indices',
           migrated' \in 0..Migrations,
           manifest' \in SUBSET [created : SUBSET Index, applied : 0..Migrations],
           \A m \in manifest' : m.created \cap origin.indices = {},
           q.created \cap origin.indices = {},
           q.step = "delete" => q.script = "teardown" /\ Indices[q.at] \in q.created,
           q.step = "pgdown" => q.script = "teardown",
           q.step = "preflight" => q.script = "bootstrap-prod" /\ q.faults = FALSE,
           q.checked = TRUE => /\ q.script = "bootstrap-prod" /\ EnvFaults(ScriptEnv) = {}
                               /\ env.mode = "production" => q.faults = FALSE
    PROVE  DInv'
<1> USE DEF DInv
<1>1. proc \in [Operator -> Proc]
  BY DEF TypeOK, Proc
<1>2. /\ proc' \in [Operator -> Proc] /\ proc'[o] = q
      /\ \A u \in Operator \ {o} : proc'[u] = proc[u]
  BY <1>1
<1>3. (calm \in BOOLEAN)'
  BY DEF TypeOK
<1>4. (env \in Env /\ origin \in [indices : SUBSET Index, migrated : 0..Migrations])'
  BY DEF TypeOK
<1>5. TypeOK'
  BY <1>2, <1>3, <1>4 DEF TypeOK, Proc
<1>6. UNCHANGED ScriptEnv
  BY DEF ScriptEnv
<1>7. PreexistingIndicesSurvive' /\ RecordsFit'
  BY <1>2 DEF PreexistingIndicesSurvive, RecordsFit
<1>8. DeletesFit'
  BY <1>2 DEF DeletesFit
<1>9. ChecksFit'
  BY <1>2, <1>6 DEF ChecksFit
<1> QED BY <1>5, <1>7, <1>8, <1>9

\* The stores and the manifest are left alone.
LEMMA OnlyMoves ==
    ASSUME DInv, NEW o \in Operator, NEW q, Onward(proc[o], q), proc' = [proc EXCEPT ![o] = q],
           UNCHANGED <<env, indices, migrated, manifest, origin, calm>>
    PROVE  DInv'
<1>1. /\ q.created \cap origin.indices = {} /\ q.step # "delete" /\ q.step # "preflight"
      /\ q.step = "pgdown" => q.script = "teardown"
      /\ q.checked = TRUE => /\ q.script = "bootstrap-prod" /\ EnvFaults(ScriptEnv) = {}
                             /\ env.mode = "production" => q.faults = FALSE
  BY DEF DInv, RecordsFit, ChecksFit, Onward
<1>2. /\ indices' \subseteq Index /\ origin.indices \subseteq indices' /\ migrated' \in 0..Migrations
      /\ manifest' \in SUBSET [created : SUBSET Index, applied : 0..Migrations]
      /\ \A m \in manifest' : m.created \cap origin.indices = {}
  BY DEF DInv, TypeOK, PreexistingIndicesSurvive, RecordsFit
<1> QED BY <1>1, <1>2, ScriptMoves DEF Onward

\* The script ends.
LEMMA ScriptEnds ==
    ASSUME DInv, NEW o \in Operator, Exit(o), UNCHANGED <<env, origin, calm>>,
           indices' \subseteq Index, origin.indices \subseteq indices',
           migrated' \in 0..Migrations, manifest' \subseteq manifest
    PROVE  DInv'
<1>1. /\ manifest' \in SUBSET [created : SUBSET Index, applied : 0..Migrations]
      /\ \A m \in manifest' : m.created \cap origin.indices = {}
  BY DEF DInv, TypeOK, RecordsFit
<1> QED BY <1>1, IdleFacts, ScriptMoves DEF Exit, Go

-----------------------------------------------------------------------------
(* The actions *)

LEMMA StateFacts ==
    ASSUME DInv
    PROVE  /\ indices \subseteq Index /\ origin.indices \subseteq indices
           /\ migrated \in 0..Migrations /\ Migrations \in Nat
           /\ ScriptEnv \in EnvType /\ env \in EnvType
           /\ ScriptEnv.mode = env.mode /\ ScriptEnv.engine = env.engine
           /\ \A v : v \in env.vars => v \in ScriptEnv.vars
           /\ \A v : v \in ScriptEnv.vars => v \in env.vars \/ v \in CLI_FLAGS
           /\ \A o \in Operator : proc[o] \in Proc /\ Indices[proc[o].at] \in Index
<1>1. env \in EnvType
  BY DeployAssumption DEF DInv, TypeOK
<1>2. CLI_FLAGS \subseteq Var
  BY DEF CLI_FLAGS, Var, PROD_CORE
<1>3. /\ ScriptEnv \in EnvType /\ ScriptEnv.mode = env.mode /\ ScriptEnv.engine = env.engine
      /\ \A v : v \in env.vars => v \in ScriptEnv.vars
      /\ \A v : v \in ScriptEnv.vars => v \in env.vars \/ v \in CLI_FLAGS
  BY <1>1, <1>2 DEF ScriptEnv, applyCliDefaults, EnvType
<1>4. \A o \in Operator : proc[o] \in Proc
  BY DEF DInv, TypeOK, Proc
<1>5. \A o \in Operator : Indices[proc[o].at] \in Index
  BY <1>4 DEF Proc, Index
<1> QED BY <1>1, <1>3, <1>4, <1>5, DeployAssumption DEF DInv, TypeOK, PreexistingIndicesSurvive

LEMMA StartKeeps ==
    ASSUME DInv, NEW o \in Operator, NEW opts \in SUBSET Option,
           StartBootstrapProd(o, opts) \/ StartBootstrap(o, opts)
    PROVE  DInv'
<1>1. ASSUME NEW sc \in {"bootstrap-prod", "bootstrap"}
      PROVE  LET p == [Idle EXCEPT !.script = sc, !.opts = opts]
             IN  /\ p \in Proc /\ p.script = sc /\ p.created = {} /\ p.checked = FALSE
                 /\ p.faults = FALSE
                 /\ \A st \in {"preflight"} : [p EXCEPT !.step = st] \in Proc
  BY IdleFacts DEF Proc
<1>2. ASSUME NEW p \in Proc, p.created = {}, p.checked = FALSE, NEW q, Onward(p, q), Go(o, q),
             UNCHANGED <<env, indices, migrated, manifest, origin, calm>>
      PROVE  DInv'
  BY <1>2, ScriptMoves DEF Onward, Go, DInv, TypeOK, PreexistingIndicesSurvive, RecordsFit
<1>3. CASE StartBootstrap(o, opts)
  <2> DEFINE p == [Idle EXCEPT !.script = "bootstrap", !.opts = opts]
  <2>1. p \in Proc /\ p.created = {} /\ p.checked = FALSE
    BY <1>1
  <2>2. Go(o, AfterPreflight(p)) /\ UNCHANGED <<env, indices, migrated, manifest, origin, calm>>
    BY <1>3 DEF StartBootstrap
  <2> HIDE DEF p
  <2> QED BY <1>2, <2>1, <2>2, OnwardSteps
<1>4. CASE StartBootstrapProd(o, opts)
  <2> DEFINE p == [Idle EXCEPT !.script = "bootstrap-prod", !.opts = opts]
             q == [p EXCEPT !.step = "preflight"]
  <2>1. p \in Proc /\ p.created = {} /\ p.checked = FALSE
    BY <1>1
  <2>2. /\ q \in Proc /\ q.created = {} /\ q.checked = FALSE /\ q.faults = FALSE
        /\ q.script = "bootstrap-prod" /\ q.step = "preflight"
    BY IdleFacts DEF Proc
  <2>3. /\ Go(o, AfterPreflight(p)) \/ Go(o, q)
        /\ UNCHANGED <<env, indices, migrated, manifest, origin, calm>>
    BY <1>4 DEF StartBootstrapProd
  <2> HIDE DEF p, q
  <2>4. CASE Go(o, AfterPreflight(p))
    BY <1>2, <2>1, <2>3, <2>4, OnwardSteps
  <2>5. CASE Go(o, q)
    BY <2>2, <2>3, <2>5, ScriptMoves
       DEF Go, DInv, TypeOK, PreexistingIndicesSurvive, RecordsFit
  <2> QED BY <2>3, <2>4, <2>5
<1> QED BY <1>3, <1>4

LEMMA PreflightKeeps ==
    ASSUME DInv, NEW o \in Operator, NEW down, Preflight(o, down)
    PROVE  DInv'
<1>1. UNCHANGED <<env, indices, migrated, manifest, origin, calm>> /\ proc[o].step = "preflight"
  BY DEF Preflight, At
<1>2. CASE PreflightPasses(ScriptEnv, down)
  <2> DEFINE p == [proc[o] EXCEPT !.checked = TRUE]
  <2>1. proc[o] \in Proc /\ proc[o].script = "bootstrap-prod" /\ proc[o].faults = FALSE
    BY <1>1, StateFacts DEF DInv, ChecksFit
  <2>2. /\ p \in Proc /\ p.script = "bootstrap-prod" /\ p.faults = FALSE
        /\ p.created = proc[o].created
    BY <2>1 DEF Proc
  <2>3. Go(o, AfterPreflight(p)) /\ EnvFaults(ScriptEnv) = {}
    BY <1>2 DEF Preflight, PreflightPasses
  <2> HIDE DEF p
  <2>4. Onward(p, AfterPreflight(p))
    BY <2>2, OnwardSteps
  <2> QED BY <1>1, <2>2, <2>3, <2>4, ScriptMoves
          DEF Onward, Go, DInv, TypeOK, PreexistingIndicesSurvive, RecordsFit
<1>3. CASE ~PreflightPasses(ScriptEnv, down)
  BY <1>1, <1>3, ScriptEnds, StateFacts DEF Preflight
<1> QED BY <1>2, <1>3

\* A fault of the configuration is found only by a script that was not checked.
LEMMA EsMisconfiguredKeeps ==
    ASSUME DInv, NEW o \in Operator, EsMisconfigured(o)
    PROVE  DInv'
<1>1. UNCHANGED <<env, indices, migrated, manifest, origin, calm>> /\ ~getConfigOk(ScriptEnv)
  BY DEF EsMisconfigured
<1>2. CASE HasEs(ScriptEnv)
  BY <1>1, <1>2, ScriptEnds, StateFacts DEF EsMisconfigured
<1>3. CASE ~HasEs(ScriptEnv)
  <2> DEFINE p == SkipEs(proc[o])
             f == proc[o].faults \/ proc[o].script = "bootstrap-prod"
             q == [p EXCEPT !.faults = f]
  <2>1. Go(o, q)
    <3>1. p.faults = proc[o].faults
      BY StateFacts, OnwardSteps DEF Onward
    <3> QED BY <1>3, <3>1 DEF EsMisconfigured
  <2>2. Onward(proc[o], p) /\ f \in BOOLEAN
    BY StateFacts, OnwardSteps
  <2> HIDE DEF p, f
  <2>3. /\ q \in Proc /\ q.created = proc[o].created /\ q.script = proc[o].script
        /\ q.step \notin {"delete", "preflight"} /\ q.checked = proc[o].checked
        /\ q.step = "pgdown" => q.script = "teardown"
    BY <2>2 DEF Onward, Proc
  <2>4. proc[o].checked = TRUE => env.mode # "production" /\ EnvFaults(ScriptEnv) = {}
                                  /\ proc[o].script = "bootstrap-prod"
    BY <1>1, AcceptedConfigures, StateFacts DEF DInv, ChecksFit
  <2> HIDE DEF q
  <2> QED BY <1>1, <2>1, <2>3, <2>4, ScriptMoves
          DEF Go, DInv, TypeOK, PreexistingIndicesSurvive, RecordsFit
<1> QED BY <1>2, <1>3

LEMMA IndexExistsKeeps ==
    ASSUME DInv, NEW o \in Operator, IndexExists(o) \/ TeardownExists(o)
    PROVE  DInv'
<1> DEFINE p == proc[o]
<1>1. UNCHANGED <<env, indices, migrated, manifest, origin, calm>> /\ p \in Proc
  BY StateFacts DEF IndexExists, TeardownExists
<1>2. CASE Go(o, NextIndex(p))
  BY <1>1, <1>2, OnlyMoves, OnwardSteps DEF Go
<1>3. CASE Go(o, [p EXCEPT !.step = "create"])
  <2>1. Onward(p, [p EXCEPT !.step = "create"])
    BY <1>1 DEF Onward, Proc
  <2> QED BY <1>1, <1>3, <2>1, OnlyMoves DEF Go
<1>4. CASE Indices[p.at] \in p.created /\ p.script = "teardown" /\ Go(o, [p EXCEPT !.step = "delete"])
  <2> DEFINE q == [p EXCEPT !.step = "delete"]
  <2>1. /\ q \in Proc /\ q.created = p.created /\ q.step = "delete" /\ q.at = p.at
        /\ q.checked = p.checked /\ q.script = "teardown"
    BY <1>1, <1>4 DEF Proc
  <2>2. p.checked # TRUE
    BY <1>4 DEF DInv, ChecksFit
  <2> HIDE DEF q
  <2>3. q.created \cap origin.indices = {} /\ Indices[q.at] \in q.created /\ q.checked # TRUE
        /\ q.step # "preflight"
    BY <1>4, <2>1, <2>2 DEF DInv, RecordsFit
  <2>4. proc' = [proc EXCEPT ![o] = q]
    BY <1>4 DEF Go, q
  <2> QED BY <1>1, <2>1, <2>3, <2>4, ScriptMoves
          DEF DInv, TypeOK, PreexistingIndicesSurvive, RecordsFit
<1> QED BY <1>2, <1>3, <1>4 DEF IndexExists, TeardownExists

\* What is created now was not there, and so was not there before the first script.
LEMMA CreateIndexKeeps ==
    ASSUME DInv, NEW o \in Operator, CreateIndex(o)
    PROVE  DInv'
<1> DEFINE i == Indices[proc[o].at]
           c == IF proc[o].script = "bootstrap-prod" THEN proc[o].created \cup {i}
                ELSE proc[o].created
           p == [proc[o] EXCEPT !.created = c]
<1>1. /\ UNCHANGED <<env, migrated, manifest, origin, calm>> /\ indices' = indices \cup {i}
      /\ IF i \in indices THEN Exit(o) ELSE Go(o, NextIndex(p))
  BY DEF CreateIndex
<1>2. i \in Index /\ proc[o] \in Proc /\ indices' \subseteq Index /\ origin.indices \subseteq indices'
  BY <1>1, StateFacts
<1>3. CASE i \in indices
  BY <1>1, <1>2, <1>3, ScriptEnds, StateFacts
<1>4. CASE i \notin indices
  <2>1. c \subseteq Index /\ c \cap origin.indices = {}
    <3>1. i \notin origin.indices
      BY <1>4, StateFacts
    <3> QED BY <1>2, <3>1 DEF Proc, DInv, RecordsFit
  <2>2. /\ p \in Proc /\ p.created = c /\ p.script = proc[o].script
        /\ p.checked = proc[o].checked /\ p.faults = proc[o].faults
    BY <1>2, <2>1 DEF Proc
  <2> HIDE DEF c, p
  <2> DEFINE q == NextIndex(p)
  <2>3. Onward(p, q) /\ proc' = [proc EXCEPT ![o] = q]
    BY <1>1, <1>4, <2>2, OnwardSteps DEF Go
  <2> HIDE DEF q, i
  <2>4. /\ q \in Proc /\ q.created \cap origin.indices = {}
        /\ q.step # "delete" /\ q.step # "preflight"
        /\ q.step = "pgdown" => q.script = "teardown"
        /\ q.checked = TRUE => /\ q.script = "bootstrap-prod" /\ EnvFaults(ScriptEnv) = {}
                               /\ env.mode = "production" => q.faults = FALSE
    BY <2>1, <2>2, <2>3 DEF Onward, DInv, ChecksFit
  <2>5. /\ migrated' \in 0..Migrations
        /\ manifest' \in SUBSET [created : SUBSET Index, applied : 0..Migrations]
        /\ \A m \in manifest' : m.created \cap origin.indices = {}
    BY <1>1 DEF DInv, TypeOK, RecordsFit
  <2> QED BY <1>1, <1>2, <2>3, <2>4, <2>5, ScriptMoves
<1> QED BY <1>3, <1>4

LEMMA DeleteIndexKeeps ==
    ASSUME DInv, NEW o \in Operator, DeleteIndex(o)
    PROVE  DInv'
<1> DEFINE i == Indices[proc[o].at]
           f == proc[o].faults \/ i \notin indices
           p == [proc[o] EXCEPT !.faults = f]
           q == NextIndex(p)
<1>1. /\ UNCHANGED <<env, migrated, manifest, origin, calm>> /\ indices' = indices \ {i}
      /\ proc' = [proc EXCEPT ![o] = q] /\ proc[o].step = "delete"
  BY DEF DeleteIndex, Go, At
<1>2. i \in proc[o].created /\ i \notin origin.indices
  BY <1>1 DEF DInv, DeletesFit, RecordsFit
<1>3. indices' \subseteq Index /\ origin.indices \subseteq indices'
  BY <1>1, <1>2, StateFacts
<1>4. /\ p \in Proc /\ p.created = proc[o].created /\ p.script = proc[o].script
      /\ p.checked = proc[o].checked
  <2>1. proc[o] \in Proc /\ f \in BOOLEAN
    BY StateFacts
  <2> HIDE DEF f
  <2> QED BY <2>1 DEF Proc
<1>5. Onward(p, q)
  BY <1>4, OnwardSteps
<1> HIDE DEF i, f, p, q
<1>6. /\ q \in Proc /\ q.created \cap origin.indices = {} /\ q.checked = proc[o].checked
      /\ q.step # "delete" /\ q.step # "preflight"
      /\ q.step = "pgdown" => q.script = "teardown"
  BY <1>4, <1>5 DEF Onward, DInv, RecordsFit
<1>7. proc[o].checked # TRUE
  BY <1>1, <1>2 DEF DInv, ChecksFit, DeletesFit
<1> QED BY <1>1, <1>3, <1>6, <1>7, ScriptMoves DEF DInv, TypeOK, RecordsFit

LEMMA ReadAppliedKeeps ==
    ASSUME DInv, NEW o \in Operator, NEW answered \in BOOLEAN, ReadApplied(o, answered)
    PROVE  DInv'
<1>1. UNCHANGED <<env, indices, migrated, manifest, origin, calm>> /\ proc[o] \in Proc
  BY StateFacts DEF ReadApplied
<1>2. CASE ~HasPg(ScriptEnv)
  <2> DEFINE f == proc[o].faults \/ proc[o].script = "bootstrap-prod"
             st == AfterSeed(proc[o])
             q == [proc[o] EXCEPT !.step = st, !.faults = f]
  <2>1. proc' = [proc EXCEPT ![o] = q]
    BY <1>2 DEF ReadApplied, Go
  <2>2. f \in BOOLEAN /\ st \in {"manifest", "validate"}
    BY <1>1, OnwardSteps
  <2> HIDE DEF f, st
  <2>3. /\ q \in Proc /\ q.created = proc[o].created /\ q.script = proc[o].script
        /\ q.step \notin {"delete", "preflight", "pgdown"} /\ q.checked = proc[o].checked
    BY <1>1, <2>2 DEF Proc
  <2>4. proc[o].checked = TRUE => env.mode # "production" /\ EnvFaults(ScriptEnv) = {}
                                  /\ proc[o].script = "bootstrap-prod"
    BY <1>2, AcceptedConfigures, StateFacts DEF DInv, ChecksFit
  <2> HIDE DEF q
  <2> QED BY <1>1, <2>1, <2>3, <2>4, ScriptMoves
          DEF DInv, TypeOK, PreexistingIndicesSurvive, RecordsFit
<1>3. CASE Exit(o)
  BY <1>1, <1>3, ScriptEnds, StateFacts
<1>4. ASSUME NEW b \in 0..Migrations, Go(o, [proc[o] EXCEPT !.before = b, !.step = "pgup"])
      PROVE  DInv'
  <2>1. Onward(proc[o], [proc[o] EXCEPT !.before = b, !.step = "pgup"])
    BY <1>1 DEF Onward, Proc
  <2> QED BY <1>1, <1>4, <2>1, OnlyMoves DEF Go
<1>5. migrated \in 0..Migrations /\ 0 \in 0..Migrations
  BY StateFacts
<1> QED BY <1>2, <1>3, <1>4, <1>5 DEF ReadApplied

\* A step that changes the migrations, of a script that goes on.
LEMMA MigrationMoves ==
    ASSUME DInv, NEW o \in Operator, NEW q, Onward(proc[o], q), proc' = [proc EXCEPT ![o] = q],
           migrated' \in 0..Migrations, UNCHANGED <<env, indices, manifest, origin, calm>>
    PROVE  DInv'
<1>1. /\ q.created \cap origin.indices = {} /\ q.step # "delete" /\ q.step # "preflight"
      /\ q.step = "pgdown" => q.script = "teardown"
      /\ q.checked = TRUE => /\ q.script = "bootstrap-prod" /\ EnvFaults(ScriptEnv) = {}
                             /\ env.mode = "production" => q.faults = FALSE
  BY DEF DInv, RecordsFit, ChecksFit, Onward
<1>2. /\ indices' \subseteq Index /\ origin.indices \subseteq indices'
      /\ manifest' \in SUBSET [created : SUBSET Index, applied : 0..Migrations]
      /\ \A m \in manifest' : m.created \cap origin.indices = {}
  BY DEF DInv, TypeOK, PreexistingIndicesSurvive, RecordsFit
<1> QED BY <1>1, <1>2, ScriptMoves DEF Onward

LEMMA SeedingKeeps ==
    ASSUME DInv, NEW o \in Operator, MigrateUp(o) \/ ReadAfter(o)
    PROVE  DInv'
<1>1. proc[o] \in Proc /\ Migrations \in Nat /\ migrated \in 0..Migrations
  BY StateFacts
<1>2. CASE MigrateUp(o)
  <2>1. ASSUME NEW st \in {"pgafter", "validate"}, Go(o, [proc[o] EXCEPT !.step = st])
        PROVE  DInv'
    <3>1. Onward(proc[o], [proc[o] EXCEPT !.step = st])
      BY <1>1 DEF Onward, Proc
    <3>2. migrated' \in 0..Migrations /\ UNCHANGED <<env, indices, manifest, origin, calm>>
      BY <1>1, <1>2 DEF MigrateUp
    <3> QED BY <2>1, <3>1, <3>2, MigrationMoves DEF Go
  <2> QED BY <1>2, <2>1 DEF MigrateUp
<1>3. CASE ReadAfter(o)
  <2> DEFINE a == IF migrated > proc[o].before THEN migrated - proc[o].before ELSE 0
             q == [proc[o] EXCEPT !.applied = a, !.before = 0, !.step = "manifest"]
  <2>1. a \in 0..Migrations /\ 0 \in 0..Migrations
    <3>1. proc[o].before \in 0..Migrations
      BY <1>1 DEF Proc
    <3> QED BY <1>1, <3>1
  <2>2. proc' = [proc EXCEPT ![o] = q] /\ UNCHANGED <<env, indices, migrated, manifest, origin, calm>>
    BY <1>3 DEF ReadAfter, Go
  <2> HIDE DEF a
  <2>3. Onward(proc[o], q)
    BY <1>1, <2>1 DEF Onward, Proc
  <2> HIDE DEF q
  <2> QED BY <2>2, <2>3, OnlyMoves
<1> QED BY <1>2, <1>3

\* The manifest takes over what the script has on record.
LEMMA WriteManifestKeeps ==
    ASSUME DInv, NEW o \in Operator, WriteManifest(o)
    PROVE  DInv'
<1> DEFINE m == [created |-> proc[o].created, applied |-> proc[o].applied]
           q == [Idle EXCEPT !.script = "bootstrap-prod", !.step = "validate"]
<1>1. UNCHANGED <<env, indices, migrated, origin, calm>> /\ proc[o] \in Proc
  BY StateFacts DEF WriteManifest
<1>2. CASE Exit(o) /\ UNCHANGED manifest
  BY <1>1, <1>2, ScriptEnds, StateFacts
<1>3. CASE manifest' = {m} /\ Go(o, q)
  <2>1. m \in [created : SUBSET Index, applied : 0..Migrations] /\ m.created \cap origin.indices = {}
    BY <1>1 DEF Proc, DInv, RecordsFit
  <2>2. /\ q \in Proc /\ q.created = {} /\ q.checked = FALSE
        /\ q.step # "delete" /\ q.step # "preflight" /\ q.step # "pgdown"
    BY IdleFacts DEF Proc
  <2> HIDE DEF m, q
  <2> QED BY <1>1, <1>3, <2>1, <2>2, StateFacts, ScriptMoves DEF Go
<1> QED BY <1>2, <1>3 DEF WriteManifest

LEMMA EndKeeps ==
    ASSUME DInv, NEW o \in Operator, Validate(o) \/ Archive(o) \/ Crash(o)
    PROVE  DInv'
<1>1. /\ Exit(o) /\ UNCHANGED <<env, indices, migrated, origin, calm>> /\ manifest' \subseteq manifest
  BY DEF Validate, Archive, Crash
<1> QED BY <1>1, ScriptEnds, StateFacts

\* A step of a teardown, which was never checked: a fault may be counted.
LEMMA TeardownMoves ==
    ASSUME DInv, NEW o \in Operator, NEW q \in Proc, proc' = [proc EXCEPT ![o] = q],
           UNCHANGED <<env, manifest, origin, calm>>,
           indices' \subseteq Index, origin.indices \subseteq indices', migrated' \in 0..Migrations,
           q.script = "teardown", q.checked = FALSE, q.created \cap origin.indices = {},
           q.step \notin {"delete", "preflight"}
    PROVE  DInv'
<1>1. /\ manifest' \in SUBSET [created : SUBSET Index, applied : 0..Migrations]
      /\ \A m \in manifest' : m.created \cap origin.indices = {}
  BY DEF DInv, TypeOK, RecordsFit
<1> QED BY <1>1, ScriptMoves

\* The manifest's record is what a teardown starts with.
LEMMA StartTeardownKeeps ==
    ASSUME DInv, NEW o \in Operator, StartTeardown(o)
    PROVE  DInv'
<1> DEFINE P(m) == [Idle EXCEPT !.script = "teardown", !.created = m.created, !.applied = m.applied]
<1>1. PICK m \in manifest :
        Go(o, IF m.created = {} THEN SkipEs(P(m))
              ELSE IF getConfigOk(env) THEN [P(m) EXCEPT !.step = "es"]
              ELSE [SkipEs(P(m)) EXCEPT !.faults = TRUE])
  BY DEF StartTeardown
<1>2. UNCHANGED <<env, indices, migrated, manifest, origin, calm>>
  BY DEF StartTeardown
<1> DEFINE p == P(m)
<1>3. /\ m \in [created : SUBSET Index, applied : 0..Migrations]
      /\ m.created \cap origin.indices = {}
  BY DEF DInv, TypeOK, RecordsFit
<1>4. /\ p \in Proc /\ p.script = "teardown" /\ p.created = m.created /\ p.checked = FALSE
      /\ p.faults = FALSE
  BY <1>3, IdleFacts DEF Proc
<1>5. \/ Go(o, SkipEs(p)) \/ Go(o, [p EXCEPT !.step = "es"])
      \/ Go(o, [SkipEs(p) EXCEPT !.faults = TRUE])
  BY <1>1
<1> HIDE DEF p
<1>6. ASSUME NEW q \in Proc, Go(o, q), q.script = "teardown", q.created = m.created,
             q.checked = FALSE, q.step \notin {"delete", "preflight"}
      PROVE  DInv'
  BY <1>2, <1>3, <1>6, StateFacts, TeardownMoves DEF Go
<1>7. CASE Go(o, SkipEs(p))
  BY <1>4, <1>6, <1>7, OnwardSteps DEF Onward
<1>8. CASE Go(o, [p EXCEPT !.step = "es"])
  <2> DEFINE q == [p EXCEPT !.step = "es"]
  <2>1. /\ q \in Proc /\ q.script = "teardown" /\ q.created = m.created /\ q.checked = FALSE
        /\ q.step = "es"
    BY <1>4 DEF Proc
  <2> HIDE DEF q
  <2> QED BY <1>6, <1>8, <2>1 DEF q
<1>9. CASE Go(o, [SkipEs(p) EXCEPT !.faults = TRUE])
  <2> DEFINE r == SkipEs(p)
             q == [r EXCEPT !.faults = TRUE]
  <2>1. Onward(p, r)
    BY <1>4, OnwardSteps
  <2>2. Go(o, q)
    BY <1>9
  <2> HIDE DEF r
  <2>3. /\ q \in Proc /\ q.script = "teardown" /\ q.created = m.created /\ q.checked = FALSE
        /\ q.step \notin {"delete", "preflight"}
    BY <1>4, <2>1 DEF Onward, Proc
  <2> HIDE DEF q
  <2> QED BY <1>6, <2>2, <2>3
<1> QED BY <1>5, <1>7, <1>8, <1>9

LEMMA MigrateDownKeeps ==
    ASSUME DInv, NEW o \in Operator, MigrateDown(o) \/ (PgError(o) /\ proc[o].step = "pgdown")
    PROVE  DInv'
<1> DEFINE down == {k \in 0..migrated : k + proc[o].applied >= migrated}
<1>1. PICK f \in BOOLEAN : proc' = [proc EXCEPT ![o] = [proc[o] EXCEPT !.step = "archive", !.faults = f]]
  <2>1. proc[o].faults \/ (proc[o].applied > 0 /\ ~createPgPoolOk(env)) \in BOOLEAN
    OBVIOUS
  <2>2. CASE MigrateDown(o)
    BY <2>1, <2>2 DEF MigrateDown, Go
  <2>3. CASE PgError(o) /\ proc[o].step = "pgdown"
    BY <2>3 DEF PgError, Go, At
  <2> QED BY <2>2, <2>3
<1> DEFINE q == [proc[o] EXCEPT !.step = "archive", !.faults = f]
<1>2. proc[o] \in Proc /\ proc[o].script = "teardown" /\ proc[o].checked = FALSE
  <2>1. proc[o].step = "pgdown"
    BY DEF MigrateDown, At
  <2>2. proc[o] \in Proc /\ proc[o].checked \in BOOLEAN
    BY StateFacts DEF Proc
  <2> QED BY <2>1, <2>2 DEF DInv, DeletesFit, ChecksFit
<1>3. migrated \in 0..Migrations /\ Migrations \in Nat /\ proc[o].applied \in 0..Migrations
  BY <1>2, StateFacts DEF Proc
<1>4. migrated' \in 0..Migrations /\ UNCHANGED <<env, indices, manifest, origin, calm>>
  BY <1>3 DEF MigrateDown, PgError, At
<1>5. /\ q \in Proc /\ q.script = "teardown" /\ q.checked = FALSE /\ q.created = proc[o].created
      /\ q.step \notin {"delete", "preflight"}
  BY <1>2 DEF Proc
<1>6. q.created \cap origin.indices = {}
  BY <1>5 DEF DInv, RecordsFit
<1> HIDE DEF q
<1> QED BY <1>1, <1>4, <1>5, <1>6, StateFacts, TeardownMoves DEF q

LEMMA PgErrorKeeps ==
    ASSUME DInv, NEW o \in Operator, PgError(o)
    PROVE  DInv'
<1>1. CASE proc[o].step = "pgdown"
  BY <1>1, MigrateDownKeeps
<1>2. CASE proc[o].step # "pgdown"
  <2>1. Exit(o) /\ UNCHANGED <<env, indices, manifest, origin, calm>>
    BY <1>2 DEF PgError, At
  <2>2. migrated' \in 0..Migrations
    BY <1>2, StateFacts DEF PgError, At
  <2> QED BY <2>1, <2>2, ScriptEnds, StateFacts
<1> QED BY <1>1, <1>2

\* A call to Elasticsearch that failed, with its effect or without it.
LEMMA EsErrorKeeps ==
    ASSUME DInv, NEW o \in Operator, EsError(o)
    PROVE  DInv'
<1> DEFINE i == Indices[proc[o].at]
           p == [proc[o] EXCEPT !.faults = TRUE]
           q == NextIndex(p)
<1>1. /\ UNCHANGED <<env, migrated, manifest, origin, calm>>
      /\ IF proc[o].script = "teardown" THEN proc' = [proc EXCEPT ![o] = q] ELSE Exit(o)
      /\ indices' \in {indices, indices \cup {i}, indices \ {i}}
      /\ indices' = indices \ {i} => indices' = indices \/ proc[o].step = "delete"
  BY DEF EsError, At, Go
<1>2. i \in Index /\ (proc[o].step = "delete" => i \notin origin.indices)
  BY StateFacts DEF DInv, DeletesFit, RecordsFit
<1>3. indices' \subseteq Index /\ origin.indices \subseteq indices'
  BY <1>1, <1>2, StateFacts
<1>4. CASE proc[o].script = "teardown"
  <2>1. proc[o] \in Proc /\ proc[o].checked = FALSE
    <3>1. proc[o] \in Proc /\ proc[o].checked \in BOOLEAN
      BY StateFacts DEF Proc
    <3> QED BY <1>4, <3>1 DEF DInv, ChecksFit
  <2>2. /\ p \in Proc /\ p.script = "teardown" /\ p.created = proc[o].created /\ p.checked = FALSE
    BY <1>4, <2>1 DEF Proc
  <2>3. Onward(p, q)
    BY <2>2, OnwardSteps
  <2>4. q.created \cap origin.indices = {}
    BY <2>2, <2>3 DEF Onward, DInv, RecordsFit
  <2> HIDE DEF i, p, q
  <2> QED BY <1>1, <1>3, <1>4, <2>2, <2>3, <2>4, StateFacts, TeardownMoves DEF Onward
<1>5. CASE proc[o].script # "teardown"
  BY <1>1, <1>3, <1>5, StateFacts, ScriptEnds
<1> QED BY <1>4, <1>5

-----------------------------------------------------------------------------
(* The theorems *)

LEMMA InitFits == Init => DInv
<1> SUFFICES ASSUME Init PROVE DInv
  OBVIOUS
<1>1. origin \in [indices : SUBSET Index, migrated : 0..Migrations] /\ env \in Env
  BY DeployAssumption DEF Init
<1>2. proc \in [Operator -> Proc] /\ \A o \in Operator : proc[o] = Idle
  BY IdleFacts DEF Init
<1>3. TypeOK
  BY <1>1, <1>2 DEF Init, TypeOK, Proc
<1>4. PreexistingIndicesSurvive /\ RecordsFit /\ DeletesFit /\ ChecksFit
  BY <1>2, IdleFacts DEF Init, PreexistingIndicesSurvive, RecordsFit, DeletesFit, ChecksFit
<1> QED BY <1>3, <1>4 DEF DInv

LEMMA StepsFit == DInv /\ [Next]_vars => DInv'
<1> SUFFICES ASSUME DInv, [Next]_vars PROVE DInv'
  OBVIOUS
<1>1. ASSUME NEW o \in Operator, Rerun(o)
      PROVE  DInv'
  <2>1. {} \in SUBSET Option
    OBVIOUS
  <2> QED BY <1>1, <2>1, StartKeeps, PreflightKeeps, EsMisconfiguredKeeps, IndexExistsKeeps,
             CreateIndexKeeps, ReadAppliedKeeps, SeedingKeeps, WriteManifestKeeps, EndKeeps,
             DeleteIndexKeeps, MigrateDownKeeps DEF Rerun
<1>2. ASSUME NEW o \in Operator, Disturbance(o)
      PROVE  DInv'
  <2>1. CASE \E opts \in OptionSets : StartBootstrapProd(o, opts) \/ StartBootstrap(o, opts)
    BY <2>1, StartKeeps, DeployAssumption
  <2>2. CASE \E down \in Down : Preflight(o, down)
    BY <2>2, PreflightKeeps
  <2> QED BY <1>2, <2>1, <2>2, StartTeardownKeeps, ReadAppliedKeeps, EsErrorKeeps, PgErrorKeeps,
             EndKeeps DEF Disturbance
<1>3. CASE Calm \/ UNCHANGED vars
  <2>1. UNCHANGED <<env, indices, migrated, manifest, proc, origin>> /\ calm' \in BOOLEAN
    BY <1>3 DEF Calm, vars, DInv, TypeOK
  <2>2. UNCHANGED ScriptEnv
    BY <2>1 DEF ScriptEnv
  <2> QED BY <2>1, <2>2
          DEF DInv, TypeOK, PreexistingIndicesSurvive, RecordsFit, DeletesFit, ChecksFit
<1> QED BY <1>1, <1>2, <1>3 DEF Next

(***************************************************************************)
(* Whatever scripts start, fail, are killed or run side by side, DInv is an *)
(* inductive invariant of the three scripts and the stores they work on.    *)
(***************************************************************************)
THEOREM DeploymentInvariance == Spec => []DInv
<1> QED BY InitFits, StepsFit, PTL DEF Spec

(***************************************************************************)
(* The stores, the manifest and the running scripts keep to their types, no *)
(* loop of seedEs or teardown.js leaves the list of the indices, and no     *)
(* more migrations are rolled back than there are.                          *)
(***************************************************************************)
THEOREM DeploymentTypes == Spec => []TypeOK
<1>1. DInv => TypeOK
  BY DEF DInv
<1> QED BY <1>1, DeploymentInvariance, PTL

(***************************************************************************)
(* teardown.js never deletes an index that was there before the first       *)
(* script ran, for any number of operators, indices, failures and deaths.   *)
(***************************************************************************)
THEOREM IndicesSurvive == Spec => []PreexistingIndicesSurvive
<1>1. DInv => PreexistingIndicesSurvive
  BY DEF DInv
<1> QED BY <1>1, DeploymentInvariance, PTL

(***************************************************************************)
(* A preflight that passed in production mode is enough for the seeding and *)
(* for the start of the scheduler, but for the two variables that           *)
(* preflight.js warns about or ignores, in every environment.               *)
(***************************************************************************)
THEOREM PreflightEnough == Spec => []PreflightIsEnough
<1>1. DInv => PreflightIsEnough
  <2> SUFFICES ASSUME DInv, NEW o \in Operator, proc[o].checked, env.mode = "production"
               PROVE  /\ ~proc[o].faults
                      /\ getConfigOk(ScriptEnv) /\ createPgPoolOk(ScriptEnv)
                      /\ \/ SchedulerStarts(ScriptEnv)
                         \/ "WORKER_RUNTIME_ISOLATION" \in env.vars
                         \/ env.engine = "direct" /\ "DB_ALLOW_DIRECT" \notin env.vars
    BY DEF PreflightIsEnough
  <2>1. proc[o].checked = TRUE
    BY StateFacts DEF Proc
  <2>2. EnvFaults(ScriptEnv) = {} /\ proc[o].faults = FALSE
    BY <2>1 DEF DInv, ChecksFit
  <2>3. getConfigOk(ScriptEnv) /\ createPgPoolOk(ScriptEnv)
    BY <2>2, StateFacts, AcceptedConfigures
  <2>4. "WORKER_RUNTIME_ISOLATION" \notin CLI_FLAGS
    BY DEF CLI_FLAGS, PROD_CORE
  <2>5. \/ SchedulerStarts(ScriptEnv)
        \/ "WORKER_RUNTIME_ISOLATION" \in env.vars
        \/ env.engine = "direct" /\ "DB_ALLOW_DIRECT" \notin env.vars
    BY <2>2, <2>4, StateFacts, AcceptedStarts
  <2> QED BY <2>2, <2>3, <2>5
<1> QED BY <1>1, DeploymentInvariance, PTL
=============================================================================
