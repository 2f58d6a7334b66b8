----------------------------- MODULE PinnedRuns -----------------------------
(***************************************************************************)
(* From a definition to the code a run executes: instances are pinned to   *)
(* the version of the definition they were created for, the scheduler tick *)
(* stores a snapshot of the definition in a run, and a worker checks       *)
(* version and artifact before it executes (src/src/services:              *)
(* jobInstanceService.js, schedulerTickService.js, workerRunService.js).   *)
(*                                                                         *)
(* Of an instance its state and version are kept, and of a run what        *)
(* becomes of its definition.  When instances fire is the subject of       *)
(* Scheduling, how runs are claimed and end that of RunLifecycle.          *)
(***************************************************************************)
EXTENDS JobDefinitions

CONSTANTS Instances,
          Editors,     \* concurrent API edits of instances
          Runs         \* bound: runs ever made

VARIABLES insts,  \* the instances
          edits,  \* per editor, the row it is about to write
          runs    \* the runs

pinnedVars == <<insts, edits, runs>>

Instance ==
  [state : {"NONE", "ACTIVE", "PAUSED", "DELETED"}, version : Nat]

NoInstance == [state |-> "NONE", version |-> 0]

NoEdit == [op |-> "none"]

Edit == [op : {"create", "update"}, inst : Instances, row : Instance] \cup {NoEdit}

\* doc is the snapshot in a run that has one; artifact is what its worker is about
\* to download; ran is a history of the digests its attempts have executed.
RunDocument ==
  [phase : {"none", "queued", "verifying", "ended"}, version : Nat, snapshot : BOOLEAN,
   doc : Definition, artifact : Artifact \cup {NoArtifact}, ran : SUBSET Digests]

NoRun ==
  [phase |-> "none", version |-> 0, snapshot |-> FALSE, doc |-> NoDefinition,
   artifact |-> NoArtifact, ran |-> {}]

PinnedInit ==
  /\ insts = [i \in Instances |-> NoInstance]
  /\ edits = [e \in Editors |-> NoEdit]
  /\ runs = [r \in Runs |-> NoRun]

Executable(doc) == doc.enabled /\ doc.state = "ACTIVE"

Prepare(e, op, i, row) ==
  /\ edits[e] = NoEdit
  /\ edits' = [edits EXCEPT ![e] = [op |-> op, inst |-> i, row |-> row]]
  /\ UNCHANGED <<insts, runs, definitionVars>>

\* createInstance up to the INSERT, active or paused: getActiveDefinition has found
\* the version the instance is pinned to.
CreateInstance(e, i, state) ==
  /\ Executable(def)
  /\ Prepare(e, "create", i, [state |-> state, version |-> def.version])

\* patchInstance, pauseInstance, resumeInstance and deleteInstance read the row, in
\* any state, and do not look at the definition.
EditInstance(e, i, state) ==
  /\ insts[i] # NoInstance
  /\ Prepare(e, "update", i, [insts[i] EXCEPT !.state = state])

\* INSERT ... ON CONFLICT DO UPDATE ... WHERE state = 'DELETED', which makes a deleted
\* instance anew, or the unconditional UPDATE of the whole row.
WriteInstance(e) ==
  LET i == edits[e].inst IN
  /\ edits[e] # NoEdit
  /\ insts' = IF edits[e].op = "create" /\ insts[i].state \notin {"NONE", "DELETED"}
              THEN insts
              ELSE [insts EXCEPT ![i] = edits[e].row]
  /\ edits' = [edits EXCEPT ![e] = NoEdit]
  /\ UNCHANGED <<runs, definitionVars>>

\* The statement throws, or the process dies first.
EditError(e) ==
  /\ edits[e] # NoEdit
  /\ edits' = [edits EXCEPT ![e] = NoEdit]
  /\ UNCHANGED <<insts, runs, definitionVars>>

QueuedRun(i, snapshot) ==
  [NoRun EXCEPT !.phase = "queued", !.version = insts[i].version,
                !.snapshot = snapshot, !.doc = IF snapshot THEN def ELSE NoDefinition]

\* The tick fires an instance: buildExecutionMetadataSnapshot and buildRunDocument.
Fire(i, r) ==
  /\ runs[r] = NoRun
  /\ insts[i].state = "ACTIVE"
  /\ runs' = [runs EXCEPT ![r] = QueuedRun(i, TRUE)]
  /\ UNCHANGED <<insts, edits, definitionVars>>

\* POST /job-instances/:instanceId/run-now: a run without a snapshot.
RunNow(i, r) ==
  /\ runs[r] = NoRun
  /\ insts[i].state \notin {"NONE", "DELETED"}
  /\ runs' = [runs EXCEPT ![r] = QueuedRun(i, FALSE)]
  /\ UNCHANGED <<insts, edits, definitionVars>>

\* Plausible bug: the versions are not compared.
AcceptsAnyVersion(r, doc) == Executable(doc)

\* The checks of buildExecutionMetadata.
Accepts(r, doc) == Executable(doc) /\ doc.version = runs[r].version

\* A worker begins an attempt of a run with the run's snapshot, or the document of
\* the moment if it has none.
BuildExecutionMetadata(r) ==
  LET doc == IF runs[r].snapshot THEN runs[r].doc ELSE def
  IN  /\ runs[r].phase = "queued"
      /\ \/ /\ Accepts(r, doc)
            /\ runs' = [runs EXCEPT ![r].phase = "verifying", ![r].artifact = doc.artifact]
         \/ /\ ~Accepts(r, doc)
            /\ runs' = [runs EXCEPT ![r].phase = "ended"]
      /\ UNCHANGED <<insts, edits, definitionVars>>

\* What the download of an artifact's generation gives: nothing, or the content.
Download(a) == {bucket[g] : g \in ({a.generation} \cap DOMAIN bucket) \ pruned}

\* verifyApprovedArtifact, and the execution of what it returns.
VerifyApprovedArtifact(r) ==
  /\ runs[r].phase = "verifying"
  /\ \E content \in Download(runs[r].artifact) :
       /\ content = runs[r].artifact.sha
       /\ runs' = [runs EXCEPT ![r].phase = "ended", ![r].artifact = NoArtifact,
                               ![r].ran = @ \cup {content}]
  /\ UNCHANGED <<insts, edits, definitionVars>>

\* The attempt ends before it executes anything: download error, digest mismatch, crash.
VerifyError(r) ==
  /\ runs[r].phase = "verifying"
  /\ runs' = [runs EXCEPT ![r].phase = "ended", ![r].artifact = NoArtifact]
  /\ UNCHANGED <<insts, edits, definitionVars>>

\* retryRun: the run is queued again as it is.
Requeue(r) ==
  /\ runs[r].phase = "ended"
  /\ runs' = [runs EXCEPT ![r].phase = "queued"]
  /\ UNCHANGED <<insts, edits, definitionVars>>

NoActiveInstance == \A i \in Instances : insts[i].state # "ACTIVE"

DefinitionStep ==
  \/ \E c \in Callers :
       \/ UploadStep(c)
       \/ Abandon(c)
       \/ NoActiveInstance /\ DeleteCheck(c)
       \/ DeleteWrite(c)
  \/ \E enabled \in BOOLEAN : PatchDefinition(enabled)
  \/ \E g \in DOMAIN bucket : Prune(g)

InstanceStep(e) ==
  \/ \E i \in Instances :
       \/ \E state \in {"ACTIVE", "PAUSED"} : CreateInstance(e, i, state)
       \/ \E state \in {"ACTIVE", "PAUSED", "DELETED"} : EditInstance(e, i, state)
  \/ WriteInstance(e)
  \/ EditError(e)

RunStep(r) ==
  \/ \E i \in Instances : Fire(i, r) \/ RunNow(i, r)
  \/ BuildExecutionMetadata(r)
  \/ VerifyApprovedArtifact(r)
  \/ VerifyError(r)
  \/ Requeue(r)

vars == <<definitionVars, pinnedVars>>

Init == DefinitionsInit /\ PinnedInit

Next ==
  \/ DefinitionStep /\ UNCHANGED pinnedVars
  \/ \E e \in Editors : InstanceStep(e)
  \/ \E r \in Runs : RunStep(r)

Spec == Init /\ [][Next]_vars

-----------------------------------------------------------------------------

\* The document, the bucket, the requests, instances and runs hold values of their
\* types; every artifact they name has a generation the bucket has issued.
TypeOK ==
  /\ DefinitionsTypeOK
  /\ insts \in [Instances -> Instance]
  /\ edits \in [Editors -> Edit]
  /\ runs \in [Runs -> RunDocument]

\* The artifacts that a document, a snapshot in a run or a worker at work names.
OnRecord ==
  ({def.artifact} \cup {runs[r].doc.artifact : r \in Runs}
                  \cup {runs[r].artifact : r \in Runs}) \ {NoArtifact}

\* Later uploads of the very same zip.
Resaved(a) == {g \in DOMAIN bucket : g > a.generation /\ bucket[g] = a.sha}

\* No artifact on record ever turns into other code, and until the lifecycle rule has
\* as many later uploads of the very same zip as it asks for it can be downloaded,
\* whatever other uploads overtake it, fail and clean up (createDefinition,
\* approvedPath, deleteUploadedArtifact, lifecycle_rule in terraform/storage.tf).
ArtifactsStayApproved ==
  \A a \in OnRecord :
    /\ Download(a) \subseteq {a.sha}
    /\ Cardinality(Resaved(a)) < NewerVersions => Download(a) # {}

\* The code a run executes was uploaded as the very version its instance is pinned
\* to, though the definition may be uploaded again, deleted or disabled between the
\* creation of the instance, the tick and the attempt (DEFINITION_VERSION_MISMATCH).
RunsExecuteTheirVersion ==
  \A r \in Runs : \A d \in runs[r].ran :
    [version |-> runs[r].version, sha |-> d] \in released

\* Once a definition exists no upload gives it version 1 again, neither after a
\* delete nor when two first uploads race (COR-3 of docs/bug-log.md; es.create).
VersionNeverResets ==
  [][def # NoDefinition /\ def'.artifact # def.artifact => def'.version > 1]_vars

\* What is pinned is code: all attempts of all runs of a version execute the same,
\* and code that has changed since is caught by the version check (docs/adr/0013).
\* Two uploads that read the same version both write the next one.
PinnedCodeNeverChanges ==
  \A q, r \in Runs :
    runs[q].version = runs[r].version =>
      \A d \in runs[q].ran, f \in runs[r].ran : d = f
=============================================================================
