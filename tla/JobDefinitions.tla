--------------------------- MODULE JobDefinitions ---------------------------
(***************************************************************************)
(* JobDefinitionService (src/src/services/jobDefinitionService.js) for one *)
(* definitionId: uploads, patches and deletes of the definition's document *)
(* in Elasticsearch, and the artifacts in the bucket.                      *)
(*                                                                         *)
(* A request is split at each call of Elasticsearch, Cloud Storage and the *)
(* instance table.  An upload is in one of the phases                      *)
(*   saving    it has read the document and is about to save the artifact  *)
(*   saved     the artifact is saved, getMetadata is next                  *)
(*   writing   the document is about to be written                         *)
(*   cleanup   something failed, the artifact is about to be deleted       *)
(***************************************************************************)
EXTENDS Integers, Sequences, FiniteSets

CONSTANTS Digests,         \* sha256 digests; an artifact is its digest
          Callers,         \* concurrent API requests
          NewerVersions,   \* num_newer_versions of the bucket's lifecycle rule
          MaxGenerations   \* bound: objects ever saved

ASSUME JobDefinitionsAssumption ==
  /\ MaxGenerations \in Nat
  /\ NewerVersions \in Nat \ {0}
  /\ "none" \notin Digests

VARIABLES def,      \* the document
          bucket,   \* bucket[g] is the content generation g was saved with
          pruned,   \* the generations the lifecycle rule has deleted
          live,     \* per path, the generation of the live object, 0 if there is none
          calls,    \* per caller, the upload or delete under way
          released  \* history: every version and digest a document has had

definitionVars == <<def, bucket, pruned, live, calls, released>>

NoArtifact == [path |-> "none", sha |-> "none", generation |-> 0]

Artifact == [path : Digests, sha : Digests, generation : 1..Len(bucket)]

NoDefinition ==
  [version |-> 0, state |-> "NONE", enabled |-> FALSE, artifact |-> NoArtifact]

Definition ==
  [version : Nat \ {0}, state : {"ACTIVE", "DELETED"}, enabled : BOOLEAN,
   artifact : Artifact] \cup {NoDefinition}

NoCall == [phase |-> "none"]

Call ==
  [phase : {"saving", "saved"}, sha : Digests, existing : Nat]
    \cup [phase : {"writing"}, sha : Digests, existing : Nat, artifact : Artifact]
    \cup [phase : {"cleanup"}, sha : Digests]
    \cup [phase : {"deleting"}]
    \cup {NoCall}

DefinitionsTypeOK ==
  /\ def \in Definition
  /\ bucket \in Seq(Digests)
  /\ pruned \subseteq DOMAIN bucket
  /\ live \in [Digests -> 0..Len(bucket)]
  /\ calls \in [Callers -> Call]
  /\ released \subseteq [version : Nat, sha : Digests]

DefinitionsInit ==
  /\ def = NoDefinition
  /\ bucket = <<>>
  /\ pruned = {}
  /\ live = [p \in Digests |-> 0]
  /\ calls = [c \in Callers |-> NoCall]
  /\ released = {}

\* Plausible bug: one path for all artifacts of the definition.
ApprovedPathOfDefinition(d) == CHOOSE p \in Digests : TRUE

\* approvedPath, of which only the digest varies.
ApprovedPath(d) == d

\* createDefinition up to getDefinition.  existing is the version it found, of a
\* document in any state, and 0 for none.  The bound leaves every upload that has
\* begun its generation.
UploadRead(c, d) ==
  /\ calls[c] = NoCall
  /\ Len(bucket) + Cardinality({b \in Callers : calls[b].phase = "saving"}) < MaxGenerations
  /\ calls' = [calls EXCEPT ![c] = [phase |-> "saving", sha |-> d, existing |-> def.version]]
  /\ UNCHANGED <<def, bucket, pruned, live, released>>

\* The bucket (external) stores an object under a new generation; the object that
\* was live there becomes an older version of it (terraform/storage.tf).
Store(d) ==
  /\ bucket' = Append(bucket, d)
  /\ live' = [live EXCEPT ![ApprovedPath(d)] = Len(bucket) + 1]

Save(c) ==
  /\ calls[c].phase = "saving"
  /\ Store(calls[c].sha)
  /\ calls' = [calls EXCEPT ![c].phase = "saved"]
  /\ UNCHANGED <<def, pruned, released>>

\* save throws, and the object is there or is not: the request fails without cleanup.
SaveError(c) ==
  /\ calls[c].phase = "saving"
  /\ \/ Store(calls[c].sha)
     \/ UNCHANGED <<bucket, live>>
  /\ calls' = [calls EXCEPT ![c] = NoCall]
  /\ UNCHANGED <<def, pruned, released>>

\* Plausible bug: a missing object is not noticed.
DescribedAnyway(d) == TRUE

\* getMetadata finds a live object at the path.
Described(d) == live[ApprovedPath(d)] # 0

GetMetadata(c) ==
  /\ calls[c].phase = "saved"
  /\ Described(calls[c].sha)
  /\ LET d == calls[c].sha
     IN  calls' = [calls EXCEPT ![c] =
           [phase |-> "writing", sha |-> d, existing |-> calls[c].existing,
            artifact |-> [path |-> ApprovedPath(d), sha |-> d,
                          generation |-> live[ApprovedPath(d)]]]]
  /\ UNCHANGED <<def, bucket, pruned, live, released>>

\* The document an upload writes.
UploadedDefinition(call) ==
  [version |-> call.existing + 1, state |-> "ACTIVE", enabled |-> TRUE,
   artifact |-> call.artifact]

\* Plausible bug: the first upload indexes like the others.
WritableAlways(call) == TRUE

\* es.index replaces whatever is there; es.create refuses to replace.
Writable(call) == call.existing # 0 \/ def = NoDefinition

WriteDefinition(c) ==
  /\ calls[c].phase = "writing"
  /\ Writable(calls[c])
  /\ def' = UploadedDefinition(calls[c])
  /\ released' = released \cup {[version |-> def'.version, sha |-> calls[c].sha]}

ToCleanup(c) ==
  calls' = [calls EXCEPT ![c] = [phase |-> "cleanup", sha |-> calls[c].sha]]

UploadDone(c) ==
  /\ WriteDefinition(c)
  /\ calls' = [calls EXCEPT ![c] = NoCall]
  /\ UNCHANGED <<bucket, pruned, live>>

\* The document is written and the answer is lost.
UploadAnswerLost(c) ==
  /\ WriteDefinition(c)
  /\ ToCleanup(c)
  /\ UNCHANGED <<bucket, pruned, live>>

\* getMetadata, es.create or es.index throws: a conflict, a missing object, a network error.
UploadError(c) ==
  /\ calls[c].phase \in {"saved", "writing"}
  /\ ToCleanup(c)
  /\ UNCHANGED <<def, bucket, pruned, live, released>>

\* deleteUploadedArtifact: the live object at the path, whose upload it was or not.
Cleanup(c) ==
  /\ calls[c].phase = "cleanup"
  /\ live' = [live EXCEPT ![ApprovedPath(calls[c].sha)] = 0]
  /\ calls' = [calls EXCEPT ![c] = NoCall]
  /\ UNCHANGED <<def, bucket, pruned, released>>

\* The process dies in the middle of a request, es.update of a delete throws, or
\* cleanup fails, which is ignored.
Abandon(c) ==
  /\ calls[c] # NoCall
  /\ calls' = [calls EXCEPT ![c] = NoCall]
  /\ UNCHANGED <<def, bucket, pruned, live, released>>

\* patchDefinition as far as execution depends on it: an update of enabled.
PatchDefinition(enabled) ==
  /\ def # NoDefinition
  /\ def' = [def EXCEPT !.enabled = enabled]
  /\ UNCHANGED <<bucket, pruned, live, calls, released>>

\* deleteDefinition finds no active instance ...
DeleteCheck(c) ==
  /\ calls[c] = NoCall
  /\ calls' = [calls EXCEPT ![c] = [phase |-> "deleting"]]
  /\ UNCHANGED <<def, bucket, pruned, live, released>>

\* ... and marks the document, if there is one.
DeleteWrite(c) ==
  /\ calls[c].phase = "deleting"
  /\ def # NoDefinition
  /\ def' = [def EXCEPT !.state = "DELETED", !.enabled = FALSE]
  /\ calls' = [calls EXCEPT ![c] = NoCall]
  /\ UNCHANGED <<bucket, pruned, live, released>>

\* The versions of an object that are newer than generation g.
Newer(g) ==
  {h \in DOMAIN bucket : h > g /\ ApprovedPath(bucket[h]) = ApprovedPath(bucket[g])}

\* The lifecycle rule deletes a version that has enough newer ones, some time.
Prune(g) ==
  /\ g \notin pruned
  /\ Cardinality(Newer(g)) >= NewerVersions
  /\ pruned' = pruned \cup {g}
  /\ UNCHANGED <<def, bucket, live, calls, released>>

UploadStep(c) ==
  \/ \E d \in Digests : UploadRead(c, d)
  \/ Save(c)
  \/ SaveError(c)
  \/ GetMetadata(c)
  \/ UploadDone(c)
  \/ UploadAnswerLost(c)
  \/ UploadError(c)
  \/ Cleanup(c)
=============================================================================
