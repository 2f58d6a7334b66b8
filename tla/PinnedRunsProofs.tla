-------------------------- MODULE PinnedRunsProofs --------------------------
(***************************************************************************)
(* Proofs about definitions, artifacts and the code runs execute, for any   *)
(* number of digests, requests, generations, instances and runs.            *)
(*                                                                         *)
(* The invariant gives every variable a set of values that is narrower than *)
(* its type: artifacts whose generation has the digest recorded with it,    *)
(* documents that were released, runs that execute what was released.       *)
(* These sets depend on the bucket and on what was released so far, and     *)
(* both only grow.                                                          *)
(***************************************************************************)
EXTENDS PinnedRuns, SequenceTheorems, FiniteSetTheorems, TLAPS

\* Artifacts that bucket b holds as they are described.
Kept(b) ==
  {a \in [path : Digests, sha : Digests, generation : 1..Len(b)] : b[a.generation] = a.sha}

\* Generations with as many later ones of the same content as the lifecycle rule asks for.
Later(b, g) == {h \in 1..Len(b) : h > g /\ b[h] = b[g]}

Overtaken(b) == {g \in 1..Len(b) : Cardinality(Later(b, g)) >= NewerVersions}

\* Documents whose artifact is kept and was released under their version.
Documents(b, rel) ==
  {d \in [version : Nat \ {0}, state : {"ACTIVE", "DELETED"}, enabled : BOOLEAN,
          artifact : Kept(b)] :
     [version |-> d.version, sha |-> d.artifact.sha] \in rel}
  \cup {NoDefinition}

\* Requests; an upload that is about to write describes what it has saved.
Requests(b) ==
  [phase : {"saving", "saved"}, sha : Digests, existing : Nat]
  \cup [phase : {"cleanup"}, sha : Digests]
  \cup {k \in [phase : {"writing"}, sha : Digests, existing : Nat, artifact : Kept(b)] :
          k.artifact.sha = k.sha}
  \cup [phase : {"deleting"}]
  \cup {NoCall}

\* Runs that have executed, and are about to execute, what was released as their version.
Pinned(b, rel) ==
  {x \in [phase : {"none", "queued", "verifying", "ended"}, version : Nat,
          snapshot : BOOLEAN, doc : Documents(b, rel), artifact : Kept(b) \cup {NoArtifact},
          ran : SUBSET Digests] :
     /\ \A d \in x.ran : [version |-> x.version, sha |-> d] \in rel
     /\ x.phase = "verifying" =>
          /\ x.artifact # NoArtifact
          /\ [version |-> x.version, sha |-> x.artifact.sha] \in rel}

\* Live objects, each under the path of its digest.
Live(b) == {f \in [Digests -> 0..Len(b)] : \A p \in Digests : f[p] # 0 => b[f[p]] = p}

PInv ==
  /\ bucket \in Seq(Digests)
  /\ pruned \subseteq Overtaken(bucket)
  /\ released \subseteq [version : Nat, sha : Digests]
  /\ live \in Live(bucket)
  /\ def \in Documents(bucket, released)
  /\ calls \in [Callers -> Requests(bucket)]
  /\ insts \in [Instances -> Instance]
  /\ edits \in [Editors -> Edit]
  /\ runs \in [Runs -> Pinned(bucket, released)]

-----------------------------------------------------------------------------

\* What b2 keeps when it is b or b with one more generation.
LEMMA BucketGrows ==
  ASSUME NEW b \in Seq(Digests), NEW b2 \in Seq(Digests),
         b2 = b \/ \E d \in Digests : b2 = Append(b, d)
  PROVE  /\ Len(b) \in Nat /\ Len(b2) \in Nat /\ Len(b) <= Len(b2)
         /\ \A g \in 1..Len(b) : g \in 1..Len(b2) /\ b2[g] = b[g]
         /\ Kept(b) \subseteq Kept(b2)
         /\ Requests(b) \subseteq Requests(b2)
         /\ Overtaken(b) \subseteq Overtaken(b2)
<1>1. /\ Len(b) \in Nat /\ Len(b2) \in Nat /\ Len(b) <= Len(b2)
      /\ \A g \in 1..Len(b) : g \in 1..Len(b2) /\ b2[g] = b[g]
  <2>1. CASE b2 = b
    BY <2>1
  <2>2. CASE \E d \in Digests : b2 = Append(b, d)
    BY <2>2
  <2> QED BY <2>1, <2>2
<1>2. Kept(b) \subseteq Kept(b2)
  BY <1>1 DEF Kept
<1>3. Requests(b) \subseteq Requests(b2)
  BY <1>2 DEF Requests
<1>4. ASSUME NEW g \in Overtaken(b) PROVE g \in Overtaken(b2)
  <2>1. g \in 1..Len(b) /\ g \in 1..Len(b2) /\ Cardinality(Later(b, g)) >= NewerVersions
    BY <1>1 DEF Overtaken
  <2>2. Later(b, g) \subseteq Later(b2, g) /\ Later(b2, g) \subseteq 1..Len(b2)
    BY <1>1, <2>1 DEF Later
  <2>3. IsFiniteSet(1..Len(b2))
    BY <1>1, FS_Interval
  <2>4. IsFiniteSet(Later(b2, g))
    BY <2>2, <2>3, FS_Subset
  <2>5. Cardinality(Later(b, g)) <= Cardinality(Later(b2, g)) /\ IsFiniteSet(Later(b, g))
    BY <2>2, <2>4, FS_Subset
  <2>6. Cardinality(Later(b, g)) \in Nat /\ Cardinality(Later(b2, g)) \in Nat
    BY <2>4, <2>5, FS_CardinalityType
  <2>7. Cardinality(Later(b2, g)) >= NewerVersions
    BY <2>1, <2>5, <2>6, JobDefinitionsAssumption
  <2> QED BY <2>1, <2>7 DEF Overtaken
<1> QED BY <1>1, <1>2, <1>3, <1>4

\* What was released stays released.
LEMMA MoreReleased ==
  ASSUME NEW b, NEW b2, Kept(b) \subseteq Kept(b2), NEW rel, NEW rel2, rel \subseteq rel2
  PROVE  /\ Documents(b, rel) \subseteq Documents(b2, rel2)
         /\ Pinned(b, rel) \subseteq Pinned(b2, rel2)
<1>1. Documents(b, rel) \subseteq Documents(b2, rel2)
  BY DEF Documents
<1>2. Pinned(b, rel) \subseteq Pinned(b2, rel2)
  BY <1>1 DEF Pinned
<1> QED BY <1>1, <1>2

\* NoArtifact is no artifact of the bucket, and so NoDefinition no document with one.
LEMMA KeptFacts ==
  ASSUME NEW b \in Seq(Digests), NEW a \in Kept(b)
  PROVE  /\ a # NoArtifact /\ a.path \in Digests /\ a.sha \in Digests
         /\ a.generation \in 1..Len(b) /\ b[a.generation] = a.sha
BY JobDefinitionsAssumption DEF Kept, NoArtifact

-----------------------------------------------------------------------------
(* Uploads, patches and deletes *)

\* One request moves on; the documents and the runs are left alone.
LEMMA RequestMoves ==
  ASSUME PInv, NEW c \in Callers, NEW k \in Requests(bucket'),
         bucket' \in Seq(Digests), bucket' = bucket \/ \E d \in Digests : bucket' = Append(bucket, d),
         live' \in Live(bucket'), calls' = [calls EXCEPT ![c] = k],
         UNCHANGED <<def, pruned, released, insts, edits, runs>>
  PROVE  PInv'
<1>1. /\ Kept(bucket) \subseteq Kept(bucket') /\ Requests(bucket) \subseteq Requests(bucket')
      /\ Overtaken(bucket) \subseteq Overtaken(bucket')
  BY BucketGrows DEF PInv
<1>2. /\ Documents(bucket, released) \subseteq Documents(bucket', released')
      /\ Pinned(bucket, released) \subseteq Pinned(bucket', released')
  BY <1>1, MoreReleased
<1>3. calls' \in [Callers -> Requests(bucket')]
  BY <1>1 DEF PInv
<1>4. runs' \in [Runs -> Pinned(bucket', released')]
  BY <1>2 DEF PInv
<1> QED BY <1>1, <1>2, <1>3, <1>4 DEF PInv

\* Bucket and live objects are left alone, too.
LEMMA RequestGoesOn ==
  ASSUME PInv, NEW c \in Callers, NEW k \in Requests(bucket),
         calls' = [calls EXCEPT ![c] = k],
         UNCHANGED <<def, bucket, pruned, live, released, insts, edits, runs>>
  PROVE  PInv'
BY RequestMoves DEF PInv

LEMMA CallFacts ==
  ASSUME PInv, NEW c \in Callers
  PROVE  /\ calls[c] \in Requests(bucket)
         /\ calls[c].phase \in {"saving", "saved"} =>
              calls[c] \in [phase : {"saving", "saved"}, sha : Digests, existing : Nat]
         /\ calls[c].phase = "cleanup" => calls[c] \in [phase : {"cleanup"}, sha : Digests]
         /\ calls[c].phase = "writing" =>
              /\ calls[c] \in [phase : {"writing"}, sha : Digests, existing : Nat,
                               artifact : Kept(bucket)]
              /\ calls[c].artifact.sha = calls[c].sha
BY DEF PInv, Requests, NoCall

\* The bucket stores an object, live under the path of its digest.
LEMMA StoreFits ==
  ASSUME PInv, NEW d \in Digests, Store(d)
  PROVE  bucket' \in Seq(Digests) /\ bucket' = Append(bucket, d) /\ live' \in Live(bucket')
<1>1. bucket' = Append(bucket, d) /\ bucket \in Seq(Digests)
  BY DEF Store, PInv
<1>2. /\ bucket' \in Seq(Digests) /\ Len(bucket) \in Nat /\ Len(bucket') = Len(bucket) + 1
      /\ \A g \in 1..Len(bucket) : bucket'[g] = bucket[g]
      /\ bucket'[Len(bucket) + 1] = d
  BY <1>1
<1>3. live' = [live EXCEPT ![d] = Len(bucket) + 1] /\ live \in [Digests -> 0..Len(bucket)]
  BY DEF Store, ApprovedPath, PInv, Live
<1>4. live' \in [Digests -> 0..Len(bucket')]
  BY <1>2, <1>3
<1>5. ASSUME NEW p \in Digests, live'[p] # 0
      PROVE  bucket'[live'[p]] = p
  <2>1. CASE p = d
    BY <1>2, <1>3, <2>1
  <2>2. CASE p # d
    <3>1. live'[p] = live[p] /\ live[p] \in 1..Len(bucket) /\ bucket[live[p]] = p
      BY <1>2, <1>3, <1>5, <2>2 DEF PInv, Live
    <3> QED BY <1>2, <3>1
  <2> QED BY <2>1, <2>2
<1> QED BY <1>1, <1>2, <1>4, <1>5 DEF Live

\* An object is saved, or is not.
LEMMA SavingKeeps ==
  ASSUME PInv, NEW c \in Callers, Save(c) \/ SaveError(c), UNCHANGED pinnedVars
  PROVE  PInv'
<1>1. /\ calls[c] \in [phase : {"saving", "saved"}, sha : Digests, existing : Nat]
  BY CallFacts DEF Save, SaveError
<1>2. UNCHANGED <<def, pruned, released, insts, edits, runs>>
  BY DEF Save, SaveError, pinnedVars
<1>3. \/ bucket' = bucket /\ live' = live
      \/ Store(calls[c].sha)
  BY DEF Save, SaveError
<1>4. /\ bucket' \in Seq(Digests) /\ live' \in Live(bucket')
      /\ bucket' = bucket \/ \E d \in Digests : bucket' = Append(bucket, d)
  BY <1>1, <1>3, StoreFits DEF PInv
<1>5. PICK k \in Requests(bucket') : calls' = [calls EXCEPT ![c] = k]
  <2>1. CASE Save(c)
    <3>1. [calls[c] EXCEPT !.phase = "saved"] \in Requests(bucket')
      BY <1>1 DEF Requests
    <3> QED BY <2>1, <3>1 DEF Save
  <2>2. CASE SaveError(c)
    <3>1. NoCall \in Requests(bucket')
      BY DEF Requests
    <3> QED BY <2>2, <3>1 DEF SaveError
  <2> QED BY <2>1, <2>2
<1> QED BY <1>2, <1>4, <1>5, RequestMoves

\* getMetadata describes the live object, which has the digest of its path.
LEMMA GetMetadataKeeps ==
  ASSUME PInv, NEW c \in Callers, GetMetadata(c), UNCHANGED pinnedVars
  PROVE  PInv'
<1> DEFINE d == calls[c].sha
           a == [path |-> d, sha |-> d, generation |-> live[d]]
           k == [phase |-> "writing", sha |-> d, existing |-> calls[c].existing, artifact |-> a]
<1>1. d \in Digests /\ calls[c].existing \in Nat /\ live[d] # 0
  BY CallFacts DEF GetMetadata, Described, ApprovedPath
<1>2. live[d] \in 1..Len(bucket) /\ bucket[live[d]] = d
  BY <1>1 DEF PInv, Live
<1>3. a \in Kept(bucket)
  BY <1>1, <1>2 DEF Kept
<1>4. calls' = [calls EXCEPT ![c] = k]
  BY DEF GetMetadata, ApprovedPath
<1>5. k.artifact = a /\ k.sha = d /\ a.sha = d
  OBVIOUS
<1> HIDE DEF a, d
<1>6. k \in Requests(bucket)
  BY <1>1, <1>3, <1>5 DEF Requests
<1> HIDE DEF k
<1> QED BY <1>4, <1>6, RequestGoesOn DEF GetMetadata, pinnedVars

\* A document is written: it is released under its version from now on.
LEMMA WriteKeeps ==
  ASSUME PInv, NEW c \in Callers, UploadDone(c) \/ UploadAnswerLost(c), UNCHANGED pinnedVars
  PROVE  PInv'
<1> DEFINE call == calls[c]
           rel == [version |-> call.existing + 1, sha |-> call.sha]
<1>1. /\ call \in [phase : {"writing"}, sha : Digests, existing : Nat, artifact : Kept(bucket)]
      /\ call.artifact.sha = call.sha
  BY CallFacts DEF UploadDone, UploadAnswerLost, WriteDefinition
<1>2. /\ def' = [version |-> call.existing + 1, state |-> "ACTIVE", enabled |-> TRUE,
                 artifact |-> call.artifact]
      /\ released' = released \cup {rel}
      /\ UNCHANGED <<bucket, pruned, live, insts, edits, runs>>
  BY DEF UploadDone, UploadAnswerLost, WriteDefinition, UploadedDefinition, pinnedVars
<1>3. def' \in Documents(bucket, released')
  BY <1>1, <1>2 DEF Documents
<1>4. released' \subseteq [version : Nat, sha : Digests]
  BY <1>1, <1>2 DEF PInv
<1>5. runs' \in [Runs -> Pinned(bucket, released')]
  <2>1. released \subseteq released' /\ Kept(bucket) \subseteq Kept(bucket)
    BY <1>2
  <2>2. Pinned(bucket, released) \subseteq Pinned(bucket, released')
    BY <2>1, MoreReleased
  <2> QED BY <1>2, <2>2 DEF PInv
<1>6. calls' \in [Callers -> Requests(bucket)]
  <2>1. NoCall \in Requests(bucket)
    BY DEF Requests
  <2>2. [phase |-> "cleanup", sha |-> call.sha] \in Requests(bucket)
    BY <1>1 DEF Requests
  <2> QED BY <2>1, <2>2 DEF PInv, UploadDone, UploadAnswerLost, ToCleanup
<1> QED BY <1>2, <1>3, <1>4, <1>5, <1>6 DEF PInv

\* The other steps of an upload.
LEMMA UploadKeeps ==
  ASSUME PInv, NEW c \in Callers, UploadStep(c) \/ Abandon(c), UNCHANGED pinnedVars
  PROVE  PInv'
<1>1. ASSUME NEW d \in Digests, UploadRead(c, d) PROVE PInv'
  <2>1. def.version \in Nat
    BY DEF PInv, Documents, NoDefinition
  <2>2. [phase |-> "saving", sha |-> d, existing |-> def.version] \in Requests(bucket)
    BY <2>1 DEF Requests
  <2> QED BY <1>1, <2>2, RequestGoesOn DEF UploadRead, pinnedVars
<1>2. CASE UploadError(c)
  <2>1. calls[c].sha \in Digests
    BY <1>2, CallFacts DEF UploadError
  <2>2. [phase |-> "cleanup", sha |-> calls[c].sha] \in Requests(bucket)
    BY <2>1 DEF Requests
  <2> QED BY <1>2, <2>2, RequestGoesOn DEF UploadError, ToCleanup, pinnedVars
<1>3. CASE Cleanup(c)
  <2>1. NoCall \in Requests(bucket) /\ calls[c].sha \in Digests
    BY <1>3, CallFacts DEF Requests, Cleanup
  <2>2. live' \in Live(bucket)
    <3>1. 0 \in 0..Len(bucket)
      BY DEF PInv
    <3>2. live \in [Digests -> 0..Len(bucket)] /\ live' = [live EXCEPT ![calls[c].sha] = 0]
      BY <1>3 DEF Cleanup, PInv, Live, ApprovedPath
    <3>3. /\ live' \in [Digests -> 0..Len(bucket)]
          /\ \A p \in Digests : live'[p] # 0 => live'[p] = live[p]
      BY <2>1, <3>1, <3>2
    <3> QED BY <3>3 DEF PInv, Live
  <2> QED BY <1>3, <2>1, <2>2, RequestMoves DEF Cleanup, PInv, pinnedVars
<1>4. CASE Abandon(c)
  <2>1. NoCall \in Requests(bucket)
    BY DEF Requests
  <2> QED BY <1>4, <2>1, RequestGoesOn DEF Abandon, pinnedVars
<1> QED BY <1>1, <1>2, <1>3, <1>4, SavingKeeps, GetMetadataKeeps, WriteKeeps DEF UploadStep

\* Patches and deletes change neither version nor artifact.
LEMMA EditKeeps ==
  ASSUME PInv, UNCHANGED pinnedVars,
         \/ \E c \in Callers : DeleteCheck(c) \/ DeleteWrite(c)
         \/ \E enabled \in BOOLEAN : PatchDefinition(enabled)
  PROVE  PInv'
<1>1. ASSUME def # NoDefinition, NEW s \in {"ACTIVE", "DELETED"}, NEW e \in BOOLEAN
      PROVE  [def EXCEPT !.state = s, !.enabled = e] \in Documents(bucket, released)
  BY <1>1 DEF PInv, Documents
<1>2. ASSUME NEW e \in BOOLEAN, PatchDefinition(e) PROVE PInv'
  <2>1. def.state \in {"ACTIVE", "DELETED"} /\ def # NoDefinition
    BY <1>2 DEF PatchDefinition, PInv, Documents
  <2>2. def' = [def EXCEPT !.state = def.state, !.enabled = e]
    BY <1>2, <2>1 DEF PatchDefinition, PInv, Documents
  <2>3. def' \in Documents(bucket, released)
    BY <1>1, <2>1, <2>2
  <2> QED BY <1>2, <2>3 DEF PatchDefinition, PInv, pinnedVars
<1>3. ASSUME NEW c \in Callers, DeleteCheck(c) PROVE PInv'
  <2>1. [phase |-> "deleting"] \in Requests(bucket)
    BY DEF Requests
  <2> QED BY <1>3, <2>1, RequestGoesOn DEF DeleteCheck, pinnedVars
<1>4. ASSUME NEW c \in Callers, DeleteWrite(c) PROVE PInv'
  <2>1. def' \in Documents(bucket, released)
    BY <1>1, <1>4 DEF DeleteWrite
  <2>2. calls' \in [Callers -> Requests(bucket)]
    BY <1>4 DEF DeleteWrite, PInv, Requests
  <2> QED BY <1>4, <2>1, <2>2 DEF DeleteWrite, PInv, pinnedVars
<1> QED BY <1>2, <1>3, <1>4

\* The lifecycle rule deletes a version that has enough later ones.
LEMMA PruneKeeps ==
  ASSUME PInv, UNCHANGED pinnedVars, NEW g \in DOMAIN bucket, Prune(g)
  PROVE  PInv'
<1>1. Newer(g) = Later(bucket, g) /\ g \in 1..Len(bucket)
  BY DEF Newer, Later, ApprovedPath, PInv
<1>2. g \in Overtaken(bucket)
  BY <1>1 DEF Prune, Overtaken
<1> QED BY <1>2 DEF Prune, PInv, pinnedVars

-----------------------------------------------------------------------------
(* Instances and runs *)

LEMMA InstanceKeeps ==
  ASSUME PInv, NEW e \in Editors, InstanceStep(e)
  PROVE  PInv'
<1> USE DEF definitionVars
<1>1. ASSUME NEW op \in {"create", "update"}, NEW i \in Instances, NEW row \in Instance,
             Prepare(e, op, i, row)
      PROVE  PInv'
  <2>1. [op |-> op, inst |-> i, row |-> row] \in Edit
    BY DEF Edit
  <2>2. edits' \in [Editors -> Edit]
    BY <1>1, <2>1 DEF Prepare, PInv
  <2> QED BY <1>1, <2>2 DEF Prepare, PInv
<1>2. ASSUME NEW i \in Instances, NEW state \in {"ACTIVE", "PAUSED"}, CreateInstance(e, i, state)
      PROVE  PInv'
  <2>1. def.version \in Nat
    BY DEF PInv, Documents, NoDefinition
  <2>2. [state |-> state, version |-> def.version] \in Instance
    BY <2>1 DEF Instance
  <2> QED BY <1>1, <1>2, <2>2 DEF CreateInstance
<1>3. ASSUME NEW i \in Instances, NEW state \in {"ACTIVE", "PAUSED", "DELETED"},
             EditInstance(e, i, state)
      PROVE  PInv'
  <2>1. [insts[i] EXCEPT !.state = state] \in Instance
    BY DEF PInv, Instance
  <2> QED BY <1>1, <1>3, <2>1 DEF EditInstance
<1>4. CASE WriteInstance(e)
  <2>1. edits[e].inst \in Instances /\ edits[e].row \in Instance
    BY <1>4 DEF WriteInstance, PInv, Edit
  <2>2. insts' \in [Instances -> Instance]
    BY <1>4, <2>1 DEF WriteInstance, PInv
  <2>3. edits' \in [Editors -> Edit]
    BY <1>4 DEF WriteInstance, PInv, Edit
  <2> QED BY <1>4, <2>2, <2>3 DEF WriteInstance, PInv
<1>5. CASE EditError(e)
  <2>1. edits' \in [Editors -> Edit]
    BY <1>5 DEF EditError, PInv, Edit
  <2> QED BY <1>5, <2>1 DEF EditError, PInv
<1> QED BY <1>2, <1>3, <1>4, <1>5 DEF InstanceStep

\* A run changes to x, which is as it should be.
LEMMA RunMoves ==
  ASSUME PInv, NEW r \in Runs, NEW x \in Pinned(bucket, released),
         runs' = [runs EXCEPT ![r] = x], UNCHANGED <<insts, edits, definitionVars>>
  PROVE  PInv'
<1>1. runs' \in [Runs -> Pinned(bucket, released)]
  BY DEF PInv
<1> QED BY <1>1 DEF PInv, definitionVars

LEMMA NoRunFits == NoRun \in Pinned(bucket, released) /\ NoRun.ran = {}
<1>1. NoDefinition \in Documents(bucket, released)
  BY DEF Documents
<1> QED BY <1>1 DEF NoRun, Pinned

\* A run starts with the document of the moment, or with none.
LEMMA FireKeeps ==
  ASSUME PInv, NEW i \in Instances, NEW r \in Runs, Fire(i, r) \/ RunNow(i, r)
  PROVE  PInv'
<1>1. PICK snapshot \in BOOLEAN : runs' = [runs EXCEPT ![r] = QueuedRun(i, snapshot)]
  BY DEF Fire, RunNow
<1>2. UNCHANGED <<insts, edits, definitionVars>>
  BY DEF Fire, RunNow
<1> DEFINE doc == IF snapshot THEN def ELSE NoDefinition
<1>3. doc \in Documents(bucket, released)
  BY DEF PInv, Documents
<1>4. insts[i].version \in Nat
  BY DEF PInv, Instance
<1>5. QueuedRun(i, snapshot) \in Pinned(bucket, released)
  <2> HIDE DEF doc
  <2>1. QueuedRun(i, snapshot) =
          [NoRun EXCEPT !.phase = "queued", !.version = insts[i].version,
                        !.snapshot = snapshot, !.doc = doc]
    BY DEF QueuedRun, doc
  <2> QED BY <1>3, <1>4, <2>1, NoRunFits DEF Pinned
<1> QED BY <1>1, <1>2, <1>5, RunMoves

LEMMA RunFacts ==
  ASSUME PInv, NEW r \in Runs
  PROVE  /\ runs[r] \in [phase : {"none", "queued", "verifying", "ended"},
                         version : Nat, snapshot : BOOLEAN, doc : Documents(bucket, released),
                         artifact : Kept(bucket) \cup {NoArtifact}, ran : SUBSET Digests]
         /\ \A d \in runs[r].ran : [version |-> runs[r].version, sha |-> d] \in released
         /\ runs[r].phase = "verifying" =>
              /\ runs[r].artifact # NoArtifact
              /\ [version |-> runs[r].version, sha |-> runs[r].artifact.sha] \in released
<1>1. runs[r] \in Pinned(bucket, released)
  BY DEF PInv
<1> QED BY <1>1 DEF Pinned

\* The version check ties the artifact of an accepted document to the run's version.
LEMMA BuildKeeps ==
  ASSUME PInv, NEW r \in Runs, BuildExecutionMetadata(r)
  PROVE  PInv'
<1> DEFINE doc == IF runs[r].snapshot THEN runs[r].doc ELSE def
<1>1. doc \in Documents(bucket, released)
  BY RunFacts DEF PInv
<1>2. UNCHANGED <<insts, edits, definitionVars>>
  BY DEF BuildExecutionMetadata
<1>3. CASE Accepts(r, doc) /\ runs' = [runs EXCEPT ![r].phase = "verifying",
                                                   ![r].artifact = doc.artifact]
  <2> DEFINE x == [runs[r] EXCEPT !.phase = "verifying", !.artifact = doc.artifact]
  <2>1. doc.enabled = TRUE /\ doc.version = runs[r].version
    BY <1>1, <1>3 DEF Accepts, Executable, Documents, NoDefinition
  <2> HIDE DEF doc
  <2>2. doc.artifact \in Kept(bucket) /\ [version |-> doc.version, sha |-> doc.artifact.sha] \in released
    BY <1>1, <2>1 DEF Documents, NoDefinition
  <2>3. doc.artifact # NoArtifact
    BY <2>2, KeptFacts DEF PInv
  <2>4. x \in Pinned(bucket, released)
    BY <2>1, <2>2, <2>3, RunFacts DEF Pinned
  <2>5. runs' = [runs EXCEPT ![r] = x]
    BY <1>3 DEF PInv
  <2> HIDE DEF x
  <2> QED BY <1>2, <2>4, <2>5, RunMoves
<1>4. CASE runs' = [runs EXCEPT ![r].phase = "ended"]
  <2>1. [runs[r] EXCEPT !.phase = "ended"] \in Pinned(bucket, released)
    BY RunFacts DEF Pinned
  <2> QED BY <1>2, <1>4, <2>1, RunMoves
<1> QED BY <1>3, <1>4 DEF BuildExecutionMetadata

\* Only what has the digest of the accepted artifact is executed.
LEMMA AttemptKeeps ==
  ASSUME PInv, NEW r \in Runs, VerifyApprovedArtifact(r) \/ VerifyError(r) \/ Requeue(r)
  PROVE  PInv'
<1>1. UNCHANGED <<insts, edits, definitionVars>>
  BY DEF VerifyApprovedArtifact, VerifyError, Requeue
<1>2. CASE VerifyApprovedArtifact(r)
  <2>1. PICK content : /\ content = runs[r].artifact.sha
                       /\ runs' = [runs EXCEPT ![r].phase = "ended", ![r].artifact = NoArtifact,
                                               ![r].ran = @ \cup {content}]
    BY <1>2 DEF VerifyApprovedArtifact
  <2> DEFINE x == [runs[r] EXCEPT !.phase = "ended", !.artifact = NoArtifact,
                                  !.ran = runs[r].ran \cup {content}]
  <2>2. /\ runs[r].artifact \in Kept(bucket)
        /\ [version |-> runs[r].version, sha |-> content] \in released
    BY <1>2, <2>1, RunFacts DEF VerifyApprovedArtifact
  <2>3. content \in Digests
    BY <2>1, <2>2, KeptFacts DEF PInv
  <2>4. x \in Pinned(bucket, released)
    BY <2>2, <2>3, RunFacts DEF Pinned
  <2>5. runs' = [runs EXCEPT ![r] = x]
    BY <2>1
  <2> HIDE DEF x
  <2> QED BY <1>1, <2>4, <2>5, RunMoves
<1>3. CASE VerifyError(r)
  <2>1. [runs[r] EXCEPT !.phase = "ended", !.artifact = NoArtifact] \in Pinned(bucket, released)
    BY RunFacts DEF Pinned
  <2> QED BY <1>1, <1>3, <2>1, RunMoves DEF VerifyError
<1>4. CASE Requeue(r)
  <2>1. [runs[r] EXCEPT !.phase = "queued"] \in Pinned(bucket, released)
    BY RunFacts DEF Pinned
  <2> QED BY <1>1, <1>4, <2>1, RunMoves DEF Requeue
<1> QED BY <1>2, <1>3, <1>4

-----------------------------------------------------------------------------
(* The theorems *)

LEMMA InitFits == Init => PInv
<1> SUFFICES ASSUME Init PROVE PInv
  OBVIOUS
<1> USE DEF Init, DefinitionsInit, PinnedInit
<1>1. bucket \in Seq(Digests) /\ Len(bucket) = 0
  OBVIOUS
<1>2. live \in Live(bucket)
  BY <1>1 DEF Live
<1>3. def \in Documents(bucket, released) /\ calls \in [Callers -> Requests(bucket)]
  BY DEF Documents, Requests
<1>4. runs \in [Runs -> Pinned(bucket, released)]
  BY NoRunFits
<1>5. insts \in [Instances -> Instance] /\ edits \in [Editors -> Edit]
  BY DEF Instance, NoInstance, Edit
<1> QED BY <1>1, <1>2, <1>3, <1>4, <1>5 DEF PInv

LEMMA StepsFit == PInv /\ [Next]_vars => PInv'
<1> SUFFICES ASSUME PInv, [Next]_vars PROVE PInv'
  OBVIOUS
<1>1. CASE DefinitionStep /\ UNCHANGED pinnedVars
  BY <1>1, UploadKeeps, EditKeeps, PruneKeeps DEF DefinitionStep
<1>2. CASE UNCHANGED vars
  BY <1>2 DEF vars, definitionVars, pinnedVars, PInv
<1> QED BY <1>1, <1>2, InstanceKeeps, FireKeeps, BuildKeeps, AttemptKeeps DEF Next, RunStep

(***************************************************************************)
(* Whatever uploads, patches, deletes, ticks and attempts overtake one      *)
(* another, fail or die, PInv is an inductive invariant.                    *)
(***************************************************************************)
THEOREM PinnedInvariance == Spec => []PInv
BY InitFits, StepsFit, PTL DEF Spec

(***************************************************************************)
(* Document, bucket, requests, instances and runs keep to their types, and  *)
(* no artifact names a generation that was never saved.                     *)
(***************************************************************************)
THEOREM PinnedTypes == Spec => []TypeOK
<1>1. PInv => TypeOK
  <2> SUFFICES ASSUME PInv PROVE TypeOK
    OBVIOUS
  <2>1. Kept(bucket) \subseteq Artifact
    BY DEF Kept, Artifact
  <2>2. Documents(bucket, released) \subseteq Definition
    BY <2>1 DEF Documents, Definition
  <2>3. Requests(bucket) \subseteq Call
    BY <2>1 DEF Requests, Call
  <2>4. Pinned(bucket, released) \subseteq RunDocument
    BY <2>1, <2>2 DEF Pinned, RunDocument
  <2>5. live \in [Digests -> 0..Len(bucket)] /\ pruned \subseteq DOMAIN bucket
    BY DEF PInv, Live, Overtaken
  <2> QED BY <2>2, <2>3, <2>4, <2>5 DEF PInv, TypeOK, DefinitionsTypeOK
<1> QED BY <1>1, PinnedInvariance, PTL

(***************************************************************************)
(* No artifact a document, a snapshot or a worker names turns into other    *)
(* code, and it can be downloaded until the lifecycle rule of the bucket    *)
(* finds as many later uploads of the very same zip as it asks for, for any *)
(* number of uploads that overtake one another, fail and clean up.          *)
(***************************************************************************)
THEOREM ArtifactsApproved == Spec => []ArtifactsStayApproved
<1>1. PInv => ArtifactsStayApproved
  <2> SUFFICES ASSUME PInv, NEW a \in OnRecord
               PROVE  /\ Download(a) \subseteq {a.sha}
                      /\ Cardinality(Resaved(a)) < NewerVersions => Download(a) # {}
    BY DEF ArtifactsStayApproved
  <2>1. \A d \in Documents(bucket, released) : d.artifact \in Kept(bucket) \cup {NoArtifact}
    BY DEF Documents, NoDefinition
  <2>2. a \in Kept(bucket)
    <3>1. def.artifact \in Kept(bucket) \cup {NoArtifact}
      BY <2>1 DEF PInv
    <3>2. ASSUME NEW r \in Runs
          PROVE  /\ runs[r].artifact \in Kept(bucket) \cup {NoArtifact}
                 /\ runs[r].doc \in Documents(bucket, released)
      BY RunFacts
    <3>3. \A r \in Runs : runs[r].doc.artifact \in Kept(bucket) \cup {NoArtifact}
      BY <2>1, <3>2
    <3> QED BY <3>1, <3>2, <3>3 DEF OnRecord
  <2>3. a.generation \in DOMAIN bucket /\ bucket[a.generation] = a.sha
    BY <2>2, KeptFacts DEF PInv
  <2>4. Resaved(a) = Later(bucket, a.generation)
    BY <2>3 DEF Resaved, Later, PInv
  <2>5. ASSUME Cardinality(Resaved(a)) < NewerVersions PROVE a.generation \notin pruned
    <3>1. IsFiniteSet(Later(bucket, a.generation))
      <4>1. Later(bucket, a.generation) \subseteq 1..Len(bucket) /\ Len(bucket) \in Nat
        BY DEF Later, PInv
      <4>2. IsFiniteSet(1..Len(bucket))
        BY <4>1, FS_Interval
      <4> QED BY <4>1, <4>2, FS_Subset
    <3>2. Cardinality(Later(bucket, a.generation)) \in Nat
      BY <3>1, FS_CardinalityType
    <3>3. ~(Cardinality(Later(bucket, a.generation)) >= NewerVersions)
      BY <2>4, <2>5, <3>2, JobDefinitionsAssumption
    <3>4. a.generation \notin Overtaken(bucket)
      BY <3>3 DEF Overtaken
    <3> QED BY <3>4 DEF PInv
  <2> QED BY <2>3, <2>5 DEF Download
<1> QED BY <1>1, PinnedInvariance, PTL

(***************************************************************************)
(* The code a run executes was uploaded as the version its instance is      *)
(* pinned to, for any number of uploads, instances, runs and attempts.      *)
(***************************************************************************)
THEOREM VersionsExecuted == Spec => []RunsExecuteTheirVersion
<1>1. PInv => RunsExecuteTheirVersion
  BY RunFacts DEF RunsExecuteTheirVersion
<1> QED BY <1>1, PinnedInvariance, PTL

\* Edits of instances and runs leave the document, the bucket and the requests alone.
LEMMA OtherStepsSpareDefinitions ==
  ASSUME [Next]_vars, ~DefinitionStep
  PROVE  UNCHANGED definitionVars
<1>1. ASSUME NEW e \in Editors, InstanceStep(e) PROVE UNCHANGED definitionVars
  BY <1>1 DEF InstanceStep, CreateInstance, EditInstance, Prepare, WriteInstance, EditError
<1>2. ASSUME NEW r \in Runs, RunStep(r) PROVE UNCHANGED definitionVars
  BY <1>2 DEF RunStep, Fire, RunNow, BuildExecutionMetadata, VerifyApprovedArtifact,
     VerifyError, Requeue
<1> QED BY <1>1, <1>2 DEF Next, vars

(***************************************************************************)
(* Once a definition exists no upload gives it version 1 again: an upload   *)
(* that found a document writes a later version, and one that found none    *)
(* cannot replace what has been created since.                              *)
(***************************************************************************)
THEOREM NoVersionReset == Spec => VersionNeverResets
<1> DEFINE NoReset == def # NoDefinition /\ def'.artifact # def.artifact => def'.version > 1
<1>1. PInv /\ [Next]_vars => NoReset
  <2> SUFFICES ASSUME PInv, [Next]_vars, def # NoDefinition, def'.artifact # def.artifact
               PROVE  def'.version > 1
    OBVIOUS
  <2>1. ASSUME NEW c \in Callers, WriteDefinition(c)
        PROVE  def'.version > 1
    <3>1. calls[c].existing \in Nat \ {0}
      BY <2>1, CallFacts DEF WriteDefinition, Writable
    <3> QED BY <2>1, <3>1 DEF WriteDefinition, UploadedDefinition
  <2>2. CASE UNCHANGED def
    BY <2>2
  <2>3. ASSUME NEW s, NEW e, def' = [def EXCEPT !.state = s, !.enabled = e]
        PROVE  FALSE
    BY <2>3 DEF PInv, Documents
  <2>4. ASSUME NEW e, def' = [def EXCEPT !.enabled = e]
        PROVE  FALSE
    BY <2>4 DEF PInv, Documents
  <2>5. CASE DefinitionStep
    <3>1. ASSUME NEW c \in Callers, UploadStep(c) \/ Abandon(c)
          PROVE  def'.version > 1
      BY <2>1, <2>2, <3>1
         DEF UploadStep, UploadRead, Save, SaveError, GetMetadata, UploadDone, UploadAnswerLost,
             UploadError, Cleanup, Abandon
    <3>2. ASSUME NEW c \in Callers, DeleteCheck(c) \/ DeleteWrite(c)
          PROVE  def'.version > 1
      BY <2>2, <2>3, <3>2 DEF DeleteCheck, DeleteWrite
    <3>3. ASSUME NEW e \in BOOLEAN, PatchDefinition(e)
          PROVE  def'.version > 1
      BY <2>4, <3>3 DEF PatchDefinition
    <3>4. ASSUME NEW g \in DOMAIN bucket, Prune(g)
          PROVE  def'.version > 1
      BY <2>2, <3>4 DEF Prune
    <3> QED BY <2>5, <3>1, <3>2, <3>3, <3>4 DEF DefinitionStep
  <2>6. CASE ~DefinitionStep
    BY <2>2, <2>6, OtherStepsSpareDefinitions DEF definitionVars
  <2> QED BY <2>5, <2>6
<1>2. NoReset => [def # NoDefinition /\ def'.artifact # def.artifact => def'.version > 1]_vars
  OBVIOUS
<1> QED BY <1>1, <1>2, PinnedInvariance, PTL DEF Spec, VersionNeverResets

-----------------------------------------------------------------------------
(* Uploads that do not overlap *)

\* An upload under way has read the version that is still the document's.
ReadsCurrent ==
  \A c \in Callers :
    calls[c].phase \in {"saving", "saved", "writing"} => calls[c].existing = def.version

\* No two contents were released under one version, and none under a later one than
\* the document's.
OneContentPerVersion ==
  /\ \A x \in released : x.version <= def.version
  /\ \A x, y \in released : x.version = y.version => x.sha = y.sha

Serial == ReadsCurrent /\ OneContentPerVersion

LEMMA DefinitionFacts ==
  ASSUME PInv
  PROVE  /\ def.version \in Nat
         /\ \A x \in released : x.version \in Nat
         /\ \A s, e : def # NoDefinition =>
              [def EXCEPT !.state = s, !.enabled = e].version = def.version
         /\ \A e : def # NoDefinition => [def EXCEPT !.enabled = e].version = def.version
BY DEF PInv, Documents, NoDefinition

\* Requests one after the other: each upload writes a version nobody has written.
LEMMA SerialSteps ==
  ASSUME \A b, c \in Callers : b = c, PInv, Serial, DefinitionStep
  PROVE  Serial'
<1>1. ASSUME NEW c \in Callers, NEW k, calls' = [calls EXCEPT ![c] = k],
             def'.version = def.version, released' = released,
             k.phase \in {"saving", "saved", "writing"} => k.existing = def.version
      PROVE  Serial'
  <2>1. \A b \in Callers : calls'[b] = k
    BY <1>1 DEF PInv
  <2> QED BY <1>1, <2>1 DEF Serial, ReadsCurrent, OneContentPerVersion
<1>2. ASSUME NEW c \in Callers, UploadDone(c) \/ UploadAnswerLost(c) PROVE Serial'
  <2>1. calls[c].existing = def.version
    BY <1>2 DEF UploadDone, UploadAnswerLost, WriteDefinition, Serial, ReadsCurrent
  <2>2. /\ def'.version = def.version + 1
        /\ released' = released \cup {[version |-> def.version + 1, sha |-> calls[c].sha]}
    BY <1>2, <2>1 DEF UploadDone, UploadAnswerLost, WriteDefinition, UploadedDefinition
  <2>3. \A b \in Callers : calls'[b].phase \in {"none", "cleanup"}
    BY <1>2 DEF UploadDone, UploadAnswerLost, ToCleanup, NoCall, PInv
  <2>4. ReadsCurrent'
    BY <2>3 DEF ReadsCurrent
  <2>5. ASSUME NEW x \in released'
        PROVE  /\ x.version \in Nat /\ x.version <= def.version + 1
               /\ x \notin released => x.version = def.version + 1 /\ x.sha = calls[c].sha
               /\ x \in released => x.version <= def.version
    BY <2>2, DefinitionFacts DEF Serial, OneContentPerVersion
  <2>6. OneContentPerVersion'
    BY <2>2, <2>5, DefinitionFacts DEF Serial, OneContentPerVersion
  <2> QED BY <2>4, <2>6 DEF Serial
<1>3. ASSUME NEW c \in Callers, UploadStep(c) \/ Abandon(c) PROVE Serial'
  <2>1. NoCall.phase = "none"
    BY DEF NoCall
  <2>2. ASSUME NEW d \in Digests, UploadRead(c, d) PROVE Serial'
    BY <1>1, <2>2 DEF UploadRead
  <2>3. CASE Save(c)
    <3>1. /\ calls[c] \in [phase : {"saving", "saved"}, sha : Digests, existing : Nat]
          /\ calls[c].existing = def.version
      BY <2>3, CallFacts DEF Save, Serial, ReadsCurrent
    <3>2. calls' = [calls EXCEPT ![c] = [calls[c] EXCEPT !.phase = "saved"]]
      BY <2>3 DEF Save, PInv
    <3> QED BY <1>1, <2>3, <3>1, <3>2 DEF Save
  <2>4. CASE GetMetadata(c)
    <3>1. calls[c].existing = def.version
      BY <2>4 DEF GetMetadata, Serial, ReadsCurrent
    <3> QED BY <1>1, <2>4, <3>1 DEF GetMetadata
  <2>5. CASE SaveError(c) \/ Cleanup(c) \/ Abandon(c)
    BY <1>1, <2>1, <2>5 DEF SaveError, Cleanup, Abandon
  <2>6. CASE UploadError(c)
    BY <1>1, <2>6 DEF UploadError, ToCleanup
  <2> QED BY <1>2, <1>3, <2>2, <2>3, <2>4, <2>5, <2>6 DEF UploadStep
<1>4. ASSUME NEW c \in Callers, DeleteCheck(c) PROVE Serial'
  BY <1>1, <1>4 DEF DeleteCheck
<1>5. ASSUME NEW c \in Callers, DeleteWrite(c) PROVE Serial'
  BY <1>1, <1>5, DefinitionFacts DEF DeleteWrite, NoCall
<1>6. ASSUME NEW e \in BOOLEAN, PatchDefinition(e) PROVE Serial'
  BY <1>6, DefinitionFacts DEF PatchDefinition, Serial, ReadsCurrent, OneContentPerVersion
<1>7. ASSUME NEW g \in DOMAIN bucket, Prune(g) PROVE Serial'
  BY <1>7 DEF Prune, Serial, ReadsCurrent, OneContentPerVersion
<1> QED BY <1>3, <1>4, <1>5, <1>6, <1>7 DEF DefinitionStep

(***************************************************************************)
(* Overlapping requests on the definition are the only way to change the    *)
(* code of a version: where they do not overlap, all runs of a version      *)
(* execute the same code, whatever fails, is lost or is retried, and        *)
(* whatever edits of instances overlap, delete them and make them anew.     *)
(***************************************************************************)
THEOREM SerialUploadsKeepCode ==
  ASSUME \A b, c \in Callers : b = c
  PROVE  Spec => []PinnedCodeNeverChanges
<1> DEFINE Inv == PInv /\ Serial
<1>1. Init => Inv
  <2> SUFFICES ASSUME Init PROVE Inv
    OBVIOUS
  <2>1. Serial
    BY DEF Init, DefinitionsInit, Serial, ReadsCurrent, OneContentPerVersion, NoCall
  <2> QED BY <2>1, InitFits
<1>2. ASSUME Inv, [Next]_vars PROVE Inv'
  <2>1. CASE DefinitionStep
    BY <1>2, <2>1, SerialSteps, StepsFit
  <2>2. CASE ~DefinitionStep
    <3>1. UNCHANGED definitionVars
      BY <1>2, <2>2, OtherStepsSpareDefinitions
    <3>2. Serial'
      BY <1>2, <3>1 DEF definitionVars, Serial, ReadsCurrent, OneContentPerVersion
    <3> QED BY <1>2, <3>2, StepsFit
  <2> QED BY <2>1, <2>2
<1>3. ASSUME Inv PROVE PinnedCodeNeverChanges
  <2> SUFFICES ASSUME NEW q \in Runs, NEW r \in Runs, runs[q].version = runs[r].version,
                      NEW d \in runs[q].ran, NEW f \in runs[r].ran
               PROVE  d = f
    BY DEF PinnedCodeNeverChanges
  <2> DEFINE x == [version |-> runs[q].version, sha |-> d]
             y == [version |-> runs[r].version, sha |-> f]
  <2>1. x \in released /\ y \in released /\ x.version = y.version
    BY <1>3, RunFacts
  <2>2. x.sha = y.sha
    BY <1>3, <2>1 DEF Serial, OneContentPerVersion
  <2> QED BY <2>2
<1> QED BY <1>1, <1>2, <1>3, PTL DEF Spec
=============================================================================
