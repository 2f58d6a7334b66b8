--------------------------- MODULE RetryClassifier ---------------------------
(***************************************************************************)
(* src/src/services/retryClassifier.js: whether a failed run is worth      *)
(* another attempt.  An error is [flag, code, status]: the boolean its      *)
(* raiser put on it ("unset" when none), its code ("none" when it has none) *)
(* and its HTTP status (0 when none).                                       *)
(***************************************************************************)
EXTENDS Integers

NON_RETRYABLE_CODES ==
  {"RUN_DEFINITION_MISSING", "DEFINITION_NOT_FOUND", "DEFINITION_NOT_ACTIVE",
   "DEFINITION_VERSION_MISMATCH", "DEFINITION_ARTIFACT_MISSING", "ARTIFACT_URI_INVALID",
   "ARTIFACT_SHA256_MISMATCH", "ARTIFACT_ZIP_INVALID", "RUNTIME_ARTIFACT_BUFFER_REQUIRED",
   "RUNTIME_ARTIFACT_SHA256_MISMATCH", "RUNTIME_ARTIFACT_URI_INVALID",
   "RUNTIME_ENTRYPOINT_INVALID", "RUNTIME_ENTRYPOINT_REQUIRED",
   "RUNTIME_RESULT_JSON_INVALID", "RUNTIME_RESULT_MISSING",
   "RUNTIME_RESULT_OUTPUT_TOO_LARGE", "RUNTIME_UNSUPPORTED",
   "RUNTIME_VERSION_UNSUPPORTED"}

RETRYABLE_CODES ==
  {"ARTIFACT_DOWNLOAD_FAILED", "RUNTIME_ARTIFACT_DOWNLOAD_FAILED",
   "WORKER_EXECUTION_FAILED", "WORKER_TIMEOUT", "RUNTIME_PROCESS_EXITED_NON_ZERO",
   "RUNTIME_PROCESS_TIMED_OUT"}

NON_RETRYABLE_HTTP_STATUS_CODES == {400, 401, 403, 404, 409, 410, 422}

\* The retryable statuses give the answer of the last line, which a status of
\* neither list gets too.
classifyWorkerError(e) ==
  LET code == IF e.code = "none" THEN "WORKER_EXECUTION_FAILED" ELSE e.code
  IN  IF e.flag # "unset" THEN e.flag
      ELSE IF code \in NON_RETRYABLE_CODES THEN "NON_RETRYABLE"
      ELSE IF code \in RETRYABLE_CODES THEN "RETRYABLE"
      ELSE IF e.status \in NON_RETRYABLE_HTTP_STATUS_CODES THEN "NON_RETRYABLE"
      ELSE "RETRYABLE"

Raised(flag, codes) == [flag : {flag}, code : codes, status : {0}]

(***************************************************************************)
(* The errors a claimed run of the local backend can end with, by the step  *)
(* that raises them.                                                        *)
(***************************************************************************)

\* buildExecutionMetadata.
DefinitionErrors ==
  Raised("unset", {"RUN_DEFINITION_MISSING", "DEFINITION_NOT_FOUND", "DEFINITION_NOT_ACTIVE",
                   "DEFINITION_VERSION_MISMATCH", "DEFINITION_ARTIFACT_MISSING"})

\* LocalWorkerRunService.verifyApprovedArtifact, about the zip it has read.
ArtifactErrors ==
  Raised("unset", {"ARTIFACT_URI_INVALID", "ARTIFACT_SHA256_MISMATCH"})
  \cup Raised("NON_RETRYABLE", {"ARTIFACT_ZIP_INVALID"})

\* safeZipExtract, about the same zip: validateZipBuffer reads the directory of
\* the zip and its manifest, and what is wrong with another entry is found only
\* here.  These errors have no code, or the one zlib gave them.
ExtractionErrors == Raised("unset", {"none", "Z_DATA_ERROR"})

\* JobRuntimeExecutor, about the runtime that is asked for and the job's output.
RuntimeErrors ==
  Raised("NON_RETRYABLE",
         {"RUNTIME_ISOLATION_REQUIRED", "RUNTIME_UNSUPPORTED", "RUNTIME_VERSION_UNSUPPORTED",
          "RUNTIME_ENTRYPOINT_REQUIRED", "RUNTIME_ENTRYPOINT_INVALID",
          "RUNTIME_RESULT_OUTPUT_TOO_LARGE", "RUNTIME_RESULT_JSON_INVALID"})

\* A file that cannot be read now, a disk that is full (for any error of the
\* operating system), a child that cannot be started, times out or fails.
PassingErrors ==
  Raised("unset", {"ARTIFACT_DOWNLOAD_FAILED", "ENOSPC"})
  \cup Raised("RETRYABLE", {"RUNTIME_PROCESS_FAILED", "RUNTIME_PROCESS_TIMED_OUT",
                            "RUNTIME_PROCESS_EXITED_NON_ZERO"})

WorkerErrors ==
  DefinitionErrors \cup ArtifactErrors \cup ExtractionErrors \cup RuntimeErrors \cup PassingErrors

\* The code a run records, abstracted to the step that raised its error.
Cause(e) ==
  CASE e \in DefinitionErrors -> "definition"
    [] e \in ArtifactErrors -> "artifact"
    [] e \in ExtractionErrors -> "extraction"
    [] e \in RuntimeErrors -> "runtime"
    [] OTHER -> "passing"
=============================================================================
