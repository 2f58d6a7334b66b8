SPECIFICATION Spec
CONSTANTS
  Digests = {d1, d2}
  Callers = {u1, u2}
  NewerVersions = 1
  MaxGenerations = 2
  Instances = {i1}
  Editors = {e1}
  Runs = {r1}
SYMMETRY Symmetry
INVARIANTS TypeOK ArtifactsStayApproved RunsExecuteTheirVersion
PROPERTIES VersionNeverResets
