SPECIFICATION Spec
CONSTANTS
  Digests = {d1, d2}
  Callers = {u1, u2}
  NewerVersions = 5
  MaxGenerations = 3
  Instances = {i1}
  Editors = {e1}
  Runs = {r1}
SYMMETRY Symmetry
INVARIANTS PinnedCodeNeverChanges
