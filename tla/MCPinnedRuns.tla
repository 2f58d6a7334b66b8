---------------------------- MODULE MCPinnedRuns ----------------------------
EXTENDS PinnedRuns, TLC

\* Neither callers, nor editors, nor runs, nor digests are told apart.
Symmetry ==
  Permutations(Callers) \cup Permutations(Editors) \cup Permutations(Runs)
    \cup Permutations(Digests)
=============================================================================
