---------------------------- MODULE MCHostSessions -------------------------
\* Instances of HostSessions for model checking; the constants are in the cfg files.
EXTENDS HostSessions, TLC

\* No liveness is checked here, and neither dials nor levels are told apart.
Symmetry == Permutations(Dials) \cup Permutations(Levels)
=============================================================================
