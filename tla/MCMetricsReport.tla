-------------------------- MODULE MCMetricsReport ---------------------------
EXTENDS MetricsReport
OneChannel == [p \in Memory |-> 0]
PayloadSymmetry == Permutations(Memory) \cup Permutations(Compute)
=============================================================================
