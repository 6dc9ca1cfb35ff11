------------------------- MODULE MCCheckpointStore -------------------------
EXTENDS CheckpointStore, TLC

Symmetry == Permutations(Threads) \cup Permutations(Pods) \cup Permutations(Runs)

=============================================================================
