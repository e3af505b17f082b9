--------------------------- MODULE MCSyncTrainer ----------------------------
EXTENDS SyncTrainer, TLC

\* The game threads are interchangeable.
Symmetry == Permutations(Games)
=============================================================================
