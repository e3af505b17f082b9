------------------------------ MODULE MCBuilder ------------------------------
EXTENDS Builder, TLC

\* Workers are interchangeable.
Symmetry == Permutations(Unit \ Detector)

=============================================================================
