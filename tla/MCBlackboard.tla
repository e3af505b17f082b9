---------------------------- MODULE MCBlackboard ----------------------------
(* Instances of Blackboard for TLC.                                         *)
EXTENDS Blackboard, TLC

\* Units are interchangeable.
Symmetric == Permutations(Unit)

=============================================================================
