-------------------------- MODULE MCJointEvalKeys --------------------------
EXTENDS JointEvalKeys, TLC

Symmetry == Permutations(Party) \cup Permutations(Index) \cup Permutations(Gen)
============================================================================
