----------------------- MODULE MCThresholdDecryption -----------------------
EXTENDS ThresholdDecryption, TLC

Symmetry == Permutations(Party) \cup Permutations(Ct) \cup Permutations(Sharing)
============================================================================
