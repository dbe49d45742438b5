----------------------- MODULE MCInteractiveBootstrap -----------------------
EXTENDS InteractiveBootstrap, TLC

Symmetry == Permutations(Party) \cup Permutations(Msg) \cup Permutations(Elem)
============================================================================
