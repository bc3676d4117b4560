-------------------------- MODULE MCSlimConnection --------------------------
EXTENDS SlimConnection, TLC

Symmetry == Permutations(Sockets)
=============================================================================
