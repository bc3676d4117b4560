---------------------------- MODULE MCSyncGroups ----------------------------
EXTENDS SyncGroups, TLC

Symmetry == Permutations(Players)
=============================================================================
