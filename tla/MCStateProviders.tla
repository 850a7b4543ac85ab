-------------------------- MODULE MCStateProviders --------------------------
(* Small instances of StateProviders for TLC.                              *)
EXTENDS StateProviders, TLC

CONSTANTS k1, k2

BothProviders == {"filesystem", "feltdb"}
AllOps        == {"read", "write", "delete"}
AllFaults     == {"kill", "io"}
Nesting       == {<<k1, k2>>}

Symmetry == Permutations(Calls) \cup Permutations(Values) \cup Permutations(Files)
=============================================================================
