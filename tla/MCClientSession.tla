--------------------------- MODULE MCClientSession ---------------------------
EXTENDS ClientSession, TLC
CONSTANTS t1, t2, c1, c2, k1, k2, k3
Symmetric == Permutations({t1, t2}) \cup Permutations({c1, c2}) \cup Permutations({k1, k2, k3})
==============================================================================
