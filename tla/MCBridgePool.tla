---------------------------- MODULE MCBridgePool ----------------------------
EXTENDS BridgePool, TLC

ProcessSymmetry == Permutations(Pids)
=============================================================================
