---------------------------- MODULE MCRelayCommands ----------------------------
EXTENDS RelayCommands, TLC
Symmetric == Permutations(Callers)
=============================================================================
