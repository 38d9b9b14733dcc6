------------------------------ MODULE MCTunnel ------------------------------
EXTENDS Tunnel, TLC

CONSTANTS s1, s2, l1

OneListener == [s \in Sessions |-> l1]
Symmetric == Permutations(Sessions)
=============================================================================
