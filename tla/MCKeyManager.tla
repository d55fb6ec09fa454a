---------------------------- MODULE MCKeyManager ----------------------------
(* Three principals, a file that outgrows its buffer with the second.      *)
EXTENDS KeyManager, TLC

CONSTANTS k1, k2, k3
MCPrincipal == {k1, k2, k3}
Symmetric == Permutations(MCPrincipal)
=============================================================================
