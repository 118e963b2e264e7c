------------------------------ MODULE MCConfig ------------------------------
EXTENDS Config, TLC

CONSTANTS c1, c2, u1

Perms == Permutations({c1, c2})
=============================================================================
