------------------------------ MODULE MCStores ------------------------------
EXTENDS Stores, TLC

CONSTANTS l1, l2, w1, w2, i1, i2

Perms == Permutations({l1, l2}) \cup Permutations({w1, w2}) \cup Permutations({i1, i2})
=============================================================================
