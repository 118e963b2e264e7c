----------------------------- MODULE MCSessions -----------------------------
EXTENDS Sessions, TLC

CONSTANTS h1, h2, u1, u2, t1, t2

(* Two requests of the panel, or one and a command.                        *)
Perms == Permutations({h1, h2}) \cup Permutations({u1, u2}) \cup Permutations({t1, t2})
=============================================================================
