--------------------------- MODULE MCWineLifecycle ---------------------------
(* Two host threads and three guest threads; both sets are symmetric.       *)
EXTENDS WineLifecycle, TLC

CONSTANTS h1, h2, t1, t2, t3

Symmetry == Permutations({h1, h2}) \cup Permutations({t1, t2, t3})
=============================================================================
