---------------------------- MODULE MCLifecycle ----------------------------
(* Instances of Lifecycle for TLC. *)
EXTENDS Lifecycle, TLC

CONSTANTS e1, e2, d1, c1, c2, k1, k2, k3

Interchangeable == Permutations({k1, k2, k3}) \cup Permutations({e1, e2})
                   \cup Permutations({c1, c2})
=============================================================================
