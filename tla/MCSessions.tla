----------------------------- MODULE MCSessions -----------------------------
(* Sessions for TLC: three requests of one client on two workers.            *)
EXTENDS Sessions, TLC

Symmetric == Permutations(Requests) \cup Permutations(Workers)
=============================================================================
