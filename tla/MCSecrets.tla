------------------------------ MODULE MCSecrets ------------------------------
(* Secrets for TLC: two processes at a time, application or command line. *)
EXTENDS Secrets, TLC

CONSTANTS p1, p2, k1, k2, m1, m2, m3

TwoProcs == {p1, p2}
TwoKeys == {k1, k2}
ThreeMasters == {m1, m2, m3}
Symmetric == Permutations(TwoProcs) \cup Permutations(TwoKeys) \cup Permutations(ThreeMasters)

=============================================================================
