--------------------------- MODULE MCRegistration ----------------------------
(* Registration for TLC: two processes at a time, two places. *)
EXTENDS Registration, TLC

CONSTANTS p1, p2, A, B

TwoProcs == {p1, p2}
TwoPlaces == {A, B}
Symmetric == Permutations(TwoProcs) \cup Permutations(TwoPlaces)

=============================================================================
