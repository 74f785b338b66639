----------------------------- MODULE MCPowerLoss -----------------------------
(* PowerLoss for TLC: one process after another, any command, one file, two   *)
(* uuids.  A folder that has lost something is the empty one.             *)
EXTENDS PowerLoss, TLC

CONSTANTS p1, a, u1, u2

OneProc == {p1}
OneFile == {a}
TwoUuids == {u1, u2}
UuidSymmetry == Permutations(TwoUuids)
AnyCommand == [p \in OneProc |-> Commands]

=============================================================================
