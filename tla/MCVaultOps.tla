----------------------------- MODULE MCVaultOps -----------------------------
(* Instances of VaultOps for TLC. *)
EXTENDS VaultRefinement

CONSTANTS p1, p2, a, b, u1, u2

OneProc == {p1}
TwoProcs == {p1, p2}
TwoFiles == {a, b}
TwoUuids == {u1, u2}

(* one process after another, each with any command *)
AnyCommand == [p \in OneProc |-> Commands]
(* p1 locks while p2 only starts, recovers and ends (fvlt recover, inspect) *)
LockBesideRecover == [p \in TwoProcs |-> IF p = p1 THEN {"lock"} ELSE {"inspect"}]
(* p1 unlocks while p2 starts, recovers and ends *)
UnlockBesideRecover ==
    [p \in TwoProcs |-> IF p = p1 THEN {"unlock"} ELSE {"inspect"}]

=============================================================================
