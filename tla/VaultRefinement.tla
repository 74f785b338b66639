--------------------------- MODULE VaultRefinement ---------------------------
(***************************************************************************)
(* VaultOps implements TwoCopies: the refinement mapping.                  *)
(***************************************************************************)
EXTENDS VaultInv

Full == {c \in {"folder", "container"} :
           \/ c = "folder" /\ folder # Absent /\ data \subseteq folder
           \/ c = "container" /\ cont # Absent /\ data \subseteq cont.files}

Abstract == INSTANCE TwoCopies WITH owed <- data, full <- Full

(* Every step of lock, unlock, delete and recovery, failures and crashes   *)
(* included, is a step the two-copies promise allows, or changes neither   *)
(* copy: a copy is dropped only while the other one is complete, and the   *)
(* last one only by a password-checked delete.                             *)
KeepsTwoCopies == Abstract!Spec

=============================================================================
