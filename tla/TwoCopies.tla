----------------------------- MODULE TwoCopies ------------------------------
(***************************************************************************)
(* What FolderVault promises about a user's files, with no staging paths,  *)
(* journal, failures or crashes in sight: the files are kept in a folder   *)
(* and a container; a second copy is made from a first one, a copy is      *)
(* dropped only while the other one is complete, and only a delete that    *)
(* gives files up may end with less.  (PLAN.md, "Crash safety": "At no     *)
(* point can both copies be gone.")                                        *)
(***************************************************************************)
CONSTANT Files

VARIABLES
    owed,   \* the files the user has entrusted and not given up
    full    \* which of the two places holds all of them

Places == {"folder", "container"}

Init == owed \in (SUBSET Files) \ {{}} /\ \E c \in Places : full = {c}

(* lock or unlock commits its rename *)
Copy(c) == full # {} /\ full' = full \cup {c} /\ UNCHANGED owed

(* lock, unlock or recovery removes the other copy *)
Drop(c) == full = Places /\ full' = Places \ {c} /\ UNCHANGED owed

(* an authorized delete gives up what only the container holds *)
GiveUp ==
    /\ "container" \in full
    /\ owed' \subseteq owed
    /\ owed' # owed \/ owed' = {}
    /\ full' \subseteq {"folder"}

(* the user starts over *)
Renew == full = {} /\ owed' \in (SUBSET Files) \ {{}} /\ full' = {"folder"}

Next == (\E c \in Places : Copy(c) \/ Drop(c)) \/ GiveUp \/ Renew

Spec == Init /\ [][Next]_<<owed, full>>

=============================================================================
