---------------------------- MODULE Registration -----------------------------
(***************************************************************************)
(* The Explorer entries (shell.rs): set by register, one registry value    *)
(* after another, renewed by register_if_needed at every launch, deleted   *)
(* by unregister.  A registry call may fail and a process die between any  *)
(* two; the program, a portable one, may be moved while it does not run.   *)
(***************************************************************************)
EXTENDS Naturals, Sequences

CONSTANTS
    Procs,
    Exes,   \* places the program may be at
    None    \* no such value

ASSUME NoneAssumption == None \notin Exes

(* The values register sets, in its order, and the trees unregister        *)
(* deletes, in its order.  "open" is the class with its icon and open      *)
(* verb; a verb stands for its label, icon and command.  .fvlt names the   *)
(* class, every other value the program.                                   *)
RegisterOrder == <<".fvlt", "open", "delete", "lock", "RegisteredExe">>
UnregisterOrder == <<{"lock"}, {"open", "delete"}, {".fvlt"}, {"RegisteredExe"}>>
Entries == {RegisterOrder[n] : n \in DOMAIN RegisterOrder}
TheClass == "FolderVault.Container"

VARIABLES
    registry,
    home,     \* where the program is: current_exe of all that run
    pc,       \* per process
    step,     \* per process: next value to set or tree to delete
    halfway   \* history: values were left half changed and the marker does
              \* not show it

vars == <<registry, home, pc, step, halfway>>

Value(e) == IF e = ".fvlt" THEN TheClass ELSE home

(* A machine without FolderVault, or one with an earlier version, which    *)
(* had no Delete verb.                                                     *)
Init ==
    /\ home \in Exes
    /\ \/ registry = [e \in Entries |-> None]
       \/ registry = [e \in Entries |-> IF e = "delete" THEN None ELSE Value(e)]
    /\ pc = [p \in Procs |-> "off"]
    /\ step = [p \in Procs |-> 1]
    /\ halfway = FALSE

Goto(p, l) == pc' = [pc EXCEPT ![p] = l]

delete_verb_present == registry["delete"] # None
read_registered_exe == registry["RegisteredExe"]

(* lock, open and delete start here, setup at "setup" *)
Start(p) ==
    /\ pc[p] = "off"
    /\ \A q \in Procs : pc[q] # "unregister"
    /\ Goto(p, "launch") \/ Goto(p, "setup")
    /\ UNCHANGED <<registry, home, step, halfway>>

(* mutant: the marker alone decides *)
register_by_marker(p) ==
    /\ pc[p] = "launch"
    /\ Goto(p, IF read_registered_exe # home THEN "register" ELSE "done")
    /\ UNCHANGED <<registry, home, step, halfway>>

register_if_needed(p) ==
    /\ pc[p] = "launch"
    /\ Goto(p, IF read_registered_exe # home \/ ~delete_verb_present THEN "register" ELSE "done")
    /\ UNCHANGED <<registry, home, step, halfway>>

(* mutant: the marker is set before what it vouches for *)
set_value_marker_first(p) ==
    /\ pc[p] \in {"register", "setup"} /\ step[p] <= Len(RegisterOrder)
    /\ LET e == IF step[p] = 1 THEN "RegisteredExe" ELSE RegisterOrder[step[p] - 1]
       IN  registry' = [registry EXCEPT ![e] = Value(e)]
    /\ step' = [step EXCEPT ![p] = @ + 1]
    /\ UNCHANGED <<home, pc, halfway>>

(* register, called by register_if_needed and by run_setup.  While it is   *)
(* under way a marker that names another place stays; a launch from there  *)
(* would take the entries for its own.                                     *)
set_value(p) ==
    /\ pc[p] \in {"register", "setup"} /\ step[p] <= Len(RegisterOrder)
    /\ LET e == RegisterOrder[step[p]]
       IN  /\ registry' = [registry EXCEPT ![e] = Value(e)]
           /\ halfway' = /\ e # "RegisteredExe"
                         /\ halfway \/ read_registered_exe \notin {None, home}
    /\ step' = [step EXCEPT ![p] = @ + 1]
    /\ UNCHANGED <<home, pc>>

Registered(p) ==
    /\ pc[p] \in {"register", "setup"} /\ step[p] > Len(RegisterOrder)
    /\ Goto(p, "done")
    /\ step' = [step EXCEPT ![p] = 1]
    /\ UNCHANGED <<registry, home, halfway>>

(* mutant: the value that fails is skipped *)
RegisterFailsOn(p) ==
    /\ pc[p] \in {"register", "setup"}
    /\ step' = [step EXCEPT ![p] = @ + 1]
    /\ UNCHANGED <<registry, home, pc, halfway>>

(* A set_value fails: register stops there.  register_if_needed ignores    *)
(* it, run_setup shows a message; both go on.                              *)
RegisterFails(p) ==
    /\ pc[p] \in {"register", "setup"} /\ step[p] <= Len(RegisterOrder)
    /\ Goto(p, "failed")
    /\ step' = [step EXCEPT ![p] = 1]
    /\ UNCHANGED <<registry, home, halfway>>

(* a lock that finds no master key runs setup as well *)
SetUp(p) ==
    /\ pc[p] \in {"done", "failed"} /\ Goto(p, "setup")
    /\ UNCHANGED <<registry, home, step, halfway>>

(* The process ends, or dies where it is. *)
End(p) ==
    /\ pc[p] # "off" /\ Goto(p, "off")
    /\ step' = [step EXCEPT ![p] = 1]
    /\ UNCHANGED <<registry, home, halfway>>

(* The uninstaller runs the program, and nothing else does. *)
Uninstall(p) ==
    /\ \A q \in Procs : pc[q] = "off"
    /\ Goto(p, "unregister")
    /\ UNCHANGED <<registry, home, step, halfway>>

(* unregister: each tree is deleted or, without a word, left *)
unregister(p) ==
    /\ pc[p] = "unregister"
    /\ LET tree == UnregisterOrder[step[p]]
       IN  \/ /\ registry' = [e \in Entries |-> IF e \in tree THEN None ELSE registry[e]]
              /\ halfway' = ("RegisteredExe" \notin tree)
           \/ UNCHANGED registry /\ halfway' = TRUE
    /\ IF step[p] < Len(UnregisterOrder)
       THEN step' = [step EXCEPT ![p] = @ + 1] /\ UNCHANGED pc
       ELSE step' = [step EXCEPT ![p] = 1] /\ Goto(p, "off")
    /\ UNCHANGED home

Move ==
    /\ \A p \in Procs : pc[p] = "off"
    /\ home' \in Exes \ {home}
    /\ UNCHANGED <<registry, pc, step, halfway>>

Next ==
    \/ Move
    \/ \E p \in Procs : \/ Start(p) \/ register_if_needed(p) \/ set_value(p) \/ Registered(p)
                        \/ RegisterFails(p) \/ SetUp(p) \/ End(p)
                        \/ Uninstall(p) \/ unregister(p)

Spec == Init /\ [][Next]_vars

-----------------------------------------------------------------------------
(* Properties *)

TypeOK ==
    /\ registry \in [Entries -> Exes \cup {None, TheClass}]
    /\ home \in Exes
    /\ pc \in [Procs -> {"off", "launch", "register", "setup", "done", "failed", "unregister"}]
    /\ step \in [Procs -> 1 .. Len(RegisterOrder) + 1]
    /\ halfway \in BOOLEAN

Complete == registry = [e \in Entries |-> Value(e)]

(* "Cheap idempotent registration for every launch": when a launch is past *)
(* register_if_needed or run_setup without a failure, every Explorer entry *)
(* is there and names the program where it is now: after first runs,       *)
(* moves, upgrades, and registrations that failed or died half-way, beside *)
(* other launches.  What the two values register_if_needed looks at cannot *)
(* show is an unregister that left something, or a move back from a place  *)
(* where registering was interrupted.                                      *)
RegistrationHeals ==
    \A p \in Procs : pc[p] = "done" /\ ~halfway => Complete

(* The marker is set last and vouches for the rest: wherever it says the   *)
(* program was registered, if nothing was left half changed, every other   *)
(* entry names that place, or is the Delete verb an earlier version lacks. *)
MarkerVouches ==
    read_registered_exe # None /\ ~halfway =>
        \A e \in Entries :
            \/ registry[e] = IF e = ".fvlt" THEN TheClass ELSE read_registered_exe
            \/ e = "delete" /\ ~delete_verb_present

=============================================================================
