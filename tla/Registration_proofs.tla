------------------------- MODULE Registration_proofs -------------------------
(***************************************************************************)
(* RegistrationHeals, for any number of processes and places.              *)
(***************************************************************************)
EXTENDS Registration, TLAPS

Registering(p) == pc[p] \in {"register", "setup"}

(* what register has set so far is there, and nobody takes it away *)
Progress ==
    \A p \in Procs : Registering(p) =>
        \A n \in 1..5 : n < step[p] => registry[RegisterOrder[n]] = Value(RegisterOrder[n])

(* the uninstaller runs alone *)
Alone ==
    \A p, q \in Procs : pc[p] = "unregister" /\ q # p => pc[q] = "off"

(* unregister has four trees, and whoever writes nothing is at step one *)
Trees == \A p \in Procs : pc[p] = "unregister" => step[p] \in 1..4
Fresh == \A p \in Procs : pc[p] \in {"off", "launch", "done", "failed"} => step[p] = 1

Inv == TypeOK /\ Progress /\ Alone /\ Trees /\ Fresh /\ MarkerVouches /\ RegistrationHeals

LEMMA OrderFacts ==
    /\ Len(RegisterOrder) = 5 /\ Len(UnregisterOrder) = 4
    /\ Entries = {".fvlt", "open", "delete", "lock", "RegisteredExe"}
    /\ RegisterOrder[1] = ".fvlt" /\ RegisterOrder[2] = "open" /\ RegisterOrder[3] = "delete"
    /\ RegisterOrder[4] = "lock" /\ RegisterOrder[5] = "RegisteredExe"
    /\ \A n \in 1..4 : ("RegisteredExe" \in UnregisterOrder[n]) <=> n = 4
  <1>1. Len(RegisterOrder) = 5 /\ Len(UnregisterOrder) = 4
    BY DEF RegisterOrder, UnregisterOrder
  <1>2. Entries = {".fvlt", "open", "delete", "lock", "RegisteredExe"}
    BY DEF Entries, RegisterOrder
  <1>3. \A n \in 1..4 : ("RegisteredExe" \in UnregisterOrder[n]) <=> n = 4
    BY DEF UnregisterOrder
  <1> QED BY <1>1, <1>2, <1>3 DEF RegisterOrder

(* A step that leaves registry, home and halfway alone and moves one       *)
(* process to a label that claims nothing.                                 *)
LEMMA MoveOnKeeps ==
    ASSUME Inv, NEW p \in Procs, NEW l \in {"off", "launch", "setup", "register", "failed"},
           Goto(p, l), step' = [step EXCEPT ![p] = 1],
           UNCHANGED <<registry, home, halfway>>,
           \A q \in Procs : q # p /\ l # "off" => pc[q] # "unregister"
    PROVE  Inv'
  <1>1. TypeOK'
    BY OrderFacts DEF Inv, TypeOK, Goto
  <1>2. Progress'
    BY OrderFacts DEF Inv, TypeOK, Goto, Progress, Registering, Value
  <1>3. Alone'
    BY DEF Inv, TypeOK, Goto, Alone
  <1>4. Trees' /\ Fresh'
    BY DEF Inv, TypeOK, Goto, Trees, Fresh
  <1>5. MarkerVouches'
    BY DEF Inv, MarkerVouches, read_registered_exe, delete_verb_present, Value
  <1>6. RegistrationHeals'
    BY DEF Inv, TypeOK, Goto, RegistrationHeals, Complete, Value
  <1> QED BY <1>1, <1>2, <1>3, <1>4, <1>5, <1>6 DEF Inv

(* A process that is past register_if_needed or register finds every entry *)
(* in place, unless something was left half changed.                       *)
LEMMA DoneKeeps ==
    ASSUME Inv, NEW p \in Procs, pc[p] # "unregister", ~halfway => Complete,
           Goto(p, "done"), step' = [step EXCEPT ![p] = 1],
           UNCHANGED <<registry, home, halfway>>,
           \A q \in Procs : q # p => pc[q] # "unregister"
    PROVE  Inv'
  <1>1. TypeOK'
    BY OrderFacts DEF Inv, TypeOK, Goto
  <1>2. Progress'
    BY OrderFacts DEF Inv, TypeOK, Goto, Progress, Registering, Value
  <1>3. Alone'
    BY DEF Inv, TypeOK, Goto, Alone
  <1>4. Trees' /\ Fresh'
    BY DEF Inv, TypeOK, Goto, Trees, Fresh
  <1>5. MarkerVouches'
    BY DEF Inv, MarkerVouches, read_registered_exe, delete_verb_present, Value
  <1>6. RegistrationHeals'
    BY DEF Inv, TypeOK, Goto, RegistrationHeals, Complete, Value
  <1> QED BY <1>1, <1>2, <1>3, <1>4, <1>5, <1>6 DEF Inv

LEMMA LaunchKeeps ==
    ASSUME Inv, NEW p \in Procs, register_if_needed(p)
    PROVE  Inv'
  <1>1. /\ pc[p] = "launch" /\ UNCHANGED <<registry, home, halfway>>
        /\ step' = [step EXCEPT ![p] = 1]
        /\ \A q \in Procs : q # p => pc[q] # "unregister"
    BY DEF register_if_needed, Inv, TypeOK, Fresh, Alone
  <1>2. CASE Goto(p, "register")
    BY <1>1, <1>2, MoveOnKeeps
  <1>3. CASE /\ read_registered_exe = home /\ delete_verb_present
             /\ Goto(p, "done")
    <2>1. ~halfway => \A e \in Entries : registry[e] = Value(e)
      BY <1>3, NoneAssumption DEF Inv, TypeOK, MarkerVouches, Value
    <2>2. ~halfway => Complete
      BY <2>1 DEF Complete, Inv, TypeOK
    <2> QED BY <1>1, <1>3, <2>2, DoneKeeps
  <1> QED BY <1>2, <1>3 DEF register_if_needed

LEMMA RegisteredKeeps ==
    ASSUME Inv, NEW p \in Procs, Registered(p)
    PROVE  Inv'
  <1>1. Registering(p) /\ step[p] = 6
    BY OrderFacts DEF Registered, Registering, Inv, TypeOK
  <1>2. \A n \in 1..5 : registry[RegisterOrder[n]] = Value(RegisterOrder[n])
    BY <1>1 DEF Inv, Progress
  <1>3. \A e \in Entries : registry[e] = Value(e)
    BY <1>2, OrderFacts
  <1>4. Complete
    BY <1>3 DEF Complete, Inv, TypeOK
  <1>5. \A q \in Procs : q # p => pc[q] # "unregister"
    BY <1>1 DEF Inv, Alone, Registering
  <1> QED BY <1>1, <1>4, <1>5, DoneKeeps DEF Registered, Registering

LEMMA SetValueKeeps ==
    ASSUME Inv, NEW p \in Procs, set_value(p)
    PROVE  Inv'
  <1> DEFINE e == RegisterOrder[step[p]]
  <1>0. /\ Registering(p) /\ UNCHANGED <<home, pc>>
        /\ step' = [step EXCEPT ![p] = @ + 1]
        /\ registry' = [registry EXCEPT ![e] = Value(e)]
        /\ halfway' = (e # "RegisteredExe"
                         /\ (halfway \/ read_registered_exe \notin {None, home}))
    BY DEF set_value, Registering
  <1>1. step[p] \in 1..5 /\ e \in Entries
    <2>1. step[p] \in 1..5
      BY OrderFacts DEF set_value, Inv, TypeOK
    <2> QED BY <2>1, OrderFacts
  <1>2. \A x \in Entries : Value(x)' = Value(x) /\ Value(x) \in Exes \cup {None, TheClass}
    BY <1>0, <1>1 DEF Value, Inv, TypeOK
  <1>3. TypeOK'
    BY <1>0, <1>1, <1>2, OrderFacts DEF Inv, TypeOK
  <1>4. Progress'
    <2> SUFFICES ASSUME NEW q \in Procs, Registering(q), NEW n \in 1..5, n < step'[q]
                 PROVE  registry'[RegisterOrder[n]] = Value(RegisterOrder[n])'
      BY <1>0, <1>1 DEF Progress, Registering
    <2>1. RegisterOrder[n] \in Entries
      BY OrderFacts
    <2>2. CASE n < step[q]
      BY <1>0, <1>1, <1>2, <2>1, <2>2 DEF Inv, TypeOK, Progress
    <2>3. CASE q = p /\ n = step[p]
      BY <1>0, <1>1, <1>2, <2>1, <2>3 DEF Inv, TypeOK
    <2> QED BY <1>0, <1>1, <2>2, <2>3 DEF Inv, TypeOK
  <1>5. Alone' /\ Trees' /\ Fresh'
    BY <1>0, <1>1 DEF Inv, Alone, Trees, Fresh, Registering, TypeOK
  <1>6. CASE e = "RegisteredExe"
    <2>1. step[p] = 5
      BY <1>0, <1>1, <1>6, OrderFacts
    <2>2. \A x \in Entries : registry'[x] = Value(x)
      <3>1. \A n \in 1..4 : registry[RegisterOrder[n]] = Value(RegisterOrder[n])
        BY <1>0, <1>1, <2>1 DEF Inv, Progress
      <3> QED BY <1>0, <1>1, <1>6, <3>1, OrderFacts DEF Inv, TypeOK
    <2>3. MarkerVouches'
      BY <1>0, <1>1, <2>2, OrderFacts DEF MarkerVouches, read_registered_exe, Value
    <2>4. Complete'
      BY <1>0, <1>1, <1>2, <2>2 DEF Complete, Inv, TypeOK
    <2> QED BY <1>3, <1>4, <1>5, <2>3, <2>4 DEF Inv, RegistrationHeals
  <1>7. CASE e # "RegisteredExe"
    <2>1. read_registered_exe' = read_registered_exe
      BY <1>0, <1>1, <1>7, OrderFacts DEF read_registered_exe, Inv, TypeOK
    <2>2. MarkerVouches'
      <3> SUFFICES ASSUME read_registered_exe # None, ~halfway', NEW x \in Entries
                   PROVE  \/ registry'[x] = IF x = ".fvlt" THEN TheClass ELSE read_registered_exe
                          \/ x = "delete" /\ registry'["delete"] = None
        BY <2>1 DEF MarkerVouches, delete_verb_present
      <3>1. read_registered_exe = home /\ ~halfway
        BY <1>0, <1>1, <1>7
      <3>2. CASE x = e
        BY <1>0, <1>1, <3>1, <3>2 DEF Value, Inv, TypeOK
      <3>3. CASE x # e
        BY <1>0, <1>1, <3>1, <3>3 DEF Inv, TypeOK, MarkerVouches, delete_verb_present
      <3> QED BY <3>2, <3>3
    <2>3. RegistrationHeals'
      BY <1>0, <1>1, <1>2, <1>7 DEF Inv, TypeOK, RegistrationHeals, Complete
    <2> QED BY <1>3, <1>4, <1>5, <2>2, <2>3 DEF Inv
  <1> QED BY <1>6, <1>7

LEMMA UnregisterKeeps ==
    ASSUME Inv, NEW p \in Procs, unregister(p)
    PROVE  Inv'
  <1> DEFINE tree == UnregisterOrder[step[p]]
  <1>1. /\ pc[p] = "unregister" /\ step[p] \in 1..4 /\ UNCHANGED home
        /\ \A q \in Procs : q # p => pc[q] = "off"
    BY DEF unregister, Inv, Alone, Trees
  <1>2. /\ registry' \in [Entries -> Exes \cup {None, TheClass}]
        /\ halfway' \in BOOLEAN
        /\ ~halfway' => step[p] = 4 /\ registry'["RegisteredExe"] = None
    BY <1>1, OrderFacts DEF unregister, Inv, TypeOK
  <1>3. \/ /\ step[p] < 4 /\ step' = [step EXCEPT ![p] = @ + 1] /\ pc' = pc
        \/ step' = [step EXCEPT ![p] = 1] /\ pc' = [pc EXCEPT ![p] = "off"]
    BY <1>1, OrderFacts DEF unregister, Goto
  <1>4. \A q \in Procs : pc'[q] \in {"off", "unregister"} /\ (q # p => pc'[q] = "off")
    BY <1>1, <1>3 DEF Inv, TypeOK
  <1>5. TypeOK'
    BY <1>1, <1>2, <1>3, OrderFacts DEF Inv, TypeOK
  <1>6. Progress' /\ Alone' /\ RegistrationHeals'
    BY <1>4 DEF Progress, Registering, Alone, RegistrationHeals
  <1>7. Trees' /\ Fresh'
    BY <1>1, <1>3, SMTT(30) DEF Inv, TypeOK, Trees, Fresh
  <1>8. MarkerVouches'
    BY <1>2 DEF MarkerVouches, read_registered_exe
  <1> QED BY <1>5, <1>6, <1>7, <1>8 DEF Inv

LEMMA StepKeeps ==
    ASSUME Inv, NEW p \in Procs,
           \/ Start(p) \/ RegisterFails(p) \/ SetUp(p) \/ End(p) \/ Uninstall(p)
    PROVE  Inv'
  <1>1. CASE Start(p)
    <2>1. step' = [step EXCEPT ![p] = 1]
      BY <1>1 DEF Start, Inv, TypeOK, Fresh
    <2> QED BY <1>1, <2>1, MoveOnKeeps DEF Start
  <1>2. CASE RegisterFails(p)
    <2>1. \A q \in Procs : q # p => pc[q] # "unregister"
      BY <1>2 DEF RegisterFails, Inv, Alone
    <2> QED BY <1>2, <2>1, MoveOnKeeps DEF RegisterFails
  <1>3. CASE SetUp(p)
    <2>1. /\ step' = [step EXCEPT ![p] = 1]
          /\ \A q \in Procs : q # p => pc[q] # "unregister"
      BY <1>3 DEF SetUp, Inv, TypeOK, Fresh, Alone
    <2> QED BY <1>3, <2>1, MoveOnKeeps DEF SetUp
  <1>4. CASE End(p)
    BY <1>4, MoveOnKeeps DEF End
  <1>5. CASE Uninstall(p)
    <2>1. \A q \in Procs : pc[q] = "off" /\ step[q] = 1 /\ (q # p => pc'[q] = "off")
      BY <1>5 DEF Uninstall, Goto, Inv, TypeOK, Fresh
    <2>2. pc' = [pc EXCEPT ![p] = "unregister"] /\ UNCHANGED <<registry, home, step, halfway>>
      BY <1>5 DEF Uninstall, Goto
    <2>3. TypeOK' /\ MarkerVouches'
      BY <2>2 DEF Inv, TypeOK, MarkerVouches, read_registered_exe, delete_verb_present
    <2>4. Progress' /\ Alone' /\ RegistrationHeals'
      BY <2>1, <2>2 DEF Inv, TypeOK, Progress, Registering, Alone, RegistrationHeals
    <2>5. Trees' /\ Fresh'
      BY <2>1, <2>2 DEF Inv, TypeOK, Trees, Fresh
    <2> QED BY <2>3, <2>4, <2>5 DEF Inv
  <1> QED BY <1>1, <1>2, <1>3, <1>4, <1>5

LEMMA MoveKeeps ==
    ASSUME Inv, Move
    PROVE  Inv'
  <1>1. /\ \A p \in Procs : pc[p] = "off"
        /\ home' \in Exes /\ UNCHANGED <<registry, pc, step, halfway>>
    BY DEF Move
  <1>2. TypeOK' /\ Alone' /\ Trees' /\ Fresh'
    BY <1>1 DEF Inv, TypeOK, Alone, Trees, Fresh
  <1>3. Progress' /\ RegistrationHeals'
    BY <1>1 DEF Progress, Registering, RegistrationHeals
  <1>4. MarkerVouches'
    BY <1>1 DEF Inv, MarkerVouches, read_registered_exe, delete_verb_present
  <1> QED BY <1>2, <1>3, <1>4 DEF Inv

LEMMA InitKeeps == Init => Inv
  <1> SUFFICES ASSUME Init PROVE Inv
    OBVIOUS
  <1>1. TypeOK
    <2>1. registry \in [Entries -> Exes \cup {None, TheClass}]
      BY DEF Init, Value
    <2>2. step \in [Procs -> 1 .. Len(RegisterOrder) + 1]
      BY OrderFacts DEF Init
    <2>3. home \in Exes /\ halfway \in BOOLEAN
      BY DEF Init
    <2>4. pc \in [Procs -> {"off", "launch", "register", "setup", "done", "failed", "unregister"}]
      BY DEF Init
    <2> QED BY <2>1, <2>2, <2>3, <2>4 DEF TypeOK
  <1>2. Progress /\ Alone /\ Trees /\ Fresh /\ RegistrationHeals
    BY DEF Init, Progress, Registering, Alone, Trees, Fresh, RegistrationHeals
  <1>3. MarkerVouches
    BY OrderFacts, NoneAssumption
    DEF Init, MarkerVouches, read_registered_exe, delete_verb_present, Value
  <1> QED BY <1>1, <1>2, <1>3 DEF Inv

(* The invariant behind the two theorems: what register has set stays set, *)
(* the uninstaller runs alone, and the marker vouches for the rest.        *)
THEOREM RegistrationInvariant == Spec => []Inv
  <1>1. Inv /\ [Next]_vars => Inv'
    <2> SUFFICES ASSUME Inv, [Next]_vars PROVE Inv'
      OBVIOUS
    <2>1. CASE UNCHANGED vars
      BY <2>1
      DEF vars, Inv, TypeOK, Progress, Registering, Alone, Trees, Fresh, MarkerVouches,
          RegistrationHeals, Complete, Value, read_registered_exe, delete_verb_present
    <2>2. CASE Next
      BY <2>2, MoveKeeps, StepKeeps, LaunchKeeps, SetValueKeeps, RegisteredKeeps, UnregisterKeeps
      DEF Next
    <2> QED BY <2>1, <2>2
  <1> QED BY <1>1, InitKeeps, PTL DEF Spec

(* register_if_needed and run_setup: for any number of launches beside     *)
(* each other and any number of places, a launch that is past them without *)
(* a failure has every Explorer entry in place.                            *)
THEOREM LaunchHeals == Spec => []RegistrationHeals
  <1>1. Inv => RegistrationHeals
    BY DEF Inv
  <1> QED BY <1>1, RegistrationInvariant, PTL

(* register sets RegisteredExe last: it vouches for the other entries.     *)
THEOREM MarkerIsTruthful == Spec => []MarkerVouches
  <1>1. Inv => MarkerVouches
    BY DEF Inv
  <1> QED BY <1>1, RegistrationInvariant, PTL

(* Registry values, places and steps keep their types.                     *)
THEOREM RegistrationTypes == Spec => []TypeOK
  <1>1. Inv => TypeOK
    BY DEF Inv
  <1> QED BY <1>1, RegistrationInvariant, PTL

=============================================================================
