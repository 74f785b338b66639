--------------------------- MODULE Secrets_proofs ----------------------------
(***************************************************************************)
(* What is proved of Secrets, for any number of processes, install keys    *)
(* and master keys: types, that an enrolled master key is one whose code   *)
(* was handed over, and that an install has one key.                       *)
(***************************************************************************)
EXTENDS Secrets, TLAPS

-----------------------------------------------------------------------------
(* The invariants *)

Handed == known \cup unprinted

(* What a process is about to save, or to seal a container to, has been    *)
(* handed over; master-init hands over only after it has saved.            *)
AboutToEnrol(p) ==
    /\ pc[p] \in {"off", "key", "create", "fill", "ready"} => mk[p] = NoKey
    /\ pc[p] = "master-init" => cmd[p] \in CliCommands
    /\ pc[p] \in {"save", "saving"} /\ cmd[p] \notin CliCommands => mk[p] \in known
    /\ pc[p] = "operate" => mk[p] \in Handed \cup {NoKey}

CodeInv == CodeIsKnown /\ \A p \in Procs : AboutToEnrol(p)

Making(p) == pc[p] \in {"create", "fill"}
HasKey(p) == pc[p] \notin {"off", "key", "create", "fill"}

(* Unless two made one at once, whoever makes an install key makes it      *)
(* alone and finds none, and whoever has one has the one on disk.          *)
KeyInv ==
    ~raced =>
        /\ signed \subseteq {read_protected(install)}
        /\ \A p \in Procs :
             /\ Making(p) => read_protected(install) = NoKey
             /\ HasKey(p) => hk[p] = read_protected(install)
        /\ \A p, q \in Procs : Making(p) /\ Making(q) => p = q

-----------------------------------------------------------------------------
(* The forms of a key file *)

LEMMA FormFacts ==
    ASSUME NEW K
    PROVE  /\ \A f \in Forms(K) : read_protected(f) \in K \cup {NoKey}
           /\ \A k \in K : Raw(k) \in Forms(K) /\ Protected(k) \in Forms(K)
           /\ Remnants \subseteq Forms(K) /\ Short \in Forms(K) /\ Absent \in Forms(K)
  <1>1. ASSUME NEW f \in Forms(K) PROVE read_protected(f) \in K \cup {NoKey}
    BY DEF Forms, read_protected, Raw, Protected, Short, Torn, Absent
  <1>2. \A k \in K : Raw(k) \in Forms(K) /\ Protected(k) \in Forms(K)
    BY DEF Forms
  <1>3. Remnants \subseteq Forms(K) /\ Short \in Forms(K) /\ Absent \in Forms(K)
    BY DEF Forms, Remnants
  <1> QED BY <1>1, <1>2, <1>3

LEMMA ReadFacts ==
    /\ \A f \in Remnants \cup {Absent, Short} : read_protected(f) = NoKey
    /\ \A k : read_protected(Protected(k)) = k /\ read_protected(Raw(k)) = k
  BY DEF read_protected, Remnants, Raw, Protected, Short, Torn, Absent

-----------------------------------------------------------------------------
(* Types *)

(* the part of TypeOK about one process *)
ProcOK(p) ==
    /\ hk[p] \in InstallKeys \cup {NoKey} /\ mk[p] \in MasterKeys \cup {NoKey}
    /\ pc[p] \notin {"off", "key"} => hk[p] # NoKey
    /\ pc[p] \in {"code", "save", "saving", "print"} => mk[p] # NoKey

(* the type of the per-process variables, which Goto and EXCEPT rely on *)
Locals ==
    /\ pc \in [Procs -> Steps] /\ cmd \in [Procs -> Commands]
    /\ hk \in [Procs -> InstallKeys \cup {NoKey}]
    /\ mk \in [Procs -> MasterKeys \cup {NoKey}]
    /\ \A p \in Procs : ProcOK(p)

Shared ==
    /\ install \in Forms(InstallKeys) /\ master \in Forms(MasterKeys)
    /\ drawn \subseteq InstallKeys \cup MasterKeys
    /\ signed \subseteq InstallKeys
    /\ sealed \subseteq MasterKeys /\ known \subseteq MasterKeys /\ unprinted \subseteq MasterKeys
    /\ raced \in BOOLEAN

TypeInv == Locals /\ Shared

LEMMA TypeInit == Init => TypeInv
  <1> SUFFICES ASSUME Init PROVE TypeInv
    OBVIOUS
  <1>1. Locals
    BY DEF Init, Locals, ProcOK, Steps, Commands, AppCommands
  <1>2. Shared
    BY FormFacts DEF Init, Shared
  <1> QED BY <1>1, <1>2 DEF TypeInv

LEMMA EndTypes ==
    ASSUME TypeInv, NEW p \in Procs, End(p)
    PROVE  Locals'
  BY DEF TypeInv, Locals, ProcOK, End, Steps, Commands, AppCommands

LEMMA GotoTypes ==
    ASSUME TypeInv, NEW p \in Procs, NEW l \in Steps \ {"code", "save", "saving", "print"},
           Goto(p, l), hk[p] # NoKey, UNCHANGED <<hk, mk>>
    PROVE  Locals'
  BY DEF TypeInv, Locals, ProcOK, Goto

LEMMA SetUpTypes ==
    ASSUME TypeInv, NEW p \in Procs, NEW m \in MasterKeys \cup {NoKey}, SetUp(p, m),
           hk[p] # NoKey
    PROVE  Locals'
  <1>1. CASE cmd[p] = "lock"
    BY <1>1 DEF TypeInv, Locals, ProcOK, SetUp, Goto, Steps
  <1>2. CASE cmd[p] # "lock"
    BY <1>2, EndTypes DEF SetUp
  <1> QED BY <1>1, <1>2

LEMMA InstallKeyTypes ==
    ASSUME TypeInv, NEW p \in Procs, InstallKey(p)
    PROVE  TypeInv'
  <1> USE DEF TypeInv
  <1>1. CASE KeyFound(p)
    BY <1>1, FormFacts DEF KeyFound, Goto, Locals, ProcOK, Shared, Steps, files, uses, codes
  <1>2. CASE KeyMissing(p)
    <2>1. PICK k \in InstallKeys \ drawn :
            hk' = [hk EXCEPT ![p] = k] /\ drawn' = drawn \cup {k}
      BY <1>2 DEF KeyMissing
    <2>2. Locals'
      BY <1>2, <2>1, NoKeyAssumption DEF KeyMissing, Goto, Locals, ProcOK, Steps
    <2>3. raced' \in BOOLEAN
      BY <1>2 DEF KeyMissing
    <2> QED BY <1>2, <2>1, <2>2, <2>3 DEF KeyMissing, Shared, files, uses, codes
  <1>3. CASE KeyFails(p)
    BY <1>3, EndTypes DEF KeyFails, Shared, files, uses, codes
  <1>4. CASE KeyCreate(p)
    BY <1>4, FormFacts DEF KeyCreate, Goto, Locals, ProcOK, Shared, Steps, uses, codes
  <1>5. CASE KeyFill(p)
    <2>1. hk[p] \in InstallKeys
      BY <1>5 DEF KeyFill, Locals, ProcOK
    <2>2. Locals'
      BY <1>5, EndTypes DEF KeyFill, Goto, Locals, ProcOK, Steps
    <2> QED BY <1>5, <2>1, <2>2, FormFacts DEF KeyFill, Shared, uses, codes
  <1> QED BY <1>1, <1>2, <1>3, <1>4, <1>5 DEF InstallKey

LEMMA GenerateTypes ==
    ASSUME TypeInv, NEW p \in Procs, NEW l \in {"code", "save"}, hk[p] # NoKey, generate(p, l)
    PROVE  TypeInv'
  <1>1. PICK m \in MasterKeys \ drawn :
          mk' = [mk EXCEPT ![p] = m] /\ drawn' = drawn \cup {m}
    BY DEF generate
  <1>2. Locals'
    BY <1>1, NoKeyAssumption DEF TypeInv, generate, Goto, Locals, ProcOK, Steps
  <1> QED BY <1>1, <1>2 DEF TypeInv, generate, Shared, files, uses, codes

LEMMA EnrolTypes ==
    ASSUME TypeInv, NEW p \in Procs, Enrol(p)
    PROVE  TypeInv'
  <1> USE DEF TypeInv
  <1>0. hk[p] # NoKey /\ load_master_pub \in MasterKeys \cup {NoKey}
    BY FormFacts DEF Enrol, Locals, ProcOK, Shared, load_master_pub, FindMaster,
       AlreadyEnrolled, ShowCode, Confirm, Dismiss, MasterInitRefused, MasterInit,
       SaveCreate, SaveFill, SaveFails, PrintCode
  <1>1. CASE FindMaster(p)
    BY <1>0, <1>1 DEF FindMaster, Goto, Locals, ProcOK, Shared, Steps, files, uses, codes
  <1>2. CASE AlreadyEnrolled(p)
    BY <1>0, <1>2, SetUpTypes DEF AlreadyEnrolled, Shared, files, uses, codes
  <1>3. CASE ShowCode(p)
    BY <1>0, <1>3, GenerateTypes DEF ShowCode
  <1>4. CASE Confirm(p)
    BY <1>4 DEF Confirm, Goto, Locals, ProcOK, Shared, Steps, files, uses
  <1>5. CASE Dismiss(p)
    BY <1>0, <1>5, SetUpTypes DEF Dismiss, Shared, files, uses, codes
  <1>6. CASE MasterInitRefused(p)
    BY <1>6, EndTypes DEF MasterInitRefused, Shared, files, uses, codes
  <1>7. CASE MasterInit(p)
    BY <1>0, <1>7, GenerateTypes DEF MasterInit
  <1>8. CASE SaveCreate(p)
    BY <1>8, FormFacts DEF SaveCreate, Goto, Locals, ProcOK, Shared, Steps, uses, codes
  <1>9. CASE SaveFill(p)
    <2>1. mk[p] \in MasterKeys
      BY <1>9 DEF SaveFill, Locals, ProcOK
    <2>2. Locals'
      BY <1>0, <1>9, <2>1, SetUpTypes DEF SaveFill, Goto, Locals, ProcOK, Steps
    <2> QED BY <1>9, <2>1, <2>2, FormFacts DEF SaveFill, Shared, uses
  <1>10. CASE SaveFails(p)
    <2>1. Locals'
      BY <1>0, <1>10, EndTypes, SetUpTypes DEF SaveFails
    <2> QED BY <1>10, <2>1, FormFacts DEF SaveFails, Shared, uses, codes
  <1>11. CASE PrintCode(p)
    BY <1>11, EndTypes DEF PrintCode, Locals, ProcOK, Shared, files, uses
  <1> QED BY <1>1, <1>2, <1>3, <1>4, <1>5, <1>6, <1>7, <1>8, <1>9, <1>10, <1>11 DEF Enrol

LEMMA TypeNext ==
    ASSUME TypeInv, [Next]_vars
    PROVE  TypeInv'
  <1> USE DEF TypeInv
  <1>1. ASSUME NEW p \in Procs, Start(p) PROVE TypeInv'
    BY <1>1 DEF Start, Locals, ProcOK, Shared, Steps, files, uses, codes
  <1>2. ASSUME NEW p \in Procs, Dispatch(p) PROVE TypeInv'
    <2>1. \E l \in {"master", "operate", "setup", "master-init"} : Goto(p, l)
      BY <1>2 DEF Dispatch
    <2>2. Locals'
      BY <1>2, <2>1, GotoTypes DEF Dispatch, Locals, ProcOK, Steps
    <2> QED BY <1>2, <2>2 DEF Dispatch, Shared, files, uses, codes
  <1>3. ASSUME NEW p \in Procs, Operate(p) PROVE TypeInv'
    <2>1. hk[p] \in InstallKeys /\ mk[p] \in MasterKeys \cup {NoKey}
      BY <1>3 DEF Operate, Locals, ProcOK
    <2> QED BY <1>3, <2>1, EndTypes DEF Operate, Shared, files, codes
  <1>4. ASSUME NEW p \in Procs, Crash(p) PROVE TypeInv'
    BY <1>4, EndTypes DEF Crash, Shared, files, uses, codes
  <1>5. CASE UNCHANGED vars
    BY <1>5 DEF vars, files, local, uses, codes, Locals, ProcOK, Shared
  <1> QED
    BY <1>1, <1>2, <1>3, <1>4, <1>5, InstallKeyTypes, EnrolTypes DEF Next

(* Key files are absent, cut short or whole; a process past the first step *)
(* has an install key, and one that shows or saves a code has its master   *)
(* key, however many processes run load_or_create_install_key, run_setup   *)
(* and master-init at once and wherever they die.                          *)
THEOREM SecretsTypes == Spec => []TypeOK
  <1>1. TypeInv => TypeOK
    BY DEF TypeInv, Locals, ProcOK, Shared, TypeOK
  <1> QED BY <1>1, TypeInit, TypeNext, PTL DEF Spec

-----------------------------------------------------------------------------
(* A code is handed over before its key is used *)

LEMMA CodeInit == Init => CodeInv
  BY ReadFacts DEF Init, CodeInv, CodeIsKnown, AboutToEnrol, load_master_pub, Handed

(* The process ends or goes on with key m; nothing else it depends on changes. *)
LEMMA LeaveCode ==
    ASSUME TypeInv, CodeInv, NEW p \in Procs, Handed \subseteq Handed', known \subseteq known',
           NEW m \in Handed' \cup {NoKey}, End(p) \/ SetUp(p, m)
    PROVE  \A q \in Procs : AboutToEnrol(q)'
  <1> SUFFICES ASSUME NEW q \in Procs PROVE AboutToEnrol(q)'
    OBVIOUS
  <1> USE DEF TypeInv, Locals, CodeInv, AboutToEnrol
  <1>1. CASE q # p
    BY <1>1 DEF End, SetUp, Goto
  <1>2. CASE q = p /\ End(p)
    BY <1>2 DEF End
  <1>3. CASE q = p /\ SetUp(p, m)
    BY <1>3 DEF End, SetUp, Goto
  <1> QED BY <1>1, <1>2, <1>3

(* A step that leaves the master key, the codes and all it says of them alone. *)
LEMMA SameCode ==
    ASSUME CodeInv, UNCHANGED <<master, sealed, known, unprinted>>,
           \A q \in Procs : AboutToEnrol(q)'
    PROVE  CodeInv'
  BY DEF CodeInv, CodeIsKnown, load_master_pub

LEMMA CodeNext ==
    ASSUME TypeInv, CodeInv, [Next]_vars
    PROVE  CodeInv'
  <1> USE DEF files, local, uses, codes, Handed
  <1>1. ASSUME NEW p \in Procs, Start(p) PROVE CodeInv'
    <2>1. \A q \in Procs : AboutToEnrol(q)'
      BY <1>1 DEF Start, TypeInv, Locals, CodeInv, AboutToEnrol
    <2> QED BY <1>1, <2>1, SameCode DEF Start
  <1>2. ASSUME NEW p \in Procs, InstallKey(p) PROVE CodeInv'
    <2>1. UNCHANGED <<master, sealed, known, unprinted>>
      BY <1>2 DEF InstallKey, KeyFound, KeyMissing, KeyFails, KeyCreate, KeyFill
    <2>2. CASE End(p)
      BY <2>1, <2>2, LeaveCode, SameCode
    <2>3. CASE /\ UNCHANGED <<cmd, mk>> /\ pc[p] \in {"key", "create", "fill"}
               /\ \E l \in {"ready", "create", "fill"} : Goto(p, l)
      <3>1. \A q \in Procs : AboutToEnrol(q)'
        BY <2>1, <2>3 DEF Goto, TypeInv, Locals, CodeInv, AboutToEnrol
      <3> QED BY <2>1, <3>1, SameCode
    <2> QED
      BY <1>2, <2>2, <2>3 DEF InstallKey, KeyFound, KeyMissing, KeyFails, KeyCreate, KeyFill, Goto
  <1>3. ASSUME NEW p \in Procs, Dispatch(p) PROVE CodeInv'
    <2>1. \A q \in Procs : AboutToEnrol(q)'
      BY <1>3 DEF Dispatch, Goto, TypeInv, Locals, CodeInv, AboutToEnrol, Commands, AppCommands, CliCommands
    <2> QED BY <1>3, <2>1, SameCode DEF Dispatch
  <1>4. ASSUME NEW p \in Procs, FindMaster(p) PROVE CodeInv'
    <2>1. \A q \in Procs : AboutToEnrol(q)'
      BY <1>4 DEF FindMaster, Goto, TypeInv, Locals, CodeInv, CodeIsKnown, AboutToEnrol
    <2> QED BY <1>4, <2>1, SameCode DEF FindMaster
  <1>5. ASSUME NEW p \in Procs, AlreadyEnrolled(p) \/ Dismiss(p) \/ MasterInitRefused(p) \/ Crash(p)
        PROVE  CodeInv'
    <2>1. UNCHANGED <<master, sealed, known, unprinted>>
      BY <1>5 DEF AlreadyEnrolled, Dismiss, MasterInitRefused, Crash
    <2>2. load_master_pub \in Handed' \cup {NoKey}
      BY <2>1 DEF CodeInv, CodeIsKnown
    <2> QED BY <1>5, <2>1, <2>2, LeaveCode, SameCode
            DEF AlreadyEnrolled, Dismiss, MasterInitRefused, Crash
  <1>6. ASSUME NEW p \in Procs, ShowCode(p) \/ MasterInit(p) PROVE CodeInv'
    <2>1. \A q \in Procs : AboutToEnrol(q)'
      BY <1>6 DEF ShowCode, MasterInit, generate, Goto, TypeInv, Locals, CodeInv, AboutToEnrol
    <2> QED BY <1>6, <2>1, SameCode DEF ShowCode, MasterInit, generate
  <1>7. ASSUME NEW p \in Procs, Confirm(p) PROVE CodeInv'
    <2>1. \A q \in Procs : AboutToEnrol(q)'
      BY <1>7 DEF Confirm, Goto, TypeInv, Locals, CodeInv, AboutToEnrol
    <2> QED BY <1>7, <2>1 DEF Confirm, CodeInv, CodeIsKnown, load_master_pub
  <1>8. ASSUME NEW p \in Procs, SaveCreate(p) PROVE CodeInv'
    <2>1. \A q \in Procs : AboutToEnrol(q)'
      BY <1>8 DEF SaveCreate, Goto, TypeInv, Locals, CodeInv, AboutToEnrol
    <2>2. load_master_pub' = NoKey
      BY <1>8, ReadFacts DEF SaveCreate, load_master_pub
    <2> QED BY <1>8, <2>1, <2>2 DEF SaveCreate, CodeInv, CodeIsKnown
  <1>9. ASSUME NEW p \in Procs, SaveFill(p) PROVE CodeInv'
    <2>1. load_master_pub' = mk[p]
      BY <1>9, ReadFacts DEF SaveFill, load_master_pub
    <2>2. CASE cmd[p] \in CliCommands
      <3>1. \A q \in Procs : AboutToEnrol(q)'
        BY <1>9, <2>2 DEF SaveFill, Goto, TypeInv, Locals, CodeInv, AboutToEnrol
      <3> QED BY <1>9, <2>1, <2>2, <3>1 DEF SaveFill, CodeInv, CodeIsKnown
    <2>3. CASE cmd[p] \notin CliCommands
      <3>1. mk[p] \in known /\ UNCHANGED <<known, unprinted, sealed>> /\ SetUp(p, mk[p])
        BY <1>9, <2>3 DEF SaveFill, CodeInv, AboutToEnrol
      <3>2. \A q \in Procs : AboutToEnrol(q)'
        BY <3>1, LeaveCode
      <3> QED BY <2>1, <3>1, <3>2 DEF CodeInv, CodeIsKnown
    <2> QED BY <2>2, <2>3
  <1>10. ASSUME NEW p \in Procs, SaveFails(p) PROVE CodeInv'
    <2>1. load_master_pub' \in {NoKey, load_master_pub}
      BY <1>10, ReadFacts DEF SaveFails, load_master_pub
    <2>2. \A q \in Procs : AboutToEnrol(q)'
      BY <1>10, LeaveCode DEF SaveFails
    <2> QED BY <1>10, <2>1, <2>2 DEF SaveFails, CodeInv, CodeIsKnown
  <1>11. ASSUME NEW p \in Procs, PrintCode(p) PROVE CodeInv'
    <2>1. Handed' = Handed \cup {mk[p]} /\ known \subseteq known'
      BY <1>11 DEF PrintCode
    <2>2. \A q \in Procs : AboutToEnrol(q)'
      BY <1>11, <2>1, LeaveCode DEF PrintCode
    <2> QED BY <1>11, <2>1, <2>2 DEF PrintCode, CodeInv, CodeIsKnown, load_master_pub
  <1>12. ASSUME NEW p \in Procs, Operate(p) PROVE CodeInv'
    <2>1. mk[p] \in Handed \cup {NoKey}
      BY <1>12 DEF Operate, CodeInv, AboutToEnrol
    <2>2. \A q \in Procs : AboutToEnrol(q)'
      BY <1>12, LeaveCode DEF Operate
    <2> QED BY <1>12, <2>1, <2>2 DEF Operate, CodeInv, CodeIsKnown, load_master_pub
  <1>13. CASE UNCHANGED vars
    BY <1>13 DEF vars, CodeInv, CodeIsKnown, AboutToEnrol, load_master_pub
  <1> QED
    BY <1>1, <1>2, <1>3, <1>4, <1>5, <1>6, <1>7, <1>8, <1>9, <1>10, <1>11, <1>12, <1>13
    DEF Next, Enrol

(* However many setups and master-inits run beside each other and wherever *)
(* they die, a master key that is enrolled or that a container is sealed   *)
(* to is one whose recovery code the user has confirmed or been shown, or  *)
(* one master-init has saved and not printed (run_setup, master_init).     *)
THEOREM CodeIsHandedOver == Spec => []CodeIsKnown
  <1>1. TypeInv /\ CodeInv /\ [Next]_vars => (TypeInv /\ CodeInv)'
    BY TypeNext, CodeNext
  <1>2. CodeInv => CodeIsKnown
    BY DEF CodeInv
  <1> QED BY <1>1, <1>2, TypeInit, CodeInit, PTL DEF Spec

-----------------------------------------------------------------------------
(* One install key *)

LEMMA KeyInit == Init => KeyInv
  BY ReadFacts DEF Init, KeyInv, Making, HasKey

LEMMA KeyNext ==
    ASSUME TypeInv, KeyInv, [Next]_vars
    PROVE  KeyInv'
  <1> SUFFICES ASSUME ~raced' PROVE KeyInv'
    BY DEF KeyInv
  <1> USE DEF files, local, uses, codes, Making, HasKey
  <1>0. ~raced
    BY DEF Next, vars, Start, InstallKey, KeyFound, KeyMissing, KeyFails, KeyCreate, KeyFill,
       Dispatch, Enrol, FindMaster, AlreadyEnrolled, ShowCode, generate, Confirm, Dismiss,
       MasterInitRefused, MasterInit, SaveCreate, SaveFill, SaveFails, PrintCode, Operate, Crash
  <1>1. /\ signed \subseteq {read_protected(install)} /\ signed \subseteq InstallKeys
        /\ \A p \in Procs : /\ Making(p) => read_protected(install) = NoKey
                            /\ HasKey(p) => hk[p] = read_protected(install) /\ hk[p] # NoKey
        /\ \A p, q \in Procs : Making(p) /\ Making(q) => p = q
    BY <1>0 DEF KeyInv, TypeInv, Locals, ProcOK, Shared
  <1>2. NoKey \notin signed /\ pc \in [Procs -> Steps] /\ hk \in [Procs -> InstallKeys \cup {NoKey}]
    BY <1>1, NoKeyAssumption DEF TypeInv, Locals
  (* steps that leave install.key and the headers alone *)
  <1>3. ASSUME NEW p \in Procs, End(p), UNCHANGED <<install, signed>> PROVE KeyInv'
    BY <1>1, <1>2, <1>3 DEF End, KeyInv
  <1>4. ASSUME NEW p \in Procs, HasKey(p), HasKey(p)', UNCHANGED <<install, signed, hk>>,
               \A q \in Procs \ {p} : pc'[q] = pc[q]
        PROVE  KeyInv'
    BY <1>1, <1>2, <1>4 DEF KeyInv
  <1>5. ASSUME NEW p \in Procs, Start(p) PROVE KeyInv'
    BY <1>1, <1>2, <1>5 DEF Start, KeyInv
  <1>6. ASSUME NEW p \in Procs, KeyFound(p) PROVE KeyInv'
    BY <1>1, <1>2, <1>6 DEF KeyFound, Goto, KeyInv
  <1>7. ASSUME NEW p \in Procs, KeyMissing(p) PROVE KeyInv'
    <2>1. \A q \in Procs : ~Making(q)
      BY <1>7 DEF KeyMissing
    <2>2. \A q \in Procs \ {p} : hk'[q] = hk[q] /\ pc'[q] = pc[q]
      BY <1>2, <1>7 DEF KeyMissing, Goto
    <2>3. pc'[p] = "create" /\ read_protected(install) = NoKey /\ UNCHANGED <<install, signed>>
      BY <1>2, <1>7 DEF KeyMissing, Goto
    <2> QED BY <1>1, <2>1, <2>2, <2>3 DEF KeyInv
  <1>8. ASSUME NEW p \in Procs, KeyFails(p) \/ MasterInitRefused(p) \/ PrintCode(p) \/ Crash(p)
        PROVE  KeyInv'
    BY <1>3, <1>8 DEF KeyFails, MasterInitRefused, PrintCode, Crash
  <1>9. ASSUME NEW p \in Procs, KeyCreate(p) PROVE KeyInv'
    <2>1. read_protected(install') = NoKey /\ read_protected(install) = NoKey
      BY <1>1, <1>9, ReadFacts DEF KeyCreate
    <2> QED BY <1>1, <1>2, <1>9, <2>1 DEF KeyCreate, Goto, KeyInv
  <1>10. ASSUME NEW p \in Procs, KeyFill(p) PROVE KeyInv'
    <2>1. read_protected(install) = NoKey /\ signed = {}
          /\ \A q \in Procs : ~HasKey(q) /\ (q # p => ~Making(q))
      BY <1>1, <1>2, <1>10 DEF KeyFill
    <2>2. CASE install' = Protected(hk[p]) /\ Goto(p, "ready") /\ UNCHANGED <<hk, mk>>
      <3>1. read_protected(install') = hk[p]
        BY <2>2, ReadFacts
      <3> QED BY <1>2, <1>10, <2>1, <2>2, <3>1 DEF KeyFill, Goto, KeyInv
    <2>3. CASE install' \in Remnants /\ End(p)
      <3>1. read_protected(install') = NoKey
        BY <2>3, ReadFacts
      <3> QED BY <1>2, <1>10, <2>1, <2>3, <3>1 DEF KeyFill, End, KeyInv
    <2> QED BY <1>10, <2>2, <2>3 DEF KeyFill
  <1>11. ASSUME NEW p \in Procs,
                Dispatch(p) \/ FindMaster(p) \/ ShowCode(p) \/ Confirm(p) \/ MasterInit(p)
                  \/ SaveCreate(p)
         PROVE  KeyInv'
    <2>1. HasKey(p) /\ UNCHANGED <<install, signed, hk>>
      BY <1>11 DEF Dispatch, FindMaster, ShowCode, Confirm, MasterInit, SaveCreate, generate
    <2>2. \E l \in Steps \ {"off", "key", "create", "fill"} : Goto(p, l)
      BY <1>11 DEF Dispatch, FindMaster, ShowCode, Confirm, MasterInit, SaveCreate, generate, Steps
    <2> QED BY <1>2, <1>4, <2>1, <2>2 DEF Goto
  <1>12. ASSUME NEW p \in Procs, HasKey(p), UNCHANGED <<install, signed>>,
                NEW m, SetUp(p, m)
         PROVE  KeyInv'
    BY <1>2, <1>3, <1>4, <1>12 DEF SetUp, Goto
  <1>13. ASSUME NEW p \in Procs, AlreadyEnrolled(p) \/ Dismiss(p) PROVE KeyInv'
    BY <1>12, <1>13 DEF AlreadyEnrolled, Dismiss
  <1>14. ASSUME NEW p \in Procs, SaveFill(p) \/ SaveFails(p) PROVE KeyInv'
    BY <1>2, <1>3, <1>4, <1>12, <1>14 DEF SaveFill, SaveFails, Goto
  <1>15. ASSUME NEW p \in Procs, Operate(p) PROVE KeyInv'
    <2>1. hk[p] = read_protected(install) /\ UNCHANGED install /\ signed' = signed \cup {hk[p]}
      BY <1>1, <1>15 DEF Operate
    <2> QED BY <1>1, <1>2, <1>15, <2>1 DEF Operate, End, KeyInv
  <1>16. CASE UNCHANGED vars
    BY <1>16 DEF vars, KeyInv
  <1> QED
    BY <1>5, <1>6, <1>7, <1>8, <1>9, <1>10, <1>11, <1>13, <1>14, <1>15, <1>16
    DEF Next, InstallKey, Enrol

(* However many processes start, die and find the key file in whatever     *)
(* state, every header this install has signed verifies under the key on   *)
(* disk, unless two processes were making install.key at the same time     *)
(* (load_or_create_install_key).                                           *)
THEOREM InstallKeyIsOne == Spec => []OneInstallKey
  <1>1. TypeInv /\ KeyInv /\ [Next]_vars => (TypeInv /\ KeyInv)'
    BY TypeNext, KeyNext
  <1>2. KeyInv => OneInstallKey
    BY DEF KeyInv, OneInstallKey
  <1> QED BY <1>1, <1>2, TypeInit, KeyInit, PTL DEF Spec

=============================================================================
