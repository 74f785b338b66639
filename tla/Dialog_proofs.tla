---------------------------- MODULE Dialog_proofs ----------------------------
(***************************************************************************)
(* Proofs about Dialog for every clock bound, lockout period, number of    *)
(* attempts, set of headers, torn ones included, and set of modes.         *)
(***************************************************************************)
EXTENDS Dialog, TLAPS

(* Where the one operation of the dialog is: in its thread, then in the    *)
(* last message of the queue, then nowhere.                                *)
QueueInv ==
    /\ Len(workers) <= 1
    /\ \A i \in DOMAIN msgs : msgs[i] = "done" => i = Len(msgs) /\ workers = << >>
    /\ phase # "busy" => workers = << >> /\ msgs = << >>
    /\ window # "open" => workers = << >> /\ msgs = << >>
    /\ window = "none" => phase = "input"

(* The field is disabled by the countdown only and hidden while busy only. *)
FieldInv == (phase # "lockedOut" => edit) /\ (phase # "busy" => shown)

SlotInv == slot.kind = "wrong" => slot.n <= MaxAttempts

DialogInv == QueueInv /\ FieldInv /\ SlotInv

LEMMA ConstantTypes ==
    /\ MaxAttempts \in Nat \ {0}
    /\ LockoutSecs \in Nat \ {0}
    /\ MaxTime \in Nat
    /\ MaxProgress \in Nat
    /\ CountRange \in Nat /\ CountRange > MaxAttempts
  BY AttemptsAssumption, SecsAssumption, TimeAssumption, ProgressAssumption,
     CountAssumption

LEMMA PromiseTypes ==
    /\ NoPromise \in Promises
    /\ \A n \in 0 .. MaxAttempts : n \in Promises
    /\ \A n \in Nat : AttemptsLeft(n) \in Promises
  BY ConstantTypes DEF NoPromise, Promises, AttemptsLeft

(* record_failure on a clamped header *)
LEMMA FailureTypes ==
    ASSUME TypeOK
    PROVE  RecordFailure(Clamped, now) \in Lockouts
  <1>1. header.lock \in Lockouts /\ now \in Nat
    BY DEF TypeOK, Headers
  <1> QED
    BY <1>1, ConstantTypes DEF Clamped, Clamp, RecordFailure, Lockouts, Clear

LEMMA RewrittenTypes ==
    ASSUME TypeOK, NEW s \in Lockouts
    PROVE  Rewritten(s) \in Headers /\ Rewritten(s).lock = s
  BY DEF TypeOK, Headers, Rewritten

LEMMA ClearTypes == Clear \in Lockouts /\ Clear.fail = 0
  BY DEF Clear, Lockouts

(* What a job returns and leaves in the header. *)
LEMMA VerdictTypes ==
    ASSUME TypeOK, NEW i \in Inputs
    PROVE  /\ Verdict(i).result \in Results
           /\ Verdict(i).header \in Headers
           /\ Verdict(i).result.kind = "wrong" => Verdict(i).result.n <= MaxAttempts
  <1>1. header \in Headers /\ now \in Nat
    BY DEF TypeOK
  <1>2. Clamped \in Lockouts
    BY <1>1, ConstantTypes DEF Clamped, Clamp, Headers, Lockouts
  <1>3. Rewritten(Clear) \in Headers /\ Rewritten(Clear).lock = Clear
    BY ClearTypes, RewrittenTypes
  <1>4. CASE mode = "lock"
    BY <1>4, <1>1 DEF Verdict, Result, Results
  <1>5. CASE mode # "lock" /\ i \in Codes
    BY <1>5, <1>1, <1>3, ClearTypes, ConstantTypes DEF Verdict, Result, Results
  <1>6. CASE mode # "lock" /\ i \notin Codes /\ IsLockedOut(Clamped, now)
    BY <1>6, <1>1, <1>2 DEF Verdict, Result, Results, Lockouts
  <1>7. CASE mode # "lock" /\ i \notin Codes /\ ~IsLockedOut(Clamped, now)
    <2>1. CASE i = "rightPassword"
      BY <1>7, <2>1, <1>3, ClearTypes, ConstantTypes DEF Verdict, Result, Results
    <2>2. CASE i # "rightPassword"
      <3> DEFINE s == RecordFailure(Clamped, now)
      <3>1. s \in Lockouts
        BY FailureTypes
      <3>2. Rewritten(s) \in Headers /\ Rewritten(s).lock = s
        BY <3>1, RewrittenTypes
      <3>3. /\ Verdict(i).header = Rewritten(s)
            /\ Verdict(i).result = IF s.fail >= MaxAttempts THEN Result("lockedOut", s.until)
                                   ELSE Result("wrong", MaxAttempts - s.fail)
        BY <1>7, <2>2 DEF Verdict
      <3> HIDE DEF s
      <3>4. s.fail \in Nat /\ s.until \in Nat
        BY <3>1 DEF Lockouts
      <3> QED BY <3>1, <3>2, <3>3, <3>4, ConstantTypes DEF Result, Results
    <2> QED BY <2>1, <2>2
  <1> QED BY <1>4, <1>5, <1>6, <1>7

-----------------------------------------------------------------------------
(* Sequences of at most one job, and a queue that takes messages at one end *)

LEMMA OneElement ==
    ASSUME NEW S, NEW s \in Seq(S), Len(s) <= 1, NEW w \in DOMAIN s
    PROVE  w = 1 /\ Len(s) = 1 /\ s # << >> /\ s[w] \in S
  <1>1. Len(s) \in Nat /\ DOMAIN s = 1 .. Len(s)
    OBVIOUS
  <1>2. w = 1 /\ Len(s) = 1
    BY <1>1
  <1>3. s # << >>
    BY <1>2
  <1>4. s[w] \in S
    BY <1>1
  <1> QED BY <1>2, <1>3, <1>4

LEMMA EmptyTypes == << >> \in Seq(Jobs) /\ << >> \in Seq({"progress", "done"})
  OBVIOUS

LEMMA InitKeeps == Init => TypeOK /\ DialogInv
  <1> SUFFICES ASSUME Init PROVE TypeOK /\ DialogInv
    OBVIOUS
  <1>1. header \in Headers
    BY InitHeadersAssumption DEF Init
  <1>2. NoPromise \in Promises /\ NoResult \in Results
    BY PromiseTypes DEF NoResult, Result, Results
  <1>3. TypeOK
    BY <1>1, <1>2, EmptyTypes DEF Init, TypeOK, Overcounted
  <1>4. QueueInv
    BY DEF Init, QueueInv
  <1>5. FieldInv /\ SlotInv
    BY DEF Init, FieldInv, SlotInv, NoResult, Result
  <1> QED BY <1>3, <1>4, <1>5 DEF DialogInv

(* The ways the screen changes keep its types and, with the fields shown,  *)
(* leave them usable in the input phase.                                   *)
LEMMA ScreenTypes ==
    ASSUME TypeOK,
           \/ \E u \in Nat : EnterLockout(u)
           \/ \E n \in Promises : ShowInput(n) /\ edit
           \/ Reopen,
           shown'
    PROVE  /\ phase' \in {"input", "lockedOut"} /\ until' \in Nat
           /\ edit' \in BOOLEAN /\ timer' \in BOOLEAN
           /\ promise' \in Promises
           /\ FieldInv'
  <1>1. NoPromise \in Promises
    BY PromiseTypes
  <1>2. CASE Reopen
    BY <1>1, <1>2 DEF TypeOK, Reopen, FieldInv
  <1>3. ASSUME NEW u \in Nat, EnterLockout(u)
        PROVE  Reopen \/ (/\ phase' = "lockedOut" /\ until' = u /\ timer' = TRUE
                          /\ edit' = (master /\ edit) /\ promise' = NoPromise)
    BY <1>3, Zenon DEF EnterLockout
  <1>4. CASE \E u \in Nat : EnterLockout(u)
    <2>1. PICK u \in Nat : EnterLockout(u)
      BY <1>4
    <2>2. CASE /\ phase' = "lockedOut" /\ until' = u /\ timer' = TRUE
               /\ edit' = (master /\ edit) /\ promise' = NoPromise
      <3>1. edit' \in BOOLEAN
        BY <2>2 DEF TypeOK
      <3> QED BY <2>2, <3>1, <1>1 DEF FieldInv
    <2> QED BY <1>2, <1>3, <2>1, <2>2
  <1>5. CASE \E n \in Promises : ShowInput(n) /\ edit
    BY <1>5 DEF TypeOK, ShowInput, FieldInv
  <1> QED BY <1>2, <1>4, <1>5

LEMMA DestroyKeeps ==
    ASSUME TypeOK, DialogInv, succeeded' \in BOOLEAN,
           NEW how \in {"closed", "killed"}, Destroy(how)
    PROVE  TypeOK' /\ DialogInv'
  <1>1. NoResult \in Results
    BY DEF NoResult, Result, Results
  <1> QED
    BY <1>1, EmptyTypes
    DEF Destroy, TypeOK, DialogInv, QueueInv, FieldInv, SlotInv,
        screen, switch, shared, NoResult, Result

LEMMA UserKeeps ==
    ASSUME TypeOK, DialogInv, User
    PROVE  TypeOK' /\ DialogInv'
  <1>1. CASE OnCreate
    <2>1. NoPromise \in Promises
      BY PromiseTypes
    <2>2. header.lock.until \in Nat /\ header.lock.fail \in Nat
      BY DEF TypeOK, Headers, Lockouts
    <2>3. edit /\ shown /\ shown' = shown /\ workers = << >> /\ msgs = << >>
      BY <1>1 DEF OnCreate, DialogInv, QueueInv, FieldInv
    <2> DEFINE fails == IF header.signed THEN header.lock.fail ELSE MaxAttempts - 1
               says == IF fails > 0 THEN AttemptsLeft(fails) ELSE NoPromise
    <2>4. says \in Promises
      <3>1. fails \in Nat
        BY <2>2, ConstantTypes
      <3> QED BY <3>1, PromiseTypes
    <2>5. EnterLockout(header.lock.until) \/ ShowInput(says) \/ ShowInput(NoPromise)
      BY <1>1, Zenon DEF OnCreate
    <2> HIDE DEF says
    <2>6. /\ phase' \in {"input", "lockedOut"} /\ until' \in Nat
          /\ edit' \in BOOLEAN /\ timer' \in BOOLEAN
          /\ promise' \in Promises
          /\ FieldInv'
      BY <2>1, <2>2, <2>3, <2>4, <2>5, ScreenTypes
    <2>7. available' \in BOOLEAN
      BY <1>1 DEF OnCreate, TypeOK, Headers
    <2> QED
      BY <1>1, <2>3, <2>6, <2>7
      DEF OnCreate, TypeOK, DialogInv, QueueInv, SlotInv, thread, shared
  <1>2. CASE OnClose
    BY <1>2, DestroyKeeps DEF OnClose, TypeOK
  <1>3. CASE OnToggleMaster
    <2>1. \/ master' = ~master /\ promise' = promise
          \/ master' = master /\ promise' = NoPromise
      BY <1>3, Zenon DEF OnToggleMaster
    <2>2. master' \in BOOLEAN
      BY <2>1, Zenon DEF TypeOK
    <2>3. promise' \in Promises
      BY <2>1, PromiseTypes DEF TypeOK
    <2> QED
      BY <1>3, <2>2, <2>3
      DEF OnToggleMaster, TypeOK, DialogInv, QueueInv, FieldInv, SlotInv,
          thread, shared
  <1>4. CASE PrimaryInvalid
    <2>1. NoPromise \in Promises
      BY PromiseTypes
    <2> QED
      BY <1>4, <2>1
      DEF PrimaryInvalid, ShowInput, TypeOK, DialogInv, QueueInv, FieldInv,
          SlotInv, switch, thread, shared
  <1>5. CASE PrimarySetup
    BY <1>5, DestroyKeeps DEF PrimarySetup
  <1>6. ASSUME NEW i \in Inputs, Primary(i) PROVE TypeOK' /\ DialogInv'
    <2>1. workers = << >> /\ msgs = << >> /\ edit
      BY <1>6 DEF Primary, DialogInv, QueueInv, FieldInv
    <2>2. [input |-> i, step |-> "run", sent |-> 0] \in Jobs
      BY ConstantTypes DEF Jobs
    <2>3. workers' \in Seq(Jobs) /\ Len(workers') = 1
      BY <1>6, <2>1, <2>2 DEF Primary
    <2>4. shown' \in BOOLEAN /\ FieldInv'
      BY <1>6, <2>1, Zenon DEF Primary, FieldInv
    <2>5. TypeOK'
      BY <1>6, <2>3, <2>4 DEF Primary, TypeOK, switch, shared
    <2>6. QueueInv' /\ SlotInv'
      BY <1>6, <2>1, <2>3 DEF Primary, DialogInv, QueueInv, SlotInv
    <2> QED BY <2>4, <2>5, <2>6 DEF DialogInv
  <1> QED BY <1>1, <1>2, <1>3, <1>4, <1>5, <1>6 DEF User

LEMMA WorkKeeps ==
    ASSUME TypeOK, DialogInv, NEW w \in DOMAIN workers, Worker(w)
    PROVE  TypeOK' /\ DialogInv'
  <1>1. /\ w = 1 /\ Len(workers) = 1 /\ workers # << >>
        /\ phase = "busy" /\ window = "open"
        /\ workers[w] \in Jobs
        /\ \A i \in DOMAIN msgs : msgs[i] # "done"
    <2>1. workers \in Seq(Jobs) /\ Len(workers) <= 1
      BY DEF TypeOK, DialogInv, QueueInv
    <2>2. w = 1 /\ Len(workers) = 1 /\ workers # << >> /\ workers[w] \in Jobs
      BY <2>1, OneElement
    <2> QED BY <2>2 DEF DialogInv, QueueInv
  <1>2. workers[w].input \in Inputs
    BY <1>1 DEF Jobs
  <1>3. CASE PostProgress(w)
    <2>1. workers' \in Seq(Jobs) /\ Len(workers') = 1
      <3>1. workers[w].sent \in 0 .. MaxProgress /\ workers[w].sent < MaxProgress
        BY <1>1, <1>3 DEF PostProgress, Jobs
      <3>2. [workers[w] EXCEPT !.sent = @ + 1] \in Jobs
        BY <1>1, <3>1, ConstantTypes DEF Jobs
      <3>3. workers' = [workers EXCEPT ![w] = [workers[w] EXCEPT !.sent = @ + 1]]
        BY <1>3 DEF PostProgress
      <3> QED BY <1>1, <3>2, <3>3 DEF TypeOK
    <2>2. /\ msgs' \in Seq({"progress", "done"})
          /\ \A i \in DOMAIN msgs' : msgs'[i] # "done"
      BY <1>1, <1>3 DEF PostProgress, TypeOK
    <2> QED
      BY <1>1, <1>3, <2>1, <2>2
      DEF PostProgress, TypeOK, DialogInv, QueueInv, FieldInv, SlotInv,
          screen, switch, shared
  <1>4. ASSUME workers' = [workers EXCEPT ![w].step = "post"]
        PROVE  workers' \in Seq(Jobs) /\ Len(workers') = 1
    BY <1>1, <1>4, SMTT(30) DEF Jobs, TypeOK
  <1>5. CASE FinishJob(w)
    <2> DEFINE v == Verdict(workers[w].input)
    <2>1. /\ v.result \in Results /\ v.header \in Headers
          /\ v.result.kind = "wrong" => v.result.n <= MaxAttempts
      BY <1>2, VerdictTypes
    <2>2. slot' = v.result /\ header' = v.header
      BY <1>5 DEF FinishJob
    <2> HIDE DEF v
    <2>3. workers' \in Seq(Jobs) /\ Len(workers') = 1
      BY <1>4, <1>5 DEF FinishJob
    <2>4. SlotInv' /\ slot' \in Results /\ header' \in Headers
      BY <2>1, <2>2 DEF SlotInv
    <2> QED
      BY <1>1, <1>5, <2>3, <2>4
      DEF FinishJob, TypeOK, DialogInv, QueueInv, FieldInv, screen, switch
  <1>6. CASE FailJob(w)
    <2> DEFINE v == Verdict(workers[w].input)
    <2>1. v.header \in Headers
      BY <1>2, VerdictTypes
    <2>2. slot' = Result("error", 0) /\ (header' = header \/ header' = v.header)
      BY <1>6 DEF FailJob
    <2> HIDE DEF v
    <2>3. workers' \in Seq(Jobs) /\ Len(workers') = 1
      BY <1>4, <1>6 DEF FailJob
    <2>4. header' \in Headers
      BY <2>1, <2>2 DEF TypeOK
    <2>5. SlotInv' /\ slot' \in Results
      BY <2>2 DEF SlotInv, Result, Results
    <2> QED
      BY <1>1, <1>6, <2>3, <2>4, <2>5
      DEF FailJob, TypeOK, DialogInv, QueueInv, FieldInv, screen, switch
  <1>7. CASE PostDone(w)
    <2>1. workers' = << >>
      BY <1>1, <1>7 DEF PostDone, TypeOK
    <2>2. /\ msgs' \in Seq({"progress", "done"})
          /\ \A i \in DOMAIN msgs' : msgs'[i] = "done" => i = Len(msgs')
      BY <1>1, <1>7 DEF PostDone, TypeOK
    <2> QED
      BY <1>1, <1>7, <2>1, <2>2, EmptyTypes
      DEF PostDone, TypeOK, DialogInv, QueueInv, FieldInv, SlotInv,
          screen, switch, shared
  <1> QED BY <1>3, <1>5, <1>6, <1>7 DEF Worker

LEMMA LoopKeeps ==
    ASSUME TypeOK, DialogInv, Loop
    PROVE  TypeOK' /\ DialogInv'
  <1>1. CASE OnProgress
    <2>1. /\ msgs # << >> /\ phase = "busy" /\ window = "open"
          /\ msgs' = Tail(msgs)
      BY <1>1 DEF OnProgress, Dispatch, DialogInv, QueueInv
    <2>2. msgs' \in Seq({"progress", "done"}) /\ Len(msgs') = Len(msgs) - 1
      BY <2>1 DEF TypeOK
    <2>3. \A i \in DOMAIN msgs' : msgs'[i] = msgs[i + 1] /\ i + 1 \in DOMAIN msgs
      BY <2>1, <2>2 DEF TypeOK
    <2>4. QueueInv'
      BY <1>1, <2>1, <2>2, <2>3 DEF OnProgress, DialogInv, QueueInv, screen
    <2> QED
      BY <1>1, <2>1, <2>2, <2>4
      DEF OnProgress, TypeOK, DialogInv, FieldInv, SlotInv, screen, switch, shared
  <1>2. CASE OnDoneOk
    BY <1>2, DestroyKeeps DEF OnDoneOk
  <1>3. CASE OnDoneErr
    <2>1. /\ msgs # << >> /\ msgs[1] = "done" /\ phase = "busy" /\ window = "open"
      BY <1>3 DEF OnDoneErr, Dispatch, DialogInv, QueueInv, TypeOK
    <2>2. Len(msgs) = 1 /\ workers = << >>
      <3>1. 1 \in DOMAIN msgs /\ Len(msgs) \in Nat
        BY <2>1 DEF TypeOK
      <3> QED BY <2>1, <3>1 DEF DialogInv, QueueInv
    <2>3. msgs' = << >> /\ workers' = << >> /\ slot' = NoResult
      BY <1>3, <2>2 DEF OnDoneErr, TypeOK
    <2>4. edit
      BY <2>1 DEF DialogInv, FieldInv
    <2>5. slot.n \in Nat /\ slot.kind \in {"none", "ok", "wrong", "lockedOut", "error"}
      BY DEF TypeOK, Results
    <2>6. NoPromise \in Promises
      BY PromiseTypes
    <2>7. slot.kind = "wrong" => slot.n \in Promises
      BY <2>5, PromiseTypes, ConstantTypes DEF DialogInv, SlotInv
    <2>8. \/ /\ shown' = TRUE
             /\ \/ EnterLockout(slot.n)
                \/ slot.kind = "wrong" /\ ShowInput(slot.n)
                \/ ShowInput(NoPromise)
          \/ UNCHANGED screen
      BY <1>3, <2>5 DEF OnDoneErr, screen
    <2>9. \/ /\ phase' \in {"input", "lockedOut"} /\ until' \in Nat
             /\ edit' \in BOOLEAN /\ timer' \in BOOLEAN
             /\ promise' \in Promises
             /\ FieldInv' /\ shown' \in BOOLEAN
          \/ UNCHANGED screen
      BY <2>4, <2>5, <2>6, <2>7, <2>8, ScreenTypes
    <2>10. SlotInv' /\ slot' \in Results
      BY <2>3 DEF SlotInv, NoResult, Result, Results
    <2>11. /\ phase' \in {"input", "busy", "lockedOut"} /\ until' \in Nat
           /\ shown' \in BOOLEAN /\ edit' \in BOOLEAN /\ timer' \in BOOLEAN
           /\ promise' \in Promises
           /\ FieldInv'
      BY <2>9 DEF TypeOK, DialogInv, FieldInv, screen
    <2>12. TypeOK'
      BY <1>3, <2>3, <2>10, <2>11, EmptyTypes DEF OnDoneErr, TypeOK, switch, shared
    <2>13. QueueInv'
      BY <1>3, <2>1, <2>3 DEF OnDoneErr, QueueInv
    <2> QED BY <2>10, <2>11, <2>12, <2>13 DEF DialogInv
  <1>4. CASE OnTimer
    <2>1. /\ phase' \in {"input", "lockedOut"} /\ until' \in Nat
          /\ edit' \in BOOLEAN /\ timer' \in BOOLEAN
          /\ promise' \in Promises
          /\ FieldInv'
      BY <1>4, ScreenTypes DEF OnTimer, DialogInv, FieldInv
    <2>2. phase = "lockedOut" /\ window = "open" /\ shown' = shown
      BY <1>4 DEF OnTimer
    <2> QED
      BY <1>4, <2>1, <2>2
      DEF OnTimer, TypeOK, DialogInv, QueueInv, SlotInv, switch, thread, shared
  <1> QED BY <1>1, <1>2, <1>3, <1>4 DEF Loop

LEMMA WorldKeeps ==
    ASSUME TypeOK, DialogInv, Tick \/ OtherAttempt \/ OtherTorn \/ WmClose
    PROVE  TypeOK' /\ DialogInv'
  <1>1. CASE Tick
    BY <1>1
    DEF Tick, TypeOK, DialogInv, QueueInv, FieldInv, SlotInv, screen, switch, thread
  <1>2. CASE OtherAttempt
    <2> DEFINE s == RecordFailure(Clamped, now)
    <2>1. s \in Lockouts
      BY FailureTypes
    <2>2. header' = Rewritten(s)
      BY <1>2 DEF OtherAttempt
    <2> HIDE DEF s
    <2>3. header' \in Headers
      BY <2>1, <2>2, RewrittenTypes
    <2> QED
      BY <1>2, <2>3
      DEF OtherAttempt, TypeOK, DialogInv, QueueInv, FieldInv, SlotInv, screen, switch, thread
  <1>3. CASE WmClose
    BY <1>3, DestroyKeeps DEF WmClose, TypeOK
  <1>4. CASE OtherTorn
    <2>1. PICK new \in {Clear, RecordFailure(Clamped, now)} :
            \E f \in {header.lock.fail, new.fail}, u \in {header.lock.until, new.until} :
              header' = [header EXCEPT !.lock = [fail |-> f, until |-> u], !.signed = FALSE]
      BY <1>4 DEF OtherTorn
    <2>2. new \in Lockouts /\ header \in Headers
      BY ClearTypes, FailureTypes DEF TypeOK
    <2>3. new.fail \in Nat /\ new.until \in Nat
          /\ header.lock.fail \in Nat /\ header.lock.until \in Nat
      BY <2>2 DEF Headers, Lockouts
    <2>4. header' \in Headers
      <3>1. PICK f \in Nat, u \in Nat :
              header' = [header EXCEPT !.lock = [fail |-> f, until |-> u], !.signed = FALSE]
        BY <2>1, <2>3
      <3>2. [fail |-> f, until |-> u] \in Lockouts
        BY DEF Lockouts
      <3>3. \A l \in Lockouts : [header EXCEPT !.lock = l, !.signed = FALSE] \in Headers
        BY <2>2 DEF Headers
      <3> QED BY <3>1, <3>2, <3>3, Zenon
    <2>5. /\ UNCHANGED <<mode, window, screen, switch, succeeded, thread, now>>
          /\ torn' \in BOOLEAN
      BY <1>4 DEF OtherTorn, TypeOK, Overcounted
    <2>6. TypeOK'
      BY <2>4, <2>5 DEF TypeOK, screen, switch, thread
    <2> QED
      BY <2>5, <2>6 DEF DialogInv, QueueInv, FieldInv, SlotInv, screen, thread
  <1> QED BY <1>1, <1>2, <1>3, <1>4

(* The fields of the dialog, its queue and the container's lockout fields  *)
(* keep their types whatever header the dialog meets and other processes   *)
(* leave, torn ones included; with it, the invariant of queue and fields   *)
(* that the next theorems rest on.                                         *)
THEOREM DialogInvariant == Spec => [](TypeOK /\ DialogInv)
  <1>1. TypeOK /\ DialogInv /\ [Next]_vars => (TypeOK /\ DialogInv)'
    <2> SUFFICES ASSUME TypeOK, DialogInv, [Next]_vars PROVE TypeOK' /\ DialogInv'
      OBVIOUS
    <2>1. CASE UNCHANGED vars
      BY <2>1
      DEF vars, TypeOK, DialogInv, QueueInv, FieldInv, SlotInv,
          screen, switch, thread, shared
    <2>2. CASE Work
      BY <2>2, WorkKeeps DEF Work
    <2> QED BY <2>1, <2>2, UserKeeps, LoopKeeps, WorldKeeps DEF Next
  <1> QED BY <1>1, InitKeeps, PTL DEF Spec

(* on_primary, spawn_worker and on_done: one dialog never runs two         *)
(* operations at a time, and no message of an operation outlives it.       *)
THEOREM DialogRunsOneOperation == Spec => []OneOperation
  <1>1. TypeOK /\ DialogInv => OneOperation
    BY DEF TypeOK, DialogInv, QueueInv, OneOperation, Pending
  <1> QED BY <1>1, DialogInvariant, PTL

(* start_busy, on_done, enter_lockout and update_countdown: an input       *)
(* screen can be typed into.                                               *)
THEOREM InputIsUsable == Spec => []CanTypeAgain
  <1>1. DialogInv => CanTypeAgain
    BY DEF DialogInv, FieldInv, CanTypeAgain
  <1> QED BY <1>1, DialogInvariant, PTL

(* ID_CLOSE, "I saved it" and on_done never end the process while the      *)
(* worker is changing the disk.                                            *)
THEOREM ButtonsDoNotTearDown == Spec => NoTearDown
  <1>1. TypeOK /\ DialogInv /\ [Next]_vars =>
          [window = "open" /\ window' = "closed" => \A w \in DOMAIN workers : ~Running(w)]_vars
    <2> SUFFICES ASSUME TypeOK, DialogInv, Next, window = "open", window' = "closed"
                 PROVE  workers = << >>
      BY DEF vars, Running
    <2>1. CASE User
      BY <2>1
      DEF User, OnCreate, OnClose, OnToggleMaster, PrimaryInvalid, PrimarySetup, Primary,
          DialogInv, QueueInv
    <2>2. CASE Loop
      <3>1. Dispatch("done")
        BY <2>2 DEF Loop, OnProgress, OnDoneOk, OnDoneErr, OnTimer
      <3> QED BY <3>1 DEF Dispatch, TypeOK, DialogInv, QueueInv
    <2>3. CASE Work \/ Tick \/ OtherAttempt \/ OtherTorn \/ WmClose
      BY <2>3
      DEF Work, Worker, PostProgress, FinishJob, FailJob, PostDone, Tick, OtherAttempt,
          OtherTorn, WmClose, Destroy
    <2> QED BY <2>1, <2>2, <2>3 DEF Next
  <1> QED BY <1>1, DialogInvariant, PTL DEF Spec, NoTearDown

-----------------------------------------------------------------------------
(* The number of attempts on the status line *)

(* Until a rewrite is cut short at the wrong place, a full count comes     *)
(* with the end of its lockout.                                            *)
CountInv == ~torn => ~Overcounted(header.lock)

LEMMA SmallDifference ==
    ASSUME NEW n \in 0 .. MaxAttempts
    PROVE  AttemptsLeft(n) = MaxAttempts - n
  <1>1. MaxAttempts - n \in 0 .. CountRange - 1
    BY ConstantTypes
  <1>2. ASSUME NEW k \in Nat \ {0}, NEW m \in 0 .. k - 1 PROVE m % k = m
    OBVIOUS
  <1> QED BY <1>1, <1>2, ConstantTypes DEF AttemptsLeft

(* record_failure starts a fresh window before it counts on. *)
LEMMA FailureCounts ==
    ASSUME TypeOK, ~Overcounted(header.lock), ~IsLockedOut(Clamped, now)
    PROVE  ~Overcounted(RecordFailure(Clamped, now))
  <1>1. header.lock \in Lockouts /\ now \in Nat
    BY DEF TypeOK, Headers
  <1>2. Clamped \in Lockouts /\ ~Overcounted(Clamped)
    BY <1>1, ConstantTypes DEF Clamped, Clamp, Lockouts, Overcounted
  <1> DEFINE c == Clamped
  <1>3. c \in Lockouts /\ ~Overcounted(c) /\ ~IsLockedOut(c, now)
    BY <1>2
  <1> HIDE DEF c
  <1>4. ~Overcounted(RecordFailure(c, now))
    BY <1>1, <1>3, ConstantTypes
    DEF Lockouts, Overcounted, IsLockedOut, RecordFailure, Clear
  <1> QED BY <1>4 DEF c

LEMMA VerdictCounts ==
    ASSUME TypeOK, NEW i \in Inputs, ~Overcounted(header.lock)
    PROVE  ~Overcounted(Verdict(i).header.lock)
  <1>1. Rewritten(Clear).lock = Clear
    BY ClearTypes, RewrittenTypes
  <1>2. ~Overcounted(Clear)
    BY ConstantTypes DEF Clear, Overcounted
  <1>3. \/ Verdict(i).header = header \/ Verdict(i).header = Rewritten(Clear)
        \/ /\ ~IsLockedOut(Clamped, now)
           /\ Verdict(i).header = Rewritten(RecordFailure(Clamped, now))
    BY DEF Verdict
  <1>4. Rewritten(RecordFailure(Clamped, now)).lock = RecordFailure(Clamped, now)
    BY FailureTypes, RewrittenTypes
  <1> QED BY <1>1, <1>2, <1>3, <1>4, FailureCounts

LEMMA CountKept ==
    ASSUME TypeOK, DialogInv, CountInv, [Next]_vars
    PROVE  CountInv'
  <1>1. CASE UNCHANGED <<header, torn>>
    BY <1>1 DEF CountInv
  <1>2. ASSUME NEW w \in DOMAIN workers, FinishJob(w) \/ FailJob(w)
        PROVE  CountInv'
    <2>1. workers[w].input \in Inputs
      <3>1. workers \in Seq(Jobs) /\ Len(workers) <= 1
        BY DEF TypeOK, DialogInv, QueueInv
      <3>2. workers[w] \in Jobs
        BY <3>1, OneElement
      <3> QED BY <3>2 DEF Jobs
    <2>2. torn' = torn /\ header' \in {header, Verdict(workers[w].input).header}
      BY <1>2 DEF FinishJob, FailJob
    <2> QED BY <2>1, <2>2, VerdictCounts DEF CountInv
  <1>3. CASE OtherAttempt
    <2>1. /\ torn' = torn /\ ~IsLockedOut(Clamped, now)
          /\ header' = Rewritten(RecordFailure(Clamped, now))
      BY <1>3 DEF OtherAttempt
    <2> QED BY <2>1, FailureTypes, RewrittenTypes, FailureCounts DEF CountInv
  <1>4. CASE OtherTorn
    BY <1>4 DEF OtherTorn, CountInv
  <1>5. CASE UNCHANGED vars
    BY <1>1, <1>5 DEF vars, shared
  <1>6. CASE User
    BY <1>1, <1>6
    DEF User, OnCreate, OnClose, OnToggleMaster, PrimaryInvalid, PrimarySetup, Primary,
        Destroy, shared
  <1>7. CASE Loop
    BY <1>1, <1>7 DEF Loop, OnProgress, OnDoneOk, OnDoneErr, OnTimer, Destroy, shared
  <1>8. CASE Work
    BY <1>1, <1>2, <1>8 DEF Work, Worker, PostProgress, PostDone, shared
  <1>9. CASE Tick \/ WmClose
    BY <1>1, <1>9 DEF Tick, WmClose, Destroy, shared
  <1> QED BY <1>3, <1>4, <1>5, <1>6, <1>7, <1>8, <1>9 DEF Next

LEMMA PromiseKept ==
    ASSUME TypeOK, DialogInv, CountInv, NoMoreThanMaxAttempts, [Next]_vars
    PROVE  NoMoreThanMaxAttempts'
  <1>1. NoPromise <= MaxAttempts /\ MaxAttempts \in Nat /\ promise \in Int
    BY ConstantTypes DEF NoPromise, TypeOK, Promises
  <1>2. torn => torn'
    <2>1. CASE OtherTorn
      BY <2>1 DEF OtherTorn
    <2>2. CASE ~OtherTorn
      BY <2>2
      DEF Next, User, OnCreate, OnClose, OnToggleMaster, PrimaryInvalid, PrimarySetup,
          Primary, Loop, OnProgress, OnDoneOk, OnDoneErr, OnTimer, Work, Worker,
          PostProgress, FinishJob, FailJob, PostDone, Tick, OtherAttempt, WmClose,
          Destroy, shared, vars
    <2> QED BY <2>1, <2>2
  <1>3. CASE promise' = promise \/ promise' = NoPromise
    <2>1. promise' > MaxAttempts => promise > MaxAttempts
      BY <1>1, <1>3 DEF NoPromise
    <2> QED BY <1>2, <2>1, Zenon DEF NoMoreThanMaxAttempts
  <1>4. CASE OnCreate
    <2> DEFINE fails == IF header.signed THEN header.lock.fail ELSE MaxAttempts - 1
               says == IF fails > 0 THEN AttemptsLeft(fails) ELSE NoPromise
    <2>1. ~torn => ~(says > MaxAttempts)
      <3>1. header.lock.fail \in Nat
        BY DEF TypeOK, Headers, Lockouts
      <3>2. ~torn => fails \in 0 .. MaxAttempts
        BY <3>1, ConstantTypes DEF CountInv, Overcounted
      <3> QED BY <1>1, <3>2, SmallDifference DEF NoPromise
    <2>2. \/ EnterLockout(header.lock.until) \/ ShowInput(NoPromise) \/ ShowInput(says)
      BY <1>4, Zenon DEF OnCreate
    <2> HIDE DEF says
    <2>3. promise' = NoPromise \/ promise' = says
      BY <2>2 DEF EnterLockout, Reopen, ShowInput
    <2>4. CASE promise' = says
      BY <1>2, <2>1, <2>4, Zenon DEF NoMoreThanMaxAttempts
    <2> QED BY <1>3, <2>3, <2>4
  <1>5. CASE OnDoneErr
    <2>1. \/ promise' = NoPromise \/ promise' = promise
          \/ slot.kind = "wrong" /\ promise' = slot.n
      <3>1. slot.kind \in {"none", "ok", "wrong", "lockedOut", "error"}
        BY DEF TypeOK, Results
      <3> QED
        BY <1>5, <3>1 DEF OnDoneErr, EnterLockout, Reopen, ShowInput
    <2> QED
      BY <1>1, <1>3, <2>1 DEF DialogInv, SlotInv, NoMoreThanMaxAttempts, TypeOK, Results
  <1>6. CASE User /\ ~OnCreate
    BY <1>3, <1>6
    DEF User, OnClose, OnToggleMaster, PrimaryInvalid, ShowInput, PrimarySetup, Primary,
        Destroy, screen
  <1>7. CASE Loop /\ ~OnDoneErr
    BY <1>3, <1>7 DEF Loop, OnProgress, OnDoneOk, OnTimer, Reopen, Destroy, screen
  <1>8. CASE Work \/ Tick \/ OtherAttempt \/ OtherTorn \/ WmClose \/ UNCHANGED vars
    BY <1>3, <1>8
    DEF Work, Worker, PostProgress, FinishJob, FailJob, PostDone, Tick, OtherAttempt,
        OtherTorn, WmClose, Destroy, screen, vars
  <1> QED BY <1>4, <1>5, <1>6, <1>7, <1>8 DEF Next

(* on_create's unsigned subtraction: as long as no rewrite of the header   *)
(* was cut short between its count and its time, the attempts shown are at *)
(* most MAX_ATTEMPTS, for every header, clock and number of attempts.      *)
THEOREM PromiseIsBounded == Spec => []NoMoreThanMaxAttempts
  <1>1. Init => CountInv /\ NoMoreThanMaxAttempts
    BY ConstantTypes DEF Init, CountInv, NoMoreThanMaxAttempts, NoPromise
  <1>2. TypeOK /\ DialogInv /\ CountInv /\ NoMoreThanMaxAttempts /\ [Next]_vars
          => CountInv' /\ NoMoreThanMaxAttempts'
    BY CountKept, PromiseKept
  <1> QED BY <1>1, <1>2, DialogInvariant, PTL DEF Spec

=============================================================================
