--------------------------- MODULE Lockout_proofs ----------------------------
(***************************************************************************)
(* What is proved of Lockout: types and the armed count for any number of  *)
(* processes; the rate limit and the steadiness of a lockout for processes *)
(* that run one after another.                                             *)
(***************************************************************************)
EXTENDS Lockout, TLAPS

(* Attempts on the container follow each other: there is at most one slot. *)
Serial == \A p, q \in Procs : p = q

-----------------------------------------------------------------------------
(* The invariants *)

(* A failure that is counted in memory and not yet written has armed the   *)
(* lockout if it is one too many.                                          *)
StrikeIsArmed ==
    \A p \in Procs :
        pc[p] = "strike" /\ seen[p].lock.fail >= MaxAttempts => seen[p].lock.until # 0

ArmedInv == FullCountIsArmed /\ StrikeIsArmed

(* What the header, as open_and_authorize takes it, says of the reported   *)
(* failures at time t: none is of the future; behind a lockout they are    *)
(* all older than its end by a period; without one, those that fail_count  *)
(* does not count any more are older than t by a period.                   *)
Counted == LET c == Clamp(header.lock, header.signed).fail
           IN  IF c < MaxAttempts THEN c ELSE MaxAttempts - 1

Accounts(t) ==
    \A j \in 1..Len(wrong) :
        /\ wrong[j] <= t
        /\ header.lock.until # 0 => wrong[j] + LockoutSecs <= header.lock.until
        /\ header.lock.until = 0 /\ j <= Len(wrong) - Counted
             => wrong[j] + LockoutSecs <= t

(* What an attempt knows of the header stays true while it works: nobody   *)
(* else writes it.                                                         *)
InStep(p) ==
    /\ pc[p] = "derive" => seen[p] = ClampedHeader
    /\ pc[p] = "strike" =>
         seen[p].lock = RecordFailure(Clamp(header.lock, header.signed), at[p])
    /\ pc[p] \in {"derive", "strike"} => ~IsLockedOut(header.lock, at[p])
    /\ pc[p] = "reset" => wrong = << >>

(* Where the clock has not been set back, the account is good at the time  *)
(* an attempt goes by.                                                     *)
OnTime(p) ==
    /\ pc[p] = "idle" => Accounts(now)
    /\ pc[p] # "idle" => at[p] <= now /\ Accounts(at[p])

(* The invariants of attempts that follow each other. *)
StepInv == \A p \in Procs : InStep(p)

TimeInv == ~setBack => \A p \in Procs : OnTime(p)

-----------------------------------------------------------------------------
(* record_failure and the clamp *)

LEMMA ClampFacts ==
    ASSUME NEW s \in Lockouts, NEW b \in BOOLEAN
    PROVE  /\ Clamp(s, b) \in Lockouts
           /\ Clamp(s, b).until = s.until
           /\ b => Clamp(s, b) = s
           /\ ~b => Clamp(s, b).fail >= MaxAttempts - 1
  BY AttemptsAssumption DEF Clamp, Lockouts

LEMMA RecordFailureFacts ==
    ASSUME NEW s \in Lockouts, NEW t \in Nat
    PROVE  /\ RecordFailure(s, t) \in Lockouts
           /\ RecordFailure(s, t).fail >= MaxAttempts
                => RecordFailure(s, t).until = t + LockoutSecs
           /\ RecordFailure(s, t).fail < MaxAttempts /\ ~IsLockedOut(s, t)
                => RecordFailure(s, t).until = 0
           /\ RecordFailure(s, t).fail = IF s.until # 0 /\ t >= s.until THEN 1 ELSE s.fail + 1
  BY AttemptsAssumption, SecsAssumption DEF RecordFailure, Lockouts, Clear, IsLockedOut

(* The history after a reported failure: one longer, or its oldest gone. *)
LEMMA LatestFacts ==
    ASSUME NEW w \in Seq(Nat), NEW t \in Nat, Len(w) <= MaxAttempts
    PROVE  /\ Latest(w, t) \in Seq(Nat)
           /\ Len(Latest(w, t)) = IF Len(w) < MaxAttempts THEN Len(w) + 1 ELSE MaxAttempts
           /\ Latest(w, t)[Len(Latest(w, t))] = t
           /\ \A j \in 1..(Len(Latest(w, t)) - 1) :
                Latest(w, t)[j] = IF Len(w) < MaxAttempts THEN w[j] ELSE w[j + 1]
  <1>0. Len(w) \in Nat
    OBVIOUS
  <1>1. CASE Len(w) < MaxAttempts
    BY <1>1, AttemptsAssumption DEF Latest
  <1>2. CASE ~(Len(w) < MaxAttempts)
    <2>1. Tail(w) \in Seq(Nat) /\ Len(Tail(w)) = Len(w) - 1
          /\ \A j \in 1..(Len(w) - 1) : Tail(w)[j] = w[j + 1]
      BY <1>2, AttemptsAssumption
    <2>2. Latest(w, t) = Append(Tail(w), t)
      BY <1>2 DEF Latest
    <2>3. Len(w) = MaxAttempts
      BY <1>0, <1>2, AttemptsAssumption
    <2> QED BY <1>0, <1>2, <2>1, <2>2, <2>3, AttemptsAssumption
  <1> QED BY <1>1, <1>2

-----------------------------------------------------------------------------
(* Types *)

LEMMA TypeInit == Init => TypeOK
  <1> SUFFICES ASSUME Init PROVE TypeOK
    OBVIOUS
  <1> USE DEF Init
  <1>1. header \in Headers /\ now \in Nat /\ setBack \in BOOLEAN
    BY InitHeadersAssumption
  <1>2. Signed(Clear) \in Headers
    BY DEF Headers, Lockouts, Signed, Clear
  <1>3. pc \in [Procs -> Steps] /\ seen \in [Procs -> Headers] /\ at \in [Procs -> Nat]
    BY <1>2 DEF Steps
  <1>4. wrong \in Seq(Nat) /\ Len(wrong) <= MaxAttempts
    BY AttemptsAssumption
  <1> QED BY <1>1, <1>3, <1>4 DEF TypeOK

LEMMA ClampedHeaderType ==
    ASSUME header \in Headers
    PROVE  ClampedHeader \in Headers
  BY ClampFacts DEF ClampedHeader, Headers

LEMMA TypeNext ==
    ASSUME TypeOK, [Next]_vars
    PROVE  TypeOK'
  <1> USE DEF TypeOK
  <1>1. ASSUME NEW p \in Procs, Return(p)
        PROVE  pc' \in [Procs -> Steps] /\ seen' \in [Procs -> Headers] /\ at' \in [Procs -> Nat]
    BY <1>1 DEF Return, Steps, Headers, Signed, Lockouts, Clear
  <1>2. ASSUME NEW p \in Procs, TryPassword(p) PROVE TypeOK'
    BY <1>2, ClampedHeaderType DEF TryPassword, Steps
  <1>3. ASSUME NEW p \in Procs, TryMasterCode(p) PROVE TypeOK'
    BY <1>3, ClampedHeaderType, AttemptsAssumption DEF TryMasterCode, Steps
  <1>4. ASSUME NEW p \in Procs, WrongPassword(p) PROVE TypeOK'
    <2>1. RecordFailure(seen[p].lock, at[p]) \in Lockouts
      BY RecordFailureFacts DEF Headers
    <2>2. seen' \in [Procs -> Headers]
      BY <1>4, <2>1 DEF WrongPassword, Headers
    <2> QED BY <1>4, <2>2 DEF WrongPassword, Steps
  <1>5. ASSUME NEW p \in Procs, ReportFailure(p) PROVE TypeOK'
    <2>1. wrong' \in Seq(Nat) /\ Len(wrong') <= MaxAttempts
      BY <1>5, LatestFacts, AttemptsAssumption DEF ReportFailure
    <2> QED BY <1>5, <1>1, <2>1 DEF ReportFailure, Headers, Signed
  <1>6. ASSUME NEW p \in Procs, RightPassword(p) PROVE TypeOK'
    BY <1>6, AttemptsAssumption DEF RightPassword, Steps
  <1>7. ASSUME NEW p \in Procs, Succeed(p) PROVE TypeOK'
    BY <1>7, <1>1 DEF Succeed, Headers, Signed, Clear, Lockouts
  <1>8. ASSUME NEW p \in Procs, Abandon(p) PROVE TypeOK'
    BY <1>8, <1>1 DEF Abandon
  <1>9. ASSUME NEW p \in Procs, TornRewrite(p) PROVE TypeOK'
    BY <1>9, <1>1 DEF TornRewrite, Headers, Lockouts, Clear
  <1>10. ASSUME Tick \/ SetClockBack PROVE TypeOK'
    <2>1. now' \in Nat
      BY <1>10 DEF Tick, SetClockBack
    <2>2. setBack' \in BOOLEAN
      BY <1>10 DEF Tick, SetClockBack
    <2> QED BY <1>10, <2>1, <2>2 DEF Tick, SetClockBack
  <1>11. CASE UNCHANGED vars
    BY <1>11 DEF vars
  <1> QED
    BY <1>2, <1>3, <1>4, <1>5, <1>6, <1>7, <1>8, <1>9, <1>10, <1>11 DEF Next, Attempt

(* The lockout fields stay naturals in every history of attempts, crashes  *)
(* and clock changes, for any number of processes: fail_count and          *)
(* locked_until (u32 and u64 in lockout.rs) never go below zero.           *)
THEOREM TypeCorrect == Spec => []TypeOK
  BY TypeInit, TypeNext, PTL DEF Spec

-----------------------------------------------------------------------------
(* A full count is armed *)

LEMMA ArmedInit == Init => ArmedInv
  BY OwnHeaderAssumption, AttemptsAssumption
     DEF Init, ArmedInv, FullCountIsArmed, StrikeIsArmed, Signed, Clear

LEMMA ArmedNext ==
    ASSUME TypeOK, ArmedInv, [Next]_vars
    PROVE  ArmedInv'
  <1> USE DEF TypeOK, ArmedInv, FullCountIsArmed, StrikeIsArmed
  <1>1. ASSUME NEW p \in Procs, Return(p) PROVE StrikeIsArmed'
    BY <1>1 DEF Return
  <1>2. ASSUME NEW p \in Procs, TryPassword(p) \/ TryMasterCode(p) \/ RightPassword(p)
        PROVE  ArmedInv'
    BY <1>2 DEF TryPassword, TryMasterCode, RightPassword
  <1>3. ASSUME NEW p \in Procs, WrongPassword(p) PROVE ArmedInv'
    <2>1. seen[p].lock \in Lockouts /\ at[p] \in Nat
      BY DEF Headers
    <2>2. /\ seen'[p].lock = RecordFailure(seen[p].lock, at[p])
          /\ \A q \in Procs \ {p} : seen'[q] = seen[q] /\ pc'[q] = pc[q]
      BY <1>3 DEF WrongPassword, Headers
    <2>3. ASSUME seen'[p].lock.fail >= MaxAttempts PROVE seen'[p].lock.until # 0
      <3> DEFINE r == RecordFailure(seen[p].lock, at[p])
      <3>1. r.until = at[p] + LockoutSecs
        BY <2>1, <2>2, <2>3, RecordFailureFacts
      <3> HIDE DEF r
      <3> QED BY <2>1, <2>2, <3>1, SecsAssumption DEF r
    <2> QED BY <1>3, <2>2, <2>3 DEF WrongPassword
  <1>4. ASSUME NEW p \in Procs, ReportFailure(p) PROVE ArmedInv'
    BY <1>4, <1>1 DEF ReportFailure, Signed
  <1>5. ASSUME NEW p \in Procs, Succeed(p) PROVE ArmedInv'
    BY <1>5, <1>1, AttemptsAssumption DEF Succeed, Signed, Clear
  <1>6. ASSUME NEW p \in Procs, Abandon(p) PROVE ArmedInv'
    BY <1>6, <1>1 DEF Abandon
  <1>7. ASSUME NEW p \in Procs, TornRewrite(p) PROVE ArmedInv'
    BY <1>7, <1>1 DEF TornRewrite
  <1>8. ASSUME Tick \/ SetClockBack \/ UNCHANGED vars PROVE ArmedInv'
    BY <1>8 DEF Tick, SetClockBack, vars
  <1> QED
    BY <1>2, <1>3, <1>4, <1>5, <1>6, <1>7, <1>8 DEF Next, Attempt

(* A header signed by this install that shows MAX_ATTEMPTS failures        *)
(* carries the end of its lockout, whatever number of processes write it   *)
(* over each other and wherever they die (record_failure, rewrite_header). *)
THEOREM FullCountCorrect == Spec => []FullCountIsArmed
  <1>1. Init => TypeOK /\ ArmedInv
    BY TypeInit, ArmedInit
  <1>2. TypeOK /\ ArmedInv /\ [Next]_vars => (TypeOK /\ ArmedInv)'
    BY TypeNext, ArmedNext
  <1>3. ArmedInv => FullCountIsArmed
    BY DEF ArmedInv
  <1> QED BY <1>1, <1>2, <1>3, PTL DEF Spec

-----------------------------------------------------------------------------
(* One attempt after another: what an attempt has seen *)

LEMMA StepNext ==
    ASSUME Serial, TypeOK, StepInv, [Next]_vars
    PROVE  StepInv'
  <1> USE DEF TypeOK, StepInv, Serial
  <1>1. ASSUME NEW p \in Procs, Return(p) PROVE StepInv'
    <2> SUFFICES ASSUME NEW q \in Procs PROVE InStep(q)'
      OBVIOUS
    <2> QED BY <1>1 DEF Return, InStep
  <1>2. ASSUME NEW p \in Procs, TryPassword(p) PROVE StepInv'
    <2> SUFFICES ASSUME NEW q \in Procs PROVE InStep(q)'
      OBVIOUS
    <2>1. ClampedHeader.lock.until = header.lock.until
      BY ClampFacts DEF ClampedHeader, Headers
    <2>2. ClampedHeader' = ClampedHeader
      BY <1>2 DEF TryPassword, ClampedHeader
    <2> QED BY <1>2, <2>1, <2>2 DEF TryPassword, InStep, IsLockedOut
  <1>3. ASSUME NEW p \in Procs, TryMasterCode(p) \/ RightPassword(p) PROVE StepInv'
    BY <1>3 DEF TryMasterCode, RightPassword, InStep
  <1>4. ASSUME NEW p \in Procs, WrongPassword(p) PROVE StepInv'
    <2> SUFFICES ASSUME NEW q \in Procs PROVE InStep(q)'
      OBVIOUS
    <2>1. q = p /\ pc[p] = "derive" /\ seen[p] = ClampedHeader /\ UNCHANGED <<header, at>>
          /\ pc'[p] = "strike"
      BY <1>4 DEF WrongPassword, InStep
    <2>2. seen'[p].lock = RecordFailure(seen[p].lock, at[p])
      BY <1>4 DEF WrongPassword, Headers
    <2>3. seen[p].lock = Clamp(header.lock, header.signed)
      BY <2>1 DEF ClampedHeader, Headers
    <2> QED BY <2>1, <2>2, <2>3 DEF InStep, IsLockedOut
  <1>5. ASSUME NEW p \in Procs,
               ReportFailure(p) \/ Succeed(p) \/ Abandon(p) \/ TornRewrite(p)
        PROVE  StepInv'
    BY <1>1, <1>5 DEF ReportFailure, Succeed, Abandon, TornRewrite
  <1>6. ASSUME Tick \/ SetClockBack \/ UNCHANGED vars PROVE StepInv'
    BY <1>6 DEF Tick, SetClockBack, vars, InStep, ClampedHeader, IsLockedOut
  <1> QED BY <1>2, <1>3, <1>4, <1>5, <1>6 DEF Next, Attempt

LEMMA StepInit == Init => StepInv
  BY DEF Init, StepInv, InStep

LEMMA LockoutHoldsStep ==
    ASSUME Serial, TypeOK, StepInv, [Next]_vars, IsLockedOut(header.lock, now)
    PROVE  \/ header'.lock.until >= header.lock.until
           \/ \E p \in Procs : \/ pc[p] = "reset"
                               \/ pc[p] = "strike" /\ at[p] >= header.lock.until
  <1> USE DEF TypeOK, Headers, Lockouts
  <1>1. ASSUME NEW p \in Procs, pc[p] = "strike"
        PROVE  at[p] >= header.lock.until
    BY <1>1 DEF StepInv, InStep, IsLockedOut
  <1>2. CASE \E p \in Procs : pc[p] \in {"strike", "reset"}
    BY <1>1, <1>2
  <1>3. CASE \A p \in Procs : pc[p] \notin {"strike", "reset"}
    <2>1. UNCHANGED header
      BY <1>3 DEF Next, Attempt, vars, Tick, SetClockBack, TryPassword, TryMasterCode,
         WrongPassword, ReportFailure, RightPassword, Succeed, Abandon, TornRewrite
    <2> QED BY <2>1
  <1> QED BY <1>2, <1>3

(* A lockout in force is lifted or brought forward only by a right         *)
(* credential, or by an attempt that began after its end: between          *)
(* attempts that follow each other neither a crash inside rewrite_header   *)
(* nor a clock set back shortens it (LockoutState::check).                 *)
THEOREM LockoutHoldsCorrect ==
    ASSUME Serial
    PROVE  Spec => LockoutHolds
  <1>1. Init => TypeOK /\ StepInv
    BY TypeInit, StepInit
  <1>2. TypeOK /\ StepInv /\ [Next]_vars => (TypeOK /\ StepInv)'
    BY TypeNext, StepNext
  <1>3. TypeOK /\ StepInv /\ [Next]_vars =>
          [IsLockedOut(header.lock, now) =>
             \/ header'.lock.until >= header.lock.until
             \/ \E p \in Procs : \/ pc[p] = "reset"
                                 \/ pc[p] = "strike" /\ at[p] >= header.lock.until]_vars
    BY LockoutHoldsStep
  <1> QED BY <1>1, <1>2, <1>3, PTL DEF Spec, LockoutHolds

-----------------------------------------------------------------------------
(* One attempt after another: the rate limit *)

LEMMA CountedFacts ==
    ASSUME header \in Headers
    PROVE  /\ Counted \in 0 .. MaxAttempts - 1
           /\ ~header.signed => Counted = MaxAttempts - 1
           /\ header.signed => Counted = IF header.lock.fail < MaxAttempts
                                         THEN header.lock.fail ELSE MaxAttempts - 1
  BY AttemptsAssumption DEF Counted, Clamp, Headers, Lockouts

(* The account only gets better with time. *)
LEMMA AccountsLater ==
    ASSUME TypeOK, NEW t \in Nat, NEW u \in Nat, t <= u, Accounts(t)
    PROVE  Accounts(u)
  <1> SUFFICES ASSUME NEW j \in 1..Len(wrong)
               PROVE  /\ wrong[j] <= u
                      /\ header.lock.until = 0 /\ j <= Len(wrong) - Counted
                           => wrong[j] + LockoutSecs <= u
    BY DEF Accounts
  <1>1. wrong[j] \in Nat
    BY DEF TypeOK
  <1> QED BY <1>1, SecsAssumption DEF Accounts

LEMMA AccountsEmpty ==
    ASSUME wrong = << >>, NEW t
    PROVE  Accounts(t)
  BY DEF Accounts

(* rewrite_header after a failure: the new header accounts for the new history. *)
LEMMA ReportAccounts ==
    ASSUME TypeOK, TypeOK', NEW p \in Procs, InStep(p), ReportFailure(p),
           NEW t \in Nat, t = at[p], Accounts(t)
    PROVE  Accounts(t)'
  <1> DEFINE c == Clamp(header.lock, header.signed)
             r == RecordFailure(c, t)
             n == Len(wrong)
  <1>1. c \in Lockouts /\ c.until = header.lock.until /\ t \in Nat /\ n \in Nat
        /\ header.lock \in Lockouts /\ n <= MaxAttempts
    BY ClampFacts DEF TypeOK, Headers
  <1>2. header' = Signed(r) /\ ~IsLockedOut(c, t) /\ wrong' = Latest(wrong, t)
    BY <1>1 DEF ReportFailure, InStep, IsLockedOut
  <1>3. /\ r \in Lockouts
        /\ r.fail >= MaxAttempts => r.until = t + LockoutSecs
        /\ r.fail < MaxAttempts => r.until = 0
        /\ r.fail = IF c.until # 0 /\ t >= c.until THEN 1 ELSE c.fail + 1
    BY <1>1, <1>2, RecordFailureFacts
  <1>4. /\ Len(wrong') = IF n < MaxAttempts THEN n + 1 ELSE MaxAttempts
        /\ wrong'[Len(wrong')] = t
        /\ \A j \in 1..(Len(wrong') - 1) :
             wrong'[j] = IF n < MaxAttempts THEN wrong[j] ELSE wrong[j + 1]
    <2>1. wrong \in Seq(Nat) /\ Len(wrong) <= MaxAttempts
      BY DEF TypeOK
    <2> QED BY <1>2, <2>1, LatestFacts
  <1>5. Counted' = IF r.fail < MaxAttempts THEN r.fail ELSE MaxAttempts - 1
    <2>1. header'.signed /\ header'.lock = r /\ header' \in Headers
      BY <1>2 DEF Signed, TypeOK
    <2> QED BY <2>1, AttemptsAssumption DEF Counted, Clamp
  <1>6. Counted = IF c.fail < MaxAttempts THEN c.fail ELSE MaxAttempts - 1
    BY DEF Counted
  <1>7. header'.lock.until = r.until
    BY <1>2 DEF Signed
  <1>8. \A j \in 1..n : wrong[j] \in Nat /\ wrong[j] <= t
    BY DEF TypeOK, Accounts
  <1>9. /\ c.until # 0 => \A j \in 1..n : wrong[j] + LockoutSecs <= c.until
        /\ c.until = 0 => \A j \in 1..n : j <= n - Counted => wrong[j] + LockoutSecs <= t
    BY <1>1 DEF Accounts
  <1>10. c.until = 0 \/ t >= c.until
    BY <1>1, <1>2 DEF IsLockedOut, Lockouts
  <1>11. c.fail \in Nat /\ c.until \in Nat /\ r.fail \in Nat
    BY <1>1, <1>3 DEF Lockouts
  <1> HIDE DEF c, r, n
  <1> SUFFICES ASSUME NEW j \in 1..Len(wrong')
               PROVE  /\ wrong'[j] <= t
                      /\ r.until # 0 => wrong'[j] + LockoutSecs <= r.until
                      /\ r.until = 0 /\ j <= Len(wrong') - Counted'
                           => wrong'[j] + LockoutSecs <= t
    BY <1>7 DEF Accounts
  <1>12. wrong'[j] \in Nat /\ wrong'[j] <= t
    <2>0. n \in Nat /\ t \in Nat /\ n <= MaxAttempts /\ MaxAttempts \in Nat /\ MaxAttempts > 0
      BY <1>1, AttemptsAssumption
    <2>1. CASE j = Len(wrong')
      BY <1>4, <2>0, <2>1
    <2>2. CASE j # Len(wrong') /\ n < MaxAttempts
      <3>1. j \in 1..(Len(wrong') - 1) /\ j \in 1..n
        BY <1>4, <2>0, <2>2
      <3>2. wrong'[j] = wrong[j]
        BY <1>4, <2>2, <3>1
      <3> QED BY <1>8, <3>1, <3>2
    <2>3. CASE j # Len(wrong') /\ ~(n < MaxAttempts)
      <3>1. j \in 1..(Len(wrong') - 1) /\ j + 1 \in 1..n
        BY <1>4, <2>0, <2>3
      <3>2. wrong'[j] = wrong[j + 1]
        BY <1>4, <2>3, <3>1
      <3> QED BY <1>8, <3>1, <3>2
    <2> QED BY <2>1, <2>2, <2>3
  <1>13. CASE r.fail >= MaxAttempts
    BY <1>3, <1>12, <1>13, <1>1, SecsAssumption
  <1>14. CASE r.fail < MaxAttempts
    <2>1. r.until = 0 /\ Counted' = r.fail
      BY <1>3, <1>5, <1>14
    <2> SUFFICES ASSUME j <= Len(wrong') - r.fail PROVE wrong'[j] + LockoutSecs <= t
      BY <2>1, <1>12
    <2>2. CASE c.until # 0
      <3>1. j \in 1..(Len(wrong') - 1)
        BY <2>2, <1>1, <1>3, <1>4, <1>10, <1>11, AttemptsAssumption
      <3>2. \E i \in 1..n : wrong'[j] = wrong[i]
        BY <3>1, <1>1, <1>4, AttemptsAssumption
      <3>3. wrong'[j] + LockoutSecs <= c.until
        BY <3>2, <1>9, <2>2
      <3> QED BY <3>3, <2>2, <1>1, <1>10, <1>11, <1>12, SecsAssumption
    <2>3. CASE c.until = 0
      <3>1. r.fail = c.fail + 1 /\ Counted = c.fail
        BY <2>3, <1>3, <1>6, <1>11, <1>14, AttemptsAssumption
      <3>2. CASE n < MaxAttempts
        BY <3>1, <3>2, <2>3, <1>1, <1>4, <1>9, <1>11, AttemptsAssumption
      <3>3. CASE n = MaxAttempts
        <4>1. j \in 1..(Len(wrong') - 1) /\ wrong'[j] = wrong[j + 1]
              /\ j + 1 \in 1..n /\ j + 1 <= n - Counted
          BY <3>1, <3>3, <1>4, <1>11, AttemptsAssumption
        <4> QED BY <4>1, <1>9, <2>3
      <3> QED BY <3>2, <3>3, <1>1, AttemptsAssumption
    <2> QED BY <2>2, <2>3
  <1> QED BY <1>11, <1>13, <1>14, AttemptsAssumption

(* A rewrite that is torn leaves an account as good as the old one. *)
LEMMA TornAccounts ==
    ASSUME TypeOK, TypeOK', NEW p \in Procs, InStep(p), TornRewrite(p),
           NEW t \in Nat, t = at[p], Accounts(t)
    PROVE  Accounts(t)'
  <1>1. CASE pc[p] = "reset"
    <2>1. wrong' = << >>
      BY <1>1 DEF TornRewrite, InStep
    <2> QED BY <2>1 DEF Accounts
  <1>2. CASE pc[p] = "strike"
    <2> DEFINE c == Clamp(header.lock, header.signed)
               r == RecordFailure(c, t)
    <2>1. c \in Lockouts /\ c.until = header.lock.until /\ header.lock \in Lockouts
          /\ header.lock.until \in Nat
      BY ClampFacts DEF TypeOK, Headers, Lockouts
    <2>2. seen[p].lock = r /\ ~IsLockedOut(header.lock, t)
      BY <1>2 DEF InStep
    <2>3. r.until = t + LockoutSecs \/ r.until = 0
      <3>1. r \in Lockouts /\ ~IsLockedOut(c, t)
        BY <2>1, <2>2, RecordFailureFacts DEF IsLockedOut
      <3>2. r.fail \in Nat
        BY <3>1 DEF Lockouts
      <3>3. /\ r.fail >= MaxAttempts => r.until = t + LockoutSecs
            /\ r.fail < MaxAttempts /\ ~IsLockedOut(c, t) => r.until = 0
        BY <2>1, RecordFailureFacts
      <3> HIDE DEF r
      <3> QED BY <3>1, <3>2, <3>3, AttemptsAssumption
    <2>4. wrong' = wrong /\ ~header'.signed
          /\ (header'.lock.until = header.lock.until \/ header'.lock.until = r.until)
      BY <1>2, <2>2 DEF TornRewrite
    <2>5. Counted' = MaxAttempts - 1 /\ Counted \in Nat /\ Counted <= MaxAttempts - 1
      <3>1. header \in Headers /\ header' \in Headers
        BY DEF TypeOK
      <3>2. Counted \in 0 .. MaxAttempts - 1
        BY <3>1, CountedFacts
      <3>3. Counted' = MaxAttempts - 1
        BY <3>1, <2>4, AttemptsAssumption DEF Counted, Clamp, Headers, Lockouts
      <3> QED BY <3>2, <3>3, AttemptsAssumption
    <2>6. header.lock.until = 0 \/ header.lock.until <= t
      BY <2>1, <2>2 DEF IsLockedOut
    <2> HIDE DEF c, r
    <2> SUFFICES ASSUME NEW j \in 1..Len(wrong)
                 PROVE  /\ wrong[j] <= t
                        /\ header'.lock.until # 0 => wrong[j] + LockoutSecs <= header'.lock.until
                        /\ header'.lock.until = 0 /\ j <= Len(wrong) - Counted'
                             => wrong[j] + LockoutSecs <= t
      BY <2>4 DEF Accounts
    <2>7. /\ wrong[j] \in Nat /\ wrong[j] <= t
          /\ header.lock.until # 0 => wrong[j] + LockoutSecs <= header.lock.until
          /\ header.lock.until = 0 /\ j <= Len(wrong) - Counted => wrong[j] + LockoutSecs <= t
          /\ Len(wrong) \in Nat
      BY DEF TypeOK, Accounts
    <2>8. j <= Len(wrong) - Counted' => wrong[j] + LockoutSecs <= t
      BY <2>1, <2>5, <2>6, <2>7, SecsAssumption, AttemptsAssumption
    <2>9. header'.lock.until # 0 => wrong[j] + LockoutSecs <= header'.lock.until
      BY <2>1, <2>3, <2>4, <2>7, SecsAssumption
    <2> QED BY <2>7, <2>8, <2>9
  <1> QED BY <1>1, <1>2 DEF TornRewrite

LEMMA TimeInit == Init => TimeInv
  BY DEF Init, TimeInv, OnTime, Accounts

LEMMA TimeNext ==
    ASSUME Serial, TypeOK, TypeOK', StepInv, TimeInv, [Next]_vars
    PROVE  TimeInv'
  <1> SUFFICES ASSUME ~setBack', NEW p \in Procs PROVE OnTime(p)'
    BY DEF TimeInv
  <1>0. \A q \in Procs : q = p
    BY DEF Serial
  <1>1. CASE SetClockBack
    BY <1>1 DEF SetClockBack
  <1> SUFFICES ASSUME ~SetClockBack PROVE OnTime(p)'
    BY <1>1
  <1>2. ~setBack
    BY DEF Next, Attempt, vars, Tick, SetClockBack, TryPassword, TryMasterCode,
       WrongPassword, ReportFailure, RightPassword, Succeed, Abandon, TornRewrite
  <1>3. OnTime(p) /\ InStep(p)
    BY <1>2 DEF TimeInv, StepInv
  <1>4. at[p] \in Nat /\ now \in Nat /\ pc \in [Procs -> Steps]
    BY DEF TypeOK
  <1>5. CASE Tick
    <2>1. now' \in Nat /\ now <= now' /\ UNCHANGED <<header, pc, at, wrong>>
      BY <1>4, <1>5 DEF Tick
    <2>2. \A t \in Nat : Accounts(t)' <=> Accounts(t)
      BY <2>1 DEF Accounts, Counted
    <2>3. pc[p] = "idle" => Accounts(now')
      BY <1>3, <1>4, <2>1, AccountsLater DEF OnTime
    <2>4. pc[p] = "idle" => (Accounts(now))'
      BY <2>1, <2>3 DEF Accounts, Counted
    <2>5. pc[p] # "idle" => at[p] <= now' /\ (Accounts(at[p]))'
      BY <1>3, <1>4, <2>1, AccountsLater DEF OnTime, Accounts, Counted
    <2> QED BY <2>1, <2>4, <2>5 DEF OnTime
  <1>6. CASE TryPassword(p)
    <2>1. pc'[p] = "derive" /\ at'[p] = now /\ UNCHANGED <<header, now, wrong>>
          /\ Accounts(now)
      BY <1>3, <1>4, <1>6 DEF TryPassword, OnTime, TypeOK
    <2> QED BY <2>1, <1>4 DEF OnTime, Accounts, Counted
  <1>7. CASE TryMasterCode(p)
    <2>1. pc'[p] = "reset" /\ at'[p] = now /\ now' = now /\ wrong' = << >>
      BY <1>4, <1>7 DEF TryMasterCode, TypeOK
    <2> QED BY <2>1, <1>4 DEF OnTime, Accounts
  <1>8. CASE WrongPassword(p)
    BY <1>3, <1>4, <1>8 DEF WrongPassword, OnTime, Accounts, Counted
  <1>9. CASE RightPassword(p)
    <2>1. wrong' = << >> /\ at' = at /\ now' = now /\ pc[p] = "derive" /\ pc'[p] = "reset"
      BY <1>4, <1>9 DEF RightPassword
    <2> QED BY <2>1, <1>3 DEF OnTime, Accounts
  <1>10. ASSUME NEW t \in Nat, t <= now, Accounts(t)', Return(p), now' = now
         PROVE  OnTime(p)'
    <2>1. \A j \in 1..Len(wrong') : wrong'[j] \in Nat
      BY DEF TypeOK
    <2>2. (Accounts(now))'
      BY <1>4, <1>10, <2>1, SecsAssumption DEF Accounts
    <2> QED BY <1>4, <1>10, <2>2 DEF Return, OnTime
  <1>11. CASE ReportFailure(p)
    BY <1>3, <1>4, <1>10, <1>11, ReportAccounts DEF ReportFailure, OnTime
  <1>12. CASE Succeed(p)
    <2>1. wrong' = << >>
      BY <1>3, <1>12 DEF Succeed, InStep
    <2> QED BY <1>10, <1>12, <1>4, <2>1 DEF Succeed, Accounts
  <1>13. CASE Abandon(p)
    <2>1. pc[p] # "idle" /\ UNCHANGED <<header, now, wrong>> /\ Return(p)
      BY <1>13 DEF Abandon
    <2>2. at[p] <= now /\ Accounts(at[p])
      BY <2>1, <1>3 DEF OnTime
    <2>3. ASSUME NEW t \in Nat, t = at[p] PROVE Accounts(t)'
      BY <2>1, <2>2, <2>3 DEF Accounts, Counted
    <2> QED BY <1>4, <1>10, <2>1, <2>2, <2>3
  <1>14. CASE TornRewrite(p)
    BY <1>3, <1>4, <1>10, <1>14, TornAccounts DEF TornRewrite, OnTime
  <1>15. CASE UNCHANGED vars
    BY <1>3, <1>15 DEF vars, OnTime, Accounts, Counted
  <1> QED
    BY <1>0, <1>5, <1>6, <1>7, <1>8, <1>9, <1>11, <1>12, <1>13, <1>14, <1>15 DEF Next, Attempt

LEMMA RateLimitStep ==
    ASSUME TypeOK, StepInv, TimeInv, NEW p \in Procs,
           ReportFailure(p), ~setBack, Len(wrong) = MaxAttempts
    PROVE  at[p] >= wrong[1] + LockoutSecs
  <1> USE DEF TypeOK
  <1>1. Accounts(at[p]) /\ ~IsLockedOut(header.lock, at[p])
    BY DEF TimeInv, OnTime, StepInv, InStep, ReportFailure
  <1>2. Counted \in 0 .. MaxAttempts - 1 /\ header.lock.until \in Nat /\ at[p] \in Nat
    BY CountedFacts DEF Headers, Lockouts
  <1>3. 1 \in 1..Len(wrong) /\ wrong[1] \in Nat
    BY AttemptsAssumption
  <1>4. /\ header.lock.until # 0 => wrong[1] + LockoutSecs <= header.lock.until
        /\ header.lock.until = 0 /\ 1 <= Len(wrong) - Counted => wrong[1] + LockoutSecs <= at[p]
    BY <1>1, <1>3 DEF Accounts
  <1>5. 1 <= Len(wrong) - Counted
    BY <1>2, AttemptsAssumption
  <1> QED BY <1>1, <1>2, <1>3, <1>4, <1>5, SecsAssumption DEF IsLockedOut

(* "3 wrong attempts arm the 24 h lockout": for processes that follow each *)
(* other and a clock that is not set back, MAX_ATTEMPTS reported failures  *)
(* and the next one are never all within one lockout period, for every     *)
(* number of attempts and length of period, wherever a process dies, and   *)
(* whatever header the container came with (record_failure, the clamp in   *)
(* open_and_authorize, rewrite_header).                                    *)
THEOREM RateLimitCorrect ==
    ASSUME Serial
    PROVE  Spec => RateLimit
  <1> DEFINE I == TypeOK /\ StepInv /\ TimeInv
  <1>1. Init => I
    BY TypeInit, StepInit, TimeInit
  <1>2. I /\ [Next]_vars => I'
    BY TypeNext, StepNext, TimeNext
  <1>3. I /\ [Next]_vars =>
          [\A p \in Procs :
             ReportFailure(p) /\ ~setBack /\ Len(wrong) = MaxAttempts
               => at[p] >= wrong[1] + LockoutSecs]_vars
    BY RateLimitStep
  <1> QED BY <1>1, <1>2, <1>3, PTL DEF Spec, RateLimit

=============================================================================
