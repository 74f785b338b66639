---------------------------- MODULE LockoutState -----------------------------
(***************************************************************************)
(* lockout.rs: the three-attempts / 24-hours rule as pure functions of the *)
(* two lockout fields of a container header, and the clamp that            *)
(* open_and_authorize puts on a header this install did not sign.          *)
(***************************************************************************)
EXTENDS Integers

CONSTANTS
    MaxAttempts,   \* MAX_ATTEMPTS, 3
    LockoutSecs    \* LOCKOUT_SECS, 24 h in clock ticks

ASSUME AttemptsAssumption == MaxAttempts \in Nat \ {0}
ASSUME SecsAssumption == LockoutSecs \in Nat \ {0}

Lockouts == [fail: Nat, until: Nat]

Clear == [fail |-> 0, until |-> 0]

(* LockoutState::check: until = 0 means not locked *)
IsLockedOut(s, now) == s.until # 0 /\ now < s.until

(* mutant: one attempt too many *)
RecordFailureLate(s, now) ==
    LET window == IF s.until # 0 /\ now >= s.until THEN Clear ELSE s
        fails  == window.fail + 1
    IN  [fail  |-> fails,
         until |-> IF fails > MaxAttempts THEN now + LockoutSecs ELSE window.until]

(* mutant: the period is taken off the clock instead of added *)
RecordFailureBack(s, now) ==
    [fail  |-> s.fail + 1,
     until |-> IF s.fail + 1 >= MaxAttempts THEN now - LockoutSecs ELSE s.until]

(* mutant: a lockout that ran out is not reset *)
RecordFailureOnAndOn(s, now) ==
    LET fails == s.fail + 1
    IN  [fail  |-> fails,
         until |-> IF fails >= MaxAttempts THEN now + LockoutSecs ELSE s.until]

(* LockoutState::record_failure: a lockout that ran out starts afresh *)
RecordFailure(s, now) ==
    LET window == IF s.until # 0 /\ now >= s.until THEN Clear ELSE s
        fails  == window.fail + 1
    IN  [fail  |-> fails,
         until |-> IF fails >= MaxAttempts THEN now + LockoutSecs ELSE window.until]

(* fields under a foreign or broken signature: at most one attempt left *)
Clamp(s, signed) ==
    IF ~signed /\ s.fail < MaxAttempts - 1
    THEN [s EXCEPT !.fail = MaxAttempts - 1] ELSE s

=============================================================================
