------------------------------- MODULE Lockout -------------------------------
(***************************************************************************)
(* open_and_authorize (format.rs) as processes run it on one container:    *)
(* read the header, check the lockout, spend a second in Argon2, then      *)
(* rewrite the whole header.  Unlock and delete, from the CLI and from the *)
(* dialog, all go through it.                                              *)
(*                                                                         *)
(* The header is its two lockout fields and whether its HMAC verifies      *)
(* under this install's key.                                               *)
(***************************************************************************)
EXTENDS LockoutState, Sequences

CONSTANTS
    Procs,
    MaxTime,     \* bound on the clock
    MaxFail,     \* bound on fail_count, which torn rewrites can let grow
    InitHeaders  \* the headers a container may arrive with

VARIABLES
    header,   \* on disk: [lock: Lockouts, signed: BOOLEAN]
    now,      \* the wall clock
    pc,       \* per process
    seen,     \* per process: the header it read, clamped, then updated
    at,       \* per process: now_unix, taken when the command was called
    setBack,  \* history: has the clock ever been set back?
    wrong     \* history: times of the wrong passwords reported since a right
              \* credential was given, at most the MaxAttempts latest

vars == <<header, now, pc, seen, at, setBack, wrong>>

Headers == [lock: Lockouts, signed: BOOLEAN]

ASSUME MaxTimeAssumption == MaxTime \in Nat
ASSUME MaxFailAssumption == MaxFail \in Nat /\ MaxFail > MaxAttempts
ASSUME InitHeadersAssumption == InitHeaders \subseteq Headers

Signed(s) == [lock |-> s, signed |-> TRUE]

(* write_container signs a clear lockout; any other header is foreign *)
ASSUME OwnHeaderAssumption == \A h \in InitHeaders : h.signed => h = Signed(Clear)

Steps == {"idle", "derive", "strike", "reset"}

Init ==
    /\ header \in InitHeaders
    /\ now = 0
    /\ pc = [p \in Procs |-> "idle"]
    /\ seen = [p \in Procs |-> Signed(Clear)]
    /\ at = [p \in Procs |-> 0]
    /\ setBack = FALSE
    /\ wrong = << >>

(* Leave open_and_authorize; what the process knew is forgotten. *)
Return(p) ==
    /\ pc' = [pc EXCEPT ![p] = "idle"]
    /\ seen' = [seen EXCEPT ![p] = Signed(Clear)]
    /\ at' = [at EXCEPT ![p] = 0]

ClampedHeader == [header EXCEPT !.lock = Clamp(header.lock, header.signed)]

(* mutant: LockoutState::check is not called *)
TryPasswordUnchecked(p) ==
    /\ pc[p] = "idle"
    /\ pc' = [pc EXCEPT ![p] = "derive"]
    /\ seen' = [seen EXCEPT ![p] = ClampedHeader]
    /\ at' = [at EXCEPT ![p] = now]
    /\ UNCHANGED <<header, now, setBack, wrong>>

(* A password is typed and the lockout lets it through to Argon2. *)
TryPassword(p) ==
    /\ pc[p] = "idle"
    /\ ~IsLockedOut(ClampedHeader.lock, now)
    /\ pc' = [pc EXCEPT ![p] = "derive"]
    /\ seen' = [seen EXCEPT ![p] = ClampedHeader]
    /\ at' = [at EXCEPT ![p] = now]
    /\ UNCHANGED <<header, now, setBack, wrong>>

(* A right recovery code skips the check; a wrong one changes nothing. *)
TryMasterCode(p) ==
    /\ pc[p] = "idle"
    /\ pc' = [pc EXCEPT ![p] = "reset"]
    /\ seen' = [seen EXCEPT ![p] = ClampedHeader]
    /\ at' = [at EXCEPT ![p] = now]
    /\ wrong' = << >>
    /\ UNCHANGED <<header, now, setBack>>

(* unwrap_key fails: the failure is counted in memory ... *)
WrongPassword(p) ==
    /\ pc[p] = "derive"
    /\ seen[p].lock.fail < MaxFail
    /\ pc' = [pc EXCEPT ![p] = "strike"]
    /\ seen' = [seen EXCEPT ![p].lock = RecordFailure(@, at[p])]
    /\ UNCHANGED <<header, now, at, setBack, wrong>>

Latest(w, t) ==
    IF Len(w) < MaxAttempts THEN Append(w, t) ELSE Append(Tail(w), t)

(* ... and on disk, before the caller hears of it. *)
ReportFailure(p) ==
    /\ pc[p] = "strike"
    /\ header' = Signed(seen[p].lock)
    /\ wrong' = Latest(wrong, at[p])
    /\ Return(p)
    /\ UNCHANGED <<now, setBack>>

RightPassword(p) ==
    /\ pc[p] = "derive"
    /\ pc' = [pc EXCEPT ![p] = "reset"]
    /\ wrong' = << >>
    /\ UNCHANGED <<header, now, seen, at, setBack>>

(* success: rewrite only a header that is not clean and ours *)
Succeed(p) ==
    /\ pc[p] = "reset"
    /\ header' = IF seen[p] = Signed(Clear) THEN header ELSE Signed(Clear)
    /\ Return(p)
    /\ UNCHANGED <<now, setBack, wrong>>

(* Argon2 or rewrite_header fails, or the process dies before the rewrite. *)
Abandon(p) ==
    /\ pc[p] # "idle"
    /\ Return(p)
    /\ UNCHANGED <<header, now, setBack, wrong>>

(* The process dies inside rewrite_header's write_all: some bytes are new, *)
(* some old, and the HMAC no longer matches.                               *)
TornRewrite(p) ==
    /\ pc[p] \in {"strike", "reset"}
    /\ LET new == IF pc[p] = "strike" THEN seen[p].lock ELSE Clear
       IN  \E f \in {header.lock.fail, new.fail}, u \in {header.lock.until, new.until} :
             header' = [lock |-> [fail |-> f, until |-> u], signed |-> FALSE]
    /\ Return(p)
    /\ UNCHANGED <<now, setBack, wrong>>

Tick ==
    /\ now < MaxTime /\ now' = now + 1
    /\ UNCHANGED <<header, pc, seen, at, setBack, wrong>>

(* The user, or a time server, sets the clock back. *)
SetClockBack ==
    /\ now > 0 /\ now' \in 0 .. now - 1
    /\ setBack' = TRUE
    /\ UNCHANGED <<header, pc, seen, at, wrong>>

Attempt(p) ==
    \/ TryPassword(p) \/ TryMasterCode(p) \/ WrongPassword(p) \/ ReportFailure(p)
    \/ RightPassword(p) \/ Succeed(p) \/ Abandon(p) \/ TornRewrite(p)

Next == Tick \/ SetClockBack \/ \E p \in Procs : Attempt(p)

Spec == Init /\ [][Next]_vars

-----------------------------------------------------------------------------
(* Properties *)

(* The header fields and what an attempt holds of them keep their types;   *)
(* in particular locked_until never wraps below zero.                      *)
TypeOK ==
    /\ header \in Headers
    /\ now \in Nat
    /\ pc \in [Procs -> Steps]
    /\ seen \in [Procs -> Headers]
    /\ at \in [Procs -> Nat]
    /\ setBack \in BOOLEAN
    /\ wrong \in Seq(Nat) /\ Len(wrong) <= MaxAttempts

(* "3 wrong attempts arm the 24 h lockout": however the attempts are       *)
(* spread, whatever crashes in between, the MaxAttempts latest reported    *)
(* failures and the next one are never all within one lockout period, as   *)
(* long as the clock by which they are measured has not been set back.     *)
RateLimit ==
    [][\A p \in Procs :
         ReportFailure(p) /\ ~setBack /\ Len(wrong) = MaxAttempts
           => at[p] >= wrong[1] + LockoutSecs]_vars

(* lockout.rs, "clock rollback does not shorten the lockout", for whole    *)
(* histories of attempts: a lockout in force is lifted or brought forward  *)
(* only by a right credential, or by an attempt that began after it ended  *)
(* (the clock being set back under it).                                    *)
LockoutHolds ==
    [][IsLockedOut(header.lock, now) =>
         \/ header'.lock.until >= header.lock.until
         \/ \E p \in Procs : \/ pc[p] = "reset"
                             \/ pc[p] = "strike" /\ at[p] >= header.lock.until]_vars

(* A header signed by this install that shows MaxAttempts failures carries *)
(* the time its lockout ends.                                              *)
FullCountIsArmed ==
    header.signed /\ header.lock.fail >= MaxAttempts => header.lock.until # 0

=============================================================================
