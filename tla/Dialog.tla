------------------------------- MODULE Dialog --------------------------------
(***************************************************************************)
(* One FolderVault dialog (ui.rs): a window with its message queue, the    *)
(* worker thread that runs lock_folder, unlock_container or                *)
(* verify_and_delete, the countdown timer of a locked-out container, and   *)
(* the lockout fields of that container, which other processes also        *)
(* change.  Painting, layout, focus and the shake animation are left out;  *)
(* of the status line, the number of attempts it promises is kept.         *)
(***************************************************************************)
EXTENDS LockoutState, Sequences

CONSTANTS
    Modes,        \* the dialogs to open, a subset of AllModes
    InitHeaders,  \* the container headers a dialog may meet
    CountRange,   \* the values of a u32, 2^32 in the code
    MaxFail,      \* bound on fail_count, which torn rewrites can raise
    MaxTime,      \* bound on the clock
    MaxProgress   \* bound on progress messages per operation (100 in the code)

AllModes == {"lock", "unlock", "delete", "setup"}

Headers == [lock: Lockouts, signed: BOOLEAN, enrolled: BOOLEAN]

ASSUME ModesAssumption == Modes \subseteq AllModes
ASSUME InitHeadersAssumption == InitHeaders \subseteq Headers
ASSUME CountAssumption == CountRange \in Nat /\ CountRange > MaxAttempts
ASSUME FailAssumption == MaxFail \in Nat /\ MaxFail > MaxAttempts
ASSUME TimeAssumption == MaxTime \in Nat
ASSUME ProgressAssumption == MaxProgress \in Nat

(* what is in the edit field(s) when the button is pressed *)
Inputs == {"rightPassword", "wrongPassword", "rightCode", "wrongCode"}
Codes == {"rightCode", "wrongCode"}

NoPromise == -1   \* the status line says nothing of attempts

Promises == {NoPromise} \cup 0 .. CountRange - 1

(* what a job returns: its error, and the attempts left or the time it     *)
(* carries                                                                 *)
Result(k, n) == [kind |-> k, n |-> n]
Results == [kind: {"none", "ok", "wrong", "lockedOut", "error"}, n: Nat]
NoResult == Result("none", 0)

VARIABLES
    mode,      \* App::mode
    window,    \* "none", "open", "closed" by the dialog, "killed" past it
    phase,     \* App::phase: "input", "busy" or "lockedOut"
    until,     \* LockedOut { until_unix }
    edit,      \* the edit field is enabled
    shown,     \* the edit fields are visible
    timer,     \* TIMER_COUNTDOWN is set
    master,    \* master_mode
    available, \* master_available
    promise,   \* the attempts the status line says remain
    succeeded, \* App::succeeded
    workers,   \* worker threads: what each was given and how far it is
    slot,      \* App::result
    msgs,      \* the window's message queue
    header,    \* on disk: the lockout fields, whether this install signed
               \* them, and whether a recovery code is enrolled
    now,       \* the wall clock
    torn       \* history: a rewrite that was cut short has left this header a
               \* full count without a lockout

screen == <<phase, until, edit, shown, timer, promise>>
switch == <<master, available>>
thread == <<workers, slot, msgs>>
shared == <<header, now, torn>>
vars == <<mode, window, screen, switch, succeeded, thread, shared>>

(* what no rewrite leaves that is done to the end *)
Overcounted(l) == l.fail > MaxAttempts \/ (l.fail = MaxAttempts /\ l.until = 0)

Init ==
    /\ mode \in Modes
    /\ window = "none" /\ phase = "input" /\ until = 0
    /\ edit = TRUE /\ shown = TRUE /\ timer = FALSE /\ master = FALSE /\ available = TRUE
    /\ promise = NoPromise /\ succeeded = FALSE
    /\ workers = << >> /\ slot = NoResult /\ msgs = << >>
    /\ header \in InitHeaders /\ torn = Overcounted(header.lock)
    /\ now = 0

-----------------------------------------------------------------------------
(* The screen: its phases, which leave it to their callers whether the     *)
(* fields are shown                                                        *)

(* mutant: the field stays disabled *)
ReopenDisabled ==
    /\ phase' = "input" /\ timer' = FALSE
    /\ promise' = NoPromise
    /\ UNCHANGED <<until, edit>>

(* update_countdown when the time has come *)
Reopen ==
    /\ phase' = "input" /\ timer' = FALSE /\ edit' = TRUE
    /\ promise' = NoPromise
    /\ UNCHANGED until

(* mutant: the countdown timer is not set *)
EnterLockoutUntimed(u) ==
    /\ phase' = "lockedOut" /\ until' = u
    /\ edit' = (master /\ edit)
    /\ promise' = NoPromise
    /\ UNCHANGED timer

(* enter_lockout, which calls update_countdown at once *)
EnterLockout(u) ==
    IF now >= u
    THEN Reopen
    ELSE /\ phase' = "lockedOut" /\ until' = u /\ timer' = TRUE
         /\ edit' = (master /\ edit)
         /\ promise' = NoPromise

ShowInput(n) ==
    /\ phase' = "input" /\ promise' = n
    /\ UNCHANGED <<until, edit, timer>>

(* u32 subtraction as the release build computes it *)
AttemptsLeft(fails) == (MaxAttempts - fails) % CountRange

(* on_create: inspect() reads the container's header, unless it fails *)
OnCreate ==
    /\ window = "none" /\ window' = "open"
    /\ \/ /\ mode \in {"unlock", "delete"}
          /\ LET fails == IF header.signed THEN header.lock.fail ELSE MaxAttempts - 1
             IN  IF header.lock.until > now
                 THEN EnterLockout(header.lock.until)
                 ELSE ShowInput(IF fails > 0 THEN AttemptsLeft(fails) ELSE NoPromise)
          /\ available' = header.enrolled
       \/ ShowInput(NoPromise) /\ UNCHANGED available
    /\ UNCHANGED <<mode, shown, master, succeeded, thread, shared>>

(* DestroyWindow: the message loop ends, main returns and the process with *)
(* all its threads is gone.                                                *)
Destroy(how) ==
    /\ window' = how
    /\ workers' = << >> /\ msgs' = << >> /\ slot' = NoResult
    /\ UNCHANGED <<mode, screen, switch, shared>>

(* mutant: the close button works at any time *)
OnCloseAlways ==
    /\ window = "open"
    /\ Destroy("closed")
    /\ UNCHANGED succeeded

(* ID_CLOSE: the X button, and Esc *)
OnClose ==
    /\ window = "open" /\ phase # "busy"
    /\ Destroy("closed")
    /\ UNCHANGED succeeded

(* WM_CLOSE (Alt+F4, "Close window" in the task bar) is left to            *)
(* DefWindowProc, which destroys the window: in every phase.               *)
WmClose ==
    /\ window = "open"
    /\ Destroy("killed")
    /\ UNCHANGED succeeded

(* on_toggle_master, in every phase *)
OnToggleMaster ==
    /\ window = "open" /\ mode \in {"unlock", "delete"}
    /\ IF available \/ master
       THEN master' = ~master /\ UNCHANGED promise
       ELSE promise' = NoPromise /\ UNCHANGED master
    /\ UNCHANGED <<mode, window, phase, until, edit, shown, timer, available, succeeded,
                   thread, shared>>

-----------------------------------------------------------------------------
(* The button *)

Offered ==
    IF mode = "lock" THEN {"rightPassword"}
    ELSE IF master THEN Codes ELSE {"rightPassword", "wrongPassword"}

(* on_primary: empty, too short or unequal passwords get a hint *)
PrimaryInvalid ==
    /\ window = "open" /\ phase = "input" /\ mode # "setup"
    /\ ShowInput(NoPromise)
    /\ UNCHANGED <<mode, window, shown, switch, succeeded, thread, shared>>

(* mutant: start_busy is forgotten, so a second press starts a second one *)
PrimaryTwice(i) ==
    /\ window = "open" /\ phase = "input" /\ mode # "setup"
    /\ i \in Offered
    /\ workers' = Append(workers, [input |-> i, step |-> "run", sent |-> 0])
    /\ UNCHANGED <<mode, window, screen, switch, succeeded, slot, msgs, shared>>

(* on_primary, start_busy, which hides the fields, and spawn_worker *)
Primary(i) ==
    /\ window = "open" /\ phase = "input" /\ mode # "setup"
    /\ i \in Offered
    /\ phase' = "busy" /\ shown' = FALSE
    /\ workers' = Append(workers, [input |-> i, step |-> "run", sent |-> 0])
    /\ UNCHANGED <<mode, window, until, edit, timer, promise, switch, succeeded,
                   slot, msgs, shared>>

(* Setup: "I saved it" *)
PrimarySetup ==
    /\ window = "open" /\ phase = "input" /\ mode = "setup"
    /\ succeeded' = TRUE
    /\ Destroy("closed")

-----------------------------------------------------------------------------
(* The worker thread *)

Running(w) == w \in DOMAIN workers /\ workers[w].step = "run"

(* PostMessageW(WM_APP_PROGRESS) each time the percentage changes *)
PostProgress(w) ==
    /\ Running(w) /\ workers[w].sent < MaxProgress
    /\ workers' = [workers EXCEPT ![w].sent = @ + 1]
    /\ msgs' = Append(msgs, "progress")
    /\ UNCHANGED <<mode, window, screen, switch, succeeded, slot, shared>>

Clamped == Clamp(header.lock, header.signed)

Rewritten(s) == [header EXCEPT !.lock = s, !.signed = TRUE]

(* What the operation makes of the input: its result, and the header that  *)
(* open_and_authorize leaves.  (The race of two attempts over the header   *)
(* is the subject of module Lockout; here an attempt is one step.)         *)
Verdict(i) ==
    IF mode = "lock" THEN [result |-> Result("ok", 0), header |-> header]
    ELSE IF i \in Codes THEN
        IF i = "rightCode" /\ header.enrolled
        THEN [result |-> Result("ok", 0), header |-> Rewritten(Clear)]
        ELSE [result |-> Result("error", 0), header |-> header]
    ELSE IF IsLockedOut(Clamped, now) THEN
        [result |-> Result("lockedOut", Clamped.until), header |-> header]
    ELSE IF i = "rightPassword" THEN
        [result |-> Result("ok", 0), header |-> Rewritten(Clear)]
    ELSE LET s == RecordFailure(Clamped, now)
         IN  [result |-> IF s.fail >= MaxAttempts THEN Result("lockedOut", s.until)
                         ELSE Result("wrong", MaxAttempts - s.fail),
              header |-> Rewritten(s)]

(* The job returns and its result goes into the slot. *)
FinishJob(w) ==
    /\ Running(w)
    /\ LET v == Verdict(workers[w].input) IN
         /\ v.header.lock.until <= MaxTime /\ v.header.lock.fail <= MaxFail
         /\ slot' = v.result
         /\ header' = v.header
    /\ workers' = [workers EXCEPT ![w].step = "post"]
    /\ UNCHANGED <<mode, window, screen, switch, succeeded, msgs, now, torn>>

(* mutant: the thread ends on an error without a word *)
FailJobSilently(w) ==
    /\ Running(w)
    /\ workers' = << >>
    /\ UNCHANGED <<mode, window, screen, switch, succeeded, slot, msgs, shared>>

(* Anything else the operation can fail with, before or after the          *)
(* password was checked.                                                   *)
FailJob(w) ==
    /\ Running(w)
    /\ slot' = Result("error", 0)
    /\ \/ UNCHANGED header
       \/ /\ Verdict(workers[w].input).result.kind = "ok"
          /\ header' = Verdict(workers[w].input).header
    /\ workers' = [workers EXCEPT ![w].step = "post"]
    /\ UNCHANGED <<mode, window, screen, switch, succeeded, msgs, now, torn>>

(* PostMessageW(WM_APP_DONE); the thread ends *)
PostDone(w) ==
    /\ w \in DOMAIN workers /\ workers[w].step = "post"
    /\ msgs' = Append(msgs, "done")
    /\ workers' = SubSeq(workers, 1, w - 1) \o SubSeq(workers, w + 1, Len(workers))
    /\ UNCHANGED <<mode, window, screen, switch, succeeded, slot, shared>>

-----------------------------------------------------------------------------
(* The message loop *)

Dispatch(m) == window = "open" /\ msgs # << >> /\ Head(msgs) = m

OnProgress ==
    /\ Dispatch("progress")
    /\ msgs' = Tail(msgs)
    /\ UNCHANGED <<mode, window, screen, switch, succeeded, workers, slot, shared>>

(* on_done: success closes the window *)
OnDoneOk ==
    /\ Dispatch("done") /\ slot.kind = "ok"
    /\ succeeded' = TRUE
    /\ Destroy("closed")

(* mutant: an error leaves the fields hidden *)
OnDoneErrHidden ==
    /\ Dispatch("done") /\ slot.kind # "ok"
    /\ msgs' = Tail(msgs) /\ slot' = NoResult
    /\ UNCHANGED shown
    /\ CASE slot.kind = "lockedOut" -> EnterLockout(slot.n)
         [] slot.kind = "wrong" -> ShowInput(slot.n)
         [] slot.kind = "error" -> ShowInput(NoPromise)
         [] slot.kind = "none" -> UNCHANGED <<phase, until, edit, timer, promise>>
    /\ UNCHANGED <<mode, window, switch, succeeded, workers, shared>>

(* on_done: an error brings the fields back, or the countdown up *)
OnDoneErr ==
    /\ Dispatch("done") /\ slot.kind # "ok"
    /\ msgs' = Tail(msgs) /\ slot' = NoResult
    /\ IF slot.kind = "none" THEN UNCHANGED shown ELSE shown' = TRUE
    /\ CASE slot.kind = "lockedOut" -> EnterLockout(slot.n)
         [] slot.kind = "wrong" -> ShowInput(slot.n)
         [] slot.kind = "error" -> ShowInput(NoPromise)
         [] slot.kind = "none" -> UNCHANGED <<phase, until, edit, timer, promise>>
    /\ UNCHANGED <<mode, window, switch, succeeded, workers, shared>>

(* on_timer, TIMER_COUNTDOWN *)
OnTimer ==
    /\ window = "open" /\ timer
    /\ phase = "lockedOut" /\ now >= until
    /\ Reopen
    /\ UNCHANGED <<mode, window, shown, switch, succeeded, thread, shared>>

-----------------------------------------------------------------------------
(* The world around the dialog *)

Tick ==
    /\ now < MaxTime /\ now' = now + 1
    /\ UNCHANGED <<mode, window, screen, switch, succeeded, thread, header, torn>>

(* another process reports a wrong password on the same container *)
OtherAttempt ==
    /\ ~IsLockedOut(Clamped, now)
    /\ LET s == RecordFailure(Clamped, now)
       IN  s.until <= MaxTime /\ s.fail <= MaxFail /\ header' = Rewritten(s)
    /\ UNCHANGED <<mode, window, screen, switch, succeeded, thread, now, torn>>

(* another process dies inside rewrite_header, after a right credential or *)
(* a wrong password: count and time are old or new, the HMAC fits neither  *)
OtherTorn ==
    /\ \E new \in {Clear} \cup
                  (IF IsLockedOut(Clamped, now) THEN {} ELSE {RecordFailure(Clamped, now)}) :
         \E f \in {header.lock.fail, new.fail}, u \in {header.lock.until, new.until} :
           /\ f <= MaxFail /\ u <= MaxTime
           /\ header' = [header EXCEPT !.lock = [fail |-> f, until |-> u], !.signed = FALSE]
    /\ torn' = (torn \/ Overcounted(header'.lock))
    /\ UNCHANGED <<mode, window, screen, switch, succeeded, thread, now>>

Worker(w) == PostProgress(w) \/ FinishJob(w) \/ FailJob(w) \/ PostDone(w)

Loop == OnProgress \/ OnDoneOk \/ OnDoneErr \/ OnTimer

User ==
    \/ OnCreate \/ OnClose \/ OnToggleMaster \/ PrimaryInvalid \/ PrimarySetup
    \/ \E i \in Inputs : Primary(i)

Work == \E w \in DOMAIN workers : Worker(w)

Next == User \/ Loop \/ Work \/ Tick \/ OtherAttempt \/ OtherTorn \/ WmClose

Spec == Init /\ [][Next]_vars

(* The system runs threads, delivers posted messages and timer ticks, and  *)
(* time passes.  Nobody is obliged to press anything.                      *)
FairSpec == Spec /\ WF_vars(Work) /\ WF_vars(Loop) /\ WF_vars(Tick)

-----------------------------------------------------------------------------
(* Properties *)

Jobs == [input: Inputs, step: {"run", "post"}, sent: 0 .. MaxProgress]

(* The fields of App, the result slot and the header keep their types; in  *)
(* particular locked_until is never before the epoch.                      *)
TypeOK ==
    /\ mode \in Modes
    /\ window \in {"none", "open", "closed", "killed"}
    /\ phase \in {"input", "busy", "lockedOut"}
    /\ until \in Nat
    /\ edit \in BOOLEAN /\ shown \in BOOLEAN /\ timer \in BOOLEAN
    /\ master \in BOOLEAN /\ available \in BOOLEAN
    /\ promise \in Promises
    /\ succeeded \in BOOLEAN
    /\ workers \in Seq(Jobs)
    /\ slot \in Results
    /\ msgs \in Seq({"progress", "done"})
    /\ header \in Headers
    /\ now \in Nat
    /\ torn \in BOOLEAN

Pending(m) == {i \in DOMAIN msgs : msgs[i] = m}

(* However often and however fast the button is pressed, one dialog runs   *)
(* one operation at a time, and the next one starts only after the result  *)
(* and all progress of the last one have been taken from the queue.        *)
OneOperation ==
    /\ \A w \in DOMAIN workers : w = 1
    /\ workers # << >> => Pending("done") = {}
    /\ workers # << >> \/ msgs # << >> => phase = "busy"

(* ID_CLOSE's comment, "Don't tear down mid-operation": the dialog never   *)
(* closes its window, and ends the process with it, while the worker is    *)
(* changing the disk.  (WM_CLOSE, which it leaves to DefWindowProc, can.)  *)
NoTearDown ==
    [][window = "open" /\ window' = "closed" => \A w \in DOMAIN workers : ~Running(w)]_vars

(* enter_lockout disables the field and start_busy hides it: whenever the  *)
(* dialog asks for input, whichever way the lockout screen was entered and *)
(* left and whatever an operation came back with, the field is usable.     *)
CanTypeAgain == window = "open" /\ phase = "input" => edit /\ shown

(* on_create and on_done promise no more attempts than MAX_ATTEMPTS,       *)
(* whatever other processes and lockouts that ran out have done to the     *)
(* count, which on_create subtracts unsigned; the one way to a number that *)
(* wraps is a process that died between count and time of a rewrite.       *)
NoMoreThanMaxAttempts == promise > MaxAttempts => torn

(* "the op completes and closes the window itself": a busy dialog comes    *)
(* back with an answer or closes.                                          *)
BusyEnds == phase = "busy" ~> (phase # "busy" \/ window # "open")

(* "You can try again now": the lockout screen ends. *)
LockoutScreenEnds == phase = "lockedOut" ~> (phase # "lockedOut" \/ window # "open")

=============================================================================
