# FolderVault: a TLA+ verification of the vault operations

FolderVault turns a folder `Photos` into one encrypted file `Photos.fvlt` and back.
This directory holds TLA+ models of the code that could cost a user data, access or
an honest answer, the TLC runs that check them, and TLAPS proofs of the central results.
Paths below are relative to `crates/`.

## 1. The system

| Part | Source | State | Operations |
|---|---|---|---|
| Vault operations | `vault-core/src/format.rs` | the folder, `Photos.fvlt`, the staging paths `Photos.fvlt.tmp` and `Photos.__restoring` | `lock_folder`, `unlock_container`, `verify_and_delete` |
| Journal | `vault-core/src/journal.rs` | one `<uuid>.jrec` per operation in flight | `begin`, `complete`, `recover`/`replay` |
| Recycle, guard | `vault-core/src/trash.rs` | the read-only bit | `recycle`, `set_readonly` |
| Lockout | `vault-core/src/lockout.rs`, `open_and_authorize` in `format.rs` | `fail_count`, `locked_until`, HMAC in the header | `check`, `record_failure`, `reset`, the clamp of foreign headers |
| Dialog | `vault-app/src/ui.rs` | `App` (phase, mode, slot), window queue, timer, worker thread | `on_create`, `on_primary`, `on_toggle_master`, `on_done`, `enter_lockout`, `update_countdown`, close |
| Walk | `vault-core/src/walk.rs` | none | `scan` |
| Secrets | `vault-core/src/secrets.rs` | `install.key`, `master.pub` | load, create, save |
| Recovery code | `vault-core/src/recovery.rs` | none | generate, encode, decode, seal, open |
| Cryptography | `vault-core/src/crypto.rs` | none | Argon2id, AES-GCM frames, HMAC |
| Front ends | `vault-cli/src/main.rs`, `vault-app/src/main.rs` | none of their own | start-up recovery, then one command; first-run setup |
| Explorer | `vault-app/src/shell.rs`, `vault-shellext/` | registry entries | register, unregister |

How they interact. Every process, CLI or dialog, first runs `recover()` over the shared
journal directory, then one command (the dialog may retry after an error). Processes share
the disk and nothing else: there is no lock file and no file lock. Inside the dialog the
window thread and the worker share the result slot and talk by posted messages. Unlock and
delete both pass through `open_and_authorize`, which reads the header, derives a key for
about a second and rewrites the header.

Unlock and delete look up `install.key` to tell their own containers from foreign ones, lock
seals every container to `master.pub` where one is enrolled.

What is hard here: a crash, a failed call or a power failure between any two file-system
calls; recovery that acts on what another process is still doing; records that outlive their
operation; staging paths, secret files and registry entries shared by processes without a
lock; a counter read before and written after a slow step; a folder that changes while it is
copied and a container that changed before it is opened; messages that arrive after the state
they are about has changed. `PROJECT.json` lists every hazard at its line with the properties
that cover it, or why none does.

What makes each part correct. Vault operations and journal: one complete copy at every
instant, no half-restored folder, recovery that ends, and harm from records left behind confined
to one known step. Container: what comes out is what went in, or nothing; what locks opens. Lockout: at most `MAX_ATTEMPTS`
reported failures per lockout period, a lockout that no clock shortens. Dialog: one operation
at a time, no tear-down under it, screens that end and a usable field. Secrets: one install key
for all that is signed, no master key without its code. Registration: a launch that gets
through leaves every entry right. Recovery code: its own secret back, no other.

## 2. Modules

| Module | What it is |
|---|---|
| `VaultOps` | lock, unlock, delete, recovery of one vault by processes on a shared disk |
| `VaultInv` | the inductive invariants: `IInv`, for processes that follow each other, `SkipInv`, for the same when recovery's own calls fail, and `BesideInv`, for a lock beside recoveries |
| `TwoCopies` | the abstract promise: two places, a copy is dropped only while the other is complete |
| `VaultRefinement` | the mapping from `VaultOps` to `TwoCopies` |
| `PowerLoss` | `VaultOps` on a disk that has not written everything when the power fails; extends `VaultOps` |
| `ContainerFile` | scan, copy, the frames and keys of a container, extraction, structure check |
| `LockoutState` | `lockout.rs` and the foreign-header clamp as operators |
| `Lockout` | `open_and_authorize` run by processes under a clock; extends `LockoutState` |
| `Dialog` | window, worker, queue, timer, and the lockout fields of its container; extends `LockoutState` |
| `Secrets` | `install.key` and `master.pub`, first-run setup and `master-init` |
| `Registration` | the Explorer entries in the registry |
| `RecoveryCode` | the code of 56 characters, and its reading back |
| `MC...` | instances for TLC |
| `X_proofs` | theorems and proofs about `X`: `VaultOps` (with its refinement of `TwoCopies`), `PowerLoss`, `ContainerFile`, `Lockout`, `Dialog`, `Secrets`, `Registration`, `RecoveryCode` |

How they fit together. `VaultOps` takes a file to be copied or extracted as a whole and takes
`verify_structure` to accept some short containers; `ContainerFile` is what is inside those
steps. An attempt on the header is one step of `Dialog` and several of `Lockout`. `Secrets` and
`Registration` are what `main` does before it opens a dialog.

### VaultOps

A folder is the set of its files that are present and intact, so "half deleted", "half wiped"
and "half restored" are proper subsets. A container is its manifest (`toc`), the files whose
frames are in it, and its read-only bit. A journal record is none, `torn` (created, not yet
written), or of kind lock or unlock. `pc[p]` is the next system call of process `p`; each
call that changes the disk is an action, and each that can fail has its failure, with the
clean-up the code does on that path and no other. `Crash(p)` ends a process at any step.

- `RemoveFolder` removes file by file, at once (a move to the Recycle Bin), or gives up
  half-way. A recycled copy counts as gone although the Recycle Bin may still hold it: the
  properties speak of what the program itself can find again.
- `VerifyStructure` may accept a short container: the code walks frames to the end of the file
  without the manifest, so one that ends on a frame boundary passes.
- `LockCopy` writes through the open handle, so the bytes follow the file when another process
  has renamed it.
- `data` is a history variable: what the user entrusted and has not deleted with the password.
- `RecoverRecord` reads a record; a torn one, like one that was replayed, is removed by a step of
  its own, `DropRecord`.
- `Next` takes the journal directory to work while `recover()` lists it, reads records and removes
  them. `SkipNext` (and `SkipSpec`) drops that: recovery may be skipped or cut short, and a record
  that cannot be read or removed stays (`journal.rs` 81, 85, 88, 94).

### PowerLoss

The file system is taken to be a journalling one, as NTFS is: changes of names are logged in
order and reach the medium with the next sync of any file, or by themselves (`FlushLog`);
bytes of files are written back independently (`WriteBack`). `platter` is the names as they
are on the medium, `softR`, `softF` and `wiped` the files whose bytes, or whose zeros, may or
may not be there. `PowerFail` ends all processes and leaves one of the disks this allows. Each
action is the one of `VaultOps` with what it syncs, or does not. `exposed` is a history variable
that marks the two places where the code gives up a copy on the word of unwritten bytes.

### ContainerFile

A path is a sequence of names; a name has a class (what `is_safe_component` sees) and a lossy
spelling. A ciphertext is the record of what was encrypted, under which key and with which
associated data, and opens only under those: cryptography is taken to keep that promise and
nothing else of it is used. A manifest with more entries than `MAX_MANIFEST_LEN` has room for
ends the lock, as the check at `format.rs` 361 does. The other container that frames and header
fields may come from is of a folder with the same entries and other bytes, so that a mixture of
the two would show. The lock reads the folder chunk by chunk while `EditFile` and
`RemoveFile` change it; `Damage` then cuts, exchanges, repeats or removes frames, takes some
from another container, or alters header fields (a header whose HMAC does not verify is still
used: the HMAC decides on the lockout only). I/O errors while extracting are `VaultOps`' subject.

### Lockout

`TryPassword`, `WrongPassword`, `ReportFailure` and `Succeed` are the read, the key
derivation and the rewrite. `Abandon` is an error or a death before the rewrite,
`TornRewrite` a death inside it: each field is old or new and the HMAC no longer verifies.
`wrong` remembers the times of the latest reported failures since a right credential;
`setBack` that the clock those times were read from was set back.

### Dialog

`phase`, `edit` and `shown` (the field is enabled, and visible), `timer`, `master`, `available` and
`promise` (the attempts the status line shows, a `u32` that wraps at `CountRange`) are fields of
`App` and its controls. `workers` is a sequence so that a second worker
would be representable. An attempt on the header is one step here; its race is `Lockout`'s
subject. `OtherAttempt` is another process on the same container,
`OtherTorn` one that dies inside its rewrite of the header; `torn` is a history variable: such a
rewrite left a full count without a lockout (in the header the dialog starts with, or since). `WmClose` ends the process
past the dialog (window `"killed"`). Painting, layout, focus and the shake animation are left out.

### Secrets

A secret file is absent, shorter than its tag, tagged but torn, raw (an earlier version's), or
protected and whole. `std::fs::write` empties a file and then fills it, two steps between which
others read it. `generate`, the dialog's two ends and `save_master_pub` follow `run_setup`;
`master-init` saves first and prints then. History variables: `signed` and `sealed`, the keys in
use in containers; `known`, the keys whose code the user has got; `unprinted` and `raced`, the
windows the properties except.

### Registration

`registry` maps five entries to what they name; a verb with its label, icon and command is one
entry, set when its command is. `register` sets them one by one in the code's order, the marker
`RegisteredExe` last. The program moves only while it does not run, and the uninstaller runs
alone. `halfway` is a history variable: entries were changed and the marker does not show it.

### RecoveryCode

Characters are code points, so that `to_ascii_uppercase`, the look-alikes and the truncation
`c as u8` are modelled by what they do; accumulators are numbers modulo `2^AccBits`. The user's
changes are of two kinds, spelling (case, separators, look-alikes) and mistakes.

## 3. Runs

Every property is described where it is defined; `PROJECT.json` names for each a mutation of
the modelled code that TLC catches with it.

| Run | Instance | Result |
|---|---|---|
| `vault_serial` | one process after another, any command, 2 files, 2 uuids | passes, 41,212 states |
| `vault_lock_beside_recover` | one locks, the other starts, recovers and ends | passes, 64,736 states |
| `vault_power` | one process after another, any command, power failures, 1 file, 2 uuids | passes, 1,165,287 states |
| `vault_unlock_beside_recover` | one unlocks, the other starts and recovers | `NoDataLoss` violated |
| `vault_skipped_recovery` | serial, recovery may be skipped or leave a record | `NoDataLoss` violated |
| `container` | 13 folders, chunks of 2 bytes, files of 0 to 3, manifests of up to 3 entries, 1 edit, 2 changes to the container | passes, 891,996 states |
| `container_unsafe_dir` | a file and an empty directory of a reserved name | `LockedOpens` violated |
| `lockout` | serial attempts, own, foreign and torn headers, clock to 7 and back | passes, 1,338,780 states |
| `dialog` | all four dialogs, own, foreign and torn headers, another process on the container | passes, 615,804 states |
| `secrets` | two processes, 2 install keys, 3 master keys | passes, 1,023,511 states |
| `registration` | two launches beside each other, two places | passes, 5,258 states |
| `recovery_code` | secrets of 7 bytes, 12 characters, up to 2 changes | passes, 63,712 states |

Each violation contradicts a sentence of the documentation or a comment; `PROJECT.json`,
"findings", quotes it. In short:

- **Recovery beside an unlock.** Start-up recovery mistakes a live unlock for a crash
  (`journal.rs` 128) and empties the staging folder that is about to be renamed. Recovery
  beside a *lock* is harmless, as `vault_lock_beside_recover` shows and section 4 proves: the
  structure check and the order of the steps protect it.
- **A stale unlock record.** If `complete()` cannot remove a record and the next start cannot
  recover, a later lock that dies while deleting the folder meets it; replay then drops the
  new container without checking the folder. Section 4 proves that this replay is the
  only step that can do such harm: stale lock records, recoveries cut short and retries cannot.
- **A directory that locks but does not unlock.** The lock applies `safe_join` to files, the
  unlock to every entry; an empty directory whose name it turns down makes a container that is
  refused for ever, after the folder is gone.

Observations of the same models that no run is spent on:

- Two *locks* of one folder lose data: each takes a file at `Photos.fvlt.tmp` for a leftover
  (`format.rs` 244), so one that stands before its rename can put the other's unfinished file in
  place and delete the folder. `VaultOps` shows it with two locking processes.
- Two attempts at once lose a failure (`format.rs` 442); `Lockout` shows it with two processes.
- A foreign header whose lockout has run out gets a window of three attempts, where the comment
  at `format.rs` 425 says one: the clamped count is reset by `record_failure`.
- `WM_CLOSE` has no arm in `wndproc` and ends a busy dialog that its own X button would not
  (`ui.rs` 337, 402).
- A death inside `rewrite_header` can leave a full count and no lockout; the next wrong password
  signs a count of 4, and a dialog opened after that lockout shows 3 - 4 attempts, as a `u32`
  (`ui.rs` 547). `NoMoreThanMaxAttempts` names this way, with `torn`, and excludes every other.
- `on_create` shows "0 attempts remaining" for a lockout that has run out, although the next
  failure opens a fresh window.
- During the countdown `on_primary` takes nothing, not even the recovery code (`ui.rs` 970),
  which the project's README says always unlocks.
- *Power failure.* Unlock syncs none of the extracted files before it recycles the container, and
  `--secure-delete` writes zeros, synced, while the container's rename may still be in the log:
  without `exposed`, `NoDataLoss` fails in both. Without them (no unlock, plain deletion) it holds.
- `master-init` saves the key before it prints the code; a death in between leaves a key enrolled
  whose code nobody has. An `install.key` torn behind its tag stops every later launch.
  `load_or_create_install_key` says it upgrades a raw file; it reads one, and never rewrites it.
- `register_if_needed` does not see an `unregister` that left a tree, nor a registration that
  stopped half-way if the program is moved back to where the marker still says it is.
- The `?` paths of unlock return without re-arming the read-only guard the comment at
  `format.rs` 523 promises.

### Bounds

*Vault.* Two files are the least for which "half" is neither nothing nor everything; two uuids
let the record of an earlier container coexist with a new one (a uuid is reused only when no
trace of it is left, as a fresh random one would be). Two processes are enough for each race.
With power failures one file is enough: what the disk has lost is lost file by file.
*Container.* Chunks of two bytes and files of none to three put every size next to a chunk
boundary; two changes allow an exchange and a header to match it; one edit can come at any
point, and what a second could do is what a first at that point does; a manifest of three
entries is the longest that fits, and one folder has four. (All of this is proved without
bounds; the run is what the mutants and `Ends` are checked on.)
*Lockout.* The clock runs past one lockout period and into the next (`MaxTime` 7 with
`LockoutSecs` 3). `MaxAttempts` is the code's 3; `MaxFail` bounds the count that torn
rewrites can let grow. *Dialog.* One progress message stands for the hundred the
worker may send; the clock runs past two lockouts (`MaxTime` 4 with `LockoutSecs` 2); `CountRange`
8 stands for 2^32, and `MaxFail` 4 is the first count past `MaxAttempts`.
*Secrets.* Every property is about a pair of processes and a key that replaces another; the
third master key allows a replacement beside an enrolment. *Recovery code.* 7 bytes in 12
characters leave 4 padding bits, as 32 in 52 do; the model was also checked once at 32 bytes,
52 characters and one change. Deadlock is checked except where the thing is over: the closed
dialog, the folder unlocked or refused, the code submitted.

### Fairness

`VaultOps`: weak fairness of `Work(p)`, the next step of a command under way: the worker
thread runs on until it returns, fails or dies. Nobody is obliged to start a process, press
the button or try again. `ContainerFile`: weak fairness of lock and unlock, none of the user's
edits or of damage. `Dialog`: weak fairness of the worker, of the message loop (posted
messages and timer ticks are delivered) and of the clock. The other modules have no liveness
property: their loops are the straight-line code of one launch.
`CommandEnds` is not trivial under this fairness: removal loops and recovery's walk must
each run out, and the mutant that lists the directory anew for every record breaks it.

## 4. Proofs

| Theorem | States | Assumes |
|---|---|---|
| **`VaultOps_proofs`** | | |
| `TypeCorrect` | `Spec => []TypeOK` | any number of processes |
| `InductiveInvariant` | `Spec => []IInv` | `Serial` |
| `DataIsNeverLost` | `Spec => []NoDataLoss` | `Serial` |
| `ReplayIsSafe` | `Spec => []ReplayPremise` | `Serial` |
| `FolderAppearsComplete` | `Spec => NeverHalfRestored` | `Serial` |
| `ImplementsTwoCopies` | `Spec => KeepsTwoCopies` | `Serial` |
| `SkipInvariant` | `SkipSpec => []SkipInv` | `Serial` |
| `OnlyUnlockReplayLoses` | `SkipSpec => LossNeedsUnlockReplay` | `Serial` |
| `BesideInvariant` | `Spec => []BesideInv` | `LockBesideRecovery` |
| `DataIsNeverLostBeside` | `Spec => []NoDataLoss` | `LockBesideRecovery` |
| `ReplayIsSafeBeside` | `Spec => []ReplayPremise` | `LockBesideRecovery` |
| `ImplementsTwoCopiesBeside` | `Spec => KeepsTwoCopies` | `LockBesideRecovery` |
| **`PowerLoss_proofs`** | | |
| `PowerInvariant` | `PSpec => []PInv` | `Serial` |
| `PowerLossNeedsExposure` | `PSpec => []LossNeedsExposure` | `Serial` |
| **`ContainerFile_proofs`** | | |
| `ContainerTypes` | `Spec => []TypeOK` | any folder |
| `CopyIsNotTruncated` | `Spec => NoTruncatedCopy` | any folder |
| `UnlockIsExact` | `Spec => []ExtractExact` | `DistinctPaths` |
| `WhatLocksOpens` | `Spec => []LockedOpens` | `DistinctPaths`, `SafeDirs` |
| `RoundTripCorrect` | `Spec => []RoundTrip` | `UnicodeNames` |
| **`Lockout_proofs`** | | |
| `TypeCorrect` | `Spec => []TypeOK` | any number of processes |
| `FullCountCorrect` | `Spec => []FullCountIsArmed` | any number of processes |
| `LockoutHoldsCorrect` | `Spec => LockoutHolds` | `Serial` |
| `RateLimitCorrect` | `Spec => RateLimit` | `Serial` |
| **`Dialog_proofs`** | | |
| `DialogInvariant` | `Spec => [](TypeOK /\ DialogInv)` | |
| `DialogRunsOneOperation` | `Spec => []OneOperation` | |
| `InputIsUsable` | `Spec => []CanTypeAgain` | |
| `PromiseIsBounded` | `Spec => []NoMoreThanMaxAttempts` | |
| `ButtonsDoNotTearDown` | `Spec => NoTearDown` | |
| **`Secrets_proofs`** | | |
| `SecretsTypes` | `Spec => []TypeOK` | any number of processes and keys |
| `CodeIsHandedOver` | `Spec => []CodeIsKnown` | same |
| `InstallKeyIsOne` | `Spec => []OneInstallKey` | same |
| **`Registration_proofs`** | | |
| `RegistrationInvariant` | `Spec => []Inv` | any number of processes and places |
| `RegistrationTypes` | `Spec => []TypeOK` | same |
| `LaunchHeals` | `Spec => []RegistrationHeals` | same |
| `MarkerIsTruthful` | `Spec => []MarkerVouches` | same |
| **`RecoveryCode_proofs`** | | |
| `CodesHoldTheBits` | `Spec => []CodeIsBits` | any size of secret, code, checksum, accumulator |
| `CodesRoundTrip` | `Spec => []RoundTrip` | same, any number of changes |
| `AcceptedCodesAreCodes` | `Spec => []AcceptedIsACode` | same |

All of them rest on the named assumptions on the constants and on nothing else; TLC evaluates
those on every run. Sets of files, uuids, keys, folders, edits, and all bounds, are arbitrary.

`Serial`, for the vault and for the two action properties of the lockout, says there is one
process slot: processes follow each other, and any of them may die anywhere. It is needed: the
two-process runs above refute `NoDataLoss` without it, and two attempts at once lose a failure.
`LockBesideRecovery` is the concurrency that is harmless: any number of processes, one of which
may lock while the others start, recover and end, each of them dying anywhere and starting anew.

The hypotheses on folders name what the code does not handle. `DistinctPaths`: no two files get
one recorded path from `to_string_lossy` (`walk.rs` 96), or the second would be extracted over
the first. `SafeDirs`: a folder whose files all pass `safe_join` has no directory that does not,
which is exactly what `container_unsafe_dir` is without. `UnicodeNames`: names are recorded as
they are; a *directory* whose name is not valid Unicode comes back under the replaced name, and
so does an empty file at the end of a container cut before the lock was through. (A file with
bytes under such a name is not found again and ends the lock.) Ordinary folders satisfy all three.

*Why `IInv`.* `NoDataLoss` allows a half container beside a whole folder, and lock's next step
would delete the folder. `IInv` says instead that a container at its final path is always
whole (`DataSafe`); that while an unlock record exists the folder is absent or complete
(`UnlockRecordSafe`), so replay may drop the container unchecked; that lock and unlock records
never coexist (`RecordsDoNotMix`), or finishing the lock could leave half a folder for the
unlock record to trust; and, per step, what the process has established: recovery has every
remaining record ahead of it, staging is complete from the last copy to the rename, and so on.
The proof has one lemma per operation, one case per action. `vault_skipped_recovery` breaks
exactly `RecordsDoNotMix`.

*Why `SkipInv`.* When recovery fails, any record may be left at any time, so nothing can be said of
the journal, and after a loss nothing of the user's data. `SkipInv` is about neither: a container
at its final path holds what it lists, and each step of a lock or an unlock knows of the copy it
*works from* that the other one will equal it. While data is not lost, that makes the container
the copy to trust (`NoDataLoss => DataSafe`), so a lock, an unlock, the replay of a lock record
and a retry give up a copy only for an equal one. One step is not of this form, `FinishUnlock`:
its only premise was the record. There is one lemma per operation (`LockLoses`, `RecoverLoses`...).
(No run of the project has `SkipSpec` and passes; TLC found both properties to hold on the instance
of `vault_skipped_recovery`, 223,500 states, before they were proved.)

*Why `BesideInv`.* Beside a live lock `IInv` is false: a recovery takes the lock's record for a
crash and may remove its staging file between any two of its steps. `BesideInv` therefore never
says that the staging file or the record is there, only what they are worth if they are: a
staging file during the copy belongs to this lock and what is listed in it is copied or still to
be copied; one about to be renamed is whole. Then a rename that succeeds makes a whole container,
whoever took over the rest, and with no unlock about, `DataSafe` is all that replay needs.

*The refinement* maps `owed` to `data` and `full` to the set of places that hold all of it.
Each rename is `Copy`, each removal `Drop` or a stutter, `DeleteRecycle` is `GiveUp`,
`NewFolder` is `Renew`.

*The dialog.* `DialogInv` says where the one operation is: in its thread, then in the last
message of the queue, then nowhere, and only while the phase is busy (`QueueInv`). Without it
`OneOperation` is not inductive: a `done` left in the queue would end the next operation's busy
screen. `FieldInv` keeps the field enabled outside the countdown and shown outside the busy
screen; `SlotInv` keeps the number a wrong password reports within `MaxAttempts`. Nothing is
assumed of the header, which may be torn before or while the dialog is open. `CountInv`, behind
`PromiseIsBounded`, says that without `torn` a full count comes with the end of its lockout, so that
`record_failure` resets it before it counts on.

*Registration.* `RegistrationHeals` is not inductive: it says nothing of a launch that is still setting
values, nor of what a marker found by the next launch is worth. The invariant adds `Progress` (what process `p` has set so
far names the program where it is now, because the program does not move while anything runs),
`Alone` (an uninstall runs by itself), `Trees` and `Fresh` (where the steps of an uninstall and
of a new process stand) and `MarkerVouches`, by which a launch that registers nothing may trust
the marker.

*Power failure.* `IInv` is about the user's data and is gone once data is lost; but the system
may write everything back and be sound again, so "`IInv` unless `exposed`" is not inductive.
`PInv` has two layers. `Shape` and `MediumShape` never mention the data: how paths, records and
steps fit together, on the disk as processes see it and on `platter`, whatever was lost. `Sound`
says that without exposure `IInv` holds now and would hold of any disk that a power failure may
leave. The lemma `ShapeIsSound` gets `IInv` back from `Shape` and what survived.

*The container.* Once frames are cut, exchanged or replaced, the container no longer says what
was written, and `ExtractExact` by itself says nothing before the end. The invariant therefore
speaks of a *log*: the places, entry and offset, that chunk 0, 1, 2 ... were read from. It is a
bound variable (`Explained == \E log : ContentInv(log)`), not state. `After(log, n, k, o)` says
that `n` chunks lead to offset `o` of entry `k`; there is one such place with bytes left
(`AfterUnique`), which is why a frame that opens as number `n` can only be what belongs there:
`Genuine` says every frame, wherever it stands, is some lock's chunk sealed with its own number.
From there: `BaseInv` (types, where the steps stand, every manifest is the scan) needs no
hypothesis; `ContentInv` adds what was written and what has been restored, byte by byte;
`OpensInv` says that with no damage frame `k` *is* chunk `k` and the log covers all entries, so
nothing is refused; `SameInv` that without edits the copy is the prefix of the folder's bytes
that the loop has reached.

*Lockout.* `RateLimit` looks at two pieces of state that only meet over several attempts, the
header and the history `wrong`. `TimeInv` says that the header *accounts for* the history as of
the time an attempt began: while no lockout is armed, all but the last `Counted` failures are a
whole period old; while one is, all of them are a whole period older than its end. `Counted` is the count as the
next attempt will see it, after the clamp of a foreign header; with that, torn rewrites, which
leave a foreign header, are covered too. `StepInv` ties what an attempt has read to the header
it will overwrite, which is where `Serial` comes in. `OwnHeaderAssumption`: a container starts
with the clear lockout `write_container` signs, or is foreign.

*Secrets.* `CodeInv` adds to `CodeIsKnown` what each process is about to save or seal to
(`AboutToEnrol`), `KeyInv` adds to `OneInstallKey` that whoever makes a key makes it alone and
whoever has one has the one on disk.

*The recovery code.* The state machine is the small part: `CodeInv` says that while only the
spelling was touched, what is typed reads like what was written down, which insertions, removals
and respellings keep (`SkipReading`, `SameReading`). The rest is about the loops, each a recursive
function over its input. `SetInduction` (from the library's well-foundedness of the naturals, with
a set in place of a predicate) gives the existence of these functions and the loop invariants.
`EncState`: after `i` bytes the characters out are the bits `Quintet` names, fewer than five are left
unless all characters are out, and the last byte is still in the accumulator; `AccLow` says that a
wrap-around never reaches the low 12 bits, all that either loop looks at. `DecState` is the
counterpart, with the last two characters still in the accumulator. So decoding inverts encoding
(`DecodeInverts`), and what decodes to a secret has, bit for bit, the characters of that secret
(`Unique`). The assumptions say that the characters just hold the secret (`SizeAssumption`: 52 for
32 bytes, and a checksum of at most 24 bits) and that the accumulators are at least 12 bits wide
(`AccAssumption`: 32 in the code).
Nothing is assumed of SHA-256 but that it gives three bytes.

*Only model-checked:* liveness (`CommandEnds`, `BusyEnds`, `LockoutScreenEnds`, `Ends`), which
TLAPS cannot prove under fairness. Every other property of a passing run is a theorem.

## 5. Not modelled

Cryptography is taken to keep its promise (Argon2id, AES-GCM, HMAC, X25519, SHA-256, DPAPI).
Byte offsets, bincode, modification times and attributes of files, painting, icons, argument
parsing and printing are left out. The shell extension starts the program and keeps one
counter; whether Explorer unloads a DLL that says it may while an object of it is alive
(`vault-shellext/src/lib.rs` 196: only `LockServer` counts) is not in this repository. The
installer has no run-time state. A worker that panics is not modelled. What a user adds to
the folder after the scan is deleted with it, and a file rewritten at the same length while it
is copied is stored as a mixture: the code does not look for either and no property claims it.

## 6. Plan

The properties planned are checked, and all but liveness are proved. A proof that would say more
is one of `NoDataLoss` for two unlocks or locks at once, or with failing recoveries; the
violations of section 3 show that each needs a change of the code first: staging paths of a process's
own, a journal record that says whether its process is still alive, a replay of unlock records that
looks at the folder.
