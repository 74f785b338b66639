--------------------------- MODULE VaultOps_proofs ---------------------------
(***************************************************************************)
(* Proofs about VaultOps for every set of files, uuids and process slots,  *)
(* and that it implements TwoCopies.                                       *)
(***************************************************************************)
EXTENDS VaultRefinement, TLAPS

LEMMA LeaveTypes ==
    ASSUME TypeOK, NEW p \in Procs, Leave(p)
    PROVE  /\ pc' \in [Procs -> Labels]
           /\ cmd' \in [Procs -> Commands]
           /\ my' \in [Procs -> Uuids \cup {NoUuid}]
           /\ left' \in [Procs -> SUBSET Files]
           /\ held' \in [Procs -> SUBSET Files]
           /\ wasRo' \in [Procs -> BOOLEAN]
           /\ todo' \in [Procs -> SUBSET Uuids]
  BY DEF TypeOK, Leave, Labels, Commands

LEMMA ReadonlyTypes ==
    ASSUME NEW c \in {Absent} \cup Container, NEW b \in BOOLEAN
    PROVE  /\ SetReadonly(c, b) \in {Absent} \cup Container
           /\ SetReadonly(c, b) = Absent <=> c = Absent
           /\ c # Absent => /\ SetReadonly(c, b).files = c.files
                            /\ SetReadonly(c, b).toc = c.toc
                            /\ SetReadonly(c, b).uuid = c.uuid
  BY AbsentAssumption DEF SetReadonly, Container

LEMMA RecoverTypes ==
    ASSUME TypeOK, NEW p \in Procs, Recover(p)
    PROVE  TypeOK'
  <1>1. CASE RecoverRecord(p)
    BY <1>1 DEF TypeOK, RecoverRecord, Goto, Labels, RecoverSteps, disk
  <1>2. CASE RecoverDone(p)
    BY <1>2 DEF TypeOK, RecoverDone, Goto, Labels, disk
  <1>3. CASE ReplayLock(p)
    BY <1>3 DEF TypeOK, ReplayLock, Goto, Labels, RecoverSteps, disk, locals
  <1>4. CASE RollBackLock(p)
    BY <1>4 DEF TypeOK, RollBackLock, Goto, Labels, RecoverSteps, locals
  <1>5. CASE FinishLock(p)
    BY <1>5 DEF TypeOK, FinishLock, RemoveFolder, FilesIn, Goto, Labels, RecoverSteps, locals
  <1>6. CASE ReplayUnlock(p)
    BY <1>6 DEF TypeOK, ReplayUnlock, Goto, Labels, RecoverSteps, disk, locals
  <1>7. CASE RollBackUnlock(p)
    BY <1>7 DEF TypeOK, RollBackUnlock, RemoveRestoring, FilesIn, Goto, Labels, RecoverSteps, locals
  <1>8. CASE FinishUnlock(p)
    BY <1>8, ReadonlyTypes DEF TypeOK, FinishUnlock, Goto, Labels, RecoverSteps, locals
  <1>9. CASE DropRecord(p)
    BY <1>9 DEF TypeOK, DropRecord, Goto, Labels, RecoverSteps, RecordKinds, locals
  <1> QED BY <1>1, <1>2, <1>3, <1>4, <1>5, <1>6, <1>7, <1>8, <1>9 DEF Recover

LEMMA LockTypes ==
    ASSUME TypeOK, NEW p \in Procs, Lock(p)
    PROVE  TypeOK'
  <1>1. CASE LockExists(p)
    BY <1>1
    DEF TypeOK, LockExists, Fail, Goto, Labels, LockSteps, disk, locals
  <1>2. CASE LockClean(p)
    BY <1>2
    DEF TypeOK, LockClean, Fail, Goto, Labels, LockSteps, locals
  <1>3. CASE LockScan(p)
    BY <1>3
    DEF TypeOK, LockScan, FilesIn, Fail, Goto, Labels, LockSteps, disk
  <1>4. CASE LockCreate(p)
    BY <1>4
    DEF TypeOK, LockCreate, Container, Goto, Labels, LockSteps
  <1>5. CASE LockCopy(p)
    BY <1>5
    DEF TypeOK, LockCopy, AppendTo, Container, Goto, Labels, LockSteps
  <1>6. CASE LockSync(p)
    BY <1>6
    DEF TypeOK, LockSync, Goto, Labels, SharedSteps, disk, locals
  <1>7. CASE LockWriteFails(p)
    BY <1>7
    DEF TypeOK, LockWriteFails, Fail, Goto, Labels, locals
  <1>8. CASE LockRename(p)
    BY <1>8
    DEF TypeOK, LockRename, Goto, Labels, LockSteps, locals
  <1>9. CASE LockDelete(p)
    BY <1>9
    DEF TypeOK, LockDelete, RemoveFolder, FilesIn, Goto, Labels, LockSteps, locals
  <1>10. CASE LockGuard(p)
    BY <1>10, ReadonlyTypes
    DEF TypeOK, LockGuard, Goto, Labels, SharedSteps, locals
  <1> QED
    BY <1>1, <1>2, <1>3, <1>4, <1>5, <1>6, <1>7, <1>8, <1>9, <1>10 DEF Lock

LEMMA AuthorizeTypes ==
    ASSUME TypeOK, NEW p \in Procs, Authorize(p)
    PROVE  TypeOK'
  <1>1. CASE OpenContainer(p)
    BY <1>1, ReadonlyTypes
    DEF TypeOK, OpenContainer, Container, Goto, Labels
  <1>2. CASE OpenFails(p)
    BY <1>2
    DEF TypeOK, OpenFails, Fail, Goto, Labels, disk, locals
  <1>3. CASE Authorized(p)
    BY <1>3
    DEF TypeOK, Authorized, Container, Goto, Labels, UnlockSteps, disk
  <1>4. CASE Denied(p)
    BY <1>4, ReadonlyTypes
    DEF TypeOK, Denied, Rearm, Fail, Goto, Labels, locals
  <1>5. CASE AuthorizeIoError(p)
    BY <1>5
    DEF TypeOK, AuthorizeIoError, Fail, Goto, Labels, disk, locals
  <1> QED
    BY <1>1, <1>2, <1>3, <1>4, <1>5 DEF Authorize

LEMMA UnlockTypes ==
    ASSUME TypeOK, NEW p \in Procs, Unlock(p)
    PROVE  TypeOK'
  <1>1. CASE UnlockExists(p)
    BY <1>1
    DEF TypeOK, UnlockExists, Goto, Labels, UnlockSteps, disk, locals
  <1>2. CASE UnlockBails(p)
    BY <1>2, ReadonlyTypes
    DEF TypeOK, UnlockBails, Rearm, Fail, Goto, Labels, locals
  <1>3. CASE UnlockClean(p)
    BY <1>3
    DEF TypeOK, UnlockClean, RemoveRestoring, FilesIn, Goto, Labels, UnlockSteps, locals
  <1>4. CASE UnlockMkdir(p)
    BY <1>4
    DEF TypeOK, UnlockMkdir, Fail, Goto, Labels, UnlockSteps, locals
  <1>5. CASE UnlockExtract(p)
    BY <1>5
    DEF TypeOK, UnlockExtract, FilesIn, Goto, Labels, UnlockSteps
  <1>6. CASE UnlockExtractFails(p)
    BY <1>6, ReadonlyTypes
    DEF TypeOK, UnlockExtractFails, Rearm, FilesIn, Fail, Goto, Labels, locals
  <1>7. CASE UnlockExtracted(p)
    BY <1>7
    DEF TypeOK, UnlockExtracted, Goto, Labels, SharedSteps, disk, locals
  <1>8. CASE UnlockRename(p)
    BY <1>8
    DEF TypeOK, UnlockRename, Goto, Labels, UnlockSteps, locals
  <1>9. CASE UnlockRecycle(p)
    BY <1>9, ReadonlyTypes
    DEF TypeOK, UnlockRecycle, Fail, Goto, Labels, SharedSteps, locals
  <1> QED
    BY <1>1, <1>2, <1>3, <1>4, <1>5, <1>6, <1>7, <1>8, <1>9 DEF Unlock

LEMMA DeleteTypes ==
    ASSUME TypeOK, NEW p \in Procs, Delete(p)
    PROVE  TypeOK'
  <1>1. CASE DeleteRecycle(p)
    BY <1>1, LeaveTypes
    DEF TypeOK, DeleteRecycle, FilesIn
  <1>2. CASE DeleteFails(p)
    BY <1>2, ReadonlyTypes
    DEF TypeOK, DeleteFails, Fail, Goto, Labels, locals
  <1> QED
    BY <1>1, <1>2 DEF Delete

LEMMA JournalingTypes ==
    ASSUME TypeOK, NEW p \in Procs, Journaling(p)
    PROVE  TypeOK'
  <1>1. CASE JournalCreate(p)
    BY <1>1 DEF TypeOK, JournalCreate, RecordKinds, Goto, Labels, SharedSteps, locals
  <1>2. CASE JournalWrite(p)
    BY <1>2
    DEF TypeOK, JournalWrite, OpKind, RecordKinds, Goto, Labels, SharedSteps, locals
  <1>3. CASE CommitFails(p)
    BY <1>3 DEF TypeOK, CommitFails, Fail, Goto, Labels, disk, locals
  <1>4. CASE Complete(p)
    <2>1. journal' \in [Uuids -> RecordKinds]
      BY <1>4 DEF TypeOK, Complete, RecordKinds
    <2> QED BY <1>4, <2>1, LeaveTypes DEF TypeOK, Complete
  <1>5. CASE Unjournaled(p)
    BY <1>5 DEF TypeOK, Unjournaled, Goto, Labels, SharedSteps, disk, locals
  <1> QED BY <1>1, <1>2, <1>3, <1>4, <1>5 DEF Journaling

LEMMA NextTypes == TypeOK /\ [Next]_vars => TypeOK'
  <1> SUFFICES ASSUME TypeOK, [Next]_vars PROVE TypeOK'
    OBVIOUS
  <1>1. ASSUME NEW p \in Procs, Start(p) PROVE TypeOK'
    BY <1>1, CmdsAssumption DEF TypeOK, Start, Goto, Labels, RecoverSteps, disk
  <1>2. ASSUME NEW p \in Procs, Step(p) PROVE TypeOK'
    BY <1>2, RecoverTypes, LockTypes, AuthorizeTypes, UnlockTypes, DeleteTypes,
       JournalingTypes DEF Step
  <1>3. ASSUME NEW p \in Procs, Retry(p) PROVE TypeOK'
    BY <1>3 DEF TypeOK, Retry, Goto, Labels, disk
  <1>4. ASSUME NEW p \in Procs, Exit(p) \/ Crash(p) PROVE TypeOK'
    BY <1>4, LeaveTypes DEF TypeOK, Exit, Crash, disk
  <1>5. CASE NewFolder
    BY <1>5 DEF TypeOK, NewFolder, locals
  <1>6. CASE UNCHANGED vars
    BY <1>6 DEF TypeOK, vars, disk, locals
  <1> QED BY <1>1, <1>2, <1>3, <1>4, <1>5, <1>6 DEF Next

(* Every variable keeps its type, for any number of processes running at   *)
(* the same time, through every failure and crash of the model.            *)
THEOREM TypeCorrect == Spec => []TypeOK
  <1>1. Init => TypeOK
    BY DEF Init, TypeOK, Container, Commands, Labels, RecordKinds
  <1> QED BY <1>1, NextTypes, PTL DEF Spec


-----------------------------------------------------------------------------
(* IInv is preserved by every step of serial processes.  The read-only bit *)
(* plays no part in it.                                                    *)

SameContainer ==
    /\ cont' = Absent <=> cont = Absent
    /\ cont # Absent => /\ cont'.files = cont.files
                        /\ cont'.toc = cont.toc
                        /\ cont'.uuid = cont.uuid

LEMMA SetReadonlySame ==
    ASSUME TypeOK, NEW b \in BOOLEAN, cont' = SetReadonly(cont, b)
    PROVE  SameContainer
  BY ReadonlyTypes DEF TypeOK, SameContainer

LEMMA RearmSame ==
    ASSUME TypeOK, NEW p \in Procs, Rearm(p)
    PROVE  SameContainer
  BY ReadonlyTypes DEF TypeOK, Rearm, SameContainer

(* A process that ends leaves the disk to the next one: nothing in IInv is *)
(* about a slot that is off.                                               *)
LEMMA LeaveKeeps ==
    ASSUME Serial, TypeOK, NEW p \in Procs, Leave(p),
           DataSafe', UnlockRecordSafe', RecordsDoNotMix'
    PROVE  IInv'
  BY DEF Serial, TypeOK, Leave, IInv, RecoverInv, CommandInv, LockInv, UnlockInv,
         Committing, RecoverSteps, LockSteps, UnlockSteps, SharedSteps

LEMMA RecoverKeeps ==
    ASSUME Serial, TypeOK, IInv, NEW p \in Procs, Recover(p)
    PROVE  IInv'
  <1> USE DEF Serial, TypeOK, IInv, DataSafe, UnlockRecordSafe, RecordsDoNotMix,
              RecoverInv, CommandInv, LockInv, UnlockInv, Committing,
              RecoverSteps, LockSteps, UnlockSteps, SharedSteps, Goto, Fail
  <1>1. CASE RecoverRecord(p)
    BY <1>1 DEF RecoverRecord, Whole, FilesIn, disk
  <1>2. CASE RecoverDone(p)
    BY <1>2 DEF RecoverDone, Whole, FilesIn, disk
  <1>3. CASE ReplayLock(p)
    <2>1. pc[p] = "rLock" /\ UNCHANGED <<disk, data, locals>>
      BY <1>3 DEF ReplayLock
    <2>2. CASE Goto(p, "rLock", "rLockUnstage")
      BY <2>1, <2>2 DEF Whole, FilesIn, disk, locals
    <2>3. CASE Goto(p, "rLock", "rLockFinish") /\ cont # Absent
      BY <2>1, <2>3 DEF Whole, FilesIn, disk, locals
    <2>4. CASE Goto(p, "rLock", "rDrop")
      BY <2>1, <2>4 DEF Whole, FilesIn, disk, locals
    <2> HIDE DEF Goto
    <2> QED BY <1>3, <2>2, <2>3, <2>4 DEF ReplayLock
  <1>4. CASE RollBackLock(p)
    BY <1>4 DEF RollBackLock, Whole, FilesIn, locals
  <1>5. CASE FinishLock(p)
    BY <1>5, AbsentAssumption DEF FinishLock, RemoveFolder, Whole, FilesIn, locals
  <1>6. CASE ReplayUnlock(p)
    BY <1>6 DEF ReplayUnlock, Whole, FilesIn, disk, locals
  <1>7. CASE RollBackUnlock(p)
    BY <1>7, AbsentAssumption DEF RollBackUnlock, RemoveRestoring, Whole, FilesIn, locals
  <1>8. CASE FinishUnlock(p)
    <2>1. CASE cont' = Absent
      BY <1>8, <2>1 DEF FinishUnlock, FilesIn, locals
    <2>2. CASE cont' = SetReadonly(cont, FALSE)
      <3>1. SameContainer BY <2>2, SetReadonlySame
      <3> QED BY <1>8, <3>1 DEF FinishUnlock, SameContainer, Whole, FilesIn, locals
    <2> QED BY <1>8, <2>1, <2>2 DEF FinishUnlock
  <1>9. CASE DropRecord(p)
    BY <1>9 DEF DropRecord, Whole, FilesIn, locals
  <1> QED BY <1>1, <1>2, <1>3, <1>4, <1>5, <1>6, <1>7, <1>8, <1>9 DEF Recover

LEMMA LockKeeps ==
    ASSUME Serial, TypeOK, IInv, NEW p \in Procs, Lock(p)
    PROVE  IInv'
  <1> USE DEF Serial, TypeOK, IInv, DataSafe, UnlockRecordSafe, RecordsDoNotMix,
              RecoverInv, CommandInv, LockInv, UnlockInv, Committing,
              RecoverSteps, LockSteps, UnlockSteps, SharedSteps, Goto, Fail
  <1>1. CASE LockExists(p)
    BY <1>1 DEF LockExists, Whole, FilesIn, disk, locals
  <1>2. CASE LockClean(p)
    BY <1>2 DEF LockClean, Whole, FilesIn, locals
  <1>3. CASE LockScan(p)
    BY <1>3 DEF LockScan, Whole, FilesIn, disk
  <1>4. CASE LockCreate(p)
    <2> PICK u \in Uuids : LockCreate(p)!(u)
      BY <1>4 DEF LockCreate
    <2>1. left[p] \in SUBSET Files
      OBVIOUS
    <2>2. tmp' \in Container
      BY <2>1 DEF Container
    <2>3. tmp' # Absent
      BY <2>2, AbsentAssumption
    <2> QED BY <2>3 DEF Whole, FilesIn
  <1>5. CASE LockCopy(p)
    BY <1>5, AbsentAssumption DEF LockCopy, AppendTo, Container, Whole, FilesIn
  <1>6. CASE LockSync(p)
    BY <1>6 DEF LockSync, Whole, FilesIn, disk, locals
  <1>7. CASE LockWriteFails(p)
    BY <1>7 DEF LockWriteFails, Whole, FilesIn, locals
  <1>8. CASE LockRename(p)
    BY <1>8 DEF LockRename, Whole, FilesIn, locals
  <1>9. CASE LockDelete(p)
    BY <1>9, AbsentAssumption DEF LockDelete, RemoveFolder, Whole, FilesIn, locals
  <1>10. CASE LockGuard(p)
    <2>1. SameContainer
      BY <1>10, SetReadonlySame DEF LockGuard, SameContainer
    <2> QED BY <1>10, <2>1 DEF LockGuard, SameContainer, Whole, FilesIn, locals
  <1> QED
    BY <1>1, <1>2, <1>3, <1>4, <1>5, <1>6, <1>7, <1>8, <1>9, <1>10 DEF Lock

LEMMA AuthorizeKeeps ==
    ASSUME Serial, TypeOK, IInv, NEW p \in Procs, Authorize(p)
    PROVE  IInv'
  <1> USE DEF Serial, TypeOK, IInv, DataSafe, UnlockRecordSafe, RecordsDoNotMix,
              RecoverInv, CommandInv, LockInv, UnlockInv, Committing,
              RecoverSteps, LockSteps, UnlockSteps, SharedSteps, Goto, Fail
  <1>1. CASE OpenContainer(p)
    <2>1. SameContainer
      BY <1>1, SetReadonlySame DEF OpenContainer
    <2>2. DataSafe'
      BY <1>1, <2>1 DEF OpenContainer, SameContainer, Whole
    <2>3. /\ pc' = [pc EXCEPT ![p] = "auth"]
          /\ cont' # Absent
          /\ UNCHANGED <<folder, journal, data, cmd>>
      BY <1>1, <2>1 DEF OpenContainer, SameContainer
    <2>4. cmd[p] \in {"unlock", "delete"}
          /\ \A u \in Uuids : journal[u] \in {"none", "torn", cmd[p]}
      BY <1>1 DEF OpenContainer
    <2> QED BY <2>2, <2>3, <2>4
  <1>2. CASE OpenFails(p)
    BY <1>2 DEF OpenFails, Whole, FilesIn, disk, locals
  <1>3. CASE Authorized(p)
    <2>1. cont.uuid \in Uuids
      BY <1>3 DEF Container, Authorized
    <2>2. my'[p] \in Uuids
      BY <1>3, <2>1 DEF Authorized
    <2>3. CASE cmd[p] = "unlock"
      <3>1. pc'[p] = "uOpen" /\ left'[p] = cont.toc
        BY <1>3, <2>3 DEF Authorized
      <3> QED BY <1>3, <2>2, <2>3, <3>1 DEF Authorized, Whole, disk
    <2>4. CASE cmd[p] # "unlock"
      BY <1>3, <2>2, <2>4 DEF Authorized, Whole, FilesIn, disk
    <2> QED BY <2>3, <2>4
  <1>4. CASE Denied(p)
    <2>1. SameContainer
      BY <1>4, RearmSame DEF Denied
    <2> QED BY <1>4, <2>1 DEF Denied, SameContainer, Whole, FilesIn, locals
  <1>5. CASE AuthorizeIoError(p)
    BY <1>5 DEF AuthorizeIoError, Whole, FilesIn, disk, locals
  <1> QED BY <1>1, <1>2, <1>3, <1>4, <1>5 DEF Authorize

LEMMA UnlockKeeps ==
    ASSUME Serial, TypeOK, IInv, NEW p \in Procs, Unlock(p)
    PROVE  IInv'
  <1> USE DEF Serial, TypeOK, IInv, DataSafe, UnlockRecordSafe, RecordsDoNotMix,
              RecoverInv, CommandInv, LockInv, UnlockInv, Committing,
              RecoverSteps, LockSteps, UnlockSteps, SharedSteps, Goto, Fail
  <1>1. CASE UnlockExists(p)
    BY <1>1 DEF UnlockExists, Whole, FilesIn, disk, locals
  <1>2. CASE UnlockBails(p)
    <2>1. SameContainer
      BY <1>2, RearmSame DEF UnlockBails
    <2> QED BY <1>2, <2>1 DEF UnlockBails, SameContainer, Whole, FilesIn, locals
  <1>3. CASE UnlockClean(p)
    BY <1>3, AbsentAssumption DEF UnlockClean, RemoveRestoring, Whole, FilesIn, locals
  <1>4. CASE UnlockMkdir(p)
    BY <1>4, AbsentAssumption DEF UnlockMkdir, Whole, FilesIn, locals
  <1>5. CASE UnlockExtract(p)
    BY <1>5, AbsentAssumption DEF UnlockExtract, Whole, FilesIn
  <1>6. CASE UnlockExtractFails(p)
    <2>1. SameContainer
      BY <1>6, RearmSame DEF UnlockExtractFails
    <2> QED BY <1>6, <2>1 DEF UnlockExtractFails, SameContainer, Whole, FilesIn, locals
  <1>7. CASE UnlockExtracted(p)
    BY <1>7 DEF UnlockExtracted, Whole, FilesIn, disk, locals
  <1>8. CASE UnlockRename(p)
    BY <1>8 DEF UnlockRename, Whole, FilesIn, locals
  <1>9. CASE UnlockRecycle(p)
    <2>1. CASE cont # Absent /\ cont' = Absent /\ Goto(p, "uRecycle", "complete")
      BY <1>9, <2>1 DEF UnlockRecycle, FilesIn, locals
    <2>2. CASE cont' = SetReadonly(cont, FALSE) /\ Fail(p, "uRecycle")
      <3>1. SameContainer BY <2>2, SetReadonlySame
      <3>2. /\ Fail(p, "uRecycle")
            /\ UNCHANGED <<folder, tmp, restoring, journal, data, locals>>
        BY <1>9, <2>2 DEF UnlockRecycle
      <3>3. DataSafe'
        BY <3>1, <3>2 DEF SameContainer, Whole, FilesIn
      <3> QED BY <3>2, <3>3 DEF locals
    <2> QED BY <1>9, <2>1, <2>2 DEF UnlockRecycle
  <1> QED
    BY <1>1, <1>2, <1>3, <1>4, <1>5, <1>6, <1>7, <1>8, <1>9 DEF Unlock

LEMMA DeleteKeeps ==
    ASSUME Serial, TypeOK, IInv, NEW p \in Procs, Delete(p)
    PROVE  IInv'
  <1> USE DEF Serial, TypeOK, IInv, DataSafe, UnlockRecordSafe, RecordsDoNotMix,
              RecoverInv, CommandInv, LockInv, UnlockInv, Committing,
              RecoverSteps, LockSteps, UnlockSteps, SharedSteps, Goto, Fail
  <1>1. CASE DeleteRecycle(p)
    <2>1. DataSafe' /\ UnlockRecordSafe' /\ RecordsDoNotMix'
      BY <1>1 DEF DeleteRecycle, FilesIn
    <2> QED BY <1>1, <2>1, LeaveKeeps DEF DeleteRecycle
  <1>2. CASE DeleteFails(p)
    <2>1. SameContainer
      BY <1>2, SetReadonlySame DEF DeleteFails
    <2> QED BY <1>2, <2>1 DEF DeleteFails, SameContainer, Whole, FilesIn, locals
  <1> QED BY <1>1, <1>2 DEF Delete

LEMMA JournalingKeeps ==
    ASSUME Serial, TypeOK, IInv, NEW p \in Procs, Journaling(p)
    PROVE  IInv'
  <1> USE DEF Serial, TypeOK, IInv, DataSafe, UnlockRecordSafe, RecordsDoNotMix,
              RecoverInv, CommandInv, LockInv, UnlockInv, Committing,
              RecoverSteps, LockSteps, UnlockSteps, SharedSteps, Goto, Fail
  <1>1. CASE JournalCreate(p)
    BY <1>1 DEF JournalCreate, Whole, FilesIn, locals
  <1>2. CASE JournalWrite(p)
    BY <1>2 DEF JournalWrite, OpKind, Whole, FilesIn, locals
  <1>3. CASE CommitFails(p)
    BY <1>3 DEF CommitFails, Whole, FilesIn, disk, locals
  <1>4. CASE Complete(p)
    <2>1. DataSafe' /\ UnlockRecordSafe' /\ RecordsDoNotMix'
      BY <1>4 DEF Complete, Whole, FilesIn
    <2> QED BY <1>4, <2>1, LeaveKeeps DEF Complete
  <1>5. CASE Unjournaled(p)
    BY <1>5 DEF Unjournaled, Whole, FilesIn, disk, locals
  <1> QED BY <1>1, <1>2, <1>3, <1>4, <1>5 DEF Journaling

LEMMA NextKeeps ==
    ASSUME Serial, TypeOK, IInv, [Next]_vars
    PROVE  IInv'
  <1> USE DEF Serial, TypeOK, IInv, DataSafe, UnlockRecordSafe, RecordsDoNotMix,
              RecoverInv, CommandInv, LockInv, UnlockInv, Committing,
              RecoverSteps, LockSteps, UnlockSteps, SharedSteps, Goto, Fail
  <1>1. ASSUME NEW p \in Procs, Start(p) PROVE IInv'
    BY <1>1 DEF Start, Whole, FilesIn, disk
  <1>2. ASSUME NEW p \in Procs, Step(p) PROVE IInv'
    BY <1>2, RecoverKeeps, LockKeeps, AuthorizeKeeps, UnlockKeeps, DeleteKeeps,
       JournalingKeeps DEF Step
  <1>3. ASSUME NEW p \in Procs, Retry(p) PROVE IInv'
    BY <1>3 DEF Retry, Whole, FilesIn, disk
  <1>4. ASSUME NEW p \in Procs, Exit(p) \/ Crash(p) PROVE IInv'
    <2>1. UNCHANGED <<disk, data>> /\ Leave(p)
      BY <1>4 DEF Exit, Crash
    <2>2. DataSafe' /\ UnlockRecordSafe' /\ RecordsDoNotMix'
      BY <2>1 DEF disk, Whole, FilesIn
    <2> QED BY <2>1, <2>2, LeaveKeeps
  <1>5. CASE NewFolder
    BY <1>5, AbsentAssumption DEF NewFolder, Whole, FilesIn, locals
  <1>6. CASE UNCHANGED vars
    BY <1>6 DEF vars, disk, locals, Whole, FilesIn
  <1> QED BY <1>1, <1>2, <1>3, <1>4, <1>5, <1>6 DEF Next

LEMMA InitKeeps == Init => IInv
  BY AbsentAssumption
  DEF Init, IInv, DataSafe, UnlockRecordSafe, RecordsDoNotMix, RecoverInv, CommandInv,
      LockInv, UnlockInv, Committing, RecoverSteps, LockSteps, UnlockSteps, SharedSteps,
      Whole, FilesIn, Container

(* The invariant of serial processes: what every command has established   *)
(* about the two copies when it reaches each of its steps.                 *)
THEOREM InductiveInvariant ==
    ASSUME Serial
    PROVE  Spec => []IInv
  <1>1. TypeOK /\ IInv /\ [Next]_vars => IInv'
    BY NextKeeps
  <1> QED BY <1>1, InitKeeps, TypeCorrect, PTL DEF Spec

(* lock_folder, unlock_container, verify_and_delete and recover(), run by  *)
(* one process after another, never leave the user without a complete copy *)
(* whatever call fails and wherever a process dies.                        *)
THEOREM DataIsNeverLost ==
    ASSUME Serial
    PROVE  Spec => []NoDataLoss
  <1>1. IInv => NoDataLoss
    BY DEF IInv, DataSafe, NoDataLoss, Whole
  <1> QED BY <1>1, InductiveInvariant, PTL

(* replay's premise holds whenever it looks: with staging gone and both    *)
(* copies there, the copy it keeps is complete.                            *)
THEOREM ReplayIsSafe ==
    ASSUME Serial
    PROVE  Spec => []ReplayPremise
  <1>1. IInv => ReplayPremise
    BY DEF IInv, DataSafe, UnlockRecordSafe, ReplayPremise, Whole
  <1> QED BY <1>1, InductiveInvariant, PTL

(* Only unlock's rename and a user who makes a new folder put a folder     *)
(* where there was none.                                                   *)
LEMMA FolderAppears ==
    ASSUME Next, folder = Absent, folder' # Absent
    PROVE  NewFolder \/ \E p \in Procs : UnlockRename(p)
  <1>1. ASSUME NEW p \in Procs, Recover(p) PROVE FALSE
    BY <1>1 DEF Recover, RecoverRecord, RecoverDone, ReplayLock, RollBackLock, FinishLock,
       ReplayUnlock, RollBackUnlock, FinishUnlock, DropRecord, RemoveFolder,
       RemoveRestoring, FilesIn, disk
  <1>2. ASSUME NEW p \in Procs, Lock(p) PROVE FALSE
    BY <1>2 DEF Lock, LockExists, LockClean, LockScan, LockCreate, LockCopy, LockSync,
       LockWriteFails, LockRename, LockDelete, LockGuard, RemoveFolder, FilesIn, disk
  <1>3. ASSUME NEW p \in Procs, Authorize(p) PROVE FALSE
    BY <1>3 DEF Authorize, OpenContainer, OpenFails, Authorized, Denied,
       AuthorizeIoError, disk
  <1>4. ASSUME NEW p \in Procs, Unlock(p) PROVE UnlockRename(p)
    BY <1>4 DEF Unlock, UnlockExists, UnlockBails, UnlockClean, UnlockMkdir,
       UnlockExtract, UnlockExtractFails, UnlockExtracted, UnlockRecycle,
       RemoveRestoring, disk
  <1>5. ASSUME NEW p \in Procs, Delete(p) \/ Journaling(p) PROVE FALSE
    BY <1>5 DEF Delete, DeleteRecycle, DeleteFails, Journaling, JournalCreate,
       JournalWrite, Unjournaled, CommitFails, Complete, disk
  <1>6. ASSUME NEW p \in Procs, Start(p) \/ Retry(p) \/ Exit(p) \/ Crash(p) PROVE FALSE
    BY <1>6 DEF Start, Retry, Exit, Crash, disk
  <1> QED BY <1>1, <1>2, <1>3, <1>4, <1>5, <1>6 DEF Next, Step

(* A folder that appears at the vault's path is complete when it appears:  *)
(* unlock's rename and a user's new folder are the only ways.              *)
THEOREM FolderAppearsComplete ==
    ASSUME Serial
    PROVE  Spec => NeverHalfRestored
  <1>1. ASSUME IInv, Next, folder = Absent, folder' # Absent
        PROVE  data' \subseteq folder'
    <2>1. CASE NewFolder
      BY <2>1 DEF NewFolder
    <2>2. ASSUME NEW p \in Procs, UnlockRename(p) PROVE data' \subseteq folder'
      BY <1>1, <2>2 DEF UnlockRename, Goto, IInv, UnlockInv, Committing
    <2> QED BY <1>1, <2>1, <2>2, FolderAppears
  <1>2. IInv /\ [Next]_vars
          => [folder = Absent /\ folder' # Absent => data' \subseteq folder']_vars
    BY <1>1
  <1> QED BY <1>2, InductiveInvariant, PTL DEF Spec, NeverHalfRestored

-----------------------------------------------------------------------------
(* Serial processes whose recovery may be cut short or leave records:      *)
(* SkipInv is preserved although the journal may hold anything.            *)

LEMMA SkipTypes == TypeOK /\ [SkipNext]_vars => TypeOK'
  <1> SUFFICES ASSUME TypeOK, [SkipNext]_vars PROVE TypeOK'
    OBVIOUS
  <1>1. ASSUME NEW p \in Procs, SkipRecovery(p) PROVE TypeOK'
    BY <1>1 DEF TypeOK, SkipRecovery, Goto, Labels, disk
  <1>2. ASSUME NEW p \in Procs, KeepRecord(p) PROVE TypeOK'
    BY <1>2 DEF TypeOK, KeepRecord, Goto, Labels, RecoverSteps, disk, locals
  <1> QED BY <1>1, <1>2, NextTypes DEF SkipNext

LEMMA SkipTypeCorrect == SkipSpec => []TypeOK
  <1>1. Init => TypeOK
    BY DEF Init, TypeOK, Container, Commands, Labels, RecordKinds
  <1> QED BY <1>1, SkipTypes, PTL DEF SkipSpec

(* the part of SkipInv that is about the two copies *)
CopiesInv == (cont # Absent => Exact(cont)) /\ (NoDataLoss => DataSafe)

LEMMA SkipSame ==
    ASSUME CopiesInv, UNCHANGED <<folder, data>>, SameContainer
    PROVE  CopiesInv'
  BY DEF CopiesInv, SameContainer, Exact, NoDataLoss, DataSafe, Whole, FilesIn

LEMMA SkipFolderGoes ==
    ASSUME CopiesInv, cont # Absent, UNCHANGED <<cont, data>>,
           FilesIn(folder') \subseteq FilesIn(folder)
    PROVE  CopiesInv' /\ (NoDataLoss => NoDataLoss')
  BY DEF CopiesInv, Exact, NoDataLoss, DataSafe, Whole

LEMMA SkipLeave ==
    ASSUME Serial, TypeOK, NEW p \in Procs, Leave(p), CopiesInv'
    PROVE  SkipInv'
  BY DEF Serial, TypeOK, Leave, SkipInv, CopiesInv, SkipCommand, SkipLock, SkipUnlock,
         Committing, LockSteps, UnlockSteps, SharedSteps

LEMMA SkipRecover ==
    ASSUME Serial, TypeOK, SkipInv, NEW p \in Procs,
           Recover(p) \/ SkipRecovery(p) \/ KeepRecord(p)
    PROVE  SkipInv'
  <1> USE DEF Serial, TypeOK, SkipInv, SkipCommand, SkipLock, SkipUnlock, Committing,
              LockSteps, UnlockSteps, SharedSteps, Goto
  <1>0. CopiesInv
    BY DEF CopiesInv
  <1>1. CASE RecoverRecord(p) \/ RecoverDone(p) \/ SkipRecovery(p) \/ KeepRecord(p)
             \/ ReplayUnlock(p) \/ DropRecord(p)
    <2>1. CopiesInv'
      BY <1>0, <1>1, SkipSame DEF SameContainer, RecoverRecord, RecoverDone, SkipRecovery,
         KeepRecord, ReplayUnlock, DropRecord, disk
    <2>2. pc'[p] \in {"recover", "ready", "rLock", "rUnlock", "rUnlockUnstage",
                      "rUnlockFinish", "rDrop"}
      BY <1>1 DEF RecoverRecord, RecoverDone, SkipRecovery, KeepRecord, ReplayUnlock,
         DropRecord
    <2> QED BY <2>1, <2>2 DEF CopiesInv
  <1>2. CASE ReplayLock(p)
    <2>1. CopiesInv'
      BY <1>0, <1>2, SkipSame DEF SameContainer, ReplayLock, disk
    <2>2. /\ pc'[p] \in {"rLockUnstage", "rLockFinish", "rDrop"}
          /\ pc'[p] = "rLockFinish" => cont' # Absent
      BY <1>2 DEF ReplayLock, disk
    <2> QED BY <2>1, <2>2 DEF CopiesInv
  <1>3. CASE RollBackLock(p) \/ RollBackUnlock(p)
    <2>1. CopiesInv'
      BY <1>0, <1>3, SkipSame
      DEF SameContainer, RollBackLock, RollBackUnlock, RemoveRestoring
    <2>2. pc'[p] \in {"rUnlockUnstage", "rDrop"}
      BY <1>3 DEF RollBackLock, RollBackUnlock, RemoveRestoring
    <2> QED BY <2>1, <2>2 DEF CopiesInv
  <1>4. CASE FinishLock(p)
    <2>1. cont # Absent /\ UNCHANGED <<cont, data>>
      BY <1>4 DEF FinishLock, RemoveFolder
    <2>2. FilesIn(folder') \subseteq FilesIn(folder)
      BY <1>4 DEF FinishLock, RemoveFolder, FilesIn
    <2>3. pc'[p] \in {"rLockFinish", "rDrop"}
      BY <1>4 DEF FinishLock, RemoveFolder
    <2> QED BY <1>0, <2>1, <2>2, <2>3, SkipFolderGoes DEF CopiesInv
  <1>5. CASE FinishUnlock(p)
    <2>1. CopiesInv'
      <3>1. CASE cont' = Absent
        BY <1>5, <3>1 DEF CopiesInv, FinishUnlock, NoDataLoss, DataSafe
      <3>2. CASE cont' = SetReadonly(cont, FALSE)
        BY <1>0, <1>5, <3>2, SetReadonlySame, SkipSame DEF FinishUnlock
      <3> QED BY <1>5, <3>1, <3>2 DEF FinishUnlock
    <2>2. pc'[p] = "rDrop"
      BY <1>5 DEF FinishUnlock
    <2> QED BY <2>1, <2>2 DEF CopiesInv
  <1> QED BY <1>1, <1>2, <1>3, <1>4, <1>5 DEF Recover

LEMMA SkipLockKeeps ==
    ASSUME Serial, TypeOK, SkipInv, NEW p \in Procs, Lock(p)
    PROVE  SkipInv'
  <1> USE DEF Serial, TypeOK, SkipInv, SkipCommand, SkipLock, SkipUnlock, Committing,
              LockSteps, UnlockSteps, SharedSteps, Goto, Fail
  <1>0. CopiesInv
    BY DEF CopiesInv
  <1>1. CASE LockExists(p) \/ LockClean(p) \/ LockScan(p)
    <2>1. CopiesInv'
      BY <1>0, <1>1, SkipSame DEF SameContainer, LockExists, LockClean, LockScan, disk
    <2> QED BY <1>1, <2>1 DEF CopiesInv, LockExists, LockClean, LockScan, FilesIn, disk, locals
  <1>2. CASE LockCreate(p)
    <2> PICK u \in Uuids : LockCreate(p)!(u)
      BY <1>2 DEF LockCreate
    <2>1. CopiesInv'
      BY <1>0, SkipSame DEF SameContainer
    <2>2. tmp' \in Container
      BY DEF Container
    <2>3. tmp' # Absent
      BY <2>2, AbsentAssumption
    <2> QED BY <2>1, <2>3 DEF CopiesInv
  <1>3. CASE LockCopy(p)
    <2> PICK f \in left[p] \cap FilesIn(folder) : LockCopy(p)!(f)
      BY <1>3 DEF LockCopy
    <2>1. cont = Absent /\ cont' = cont
      BY DEF AppendTo
    <2>2. CopiesInv'
      BY <1>0, <2>1, SkipSame DEF SameContainer
    <2>3. tmp' = [tmp EXCEPT !.files = @ \cup {f}] /\ tmp \in Container
      BY DEF AppendTo
    <2>4. tmp' \in Container
      BY <2>3 DEF Container
    <2>5. tmp'.uuid = tmp.uuid /\ tmp'.toc = tmp.toc /\ tmp'.files = tmp.files \cup {f}
      BY <2>3 DEF Container
    <2> QED BY <2>1, <2>2, <2>4, <2>5, AbsentAssumption DEF CopiesInv, FilesIn
  <1>4. CASE LockSync(p)
    <2>1. CopiesInv'
      BY <1>0, <1>4, SkipSame DEF SameContainer, LockSync, disk
    <2> QED BY <1>4, <2>1 DEF CopiesInv, LockSync, Exact, disk, locals
  <1>5. CASE LockWriteFails(p)
    <2>1. CopiesInv'
      BY <1>0, <1>5, SkipSame DEF SameContainer, LockWriteFails
    <2> QED BY <1>5, <2>1 DEF CopiesInv, LockWriteFails
  <1>6. CASE LockRename(p)
    <2>1. CopiesInv'
      BY <1>6 DEF CopiesInv, LockRename, NoDataLoss, DataSafe, Exact, Whole, FilesIn
    <2> QED BY <1>6, <2>1 DEF CopiesInv, LockRename, locals
  <1>7. CASE LockDelete(p)
    <2>1. cont # Absent /\ UNCHANGED <<cont, data>>
      BY <1>7 DEF LockDelete, RemoveFolder
    <2>2. FilesIn(folder') \subseteq FilesIn(folder)
      BY <1>7 DEF LockDelete, RemoveFolder, FilesIn
    <2>3. /\ pc'[p] \in {"lDelete", "lGuard", "failed"}
          /\ cmd' = cmd
      BY <1>7 DEF LockDelete, RemoveFolder, locals
    <2> QED BY <1>0, <1>7, <2>1, <2>2, <2>3, SkipFolderGoes
        DEF CopiesInv, LockDelete, RemoveFolder
  <1>8. CASE LockGuard(p)
    <2>1. SameContainer
      BY <1>8, SetReadonlySame DEF LockGuard, SameContainer
    <2>2. CopiesInv'
      BY <1>0, <1>8, <2>1, SkipSame DEF LockGuard
    <2> QED BY <1>8, <2>2 DEF CopiesInv, LockGuard, locals
  <1> QED
    BY <1>1, <1>2, <1>3, <1>4, <1>5, <1>6, <1>7, <1>8 DEF Lock

LEMMA SkipAuthorize ==
    ASSUME Serial, TypeOK, SkipInv, NEW p \in Procs, Authorize(p)
    PROVE  SkipInv'
  <1> USE DEF Serial, TypeOK, SkipInv, SkipCommand, SkipLock, SkipUnlock, Committing,
              LockSteps, UnlockSteps, SharedSteps, Goto, Fail
  <1>0. CopiesInv
    BY DEF CopiesInv
  <1>1. CASE OpenContainer(p)
    <2>1. SameContainer
      BY <1>1, SetReadonlySame DEF OpenContainer
    <2>2. CopiesInv'
      BY <1>0, <1>1, <2>1, SkipSame DEF OpenContainer
    <2>3. pc'[p] = "auth" /\ cont' # Absent
      BY <1>1, <2>1 DEF OpenContainer, SameContainer
    <2> QED BY <2>2, <2>3 DEF CopiesInv
  <1>2. CASE OpenFails(p) \/ AuthorizeIoError(p)
    <2>1. CopiesInv'
      BY <1>0, <1>2, SkipSame DEF SameContainer, OpenFails, AuthorizeIoError, disk
    <2> QED BY <1>2, <2>1 DEF CopiesInv, OpenFails, AuthorizeIoError
  <1>3. CASE Authorized(p)
    <2>1. CopiesInv'
      BY <1>0, <1>3, SkipSame DEF SameContainer, Authorized, disk
    <2>2. /\ UNCHANGED <<cont, cmd>> /\ cont # Absent
          /\ left'[p] = cont.toc /\ held'[p] = cont.files
          /\ pc'[p] = IF cmd[p] = "unlock" THEN "uOpen" ELSE "dRecycle"
      BY <1>3 DEF Authorized, disk
    <2>3. CASE cmd[p] = "unlock"
      BY <2>1, <2>2, <2>3 DEF CopiesInv
    <2>4. CASE cmd[p] # "unlock"
      BY <2>1, <2>2, <2>4 DEF CopiesInv
    <2> QED BY <2>3, <2>4
  <1>4. CASE Denied(p)
    <2>1. SameContainer
      BY <1>4, RearmSame DEF Denied
    <2>2. CopiesInv'
      BY <1>0, <1>4, <2>1, SkipSame DEF Denied
    <2> QED BY <1>4, <2>2 DEF CopiesInv, Denied
  <1> QED BY <1>1, <1>2, <1>3, <1>4 DEF Authorize

LEMMA SkipUnlockKeeps ==
    ASSUME Serial, TypeOK, SkipInv, NEW p \in Procs, Unlock(p)
    PROVE  SkipInv'
  <1> USE DEF Serial, TypeOK, SkipInv, SkipCommand, SkipLock, SkipUnlock, Committing,
              LockSteps, UnlockSteps, SharedSteps, Goto, Fail
  <1>0. CopiesInv
    BY DEF CopiesInv
  <1>1. CASE UnlockExists(p) \/ UnlockClean(p) \/ UnlockMkdir(p)
    <2>1. CopiesInv'
      BY <1>0, <1>1, SkipSame
      DEF SameContainer, UnlockExists, UnlockClean, UnlockMkdir, RemoveRestoring, disk
    <2>2. CASE UnlockExists(p)
      BY <2>1, <2>2 DEF CopiesInv, UnlockExists, disk, locals
    <2>3. CASE UnlockClean(p)
      BY <2>1, <2>3 DEF CopiesInv, UnlockClean, RemoveRestoring, locals
    <2>4. CASE UnlockMkdir(p)
      BY <2>1, <2>4, AbsentAssumption DEF CopiesInv, UnlockMkdir, locals
    <2> QED BY <1>1, <2>2, <2>3, <2>4
  <1>2. CASE UnlockBails(p) \/ UnlockExtractFails(p)
    <2>1. SameContainer
      BY <1>2, RearmSame DEF UnlockBails, UnlockExtractFails
    <2>2. CopiesInv'
      BY <1>0, <1>2, <2>1, SkipSame DEF UnlockBails, UnlockExtractFails
    <2> QED BY <1>2, <2>2 DEF CopiesInv, UnlockBails, UnlockExtractFails
  <1>3. CASE UnlockExtract(p)
    <2>1. CopiesInv'
      BY <1>0, <1>3, SkipSame DEF SameContainer, UnlockExtract
    <2> QED BY <1>3, <2>1, AbsentAssumption DEF CopiesInv, UnlockExtract, FilesIn
  <1>4. CASE UnlockExtracted(p)
    <2>1. CopiesInv'
      BY <1>0, <1>4, SkipSame DEF SameContainer, UnlockExtracted, disk
    <2>2. restoring = cont.toc
      BY <1>4 DEF UnlockExtracted, Exact
    <2> QED BY <1>4, <2>1, <2>2 DEF CopiesInv, UnlockExtracted, disk, locals
  <1>5. CASE UnlockRename(p)
    <2>1. CopiesInv'
      BY <1>5 DEF CopiesInv, UnlockRename, NoDataLoss, DataSafe, Exact, Whole, FilesIn
    <2> QED BY <1>5, <2>1 DEF CopiesInv, UnlockRename, locals
  <1>6. CASE UnlockRecycle(p)
    <2>1. CopiesInv'
      <3>1. CASE cont' = Absent
        BY <1>6, <3>1 DEF CopiesInv, UnlockRecycle, NoDataLoss, DataSafe
      <3>2. CASE cont' = SetReadonly(cont, FALSE)
        BY <1>0, <1>6, <3>2, SetReadonlySame, SkipSame DEF UnlockRecycle
      <3> QED BY <1>6, <3>1, <3>2 DEF UnlockRecycle
    <2>2. pc'[p] \in {"complete", "failed"} /\ cmd' = cmd /\ cmd[p] = "unlock"
      BY <1>6 DEF UnlockRecycle, locals
    <2> QED BY <2>1, <2>2 DEF CopiesInv
  <1> QED BY <1>1, <1>2, <1>3, <1>4, <1>5, <1>6 DEF Unlock

LEMMA SkipDelete ==
    ASSUME Serial, TypeOK, SkipInv, NEW p \in Procs, Delete(p)
    PROVE  SkipInv'
  <1>0. CopiesInv
    BY DEF SkipInv, CopiesInv
  <1>1. CASE DeleteRecycle(p)
    <2>1. CopiesInv'
      BY <1>1 DEF CopiesInv, DeleteRecycle, NoDataLoss, DataSafe, FilesIn
    <2> QED BY <1>1, <2>1, SkipLeave DEF DeleteRecycle
  <1>2. CASE DeleteFails(p)
    <2>1. SameContainer
      BY <1>2, SetReadonlySame DEF DeleteFails, TypeOK
    <2>2. CopiesInv'
      BY <1>0, <1>2, <2>1, SkipSame DEF DeleteFails
    <2> QED
      BY <1>2, <2>2
      DEF Serial, TypeOK, SkipInv, CopiesInv, SkipCommand, SkipLock, SkipUnlock, Committing,
          LockSteps, UnlockSteps, SharedSteps, DeleteFails, Goto, Fail
  <1> QED BY <1>1, <1>2 DEF Delete

LEMMA SkipJournaling ==
    ASSUME Serial, TypeOK, SkipInv, NEW p \in Procs, Journaling(p)
    PROVE  SkipInv'
  <1> USE DEF Serial, TypeOK, SkipInv, SkipCommand, SkipLock, SkipUnlock, Committing,
              LockSteps, UnlockSteps, SharedSteps, Goto, Fail
  <1>0. CopiesInv
    BY DEF CopiesInv
  <1>1. CASE JournalCreate(p) \/ JournalWrite(p) \/ Unjournaled(p) \/ CommitFails(p)
    <2>1. UNCHANGED <<folder, tmp, cont, restoring, data, locals>>
      BY <1>1 DEF JournalCreate, JournalWrite, Unjournaled, CommitFails, disk
    <2>2. CopiesInv'
      BY <1>0, <2>1, SkipSame DEF SameContainer
    <2>3. \/ Committing(p) /\ pc'[p] \in {"begin", "beginWrite", "rename"}
          \/ pc'[p] = "failed"
      BY <1>1 DEF JournalCreate, JournalWrite, Unjournaled, CommitFails
    <2> QED BY <2>1, <2>2, <2>3 DEF CopiesInv, Exact, locals
  <1>2. CASE Complete(p)
    <2>1. CopiesInv'
      BY <1>0, <1>2, SkipSame DEF SameContainer, Complete
    <2> QED BY <1>2, <2>1, SkipLeave DEF Complete
  <1> QED BY <1>1, <1>2 DEF Journaling

LEMMA SkipKeeps ==
    ASSUME Serial, TypeOK, SkipInv, [SkipNext]_vars
    PROVE  SkipInv'
  <1>0. CopiesInv
    BY DEF SkipInv, CopiesInv
  <1>1. ASSUME NEW p \in Procs, Start(p) \/ Retry(p) PROVE SkipInv'
    <2>1. CopiesInv'
      BY <1>0, <1>1, SkipSame DEF SameContainer, Start, Retry, disk
    <2>2. pc'[p] \in {"recover", "ready"}
      BY <1>1 DEF TypeOK, Start, Retry, Goto
    <2> QED
      BY <2>1, <2>2 DEF Serial, SkipInv, CopiesInv, SkipCommand, SkipLock, SkipUnlock,
         Committing, LockSteps, UnlockSteps, SharedSteps
  <1>2. ASSUME NEW p \in Procs, Step(p) \/ SkipRecovery(p) \/ KeepRecord(p)
        PROVE  SkipInv'
    BY <1>2, SkipRecover, SkipLockKeeps, SkipAuthorize, SkipUnlockKeeps, SkipDelete,
       SkipJournaling DEF Step
  <1>3. ASSUME NEW p \in Procs, Exit(p) \/ Crash(p) PROVE SkipInv'
    <2>1. CopiesInv'
      BY <1>0, <1>3, SkipSame DEF SameContainer, Exit, Crash, disk
    <2> QED BY <1>3, <2>1, SkipLeave DEF Exit, Crash
  <1>4. CASE NewFolder
    <2>1. CopiesInv'
      BY <1>4 DEF NewFolder, CopiesInv, NoDataLoss, DataSafe
    <2> QED
      BY <1>4, <2>1 DEF NewFolder, SkipInv, CopiesInv, SkipCommand, SkipLock, SkipUnlock,
         Committing, LockSteps, UnlockSteps, SharedSteps
  <1>5. CASE UNCHANGED vars
    BY <1>5 DEF vars, disk, locals, SkipInv, SkipCommand, SkipLock, SkipUnlock, Committing,
       NoDataLoss, DataSafe, Exact, Whole, FilesIn
  <1> QED BY <1>1, <1>2, <1>3, <1>4, <1>5 DEF SkipNext, Next

(* Although recover() may be cut short and may leave any record behind,    *)
(* serial commands only ever put whole containers and whole folders in     *)
(* place, and work from the copy they have read.                           *)
THEOREM SkipInvariant ==
    ASSUME Serial
    PROVE  SkipSpec => []SkipInv
  <1>1. Init => SkipInv
    BY AbsentAssumption
    DEF Init, SkipInv, SkipCommand, SkipLock, SkipUnlock, Committing, LockSteps,
        UnlockSteps, SharedSteps, NoDataLoss, DataSafe, Exact, Whole, FilesIn, Container
  <1>2. TypeOK /\ SkipInv /\ [SkipNext]_vars => SkipInv'
    BY SkipKeeps
  <1> QED BY <1>1, <1>2, SkipTypeCorrect, PTL DEF SkipSpec

LEMMA NoLossSame ==
    ASSUME NoDataLoss, UNCHANGED <<folder, data>>, SameContainer
    PROVE  NoDataLoss'
  BY DEF NoDataLoss, SameContainer, FilesIn

LEMMA NoLossUnmoved ==
    ASSUME NoDataLoss, UNCHANGED <<folder, cont, data>>
    PROVE  NoDataLoss'
  BY DEF NoDataLoss, FilesIn

LEMMA RecoverLoses ==
    ASSUME TypeOK, SkipInv, NoDataLoss, NEW p \in Procs,
           Recover(p) \/ SkipRecovery(p) \/ KeepRecord(p), ~FinishUnlock(p)
    PROVE  NoDataLoss'
  <1>1. CASE FinishLock(p)
    <2>1. CopiesInv /\ cont # Absent /\ UNCHANGED <<cont, data>>
      BY <1>1 DEF FinishLock, RemoveFolder, Goto, SkipInv, SkipLock, CopiesInv
    <2>2. FilesIn(folder') \subseteq FilesIn(folder)
      BY <1>1 DEF FinishLock, RemoveFolder, FilesIn
    <2> QED BY <2>1, <2>2, SkipFolderGoes
  <1>2. CASE ~FinishLock(p)
    <2>1. UNCHANGED <<folder, cont, data>>
      BY <1>2 DEF Recover, RecoverRecord, RecoverDone, ReplayLock, RollBackLock,
         ReplayUnlock, RollBackUnlock, RemoveRestoring, DropRecord, SkipRecovery,
         KeepRecord, disk
    <2> QED BY <2>1, NoLossUnmoved
  <1> QED BY <1>1, <1>2

LEMMA LockLoses ==
    ASSUME TypeOK, SkipInv, NoDataLoss, NEW p \in Procs, Lock(p)
    PROVE  NoDataLoss'
  <1> USE DEF SkipInv, SkipLock, Goto
  <1>1. CASE LockExists(p) \/ LockClean(p) \/ LockScan(p) \/ LockCreate(p)
             \/ LockSync(p) \/ LockWriteFails(p)
    BY <1>1, NoLossUnmoved DEF LockExists, LockClean, LockScan, LockCreate, LockSync,
       LockWriteFails, disk
  <1>2. CASE LockCopy(p)
    BY <1>2, NoLossUnmoved DEF LockCopy, AppendTo
  <1>3. CASE LockRename(p)
    BY <1>3 DEF LockRename, Committing, NoDataLoss, Exact, FilesIn
  <1>4. CASE LockDelete(p)
    <2>1. CopiesInv /\ cont # Absent /\ UNCHANGED <<cont, data>>
      BY <1>4 DEF LockDelete, RemoveFolder, CopiesInv
    <2>2. FilesIn(folder') \subseteq FilesIn(folder)
      BY <1>4 DEF LockDelete, RemoveFolder, FilesIn
    <2> QED BY <2>1, <2>2, SkipFolderGoes
  <1>5. CASE LockGuard(p)
    <2>1. UNCHANGED <<folder, data>> /\ SameContainer
      BY <1>5, SetReadonlySame DEF LockGuard, SameContainer
    <2> QED BY <2>1, NoLossSame
  <1> QED BY <1>1, <1>2, <1>3, <1>4, <1>5 DEF Lock

LEMMA UnlockLoses ==
    ASSUME TypeOK, SkipInv, NoDataLoss, NEW p \in Procs, Unlock(p)
    PROVE  NoDataLoss'
  <1> USE DEF SkipInv, SkipUnlock, Goto, Fail
  <1>1. CASE UnlockExists(p) \/ UnlockClean(p) \/ UnlockMkdir(p) \/ UnlockExtract(p)
             \/ UnlockExtracted(p)
    <2>1. UNCHANGED <<folder, cont, data>>
      BY <1>1 DEF UnlockExists, UnlockClean, UnlockMkdir, UnlockExtract,
         UnlockExtracted, RemoveRestoring, disk
    <2> QED BY <2>1, NoLossUnmoved
  <1>2. CASE UnlockBails(p) \/ UnlockExtractFails(p)
    <2>1. UNCHANGED <<folder, data>> /\ Rearm(p)
      BY <1>2 DEF UnlockBails, UnlockExtractFails
    <2> QED BY <2>1, RearmSame, NoLossSame
  <1>3. CASE UnlockRename(p)
    BY <1>3 DEF UnlockRename, Committing, NoDataLoss, DataSafe, Whole, FilesIn
  <1>4. CASE UnlockRecycle(p)
    <2>1. CASE cont' = Absent
      BY <1>4, <2>1 DEF UnlockRecycle, NoDataLoss, DataSafe, FilesIn
    <2>2. CASE cont' = SetReadonly(cont, FALSE)
      BY <1>4, <2>2, SetReadonlySame, NoLossSame DEF UnlockRecycle
    <2> QED BY <1>4, <2>1, <2>2 DEF UnlockRecycle
  <1> QED BY <1>1, <1>2, <1>3, <1>4 DEF Unlock

LEMMA OthersLose ==
    ASSUME TypeOK, SkipInv, NoDataLoss, NEW p \in Procs,
           \/ Authorize(p) \/ Delete(p) \/ Journaling(p)
           \/ Start(p) \/ Retry(p) \/ Exit(p) \/ Crash(p)
    PROVE  NoDataLoss'
  <1>1. CASE Start(p) \/ Retry(p) \/ Exit(p) \/ Crash(p) \/ Journaling(p)
    BY <1>1, NoLossUnmoved DEF Start, Retry, Exit, Crash, Journaling, JournalCreate,
       JournalWrite, Unjournaled, CommitFails, Complete, disk
  <1>2. CASE Delete(p)
    <2>1. CASE DeleteRecycle(p)
      BY <2>1 DEF DeleteRecycle, NoDataLoss, FilesIn
    <2>2. CASE DeleteFails(p)
      BY <2>2, SetReadonlySame, NoLossSame DEF DeleteFails, TypeOK
    <2> QED BY <1>2, <2>1, <2>2 DEF Delete
  <1>3. CASE Authorize(p)
    <2>1. CASE OpenFails(p) \/ Authorized(p) \/ AuthorizeIoError(p)
      BY <2>1, NoLossUnmoved DEF OpenFails, Authorized, AuthorizeIoError, disk
    <2>2. CASE OpenContainer(p)
      BY <2>2, SetReadonlySame, NoLossSame DEF OpenContainer
    <2>3. CASE Denied(p)
      BY <2>3, RearmSame, NoLossSame DEF Denied
    <2> QED BY <1>3, <2>1, <2>2, <2>3 DEF Authorize
  <1> QED BY <1>1, <1>2, <1>3

(* Whatever call of lock, unlock, delete and of recover() itself fails and *)
(* wherever serial processes die, the one step that can take the last      *)
(* complete copy is recover()'s replay of an unlock record.                *)
THEOREM OnlyUnlockReplayLoses ==
    ASSUME Serial
    PROVE  SkipSpec => LossNeedsUnlockReplay
  <1>1. ASSUME TypeOK, SkipInv, SkipNext, NoDataLoss, ~NoDataLoss'
        PROVE  \E p \in Procs : FinishUnlock(p)
    <2>1. ~NewFolder
      BY <1>1, AbsentAssumption DEF NewFolder, NoDataLoss, FilesIn
    <2> QED
      BY <1>1, <2>1, RecoverLoses, LockLoses, UnlockLoses, OthersLose
      DEF SkipNext, Next, Step
  <1>2. ASSUME TypeOK, NEW p \in Procs, FinishUnlock(p)
        PROVE  pc[p] = "rUnlockFinish" /\ pc'[p] = "rDrop"
    BY <1>2 DEF TypeOK, FinishUnlock, Goto
  <1>3. TypeOK /\ SkipInv /\ [SkipNext]_vars
          => [NoDataLoss /\ ~NoDataLoss' =>
                \E p \in Procs : pc[p] = "rUnlockFinish" /\ pc'[p] = "rDrop"]_vars
    BY <1>1, <1>2
  <1> QED
    BY <1>3, SkipTypeCorrect, SkipInvariant, PTL DEF SkipSpec, LossNeedsUnlockReplay

-----------------------------------------------------------------------------
(* BesideInv is preserved by every step of a lock and of the recoveries    *)
(* that run beside it.                                                     *)

LEMMA BesideLeave ==
    ASSUME TypeOK, BesideInv, NEW p \in Procs, Leave(p),
           UNCHANGED <<folder, tmp, cont, data>>,
           \A u \in Uuids : journal'[u] # "unlock"
    PROVE  BesideInv'
  <1>1. DataSafe'
    BY DEF BesideInv, DataSafe, Whole, FilesIn
  <1>2. ASSUME NEW q \in Procs PROVE BesideStep(q)'
    BY DEF TypeOK, BesideInv, BesideStep, Leave, Committing, Whole,
           LockSteps, UnlockSteps, SharedSteps
  <1> QED BY <1>1, <1>2 DEF BesideInv

LEMMA BesideRecover ==
    ASSUME LockBesideRecovery, TypeOK, BesideInv, NEW p \in Procs, Recover(p)
    PROVE  BesideInv'
  <1> USE DEF TypeOK, BesideInv, BesideStep, Goto, Committing,
              LockSteps, UnlockSteps, SharedSteps
  <1>1. CASE RecoverRecord(p)
    BY <1>1 DEF RecoverRecord, DataSafe, Whole, FilesIn, disk
  <1>2. CASE RecoverDone(p)
    BY <1>2 DEF RecoverDone, DataSafe, Whole, FilesIn, disk
  <1>3. CASE ReplayLock(p)
    <2>1. pc[p] = "rLock" /\ UNCHANGED <<disk, data, locals>>
      BY <1>3 DEF ReplayLock
    <2>2. CASE Goto(p, "rLock", "rLockFinish") /\ cont # Absent
      BY <2>1, <2>2 DEF DataSafe, Whole, FilesIn, disk, locals
    <2>3. CASE Goto(p, "rLock", "rLockUnstage") \/ Goto(p, "rLock", "rDrop")
      BY <2>1, <2>3 DEF DataSafe, Whole, FilesIn, disk, locals
    <2> HIDE DEF Goto
    <2> QED BY <1>3, <2>2, <2>3 DEF ReplayLock
  <1>4. CASE RollBackLock(p)
    BY <1>4 DEF RollBackLock, DataSafe, Whole, FilesIn, locals
  <1>5. CASE FinishLock(p)
    BY <1>5 DEF FinishLock, RemoveFolder, DataSafe, Whole, locals
  <1>6. CASE ReplayUnlock(p) \/ RollBackUnlock(p) \/ FinishUnlock(p)
    BY <1>6 DEF ReplayUnlock, RollBackUnlock, RemoveRestoring, FinishUnlock
  <1>7. CASE DropRecord(p)
    BY <1>7 DEF DropRecord, DataSafe, Whole, FilesIn, locals
  <1> QED BY <1>1, <1>2, <1>3, <1>4, <1>5, <1>6, <1>7 DEF Recover

LEMMA BesideLock ==
    ASSUME LockBesideRecovery, TypeOK, BesideInv, NEW p \in Procs, Lock(p)
    PROVE  BesideInv'
  <1> USE DEF LockBesideRecovery, TypeOK, BesideInv, BesideStep, Goto, Fail, Committing,
              LockSteps, UnlockSteps, SharedSteps
  <1>1. CASE LockExists(p)
    BY <1>1 DEF LockExists, DataSafe, Whole, FilesIn, disk, locals
  <1>2. CASE LockClean(p)
    BY <1>2 DEF LockClean, DataSafe, Whole, FilesIn, locals
  <1>3. CASE LockScan(p)
    BY <1>3 DEF LockScan, DataSafe, Whole, FilesIn, disk
  <1>4. CASE LockCreate(p)
    <2> PICK u \in Uuids : LockCreate(p)!(u)
      BY <1>4 DEF LockCreate
    <2> QED BY DEF DataSafe, Whole, FilesIn
  <1>5. CASE LockCopy(p)
    BY <1>5, AbsentAssumption DEF LockCopy, AppendTo, Container, DataSafe, Whole, FilesIn
  <1>6. CASE LockSync(p)
    BY <1>6 DEF LockSync, DataSafe, Whole, FilesIn, disk, locals
  <1>7. CASE LockWriteFails(p)
    BY <1>7 DEF LockWriteFails, DataSafe, Whole, FilesIn, locals
  <1>8. CASE LockRename(p)
    BY <1>8 DEF LockRename, DataSafe, Whole, FilesIn, locals
  <1>9. CASE LockDelete(p)
    BY <1>9 DEF LockDelete, RemoveFolder, DataSafe, Whole, locals
  <1>10. CASE LockGuard(p)
    <2>1. SameContainer
      BY <1>10, SetReadonlySame DEF LockGuard, SameContainer
    <2> QED BY <1>10, <2>1 DEF LockGuard, SameContainer, DataSafe, Whole, FilesIn, locals
  <1> QED
    BY <1>1, <1>2, <1>3, <1>4, <1>5, <1>6, <1>7, <1>8, <1>9, <1>10 DEF Lock

LEMMA BesideJournaling ==
    ASSUME LockBesideRecovery, TypeOK, BesideInv, NEW p \in Procs, Journaling(p)
    PROVE  BesideInv'
  <1> USE DEF TypeOK, BesideInv, BesideStep, Goto, Fail, Committing,
              LockSteps, UnlockSteps, SharedSteps
  <1>1. CASE JournalCreate(p)
    BY <1>1 DEF JournalCreate, DataSafe, Whole, FilesIn, locals
  <1>2. CASE JournalWrite(p)
    BY <1>2 DEF JournalWrite, OpKind, DataSafe, Whole, FilesIn, locals
  <1>3. CASE CommitFails(p)
    BY <1>3 DEF CommitFails, DataSafe, Whole, FilesIn, disk, locals
  <1>4. CASE Complete(p)
    <2>1. \A u \in Uuids : journal'[u] # "unlock"
      BY <1>4 DEF Complete
    <2> QED BY <1>4, <2>1, BesideLeave DEF Complete
  <1>5. CASE Unjournaled(p)
    BY <1>5 DEF Unjournaled, DataSafe, Whole, FilesIn, disk, locals
  <1> QED BY <1>1, <1>2, <1>3, <1>4, <1>5 DEF Journaling

(* no command asks for a password *)
LEMMA BesideNeverOpens ==
    ASSUME BesideInv, NEW p \in Procs
    PROVE  ~Authorize(p) /\ ~Unlock(p) /\ ~Delete(p)
  <1> USE DEF BesideInv, BesideStep, Goto, Fail, UnlockSteps, SharedSteps
  <1>1. ~Authorize(p)
    BY DEF Authorize, OpenContainer, OpenFails, Authorized, Denied, AuthorizeIoError
  <1>2. ~Unlock(p)
    BY DEF Unlock, UnlockExists, UnlockBails, UnlockClean, UnlockMkdir, UnlockExtract,
           UnlockExtractFails, UnlockExtracted, UnlockRename, UnlockRecycle,
           RemoveRestoring
  <1>3. ~Delete(p)
    BY DEF Delete, DeleteRecycle, DeleteFails
  <1> QED BY <1>1, <1>2, <1>3

LEMMA BesideNext ==
    ASSUME LockBesideRecovery, TypeOK, BesideInv, [Next]_vars
    PROVE  BesideInv'
  <1> USE DEF TypeOK, BesideInv, BesideStep, Goto, Committing,
              LockSteps, UnlockSteps, SharedSteps
  <1>1. ASSUME NEW p \in Procs, Start(p) PROVE BesideInv'
    <2> PICK c \in Cmds[p] : cmd' = [cmd EXCEPT ![p] = c]
      BY <1>1 DEF Start
    <2>1. c \in {"lock", "inspect"}
      BY DEF LockBesideRecovery
    <2> QED BY <1>1, <2>1 DEF Start, DataSafe, Whole, FilesIn, disk
  <1>2. ASSUME NEW p \in Procs, Step(p) PROVE BesideInv'
    BY <1>2, BesideRecover, BesideLock, BesideJournaling, BesideNeverOpens DEF Step
  <1>3. ASSUME NEW p \in Procs, Retry(p) PROVE BesideInv'
    BY <1>3 DEF Retry, DataSafe, Whole, FilesIn, disk
  <1>4. ASSUME NEW p \in Procs, Exit(p) \/ Crash(p) PROVE BesideInv'
    BY <1>4, BesideLeave DEF Exit, Crash, disk
  <1>5. CASE NewFolder
    BY <1>5, AbsentAssumption DEF NewFolder, DataSafe, FilesIn, locals
  <1>6. CASE UNCHANGED vars
    BY <1>6 DEF vars, disk, locals, DataSafe, Whole, FilesIn
  <1> QED BY <1>1, <1>2, <1>3, <1>4, <1>5, <1>6 DEF Next

(* The invariant of one lock beside any number of recoveries: whatever the *)
(* recoveries remove under it, the lock renames only a whole container.    *)
THEOREM BesideInvariant ==
    ASSUME LockBesideRecovery
    PROVE  Spec => []BesideInv
  <1>1. Init => BesideInv
    BY AbsentAssumption
    DEF Init, BesideInv, DataSafe, BesideStep, Committing, LockSteps, UnlockSteps,
        SharedSteps, Whole, FilesIn, Container
  <1>2. TypeOK /\ BesideInv /\ [Next]_vars => BesideInv'
    BY BesideNext
  <1> QED BY <1>1, <1>2, TypeCorrect, PTL DEF Spec

(* lock_folder loses nothing beside processes that start up and recover at *)
(* the same time, and crash: a recovery that meets the lock's own record   *)
(* either takes its staging file away or finishes the lock.                *)
THEOREM DataIsNeverLostBeside ==
    ASSUME LockBesideRecovery
    PROVE  Spec => []NoDataLoss
  <1>1. BesideInv => NoDataLoss
    BY DEF BesideInv, DataSafe, NoDataLoss, Whole
  <1> QED BY <1>1, BesideInvariant, PTL

(* The same for what replay relies on, although the record it has read may *)
(* be that of the lock under way.                                          *)
THEOREM ReplayIsSafeBeside ==
    ASSUME LockBesideRecovery
    PROVE  Spec => []ReplayPremise
  <1>1. BesideInv => ReplayPremise
    BY DEF BesideInv, DataSafe, ReplayPremise, Whole
  <1> QED BY <1>1, BesideInvariant, PTL

-----------------------------------------------------------------------------
(* The refinement: serial processes, and a lock beside recoveries, keep    *)
(* the two-copies promise.                                                 *)

AbstractStep == [Abstract!Next]_<<data, Full>>

(* Steps that leave the folder and the container's contents alone map to   *)
(* stuttering.                                                             *)
LEMMA SameCopies ==
    ASSUME UNCHANGED <<folder, data>>, SameContainer
    PROVE  AbstractStep
  BY DEF SameContainer, AbstractStep, Full

LEMMA SameDisk ==
    ASSUME UNCHANGED <<folder, cont, data>>
    PROVE  AbstractStep
  BY DEF AbstractStep, Full

(* With a container in place the folder may go, file by file. *)
LEMMA FolderGoes ==
    ASSUME DataSafe, cont # Absent, UNCHANGED <<cont, data>>,
           folder' = folder \/ folder' = Absent \/ \E f : folder' = folder \ {f},
           folder # Absent
    PROVE  AbstractStep
  <1>1. "container" \in Full /\ "container" \in Full'
    BY DEF DataSafe, Whole, Full
  <1>2. Full \subseteq {"folder", "container"} /\ Full' \subseteq {"folder", "container"}
    BY DEF Full
  <1>3. "folder" \in Full' => "folder" \in Full
    BY DEF Full
  <1>4. CASE "folder" \in Full /\ "folder" \notin Full'
    <2>1. Abstract!Drop("folder")
      BY <1>1, <1>2, <1>4 DEF Abstract!Drop, Abstract!Places
    <2> QED BY <2>1 DEF AbstractStep, Abstract!Next, Abstract!Places
  <1>5. CASE "folder" \in Full <=> "folder" \in Full'
    <2>1. Full' = Full
      <3>1. \A c : c \in Full' <=> c \in Full
        BY <1>1, <1>2, <1>5
      <3> QED BY <3>1
    <2> QED BY <2>1 DEF AbstractStep
  <1> QED BY <1>3, <1>4, <1>5

(* A container is written while the folder is complete. *)
LEMMA ContainerComes ==
    ASSUME DataSafe, DataSafe', cont = Absent, cont' # Absent, folder # Absent,
           UNCHANGED <<folder, data>>
    PROVE  AbstractStep
  <1>1. "folder" \in Full /\ "folder" \in Full' /\ "container" \in Full'
    BY DEF DataSafe, FilesIn, Whole, Full
  <1>2. Full \subseteq {"folder", "container"} /\ Full' \subseteq {"folder", "container"}
    BY DEF Full
  <1>3. Full' = Full \cup {"container"}
    BY <1>1, <1>2
  <1> QED BY <1>1, <1>3 DEF AbstractStep, Abstract!Next, Abstract!Copy, Abstract!Places

(* A folder is put in place while the container is complete. *)
LEMMA FolderComes ==
    ASSUME DataSafe, cont # Absent, folder' # Absent, data \subseteq folder',
           UNCHANGED <<cont, data>>
    PROVE  AbstractStep
  <1>1. "container" \in Full /\ "folder" \in Full' /\ "container" \in Full'
    BY DEF DataSafe, Whole, Full
  <1>2. Full \subseteq {"folder", "container"} /\ Full' \subseteq {"folder", "container"}
    BY DEF Full
  <1>3. Full' = Full \cup {"folder"}
    BY <1>1, <1>2
  <1> QED BY <1>1, <1>3 DEF AbstractStep, Abstract!Next, Abstract!Copy, Abstract!Places

(* The container goes while the folder is complete. *)
LEMMA ContainerGoes ==
    ASSUME DataSafe, cont # Absent, cont' = Absent,
           folder # Absent, data \subseteq folder, UNCHANGED <<folder, data>>
    PROVE  AbstractStep
  <1>1. Full = {"folder", "container"}
    BY DEF DataSafe, Whole, Full
  <1>2. Full' = {"folder"}
    BY DEF Full
  <1> QED
    BY <1>1, <1>2 DEF AbstractStep, Abstract!Next, Abstract!Drop, Abstract!Places

(* An authorized delete: with a complete folder it only drops a copy. *)
LEMMA DeleteGivesUp ==
    ASSUME DataSafe, TypeOK, NEW p \in Procs, DeleteRecycle(p)
    PROVE  AbstractStep
  <1>1. /\ cont # Absent /\ cont' = Absent /\ folder' = folder
        /\ data' = data \cap FilesIn(folder)
    BY DEF DeleteRecycle
  <1>2. CASE folder # Absent /\ data \subseteq folder
    <2>1. data' = data
      BY <1>1, <1>2 DEF FilesIn
    <2> QED BY <1>1, <1>2, <2>1, ContainerGoes
  <1>3. CASE folder = Absent \/ ~(data \subseteq folder)
    <2>1. "container" \in Full
      BY <1>1 DEF DataSafe, Whole, Full
    <2>2. Full' \subseteq {"folder"}
      BY <1>1 DEF Full
    <2>3. data' \subseteq data /\ (data' # data \/ data' = {})
      BY <1>1, <1>3 DEF FilesIn
    <2> QED BY <2>1, <2>2, <2>3 DEF AbstractStep, Abstract!Next, Abstract!GiveUp
  <1> QED BY <1>2, <1>3

LEMMA NewFolderRenews ==
    ASSUME NewFolder
    PROVE  AbstractStep
  <1>1. Full = {} /\ data' \in (SUBSET Files) \ {{}}
    BY DEF NewFolder, Full
  <1>2. folder' = data' /\ folder' # Absent /\ cont' = Absent
    BY AbsentAssumption DEF NewFolder
  <1>3. Full' = {"folder"}
    BY <1>2 DEF Full
  <1> QED BY <1>1, <1>3 DEF AbstractStep, Abstract!Next, Abstract!Renew

LEMMA RecoverRefines ==
    ASSUME Serial, TypeOK, IInv, NEW p \in Procs, Recover(p)
    PROVE  AbstractStep
  <1> USE DEF IInv
  <1>1. CASE RecoverRecord(p) \/ RecoverDone(p) \/ ReplayLock(p) \/ RollBackLock(p)
             \/ ReplayUnlock(p) \/ RollBackUnlock(p) \/ DropRecord(p)
    <2>1. UNCHANGED <<folder, cont, data>>
      BY <1>1 DEF RecoverRecord, RecoverDone, ReplayLock, RollBackLock, ReplayUnlock,
         RollBackUnlock, RemoveRestoring, DropRecord, disk
    <2> QED BY <2>1, SameDisk
  <1>2. CASE FinishLock(p)
    <2>1. cont # Absent /\ UNCHANGED <<cont, data>>
      BY <1>2 DEF FinishLock, RemoveFolder, Goto, RecoverInv
    <2>2. CASE folder = Absent
      BY <1>2, <2>1, <2>2, SameDisk DEF FinishLock, RemoveFolder, FilesIn
    <2>3. CASE folder # Absent
      BY <1>2, <2>1, <2>3, FolderGoes DEF FinishLock, RemoveFolder, FilesIn
    <2> QED BY <2>2, <2>3
  <1>3. CASE FinishUnlock(p)
    <2>1. /\ folder # Absent /\ cont # Absent /\ data \subseteq folder
          /\ UNCHANGED <<folder, data>>
      BY <1>3 DEF FinishUnlock, Goto, RecoverInv, UnlockRecordSafe, RecoverSteps
    <2>2. CASE cont' = Absent
      BY <2>1, <2>2, ContainerGoes
    <2>3. CASE cont' = SetReadonly(cont, FALSE)
      BY <2>1, <2>3, SetReadonlySame, SameCopies
    <2> QED BY <1>3, <2>2, <2>3 DEF FinishUnlock
  <1> QED BY <1>1, <1>2, <1>3 DEF Recover

LEMMA LockRefines ==
    ASSUME Serial, TypeOK, IInv, IInv', NEW p \in Procs, Lock(p)
    PROVE  AbstractStep
  <1> USE DEF IInv
  <1>1. CASE LockExists(p) \/ LockClean(p) \/ LockScan(p) \/ LockCreate(p)
             \/ LockSync(p) \/ LockWriteFails(p)
    <2>1. UNCHANGED <<folder, cont, data>>
      BY <1>1 DEF LockExists, LockClean, LockScan, LockCreate, LockSync,
         LockWriteFails, disk
    <2> QED BY <2>1, SameDisk
  <1>2. CASE LockCopy(p)
    BY <1>2, SameDisk DEF LockCopy, AppendTo, Goto, LockInv
  <1>3. CASE LockRename(p)
    BY <1>3, ContainerComes DEF LockRename, Goto, LockInv, Committing
  <1>4. CASE LockDelete(p)
    <2>1. cont # Absent /\ UNCHANGED <<cont, data>>
      BY <1>4 DEF LockDelete, RemoveFolder, Goto, LockInv
    <2>2. CASE folder = Absent
      BY <1>4, <2>1, <2>2, SameDisk DEF LockDelete, RemoveFolder, FilesIn
    <2>3. CASE folder # Absent
      BY <1>4, <2>1, <2>3, FolderGoes DEF LockDelete, RemoveFolder, FilesIn
    <2> QED BY <2>2, <2>3
  <1>5. CASE LockGuard(p)
    <2>1. UNCHANGED <<folder, data>> /\ SameContainer
      BY <1>5, SetReadonlySame DEF LockGuard, SameContainer
    <2> QED BY <2>1, SameCopies
  <1> QED BY <1>1, <1>2, <1>3, <1>4, <1>5 DEF Lock

LEMMA UnlockRefines ==
    ASSUME Serial, TypeOK, IInv, NEW p \in Procs, Unlock(p)
    PROVE  AbstractStep
  <1> USE DEF IInv
  <1>1. CASE UnlockExists(p) \/ UnlockClean(p) \/ UnlockMkdir(p) \/ UnlockExtract(p)
             \/ UnlockExtracted(p)
    <2>1. UNCHANGED <<folder, cont, data>>
      BY <1>1 DEF UnlockExists, UnlockClean, UnlockMkdir, UnlockExtract,
         UnlockExtracted, RemoveRestoring, disk
    <2> QED BY <2>1, SameDisk
  <1>2. CASE UnlockBails(p) \/ UnlockExtractFails(p)
    <2>1. UNCHANGED <<folder, data>> /\ Rearm(p)
      BY <1>2 DEF UnlockBails, UnlockExtractFails
    <2> QED BY <2>1, RearmSame, SameCopies
  <1>3. CASE UnlockRename(p)
    BY <1>3, FolderComes DEF UnlockRename, Goto, UnlockInv, Committing
  <1>4. CASE UnlockRecycle(p)
    <2>1. folder # Absent /\ data \subseteq folder /\ UNCHANGED <<folder, data>>
      BY <1>4 DEF UnlockRecycle, Fail, Goto, UnlockInv
    <2>2. CASE cont # Absent /\ cont' = Absent
      BY <2>1, <2>2, ContainerGoes
    <2>3. CASE cont' = SetReadonly(cont, FALSE)
      BY <2>1, <2>3, SetReadonlySame, SameCopies
    <2> QED BY <1>4, <2>2, <2>3 DEF UnlockRecycle
  <1> QED BY <1>1, <1>2, <1>3, <1>4 DEF Unlock

LEMMA AuthorizeRefines ==
    ASSUME TypeOK, NEW p \in Procs, Authorize(p)
    PROVE  AbstractStep
  <1>1. CASE OpenFails(p) \/ Authorized(p) \/ AuthorizeIoError(p)
    BY <1>1, SameDisk DEF OpenFails, Authorized, AuthorizeIoError, disk
  <1>2. CASE OpenContainer(p)
    BY <1>2, SetReadonlySame, SameCopies DEF OpenContainer
  <1>3. CASE Denied(p)
    BY <1>3, RearmSame, SameCopies DEF Denied
  <1> QED BY <1>1, <1>2, <1>3 DEF Authorize

LEMMA NextRefines ==
    ASSUME Serial, TypeOK, IInv, IInv', [Next]_vars
    PROVE  AbstractStep
  <1>1. ASSUME NEW p \in Procs, Start(p) \/ Retry(p) \/ Exit(p) \/ Crash(p)
        PROVE  AbstractStep
    BY <1>1, SameDisk DEF Start, Retry, Exit, Crash, disk
  <1>2. ASSUME NEW p \in Procs, Journaling(p) PROVE AbstractStep
    BY <1>2, SameDisk
    DEF Journaling, JournalCreate, JournalWrite, Unjournaled, CommitFails, Complete, disk
  <1>3. ASSUME NEW p \in Procs, Delete(p) PROVE AbstractStep
    <2>1. CASE DeleteRecycle(p)
      BY <2>1, DeleteGivesUp DEF IInv
    <2>2. CASE DeleteFails(p)
      BY <2>2, SetReadonlySame, SameCopies DEF DeleteFails, TypeOK
    <2> QED BY <1>3, <2>1, <2>2 DEF Delete
  <1>4. CASE UNCHANGED vars
    BY <1>4, SameDisk DEF vars, disk
  <1> QED
    BY <1>1, <1>2, <1>3, <1>4, RecoverRefines, LockRefines, UnlockRefines,
       AuthorizeRefines, NewFolderRenews DEF Next, Step

LEMMA InitRefines == Init => Abstract!Init
  <1> SUFFICES ASSUME Init PROVE Abstract!Init
    OBVIOUS
  <1>1. CASE folder = data /\ cont = Absent
    <2>1. folder # Absent
      BY <1>1, AbsentAssumption DEF Init
    <2>2. Full = {"folder"}
      BY <1>1, <2>1 DEF Full
    <2> QED BY <2>2 DEF Init, Abstract!Init, Abstract!Places
  <1>2. CASE folder = Absent /\ cont # Absent /\ cont.files = data
    <2>1. Full = {"container"}
      BY <1>2 DEF Full
    <2> QED BY <2>1 DEF Init, Abstract!Init, Abstract!Places
  <1> QED BY <1>1, <1>2, AbsentAssumption DEF Init, Container

(* Serial processes of VaultOps implement TwoCopies: across every failure, *)
(* crash and recovery a copy of the user's files is dropped only while the *)
(* other one is complete, and files are given up only by a delete.         *)
THEOREM ImplementsTwoCopies ==
    ASSUME Serial
    PROVE  Spec => KeepsTwoCopies
  <1>1. TypeOK /\ IInv /\ IInv' /\ [Next]_vars => [Abstract!Next]_<<data, Full>>
    BY NextRefines DEF AbstractStep
  <1> QED
    BY <1>1, InitRefines, TypeCorrect, InductiveInvariant, PTL
    DEF Spec, KeepsTwoCopies, Abstract!Spec

-----------------------------------------------------------------------------
LEMMA BesideRefines ==
    ASSUME TypeOK, BesideInv, BesideInv', [Next]_vars
    PROVE  AbstractStep
  <1>1. ASSUME NEW p \in Procs, FinishLock(p) \/ LockDelete(p) PROVE AbstractStep
    <2>1. cont # Absent /\ UNCHANGED <<cont, data>>
      BY <1>1 DEF FinishLock, LockDelete, RemoveFolder, Goto, BesideInv, BesideStep
    <2>2. CASE folder = Absent
      BY <1>1, <2>1, <2>2, SameDisk DEF FinishLock, LockDelete, RemoveFolder, FilesIn
    <2>3. CASE folder # Absent
      BY <1>1, <2>1, <2>3, FolderGoes
      DEF FinishLock, LockDelete, RemoveFolder, FilesIn, BesideInv
    <2> QED BY <2>2, <2>3
  <1>2. ASSUME NEW p \in Procs, Recover(p) PROVE AbstractStep
    <2>1. ~FinishUnlock(p)
      BY DEF FinishUnlock, Goto, BesideInv, BesideStep
    <2>2. CASE ~FinishLock(p)
      <3>1. UNCHANGED <<folder, cont, data>>
        BY <1>2, <2>1, <2>2 DEF Recover, RecoverRecord, RecoverDone, ReplayLock,
           RollBackLock, ReplayUnlock, RollBackUnlock, RemoveRestoring, DropRecord, disk
      <3> QED BY <3>1, SameDisk
    <2> QED BY <1>1, <2>2
  <1>3. ASSUME NEW p \in Procs, Lock(p) PROVE AbstractStep
    <2>1. CASE LockExists(p) \/ LockClean(p) \/ LockScan(p) \/ LockCreate(p)
               \/ LockSync(p) \/ LockWriteFails(p)
      BY <2>1, SameDisk DEF LockExists, LockClean, LockScan, LockCreate, LockSync,
         LockWriteFails, disk
    <2>2. CASE LockCopy(p)
      BY <2>2, SameDisk DEF LockCopy, AppendTo, Goto, BesideInv, BesideStep
    <2>3. CASE LockRename(p)
      BY <2>3, ContainerComes DEF LockRename, Goto, BesideInv, BesideStep, Committing
    <2>4. CASE LockGuard(p)
      <3>1. UNCHANGED <<folder, data>> /\ SameContainer
        BY <2>4, SetReadonlySame DEF LockGuard, SameContainer
      <3> QED BY <3>1, SameCopies
    <2> QED BY <1>1, <1>3, <2>1, <2>2, <2>3, <2>4 DEF Lock
  <1>4. ASSUME NEW p \in Procs,
               Start(p) \/ Retry(p) \/ Exit(p) \/ Crash(p) \/ Journaling(p)
        PROVE  AbstractStep
    BY <1>4, SameDisk DEF Start, Retry, Exit, Crash, Journaling, JournalCreate,
       JournalWrite, Unjournaled, CommitFails, Complete, disk
  <1>5. CASE UNCHANGED vars
    BY <1>5, SameDisk DEF vars, disk
  <1> QED
    BY <1>2, <1>3, <1>4, <1>5, BesideNeverOpens, NewFolderRenews DEF Next, Step

(* A lock beside any number of recoveries implements TwoCopies too: no     *)
(* recovery drops the folder before the container it saw is complete.      *)
THEOREM ImplementsTwoCopiesBeside ==
    ASSUME LockBesideRecovery
    PROVE  Spec => KeepsTwoCopies
  <1>1. TypeOK /\ BesideInv /\ BesideInv' /\ [Next]_vars
          => [Abstract!Next]_<<data, Full>>
    BY BesideRefines DEF AbstractStep
  <1> QED
    BY <1>1, InitRefines, TypeCorrect, BesideInvariant, PTL
    DEF Spec, KeepsTwoCopies, Abstract!Spec

=============================================================================
