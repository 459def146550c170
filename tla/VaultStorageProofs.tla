------------------------- MODULE VaultStorageProofs -------------------------
(***************************************************************************)
(* Proofs about VaultStorage, for any number of processes, contents and    *)
(* lock files.                                                             *)
(***************************************************************************)
EXTENDS VaultStorage, TLAPS

USE ContentAssumption, InodeAssumption, ProcessAssumption,
    OperationAssumption, PlatformAssumption

(* The initial state is well typed.                                        *)
LEMMA InitTyped == Init => TypeOK
BY DEF Init, TypeOK, FileState, Fingerprint, Content, Legacy, Place, Opened, Deleting, Operation

(* Every step keeps the types.                                             *)
LEMMA StepTyped == TypeOK /\ [Next]_vars => TypeOK'
<1> SUFFICES ASSUME TypeOK, [Next]_vars PROVE TypeOK'
  OBVIOUS
<1> USE DEF TypeOK, FileState, Fingerprint, Content, Place, Opened, Locked, Deleting,
            Operation, vars, files, world, lock, args
<1>1. ASSUME NEW p \in Process, Load(p) PROVE TypeOK'
  BY <1>1 DEF Load
<1>2. ASSUME NEW p \in Process, Export(p) PROVE TypeOK'
  BY <1>2 DEF Export
<1>3. ASSUME NEW p \in Process, DeleteCall(p) PROVE TypeOK'
  BY <1>3 DEF DeleteCall, Goto
<1>4. ASSUME NEW p \in Process, SaveCall(p) PROVE TypeOK'
  BY <1>4 DEF SaveCall, Call, Fresh, Goto
<1>5. ASSUME NEW p \in Process, CreateCall(p) \/ MigrateCall(p) PROVE TypeOK'
  BY <1>5 DEF CreateCall, MigrateCall, Call, Fresh, Goto
<1>6. ASSUME NEW p \in Process, ImportCall(p) PROVE TypeOK'
  BY <1>6 DEF ImportCall, Call, Goto
<1>7. ASSUME NEW p \in Process, RestoreCall(p) PROVE TypeOK'
  BY <1>7 DEF RestoreCall, Call, Goto
<1>8. ASSUME NEW p \in Process, OpenLock(p) PROVE TypeOK'
  BY <1>8 DEF OpenLock, Goto
<1>9. ASSUME NEW p \in Process, FailToOpen(p) PROVE TypeOK'
  BY <1>9 DEF FailToOpen, Return, Goto
<1>10. ASSUME NEW p \in Process, TakeLock(p) PROVE TypeOK'
  BY <1>10 DEF TakeLock, Goto
<1>11. ASSUME NEW p \in Process, LockBusy(p) PROVE TypeOK'
  BY <1>11 DEF LockBusy, Return, Goto
<1>12. ASSUME NEW p \in Process, Conflict(p) PROVE TypeOK'
  BY <1>12 DEF Conflict, Goto
<1>13. ASSUME NEW p \in Process, Checked(p) PROVE TypeOK'
  BY <1>13 DEF Checked, Goto
<1>14. ASSUME NEW p \in Process, WriteTmp(p) PROVE TypeOK'
  BY <1>14 DEF WriteTmp, Goto
<1>15. ASSUME NEW p \in Process, NoBackup(p) PROVE TypeOK'
  BY <1>15 DEF NoBackup, Goto
<1>16. ASSUME NEW p \in Process, StartCopy(p) PROVE TypeOK'
  BY <1>16 DEF StartCopy, Goto
<1>17. ASSUME NEW p \in Process, FinishCopy(p) PROVE TypeOK'
  BY <1>17 DEF FinishCopy, Goto
<1>18. ASSUME NEW p \in Process, Replace(p) PROVE TypeOK'
  BY <1>18 DEF Replace, Goto
<1>19. ASSUME NEW p \in Process, Confirm(p) PROVE TypeOK'
  BY <1>19 DEF Confirm, Goto
<1>20. ASSUME NEW p \in Process, SyncDir(p) PROVE TypeOK'
  BY <1>20 DEF SyncDir, Goto
<1>21. ASSUME NEW p \in Process, Fail(p) PROVE TypeOK'
  BY <1>21 DEF Fail, Goto
<1>22. ASSUME NEW p \in Process, Release(p) PROVE TypeOK'
  <2>1. Told(p) \in Fingerprint
    BY DEF Told, Legacy
  <2> QED
    BY <1>22, <2>1 DEF Release, Return, Goto
<1>23. ASSUME NEW p \in Process, RemoveVault(p) PROVE TypeOK'
  BY <1>23 DEF RemoveVault, Goto
<1>24. ASSUME NEW p \in Process, RemoveBak(p) PROVE TypeOK'
  BY <1>24 DEF RemoveBak, Goto
<1>25. ASSUME NEW p \in Process, RemoveLock(p) PROVE TypeOK'
  BY <1>25 DEF RemoveLock, Return, Goto
<1>26. ASSUME NEW p \in Process, Crash(p) PROVE TypeOK'
  BY <1>26 DEF Crash, Return, Goto, Unlocked
<1>27. CASE PowerLoss
  BY <1>27 DEF PowerLoss
<1>28. CASE Writeback
  BY <1>28 DEF Writeback
<1>29. CASE UNCHANGED vars
  BY <1>29
<1>30. CASE Damage
  BY <1>30 DEF Damage
<1> QED
  BY <1>1, <1>2, <1>3, <1>4, <1>5, <1>6, <1>7, <1>8, <1>9, <1>10, <1>11, <1>12, <1>13, <1>14, <1>15, <1>16, <1>17, <1>18, <1>19, <1>20, <1>21, <1>22, <1>23, <1>24, <1>25, <1>26, <1>27, <1>28, <1>29, <1>30 DEF Next, Begin, Step

(* Every variable keeps its type in every reachable state of the storage   *)
(* model, whatever the instances do and whenever they crash.               *)
THEOREM TypeCorrect == Spec => []TypeOK
<1>1. Init => TypeOK
  BY InitTyped
<1>2. TypeOK /\ [Next]_vars => TypeOK'
  BY StepTyped
<1> QED
  BY <1>1, <1>2, PTL DEF Spec
-----------------------------------------------------------------------------
(***************************************************************************)
(* The inductive invariant.  The lock can exclude two writers only while   *)
(* every open lock file is the one at the lock path: on Windows an open    *)
(* file cannot be removed, and elsewhere nobody may call                   *)
(* delete_vault_files.                                                     *)
(***************************************************************************)
LockFileStays == ~Posix \/ "delete" \notin Operations

(* A process has the lock file open exactly where the code has; that file  *)
(* is the one at the lock path; the OS lock is held exactly inside.        *)
LockInv ==
  /\ \A p \in Process : fd[p] # NoInode <=> pc[p] \in Opened
  /\ \A p \in Process : fd[p] # NoInode => fd[p] = lockFile
  /\ \A p \in Process, i \in Inode :
       flock[i] = p <=> fd[p] = i /\ pc[p] \in Locked
  /\ \A p \in Process : pc[p] \in Deleting => "delete" \in Operations

(* What a writer has established under the lock and relies on later.       *)
WriterInv(p) ==
  /\ pc[p] \in {"tmp", "copy", "copying", "replace"} /\ exp[p] # Absent
       => vault \in {exp[p], Absent}
  /\ pc[p] \in {"copy", "copying"} => op[p] # "restore"
  /\ pc[p] = "copying" => vault \in {src[p], Absent}
  /\ pc[p] = "replace" /\ op[p] # "restore"
       => vault = Absent \/ bak \in {vault, Absent}

IInv == TypeOK /\ LockInv /\ \A p \in Process : WriterInv(p)

(* The initial state satisfies the inductive invariant.                    *)
LEMMA InitIInv == Init => IInv
<1> SUFFICES ASSUME Init PROVE IInv
  OBVIOUS
<1>1. TypeOK
  BY InitTyped
<1>2. LockInv
  BY DEF Init, LockInv, Opened, Locked, Deleting
<1>3. \A p \in Process : WriterInv(p)
  BY DEF Init, WriterInv
<1> QED
  BY <1>1, <1>2, <1>3 DEF IInv

(* At any moment at most one process is inside the lock.                   *)
LEMMA Exclusion == TypeOK /\ LockInv => OneWriter
BY DEF TypeOK, LockInv, OneWriter, Writing, Locked, Opened

(* The bookkeeping of the lock survives every step.                        *)
LEMMA StepLock ==
  ASSUME LockFileStays, TypeOK, LockInv, [Next]_vars
  PROVE  LockInv'
<1> USE DEF TypeOK, LockInv, Opened, Locked, Deleting, NoInode,
            vars, files, world, lock, args
<1>1. ASSUME NEW p \in Process, Load(p) PROVE LockInv'
  BY <1>1 DEF Load
<1>2. ASSUME NEW p \in Process, Export(p) PROVE LockInv'
  BY <1>2 DEF Export
<1>3. ASSUME NEW p \in Process, DeleteCall(p) PROVE LockInv'
  BY <1>3 DEF DeleteCall, Goto
<1>4. ASSUME NEW p \in Process, SaveCall(p) PROVE LockInv'
  BY <1>4 DEF SaveCall, Call, Fresh, Goto
<1>5. ASSUME NEW p \in Process, CreateCall(p) \/ MigrateCall(p) PROVE LockInv'
  BY <1>5 DEF CreateCall, MigrateCall, Call, Fresh, Goto
<1>6. ASSUME NEW p \in Process, ImportCall(p) PROVE LockInv'
  BY <1>6 DEF ImportCall, Call, Goto
<1>7. ASSUME NEW p \in Process, RestoreCall(p) PROVE LockInv'
  BY <1>7 DEF RestoreCall, Call, Goto
<1>8. ASSUME NEW p \in Process, OpenLock(p) PROVE LockInv'
  BY <1>8 DEF OpenLock, Goto
<1>9. ASSUME NEW p \in Process, FailToOpen(p) PROVE LockInv'
  BY <1>9 DEF FailToOpen, Return, Goto
<1>10. ASSUME NEW p \in Process, TakeLock(p) PROVE LockInv'
  BY <1>10 DEF TakeLock, Goto
<1>11. ASSUME NEW p \in Process, LockBusy(p) PROVE LockInv'
  BY <1>11 DEF LockBusy, Return, Goto
<1>12. ASSUME NEW p \in Process, Conflict(p) PROVE LockInv'
  BY <1>12 DEF Conflict, Goto
<1>13. ASSUME NEW p \in Process, Checked(p) PROVE LockInv'
  BY <1>13 DEF Checked, Goto, Conflicts
<1>14. ASSUME NEW p \in Process, WriteTmp(p) PROVE LockInv'
  BY <1>14 DEF WriteTmp, Goto
<1>15. ASSUME NEW p \in Process, NoBackup(p) PROVE LockInv'
  BY <1>15 DEF NoBackup, Goto
<1>16. ASSUME NEW p \in Process, StartCopy(p) PROVE LockInv'
  BY <1>16 DEF StartCopy, Goto
<1>17. ASSUME NEW p \in Process, FinishCopy(p) PROVE LockInv'
  BY <1>17 DEF FinishCopy, Goto
<1>18. ASSUME NEW p \in Process, Replace(p) PROVE LockInv'
  BY <1>18 DEF Replace, Goto
<1>19. ASSUME NEW p \in Process, Confirm(p) PROVE LockInv'
  BY <1>19 DEF Confirm, Goto
<1>20. ASSUME NEW p \in Process, SyncDir(p) PROVE LockInv'
  BY <1>20 DEF SyncDir, Goto
<1>21. ASSUME NEW p \in Process, Fail(p) PROVE LockInv'
  BY <1>21 DEF Fail, Goto
<1>22. ASSUME NEW p \in Process, Release(p) PROVE LockInv'
  BY <1>22 DEF Release, Told, Return, Goto
<1>23. ASSUME NEW p \in Process, RemoveVault(p) PROVE LockInv'
  BY <1>23 DEF RemoveVault, Goto
<1>24. ASSUME NEW p \in Process, RemoveBak(p) PROVE LockInv'
  BY <1>24 DEF RemoveBak, Goto
<1>25. ASSUME NEW p \in Process, RemoveLock(p) PROVE LockInv'
  BY <1>25 DEF LockFileStays, RemoveLock, Return, Goto
<1>26. ASSUME NEW p \in Process, Crash(p) PROVE LockInv'
  BY <1>26 DEF Crash, Return, Goto, Unlocked
<1>27. CASE PowerLoss
  BY <1>27 DEF PowerLoss
<1>28. CASE Writeback
  BY <1>28 DEF Writeback
<1>29. CASE UNCHANGED vars
  BY <1>29
<1>30. CASE Damage
  BY <1>30 DEF Damage
<1> QED
  BY <1>1, <1>2, <1>3, <1>4, <1>5, <1>6, <1>7, <1>8, <1>9, <1>10, <1>11, <1>12, <1>13, <1>14, <1>15, <1>16, <1>17, <1>18, <1>19, <1>20, <1>21, <1>22, <1>23, <1>24, <1>25, <1>26, <1>27, <1>28, <1>29, <1>30 DEF Next, Begin, Step

(* What the writers rely on survives every step of every process.          *)
LEMMA StepWriter ==
  ASSUME TypeOK, LockInv, OneWriter, \A q \in Process : WriterInv(q), [Next]_vars
  PROVE  \A q \in Process : WriterInv(q)'
<1> SUFFICES ASSUME NEW q \in Process PROVE WriterInv(q)'
  OBVIOUS
<1> USE DEF TypeOK, OneWriter, Writing, WriterInv, Opened, Locked, Deleting,
            vars, files, world, lock, args
<1>1. ASSUME NEW p \in Process, Load(p) PROVE WriterInv(q)'
  BY <1>1 DEF Load
<1>2. ASSUME NEW p \in Process, Export(p) PROVE WriterInv(q)'
  BY <1>2 DEF Export
<1>3. ASSUME NEW p \in Process, DeleteCall(p) PROVE WriterInv(q)'
  BY <1>3 DEF DeleteCall, Goto
<1>4. ASSUME NEW p \in Process, SaveCall(p) PROVE WriterInv(q)'
  BY <1>4 DEF SaveCall, Call, Fresh, Goto
<1>5. ASSUME NEW p \in Process, CreateCall(p) \/ MigrateCall(p) PROVE WriterInv(q)'
  BY <1>5 DEF CreateCall, MigrateCall, Call, Fresh, Goto
<1>6. ASSUME NEW p \in Process, ImportCall(p) PROVE WriterInv(q)'
  BY <1>6 DEF ImportCall, Call, Goto
<1>7. ASSUME NEW p \in Process, RestoreCall(p) PROVE WriterInv(q)'
  BY <1>7 DEF RestoreCall, Call, Goto
<1>8. ASSUME NEW p \in Process, OpenLock(p) PROVE WriterInv(q)'
  BY <1>8 DEF OpenLock, Goto
<1>9. ASSUME NEW p \in Process, FailToOpen(p) PROVE WriterInv(q)'
  BY <1>9 DEF FailToOpen, Return, Goto
<1>10. ASSUME NEW p \in Process, TakeLock(p) PROVE WriterInv(q)'
  BY <1>10 DEF TakeLock, Goto
<1>11. ASSUME NEW p \in Process, LockBusy(p) PROVE WriterInv(q)'
  BY <1>11 DEF LockBusy, Return, Goto
<1>12. ASSUME NEW p \in Process, Conflict(p) PROVE WriterInv(q)'
  BY <1>12 DEF Conflict, Goto
<1>13. ASSUME NEW p \in Process, Checked(p) PROVE WriterInv(q)'
  BY <1>13 DEF Checked, Goto, Conflicts
<1>14. ASSUME NEW p \in Process, WriteTmp(p) PROVE WriterInv(q)'
  BY <1>14 DEF WriteTmp, Goto
<1>15. ASSUME NEW p \in Process, NoBackup(p) PROVE WriterInv(q)'
  BY <1>15 DEF NoBackup, Goto
<1>16. ASSUME NEW p \in Process, StartCopy(p) PROVE WriterInv(q)'
  BY <1>16 DEF StartCopy, Goto
<1>17. ASSUME NEW p \in Process, FinishCopy(p) PROVE WriterInv(q)'
  BY <1>17 DEF FinishCopy, Goto
<1>18. ASSUME NEW p \in Process, Replace(p) PROVE WriterInv(q)'
  BY <1>18 DEF Replace, Goto
<1>19. ASSUME NEW p \in Process, Confirm(p) PROVE WriterInv(q)'
  BY <1>19 DEF Confirm, Goto
<1>20. ASSUME NEW p \in Process, SyncDir(p) PROVE WriterInv(q)'
  BY <1>20 DEF SyncDir, Goto
<1>21. ASSUME NEW p \in Process, Fail(p) PROVE WriterInv(q)'
  BY <1>21 DEF Fail, Goto
<1>22. ASSUME NEW p \in Process, Release(p) PROVE WriterInv(q)'
  BY <1>22 DEF Release, Told, Return, Goto
<1>23. ASSUME NEW p \in Process, RemoveVault(p) PROVE WriterInv(q)'
  BY <1>23 DEF RemoveVault, Goto
<1>24. ASSUME NEW p \in Process, RemoveBak(p) PROVE WriterInv(q)'
  BY <1>24 DEF RemoveBak, Goto
<1>25. ASSUME NEW p \in Process, RemoveLock(p) PROVE WriterInv(q)'
  BY <1>25 DEF RemoveLock, Return, Goto
<1>26. ASSUME NEW p \in Process, Crash(p) PROVE WriterInv(q)'
  BY <1>26 DEF Crash, Return, Goto, Unlocked
<1>27. CASE PowerLoss
  BY <1>27 DEF PowerLoss
<1>28. CASE Writeback
  BY <1>28 DEF Writeback
<1>29. CASE UNCHANGED vars
  BY <1>29
<1>30. CASE Damage
  BY <1>30 DEF Damage
<1> QED
  BY <1>1, <1>2, <1>3, <1>4, <1>5, <1>6, <1>7, <1>8, <1>9, <1>10, <1>11, <1>12, <1>13, <1>14, <1>15, <1>16, <1>17, <1>18, <1>19, <1>20, <1>21, <1>22, <1>23, <1>24, <1>25, <1>26, <1>27, <1>28, <1>29, <1>30 DEF Next, Begin, Step

(* The inductive invariant survives every step.                            *)
LEMMA StepIInv ==
  ASSUME LockFileStays, IInv, [Next]_vars
  PROVE  IInv'
<1>1. TypeOK'
  BY StepTyped DEF IInv
<1>2. LockInv'
  BY StepLock DEF IInv
<1>3. OneWriter
  BY Exclusion DEF IInv
<1>4. \A q \in Process : WriterInv(q)'
  BY <1>3, StepWriter DEF IInv
<1> QED
  BY <1>1, <1>2, <1>4 DEF IInv

(* Where an open lock file cannot disappear, the invariant always holds.   *)
THEOREM Invariance ==
  ASSUME LockFileStays
  PROVE  Spec => []IInv
<1>1. Init => IInv
  BY InitIInv
<1>2. IInv /\ [Next]_vars => IInv'
  BY StepIInv
<1> QED
  BY <1>1, <1>2, PTL DEF Spec

(* _vault_lock serialises the writers.                                     *)
THEOREM WritersExclude ==
  ASSUME LockFileStays
  PROVE  Spec => []OneWriter
<1>1. IInv => OneWriter
  BY Exclusion DEF IInv
<1> QED
  BY <1>1, Invariance, PTL

(* A save that was given a fingerprint overwrites that version or nothing. *)
THEOREM SavesAreConditional ==
  ASSUME LockFileStays
  PROVE  Spec => NoSilentOverwrite
<1>1. IInv /\ [Next]_vars =>
        [\A p \in Process :
           pc[p] = "replace" /\ pc'[p] = "confirm" /\ exp[p] # Absent
             => vault \in {exp[p], Absent}]_vars
  BY DEF IInv, WriterInv
<1> QED
  BY <1>1, Invariance, PTL DEF Spec, NoSilentOverwrite

(* What a save or an import overwrites is whole in the .bak.               *)
THEOREM OverwrittenIsBackedUp ==
  ASSUME LockFileStays
  PROVE  Spec => BakHoldsReplaced
<1>1. IInv /\ [Next]_vars =>
        [\A p \in Process :
           pc[p] = "replace" /\ pc'[p] = "confirm" /\ op[p] # "restore"
             => vault = Absent \/ bak \in {vault, Absent}]_vars
  BY DEF IInv, WriterInv
<1> QED
  BY <1>1, Invariance, PTL DEF Spec, BakHoldsReplaced
-----------------------------------------------------------------------------
(***************************************************************************)
(* The storage implements the conditional register.                        *)
(***************************************************************************)

(* No call ever writes "no file": what it will write is there as soon as   *)
(* its arguments are complete.                                             *)
BytesInv ==
  /\ Absent \notin exported
  /\ \A p \in Process :
       /\ pc[p] \in {"open", "flock", "check"} /\ op[p] # "restore"
            => raw[p] # Absent
       /\ pc[p] \in Locked \ {"check", "failed"} => raw[p] # Absent

LEMMA StepBytes ==
  ASSUME TypeOK, BytesInv, [Next]_vars
  PROVE  BytesInv'
<1> USE DEF TypeOK, BytesInv, Content, Absent, Torn, Locked, Opened, vars, files, world, lock, args
<1>1. ASSUME NEW p \in Process, Load(p) PROVE BytesInv'
  BY <1>1 DEF Load
<1>2. ASSUME NEW p \in Process, Export(p) PROVE BytesInv'
  BY <1>2 DEF Export
<1>3. ASSUME NEW p \in Process, DeleteCall(p) PROVE BytesInv'
  BY <1>3 DEF DeleteCall, Goto
<1>4. ASSUME NEW p \in Process, SaveCall(p) PROVE BytesInv'
  BY <1>4 DEF SaveCall, Call, Fresh, Goto
<1>5. ASSUME NEW p \in Process, CreateCall(p) \/ MigrateCall(p) PROVE BytesInv'
  BY <1>5 DEF CreateCall, MigrateCall, Call, Fresh, Goto
<1>6. ASSUME NEW p \in Process, ImportCall(p) PROVE BytesInv'
  BY <1>6 DEF ImportCall, Call, Goto
<1>7. ASSUME NEW p \in Process, RestoreCall(p) PROVE BytesInv'
  BY <1>7 DEF RestoreCall, Call, Goto
<1>8. ASSUME NEW p \in Process, OpenLock(p) PROVE BytesInv'
  BY <1>8 DEF OpenLock, Goto
<1>9. ASSUME NEW p \in Process, FailToOpen(p) PROVE BytesInv'
  BY <1>9 DEF FailToOpen, Return, Goto
<1>10. ASSUME NEW p \in Process, TakeLock(p) PROVE BytesInv'
  BY <1>10 DEF TakeLock, Goto
<1>11. ASSUME NEW p \in Process, LockBusy(p) PROVE BytesInv'
  BY <1>11 DEF LockBusy, Return, Goto
<1>12. ASSUME NEW p \in Process, Conflict(p) PROVE BytesInv'
  BY <1>12 DEF Conflict, Goto
<1>13. ASSUME NEW p \in Process, Checked(p) PROVE BytesInv'
  BY <1>13 DEF Checked, Goto
<1>14. ASSUME NEW p \in Process, WriteTmp(p) PROVE BytesInv'
  BY <1>14 DEF WriteTmp, Goto
<1>15. ASSUME NEW p \in Process, NoBackup(p) PROVE BytesInv'
  BY <1>15 DEF NoBackup, Goto
<1>16. ASSUME NEW p \in Process, StartCopy(p) PROVE BytesInv'
  BY <1>16 DEF StartCopy, Goto
<1>17. ASSUME NEW p \in Process, FinishCopy(p) PROVE BytesInv'
  BY <1>17 DEF FinishCopy, Goto
<1>18. ASSUME NEW p \in Process, Replace(p) PROVE BytesInv'
  BY <1>18 DEF Replace, Goto
<1>19. ASSUME NEW p \in Process, Confirm(p) PROVE BytesInv'
  BY <1>19 DEF Confirm, Goto
<1>20. ASSUME NEW p \in Process, SyncDir(p) PROVE BytesInv'
  BY <1>20 DEF SyncDir, Goto
<1>21. ASSUME NEW p \in Process, Fail(p) PROVE BytesInv'
  BY <1>21 DEF Fail, Goto
<1>22. ASSUME NEW p \in Process, Release(p) PROVE BytesInv'
  BY <1>22 DEF Release, Told, Return, Goto
<1>23. ASSUME NEW p \in Process, RemoveVault(p) PROVE BytesInv'
  BY <1>23 DEF RemoveVault, Goto
<1>24. ASSUME NEW p \in Process, RemoveBak(p) PROVE BytesInv'
  BY <1>24 DEF RemoveBak, Goto
<1>25. ASSUME NEW p \in Process, RemoveLock(p) PROVE BytesInv'
  BY <1>25 DEF RemoveLock, Return, Goto
<1>26. ASSUME NEW p \in Process, Crash(p) PROVE BytesInv'
  BY <1>26 DEF Crash, Return, Goto, Unlocked
<1>27. CASE PowerLoss
  BY <1>27 DEF PowerLoss
<1>28. CASE Writeback
  BY <1>28 DEF Writeback
<1>29. CASE UNCHANGED vars
  BY <1>29
<1>30. CASE Damage
  BY <1>30 DEF Damage, Cut
<1> QED
  BY <1>1, <1>2, <1>3, <1>4, <1>5, <1>6, <1>7, <1>8, <1>9, <1>10, <1>11, <1>12, <1>13, <1>14, <1>15, <1>16, <1>17, <1>18, <1>19, <1>20, <1>21, <1>22, <1>23, <1>24, <1>25, <1>26, <1>27, <1>28, <1>29, <1>30 DEF Next, Begin, Step

(* A call that is about to replace the vault has found what it expected.   *)
LEMMA StepRegister ==
  ASSUME TypeOK, BytesInv, \A q \in Process : WriterInv(q), [Next]_vars
  PROVE  [Register!Next]_(Register!vars)
<1> USE DEF TypeOK, BytesInv, FileState, Fingerprint, Stage,
            BeforeReplace, AfterReplace, Locked, Opened,
            vars, files, world, lock, args, Register!vars
<1>1. ASSUME NEW p \in Process, Load(p) PROVE Register!Read(p)
  BY <1>1 DEF Load, Register!Read, Content, Absent
<1>2. ASSUME NEW p \in Process, Export(p) PROVE UNCHANGED Register!vars
  BY <1>2 DEF Export
<1>3. ASSUME NEW p \in Process, DeleteCall(p) PROVE Register!Forget(p)
  BY <1>3 DEF DeleteCall, Goto, Register!Forget
<1>4. ASSUME NEW p \in Process, SaveCall(p) PROVE Register!Begin(p)
  BY <1>4 DEF SaveCall, Call, Fresh, Goto, Register!Begin
<1>5. ASSUME NEW p \in Process, CreateCall(p) \/ MigrateCall(p) PROVE Register!Begin(p)
  BY <1>5 DEF CreateCall, MigrateCall, Call, Fresh, Goto, Register!Begin
<1>6. ASSUME NEW p \in Process, ImportCall(p) PROVE Register!Begin(p)
  BY <1>6 DEF ImportCall, Call, Goto, Register!Begin
<1>7. ASSUME NEW p \in Process, RestoreCall(p) PROVE Register!Begin(p)
  BY <1>7 DEF RestoreCall, Call, Goto, Register!Begin
<1>8. ASSUME NEW p \in Process, OpenLock(p) PROVE UNCHANGED Register!vars
  BY <1>8 DEF OpenLock, Goto
<1>9. ASSUME NEW p \in Process, FailToOpen(p) PROVE Register!Abandon(p)
  BY <1>9 DEF FailToOpen, Return, Goto, Register!Abandon
<1>10. ASSUME NEW p \in Process, TakeLock(p) PROVE UNCHANGED Register!vars
  BY <1>10 DEF TakeLock, Goto
<1>11. ASSUME NEW p \in Process, LockBusy(p) PROVE Register!Abandon(p)
  BY <1>11 DEF LockBusy, Return, Goto, Register!Abandon
<1>12. ASSUME NEW p \in Process, Conflict(p) PROVE Register!Abandon(p)
  BY <1>12 DEF Conflict, Goto, Register!Abandon
<1>13. ASSUME NEW p \in Process, Checked(p) PROVE UNCHANGED Register!vars
  BY <1>13 DEF Checked, Goto
<1>14. ASSUME NEW p \in Process, WriteTmp(p) PROVE UNCHANGED Register!vars
  BY <1>14 DEF WriteTmp, Goto
<1>15. ASSUME NEW p \in Process, NoBackup(p) PROVE UNCHANGED Register!vars
  BY <1>15 DEF NoBackup, Goto
<1>16. ASSUME NEW p \in Process, StartCopy(p) PROVE UNCHANGED Register!vars
  BY <1>16 DEF StartCopy, Goto
<1>17. ASSUME NEW p \in Process, FinishCopy(p) PROVE UNCHANGED Register!vars
  BY <1>17 DEF FinishCopy, Goto
<1>18. ASSUME NEW p \in Process, Replace(p) PROVE Register!Write(p)
  <2>1. pc[p] = "replace" /\ raw[p] \in FileState \ {Absent}
    BY <1>18 DEF Replace
  <2>2. exp[p] # Absent => vault \in {exp[p], Absent}
    BY <2>1 DEF WriterInv
  <2> QED
    BY <1>18, <2>1, <2>2 DEF Replace, Goto, Register!Write
<1>19. ASSUME NEW p \in Process, Confirm(p) PROVE UNCHANGED Register!vars
  BY <1>19 DEF Confirm, Goto
<1>20. ASSUME NEW p \in Process, SyncDir(p)
      PROVE  Register!Settle \/ UNCHANGED Register!vars
  BY <1>20 DEF SyncDir, Goto, Register!Settle
<1>21. ASSUME NEW p \in Process, Fail(p) PROVE Register!Abandon(p)
  BY <1>21 DEF Fail, Goto, Register!Abandon
<1>22. ASSUME NEW p \in Process, Release(p)
      PROVE  Register!Acknowledge(p) \/ UNCHANGED Register!vars
  <2>1. CASE pc[p] = "failed"
    BY <1>22, <2>1 DEF Release, Told, Return, Goto
  <2>2. CASE pc[p] = "done"
    <3>1. Told(p) \in FileState \ {Absent} \/ Told(p) = seen[p]
      BY <2>2 DEF Told, Content, Legacy, Absent
    <3> QED
      BY <1>22, <2>2, <3>1 DEF Release, Return, Goto, Register!Acknowledge
  <2> QED
    BY <1>22, <2>1, <2>2 DEF Release
<1>23. ASSUME NEW p \in Process, RemoveVault(p)
      PROVE  Register!Destroy \/ UNCHANGED Register!vars
  BY <1>23 DEF RemoveVault, Goto, Register!Destroy
<1>24. ASSUME NEW p \in Process, RemoveBak(p) PROVE UNCHANGED Register!vars
  BY <1>24 DEF RemoveBak, Goto
<1>25. ASSUME NEW p \in Process, RemoveLock(p) PROVE UNCHANGED Register!vars
  BY <1>25 DEF RemoveLock, Return, Goto
<1>26. ASSUME NEW p \in Process, Crash(p) PROVE Register!Forget(p)
  BY <1>26 DEF Crash, Return, Goto, Unlocked, Register!Forget
<1>27. CASE PowerLoss
  <2>1. Register!PowerLoss
    BY <1>27 DEF PowerLoss, Register!PowerLoss
  <2> QED
    BY <2>1 DEF Register!Next
<1>28. CASE Writeback
  <2>1. Register!Settle
    BY <1>28 DEF Writeback, Register!Settle
  <2> QED
    BY <2>1 DEF Register!Next
<1>29. CASE UNCHANGED vars
  BY <1>29
<1>30. CASE Damage
  BY <1>30 DEF Damage
<1> QED
  BY <1>1, <1>2, <1>3, <1>4, <1>5, <1>6, <1>7, <1>8, <1>9, <1>10, <1>11, <1>12, <1>13, <1>14, <1>15, <1>16, <1>17, <1>18, <1>19, <1>20, <1>21, <1>22, <1>23, <1>24, <1>25, <1>26, <1>27, <1>28, <1>29, <1>30 DEF Next, Begin, Step, Register!Next

(* Every behaviour of the storage is a behaviour of the register.          *)
THEOREM StorageImplementsRegister ==
  ASSUME LockFileStays
  PROVE  Spec => IsARegister
<1>1. Init => Register!Init
  BY DEF Init, Register!Init, Stage, BeforeReplace, AfterReplace, FileState, Content,
         Legacy, Absent
<1>2. Init => BytesInv
  BY DEF Init, BytesInv, Locked, Opened
<1>3. IInv /\ BytesInv /\ [Next]_vars => BytesInv'
  BY StepBytes DEF IInv
<1>4. IInv /\ BytesInv /\ [Next]_vars => [Register!Next]_(Register!vars)
  BY StepRegister DEF IInv
<1> QED
  BY <1>1, <1>2, <1>3, <1>4, Invariance, PTL
     DEF Spec, IsARegister, Register!Spec

-----------------------------------------------------------------------------
(***************************************************************************)
(* The file is whole.  Only the .bak can be torn and only a backup outside *)
(* can be cut, so while nobody calls restore_from_backup a torn file is    *)
(* nowhere else and a cut one comes from an import.                        *)
(***************************************************************************)

Sound(f) == f # Torn /\ (f = Cut => Cut \in exported)

Whole ==
  /\ \A f \in {vault} \union vaultDisk \union exported : Sound(f)
  /\ \A p \in Process : Sound(raw[p]) /\ op[p] # "restore"

LEMMA InitWhole == Init => Whole
  BY DEF Init, Whole, Sound, Torn, Cut, Absent, Legacy

LEMMA StepWhole ==
  ASSUME "restore" \notin Operations, TypeOK, Whole, [Next]_vars
  PROVE  Whole'
<1> USE DEF Whole, Sound, TypeOK, vars, files, world, lock, args
<1> DEFINE Quiet(p) == \/ OpenLock(p) \/ TakeLock(p) \/ Conflict(p) \/ WriteTmp(p)
                       \/ NoBackup(p) \/ FinishCopy(p) \/ Confirm(p) \/ Fail(p)
                       \/ RemoveBak(p) \/ Load(p)
<1>1. ASSUME NEW p \in Process, Quiet(p) PROVE Whole'
  BY <1>1
  DEF OpenLock, TakeLock, Conflict, WriteTmp, NoBackup, FinishCopy, Confirm, Fail,
      RemoveBak, Load
<1>2. ASSUME NEW p \in Process, StartCopy(p) PROVE Whole'
  BY <1>2 DEF StartCopy
<1>3. ASSUME NEW p \in Process, Export(p) PROVE Whole'
  BY <1>3 DEF Export
<1>4. ASSUME NEW p \in Process, DeleteCall(p) PROVE Whole'
  BY <1>4 DEF DeleteCall
<1>5. ASSUME NEW p \in Process, SaveCall(p) \/ CreateCall(p) \/ MigrateCall(p) PROVE Whole'
  <2>1. Fresh # Torn /\ Fresh # Cut
    BY DEF Fresh, Torn, Cut
  <2> QED
    BY <1>5, <2>1 DEF SaveCall, CreateCall, MigrateCall, Call
<1>6. ASSUME NEW p \in Process, ImportCall(p) PROVE Whole'
  BY <1>6 DEF ImportCall, Call
<1>7. ASSUME NEW p \in Process, RestoreCall(p) PROVE Whole'
  BY <1>7 DEF RestoreCall, Call
<1>8. ASSUME NEW p \in Process, Checked(p) PROVE Whole'
  BY <1>8 DEF Checked
<1>9. ASSUME NEW p \in Process, Replace(p) PROVE Whole'
  BY <1>9 DEF Replace
<1>10. ASSUME NEW p \in Process, SyncDir(p) PROVE Whole'
  BY <1>10 DEF SyncDir
<1>11. ASSUME NEW p \in Process, RemoveVault(p) PROVE Whole'
  BY <1>11 DEF RemoveVault, Torn, Cut, Absent
<1>12. ASSUME NEW p \in Process,
              FailToOpen(p) \/ LockBusy(p) \/ RemoveLock(p) \/ Release(p) \/ Crash(p)
       PROVE  Whole'
  BY <1>12 DEF FailToOpen, LockBusy, RemoveLock, Release, Crash, Return, Torn, Cut, Absent
<1>13. CASE PowerLoss
  BY <1>13 DEF PowerLoss, Torn, Cut, Absent
<1>14. CASE Writeback
  BY <1>14 DEF Writeback
<1>15. CASE UNCHANGED vars
  BY <1>15
<1>16. CASE Damage
  BY <1>16 DEF Damage, Torn, Cut
<1> QED
  BY <1>1, <1>2, <1>3, <1>4, <1>5, <1>6, <1>7, <1>8, <1>9, <1>10, <1>11, <1>12, <1>13,
     <1>14, <1>15, <1>16
  DEF Next, Begin, Step

(* No write leaves a part of a file at passwords.vault, at any moment or   *)
(* after a power failure, although writers may die at any system call of   *)
(* _atomic_write, unless a .bak is restored; a file without its tail gets  *)
(* there only when a damaged backup is imported.                           *)
THEOREM VaultIsWhole == ASSUME "restore" \notin Operations PROVE Spec => []NeverTorn
<1>1. TypeOK /\ Whole /\ [Next]_vars => Whole'
  BY StepWhole
<1>2. Whole => NeverTorn
  BY DEF Whole, Sound, NeverTorn
<1> QED
  BY <1>1, <1>2, InitWhole, TypeCorrect, PTL DEF Spec
=============================================================================
