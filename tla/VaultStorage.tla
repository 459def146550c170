---------------------------- MODULE VaultStorage ----------------------------
(***************************************************************************)
(* The vault file of src/vault_app/storage.py as several instances of the  *)
(* application share it: the lock file, the conditional save, the backup   *)
(* copy, the atomic replacement, restore, import, export and destruction,  *)
(* one TLA+ step per system call that another process, a crash or a power  *)
(* failure can fall before or after.                                       *)
(*                                                                         *)
(* Data.  A whole vault file is a number: every encryption draws a fresh   *)
(* nonce, so no two saves write the same bytes and the SHA-256 fingerprint *)
(* of a file is the number itself.  Absent (0) is "no such file" and, for  *)
(* a fingerprint, Python's None; Torn (-1) is a file that is only partly   *)
(* written; Cut (-2) is one whose header is whole and whose tail is not.   *)
(* Legacy (1) is the one file an earlier release may have left, in format  *)
(* v1 or v2.  Temporary files are private to one call and not modelled.    *)
(***************************************************************************)
EXTENDS Integers, FiniteSets

CONSTANTS
  Process,      \* instances of the application
  Inode,        \* identities a file created at the lock path can have
  MaxContent,   \* bound: how many distinct vault files the instances write
  Operations,   \* which of the public operations the instances call
  Posix         \* TRUE: an open file can be unlinked; FALSE: Windows

Absent == 0
Torn   == -1
Cut    == -2
Legacy == 1
Content == 1 .. MaxContent
FileState == {Absent, Torn, Cut} \union Content
Fingerprint == {Absent} \union Content
NoInode == 0
Nobody == "nobody"

Operation == {"load", "migrate", "save", "create", "import", "export", "restore", "delete"}

ASSUME ContentAssumption   == MaxContent \in Nat \ {0}
ASSUME InodeAssumption     == Inode \subseteq Nat \ {NoInode}
ASSUME ProcessAssumption   == Nobody \notin Process
ASSUME OperationAssumption == Operations \subseteq Operation
ASSUME PlatformAssumption  == Posix \in BOOLEAN

VARIABLES
  vault,      \* the file at passwords.vault, as processes see it
  vaultDisk,  \* what passwords.vault may hold after a power failure
  bak,        \* the file at passwords.vault.bak, as processes see it
  exported,   \* portable backups outside the vault directory
  written,    \* how many contents have been produced so far
  lockFile,   \* the inode at passwords.vault.lock, or NoInode
  flock,      \* per inode, the process that holds the OS lock on it
  pc,         \* per process, where it is in a call
  op,         \* per process, the call it is in
  exp,        \* per process, expected_fingerprint of that call
  raw,        \* per process, the bytes that call writes
  src,        \* per process, the bytes shutil.copy2 is copying
  fd,         \* per process, the inode of its open lock file, or NoInode
  seen        \* per process, the fingerprint its session holds

files == <<vault, vaultDisk, bak>>
lock  == <<lockFile, flock, fd>>
args  == <<op, exp, raw, src>>
world == <<exported, written>>
vars  == <<files, world, lock, args, pc, seen>>

(* Places in a call.  A process holds the OS lock in Locked.               *)
Opened == {"flock", "check", "tmp", "copy", "copying", "replace",
           "confirm", "sync", "done", "failed"}
Locked == Opened \ {"flock"}
BeforeReplace == {"open", "flock", "check", "tmp", "copy", "copying", "replace"}
AfterReplace  == {"confirm", "sync", "done"}
Deleting == {"rmVault", "rmBak", "rmLock"}
Place == {"idle", "open"} \union Opened \union Deleting

(* Types.  A session only ever holds the fingerprint of a file it could    *)
(* parse, and an ordinary save only ever writes a whole file.              *)
TypeOK ==
  /\ vault \in FileState /\ vaultDisk \subseteq FileState
  /\ bak \in FileState
  /\ exported \subseteq FileState
  /\ written \in 0 .. MaxContent
  /\ lockFile \in Inode \union {NoInode}
  /\ flock \in [Inode -> Process \union {Nobody}]
  /\ pc \in [Process -> Place]
  /\ op \in [Process -> Operation]
  /\ exp \in [Process -> Fingerprint]
  /\ raw \in [Process -> FileState]
  /\ src \in [Process -> FileState]
  /\ fd \in [Process -> Inode \union {NoInode}]
  /\ seen \in [Process -> Fingerprint]
  /\ \A p \in Process : op[p] \in {"save", "create", "migrate"} => raw[p] \in Content

(* A file of an old format is considered where opening one is.             *)
Init ==
  /\ \/ vault = Absent
     \/ "migrate" \in Operations /\ vault = Legacy
  /\ vaultDisk = {vault}
  /\ bak = Absent
  /\ exported = {} /\ written = Legacy
  /\ lockFile = NoInode /\ flock = [i \in Inode |-> Nobody]
  /\ pc = [p \in Process |-> "idle"]
  /\ op = [p \in Process |-> "load"]
  /\ exp = [p \in Process |-> Absent]
  /\ raw = [p \in Process |-> Absent]
  /\ src = [p \in Process |-> Absent]
  /\ fd = [p \in Process |-> NoInode]
  /\ seen = [p \in Process |-> Absent]

Goto(p, place) == pc' = [pc EXCEPT ![p] = place]

(* A call that will take the lock starts: its arguments are fixed here.    *)
Call(p, o, e, r) ==
  /\ pc[p] = "idle" /\ o \in Operations
  /\ op' = [op EXCEPT ![p] = o]
  /\ exp' = [exp EXCEPT ![p] = e]
  /\ raw' = [raw EXCEPT ![p] = r]
  /\ Goto(p, "open")
  /\ UNCHANGED <<files, lock, src, seen>>

(* The call ends, for whatever reason: its local variables are gone.       *)
Return(p) ==
  /\ Goto(p, "idle")
  /\ op' = [op EXCEPT ![p] = "load"]
  /\ exp' = [exp EXCEPT ![p] = Absent]
  /\ raw' = [raw EXCEPT ![p] = Absent]
  /\ src' = [src EXCEPT ![p] = Absent]

(***************************************************************************)
(* Operations that do not take the lock.                                   *)
(***************************************************************************)

(* Mutant: the fingerprint is taken before the file has been parsed.       *)
LoadUnparsed(p) ==
  /\ pc[p] = "idle" /\ "load" \in Operations
  /\ vault # Absent
  /\ seen' = [seen EXCEPT ![p] = vault]
  /\ UNCHANGED <<files, world, lock, args, pc>>

(* load_vault: the file is replaced in one step by every writer, so a      *)
(* reader sees one whole version.  A torn or cut file fails to parse or    *)
(* decrypt; one of an old format is migrated (MigrateCall).                *)
Load(p) ==
  /\ pc[p] = "idle" /\ "load" \in Operations
  /\ vault \in Content \ {Legacy}
  /\ seen' = [seen EXCEPT ![p] = vault]
  /\ UNCHANGED <<files, world, lock, args, pc>>

(* export_portable_backup reads without the lock; only the header is       *)
(* parsed, so the copy may be of a file whose tail is missing.             *)
Export(p) ==
  /\ pc[p] = "idle" /\ "export" \in Operations
  /\ vault # Absent
  /\ exported' = exported \union {vault}
  /\ UNCHANGED <<files, written, lock, args, pc, seen>>

(* delete_vault_files: three removals, none of them under the lock, each   *)
(* skipped in silence when the system refuses it.  Both callers wipe the   *)
(* session first.                                                          *)
DeleteCall(p) ==
  /\ pc[p] = "idle" /\ "delete" \in Operations
  /\ op' = [op EXCEPT ![p] = "delete"]
  /\ seen' = [seen EXCEPT ![p] = Absent]
  /\ Goto(p, "rmVault")
  /\ UNCHANGED <<files, world, lock, exp, raw, src>>

RemoveVault(p) ==
  /\ pc[p] = "rmVault"
  /\ \/ vault' = Absent /\ vaultDisk' = vaultDisk \union {Absent}
     \/ UNCHANGED <<vault, vaultDisk>>
  /\ Goto(p, "rmBak")
  /\ UNCHANGED <<bak, world, lock, args, seen>>

RemoveBak(p) ==
  /\ pc[p] = "rmBak"
  /\ bak' \in {Absent, bak}
  /\ Goto(p, "rmLock")
  /\ UNCHANGED <<vault, vaultDisk, world, lock, args, seen>>

(* Windows refuses to remove a file that some process has open.            *)
RemoveLock(p) ==
  /\ pc[p] = "rmLock"
  /\ \/ /\ Posix \/ \A q \in Process : fd[q] # lockFile
        /\ lockFile' = NoInode
     \/ UNCHANGED lockFile
  /\ Return(p)
  /\ UNCHANGED <<files, world, flock, fd, seen>>

(***************************************************************************)
(* Calls that take the lock.                                               *)
(***************************************************************************)

Fresh == written + 1

(* save_vault of an open session: the write is conditional on the          *)
(* fingerprint the session holds.                                          *)
SaveCall(p) ==
  /\ written < MaxContent /\ seen[p] # Absent
  /\ Call(p, "save", seen[p], Fresh)
  /\ written' = Fresh /\ UNCHANGED exported

(* save_vault without expected_fingerprint: creation of a vault.           *)
CreateCall(p) ==
  /\ written < MaxContent
  /\ Call(p, "create", Absent, Fresh)
  /\ written' = Fresh /\ UNCHANGED exported

(* Opening a v1 or v2 file rewrites it, without expected_fingerprint.      *)
MigrateCall(p) ==
  /\ vault = Legacy /\ written < MaxContent
  /\ Call(p, "migrate", Absent, Fresh)
  /\ written' = Fresh /\ UNCHANGED exported

(* import_portable_backup parses the header of what it installs, nothing   *)
(* more: a backup without its tail is accepted.                            *)
ImportCall(p) ==
  \E c \in exported : Call(p, "import", Absent, c) /\ UNCHANGED world

(* restore_from_backup looks for the .bak before it takes the lock and     *)
(* reads it after.                                                         *)
RestoreCall(p) ==
  /\ bak # Absent
  /\ Call(p, "restore", Absent, Absent) /\ UNCHANGED world

(* _vault_lock: open or create the lock file ...                           *)
OpenLock(p) ==
  /\ pc[p] = "open"
  /\ \/ lockFile # NoInode /\ UNCHANGED lockFile
     \/ /\ lockFile = NoInode
        /\ \E i \in Inode :
             /\ flock[i] = Nobody /\ \A q \in Process : fd[q] # i
             /\ lockFile' = i
  /\ fd' = [fd EXCEPT ![p] = lockFile']
  /\ Goto(p, "flock")
  /\ UNCHANGED <<files, world, flock, args, seen>>

(* Mutant: the result of asking for the OS lock is ignored.                *)
TakeLockAnyway(p) ==
  /\ pc[p] = "flock"
  /\ flock' = [flock EXCEPT ![fd[p]] = p]
  /\ Goto(p, "check")
  /\ UNCHANGED <<files, world, lockFile, fd, args, seen>>

(* ... then ask for the OS lock without waiting.                           *)
TakeLock(p) ==
  /\ pc[p] = "flock"
  /\ flock[fd[p]] = Nobody
  /\ flock' = [flock EXCEPT ![fd[p]] = p]
  /\ Goto(p, "check")
  /\ UNCHANGED <<files, world, lockFile, fd, args, seen>>

(* Mutant: LOCK_NB is forgotten and a busy lock is waited for.             *)
WaitForLock(p) == FALSE

LockBusy(p) ==
  /\ pc[p] = "flock"
  /\ flock[fd[p]] # Nobody
  /\ fd' = [fd EXCEPT ![p] = NoInode]
  /\ Return(p)
  /\ UNCHANGED <<files, world, lockFile, flock, seen>>

(* Mutant: only a vault that has disappeared counts as a conflict.         *)
ConflictsIfGone(p) == exp[p] # Absent /\ vault = Absent

(* _check_expected_fingerprint.                                            *)
Conflicts(p) == exp[p] # Absent /\ vault # exp[p]

Conflict(p) ==
  /\ pc[p] = "check" /\ Conflicts(p)
  /\ Goto(p, "failed")
  /\ UNCHANGED <<files, world, lock, args, seen>>

(* Under the lock: the fingerprint is as expected, or the .bak is read.    *)
Checked(p) ==
  /\ pc[p] = "check" /\ ~Conflicts(p)
  /\ \/ op[p] # "restore" /\ UNCHANGED raw
     \/ op[p] = "restore" /\ bak # Absent /\ raw' = [raw EXCEPT ![p] = bak]
  /\ Goto(p, "tmp")
  /\ UNCHANGED <<files, world, lock, op, exp, src, seen>>

(* The temporary file is written and fsynced; a restore makes no backup of *)
(* the file it replaces.                                                   *)
WriteTmp(p) ==
  /\ pc[p] = "tmp"
  /\ Goto(p, IF op[p] = "restore" THEN "replace" ELSE "copy")
  /\ UNCHANGED <<files, world, lock, args, seen>>

(* Mutant: a backup that cannot be made is skipped.                        *)
SkipBackup(p) ==
  /\ pc[p] = "copy"
  /\ Goto(p, "replace")
  /\ UNCHANGED <<files, world, lock, args, seen>>

NoBackup(p) ==
  /\ pc[p] = "copy" /\ vault = Absent
  /\ Goto(p, "replace")
  /\ UNCHANGED <<files, world, lock, args, seen>>

(* shutil.copy2 opens the vault, then truncates the .bak ...               *)
StartCopy(p) ==
  /\ pc[p] = "copy" /\ vault # Absent
  /\ src' = [src EXCEPT ![p] = vault]
  /\ bak' = Torn
  /\ Goto(p, "copying")
  /\ UNCHANGED <<vault, vaultDisk, world, lock, op, exp, raw, seen>>

(* ... fills it and sets its mode, which fails if the .bak is gone.  The   *)
(* copy is never fsynced.                                                  *)
FinishCopy(p) ==
  /\ pc[p] = "copying" /\ bak # Absent
  /\ bak' = src[p]
  /\ Goto(p, "replace")
  /\ UNCHANGED <<vault, vaultDisk, world, lock, args, seen>>

(* Mutant: the temporary file is not fsynced before it is renamed.         *)
ReplaceUnsynced(p) ==
  /\ pc[p] = "replace"
  /\ vault' = raw[p] /\ vaultDisk' = vaultDisk \union {raw[p], Torn}
  /\ Goto(p, "confirm")
  /\ UNCHANGED <<bak, world, lock, args, seen>>

Replace(p) ==
  /\ pc[p] = "replace"
  /\ vault' = raw[p] /\ vaultDisk' = vaultDisk \union {raw[p]}
  /\ Goto(p, "confirm")
  /\ UNCHANGED <<bak, world, lock, args, seen>>

Confirm(p) ==
  /\ pc[p] = "confirm"
  /\ Goto(p, "sync")
  /\ UNCHANGED <<files, world, lock, args, seen>>

(* _fsync_dir does nothing on Windows and swallows its errors.             *)
SyncDir(p) ==
  /\ pc[p] = "sync"
  /\ \/ Posix /\ vaultDisk' = {vault}
     \/ UNCHANGED vaultDisk
  /\ Goto(p, "done")
  /\ UNCHANGED <<vault, bak, world, lock, args, seen>>

(* An OSError: before the replacement the temporary file is removed and    *)
(* nothing but the .bak has changed; after it the new vault stays.         *)
Fail(p) ==
  /\ pc[p] \in Locked \ {"done", "failed"}
  /\ Goto(p, "failed")
  /\ UNCHANGED <<files, world, lock, args, seen>>

FailToOpen(p) ==
  /\ pc[p] = "open"
  /\ Return(p)
  /\ UNCHANGED <<files, world, lock, seen>>

(* The fingerprint the session holds after a call that did not raise: that *)
(* of the file a save has written; after a migration, that of the old file *)
(* (_create_v3_from_data drops what save_vault returns).                   *)
Told(p) ==
  IF op[p] \in {"save", "create"} THEN raw[p]
  ELSE IF op[p] = "migrate" THEN Legacy ELSE seen[p]

(* Mutant: the session takes the new fingerprint even when the save raised.*)
ReleaseBelieving(p) ==
  /\ pc[p] \in {"done", "failed"}
  /\ flock' = [flock EXCEPT ![fd[p]] = Nobody]
  /\ fd' = [fd EXCEPT ![p] = NoInode]
  /\ seen' = [seen EXCEPT ![p] = Told(p)]
  /\ Return(p)
  /\ UNCHANGED <<files, world, lockFile>>

(* Mutant: the lock is released only on success.                           *)
ReleaseOnSuccess(p) ==
  /\ pc[p] \in {"done", "failed"}
  /\ flock' = IF pc[p] = "done"
                THEN [flock EXCEPT ![fd[p]] = Nobody] ELSE flock
  /\ fd' = [fd EXCEPT ![p] = NoInode]
  /\ seen' = IF pc[p] = "done" THEN [seen EXCEPT ![p] = Told(p)] ELSE seen
  /\ Return(p)
  /\ UNCHANGED <<files, world, lockFile>>

(* The finally clause of _vault_lock; the caller learns a fingerprint only *)
(* when the call did not raise.                                            *)
Release(p) ==
  /\ pc[p] \in {"done", "failed"}
  /\ flock' = [flock EXCEPT ![fd[p]] = Nobody]
  /\ fd' = [fd EXCEPT ![p] = NoInode]
  /\ seen' = IF pc[p] = "done" THEN [seen EXCEPT ![p] = Told(p)] ELSE seen
  /\ Return(p)
  /\ UNCHANGED <<files, world, lockFile>>

(***************************************************************************)
(* The environment.                                                        *)
(***************************************************************************)

Unlocked(P) == [i \in Inode |-> IF flock[i] \in P THEN Nobody ELSE flock[i]]

(* A process ends or is killed: the system closes its files and locks.     *)
Crash(p) ==
  /\ pc[p] # "idle" \/ seen[p] # Absent
  /\ Return(p)
  /\ flock' = Unlocked({p})
  /\ fd' = [fd EXCEPT ![p] = NoInode]
  /\ seen' = [seen EXCEPT ![p] = Absent]
  /\ UNCHANGED <<files, world, lockFile>>

(* Unsynced writes may or may not have reached the disk; nothing ever      *)
(* fsyncs the .bak.                                                        *)
PowerLoss ==
  /\ vault' \in vaultDisk /\ vaultDisk' = {vault'}
  /\ bak' \in {bak, IF bak = Absent THEN Absent ELSE Torn}
  /\ pc' = [p \in Process |-> "idle"]
  /\ op' = [p \in Process |-> "load"]
  /\ exp' = [p \in Process |-> Absent]
  /\ raw' = [p \in Process |-> Absent]
  /\ src' = [p \in Process |-> Absent]
  /\ flock' = [i \in Inode |-> Nobody]
  /\ fd' = [p \in Process |-> NoInode]
  /\ seen' = [p \in Process |-> Absent]
  /\ UNCHANGED <<world, lockFile>>

(* The system writes its caches back.                                      *)
Writeback ==
  /\ vaultDisk # {vault}
  /\ vaultDisk' = {vault}
  /\ UNCHANGED <<vault, bak, world, lock, args, pc, seen>>

(* A backup kept outside the vault directory loses its tail.               *)
Damage ==
  /\ exported # {} /\ Cut \notin exported
  /\ exported' = exported \union {Cut}
  /\ UNCHANGED <<files, written, lock, args, pc, seen>>

(* The steps of a call once it has started.                                *)
Step(p) ==
  \/ OpenLock(p) \/ FailToOpen(p) \/ TakeLock(p) \/ LockBusy(p)
  \/ Conflict(p) \/ Checked(p) \/ WriteTmp(p)
  \/ NoBackup(p) \/ StartCopy(p) \/ FinishCopy(p)
  \/ Replace(p) \/ Confirm(p) \/ SyncDir(p) \/ Fail(p) \/ Release(p)
  \/ RemoveVault(p) \/ RemoveBak(p) \/ RemoveLock(p)

Begin(p) ==
  \/ Load(p) \/ Export(p) \/ DeleteCall(p)
  \/ SaveCall(p) \/ CreateCall(p) \/ MigrateCall(p)
  \/ ImportCall(p) \/ RestoreCall(p)

Next ==
  \/ \E p \in Process : Begin(p) \/ Step(p) \/ Crash(p)
  \/ PowerLoss
  \/ Writeback
  \/ Damage

Spec == Init /\ [][Next]_vars

(* A call that has started runs on: its thread is scheduled, and no step   *)
(* waits for another process (the lock is asked for with LK_NBLCK/LOCK_NB).*)
FairSpec == Spec /\ \A p \in Process : WF_vars(Step(p))
-----------------------------------------------------------------------------
(***************************************************************************)
(* Properties.                                                             *)
(***************************************************************************)

Writing(p) == pc[p] \in Locked

(* The OS lock of _vault_lock serialises writers: no two processes are     *)
(* between taking and releasing it, whatever files have been removed and   *)
(* created at the lock path meanwhile.                                     *)
OneWriter == \A p, q \in Process : Writing(p) /\ Writing(q) => p = q

(* save_vault with expected_fingerprint never overwrites a version other   *)
(* than the one its session had read, between the check of the fingerprint *)
(* and os.replace included.                                                *)
NoSilentOverwrite ==
  [][\A p \in Process :
       pc[p] = "replace" /\ pc'[p] = "confirm" /\ exp[p] # Absent
         => vault \in {exp[p], Absent}]_vars

(* Whatever save_vault or an import overwrites is, at that moment, whole   *)
(* in the .bak, unless delete_vault_files has removed it meanwhile.        *)
BakHoldsReplaced ==
  [][\A p \in Process :
       pc[p] = "replace" /\ pc'[p] = "confirm" /\ op[p] # "restore"
         => vault = Absent \/ bak \in {vault, Absent}]_vars

(* As long as nobody restores the .bak, no write leaves a part of a file   *)
(* at passwords.vault, at any moment or after a crash or a power failure;  *)
(* a file without its tail gets there only as a damaged backup that        *)
(* import_portable_backup installs.                                        *)
NeverTorn ==
  \A f \in {vault} \union vaultDisk :
    f # Torn /\ (f = Cut => Cut \in exported)

(* Every call returns: none waits for another process.                     *)
CallsEnd == \A p \in Process : pc[p] # "idle" ~> pc[p] = "idle"

(* The lock is given back after success, failure and crash alike.          *)
LockIsReleased ==
  \A i \in Inode, p \in Process : flock[i] = p ~> flock[i] # p

(* The lock file, the backup copy and the temporary file implement the     *)
(* conditional register of VaultRegister.                                  *)
Stage(p) ==
  IF pc[p] \in AfterReplace THEN "written"
  ELSE IF pc[p] \in BeforeReplace THEN "begun" ELSE "none"

Register == INSTANCE VaultRegister WITH
  Value <- FileState \ {Absent}, None <- Absent,
  cell <- vault, maybe <- vaultDisk, view <- seen,
  stage <- [p \in Process |-> Stage(p)],
  basis <- [p \in Process |-> IF Stage(p) = "none" THEN Absent ELSE exp[p]]

IsARegister == Register!Spec
=============================================================================
