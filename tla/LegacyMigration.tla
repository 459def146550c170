--------------------------- MODULE LegacyMigration --------------------------
(***************************************************************************)
(* The move of a vault from %APPDATA%\Vault to %LOCALAPPDATA%\Instanashe-  *)
(* lock on Windows: _migrate_legacy_windows_vault of storage.py, which     *)
(* vault_path() runs before every operation, in several instances at once, *)
(* with failures and crashes, and together with the operations that use    *)
(* the migrated vault.                                                     *)
(*                                                                         *)
(* Files hold version numbers: 1 is the vault the legacy .bak was made of, *)
(* 2 the legacy vault, larger numbers what is saved later; Absent is no    *)
(* file.  _atomic_restore and the conditional save are single steps here   *)
(* (VaultStorage takes them apart), apart from the error after os.replace. *)
(***************************************************************************)
EXTENDS Integers

CONSTANTS
  Process,      \* instances of the application
  MaxVersion,   \* bound: the highest version that is saved
  Operations,   \* what the instances do with the vault
  DiskFails     \* whether reading, writing and removing may fail

Absent == 0
LegacyBackup == 1
LegacyVault == 2
Version == 1 .. MaxVersion
Nobody == "nobody"

ASSUME VersionAssumption   == MaxVersion \in Nat /\ MaxVersion >= LegacyVault
ASSUME ProcessAssumption   == Nobody \notin Process
ASSUME OperationAssumption == Operations \subseteq {"open", "save", "destroy"}
ASSUME DiskAssumption      == DiskFails \in BOOLEAN

VARIABLES
  vault,      \* passwords.vault in the canonical directory
  bak,        \* passwords.vault.bak there
  oldVault,   \* the legacy passwords.vault
  oldBak,     \* the legacy passwords.vault.bak
  lock,       \* who holds the legacy lock
  pc,         \* per process, where it is
  op,         \* per process, the operation that called vault_path()
  raw,        \* per process, the bytes it read from the legacy vault
  copied,     \* per process, whether it has copied the legacy .bak too
  seen,       \* per process, the version its session holds, or Absent
  latest,     \* the newest version of the vault, or Absent once destroyed
  dead        \* versions the user has destroyed

canonical == <<vault, bak>>
legacy == <<oldVault, oldBak>>
local == <<op, raw, copied, seen>>
history == <<latest, dead>>
vars == <<canonical, legacy, lock, pc, local, history>>

Migrating == {"hasVault", "hasBackup", "hasLegacy", "lock", "read", "putVault",
              "hasOldBak", "putBackup", "unlock", "undo", "rmVault", "rmBackup"}
Locked == {"read", "putVault", "hasOldBak", "putBackup", "unlock"}

TypeOK ==
  /\ vault \in {Absent} \union Version /\ bak \in {Absent} \union Version
  /\ oldVault \in {Absent, LegacyVault} /\ oldBak \in {Absent, LegacyBackup}
  /\ lock \in Process \union {Nobody}
  /\ pc \in [Process -> Migrating \union {"idle", "ready", "destroy"}]
  /\ op \in [Process -> {"open", "save", "destroy"}]
  /\ raw \in [Process -> {Absent, LegacyVault}]
  /\ copied \in [Process -> BOOLEAN]
  /\ seen \in [Process -> {Absent} \union Version]
  /\ \A p \in Process : pc[p] \in Locked <=> lock = p
  /\ latest \in {Absent} \union Version
  /\ dead \subseteq Version

(* A legacy installation, with or without a backup.                        *)
Init ==
  /\ vault = Absent /\ bak = Absent
  /\ oldVault = LegacyVault /\ oldBak \in {Absent, LegacyBackup}
  /\ lock = Nobody
  /\ pc = [p \in Process |-> "idle"]
  /\ op = [p \in Process |-> "open"]
  /\ raw = [p \in Process |-> Absent]
  /\ copied = [p \in Process |-> FALSE]
  /\ seen = [p \in Process |-> Absent]
  /\ latest = LegacyVault /\ dead = {}

Goto(p, place) == pc' = [pc EXCEPT ![p] = place]

(* vault_path() raises: the operation is over and nothing else happens.    *)
Raise(p) ==
  /\ Goto(p, "idle")
  /\ raw' = [raw EXCEPT ![p] = Absent]
  /\ copied' = [copied EXCEPT ![p] = FALSE]
  /\ UNCHANGED <<op, seen>>

Move(p, from, to) == pc[p] = from /\ Goto(p, to)

(***************************************************************************)
(* _migrate_legacy_windows_vault.                                          *)
(***************************************************************************)

(* Every operation asks vault_path() first; a session is needed to save or *)
(* to destroy.                                                             *)
Call(p, o) ==
  /\ pc[p] = "idle" /\ o \in Operations
  /\ (o = "open") = (seen[p] = Absent)
  /\ op' = [op EXCEPT ![p] = o]
  /\ Goto(p, "hasVault")
  /\ UNCHANGED <<canonical, legacy, lock, raw, copied, seen, history>>

HasVault(p) ==
  /\ Move(p, "hasVault", IF vault # Absent THEN "ready" ELSE "hasBackup")
  /\ UNCHANGED <<canonical, legacy, lock, local, history>>

(* A .bak without a vault stops everything.                                *)
HasBackup(p) ==
  /\ pc[p] = "hasBackup"
  /\ \/ bak = Absent /\ Goto(p, "hasLegacy") /\ UNCHANGED local
     \/ bak # Absent /\ Raise(p)
  /\ UNCHANGED <<canonical, legacy, lock, history>>

HasLegacy(p) ==
  /\ Move(p, "hasLegacy", IF oldVault = Absent THEN "ready" ELSE "lock")
  /\ UNCHANGED <<canonical, legacy, lock, local, history>>

TakeLock(p) ==
  /\ Move(p, "lock", "read")
  /\ lock = Nobody /\ lock' = p
  /\ UNCHANGED <<canonical, legacy, local, history>>

(* Mutant: the vault is moved, not copied.                                 *)
ReadMoving(p) ==
  /\ Move(p, "read", "putVault")
  /\ oldVault # Absent /\ oldVault' = Absent
  /\ raw' = [raw EXCEPT ![p] = oldVault]
  /\ UNCHANGED <<canonical, oldBak, lock, op, copied, seen, history>>

(* The two names of the canonical vault are not looked at again under the  *)
(* lock.                                                                   *)
Read(p) ==
  /\ Move(p, "read", "putVault")
  /\ oldVault # Absent
  /\ raw' = [raw EXCEPT ![p] = oldVault]
  /\ UNCHANGED <<canonical, legacy, lock, op, copied, seen, history>>

PutVault(p) ==
  /\ Move(p, "putVault", "hasOldBak")
  /\ vault' = raw[p]
  /\ UNCHANGED <<bak, legacy, lock, local, history>>

(* Mutant: the original goes as soon as its copy is there.                 *)
HasOldBakMoved(p) ==
  /\ Move(p, "hasOldBak", IF oldBak # Absent THEN "putBackup" ELSE "unlock")
  /\ oldVault' = Absent
  /\ UNCHANGED <<canonical, oldBak, lock, local, history>>

HasOldBak(p) ==
  /\ Move(p, "hasOldBak", IF oldBak # Absent THEN "putBackup" ELSE "unlock")
  /\ UNCHANGED <<canonical, legacy, lock, local, history>>

PutBackup(p) ==
  /\ Move(p, "putBackup", "unlock")
  /\ oldBak # Absent /\ bak' = oldBak
  /\ copied' = [copied EXCEPT ![p] = TRUE]
  /\ UNCHANGED <<vault, legacy, lock, op, raw, seen, history>>

Unlock(p) ==
  /\ Move(p, "unlock", "rmVault")
  /\ lock' = Nobody
  /\ UNCHANGED <<canonical, legacy, local, history>>

(* The originals are removed after the lock has been released; removing a  *)
(* file that is not there any more is an error as well.                    *)
RemoveOldVault(p) ==
  /\ Move(p, "rmVault", IF copied[p] THEN "rmBackup" ELSE "ready")
  /\ oldVault # Absent /\ oldVault' = Absent
  /\ UNCHANGED <<canonical, oldBak, lock, local, history>>

RemoveOldBak(p) ==
  /\ Move(p, "rmBackup", "ready")
  /\ oldBak # Absent /\ oldBak' = Absent
  /\ UNCHANGED <<canonical, oldVault, lock, local, history>>

(* "... no se pudieron eliminar los archivos antiguos".                    *)
RemoveFails(p) ==
  /\ \/ pc[p] = "rmVault" /\ (DiskFails \/ oldVault = Absent)
     \/ pc[p] = "rmBackup" /\ (DiskFails \/ oldBak = Absent)
  /\ Raise(p)
  /\ UNCHANGED <<canonical, legacy, lock, history>>

(* An error while nothing has been copied yet, a busy lock or a vault that *)
(* is gone: "Los archivos originales quedaron intactos".  An error of      *)
(* _atomic_restore after os.replace leaves the new vault where it is.      *)
FailEarly(p) ==
  /\ \/ pc[p] = "lock" /\ (DiskFails \/ lock # Nobody)
     \/ pc[p] = "read" /\ (DiskFails \/ oldVault = Absent)
     \/ pc[p] = "putVault" /\ DiskFails
  /\ lock' = IF lock = p THEN Nobody ELSE lock
  /\ \/ UNCHANGED vault
     \/ pc[p] = "putVault" /\ vault' = raw[p]
  /\ Raise(p)
  /\ UNCHANGED <<bak, legacy, history>>

(* Mutant: a failure that keeps the lock.                                  *)
FailLateLocked(p) ==
  /\ pc[p] = "putBackup" /\ (DiskFails \/ oldBak = Absent)
  /\ Goto(p, "undo")
  /\ UNCHANGED <<canonical, legacy, lock, local, history>>

(* An error once the vault has been copied, with the legacy .bak, which    *)
(* may be gone by now: the lock is released, then the copy of the vault is *)
(* removed.                                                                *)
FailLate(p) ==
  /\ pc[p] = "putBackup" /\ (DiskFails \/ oldBak = Absent)
  /\ lock' = Nobody
  /\ bak' = bak \/ (oldBak # Absent /\ bak' = oldBak)
  /\ Goto(p, "undo")
  /\ UNCHANGED <<vault, legacy, local, history>>

Undo(p) ==
  /\ pc[p] = "undo"
  /\ vault' = Absent \/ (DiskFails /\ UNCHANGED vault)
  /\ Raise(p)
  /\ UNCHANGED <<bak, legacy, lock, history>>

(***************************************************************************)
(* The operations.                                                         *)
(***************************************************************************)

Fresh(v) == v \in Version /\ \A u \in {vault, bak, latest, LegacyVault} \union dead : u < v

Done(p) ==
  /\ Goto(p, "idle")
  /\ raw' = [raw EXCEPT ![p] = Absent]
  /\ copied' = [copied EXCEPT ![p] = FALSE]

Open(p) ==
  /\ pc[p] = "ready" /\ op[p] = "open" /\ vault # Absent
  /\ seen' = [seen EXCEPT ![p] = vault]
  /\ Done(p)
  /\ UNCHANGED <<canonical, legacy, lock, op, history>>

(* No vault: the user makes a new one.                                     *)
Create(p) ==
  /\ pc[p] = "ready" /\ op[p] = "open" /\ vault = Absent
  /\ \E v \in Version :
       /\ Fresh(v)
       /\ vault' = v /\ latest' = v
       /\ seen' = [seen EXCEPT ![p] = v]
  /\ Done(p)
  /\ UNCHANGED <<bak, legacy, lock, op, dead>>

Save(p) ==
  /\ pc[p] = "ready" /\ op[p] = "save" /\ vault = seen[p]
  /\ \E v \in Version :
       /\ Fresh(v)
       /\ vault' = v /\ bak' = vault /\ latest' = v
       /\ seen' = [seen EXCEPT ![p] = v]
  /\ Done(p)
  /\ UNCHANGED <<legacy, lock, op, dead>>

(* A conflict, any error, or the user leaves: the session is over.         *)
Leave(p) ==
  /\ \/ pc[p] = "ready"
     \/ pc[p] = "idle" /\ seen[p] # Absent
  /\ seen' = [seen EXCEPT ![p] = Absent]
  /\ Done(p)
  /\ UNCHANGED <<canonical, legacy, lock, op, history>>

(* delete_vault_files: each removal may fail in silence.                   *)
DestroyVault(p) ==
  /\ Move(p, "ready", "destroy") /\ op[p] = "destroy"
  /\ \/ UNCHANGED <<vault, history>>
     \/ vault' = Absent /\ latest' = Absent /\ dead' = dead \union (1 .. seen[p])
  /\ seen' = [seen EXCEPT ![p] = Absent]
  /\ UNCHANGED <<bak, legacy, lock, op, raw, copied>>

DestroyBak(p) ==
  /\ pc[p] = "destroy"
  /\ bak' \in {bak, Absent}
  /\ Done(p)
  /\ UNCHANGED <<vault, legacy, lock, op, seen, history>>

Crash(p) ==
  /\ pc[p] # "idle"
  /\ lock' = IF lock = p THEN Nobody ELSE lock
  /\ seen' = [seen EXCEPT ![p] = Absent]
  /\ Done(p)
  /\ UNCHANGED <<canonical, legacy, op, history>>

Next ==
  \E p \in Process :
    \/ \E o \in Operations : Call(p, o)
    \/ HasVault(p) \/ HasBackup(p) \/ HasLegacy(p) \/ TakeLock(p) \/ Read(p)
    \/ PutVault(p) \/ HasOldBak(p) \/ PutBackup(p) \/ Unlock(p)
    \/ RemoveOldVault(p) \/ RemoveOldBak(p) \/ RemoveFails(p)
    \/ FailEarly(p) \/ FailLate(p) \/ Undo(p)
    \/ Open(p) \/ Create(p) \/ Save(p) \/ Leave(p)
    \/ DestroyVault(p) \/ DestroyBak(p) \/ Crash(p)

Spec == Init /\ [][Next]_vars
-----------------------------------------------------------------------------
(***************************************************************************)
(* Properties.                                                             *)
(***************************************************************************)

(* The newest version of the vault is in one of the two places, until its  *)
(* user destroys it: whatever fails, and wherever the process dies, between *)
(* the copy and the removal of the originals (storage.py:241-281).         *)
LatestSurvives == latest # Absent => latest \in {vault, oldVault}

(* Whoever is told that the original files are intact (storage.py:257-271) *)
(* still has the vault there.                                              *)
OriginalsIntact ==
  [][\A p \in Process : FailEarly(p) \/ Undo(p) => oldVault # Absent]_vars

(* "Esta accion no se puede deshacer": what the user has destroyed does    *)
(* not come back (delete_vault_files, storage.py:611-619).                 *)
DestroyedStaysDestroyed == vault \notin dead

(* "Vuelve a pantalla de crear vault": once a vault has been destroyed, a  *)
(* new one can be created, so that vault_path() does not raise             *)
(* (storage.py:230-235).                                                   *)
CanStartAgain ==
  (\A p \in Process : pc[p] = "idle") /\ dead # {} /\ vault = Absent
    => bak = Absent
=============================================================================
