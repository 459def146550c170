----------------------- MODULE LegacyMigrationProofs ------------------------
(***************************************************************************)
(* Proofs about LegacyMigration: types for any number of instances, and,   *)
(* for one instance, that the move of a vault from %APPDATA% loses nothing *)
(* wherever it fails or dies.  LegacyMigration_race shows that two         *)
(* instances are one too many.                                             *)
(***************************************************************************)
EXTENDS LegacyMigration, TLAPS

USE DEF Absent, LegacyVault, LegacyBackup

LEMMA InitTypes == Init => TypeOK
BY VersionAssumption, ProcessAssumption
   DEF Init, TypeOK, Version, Migrating, Locked, Nobody

(* The lock is held exactly from lock to unlock, so that the next of a     *)
(* process outside of it leaves the others' claims alone.                  *)
LEMMA StepTypes == TypeOK /\ [Next]_vars => TypeOK'
<1> SUFFICES ASSUME TypeOK, [Next]_vars PROVE TypeOK'
  OBVIOUS
<1> USE VersionAssumption, ProcessAssumption
<1>1. CASE UNCHANGED vars
  BY <1>1 DEF vars, canonical, legacy, local, history, TypeOK
<1>2. ASSUME NEW p \in Process, NEW o \in Operations, Call(p, o) PROVE TypeOK'
  BY <1>2, OperationAssumption
  DEF Call, canonical, legacy, history, TypeOK, Goto, Migrating, Locked
<1>3. ASSUME NEW p \in Process, HasVault(p) PROVE TypeOK'
  BY <1>3 DEF HasVault, Move, Goto, canonical, legacy, local, history, TypeOK, Migrating, Locked
<1>4. ASSUME NEW p \in Process, HasBackup(p) PROVE TypeOK'
  BY <1>4
  DEF HasBackup, Raise, Goto, canonical, legacy, local, history, TypeOK, Migrating, Locked
<1>5. ASSUME NEW p \in Process, HasLegacy(p) PROVE TypeOK'
  BY <1>5 DEF HasLegacy, Move, Goto, canonical, legacy, local, history, TypeOK, Migrating, Locked
<1>6. ASSUME NEW p \in Process, TakeLock(p) PROVE TypeOK'
  BY <1>6
  DEF TakeLock, Move, Goto, canonical, legacy, local, history, TypeOK, Migrating, Locked, Nobody
<1>7. ASSUME NEW p \in Process, Read(p) PROVE TypeOK'
  BY <1>7 DEF Read, Move, Goto, canonical, legacy, history, TypeOK, Migrating, Locked
<1>8. ASSUME NEW p \in Process, PutVault(p) PROVE TypeOK'
  BY <1>8 DEF PutVault, Move, Goto, legacy, local, history, TypeOK, Migrating, Locked, Version
<1>9. ASSUME NEW p \in Process, HasOldBak(p) PROVE TypeOK'
  BY <1>9 DEF HasOldBak, Move, Goto, canonical, legacy, local, history, TypeOK, Migrating, Locked
<1>10. ASSUME NEW p \in Process, PutBackup(p) PROVE TypeOK'
  BY <1>10 DEF PutBackup, Move, Goto, legacy, history, TypeOK, Migrating, Locked, Version
<1>11. ASSUME NEW p \in Process, Unlock(p) PROVE TypeOK'
  BY <1>11
  DEF Unlock, Move, Goto, canonical, legacy, local, history, TypeOK, Migrating, Locked, Nobody
<1>12. ASSUME NEW p \in Process, RemoveOldVault(p) PROVE TypeOK'
  BY <1>12 DEF RemoveOldVault, Move, Goto, canonical, local, history, TypeOK, Migrating, Locked
<1>13. ASSUME NEW p \in Process, RemoveOldBak(p) PROVE TypeOK'
  BY <1>13 DEF RemoveOldBak, Move, Goto, canonical, local, history, TypeOK, Migrating, Locked
<1>14. ASSUME NEW p \in Process, RemoveFails(p) PROVE TypeOK'
  BY <1>14 DEF RemoveFails, Raise, Goto, canonical, legacy, history, TypeOK, Migrating, Locked
<1>15. ASSUME NEW p \in Process, FailEarly(p) PROVE TypeOK'
  BY <1>15
  DEF FailEarly, Raise, Goto, legacy, history, TypeOK, Migrating, Locked, Nobody, Version
<1>16. ASSUME NEW p \in Process, FailLate(p) PROVE TypeOK'
  BY <1>16
  DEF FailLate, Goto, legacy, local, history, TypeOK, Migrating, Locked, Nobody, Version
<1>17. ASSUME NEW p \in Process, Undo(p) PROVE TypeOK'
  BY <1>17 DEF Undo, Raise, Goto, legacy, history, TypeOK, Migrating, Locked
<1>18. ASSUME NEW p \in Process, Open(p) PROVE TypeOK'
  BY <1>18 DEF Open, Done, Goto, canonical, legacy, history, TypeOK, Migrating, Locked
<1>19. ASSUME NEW p \in Process, Create(p) PROVE TypeOK'
  BY <1>19 DEF Create, Fresh, Done, Goto, legacy, TypeOK, Migrating, Locked
<1>20. ASSUME NEW p \in Process, Save(p) PROVE TypeOK'
  BY <1>20 DEF Save, Fresh, Done, Goto, legacy, TypeOK, Migrating, Locked
<1>21. ASSUME NEW p \in Process, Leave(p) PROVE TypeOK'
  BY <1>21 DEF Leave, Done, Goto, canonical, legacy, history, TypeOK, Migrating, Locked
<1>22. ASSUME NEW p \in Process, DestroyVault(p) PROVE TypeOK'
  <2>1. 1 .. seen[p] \subseteq Version
    BY DEF TypeOK, Version
  <2> QED
    BY <1>22, <2>1 DEF DestroyVault, Move, Goto, legacy, history, TypeOK, Migrating, Locked
<1>23. ASSUME NEW p \in Process, DestroyBak(p) PROVE TypeOK'
  BY <1>23 DEF DestroyBak, Done, Goto, legacy, history, TypeOK, Migrating, Locked
<1>24. ASSUME NEW p \in Process, Crash(p) PROVE TypeOK'
  BY <1>24 DEF Crash, Done, Goto, canonical, legacy, history, TypeOK, Migrating, Locked, Nobody
<1> QED
  BY <1>1, <1>2, <1>3, <1>4, <1>5, <1>6, <1>7, <1>8, <1>9, <1>10, <1>11, <1>12, <1>13,
     <1>14, <1>15, <1>16, <1>17, <1>18, <1>19, <1>20, <1>21, <1>22, <1>23, <1>24 DEF Next

(* Files hold versions there are, and the legacy lock is held by whoever   *)
(* is between taking and releasing it, for any number of instances         *)
(* (_migrate_legacy_windows_vault).                                        *)
THEOREM MigrationTypes == Spec => []TypeOK
  BY InitTypes, StepTypes, PTL DEF Spec

-----------------------------------------------------------------------------
(***************************************************************************)
(* One instance.                                                           *)
(***************************************************************************)

Alone == \A p, q \in Process : p = q

(* The vault the next start will find, or move.                            *)
Current == IF vault # Absent THEN vault ELSE oldVault

(* What is still true of the files that were looked at on the way.         *)
Stands(p) ==
  /\ pc[p] \in {"hasBackup", "hasLegacy", "lock", "read", "putVault"} => vault = Absent
  /\ pc[p] \in {"lock", "read", "putVault", "hasOldBak", "putBackup", "unlock",
                "rmVault", "undo"} => oldVault = LegacyVault
  /\ pc[p] \in {"putVault", "hasOldBak", "putBackup", "unlock", "rmVault", "undo"}
       => raw[p] = LegacyVault
  /\ pc[p] \in {"hasOldBak", "putBackup", "unlock", "rmVault", "rmBackup", "undo"}
       => vault = LegacyVault
  /\ pc[p] = "ready" /\ vault = Absent => oldVault = Absent

MigrationInv ==
  /\ TypeOK
  /\ latest \in {Absent, Current}
  /\ \A p \in Process : Stands(p)

LEMMA InitMigration == Init => MigrationInv
BY InitTypes DEF Init, MigrationInv, Current, Stands

LEMMA StepMigration == ASSUME Alone PROVE MigrationInv /\ [Next]_vars => MigrationInv'
<1> SUFFICES ASSUME MigrationInv, [Next]_vars PROVE MigrationInv'
  OBVIOUS
<1> TypeOK /\ TypeOK'
  BY StepTypes DEF MigrationInv
<1> SUFFICES latest' \in {Absent, Current'} /\ \A p \in Process : Stands(p)'
  BY DEF MigrationInv
<1>1. CASE UNCHANGED vars
  BY <1>1 DEF vars, canonical, legacy, local, history, MigrationInv, Current, Stands
<1>2. ASSUME NEW p \in Process,
             \/ \E o \in Operations : Call(p, o)
             \/ HasVault(p) \/ HasBackup(p) \/ HasLegacy(p) \/ TakeLock(p) \/ Read(p)
             \/ PutVault(p) \/ HasOldBak(p) \/ PutBackup(p) \/ Unlock(p)
             \/ RemoveOldVault(p) \/ RemoveOldBak(p) \/ RemoveFails(p)
             \/ FailEarly(p) \/ FailLate(p) \/ Undo(p)
             \/ Open(p) \/ Create(p) \/ Save(p) \/ Leave(p)
             \/ DestroyVault(p) \/ DestroyBak(p) \/ Crash(p)
      PROVE  latest' \in {Absent, Current'} /\ Stands(p)'
  <2>0. /\ latest \in {Absent, Current} /\ Stands(p)
        /\ vault \in Nat /\ oldVault \in {Absent, LegacyVault}
        /\ pc \in [Process -> Migrating \union {"idle", "ready", "destroy"}]
        /\ raw \in [Process -> {Absent, LegacyVault}]
    BY DEF MigrationInv, TypeOK, Version
  <2>1. CASE \E o \in Operations : Call(p, o)
    BY <2>0, <2>1 DEF Call, Goto, canonical, legacy, history, Stands, Current
  <2>2. CASE HasVault(p)
    BY <2>0, <2>2 DEF HasVault, Move, Goto, canonical, legacy, local, history, Stands, Current
  <2>3. CASE HasBackup(p)
    BY <2>0, <2>3 DEF HasBackup, Raise, Goto, canonical, legacy, local, history, Stands, Current
  <2>4. CASE HasLegacy(p)
    BY <2>0, <2>4 DEF HasLegacy, Move, Goto, canonical, legacy, local, history, Stands, Current
  <2>5. CASE TakeLock(p)
    BY <2>0, <2>5 DEF TakeLock, Move, Goto, canonical, legacy, local, history, Stands, Current
  <2>6. CASE Read(p)
    BY <2>0, <2>6 DEF Read, Move, Goto, canonical, legacy, history, Stands, Current
  <2>7. CASE PutVault(p)
    BY <2>0, <2>7 DEF PutVault, Move, Goto, legacy, local, history, Stands, Current
  <2>8. CASE HasOldBak(p)
    BY <2>0, <2>8 DEF HasOldBak, Move, Goto, canonical, legacy, local, history, Stands, Current
  <2>9. CASE PutBackup(p)
    BY <2>0, <2>9 DEF PutBackup, Move, Goto, legacy, history, Stands, Current
  <2>10. CASE Unlock(p)
    BY <2>0, <2>10 DEF Unlock, Move, Goto, canonical, legacy, local, history, Stands, Current
  <2>11. CASE RemoveOldVault(p)
    BY <2>0, <2>11 DEF RemoveOldVault, Move, Goto, canonical, local, history, Stands, Current
  <2>12. CASE RemoveOldBak(p)
    BY <2>0, <2>12 DEF RemoveOldBak, Move, Goto, canonical, local, history, Stands, Current
  <2>13. CASE RemoveFails(p)
    BY <2>0, <2>13 DEF RemoveFails, Raise, Goto, canonical, legacy, history, Stands, Current
  <2>14. CASE FailEarly(p)
    BY <2>0, <2>14 DEF FailEarly, Raise, Goto, legacy, history, Stands, Current
  <2>15. CASE FailLate(p)
    BY <2>0, <2>15 DEF FailLate, Goto, legacy, local, history, Stands, Current
  <2>16. CASE Undo(p)
    BY <2>0, <2>16 DEF Undo, Raise, Goto, legacy, history, Stands, Current
  <2>17. CASE Open(p)
    BY <2>0, <2>17 DEF Open, Done, Goto, canonical, legacy, history, Stands, Current
  <2>18. CASE Create(p)
    BY <2>0, <2>18 DEF Create, Fresh, Version, Done, Goto, legacy, Stands, Current
  <2>19. CASE Save(p)
    BY <2>0, <2>19 DEF Save, Fresh, Version, Done, Goto, legacy, Stands, Current
  <2>20. CASE Leave(p)
    BY <2>0, <2>20 DEF Leave, Done, Goto, canonical, legacy, history, Stands, Current
  <2>21. CASE DestroyVault(p)
    BY <2>0, <2>21 DEF DestroyVault, Move, Goto, legacy, history, Stands, Current
  <2>22. CASE DestroyBak(p)
    BY <2>0, <2>22 DEF DestroyBak, Done, Goto, legacy, history, Stands, Current
  <2>23. CASE Crash(p)
    BY <2>0, <2>23 DEF Crash, Done, Goto, canonical, legacy, history, Stands, Current
  <2> QED
    BY <1>2, <2>1, <2>2, <2>3, <2>4, <2>5, <2>6, <2>7, <2>8, <2>9, <2>10, <2>11, <2>12,
       <2>13, <2>14, <2>15, <2>16, <2>17, <2>18, <2>19, <2>20, <2>21, <2>22, <2>23
<1>3. CASE Next
  <2>1. PICK p \in Process : latest' \in {Absent, Current'} /\ Stands(p)'
    BY <1>2, <1>3 DEF Next
  <2>2. \A q \in Process : q = p
    BY DEF Alone
  <2> QED
    BY <2>1, <2>2
<1> QED
  BY <1>1, <1>3

LEMMA MigrationInvariance == ASSUME Alone PROVE Spec => []MigrationInv
  BY InitMigration, StepMigration, PTL DEF Spec

(* Wherever the migration of a single instance fails or dies, the newest   *)
(* version of the vault is in one of the two places (storage.py:241-281).  *)
THEOREM NewestIsKept == ASSUME Alone PROVE Spec => []LatestSurvives
<1>1. MigrationInv => LatestSurvives
  BY DEF MigrationInv, Current, LatestSurvives
<1> QED
  BY <1>1, MigrationInvariance, PTL

(* A single instance that tells its user that the original files are       *)
(* intact still has them (storage.py:257-271).                             *)
THEOREM TheOriginalsAreThere == ASSUME Alone PROVE Spec => OriginalsIntact
<1> DEFINE Fails == \E p \in Process : FailEarly(p) \/ Undo(p)
<1>1. MigrationInv /\ [Next]_vars => [Fails => oldVault # Absent]_vars
  BY DEF MigrationInv, Stands, FailEarly, Undo
<1>2. Spec => [][Fails => oldVault # Absent]_vars
  BY <1>1, MigrationInvariance, PTL DEF Spec
<1>3. [Fails => oldVault # Absent]_vars
        => [\A p \in Process : FailEarly(p) \/ Undo(p) => oldVault # Absent]_vars
  OBVIOUS
<1> QED
  BY <1>2, <1>3, PTL DEF OriginalsIntact
=============================================================================
