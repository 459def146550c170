---------------------------- MODULE UnlockWindow ----------------------------
(***************************************************************************)
(* The window of src/vault_app/ui/unlock_window.py that opens, creates,    *)
(* recovers, restores and destroys a vault, with UnlockService and the two *)
(* rate limiters behind it, while other instances and the disk change the  *)
(* file under it.  One window; its modal dialogs and the storage calls     *)
(* between them are separate steps.                                        *)
(*                                                                         *)
(* Every version of the vault ever written is in log, as the password and  *)
(* the recovery codes that open it, both named by the version that         *)
(* introduced them, and whether it is in format v1 or v2.  Entries are the *)
(* subject of VaultWindow, the system calls of a save that of VaultStorage.*)
(***************************************************************************)
EXTENDS Integers, Sequences

CONSTANTS
  Threshold,   \* UnlockWindow.RECOVERY_THRESHOLD
  MaxVersion,  \* bound: how many versions of the file are written
  Others,      \* what happens to the file behind the window's back
  Faults       \* how its own storage calls may fail

ASSUME ThresholdAssumption == Threshold \in Nat \ {0}
ASSUME VersionAssumption   == MaxVersion \in Nat \ {0, 1}  \* Init has two
ASSUME OthersAssumption    ==
  Others \subseteq {"create", "migrate", "activate", "import", "destroy", "damage"}
ASSUME FaultAssumption     ==
  Faults \subseteq {"refused", "unconfirmed", "raised", "unreadable", "undeleted"}

NoCodes == 0
Version == 1 .. MaxVersion
Content == [pw : Version, codes : {NoCodes} \union Version, old : BOOLEAN]
Wrong == 0              \* a password or codes that open nothing

(* A file: a version of the vault, whole, cut off in its header (it does   *)
(* not parse), or damaged in its payload (it parses but does not decrypt). *)
File == [ver : Version, state : {"whole", "header", "payload"}]
NoFile == [ver |-> 0, state |-> "whole"]

VARIABLES
  log,         \* every version of the vault ever written
  disk,        \* passwords.vault
  bak,         \* passwords.vault.bak
  portable,    \* the portable backups the user has
  screen,      \* what the window shows, or the handler that is running
  failures,    \* self._limiter.failures
  locked,      \* self._limiter.is_locked
  recFailures, \* self._recovery_limiter.failures
  recLocked,   \* self._recovery_limiter.is_locked
  links,       \* what _show_lockout_links has put up, "none" before it has
  exhausted,   \* self._recovery_exhausted_shown
  entry,       \* whether the password entry and the button are enabled
  timer,       \* whether a _tick_cooldown callback is pending
  header,      \* the header in memory
  fp,          \* the version it was read from or saved as, 0 for none
  was,         \* the password of the vault when a recovery was accepted
  used,        \* recovery codes that have been accepted
  right        \* whether the last password tried was the right one

file == <<log, disk, bak, portable>>
limits == <<failures, locked, recFailures, recLocked, links, exhausted>>
widgets == <<entry, timer>>
session == <<header, fp, was>>
history == <<used, right>>
vars == <<file, screen, limits, widgets, session, history>>

NoHeader == [pw |-> Wrong, codes |-> NoCodes, old |-> FALSE]
Modal == {"askCode", "newPassword", "rotate"}
Busy == {"setup", "migrate", "rotate"}
Screen == {"create", "codes", "unlock", "corrupt", "opened"} \union Modal \union Busy

TypeOK ==
  /\ log \in Seq(Content) /\ Len(log) <= MaxVersion
  /\ {disk, bak} \subseteq File \union {NoFile}
  /\ portable \subseteq File
  /\ screen \in Screen
  /\ failures \in 0 .. Threshold /\ recFailures \in 0 .. Threshold
  /\ {locked, recLocked, exhausted, entry, timer, right} \subseteq BOOLEAN
  /\ links \in {"none", "recovery", "strict"}
  /\ header \in Content \union {NoHeader}
  /\ fp \in 0 .. Len(log)
  /\ was \in Version \union {Wrong}
  /\ used \subseteq Version

Exists(f) == f # NoFile
HasRecovery(f) == log[f.ver].codes # NoCodes
Parses(f) == Exists(f) /\ f.state # "header"

(* __init__ and _reset_state: nothing failed yet, nothing shown.           *)
Reset ==
  /\ failures' = 0 /\ locked' = FALSE
  /\ recFailures' = 0 /\ recLocked' = FALSE
  /\ links' = "none" /\ exhausted' = FALSE

(* No vault, or one that is old, or strict, or has recovery; perhaps a     *)
(* .bak and a portable backup of it from before it had recovery.           *)
Init ==
  /\ \/ log = <<>> /\ disk = NoFile /\ bak = NoFile /\ portable = {}
     \/ /\ \E codes \in {NoCodes, 2}, old \in BOOLEAN :
             /\ old => codes = NoCodes
             /\ log = << [pw |-> 1, codes |-> NoCodes, old |-> old],
                         [pw |-> 1, codes |-> codes, old |-> old] >>
        /\ disk = [ver |-> 2, state |-> "whole"]
        /\ bak \in {NoFile, [ver |-> 1, state |-> "whole"]}
        /\ portable \in {{}, {[ver |-> 1, state |-> "whole"]}}
  /\ screen = IF Exists(disk) THEN "unlock" ELSE "create"
  /\ failures = 0 /\ locked = FALSE
  /\ recFailures = 0 /\ recLocked = FALSE
  /\ links = "none" /\ exhausted = FALSE
  /\ entry = TRUE /\ timer = FALSE
  /\ header = NoHeader /\ fp = 0 /\ was = Wrong
  /\ used = {} /\ right = FALSE

NextVersion == Len(log) + 1
Now == disk.ver

(* The file is replaced; what was there becomes the .bak.                  *)
Put(f) ==
  /\ disk' = f
  /\ bak' = IF Exists(disk) THEN disk ELSE bak

Write(content) ==
  /\ Len(log) < MaxVersion
  /\ log' = Append(log, content)
  /\ Put([ver |-> NextVersion, state |-> "whole"])

(* save_vault returns and the window takes the header and the fingerprint. *)
SavesAs(content) ==
  /\ Write(content)
  /\ header' = content /\ fp' = NextVersion

(* save_vault raises: before the file was replaced, or after.              *)
SaveFails(content) ==
  \/ "refused" \in Faults /\ UNCHANGED <<log, disk, bak>>
  \/ "unconfirmed" \in Faults /\ Write(content)

(* An error that is no VaultStorageError, from the lock or its directory.  *)
Raises == "raised" \in Faults /\ UNCHANGED <<log, disk, bak>>

(* The handler is left, and its variables are gone.                        *)
Forgets == header' = NoHeader /\ fp' = 0

(* The file is not the one the fingerprint was taken from.                 *)
Changed == disk # [ver |-> fp, state |-> "whole"]

(***************************************************************************)
(* Creating a vault: _create_vault.                                        *)
(***************************************************************************)

Created == [pw |-> NextVersion, codes |-> NoCodes, old |-> FALSE]

(* save_vault without an expected fingerprint.                             *)
CreateVault ==
  /\ screen = "create"
  /\ \/ SavesAs(Created) /\ screen' \in {"setup", "opened"}
     \/ (SaveFails(Created) \/ Raises) /\ UNCHANGED <<screen, header, fp>>
  /\ UNCHANGED <<portable, limits, widgets, was, history>>

WithCodes == [header EXCEPT !.codes = NextVersion]

(* Mutant: the new header is kept although it could not be saved.          *)
SetupRecoveryKeeping ==
  /\ screen = "setup"
  /\ \/ ~Changed /\ SavesAs(WithCodes) /\ screen' = "codes"
     \/ /\ Changed /\ UNCHANGED <<log, disk, bak, header, fp>>
        /\ screen' = "opened"
     \/ /\ ~Changed /\ SaveFails(WithCodes)
        /\ header' = WithCodes /\ UNCHANGED fp
        /\ screen' = "opened"
     \/ Raises /\ Forgets /\ screen' = "create"
  /\ UNCHANGED <<portable, limits, widgets, was, history>>

(* Mutant: the fingerprint of a save that raised is kept.                  *)
SetupRecoveryBelieving ==
  /\ screen = "setup" /\ screen' = "opened"
  /\ SaveFails(WithCodes) /\ fp' = NextVersion
  /\ UNCHANGED <<portable, limits, widgets, header, was, history>>

(* setup_recovery; if it fails the vault opens without codes, and if it    *)
(* raises anything else the window still offers to create one.             *)
SetupRecovery ==
  /\ screen = "setup"
  /\ \/ ~Changed /\ SavesAs(WithCodes) /\ screen' = "codes"
     \/ /\ Changed /\ UNCHANGED <<log, disk, bak, header, fp>>
        /\ screen' = "opened"
     \/ /\ ~Changed /\ SaveFails(WithCodes) /\ UNCHANGED <<header, fp>>
        /\ screen' = "opened"
     \/ Raises /\ Forgets /\ screen' = "create"
  /\ UNCHANGED <<portable, limits, widgets, was, history>>

CloseCodes ==
  /\ screen = "codes" /\ screen' = "opened"
  /\ UNCHANGED <<file, limits, widgets, session, history>>

(* A new unlock window: the main window has been left, or this window was  *)
(* closed or its process ended, within a handler too, and is started again.*)
Start ==
  /\ screen' = IF Exists(disk) THEN "unlock" ELSE "create"
  /\ Reset
  /\ entry' = TRUE /\ timer' = FALSE
  /\ header' = NoHeader /\ fp' = 0 /\ was' = Wrong
  /\ UNCHANGED <<file, history>>

(***************************************************************************)
(* Opening it with the password: _try_unlock and UnlockService.unlock.     *)
(***************************************************************************)

CountFailure(n) == IF n < Threshold THEN n + 1 ELSE n

(* Parsing fails, or the file cannot be read just now.                     *)
Unreadable ==
  \/ disk.state = "header"
  \/ "unreadable" \in Faults

(* The links appear once, after Threshold failures, and then stay.         *)
LinksAppear == failures' >= Threshold /\ links = "none"

(* A wrong password, or a payload that does not decrypt with the right one *)
(* (InvalidTag for both): counted, and the entry is disabled for a while.  *)
PasswordRejected ==
  /\ screen = "unlock" /\ ~locked /\ Parses(disk)
  /\ right' \in BOOLEAN /\ (right' => disk.state = "payload")
  /\ failures' = CountFailure(failures) /\ locked' = TRUE
  /\ entry' = FALSE /\ timer' = TRUE
  /\ links' = IF LinksAppear
                THEN (IF HasRecovery(disk) THEN "recovery" ELSE "strict")
                ELSE links
  /\ UNCHANGED <<file, screen, recFailures, recLocked, exhausted, session, used>>

(* UnlockSuccess: the limiter is reset and the window left.                *)
Opens ==
  /\ screen' = "opened"
  /\ failures' = 0 /\ locked' = FALSE
  /\ UNCHANGED <<recFailures, recLocked, links, exhausted>>

(* A vault in format v1 or v2 is still to be migrated.                     *)
PasswordOpens ==
  /\ screen = "unlock" /\ ~locked /\ Exists(disk) /\ disk.state = "whole"
  /\ right' = TRUE
  /\ header' = log[Now] /\ fp' = Now
  /\ \/ ~log[Now].old /\ Opens
     \/ log[Now].old /\ screen' = "migrate" /\ UNCHANGED limits
  /\ UNCHANGED <<file, widgets, was, used>>

Migrated(content) == [content EXCEPT !.old = FALSE]

(* _create_v3_from_data saves what was read in the new format, whatever    *)
(* the file has become, and the fingerprint stays that of the old one;     *)
(* an error of the save ends the handler.                                  *)
Migrate ==
  /\ screen = "migrate"
  /\ \/ /\ Write(Migrated(header))
        /\ header' = Migrated(header) /\ UNCHANGED fp
        /\ Opens
     \/ /\ SaveFails(Migrated(header)) \/ Raises
        /\ Forgets
        /\ screen' = "unlock" /\ UNCHANGED limits
  /\ UNCHANGED <<portable, widgets, was, history>>

(* CorruptVault: every widget is replaced by the corrupt-vault screen.     *)
CorruptFound ==
  /\ screen = "unlock" /\ ~locked /\ Exists(disk) /\ Unreadable
  /\ screen' = "corrupt"
  /\ UNCHANGED <<file, limits, widgets, session, history>>

(* Time passes and a cooldown is over.                                     *)
Elapse ==
  /\ locked \/ recLocked
  /\ locked' \in {locked, FALSE} /\ recLocked' \in {recLocked, FALSE}
  /\ UNCHANGED <<file, screen, failures, recFailures, links, exhausted, widgets,
                 session, history>>

(* Mutant: the callback is not scheduled again while the limiter is locked.*)
TickOnce ==
  /\ timer /\ screen \notin {"opened"} \union Busy
  /\ timer' = FALSE
  /\ entry' = (entry \/ (screen # "corrupt" /\ ~locked))
  /\ UNCHANGED <<file, screen, limits, session, history>>

(* _tick_cooldown: enables the entry, or schedules itself again; on the    *)
(* corrupt-vault screen the widgets are gone, it raises and that is all.   *)
Tick ==
  /\ timer /\ screen \notin {"opened"} \union Busy
  /\ \/ screen = "corrupt" /\ UNCHANGED entry
     \/ screen # "corrupt" /\ ~locked /\ entry' = TRUE
  /\ timer' = FALSE
  /\ UNCHANGED <<file, screen, limits, session, history>>

(***************************************************************************)
(* Opening it with the recovery codes: _start_recovery.                    *)
(***************************************************************************)

StartRecovery ==
  /\ screen = "unlock" /\ links = "recovery" /\ ~exhausted /\ ~recLocked
  /\ screen' = "askCode"
  /\ UNCHANGED <<file, limits, widgets, session, history>>

(* The dialog is cancelled, the codes do not parse, or the file cannot be  *)
(* loaded: only the status line changes.                                   *)
NoCodeTried ==
  /\ screen = "askCode" /\ screen' = "unlock"
  /\ UNCHANGED <<file, limits, widgets, session, history>>

CodesRejected ==
  /\ screen = "askCode" /\ Parses(disk) /\ HasRecovery(disk)
  /\ recFailures' = CountFailure(recFailures) /\ recLocked' = TRUE
  /\ exhausted' = (recFailures' >= Threshold \/ exhausted)
  /\ screen' = "unlock"
  /\ UNCHANGED <<file, failures, locked, links, widgets, session, history>>

(* decrypt_with_recovery raises ValueError when the vault has no recovery. *)
NoRecoveryFound ==
  /\ screen = "askCode" /\ Parses(disk) /\ ~HasRecovery(disk)
  /\ screen' = "corrupt"
  /\ UNCHANGED <<file, limits, widgets, session, history>>

CodesAccepted ==
  /\ screen = "askCode" /\ Exists(disk) /\ disk.state = "whole"
  /\ HasRecovery(disk)
  /\ header' = log[Now] /\ fp' = Now /\ was' = log[Now].pw
  /\ used' = used \union {log[Now].codes}
  /\ recFailures' = 0 /\ recLocked' = FALSE
  /\ screen' = "newPassword"
  /\ UNCHANGED <<file, failures, locked, links, exhausted, widgets, right>>

WithPassword == [header EXCEPT !.pw = NextVersion]

(* A VaultStorageError of either save, a conflict included: an error box,  *)
(* and the handler is left.                                                *)
RecoveryFails(content) ==
  /\ \/ Changed /\ UNCHANGED <<log, disk, bak>>
     \/ ~Changed /\ SaveFails(content)
     \/ Raises
  /\ screen' = "unlock" /\ Forgets

(* NewPasswordDialog is cancelled.                                         *)
NoPasswordChosen ==
  /\ screen = "newPassword" /\ screen' = "unlock" /\ Forgets
  /\ UNCHANGED <<file, limits, widgets, was, history>>

(* rewrap_vmk_for_new_password.                                            *)
RewrapPassword ==
  /\ screen = "newPassword"
  /\ \/ ~Changed /\ SavesAs(WithPassword) /\ screen' = "rotate"
     \/ RecoveryFails(WithPassword)
  /\ UNCHANGED <<portable, limits, widgets, was, history>>

(* setup_recovery makes the new codes.                                     *)
RotateCodes ==
  /\ screen = "rotate"
  /\ \/ /\ ~Changed /\ SavesAs(WithCodes) /\ screen' = "codes"
        /\ failures' = 0 /\ locked' = FALSE
        /\ UNCHANGED <<recFailures, recLocked, links, exhausted>>
     \/ RecoveryFails(WithCodes) /\ UNCHANGED limits
  /\ UNCHANGED <<portable, widgets, was, history>>

(***************************************************************************)
(* Replacing it: _try_restore_backup, _restore_portable_backup and         *)
(* _reset_vault.                                                           *)
(***************************************************************************)

(* Mutant: the lockout flags survive the rebuilding of the window.         *)
RebuildKeepingLinks(next) ==
  /\ screen' = next
  /\ failures' = 0 /\ locked' = FALSE
  /\ recFailures' = 0 /\ recLocked' = FALSE
  /\ UNCHANGED <<links, exhausted>>
  /\ entry' = TRUE /\ UNCHANGED timer

(* _clear_ui, _reset_state, _build_ui; a pending callback stays pending.   *)
Rebuild(next) ==
  /\ screen' = next
  /\ Reset
  /\ entry' = TRUE /\ UNCHANGED timer

StaysAsItWas == UNCHANGED <<screen, limits, widgets>>

(* The .bak replaces the vault and nothing is kept of it; only then is its *)
(* header looked at.                                                       *)
RestoreBackup ==
  /\ screen = "corrupt" /\ Exists(bak)
  /\ disk' = bak
  /\ \/ bak.state # "header" /\ Rebuild("unlock")
     \/ bak.state = "header" /\ StaysAsItWas
     \/ "unconfirmed" \in Faults /\ StaysAsItWas
  /\ UNCHANGED <<log, bak, portable, session, history>>

RestorePortable ==
  /\ screen \in {"create", "unlock", "corrupt"}
  /\ \E f \in portable : Put(f)
  /\ \/ Rebuild("unlock")
     \/ "unconfirmed" \in Faults /\ StaysAsItWas
  /\ UNCHANGED <<log, portable, session, history>>

(* delete_vault_files, each removal of which may fail in silence.          *)
ResetVault ==
  /\ screen \in {"unlock", "corrupt"}
  /\ \/ disk' = NoFile /\ bak' = NoFile
     \/ "undeleted" \in Faults /\ disk' \in {disk, NoFile} /\ bak' \in {bak, NoFile}
  /\ Rebuild("create")
  /\ UNCHANGED <<log, portable, session, history>>

(***************************************************************************)
(* What happens to the file meanwhile.                                     *)
(***************************************************************************)

Elsewhere == UNCHANGED <<portable, screen, limits, widgets, session, history>>

OtherCreates ==
  /\ "create" \in Others /\ ~Exists(disk)
  /\ Write(Created)
  /\ Elsewhere

(* Another instance opens an old vault.                                    *)
OtherMigrates ==
  /\ "migrate" \in Others /\ Exists(disk) /\ disk.state = "whole"
  /\ log[Now].old /\ Write(Migrated(log[Now]))
  /\ Elsewhere

(* Another instance activates or regenerates recovery.                     *)
OtherActivates ==
  /\ "activate" \in Others /\ Exists(disk) /\ disk.state = "whole"
  /\ ~log[Now].old
  /\ Write([log[Now] EXCEPT !.codes = NextVersion])
  /\ Elsewhere

OtherImports ==
  /\ "import" \in Others
  /\ \E f \in portable : Put(f)
  /\ UNCHANGED log /\ Elsewhere

OtherDestroys ==
  /\ "destroy" \in Others /\ Exists(disk)
  /\ disk' = NoFile /\ bak' = NoFile
  /\ UNCHANGED log /\ Elsewhere

(* The file is cut off or goes bad.                                        *)
Damage ==
  /\ "damage" \in Others /\ Exists(disk) /\ disk.state = "whole"
  /\ \E state \in {"header", "payload"} : disk' = [disk EXCEPT !.state = state]
  /\ UNCHANGED <<log, bak>> /\ Elsewhere

Next ==
  \/ CreateVault \/ SetupRecovery \/ CloseCodes \/ Start
  \/ PasswordRejected \/ PasswordOpens \/ Migrate \/ CorruptFound
  \/ Elapse \/ Tick
  \/ StartRecovery \/ NoCodeTried \/ CodesRejected \/ NoRecoveryFound
  \/ CodesAccepted \/ NoPasswordChosen \/ RewrapPassword \/ RotateCodes
  \/ RestoreBackup \/ RestorePortable \/ ResetVault
  \/ OtherCreates \/ OtherMigrates \/ OtherActivates \/ OtherImports \/ OtherDestroys \/ Damage

Spec == Init /\ [][Next]_vars

(* Tk runs a pending callback every 200 ms, in the nested loops of the     *)
(* modal dialogs too: whoever keeps submitting wrong passwords is not that *)
(* quick after every cooldown.  A cooldown of the password limiter ends,   *)
(* and so does a handler that saves.                                       *)
FairSpec ==
  /\ Spec /\ SF_vars(Tick) /\ WF_vars(Elapse /\ ~locked')
  /\ WF_vars(SetupRecovery) /\ WF_vars(Migrate) /\ WF_vars(RotateCodes)
-----------------------------------------------------------------------------
(***************************************************************************)
(* Properties.                                                             *)
(***************************************************************************)

(* States E, F and H: the lockout links are up exactly when the password   *)
(* has been rejected Threshold times, and recovery is closed exactly when  *)
(* codes have, however the vault is restored, reset, recovered or replaced *)
(* meanwhile (_try_unlock, _show_lockout_links, _show_recovery_exhausted,  *)
(* _reset_state, the rebuilds).                                            *)
LockoutMatchesFailures ==
  screen = "unlock" =>
    /\ (links # "none") = (failures = Threshold)
    /\ exhausted = (recFailures = Threshold)

(* The main window is handed the header and the fingerprint of one and the *)
(* same version, whichever of the saves on the way has failed and whatever *)
(* others have written meanwhile.  Of an old version it is the header that *)
(* version has been migrated to: its fingerprint is that of the old file,  *)
(* which is gone, so that the first save of the session is refused         *)
(* (unlock_service.py:127-147, storage.py:788-822).                        *)
SessionIsItsVersion ==
  screen = "opened" => fp # 0 /\ header = Migrated(log[fp])

(* The entry that a failed attempt has disabled comes back, through        *)
(* dialogs, restores and rebuilt windows.                                  *)
EntryComesBack == ~entry ~> entry \/ screen \in {"corrupt", "opened"}

(* "Se invalidan automaticamente despues de usarlos": recovery codes that  *)
(* have been accepted do not open the vault once the window has dealt with *)
(* them (unlock_window.py:677-724).                                        *)
UsedCodesAreDead ==
  screen \notin Modal /\ Parses(disk) => log[Now].codes \notin used

(* "No se pudo guardar el cambio de password": a recovery that does not go *)
(* through leaves the password as it was (unlock_window.py:685-710).       *)
FailedRecoveryKeepsPassword ==
  [][(RewrapPassword \/ RotateCodes) /\ screen' = "unlock"
       => log'[disk'.ver].pw = was]_vars

(* "El vault local parece danado": a restore of the .bak, which keeps no   *)
(* copy, only ever replaces a damaged file (storage.py:459-469).           *)
RestoreReplacesDamage ==
  [][screen = "corrupt" /\ Exists(disk') /\ disk' # disk /\ bak' = bak
       => disk.state # "whole"]_vars

(* States E and F, as docs/STATUS.md:45-46 has them: after every rejected  *)
(* password, the links a locked-out user sees are those of the vault that  *)
(* is on disk (_show_lockout_links, unlock_window.py:299-309).             *)
LinksFitTheVault ==
  [][PasswordRejected /\ links' # "none"
       => (links' = "recovery") = HasRecovery(disk)]_vars

(* No vault that another instance has saved is overwritten by a window     *)
(* that still offers to create one (unlock_window.py:78, 549).             *)
CreateOverwritesNothing ==
  [][screen = "create" /\ Len(log') > Len(log) /\ header' # header
       => ~Exists(disk)]_vars

(* "Esa master password no abre este vault": the attempt that is counted   *)
(* and answered so was made with a wrong password.                         *)
RightPasswordIsNotBlamed ==
  [][failures' > failures => ~right']_vars
=============================================================================
