--------------------------- MODULE UnlockController --------------------------
(***************************************************************************)
(* The second front end: src/vault_app_v2/controllers/unlock_controller.py *)
(* as the QML screens call it, over UnlockService and CreateVaultService   *)
(* of services/auth_service.py, while other instances change the file.     *)
(* Qt runs the slots one at a time; creating a vault looks for the file,   *)
(* derives a key, saves, sets up recovery and shows the codes, unlocking   *)
(* one in format v1 or v2 reads, migrates and saves it, and others act in  *)
(* between.                                                                *)
(*                                                                         *)
(* Every vault ever written is in log; a version, which is what a          *)
(* fingerprint stands for, is an index into it, and names the VMK and the  *)
(* recovery codes that were made for it.  The system calls of a save are   *)
(* VaultStorage's.                                                         *)
(***************************************************************************)
EXTENDS RateLimiter, Sequences

CONSTANTS
  Password,    \* what users type
  MaxVersion,  \* bound: how many versions of the file are written
  Others,      \* what happens to the file behind the controller's back
  Faults       \* how its own storage calls may fail

ASSUME VersionAssumption == MaxVersion \in Nat \ {0}
ASSUME OthersAssumption  ==
  Others \subseteq {"create", "save", "regenerate", "destroy", "damage"}
ASSUME FaultAssumption   ==
  Faults \subseteq {"refused", "unconfirmed", "raised", "unreadable"}

None == 0
Content == [password : Password, key : 1 .. MaxVersion,
            codes : 0 .. MaxVersion, old : BOOLEAN]
Route == {"unlock", "forgot", "create", "recoveryCodes", "recoveryUnlock",
          "corrupt", "unlocked"}

VARIABLES
  log,       \* every version of the vault ever written
  disk,      \* the version in passwords.vault, None for no file
  damaged,   \* whether the file does not parse
  route,     \* _current_route
  running,   \* the createVault or submitPassword that is under way
  session,   \* _header, _vmk and _data: the version they are of
  fp,        \* _fingerprint
  codes,     \* _recovery_codes: the version they were made for, or None
  warned,    \* whether the user was told that recovery codes were not saved
  limiter,   \* the limiter of UnlockService
  cooldown,  \* _cooldown_seconds
  ticking,   \* _cooldown_timer.isActive()
  wrong,     \* history: wrong passwords tried in a row
  since      \* history: seconds since the last of them, up to MaxDelay

file == <<log, disk, damaged>>
memory == <<session, fp, codes, warned>>
limits == <<limiter, cooldown, ticking>>
history == <<wrong, since>>
vars == <<file, route, running, memory, limits, history>>

NotRunning == [at |-> "idle"]
Creating == {"save", "recovery", "show"}
Request == [at : Creating \union {"migrate"}, password : Password, recovery : BOOLEAN,
            base : 0 .. MaxVersion]

TypeOK ==
  /\ log \in Seq(Content) /\ Len(log) <= MaxVersion
  /\ {disk, session, fp, codes} \subseteq 0 .. Len(log)
  /\ route \in Route
  /\ running \in Request \union {NotRunning}
  /\ {damaged, warned, ticking} \subseteq BOOLEAN
  /\ limiter \in Limiter /\ {cooldown, since} \subseteq 0 .. MaxDelay
  /\ wrong \in 0 .. MaxFailures
  /\ codes # None => route = "recoveryCodes" /\ codes = session
  /\ route \in {"unlocked", "recoveryCodes"} => session # None
  /\ session # fp => fp < session /\ log[fp].old
  /\ running # NotRunning =>
       route = IF running.at \in Creating THEN "create" ELSE "unlock"

(* load_vault and what probe_vault and unlock make of it.                  *)
Missing == disk = None
Corrupt == ~Missing /\ (damaged \/ "unreadable" \in Faults)
Ready == ~Missing /\ ~damaged

(* sync_initial_route.                                                     *)
SyncedTo(screen) ==
  \/ Missing /\ screen = "create"
  \/ Corrupt /\ screen = "corrupt"
  \/ Ready /\ screen = "unlock"

Init ==
  /\ \/ log = <<>> /\ disk = None
     \/ /\ \E password \in Password, format \in {"v1 or v2", "v3", "v3 with codes"} :
             log = <<[password |-> password, key |-> 1,
                      codes |-> IF format = "v3 with codes" THEN 1 ELSE None,
                      old |-> format = "v1 or v2"]>>
        /\ disk = 1
  /\ damaged = FALSE
  /\ route \in Route /\ SyncedTo(route)
  /\ running = NotRunning
  /\ session = None /\ fp = None /\ codes = None /\ warned = FALSE
  /\ limiter = NewLimiter /\ cooldown = 0 /\ ticking = FALSE
  /\ wrong = 0 /\ since = MaxDelay

Idle == running = NotRunning

(* _start_cooldown: _tick_cooldown at once, and a timer if one is needed.  *)
StartCooldown ==
  /\ cooldown' = limiter'.remaining
  /\ ticking' = IsLocked(limiter')

StopCooldown == cooldown' = 0 /\ ticking' = FALSE

(***************************************************************************)
(* Navigation.  QML offers each screen its own links only.                 *)
(***************************************************************************)

GoTo(from, to) == route \in from /\ route' = to

Navigate ==
  /\ Idle
  /\ \/ GoTo({"unlock", "recoveryUnlock"}, "forgot")
     \/ GoTo({"forgot"}, "recoveryUnlock")
     \/ GoTo({"create"}, "unlock")
     \/ /\ route \in {"forgot", "corrupt", "unlocked"}
        /\ route' \in Route /\ SyncedTo(route')
  /\ UNCHANGED <<file, running, memory, limits, history>>

(***************************************************************************)
(* submitPassword and UnlockService.unlock.                                *)
(***************************************************************************)

CanSubmit == Idle /\ route = "unlock" /\ cooldown = 0

(* The limiter is still locked although no cooldown is shown.              *)
LockedOut ==
  /\ CanSubmit /\ IsLocked(limiter)
  /\ UNCHANGED limiter /\ StartCooldown
  /\ UNCHANGED <<file, route, running, memory, history>>

NoVault ==
  /\ CanSubmit /\ ~IsLocked(limiter)
  /\ \/ Missing /\ route' = "create"
     \/ Corrupt /\ route' = "corrupt"
  /\ StopCooldown
  /\ UNCHANGED <<file, running, memory, limiter, history>>

(* Mutant: the limiter is not looked at.                                   *)
WrongPasswordAtOnce(password) ==
  /\ CanSubmit /\ Ready
  /\ password # log[disk].password
  /\ limiter' = RecordFailure(limiter) /\ StartCooldown
  /\ wrong' = OneMore(wrong) /\ since' = 0
  /\ UNCHANGED <<file, route, running, memory>>

WrongPassword(password) ==
  /\ CanSubmit /\ ~IsLocked(limiter) /\ Ready
  /\ password # log[disk].password
  /\ limiter' = RecordFailure(limiter) /\ StartCooldown
  /\ wrong' = OneMore(wrong) /\ since' = 0
  /\ UNCHANGED <<file, route, running, memory>>

NextVersion == Len(log) + 1

Write(content) ==
  /\ Len(log) < MaxVersion
  /\ log' = Append(log, content)
  /\ disk' = NextVersion /\ damaged' = FALSE

(* UnlockSuccess: the fingerprint is that of the file that was read.       *)
Unlocked(version, read) ==
  /\ session' = version /\ fp' = read
  /\ route' = "unlocked" /\ running' = NotRunning
  /\ limiter' = RecordSuccess(limiter) /\ StopCooldown
  /\ wrong' = 0 /\ since' = MaxDelay
  /\ UNCHANGED <<codes, warned>>

(* A vault in format v1 or v2 is still to be migrated.                     *)
RightPassword(password) ==
  /\ CanSubmit /\ ~IsLocked(limiter) /\ Ready
  /\ password = log[disk].password
  /\ IF log[disk].old
       THEN /\ running' = [at |-> "migrate", password |-> password,
                           recovery |-> FALSE, base |-> disk]
            /\ UNCHANGED <<route, memory, limits, history>>
       ELSE Unlocked(disk, disk)
  /\ UNCHANGED file

Migrated == [password |-> running.password, key |-> NextVersion,
             codes |-> None, old |-> FALSE]

(* _create_v3_from_data saves what was read under a new VMK, whatever the  *)
(* file has become.                                                        *)
Migrate ==
  /\ running.at = "migrate"
  /\ Write(Migrated)
  /\ Unlocked(disk', running.base)

(* No error of that save is caught; the slot ends.                         *)
MigrateFails ==
  /\ running.at = "migrate"
  /\ \/ Faults \intersect {"refused", "raised"} # {} /\ UNCHANGED file
     \/ "unconfirmed" \in Faults /\ Write(Migrated)
  /\ running' = NotRunning
  /\ UNCHANGED <<route, memory, limits, history>>

(* Mutant: the timer stops before it has shown the end of the wait.        *)
TickTooLate ==
  /\ ticking /\ Idle
  /\ ticking' = IsLocked(limiter)
  /\ UNCHANGED <<file, route, running, memory, limiter, cooldown, history>>

(* _tick_cooldown.                                                         *)
Tick ==
  /\ ticking /\ Idle
  /\ cooldown' = limiter.remaining /\ ticking' = IsLocked(limiter)
  /\ UNCHANGED <<file, route, running, memory, limiter, history>>

Elapse ==
  /\ IsLocked(limiter) \/ since < MaxDelay
  /\ limiter' = Later(limiter)
  /\ since' = Lesser(since + 1, MaxDelay)
  /\ UNCHANGED <<file, route, running, memory, cooldown, ticking, wrong>>
-----------------------------------------------------------------------------
(***************************************************************************)
(* createVault and CreateVaultService.create_vault.                        *)
(***************************************************************************)

Start(password, recovery) ==
  /\ Idle /\ route = "create"
  /\ \/ /\ Missing
        /\ running' = [at |-> "save", password |-> password,
                        recovery |-> recovery, base |-> None]
        /\ UNCHANGED route
     \/ ~Missing /\ route' = "unlock" /\ UNCHANGED running
  /\ UNCHANGED <<file, memory, limits, history>>

(* CreateVaultSuccess: the session is taken over and the user is in.       *)
Success(version, shown, to) ==
  /\ session' = version /\ fp' = version /\ codes' = shown
  /\ route' = to /\ running' = NotRunning
  /\ StopCooldown

Created == [password |-> running.password, key |-> NextVersion,
            codes |-> None, old |-> FALSE]

(* save_vault, unconditional, with a key derived since the file was looked *)
(* for; without recovery that is all.                                      *)
Save ==
  /\ running.at = "save"
  /\ Write(Created)
  /\ IF running.recovery
       THEN /\ running' = [running EXCEPT !.at = "recovery", !.base = disk']
            /\ UNCHANGED <<route, session, fp, codes, cooldown, ticking>>
       ELSE Success(disk', None, "unlocked")
  /\ UNCHANGED <<warned, limiter, history>>

(* CreateVaultStorageFailure, before the file was replaced or after, or an *)
(* OSError that leaves the slot; the screen stays.                         *)
SaveFails ==
  /\ running.at = "save"
  /\ \/ Faults \intersect {"refused", "raised"} # {} /\ UNCHANGED file
     \/ "unconfirmed" \in Faults /\ Write(Created)
  /\ running' = NotRunning
  /\ UNCHANGED <<route, memory, limits, history>>

Current == disk = running.base /\ ~damaged
WithRecovery == [log[running.base] EXCEPT !.codes = NextVersion]

(* Mutant: it is not looked at whether the codes have been saved.          *)
SetupRecoveryHasty ==
  /\ running.at = "recovery"
  /\ \/ Current /\ Write(WithRecovery)
     \/ UNCHANGED file
  /\ running' = [running EXCEPT !.at = "show",
                                !.base = IF log' = log THEN running.base ELSE disk']
  /\ UNCHANGED <<route, memory, limits, history>>

(* setup_recovery saves if the file is the one just written.               *)
SetupRecovery ==
  /\ running.at = "recovery" /\ Current
  /\ Write(WithRecovery)
  /\ running' = [running EXCEPT !.at = "show", !.base = disk']
  /\ UNCHANGED <<route, memory, limits, history>>

(* createVault shows them.                                                 *)
ShowCodes ==
  /\ running.at = "show"
  /\ Success(running.base, running.base, "recoveryCodes")
  /\ UNCHANGED <<file, warned, limiter, history>>

(* VaultStorageError: the vault counts as created, with a warning.         *)
SetupFails ==
  /\ running.at = "recovery"
  /\ \/ ~Current /\ UNCHANGED file
     \/ "refused" \in Faults /\ UNCHANGED file
     \/ "unconfirmed" \in Faults /\ Current /\ Write(WithRecovery)
  /\ Success(running.base, None, "unlocked")
  /\ warned' = TRUE
  /\ UNCHANGED <<limiter, history>>

(* An OSError that create_vault does not catch: the vault is there, and    *)
(* the screen still asks for a new one.                                    *)
SetupRaises ==
  /\ running.at = "recovery" /\ "raised" \in Faults
  /\ running' = NotRunning
  /\ UNCHANGED <<file, route, memory, limits, history>>

(* Mutant: the codes stay in memory.                                       *)
AcknowledgeKeeping ==
  /\ Idle /\ route = "recoveryCodes"
  /\ route' = "unlocked"
  /\ UNCHANGED <<file, running, memory, limits, history>>

Acknowledge ==
  /\ Idle /\ route = "recoveryCodes"
  /\ codes' = None
  /\ route' = "unlocked"
  /\ UNCHANGED <<file, running, session, fp, warned, limits, history>>
-----------------------------------------------------------------------------
(* Other instances, and the disk.  One that has found no file creates its  *)
(* vault unconditionally, also over another; one that has opened the vault *)
(* saves it with the recovery codes it has, or with new ones.              *)
OtherCreates(password) ==
  /\ "create" \in Others
  /\ Write([password |-> password, key |-> NextVersion, codes |-> None, old |-> FALSE])

OtherSaves ==
  /\ "save" \in Others /\ Ready /\ ~log[disk].old
  /\ Write(log[disk])

OtherRegenerates ==
  /\ "regenerate" \in Others /\ Ready /\ ~log[disk].old
  /\ Write([log[disk] EXCEPT !.codes = NextVersion])

OtherDestroys ==
  /\ "destroy" \in Others /\ ~Missing
  /\ disk' = None /\ damaged' = FALSE
  /\ UNCHANGED log

Damage ==
  /\ "damage" \in Others /\ Ready
  /\ damaged' = TRUE
  /\ UNCHANGED <<log, disk>>

Elsewhere ==
  /\ \/ \E password \in Password : OtherCreates(password)
     \/ OtherSaves \/ OtherRegenerates \/ OtherDestroys \/ Damage
  /\ UNCHANGED <<route, running, memory, limits, history>>

Creates ==
  \/ \E password \in Password, recovery \in BOOLEAN : Start(password, recovery)
  \/ Save \/ SaveFails \/ SetupRecovery \/ SetupFails \/ SetupRaises
  \/ ShowCodes \/ Acknowledge

Unlocks ==
  \/ \E password \in Password : WrongPassword(password) \/ RightPassword(password)
  \/ LockedOut \/ NoVault \/ Migrate \/ MigrateFails \/ Tick

Next == Navigate \/ Unlocks \/ Elapse \/ Creates \/ Elsewhere

Spec == Init /\ [][Next]_vars

(* The 200 ms timer of Qt fires whatever screen is shown, a slot that is   *)
(* running ends, and time passes.                                          *)
FairSpec ==
  /\ Spec /\ SF_vars(Tick) /\ WF_vars(Elapse)
  /\ WF_vars(Save \/ SaveFails) /\ WF_vars(SetupRecovery \/ SetupFails \/ SetupRaises)
  /\ WF_vars(ShowCodes) /\ WF_vars(Migrate \/ MigrateFails)
-----------------------------------------------------------------------------
(***************************************************************************)
(* Properties.                                                             *)
(***************************************************************************)

(* As long as the file on disk holds the vault that was created, whoever   *)
(* has saved it since, the recovery codes on the screen open it, unless    *)
(* another instance has made newer ones; and they stay there until the     *)
(* user has acknowledged them (create_vault 236-265, createVault 230-239,  *)
(* acknowledgeRecoveryCodes).                                              *)
ShownCodesOpenTheVault ==
  [][/\ codes' # None /\ disk' # None /\ log'[disk'].key = log'[codes'].key
          => log'[disk'].codes >= codes'
     /\ codes # None /\ codes' # codes => codes' = None /\ route = "recoveryCodes"]_vars

(* The password field is enabled again after every wait, whichever screens *)
(* the user has been through meanwhile (canSubmit, _tick_cooldown).        *)
EntryComesBack == cooldown > 0 ~> cooldown = 0

(* After n wrong passwords in a row no password is tried before            *)
(* min(2^n, MAX_DELAY) seconds, whatever screens are visited and vaults    *)
(* created meanwhile, which end the cooldown that is shown.                *)
BackOffIsKept ==
  [][(\E password \in Password : WrongPassword(password) \/ RightPassword(password))
       /\ wrong > 0
       => since >= BackOff(wrong)]_vars

(* roadmap_practico.md:88, "no pisan cambios silenciosamente": creating a  *)
(* vault never replaces one another instance has written since.            *)
CreateOverwritesNothing ==
  [][running.at = "save" /\ running' # running /\ disk' # disk
       => disk = None]_vars

(* "The vault was created, but recovery codes could not be saved"          *)
(* (auth_service.py:246-249): the file it speaks of has none.              *)
WarningIsTrue ==
  [][~warned /\ warned' /\ disk' # None => log'[disk'].codes = None]_vars

(* "The vault is locked. Enter your main password." (DEFAULT_HELPER): the  *)
(* controller then holds no key and no entries.                            *)
LockedHoldsNothing == route = "unlock" => session = None
=============================================================================
