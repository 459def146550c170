# A TLA+ model of the Instanashelock vault

Instanashelock is a local password manager: one encrypted file,
`passwords.vault`, that any number of instances of the application may have open
at once. This directory models the parts of the program where steps of several
actors meet: instances of the application, the file system, the clipboard,
timers, modal dialogs, and the user. TLC checks small instances of every
module; TLAPS proves safety properties of each of them for every value of their
constants (section 6).

Paths below are relative to the repository; `storage.py` without a directory
is `src/vault_app/storage.py`, and likewise for the other modules of
`src/vault_app` and its `ui/` and `services/`.

## 1. The system

| part | state it keeps | operations | interacts with |
|---|---|---|---|
| vault file storage (`storage.py`) | the vault, its `.bak`, the lock file, temporary files, portable backups | `save_vault`, `load_vault`, `restore_from_backup`, `export_/import_portable_backup`, `delete_vault_files` | every instance, through the file system only |
| legacy migration (`storage.py:218-286`) | the files in `%APPDATA%` and in `%LOCALAPPDATA%` | `vault_path()`, before every operation | other instances that start, save, destroy |
| format migration (`storage.py:643-666`, `788-822`) | the file in v1, v2 or v3 | `decrypt_with_password` | windows that have the old file open |
| header codec (`header.py`) | none: bytes in, a header out | `parse_header`, `serialise` | storage; its output is the AAD of the payload |
| unlock window (`ui/unlock_window.py`) | screen, two rate limiters, entry, links, header, fingerprint | create, unlock, recover, restore, reset | storage, `UnlockService`, dialogs, the timer |
| main window (`ui/vault_window.py`) | entries, key, header, fingerprint, stale mode, cards | add, edit, delete, regenerate codes, reload, lock, destroy | storage, dialogs (nested event loops), auto-lock |
| clipboard (`security.py`) | one guard and one timer per window | `copy`, the timeout, `clear_now` | the system clipboard, shared with every application |
| rate limiter (`security.py`) | failures, locked until | record, reset | unlock window (one for passwords, one for recovery), v2 controller |
| v2 controller and services (`src/vault_app_v2`) | route, request, session, codes, cooldown | the slots QML calls | storage, Qt timer |
| recovery codes (`recovery.py`, `RecoveryInputDialog` of `ui/dialogs.py`) | the fields and the button of the dialog | encode, decode; type, paste, submit | unlock window, its recovery limiter |
| password generator (`ui/dialogs.py`) | the grab of the window system | open, use, close | the dialog it is opened from |
| crypto, word list, theme, uninstall helper, build scripts | none that outlives a call | | |

What is hard in it:

* **Several writers, no server.** Instances only meet in the file system. A
  conditional save (fingerprint check under an OS lock) stands between two users
  and a lost entry; creation, format migration and restore write unconditionally.
* **Crashes.** A save is a temporary file, an fsync, a copy to `.bak`, a rename,
  a confirmation, and an fsync of the directory; a process can end and the power
  can fail between any two of them.
* **"Failed" after the fact.** Errors raised after `os.replace` look to a caller
  like errors raised before it, although the file on disk is the new one.
* **Re-entrance.** A modal dialog runs the event loop: while one is open the file
  changes, the auto-lock fires, the cooldown ticks.
* **Two saves for one user action** (recovery, creation with recovery codes).
* **Timers that race answers**: cooldown ticks against rebuilt windows, clipboard
  timeouts against later copies, waits that belong to a window which can be
  rebuilt.
* **Callbacks that call themselves**: a trace sets the variable it traces; a dialog
  opened from a dialog takes the grab that kept the window behind it still.
* **Untrusted lengths**: every length in a header comes from the file.

`PROJECT.json` lists these hazards one by one, at the line where each bites,
with the properties that cover it.

## 2. The modules

| module | models | checked by | proved in |
|---|---|---|---|
| `VaultRegister` | abstract: a register with conditional writes, crashes, lost writes | (as a property) | `VaultStorageProofs` |
| `VaultStorage` | `storage.py`, one step per system call | `VaultStorage_windows`, `_posix` | `VaultStorageProofs` |
| `LegacyMigration` | `_migrate_legacy_windows_vault` and what runs beside it | `LegacyMigration_one`, `_race` | `LegacyMigrationProofs` |
| `VaultWindow` | main windows that share a file | `VaultWindow_undo`, `_dialogs`, `_reload` | `VaultWindowProofs` |
| `UnlockWindow` | the unlock window, its service, its limiters | `UnlockWindow_alone` | `UnlockWindowProofs` |
| `RateLimiter` | the exponential back-off, as operators on a record | (in the next two) | (with the next two) |
| `RecoveryEntry` | the dialog, the codec and the limiter behind "forgot password" | `RecoveryEntry_code` | `RecoveryEntryProofs` |
| `UnlockController` | the v2 controller and its services | `UnlockController_alone` | `UnlockControllerProofs` |
| `ManagedClipboard` | clipboard guards and timers | `ManagedClipboard_clear` | `ManagedClipboardProofs` |
| `VaultHeader` | parser and builder of headers | `VaultHeader_parse` | `VaultHeaderProofs` |

`MCVaultStorage`, `MCVaultWindow`, `MCLegacyMigration`, `MCRecoveryEntry` and
`MCVaultHeader` hold the sets and symmetries TLC needs. The composition of
storage and windows is by abstraction rather than by INSTANCE: `VaultRegister`
says what `VaultStorage` promises to a session, and the window modules take one
save as one step with that promise (it goes through, it is refused, it conflicts,
it is unconfirmed: replaced, but reported as an error, or it raises an `OSError`
that is no `VaultStorageError`). `RecoveryEntry` and
`UnlockController` extend `RateLimiter`: each keeps its limiter as a record and
lets the seconds pass.

### VaultStorage and VaultRegister

A whole file is a number; since every encryption draws a nonce, no two saves
produce the same bytes and a fingerprint is that number. `Absent` is no file (and
Python's `None`), `Torn` a file that is only partly there, `Cut` a portable backup
whose header is whole and whose tail is missing: `import_portable_backup` looks at
the header only (`storage.py:513`), so that `Cut` can be imported. `Legacy` is the
one file in an old format; `MigrateCall` saves unconditionally whatever it has read
there and leaves its session with the fingerprint of the old file (`Told`). `pc[p]` walks through a
call: `OpenLock`, `TakeLock` or `LockBusy`, `Conflict` or `Checked`, `WriteTmp`,
`NoBackup` or `StartCopy`/`FinishCopy`, `Replace`, `Confirm`, `SyncDir`,
`Release`; `Fail` is an `OSError` at any of them (permissions included), and
destruction is three unlinks without the lock. The lock is a lock on an *inode*
(`flock`), and what is at the lock path (`lockFile`) can be unlinked and created
again. `vaultDisk` is what a power failure may leave. Temporary files are private
to one call and are part of `raw`.

`VaultRegister` has a `cell`, the values it `maybe` holds after a failure, what
each session has last seen (`view`), and writes that have begun with a `basis`.
It says that a conditional write installs its value only over its basis.

### LegacyMigration

Versions are ordered (the legacy backup, the legacy vault, later saves), so that
"the newest" means something. One action per existence check, copy, removal and
error path, in the order of the code: the checks before the lock, the originals
removed after it, the clean-up of the copies in the error path also after it.
Without `DiskFails` a step fails only where what it opens has been removed by
another instance.

### VaultWindow

Every version of the file ever written is in `log` (entries, data key, recovery
codes, format); `disk` is the current one. Per window: the list in memory
(`data`), the cards drawn from it (`cards`), the fingerprint (`fp`), the codes of
its header, the stale mode, and the change its user is making (`job`). Dialogs are
program locations: everything else can happen while one is open, the auto-lock
included. A failed save is undone the way each of the handlers does it
(`Undo`), *after* `_handle_conflict` may have reloaded. That holds for
`VaultStorageError`; the lock file, its directory and the temporary file are opened
where no handler turns an `OSError` into one (`storage.py:297`, `312`, `320`,
`397`), `_save` does not catch it (`vault_window.py:616-626`), and the change stays
in memory: `Raised`. The history variable `astray` says of a window that such a
save, or an undo in a list just reloaded, has left a change in memory (`unsaved`)
and cards that do not show it (`undrawn`).

A regeneration saves the new codes (`Regenerated`) and displays them in a later
step (`ShowCodes`); the process may die in between (`Killed`), and others write.
`orphaned` keeps the codes that were lost there or in an unconfirmed save. Opening
a vault in an old format is two steps as well: `Load`, and `Migrate`, which
rewrites what was read and keeps the fingerprint of the old file.

The search field is a `query` over `Words`; the cards keep the index of their
entry in the whole list, which is what `_edit_entry_at` and `_delete_entry_at`
use. A change made under a search is drawn with it. `Generate` is the password
generator opened from the dialog of an addition or an edit: it takes the grab of
that dialog and gives it back to nobody, so that the main window answers again
although the dialog is open (`loose`), and `GoBack` is the user who returns to the
dialog.

### UnlockWindow and UnlockController

One front end, with other instances as the actions `Others` of the environment,
and storage faults as `Faults`: `refused` (before the replace), `unconfirmed`
(after it), `raised` (an `OSError` the handler does not catch, which leaves it where
it stands), `unreadable` (a load), `undeleted` (an unlink). Files are a version
plus a state: whole, header damaged, payload damaged. Passwords and codes are
named by the version that introduced them. In `UnlockWindow` the back-off is one
cooldown of unspecified length, and the two saves of a recovery, the two of a
creation, and the reading and the saving of a migration are separate steps: the
session then holds the migrated header beside the fingerprint of the file before
(`unlock_service.py:127`, `147`). `UnlockController` keeps the routes, the slots QML
enables on each of them, its limiter in seconds beside the countdown that is shown,
which other slots may stop, and the slot that is `running` while others write: a
creation looks for the file, saves, saves the codes and shows them, an unlock may
migrate.

### RateLimiter and RecoveryEntry

The limiter's deadline on the monotonic clock is the number of seconds left until
it; failures beyond `MaxFailures`, where the wait has reached its cap, are not
told apart.

`RecoveryEntry` is what happens between the link and the new password: a text is
a sequence of characters, of which only the place in the charset and the upper
case matter. `Edit` is the trace of a field, with the rule of Tcl that a trace is
not called for what it sets itself: a text the trace has to change leaves the
button as it was. A paste that is no whole code goes into the field at the cursor
(`Inserted`), and a file without recovery brings the corrupt-vault screen
(`Corrupt`). `Paste` tells a whole code from any other text the way `_on_paste` does (dashes, or
runs of the group's length, spaces and case ignored) and then fills all fields.
Submission goes through the checks of `parse_recovery_input` in their order: the
length, the charset (done by the field), the range of the number. `wrong` and
`since` are history variables for the properties; the limiter itself is an object
of the window, so that `Restart` makes a new one.

### ManagedClipboard

`CopyText`, `Timeout` (the check of the guard) and `Clear` (the write after the
comparison) are separate, because other applications copy in between
(`CopyElsewhere`); `Close` and `Open` are the recovery codes dialog, which has a
clipboard manager of its own.

### VaultHeader

A file is a sequence of cells: one for the magic, one per number whatever its
width, one per byte of a salt, of a wrapped key and of the payload. The parser is
a cursor `off` over `raw`, and `at` says which piece comes next; the three
versions share the actions for what they share. `at = "rejected"` is
`VaultFormatError` (a file that ends inside a number of two or four bytes is not
told apart from one that ends before it: both are rejected by the same check); `at = "crashed"` is a number read beyond the end, which
Python reports as `struct.error` and no caller catches.

## 3. The runs

Passing:

| run | instance | shows |
|---|---|---|
| `VaultStorage_windows` | 2 instances, 4 contents, save/create/migrate/load/restore/delete, symmetric | writers exclude each other; a conditional save never overwrites a version its session has not seen; what is overwritten is whole in `.bak`; the module implements `VaultRegister` |
| `VaultStorage_posix` | 2 instances, 3 contents, 1 inode, with import, export and backups that lose their tail | the vault is whole, or as whole as it was imported, at every moment and after every power failure; every call returns; every lock is given back |
| `VaultWindow_undo` | 2 windows, 3 versions of which the first has one entry, no search, no reload, all three kinds of failed save (3.3 million states) | memory is the version it came from, unless an uncaught error has left a change in it; the cards are the entries at their indices; no save loses anybody's entry; none changes the VMK, or recovery codes nobody asked to change |
| `VaultWindow_dialogs` | 2 windows, 4 versions, searches, old format, reloads in conflicts, the generator, refused and unconfirmed saves (1.7 million states) | recovery codes nobody has seen are those of a dead process or an unconfirmed save; the cards; a write changes what its user asked for, with the exceptions stated |
| `UnlockWindow_alone` | threshold 3, 4 versions, migrations, every environment action and fault (1.5 million states) | the session is one version, in its migrated form if it was old; lockout links and exhausted recovery match the failures; the entry always comes back |
| `LegacyMigration_one` | 1 instance with failures and crashes, saves and destruction | the newest version survives; an error that says the originals are intact is right |
| `ManagedClipboard_clear` | 2 windows, other applications copying | every secret leaves the clipboard; no timer clears a copy made after it was set |
| `UnlockController_alone` | 2 passwords, 3 versions, waits of 2 and 3 seconds, every environment action and fault | codes on the screen open the vault until somebody makes newer ones, and stay until acknowledged; no password is tried before its time; cooldowns end |
| `RecoveryEntry_code` | base 2, 2 groups of 2 characters, 5 of the 16 codes are of a secret, texts of up to 3 characters and every code in 4 forms, threshold 3, `MAX_DELAY` 3 | recovery opens exactly with the code on disk; a pasted code always fills the dialog; wrong codes are few and wait |
| `VaultHeader_parse` | 29 headers of three versions, about 9500 files | see below |

The bounds are chosen so that each hazard's shortest scenario fits with room to
spare: the scenarios that break a property when a mutant is put in, and those of
section 4, need two instances and at most three versions. Two instances are
enough for every pairwise race, and a third process adds, for the storage layer,
only what the proofs cover for any number.

`WritesOnlyTheChange` states three exceptions, each of which is a scenario of
section 4: a migration writes the version it has read, what a failed save has left
in memory (`astray`) goes with the next save of that window, and an edit whose
dialog was left open behind the main window changes what is at its index.
`NothingElseIsWritten` is the same without them. With `MaxAstray` the instance
bounds how many windows are astray at once; `VaultWindow_undo` has one beside one
that is not. Where a failed save is undone after a reload, `MemoryIsItsVersion` and
`CardsShowMemory` say nothing of the list until it is next saved, drawn or
reloaded; they always speak of the codes.

The instance of `RecoveryEntry_code` keeps what makes the real codec hard: more
than one group, more codes than secrets (40 characters of base 31 spell numbers
of up to 198 bits, and a secret has 160), characters that upper-case into the charset and some that are not in
it, a dash and a space. `MaxDelay = 3` has one wait below the cap and the cap
itself.

`VaultHeader_parse` takes every file obtained from a written one by cutting it
off, or by changing, inserting or removing one cell (two cells for the smallest
headers). Over all of them the parser never reads beyond the end; what it accepts
is serialised to the bytes that were read, parameters of the KDF beyond the
expected ones excepted; a written file is read as it was written, whatever
follows its header; and every proper prefix that ends in the header is rejected.

`CHECK_DEADLOCK FALSE` is in all configurations: users may stop, versions run
out at their bound, and a parser ends.

Violated, each stating what the repository says of the program:

| run | property | what happens |
|---|---|---|
| `VaultWindow_reload` | `NothingElseIsWritten` | the undo of a change that met a conflict is applied to the list just reloaded (`docs/roadmap_practico.md:88`) |
| `LegacyMigration_race` | `LatestSurvives` | two instances migrate at once, with an old `.bak` and no fault of the disk: the second cannot open the `.bak` the first has removed, and its error path removes the vault, the only copy of the newest version ("Los archivos originales quedaron intactos", `storage.py:263-272`) |

## 4. Other disagreements between the code and its documents

The modules state these as properties too, and each has a configuration with
which TLC finds the shortest scenario (`tlc -config <name>.cfg <module>`; the
module is the part of the name before the first underscore, with the prefix `MC`
where there is such a module):

| configuration | property | the code; the document |
|---|---|---|
| `VaultStorage_posix_delete` | `NoSilentOverwrite` | on POSIX `delete_vault_files` unlinks a lock file that is held; a third call locks a new one (`docs/roadmap_practico.md:88`) |
| `VaultWindow_raised` | `NothingElseIsWritten` | an `OSError` of the lock escapes before the undo; the change its user saw fail is written with the next one (`vault_window.py:757`; `roadmap_practico.md:88`) |
| `VaultWindow_migration` | `NothingElseIsWritten` | the migrated file is saved unconditionally (`roadmap_practico.md:88`) |
| `VaultWindow_generator` | `NothingElseIsWritten` | the generator takes the grab of the dialog of an edit and gives it back to nobody; an entry removed meanwhile makes the index of the edit that of another entry (`vault_window.py:771`; `roadmap_practico.md:88`) |
| `LegacyMigration_overwrite` | `LatestSurvives` | a second instance that has passed the checks puts the old vault over what the first has migrated, opened and saved |
| `UnlockWindow_half_recovery` | `FailedRecoveryKeepsPassword` | the password is changed, the rotation fails, and the user reads that the change could not be saved (`unlock_window.py:685`) |
| `UnlockWindow_used_codes` | `UsedCodesAreDead` | accepted codes stay valid when the window ends before their rotation (`STATUS.md:29`) |
| `UnlockWindow_restore` | `RestoreReplacesDamage` | a file that was unreadable for a moment is replaced by the older `.bak` |
| `UnlockWindow_create` | `CreateOverwritesNothing` | a vault created by another instance meanwhile is overwritten (`roadmap_practico.md:88`) |
| `UnlockWindow_links` | `LinksFitTheVault` | lockout links are decided once (`STATUS.md:45-46`) |
| `UnlockWindow_blame` | `RightPasswordIsNotBlamed` | a damaged payload counts as a wrong password (`STATUS.md:47`) |
| `RecoveryEntry_lower` | `FilledCanBeSubmitted` | a code whose last character is typed in lower case fills the dialog, but the button stays disabled ("any casing", `recovery.py:59`; "update indicator", `dialogs.py:609`) |
| `RecoveryEntry_overflow` | `BadCodesAreReported` | `to_bytes` raises `OverflowError` for a whole code beyond the range, and `_start_recovery` catches `ValueError` ("Raises ValueError", `recovery.py:60`) |
| `RecoveryEntry_restart` | `EveryWrongCodeWaits` | a new window has a new limiter, so the back-off of the last one is gone (`STATUS.md:59`) |
| `LegacyMigration_resurrect` | `DestroyedStaysDestroyed` | an original that could not be removed is migrated again after a destruction (`docs/vault_lifecycle_policy.md:81`) |
| `LegacyMigration_again` | `CanStartAgain` | a `.bak` that could not be removed makes `vault_path()` raise for good (`STATUS.md:53`) |
| `ManagedClipboard_foreign` | `OnlyOwnIsCleared` | read, compare and clear are three calls (`README.md:58`) |
| `ManagedClipboard_busy` | `SecretsLeave` | a clipboard that cannot be read when the timer fires is never tried again (`STATUS.md:57`) |
| `UnlockController_create` | `CreateOverwritesNothing` | as in the unlock window, with a key derivation in between |
| `UnlockController_warning` | `WarningIsTrue` | "recovery codes could not be saved" although they were |
| `UnlockController_locked` | `LockedHoldsNothing` | "The vault is locked" while the key and the entries stay in memory |

## 5. Fairness

* `VaultStorage`: weak fairness of the steps of a call that has started. Its
  thread is scheduled by the system, and no step waits for another process: the
  lock is asked for with `LK_NBLCK` / `LOCK_NB`. Starting a call, crashes and
  failures are not fair.
* `UnlockWindow`: strong fairness of `Tick`, the callback Tk runs every 200 ms, in
  the nested loops of dialogs too. Weak fairness would not do: a user who keeps
  submitting as soon as the entry is enabled disables it again and again. The
  cooldown of the password limiter ends because time passes. A handler that is
between two saves goes on: weak fairness of `SetupRecovery`, `Migrate` and
`RotateCodes`. Nothing is assumed
  of the user or of other instances.
* `ManagedClipboard`: weak fairness of the timeout callback and of the handler
  that has begun. `UnlockController`: the same of the timer (strong), of the
  clock, and of the steps of a creation or a migration, each of which ends by success
  or by failure. `RecoveryEntry` and `VaultWindow` state safety only: nothing there has
  to happen unless a user wants it.

## 6. What is proved

`VaultStorageProofs`, for any set of processes, any number of contents and lock
files, any subset of the operations and either platform:

* `TypeCorrect`: the type invariant.
* `Invariance`: the inductive invariant `IInv == TypeOK /\ LockInv /\ \A p :
  WriterInv(p)`. Mutual exclusion alone is not inductive: a step of a process
  between lock and release only excludes others because it holds the OS lock *on
  the inode that is at the lock path*, which is what `LockInv` adds;
  `WriterInv` says that what a process has checked or copied still stands, since
  nobody else may replace the file while it holds the lock (destruction can only
  remove it).
* `WritersExclude` (`OneWriter`), `SavesAreConditional` (`NoSilentOverwrite`),
  `OverwrittenIsBackedUp` (`BakHoldsReplaced`), each from `Invariance`.
* `StorageImplementsRegister` (`IsARegister`): initial states map to initial
  states of `VaultRegister`, and every step to a step of it or a stutter.

Except for the types and the next they rest on `LockFileStays`: Windows, where an
open file cannot be unlinked, or no destruction. `VaultStorage_posix_delete` shows
that the assumption is needed.

* `VaultIsWhole` (`NeverTorn`), for any operations but restoring, on either
  platform and with destruction: what is renamed over the vault is whole, unless it
  is a backup that had lost its tail when it was imported, and a power failure
  leaves one of the files there have been. A restored `.bak`
  may be torn, and the code installs it as it is.

`VaultWindowProofs`, for any number of windows, versions and words:

* `WindowInvariance`: the invariant `Inv` says that each window's list, header and
  fingerprint are those of one version, *or will be when the undo that is due has
  been made*, or the window is known to be `astray`. The property itself is not
  inductive, because a save that failed leaves the changed list until its handler
  goes on; what each of the three undos removes is exactly what the change has put
  in (`FrontAppend`, `ReplaceBack` and `RemoveBack` are the three facts about
  sequences).
* From it, whatever users answer, type and open and however saves fail,
  `WindowTypes`, `MemoryMatches` (`MemoryIsItsVersion`) and `CardsMatch`
  (`CardsShowMemory`).
* `WritesAreRequested` (`WritesOnlyTheChange`), likewise. `EditInv` adds that the
  entry chosen in a dialog stays where it is until the dialog is answered, unless
  it has been left open.
* `CodesWereShown` (`CodesOnDiskWereShown`), likewise. `CodesInv`: the codes of every
  version have been shown, are about to be, or are orphaned.
* `KeysAreKept` (`WritesKeepTheKeys`), for a vault in format v3: a migration makes a
  new VMK. `KeyInv` adds that the VMK in memory is that of the version the
  fingerprint names: a reload that would bring another one fails.

`LegacyMigrationProofs`: `MigrationTypes` for any number of instances;
`NewestIsKept` (`LatestSurvives`) and `TheOriginalsAreThere` (`OriginalsIntact`)
for a single one, with any failures, crashes, saves and destructions
(`LegacyMigration_race` shows that two are too many, even without failures). `LatestSurvives` is not
inductive: an error path removes the copy only because the original it was made of
is still there. `MigrationInv` says that what has been looked at on the way still
stands, place by place (`Stands`), and that the newest version, unless it has been
destroyed, is the one the next start will find (`Current`).

`UnlockWindowProofs`, for any threshold, number of versions, environment and
faults: `UnlockTypes`, `OneVersionIsOpened` (`SessionIsItsVersion`) and
`LockoutIsOfTheFailures` (`LockoutMatchesFailures`). The invariant has three parts:
`FileInv` (files are of versions that were written), `SessionInv` (where a
session exists, its header is that of its fingerprint, or what the migration makes
of it) and `LimitInv` (links,
exhausted recovery, cooldown and the callbacks pending fit the two counters).

`RecoveryEntryProofs`, for any charset, upper case, number and length of groups,
number of secrets that fit the codes, back-off and threshold:

* `GuessesAreBounded` (`AtMostThreshold`) and `RecoveryWaits` (`BackOffIsKept`).
  The strengthening says that the seconds left and the seconds that have passed
  make up the whole wait, and that an open dialog has none left: it cannot be
  opened otherwise, and nothing but a submission, which closes it, starts a wait.
* `RecoveryIsTyped` (`TypeOK`): a box holds a text of the charset, since the trace
  filters before it cuts, and a paste goes through the same trace.
* `OnlyTheCodeDecodes`: `_encode` and `parse_recovery_input` are inverse to each
  other. One direction is not enough: that the code of a secret decodes to it does
  not exclude that other texts do. `ReadIsLeft` is the key: what has been read of
  a text after its first `Width - k` characters is what `_encode` has left of its
  value after `k` divisions, so that the loops run through the same numbers in
  opposite directions.
* `OnlyTheCodeOpens` (`OpensExactlyWithTheCode`) follows from it and the types,
  one kind of submission at a time.
* `CodesCanBePasted` (`PasteCompletes`): every form is cleaned to the code as
  displayed or in one piece (`FormsAreCleaned`); divided at its dashes the first is
  the groups (`DisplaySplits`, from `SplitOfRun`: the characters after a dash make
  up one more piece), and so is the second cut by length (`CodeInGroups`).

These rest on what the constants of `constants.py` satisfy: the charset has no
character twice and no dash or space (`CharsetAssumption`), upper case changes
nothing in it (`UpperAssumption`), and `_encode` has nothing left of a secret when
it has written all characters (`CodesSuffice`; 31 ^ 40 > 256 ^ 20).

The codec, the filter and the division at dashes are loops. The provers have no
induction over data, so each is written as a recursive function of the turn, and
the proofs derive what they need: `Induction` over an interval follows from the
well-foundedness of `<` (the least turn at which something fails), `LoopRuns` that
such a function exists, `LoopKeeps` that it keeps what each turn keeps.

`UnlockControllerProofs`, for any passwords, writers and faults:
`MemoryIsConsistent`, `CodesAreOfTheVault` (`ShownCodesOpenTheVault`),
`ControllerWaits` (`BackOffIsKept`) and `ControllerIsTyped` (`TypeOK`). `MemoryInv` ties the route to the slot
that runs and to what is held; for `CodesAreOfTheVault` it is added that versions of
one VMK have codes that only grow; `LimiterInv` relates the limiter to the time since
the last failure, whatever the countdown on the screen says. That a wait is a
natural number rests on `PowerAssumption` of `RateLimiter`, a fact of arithmetic
(`2 ^ n` is one) that the provers cannot derive and TLC evaluates.

`ManagedClipboardProofs`, for any number of windows, texts and copies:
`ClipboardTypes` and `CopiesLastTheirTime` (`NoEarlyClear`). The guard compares
texts, not copies, so the invariant says why this is enough: a text of ours on the clipboard is
the latest copy of its owner, whose timer is the only one that owner has left
(`LatestIsOwners`), and a clearing that has begun was due (`ClearingIsDue`).

`VaultHeaderProofs`, for every file of any length and content:

* `NoNumberBeyondTheEnd` (`OnlyFormatErrors`): the parser never reads a number
  beyond the end of the file.
* `HeaderTypeCorrect`: the cursor stays within the file.
* `AadIsTheHeader` (`SerialisesAsRead`): what is accepted is serialised to the
  bytes that were read, surplus parameters of the KDF excepted.
* `FilesAreReadAsWritten` (`RoundTrip`) and `CutFilesAreRejected`
  (`TruncatedIsRejected`), for any well-formed headers of any version.

For the first two the strengthening (`PieceOfVersion`) records which version can
be at which piece and, for v2, that the cell with the length of the salt is there
when its turn comes: that parser does not look again, it relies on the `+ 1` of an
earlier check (`header.py:228`). For the third (`TakenInv`), at every piece the
fields read so far, serialised, are the file up to the cursor; a step appends a
cell or a string of the announced length (`CellExtends`, `SizedExtends`), and
`SerialiseIsRest` regroups the concatenations of the builder. For the last two
the invariant is `FollowsAll`: for every header the file may start with, or may have
been cut off from, the fields read so far are those of that header, and the cursor
has come exactly as far as they reach (`Follows`). A file that ends before the
header does must then fail one of the checks of length, and one that does not
passes all of them.

Only model-checked:

* the liveness properties `CallsEnd`, `LockIsReleased`, `SecretsLeave` and the two
  `EntryComesBack`: the provers have no rules for fairness and ENABLED;
* the properties of section 4, which the code does not have.

Every other property of a passing run is a theorem.

## 7. What is not modelled

* Cryptography: a key opens what it closed and anything else raises `InvalidTag`.
* The class of an exception, where the callers treat all alike. `VaultStorage` has
  one failure of a call; the front ends tell `VaultStorageError` before and after the
  replacement and a plain `OSError` apart, except that `FileNotFoundError` of
  `restore_from_backup` is a failed restore.
* The width of a number in a header: one cell each. A file that ends inside a number
  is rejected by the check that rejects one that ends before it.
* The arithmetic of the auto-lock timer: the lock falls at any moment. In
  `UnlockWindow` the back-off has no length; `RecoveryEntry` and
  `UnlockController` count its seconds.
* What the password generator draws, the countdown of `ShowPasswordDialog`, field
  validation in dialogs, and the conversion of the payload of an old vault.
* The names and texts of entries, beyond the words a search tells apart.
* QML, drawing, texts, the strength bar, the word list, the uninstaller, build
  scripts.

## 8. Plan

Done, in this order: `VaultRegister`, `VaultStorage` with its proofs,
`VaultWindow`, `UnlockWindow`, `LegacyMigration`, `ManagedClipboard`,
`UnlockController`, `VaultHeader` with its proofs; then `RateLimiter` and
`RecoveryEntry`, search and generator in `VaultWindow`, the limiter in
`UnlockController`, and the proofs of all of these, of `UnlockWindow`, of
`ManagedClipboard` and of `LegacyMigration`, of `NeverTorn` and all of
`VaultHeader`; and the codec and the dialog of `RecoveryEntry`.

Next:

1. `VaultWindow` over `VaultRegister`: the save of a window as a conditional write
   of the register, so that the window's promise rests on the proved one.
2. Classes of exceptions in `VaultStorage` (busy, conflict, unconfirmed, other) as
   results of a call, and the front ends' three kinds of failure derived from them.
3. `RateLimiter` in `UnlockWindow` too, in place of its coarse cooldown.
