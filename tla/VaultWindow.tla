----------------------------- MODULE VaultWindow ----------------------------
(***************************************************************************)
(* The main window of src/vault_app/ui/vault_window.py (VaultApp), several *)
(* of them in different processes over one vault file: the entries held in *)
(* memory, the fingerprint they came from, stale mode, and every operation *)
(* that saves, with the modal questions another window can write behind.   *)
(*                                                                         *)
(* The file is the register VaultStorage implements: save_vault compares   *)
(* the fingerprint and writes in one step.  The versions ever written are  *)
(* kept in log; a fingerprint is an index into it, and 0 is no file.  An   *)
(* entry is named by the window that typed it and the version it was meant *)
(* for; a VMK and a set of recovery codes by the version that made them.   *)
(***************************************************************************)
EXTENDS Integers, Sequences, FiniteSets, SequencesExt

CONSTANTS
  Window,      \* windows, each in a process of its own
  MaxVersion,  \* bound: how many versions of the file are written
  Answers,     \* the replies to "reload now?" when a save found a conflict
  Faults,      \* how a save may fail: VaultStorageError before the file is
               \* replaced ("refused") or after ("unconfirmed"), or an
               \* OSError that _save does not catch ("raised")
  MaxAstray,   \* bound: a save raises only while fewer windows are astray
  OldFormat,   \* TRUE: the file is at first in format v1 or v2
  First,       \* the lists of entries the file may start with
  Words,       \* what users type into the search field: the window whose
               \* entries it finds
  Generator    \* TRUE: users open the password generator from a dialog

ASSUME VersionAssumption == MaxVersion \in Nat \ {0}
ASSUME AnswerAssumption  == Answers \subseteq BOOLEAN
ASSUME FaultAssumption   == Faults \subseteq {"refused", "unconfirmed", "raised"}
ASSUME AstrayAssumption  == MaxAstray \in Nat
ASSUME FormatAssumption  == OldFormat \in BOOLEAN
ASSUME SearchAssumption  == Words \subseteq Window
ASSUME GeneratorAssumption == Generator \in BOOLEAN

Version == 1 .. MaxVersion
Fingerprint == 0 .. MaxVersion
NoFile == 0
NoCodes == 0
NoWord == "no word"
Entry == Window \X (1 .. MaxVersion + 1)
Entries == Seq(Entry)
Content == [entries : Entries, key : Version, codes : Fingerprint, old : BOOLEAN]

ASSUME FirstAssumption == First \subseteq Entries

VARIABLES
  log,     \* every version of the vault file ever written, in order
  disk,    \* the version at passwords.vault, or NoFile
  shown,   \* the recovery codes some dialog has displayed
  orphaned,\* history: codes whose process died, or whose save was not
           \* confirmed, before a dialog could display them
  pc,      \* per window, what it is showing
  data,    \* per window, self.data["entries"]
  codes,   \* per window, the recovery codes self.header wraps the VMK for
  key,     \* per window, self.key
  fp,      \* per window, self._vault_fingerprint
  astray,  \* per window, history: what a failed save has left behind, a change
           \* in memory ("unsaved") and cards that do not show it ("undrawn")
  stale,   \* per window, self._stale_requires_reload
  cards,   \* per window, the entries last drawn, by the index each card keeps
  query,   \* per window, search_var
  job,     \* per window, the change its open dialog is about, and whether the
           \* dialog has been left open behind the main window
  loose    \* per window, the same for an AddEntryDialog that has lost its grab

memory == <<data, codes, key, fp, astray>>
seen == <<shown, orphaned>>
aside == <<query, loose>>
vars == <<log, disk, seen, pc, memory, stale, cards, job, aside>>

NoJob == [kind |-> "none", idx |-> 0, entry |-> <<>>, left |-> FALSE]
Asking == {"adding", "editing", "deleting", "regenerating"}
Place == {"closed", "loaded", "list", "conflict", "showing"} \union Asking
Kind == {"none", "add", "edit", "delete", "regenerate"}

TypeOK ==
  /\ log \in Seq(Content) /\ Len(log) <= MaxVersion
  /\ disk \in 0 .. Len(log)
  /\ shown \subseteq Version /\ orphaned \subseteq Version
  /\ pc \in [Window -> Place]
  /\ data \in [Window -> Entries]
  /\ codes \in [Window -> Fingerprint]
  /\ key \in [Window -> Fingerprint]
  /\ fp \in [Window -> 0 .. Len(log)]
  /\ astray \in [Window -> SUBSET {"unsaved", "undrawn"}]
  /\ stale \in [Window -> BOOLEAN]
  /\ query \in [Window -> Words \union {NoWord}]
  /\ \A w \in Window :
       /\ DOMAIN cards[w] \subseteq Nat \ {0} /\ Range(cards[w]) \subseteq Entry
       /\ \A j \in {job[w], loose[w]} :
            /\ j.kind \in Kind /\ j.idx \in Nat /\ j.left \in BOOLEAN
            /\ j.entry \in Entry \union {<<>>}

Init ==
  /\ \E entries \in First :
       log = << [entries |-> entries, key |-> 1, codes |-> NoCodes, old |-> OldFormat] >>
  /\ disk = 1 /\ shown = {} /\ orphaned = {}
  /\ pc = [w \in Window |-> "closed"]
  /\ data = [w \in Window |-> <<>>]
  /\ codes = [w \in Window |-> NoCodes]
  /\ key = [w \in Window |-> 0]
  /\ fp = [w \in Window |-> NoFile]
  /\ astray = [w \in Window |-> {}]
  /\ stale = [w \in Window |-> FALSE]
  /\ cards = [w \in Window |-> <<>>]
  /\ query = [w \in Window |-> NoWord]
  /\ job = [w \in Window |-> NoJob]
  /\ loose = [w \in Window |-> NoJob]

NextVersion == Len(log) + 1

Goto(w, place) == pc' = [pc EXCEPT ![w] = place]
Finish(w) == Goto(w, "list") /\ job' = [job EXCEPT ![w] = NoJob]

Finds(word, entry) == word = NoWord \/ entry[1] = word

(* Mutant: the cards are numbered as they are drawn.                       *)
DrawnInOrder(entries, word) == SelectSeq(entries, LAMBDA entry : Finds(word, entry))

(* _refresh_list: a card for every entry the search finds, which keeps the *)
(* index of the entry in the whole list.                                   *)
Drawn(entries, word) ==
  [i \in {i \in DOMAIN entries : Finds(word, entries[i])} |-> entries[i]]

(***************************************************************************)
(* Opening and closing a window.                                           *)
(***************************************************************************)

(* Memory is filled from one version; f is the fingerprint that is kept.   *)
Fill(w, content, f) ==
  /\ data' = [data EXCEPT ![w] = content.entries]
  /\ codes' = [codes EXCEPT ![w] = content.codes]
  /\ key' = [key EXCEPT ![w] = content.key]
  /\ fp' = [fp EXCEPT ![w] = f]
  /\ cards' = [cards EXCEPT ![w] = Drawn(content.entries, query[w])]
  /\ astray' = [astray EXCEPT ![w] = {}]

(* UnlockService.unlock reads the file; deriving the key takes a while.    *)
Load(w) ==
  /\ pc[w] = "closed" /\ disk # NoFile
  /\ fp' = [fp EXCEPT ![w] = disk]
  /\ Goto(w, "loaded")
  /\ UNCHANGED <<log, disk, seen, data, codes, key, astray, stale, cards, job, aside>>

Decrypt(w) ==
  /\ pc[w] = "loaded" /\ ~log[fp[w]].old
  /\ Fill(w, log[fp[w]], fp[w])
  /\ Goto(w, "list")
  /\ UNCHANGED <<log, disk, seen, stale, job, aside>>

Migrated(w) == [entries |-> log[fp[w]].entries, key |-> NextVersion,
                codes |-> NoCodes, old |-> FALSE]

(* A v1/v2 file is rewritten as v3 under a new VMK, without an expected    *)
(* fingerprint.                                                            *)
Rewrite(w) ==
  /\ pc[w] = "loaded" /\ log[fp[w]].old
  /\ Len(log) < MaxVersion
  /\ log' = Append(log, Migrated(w)) /\ disk' = NextVersion

(* The fingerprint of the file that was read is kept.                      *)
Migrate(w) ==
  /\ Rewrite(w)
  /\ Fill(w, Migrated(w), fp[w])
  /\ Goto(w, "list")
  /\ UNCHANGED <<seen, stale, job, aside>>

(* The file has been rewritten, but the save raises and the unlock ends.   *)
MigrateUnconfirmed(w) ==
  /\ Rewrite(w) /\ "unconfirmed" \in Faults
  /\ fp' = [fp EXCEPT ![w] = NoFile]
  /\ Goto(w, "closed")
  /\ UNCHANGED <<seen, data, codes, key, astray, stale, cards, job, aside>>

(* Wrong password, a migration that could not save, or the user gives up.  *)
GiveUp(w) ==
  /\ pc[w] = "loaded"
  /\ fp' = [fp EXCEPT ![w] = NoFile]
  /\ Goto(w, "closed")
  /\ UNCHANGED <<log, disk, seen, data, codes, key, astray, stale, cards, job, aside>>

Forget(w) ==
  /\ Goto(w, "closed")
  /\ data' = [data EXCEPT ![w] = <<>>]
  /\ codes' = [codes EXCEPT ![w] = NoCodes]
  /\ key' = [key EXCEPT ![w] = 0]
  /\ fp' = [fp EXCEPT ![w] = NoFile]
  /\ astray' = [astray EXCEPT ![w] = {}]
  /\ stale' = [stale EXCEPT ![w] = FALSE]
  /\ cards' = [cards EXCEPT ![w] = <<>>]
  /\ query' = [query EXCEPT ![w] = NoWord]
  /\ job' = [job EXCEPT ![w] = NoJob]
  /\ loose' = [loose EXCEPT ![w] = NoJob]

(* Auto-lock fires, or the window is closed, also while a dialog is open;  *)
(* between the save of new codes and their dialog no callback can run.     *)
Lock(w) ==
  /\ pc[w] \notin {"closed", "loaded", "showing"}
  /\ Forget(w)
  /\ UNCHANGED <<log, disk, seen>>

Destroy(w) ==
  /\ pc[w] = "list"
  /\ disk' = NoFile
  /\ Forget(w)
  /\ UNCHANGED <<log, seen>>

(* A new vault where there is none, in strict mode.                        *)
Create(w) ==
  /\ pc[w] = "closed" /\ disk = NoFile
  /\ Len(log) < MaxVersion
  /\ LET new == [entries |-> <<>>, key |-> NextVersion, codes |-> NoCodes, old |-> FALSE]
     IN /\ log' = Append(log, new) /\ disk' = NextVersion
        /\ Fill(w, new, NextVersion)
  /\ Goto(w, "list")
  /\ UNCHANGED <<seen, stale, job, aside>>

(* A word is typed into the search field, or the field is cleared.         *)
Search(w) ==
  /\ pc[w] = "list"
  /\ \E word \in Words \union {NoWord} :
       /\ query' = [query EXCEPT ![w] = word]
       /\ cards' = [cards EXCEPT ![w] = Drawn(data[w], word)]
  /\ astray' = [astray EXCEPT ![w] = @ \ {"undrawn"}]
  /\ UNCHANGED <<log, disk, seen, pc, data, codes, key, fp, stale, job, loose>>

(***************************************************************************)
(* Reloading, and the check before a write.                                *)
(***************************************************************************)

(* load_unlocked_vault succeeds: the file is there and its VMK is ours.    *)
CanReload(w) == disk # NoFile /\ log[disk].key = key[w]

Reloaded(w) ==
  /\ Fill(w, log[disk], disk)
  /\ stale' = [stale EXCEPT ![w] = FALSE]

(* The reload button; a failure leaves everything as it is.                *)
Reload(w) ==
  /\ pc[w] = "list" /\ CanReload(w)
  /\ Reloaded(w)
  /\ UNCHANGED <<log, disk, seen, pc, job, aside>>

Fresh(w) == ~stale[w] /\ disk = fp[w]

(* _ensure_fresh_for_write, then the dialog of the change, which is about  *)
(* whatever is at that index once the window is fresh.                     *)
Ask(w, place, kind, i) ==
  /\ pc[w] = "list"
  /\ \/ /\ Fresh(w)
        /\ UNCHANGED <<memory, stale, cards>>
     \/ ~Fresh(w) /\ CanReload(w) /\ Reloaded(w)
  /\ IF i \in 0 .. Len(data'[w])
       THEN /\ Goto(w, place)
            /\ job' = [job EXCEPT ![w] =
                 [kind |-> kind, idx |-> i, left |-> FALSE,
                  entry |-> IF i = 0 THEN <<>> ELSE data'[w][i]]]
       ELSE UNCHANGED <<pc, job>>
  /\ UNCHANGED <<log, disk, seen, aside>>

(* The user does not reload, or the reload fails.                          *)
Refuse(w) ==
  /\ pc[w] = "list" /\ ~Fresh(w)
  /\ stale' = [stale EXCEPT ![w] = TRUE]
  /\ UNCHANGED <<log, disk, seen, pc, memory, cards, job, aside>>

(* Stale mode disables the two buttons, not the cards.                     *)
AddEntry(w) == ~stale[w] /\ Ask(w, "adding", "add", 0)
EditEntry(w) == \E i \in DOMAIN cards[w] : Ask(w, "editing", "edit", i)
DeleteEntry(w) == \E i \in DOMAIN cards[w] : Ask(w, "deleting", "delete", i)
Regenerate(w) == ~stale[w] /\ Ask(w, "regenerating", "regenerate", 0)

Cancel(w) ==
  /\ pc[w] \in Asking
  /\ Finish(w)
  /\ UNCHANGED <<log, disk, seen, memory, stale, cards, aside>>

(* PasswordGeneratorDialog takes the grab of the dialog it is opened from, *)
(* and releases it when it closes: the window behind answers again.        *)
Generate(w) ==
  /\ Generator /\ pc[w] \in {"adding", "editing"} /\ loose[w] = NoJob
  /\ loose' = [loose EXCEPT ![w] = [job[w] EXCEPT !.left = TRUE]]
  /\ Finish(w)
  /\ UNCHANGED <<log, disk, seen, memory, stale, cards, query>>

(* The user goes back to the dialog that was left open.                    *)
GoBack(w) ==
  /\ pc[w] = "list" /\ loose[w] # NoJob
  /\ Goto(w, IF loose[w].kind = "add" THEN "adding" ELSE "editing")
  /\ job' = [job EXCEPT ![w] = loose[w]]
  /\ loose' = [loose EXCEPT ![w] = NoJob]
  /\ UNCHANGED <<log, disk, seen, memory, stale, cards, query>>

(***************************************************************************)
(* Saving.                                                                 *)
(***************************************************************************)

NewEntry(w) == <<w, NextVersion>>

(* The handler runs: the index the dialog was opened for is still one of   *)
(* the list (an IndexError is a Cancel).                                   *)
Answered(w) ==
  /\ pc[w] \in Asking
  /\ job[w].kind = "edit" => job[w].idx \in DOMAIN data[w]

(* The list as the handler changes it in memory before it saves.           *)
Changed(w) ==
  CASE job[w].kind = "add"    -> Append(data[w], NewEntry(w))
    [] job[w].kind = "edit"   -> ReplaceAt(data[w], job[w].idx, NewEntry(w))
    [] job[w].kind = "delete" -> RemoveAt(data[w], job[w].idx)
    [] OTHER                  -> data[w]

(* Mutant: every save wraps the VMK for a new set of recovery codes.       *)
NewCodesAlways(w) == NextVersion

NewCodes(w) == IF job[w].kind = "regenerate" THEN NextVersion ELSE codes[w]

Write(w) ==
  /\ Len(log) < MaxVersion
  /\ log' = Append(log, [entries |-> Changed(w), key |-> key[w],
                         codes |-> NewCodes(w), old |-> FALSE])
  /\ disk' = NextVersion

(* Mutant: the fingerprint is not passed to save_vault.                    *)
SavedUnchecked(w) ==
  /\ Answered(w) /\ job[w].kind # "regenerate"
  /\ Write(w)
  /\ data' = [data EXCEPT ![w] = Changed(w)]
  /\ codes' = [codes EXCEPT ![w] = NewCodes(w)]
  /\ fp' = [fp EXCEPT ![w] = NextVersion]
  /\ astray' = [astray EXCEPT ![w] = {}]
  /\ cards' = [cards EXCEPT ![w] = Drawn(Changed(w), query[w])]
  /\ Finish(w)
  /\ UNCHANGED <<seen, key, stale, aside>>

Saved(w) ==
  /\ Answered(w) /\ fp[w] = disk /\ job[w].kind # "regenerate"
  /\ Write(w)
  /\ data' = [data EXCEPT ![w] = Changed(w)]
  /\ codes' = [codes EXCEPT ![w] = NewCodes(w)]
  /\ fp' = [fp EXCEPT ![w] = NextVersion]
  /\ astray' = [astray EXCEPT ![w] = {}]
  /\ cards' = [cards EXCEPT ![w] = Drawn(Changed(w), query[w])]
  /\ Finish(w)
  /\ UNCHANGED <<seen, key, stale, aside>>

(* setup_recovery has saved; the list is not drawn, and the codes are      *)
(* still to be displayed.                                                  *)
Regenerated(w) ==
  /\ Answered(w) /\ fp[w] = disk /\ job[w].kind = "regenerate"
  /\ Write(w)
  /\ codes' = [codes EXCEPT ![w] = NewCodes(w)]
  /\ fp' = [fp EXCEPT ![w] = NextVersion]
  /\ astray' = [astray EXCEPT ![w] = @ \ {"unsaved"}]
  /\ Goto(w, "showing") /\ job' = [job EXCEPT ![w] = NoJob]
  /\ UNCHANGED <<seen, data, key, stale, cards, aside>>

(* RecoveryCodesDialog displays them.                                      *)
ShowCodes(w) ==
  /\ pc[w] = "showing"
  /\ shown' = shown \union {codes[w]}
  /\ Goto(w, "list")
  /\ UNCHANGED <<log, disk, orphaned, memory, stale, cards, job, aside>>

(* The process dies before that.                                           *)
Killed(w) ==
  /\ pc[w] = "showing"
  /\ orphaned' = orphaned \union {codes[w]}
  /\ Forget(w)
  /\ UNCHANGED <<log, disk, shown>>

(* Mutant: the session takes the fingerprint of a save that raised.        *)
RefusedBelieving(w) ==
  /\ Answered(w) /\ "refused" \in Faults
  /\ fp' = [fp EXCEPT ![w] = NextVersion]
  /\ Finish(w)
  /\ UNCHANGED <<log, disk, seen, data, codes, key, astray, stale, cards, aside>>

(* VaultStorageError before os.replace: the change is undone in memory.    *)
Refused(w) ==
  /\ Answered(w) /\ "refused" \in Faults
  /\ Finish(w)
  /\ UNCHANGED <<log, disk, seen, memory, stale, cards, aside>>

(* An OSError of the lock, of its directory or of mkstemp is no            *)
(* VaultStorageError: _save does not catch it, and no handler undoes its   *)
(* change.  Bounds: it raises while fewer than MaxAstray windows are       *)
(* astray, and once in a window until its memory is saved or reloaded.     *)
Raised(w) ==
  /\ Answered(w) /\ "raised" \in Faults
  /\ IF job[w].kind = "regenerate"
       THEN UNCHANGED astray
       ELSE /\ Cardinality({v \in Window : astray[v] # {}}) < MaxAstray
            /\ "unsaved" \notin astray[w]
            /\ astray' = [astray EXCEPT ![w] = {"unsaved", "undrawn"}]
  /\ data' = [data EXCEPT ![w] = Changed(w)]
  /\ Finish(w)
  /\ UNCHANGED <<log, disk, seen, codes, key, fp, stale, cards, aside>>

(* VaultStorageError after os.replace: the file holds the change, memory   *)
(* does not, and new recovery codes are not displayed.                     *)
Unconfirmed(w) ==
  /\ Answered(w) /\ fp[w] = disk /\ "unconfirmed" \in Faults
  /\ Write(w)
  /\ orphaned' = IF job[w].kind = "regenerate"
                   THEN orphaned \union {NextVersion} ELSE orphaned
  /\ Finish(w)
  /\ UNCHANGED <<shown, memory, stale, cards, aside>>

(* What _on_edit and _delete_entry_at keep for the undo.                   *)
Previous(w) ==
  IF job[w].kind \in {"edit", "delete"} THEN data[w][job[w].idx] ELSE job[w].entry

(* VaultConflictError: _handle_conflict asks while the change is still in  *)
(* memory.                                                                 *)
Conflict(w) ==
  /\ Answered(w) /\ fp[w] # disk
  /\ data' = [data EXCEPT ![w] = Changed(w)]
  /\ job' = [job EXCEPT ![w].entry = Previous(w)]
  /\ Goto(w, "conflict")
  /\ UNCHANGED <<log, disk, seen, codes, key, fp, astray, stale, cards, aside>>

Least(a, b) == IF a < b THEN a ELSE b

(* Mutant: a deletion that could not be saved comes back at the end.       *)
UndoAtEnd(j, s) ==
  CASE j.kind = "add" /\ s # <<>>             -> Front(s)
    [] j.kind = "edit" /\ j.idx \in DOMAIN s  -> ReplaceAt(s, j.idx, j.entry)
    [] j.kind = "delete" -> Append(s, j.entry)
    [] OTHER -> s

(* What the handlers do to self.data["entries"] after a failed save:       *)
(* pop(), assignment or insert() at the index (IndexError: nothing).       *)
Undo(j, s) ==
  CASE j.kind = "add" /\ s # <<>>             -> Front(s)
    [] j.kind = "edit" /\ j.idx \in DOMAIN s  -> ReplaceAt(s, j.idx, j.entry)
    [] j.kind = "delete" -> InsertAt(s, Least(j.idx, Len(s) + 1), j.entry)
    [] OTHER -> s

(* The answer is yes and the reload works: the undo then falls on the list *)
(* that has just been read, and has been drawn.                            *)
ConflictReloaded(w) ==
  /\ pc[w] = "conflict" /\ TRUE \in Answers /\ CanReload(w)
  /\ data' = [data EXCEPT ![w] = Undo(job[w], log[disk].entries)]
  /\ codes' = [codes EXCEPT ![w] = log[disk].codes]
  /\ fp' = [fp EXCEPT ![w] = disk]
  /\ cards' = [cards EXCEPT ![w] = Drawn(log[disk].entries, query[w])]
  /\ astray' = [astray EXCEPT ![w] =
       IF job[w].kind = "regenerate" THEN {} ELSE {"unsaved", "undrawn"}]
  /\ stale' = [stale EXCEPT ![w] = FALSE]
  /\ Finish(w)
  /\ UNCHANGED <<log, disk, seen, key, aside>>

(* The answer is no, or the reload fails.                                  *)
ConflictKept(w) ==
  /\ pc[w] = "conflict"
  /\ FALSE \in Answers \/ ~CanReload(w)
  /\ data' = [data EXCEPT ![w] = Undo(job[w], data[w])]
  /\ stale' = [stale EXCEPT ![w] = TRUE]
  /\ Finish(w)
  /\ UNCHANGED <<log, disk, seen, codes, key, fp, astray, cards, aside>>

Next ==
  \E w \in Window :
    \/ Load(w) \/ Decrypt(w) \/ Migrate(w) \/ MigrateUnconfirmed(w) \/ GiveUp(w)
    \/ Create(w) \/ Lock(w) \/ Destroy(w) \/ Reload(w) \/ Refuse(w)
    \/ AddEntry(w) \/ EditEntry(w) \/ DeleteEntry(w) \/ Regenerate(w)
    \/ Search(w) \/ Generate(w) \/ GoBack(w)
    \/ Cancel(w) \/ Saved(w) \/ Regenerated(w) \/ ShowCodes(w) \/ Killed(w)
    \/ Refused(w) \/ Raised(w) \/ Unconfirmed(w)
    \/ Conflict(w) \/ ConflictReloaded(w) \/ ConflictKept(w)

Spec == Init /\ [][Next]_vars
-----------------------------------------------------------------------------
(***************************************************************************)
(* Properties.                                                             *)
(***************************************************************************)

Idle == {"list", "showing"} \union Asking

(* Between operations a window's entries are exactly those of the version  *)
(* its fingerprint names, whatever saves have failed or conflicted and     *)
(* been undone, unless its last failed save has ended in an OSError that   *)
(* nobody caught or was undone in a list just reloaded; its recovery state *)
(* is in any case.  A save that passes the fingerprint check cannot carry  *)
(* anything else.                                                          *)
MemoryIsItsVersion ==
  \A w \in Window :
    pc[w] \in Idle =>
      /\ "unsaved" \notin astray[w] => data[w] = log[fp[w]].entries
      /\ codes[w] = log[fp[w]].codes

(* The card a user clicks is the entry the handler finds at that index,    *)
(* whatever the search leaves out, and the search leaves out nothing that  *)
(* it finds (_refresh_list 317-323), from the next drawing on if such a    *)
(* save has kept the list from being drawn.                                *)
CardsShowMemory ==
  \A w \in Window : pc[w] \in Idle /\ "undrawn" \notin astray[w] =>
    /\ DOMAIN cards[w] \subseteq DOMAIN data[w]
    /\ \A i \in DOMAIN data[w] :
         IF Finds(query[w], data[w][i])
           THEN i \in DOMAIN cards[w] /\ cards[w][i] = data[w][i]
           ELSE i \notin DOMAIN cards[w]

(* What window w may turn a list of entries into, given what its user      *)
(* confirmed: one new entry at the end, the entry shown in the dialog      *)
(* replaced or removed, or nothing.                                        *)
Requested(w, before, after) ==
  \/ pc[w] = "adding" /\ after # <<>> /\ Front(after) = before
  \/ /\ pc[w] = "editing" /\ Len(after) = Len(before)
     /\ job[w].idx \in DOMAIN before
     /\ before[job[w].idx] = job[w].entry \/ job[w].left
     /\ \A i \in DOMAIN before : i # job[w].idx => after[i] = before[i]
  \/ /\ pc[w] = "deleting"
     /\ job[w].idx \in DOMAIN before /\ before[job[w].idx] = job[w].entry
     /\ after = RemoveAt(before, job[w].idx)
  \/ pc[w] \in {"regenerating", "loaded"} /\ after = before

(* The list a write of window w starts from: the one on disk, but for a    *)
(* migration, which writes the version it has read, and for what a failed  *)
(* save has left in memory.                                                *)
Base(w) ==
  IF pc[w] = "loaded" THEN log[fp[w]].entries
  ELSE IF "unsaved" \in astray[w] THEN data[w]
  ELSE log[disk].entries

Overwrites == disk' # disk /\ disk # NoFile /\ disk' # NoFile

(* No write loses, resurrects or rewrites an entry that its user did not   *)
(* choose, whatever the other windows have written meanwhile, with three   *)
(* exceptions: a migration writes back what it has read, what a failed     *)
(* save has left in memory goes with the next one of that window, and an   *)
(* edit whose dialog was left open changes what is now at its index.       *)
WritesOnlyTheChange ==
  [][Overwrites =>
       \E w \in Window : pc'[w] # pc[w] /\ Requested(w, Base(w), log'[disk'].entries)]_vars

(* The same without the exceptions.                                        *)
NothingElseIsWritten ==
  [][Overwrites =>
       \E w \in Window :
         /\ Requested(w, log[disk].entries, log'[disk'].entries)
         /\ pc[w] = "editing" => log[disk].entries[job[w].idx] = job[w].entry]_vars

(* What opens the vault stays what it was: a write over a version keeps its *)
(* VMK, so that every window can reload it, and its recovery codes, unless *)
(* its user has confirmed to have new ones (_save takes both from memory,  *)
(* where they are as old as the fingerprint it passes).                    *)
WritesKeepTheKeys ==
  [][Overwrites =>
       /\ log'[disk'].key = log[disk].key
       /\ \/ log'[disk'].codes = log[disk].codes
          \/ /\ log'[disk'].codes = disk'
             /\ \E w \in Window : pc[w] = "regenerating" /\ pc'[w] # pc[w]]_vars

(* Recovery codes that open the vault on disk and that nobody has seen are *)
(* those a window is about to display, those whose process died at that    *)
(* point, or those of a save that was not confirmed: no other save makes   *)
(* codes, and none comes back that no dialog has displayed.                *)
CodesOnDiskWereShown ==
  disk # NoFile =>
    log[disk].codes \in {NoCodes} \union shown \union orphaned
                         \union {codes[w] : w \in {v \in Window : pc[v] = "showing"}}
=============================================================================
