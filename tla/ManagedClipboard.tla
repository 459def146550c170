-------------------------- MODULE ManagedClipboard --------------------------
(***************************************************************************)
(* The clipboard helper of src/vault_app/security.py (ManagedClipboard and *)
(* ClipboardGuard) as its two users share the one clipboard of the system: *)
(* the main window for passwords and RecoveryCodesDialog for codes, with   *)
(* their timers, with other applications that copy at any moment, and with *)
(* a clipboard that cannot always be opened.  The user interface is one    *)
(* thread, so only other applications act within clear_now.                *)
(***************************************************************************)
EXTENDS Integers, FiniteSets

CONSTANTS
  Owner,      \* windows with a ManagedClipboard
  Foreign,    \* what other applications copy
  MaxCopies,  \* bound: how often the windows copy
  Faults      \* "read" and "write": the clipboard cannot be opened

Secret == Owner \X {"a", "b"}
Empty == <<"empty">>
Nobody == "nobody"
Nothing == <<>>

ASSUME OwnerAssumption   == Nobody \notin Owner
ASSUME ForeignAssumption == (Secret \union {Empty}) \intersect Foreign = {}
ASSUME CopiesAssumption  == MaxCopies \in Nat
ASSUME FaultAssumption   == Faults \subseteq {"read", "write"}

Copy == 0 .. MaxCopies

VARIABLES
  clip,      \* the text on the clipboard
  latest,    \* the copy that put it there, 0 for none of ours
  copies,    \* how many copies have been made
  open,      \* per window, whether it exists
  guard,     \* per window, _guard._hash
  timer,     \* per window, _timer_id: the copy it was scheduled by, or 0
  pending,   \* per window, the callbacks scheduled and not cancelled
  clearing,  \* the window whose clear_now has read its own text, or Nobody
  cause      \* the callback that called clear_now, 0 when the window closes

screen == <<clip, latest>>
vars == <<screen, copies, open, guard, timer, pending, clearing, cause>>

TypeOK ==
  /\ clip \in Secret \union Foreign \union {Empty}
  /\ latest \in 0 .. copies /\ copies \in Copy
  /\ open \in [Owner -> BOOLEAN]
  /\ guard \in [Owner -> Secret \union {Nothing}]
  /\ timer \in [Owner -> Copy]
  /\ pending \in [Owner -> SUBSET (1 .. MaxCopies)]
  /\ \A m \in Owner : pending[m] \subseteq {timer[m]} /\ (pending[m] # {} => open[m])
  /\ clearing \in Owner \union {Nobody}
  /\ cause \in Copy

Init ==
  /\ clip = Empty /\ latest = 0 /\ copies = 0
  /\ open = [m \in Owner |-> FALSE]
  /\ guard = [m \in Owner |-> Nothing]
  /\ timer = [m \in Owner |-> 0]
  /\ pending = [m \in Owner |-> {}]
  /\ clearing = Nobody /\ cause = 0

Idle == clearing = Nobody

(* Mutant: the timer of the previous copy is not cancelled.                *)
CopyTextUncancelled(m, text) ==
  /\ Idle /\ open[m] /\ copies < MaxCopies
  /\ copies' = copies + 1
  /\ clip' = text /\ latest' = copies'
  /\ guard' = [guard EXCEPT ![m] = text]
  /\ timer' = [timer EXCEPT ![m] = copies']
  /\ pending' = [pending EXCEPT ![m] = @ \union {copies'}]
  /\ UNCHANGED <<open, clearing, cause>>

(* Mutant: a timer that is already running is left to do the work.         *)
CopyTextOnRunningTimer(m, text) ==
  /\ Idle /\ open[m] /\ copies < MaxCopies
  /\ copies' = copies + 1
  /\ clip' = text /\ latest' = copies'
  /\ guard' = [guard EXCEPT ![m] = text]
  /\ IF pending[m] # {}
       THEN UNCHANGED <<timer, pending>>
       ELSE /\ timer' = [timer EXCEPT ![m] = copies']
            /\ pending' = [pending EXCEPT ![m] = {copies'}]
  /\ UNCHANGED <<open, clearing, cause>>

(* copy: the text, its hash, and a new timer instead of the last one.  If  *)
(* the clipboard cannot be opened, copy raises before any of it.           *)
CopyText(m, text) ==
  /\ Idle /\ open[m] /\ copies < MaxCopies
  /\ copies' = copies + 1
  /\ clip' = text /\ latest' = copies'
  /\ guard' = [guard EXCEPT ![m] = text]
  /\ timer' = [timer EXCEPT ![m] = copies']
  /\ pending' = [pending EXCEPT ![m] = {copies'}]
  /\ UNCHANGED <<open, clearing, cause>>

(* The finally clause of clear_now, and the end of a window that closes.   *)
Finish(m) ==
  /\ guard' = [guard EXCEPT ![m] = Nothing]
  /\ timer' = [timer EXCEPT ![m] = 0]
  /\ pending' = [pending EXCEPT ![m] = {}]
  /\ clearing' = Nobody

(* clear_now reads the clipboard, and goes on when it finds its own text.  *)
(* The callback that has fired, or was cancelled, is no longer pending.    *)
ReadText(m) ==
  \/ /\ clip = guard[m] /\ clearing' = m
     /\ timer' = [timer EXCEPT ![m] = 0]
     /\ pending' = [pending EXCEPT ![m] = {}]
     /\ UNCHANGED guard
  \/ clip # guard[m] /\ Finish(m)
  \/ "read" \in Faults /\ Finish(m)

(* The timer fires: _clear_on_timeout.                                     *)
Timeout(m) ==
  /\ Idle
  /\ pending[m] # {} /\ cause' \in pending[m]
  /\ ReadText(m)
  /\ UNCHANGED <<screen, copies, open>>

(* Mutant: the window goes without clear_now.                              *)
CloseUncleared(m) ==
  /\ Idle /\ open[m]
  /\ open' = [open EXCEPT ![m] = FALSE]
  /\ Finish(m)
  /\ UNCHANGED <<screen, copies, cause>>

(* The window is locked or closed: it clears first, and its callbacks go   *)
(* with it.                                                                *)
Close(m) ==
  /\ Idle /\ open[m]
  /\ open' = [open EXCEPT ![m] = FALSE]
  /\ cause' = 0
  /\ ReadText(m)
  /\ UNCHANGED <<screen, copies>>

(* ... and clears it, whatever is on it by now.                            *)
Clear(m) ==
  /\ clearing = m
  /\ \/ clip' = Empty /\ latest' = 0
     \/ "write" \in Faults /\ UNCHANGED screen
  /\ Finish(m)
  /\ UNCHANGED <<copies, open, cause>>

Open(m) ==
  /\ Idle /\ ~open[m]
  /\ open' = [open EXCEPT ![m] = TRUE]
  /\ UNCHANGED <<screen, copies, guard, timer, pending, clearing, cause>>

(* Another application copies something.                                   *)
CopyElsewhere ==
  /\ clip' \in Foreign /\ latest' = 0
  /\ UNCHANGED <<copies, open, guard, timer, pending, clearing, cause>>

Next ==
  \/ \E m \in Owner :
       \/ \E text \in {s \in Secret : s[1] = m} : CopyText(m, text)
       \/ Timeout(m) \/ Close(m) \/ Clear(m) \/ Open(m)
  \/ CopyElsewhere

Spec == Init /\ [][Next]_vars

(* Tk runs the callbacks that are due, and a handler to its end.           *)
FairSpec == Spec /\ \A m \in Owner : WF_vars(Timeout(m)) /\ WF_vars(Clear(m))
-----------------------------------------------------------------------------
(***************************************************************************)
(* Properties.                                                             *)
(***************************************************************************)

(* Every secret a window has copied leaves the clipboard by itself.        *)
SecretsLeave == \A s \in Secret : clip = s ~> clip # s

(* A timer only clears what its own copy has put there: copying again      *)
(* starts the time anew, also with two windows.                            *)
NoEarlyClear ==
  [][clip' = Empty /\ cause # 0 /\ latest # 0 => latest = cause]_vars

(* "solo borra lo que la app copio": what another application has copied   *)
(* is never removed (security.py:122-137).                                 *)
OnlyOwnIsCleared == [][clip' = Empty => clip \in Secret \union {Empty}]_vars
=============================================================================
