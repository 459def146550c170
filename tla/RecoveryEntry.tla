--------------------------- MODULE RecoveryEntry ---------------------------
(***************************************************************************)
(* Entering recovery codes: RecoveryInputDialog of ui/dialogs.py, the      *)
(* codec of recovery.py, and _start_recovery of ui/unlock_window.py up to  *)
(* the new password, with the rate limiter and the threshold that guard    *)
(* it.  What recovery then saves is in UnlockWindow.                       *)
(*                                                                         *)
(* A text is a sequence of characters; only their place in the charset and *)
(* their upper case matter.  A field changes through the trace of its Tcl  *)
(* variable, which is not called again for what the trace itself sets.     *)
(***************************************************************************)
EXTENDS RateLimiter, Sequences, SequencesExt

CONSTANTS
  Charset,    \* RECOVERY_CHARSET: a character's place is its digit
  Upper,      \* str.upper() on the characters a user can type or paste
  Groups,     \* RECOVERY_CODE_GROUPS
  GroupLen,   \* RECOVERY_GROUP_LEN
  RawLimit,   \* 256 ^ RECOVERY_RAW_BYTES: how many secrets there are
  Threshold,  \* RECOVERY_THRESHOLD
  MaxText     \* bound: length of what is typed or pasted into a box, if no code

ASSUME GroupAssumption     == {Groups, GroupLen, RawLimit, MaxText} \subseteq Nat \ {0}
ASSUME ThresholdAssumption == Threshold \in 1 .. MaxFailures - 1

Base == Len(Charset)
Chars == ToSet(Charset)
Alphabet == DOMAIN Upper
Width == Groups * GroupLen
Secret == 0 .. RawLimit - 1
NoRecovery == -1
Texts == UNION {[1 .. n -> Alphabet \ {" "}] : n \in 0 .. MaxText}

ASSUME CharsetAssumption ==
  Charset \in Seq(Alphabet \ {"-", " "}) /\ Charset # <<>> /\ IsInjective(Charset)
ASSUME UpperAssumption ==
  /\ Upper \in [Alphabet -> Alphabet] /\ {"-", " "} \subseteq Alphabet
  /\ \A c \in Chars \union {"-", " "} : Upper[c] = c
-----------------------------------------------------------------------------
(***************************************************************************)
(* recovery.py.                                                            *)
(***************************************************************************)

Digit(c) == CHOOSE d \in 0 .. Base - 1 : Charset[d + 1] = c

(* What is left of n in the loop of _encode when k digits have been taken. *)
Left(n) ==
  LET num[k \in 0 .. Width] == IF k = 0 THEN n ELSE num[k - 1] \div Base
  IN num

(* _encode, without the dashes between the groups.                         *)
Encode == [n \in Secret |-> [k \in 1 .. Width |-> Charset[1 + (Left(n)[Width - k] % Base)]]]

ASSUME CodesSuffice == \A n \in Secret : Left(n)[Width] = 0

(* The number the loop of parse_recovery_input has read after k characters. *)
Read(text) ==
  LET num[k \in 0 .. Len(text)] ==
        IF k = 0 THEN 0 ELSE num[k - 1] * Base + Digit(text[k])
  IN num

Value(text) == Read(text)[Len(text)]

(* parse_recovery_input: the length is checked, then the characters (which *)
(* the dialog has filtered), and to_bytes takes what fits.                 *)
IsWhole(text) == Len(text) = Width
Fits(text) == Value(text) < RawLimit

(* Mutant: the number is cut to RECOVERY_RAW_BYTES.                        *)
DecodesCut(text, n) == IsWhole(text) /\ Value(text) % RawLimit = n

Decodes(text, n) == IsWhole(text) /\ Fits(text) /\ Value(text) = n
-----------------------------------------------------------------------------
(***************************************************************************)
(* What the dialog makes of a text.                                        *)
(***************************************************************************)

InUpper(text) == [k \in DOMAIN text |-> Upper[text[k]]]

(* What a filter leaves of a sequence.                                     *)
Kept(seq, S) ==
  LET kept[k \in 0 .. Len(seq)] ==
        IF k = 0 THEN <<>>
        ELSE IF seq[k] \in S THEN Append(kept[k - 1], seq[k]) ELSE kept[k - 1]
  IN kept[Len(seq)]

Filtered(text) == Kept(InUpper(text), Chars)
Cut(text) == SubSeq(text, 1, Lesser(Len(text), GroupLen))
AllValid(texts) == \A i \in DOMAIN texts : Len(texts[i]) = GroupLen

(* Dashes divide a code into its groups; without any, the length does.     *)
Split(text) ==
  LET pieces[k \in 0 .. Len(text)] ==
        IF k = 0 THEN << <<>> >>
        ELSE IF text[k] = "-" THEN Append(pieces[k - 1], <<>>)
        ELSE Append(Front(pieces[k - 1]), Append(Last(pieces[k - 1]), text[k]))
  IN pieces[Len(text)]

Runs(text) == Kept(Split(text), Seq(Alphabet) \ {<<>>})

Chunks(text) ==
  [g \in 1 .. (Len(text) + GroupLen - 1) \div GroupLen |->
     SubSeq(text, (g - 1) * GroupLen + 1, Lesser(g * GroupLen, Len(text)))]

(* The forms in which a user may have kept the codes: as displayed, in one *)
(* piece, in lower case, with a space before.                              *)
Display(n) ==
  LET group == Chunks(Encode[n])
      text[g \in 1 .. Groups] ==
        IF g = 1 THEN group[1] ELSE text[g - 1] \o <<"-">> \o group[g]
  IN text[Groups]

InLower(text) ==
  [k \in DOMAIN text |-> IF \E c \in Alphabet : c # text[k] /\ Upper[c] = text[k]
                           THEN CHOOSE c \in Alphabet : c # text[k] /\ Upper[c] = text[k]
                           ELSE text[k]]

Forms == [n \in Secret |->
  {Display(n), Encode[n], InLower(Display(n)), <<" ">> \o InLower(Encode[n])}]

Clips == Texts \union UNION {Forms[n] : n \in Secret}

(* The groups a pasted text is taken for.                                  *)
Pieces == [clip \in Clips |->
  LET cleaned == Kept(InUpper(clip), Alphabet \ {" "})
  IN IF "-" \in ToSet(cleaned) THEN Runs(cleaned) ELSE Chunks(cleaned)]
-----------------------------------------------------------------------------
VARIABLES
  secret,     \* the recovery secret of the vault on disk, or NoRecovery
  at,         \* "closed", or the dialog _start_recovery is waiting for
  fields,     \* the texts of RecoveryInputDialog._vars
  enabled,    \* the state of its submit button
  answer,     \* how the last _start_recovery ended
  limiter,    \* _recovery_limiter
  exhausted,  \* _recovery_exhausted_shown
  wrong,      \* history: wrong codes this window has tried in a row
  since       \* history: seconds since the last in any window, up to MaxDelay

dialog == <<fields, enabled>>
limits == <<limiter, exhausted>>
history == <<wrong, since>>
vars == <<secret, at, dialog, answer, limits, history>>

Place == {"closed", "codes", "password", "recovered", "corrupt"}
Answer == {"none", "cancelled", "locked", "invalid", "raised", "unreadable",
           "corrupt", "wrong", "accepted"}
Cleared == [i \in 1 .. Groups |-> <<>>]

TypeOK ==
  /\ secret \in Secret \union {NoRecovery}
  /\ at \in Place /\ answer \in Answer
  /\ fields \in [1 .. Groups -> Seq(Chars)] /\ enabled \in BOOLEAN
  /\ limiter \in Limiter
  /\ exhausted \in BOOLEAN
  /\ wrong \in 0 .. MaxFailures /\ since \in 0 .. MaxDelay

Init ==
  /\ secret \in Secret
  /\ at = "closed" /\ answer = "none"
  /\ fields = Cleared /\ enabled = FALSE
  /\ limiter = NewLimiter /\ exhausted = FALSE
  /\ wrong = 0 /\ since = MaxDelay
-----------------------------------------------------------------------------
(***************************************************************************)
(* The fields.                                                             *)
(***************************************************************************)

IsCode(clip) == Len(Pieces[clip]) = Groups

(* Mutant: the length is enforced, the characters are not.                 *)
EditUnfiltered(i, text) ==
  /\ fields' = [fields EXCEPT ![i] = Cut(text)]
  /\ enabled' = IF fields'[i] = text THEN AllValid(fields') ELSE enabled

(* _on_change: what it sets returns at once, and only a text it leaves as  *)
(* it is has the button looked at again.                                   *)
Edit(i, text) ==
  /\ fields' = [fields EXCEPT ![i] =
                  IF Filtered(text) # text THEN Filtered(text) ELSE Cut(text)]
  /\ enabled' = IF fields'[i] = text THEN AllValid(fields') ELSE enabled

Type(i, text) ==
  /\ at = "codes"
  /\ Edit(i, text)
  /\ UNCHANGED <<secret, at, answer, limits, history>>

(* Mutant: the groups fill the boxes from the one that has the focus.      *)
FilledFromHere(i, clip) ==
  [g \in 1 .. Groups |->
     IF g < i THEN fields[g] ELSE Filtered(Cut(Pieces[clip][g - i + 1]))]

(* A whole code fills all boxes, from the first.                           *)
Filled(i, clip) == [g \in 1 .. Groups |-> Filtered(Cut(Pieces[clip][g]))]

Inserted(text, cursor, clip) ==
  SubSeq(text, 1, cursor) \o clip \o SubSeq(text, cursor + 1, Len(text))

(* _on_paste: any other text is left to the widget, which inserts it at    *)
(* the cursor (a selection is deleted before, an edit of its own).         *)
Paste(i, clip) ==
  /\ at = "codes"
  /\ \/ /\ IsCode(clip)
        /\ fields' = Filled(i, clip)
        /\ enabled' = AllValid(fields')
     \/ /\ ~IsCode(clip)
        /\ Len(fields[i]) + Len(clip) <= MaxText
        /\ \E cursor \in 0 .. Len(fields[i]) :
             Edit(i, Inserted(fields[i], cursor, clip))
  /\ UNCHANGED <<secret, at, answer, limits, history>>
-----------------------------------------------------------------------------
(***************************************************************************)
(* _start_recovery.                                                        *)
(***************************************************************************)

(* Mutant: the wait is not looked at.                                      *)
OpenAtOnce ==
  /\ at = "closed" /\ ~exhausted
  /\ at' = "codes" /\ answer' = "none"
  /\ fields' = Cleared /\ enabled' = FALSE
  /\ UNCHANGED <<secret, limits, history>>

Open ==
  /\ at = "closed" /\ ~exhausted
  /\ ~IsLocked(limiter)
  /\ at' = "codes" /\ answer' = "none"
  /\ fields' = Cleared /\ enabled' = FALSE
  /\ UNCHANGED <<secret, limits, history>>

Blocked ==
  /\ at = "closed" /\ ~exhausted
  /\ IsLocked(limiter)
  /\ answer' = "locked"
  /\ UNCHANGED <<secret, at, dialog, limits, history>>

Close(reason) ==
  /\ at' = "closed" /\ answer' = reason
  /\ fields' = Cleared /\ enabled' = FALSE

Cancel ==
  /\ at = "codes"
  /\ Close("cancelled")
  /\ UNCHANGED <<secret, limits, history>>

(* The button is pressed; _submit turns away only an empty field.          *)
Submits == at = "codes" /\ enabled /\ \A i \in 1 .. Groups : fields[i] # <<>>
Entered == FlattenSeq(fields)

Incomplete ==
  /\ Submits /\ ~IsWhole(Entered)
  /\ Close("invalid")
  /\ UNCHANGED <<secret, limits, history>>

(* OverflowError of to_bytes, which is not a ValueError.                   *)
Overflow ==
  /\ Submits /\ IsWhole(Entered) /\ ~Fits(Entered)
  /\ Close("raised")
  /\ UNCHANGED <<secret, limits, history>>

IsRead == Submits /\ \E n \in Secret : Decodes(Entered, n)

(* load_vault raises.                                                      *)
Unreadable ==
  /\ IsRead
  /\ Close("unreadable")
  /\ UNCHANGED <<secret, limits, history>>

(* The file has no recovery any more (decrypt_with_recovery): the screen   *)
(* of a corrupt vault takes the window, and every way out rebuilds it.     *)
Corrupt ==
  /\ IsRead /\ secret = NoRecovery
  /\ at' = "corrupt" /\ answer' = "corrupt"
  /\ fields' = Cleared /\ enabled' = FALSE
  /\ UNCHANGED <<secret, limits, history>>

(* Mutant: one attempt too many before recovery is exhausted.              *)
WrongOnceMore ==
  /\ IsRead /\ secret # NoRecovery /\ ~Decodes(Entered, secret)
  /\ Close("wrong")
  /\ limiter' = RecordFailure(limiter)
  /\ exhausted' = (limiter'.failures > Threshold)
  /\ wrong' = OneMore(wrong) /\ since' = 0
  /\ UNCHANGED secret

(* InvalidTag.                                                             *)
Wrong ==
  /\ IsRead /\ secret # NoRecovery /\ ~Decodes(Entered, secret)
  /\ Close("wrong")
  /\ limiter' = RecordFailure(limiter)
  /\ exhausted' = (limiter'.failures >= Threshold)
  /\ wrong' = OneMore(wrong) /\ since' = 0
  /\ UNCHANGED secret

Accepted ==
  /\ IsRead /\ secret # NoRecovery /\ Decodes(Entered, secret)
  /\ at' = "password" /\ answer' = "accepted"
  /\ fields' = Cleared /\ enabled' = FALSE
  /\ limiter' = RecordSuccess(limiter)
  /\ wrong' = 0 /\ since' = MaxDelay
  /\ UNCHANGED <<secret, exhausted>>

(* NewPasswordDialog: closed, or a password is given and recovery goes on. *)
NewPassword ==
  /\ at = "password"
  /\ at' \in {"closed", "recovered"}
  /\ UNCHANGED <<secret, dialog, answer, limits, history>>
-----------------------------------------------------------------------------
Second ==
  /\ IsLocked(limiter) \/ since < MaxDelay
  /\ limiter' = Later(limiter)
  /\ since' = Lesser(since + 1, MaxDelay)
  /\ UNCHANGED <<secret, at, dialog, answer, exhausted, wrong>>

(* Another instance regenerates the codes, or puts a vault in place that   *)
(* has none.                                                               *)
NewCodes ==
  /\ secret' \in Secret \union {NoRecovery}
  /\ UNCHANGED <<at, dialog, answer, limits, history>>

(* The window is rebuilt (_reset_state), or the program started again.     *)
Restart ==
  /\ Close("none")
  /\ limiter' = NewLimiter /\ exhausted' = FALSE
  /\ wrong' = 0
  /\ UNCHANGED <<secret, since>>
-----------------------------------------------------------------------------
Enters ==
  \E i \in 1 .. Groups :
    \/ \E text \in Texts : Type(i, text)
    \/ \E clip \in Clips : Paste(i, clip)

Ends == Cancel \/ Incomplete \/ Overflow \/ Unreadable \/ Corrupt \/ Wrong \/ Accepted

Next == Open \/ Blocked \/ Enters \/ Ends \/ NewPassword \/ Second \/ NewCodes \/ Restart

Spec == Init /\ [][Next]_vars
-----------------------------------------------------------------------------
(***************************************************************************)
(* Properties.                                                             *)
(***************************************************************************)

(* A submission that is answered opens the vault exactly if the fields,    *)
(* however they were filled and whatever their lengths, spell the code     *)
(* that was displayed for the secret now on disk.                          *)
OpensExactlyWithTheCode ==
  [][at = "codes" /\ at' # "codes" /\ answer' \notin {"none", "cancelled", "unreadable"}
       => (answer' = "accepted" <=> secret # NoRecovery /\ Entered = Encode[secret])]_vars

(* A whole code, pasted in any of its forms into any box, whatever was in  *)
(* the boxes before, fills them all and can be submitted (_on_paste).      *)
PasteCompletes ==
  at = "codes" /\ secret # NoRecovery =>
    \A i \in 1 .. Groups : \A form \in Forms[secret] :
      IsCode(form) /\ Filled(i, form) = Chunks(Encode[secret])

(* After n wrong codes in a row the next is not looked at before           *)
(* min(2^n, MAX_DELAY) seconds, whatever dialogs are opened or closed.     *)
BackOffIsKept ==
  [][at = "codes" /\ answer' \in {"wrong", "accepted"} /\ wrong > 0
       => since >= BackOff(wrong)]_vars

(* A window looks at no more than RECOVERY_THRESHOLD wrong codes in a row; *)
(* what cannot be a code does not count as one.                            *)
AtMostThreshold == wrong <= Threshold

(* "Rate limiting exponencial en password y recovery (2s -> 30s cap)"      *)
(* (docs/STATUS.md:59): no code is looked at within two seconds of a wrong *)
(* one.  The limiter belongs to the window, so a new window does.          *)
EveryWrongCodeWaits ==
  [][at = "codes" /\ answer' \in {"wrong", "accepted"} => since >= BackOff(1)]_vars

(* "update indicator" (dialogs.py:609): once every box holds a group, the  *)
(* code can be submitted.                                                  *)
FilledCanBeSubmitted == at = "codes" /\ AllValid(fields) => enabled

(* "Raises ValueError if the input cannot be decoded" (recovery.py:60),    *)
(* which _start_recovery reports: no entered code is dropped in silence.   *)
BadCodesAreReported == answer # "raised"
=============================================================================
