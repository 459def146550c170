----------------------- MODULE ManagedClipboardProofs -----------------------
(***************************************************************************)
(* What the clipboard helper promises for any number of windows, copies    *)
(* and foreign texts, also when the clipboard cannot always be opened.     *)
(***************************************************************************)
EXTENDS ManagedClipboard, TLAPS

(* A text of ours is the last copy of its owner, whose timer, while there  *)
(* is one, is that copy's; and a window that has read its own text was     *)
(* called by that copy's timer, unless another text has come since.        *)
LatestIsOwners ==
  latest # 0 =>
    \E m \in Owner :
      /\ clip \in {<<m, "a">>, <<m, "b">>}
      /\ timer[m] \in {0, latest}

GuardIsOwn == \A m \in Owner : guard[m] \in {<<m, "a">>, <<m, "b">>, Nothing}

ClearingIsDue == clearing # Nobody /\ cause # 0 /\ latest # 0 => latest = cause

ClipboardInv == TypeOK /\ LatestIsOwners /\ GuardIsOwn /\ ClearingIsDue

LEMMA SecretOwner ==
  \A m, n \in Owner :
    /\ {<<m, "a">>, <<m, "b">>} \subseteq Secret
    /\ {<<m, "a">>, <<m, "b">>} \intersect {<<n, "a">>, <<n, "b">>} # {} => m = n
    /\ Nothing \notin {<<m, "a">>, <<m, "b">>}
  BY DEF Secret, Nothing

LEMMA InitClipboard == Init => ClipboardInv
<1> SUFFICES ASSUME Init PROVE ClipboardInv
  OBVIOUS
<1>1. TypeOK
  BY CopiesAssumption DEF Init, TypeOK, Copy
<1> QED
  BY <1>1 DEF Init, ClipboardInv, LatestIsOwners, GuardIsOwn, ClearingIsDue

LEMMA CopyStep ==
  ASSUME ClipboardInv, NEW m \in Owner, NEW text \in {s \in Secret : s[1] = m},
         CopyText(m, text)
  PROVE  ClipboardInv'
<1>1. text \in {<<m, "a">>, <<m, "b">>}
  BY DEF Secret
<1>2. copies' \in 1 .. MaxCopies /\ copies' = copies + 1 /\ latest' = copies'
  BY CopiesAssumption DEF CopyText, ClipboardInv, TypeOK, Copy
<1>3. TypeOK'
  <2>1. /\ open' \in [Owner -> BOOLEAN]
        /\ guard' \in [Owner -> Secret \union {Nothing}]
        /\ timer' \in [Owner -> Copy]
        /\ pending' \in [Owner -> SUBSET (1 .. MaxCopies)]
    BY <1>2, CopiesAssumption DEF CopyText, ClipboardInv, TypeOK, Copy
  <2>2. ASSUME NEW n \in Owner
        PROVE  pending'[n] \subseteq {timer'[n]} /\ (pending'[n] # {} => open'[n])
    BY DEF CopyText, ClipboardInv, TypeOK
  <2>3. clip' \in Secret /\ clearing' = Nobody /\ cause' \in Copy
    BY DEF CopyText, Idle, ClipboardInv, TypeOK
  <2>4. latest' \in 0 .. copies' /\ copies' \in Copy
    BY <1>2, CopiesAssumption DEF Copy
  <2> QED
    BY <2>1, <2>2, <2>3, <2>4 DEF TypeOK
<1>4. LatestIsOwners'
  <2>1. clip' = text /\ timer'[m] = latest'
    BY DEF CopyText, ClipboardInv, TypeOK
  <2> QED
    BY <1>1, <2>1 DEF LatestIsOwners
<1>5. GuardIsOwn'
  BY <1>1 DEF CopyText, ClipboardInv, TypeOK, GuardIsOwn
<1>6. ClearingIsDue'
  BY DEF CopyText, Idle, ClearingIsDue
<1> QED
  BY <1>3, <1>4, <1>5, <1>6 DEF ClipboardInv

(* The timers of one window go, or nothing but what it has read changes.   *)
LEMMA ReadStep ==
  ASSUME ClipboardInv, NEW m \in Owner, ReadText(m), Idle,
         UNCHANGED <<screen, copies>>,
         open' \in [Owner -> BOOLEAN], \A n \in Owner \ {m} : open'[n] = open[n],
         cause' \in {0} \union pending[m]
  PROVE  ClipboardInv'
<1>1. /\ timer' = [timer EXCEPT ![m] = 0]
      /\ pending' = [pending EXCEPT ![m] = {}]
      /\ \/ clip = guard[m] /\ clearing' = m /\ UNCHANGED guard
         \/ guard' = [guard EXCEPT ![m] = Nothing] /\ clearing' = Nobody
  BY DEF ReadText, Finish
<1>2. TypeOK'
  <2>1. /\ guard' \in [Owner -> Secret \union {Nothing}]
        /\ timer' \in [Owner -> Copy]
        /\ pending' \in [Owner -> SUBSET (1 .. MaxCopies)]
    BY <1>1, CopiesAssumption DEF ClipboardInv, TypeOK, Copy
  <2>2. ASSUME NEW n \in Owner
        PROVE  pending'[n] \subseteq {timer'[n]} /\ (pending'[n] # {} => open'[n])
    BY <1>1 DEF ClipboardInv, TypeOK
  <2>3. cause' \in Copy /\ clearing' \in Owner \union {Nobody}
    BY <1>1, CopiesAssumption DEF ClipboardInv, TypeOK, Copy
  <2> QED
    BY <2>1, <2>2, <2>3 DEF ClipboardInv, TypeOK, screen
<1>3. LatestIsOwners'
  BY <1>1 DEF ClipboardInv, TypeOK, LatestIsOwners, screen
<1>4. GuardIsOwn'
  BY <1>1 DEF ClipboardInv, TypeOK, GuardIsOwn
<1>5. ClearingIsDue'
  <2> SUFFICES ASSUME clearing' # Nobody, cause' # 0, latest' # 0
               PROVE  latest' = cause'
    BY DEF ClearingIsDue
  <2>1. clip = guard[m] /\ latest # 0 /\ latest' = latest
    BY <1>1 DEF screen
  <2>2. PICK n \in Owner : clip \in {<<n, "a">>, <<n, "b">>} /\ timer[n] \in {0, latest}
    BY <2>1 DEF ClipboardInv, LatestIsOwners
  <2>3. n = m
    BY <2>1, <2>2, SecretOwner DEF ClipboardInv, GuardIsOwn
  <2>4. cause' = timer[m]
    BY DEF ClipboardInv, TypeOK
  <2> QED
    BY <2>1, <2>2, <2>3, <2>4
<1> QED
  BY <1>2, <1>3, <1>4, <1>5 DEF ClipboardInv

LEMMA ClearStep == ASSUME ClipboardInv, NEW m \in Owner, Clear(m) PROVE ClipboardInv'
<1>1. /\ timer' = [timer EXCEPT ![m] = 0]
      /\ pending' = [pending EXCEPT ![m] = {}]
      /\ guard' = [guard EXCEPT ![m] = Nothing]
      /\ clearing' = Nobody
      /\ UNCHANGED <<copies, open, cause>>
      /\ \/ clip' = Empty /\ latest' = 0
         \/ UNCHANGED screen
  BY DEF Clear, Finish
<1>2. TypeOK'
  <2>1. /\ guard' \in [Owner -> Secret \union {Nothing}]
        /\ timer' \in [Owner -> Copy]
        /\ pending' \in [Owner -> SUBSET (1 .. MaxCopies)]
    BY <1>1, CopiesAssumption DEF ClipboardInv, TypeOK, Copy
  <2>2. ASSUME NEW n \in Owner
        PROVE  pending'[n] \subseteq {timer'[n]} /\ (pending'[n] # {} => open'[n])
    BY <1>1 DEF ClipboardInv, TypeOK
  <2>3. clip' \in Secret \union Foreign \union {Empty} /\ latest' \in 0 .. copies
    BY <1>1, CopiesAssumption DEF ClipboardInv, TypeOK, Copy, screen
  <2> QED
    BY <1>1, <2>1, <2>2, <2>3 DEF ClipboardInv, TypeOK
<1>3. LatestIsOwners'
  BY <1>1 DEF ClipboardInv, TypeOK, LatestIsOwners, screen
<1>4. GuardIsOwn'
  BY <1>1 DEF ClipboardInv, TypeOK, GuardIsOwn
<1> QED
  BY <1>1, <1>2, <1>3, <1>4 DEF ClipboardInv, ClearingIsDue

LEMMA OpenStep == ASSUME ClipboardInv, NEW m \in Owner, Open(m) PROVE ClipboardInv'
  BY DEF Open, ClipboardInv, TypeOK, LatestIsOwners, GuardIsOwn, ClearingIsDue, screen

LEMMA ElsewhereStep == ASSUME ClipboardInv, CopyElsewhere PROVE ClipboardInv'
  BY CopiesAssumption
  DEF CopyElsewhere, ClipboardInv, TypeOK, Copy, LatestIsOwners, GuardIsOwn, ClearingIsDue

LEMMA StepClipboard == ClipboardInv /\ [Next]_vars => ClipboardInv'
<1> SUFFICES ASSUME ClipboardInv, [Next]_vars PROVE ClipboardInv'
  OBVIOUS
<1>1. ASSUME NEW m \in Owner, NEW text \in {s \in Secret : s[1] = m}, CopyText(m, text)
      PROVE  ClipboardInv'
  BY <1>1, CopyStep
<1>2. ASSUME NEW m \in Owner, Timeout(m) PROVE ClipboardInv'
  <2>1. /\ ReadText(m) /\ Idle /\ UNCHANGED <<screen, copies, open>>
        /\ cause' \in pending[m]
    BY <1>2 DEF Timeout
  <2>2. open' \in [Owner -> BOOLEAN] /\ \A n \in Owner \ {m} : open'[n] = open[n]
    BY <2>1 DEF ClipboardInv, TypeOK
  <2> QED
    BY <2>1, <2>2, ReadStep
<1>3. ASSUME NEW m \in Owner, Close(m) PROVE ClipboardInv'
  <2>1. ReadText(m) /\ Idle /\ UNCHANGED <<screen, copies>> /\ cause' = 0
    BY <1>3 DEF Close
  <2>2. open' \in [Owner -> BOOLEAN] /\ \A n \in Owner \ {m} : open'[n] = open[n]
    BY <1>3 DEF Close, ClipboardInv, TypeOK
  <2> QED
    BY <2>1, <2>2, ReadStep
<1>4. ASSUME NEW m \in Owner, Clear(m) PROVE ClipboardInv'
  BY <1>4, ClearStep
<1>5. ASSUME NEW m \in Owner, Open(m) PROVE ClipboardInv'
  BY <1>5, OpenStep
<1>6. CASE CopyElsewhere
  BY <1>6, ElsewhereStep
<1>7. CASE UNCHANGED vars
  BY <1>7
  DEF vars, screen, ClipboardInv, TypeOK, LatestIsOwners, GuardIsOwn, ClearingIsDue
<1> QED
  BY <1>1, <1>2, <1>3, <1>4, <1>5, <1>6, <1>7 DEF Next

-----------------------------------------------------------------------------
(* Every reachable state: a text of ours on the clipboard is the one whose *)
(* timer its owner keeps (copy, _clear_on_timeout and clear_now).          *)
THEOREM ClipboardInvariance == Spec => []ClipboardInv
  BY InitClipboard, StepClipboard, PTL DEF Spec

(* Guards, timers and callbacks keep their types; a window has no more     *)
(* than one callback pending, and none once it is closed.                  *)
THEOREM ClipboardTypes == Spec => []TypeOK
<1>1. ClipboardInv => TypeOK
  BY DEF ClipboardInv
<1> QED
  BY <1>1, ClipboardInvariance, PTL

(* The timeout of clear_now never removes a copy made after it was set, in *)
(* this window or in another.                                              *)
THEOREM CopiesLastTheirTime == Spec => NoEarlyClear
<1> DEFINE Early == clip' = Empty /\ cause # 0 /\ latest # 0
<1>1. ClipboardInv /\ [Next]_vars => [Early => latest = cause]_vars
  <2> SUFFICES ASSUME ClipboardInv, Next, Early PROVE latest = cause
    OBVIOUS
  <2>1. clip # Empty /\ clip \in Secret
    BY SecretOwner DEF ClipboardInv, LatestIsOwners, Secret, Empty
  <2>2. PICK m \in Owner : Clear(m)
    <3>1. \A s \in Secret : s # Empty
      BY DEF Secret, Empty
    <3>2. Empty \notin Foreign
      BY ForeignAssumption
    <3> QED
      BY <2>1, <3>1, <3>2 DEF Next, CopyText, Timeout, Close, Open, CopyElsewhere, screen
  <2>3. clearing # Nobody
    BY <2>2, OwnerAssumption DEF Clear
  <2> QED
    BY <2>3 DEF ClipboardInv, ClearingIsDue
<1> QED
  BY <1>1, ClipboardInvariance, PTL DEF Spec, NoEarlyClear
=============================================================================
