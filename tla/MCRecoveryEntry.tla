-------------------------- MODULE MCRecoveryEntry ---------------------------
(* Instances of RecoveryEntry for TLC: two groups of two characters in base *)
(* two, so that most numbers that can be typed are no secret.              *)
EXTENDS RecoveryEntry

TwoDigits == <<"A", "B">>
TwoDigitsTyped == [c \in {"A", "B", "a", "-", " "} |-> IF c = "a" THEN "A" ELSE c]

(* The real codec has the same shape: every secret has a code of its own.   *)
ASSUME DecodingInvertsEncoding == \A n \in Secret : Decodes(Encode[n], n)
=============================================================================
