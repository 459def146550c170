------------------------ MODULE RecoveryEntryProofs -------------------------
(***************************************************************************)
(* What recovery promises, for every value of the constants: what the      *)
(* limiter and the threshold keep; that the codec is one to one between    *)
(* the secrets and the codes that decode; what the dialog makes of what is *)
(* typed and pasted into it.                                               *)
(***************************************************************************)
EXTENDS RecoveryEntry, SequenceTheorems, WellFoundedInduction, TLAPS

(***************************************************************************)
(* What a limiter keeps, whoever owns it.                                  *)
(***************************************************************************)

(* Every wait is a number no greater than MAX_DELAY.                       *)
LEMMA BackOffBounded ==
  ASSUME NEW n \in Nat
  PROVE  BackOff(n) \in Int /\ BackOff(n) <= MaxDelay
<1>1. 2 ^ n \in Int
  BY Z3
<1> QED
  BY <1>1, DelayAssumption DEF BackOff, Lesser

(* A new limiter, or one reset by a success, has nothing to keep.          *)
LEMMA NewKeeps == \A s \in 0 .. MaxDelay : Keeps(NewLimiter, 0, s)
  BY DelayAssumption, FailureAssumption DEF Keeps, NewLimiter

(* A failure is counted, and the wait starts anew.                         *)
LEMMA FailureKeeps ==
  ASSUME NEW lim, NEW n, NEW s, Keeps(lim, n, s)
  PROVE  Keeps(RecordFailure(lim), OneMore(n), 0)
<1> DEFINE m == OneMore(n)
<1> USE DelayAssumption, FailureAssumption
<1>1. m \in 0 .. MaxFailures
  BY DEF Keeps, OneMore, Lesser
<1>2. RecordFailure(lim) = [failures |-> m, remaining |-> BackOff(m)]
  BY DEF RecordFailure, Keeps
<1>3. BackOff(m) \in Int
  BY <1>1, BackOffBounded
<1> HIDE DEF m
<1> QED
  BY <1>1, <1>2, <1>3 DEF Keeps, m

(* A second: what it adds to the time waited it takes from the time left.  *)
LEMMA LaterKeeps ==
  ASSUME NEW lim, NEW n, NEW s, Keeps(lim, n, s)
  PROVE  Keeps(Later(lim), n, Lesser(s + 1, MaxDelay))
<1> USE DelayAssumption, FailureAssumption
<1>1. /\ lim.remaining \in Int /\ lim.failures \in 0 .. MaxFailures
      /\ s \in 0 .. MaxDelay /\ n = lim.failures
      /\ Later(lim) = [failures |-> n, remaining |->
                             IF lim.remaining > 0 THEN lim.remaining - 1 ELSE 0]
  BY DEF Keeps, Later
<1>2. Lesser(s + 1, MaxDelay) = IF s + 1 < MaxDelay THEN s + 1 ELSE MaxDelay
  BY DEF Lesser
<1>3. ASSUME n > 0
      PROVE  Lesser(s + 1, MaxDelay) + Later(lim).remaining >= BackOff(n)
  <2>1. BackOff(n) \in Int /\ BackOff(n) <= MaxDelay
    BY <1>1, BackOffBounded
  <2>2. s + lim.remaining >= BackOff(n)
    BY <1>3 DEF Keeps
  <2> QED
    BY <1>1, <1>2, <2>1, <2>2
<1> QED
  BY <1>1, <1>2, <1>3 DEF Keeps

(* When nothing is left to wait, the whole back-off has passed.            *)
LEMMA WaitIsOver ==
  ASSUME NEW lim, NEW n, NEW s, Keeps(lim, n, s), ~IsLocked(lim), n > 0
  PROVE  s >= BackOff(n)
<1>1. n \in Nat /\ s \in Int /\ lim.remaining \in Int /\ lim.remaining <= 0
  BY DelayAssumption, FailureAssumption DEF Keeps, IsLocked
<1>2. BackOff(n) \in Int
  BY <1>1, BackOffBounded
<1> QED
  BY <1>1, <1>2 DEF Keeps

-----------------------------------------------------------------------------

Guarded ==
  /\ exhausted <=> limiter.failures >= Threshold
  /\ wrong <= Threshold
  /\ at = "codes" => ~exhausted /\ ~IsLocked(limiter)

RecoveryInv == Keeps(limiter, wrong, since) /\ Guarded

LEMMA InitCounts == Init => RecoveryInv
<1> SUFFICES ASSUME Init PROVE RecoveryInv
  OBVIOUS
<1>1. limiter = NewLimiter /\ wrong = 0 /\ since = MaxDelay /\ ~exhausted /\ at = "closed"
  BY DEF Init
<1>2. Guarded
  BY <1>1, ThresholdAssumption DEF Guarded, NewLimiter
<1> QED
  BY <1>1, <1>2, NewKeeps, DelayAssumption DEF RecoveryInv

(* A wrong code is looked at below the threshold only, and what it adds to *)
(* the count of failures closes the way at the threshold.                  *)
LEMMA WrongCounts == RecoveryInv /\ Wrong => RecoveryInv'
<1> SUFFICES ASSUME RecoveryInv, Wrong PROVE RecoveryInv'
  OBVIOUS
<1>1. wrong < Threshold /\ wrong \in Nat
  <2>1. ~(limiter.failures >= Threshold)
    BY DEF Wrong, IsRead, Submits, RecoveryInv, Guarded
  <2> QED
    BY <2>1, ThresholdAssumption, FailureAssumption DEF RecoveryInv, Keeps
<1>2. /\ limiter' = RecordFailure(limiter)
      /\ wrong' = OneMore(wrong) /\ since' = 0 /\ at' = "closed"
  BY DEF Wrong, Close
<1>3. Keeps(limiter', wrong', since')
  BY <1>2, FailureKeeps DEF RecoveryInv
<1>4. Guarded'
  <2>1. exhausted' <=> limiter'.failures >= Threshold
    BY Zenon DEF Wrong
  <2>2. wrong' <= Threshold
    BY <1>1, <1>2, ThresholdAssumption, FailureAssumption DEF OneMore, Lesser
  <2> QED
    BY <1>2, <2>1, <2>2 DEF Guarded
<1> QED
  BY <1>3, <1>4 DEF RecoveryInv

LEMMA StepCounts == RecoveryInv /\ [Next]_vars => RecoveryInv'
<1> SUFFICES ASSUME RecoveryInv, [Next]_vars PROVE RecoveryInv'
  OBVIOUS
<1> USE DEF RecoveryInv, Guarded
<1>1. CASE Open
  BY <1>1 DEF Open, limits, history
<1>2. CASE Blocked
  BY <1>2 DEF Blocked, limits, history
<1>3. CASE Enters
  BY <1>3 DEF Enters, Type, Paste, limits, history
<1>4. CASE Cancel \/ Incomplete \/ Overflow \/ Unreadable \/ Corrupt
  BY <1>4 DEF Cancel, Incomplete, Overflow, Unreadable, Corrupt, Close, limits, history
<1>5. CASE Wrong
  BY <1>5, WrongCounts
<1>6. CASE Accepted
  <2>1. limiter' = NewLimiter /\ wrong' = 0 /\ since' = MaxDelay /\ at' = "password" /\ (exhausted' <=> exhausted)
    BY <1>6 DEF Accepted, RecordSuccess
  <2>2. ~exhausted
    BY <1>6 DEF Accepted, IsRead, Submits
  <2>3. Keeps(limiter', wrong', since')
    BY <2>1, NewKeeps, DelayAssumption
  <2> QED
    BY <2>1, <2>2, <2>3, ThresholdAssumption DEF NewLimiter
<1>7. CASE NewPassword
  BY <1>7 DEF NewPassword, limits, history
<1>8. CASE Second
  <2>1. /\ limiter' = Later(limiter) /\ since' = Lesser(since + 1, MaxDelay)
        /\ UNCHANGED <<at, exhausted, wrong>>
    BY <1>8 DEF Second
  <2>2. Keeps(limiter', wrong', since')
    BY <2>1, LaterKeeps
  <2>3. /\ limiter'.failures = limiter.failures
        /\ ~IsLocked(limiter) => ~IsLocked(limiter')
    BY <2>1 DEF Later, IsLocked, Keeps
  <2> QED
    BY <2>1, <2>2, <2>3
<1>9. CASE NewCodes
  BY <1>9 DEF NewCodes, limits, history
<1>10. CASE Restart
  <2>1. limiter' = NewLimiter /\ wrong' = 0 /\ since' = since /\ ~exhausted' /\ at' = "closed"
    BY <1>10 DEF Restart, Close
  <2>2. since \in 0 .. MaxDelay
    BY DEF Keeps
  <2>3. Keeps(limiter', wrong', since')
    BY <2>1, <2>2, NewKeeps
  <2> QED
    BY <2>1, <2>3, ThresholdAssumption DEF NewLimiter
<1>11. CASE UNCHANGED vars
  BY <1>11 DEF vars, limits, history
<1> QED
  BY <1>1, <1>2, <1>3, <1>4, <1>5, <1>6, <1>7, <1>8, <1>9, <1>10, <1>11 DEF Next, Ends

(* The limiter and the history agree, in every reachable state.            *)
THEOREM RecoveryInvariance == Spec => []RecoveryInv
  BY InitCounts, StepCounts, PTL DEF Spec

(* A window looks at no more than RECOVERY_THRESHOLD wrong codes in a row  *)
(* (_start_recovery, 630 and 670).                                         *)
THEOREM GuessesAreBounded == Spec => []AtMostThreshold
<1>1. RecoveryInv => AtMostThreshold
  BY DEF RecoveryInv, Guarded, AtMostThreshold
<1> QED
  BY <1>1, RecoveryInvariance, PTL

(* The exponential back-off is kept between any two attempts               *)
(* (RateLimiter.record_failure, _start_recovery 633).                      *)
THEOREM RecoveryWaits == Spec => BackOffIsKept
<1> DEFINE Tried == at = "codes" /\ answer' \in {"wrong", "accepted"} /\ wrong > 0
<1>1. RecoveryInv /\ [Next]_vars => [Tried => since >= BackOff(wrong)]_vars
  <2> SUFFICES ASSUME RecoveryInv, Tried PROVE since >= BackOff(wrong)
    OBVIOUS
  <2>1. Keeps(limiter, wrong, since) /\ ~IsLocked(limiter)
    BY DEF RecoveryInv, Guarded
  <2> QED
    BY <2>1, WaitIsOver
<1> QED
  BY <1>1, RecoveryInvariance, PTL DEF Spec, BackOffIsKept
-----------------------------------------------------------------------------
(***************************************************************************)
(* Loops.  The codec and the dialog go through their texts one character   *)
(* at a time; what such a loop computes is found by induction, which rests *)
(* on the well-foundedness of < on the numbers.                            *)
(***************************************************************************)

Below == {ss \in Nat \X Nat : ss[1] < ss[2]}

LEMMA BelowIsWellFounded == IsWellFoundedOn(Below, Nat)
  BY Zenon, NatLessThanWellFounded DEF OpToRel, Below

(* Every set of numbers that is not empty has a least one.                 *)
LEMMA Least ==
  ASSUME NEW S \in SUBSET Nat, S # {}
  PROVE  \E m \in S : \A k \in S : m <= k
<1>1. PICK m \in S : \A k \in S : ~(<<k, m>> \in Below)
  BY WFMin, BelowIsWellFounded, Zenon
<1>2. ASSUME NEW k \in S PROVE m <= k
  <2>1. <<k, m>> \notin Below /\ k \in Nat /\ m \in Nat
    BY <1>1
  <2>2. k < m => <<k, m>> \in Below
    BY <2>1 DEF Below
  <2> QED
    BY <2>1, <2>2
<1> QED
  BY <1>1, <1>2

(* Induction over an interval: from its first number to every one in it.   *)
LEMMA Induction ==
  ASSUME NEW from \in Nat, NEW to \in Nat, NEW Good, from \in Good,
         \A k \in from .. to - 1 : k \in Good => k + 1 \in Good
  PROVE  \A k \in from .. to : k \in Good
<1> DEFINE T == {k \in from .. to : k \notin Good}
<1> SUFFICES ASSUME T # {} PROVE FALSE
  OBVIOUS
<1>1. PICK k \in T : \A j \in T : k <= j
  <2> HIDE DEF T
  <2>1. T \subseteq Nat
    BY DEF T
  <2> QED
    BY <2>1, Least
<1>2. k \in from .. to /\ k # from /\ k - 1 \in from .. to - 1 /\ k - 1 + 1 = k
  OBVIOUS
<1>3. k - 1 \in Good
  BY <1>1, <1>2
<1> QED
  BY <1>2, <1>3

(* A loop from m to n that starts with a and makes F[k, v] of v has a run. *)
Steps(m, n, V) == [(m + 1 .. n) \X V -> V]
IsRun(g, m, n, V, a, F) ==
  /\ g \in [m .. n -> V]
  /\ g[m] = a /\ \A k \in m + 1 .. n : g[k] = F[<<k, g[k - 1]>>]

LEMMA LoopRuns ==
  ASSUME NEW m \in Nat, NEW n \in Nat, m <= n, NEW V, NEW a \in V,
         NEW F \in Steps(m, n, V)
  PROVE  \E g : IsRun(g, m, n, V, a, F)
<1> USE DEF Steps
<1> DEFINE Run(g, to) == g[m] = a /\ \A k \in m + 1 .. to : g[k] = F[<<k, g[k - 1]>>]
           S == {to \in m .. n : \E g \in [m .. to -> V] : Run(g, to)}
<1>1. m \in S
  <2> DEFINE g == [k \in m .. m |-> a]
  <2>1. g \in [m .. m -> V] /\ Run(g, m)
    OBVIOUS
  <2> HIDE DEF g, Run
  <2> QED
    BY <2>1
<1>2. ASSUME NEW to \in m .. n - 1, to \in S PROVE to + 1 \in S
  <2>1. PICK g \in [m .. to -> V] : Run(g, to)
    BY <1>2
  <2> DEFINE h == [k \in m .. to + 1 |-> IF k = to + 1 THEN F[<<k, g[to]>>] ELSE g[k]]
  <2>2. F[<<to + 1, g[to]>>] \in V
    OBVIOUS
  <2>3. h \in [m .. to + 1 -> V]
    BY <2>2
  <2>4. Run(h, to + 1)
    <3> SUFFICES ASSUME NEW k \in m + 1 .. to + 1 PROVE  h[k] = F[<<k, h[k - 1]>>]
      BY <2>1
    <3>1. CASE k = to + 1
      BY <3>1
    <3>2. CASE k # to + 1
      <4>1. k \in m + 1 .. to /\ h[k] = g[k] /\ h[k - 1] = g[k - 1]
        BY <3>2
      <4> QED
        BY <2>1, <4>1
    <3> QED
      BY <3>1, <3>2
  <2> HIDE DEF h, Run
  <2> QED
    BY <2>3, <2>4
<1> HIDE DEF S, Run
<1>3. n \in S
  BY <1>1, <1>2, Induction
<1> QED
  BY <1>3 DEF S, Run, IsRun

(* What every turn of a loop preserves is true of it all along.            *)
LEMMA LoopKeeps ==
  ASSUME NEW m \in Nat, NEW n \in Nat, NEW L, NEW V, L[m] \in V,
         \A k \in m + 1 .. n : L[k - 1] \in V => L[k] \in V
  PROVE  \A k \in m .. n : L[k] \in V
<1> DEFINE S == {k \in Nat : L[k] \in V}
<1>1. m \in S
  OBVIOUS
<1>2. ASSUME NEW k \in m .. n - 1, k \in S PROVE k + 1 \in S
  <2>1. k + 1 \in m + 1 .. n /\ k + 1 - 1 = k /\ k + 1 \in Nat
    OBVIOUS
  <2> QED
    BY <1>2, <2>1
<1> HIDE DEF S
<1>3. \A k \in m .. n : k \in S
  BY <1>1, <1>2, Induction
<1> QED
  BY <1>3 DEF S

LEMMA Sizes ==
  /\ Width \in Nat \ {0} /\ Groups \in Nat \ {0} /\ GroupLen \in Nat \ {0}
  /\ Base \in Nat \ {0} /\ Secret \subseteq Nat /\ Width = Groups * GroupLen
<1>1. Groups \in Nat \ {0} /\ GroupLen \in Nat \ {0} /\ RawLimit \in Nat
  BY GroupAssumption
<1>2. Groups * GroupLen \in Nat \ {0}
  BY <1>1
<1>3. Base \in Nat \ {0}
  BY CharsetAssumption, EmptySeq DEF Base
<1> QED
  BY <1>1, <1>2, <1>3 DEF Width, Secret

(* Division and what it leaves, by any base.                               *)
LEMMA Division ==
  ASSUME NEW b \in Nat \ {0}, NEW x \in Nat
  PROVE  x \div b \in Nat /\ x % b \in 0 .. b - 1 /\ x = (x \div b) * b + (x % b)
OBVIOUS

LEMMA Multiple ==
  ASSUME NEW b \in Nat \ {0}, NEW q \in Nat, NEW r \in Nat
  PROVE  q * b + r \in Nat
OBVIOUS

LEMMA MultipleDivides ==
  ASSUME NEW b \in Nat \ {0}, NEW q \in Nat, NEW r \in 0 .. b - 1
  PROVE  (q * b + r) \div b = q /\ (q * b + r) % b = r
OBVIOUS

(* The loop of _encode.                                                    *)
LEMMA LeftLoop ==
  ASSUME NEW n \in Nat
  PROVE  /\ Left(n)[0] = n
         /\ \A k \in 0 .. Width : Left(n)[k] \in Nat
         /\ \A k \in 1 .. Width : Left(n)[k] = Left(n)[k - 1] \div Base
<1> DEFINE F == [p \in (0 + 1 .. Width) \X Nat |-> p[2] \div Base]
           L == Left(n)
<1>1. F \in Steps(0, Width, Nat)
  BY Sizes, Division DEF Steps
<1>2. PICK g : IsRun(g, 0, Width, Nat, n, F)
  <2> HIDE DEF F
  <2>1. 0 \in Nat /\ Width \in Nat /\ 0 <= Width /\ n \in Nat
    BY Sizes
  <2> QED
    BY <1>1, <2>1, LoopRuns
<1>3. g = [k \in 0 .. Width |-> IF k = 0 THEN n ELSE g[k - 1] \div Base]
  <2>1. ASSUME NEW k \in 0 .. Width PROVE g[k] = IF k = 0 THEN n ELSE g[k - 1] \div Base
    <3>1. CASE k = 0
      BY <1>2, <3>1 DEF IsRun
    <3>2. CASE k # 0
      <4>1. k \in 0 + 1 .. Width /\ g[k - 1] \in Nat
        BY <1>2, <3>2, Sizes DEF IsRun
      <4> QED
        BY <1>2, <3>2, <4>1 DEF IsRun
    <3> QED
      BY <3>1, <3>2
  <2> QED
    BY <1>2, <2>1 DEF IsRun
<1>4. L = [k \in 0 .. Width |-> IF k = 0 THEN n ELSE L[k - 1] \div Base]
  BY <1>3 DEF Left
<1> HIDE DEF L
<1>5. L[0] = n /\ \A k \in 1 .. Width : L[k] = L[k - 1] \div Base
  BY <1>4, Sizes
<1>6. \A k \in 0 .. Width : L[k] \in Nat
  <2>1. ASSUME NEW k \in 0 + 1 .. Width, L[k - 1] \in Nat PROVE L[k] \in Nat
    <3>1. L[k - 1] \div Base \in Nat
      BY <2>1, Division, Sizes
    <3>2. L[k] = L[k - 1] \div Base
      BY <1>5
    <3> QED
      BY <3>1, <3>2, Zenon
  <2> QED
    BY <1>5, <2>1, LoopKeeps, Sizes
<1> QED
  BY <1>5, <1>6 DEF L

(* Characters of the charset and digits stand for each other.              *)
LEMMA DigitOf ==
  /\ \A c \in Chars : Digit(c) \in 0 .. Base - 1 /\ Charset[Digit(c) + 1] = c
  /\ \A d \in 0 .. Base - 1 : Charset[d + 1] \in Chars /\ Digit(Charset[d + 1]) = d
<1>1. Base \in Nat /\ DOMAIN Charset = 1 .. Base
  BY CharsetAssumption, LenProperties DEF Base
<1>2. ASSUME NEW c \in Chars
      PROVE  Digit(c) \in 0 .. Base - 1 /\ Charset[Digit(c) + 1] = c
  <2>1. PICK i \in 1 .. Base : Charset[i] = c
    BY <1>1 DEF Chars, ToSet
  <2>2. i - 1 \in 0 .. Base - 1 /\ Charset[i - 1 + 1] = c
    BY <1>1, <2>1
  <2> QED
    BY <2>2, Zenon DEF Digit
<1>3. ASSUME NEW d \in 0 .. Base - 1
      PROVE  Charset[d + 1] \in Chars /\ Digit(Charset[d + 1]) = d
  <2>1. d + 1 \in DOMAIN Charset
    BY <1>1
  <2>2. Charset[d + 1] \in Chars
    BY <2>1 DEF Chars, ToSet
  <2>3. /\ Digit(Charset[d + 1]) \in 0 .. Base - 1
        /\ Charset[Digit(Charset[d + 1]) + 1] = Charset[d + 1]
    BY <1>2, <2>2, Zenon
  <2>4. Digit(Charset[d + 1]) + 1 \in DOMAIN Charset
    BY <1>1, <2>3
  <2>5. Digit(Charset[d + 1]) + 1 = d + 1
    BY <2>1, <2>3, <2>4, CharsetAssumption, Zenon DEF IsInjective
  <2> QED
    BY <1>1, <2>2, <2>3, <2>5
<1> QED
  BY <1>2, <1>3, Zenon

LEMMA ReadLoop ==
  ASSUME NEW text \in Seq(Chars)
  PROVE  /\ Read(text)[0] = 0
         /\ \A k \in 0 .. Len(text) : Read(text)[k] \in Nat
         /\ \A k \in 1 .. Len(text) :
              Read(text)[k] = Read(text)[k - 1] * Base + Digit(text[k])
<1> DEFINE N == Len(text)
           F == [p \in (0 + 1 .. N) \X Nat |-> p[2] * Base + Digit(text[p[1]])]
           R == Read(text)
<1>0. N \in Nat /\ \A k \in 1 .. N : text[k] \in Chars /\ Digit(text[k]) \in Nat
  BY DigitOf, ElementOfSeq
<1>1. F \in Steps(0, N, Nat)
  BY <1>0, Sizes DEF Steps
<1>2. PICK g : IsRun(g, 0, N, Nat, 0, F)
  <2> HIDE DEF F, N
  <2>1. N \in Nat /\ 0 <= N
    BY <1>0
  <2> QED
    BY <1>1, <2>1, LoopRuns
<1>3. g = [k \in 0 .. N |-> IF k = 0 THEN 0 ELSE g[k - 1] * Base + Digit(text[k])]
  <2>1. ASSUME NEW k \in 0 .. N
        PROVE  g[k] = IF k = 0 THEN 0 ELSE g[k - 1] * Base + Digit(text[k])
    <3>1. CASE k = 0
      BY <1>2, <3>1 DEF IsRun
    <3>2. CASE k # 0
      <4>1. k \in 0 + 1 .. N /\ g[k - 1] \in Nat
        BY <1>0, <1>2, <3>2 DEF IsRun
      <4> QED
        BY <1>2, <3>2, <4>1 DEF IsRun
    <3> QED
      BY <3>1, <3>2
  <2> QED
    BY <1>2, <2>1 DEF IsRun
<1>4. R = [k \in 0 .. N |-> IF k = 0 THEN 0 ELSE R[k - 1] * Base + Digit(text[k])]
  BY <1>3 DEF Read
<1> HIDE DEF R, N
<1>5. R[0] = 0 /\ \A k \in 1 .. N : R[k] = R[k - 1] * Base + Digit(text[k])
  BY <1>0, <1>4
<1>6. \A k \in 0 .. N : R[k] \in Nat
  <2>1. ASSUME NEW k \in 0 + 1 .. N, R[k - 1] \in Nat PROVE R[k] \in Nat
    <3>1. R[k - 1] * Base + Digit(text[k]) \in Nat
      <4>1. Digit(text[k]) \in Nat
        BY <1>0
      <4> QED
        BY <2>1, <4>1, Sizes, Multiple
    <3>2. R[k] = R[k - 1] * Base + Digit(text[k])
      BY <1>5
    <3> QED
      BY <3>1, <3>2, Zenon
  <2>2. N \in Nat /\ R[0] \in Nat
    BY <1>0, <1>5
  <2> QED
    BY <2>1, <2>2, LoopKeeps
<1> QED
  BY <1>5, <1>6 DEF R, N

LEMMA EncodeIsCode ==
  ASSUME NEW n \in Secret
  PROVE  /\ Encode[n] \in Seq(Chars) /\ Len(Encode[n]) = Width
         /\ \A k \in 1 .. Width : /\ Left(n)[Width - k] % Base \in 0 .. Base - 1
                                  /\ Encode[n][k] = Charset[1 + (Left(n)[Width - k] % Base)]
<1>1. n \in Nat /\ Width \in Nat
  BY Sizes
<1>2. Encode[n] = [k \in 1 .. Width |-> Charset[1 + (Left(n)[Width - k] % Base)]]
  BY DEF Encode
<1>3. ASSUME NEW k \in 1 .. Width
      PROVE  /\ Left(n)[Width - k] % Base \in 0 .. Base - 1
             /\ Charset[1 + (Left(n)[Width - k] % Base)] \in Chars
  <2>1. Width - k \in 0 .. Width
    BY <1>1
  <2>2. Left(n)[Width - k] \in Nat
    BY <1>1, <2>1, LeftLoop
  <2> DEFINE d == Left(n)[Width - k] % Base
  <2>3. d \in 0 .. Base - 1
    BY <2>2, Division, Sizes
  <2> HIDE DEF d
  <2>4. Charset[d + 1] \in Chars /\ 1 + d = d + 1
    BY <2>3, DigitOf
  <2> QED
    BY <2>3, <2>4, Zenon DEF d
<1> QED
  BY <1>1, <1>2, <1>3

(* Reading a text is writing it backwards: what is read of it after its    *)
(* first Width - k characters is what is left of its value after k.        *)
LEMMA ReadIsLeft ==
  ASSUME NEW text \in Seq(Chars), Len(text) = Width
  PROVE  \A k \in 0 .. Width : Left(Value(text))[k] = Read(text)[Width - k]
<1> DEFINE n == Value(text)
           S == {k \in Nat : Left(n)[k] = Read(text)[Width - k]}
<1>1. Width \in Nat /\ n \in Nat /\ n = Read(text)[Width]
  BY ReadLoop, Sizes DEF Value
<1>2. 0 \in S
  BY <1>1, LeftLoop
<1>3. ASSUME NEW k \in 0 .. Width - 1, k \in S PROVE k + 1 \in S
  <2> DEFINE i == Width - k
  <2>1. /\ i \in 1 .. Width /\ i - 1 \in 0 .. Width /\ k + 1 \in 1 .. Width
        /\ Width - (k + 1) = i - 1 /\ k + 1 - 1 = k /\ k + 1 \in Nat
    BY <1>1
  <2>2. Left(n)[k + 1] = Left(n)[k] \div Base
    <3> HIDE DEF n
    <3> QED
      BY <1>1, <2>1, LeftLoop
  <2>3. Left(n)[k] = Read(text)[i]
    BY <1>3
  <2> HIDE DEF i, n
  <2>4. /\ Read(text)[i - 1] \in Nat
        /\ Read(text)[i] = Read(text)[i - 1] * Base + Digit(text[i])
    BY <2>1, ReadLoop
  <2>5. Digit(text[i]) \in 0 .. Base - 1
    BY <2>1, DigitOf, ElementOfSeq
  <2>6. Read(text)[i] \div Base = Read(text)[i - 1]
    <3>1. (Read(text)[i - 1] * Base + Digit(text[i])) \div Base = Read(text)[i - 1]
      BY <2>4, <2>5, MultipleDivides, Sizes
    <3> QED
      BY <2>4, <3>1
  <2> QED
    BY <2>1, <2>2, <2>3, <2>6
<1> HIDE DEF S
<1>4. \A k \in 0 .. Width : k \in S
  BY <1>1, <1>2, <1>3, Induction
<1> QED
  BY <1>4 DEF S

(* A text that decodes to a secret is the code of that secret.             *)
LEMMA DecodedIsEncoded ==
  ASSUME NEW text \in Seq(Chars), NEW n \in Secret, Decodes(text, n)
  PROVE  text = Encode[n]
<1>1. Len(text) = Width /\ Value(text) = n /\ Width \in Nat
  BY Sizes DEF Decodes, IsWhole
<1>2. ASSUME NEW k \in 1 .. Width PROVE text[k] = Encode[n][k]
  <2> DEFINE d == Digit(text[k])
             x == Read(text)[k - 1]
  <2>1. d \in 0 .. Base - 1 /\ Charset[d + 1] = text[k]
    BY <1>1, DigitOf, ElementOfSeq
  <2> HIDE DEF d
  <2>2. x \in Nat /\ Read(text)[k] = x * Base + d
    <3>1. k \in 1 .. Len(text) /\ k - 1 \in 0 .. Len(text)
      BY <1>1
    <3> QED
      BY <3>1, ReadLoop DEF d
  <2> HIDE DEF x
  <2>3. Width - k \in 0 .. Width /\ Width - (Width - k) = k
    BY <1>1
  <2>4. Left(n)[Width - k] = Read(text)[k]
    BY <1>1, <2>3, ReadIsLeft
  <2>5. (x * Base + d) % Base = d
    BY <2>1, <2>2, MultipleDivides, Sizes
  <2>6. Left(n)[Width - k] % Base = d
    BY <2>2, <2>4, <2>5
  <2>7. Encode[n][k] = Charset[1 + d] /\ 1 + d = d + 1
    BY <2>1, <2>6, EncodeIsCode
  <2> QED
    BY <2>1, <2>7
<1>3. Encode[n] \in Seq(Chars) /\ Len(Encode[n]) = Width
  BY EncodeIsCode
<1> DEFINE code == Encode[n]
<1>4. \A k \in 1 .. Len(text) : text[k] = code[k]
  BY <1>1, <1>2
<1>5. code \in Seq(Chars) /\ Len(code) = Len(text)
  BY <1>1, <1>3
<1> HIDE DEF code
<1>6. text = code
  BY <1>4, <1>5, SeqEqual
<1> QED
  BY <1>6 DEF code

(* The code of a secret decodes to it.                                     *)
LEMMA EncodedIsDecoded ==
  ASSUME NEW n \in Secret
  PROVE  Value(Encode[n]) = n
<1> DEFINE code == Encode[n]
           S == {k \in Nat : Read(code)[k] = Left(n)[Width - k]}
<1>1. n \in Nat /\ Width \in Nat
  BY Sizes
<1>2. /\ code \in Seq(Chars) /\ Len(code) = Width
      /\ \A k \in 1 .. Width : /\ Left(n)[Width - k] % Base \in 0 .. Base - 1
                               /\ code[k] = Charset[1 + (Left(n)[Width - k] % Base)]
  BY EncodeIsCode
<1> HIDE DEF code
<1>3. 0 \in S
  <2>1. Read(code)[0] = 0
    BY <1>2, ReadLoop
  <2>2. Left(n)[Width] = 0 /\ Width - 0 = Width
    BY <1>1, CodesSuffice
  <2> QED
    BY <2>1, <2>2
<1>4. ASSUME NEW k \in 0 .. Width - 1, k \in S PROVE k + 1 \in S
  <2> DEFINE i == Width - (k + 1)
             x == Left(n)[i]
             d == x % Base
  <2>1. /\ i + 1 = Width - k /\ i + 1 \in 1 .. Width /\ i + 1 - 1 = i /\ i \in 0 .. Width
        /\ k + 1 \in 1 .. Width /\ k + 1 - 1 = k /\ k + 1 \in Nat
    BY <1>1
  <2>2. x \in Nat /\ Left(n)[i + 1] = x \div Base
    <3> HIDE DEF i
    <3> QED
      BY <1>1, <2>1, LeftLoop
  <2>3. d \in 0 .. Base - 1 /\ code[k + 1] = Charset[1 + d]
    BY <1>2, <2>1
  <2> HIDE DEF i, x, d
  <2>4. Digit(code[k + 1]) = d
    <3>1. Digit(Charset[d + 1]) = d /\ 1 + d = d + 1
      BY <2>3, DigitOf
    <3> QED
      BY <2>3, <3>1
  <2>5. Read(code)[k + 1] = Read(code)[k] * Base + d
    <3>1. \A j \in 1 .. Width : Read(code)[j] = Read(code)[j - 1] * Base + Digit(code[j])
      BY <1>2, ReadLoop
    <3>2. Read(code)[k + 1] = Read(code)[k + 1 - 1] * Base + Digit(code[k + 1])
      BY <2>1, <3>1
    <3> QED
      BY <2>1, <2>4, <3>2
  <2>6. Read(code)[k] = x \div Base
    BY <1>4, <2>1, <2>2
  <2>7. x = (x \div Base) * Base + d
    BY <2>2, Division, Sizes DEF d
  <2>8. Read(code)[k + 1] = x
    BY <2>5, <2>6, <2>7
  <2> QED
    BY <2>1, <2>8 DEF x, i
<1> HIDE DEF S
<1>5. Width \in S
  BY <1>1, <1>3, <1>4, Induction
<1>6. Read(code)[Width] = Left(n)[0]
  BY <1>1, <1>5 DEF S
<1> QED
  BY <1>1, <1>2, <1>6, LeftLoop DEF Value, code

(* What is in the fields, one after the other, is a text of the charset.   *)
LEMMA FlattenIsText ==
  ASSUME NEW texts \in [1 .. Groups -> Seq(Chars)]
  PROVE  FlattenSeq(texts) \in Seq(Chars)
<1> DEFINE V == Seq(Chars)
           F == [p \in (1 + 1 .. Groups) \X V |-> p[2] \o texts[p[1]]]
           T == CHOOSE T : T = [i \in 1 .. Groups |->
                                  IF i = 1 THEN texts[i] ELSE T[i - 1] \o texts[i]]
<1>0. /\ Groups \in Nat /\ 1 <= Groups /\ 1 \in Nat /\ texts[1] \in V
      /\ \A i \in 1 .. Groups : texts[i] \in V
  BY Sizes
<1>1. F \in Steps(1, Groups, V)
  BY <1>0, ConcatProperties DEF Steps
<1>2. PICK g : IsRun(g, 1, Groups, V, texts[1], F)
  <2> HIDE DEF F, V
  <2> QED
    BY <1>0, <1>1, LoopRuns
<1>3. g = [i \in 1 .. Groups |-> IF i = 1 THEN texts[i] ELSE g[i - 1] \o texts[i]]
  <2>1. ASSUME NEW i \in 1 .. Groups
        PROVE  g[i] = IF i = 1 THEN texts[i] ELSE g[i - 1] \o texts[i]
    <3>1. CASE i = 1
      BY <1>2, <3>1 DEF IsRun
    <3>2. CASE i # 1
      <4>1. i \in 1 + 1 .. Groups /\ g[i - 1] \in V
        BY <1>0, <1>2, <3>2 DEF IsRun
      <4> QED
        BY <1>2, <3>2, <4>1 DEF IsRun
    <3> QED
      BY <3>1, <3>2
  <2> QED
    BY <1>2, <2>1 DEF IsRun
<1>4. T = [i \in 1 .. Groups |-> IF i = 1 THEN texts[i] ELSE T[i - 1] \o texts[i]]
  BY <1>3
<1>5. Len(texts) = Groups
  BY <1>0
<1>6. FlattenSeq(texts) = T[Groups]
  BY <1>0, <1>5 DEF FlattenSeq
<1> HIDE DEF T, V
<1>7. T[1] \in V /\ \A i \in 1 + 1 .. Groups : T[i] = T[i - 1] \o texts[i]
  <2>1. T[1] = texts[1]
    BY <1>0, <1>4
  <2>2. ASSUME NEW i \in 1 + 1 .. Groups PROVE T[i] = T[i - 1] \o texts[i]
    <3>1. i \in 1 .. Groups /\ i # 1
      OBVIOUS
    <3> QED
      BY <1>4, <3>1
  <2> QED
    BY <1>0, <2>1, <2>2
<1>8. \A i \in 1 .. Groups : T[i] \in V
  <2>1. ASSUME NEW i \in 1 + 1 .. Groups, T[i - 1] \in V PROVE T[i] \in V
    <3>1. T[i - 1] \in Seq(Chars) /\ texts[i] \in Seq(Chars)
      BY <1>0, <2>1 DEF V
    <3> QED
      BY <1>7, <3>1, ConcatProperties DEF V
  <2> QED
    BY <1>0, <1>7, <2>1, LoopKeeps
<1> QED
  BY <1>0, <1>6, <1>8 DEF V
-----------------------------------------------------------------------------
(***************************************************************************)
(* What the dialog makes of a text.                                        *)
(***************************************************************************)

(* The loop of a filter.                                                   *)
LEMMA KeptLoop ==
  ASSUME NEW seq, Len(seq) \in Nat, NEW S
  PROVE  \E K : /\ K[0] = <<>> /\ Kept(seq, S) = K[Len(seq)]
                /\ \A k \in 0 .. Len(seq) : K[k] \in Seq(S)
                /\ \A k \in 1 .. Len(seq) :
                     K[k] = IF seq[k] \in S THEN Append(K[k - 1], seq[k]) ELSE K[k - 1]
<1> DEFINE N == Len(seq)
           V == Seq(S)
           F == [p \in (0 + 1 .. N) \X V |->
                   IF seq[p[1]] \in S THEN Append(p[2], seq[p[1]]) ELSE p[2]]
           K == CHOOSE K : K = [k \in 0 .. N |->
                  IF k = 0 THEN <<>>
                  ELSE IF seq[k] \in S THEN Append(K[k - 1], seq[k]) ELSE K[k - 1]]
<1>0. <<>> \in V /\ N \in Nat /\ 0 <= N /\ 0 \in Nat
  OBVIOUS
<1>1. F \in Steps(0, N, V)
  BY AppendProperties DEF Steps
<1>2. PICK g : IsRun(g, 0, N, V, <<>>, F)
  <2> HIDE DEF F, V, N
  <2> QED
    BY <1>0, <1>1, LoopRuns
<1>3. g = [k \in 0 .. N |->
             IF k = 0 THEN <<>>
             ELSE IF seq[k] \in S THEN Append(g[k - 1], seq[k]) ELSE g[k - 1]]
  <2>1. ASSUME NEW k \in 0 .. N
        PROVE  g[k] = IF k = 0 THEN <<>>
                      ELSE IF seq[k] \in S THEN Append(g[k - 1], seq[k]) ELSE g[k - 1]
    <3>1. CASE k = 0
      BY <1>2, <3>1 DEF IsRun
    <3>2. CASE k # 0
      <4>1. k \in 0 + 1 .. N /\ g[k - 1] \in V
        BY <1>0, <1>2, <3>2 DEF IsRun
      <4> QED
        BY <1>2, <3>2, <4>1 DEF IsRun
    <3> QED
      BY <3>1, <3>2
  <2> QED
    BY <1>2, <2>1 DEF IsRun
<1>4. K = [k \in 0 .. N |->
             IF k = 0 THEN <<>>
             ELSE IF seq[k] \in S THEN Append(K[k - 1], seq[k]) ELSE K[k - 1]]
  BY <1>3
<1>5. Kept(seq, S) = K[N]
  BY DEF Kept
<1> HIDE DEF K, V, N
<1>6. /\ K[0] = <<>>
      /\ \A k \in 1 .. N :
           K[k] = IF seq[k] \in S THEN Append(K[k - 1], seq[k]) ELSE K[k - 1]
  <2>1. K[0] = <<>>
    BY <1>0, <1>4
  <2>2. ASSUME NEW k \in 1 .. N
        PROVE  K[k] = IF seq[k] \in S THEN Append(K[k - 1], seq[k]) ELSE K[k - 1]
    <3>1. k \in 0 .. N /\ k # 0
      OBVIOUS
    <3> QED
      BY <1>4, <3>1
  <2> QED
    BY <2>1, <2>2
<1>7. \A k \in 0 .. N : K[k] \in V
  <2>1. ASSUME NEW k \in 0 + 1 .. N, K[k - 1] \in V PROVE K[k] \in V
    <3>1. ASSUME seq[k] \in S PROVE Append(K[k - 1], seq[k]) \in V
      BY <2>1, <3>1, AppendProperties DEF V
    <3> QED
      BY <1>6, <2>1, <3>1
  <2>2. K[0] \in V
    BY <1>0, <1>6
  <2> QED
    BY <1>0, <2>1, <2>2, LoopKeeps
<1> QED
  BY <1>5, <1>6, <1>7 DEF N, V

LEMMA KeptIsText ==
  ASSUME NEW seq, Len(seq) \in Nat, NEW S
  PROVE  Kept(seq, S) \in Seq(S)
BY KeptLoop

(* A sequence is made of its prefixes, one element at a time.              *)
LEMMA PrefixesGrow ==
  ASSUME NEW X, NEW x \in Seq(X)
  PROVE  /\ SubSeq(x, 1, 0) = <<>> /\ SubSeq(x, 1, Len(x)) = x
         /\ \A k \in 1 .. Len(x) : SubSeq(x, 1, k) = Append(SubSeq(x, 1, k - 1), x[k])
         /\ \A k \in 0 .. Len(x) : SubSeq(x, 1, k) \in Seq(X)
<1>1. Len(x) \in Nat /\ \A k \in 1 .. Len(x) : x[k] \in X
  BY LenProperties, ElementOfSeq
<1>2. \A k \in 0 .. Len(x) : SubSeq(x, 1, k) \in Seq(X)
  <2> SUFFICES ASSUME NEW k \in 0 .. Len(x) PROVE SubSeq(x, 1, k) \in Seq(X)
    OBVIOUS
  <2>1. 1 \in Int /\ k \in Int /\ \A i \in 1 .. k : x[i] \in X
    BY <1>1
  <2> QED
    BY <2>1, SubSeqProperties
<1>3. ASSUME NEW k \in 1 .. Len(x)
      PROVE  SubSeq(x, 1, k) = Append(SubSeq(x, 1, k - 1), x[k])
  <2>1. 1 \in 1 .. Len(x) /\ k \in 1 .. Len(x) /\ k - 1 \in 0 .. Len(x)
    BY <1>1
  <2>2. SubSeq(x, 1, k) = SubSeq(x, 1, k - 1) \o <<x[k]>>
    BY <2>1, SubSeqRecursiveSecond
  <2>3. SubSeq(x, 1, k - 1) \in Seq(X) /\ x[k] \in X
    BY <1>1, <1>2, <2>1
  <2> QED
    BY <2>2, <2>3, AppendIsConcat
<1> QED
  BY <1>2, <1>3, SubSeqFull, SubSeqEmpty

(* A filter leaves a text of what it lets pass as it is.                   *)
LEMMA KeptAll ==
  ASSUME NEW S, NEW t \in Seq(S)
  PROVE  Kept(t, S) = t
<1> DEFINE N == Len(t)
           P == [k \in 0 .. N |-> SubSeq(t, 1, k)]
<1>0. N \in Nat /\ \A k \in 1 .. N : t[k] \in S
  BY LenProperties, ElementOfSeq
<1>1. PICK K : /\ K[0] = <<>> /\ Kept(t, S) = K[N]
               /\ \A k \in 1 .. N :
                    K[k] = IF t[k] \in S THEN Append(K[k - 1], t[k]) ELSE K[k - 1]
  BY <1>0, KeptLoop
<1>2. P[0] = <<>> /\ P[N] = t /\ \A k \in 1 .. N : P[k] = Append(P[k - 1], t[k])
  <2>1. SubSeq(t, 1, 0) = <<>> /\ SubSeq(t, 1, N) = t
    BY PrefixesGrow
  <2>2. \A k \in 1 .. N : SubSeq(t, 1, k) = Append(SubSeq(t, 1, k - 1), t[k])
    BY PrefixesGrow
  <2> QED
    BY <1>0, <2>1, <2>2
<1> HIDE DEF N, P
<1> DEFINE T == {k \in Nat : K[k] = P[k]}
<1>3. 0 \in T
  BY <1>1, <1>2
<1>4. ASSUME NEW k \in 0 .. N - 1, k \in T PROVE k + 1 \in T
  <2>1. k + 1 \in 1 .. N /\ k + 1 - 1 = k /\ k + 1 \in Nat
    BY <1>0
  <2>2. K[k + 1] = Append(K[k], t[k + 1])
    <3>1. t[k + 1] \in S
      BY <1>0, <2>1
    <3>2. K[k + 1] = IF t[k + 1] \in S THEN Append(K[k + 1 - 1], t[k + 1]) ELSE K[k + 1 - 1]
      BY <1>1, <2>1
    <3> QED
      BY <2>1, <3>1, <3>2
  <2>3. P[k + 1] = Append(P[k], t[k + 1])
    BY <1>2, <2>1
  <2> QED
    BY <1>4, <2>1, <2>2, <2>3
<1> HIDE DEF T
<1>5. N \in T
  <2>1. N \in Nat /\ N \in 0 .. N
    BY <1>0
  <2>2. \A k \in 0 .. N : k \in T
    BY <1>3, <1>4, <2>1, Induction
  <2> QED
    BY <2>1, <2>2
<1> QED
  BY <1>1, <1>2, <1>5 DEF T

(* ... and takes away what comes before, if it does not let it pass.       *)
LEMMA KeptRest ==
  ASSUME NEW S, NEW t \in Seq(S), NEW c, c \notin S
  PROVE  Kept(<<c>> \o t, S) = t
<1> DEFINE s == <<c>> \o t
           N == Len(t)
           P == [k \in 0 .. N |-> SubSeq(t, 1, k)]
<1>0. N \in Nat /\ \A k \in 1 .. N : t[k] \in S
  BY LenProperties, ElementOfSeq
<1>1. Len(s) = 1 + N /\ s[1] = c /\ \A k \in 1 .. N : s[k + 1] = t[k]
  <2> DEFINE U == S \union {c}
  <2>1. <<c>> \in Seq(U) /\ t \in Seq(U) /\ Len(<<c>>) = 1 /\ <<c>>[1] = c
    BY SeqMonotonic
  <2> HIDE DEF U
  <2>2. /\ Len(s) = Len(<<c>>) + Len(t)
        /\ \A i \in 1 .. Len(<<c>>) + Len(t) :
             s[i] = IF i <= Len(<<c>>) THEN <<c>>[i] ELSE t[i - Len(<<c>>)]
    BY <2>1, ConcatProperties
  <2> HIDE DEF s
  <2> QED
    BY <1>0, <2>1, <2>2
<1>2. P[0] = <<>> /\ P[N] = t /\ \A k \in 1 .. N : P[k] = Append(P[k - 1], t[k])
  <2>1. SubSeq(t, 1, 0) = <<>> /\ SubSeq(t, 1, N) = t
    BY PrefixesGrow
  <2>2. \A k \in 1 .. N : SubSeq(t, 1, k) = Append(SubSeq(t, 1, k - 1), t[k])
    BY PrefixesGrow
  <2> QED
    BY <1>0, <2>1, <2>2
<1> HIDE DEF s, N, P
<1>3. PICK K : /\ K[0] = <<>> /\ Kept(s, S) = K[Len(s)]
               /\ \A k \in 1 .. Len(s) :
                    K[k] = IF s[k] \in S THEN Append(K[k - 1], s[k]) ELSE K[k - 1]
  <2>1. Len(s) \in Nat
    BY <1>0, <1>1
  <2> QED
    BY <2>1, KeptLoop
<1> DEFINE T == {k \in Nat : K[k + 1] = P[k]}
<1>4. 0 \in T
  <2>1. 1 \in 1 .. Len(s) /\ s[1] \notin S
    BY <1>0, <1>1
  <2>2. K[1] = K[0]
    BY <1>3, <2>1
  <2> QED
    BY <1>2, <1>3, <2>2
<1>5. ASSUME NEW k \in 0 .. N - 1, k \in T PROVE k + 1 \in T
  <2>1. /\ k + 1 \in 1 .. N /\ k + 1 - 1 = k /\ k + 1 \in Nat
        /\ k + 1 + 1 \in 1 .. Len(s) /\ k + 1 + 1 - 1 = k + 1
    BY <1>0, <1>1
  <2>2. s[k + 1 + 1] = t[k + 1] /\ s[k + 1 + 1] \in S
    BY <1>0, <1>1, <2>1
  <2>3. K[k + 1 + 1] = Append(K[k + 1 + 1 - 1], s[k + 1 + 1])
    <3>1. K[k + 1 + 1] = IF s[k + 1 + 1] \in S THEN Append(K[k + 1 + 1 - 1], s[k + 1 + 1])
                         ELSE K[k + 1 + 1 - 1]
      BY <1>3, <2>1
    <3> QED
      BY <2>2, <3>1
  <2>4. P[k + 1] = Append(P[k], t[k + 1])
    <3>1. P[k + 1] = Append(P[k + 1 - 1], t[k + 1])
      BY <1>2, <2>1
    <3> QED
      BY <2>1, <3>1
  <2>5. K[k + 1] = P[k]
    BY <1>5
  <2>6. K[k + 1 + 1] = P[k + 1]
    BY <2>1, <2>2, <2>3, <2>4, <2>5
  <2> QED
    BY <2>1, <2>6
<1> HIDE DEF T
<1>6. N \in T
  <2>1. N \in Nat /\ N \in 0 .. N
    BY <1>0
  <2>2. \A k \in 0 .. N : k \in T
    BY <1>4, <1>5, <2>1, Induction
  <2> QED
    BY <2>1, <2>2
<1>7. K[N + 1] = t /\ Len(s) = N + 1
  BY <1>0, <1>1, <1>2, <1>6 DEF T
<1> QED
  BY <1>3, <1>7 DEF s

LEMMA FrontLast ==
  ASSUME NEW X, NEW u \in Seq(X), u # <<>>
  PROVE  Front(u) \in Seq(X) /\ Last(u) \in X
<1>1. Len(u) \in Nat /\ Len(u) \in 1 .. Len(u)
  BY EmptySeq
<1>2. \A i \in 1 .. Len(u) - 1 : u[i] \in X
  BY <1>1, ElementOfSeq
<1>3. 1 \in Int /\ Len(u) - 1 \in Int
  BY <1>1
<1> QED
  BY <1>1, <1>2, <1>3, ElementOfSeq, SubSeqProperties DEF Front, Last

LEMMA FrontLastOfAppend ==
  ASSUME NEW X, NEW u \in Seq(X), NEW e \in X
  PROVE  Front(Append(u, e)) = u /\ Last(Append(u, e)) = e
<1> DEFINE a == Append(u, e)
<1>1. /\ a \in Seq(X) /\ Len(a) = Len(u) + 1 /\ Len(u) \in Nat
      /\ (\A i \in 1 .. Len(u) : a[i] = u[i]) /\ a[Len(u) + 1] = e
  BY AppendProperties, LenProperties
<1> HIDE DEF a
<1>2. Last(a) = e
  BY <1>1 DEF Last
<1>3. /\ Front(a) \in Seq(X) /\ Len(Front(a)) = Len(u)
      /\ \A i \in 1 .. Len(u) : Front(a)[i] = u[i]
  <2>1. 1 \in Int /\ Len(u) \in Int /\ \A i \in 1 .. Len(u) : a[i] \in X
    BY <1>1, ElementOfSeq
  <2>2. Front(a) = SubSeq(a, 1, Len(u))
    BY <1>1 DEF Front
  <2>3. /\ SubSeq(a, 1, Len(u)) \in Seq(X)
        /\ Len(SubSeq(a, 1, Len(u))) = IF 1 <= Len(u) THEN Len(u) - 1 + 1 ELSE 0
        /\ \A i \in 1 .. Len(u) - 1 + 1 : SubSeq(a, 1, Len(u))[i] = a[1 + i - 1]
    BY <2>1, SubSeqProperties
  <2> QED
    BY <1>1, <2>2, <2>3
<1>4. Front(a) = u
  BY <1>3, SeqEqual
<1> QED
  BY <1>2, <1>4 DEF a

(* One turn of the loop that divides a text at its dashes.                 *)
SplitMore(pieces, c) ==
  IF c = "-" THEN Append(pieces, <<>>)
  ELSE Append(Front(pieces), Append(Last(pieces), c))

LEMMA SplitMoreIsText ==
  ASSUME NEW X, NEW p \in Seq(Seq(X)) \ {<<>>}, NEW c \in X
  PROVE  SplitMore(p, c) \in Seq(Seq(X)) \ {<<>>}
<1> DEFINE W == Seq(X)
<1>1. Front(p) \in Seq(W) /\ Last(p) \in Seq(X) /\ <<>> \in W
  BY FrontLast
<1>2. Append(Last(p), c) \in W
  BY <1>1, AppendProperties
<1> HIDE DEF W
<1>3. p \in Seq(W)
  BY DEF W
<1>4. ASSUME NEW s \in Seq(W), NEW e \in W
      PROVE  Append(s, e) \in Seq(W) /\ Append(s, e) # <<>>
  BY AppendProperties
<1>5. Append(p, <<>>) \in Seq(W) /\ Append(p, <<>>) # <<>>
  BY <1>1, <1>3, <1>4
<1>6. /\ Append(Front(p), Append(Last(p), c)) \in Seq(W)
      /\ Append(Front(p), Append(Last(p), c)) # <<>>
  BY <1>1, <1>2, <1>4
<1> QED
  BY <1>5, <1>6 DEF SplitMore, W

IsSplit(P, text, X) ==
  /\ P[0] = << <<>> >> /\ Split(text) = P[Len(text)]
  /\ \A k \in 0 .. Len(text) : P[k] \in Seq(Seq(X)) \ {<<>>}
  /\ \A k \in 1 .. Len(text) : P[k] = SplitMore(P[k - 1], text[k])

LEMMA SplitLoop ==
  ASSUME NEW X, NEW text \in Seq(X)
  PROVE  \E P : IsSplit(P, text, X)
<1> DEFINE N == Len(text)
           V == Seq(Seq(X)) \ {<<>>}
           F == [p \in (0 + 1 .. N) \X V |-> SplitMore(p[2], text[p[1]])]
           P == CHOOSE P : P = [k \in 0 .. N |->
                  IF k = 0 THEN << <<>> >>
                  ELSE IF text[k] = "-" THEN Append(P[k - 1], <<>>)
                  ELSE Append(Front(P[k - 1]), Append(Last(P[k - 1]), text[k]))]
<1>0. << <<>> >> \in V /\ N \in Nat /\ 0 <= N /\ 0 \in Nat /\ \A k \in 1 .. N : text[k] \in X
  BY LenProperties, ElementOfSeq
<1>1. F \in Steps(0, N, V)
  <2>1. ASSUME NEW k \in 0 + 1 .. N, NEW p \in V PROVE SplitMore(p, text[k]) \in V
    <3>1. text[k] \in X
      BY <1>0
    <3> QED
      BY <3>1, SplitMoreIsText
  <2> HIDE DEF V
  <2> QED
    BY <2>1 DEF Steps
<1>2. PICK g : IsRun(g, 0, N, V, << <<>> >>, F)
  <2> HIDE DEF F, V, N
  <2> QED
    BY <1>0, <1>1, LoopRuns
<1>3. g = [k \in 0 .. N |->
             IF k = 0 THEN << <<>> >>
             ELSE IF text[k] = "-" THEN Append(g[k - 1], <<>>)
             ELSE Append(Front(g[k - 1]), Append(Last(g[k - 1]), text[k]))]
  <2> HIDE DEF V
  <2>1. ASSUME NEW k \in 0 .. N
        PROVE  g[k] = IF k = 0 THEN << <<>> >> ELSE SplitMore(g[k - 1], text[k])
    <3>1. CASE k = 0
      BY <1>2, <3>1 DEF IsRun
    <3>2. CASE k # 0
      <4>1. k \in 0 + 1 .. N /\ g[k - 1] \in V
        BY <1>0, <1>2, <3>2 DEF IsRun
      <4> QED
        BY <1>2, <3>2, <4>1 DEF IsRun
    <3> QED
      BY <3>1, <3>2
  <2> QED
    BY <1>2, <2>1 DEF IsRun, SplitMore
<1>4. P = [k \in 0 .. N |->
             IF k = 0 THEN << <<>> >>
             ELSE IF text[k] = "-" THEN Append(P[k - 1], <<>>)
             ELSE Append(Front(P[k - 1]), Append(Last(P[k - 1]), text[k]))]
  BY <1>3
<1>5. Split(text) = P[N]
  BY DEF Split
<1> HIDE DEF P, V, N
<1>6. P[0] = << <<>> >> /\ \A k \in 1 .. N : P[k] = SplitMore(P[k - 1], text[k])
  <2>1. P[0] = << <<>> >>
    BY <1>0, <1>4
  <2>2. ASSUME NEW k \in 1 .. N PROVE P[k] = SplitMore(P[k - 1], text[k])
    <3>1. k \in 0 .. N /\ k # 0
      OBVIOUS
    <3> QED
      BY <1>4, <3>1 DEF SplitMore
  <2> QED
    BY <2>1, <2>2
<1>7. \A k \in 0 .. N : P[k] \in V
  <2>1. ASSUME NEW k \in 0 + 1 .. N, P[k - 1] \in V PROVE P[k] \in V
    <3>1. text[k] \in X /\ P[k] = SplitMore(P[k - 1], text[k])
      BY <1>0, <1>6
    <3> QED
      BY <2>1, <3>1, SplitMoreIsText DEF V
  <2>2. P[0] \in V
    BY <1>0, <1>6
  <2> QED
    BY <1>0, <2>1, <2>2, LoopKeeps
<1>8. IsSplit(P, text, X)
  BY <1>5, <1>6, <1>7 DEF N, V, IsSplit
<1> QED
  BY <1>8

LEMMA CharsAreLetters ==
  /\ Chars \subseteq Alphabet \ {"-", " "} /\ {"-", " "} \subseteq Alphabet
  /\ \A c \in Alphabet : Upper[c] \in Alphabet
  /\ \A c \in Chars \union {"-"} : Upper[c] = c
<1>1. \A d \in 1 .. Len(Charset) : Charset[d] \in Alphabet \ {"-", " "}
  BY CharsetAssumption, ElementOfSeq
<1>2. Len(Charset) \in Nat /\ DOMAIN Charset = 1 .. Len(Charset)
  BY CharsetAssumption, LenProperties
<1>3. Chars \subseteq Alphabet \ {"-", " "}
  BY <1>1, <1>2 DEF Chars, ToSet
<1> QED
  BY <1>3, UpperAssumption

LEMMA UpperIsText ==
  ASSUME NEW text \in Seq(Alphabet)
  PROVE  /\ InUpper(text) \in Seq(Alphabet) /\ Len(InUpper(text)) = Len(text)
         /\ \A k \in 1 .. Len(text) : InUpper(text)[k] = Upper[text[k]]
<1>1. /\ Len(text) \in Nat /\ DOMAIN text = 1 .. Len(text)
      /\ \A k \in 1 .. Len(text) : text[k] \in Alphabet
  BY LenProperties, ElementOfSeq
<1>2. \A k \in 1 .. Len(text) : Upper[text[k]] \in Alphabet
  BY <1>1, CharsAreLetters
<1>3. InUpper(text) = [k \in 1 .. Len(text) |-> Upper[text[k]]]
  BY <1>1 DEF InUpper
<1> QED
  BY <1>1, <1>2, <1>3

LEMMA FilteredIsText ==
  ASSUME NEW text \in Seq(Alphabet)
  PROVE  Filtered(text) \in Seq(Chars)
<1>1. Len(InUpper(text)) \in Nat
  BY UpperIsText, LenProperties
<1> QED
  BY <1>1, KeptIsText DEF Filtered

LEMMA CutIsText ==
  ASSUME NEW X, NEW text \in Seq(X)
  PROVE  Cut(text) \in Seq(X)
<1> DEFINE n == Lesser(Len(text), GroupLen)
<1>1. n \in 0 .. Len(text) /\ n \in Int /\ 1 \in Int
  BY LenProperties, Sizes DEF Lesser
<1>2. \A k \in 1 .. n : text[k] \in X
  BY <1>1, LenProperties, ElementOfSeq
<1> HIDE DEF n
<1>3. SubSeq(text, 1, n) \in Seq(X)
  BY <1>1, <1>2, SubSeqProperties
<1> QED
  BY <1>3 DEF Cut, n

(* What the trace leaves in a field.                                       *)
LEMMA EditedIsText ==
  ASSUME NEW text \in Seq(Alphabet)
  PROVE  (IF Filtered(text) # text THEN Filtered(text) ELSE Cut(text)) \in Seq(Chars)
<1>1. Filtered(text) \in Seq(Chars)
  BY FilteredIsText
<1>2. ASSUME text \in Seq(Chars) PROVE Cut(text) \in Seq(Chars)
  BY <1>2, CutIsText
<1> QED
  BY <1>1, <1>2, Zenon

(* A code that is kept in lower case is found again in upper case.         *)
LEMMA LowerIsText ==
  ASSUME NEW text \in Seq(Chars \union {"-"})
  PROVE  /\ InLower(text) \in Seq(Alphabet) /\ Len(InLower(text)) = Len(text)
         /\ InUpper(InLower(text)) = text
<1> DEFINE low == InLower(text)
           Lower(c) == IF \E a \in Alphabet : a # c /\ Upper[a] = c
                         THEN CHOOSE a \in Alphabet : a # c /\ Upper[a] = c ELSE c
<1>1. /\ Len(text) \in Nat /\ DOMAIN text = 1 .. Len(text)
      /\ \A k \in 1 .. Len(text) : text[k] \in Chars \union {"-"}
  BY LenProperties, ElementOfSeq
<1>2. \A c \in Chars \union {"-"} : Lower(c) \in Alphabet /\ Upper[Lower(c)] = c
  BY CharsAreLetters
<1>3. low = [k \in 1 .. Len(text) |-> Lower(text[k])]
  BY <1>1 DEF InLower
<1> HIDE DEF Lower, low
<1>4. low \in Seq(Alphabet) /\ Len(low) = Len(text)
  BY <1>1, <1>2, <1>3
<1>5. /\ InUpper(low) \in Seq(Alphabet) /\ Len(InUpper(low)) = Len(text)
      /\ \A k \in 1 .. Len(text) : InUpper(low)[k] = text[k]
  <2>1. ASSUME NEW k \in 1 .. Len(text) PROVE Upper[low[k]] = text[k]
    BY <1>1, <1>2, <1>3
  <2> QED
    BY <1>4, <2>1, UpperIsText
<1>6. text \in Seq(Alphabet)
  <2>1. Chars \union {"-"} \subseteq Alphabet
    BY CharsAreLetters
  <2> QED
    BY <2>1, SeqMonotonic
<1>7. InUpper(low) = text
  BY <1>1, <1>5, <1>6, SeqEqual
<1> QED
  BY <1>4, <1>7 DEF low

(* Upper case changes nothing in a code.                                   *)
LEMMA UpperOfCode ==
  ASSUME NEW text \in Seq(Chars \union {"-"})
  PROVE  text \in Seq(Alphabet) /\ InUpper(text) = text
<1>1. /\ Len(text) \in Nat
      /\ \A k \in 1 .. Len(text) : text[k] \in Chars \union {"-"}
  BY LenProperties, ElementOfSeq
<1>2. text \in Seq(Alphabet)
  <2>1. Chars \union {"-"} \subseteq Alphabet
    BY CharsAreLetters
  <2> QED
    BY <2>1, SeqMonotonic
<1>3. /\ InUpper(text) \in Seq(Alphabet) /\ Len(InUpper(text)) = Len(text)
      /\ \A k \in 1 .. Len(text) : InUpper(text)[k] = Upper[text[k]]
  BY <1>2, UpperIsText
<1>4. \A k \in 1 .. Len(text) : InUpper(text)[k] = text[k]
  BY <1>1, <1>3, CharsAreLetters
<1> QED
  BY <1>2, <1>3, <1>4, SeqEqual

LEMMA ChunksAreTexts ==
  ASSUME NEW X, NEW text \in Seq(X)
  PROVE  Chunks(text) \in Seq(Seq(X))
<1> DEFINE N == (Len(text) + GroupLen - 1) \div GroupLen
<1>1. Len(text) \in Nat /\ GroupLen \in Nat \ {0}
  BY Sizes, LenProperties
<1>2. N \in Nat
  <2>1. Len(text) + GroupLen - 1 \in Nat
    BY <1>1
  <2> QED
    BY <1>1, <2>1, Division
<1>3. ASSUME NEW g \in 1 .. N
      PROVE  SubSeq(text, (g - 1) * GroupLen + 1, Lesser(g * GroupLen, Len(text))) \in Seq(X)
  <2> DEFINE a == (g - 1) * GroupLen + 1
             z == Lesser(g * GroupLen, Len(text))
  <2>0. g \in Nat /\ g - 1 \in Nat
    BY <1>2
  <2>1. a \in Nat \ {0}
    <3>1. (g - 1) * GroupLen + 0 \in Nat
      BY <1>1, <2>0, Multiple
    <3> QED
      BY <1>1, <2>0, <3>1
  <2>2. z \in Int /\ z <= Len(text)
    <3>1. g * GroupLen + 0 \in Nat
      BY <1>1, <2>0, Multiple
    <3> DEFINE e == g * GroupLen
    <3>2. e \in Nat
      BY <1>1, <2>0, <3>1
    <3> HIDE DEF e
    <3>3. Lesser(e, Len(text)) \in Int /\ Lesser(e, Len(text)) <= Len(text)
      BY <1>1, <3>2 DEF Lesser
    <3> QED
      BY <3>3 DEF e
  <2> HIDE DEF a, z
  <2>3. \A k \in a .. z : text[k] \in X
    BY <1>1, <2>1, <2>2, ElementOfSeq
  <2>4. SubSeq(text, a, z) \in Seq(X)
    BY <2>1, <2>2, <2>3, SubSeqProperties
  <2> QED
    BY <2>4 DEF a, z
<1>4. Chunks(text) = [g \in 1 .. N |->
         SubSeq(text, (g - 1) * GroupLen + 1, Lesser(g * GroupLen, Len(text)))]
  BY DEF Chunks
<1> HIDE DEF N
<1> QED
  BY <1>2, <1>3, <1>4

(* A code falls into whole groups.                                         *)
LEMMA Slices ==
  ASSUME NEW b \in Nat \ {0}, NEW q \in Nat, NEW g \in 1 .. q
  PROVE  /\ (g - 1) * b \in Nat /\ g * b = (g - 1) * b + b /\ g * b <= q * b
<1>1. (g - 1) * b + 0 \in Nat /\ (q - g) * b + 0 \in Nat
  <2>1. g - 1 \in Nat /\ q - g \in Nat
    OBVIOUS
  <2> QED
    BY <2>1, Multiple
<1>2. g * b = (g - 1) * b + b /\ q * b = (q - g) * b + g * b
  OBVIOUS
<1>3. g * b + 0 \in Nat
  <2>1. g \in Nat
    OBVIOUS
  <2> QED
    BY <2>1, Multiple
<1> QED
  BY <1>1, <1>2, <1>3

LEMMA CodeInGroups ==
  ASSUME NEW n \in Secret
  PROVE  /\ Chunks(Encode[n]) \in Seq(Seq(Chars)) /\ Len(Chunks(Encode[n])) = Groups
         /\ \A g \in 1 .. Groups : /\ Chunks(Encode[n])[g] \in Seq(Chars)
                                   /\ Len(Chunks(Encode[n])[g]) = GroupLen
<1> DEFINE code == Encode[n]
           N == (Len(code) + GroupLen - 1) \div GroupLen
<1>1. /\ code \in Seq(Chars) /\ Len(code) = Groups * GroupLen
      /\ Groups \in Nat \ {0} /\ GroupLen \in Nat \ {0} /\ Len(code) \in Nat
  BY EncodeIsCode, Sizes
<1> HIDE DEF code
<1>2. N = Groups
  <2>1. (Groups * GroupLen + (GroupLen - 1)) \div GroupLen = Groups
    <3>1. GroupLen - 1 \in 0 .. GroupLen - 1 /\ Groups \in Nat
      BY <1>1
    <3> QED
      BY <1>1, <3>1, MultipleDivides
  <2>2. Len(code) + GroupLen - 1 = Groups * GroupLen + (GroupLen - 1)
    BY <1>1
  <2> QED
    BY <2>1, <2>2, Zenon
<1>3. Chunks(code) = [g \in 1 .. N |->
         SubSeq(code, (g - 1) * GroupLen + 1, Lesser(g * GroupLen, Len(code)))]
  BY DEF Chunks
<1> HIDE DEF N
<1>4. ASSUME NEW g \in 1 .. Groups
      PROVE  Chunks(code)[g] \in Seq(Chars) /\ Len(Chunks(code)[g]) = GroupLen
  <2> DEFINE a == (g - 1) * GroupLen
             z == g * GroupLen
  <2>1. a \in Nat /\ z = a + GroupLen /\ z <= Len(code)
    BY <1>1, Slices
  <2>2. Chunks(code)[g] = SubSeq(code, a + 1, Lesser(z, Len(code)))
    BY <1>2, <1>3
  <2> HIDE DEF a, z
  <2>3. Lesser(z, Len(code)) = z
    BY <1>1, <2>1 DEF Lesser
  <2>4. \A k \in a + 1 .. z : code[k] \in Chars
    BY <1>1, <2>1, ElementOfSeq
  <2>5. a + 1 \in Int /\ z \in Int /\ a + 1 <= z /\ z - (a + 1) + 1 = GroupLen
    BY <1>1, <2>1
  <2>6. /\ SubSeq(code, a + 1, z) \in Seq(Chars)
        /\ Len(SubSeq(code, a + 1, z)) = IF a + 1 <= z THEN z - (a + 1) + 1 ELSE 0
    BY <2>4, <2>5, SubSeqProperties
  <2> QED
    BY <2>2, <2>3, <2>5, <2>6
<1>5. Chunks(code) \in Seq(Seq(Chars)) /\ Len(Chunks(code)) = Groups
  <2>1. Chunks(code) \in Seq(Seq(Chars))
    BY <1>1, ChunksAreTexts
  <2>2. DOMAIN Chunks(code) = 1 .. Groups
    BY <1>2, <1>3
  <2>3. DOMAIN Chunks(code) = 1 .. Len(Chunks(code)) /\ Len(Chunks(code)) \in Nat
    BY <2>1, LenProperties
  <2> QED
    BY <1>1, <2>1, <2>2, <2>3
<1> QED
  BY <1>4, <1>5 DEF code

(* The loop that puts dashes between the groups.                           *)
LEMMA DisplayLoop ==
  ASSUME NEW n \in Secret
  PROVE  \E T : /\ T[1] = Chunks(Encode[n])[1] /\ Display(n) = T[Groups]
                /\ \A g \in 1 .. Groups : T[g] \in Seq(Chars \union {"-"})
                /\ \A g \in 1 + 1 .. Groups :
                     T[g] = T[g - 1] \o <<"-">> \o Chunks(Encode[n])[g]
<1> DEFINE group == Chunks(Encode[n])
           X == Chars \union {"-"}
           V == Seq(X)
           F == [p \in (1 + 1 .. Groups) \X V |-> p[2] \o <<"-">> \o group[p[1]]]
           T == CHOOSE T : T = [g \in 1 .. Groups |->
                             IF g = 1 THEN group[1] ELSE T[g - 1] \o <<"-">> \o group[g]]
<1>0. /\ Groups \in Nat /\ 1 <= Groups /\ 1 \in Nat /\ 1 \in 1 .. Groups
      /\ \A g \in 1 .. Groups : group[g] \in V
  <2>1. \A g \in 1 .. Groups : group[g] \in Seq(Chars)
    BY CodeInGroups
  <2>2. \A g \in 1 .. Groups : group[g] \in V
    <3>1. Chars \subseteq X
      OBVIOUS
    <3> HIDE DEF X
    <3> QED
      BY <2>1, <3>1, SeqMonotonic
  <2> QED
    BY <2>2, Sizes
<1>a. ASSUME NEW s \in V, NEW t \in V PROVE s \o <<"-">> \o t \in V
  <2>1. <<"-">> \in V
    OBVIOUS
  <2> HIDE DEF X
  <2>2. s \o <<"-">> \in V
    BY <2>1, ConcatProperties
  <2> QED
    BY <2>2, ConcatProperties
<1> HIDE DEF group, V, X
<1>1. F \in Steps(1, Groups, V)
  <2>1. \A k \in 1 + 1 .. Groups : k \in 1 .. Groups
    BY <1>0
  <2>2. \A k \in 1 + 1 .. Groups, s \in V : s \o <<"-">> \o group[k] \in V
    BY <1>0, <1>a, <2>1
  <2> QED
    BY <2>2 DEF Steps
<1>2. PICK f : IsRun(f, 1, Groups, V, group[1], F)
  <2> HIDE DEF F
  <2> QED
    BY <1>0, <1>1, LoopRuns
<1>3. f = [g \in 1 .. Groups |->
             IF g = 1 THEN group[1] ELSE f[g - 1] \o <<"-">> \o group[g]]
  <2>1. ASSUME NEW g \in 1 .. Groups
        PROVE  f[g] = IF g = 1 THEN group[1] ELSE f[g - 1] \o <<"-">> \o group[g]
    <3>1. CASE g = 1
      BY <1>2, <3>1 DEF IsRun
    <3>2. CASE g # 1
      <4>1. g \in 1 + 1 .. Groups /\ f[g - 1] \in V
        BY <1>0, <1>2, <3>2 DEF IsRun
      <4> QED
        BY <1>2, <3>2, <4>1 DEF IsRun
    <3> QED
      BY <3>1, <3>2
  <2> QED
    BY <1>2, <2>1 DEF IsRun
<1>4. T = [g \in 1 .. Groups |->
             IF g = 1 THEN group[1] ELSE T[g - 1] \o <<"-">> \o group[g]]
  BY <1>3
<1>5. Display(n) = T[Groups]
  BY DEF Display, group
<1> HIDE DEF T
<1>6. T[1] = group[1]
  BY <1>0, <1>4
<1>7. ASSUME NEW g \in 1 + 1 .. Groups PROVE T[g] = T[g - 1] \o <<"-">> \o group[g]
  <2>1. g \in 1 .. Groups /\ g # 1
    OBVIOUS
  <2> QED
    BY <1>4, <2>1
<1>8. \A g \in 1 .. Groups : T[g] \in V
  <2>1. ASSUME NEW g \in 1 + 1 .. Groups, T[g - 1] \in V PROVE T[g] \in V
    <3>1. g \in 1 .. Groups
      OBVIOUS
    <3>2. group[g] \in V
      BY <1>0, <3>1
    <3> QED
      BY <1>7, <1>a, <2>1, <3>2
  <2>2. T[1] \in V
    BY <1>0, <1>6
  <2> QED
    BY <1>0, <2>1, <2>2, LoopKeeps
<1> QED
  BY <1>5, <1>6, <1>7, <1>8 DEF V, X, group

LEMMA FunctionIsText ==
  ASSUME NEW X, NEW Y, X \subseteq Y, NEW n \in Nat, NEW text \in [1 .. n -> X]
  PROVE  text \in Seq(Y)
<1>1. text \in [1 .. n -> Y]
  OBVIOUS
<1> QED
  BY <1>1

LEMMA Lengths == \A m \in 0 .. MaxText : m \in Nat
BY GroupAssumption

LEMMA ClipsAreTexts == Clips \subseteq Seq(Alphabet)
<1>1. Texts \subseteq Seq(Alphabet)
  <2> SUFFICES ASSUME NEW n \in 0 .. MaxText, NEW text \in [1 .. n -> Alphabet \ {" "}]
               PROVE  text \in Seq(Alphabet)
    BY DEF Texts
  <2>1. Alphabet \ {" "} \subseteq Alphabet
    BY Zenon
  <2>2. n \in Nat
    BY Lengths, Zenon
  <2> QED
    BY <2>1, <2>2, FunctionIsText, Zenon
<1>2. ASSUME NEW n \in Secret PROVE Forms[n] \subseteq Seq(Alphabet)
  <2> DEFINE X == Chars \union {"-"}
  <2>1. Display(n) \in Seq(X)
    <3>1. Groups \in 1 .. Groups
      BY Sizes
    <3> QED
      BY <3>1, DisplayLoop
  <2>2. Encode[n] \in Seq(X)
    <3>1. Chars \subseteq X
      OBVIOUS
    <3> HIDE DEF X
    <3> QED
      BY <3>1, EncodeIsCode, SeqMonotonic
  <2>3. Display(n) \in Seq(Alphabet) /\ Encode[n] \in Seq(Alphabet)
    BY <2>1, <2>2, UpperOfCode
  <2>4. InLower(Display(n)) \in Seq(Alphabet) /\ InLower(Encode[n]) \in Seq(Alphabet)
    BY <2>1, <2>2, LowerIsText
  <2>5. <<" ">> \in Seq(Alphabet)
    <3>1. " " \in Alphabet
      BY CharsAreLetters
    <3>2. \A c \in Alphabet : <<c>> \in Seq(Alphabet)
      OBVIOUS
    <3> QED
      BY <3>1, <3>2, Zenon
  <2>6. <<" ">> \o InLower(Encode[n]) \in Seq(Alphabet)
    BY <2>4, <2>5, ConcatProperties
  <2>7. Forms[n] = {Display(n), Encode[n], InLower(Display(n)), <<" ">> \o InLower(Encode[n])}
    BY DEF Forms
  <2> QED
    BY <2>3, <2>4, <2>6, <2>7
<1> QED
  BY <1>1, <1>2 DEF Clips

LEMMA SplitIsText ==
  ASSUME NEW X, NEW text \in Seq(X)
  PROVE  Split(text) \in Seq(Seq(X)) /\ Len(Split(text)) \in Nat
<1>1. Len(text) \in 0 .. Len(text)
  BY LenProperties
<1>2. Split(text) \in Seq(Seq(X)) \ {<<>>}
  BY <1>1, SplitLoop DEF IsSplit
<1> QED
  BY <1>2, LenProperties

(* The groups of a pasted text are texts.                                  *)
LEMMA PiecesAreTexts ==
  ASSUME NEW clip \in Clips
  PROVE  Pieces[clip] \in Seq(Seq(Alphabet))
<1> DEFINE S == Alphabet \ {" "}
           cleaned == Kept(InUpper(clip), S)
<1>1. cleaned \in Seq(S)
  <2>1. Len(InUpper(clip)) \in Nat
    BY ClipsAreTexts, UpperIsText, LenProperties
  <2> HIDE DEF S
  <2> QED
    BY <2>1, KeptIsText
<1>2. cleaned \in Seq(Alphabet)
  <2>1. S \subseteq Alphabet
    OBVIOUS
  <2> HIDE DEF S, cleaned
  <2> QED
    BY <1>1, <2>1, SeqMonotonic
<1>3. Pieces[clip] = IF "-" \in ToSet(cleaned) THEN Runs(cleaned) ELSE Chunks(cleaned)
  BY DEF Pieces
<1> HIDE DEF cleaned, S
<1>4. Chunks(cleaned) \in Seq(Seq(Alphabet))
  BY <1>2, ChunksAreTexts
<1>5. Runs(cleaned) \in Seq(Seq(Alphabet))
  <2> DEFINE R == Seq(Alphabet) \ {<<>>}
  <2>1. Len(Split(cleaned)) \in Nat
    BY <1>2, SplitIsText
  <2>2. R \subseteq Seq(Alphabet) /\ Runs(cleaned) = Kept(Split(cleaned), R)
    BY DEF Runs
  <2> HIDE DEF R
  <2>3. Runs(cleaned) \in Seq(R)
    BY <2>1, <2>2, KeptIsText
  <2> QED
    BY <2>2, <2>3, SeqMonotonic
<1> QED
  BY <1>3, <1>4, <1>5

LEMMA FilledIsText ==
  ASSUME NEW i \in 1 .. Groups, NEW clip \in Clips, IsCode(clip)
  PROVE  Filled(i, clip) \in [1 .. Groups -> Seq(Chars)]
<1>1. \A g \in 1 .. Groups : Pieces[clip][g] \in Seq(Alphabet)
  BY PiecesAreTexts, ElementOfSeq DEF IsCode
<1>2. \A g \in 1 .. Groups : Filtered(Cut(Pieces[clip][g])) \in Seq(Chars)
  BY <1>1, CutIsText, FilteredIsText
<1> QED
  BY <1>2 DEF Filled

(* A text with another inserted at the cursor.                             *)
LEMMA InsertedIsText ==
  ASSUME NEW text \in Seq(Chars), NEW clip \in Seq(Alphabet), NEW cursor \in 0 .. Len(text)
  PROVE  Inserted(text, cursor, clip) \in Seq(Alphabet)
<1>1. text \in Seq(Alphabet)
  BY CharsAreLetters, SeqMonotonic
<1>2. Len(text) \in Nat
  BY <1>1, LenProperties
<1>3. SubSeq(text, 1, cursor) \in Seq(Alphabet)
  BY <1>1, <1>2, SubSeqProperties
<1>4. SubSeq(text, cursor + 1, Len(text)) \in Seq(Alphabet)
  BY <1>1, <1>2, SubSeqProperties
<1> QED
  BY <1>3, <1>4, ConcatProperties DEF Inserted

(* What is typed into a box leaves a text of the charset in it.            *)
LEMMA EditIsTyped ==
  ASSUME NEW i \in 1 .. Groups, NEW text \in Seq(Alphabet), Edit(i, text),
         fields \in [1 .. Groups -> Seq(Chars)], enabled \in BOOLEAN
  PROVE  fields' \in [1 .. Groups -> Seq(Chars)] /\ enabled' \in BOOLEAN
<1> DEFINE t == IF Filtered(text) # text THEN Filtered(text) ELSE Cut(text)
<1>1. t \in Seq(Chars)
  BY EditedIsText
<1>2. fields' = [fields EXCEPT ![i] = t]
  BY DEF Edit
<1>3. enabled' = IF fields'[i] = text THEN AllValid(fields') ELSE enabled
  BY Zenon DEF Edit
<1>4. AllValid(fields') \in BOOLEAN
  BY DEF AllValid
<1> HIDE DEF t
<1> QED
  BY <1>1, <1>2, <1>3, <1>4

-----------------------------------------------------------------------------

(* A limiter stays one: no wait is negative or longer than MAX_DELAY.      *)
LEMMA LimiterTyped ==
  /\ NewLimiter \in Limiter
  /\ \A lim \in Limiter : RecordFailure(lim) \in Limiter /\ Later(lim) \in Limiter
  /\ \A n \in 0 .. MaxFailures : OneMore(n) \in 0 .. MaxFailures
  /\ \A s \in 0 .. MaxDelay : Lesser(s + 1, MaxDelay) \in 0 .. MaxDelay
<1>1. \A n \in 0 .. MaxFailures : OneMore(n) \in 0 .. MaxFailures
  BY FailureAssumption DEF OneMore, Lesser
<1>2. \A n \in 0 .. MaxFailures : BackOff(n) \in 0 .. MaxDelay
  <2>1. \A n \in 0 .. MaxFailures : 2 ^ n \in Nat
    BY PowerAssumption, Zenon
  <2>2. \A p \in Nat : Lesser(p, MaxDelay) \in 0 .. MaxDelay
    BY DelayAssumption DEF Lesser
  <2> QED
    BY <2>1, <2>2, Zenon DEF BackOff
<1>3. \A s \in 0 .. MaxDelay : Lesser(s + 1, MaxDelay) \in 0 .. MaxDelay
  BY DelayAssumption DEF Lesser
<1>4. NewLimiter \in Limiter
  BY DelayAssumption, FailureAssumption DEF NewLimiter, Limiter
<1>5. ASSUME NEW lim \in Limiter PROVE RecordFailure(lim) \in Limiter
  <2>1. lim.failures \in 0 .. MaxFailures
    BY DEF Limiter
  <2>2. OneMore(lim.failures) \in 0 .. MaxFailures /\ BackOff(OneMore(lim.failures)) \in 0 .. MaxDelay
    BY <1>1, <1>2, <2>1
  <2> QED
    BY <2>2, Zenon DEF RecordFailure, Limiter
<1>6. ASSUME NEW lim \in Limiter PROVE Later(lim) \in Limiter
  BY DelayAssumption DEF Later, Limiter
<1> QED
  BY <1>1, <1>3, <1>4, <1>5, <1>6

LEMMA InitIsTyped == Init => TypeOK
<1> SUFFICES ASSUME Init PROVE TypeOK
  OBVIOUS
<1>1. Cleared \in [1 .. Groups -> Seq(Chars)]
  BY DEF Cleared
<1>2. MaxDelay \in 0 .. MaxDelay /\ 0 \in 0 .. MaxFailures
  BY DelayAssumption, FailureAssumption
<1> QED
  BY <1>1, <1>2, LimiterTyped DEF Init, TypeOK, Place, Answer

LEMMA StepIsTyped == TypeOK /\ [Next]_vars => TypeOK'
<1> SUFFICES ASSUME TypeOK, [Next]_vars PROVE TypeOK'
  OBVIOUS
<1>0. Cleared \in [1 .. Groups -> Seq(Chars)]
  BY DEF Cleared
<1>a. /\ MaxDelay \in 0 .. MaxDelay /\ 0 \in 0 .. MaxDelay /\ 0 \in 0 .. MaxFailures
      /\ \A a \in {"closed", "codes", "password", "recovered", "corrupt"} : a \in Place
      /\ \A a \in {"none", "cancelled", "locked", "invalid", "raised", "unreadable",
                   "corrupt", "wrong", "accepted"} : a \in Answer
      /\ TRUE \in BOOLEAN /\ FALSE \in BOOLEAN
  BY DelayAssumption, FailureAssumption DEF Place, Answer
<1>b. \A lim \in Limiter : lim.failures \in 0 .. MaxFailures
  BY DEF Limiter
<1> USE DEF TypeOK
<1>1. CASE Open
  BY <1>0, <1>a, <1>1 DEF Open, limits, history
<1>2. CASE Blocked
  BY <1>a, <1>2 DEF Blocked, dialog, limits, history
<1>3. CASE Enters
  <2>1. PICK i \in 1 .. Groups : \/ \E text \in Texts : Type(i, text)
                                 \/ \E clip \in Clips : Paste(i, clip)
    BY <1>3 DEF Enters
  <2>2. UNCHANGED <<secret, at, answer, limits, history>>
    BY <2>1 DEF Type, Paste
  <2>3. fields' \in [1 .. Groups -> Seq(Chars)] /\ enabled' \in BOOLEAN
    <3>1. ASSUME NEW text \in Seq(Alphabet), Edit(i, text)
          PROVE  fields' \in [1 .. Groups -> Seq(Chars)] /\ enabled' \in BOOLEAN
      BY <3>1, EditIsTyped
    <3>2. ASSUME NEW text \in Texts, Type(i, text)
          PROVE  fields' \in [1 .. Groups -> Seq(Chars)] /\ enabled' \in BOOLEAN
      <4>1. text \in Seq(Alphabet) /\ Edit(i, text)
        BY <3>2, ClipsAreTexts DEF Type, Clips
      <4> QED
        BY <3>1, <4>1
    <3>3. ASSUME NEW clip \in Clips, Paste(i, clip)
          PROVE  fields' \in [1 .. Groups -> Seq(Chars)] /\ enabled' \in BOOLEAN
      <4>1. CASE ~IsCode(clip)
        <5>1. PICK cursor \in 0 .. Len(fields[i]) :
                Edit(i, Inserted(fields[i], cursor, clip))
          BY <3>3, <4>1 DEF Paste
        <5>2. fields[i] \in Seq(Chars) /\ clip \in Seq(Alphabet)
          BY ClipsAreTexts
        <5>3. Inserted(fields[i], cursor, clip) \in Seq(Alphabet)
          BY <5>2, InsertedIsText
        <5> QED
          BY <3>1, <5>1, <5>3
      <4>2. CASE IsCode(clip)
        <5>1. fields' = Filled(i, clip)
          BY <3>3, <4>2 DEF Paste
        <5>2. enabled' = AllValid(fields')
          BY <3>3, <4>2, Zenon DEF Paste
        <5>3. AllValid(fields') \in BOOLEAN
          BY DEF AllValid
        <5> QED
          BY <4>2, <5>1, <5>2, <5>3, FilledIsText
      <4> QED
        BY <4>1, <4>2
    <3> QED
      BY <2>1, <3>2, <3>3
  <2> QED
    BY <2>2, <2>3 DEF limits, history
<1>4. CASE Cancel \/ Incomplete \/ Overflow \/ Unreadable \/ Corrupt
  BY <1>0, <1>a, <1>4 DEF Cancel, Incomplete, Overflow, Unreadable, Corrupt, Close, limits, history
<1>5. CASE Wrong
  <2>1. limiter' \in Limiter /\ wrong' \in 0 .. MaxFailures /\ since' \in 0 .. MaxDelay
    BY <1>5, <1>a, LimiterTyped DEF Wrong
  <2>2. exhausted' \in BOOLEAN
    <3>1. exhausted' = (limiter'.failures >= Threshold)
      BY <1>5, Zenon DEF Wrong
    <3>2. (limiter'.failures >= Threshold) \in BOOLEAN
      OBVIOUS
    <3> QED
      BY <3>1, <3>2, Zenon
  <2> QED
    BY <1>0, <1>a, <1>5, <2>1, <2>2 DEF Wrong, Close
<1>6. CASE Accepted
  BY <1>0, <1>a, <1>6, LimiterTyped DEF Accepted, RecordSuccess
<1>7. CASE NewPassword
  BY <1>a, <1>7 DEF NewPassword, dialog, limits, history
<1>8. CASE Second
  BY <1>8, LimiterTyped DEF Second, dialog
<1>9. CASE NewCodes
  BY <1>9 DEF NewCodes, dialog, limits, history
<1>10. CASE Restart
  BY <1>0, <1>a, <1>10, LimiterTyped DEF Restart, Close
<1>11. CASE UNCHANGED vars
  BY <1>11 DEF vars, dialog, limits, history
<1> QED
  BY <1>1, <1>2, <1>3, <1>4, <1>5, <1>6, <1>7, <1>8, <1>9, <1>10, <1>11 DEF Next, Ends

(* The variables of the dialog and of the limiter have their types: what a *)
(* box holds, typed or pasted, is always a text of the charset.            *)
THEOREM RecoveryIsTyped == Spec => []TypeOK
BY InitIsTyped, StepIsTyped, PTL DEF Spec

(* _encode and parse_recovery_input are inverse to each other.             *)
THEOREM OnlyTheCodeDecodes ==
  ASSUME NEW text \in Seq(Chars), NEW n \in Secret
  PROVE  Decodes(text, n) <=> text = Encode[n]
<1>1. ASSUME text = Encode[n] PROVE Decodes(text, n)
  <2>1. Len(text) = Width /\ Value(text) = n
    BY <1>1, EncodeIsCode, EncodedIsDecoded
  <2>2. n < RawLimit
    BY GroupAssumption DEF Secret
  <2> QED
    BY <2>1, <2>2, Zenon DEF Decodes, IsWhole, Fits
<1> QED
  BY <1>1, DecodedIsEncoded

(* Recovery opens with the code of the secret on disk and with nothing     *)
(* else, whatever a user can have made of the fields: the codec loses      *)
(* nothing and adds nothing (recovery.py, _start_recovery 647-681).        *)
THEOREM OnlyTheCodeOpens == Spec => OpensExactlyWithTheCode
<1> DEFINE Ended == /\ at = "codes" /\ at' # "codes"
                    /\ answer' \notin {"none", "cancelled", "unreadable"}
       Spelled == secret # NoRecovery /\ Entered = Encode[secret]
<1>1. TypeOK /\ [Next]_vars
        => [Ended => (answer' = "accepted" <=> Spelled)]_vars
  <2> SUFFICES ASSUME TypeOK, [Next]_vars, Ended
               PROVE  answer' = "accepted" <=> Spelled
    OBVIOUS
  <2>0. /\ at = "codes" /\ at' # "codes"
        /\ answer' \notin {"none", "cancelled", "unreadable"}
    OBVIOUS
  <2>1. Entered \in Seq(Chars) /\ secret \in Secret \union {NoRecovery}
    BY FlattenIsText DEF TypeOK, Entered
  <2>2. Spelled <=> secret # NoRecovery /\ Decodes(Entered, secret)
    BY <2>1, OnlyTheCodeDecodes
  <2> HIDE DEF Ended, Spelled
  <2>3. CASE Incomplete
    BY <2>2, <2>3 DEF Incomplete, Close, Decodes
  <2>4. CASE Overflow
    BY <2>2, <2>4 DEF Overflow, Close, Decodes
  <2>5. CASE Corrupt
    BY <2>2, <2>5 DEF Corrupt
  <2>6. CASE Wrong
    BY <2>2, <2>6 DEF Wrong, Close
  <2>7. CASE Accepted
    BY <2>2, <2>7 DEF Accepted
  <2>8. Incomplete \/ Overflow \/ Corrupt \/ Wrong \/ Accepted
    <3>1. ~Open /\ ~Blocked /\ ~NewPassword
      BY <2>0 DEF Open, Blocked, NewPassword
    <3>2. ~Enters /\ ~Second /\ ~NewCodes /\ ~UNCHANGED vars
      BY <2>0 DEF Enters, Type, Paste, Second, NewCodes, vars
    <3>3. ~Cancel /\ ~Unreadable /\ ~Restart
      BY <2>0 DEF Cancel, Unreadable, Restart, Close
    <3> QED
      BY <3>1, <3>2, <3>3 DEF Next, Ends
  <2> QED
    BY <2>3, <2>4, <2>5, <2>6, <2>7, <2>8
<1> QED
  BY <1>1, RecoveryIsTyped, PTL DEF Spec, OpensExactlyWithTheCode

-----------------------------------------------------------------------------
(***************************************************************************)
(* A pasted code.                                                          *)
(***************************************************************************)

(* One character more at the end is one turn more of the loop.             *)
LEMMA SplitOfLonger ==
  ASSUME NEW X, NEW t \in Seq(X), NEW c \in X, NEW s \in Seq(X),
         Len(s) = Len(t) + 1, \A k \in 1 .. Len(t) : s[k] = t[k], s[Len(t) + 1] = c
  PROVE  Split(s) = SplitMore(Split(t), c)
<1> DEFINE N == Len(t)
<1>1. /\ N \in Nat /\ s \in Seq(X) /\ Len(s) = N + 1
      /\ (\A k \in 1 .. N : s[k] = t[k]) /\ s[N + 1] = c
  BY LenProperties
<1>a. PICK P : IsSplit(P, t, X)
  BY SplitLoop
<1>b. PICK Q : IsSplit(Q, s, X)
  BY SplitLoop
<1>2. /\ P[0] = << <<>> >> /\ Split(t) = P[N]
      /\ \A k \in 1 .. N : P[k] = SplitMore(P[k - 1], t[k])
  BY <1>a DEF IsSplit
<1>3. /\ Q[0] = << <<>> >> /\ Split(s) = Q[Len(s)]
      /\ \A k \in 1 .. Len(s) : Q[k] = SplitMore(Q[k - 1], s[k])
  BY <1>b DEF IsSplit
<1> HIDE DEF N
<1> DEFINE S == {k \in Nat : Q[k] = P[k]}
<1>4. 0 \in S
  BY <1>2, <1>3
<1>5. ASSUME NEW k \in 0 .. N - 1, k \in S PROVE k + 1 \in S
  <2>1. k + 1 \in 1 .. N /\ k + 1 \in 1 .. Len(s) /\ k + 1 - 1 = k /\ k + 1 \in Nat
    BY <1>1
  <2>2. P[k + 1] = SplitMore(P[k], t[k + 1])
    BY <1>2, <2>1
  <2>3. Q[k + 1] = SplitMore(Q[k], s[k + 1])
    BY <1>3, <2>1
  <2>4. s[k + 1] = t[k + 1] /\ Q[k] = P[k]
    BY <1>1, <1>5, <2>1
  <2>5. Q[k + 1] = P[k + 1]
    BY <2>2, <2>3, <2>4, Zenon
  <2> QED
    BY <2>1, <2>5
<1> HIDE DEF S
<1>6. N \in S
  <2>1. N \in Nat /\ N \in 0 .. N
    BY <1>1
  <2>2. \A k \in 0 .. N : k \in S
    BY <1>4, <1>5, <2>1, Induction
  <2> QED
    BY <2>1, <2>2
<1>7. Q[N + 1] = SplitMore(Q[N], c)
  <2>1. N + 1 \in 1 .. Len(s) /\ N + 1 - 1 = N
    BY <1>1
  <2> QED
    BY <1>1, <1>3, <2>1
<1>8. Q[N] = P[N]
  BY <1>6 DEF S
<1>9. Split(s) = SplitMore(Split(t), c)
  BY <1>1, <1>2, <1>3, <1>7, <1>8, Zenon
<1> QED
  BY <1>9

LEMMA SplitOfAppend ==
  ASSUME NEW X, NEW t \in Seq(X), NEW c \in X
  PROVE  Split(Append(t, c)) = SplitMore(Split(t), c)
<1> DEFINE s == Append(t, c)
<1>1. /\ s \in Seq(X) /\ Len(s) = Len(t) + 1
      /\ (\A k \in 1 .. Len(t) : s[k] = t[k]) /\ s[Len(t) + 1] = c
  BY AppendProperties
<1> HIDE DEF s
<1>2. Split(s) = SplitMore(Split(t), c)
  BY ONLY <1>1, t \in Seq(X), c \in X, SplitOfLonger
<1> QED
  BY <1>2 DEF s

(* The characters after a dash make up one more piece.                     *)
LEMMA SplitOfRun ==
  ASSUME NEW X, NEW s \in Seq(X), NEW p \in Seq(Seq(X)), Split(s) = Append(p, <<>>),
         NEW u \in Seq(X), \A k \in 1 .. Len(u) : u[k] # "-"
  PROVE  Split(s \o u) = Append(p, u)
<1> DEFINE N == Len(u)
           U(k) == SubSeq(u, 1, k)
           S == {k \in Nat : Split(s \o U(k)) = Append(p, U(k))}
<1>1. /\ N \in Nat /\ U(0) = <<>> /\ U(N) = u
      /\ \A k \in 1 .. N : U(k) = Append(U(k - 1), u[k])
      /\ \A k \in 0 .. N : U(k) \in Seq(X)
      /\ \A k \in 1 .. N : u[k] \in X \ {"-"}
  <2>1. N \in Nat /\ \A k \in 1 .. N : u[k] \in X \ {"-"}
    BY LenProperties, ElementOfSeq
  <2> QED
    BY <2>1, PrefixesGrow
<1> HIDE DEF N, U
<1>2. 0 \in S
  <2>1. s \o U(0) = s
    BY <1>1, ConcatEmptySeq
  <2> QED
    BY <1>1, <2>1
<1>3. ASSUME NEW k \in 0 .. N - 1, k \in S PROVE k + 1 \in S
  <2>1. k + 1 \in 1 .. N /\ k \in 0 .. N /\ k + 1 - 1 = k /\ k + 1 \in Nat
    BY <1>1
  <2> DEFINE w == U(k)
             c == u[k + 1]
  <2>2. w \in Seq(X) /\ c \in X /\ c # "-" /\ U(k + 1) = Append(w, c)
    BY <1>1, <2>1
  <2>3. Split(s \o w) = Append(p, w)
    BY <1>3
  <2> HIDE DEF w, c
  <2>4. s \o Append(w, c) = Append(s \o w, c) /\ s \o w \in Seq(X)
    <3>1. s \o w \in Seq(X) /\ <<c>> \in Seq(X)
      BY <2>2, ConcatProperties
    <3>2. Append(w, c) = w \o <<c>> /\ Append(s \o w, c) = (s \o w) \o <<c>>
      BY <2>2, <3>1, AppendIsConcat
    <3>3. (s \o w) \o <<c>> = s \o (w \o <<c>>)
      BY <2>2, <3>1, ConcatAssociative
    <3> QED
      BY <3>1, <3>2, <3>3
  <2>5. Split(Append(s \o w, c)) = SplitMore(Append(p, w), c)
    BY <2>2, <2>3, <2>4, SplitOfAppend
  <2>6. SplitMore(Append(p, w), c) = Append(p, Append(w, c))
    <3>1. Front(Append(p, w)) = p /\ Last(Append(p, w)) = w
      BY <2>2, FrontLastOfAppend
    <3> QED
      BY <2>2, <3>1, Zenon DEF SplitMore
  <2>7. Split(s \o U(k + 1)) = Append(p, U(k + 1))
    BY <2>2, <2>4, <2>5, <2>6, Zenon
  <2> QED
    BY <2>1, <2>7
<1> HIDE DEF S
<1>4. N \in S
  <2>1. N \in Nat /\ N \in 0 .. N
    BY <1>1
  <2>2. \A k \in 0 .. N : k \in S
    BY <1>2, <1>3, <2>1, Induction
  <2> QED
    BY <2>1, <2>2
<1> QED
  BY <1>1, <1>4 DEF S

LEMMA SplitOfNothing == Split(<<>>) = << <<>> >>
<1>1. <<>> \in Seq({"-"}) /\ Len(<<>>) = 0
  BY EmptySeq
<1>2. PICK P : IsSplit(P, <<>>, {"-"})
  BY <1>1, SplitLoop
<1> QED
  BY <1>1, <1>2 DEF IsSplit

(* Divided at its dashes, what is displayed are the groups of the code.    *)
LEMMA DisplaySplits ==
  ASSUME NEW n \in Secret
  PROVE  Split(Display(n)) = Chunks(Encode[n])
<1> DEFINE X == Chars \union {"-"}
           G == Chunks(Encode[n])
           H(g) == SubSeq(G, 1, g)
<1>1. PICK T : /\ T[1] = G[1] /\ Display(n) = T[Groups]
               /\ \A g \in 1 .. Groups : T[g] \in Seq(X)
               /\ \A g \in 1 + 1 .. Groups : T[g] = T[g - 1] \o <<"-">> \o G[g]
  BY DisplayLoop
<1>2. /\ Groups \in Nat /\ 1 <= Groups /\ 1 \in Nat /\ Len(G) = Groups
      /\ \A g \in 1 .. Groups : G[g] \in Seq(X) /\ \A k \in 1 .. Len(G[g]) : G[g][k] # "-"
  <2>1. /\ Groups \in Nat /\ 1 <= Groups /\ Len(G) = Groups
        /\ \A g \in 1 .. Groups : G[g] \in Seq(Chars)
    BY CodeInGroups, Sizes
  <2>2. Chars \subseteq X
    OBVIOUS
  <2>3. ASSUME NEW u \in Seq(Chars)
        PROVE  u \in Seq(X) /\ \A k \in 1 .. Len(u) : u[k] # "-"
    <3>1. u \in Seq(X)
      BY <2>2, SeqMonotonic
    <3>2. \A k \in 1 .. Len(u) : u[k] \in Chars
      BY ElementOfSeq
    <3> QED
      BY <3>1, <3>2, CharsAreLetters
  <2> HIDE DEF X, G
  <2> QED
    BY <2>1, <2>3
<1>3. /\ H(0) = <<>> /\ H(Groups) = G
      /\ \A g \in 1 .. Groups : H(g) = Append(H(g - 1), G[g])
      /\ \A g \in 0 .. Groups : H(g) \in Seq(Seq(X))
  <2>1. G \in Seq(Seq(X))
    <3>1. G \in Seq(Seq(Chars)) /\ Seq(Chars) \subseteq Seq(X)
      <4>1. G \in Seq(Seq(Chars))
        BY CodeInGroups
      <4>2. Chars \subseteq X
        OBVIOUS
      <4> HIDE DEF X, G
      <4> QED
        BY <4>1, <4>2, SeqMonotonic
    <3> HIDE DEF X, G
    <3> QED
      BY <3>1, SeqMonotonic
  <2> HIDE DEF X, G
  <2> QED
    BY <1>2, <2>1, PrefixesGrow
<1>a. ASSUME NEW g \in 1 .. Groups - 1
      PROVE  T[g + 1] = T[g] \o <<"-">> \o G[g + 1]
  <2>1. g + 1 \in 1 + 1 .. Groups /\ g + 1 - 1 = g
    BY <1>2
  <2> DEFINE h == g + 1
  <2>2. h \in 1 + 1 .. Groups /\ h - 1 = g
    BY <2>1
  <2> HIDE DEF h, G, X
  <2>3. T[h] = T[h - 1] \o <<"-">> \o G[h]
    BY <1>1, <2>2
  <2> QED
    BY <2>2, <2>3, Zenon DEF h
<1>4. "-" \in X /\ <<>> \in Seq(X) /\ <<>> \in Seq(Seq(X))
  BY EmptySeq
<1> HIDE DEF X, G, H
<1> DEFINE S == {g \in Nat : Split(T[g]) = H(g)}
<1>5. 1 \in S
  <2>1. Split(<<>> \o G[1]) = Append(<<>>, G[1])
    <3>1. 1 \in 1 .. Groups
      BY <1>2
    <3>2. Split(<<>>) = Append(<<>>, <<>>)
      BY SplitOfNothing
    <3>3. G[1] \in Seq(X) /\ \A k \in 1 .. Len(G[1]) : G[1][k] # "-"
      BY <1>2, <3>1
    <3> QED
      BY ONLY <1>4, <3>2, <3>3, SplitOfRun
  <2>2. 1 \in 1 .. Groups /\ 1 - 1 = 0
    BY <1>2
  <2>3. <<>> \o G[1] = G[1]
    BY <1>2, <2>2, ConcatEmptySeq
  <2>4. H(1) = Append(H(0), G[1])
    BY <1>3, <2>2
  <2>5. Split(T[1]) = H(1)
    BY <1>1, <1>3, <2>1, <2>3, <2>4, Zenon
  <2> QED
    BY <2>5
<1>6. ASSUME NEW g \in 1 .. Groups - 1, g \in S PROVE g + 1 \in S
  <2>1. /\ g + 1 \in 1 + 1 .. Groups /\ g + 1 \in 1 .. Groups /\ g \in 1 .. Groups
        /\ g \in 0 .. Groups /\ g + 1 - 1 = g /\ g + 1 \in Nat
    BY <1>2
  <2> DEFINE t == T[g] \o <<"-">>
             u == G[g + 1]
  <2>2. T[g + 1] = t \o u
    BY <1>a DEF t, u
  <2>3. T[g] \in Seq(X) /\ Split(T[g]) = H(g) /\ H(g) \in Seq(Seq(X))
    BY <1>1, <1>3, <1>6, <2>1
  <2>4. t \in Seq(X) /\ Split(t) = Append(H(g), <<>>)
    <3>1. t = Append(T[g], "-")
      BY ONLY <1>4, <2>3, AppendIsConcat
    <3>2. Append(T[g], "-") \in Seq(X)
      BY ONLY <1>4, <2>3, AppendProperties
    <3>3. Split(Append(T[g], "-")) = SplitMore(Split(T[g]), "-")
      BY ONLY <1>4, <2>3, SplitOfAppend
    <3>4. SplitMore(Split(T[g]), "-") = Append(H(g), <<>>)
      BY <2>3, Zenon DEF SplitMore
    <3> QED
      BY <3>1, <3>2, <3>3, <3>4, Zenon
  <2>5. u \in Seq(X) /\ \A k \in 1 .. Len(u) : u[k] # "-"
    BY <1>2, <2>1
  <2> HIDE DEF t, u
  <2>6. Split(t \o u) = Append(H(g), u)
    BY ONLY <2>3, <2>4, <2>5, SplitOfRun
  <2>7. H(g + 1) = Append(H(g), G[g + 1])
    BY <1>3, <2>1
  <2>8. Split(T[g + 1]) = H(g + 1)
    BY <2>2, <2>6, <2>7, Zenon DEF u
  <2> QED
    BY <2>1, <2>8
<1> HIDE DEF S
<1>7. Groups \in S
  <2>1. Groups \in Nat /\ Groups \in 1 .. Groups /\ 1 \in Nat
    BY <1>2
  <2>2. \A g \in 1 .. Groups : g \in S
    BY <1>5, <1>6, <2>1, Induction
  <2> QED
    BY <2>1, <2>2
<1>8. Split(T[Groups]) = H(Groups)
  BY <1>7 DEF S
<1> QED
  BY <1>1, <1>3, <1>8, Zenon DEF G

LEMMA UpperAfter ==
  ASSUME NEW text \in Seq(Chars \union {"-"}), NEW c \in Alphabet, Upper[c] = c
  PROVE  InUpper(<<c>> \o InLower(text)) = <<c>> \o text
<1> DEFINE low == InLower(text)
           N == Len(text)
<1>1. c \in Alphabet /\ Upper[c] = c
  OBVIOUS
<1>2. /\ low \in Seq(Alphabet) /\ Len(low) = N /\ InUpper(low) = text
      /\ N \in Nat /\ text \in Seq(Alphabet)
  BY LowerIsText, UpperOfCode, LenProperties
<1> HIDE DEF low, N
<1>3. \A k \in 1 .. N : Upper[low[k]] = text[k]
  BY <1>2, UpperIsText
<1> DEFINE s == <<c>> \o low
           t == <<c>> \o text
<1>4. ASSUME NEW u \in Seq(Alphabet)
      PROVE  /\ <<c>> \o u \in Seq(Alphabet) /\ Len(<<c>> \o u) = 1 + Len(u)
             /\ (<<c>> \o u)[1] = c /\ \A k \in 2 .. 1 + Len(u) : (<<c>> \o u)[k] = u[k - 1]
  <2>1. /\ <<c>> \in Seq(Alphabet) /\ Len(<<c>>) = 1 /\ <<c>>[1] = c /\ Len(u) \in Nat
    BY <1>1, LenProperties
  <2>2. /\ <<c>> \o u \in Seq(Alphabet) /\ Len(<<c>> \o u) = Len(<<c>>) + Len(u)
        /\ \A i \in 1 .. Len(<<c>>) + Len(u) :
             (<<c>> \o u)[i] = IF i <= Len(<<c>>) THEN <<c>>[i] ELSE u[i - Len(<<c>>)]
    BY <2>1, ConcatProperties
  <2> QED
    BY <2>1, <2>2
<1>5. /\ s \in Seq(Alphabet) /\ Len(s) = 1 + N /\ s[1] = c
      /\ \A k \in 2 .. 1 + N : s[k] = low[k - 1]
  BY <1>2, <1>4
<1>6. /\ t \in Seq(Alphabet) /\ Len(t) = 1 + N /\ t[1] = c
      /\ \A k \in 2 .. 1 + N : t[k] = text[k - 1]
  BY <1>2, <1>4 DEF N
<1> HIDE DEF s, t
<1>7. /\ InUpper(s) \in Seq(Alphabet) /\ Len(InUpper(s)) = 1 + N
      /\ \A k \in 1 .. 1 + N : InUpper(s)[k] = Upper[s[k]]
  BY <1>5, UpperIsText
<1>8. ASSUME NEW k \in 1 .. 1 + N PROVE InUpper(s)[k] = t[k]
  <2>1. CASE k = 1
    BY <1>1, <1>5, <1>6, <1>7, <2>1
  <2>2. CASE k # 1
    <3>1. k \in 2 .. 1 + N /\ k - 1 \in 1 .. N
      BY <1>2, <2>2
    <3> QED
      BY <1>3, <1>5, <1>6, <1>7, <3>1
  <2> QED
    BY <2>1, <2>2
<1>9. InUpper(s) = t
  BY <1>6, <1>7, <1>8, SeqEqual
<1> QED
  BY <1>9 DEF s, t, low

LEMMA UpperAfterSpace ==
  ASSUME NEW text \in Seq(Chars \union {"-"})
  PROVE  InUpper(<<" ">> \o InLower(text)) = <<" ">> \o text
BY UpperAfter, UpperAssumption, Zenon

(* However a code has been kept, it is found in the clipboard as displayed *)
(* or in one piece.                                                        *)
LEMMA FormsAreCleaned ==
  ASSUME NEW n \in Secret, NEW form \in Forms[n]
  PROVE  Kept(InUpper(form), Alphabet \ {" "}) \in {Display(n), Encode[n]}
<1> DEFINE S == Alphabet \ {" "}
           X == Chars \union {"-"}
           D == Display(n)
           E == Encode[n]
<1>1. D \in Seq(X) /\ E \in Seq(X)
  <2>1. Groups \in 1 .. Groups
    BY Sizes
  <2>2. D \in Seq(X)
    BY <2>1, DisplayLoop
  <2>3. Chars \subseteq X
    OBVIOUS
  <2>4. E \in Seq(Chars)
    BY EncodeIsCode
  <2> HIDE DEF X, E
  <2> QED
    BY <2>2, <2>3, <2>4, SeqMonotonic
<1>2. X \subseteq S /\ " " \notin S
  BY CharsAreLetters
<1>3. InUpper(D) = D /\ InUpper(E) = E /\ InUpper(InLower(D)) = D /\ InUpper(InLower(E)) = E
  BY <1>1, UpperOfCode, LowerIsText
<1>4. InUpper(<<" ">> \o InLower(E)) = <<" ">> \o E
  BY <1>1, UpperAfterSpace
<1>5. form \in {D, E, InLower(D), <<" ">> \o InLower(E)}
  BY DEF Forms
<1> HIDE DEF S, X, D, E
<1>6. Kept(D, S) = D /\ Kept(E, S) = E /\ Kept(<<" ">> \o E, S) = E
  <2>1. D \in Seq(S) /\ E \in Seq(S)
    BY <1>1, <1>2, SeqMonotonic
  <2> QED
    BY <1>2, <2>1, KeptAll, KeptRest
<1>7. Kept(InUpper(form), S) \in {D, E}
  BY <1>3, <1>4, <1>5, <1>6, Zenon
<1> QED
  BY <1>7 DEF S, D, E

LEMMA CodeInOnePiece ==
  ASSUME NEW n \in Secret
  PROVE  "-" \notin ToSet(Encode[n])
<1>1. Encode[n] \in Seq(Chars)
  BY EncodeIsCode
<1>2. /\ DOMAIN Encode[n] = 1 .. Len(Encode[n])
      /\ \A k \in 1 .. Len(Encode[n]) : Encode[n][k] \in Chars
  BY <1>1, LenProperties, ElementOfSeq
<1> QED
  BY <1>2, CharsAreLetters DEF ToSet

LEMMA OneGroupIsTheCode ==
  ASSUME NEW n \in Secret, Groups = 1
  PROVE  Chunks(Encode[n])[1] = Encode[n]
<1> DEFINE E == Encode[n]
<1>1. E \in Seq(Chars) /\ Len(E) = GroupLen /\ GroupLen \in Nat \ {0} /\ Len(E) \in Nat
  BY EncodeIsCode, Sizes
<1>2. 1 \in DOMAIN Chunks(E)
  BY CodeInGroups, LenProperties
<1> HIDE DEF E
<1>3. Chunks(E)[1] = SubSeq(E, (1 - 1) * GroupLen + 1, Lesser(1 * GroupLen, Len(E)))
  BY <1>2 DEF Chunks
<1>4. (1 - 1) * GroupLen + 1 = 1 /\ Lesser(1 * GroupLen, Len(E)) = Len(E)
  BY <1>1 DEF Lesser
<1>5. Chunks(E)[1] = E
  BY <1>1, <1>3, <1>4, SubSeqFull
<1> QED
  BY <1>5 DEF E

LEMMA DisplayHasDash ==
  ASSUME NEW n \in Secret, Groups # 1
  PROVE  "-" \in ToSet(Display(n))
<1> DEFINE X == Chars \union {"-"}
           G == Chunks(Encode[n])
<1>1. PICK T : /\ Display(n) = T[Groups]
               /\ \A g \in 1 .. Groups : T[g] \in Seq(X)
               /\ \A g \in 1 + 1 .. Groups : T[g] = T[g - 1] \o <<"-">> \o G[g]
  BY DisplayLoop
<1>2. /\ Groups \in 1 + 1 .. Groups /\ Groups \in 1 .. Groups /\ Groups - 1 \in 1 .. Groups
  BY Sizes
<1>3. G[Groups] \in Seq(X)
  <2>1. G[Groups] \in Seq(Chars)
    BY <1>2, CodeInGroups
  <2>2. Chars \subseteq X
    OBVIOUS
  <2> HIDE DEF X, G
  <2> QED
    BY <2>1, <2>2, SeqMonotonic
<1>4. "-" \in X
  OBVIOUS
<1> DEFINE t == T[Groups - 1]
           u == G[Groups]
<1>5. Display(n) = t \o <<"-">> \o u /\ t \in Seq(X) /\ u \in Seq(X)
  <2>1. T[Groups] = T[Groups - 1] \o <<"-">> \o G[Groups]
    BY <1>1, <1>2, Zenon
  <2> HIDE DEF X, G
  <2> QED
    BY <1>1, <1>2, <1>3, <2>1
<1> HIDE DEF t, u, X, G
<1> DEFINE a == Append(t, "-")
<1>6. /\ a \in Seq(X) /\ Len(a) = Len(t) + 1 /\ Len(t) \in Nat /\ a[Len(t) + 1] = "-"
      /\ Display(n) = a \o u
  BY <1>4, <1>5, AppendProperties, AppendIsConcat, LenProperties
<1> HIDE DEF a
<1>7. /\ Len(a \o u) = Len(a) + Len(u) /\ Len(u) \in Nat /\ a \o u \in Seq(X)
      /\ \A i \in 1 .. Len(a) + Len(u) : (a \o u)[i] = IF i <= Len(a) THEN a[i] ELSE u[i - Len(a)]
  BY <1>5, <1>6, ConcatProperties, LenProperties
<1>8. Len(a) \in 1 .. Len(a) + Len(u) /\ Len(a) <= Len(a)
  BY <1>6, <1>7
<1>9. (a \o u)[Len(a)] = "-"
  BY <1>6, <1>7, <1>8
<1>10. Len(a) \in DOMAIN (a \o u)
  BY <1>7, <1>8, LenProperties
<1> QED
  BY <1>6, <1>9, <1>10 DEF ToSet

(* Every form of a code is taken for its groups.                           *)
LEMMA FormsAreTheGroups ==
  ASSUME NEW n \in Secret, NEW form \in Forms[n]
  PROVE  Pieces[form] = Chunks(Encode[n])
<1> DEFINE cleaned == Kept(InUpper(form), Alphabet \ {" "})
<1>1. Pieces[form] = IF "-" \in ToSet(cleaned) THEN Runs(cleaned) ELSE Chunks(cleaned)
  BY Zenon DEF Clips, Pieces
<1>2. cleaned \in {Display(n), Encode[n]}
  BY FormsAreCleaned
<1> HIDE DEF cleaned
<1>3. CASE cleaned = Encode[n]
  BY <1>1, <1>3, CodeInOnePiece
<1>4. CASE cleaned = Display(n) /\ Groups = 1
  <2>1. Display(n) = Encode[n]
    <3>1. Display(n) = Chunks(Encode[n])[1]
      BY <1>4, DisplayLoop
    <3> QED
      BY <1>4, <3>1, OneGroupIsTheCode
  <2> QED
    BY <1>3, <1>4, <2>1
<1>5. CASE cleaned = Display(n) /\ Groups # 1
  <2>1. Pieces[form] = Runs(Display(n))
    BY <1>1, <1>5, DisplayHasDash
  <2>2. Chunks(Encode[n]) \in Seq(Seq(Alphabet) \ {<<>>})
    <3> DEFINE G == Chunks(Encode[n])
               W == Seq(Alphabet) \ {<<>>}
    <3>1. /\ G \in Seq(Seq(Chars)) /\ Len(G) = Groups
          /\ \A g \in 1 .. Groups : G[g] \in Seq(Chars) /\ Len(G[g]) = GroupLen
      BY CodeInGroups
    <3>2. Chars \subseteq Alphabet
      BY CharsAreLetters
    <3> HIDE DEF G
    <3>3. \A g \in 1 .. Groups : G[g] \in W
      <4>1. \A g \in 1 .. Groups : G[g] \in Seq(Alphabet)
        BY <3>1, <3>2, SeqMonotonic
      <4>2. \A g \in 1 .. Groups : G[g] # <<>>
        BY <3>1, Sizes, EmptySeq
      <4> QED
        BY <4>1, <4>2
    <3>4. G \in [1 .. Groups -> W] /\ Groups \in Nat
      BY <3>1, <3>3, Sizes, LenProperties
    <3> HIDE DEF W
    <3>5. G \in Seq(W)
      BY <3>4
    <3> QED
      BY <3>5 DEF G, W
  <2>3. Split(Display(n)) = Chunks(Encode[n])
    BY DisplaySplits
  <2>4. Runs(Display(n)) = Chunks(Encode[n])
    BY <2>2, <2>3, KeptAll, Zenon DEF Runs
  <2> QED
    BY <2>1, <2>4
<1> QED
  BY <1>2, <1>3, <1>4, <1>5

(* A code, pasted as displayed, in one piece, in lower case or after a     *)
(* space, into any box, is taken for a code and fills all boxes with its   *)
(* groups (_on_paste): neither _on_change nor the cut at GroupLen changes  *)
(* anything in them.                                                       *)
THEOREM CodesCanBePasted == Spec => []PasteCompletes
<1>1. ASSUME TypeOK, secret # NoRecovery, NEW i \in 1 .. Groups, NEW form \in Forms[secret]
      PROVE  IsCode(form) /\ Filled(i, form) = Chunks(Encode[secret])
  <2> DEFINE G == Chunks(Encode[secret])
  <2>1. secret \in Secret
    BY <1>1 DEF TypeOK
  <2>2. Pieces[form] = G
    BY <1>1, <2>1, FormsAreTheGroups
  <2>3. /\ G \in Seq(Seq(Chars)) /\ Len(G) = Groups
        /\ \A g \in 1 .. Groups : G[g] \in Seq(Chars) /\ Len(G[g]) = GroupLen
    BY <2>1, CodeInGroups
  <2> HIDE DEF G
  <2>4. ASSUME NEW g \in 1 .. Groups PROVE Filtered(Cut(G[g])) = G[g]
    <3> DEFINE u == G[g]
    <3>1. u \in Seq(Chars) /\ Len(u) = GroupLen /\ GroupLen \in Nat
      BY <2>3, Sizes
    <3> HIDE DEF u
    <3>2. Cut(u) = u
      <4>1. Lesser(Len(u), GroupLen) = Len(u)
        BY <3>1 DEF Lesser
      <4> QED
        BY <3>1, <4>1, SubSeqFull DEF Cut
    <3>3. InUpper(u) = u
      <4>1. u \in Seq(Chars \union {"-"})
        <5>1. Chars \subseteq Chars \union {"-"}
          OBVIOUS
        <5> QED
          BY ONLY <3>1, <5>1, SeqMonotonic
      <4> QED
        BY <4>1, UpperOfCode
    <3>4. Kept(u, Chars) = u
      BY <3>1, KeptAll
    <3>5. Filtered(Cut(u)) = u
      BY <3>2, <3>3, <3>4, Zenon DEF Filtered
    <3> QED
      BY <3>5 DEF u
  <2>5. Filled(i, form) = [g \in 1 .. Groups |-> G[g]]
    BY <2>2, <2>4 DEF Filled
  <2>6. G = [g \in 1 .. Groups |-> G[g]]
    BY <2>3, LenProperties
  <2>7. IsCode(form)
    BY <2>2, <2>3, Zenon DEF IsCode
  <2> QED
    BY <2>5, <2>6, <2>7, Zenon DEF G
<1>2. TypeOK => PasteCompletes
  BY <1>1, Zenon DEF PasteCompletes
<1> QED
  BY <1>2, RecoveryIsTyped, PTL
=============================================================================
