---------------------------- MODULE RateLimiter ----------------------------
(***************************************************************************)
(* RateLimiter of src/vault_app/security.py, as operators on a record that *)
(* its owner keeps: the back-off both front ends put between two attempts. *)
(*                                                                         *)
(* The code keeps a deadline of the monotonic clock; here the seconds left *)
(* until it are kept, and the owner's own step for time counts them down.  *)
(***************************************************************************)
EXTENDS Integers

CONSTANTS
  MaxDelay,    \* RateLimiter.MAX_DELAY, in seconds
  MaxFailures  \* bound: failures beyond it are not told apart

ASSUME DelayAssumption   == MaxDelay \in Nat \ {0}
ASSUME FailureAssumption == MaxFailures \in Nat \ {0} /\ 2 ^ MaxFailures >= MaxDelay
ASSUME PowerAssumption   == \A n \in 0 .. MaxFailures : 2 ^ n \in Nat

Limiter == [failures : 0 .. MaxFailures, remaining : 0 .. MaxDelay]
NewLimiter == [failures |-> 0, remaining |-> 0]

Lesser(a, b) == IF a < b THEN a ELSE b

(* The seconds to wait after the n-th failure in a row.                    *)
BackOff(n) == Lesser(2 ^ n, MaxDelay)

OneMore(n) == Lesser(n + 1, MaxFailures)

(* Mutant: the wait is computed before the failure is counted.             *)
RecordFailureLate(limiter) ==
  [failures |-> OneMore(limiter.failures), remaining |-> BackOff(limiter.failures)]

RecordFailure(limiter) ==
  LET failures == OneMore(limiter.failures)
  IN [failures |-> failures, remaining |-> BackOff(failures)]

RecordSuccess(limiter) == NewLimiter

IsLocked(limiter) == limiter.remaining > 0

(* A second passes.                                                        *)
Later(limiter) == [limiter EXCEPT !.remaining = IF @ > 0 THEN @ - 1 ELSE 0]

(* The limiter has counted n failures in a row, and the s seconds that     *)
(* have passed since the last, up to MAX_DELAY, and those still to wait    *)
(* make up the back-off.                                                   *)
Keeps(limiter, n, s) ==
  /\ limiter \in [failures : 0 .. MaxFailures, remaining : Int]
  /\ s \in 0 .. MaxDelay
  /\ n = limiter.failures
  /\ n > 0 => s + limiter.remaining >= BackOff(n)
=============================================================================
