------------------------------- MODULE Pacing -------------------------------
(***************************************************************************)
(* The arithmetic that paces provider calls (mobula-controller/src/        *)
(* reconcile.rs): the exponential backoff of one cluster and the token     *)
(* bucket all clusters share.  Times are whole unix seconds and the rates  *)
(* the control plane configures are whole, so tokens are integers.         *)
(***************************************************************************)
EXTENDS Integers

\* u64::saturating_sub
SaturatingSub(a, b) == IF a >= b THEN a - b ELSE 0

Least(a, b) == IF a <= b THEN a ELSE b

\* Mutant: the delay stops growing after the second failure.
BackoffDelayFlat(base, ceil, failures) ==
    Least(base * 2 ^ Least(SaturatingSub(failures, 1), 1), ceil)

\* base * 2^(failures - 1), capped.
BackoffDelay(base, ceil, failures) ==
    Least(base * 2 ^ Least(SaturatingSub(failures, 1), 20), ceil)

\* Mutant: idle time is earned without a ceiling.
RefilledUncapped(bucket, capacity, refill, now) ==
    [ tokens |-> bucket.tokens + SaturatingSub(now, bucket.last) * refill,
      last   |-> now ]

\* TokenBucket::try_take, up to the test of the balance.
Refilled(bucket, capacity, refill, now) ==
    [ tokens |-> Least(bucket.tokens + SaturatingSub(now, bucket.last) * refill,
                       capacity),
      last   |-> now ]

\* Mutant: a token is tested for but not taken.
WithdrawnNot(bucket) == bucket

\* ... and the withdrawal.
Withdrawn(bucket) == [bucket EXCEPT !.tokens = @ - 1]
=============================================================================
