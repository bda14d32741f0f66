-------------------------- MODULE ActuationPacing ---------------------------
(***************************************************************************)
(* The pacing of provider calls by Reconciler::reconcile_one: the backoff  *)
(* gate of each cluster, the token bucket all of them share, and the       *)
(* accounting after an apply.  Every cluster is desired Running; what the  *)
(* provider does with an apply is left open.  Each pass uses the one `now' *)
(* it started with, which the clock may outrun.                            *)
(***************************************************************************)
EXTENDS Pacing

CONSTANTS
    Clusters,       \* cluster ids
    Capacity,       \* RateLimits.capacity
    Refill,         \* RateLimits.refill_per_sec
    BackoffBase,    \* BACKOFF_BASE_SECS
    BackoffCeil,    \* BACKOFF_CEIL_SECS
    MaxTime,        \* bound: the last second of a behaviour
    MaxErrors       \* bound: how many applies answer an error

ASSUME PacingAssumption ==
    /\ Capacity \in Nat
    /\ Refill \in Nat
    /\ BackoffBase \in Nat
    /\ BackoffCeil \in Nat
    /\ MaxTime \in Nat
    /\ MaxErrors \in Nat

\* The ceiling is reached before the shift of backoff_secs is capped.
ASSUME CeilAssumption == BackoffCeil <= BackoffBase * 2 ^ 20

VARIABLES
    clock,      \* the wall clock
    passNow,    \* the `now' of the pass
    todo,       \* clusters the pass has still to visit
    bucket,     \* the token bucket
    rows,       \* failure_count and next_attempt_at of each cluster
    taken,      \* history: provider calls made
    window,     \* history: a pass, and the calls made before it
    tries,      \* history: applies without progress in a row, and the last
    errors      \* applies that answered an error

vars == <<clock, passNow, todo, bucket, rows, taken, window, tries, errors>>

TypeOK ==
    /\ clock \in Nat
    /\ passNow \in Nat
    /\ todo \subseteq Clusters
    /\ bucket \in [tokens : Nat, last : Nat]
    /\ rows \in [Clusters -> [failure_count : Nat, next_attempt_at : Nat]]
    /\ taken \in Nat
    /\ window \in [at : Nat, taken : Nat]
    /\ tries \in [Clusters -> [failed : Nat, at : Nat]]
    /\ errors \in Nat

Init ==
    /\ clock = 0
    /\ passNow = 0
    /\ todo = {}
    /\ bucket = [tokens |-> Capacity, last |-> 0]
    /\ rows = [c \in Clusters |-> [failure_count |-> 0, next_attempt_at |-> 0]]
    /\ taken = 0
    /\ window = [at |-> 0, taken |-> 0]
    /\ tries = [c \in Clusters |-> [failed |-> 0, at |-> 0]]
    /\ errors = 0

-----------------------------------------------------------------------------
(* A pass. *)

\* reconcile_all: the pass fixes its time.  Any pass may be the one the window
\* is measured from.
StartPass ==
    /\ todo = {}
    /\ todo' = Clusters
    /\ passNow' = clock
    /\ \/ window' = [at |-> clock, taken |-> taken]
       \/ UNCHANGED window
    /\ UNCHANGED <<clock, bucket, rows, taken, tries, errors>>

InBackoff(c) == passNow < rows[c].next_attempt_at

\* Inside its backoff window a cluster is not even observed.
SkipBackoff(c) ==
    /\ c \in todo
    /\ InBackoff(c)
    /\ todo' = todo \ {c}
    /\ UNCHANGED <<clock, passNow, bucket, rows, taken, window, tries, errors>>

ClearAttempts(c) ==
    rows' = [rows EXCEPT ![c] = [failure_count |-> 0, next_attempt_at |-> 0]]

\* Observed as desired: a NoOp clears the backoff and takes no token.
Converged(c) ==
    /\ c \in todo
    /\ ~InBackoff(c)
    /\ todo' = todo \ {c}
    /\ ClearAttempts(c)
    /\ tries' = [tries EXCEPT ![c] = [failed |-> 0, at |-> 0]]
    /\ UNCHANGED <<clock, passNow, bucket, taken, window, errors>>

\* The bucket is empty: the cluster is deferred.
Deferred(c) ==
    /\ c \in todo
    /\ ~InBackoff(c)
    /\ LET b == Refilled(bucket, Capacity, Refill, passNow)
       IN  b.tokens < 1 /\ bucket' = b
    /\ todo' = todo \ {c}
    /\ UNCHANGED <<clock, passNow, rows, taken, window, tries, errors>>

\* A token is withdrawn and the provider is called.
Call(c) ==
    /\ c \in todo
    /\ ~InBackoff(c)
    /\ LET b == Refilled(bucket, Capacity, Refill, passNow)
       IN  b.tokens >= 1 /\ bucket' = Withdrawn(b)
    /\ todo' = todo \ {c}
    /\ taken' = taken + 1
    /\ UNCHANGED <<clock, passNow, window>>

\* The apply came to something.
CallProgress(c) ==
    /\ Call(c)
    /\ ClearAttempts(c)
    /\ tries' = [tries EXCEPT ![c] = [failed |-> 0, at |-> 0]]
    /\ UNCHANGED errors

\* The apply was accepted but the cluster is not there: back off.
CallNoProgress(c) ==
    /\ Call(c)
    /\ LET n == rows[c].failure_count + 1
       IN  rows' = [rows EXCEPT ![c] =
                      [ failure_count   |-> n,
                        next_attempt_at |->
                           passNow + BackoffDelay(BackoffBase, BackoffCeil, n) ]]
    /\ tries' = [tries EXCEPT ![c] = [failed |-> @.failed + 1, at |-> passNow]]
    /\ UNCHANGED errors

\* The apply answered an error: `?' leaves before the accounting.
CallError(c) ==
    /\ errors < MaxErrors
    /\ Call(c)
    /\ errors' = errors + 1
    /\ UNCHANGED <<rows, tries>>

Tick ==
    /\ clock < MaxTime
    /\ clock' = clock + 1
    /\ UNCHANGED <<passNow, todo, bucket, rows, taken, window, tries, errors>>

Next ==
    \/ StartPass \/ Tick
    \/ \E c \in Clusters :
          \/ SkipBackoff(c) \/ Converged(c) \/ Deferred(c)
          \/ CallProgress(c) \/ CallNoProgress(c) \/ CallError(c)

Spec == Init /\ [][Next]_vars

-----------------------------------------------------------------------------
(* Properties. *)

\* The global budget (try_take): from the start of any pass on, the provider
\* receives at most a full bucket plus what was refilled since, however the
\* clusters fail.
RateBound ==
    taken - window.taken <= Capacity + Refill * (passNow - window.at)

\* base * 2^(n-1) seconds, or the ceiling (which it is, far above, from the 22nd
\* failure on).
Wait(n) ==
    IF n > 21 THEN BackoffCeil ELSE Least(BackoffBase * 2 ^ (n - 1), BackoffCeil)

\* Each cluster's backoff (backoff_secs and record_attempt): after n applies in
\* a row that were accepted and came to nothing, the next one waits
\* base * 2^(n-1) seconds, or the ceiling, whatever errors come between.
RetrySpaced ==
    [][\A c \in Clusters :
          (taken' # taken /\ c \in todo /\ c \notin todo' /\ tries[c].failed > 0)
          => passNow >= tries[c].at + Wait(tries[c].failed)]_vars

\* What makes the bound inductive: what was called and what is still in the
\* bucket are together covered by the burst and the refill up to `last'.
BucketInv ==
    /\ window.at <= passNow
    /\ passNow <= clock
    /\ bucket.last <= passNow
    /\ bucket.tokens \in 0..Capacity
    /\ window.taken <= taken
    /\ taken > window.taken =>
          /\ window.at <= bucket.last
          /\ taken - window.taken + bucket.tokens
                <= Capacity + Refill * (bucket.last - window.at)

\* What makes the spacing inductive: a row counts the failures and holds the
\* wait that follows from them.
RetryInv ==
    \A c \in Clusters :
        /\ rows[c].failure_count = tries[c].failed
        /\ tries[c].failed > 0 =>
              rows[c].next_attempt_at = tries[c].at + Wait(tries[c].failed)
=============================================================================
