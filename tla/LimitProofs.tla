---------------------------- MODULE LimitProofs -----------------------------
(***************************************************************************)
(* What limits the work that is taken on.  Of ActuationPacing: the global  *)
(* rate limit and the spacing of retries, for any number of clusters, any  *)
(* capacity, refill and backoff constants, and any pattern of failures.    *)
(* Of Admission: the lock under which a create is admitted, and the policy *)
(* row, for any requests, edits and seed.                                  *)
(***************************************************************************)
EXTENDS ActuationPacing, Admission, TLAPS

-----------------------------------------------------------------------------
(* Backoff.                                                                *)

\* 2^n for the shifts backoff_secs can ask for.
LEMMA PowerOfTwo == \A n \in 0..20 : 2 ^ n \in Nat
<1>1. /\ 2^0 \in Nat /\ 2^1 \in Nat /\ 2^2 \in Nat /\ 2^3 \in Nat
      /\ 2^4 \in Nat /\ 2^5 \in Nat /\ 2^6 \in Nat /\ 2^7 \in Nat
      /\ 2^8 \in Nat /\ 2^9 \in Nat /\ 2^10 \in Nat
  OBVIOUS
<1>2. /\ 2^11 \in Nat /\ 2^12 \in Nat /\ 2^13 \in Nat /\ 2^14 \in Nat
      /\ 2^15 \in Nat /\ 2^16 \in Nat /\ 2^17 \in Nat /\ 2^18 \in Nat
      /\ 2^19 \in Nat /\ 2^20 \in Nat
  OBVIOUS
<1>3. SUFFICES ASSUME NEW n \in 0..20 PROVE 2 ^ n \in Nat
  OBVIOUS
<1>4. \/ n = 0 \/ n = 1 \/ n = 2 \/ n = 3 \/ n = 4 \/ n = 5 \/ n = 6 \/ n = 7
      \/ n = 8 \/ n = 9 \/ n = 10 \/ n = 11 \/ n = 12 \/ n = 13 \/ n = 14
      \/ n = 15 \/ n = 16 \/ n = 17 \/ n = 18 \/ n = 19 \/ n = 20
  OBVIOUS
<1>5. QED BY <1>1, <1>2, <1>4, Zenon

\* A backoff delay is a number of seconds, never above the ceiling.
LEMMA BackoffDelayBound ==
    ASSUME NEW base \in Nat, NEW ceil \in Nat, NEW failures \in Nat
    PROVE  /\ BackoffDelay(base, ceil, failures) \in Nat
           /\ BackoffDelay(base, ceil, failures) <= ceil
<1> DEFINE shift == Least(SaturatingSub(failures, 1), 20)
           power == 2 ^ shift
           delay == base * power
<1>1. shift \in 0..20
  BY DEF SaturatingSub, Least
<1>2. power \in Nat
  <2> HIDE DEF shift
  <2> QED BY <1>1, PowerOfTwo
<1>3. delay \in Nat
  <2> HIDE DEF power
  <2> QED BY <1>2
<1>4. BackoffDelay(base, ceil, failures) = Least(delay, ceil)
  BY DEF BackoffDelay
<1> HIDE DEF delay
<1>5. QED BY <1>3, <1>4 DEF Least

\* Refilling keeps a bucket within its capacity, and adds no more than the
\* refill rate allows for the time that passed.
LEMMA RefilledBound ==
    ASSUME NEW b \in [tokens : Nat, last : Nat], b.tokens \in 0..Capacity,
           NEW t \in Nat, b.last <= t
    PROVE  LET r == Refilled(b, Capacity, Refill, t)
           IN  /\ r \in [tokens : Nat, last : Nat]
               /\ r.last = t
               /\ r.tokens \in 0..Capacity
               /\ r.tokens <= b.tokens + Refill * (t - b.last)
<1> DEFINE gain == (t - b.last) * Refill
<1>1. t - b.last \in Nat /\ SaturatingSub(t, b.last) = t - b.last
  BY DEF SaturatingSub
<1>2. gain \in Nat /\ gain = Refill * (t - b.last)
  BY <1>1, PacingAssumption
<1>3. Refilled(b, Capacity, Refill, t) =
        [tokens |-> Least(b.tokens + gain, Capacity), last |-> t]
  BY <1>1 DEF Refilled
<1> HIDE DEF gain
<1>4. QED BY <1>2, <1>3, PacingAssumption DEF Least

\* Every step keeps the types.
LEMMA TypeStep == TypeOK /\ BucketInv /\ [Next]_vars => TypeOK'
<1> SUFFICES ASSUME TypeOK, BucketInv, [Next]_vars PROVE TypeOK'
  OBVIOUS
<1>0. /\ Refilled(bucket, Capacity, Refill, passNow) \in [tokens : Nat, last : Nat]
  BY RefilledBound DEF TypeOK, BucketInv
<1>1. CASE StartPass
  BY <1>1 DEF StartPass, TypeOK
<1>2. CASE Tick
  BY <1>2 DEF Tick, TypeOK
<1>3. ASSUME NEW c \in Clusters, SkipBackoff(c) PROVE TypeOK'
  BY <1>3 DEF SkipBackoff, TypeOK
<1>4. ASSUME NEW c \in Clusters, Converged(c) PROVE TypeOK'
  BY <1>4 DEF Converged, ClearAttempts, TypeOK
<1>5. ASSUME NEW c \in Clusters, Deferred(c) PROVE TypeOK'
  BY <1>0, <1>5 DEF Deferred, TypeOK
<1>6. ASSUME NEW c \in Clusters, Call(c)
      PROVE  /\ bucket' \in [tokens : Nat, last : Nat]
             /\ todo' \subseteq Clusters
             /\ taken' \in Nat
  BY <1>0, <1>6 DEF Call, Withdrawn, TypeOK
<1>7. ASSUME NEW c \in Clusters, CallProgress(c) PROVE TypeOK'
  <2>1. Call(c)
    BY <1>7 DEF CallProgress
  <2>2. QED BY <1>6, <1>7, <2>1 DEF CallProgress, Call, ClearAttempts, TypeOK
<1>8. ASSUME NEW c \in Clusters,
             tries' = [tries EXCEPT ![c] = [failed |-> @.failed + 1, at |-> passNow]]
      PROVE  tries' \in [Clusters -> [failed : Nat, at : Nat]]
  BY <1>8 DEF TypeOK
<1>9. ASSUME NEW c \in Clusters, CallNoProgress(c) PROVE TypeOK'
  <2>1. Call(c) /\ tries' \in [Clusters -> [failed : Nat, at : Nat]]
    BY <1>8, <1>9 DEF CallNoProgress
  <2>2. rows[c].failure_count + 1 \in Nat
    BY <1>9 DEF TypeOK
  <2>3. passNow + BackoffDelay(BackoffBase, BackoffCeil, rows[c].failure_count + 1)
          \in Nat
    <3> DEFINE n == rows[c].failure_count + 1
    <3> HIDE DEF n
    <3>1. n \in Nat
      BY <2>2 DEF n
    <3>2. BackoffDelay(BackoffBase, BackoffCeil, n) \in Nat
      BY <3>1, BackoffDelayBound, PacingAssumption
    <3>3. passNow + BackoffDelay(BackoffBase, BackoffCeil, n) \in Nat
      BY <3>2 DEF TypeOK
    <3>4. QED BY <3>3 DEF n
  <2>4. rows' \in [Clusters -> [failure_count : Nat, next_attempt_at : Nat]]
    BY <1>9, <2>2, <2>3 DEF CallNoProgress, TypeOK
  <2>5. QED BY <1>6, <1>9, <2>1, <2>4 DEF CallNoProgress, Call, TypeOK
<1>10. ASSUME NEW c \in Clusters, CallError(c) PROVE TypeOK'
  <2>1. Call(c)
    BY <1>10 DEF CallError
  <2>2. QED BY <1>6, <1>10, <2>1 DEF CallError, Call, TypeOK
<1>11. CASE UNCHANGED vars
  BY <1>11 DEF vars, TypeOK
<1>12. QED BY <1>1, <1>2, <1>3, <1>4, <1>5, <1>7, <1>9, <1>10, <1>11 DEF Next

\* Taking the refill at the time of the pass keeps the books balanced, before
\* any withdrawal.
LEMMA RefillBalance ==
    ASSUME TypeOK, BucketInv
    PROVE  LET r == Refilled(bucket, Capacity, Refill, passNow)
           IN  taken - window.taken + r.tokens
                 <= Capacity + Refill * (passNow - window.at)
<1> DEFINE r == Refilled(bucket, Capacity, Refill, passNow)
           d == taken - window.taken
           before == Refill * (bucket.last - window.at)
           since  == Refill * (passNow - bucket.last)
           whole  == Refill * (passNow - window.at)
<1> SUFFICES d + r.tokens <= Capacity + whole
  OBVIOUS
<1>1. /\ r.tokens \in 0..Capacity
      /\ r.tokens <= bucket.tokens + since
  BY RefilledBound DEF TypeOK, BucketInv
<1>2. /\ bucket.last \in Nat /\ window.at \in Nat /\ passNow \in Nat
      /\ bucket.tokens \in Int /\ d \in Nat /\ Refill \in Nat /\ Capacity \in Nat
      /\ window.at <= passNow /\ bucket.last <= passNow
  BY PacingAssumption DEF TypeOK, BucketInv
<1>3. whole = before + since
  BY <1>2
<1>4. whole \in Nat /\ before \in Int /\ since \in Int
  BY <1>2
<1>5. CASE d = 0
  <2> HIDE DEF whole, d, r
  <2>1. QED BY <1>1, <1>2, <1>4, <1>5
<1>6. CASE d # 0
  <2>1. d + bucket.tokens <= Capacity + before
    BY <1>2, <1>6 DEF BucketInv, TypeOK
  <2> HIDE DEF since, whole, before, d, r
  <2>2. QED BY <1>1, <1>2, <1>3, <1>4, <2>1
<1>7. QED BY <1>5, <1>6

\* Every step keeps the bucket invariant.
LEMMA BucketStep == TypeOK /\ BucketInv /\ [Next]_vars => BucketInv'
<1> SUFFICES ASSUME TypeOK, BucketInv, [Next]_vars PROVE BucketInv'
  OBVIOUS
<1> DEFINE r == Refilled(bucket, Capacity, Refill, passNow)
<1>0. /\ r \in [tokens : Nat, last : Nat]
      /\ r.last = passNow
      /\ r.tokens \in 0..Capacity
      /\ taken - window.taken + r.tokens
           <= Capacity + Refill * (passNow - window.at)
  BY RefilledBound, RefillBalance DEF TypeOK, BucketInv
<1> HIDE DEF r
<1>1. CASE StartPass
  BY <1>1, PacingAssumption DEF StartPass, TypeOK, BucketInv
<1>2. CASE Tick
  BY <1>2 DEF Tick, TypeOK, BucketInv
<1>3. ASSUME NEW c \in Clusters, SkipBackoff(c) \/ Converged(c) PROVE BucketInv'
  BY <1>3 DEF SkipBackoff, Converged, BucketInv
<1>4. ASSUME NEW c \in Clusters, Deferred(c) PROVE BucketInv'
  <2>1. bucket' = r /\ UNCHANGED <<clock, passNow, taken, window>>
    BY <1>4 DEF Deferred, r
  <2>2. QED BY <1>0, <2>1 DEF BucketInv
<1>5. ASSUME NEW c \in Clusters, Call(c) PROVE BucketInv'
  <2>1. /\ bucket' = Withdrawn(r) /\ r.tokens >= 1
        /\ taken' = taken + 1
        /\ UNCHANGED <<passNow, window, clock>>
    BY <1>5 DEF Call, r
  <2>2. /\ bucket'.last = passNow
        /\ bucket'.tokens = r.tokens - 1
    BY <1>0, <2>1 DEF Withdrawn
  <2> DEFINE whole == Refill * (passNow - window.at)
  <2>3. whole \in Int
    BY PacingAssumption DEF TypeOK
  <2>4. taken' - window'.taken + bucket'.tokens <= Capacity + whole
    <3>1. taken - window.taken + r.tokens <= Capacity + whole
      BY <1>0
    <3> HIDE DEF whole
    <3>2. QED BY <1>0, <2>1, <2>2, <2>3, <3>1, PacingAssumption DEF TypeOK
  <2>5. taken' > window'.taken
    BY <2>1 DEF TypeOK, BucketInv
  <2>6. bucket'.tokens \in 0..Capacity
    BY <1>0, <2>1, <2>2, PacingAssumption
  <2>7. QED BY <1>0, <2>1, <2>2, <2>4, <2>5, <2>6 DEF TypeOK, BucketInv
<1>6. ASSUME NEW c \in Clusters,
             CallProgress(c) \/ CallNoProgress(c) \/ CallError(c)
      PROVE  BucketInv'
  BY <1>5, <1>6 DEF CallProgress, CallNoProgress, CallError
<1>7. CASE UNCHANGED vars
  BY <1>7 DEF vars, BucketInv
<1>8. QED BY <1>1, <1>2, <1>3, <1>4, <1>6, <1>7 DEF Next

\* The types and the bucket invariant hold in every reachable state.
THEOREM BucketInvariant == Spec => [](TypeOK /\ BucketInv)
<1>1. Init => TypeOK /\ BucketInv
  BY PacingAssumption DEF Init, TypeOK, BucketInv
<1>2. TypeOK /\ BucketInv /\ [Next]_vars => (TypeOK /\ BucketInv)'
  BY TypeStep, BucketStep
<1>3. QED BY <1>1, <1>2, PTL DEF Spec

\* The provider-call budget of RateLimits: whatever the clusters do, no stretch
\* of passes makes more calls than a full bucket and the refill since its start.
THEOREM RateLimitHolds == Spec => []RateBound
<1>1. TypeOK /\ BucketInv => RateBound
  <2> SUFFICES ASSUME TypeOK, BucketInv PROVE RateBound
    OBVIOUS
  <2> DEFINE r == Refilled(bucket, Capacity, Refill, passNow)
             whole == Refill * (passNow - window.at)
  <2>1. r.tokens \in 0..Capacity
    BY RefilledBound DEF TypeOK, BucketInv
  <2>2. taken - window.taken + r.tokens <= Capacity + whole
    BY RefillBalance
  <2>3. whole \in Int /\ taken - window.taken \in Int
    BY PacingAssumption DEF TypeOK
  <2>4. taken - window.taken <= Capacity + whole
    <3> DEFINE d == taken - window.taken
    <3> HIDE DEF whole, r, d
    <3>1. d + r.tokens <= Capacity + whole /\ d \in Int
      BY <2>2, <2>3 DEF d
    <3>2. d <= Capacity + whole
      BY <2>1, <2>3, <3>1, PacingAssumption
    <3>3. QED BY <3>2 DEF d
  <2>5. QED BY <2>4 DEF RateBound
<1>2. QED BY <1>1, BucketInvariant, PTL

-----------------------------------------------------------------------------
(* The spacing of retries.                                                 *)

\* backoff_secs is the wait that the property asks for.
LEMMA BackoffIsWait ==
    ASSUME NEW n \in Nat, n > 0
    PROVE  BackoffDelay(BackoffBase, BackoffCeil, n) = Wait(n) /\ Wait(n) \in Nat
<1>1. CASE n <= 21
  <2>1. SaturatingSub(n, 1) = n - 1 /\ Least(n - 1, 20) = n - 1
    BY <1>1 DEF SaturatingSub, Least
  <2>2. BackoffDelay(BackoffBase, BackoffCeil, n) =
          Least(BackoffBase * 2 ^ (n - 1), BackoffCeil)
    BY <2>1, Zenon DEF BackoffDelay
  <2>3. ~(n > 21)
    BY <1>1
  <2>4. BackoffDelay(BackoffBase, BackoffCeil, n) = Wait(n)
    BY <2>2, <2>3, Zenon DEF Wait
  <2>5. QED BY <2>4, BackoffDelayBound, PacingAssumption
<1>2. CASE n > 21
  <2>1. SaturatingSub(n, 1) = n - 1 /\ Least(n - 1, 20) = 20
    BY <1>2 DEF SaturatingSub, Least
  <2>2. BackoffDelay(BackoffBase, BackoffCeil, n) =
          Least(BackoffBase * 2 ^ 20, BackoffCeil)
    BY <2>1, Zenon DEF BackoffDelay
  <2>3. Least(BackoffBase * 2 ^ 20, BackoffCeil) = BackoffCeil
    BY CeilAssumption, PacingAssumption DEF Least
  <2>4. Wait(n) = BackoffCeil
    BY <1>2 DEF Wait
  <2>5. QED BY <2>2, <2>3, <2>4, PacingAssumption
<1>3. QED BY <1>1, <1>2

\* Every step keeps what a row says of the failures before it.
LEMMA RetryStep == TypeOK /\ RetryInv /\ [Next]_vars => RetryInv'
<1> SUFFICES ASSUME TypeOK, RetryInv, [Next]_vars, NEW d \in Clusters
             PROVE  /\ rows'[d].failure_count = tries'[d].failed
                    /\ tries'[d].failed > 0 =>
                         rows'[d].next_attempt_at = tries'[d].at + Wait(tries'[d].failed)
  BY DEF RetryInv
<1>1. CASE UNCHANGED <<rows, tries>>
  BY <1>1 DEF RetryInv
<1>2. ASSUME NEW c \in Clusters, Converged(c) \/ CallProgress(c)
      PROVE  /\ rows'[d].failure_count = tries'[d].failed
             /\ tries'[d].failed > 0 =>
                  rows'[d].next_attempt_at = tries'[d].at + Wait(tries'[d].failed)
  <2>1. /\ rows' = [rows EXCEPT ![c] = [failure_count |-> 0, next_attempt_at |-> 0]]
        /\ tries' = [tries EXCEPT ![c] = [failed |-> 0, at |-> 0]]
    BY <1>2 DEF Converged, CallProgress, ClearAttempts
  <2>2. DOMAIN rows = Clusters /\ DOMAIN tries = Clusters
    BY DEF TypeOK
  <2>3. CASE c = d
    BY <2>1, <2>2, <2>3
  <2>4. CASE c # d
    BY <2>1, <2>2, <2>4 DEF RetryInv
  <2>5. QED BY <2>3, <2>4
<1>3. ASSUME NEW c \in Clusters, CallNoProgress(c)
      PROVE  /\ rows'[d].failure_count = tries'[d].failed
             /\ tries'[d].failed > 0 =>
                  rows'[d].next_attempt_at = tries'[d].at + Wait(tries'[d].failed)
  <2> DEFINE n == rows[c].failure_count + 1
  <2>1. /\ rows' = [rows EXCEPT ![c] =
                      [ failure_count   |-> n,
                        next_attempt_at |->
                           passNow + BackoffDelay(BackoffBase, BackoffCeil, n) ]]
        /\ tries' = [tries EXCEPT ![c] = [failed |-> tries[c].failed + 1,
                                          at     |-> passNow]]
    BY <1>3 DEF CallNoProgress
  <2>2. /\ DOMAIN rows = Clusters /\ DOMAIN tries = Clusters
        /\ tries[c].failed = rows[c].failure_count
    BY DEF TypeOK, RetryInv
  <2>3. n \in Nat /\ n > 0 /\ n = tries[c].failed + 1
    BY <2>2 DEF TypeOK
  <2> HIDE DEF n
  <2>4. BackoffDelay(BackoffBase, BackoffCeil, n) = Wait(n)
    BY <2>3, BackoffIsWait
  <2>5. CASE c = d
    BY <2>1, <2>2, <2>3, <2>4, <2>5
  <2>6. CASE c # d
    BY <2>1, <2>2, <2>6 DEF RetryInv
  <2>7. QED BY <2>5, <2>6
<1>4. ASSUME ~UNCHANGED <<rows, tries>>
      PROVE  \E c \in Clusters : Converged(c) \/ CallProgress(c) \/ CallNoProgress(c)
  BY <1>4 DEF Next, vars, StartPass, Tick, SkipBackoff, Deferred, CallError
<1>5. QED BY <1>1, <1>2, <1>3, <1>4

\* backoff_secs and record_attempt: for any base and ceiling, any number of
\* clusters and any pattern of errors between them, two applies of a cluster
\* that keep coming to nothing are as far apart as the doubling wait asks.
THEOREM RetriesSpaced == Spec => RetrySpaced
<1> DEFINE Spaced ==
        \A c \in Clusters :
          (taken' # taken /\ c \in todo /\ c \notin todo' /\ tries[c].failed > 0)
          => passNow >= tries[c].at + Wait(tries[c].failed)
<1>1. Init => RetryInv
  BY DEF Init, RetryInv
<1>2. TypeOK /\ RetryInv /\ [Next]_vars => RetryInv'
  BY RetryStep
<1>3. TypeOK /\ RetryInv /\ [Next]_vars => [Spaced]_vars
  <2>1. SUFFICES ASSUME TypeOK, RetryInv, Next, taken' # taken, NEW c \in Clusters,
                        c \in todo, c \notin todo', tries[c].failed > 0
                 PROVE  passNow >= tries[c].at + Wait(tries[c].failed)
    OBVIOUS
  <2>2. PICK d \in Clusters : Call(d)
    BY <2>1 DEF Next, StartPass, Tick, SkipBackoff, Converged, Deferred,
       CallProgress, CallNoProgress, CallError
  <2>3. d = c
    BY <2>1, <2>2 DEF Call
  <2>4. ~(passNow < rows[c].next_attempt_at)
    BY <2>2, <2>3 DEF Call, InBackoff
  <2>5. rows[c].next_attempt_at = tries[c].at + Wait(tries[c].failed)
    BY <2>1 DEF RetryInv
  <2>6. passNow \in Nat /\ rows[c].next_attempt_at \in Nat
    BY <2>1 DEF TypeOK
  <2>7. passNow >= rows[c].next_attempt_at
    BY <2>4, <2>6
  <2>8. QED BY <2>5, <2>7
<1>4. QED BY <1>1, <1>2, <1>3, BucketInvariant, PTL DEF Spec, RetrySpaced

-----------------------------------------------------------------------------
(* Admission.                                                              *)

\* A request that is over, or only begins, is in no queue.
LEMMA NoneQueued ==
    /\ RequestTyped(NoRequest)
    /\ \A p : ~Queued(NoRequest, p)
BY DEF RequestTyped, Queued, NoRequest

\* Where a request is tells which kind it is of and what it carries.
LEMMA RequestAt ==
    ASSUME NEW r, RequestTyped(r)
    PROVE  /\ r.op \in {"none", "view", "edit", "create"}
           /\ r.op \in {"view", "edit"} =>
                r.pc \notin {"lock", "admit", "budget", "upsert"}
           /\ r.op \in {"view", "create"} => r.pc # "write"
           /\ r.op # "none" /\ r.pc = "seed" => SeedPolicy # NoPolicy
           /\ r.op = "create" => r.id \in Ids /\ r.spec \in Bodies
           /\ r.op = "edit" /\ r.pc = "write" => PolicyTyped(r.next) /\ ~r.next.seeded
<1>1. CASE r = NoRequest
  BY <1>1 DEF NoRequest
<1>2. CASE r.op = "view" /\ r.pc \in Asking
  BY <1>2 DEF Asking
<1>3. CASE r.op = "edit" /\ r.pc \in Asking
  BY <1>3 DEF Asking
<1>4. CASE r.op = "edit" /\ r.pc = "write" /\ PolicyTyped(r.next) /\ ~r.next.seeded
  BY <1>4
<1>5. CASE /\ r.op = "create" /\ r.id \in Ids /\ r.spec \in Bodies
           /\ r.pc \in Asking \cup {"lock", "admit", "budget", "upsert"}
  BY <1>5 DEF Asking
<1>6. QED BY <1>1, <1>2, <1>3, <1>4, <1>5 DEF RequestTyped

\* What a request carries when it arrives.
LEMMA ArrivesTyped ==
    /\ RequestTyped([op |-> "view", pc |-> "policy"])
    /\ \A e \in Edits : ValidEdit(e) =>
          RequestTyped([op |-> "edit", pc |-> "policy", edit |-> e])
    /\ \A id \in Ids, s \in Bodies :
          RequestTyped([op |-> "create", pc |-> "policy", id |-> id, spec |-> s,
                        policy |-> NoPolicy])
<1>1. "policy" \in Asking
  BY DEF Asking
<1>2. RequestTyped([op |-> "view", pc |-> "policy"])
  BY <1>1 DEF RequestTyped
<1>3. ASSUME NEW e \in Edits, ValidEdit(e)
      PROVE  RequestTyped([op |-> "edit", pc |-> "policy", edit |-> e])
  BY <1>1, <1>3 DEF RequestTyped
<1>4. ASSUME NEW id \in Ids, NEW s \in Bodies
      PROVE  RequestTyped([op |-> "create", pc |-> "policy", id |-> id, spec |-> s,
                           policy |-> NoPolicy])
  BY <1>1 DEF RequestTyped
<1>5. QED BY <1>2, <1>3, <1>4

\* A create that is about to be stored, and an edit that is.
LEMMA CreateAt ==
    ASSUME NEW c \in Clients, RequestTyped(req[c]),
           At(c, "lock") \/ At(c, "admit") \/ At(c, "budget") \/ At(c, "upsert")
    PROVE  req[c].op = "create" /\ req[c].id \in Ids /\ Project(c) \in Projects
<1>1. req[c].op = "create" /\ req[c].id \in Ids /\ req[c].spec \in Bodies
  BY RequestAt DEF At
<1>2. QED BY <1>1, GovernanceAssumption DEF Project

LEMMA EditAt ==
    ASSUME NEW c \in Clients, RequestTyped(req[c]), At(c, "write")
    PROVE  req[c].op = "edit" /\ PolicyTyped(req[c].next) /\ ~req[c].next.seeded
BY RequestAt DEF At

\* What validation lets through has no negative amount.
LEMMA ValidIsTyped ==
    ASSUME NEW m, \A k \in DOMAIN m : m[k] \in Int, ValidAmounts(m)
    PROVE  Amounts(m)
BY DEF ValidAmounts, Amounts

\* The file is a policy, and so is the one that stands in for a missing file.
LEMMA BasePolicies ==
    /\ SeedPolicy # NoPolicy => PolicyTyped(SeedPolicy)
    /\ PolicyTyped(DefaultPolicy)
<1>1. SeedPolicy # NoPolicy => PolicyTyped(SeedPolicy)
  BY GovernanceAssumption DEF PolicyTyped, FromFile
<1>2. PolicyTyped(DefaultPolicy)
  BY DEF PolicyTyped, DefaultPolicy, EmptyTable, Amounts
<1>3. QED BY <1>1, <1>2

\* An edit of a policy gives one, and takes the mark of the seed from it.
LEMMA MergedTyped ==
    ASSUME NEW row, PolicyTyped(row), NEW e \in Edits, ValidEdit(e)
    PROVE  PolicyTyped(Merged(row, e)) /\ ~Merged(row, e).seeded
<1> DEFINE m == Merged(row, e)
<1>1. /\ DOMAIN m = {"prices", "quotas", "budgets", "seeded"} /\ ~m.seeded
      /\ m.prices = IF "prices" \in e.sections THEN e.prices ELSE row.prices
      /\ m.quotas = IF "quotas" \in e.sections THEN e.quotas ELSE row.quotas
      /\ m.budgets = IF "budgets" \in e.sections THEN e.budgets ELSE row.budgets
  BY DEF Merged
<1> HIDE DEF m
<1>2. FromFile(m, "prices") \/ Amounts(m.prices)
  <2>1. CASE "prices" \in e.sections
    <3>1. Amounts(e.prices)
      BY <2>1, ValidIsTyped, GovernanceAssumption DEF ValidEdit
    <3>2. QED BY <1>1, <2>1, <3>1
  <2>2. CASE "prices" \notin e.sections
    BY <1>1, <2>2 DEF PolicyTyped, FromFile
  <2>3. QED BY <2>1, <2>2
<1>3. FromFile(m, "quotas") \/ \A q \in DOMAIN m.quotas : Amounts(m.quotas[q])
  <2>1. CASE "quotas" \in e.sections
    <3>1. \A q \in DOMAIN e.quotas : Amounts(e.quotas[q])
      BY <2>1, ValidIsTyped, GovernanceAssumption DEF ValidEdit
    <3>2. QED BY <1>1, <2>1, <3>1
  <2>2. CASE "quotas" \notin e.sections
    BY <1>1, <2>2 DEF PolicyTyped, FromFile
  <2>3. QED BY <2>1, <2>2
<1>4. FromFile(m, "budgets") \/ \A q \in DOMAIN m.budgets :
          m.budgets[q].window > 0 /\ Amounts(m.budgets[q].limits)
  <2>1. CASE "budgets" \in e.sections
    <3>1. \A q \in DOMAIN e.budgets :
              e.budgets[q].window > 0 /\ Amounts(e.budgets[q].limits)
      BY <2>1, ValidIsTyped, GovernanceAssumption DEF ValidEdit
    <3>2. QED BY <1>1, <2>1, <3>1
  <2>2. CASE "budgets" \notin e.sections
    BY <1>1, <2>2 DEF PolicyTyped, FromFile
  <2>3. QED BY <2>1, <2>2
<1>5. QED BY <1>1, <1>2, <1>3, <1>4 DEF PolicyTyped, m

\* Once it knows the policy, a request goes on to the lock only under a quota.
LEMMA KnowingTyped ==
    ASSUME NEW c \in Clients, RequestTyped(req[c]),
           At(c, "policy") \/ At(c, "seed"), NEW row, PolicyTyped(row)
    PROVE  /\ RequestTyped(Knowing(c, row))
           /\ \A p : ~Queued(Knowing(c, row), p)
<1>1. CASE req[c].op = "view"
  <2>1. Knowing(c, row) = NoRequest
    BY <1>1 DEF Knowing
  <2>2. QED BY <2>1, NoneQueued
<1>2. CASE req[c].op = "edit"
  <2>1. req[c].edit \in Edits /\ ValidEdit(req[c].edit)
    BY <1>2 DEF RequestTyped, At, NoRequest
  <2> DEFINE next == Merged(row, req[c].edit)
  <2>2. PolicyTyped(next) /\ ~next.seeded
    BY <2>1, MergedTyped
  <2>3. Knowing(c, row) = [op |-> "edit", pc |-> "write", next |-> next]
    BY <1>2 DEF Knowing
  <2> HIDE DEF next
  <2>4. QED BY <2>2, <2>3 DEF RequestTyped, Queued
<1>3. CASE req[c].op = "create"
  <2>1. CASE Knowing(c, row) = NoRequest
    BY <2>1, NoneQueued
  <2>2. CASE Knowing(c, row) # NoRequest
    <3> DEFINE pc == IF req[c].spec.project \in DOMAIN row.quotas THEN "lock"
                     ELSE "budget"
               r == [req[c] EXCEPT !.policy = row, !.pc = pc]
    <3>1. Knowing(c, row) = r
      BY <1>3, <2>2 DEF Knowing
    <3>2. /\ DOMAIN req[c] = {"op", "pc", "id", "spec", "policy"}
          /\ req[c].id \in Ids /\ req[c].spec \in Bodies
      BY <1>3 DEF RequestTyped, NoRequest
    <3>3. /\ DOMAIN r = {"op", "pc", "id", "spec", "policy"}
          /\ r.op = "create" /\ r.id = req[c].id /\ r.spec = req[c].spec
          /\ r.policy = row /\ r.pc = pc
      BY <1>3, <3>2
    <3> HIDE DEF r
    <3>4. RequestTyped(r)
      BY <3>2, <3>3 DEF RequestTyped
    <3>5. \A p : ~Queued(r, p)
      BY <3>3 DEF Queued
    <3>6. QED BY <3>1, <3>4, <3>5
  <2>3. QED BY <2>1, <2>2
<1>4. QED BY <1>1, <1>2, <1>3, RequestAt DEF At

\* A request moves without coming to a lock or leaving one.
LEMMA LockStands ==
    ASSUME LockInv, NEW c \in Clients, NEW r, RequestTyped(r),
           req' = [req EXCEPT ![c] = r], UNCHANGED admit_locks,
           \A p \in Projects :
              /\ Queued(r, p) <=> Queued(req[c], p)
              /\ Admitted(r, p) => Head(admit_locks[p]) = c
    PROVE  LockInv'
<1>1. /\ DOMAIN req' = Clients /\ req'[c] = r
      /\ \A d \in Clients \ {c} : req'[d] = req[d]
  BY DEF LockInv
<1>2. \A d \in Clients : RequestTyped(req'[d])
  BY <1>1 DEF LockInv
<1>3. ASSUME NEW p \in Projects, NEW d \in Clients
      PROVE  /\ Queued(req'[d], p) <=> d \in ToSet(admit_locks[p])
             /\ Admitted(req'[d], p) => Head(admit_locks[p]) = d
  <2>1. CASE d = c
    BY <1>1, <2>1 DEF LockInv
  <2>2. CASE d # c
    BY <1>1, <2>2 DEF LockInv
  <2>3. QED BY <2>1, <2>2
<1>4. QED BY <1>1, <1>2, <1>3 DEF LockInv

\* A queue and its tail.
LEMMA TailOf ==
    ASSUME NEW S, NEW q \in Seq(S), q # << >>, IsInjective(q)
    PROVE  /\ Tail(q) \in Seq(S) /\ IsInjective(Tail(q))
           /\ \A x : x \in ToSet(Tail(q)) <=> x \in ToSet(q) /\ x # Head(q)
<1>1. /\ Len(q) \in Nat \ {0} /\ DOMAIN q = 1 .. Len(q) /\ Head(q) = q[1]
      /\ Tail(q) \in Seq(S) /\ Len(Tail(q)) = Len(q) - 1
      /\ DOMAIN Tail(q) = 1 .. Len(q) - 1
      /\ \A i \in 1 .. Len(q) - 1 : Tail(q)[i] = q[i + 1]
  OBVIOUS
<1>2. \A i, j \in 1 .. Len(q) : q[i] = q[j] => i = j
  BY <1>1 DEF IsInjective
<1>3. IsInjective(Tail(q))
  <2>1. SUFFICES ASSUME NEW i \in 1 .. Len(q) - 1, NEW j \in 1 .. Len(q) - 1,
                        Tail(q)[i] = Tail(q)[j]
                 PROVE  i = j
    BY <1>1 DEF IsInjective
  <2>2. i + 1 \in 1 .. Len(q) /\ j + 1 \in 1 .. Len(q) /\ q[i + 1] = q[j + 1]
    BY <1>1, <2>1
  <2>3. i + 1 = j + 1
    BY <1>2, <2>2
  <2>4. QED BY <2>3
<1>4. ASSUME NEW x, x \in ToSet(Tail(q)) PROVE x \in ToSet(q) /\ x # Head(q)
  <2>1. PICK i \in 1 .. Len(q) - 1 : x = q[i + 1]
    BY <1>1, <1>4 DEF ToSet
  <2>2. i + 1 \in 1 .. Len(q) /\ i + 1 # 1 /\ 1 \in 1 .. Len(q)
    BY <1>1
  <2>3. q[i + 1] # q[1]
    BY <1>2, <2>2
  <2>4. QED BY <1>1, <2>1, <2>2, <2>3 DEF ToSet
<1>5. ASSUME NEW x, x \in ToSet(q), x # Head(q) PROVE x \in ToSet(Tail(q))
  <2>1. PICK i \in 1 .. Len(q) : x = q[i]
    BY <1>1, <1>5 DEF ToSet
  <2>2. i # 1
    BY <1>1, <1>5, <2>1
  <2>3. i - 1 \in 1 .. Len(q) - 1 /\ (i - 1) + 1 = i
    BY <1>1, <2>2
  <2>4. Tail(q)[i - 1] = x
    BY <1>1, <2>1, <2>3
  <2>5. QED BY <1>1, <2>3, <2>4 DEF ToSet
<1>6. QED BY <1>1, <1>3, <1>4, <1>5

\* A create ends, and its guard with it.
LEMMA LockDropped ==
    ASSUME LockInv, NEW c \in Clients, req[c].op = "create",
           req' = [req EXCEPT ![c] = NoRequest], DropGuard(c),
           Queued(req[c], Project(c)) => Holds(c)
    PROVE  LockInv'
<1> DEFINE p == Project(c)
           q == admit_locks[p]
<1>0. p \in Projects
  <2>1. RequestTyped(req[c])
    BY DEF LockInv
  <2>2. req[c].spec \in Bodies
    BY <2>1, RequestAt
  <2>3. QED BY <2>2, GovernanceAssumption DEF Project
<1>1. /\ DOMAIN req' = Clients /\ req'[c] = NoRequest
      /\ \A d \in Clients \ {c} : req'[d] = req[d]
  BY DEF LockInv
<1>2. \A d \in Clients : RequestTyped(req'[d])
  BY <1>1, NoneQueued DEF LockInv
<1>3. \A o : Queued(req[c], o) => o = p
  BY DEF Queued, Project
<1>4. CASE ~Holds(c)
  <2>1. UNCHANGED admit_locks
    BY <1>4 DEF DropGuard
  <2>2. \A o \in Projects : ~Queued(req[c], o)
    BY <1>3, <1>4
  <2>3. QED BY <2>1, <2>2, NoneQueued, LockStands DEF Admitted
<1>5. CASE Holds(c)
  <2>1. /\ q \in Seq(Clients) /\ IsInjective(q) /\ q # << >> /\ Head(q) = c
        /\ DOMAIN admit_locks = Projects
    BY <1>0, <1>5 DEF LockInv, Holds
  <2>2. /\ DOMAIN admit_locks' = Projects /\ admit_locks'[p] = Tail(q)
        /\ \A o \in Projects \ {p} : admit_locks'[o] = admit_locks[o]
    BY <1>0, <1>5, <2>1 DEF DropGuard
  <2> HIDE DEF q
  <2>3. /\ Tail(q) \in Seq(Clients) /\ IsInjective(Tail(q))
        /\ \A x : x \in ToSet(Tail(q)) <=> x \in ToSet(q) /\ x # c
    BY <2>1, TailOf
  <2> HIDE DEF p
  <2>4. ASSUME NEW o \in Projects, NEW d \in Clients
        PROVE  /\ Queued(req'[d], o) <=> d \in ToSet(admit_locks'[o])
               /\ Admitted(req'[d], o) => Head(admit_locks'[o]) = d
    <3>1. CASE d = c
      <4>1. ~Queued(req'[d], o)
        BY <1>1, <3>1, NoneQueued
      <4>2. d \notin ToSet(admit_locks'[o])
        <5>1. CASE o = p
          BY <2>2, <2>3, <3>1, <5>1
        <5>2. CASE o # p
          BY <1>3, <2>2, <3>1, <5>2 DEF LockInv
        <5>3. QED BY <5>1, <5>2
      <4>3. QED BY <4>1, <4>2 DEF Admitted
    <3>2. CASE d # c
      <4>1. req'[d] = req[d]
        BY <1>1, <3>2
      <4>2. CASE o = p
        <5>1. Queued(req[d], p) <=> d \in ToSet(q)
          BY <1>0, <4>2 DEF LockInv, q
        <5>2. ~Admitted(req[d], p)
          BY <1>0, <2>1, <3>2 DEF LockInv, q
        <5>3. QED BY <2>2, <2>3, <3>2, <4>1, <4>2, <5>1, <5>2
      <4>3. CASE o # p
        BY <2>2, <4>1, <4>3 DEF LockInv
      <4>4. QED BY <4>2, <4>3
    <3>3. QED BY <3>1, <3>2
  <2>5. ASSUME NEW o \in Projects
        PROVE  admit_locks'[o] \in Seq(Clients) /\ IsInjective(admit_locks'[o])
    BY <2>2, <2>3 DEF LockInv
  <2>6. QED BY <1>1, <1>2, <2>2, <2>4, <2>5 DEF LockInv
<1>6. QED BY <1>4, <1>5

\* A create joins the queue, once, and behind whoever was admitted.
LEMMA LockJoined ==
    ASSUME LockInv, NEW c \in Clients, QueueForLock(c)
    PROVE  LockInv'
<1> DEFINE p == Project(c)
           q == admit_locks[p]
           r == [req[c] EXCEPT !.pc = "admit"]
<1>1. /\ req[c].op = "create" /\ req[c].pc = "lock"
      /\ DOMAIN req[c] = {"op", "pc", "id", "spec", "policy"}
      /\ req[c].id \in Ids /\ req[c].spec \in Bodies
      /\ p \in DOMAIN req[c].policy.quotas
  BY DEF QueueForLock, At, LockInv, RequestTyped, NoRequest, Asking, Project
<1>2. p \in Projects
  BY <1>1, GovernanceAssumption DEF Project
<1>3. /\ DOMAIN r = {"op", "pc", "id", "spec", "policy"} /\ r.pc = "admit"
      /\ r.op = "create" /\ r.id = req[c].id /\ r.spec = req[c].spec
      /\ r.policy = req[c].policy
  BY <1>1
<1>4. req' = [req EXCEPT ![c] = r]
  BY DEF QueueForLock, Goto
<1> HIDE DEF r
<1>5. RequestTyped(r) /\ \A o : (Queued(r, o) <=> o = p) /\ ~Admitted(r, o)
  BY <1>1, <1>3 DEF RequestTyped, Queued, Admitted, Project
<1>6. \A o : ~Queued(req[c], o)
  BY <1>1 DEF Queued
<1>7. /\ DOMAIN req' = Clients /\ req'[c] = r
      /\ \A d \in Clients \ {c} : req'[d] = req[d]
  BY <1>4 DEF LockInv
<1>8. /\ q \in Seq(Clients) /\ IsInjective(q) /\ c \notin ToSet(q)
      /\ DOMAIN admit_locks = Projects
  BY <1>2, <1>6 DEF LockInv
<1>9. /\ DOMAIN admit_locks' = Projects /\ admit_locks'[p] = Append(q, c)
      /\ \A o \in Projects \ {p} : admit_locks'[o] = admit_locks[o]
  BY <1>2, <1>8 DEF QueueForLock
<1> HIDE DEF p, q
<1>10. /\ Append(q, c) \in Seq(Clients) /\ IsInjective(Append(q, c))
       /\ \A x : x \in ToSet(Append(q, c)) <=> x \in ToSet(q) \/ x = c
       /\ q # << >> => Head(Append(q, c)) = Head(q)
  <2> DEFINE s == Append(q, c)
  <2>1. /\ Len(q) \in Nat /\ DOMAIN q = 1 .. Len(q) /\ s \in Seq(Clients)
        /\ DOMAIN s = 1 .. Len(q) + 1 /\ s[Len(q) + 1] = c
        /\ \A i \in 1 .. Len(q) : s[i] = q[i]
        /\ q # << >> => Head(s) = Head(q)
    BY <1>8
  <2> HIDE DEF s
  <2>2. \A i \in 1 .. Len(q) : q[i] # c
    BY <1>8, <2>1 DEF ToSet
  <2>3. \A i \in 1 .. Len(q) + 1 : i = Len(q) + 1 \/ i \in 1 .. Len(q)
    BY <2>1
  <2>4. IsInjective(s)
    <3>1. \A i, j \in 1 .. Len(q) : q[i] = q[j] => i = j
      BY <1>8, <2>1 DEF IsInjective
    <3>2. QED BY <2>1, <2>2, <2>3, <3>1 DEF IsInjective
  <2>5. \A x : x \in ToSet(s) <=> x \in ToSet(q) \/ x = c
    <3>1. Len(q) + 1 \in 1 .. Len(q) + 1
          /\ \A i \in 1 .. Len(q) : i \in 1 .. Len(q) + 1
      BY <2>1
    <3>2. QED BY <2>1, <2>3, <3>1 DEF ToSet
  <2>6. QED BY <2>1, <2>4, <2>5 DEF s
<1>11. ASSUME NEW o \in Projects, NEW d \in Clients
       PROVE  /\ Queued(req'[d], o) <=> d \in ToSet(admit_locks'[o])
              /\ Admitted(req'[d], o) => Head(admit_locks'[o]) = d
  <2>1. CASE d = c
    <3>1. CASE o = p
      BY <1>5, <1>7, <1>9, <1>10, <2>1, <3>1
    <3>2. CASE o # p
      BY <1>5, <1>6, <1>7, <1>9, <2>1, <3>2 DEF LockInv
    <3>3. QED BY <3>1, <3>2
  <2>2. CASE d # c
    <3>1. req'[d] = req[d]
      BY <1>7, <2>2
    <3>2. CASE o = p
      <4>1. Queued(req[d], p) <=> d \in ToSet(q)
        BY <1>2, <3>2 DEF LockInv, q
      <4>2. Admitted(req[d], p) => Head(q) = d /\ q # << >>
        <5>1. Admitted(req[d], p) => Head(q) = d /\ d \in ToSet(q)
          BY <1>2, <4>1, <3>2 DEF LockInv, q, Admitted
        <5>2. d \in ToSet(q) => q # << >>
          BY DEF ToSet
        <5>3. QED BY <5>1, <5>2
      <4>3. QED BY <1>9, <1>10, <2>2, <3>1, <3>2, <4>1, <4>2
    <3>3. CASE o # p
      BY <1>9, <3>1, <3>3 DEF LockInv
    <3>4. QED BY <3>2, <3>3
  <2>3. QED BY <2>1, <2>2
<1>12. ASSUME NEW o \in Projects
       PROVE  admit_locks'[o] \in Seq(Clients) /\ IsInjective(admit_locks'[o])
  BY <1>9, <1>10 DEF LockInv
<1>13. \A d \in Clients : RequestTyped(req'[d])
  BY <1>5, <1>7 DEF LockInv
<1>14. QED BY <1>7, <1>9, <1>11, <1>12, <1>13 DEF LockInv

\* Every step keeps the queues.
LEMMA LockStep ==
    ASSUME LockInv, RowsTyped, [AdmissionNext]_avars
    PROVE  LockInv'
<1>1. CASE UNCHANGED << req, admit_locks >>
  BY <1>1 DEF LockInv
<1>2. ASSUME NEW c \in Clients, ReadPolicy(c) \/ InsertSeed(c)
      PROVE  LockInv'
  <2>1. RequestTyped(req[c]) /\ (At(c, "policy") \/ At(c, "seed"))
    BY <1>2 DEF LockInv, ReadPolicy, InsertSeed
  <2>2. \A p : ~Queued(req[c], p)
    BY <2>1 DEF At, Queued
  <2>3. UNCHANGED admit_locks
    BY <1>2 DEF ReadPolicy, InsertSeed
  <2>4. CASE ReadPolicy(c) /\ policy = NoPolicy /\ SeedPolicy # NoPolicy
    <3> DEFINE r == [req[c] EXCEPT !.pc = "seed"]
    <3>1. req' = [req EXCEPT ![c] = r]
      BY <2>4 DEF ReadPolicy, Goto
    <3>2. RequestTyped(r) /\ \A p : ~Queued(r, p)
      <4>1. "seed" \in Asking /\ "pc" \in DOMAIN req[c] /\ req[c].pc = "policy"
        BY <2>1, <2>4 DEF Asking, RequestTyped, ReadPolicy, At, NoRequest
      <4>2. /\ DOMAIN r = DOMAIN req[c] /\ r.pc = "seed"
            /\ \A f \in DOMAIN req[c] \ {"pc"} : r[f] = req[c][f]
        BY <4>1
      <4> HIDE DEF r
      <4>3. CASE req[c].op = "view"
        BY <2>1, <4>1, <4>2, <4>3 DEF RequestTyped, Queued, NoRequest
      <4>4. CASE req[c].op = "edit"
        BY <2>1, <4>1, <4>2, <4>4 DEF RequestTyped, Queued, NoRequest
      <4>5. CASE req[c].op = "create"
        BY <2>1, <4>1, <4>2, <4>5 DEF RequestTyped, Queued, NoRequest
      <4>6. QED BY <2>1, <4>3, <4>4, <4>5, RequestAt DEF At
    <3> HIDE DEF r
    <3>3. QED BY <2>2, <2>3, <3>1, <3>2, LockStands DEF Admitted
  <2>5. CASE ~(ReadPolicy(c) /\ policy = NoPolicy /\ SeedPolicy # NoPolicy)
    <3>1. PICK row : PolicyTyped(row) /\ Goto(c, Knowing(c, row))
      <4>1. PolicyTyped(DefaultPolicy)
        BY BasePolicies
      <4>2. CASE ReadPolicy(c)
        BY <2>5, <4>1, <4>2 DEF ReadPolicy, RowsTyped
      <4>3. CASE InsertSeed(c)
        <5>1. SeedPolicy # NoPolicy
          <6>1. At(c, "seed")
            BY <4>3 DEF InsertSeed
          <6>2. QED BY <2>1, <6>1, RequestAt DEF At
        <5>2. PolicyTyped(policy')
          BY <4>3, <5>1, BasePolicies DEF InsertSeed, RowsTyped
        <5>3. Goto(c, Knowing(c, policy'))
          BY <4>3 DEF InsertSeed
        <5>4. QED BY <5>2, <5>3
      <4>4. QED BY <1>2, <4>2, <4>3
    <3>2. /\ RequestTyped(Knowing(c, row))
          /\ \A p : ~Queued(Knowing(c, row), p)
      BY <2>1, <3>1, KnowingTyped
    <3>3. req' = [req EXCEPT ![c] = Knowing(c, row)]
      BY <3>1 DEF Goto
    <3>4. QED BY <2>2, <2>3, <3>2, <3>3, LockStands DEF Admitted
  <2>6. QED BY <2>4, <2>5
<1>3. ASSUME NEW c \in Clients, NEW r, RequestTyped(r), \A p : ~Queued(r, p),
             req[c] = NoRequest, Goto(c, r), UNCHANGED admit_locks
      PROVE  LockInv'
  BY <1>3, NoneQueued, LockStands DEF Goto, Admitted
<1>4. ASSUME NEW c \in Clients, ViewPolicy(c) \/ UpdatePolicy(c) \/ CreateCluster(c)
      PROVE  LockInv'
  <2>0. "policy" \in Asking /\ req[c] = NoRequest /\ UNCHANGED admit_locks
    BY <1>4 DEF Asking, ViewPolicy, UpdatePolicy, CreateCluster
  <2>1. PICK r : /\ Goto(c, r) /\ r.pc = "policy"
                 /\ \/ r = [op |-> "view", pc |-> "policy"]
                    \/ \E e \in Edits : ValidEdit(e) /\
                         r = [op |-> "edit", pc |-> "policy", edit |-> e]
                    \/ \E id \in Ids, s \in Bodies :
                         r = [op |-> "create", pc |-> "policy", id |-> id,
                              spec |-> s, policy |-> NoPolicy]
    <3>1. CASE ViewPolicy(c)
      BY <3>1 DEF ViewPolicy
    <3>2. CASE UpdatePolicy(c)
      BY <3>2 DEF UpdatePolicy
    <3>3. CASE CreateCluster(c)
      BY <3>3 DEF CreateCluster
    <3>4. QED BY <1>4, <3>1, <3>2, <3>3
  <2>2. RequestTyped(r)
    BY <2>1, ArrivesTyped
  <2>3. \A p : ~Queued(r, p)
    BY <2>1 DEF Queued
  <2>4. QED BY <1>3, <2>0, <2>1, <2>2, <2>3
<1>5. ASSUME NEW c \in Clients, req[c].op # "create", Goto(c, NoRequest),
             UNCHANGED admit_locks
      PROVE  LockInv'
  <2>1. \A p : ~Queued(req[c], p)
    BY <1>5 DEF Queued
  <2>2. QED BY <1>5, <2>1, NoneQueued, LockStands DEF Goto, Admitted
<1>6. ASSUME NEW c \in Clients, SetPolicy(c) PROVE LockInv'
  <2>1. req[c].op # "create"
    <3>1. RequestTyped(req[c]) /\ At(c, "write")
      BY <1>6 DEF SetPolicy, LockInv
    <3>2. QED BY <3>1, EditAt
  <2>2. QED BY <1>5, <1>6, <2>1 DEF SetPolicy
<1>7. ASSUME NEW c \in Clients, req[c].op = "create", req[c].pc \in {"admit", "budget"},
             Queued(req[c], Project(c)) => Holds(c),
             NEW pc \in {"budget", "upsert"}, pc # req[c].pc,
             Goto(c, [req[c] EXCEPT !.pc = pc]), UNCHANGED admit_locks
      PROVE  LockInv'
  <2> DEFINE r == [req[c] EXCEPT !.pc = pc]
  <2>1. /\ DOMAIN req[c] = {"op", "pc", "id", "spec", "policy"}
        /\ req[c].id \in Ids /\ req[c].spec \in Bodies
    BY <1>7 DEF LockInv, RequestTyped, NoRequest
  <2>2. /\ DOMAIN r = {"op", "pc", "id", "spec", "policy"} /\ r.pc = pc
        /\ r.op = "create" /\ r.id = req[c].id /\ r.spec = req[c].spec
        /\ r.policy = req[c].policy
    BY <1>7, <2>1
  <2>3. req' = [req EXCEPT ![c] = r]
    BY <1>7 DEF Goto
  <2> HIDE DEF r
  <2>4. RequestTyped(r)
    BY <1>7, <2>1, <2>2 DEF RequestTyped
  <2>5. \A p \in Projects : Queued(r, p) <=> Queued(req[c], p)
    BY <1>7, <2>2 DEF Queued
  <2>6. ASSUME NEW p \in Projects, Admitted(r, p) PROVE Head(admit_locks[p]) = c
    <3>1. p = Project(c) /\ Queued(req[c], p)
      BY <2>2, <2>5, <2>6 DEF Admitted, Queued, Project
    <3>2. QED BY <1>7, <3>1 DEF Holds
  <2>7. QED BY <1>7, <2>3, <2>4, <2>5, <2>6, LockStands
<1>8. ASSUME NEW c \in Clients, At(c, "budget") \/ At(c, "upsert")
      PROVE  /\ req[c].op = "create" /\ req[c].pc \in {"budget", "upsert"}
             /\ Queued(req[c], Project(c)) => Holds(c)
  <2>1. /\ req[c].op = "create" /\ req[c].pc \in {"budget", "upsert"}
        /\ Project(c) \in Projects
    <3>1. RequestTyped(req[c])
      BY DEF LockInv
    <3>2. QED BY <1>8, <3>1, CreateAt DEF At
  <2>2. ASSUME Queued(req[c], Project(c)) PROVE Holds(c)
    <3>1. Admitted(req[c], Project(c))
      BY <2>1, <2>2 DEF Admitted
    <3>2. Head(admit_locks[Project(c)]) = c /\ c \in ToSet(admit_locks[Project(c)])
      BY <2>1, <2>2, <3>1 DEF LockInv
    <3>3. admit_locks[Project(c)] # << >>
      BY <3>2 DEF ToSet
    <3>4. QED BY <3>2, <3>3 DEF Holds
  <2>3. QED BY <2>1, <2>2
<1>9. ASSUME NEW c \in Clients, At(c, "admit")
      PROVE  req[c].op = "create" /\ req[c].pc = "admit"
  <2>1. RequestTyped(req[c])
    BY DEF LockInv
  <2>2. QED BY <1>9, <2>1, CreateAt DEF At
<1>10. ASSUME NEW c \in Clients, AdmitQuota(c) \/ CheckBudget(c) PROVE LockInv'
  <2>1. /\ req[c].op = "create" /\ req[c].pc \in {"admit", "budget"}
        /\ Queued(req[c], Project(c)) => Holds(c)
    BY <1>8, <1>9, <1>10 DEF AdmitQuota, CheckBudget, At
  <2>2. CASE Goto(c, NoRequest) /\ DropGuard(c)
    BY <2>1, <2>2, LockDropped DEF Goto
  <2>3. CASE AdmitQuota(c) /\ ~(Goto(c, NoRequest) /\ DropGuard(c))
    <3>1. /\ Goto(c, [req[c] EXCEPT !.pc = "budget"]) /\ UNCHANGED admit_locks
          /\ req[c].pc = "admit"
      BY <2>3 DEF AdmitQuota, At
    <3>2. QED BY <1>7, <2>1, <3>1
  <2>4. CASE CheckBudget(c) /\ ~(Goto(c, NoRequest) /\ DropGuard(c))
    <3>1. /\ Goto(c, [req[c] EXCEPT !.pc = "upsert"]) /\ UNCHANGED admit_locks
          /\ req[c].pc = "budget"
      BY <2>4 DEF CheckBudget, At
    <3>2. QED BY <1>7, <2>1, <3>1
  <2>5. QED BY <1>10, <2>2, <2>3, <2>4
<1>11. ASSUME NEW c \in Clients, UpsertDesired(c) PROVE LockInv'
  BY <1>8, <1>11, LockDropped DEF UpsertDesired, Goto
<1>12. ASSUME NEW c \in Clients, RequestFails(c) PROVE LockInv'
  <2>1. CASE req[c].op # "create"
    BY <1>5, <1>12, <2>1 DEF RequestFails
  <2>2. CASE req[c].op = "create"
    <3>1. Goto(c, NoRequest) /\ DropGuard(c)
      BY <1>12, <2>2 DEF RequestFails
    <3>2. Queued(req[c], Project(c)) => Holds(c)
      <4>1. CASE At(c, "policy") \/ At(c, "seed") \/ At(c, "write")
        BY <4>1 DEF At, Queued
      <4>2. QED BY <1>8, <1>12, <4>1 DEF RequestFails
    <3>3. QED BY <2>2, <3>1, <3>2, LockDropped DEF Goto
  <2>3. QED BY <2>1, <2>2
<1>13. CASE \/ \E id \in DOMAIN clusters :
                  Suspend(id) \/ Resume(id) \/ Terminate(id) \/ Purge(id)
            \/ CollectObservedSpec \/ CollectKueue \/ RecordSamples
            \/ RecordFails \/ ClockAdvances
  BY <1>1, <1>13 DEF Suspend, Resume, Terminate, Purge, CollectObservedSpec,
     CollectKueue, Collect, RecordSamples, RecordFails, ClockAdvances
<1>14. CASE UNCHANGED avars
  BY <1>1, <1>14 DEF avars
<1>15. QED BY <1>2, <1>4, <1>6, <1>10, <1>11, <1>12, <1>13, <1>14, LockJoined
           DEF AdmissionNext, RequestStep

\* Every step keeps the policy row and the cluster rows.
LEMMA RowsStep ==
    ASSUME LockInv, LockInv', RowsTyped, [AdmissionNext]_avars
    PROVE  RowsTyped'
<1> DEFINE States == {"Running", "Suspended", "Terminated"}
<1>1. \A p \in Projects : IsInjective(admit_locks'[p])
                          /\ ToSet(admit_locks'[p]) \subseteq Clients
  <2>1. ASSUME NEW q \in Seq(Clients) PROVE ToSet(q) \subseteq Clients
    BY DEF ToSet
  <2>2. \A p \in Projects : admit_locks'[p] \in Seq(Clients)
                            /\ IsInjective(admit_locks'[p])
    BY DEF LockInv
  <2>3. QED BY <2>1, <2>2
<1>2. policy' # NoPolicy => PolicyTyped(policy')
  <2>1. CASE UNCHANGED policy
    BY <2>1 DEF RowsTyped
  <2>2. ASSUME NEW c \in Clients, InsertSeed(c)
        PROVE  policy' # NoPolicy => PolicyTyped(policy')
    BY <2>2, BasePolicies DEF InsertSeed, RowsTyped
  <2>3. ASSUME NEW c \in Clients, SetPolicy(c) PROVE PolicyTyped(policy')
    <3>1. RequestTyped(req[c]) /\ At(c, "write") /\ policy' = req[c].next
      BY <2>3 DEF SetPolicy, LockInv
    <3>2. QED BY <3>1, EditAt
  <2>4. ASSUME ~UNCHANGED policy
        PROVE  \E c \in Clients : InsertSeed(c) \/ SetPolicy(c)
    BY <2>4 DEF AdmissionNext, RequestStep, avars, ReadPolicy, QueueForLock,
       AdmitQuota, CheckBudget, UpsertDesired, ViewPolicy, UpdatePolicy,
       CreateCluster, RequestFails, Suspend, Resume, Terminate, Purge,
       CollectObservedSpec, CollectKueue, Collect, RecordSamples, RecordFails,
       ClockAdvances
  <2>5. QED BY <2>1, <2>2, <2>3, <2>4
<1>3. /\ DOMAIN clusters' \subseteq Ids
      /\ \A k \in DOMAIN clusters' : /\ DOMAIN clusters'[k] = {"spec", "desired"}
                                     /\ clusters'[k].desired \in States
  <2>0. /\ DOMAIN clusters \subseteq Ids
        /\ \A k \in DOMAIN clusters : /\ DOMAIN clusters[k] = {"spec", "desired"}
                                      /\ clusters[k].desired \in States
    BY DEF RowsTyped
  <2>1. CASE UNCHANGED clusters
    BY <2>0, <2>1
  <2>2. ASSUME NEW c \in Clients, UpsertDesired(c)
        PROVE  \E id \in Ids, d \in States : \E s :
                  clusters' = Put(clusters, id, [spec |-> s, desired |-> d])
    <3>1. RequestTyped(req[c]) /\ At(c, "upsert")
      BY <2>2 DEF UpsertDesired, LockInv
    <3>2. req[c].id \in Ids
      BY <3>1, CreateAt
    <3>3. QED BY <2>0, <2>2, <3>2 DEF UpsertDesired
  <2>3. ASSUME NEW id \in Ids, NEW s, NEW d \in States,
               clusters' = Put(clusters, id, [spec |-> s, desired |-> d])
        PROVE  /\ DOMAIN clusters' \subseteq Ids
               /\ \A k \in DOMAIN clusters' :
                    /\ DOMAIN clusters'[k] = {"spec", "desired"}
                    /\ clusters'[k].desired \in States
    BY <2>0, <2>3 DEF Put
  <2>4. ASSUME NEW id \in DOMAIN clusters, NEW d \in States,
               clusters' = [clusters EXCEPT ![id].desired = d]
        PROVE  /\ DOMAIN clusters' \subseteq Ids
               /\ \A k \in DOMAIN clusters' :
                    /\ DOMAIN clusters'[k] = {"spec", "desired"}
                    /\ clusters'[k].desired \in States
    BY <2>0, <2>4
  <2>5. ASSUME NEW id \in DOMAIN clusters, Purge(id)
        PROVE  /\ DOMAIN clusters' \subseteq Ids
               /\ \A k \in DOMAIN clusters' :
                    /\ DOMAIN clusters'[k] = {"spec", "desired"}
                    /\ clusters'[k].desired \in States
    BY <2>0, <2>5 DEF Purge, Drop
  <2>6. ASSUME NEW id \in DOMAIN clusters, Suspend(id) \/ Resume(id) \/ Terminate(id)
        PROVE  \E d \in States : clusters' = [clusters EXCEPT ![id].desired = d]
    BY <2>6 DEF Suspend, Resume, Terminate, SetDesired
  <2>7. ASSUME ~UNCHANGED clusters
        PROVE  \/ \E c \in Clients : UpsertDesired(c)
               \/ \E id \in DOMAIN clusters :
                    Suspend(id) \/ Resume(id) \/ Terminate(id) \/ Purge(id)
    BY <2>7 DEF AdmissionNext, RequestStep, avars, ReadPolicy, InsertSeed,
       SetPolicy, QueueForLock, AdmitQuota, CheckBudget, ViewPolicy,
       UpdatePolicy, CreateCluster, RequestFails, CollectObservedSpec,
       CollectKueue, Collect, RecordSamples, RecordFails, ClockAdvances
  <2>8. QED BY <2>1, <2>2, <2>3, <2>4, <2>5, <2>6, <2>7
<1>4. QED BY <1>1, <1>2, <1>3 DEF RowsTyped

LEMMA LockInvariant == AdmissionSpec => [](LockInv /\ RowsTyped)
<1>1. AdmissionInit => LockInv /\ RowsTyped
  <2>1. SUFFICES ASSUME AdmissionInit PROVE LockInv /\ RowsTyped
    OBVIOUS
  <2>2. << >> \in Seq(Clients) /\ IsInjective(<< >>) /\ ToSet(<< >>) = {}
    BY DEF IsInjective, ToSet
  <2>3. /\ DOMAIN req = Clients /\ \A c \in Clients : req[c] = NoRequest
        /\ DOMAIN admit_locks = Projects
        /\ \A p \in Projects : admit_locks[p] = << >>
        /\ policy = NoPolicy /\ clusters = EmptyTable
    BY <2>1 DEF AdmissionInit
  <2>4. LockInv
    BY <2>2, <2>3, NoneQueued DEF LockInv, Admitted
  <2>5. RowsTyped
    BY <2>2, <2>3 DEF RowsTyped, EmptyTable
  <2>6. QED BY <2>4, <2>5
<1>2. LockInv /\ RowsTyped /\ [AdmissionNext]_avars => (LockInv /\ RowsTyped)'
  BY LockStep, RowsStep
<1>3. QED BY <1>1, <1>2, PTL DEF AdmissionSpec

\* The settings API and create_cluster: for any requests, edits and file, each
\* section of the stored policy is the file's own, which nothing validates, or
\* has no negative amount and no empty window; rows keep their shape, and
\* nobody waits twice for a lock.
THEOREM RowsStayTyped == AdmissionSpec => []RowsTyped
<1>1. QED BY LockInvariant, PTL

\* create_cluster holds its project's lock from the list of clusters to the
\* upsert: for any number of requests, and however they fail, no two creates
\* of a project are admitted against the same list.
THEOREM AdmittedOneByOne == AdmissionSpec => []AdmittedAlone
<1>1. LockInv => AdmittedAlone
  BY DEF LockInv, AdmittedAlone
<1>2. QED BY <1>1, LockInvariant, PTL

\* seed_policy: for any file and any edits, however many requests found the row
\* absent, the seed never replaces a row that an administrator wrote.
THEOREM SeedNeverReturns == AdmissionSpec => EditsOutliveSeed
<1> DEFINE Outlives == policy # NoPolicy /\ ~policy.seeded =>
                          policy' # NoPolicy /\ ~policy'.seeded
<1>1. LockInv /\ RowsTyped /\ [AdmissionNext]_avars => [Outlives]_avars
  <2>1. SUFFICES ASSUME LockInv, RowsTyped, AdmissionNext, policy # NoPolicy,
                        ~policy.seeded, ~UNCHANGED policy
                 PROVE  policy' # NoPolicy /\ ~policy'.seeded
    OBVIOUS
  <2>2. PICK c \in Clients : InsertSeed(c) \/ SetPolicy(c)
    BY <2>1 DEF AdmissionNext, RequestStep, ReadPolicy, QueueForLock,
       AdmitQuota, CheckBudget, UpsertDesired, ViewPolicy, UpdatePolicy,
       CreateCluster, RequestFails, Suspend, Resume, Terminate, Purge,
       CollectObservedSpec, CollectKueue, Collect, RecordSamples, RecordFails,
       ClockAdvances
  <2>3. SetPolicy(c)
    BY <2>1, <2>2 DEF InsertSeed
  <2>4. PolicyTyped(policy') /\ ~policy'.seeded
    <3>1. RequestTyped(req[c]) /\ At(c, "write") /\ policy' = req[c].next
      BY <2>1, <2>3 DEF SetPolicy, LockInv
    <3>2. QED BY <3>1, EditAt
  <2>5. QED BY <2>4 DEF PolicyTyped, NoPolicy, EmptyTable
<1>2. QED BY <1>1, LockInvariant, PTL DEF AdmissionSpec, EditsOutliveSeed
=============================================================================
