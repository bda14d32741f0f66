SPECIFICATION Spec
CONSTANTS
    Clusters = {c1, c2}
    Capacity = 2
    Refill = 1
    BackoffBase = 1
    BackoffCeil = 3
    MaxTime = 6
    MaxErrors = 4
SYMMETRY Symmetry
INVARIANT RateBound
INVARIANT BucketInv
PROPERTY RetrySpaced
