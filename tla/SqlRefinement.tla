--------------------------- MODULE SqlRefinement ---------------------------
(***************************************************************************)
(* What the SQL stores promise: the calls of AtomicStore, one at a time.   *)
(***************************************************************************)
EXTENDS SqlStore

Abstract == INSTANCE AtomicStore WITH audited <- Events(trail)

\* Both stores implement the atomic store: whatever statements of concurrent
\* calls interleave, fail or are cut off by a crash, rows and answers are those
\* of calls executed one at a time (two upserts never collapse into one
\* generation bump, two tasks never both open an intent).
ImplementsStore == Abstract!AtomicSpec
=============================================================================
