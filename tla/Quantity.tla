------------------------------ MODULE Quantity ------------------------------
(***************************************************************************)
(* Kubernetes quantity strings (mobula-policy/src/quantity.rs).  A string  *)
(* is the number before its suffix, in thousandths, and the suffix: "0.5"  *)
(* is [num |-> 500, suffix |-> ""], "2Gi" is [num |-> 2000,                *)
(* suffix |-> "Gi"]; num is Junk when the text is no number.  The code     *)
(* returns floats; here a parser answers in thousandths of a core, device  *)
(* or count, and memory in MiB, rounded down.  Suffixes that scale past    *)
(* TLC's integers (G, T and up), which work the same way, are left out.    *)
(***************************************************************************)
EXTENDS Integers

\* Err(..): not a number, or a negative one.
Bad == -1
Junk == -2

FiniteNonneg(num, mult, div) ==
    IF num < 0 THEN Bad ELSE (num * mult) \div div

CpuMilli(q) ==
    CASE q.suffix = ""  -> FiniteNonneg(q.num, 1, 1)
      [] q.suffix = "m" -> FiniteNonneg(q.num, 1, 1000)
      [] OTHER          -> Bad

\* A bare number is bytes; decimal suffixes are powers of 1000.
MemMi(q) ==
    CASE q.suffix = "Ki" -> FiniteNonneg(q.num, 1, 1024000)
      [] q.suffix = "Mi" -> FiniteNonneg(q.num, 1, 1000)
      [] q.suffix = "Gi" -> FiniteNonneg(q.num, 128, 125)
      [] q.suffix = "Ti" -> FiniteNonneg(q.num, 131072, 125)
      [] q.suffix = "K"  -> FiniteNonneg(q.num, 1, 1048576)
      [] q.suffix = "M"  -> FiniteNonneg(q.num, 125, 131072)
      [] q.suffix = ""   -> FiniteNonneg(q.num, 1, 1048576000)
      [] OTHER           -> Bad

\* An absent or empty field counts no device.
NoGpu == [num |-> 0, suffix |-> "absent"]

GpuMilli(q) ==
    IF q = NoGpu THEN 0
    ELSE IF q.suffix = "" THEN FiniteNonneg(q.num, 1, 1) ELSE Bad

\* Any resource of a pool: a bare number is its own value, never bytes.
ParseQuantity(q) ==
    CASE q.suffix = ""   -> FiniteNonneg(q.num, 1, 1)
      [] q.suffix = "m"  -> FiniteNonneg(q.num, 1, 1000)
      [] q.suffix = "k"  -> FiniteNonneg(q.num, 1000, 1)
      [] q.suffix = "Ki" -> FiniteNonneg(q.num, 1024, 1)
      [] OTHER           -> Bad
=============================================================================
