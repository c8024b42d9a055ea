----------------------------- MODULE RetryDelay -----------------------------
(***************************************************************************)
(* The arithmetic of a backoff: Backoff::raw_delay                         *)
(* (src/src/retry/backoff.rs) and Jitter::apply (src/src/retry/jitter.rs). *)
(* The widths of the machine integers are constants, so that TLC reaches   *)
(* their ends.  A duration counts the smallest unit of time.               *)
(***************************************************************************)
EXTENDS Integers

CONSTANTS
    MaxShift,     \* 63
    MaxFactor,    \* u32::MAX
    MaxDuration,  \* Duration::MAX
    NanosRange,   \* 2^64, the range of as_nanos() as u64
    SampleRange,  \* 2^53, the range of rng >> 11
    Samples       \* the samples that are tried

\* Fixed(base), whose max is base as well, or Exponential { base, max }.
Backoffs == [kind : {"fixed", "exponential"}, base : Nat, max : Nat]
Jitters == {"none", "full", "equal"}

\* Powers of two are numbers and increase, which the provers do not know.
ASSUME RetryDelayAssumption ==
    /\ MaxShift \in Nat
    /\ \A n \in 0..MaxShift : 2^n \in Nat /\ \A m \in 0..n : 2^m <= 2^n
    /\ {MaxFactor, MaxDuration} \subseteq Nat
    /\ {NanosRange, SampleRange} \subseteq Nat \ {0}
    /\ Samples \subseteq 0..(SampleRange - 1)

Lesser(a, b) == IF a <= b THEN a ELSE b

\* attempt.saturating_sub(1).min(63), attempts being counted from 1
Shift(attempt) == Lesser(attempt - 1, MaxShift)

\* Mutant of Factor: its upper bits are lost instead.
FactorTruncated(attempt) == 2^Shift(attempt) % (MaxFactor + 1)

\* 1 << shift, cut down to 32 bits
Factor(attempt) == Lesser(2^Shift(attempt), MaxFactor)

\* base.checked_mul(factor).unwrap_or(max).min(max)
RawDelay(b, attempt) ==
    IF b.kind = "fixed" THEN b.base
    ELSE LET scaled == b.base * Factor(attempt)
         IN IF scaled <= MaxDuration THEN Lesser(scaled, b.max) ELSE b.max

\* The part of `span` that a sample picks.
Fraction(span, sample) == (sample * span) \div SampleRange

\* Jitter::apply; of a delay of zero all three make zero.
Jitter(jitter, d, sample) ==
    LET nanos == d % NanosRange
    IN CASE jitter = "none"  -> d
         [] jitter = "full"  -> Fraction(nanos, sample)
         [] jitter = "equal" -> nanos \div 2 + Fraction(nanos \div 2, sample)

\* The shift and the factor are those of the documentation: up to attempt 32.
FitsWidth(attempt) ==
    attempt - 1 <= MaxShift /\ 2^(attempt - 1) <= MaxFactor

\* What the documentation promises: "base * 2^(attempt-1), clamped to max".
Documented(b, attempt) ==
    IF b.kind = "fixed" THEN b.base ELSE Lesser(b.base * 2^(attempt - 1), b.max)
Longest(b) == IF b.kind = "fixed" THEN b.base ELSE b.max
=============================================================================
