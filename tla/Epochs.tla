-------------------------------- MODULE Epochs --------------------------------
(***************************************************************************)
(* Epoch numbers (the last arm of timestamp_to_micros, src/canonicalize.rs *)
(* 585-602): the unit a column of numbers is taken to be in, by its        *)
(* largest one, and what a number is rewritten to.  A float is an integer, *)
(* so that rounding is left out, or none: no number, or infinite.          *)
(***************************************************************************)
EXTENDS Integers

CONSTANTS
  Threshold,  \* 10^11: the smallest number that is not taken for seconds
  MaxInt64,   \* 2^63 - 1
  None,       \* a null, or no value
  NaN,        \* a float that is no number
  Inf, NegInf

\* What the last unit begins with fits 64 bits.
ASSUME ThresholdAssumption ==
  Threshold \in Nat \ {0} /\ MaxInt64 \in Nat /\ Threshold * 1000000 <= MaxInt64

Specials == {NaN, Inf, NegInf}

ASSUME SpecialAssumption ==
  /\ (Specials \cup {None}) \cap Int = {} /\ None \notin Specials
  /\ NaN # Inf /\ NaN # NegInf /\ Inf # NegInf

Int64 == {n \in Int : -(MaxInt64 + 1) <= n /\ n <= MaxInt64}

Floats == Int \cup Specials

Units == {"s", "ms", "us", "ns"}

\* What a number of a unit stands for, in whole microseconds.
Instant(unit, v) ==
  CASE unit = "s" -> v * 1000000
    [] unit = "ms" -> v * 1000
    [] unit = "us" -> v
    [] OTHER -> v \div 1000

\* `as i64` drops the fraction, towards zero.
Thousandth(v) == IF v >= 0 THEN v \div 1000 ELSE -((-v) \div 1000)

\* Instant, computed in floats or by 64-bit division.
InMicros(unit, v) == IF unit = "ns" THEN Thousandth(v) ELSE Instant(unit, v)

\* `as i64` takes what 64 bits do not hold to the nearest that they do, and NaN
\* to 0.
ToInt64(x) ==
  CASE x = NaN -> 0
    [] x = Inf -> MaxInt64
    [] x = NegInf -> -(MaxInt64 + 1)
    [] OTHER -> IF x > MaxInt64 THEN MaxInt64
                ELSE IF x < -(MaxInt64 + 1) THEN -(MaxInt64 + 1) ELSE x

\* Mutant: the microseconds begin a digit too late.
GuessTooLow(largest) ==
  IF largest = Inf THEN "ns"
  ELSE CASE largest < Threshold -> "s"
         [] largest >= Threshold /\ largest < Threshold * 10000 -> "ms"
         [] largest >= Threshold * 10000 /\ largest < Threshold * 1000000 -> "us"
         [] OTHER -> "ns"

\* The unit of a column, by its largest number.
Guess(largest) ==
  IF largest = Inf THEN "ns"
  ELSE CASE largest < Threshold -> "s"
         [] largest >= Threshold /\ largest < Threshold * 1000 -> "ms"
         [] largest >= Threshold * 1000 /\ largest < Threshold * 1000000 -> "us"
         [] OTHER -> "ns"

\* No factor makes a number of what is none, nor infinity finite.
Micros(v, largest) ==
  CASE v = None -> None
    [] v \in Specials -> ToInt64(v)
    [] OTHER -> ToInt64(InMicros(Guess(largest), v))

=============================================================================
