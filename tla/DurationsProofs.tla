--------------------------- MODULE DurationsProofs ---------------------------
(* Facts about durations of a fixed width, for every width.                *)
EXTENDS Durations, TLAPS

(* The wrapped product is a value of the integer type, whatever the        *)
(* product was (time.Duration(n) * time.Second).                           *)
LEMMA WrapInRange ==
    ASSUME NEW x \in Int
    PROVE  Wrap(x) \in - MaxInt - 1 .. MaxInt
  <1> DEFINE w == 2 * (MaxInt + 1)
             m == (x + MaxInt + 1) % w
  <1>1. w \in Nat \ {0}
    BY DurationAssumptions
  <1>2. m \in 0 .. w - 1
    <2> HIDE DEF w
    <2> QED
      BY <1>1, DurationAssumptions
  <1> HIDE DEF m
  <1> QED
    BY <1>2, DurationAssumptions DEF Wrap, m

(* Wrapping around never makes a number of seconds longer than it is, so a *)
(* limit that is checked after the product is also a limit on the request. *)
LEMMA WrapNeverGrows ==
    ASSUME NEW x \in Nat
    PROVE  Wrap(x) <= x
  <1> DEFINE w == 2 * (MaxInt + 1)
             y == x + MaxInt + 1
  <1>1. w \in Nat \ {0} /\ y \in Nat
    BY DurationAssumptions
  <1>2. y % w \in Int /\ y % w <= y
    <2> HIDE DEF w, y
    <2> QED
      BY <1>1
  <1> DEFINE m == y % w
  <1> HIDE DEF m
  <1> QED
    BY <1>2, DurationAssumptions DEF Wrap, m

(* A product in range is not changed.                                      *)
LEMMA WrapIsExact ==
    ASSUME NEW x \in - MaxInt - 1 .. MaxInt
    PROVE  Wrap(x) = x
  <1> DEFINE w == 2 * (MaxInt + 1)
             y == x + MaxInt + 1
  <1>1. w \in Nat \ {0} /\ y \in 0 .. w - 1
    BY DurationAssumptions
  <1>2. y % w = y
    <2> HIDE DEF w, y
    <2> QED
      BY <1>1
  <1> DEFINE m == y % w
  <1> HIDE DEF m
  <1> QED
    BY <1>2, DurationAssumptions DEF Wrap, m
=============================================================================
