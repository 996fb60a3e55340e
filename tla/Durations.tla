----------------------------- MODULE Durations -----------------------------
(***************************************************************************)
(* Limits given in seconds, as the program turns them into durations: the  *)
(* product with time.Second is made in a signed integer of fixed width and *)
(* wraps around.  MaxInt is 2^63 - 1 and Second 10^9 in the code; both are *)
(* small in the instances that are checked.                                *)
(***************************************************************************)
EXTENDS Integers

CONSTANTS MaxInt,    \* the largest value of the integer type
          Second     \* time.Second, in units of a duration

ASSUME DurationAssumptions == /\ Second \in Nat \ {0}
                              /\ MaxInt \in Nat
                              /\ Second <= MaxInt

Wrap(x) == ((x + MaxInt + 1) % (2 * (MaxInt + 1))) - (MaxInt + 1)

(* time.Duration(n) * time.Second                                          *)
Seconds(n) == Wrap(n * Second)

(* No wrap-around: n seconds can be expressed.                             *)
Fits(n) == - MaxInt - 1 <= n * Second /\ n * Second <= MaxInt

(* COMMAND_TIMEOUT_SECONDS as LoadConfig takes it.                         *)
CommandTimeout(configured, default) ==
    IF Seconds(configured) <= 0 \/ Seconds(configured) > default
    THEN default ELSE Seconds(configured)

(* Fault: a request that names no limit gets none.                         *)
RequestTimeoutNoDefault(requested, maximum) ==
    IF Seconds(requested) > maximum THEN maximum ELSE Seconds(requested)

RequestTimeout(requested, maximum) ==
    IF requested <= 0 \/ Seconds(requested) > maximum
    THEN maximum ELSE Seconds(requested)
=============================================================================
