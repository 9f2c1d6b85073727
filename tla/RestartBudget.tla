---------------------------- MODULE RestartBudget ----------------------------
(***************************************************************************)
(* The restart admission shared by FifoPool, KeyedPool and the fixed       *)
(* supervisor: a sliding window of admitted replacements and the delay     *)
(* after which an admitted replacement is released                         *)
(* (templates/restart.rs).  A charge is [at, n]: n replacements admitted   *)
(* for a worker stop that the interpreter's clock stamped `at'.  The       *)
(* budget is a sequence of charges, oldest first.                          *)
(***************************************************************************)
EXTENDS Integers, Sequences, FiniteSets

CONSTANTS
    MaxDuration,   \* the longest representable Duration
    FactorBits     \* the width of the backoff factor, 128 in the code

(* The latest committed charge is newer than the stop being admitted.      *)
ClockRegressed(charges, at) == charges # <<>> /\ at < charges[Len(charges)].at

(* Charges the window still counts: those from the first that is not older *)
(* than the cutoff.  The boundary is inclusive, and a window longer than   *)
(* the clock's age counts every charge.                                    *)
Active(charges, window, at) ==
    LET older == {i \in DOMAIN charges : charges[i].at < at - window}
    IN  IF at < window THEN charges
        ELSE SubSeq(charges, Cardinality(older) + 1, Len(charges))

Replacements(charges) ==
    LET total[i \in 0 .. Len(charges)] == IF i = 0 THEN 0 ELSE total[i - 1] + charges[i].n
    IN  total[Len(charges)]

(* Whether the budget admits n replacements for a stop stamped `at'.       *)
Admits(charges, limit, at, n) ==
    /\ ~ClockRegressed(charges, at)
    /\ Replacements(Active(charges, limit.window, at)) + n <= limit.maximum

(* The budget an accepted proposal leaves behind.                          *)
Charged(charges, limit, at, n) ==
    Append(Active(charges, limit.window, at), [at |-> at, n |-> n])

Overflow == -1

Multiply(duration, factor) ==
    IF duration * factor > MaxDuration THEN Overflow ELSE duration * factor

AtMost(delay, maximum) ==
    IF delay > maximum THEN maximum ELSE delay

(* The delay of the ordinal-th recovery of one role: 0 releases the        *)
(* replacement at once and Overflow denies it.                             *)
Calculate(release, ordinal) ==
    CASE release.kind = "Immediate" -> 0
      [] release.kind = "Constant" -> release.initial
      [] release.kind = "Linear" ->
            AtMost(Multiply(release.initial, ordinal), release.maximum)
      [] release.kind = "Exponential" ->
            IF ordinal - 1 >= FactorBits THEN Overflow
            ELSE AtMost(Multiply(release.initial, 2 ^ (ordinal - 1)),
                        release.maximum)
==============================================================================
