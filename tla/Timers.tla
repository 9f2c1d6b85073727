------------------------------- MODULE Timers -------------------------------
(***************************************************************************)
(* External: one named timer of the Bombay timer queue, as the timed       *)
(* actors use it.  Scheduling an equal name replaces the entry that is     *)
(* still queued; an elapsed notification already on its way cannot be      *)
(* retracted, may arrive late and, where Redelivers says so, more than     *)
(* once.  A generation stands for the schedule that carries it.            *)
(***************************************************************************)
EXTENDS Naturals

CONSTANTS
    MaxGeneration,     \* the largest TimerGeneration (2^64 - 1)
    Redelivers         \* may one notification be delivered twice?

ASSUME TimersAssumption == MaxGeneration \in Nat /\ Redelivers \in BOOLEAN

VARIABLES
    armed,      \* generations in the queue
    elapsed     \* notifications on their way to the actor

timerVars == <<armed, elapsed>>

Generations == 0..MaxGeneration

\* The successor of a generation; MaxGeneration + 1 stands for checked_add's None.
Successor(g) == g + 1

TimersInit == armed = {} /\ elapsed = {}

Schedule(g) == armed' = {g} /\ UNCHANGED elapsed

NoSchedule == UNCHANGED timerVars

\* The clock reaches an entry.
Elapse == \E g \in armed : armed' = armed \ {g} /\ elapsed' = elapsed \cup {g}

\* A notification reaches the actor.
Deliver(g) ==
    /\ g \in elapsed
    /\ elapsed' \in {elapsed \ {g}} \cup {e \in {elapsed} : Redelivers}
=============================================================================
