------------------------------- MODULE Barrier -------------------------------
(***************************************************************************)
(* The cyclic Barrier and the one-shot Latch (crates/actors/src/workflow/  *)
(* barrier.rs, latch.rs).  A barrier arrival names the generation its      *)
(* sender believes is current; a latch counts arrivals of anybody.         *)
(***************************************************************************)
EXTENDS Integers, Sequences, SequencesExt, FiniteSetsExt

CONSTANTS
  Members,
  MaxGeneration,   \* u64::MAX in the code
  Counts,          \* latch counts
  MaxArrivals      \* bound on the latch's arrivals

VARIABLES
  state,  \* [kind, phase, generation, arrivals] or [kind, phase, remaining, waiting]
  log     \* accepted arrivals and releases, by participant

Gathering(generation) ==
  [kind |-> "Barrier", phase |-> "Gathering", generation |-> generation, arrivals |-> <<>>]

\* A latch of count zero is released from the start.
NewLatch(count) ==
  [kind |-> "Latch", phase |-> IF count = 0 THEN "Released" ELSE "Counting",
   generation |-> count, arrivals |-> <<>>]

Init ==
  /\ \/ state = Gathering(0)
     \/ \E count \in Counts : state = NewLatch(count)
  /\ log = [arrived |-> [m \in Members |-> 0], released |-> [m \in Members |-> 0],
            count |-> IF state.kind = "Latch" THEN state.generation ELSE 0]

ArrivalVerdict(s, participant, generation) ==
  CASE s.phase = "Exhausted" -> "Exhausted"
    [] s.phase = "Gathering" /\ generation < s.generation -> "StaleGeneration"
    [] s.phase = "Gathering" /\ generation > s.generation -> "FutureGeneration"
    [] s.phase = "Gathering" /\ generation = s.generation
         /\ Contains(s.arrivals, participant) -> "DuplicateArrival"
    [] OTHER -> "Accepted"

\* The last arrival releases all, in arrival order, and opens the next
\* generation, if there is one.
Arrive(participant, generation) ==
  /\ state.kind = "Barrier"
  /\ ArrivalVerdict(state, participant, generation) = "Accepted"
  /\ \E arrivals \in {Append(state.arrivals, participant)} :
       IF Len(arrivals) < Cardinality(Members)
       THEN /\ state' = [state EXCEPT !.arrivals = arrivals]
            /\ log' = [log EXCEPT !.arrived[participant] = @ + 1]
       ELSE /\ state' = IF generation = MaxGeneration
                        THEN [state EXCEPT !.phase = "Exhausted", !.arrivals = <<>>]
                        ELSE Gathering(generation + 1)
            /\ log' = [log EXCEPT
                 !.arrived[participant] = @ + 1,
                 !.released = [m \in Members |-> @[m] +
                                 Len(SelectSeq(arrivals, LAMBDA a : a = m))]]

\* A latch arrival decrements once; the one that reaches zero releases all who
\* wait, and later ones are released at once.
CountDown(participant) ==
  /\ state.kind = "Latch"
  /\ FoldFunction(+, 0, log.arrived) < MaxArrivals
  /\ \E waiting \in {Append(state.arrivals, participant)} :
       /\ state' = IF state.phase = "Released" THEN state
                   ELSE IF state.generation > 1
                   THEN [state EXCEPT !.generation = @ - 1, !.arrivals = waiting]
                   ELSE [state EXCEPT !.phase = "Released", !.generation = 0, !.arrivals = <<>>]
       /\ log' = [log EXCEPT
            !.arrived[participant] = @ + 1,
            !.released = IF state.phase = "Released" THEN [@ EXCEPT ![participant] = @ + 1]
                         ELSE IF state.generation > 1 THEN @
                         ELSE [m \in Members |-> @[m] +
                                 Len(SelectSeq(waiting, LAMBDA a : a = m))]]

Next ==
  \E participant \in Members :
    \/ \E generation \in 0..MaxGeneration : Arrive(participant, generation)
    \/ CountDown(participant)

Spec == Init /\ [][Next]_<<state, log>>

-----------------------------------------------------------------------------
(* Property *)

\* Nobody passes early and nobody is left behind: each barrier participant has
\* been released as often as the slowest participant arrived and is never more
\* than one arrival ahead of it, to the last generation included; a latch
\* releases every arrival exactly when its count has arrived.
NobodyPassesEarly ==
  LET total == FoldFunction(+, 0, log.arrived)
      slowest == Min(Range(log.arrived))
  IN IF state.kind = "Barrier"
     THEN \A m \in Members : log.released[m] = slowest /\ log.arrived[m] <= slowest + 1
     ELSE log.released = IF total >= log.count THEN log.arrived ELSE [m \in Members |-> 0]
=============================================================================
