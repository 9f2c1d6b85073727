--------------------------- MODULE CircuitBreaker ---------------------------
(***************************************************************************)
(* The single-flight circuit breaker of routing/circuit_breaker.rs.  The   *)
(* callers' completions are inputs: any attempt may be reported, early,    *)
(* late or twice.                                                          *)
(***************************************************************************)
EXTENDS Timers, FiniteSets

CONSTANTS
    Threshold,      \* consecutive failures that open the circuit
    MaxAttempt      \* u64::MAX for next_attempt

VARIABLES
    phase,      \* BreakerPhase
    next,       \* next_attempt
    inFlight,   \* history: attempts admitted and not completed
    settled,    \* history: accepted completions of each attempt
    failed,     \* history: failed completions since the last success
    opening     \* history: has the latest opening's reset interval elapsed (ripe),
                \* and what was on its way when the circuit left Closed (stale)

histories == <<inFlight, settled, failed, opening>>
vars == <<phase, next, timerVars, histories>>

Attempts == 0..(MaxAttempt - 1)

Closed(failures) == [at |-> "Closed", failures |-> failures]
Awaiting(failures, a) == [at |-> "Awaiting", failures |-> failures, attempt |-> a]
Open(g) == [at |-> "Open", generation |-> g]
Available(g) == [at |-> "Available", generation |-> g]
Probing(g, a) == [at |-> "Probing", generation |-> g, attempt |-> a]
Exhausted == [at |-> "Exhausted"]

Init ==
    /\ TimersInit
    /\ phase = Closed(0) /\ next = 0
    /\ inFlight = {} /\ settled = [a \in Attempts |-> 0]
    /\ failed = 0 /\ opening = [ripe |-> FALSE, stale |-> {}]

Admissible == phase.at \in {"Closed", "Available"}

\* admit: Open, Exhausted and Busy reply without a change; an attempt number
\* that cannot advance exhausts the breaker.
Admit ==
    IF ~Admissible THEN UNCHANGED vars
    ELSE IF next = MaxAttempt
    THEN phase' = Exhausted /\ UNCHANGED <<next, timerVars, histories>>
    ELSE /\ next' = next + 1
         /\ phase' = IF phase.at = "Available" THEN Probing(phase.generation, next)
                     ELSE Awaiting(phase.failures, next)
         /\ inFlight' = inFlight \cup {next}
         /\ UNCHANGED <<timerVars, settled, failed, opening>>

\* complete: only the admitted attempt owns its completion; any other one is
\* returned as UnexpectedCompletion.
Owns(a) == phase.at \in {"Awaiting", "Probing"} /\ phase.attempt = a

Settle(a) ==
    /\ inFlight' = inFlight \ {a}
    /\ settled' = [settled EXCEPT ![a] = @ + 1]

Succeeded(a) ==
    IF Owns(a)
    THEN /\ phase' = Closed(0)
         /\ Settle(a)
         /\ failed' = 0
         /\ UNCHANGED <<next, timerVars, opening>>
    ELSE UNCHANGED vars

Reopen(g, stale) ==
    IF g \in Generations
    THEN phase' = Open(g) /\ opening' = [ripe |-> FALSE, stale |-> stale] /\ Schedule(g)
    ELSE phase' = Exhausted /\ UNCHANGED <<opening, timerVars>>

\* A failed probe trips at once, a closed failure at the threshold.
Trips == phase.at = "Probing" \/ phase.failures + 1 >= Threshold

\* The generations of one outage count up; every outage begins at 0.
Trip == IF phase.at = "Probing" THEN Reopen(Successor(phase.generation), opening.stale)
        ELSE Reopen(0, elapsed)

Failed(a) ==
    IF Owns(a)
    THEN /\ IF Trips THEN Trip
            ELSE phase' = Closed(phase.failures + 1) /\ UNCHANGED <<opening, timerVars>>
         /\ Settle(a)
         /\ failed' = failed + 1
         /\ UNCHANGED next
    ELSE UNCHANGED vars

Resets(g) == phase = Open(g)

Elapsed(g) ==
    /\ Deliver(g)
    /\ phase' = IF Resets(g) THEN Available(phase.generation) ELSE phase
    /\ UNCHANGED <<next, armed, histories>>

Clock ==
    /\ Elapse
    /\ opening' = [opening EXCEPT !.ripe = TRUE]
    /\ UNCHANGED <<phase, next, inFlight, settled, failed>>

Next ==
    \/ Admit
    \/ \E a \in Attempts : Succeeded(a) \/ Failed(a)
    \/ \E g \in elapsed : Elapsed(g)
    \/ Clock

Spec == Init /\ [][Next]_vars

-----------------------------------------------------------------------------
(* Properties.                                                               *)

\* One operation owns the breaker at a time, and a completion settles the
\* operation it names exactly once, however often it is reported.
SingleFlight ==
    /\ Cardinality(inFlight) <= 1
    /\ \A a \in Attempts :
          settled[a] + Cardinality(inFlight \cap {a}) = (IF a < next THEN 1 ELSE 0)

\* The circuit is closed exactly while fewer than Threshold operations in a row
\* have failed: successes between failures start the count again.
OpensAtThreshold ==
    /\ phase.at \in {"Closed", "Awaiting"} =>
          phase.failures = failed /\ failed < Threshold
    /\ phase.at \in {"Open", "Available", "Probing"} => failed >= Threshold

\* However late and however often timer evidence comes, a probe is offered only
\* after the whole reset interval of its opening: failed probes reopen the circuit
\* with fresh generations.  The exception is a notification of that generation
\* that was on its way before this outage began, for every outage reuses
\* generation 0 and its successors.
WholeResetInterval ==
    phase.at \in {"Available", "Probing"} =>
        opening.ripe \/ phase.generation \in opening.stale
=============================================================================
