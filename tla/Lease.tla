-------------------------------- MODULE Lease --------------------------------
(***************************************************************************)
(* The expiring exclusive lease of crates/actors/src/time/lease.rs.  The   *)
(* requests are inputs: a holder may name any generation, so every stale   *)
(* request a delayed client could send is among them.                      *)
(***************************************************************************)
EXTENDS Timers

CONSTANT Holders

VARIABLES
    lease,      \* LeaseState
    grants,     \* history: ownership granted by Acquired and Renewed
    due,        \* history: generations whose interval has elapsed
    released,   \* history: generations ended by Released
    expired     \* history: generations ended by Expired

histories == <<grants, due, released, expired>>
vars == <<lease, timerVars, histories>>

\* next is Option<TimerGeneration>: MaxGeneration + 1 is None.
Vacant(next) == [at |-> "Vacant", next |-> next]
Held(holder, generation, next) ==
    [at |-> "Held", holder |-> holder, generation |-> generation, next |-> next]
Exhausted == [at |-> "Exhausted"]

Init ==
    /\ TimersInit
    /\ lease = Vacant(0)
    /\ grants = {} /\ due = {} /\ released = {} /\ expired = {}

\* A fresh generation is committed before its schedule is emitted.
Grant(holder, generation) ==
    /\ lease' = Held(holder, generation, Successor(generation))
    /\ grants' = grants \cup {[holder |-> holder, generation |-> generation]}
    /\ Schedule(generation)
    /\ UNCHANGED <<due, released, expired>>

\* acquire: Occupied and GenerationExhausted reply without a change.
Acquire(holder) ==
    IF lease.at = "Vacant" THEN Grant(holder, lease.next) ELSE UNCHANGED vars

\* successor: the exact holder and the exact generation.
Authorized(holder, generation) ==
    lease.at = "Held" /\ lease.holder = holder /\ lease.generation = generation

\* Slip: the extended hold keeps the old schedule.
RenewUnscheduled(holder, generation) ==
    IF Authorized(holder, generation) /\ lease.next \in Generations
    THEN /\ lease' = Held(holder, lease.next, Successor(lease.next))
         /\ grants' = grants \cup {[holder |-> holder, generation |-> lease.next]}
         /\ UNCHANGED <<timerVars, due, released, expired>>
    ELSE UNCHANGED vars

Renew(holder, generation) ==
    IF Authorized(holder, generation) /\ lease.next \in Generations
    THEN Grant(holder, lease.next)
    ELSE UNCHANGED vars

\* Slip: the ended generation is offered again.
VacatedAgain == Vacant(lease.generation)

Vacated == IF lease.next \in Generations THEN Vacant(lease.next) ELSE Exhausted

Release(holder, generation) ==
    IF Authorized(holder, generation)
    THEN /\ lease' = Vacated
         /\ released' = released \cup {generation}
         /\ NoSchedule
         /\ UNCHANGED <<grants, due, expired>>
    ELSE UNCHANGED vars

\* Slip: any notification of this timer ends the hold.
ExpiresAny(g) == lease.at = "Held"

Expires(g) == lease.at = "Held" /\ lease.generation = g

\* Elapsed evidence: the matching generation expires the hold, all other
\* evidence is inert.
Elapsed(g) ==
    /\ Deliver(g)
    /\ IF Expires(g)
       THEN lease' = Vacated /\ expired' = expired \cup {lease.generation}
       ELSE UNCHANGED <<lease, expired>>
    /\ UNCHANGED <<armed, grants, due, released>>

Clock ==
    /\ Elapse
    /\ due' = due \cup armed
    /\ UNCHANGED <<lease, grants, released, expired>>

Next ==
    \/ \E h \in Holders : Acquire(h)
    \/ \E h \in Holders, g \in Generations : Renew(h, g) \/ Release(h, g)
    \/ \E g \in elapsed : Elapsed(g)
    \/ Clock

Spec == Init /\ [][Next]_vars

-----------------------------------------------------------------------------
(* Properties.                                                               *)

\* A generation fences: no two grants share one, and the current hold is the
\* newest grant ever made, across renewals, releases and expiries.
TokensFence ==
    /\ \A g, h \in grants : g.generation = h.generation => g = h
    /\ lease.at = "Held" =>
          /\ [holder |-> lease.holder, generation |-> lease.generation] \in grants
          /\ \A g \in grants : g.generation <= lease.generation

\* A hold ends by expiry only after its own interval: a notification of an
\* earlier hold, late or repeated, never shortens the hold of its successor.
NoEarlyExpiry == expired \subseteq due

\* Release is immediate and final: one generation ends once, by its holder or by
\* the clock, and a generation that was renewed away ends neither way.
EndsOnce ==
    /\ released \cap expired = {}
    /\ \A g \in grants :
          g.generation \notin released \cup expired =>
              \/ lease.at = "Held" /\ lease.generation = g.generation
              \/ \E h \in grants : h.holder = g.holder /\ h.generation = g.generation + 1
=============================================================================
