---------------------------- MODULE ActorProofs -----------------------------
(*****************************************************************************)
(* What the lease, the circuit breaker, the sequencer and the presence table *)
(* promise, for every value of their constants.  They share nothing but the  *)
(* timer queue that the first two use and the largest generation.            *)
(*****************************************************************************)
EXTENDS Timers, Sequences, FiniteSets, FiniteSetTheorems, SequenceTheorems,
        WellFoundedInduction, TLAPS

CONSTANTS
    Holders,                       \* of the lease
    Threshold, MaxAttempt,         \* of the circuit breaker
    First, MaxSequence, Values,    \* of the sequencer
    Participants, Versions, Lifetimes, TimerIds    \* of the presence table

VARIABLES
    lease, grants, due, released, expired,            \* the lease
    phase, next, inFlight, settled, failed, opening,  \* the circuit breaker
    expected, pending, delivered, accepted,           \* the sequencer
    state, log                                        \* the presence table

-----------------------------------------------------------------------------
(* The lease, for any set of holders, any largest generation, and whether or *)
(* not notifications are delivered twice.                                    *)

Leases == INSTANCE Lease

LeaseGrants == [holder : Holders, generation : Leases!Generations]

\* Every generation granted so far, and every one that ended, is below n.
LeaseBelow(n) ==
    /\ \A g \in grants : g.generation < n
    /\ \A x \in released \cup expired : x < n

\* A vacant lease offers a generation nobody had; the hold of a held one is the
\* newest grant, and has not ended.
Newest ==
    \/ \E n \in Leases!Generations : lease = Leases!Vacant(n) /\ LeaseBelow(n)
    \/ \E h \in Holders, n \in Leases!Generations :
          /\ lease = Leases!Held(h, n, n + 1)
          /\ [holder |-> h, generation |-> n] \in grants
          /\ \A g \in grants : g.generation <= n
          /\ \A x \in released \cup expired : x < n
    \/ lease = Leases!Exhausted

OneGrantEach == \A g, h \in grants : g.generation = h.generation => g = h

\* What the timer queue knows: a notification on its way is due, and so is every
\* generation that expired.
Evidence ==
    /\ elapsed \subseteq due
    /\ expired \subseteq due

LeaseInv ==
    /\ grants \subseteq LeaseGrants
    /\ released \subseteq Leases!Generations /\ expired \subseteq Leases!Generations
    /\ Newest
    /\ OneGrantEach
    /\ Evidence
    /\ Leases!EndsOnce

\* What each alternative of the lease says of itself.
LEMMA LeaseForms ==
    /\ \A n : Leases!Vacant(n).at = "Vacant" /\ Leases!Vacant(n).next = n
    /\ \A h, g, n : /\ Leases!Held(h, g, n).at = "Held" /\ Leases!Held(h, g, n).holder = h
                    /\ Leases!Held(h, g, n).generation = g /\ Leases!Held(h, g, n).next = n
    /\ Leases!Exhausted.at = "Exhausted"
BY DEF Leases!Vacant, Leases!Held, Leases!Exhausted

\* The current hold is the newest grant and has not ended.
LEMMA HeldForm ==
    ASSUME Newest, lease.at = "Held"
    PROVE  /\ lease.holder \in Holders /\ lease.generation \in Leases!Generations
           /\ lease.next = lease.generation + 1
           /\ [holder |-> lease.holder, generation |-> lease.generation] \in grants
           /\ \A g \in grants : g.generation <= lease.generation
           /\ \A x \in released \cup expired : x < lease.generation
<1>1. PICK h \in Holders, n \in Leases!Generations :
          /\ lease = Leases!Held(h, n, n + 1)
          /\ [holder |-> h, generation |-> n] \in grants
          /\ \A g \in grants : g.generation <= n
          /\ \A x \in released \cup expired : x < n
  BY Zenon, LeaseForms DEF Newest
<1>2. lease.holder = h /\ lease.generation = n /\ lease.next = n + 1
  BY <1>1, LeaseForms
<1> QED BY <1>1, <1>2

\* The lease starts vacant and without a grant.
LEMMA LeaseInit == Leases!Init => LeaseInv
BY TimersAssumption
   DEF Leases!Init, Leases!TimersInit, LeaseInv, Newest, LeaseBelow, OneGrantEach,
       Evidence, Leases!EndsOnce,
       Leases!Vacant, Leases!Generations, LeaseGrants

\* Granting a generation above all others keeps the invariant, when the grant
\* that it supersedes, if any, was the same holder's.
LEMMA GrantStep ==
    ASSUME LeaseInv, NEW h \in Holders, NEW n \in Leases!Generations,
           Leases!Grant(h, n), LeaseBelow(n),
           \/ lease.at # "Held"
           \/ lease.at = "Held" /\ lease.holder = h /\ n = lease.generation + 1
    PROVE  LeaseInv'
<1> DEFINE new == [holder |-> h, generation |-> n]
<1>1. /\ lease' = Leases!Held(h, n, n + 1)
      /\ grants' = grants \cup {new}
      /\ UNCHANGED <<due, released, expired, elapsed>>
  BY DEF Leases!Grant, Leases!Successor, Leases!Schedule
<1>2. new \in LeaseGrants /\ grants \subseteq LeaseGrants
  BY DEF LeaseGrants, LeaseInv
<1>3. Leases!Generations \subseteq Nat
  BY TimersAssumption DEF Leases!Generations
<1>4. (grants \subseteq LeaseGrants)' /\ (released \subseteq Leases!Generations)'
          /\ (expired \subseteq Leases!Generations)' /\ Evidence'
  BY <1>1, <1>2 DEF LeaseInv, Evidence
<1>5. Newest'
  <2>1. \A g \in grants' : g.generation <= n
    <3>1. \A g \in grants : g.generation \in Nat /\ g.generation < n
      BY Zenon, <1>2, <1>3 DEF LeaseBelow, LeaseGrants
    <3>2. new.generation = n /\ n \in Nat
      BY <1>3
    <3> QED BY <1>1, <3>1, <3>2
  <2>2. \A x \in (released \cup expired)' : x < n
    BY <1>1 DEF LeaseBelow
  <2>3. new \in grants'
    BY <1>1
  <2> QED BY <1>1, <2>1, <2>2, <2>3 DEF Newest
<1>6. OneGrantEach'
  <2>1. \A g \in grants : g.generation # new.generation
    BY <1>2, <1>3 DEF LeaseBelow, LeaseGrants
  <2> QED BY <1>1, <2>1 DEF LeaseInv, OneGrantEach
<1>7. Leases!EndsOnce'
  <2>1. SUFFICES ASSUME NEW g \in grants', g.generation \notin released \cup expired
                 PROVE  \/ lease'.at = "Held" /\ lease'.generation = g.generation
                        \/ \E k \in grants' : k.holder = g.holder /\ k.generation = g.generation + 1
    BY <1>1 DEF LeaseInv, Leases!EndsOnce
  <2>2. CASE g = new
    BY <1>1, <2>2 DEF Leases!Held
  <2>3. CASE g \in grants /\ lease.at = "Held" /\ lease.generation = g.generation
    <3>1. [holder |-> lease.holder, generation |-> lease.generation] \in grants
      BY <2>3, HeldForm DEF LeaseInv
    <3>2. g = [holder |-> lease.holder, generation |-> lease.generation]
      BY <3>1, <2>3 DEF LeaseInv, OneGrantEach
    <3> QED BY <3>2, <2>3, <1>1
  <2>4. CASE g \in grants /\ \E k \in grants : k.holder = g.holder /\ k.generation = g.generation + 1
    BY <2>4, <1>1
  <2> QED BY <1>1, <2>1, <2>2, <2>3, <2>4 DEF LeaseInv, Leases!EndsOnce
<1> QED BY <1>4, <1>5, <1>6, <1>7 DEF LeaseInv

\* Ending the current hold, by its holder or by the clock, keeps the invariant.
LEMMA VacateStep ==
    ASSUME LeaseInv, lease.at = "Held", lease' = Leases!Vacated,
           UNCHANGED <<grants, due>>,
           elapsed' \subseteq elapsed,
           \/ released' = released \cup {lease.generation} /\ UNCHANGED expired
           \/ /\ expired' = expired \cup {lease.generation} /\ UNCHANGED released
              /\ lease.generation \in due
    PROVE  LeaseInv'
<1>0. PICK n : n = lease.generation
  OBVIOUS
<1>1. /\ n \in Leases!Generations
      /\ \A g \in grants : g.generation <= n
      /\ \A x \in released \cup expired : x < n
  BY <1>0, HeldForm DEF LeaseInv
<1>2. lease.next = n + 1
  BY <1>0, HeldForm DEF LeaseInv
<1>3. Leases!Generations \subseteq Nat
  BY TimersAssumption DEF Leases!Generations
<1>4. (released \cup expired)' = (released \cup expired) \cup {n}
  BY <1>0
<1>5. Newest'
  <2>1. CASE n + 1 \in Leases!Generations
    <3>1. lease' = Leases!Vacant(n + 1)
      BY <2>1, <1>2 DEF Leases!Vacated
    <3>2. LeaseBelow(n + 1)'
      <4>1. n \in Nat /\ \A x \in released \cup expired : x \in Nat
        BY <1>1, <1>3 DEF LeaseInv
      <4>2. \A g \in grants : g.generation \in Nat
        BY Zenon, <1>3 DEF LeaseInv, LeaseGrants
      <4>3. \A g \in grants : g.generation < n + 1
        BY <1>1, <4>1, <4>2
      <4>4. \A x \in (released \cup expired) \cup {n} : x < n + 1
        BY <1>1, <4>1
      <4> QED BY <1>4, <4>3, <4>4 DEF LeaseBelow
    <3> QED BY <2>1, <3>1, <3>2 DEF Newest
  <2>2. CASE n + 1 \notin Leases!Generations
    BY <2>2, <1>2 DEF Leases!Vacated, Newest
  <2> QED BY <2>1, <2>2
<1>6. Leases!EndsOnce'
  <2>1. n \notin released \cup expired
    <3>1. n \in Nat
      BY <1>1, <1>3
    <3> QED BY <1>1, <3>1
  <2>2. (released \cap expired)' = {}
    BY <1>0, <2>1 DEF LeaseInv, Leases!EndsOnce
  <2>3. ASSUME NEW g \in grants, g.generation \notin (released \cup expired)'
        PROVE  \E k \in grants : k.holder = g.holder /\ k.generation = g.generation + 1
    BY <1>0, <1>4, <2>3 DEF LeaseInv, Leases!EndsOnce
  <2> QED BY <2>2, <2>3 DEF Leases!EndsOnce
<1>7. (grants \subseteq LeaseGrants)' /\ (released \subseteq Leases!Generations)'
          /\ (expired \subseteq Leases!Generations)' /\ OneGrantEach' /\ Evidence'
  BY <1>0, <1>1 DEF LeaseInv, OneGrantEach, Evidence
<1> QED BY <1>5, <1>6, <1>7 DEF LeaseInv

\* Every step of the lease and of its timer keeps the invariant.
LEMMA LeaseStep == LeaseInv /\ [Leases!Next]_Leases!vars => LeaseInv'
<1> SUFFICES ASSUME LeaseInv, [Leases!Next]_Leases!vars PROVE LeaseInv'
  OBVIOUS
<1>0. ASSUME UNCHANGED Leases!vars PROVE LeaseInv'
  BY Zenon, <1>0 DEF Leases!vars, Leases!histories, Leases!timerVars, LeaseInv, Newest,
                     LeaseBelow, OneGrantEach, Evidence,
              Leases!EndsOnce
<1>1. ASSUME NEW h \in Holders, Leases!Acquire(h) PROVE LeaseInv'
  <2>1. CASE lease.at = "Vacant"
    <3>1. lease.next \in Leases!Generations /\ LeaseBelow(lease.next)
      <4>1. PICK n \in Leases!Generations : lease = Leases!Vacant(n) /\ LeaseBelow(n)
        <5>1. lease # Leases!Exhausted /\ \A k, g, x : lease # Leases!Held(k, g, x)
          BY <2>1, LeaseForms
        <5> QED BY Zenon, <5>1 DEF LeaseInv, Newest
      <4>2. lease.next = n
        BY <4>1, LeaseForms
      <4> QED BY <4>1, <4>2
    <3> QED BY <1>1, <2>1, <3>1, GrantStep DEF Leases!Acquire
  <2>2. CASE lease.at # "Vacant"
    BY <1>0, <1>1, <2>2 DEF Leases!Acquire
  <2> QED BY <2>1, <2>2
<1>2. ASSUME NEW h \in Holders, NEW g \in Leases!Generations, Leases!Renew(h, g)
      PROVE LeaseInv'
  <2>1. CASE Leases!Authorized(h, g) /\ lease.next \in Leases!Generations
    <3>1. lease.at = "Held" /\ lease.holder = h /\ lease.next = lease.generation + 1
             /\ lease.generation \in Leases!Generations
      BY <2>1, HeldForm DEF Leases!Authorized, LeaseInv
    <3>2. LeaseBelow(lease.next)
      <4>1. /\ \A k \in grants : k.generation <= lease.generation
            /\ \A x \in released \cup expired : x < lease.generation
        BY <3>1, HeldForm DEF LeaseInv
      <4> QED BY <3>1, <4>1, TimersAssumption
          DEF LeaseBelow, LeaseInv, LeaseGrants, Leases!Generations
    <3> QED BY <1>2, <2>1, <3>1, <3>2, GrantStep DEF Leases!Renew
  <2> QED BY <1>0, <1>2, <2>1 DEF Leases!Renew
<1>3. ASSUME NEW h \in Holders, NEW g \in Leases!Generations, Leases!Release(h, g)
      PROVE LeaseInv'
  BY <1>0, <1>3, VacateStep DEF Leases!Release, Leases!Authorized, Leases!NoSchedule,
                                Leases!timerVars
<1>4. ASSUME NEW g \in elapsed, Leases!Elapsed(g) PROVE LeaseInv'
  <2>1. elapsed' \subseteq elapsed /\ g \in due
    BY <1>4 DEF Leases!Elapsed, Leases!Deliver, LeaseInv, Evidence
  <2>2. CASE Leases!Expires(g)
    BY <1>4, <2>1, <2>2, VacateStep DEF Leases!Elapsed, Leases!Expires
  <2>3. CASE ~Leases!Expires(g)
    BY Zenon, <1>4, <2>1, <2>3 DEF Leases!Elapsed, LeaseInv, Newest, LeaseBelow,
        OneGrantEach, Evidence, Leases!EndsOnce
  <2> QED BY <2>2, <2>3
<1>5. ASSUME Leases!Clock PROVE LeaseInv'
  BY Zenon, <1>5 DEF Leases!Clock, Leases!Elapse, LeaseInv, Newest, LeaseBelow,
                     OneGrantEach, Evidence, Leases!EndsOnce
<1> QED BY <1>0, <1>1, <1>2, <1>3, <1>4, <1>5 DEF Leases!Next

\* The invariant holds throughout.
LEMMA LeaseAlways == Leases!Spec => []LeaseInv
BY LeaseInit, LeaseStep, PTL DEF Leases!Spec

\* No generation is granted twice, and the current hold is the newest grant:
\* whoever checks the generation refuses every former holder.
THEOREM Fencing == Leases!Spec => []Leases!TokensFence
<1>1. LeaseInv => Leases!TokensFence
  BY HeldForm DEF LeaseInv, OneGrantEach, Leases!TokensFence
<1> QED BY LeaseAlways, <1>1, PTL

\* A hold expires only by a notification of its own interval.
THEOREM ExpiryIsDue == Leases!Spec => []Leases!NoEarlyExpiry
<1>1. LeaseInv => Leases!NoEarlyExpiry
  BY DEF LeaseInv, Evidence, Leases!NoEarlyExpiry
<1> QED BY LeaseAlways, <1>1, PTL

\* A hold ends once, released or expired, and never after it was renewed.
THEOREM HoldEndsOnce == Leases!Spec => []Leases!EndsOnce
<1>1. LeaseInv => Leases!EndsOnce
  BY DEF LeaseInv
<1> QED BY LeaseAlways, <1>1, PTL

-----------------------------------------------------------------------------
(* The circuit breaker, for any threshold, number of attempts and largest    *)
(* generation, whether or not notifications are repeated.                    *)

Breaker == INSTANCE CircuitBreaker

\* The threshold is a NonZeroU32.
BreakerConfigured == Threshold \in Nat \ {0} /\ MaxAttempt \in Nat

Flying == phase.at \in {"Awaiting", "Probing"}

\* The attempt that owns the breaker is the only one admitted and not settled.
Flight ==
    /\ next \in 0..MaxAttempt
    /\ settled \in [Breaker!Attempts -> Nat]
    /\ inFlight = IF Flying THEN {phase.attempt} ELSE {}
    /\ Flying => phase.attempt \in Breaker!Attempts /\ phase.attempt < next
    /\ \A a \in Breaker!Attempts : settled[a] = IF a < next /\ a \notin inFlight THEN 1 ELSE 0

\* The failures counted are those since the last success.
Count ==
    /\ failed \in Nat
    /\ Breaker!OpensAtThreshold

Outage == phase.at \in {"Open", "Available", "Probing"}

Histories ==
    /\ armed \subseteq Breaker!Generations /\ elapsed \subseteq Breaker!Generations
    /\ opening \in [ripe : BOOLEAN, stale : SUBSET Breaker!Generations]

\* The queue holds the current opening's timer alone, and what is on its way is
\* from before the outage, from an earlier opening of it, or from an interval
\* that has elapsed.
Interval ==
    /\ phase.at = "Open" => phase = Breaker!Open(phase.generation)
    /\ Outage =>
         /\ phase.generation \in Breaker!Generations
         /\ armed \subseteq {phase.generation}
         /\ \A h \in elapsed : \/ h \in opening.stale
                               \/ h < phase.generation
                               \/ h = phase.generation /\ opening.ripe
    /\ Breaker!WholeResetInterval

BreakerInv ==
    /\ phase.at \in {"Closed", "Awaiting", "Open", "Available", "Probing", "Exhausted"}
    /\ Flight /\ Count /\ Histories /\ Interval

\* What each alternative says of itself.
LEMMA BreakerForms ==
    /\ \A n : Breaker!Closed(n).at = "Closed" /\ Breaker!Closed(n).failures = n
    /\ \A n, a : /\ Breaker!Awaiting(n, a).at = "Awaiting" /\ Breaker!Awaiting(n, a).failures = n
                 /\ Breaker!Awaiting(n, a).attempt = a
    /\ \A g : Breaker!Open(g).at = "Open" /\ Breaker!Open(g).generation = g
    /\ \A g : Breaker!Available(g).at = "Available" /\ Breaker!Available(g).generation = g
    /\ \A g, a : /\ Breaker!Probing(g, a).at = "Probing" /\ Breaker!Probing(g, a).generation = g
                 /\ Breaker!Probing(g, a).attempt = a
    /\ Breaker!Exhausted.at = "Exhausted"
BY DEF Breaker!Closed, Breaker!Awaiting, Breaker!Open, Breaker!Available,
       Breaker!Probing, Breaker!Exhausted

\* The breaker starts closed, with nothing admitted.
LEMMA BreakerInit == ASSUME BreakerConfigured PROVE Breaker!Init => BreakerInv
<1> SUFFICES ASSUME Breaker!Init PROVE BreakerInv
  OBVIOUS
<1>1. /\ phase.at = "Closed" /\ phase.failures = 0 /\ next = 0 /\ failed = 0
      /\ inFlight = {} /\ settled = [a \in Breaker!Attempts |-> 0] /\ armed = {} /\ elapsed = {}
      /\ opening = [ripe |-> FALSE, stale |-> {}]
  BY BreakerForms DEF Breaker!Init, Breaker!TimersInit
<1>2. Flight
  BY <1>1 DEF Flight, Flying, Breaker!Attempts, BreakerConfigured
<1>3. Count
  BY <1>1 DEF Count, Breaker!OpensAtThreshold, BreakerConfigured
<1>4. Histories /\ Interval
  BY <1>1 DEF Histories, Interval, Outage, Breaker!WholeResetInterval
<1> QED BY <1>1, <1>2, <1>3, <1>4 DEF BreakerInv

\* An admission takes the next attempt or exhausts the breaker.
LEMMA AdmitStep ==
    ASSUME BreakerConfigured, BreakerInv, Breaker!Admissible, Breaker!Admit
    PROVE  BreakerInv'
<1>0. phase.at \in {"Closed", "Available"} /\ ~Flying /\ inFlight = {}
  BY DEF Breaker!Admissible, BreakerInv, Flight, Flying
<1>1. CASE next = MaxAttempt
  <2>1. phase'.at = "Exhausted" /\ UNCHANGED <<next, armed, elapsed, inFlight, settled, failed, opening>>
    BY <1>1, BreakerForms DEF Breaker!Admit, Breaker!timerVars, Breaker!histories
  <2>2. Flight' /\ Count'
    BY <1>0, <2>1 DEF BreakerInv, Flight, Flying, Count, Breaker!OpensAtThreshold
  <2>3. Histories' /\ Interval'
    BY <2>1 DEF BreakerInv, Histories, Interval, Outage, Breaker!WholeResetInterval
  <2> QED BY <2>1, <2>2, <2>3 DEF BreakerInv
<1>2. CASE next # MaxAttempt
  <2>1. /\ next' = next + 1 /\ inFlight' = {next}
        /\ UNCHANGED <<armed, elapsed, settled, failed, opening>>
    BY <1>0, <1>2 DEF Breaker!Admit, Breaker!timerVars
  <2>2. /\ phase.at = "Available" => phase'.at = "Probing" /\ phase'.generation = phase.generation
        /\ phase.at = "Closed" => phase'.at = "Awaiting" /\ phase'.failures = phase.failures
        /\ phase'.attempt = next
    BY <1>0, <1>2, BreakerForms DEF Breaker!Admit
  <2>3. next \in Breaker!Attempts /\ next \in Nat /\ Breaker!Attempts \subseteq Nat
    BY <1>2 DEF BreakerInv, Flight, Breaker!Attempts, BreakerConfigured
  <2>4. Flight'
    <3>1. next' \in 0..MaxAttempt
      BY <1>2, <2>1 DEF BreakerInv, Flight, BreakerConfigured
    <3>2. \A a \in Breaker!Attempts : settled'[a] = IF a < next' /\ a \notin inFlight' THEN 1 ELSE 0
      <4>1. \A a \in Breaker!Attempts : a < next + 1 /\ a # next <=> a < next
        BY <2>3
      <4> QED BY <1>0, <2>1, <4>1 DEF BreakerInv, Flight
    <3>3. Flying' /\ phase'.attempt < next'
      BY <1>0, <2>1, <2>2, <2>3 DEF Flying
    <3> QED BY <2>1, <2>2, <2>3, <3>1, <3>2, <3>3 DEF BreakerInv, Flight
  <2>5. Count'
    BY <1>0, <2>1, <2>2 DEF BreakerInv, Count, Breaker!OpensAtThreshold
  <2>6. Histories' /\ Interval'
    BY <1>0, <2>1, <2>2
       DEF BreakerInv, Histories, Interval, Outage, Breaker!WholeResetInterval
  <2> QED BY <1>0, <2>2, <2>4, <2>5, <2>6 DEF BreakerInv
<1> QED BY <1>1, <1>2

\* The owner's completion settles it once.
LEMMA SettleStep ==
    ASSUME BreakerConfigured, BreakerInv, NEW a \in Breaker!Attempts, Breaker!Owns(a),
           Breaker!Settle(a), next' = next, ~Flying'
    PROVE  Flight'
<1>1. Flying /\ phase.attempt = a /\ inFlight = {a} /\ a < next
  BY DEF Breaker!Owns, Flying, BreakerInv, Flight
<1>2. inFlight' = {} /\ settled' = [settled EXCEPT ![a] = settled[a] + 1]
  BY <1>1 DEF Breaker!Settle
<1>3. settled[a] = 0 /\ settled \in [Breaker!Attempts -> Nat]
  BY <1>1 DEF BreakerInv, Flight
<1>4. settled' \in [Breaker!Attempts -> Nat]
  BY <1>2, <1>3
<1>5. \A b \in Breaker!Attempts : settled'[b] = IF b < next' /\ b \notin inFlight' THEN 1 ELSE 0
  BY <1>1, <1>2, <1>3 DEF BreakerInv, Flight
<1> QED BY <1>2, <1>4, <1>5 DEF BreakerInv, Flight

\* A success closes the circuit.
LEMMA SucceededStep ==
    ASSUME BreakerConfigured, BreakerInv, NEW a \in Breaker!Attempts, Breaker!Owns(a),
           Breaker!Succeeded(a)
    PROVE  BreakerInv'
<1>1. /\ phase'.at = "Closed" /\ phase'.failures = 0 /\ failed' = 0
      /\ Breaker!Settle(a) /\ UNCHANGED <<next, armed, elapsed, opening>>
  BY BreakerForms DEF Breaker!Succeeded, Breaker!timerVars
<1>2. Flight'
  BY <1>1, SettleStep DEF Flying
<1>3. Count'
  BY <1>1 DEF Count, Breaker!OpensAtThreshold, BreakerConfigured
<1>4. Histories' /\ Interval'
  BY <1>1 DEF BreakerInv, Histories, Interval, Outage, Breaker!WholeResetInterval
<1> QED BY <1>1, <1>2, <1>3, <1>4 DEF BreakerInv

\* An opening arms its own generation: the first of an outage finds only what is
\* stale on its way, a later one only what is stale or older than itself.
LEMMA TripStep ==
    ASSUME BreakerInv, phase.at \in {"Awaiting", "Probing"}, Breaker!Trip
    PROVE  Histories' /\ Interval'
<1> DEFINE g     == IF phase.at = "Probing" THEN Breaker!Successor(phase.generation) ELSE 0
           stale == IF phase.at = "Probing" THEN opening.stale ELSE elapsed
<1>1. Breaker!Reopen(g, stale)
  BY DEF Breaker!Trip
<1>2. CASE g \in Breaker!Generations
  <2>1. /\ phase' = Breaker!Open(g) /\ phase'.at = "Open" /\ phase'.generation = g
        /\ armed' = {g} /\ elapsed' = elapsed /\ opening' = [ripe |-> FALSE, stale |-> stale]
    BY <1>1, <1>2, BreakerForms DEF Breaker!Reopen, Breaker!Schedule
  <2>2. stale \subseteq Breaker!Generations
    BY DEF BreakerInv, Histories
  <2>3. Histories'
    BY <1>2, <2>1, <2>2 DEF BreakerInv, Histories
  <2>4. \A h \in elapsed : h \in stale \/ h < g
    <3>1. CASE phase.at = "Probing"
      <4>1. /\ phase.generation \in Nat /\ elapsed \subseteq Nat
            /\ \A h \in elapsed : h \in opening.stale \/ h <= phase.generation
        BY <3>1 DEF BreakerInv, Histories, Interval, Outage, Breaker!Generations
      <4> QED BY <3>1, <4>1 DEF Breaker!Successor
    <3>2. CASE phase.at # "Probing"
      BY <3>2
    <3> QED BY <3>1, <3>2
  <2> HIDE DEF g, stale
  <2>5. Interval'
    BY <1>2, <2>1, <2>4 DEF Interval, Outage, Breaker!WholeResetInterval
  <2> QED BY <2>3, <2>5
<1>3. CASE g \notin Breaker!Generations
  <2>1. phase'.at = "Exhausted" /\ UNCHANGED <<opening, armed, elapsed>>
    BY <1>1, <1>3, BreakerForms DEF Breaker!Reopen, Breaker!timerVars
  <2> QED BY <2>1 DEF BreakerInv, Histories, Interval, Outage, Breaker!WholeResetInterval
<1> QED BY <1>2, <1>3

\* A failure is counted, and opens the circuit when it trips.
LEMMA FailedStep ==
    ASSUME BreakerConfigured, BreakerInv, NEW a \in Breaker!Attempts, Breaker!Owns(a),
           Breaker!Failed(a)
    PROVE  BreakerInv'
<1>0. /\ phase.at \in {"Awaiting", "Probing"} /\ failed \in Nat
      /\ Breaker!Settle(a) /\ failed' = failed + 1 /\ UNCHANGED next
  BY DEF Breaker!Owns, BreakerInv, Count, Breaker!Failed
<1>1. CASE ~Breaker!Trips
  <2>1. phase.at = "Awaiting" /\ phase.failures = failed /\ failed + 1 < Threshold
    BY <1>0, <1>1 DEF Breaker!Trips, BreakerInv, Count, Breaker!OpensAtThreshold,
                      BreakerConfigured
  <2>2. /\ phase'.at = "Closed" /\ phase'.failures = failed + 1
        /\ UNCHANGED <<opening, armed, elapsed>>
    BY <1>1, <2>1, BreakerForms DEF Breaker!Failed, Breaker!timerVars
  <2>3. Flight' /\ Count'
    BY <1>0, <2>1, <2>2, SettleStep DEF Flying, Count, Breaker!OpensAtThreshold
  <2>4. Histories' /\ Interval'
    BY <2>2 DEF BreakerInv, Histories, Interval, Outage, Breaker!WholeResetInterval
  <2> QED BY <2>2, <2>3, <2>4 DEF BreakerInv
<1>2. CASE Breaker!Trips
  <2>1. Breaker!Trip
    BY <1>2 DEF Breaker!Failed
  <2>2. PICK g, stale : Breaker!Reopen(g, stale)
    BY <2>1 DEF Breaker!Trip
  <2>3. failed + 1 >= Threshold
    BY <1>0, <1>2 DEF Breaker!Trips, BreakerInv, Count, Breaker!OpensAtThreshold,
                      BreakerConfigured
  <2>4. phase'.at \in {"Open", "Exhausted"}
    BY <2>2, BreakerForms DEF Breaker!Reopen
  <2>5. Flight' /\ Count'
    BY <1>0, <2>3, <2>4, SettleStep DEF Flying, Count, Breaker!OpensAtThreshold
  <2>6. Histories' /\ Interval'
    BY <1>0, <2>1, TripStep
  <2> QED BY <2>4, <2>5, <2>6 DEF BreakerInv
<1> QED BY <1>1, <1>2

\* The clock and the notification serve the current opening.
LEMMA TimerStep ==
    ASSUME BreakerConfigured, BreakerInv,
           Breaker!Clock \/ \E g \in elapsed : Breaker!Elapsed(g)
    PROVE  BreakerInv'
<1>1. CASE Breaker!Clock
  <2>1. PICK g \in armed : armed' = armed \ {g} /\ elapsed' = elapsed \cup {g}
    BY <1>1 DEF Breaker!Clock, Breaker!Elapse
  <2>2. /\ UNCHANGED <<phase, next, inFlight, settled, failed>>
        /\ opening' = [opening EXCEPT !.ripe = TRUE]
    BY <1>1 DEF Breaker!Clock
  <2>3. opening' = [ripe |-> TRUE, stale |-> opening.stale]
    BY <2>2 DEF BreakerInv, Histories
  <2>4. Flight' /\ Count'
    BY <2>2 DEF BreakerInv, Flight, Flying, Count, Breaker!OpensAtThreshold
  <2>5. Histories'
    BY <2>1, <2>3 DEF BreakerInv, Histories
  <2>6. Interval'
    BY <2>1, <2>2, <2>3 DEF BreakerInv, Interval, Outage, Breaker!WholeResetInterval
  <2> QED BY <2>2, <2>4, <2>5, <2>6 DEF BreakerInv
<1>2. ASSUME NEW g \in elapsed, Breaker!Elapsed(g) PROVE BreakerInv'
  <2>1. /\ elapsed' \subseteq elapsed
        /\ UNCHANGED <<next, armed, inFlight, settled, failed, opening>>
    BY <1>2, Zenon DEF Breaker!Elapsed, Breaker!Deliver, Breaker!histories
  <2>2. CASE Breaker!Resets(g)
    <3>1. /\ phase.at = "Open" /\ phase.generation = g
          /\ phase'.at = "Available" /\ phase'.generation = g
      BY <1>2, <2>2, BreakerForms DEF Breaker!Elapsed, Breaker!Resets
    <3>2. g \in opening.stale \/ opening.ripe
      BY <3>1 DEF BreakerInv, Histories, Interval, Outage, Breaker!Generations
    <3>3. Flight' /\ Count'
      BY <2>1, <3>1 DEF BreakerInv, Flight, Flying, Count, Breaker!OpensAtThreshold
    <3>4. Histories' /\ Interval'
      BY <2>1, <3>1, <3>2
         DEF BreakerInv, Histories, Interval, Outage, Breaker!WholeResetInterval
    <3> QED BY <3>1, <3>3, <3>4 DEF BreakerInv
  <2>3. CASE ~Breaker!Resets(g)
    <3>1. phase' = phase
      BY <1>2, <2>3 DEF Breaker!Elapsed
    <3> QED BY <2>1, <3>1 DEF BreakerInv, Flight, Flying, Count, Breaker!OpensAtThreshold,
                              Histories, Interval, Outage, Breaker!WholeResetInterval
  <2> QED BY <2>2, <2>3
<1> QED BY <1>1, <1>2

\* Every step keeps the invariant.
LEMMA BreakerStep ==
    ASSUME BreakerConfigured
    PROVE  BreakerInv /\ [Breaker!Next]_Breaker!vars => BreakerInv'
<1> SUFFICES ASSUME BreakerInv, [Breaker!Next]_Breaker!vars PROVE BreakerInv'
  OBVIOUS
<1>0. CASE UNCHANGED Breaker!vars
  BY <1>0 DEF Breaker!vars, Breaker!timerVars, Breaker!histories, BreakerInv, Flight,
              Flying, Count, Breaker!OpensAtThreshold,
              Histories, Interval, Outage, Breaker!WholeResetInterval
<1>1. CASE Breaker!Admit
  BY <1>0, <1>1, AdmitStep DEF Breaker!Admit
<1>2. ASSUME NEW a \in Breaker!Attempts, Breaker!Succeeded(a) \/ Breaker!Failed(a)
      PROVE BreakerInv'
  BY <1>0, <1>2, SucceededStep, FailedStep DEF Breaker!Succeeded, Breaker!Failed
<1> QED BY <1>0, <1>1, <1>2, TimerStep DEF Breaker!Next

\* The invariant holds throughout.
LEMMA BreakerAlways == ASSUME BreakerConfigured PROVE Breaker!Spec => []BreakerInv
BY BreakerInit, BreakerStep, PTL DEF Breaker!Spec

\* The breaker's module counts as this one does.
LEMMA SameSize == ASSUME NEW S PROVE Breaker!Cardinality(S) = Cardinality(S)
BY Zenon DEF Breaker!Cardinality, Cardinality

\* One operation owns the breaker at a time, and a completion settles the
\* operation it names exactly once, for any number of attempts.
THEOREM OneFlight == ASSUME BreakerConfigured PROVE Breaker!Spec => []Breaker!SingleFlight
<1>1. BreakerInv => Breaker!SingleFlight
  <2> SUFFICES ASSUME BreakerInv PROVE Breaker!SingleFlight
    OBVIOUS
  <2>1. Cardinality(inFlight) <= 1
    <3>1. inFlight = {} \/ \E x : inFlight = {x}
      BY Zenon DEF BreakerInv, Flight
    <3>2. Cardinality(inFlight) \in {0, 1}
      <4>1. Cardinality({}) = 0
        BY FS_EmptySet
      <4>2. \A x : Cardinality({x}) = 1
        BY Zenon, FS_Singleton
      <4> QED BY Zenon, <3>1, <4>1, <4>2
    <3> QED BY <3>2
  <2>2. ASSUME NEW a \in Breaker!Attempts
        PROVE  settled[a] + Cardinality(inFlight \cap {a}) = (IF a < next THEN 1 ELSE 0)
    <3>1. CASE a \in inFlight
      <4>1. inFlight \cap {a} = {a} /\ a < next
        BY <3>1 DEF BreakerInv, Flight
      <4>2. Cardinality(inFlight \cap {a}) = 1
        <5>1. Cardinality({a}) = 1
          BY FS_Singleton
        <5> QED BY <4>1, <5>1
      <4>3. settled[a] = 0
        BY <3>1 DEF BreakerInv, Flight
      <4> QED BY <4>1, <4>2, <4>3
    <3>2. CASE a \notin inFlight
      <4>1. inFlight \cap {a} = {}
        BY <3>2
      <4> QED BY <3>2, <4>1, FS_EmptySet DEF BreakerInv, Flight
    <3> QED BY <3>1, <3>2
  <2> QED BY <2>1, <2>2, SameSize DEF Breaker!SingleFlight
<1> QED BY BreakerAlways, <1>1, PTL

\* The circuit is closed exactly while fewer than the threshold of operations
\* in a row have failed, for any threshold.
THEOREM ThresholdOpens ==
    ASSUME BreakerConfigured
    PROVE  Breaker!Spec => []Breaker!OpensAtThreshold
<1>1. BreakerInv => Breaker!OpensAtThreshold
  BY DEF BreakerInv, Count
<1> QED BY BreakerAlways, <1>1, PTL

\* However often a notification is delivered, a probe is offered before the whole
\* reset interval of its opening only to a notification that was on its way
\* before the outage and carries the opening's generation: every outage counts
\* from generation 0 again.  Within an outage no repetition cuts an interval.
THEOREM ProbeWaits ==
    ASSUME BreakerConfigured
    PROVE  Breaker!Spec => []Breaker!WholeResetInterval
<1>1. BreakerInv => Breaker!WholeResetInterval
  BY DEF BreakerInv, Interval
<1> QED BY BreakerAlways, <1>1, PTL

-----------------------------------------------------------------------------
(* The sequencer.                                                            *)

Sequence == INSTANCE Sequencer

\* The first sequence expected is one that can be offered.
SequencerConfigured == First \in Nat /\ MaxSequence \in Nat /\ First <= MaxSequence

\* What waits is above the expected sequence, is what was accepted for it, and
\* everything accepted was delivered or waits.
SeqInv ==
    /\ expected \in First..Sequence!None
    /\ delivered \in Seq(Values)
    /\ pending \in [DOMAIN pending -> Values]
    /\ accepted \in [DOMAIN accepted -> Values]
    /\ DOMAIN pending \subseteq (expected + 1)..MaxSequence
    /\ \A x \in DOMAIN pending : accepted[x] = pending[x]
    /\ Sequence!InOrderOnce

\* Every set of numbers that is not empty has a least element.
LEMMA Least ==
    ASSUME NEW T, T \subseteq Nat, T # {}
    PROVE  \E x \in T : \A y \in T : x <= y
<1>1. \E x \in T : \A y \in T : ~(<<y, x>> \in OpToRel(<, Nat))
  BY Zenon, NatLessThanWellFounded, WFMin
<1>2. \A x, y \in Nat : <<y, x>> \in OpToRel(<, Nat) <=> y < x
  BY DEF OpToRel
<1>3. \E x \in T : \A y \in T : ~(y < x)
  BY Zenon, <1>1, <1>2
<1> QED BY <1>3

\* The run ends at the first gap: the loop of the code stops there and not
\* before.
LEMMA RunEnds ==
    ASSUME NEW p, expected \in Nat, MaxSequence \in Nat, expected <= Sequence!None,
           DOMAIN p \subseteq 0..MaxSequence
    PROVE  /\ Sequence!Run(p) \in expected..Sequence!None /\ Sequence!Run(p) \notin DOMAIN p
           /\ \A m \in expected..(Sequence!Run(p) - 1) : m \in DOMAIN p
<1> DEFINE T == {n \in expected..Sequence!None : n \notin DOMAIN p}
<1>1. T \subseteq Nat /\ Sequence!None \in T
  BY DEF Sequence!None
<1>2. PICK x \in T : \A y \in T : x <= y
  BY Zenon, <1>1, Least
<1>3. \A m \in expected..(x - 1) : m \in DOMAIN p
  BY <1>2 DEF Sequence!None
<1>4. \E n \in expected..Sequence!None : n \notin DOMAIN p /\ \A m \in expected..(n - 1) : m \in DOMAIN p
  BY <1>2, <1>3
<1> QED BY <1>4 DEF Sequence!Run

\* The sequencer starts with nothing accepted.
LEMMA SeqInit == ASSUME SequencerConfigured PROVE Sequence!Init => SeqInv
<1> SUFFICES ASSUME Sequence!Init PROVE SeqInv
  OBVIOUS
<1>1. expected \in First..Sequence!None /\ expected # Sequence!None
  BY DEF Sequence!Init, SequencerConfigured, Sequence!None
<1>2. /\ delivered \in Seq(Values) /\ Len(delivered) = 0
      /\ DOMAIN pending = {} /\ DOMAIN accepted = {}
      /\ pending \in [DOMAIN pending -> Values] /\ accepted \in [DOMAIN accepted -> Values]
  BY DEF Sequence!Init
<1>3. Sequence!InOrderOnce
  BY <1>1, <1>2 DEF Sequence!Init, Sequence!InOrderOnce, SequencerConfigured,
                    Sequence!None
<1> QED BY <1>1, <1>2, <1>3 DEF SeqInv

\* An accepted offer is stored, and the run it completes is delivered.
LEMMA OfferStep ==
    ASSUME SequencerConfigured, SeqInv, NEW s \in Sequence!Offered, NEW v \in Values,
           Sequence!Accepts(s), Sequence!Offer(s, v)
    PROVE  SeqInv'
<1> DEFINE p == [x \in DOMAIN pending \cup {s} |-> IF x = s THEN v ELSE pending[x]]
           last == Sequence!Run(p)
           run == [i \in 1..(last - expected) |-> p[expected + i - 1]]
<1>0. /\ expected \in Nat /\ First \in Nat /\ MaxSequence \in Nat /\ s \in Nat
      /\ First <= expected /\ expected <= MaxSequence
      /\ expected <= s /\ s <= MaxSequence /\ s \notin DOMAIN pending
  BY DEF SequencerConfigured, SeqInv, Sequence!Accepts, Sequence!Offered, Sequence!None
<1>1. /\ DOMAIN p = DOMAIN pending \cup {s} /\ DOMAIN p \subseteq expected..MaxSequence
      /\ \A x \in DOMAIN p : p[x] \in Values
      /\ p[s] = v /\ \A x \in DOMAIN pending : p[x] = pending[x]
  BY <1>0 DEF SeqInv
<1>2. /\ expected' = last
      /\ pending' = [x \in {y \in DOMAIN p : y >= last} |-> p[x]]
      /\ delivered' = delivered \o run
      /\ accepted' = IF s \in DOMAIN accepted THEN accepted
                     ELSE [x \in DOMAIN accepted \cup {s} |-> IF x = s THEN v ELSE accepted[x]]
  BY Zenon DEF Sequence!Offer, Sequence!Restrict
<1> HIDE DEF p
<1>3. /\ last \in expected..Sequence!None /\ last \notin DOMAIN p
      /\ \A m \in expected..(last - 1) : m \in DOMAIN p
  BY <1>0, <1>1, RunEnds DEF Sequence!None
<1> HIDE DEF last
<1>4. /\ last \in Nat /\ last - expected \in Nat
  BY <1>0, <1>3 DEF Sequence!None
<1>5. /\ DOMAIN accepted = DOMAIN pending \cup First..(expected - 1) /\ s \notin DOMAIN accepted
      /\ expected = First + Len(delivered)
  BY <1>0 DEF SeqInv, Sequence!InOrderOnce
<1>6. /\ DOMAIN accepted' = DOMAIN accepted \cup {s}
      /\ accepted' \in [DOMAIN accepted' -> Values]
      /\ \A x \in DOMAIN accepted : accepted'[x] = accepted[x]
      /\ \A x \in DOMAIN p : accepted'[x] = p[x]
  BY <1>1, <1>2, <1>5 DEF SeqInv
<1>7. /\ DOMAIN pending' = {y \in DOMAIN p : y >= last}
      /\ pending' \in [DOMAIN pending' -> Values]
      /\ \A x \in DOMAIN pending' : accepted'[x] = pending'[x]
      /\ DOMAIN pending' \subseteq (last + 1)..MaxSequence
  <2>1. /\ DOMAIN pending' = {y \in DOMAIN p : y >= last}
        /\ \A x \in DOMAIN pending' : x \in DOMAIN p /\ pending'[x] = p[x]
    BY <1>2
  <2>2. pending' \in [DOMAIN pending' -> Values]
    BY <1>1, <1>2, <2>1
  <2>3. ASSUME NEW x \in DOMAIN pending' PROVE x \in (last + 1)..MaxSequence
    <3>1. x \in DOMAIN p /\ x >= last /\ x # last /\ x \in Nat /\ x <= MaxSequence
      BY <1>0, <1>1, <1>3, <2>1
    <3>2. last \in Int /\ MaxSequence \in Int /\ x \in Int
      BY <1>0, <1>4, <3>1
    <3>3. last + 1 <= x /\ x <= MaxSequence
      BY <3>1, <3>2
    <3> QED BY <3>2, <3>3
  <2> QED BY <1>6, <2>1, <2>2, <2>3
<1>8. run \in Seq(Values) /\ Len(run) = last - expected
      /\ \A i \in 1..(last - expected) : run[i] = p[expected + i - 1]
  <2>1. \A i \in 1..(last - expected) : p[expected + i - 1] \in Values
    BY <1>0, <1>1, <1>3, <1>4
  <2> QED BY <1>4, <2>1
<1> HIDE DEF run
<1>9. /\ delivered' \in Seq(Values)
      /\ Len(delivered') = Len(delivered) + (last - expected)
      /\ \A i \in 1..Len(delivered') :
            delivered'[i] = IF i <= Len(delivered) THEN delivered[i] ELSE run[i - Len(delivered)]
  <2>1. delivered \in Seq(Values)
    BY DEF SeqInv
  <2> QED BY <1>2, <1>8, <2>1, ConcatProperties
<1>10. Sequence!InOrderOnce'
  <2>1. Len(delivered) \in Nat /\ expected' = First + Len(delivered')
    <3>1. Len(delivered) \in Nat
      BY DEF SeqInv
    <3> QED BY <1>0, <1>2, <1>4, <1>5, <1>9, <3>1
  <2>2. ASSUME NEW i \in 1..Len(delivered')
        PROVE  First + i - 1 \in DOMAIN accepted' /\ delivered'[i] = accepted'[First + i - 1]
    <3>1. CASE i <= Len(delivered)
      <4>1. /\ First + i - 1 \in DOMAIN accepted
            /\ delivered[i] = accepted[First + i - 1]
        BY <2>1, <3>1 DEF SeqInv, Sequence!InOrderOnce
      <4> QED BY <1>6, <1>9, <3>1, <4>1
    <3>2. CASE i > Len(delivered)
      <4>1. PICK j : j = i - Len(delivered)
        OBVIOUS
      <4>2. j \in 1..(last - expected) /\ First + i - 1 = expected + j - 1
        <5>1. i \in Nat /\ i <= Len(delivered) + (last - expected)
          BY <1>4, <1>9, <2>1
        <5> QED BY <1>0, <1>4, <1>5, <2>1, <3>2, <4>1, <5>1
      <4>3. delivered'[i] = p[expected + j - 1] /\ expected + j - 1 \in DOMAIN p
        <5>1. delivered'[i] = run[j]
          BY <1>9, <2>1, <3>2, <4>1
        <5>2. expected + j - 1 \in expected..(last - 1)
          BY <1>0, <1>4, <4>2
        <5> QED BY <1>3, <1>8, <4>2, <5>1, <5>2
      <4>4. DOMAIN p \subseteq DOMAIN accepted'
        BY <1>1, <1>5, <1>6
      <4> QED BY <1>6, <4>2, <4>3, <4>4
    <3> QED BY <2>1, <3>1, <3>2
  <2>3. DOMAIN accepted' = DOMAIN pending' \cup First..(expected' - 1)
    <3>1. DOMAIN accepted' = DOMAIN p \cup First..(expected - 1)
      BY <1>1, <1>5, <1>6
    <3>2. DOMAIN p = {y \in DOMAIN p : y >= last} \cup expected..(last - 1)
      BY <1>0, <1>1, <1>3, <1>4
    <3>3. First..(expected - 1) \cup expected..(last - 1) = First..(last - 1)
      BY <1>0, <1>3, <1>4
    <3> QED BY <1>2, <1>7, <3>1, <3>2, <3>3
  <2>4. expected' \notin DOMAIN pending'
    BY <1>2, <1>3, <1>7
  <2>5. expected' = Sequence!None => pending' = <<>>
    <3>1. SUFFICES ASSUME last = Sequence!None PROVE pending' = <<>>
      BY <1>2
    <3>2. DOMAIN pending' = {}
      BY <1>0, <1>1, <1>7, <3>1 DEF Sequence!None
    <3> QED BY <1>2, <3>2
  <2> QED BY <2>1, <2>2, <2>3, <2>4, <2>5 DEF Sequence!InOrderOnce
<1>11. expected' \in First..Sequence!None
  BY <1>0, <1>2, <1>3, <1>4 DEF Sequence!None
<1> QED BY Zenon, <1>2, <1>6, <1>7, <1>9, <1>10, <1>11 DEF SeqInv

\* For any sequence domain and any order and repetition of offers, the target
\* sees consecutive sequences, each with the value accepted first, and what was
\* accepted is delivered or waits for a gap.
THEOREM DeliversInOrder ==
    ASSUME SequencerConfigured
    PROVE  Sequence!Spec => []Sequence!InOrderOnce
<1>1. SeqInv /\ [Sequence!Next]_Sequence!vars => SeqInv'
  <2> SUFFICES ASSUME SeqInv, [Sequence!Next]_Sequence!vars PROVE SeqInv'
    OBVIOUS
  <2>1. CASE UNCHANGED Sequence!vars
    BY <2>1 DEF Sequence!vars, SeqInv, Sequence!InOrderOnce
  <2>2. ASSUME NEW s \in Sequence!Offered, NEW v \in Values, Sequence!Offer(s, v)
        PROVE SeqInv'
    BY Zenon, <2>1, <2>2, OfferStep DEF Sequence!Offer
  <2> QED BY <2>1, <2>2 DEF Sequence!Next
<1>2. SeqInv => Sequence!InOrderOnce
  BY DEF SeqInv
<1> QED BY SeqInit, <1>1, <1>2, PTL DEF Sequence!Spec

-----------------------------------------------------------------------------
(* The presence table.                                                       *)

Presences == INSTANCE Presence

\* Generations are machine integers.
PresenceConfigured == MaxGeneration \in Nat

PresencePhases == {"Absent", "Present", "Expired"}
PresenceRecords == [phase : PresencePhases, version : Versions \cup {0},
            generation : 0..MaxGeneration, lifetime : Lifetimes \cup {0}]
PresenceTimers == [id : TimerIds, generation : 0..MaxGeneration, owner : Participants]

PresenceTyped ==
  /\ state \in [id : [Participants -> TimerIds], records : [Participants -> PresenceRecords],
                timers : SUBSET PresenceTimers]
  /\ log.fired \subseteq Participants \X (0..MaxGeneration)
  /\ log = [newest |-> log.newest, fired |-> log.fired]
  /\ DOMAIN log.newest = Participants

\* The generation of a record bounds those of all timers its owner ever asked
\* for, outstanding or fired.
Bounded ==
  /\ \A t \in state.timers : /\ t.id = state.id[t.owner]
                             /\ state.records[t.owner].phase # "Absent"
                             /\ t.generation <= state.records[t.owner].generation
  /\ \A f \in log.fired : /\ state.records[f[1]].phase # "Absent"
                          /\ f[2] <= state.records[f[1]].generation

\* A timer is known by its name, and fires once.
Named ==
  /\ \A t, u \in state.timers : t.id = u.id /\ t.generation = u.generation => t = u
  /\ \A t \in state.timers : <<t.owner, t.generation>> \notin log.fired

\* The newest announcement is the one recorded.
Recorded ==
  \A p \in Participants :
    state.records[p].phase # "Absent" =>
      log.newest[p] = <<state.id[p], state.records[p].generation, state.records[p].version>>

PresenceInv == PresenceTyped /\ Bounded /\ Named /\ Recorded /\ Presences!PresenceIsExact

\* Every set of numbers with a bound that is not empty has a greatest element.
LEMMA Greatest ==
    ASSUME NEW B \in Nat, NEW T, T \subseteq 0..B, T # {}
    PROVE  \E x \in T : \A y \in T : x >= y
<1> DEFINE U == {n \in 0..B : B - n \in T}
<1>1. U \subseteq Nat /\ U # {}
  <2>1. PICK x \in T : TRUE
    BY Zenon
  <2>2. B - x \in 0..B /\ B - (B - x) = x
    OBVIOUS
  <2>3. B - x \in U
    BY <2>2
  <2>4. U \subseteq Nat
    OBVIOUS
  <2>5. U # {}
    BY Zenon, <2>3
  <2> QED BY <2>4, <2>5
<1>2. \E x \in U : \A y \in U : ~(<<y, x>> \in OpToRel(<, Nat))
  BY Zenon, <1>1, NatLessThanWellFounded, WFMin
<1>3. \A x, y \in Nat : <<y, x>> \in OpToRel(<, Nat) <=> y < x
  BY DEF OpToRel
<1>4. \E x \in U : \A y \in U : ~(y < x)
  BY Zenon, <1>1, <1>2, <1>3
<1>5. PICK x \in U : \A y \in U : ~(y < x)
  BY <1>4
<1>6. ASSUME NEW y \in T PROVE B - x >= y
  <2>1. B - y \in U
    <3>1. B - y \in 0..B /\ B - (B - y) = y
      OBVIOUS
    <3> QED BY <3>1
  <2>2. ~(B - y < x) /\ x \in 0..B /\ y \in 0..B
    BY <1>5, <2>1
  <2> QED BY <2>2
<1> QED BY <1>5, <1>6

\* The generation chosen is past that of every participant on the same timer id.
LEMMA GenerationIsNew ==
    ASSUME PresenceConfigured, PresenceTyped, NEW p \in Participants
    PROVE  /\ Presences!NextGeneration(state, p) \in Nat
           /\ \A q \in Participants :
                state.records[q].phase # "Absent" /\ state.id[q] = state.id[p]
                  => state.records[q].generation < Presences!NextGeneration(state, p)
<1> DEFINE same == {q \in Participants : state.records[q].phase # "Absent" /\ state.id[q] = state.id[p]}
           G == {state.records[q].generation : q \in same}
<1>1. \A q \in Participants : state.records[q].generation \in 0..MaxGeneration
  BY DEF PresenceTyped, PresenceRecords
<1>2. CASE same = {}
  BY <1>2 DEF Presences!NextGeneration
<1>3. CASE same # {}
  <2>1. G \subseteq 0..MaxGeneration /\ G # {}
    BY <1>1, <1>3
  <2>2. \E x \in G : \A y \in G : x >= y
    BY Zenon, <2>1, Greatest DEF PresenceConfigured
  <2>3. Presences!Max(G) \in G /\ \A y \in G : Presences!Max(G) >= y
    BY <2>2 DEF Presences!Max
  <2>4. Presences!NextGeneration(state, p) = Presences!Max(G) + 1
    BY <1>3 DEF Presences!NextGeneration
  <2>5. Presences!Max(G) \in Nat
    BY <2>1, <2>3 DEF PresenceConfigured
  <2>6. ASSUME NEW q \in same PROVE state.records[q].generation < Presences!Max(G) + 1
    <3>1. state.records[q].generation \in G /\ state.records[q].generation \in Nat
      BY <1>1 DEF PresenceConfigured
    <3>2. Presences!Max(G) >= state.records[q].generation
      BY <2>3, <3>1
    <3> QED BY <2>5, <3>1, <3>2
  <2> QED BY <2>4, <2>5, <2>6
<1> QED BY <1>2, <1>3

\* An accepted announcement.
LEMMA IntroduceStep ==
    ASSUME PresenceConfigured, PresenceInv, NEW p \in Participants,
           NEW version \in Versions,
           NEW lifetime \in Lifetimes, Presences!Introduce(p, version, lifetime)
    PROVE  PresenceInv'
<1>1. PICK g : /\ g = Presences!NextGeneration(state, p) /\ g <= MaxGeneration
               /\ state' = [state EXCEPT
                    !.records[p] = [phase |-> "Present", version |-> version,
                                    generation |-> g, lifetime |-> lifetime],
                    !.timers = @ \cup {Presences!Timer(state.id[p], g, p)}]
               /\ log' = [log EXCEPT !.newest[p] = <<state.id[p], g, version>>]
  BY Zenon DEF Presences!Introduce
<1>2. /\ g \in 0..MaxGeneration
      /\ \A q \in Participants : state.records[q].phase # "Absent" /\ state.id[q] = state.id[p]
            => state.records[q].generation < g
  BY <1>1, GenerationIsNew DEF PresenceInv, PresenceConfigured
<1>3. PICK r : r = [phase |-> "Present", version |-> version, generation |-> g, lifetime |-> lifetime]
  BY Zenon
<1>4. PICK n : n = Presences!Timer(state.id[p], g, p)
  OBVIOUS
<1>5. /\ r \in PresenceRecords /\ r.phase = "Present" /\ r.generation = g /\ r.version = version
  BY <1>2, <1>3 DEF PresenceRecords, PresencePhases
<1>6. n \in PresenceTimers /\ n.id = state.id[p] /\ n.generation = g /\ n.owner = p
  BY <1>2, <1>4 DEF PresenceTimers, Presences!Timer, PresenceInv, PresenceTyped
<1>7. /\ state'.id = state.id
      /\ state'.records = [state.records EXCEPT ![p] = r]
      /\ state'.timers = state.timers \cup {n}
      /\ state' = [id |-> state'.id, records |-> state'.records, timers |-> state'.timers]
  BY Zenon, <1>1, <1>3, <1>4 DEF PresenceInv, PresenceTyped
<1>8. /\ log'.fired = log.fired
      /\ log'.newest = [log.newest EXCEPT ![p] = <<state.id[p], g, version>>]
      /\ log' = [newest |-> log'.newest, fired |-> log'.fired]
  BY <1>1 DEF PresenceInv, PresenceTyped
<1>9. /\ state'.records[p] = r
      /\ \A q \in Participants : q # p => state'.records[q] = state.records[q]
      /\ log'.newest[p] = <<state.id[p], g, version>>
      /\ \A q \in Participants : q # p => log'.newest[q] = log.newest[q]
  BY <1>7, <1>8 DEF PresenceInv, PresenceTyped
<1>10. PresenceTyped'
  BY <1>5, <1>6, <1>7, <1>8 DEF PresenceInv, PresenceTyped
<1>11. /\ \A t \in state.timers : t.id = state.id[p] => t.generation < g
       /\ \A f \in log.fired : f[1] = p => f[2] < g
  <2>1. ASSUME NEW t \in state.timers, t.id = state.id[p] PROVE t.generation < g
    <3>1. /\ t.owner \in Participants /\ t.generation \in Nat
          /\ state.records[t.owner].generation \in Nat
      BY DEF PresenceInv, PresenceTyped, PresenceTimers, PresenceRecords
    <3>2. /\ t.id = state.id[t.owner] /\ state.records[t.owner].phase # "Absent"
          /\ t.generation <= state.records[t.owner].generation
      BY DEF PresenceInv, Bounded
    <3>3. state.records[t.owner].generation < g
      BY <1>2, <2>1, <3>1, <3>2
    <3> QED BY <1>2, <3>1, <3>2, <3>3
  <2>2. ASSUME NEW f \in log.fired, f[1] = p PROVE f[2] < g
    <3>1. f[2] \in Nat /\ state.records[p].generation \in Nat
      BY DEF PresenceInv, PresenceTyped, PresenceRecords
    <3>2. state.records[p].phase # "Absent" /\ f[2] <= state.records[p].generation
      BY <2>2 DEF PresenceInv, Bounded
    <3> QED BY <1>2, <3>1, <3>2
  <2> QED BY <2>1, <2>2
<1>12. Bounded'
  <2>1. ASSUME NEW t \in state'.timers
        PROVE  /\ t.id = state'.id[t.owner] /\ state'.records[t.owner].phase # "Absent"
               /\ t.generation <= state'.records[t.owner].generation
    <3>1. CASE t = n
      BY <1>2, <1>5, <1>6, <1>7, <1>9, <3>1
    <3>2. CASE t \in state.timers
      <4>1. /\ t.owner \in Participants /\ t.generation \in Nat
            /\ t.id = state.id[t.owner] /\ state.records[t.owner].phase # "Absent"
            /\ t.generation <= state.records[t.owner].generation
        BY <3>2 DEF PresenceInv, PresenceTyped, PresenceTimers, Bounded
      <4>2. t.owner = p => t.generation <= g
        BY <1>2, <1>11, <3>2, <4>1
      <4> QED BY <1>5, <1>7, <1>9, <4>1, <4>2
    <3> QED BY <1>7, <3>1, <3>2
  <2>2. ASSUME NEW f \in log'.fired
        PROVE  /\ state'.records[f[1]].phase # "Absent"
               /\ f[2] <= state'.records[f[1]].generation
    <3>1. /\ f \in log.fired /\ f[1] \in Participants /\ f[2] \in Nat
          /\ state.records[f[1]].phase # "Absent"
          /\ f[2] <= state.records[f[1]].generation
      BY <1>8 DEF PresenceInv, PresenceTyped, Bounded
    <3>2. f[1] = p => f[2] <= g
      BY <1>2, <1>11, <3>1
    <3> QED BY <1>5, <1>9, <3>1, <3>2
  <2> QED BY <2>1, <2>2 DEF Bounded
<1>13. Named'
  <2>1. \A t \in state.timers : ~(t.id = n.id /\ t.generation = n.generation)
    <3>1. \A t \in state.timers : t.id = state.id[p] => t.generation # g
      BY <1>2, <1>11 DEF PresenceInv, PresenceTyped, PresenceTimers
    <3> QED BY <1>6, <3>1
  <2>2. <<n.owner, n.generation>> \notin log.fired
    <3>1. <<p, g>> \in log.fired => g < g
      BY <1>11
    <3> QED BY <1>2, <1>6, <3>1
  <2> QED BY <1>7, <1>8, <2>1, <2>2 DEF PresenceInv, Named
<1>14. Recorded'
  BY <1>5, <1>7, <1>9 DEF PresenceInv, Recorded
<1>15. Presences!PresenceIsExact'
  <2>1. ASSUME NEW q \in Participants, q # p, state'.records[q].phase # "Absent"
        PROVE  /\ log'.newest[q][3] = state'.records[q].version
               /\ (state'.records[q].phase = "Expired") <=> (<<q, log'.newest[q][2]>> \in log'.fired)
               /\ state'.records[q].phase = "Present" =>
                    Presences!Timer(state'.id[q], state'.records[q].generation, q) \in state'.timers
    BY <1>7, <1>8, <1>9, <2>1 DEF PresenceInv, Presences!PresenceIsExact
  <2>2. /\ log'.newest[p][3] = version /\ log'.newest[p][2] = g
        /\ <<p, g>> \notin log'.fired
    <3>1. <<p, g>> \in log.fired => g < g
      BY <1>11
    <3> QED BY <1>2, <1>8, <1>9, <3>1
  <2>3. Presences!Timer(state'.id[p], state'.records[p].generation, p) \in state'.timers
    BY <1>4, <1>5, <1>7, <1>9
  <2> QED BY <1>5, <1>9, <2>1, <2>2, <2>3 DEF Presences!PresenceIsExact
<1> QED BY <1>10, <1>12, <1>13, <1>14, <1>15 DEF PresenceInv

\* A timer elapses.
LEMMA ElapsedStep ==
    ASSUME PresenceConfigured, PresenceInv, NEW t \in state.timers, Presences!Elapsed(t)
    PROVE  PresenceInv'
<1>0. PICK E \in {{p \in Participants : /\ state.id[p] = t.id
                                        /\ state.records[p].phase = "Present"
                                        /\ state.records[p].generation = t.generation}} :
               /\ state' = [state EXCEPT
                    !.timers = @ \ {t},
                    !.records = [p \in Participants |->
                      IF p \in E THEN [@[p] EXCEPT !.phase = "Expired"] ELSE @[p]]]
               /\ log' = [log EXCEPT !.fired = @ \cup {<<t.owner, t.generation>>}]
  BY Zenon DEF Presences!Elapsed
<1>1. E = {p \in Participants : /\ state.id[p] = t.id
                                /\ state.records[p].phase = "Present"
                                /\ state.records[p].generation = t.generation}
  OBVIOUS
<1>2. /\ state'.id = state.id /\ state'.timers = state.timers \ {t}
      /\ state'.records = [p \in Participants |->
            IF p \in E THEN [state.records[p] EXCEPT !.phase = "Expired"] ELSE state.records[p]]
      /\ state' = [id |-> state'.id, records |-> state'.records, timers |-> state'.timers]
  BY Zenon, <1>0 DEF PresenceInv, PresenceTyped
<1>3. /\ log'.fired = log.fired \cup {<<t.owner, t.generation>>}
      /\ log'.newest = log.newest
      /\ log' = [newest |-> log'.newest, fired |-> log'.fired]
  BY Zenon, <1>0 DEF PresenceInv, PresenceTyped
<1>4. /\ t.owner \in Participants /\ t.generation \in 0..MaxGeneration
      /\ t = Presences!Timer(t.id, t.generation, t.owner)
      /\ t.id = state.id[t.owner] /\ state.records[t.owner].phase # "Absent"
      /\ t.generation <= state.records[t.owner].generation
      /\ <<t.owner, t.generation>> \notin log.fired
  BY DEF PresenceInv, PresenceTyped, PresenceTimers, Presences!Timer, Bounded, Named
<1>5. ASSUME NEW p \in Participants
      PROVE  /\ state'.records[p] \in PresenceRecords
             /\ state'.records[p].generation = state.records[p].generation
             /\ state'.records[p].version = state.records[p].version
             /\ state'.records[p].phase = IF p \in E THEN "Expired" ELSE state.records[p].phase
  <2>1. state.records[p] \in PresenceRecords
    BY DEF PresenceInv, PresenceTyped
  <2>2. state'.records[p] = IF p \in E THEN [state.records[p] EXCEPT !.phase = "Expired"]
                            ELSE state.records[p]
    BY <1>2
  <2> QED BY <2>1, <2>2 DEF PresenceRecords, PresencePhases
<1>6. \A p \in Participants : p \in E => state.records[p].phase = "Present"
  BY <1>1
<1>7. PresenceTyped'
  <2>1. state'.records \in [Participants -> PresenceRecords]
    BY <1>2, <1>5
  <2> QED BY <1>2, <1>3, <1>4, <2>1 DEF PresenceInv, PresenceTyped
<1>8. Bounded'
  <2>1. \A u \in state'.timers : u \in state.timers /\ u.owner \in Participants
    BY <1>2 DEF PresenceInv, PresenceTyped, PresenceTimers
  <2>2. \A f \in log'.fired : f[1] \in Participants /\ (f \in log.fired \/ f = <<t.owner, t.generation>>)
    BY <1>3, <1>4 DEF PresenceInv, PresenceTyped
  <2>3. \A p \in Participants : state.records[p].phase # "Absent" => state'.records[p].phase # "Absent"
    BY <1>5
  <2>4. ASSUME NEW u \in state'.timers
        PROVE  /\ u.id = state'.id[u.owner] /\ state'.records[u.owner].phase # "Absent"
               /\ u.generation <= state'.records[u.owner].generation
    BY <1>2, <1>5, <2>1, <2>3 DEF PresenceInv, Bounded
  <2>5. ASSUME NEW f \in log'.fired
        PROVE  /\ state'.records[f[1]].phase # "Absent"
               /\ f[2] <= state'.records[f[1]].generation
    <3>1. f[1] \in Participants /\ (f \in log.fired \/ f = <<t.owner, t.generation>>)
      BY <2>2
    <3>2. state.records[f[1]].phase # "Absent" /\ f[2] <= state.records[f[1]].generation
      BY <1>4, <3>1 DEF PresenceInv, Bounded
    <3> QED BY <1>5, <2>3, <3>1, <3>2
  <2> QED BY <2>4, <2>5 DEF Bounded
<1>9. Named'
  <2>1. \A u \in state.timers : <<u.owner, u.generation>> = <<t.owner, t.generation>> => u = t
    <3>1. \A u \in state.timers : u.owner = t.owner /\ u.generation = t.generation => u.id = t.id
      BY <1>4 DEF PresenceInv, Bounded
    <3> QED BY <3>1 DEF PresenceInv, Named
  <2> QED BY <1>2, <1>3, <2>1 DEF PresenceInv, Named
<1>10. Recorded'
  BY <1>2, <1>3, <1>5, <1>6 DEF PresenceInv, Recorded
<1>11. Presences!PresenceIsExact'
  <2> SUFFICES ASSUME NEW p \in Participants, state'.records[p].phase # "Absent"
               PROVE  /\ log'.newest[p][3] = state'.records[p].version
                      /\ (state'.records[p].phase = "Expired") <=> (<<p, log'.newest[p][2]>> \in log'.fired)
                      /\ state'.records[p].phase = "Present" =>
                           Presences!Timer(state'.id[p], state'.records[p].generation, p) \in state'.timers
    BY DEF Presences!PresenceIsExact
  <2>1. /\ state.records[p].phase # "Absent"
        /\ log.newest[p][3] = state.records[p].version
        /\ log.newest[p][2] = state.records[p].generation
        /\ (state.records[p].phase = "Expired") <=> (<<p, state.records[p].generation>> \in log.fired)
        /\ state.records[p].phase = "Present" =>
              Presences!Timer(state.id[p], state.records[p].generation, p) \in state.timers
    <3>1. state.records[p].phase # "Absent"
      BY <1>5, <1>6
    <3>2. log.newest[p] = <<state.id[p], state.records[p].generation, state.records[p].version>>
      BY <3>1 DEF PresenceInv, Recorded
    <3> QED BY <3>1, <3>2 DEF PresenceInv, Presences!PresenceIsExact
  <2>2. PICK n : n = Presences!Timer(state.id[p], state.records[p].generation, p)
    OBVIOUS
  <2>3. n.id = state.id[p] /\ n.generation = state.records[p].generation /\ n.owner = p
    BY <2>2 DEF Presences!Timer
  <2>4. CASE p \in E
    <3>1. state.records[p].phase = "Present" /\ state.id[p] = t.id
          /\ state.records[p].generation = t.generation
      BY <1>1, <2>4
    <3>2. n = t
      BY <2>1, <2>2, <2>3, <3>1 DEF PresenceInv, Named
    <3> QED BY <1>3, <1>5, <2>1, <2>3, <2>4, <3>1, <3>2
  <2>5. CASE p \notin E
    <3>1. state'.records[p].phase = state.records[p].phase
      BY <1>5, <2>5
    <3>2. state.records[p].phase = "Present" => n # t
      BY <1>1, <2>3, <2>5
    <3>3. <<p, state.records[p].generation>> \in log'.fired
            <=> <<p, state.records[p].generation>> \in log.fired
      <4>1. SUFFICES ASSUME p = t.owner, state.records[p].generation = t.generation
                     PROVE  FALSE
        BY <1>3
      <4>2. state.records[p].phase # "Present"
        BY <1>1, <1>4, <2>5, <4>1
      <4>3. state.records[p].phase = "Expired"
        BY <2>1, <4>2 DEF PresenceInv, PresenceTyped, PresenceRecords, PresencePhases
      <4> QED BY <1>4, <2>1, <4>1, <4>3
    <3> QED BY <1>2, <1>3, <1>5, <2>1, <2>2, <3>1, <3>2, <3>3
  <2> QED BY <2>4, <2>5
<1> QED BY <1>7, <1>8, <1>9, <1>10, <1>11 DEF PresenceInv

\* For any participants and any sharing of timer ids, a participant expires by
\* the timer of its own newest accepted announcement and by no other.
THEOREM ExpiresByOwnTimer ==
    ASSUME PresenceConfigured
    PROVE  Presences!Spec => []Presences!PresenceIsExact
<1>1. Presences!Init => PresenceInv
  <2> SUFFICES ASSUME Presences!Init PROVE PresenceInv
    OBVIOUS
  <2>1. PICK id \in [Participants -> TimerIds] :
          /\ state = [id |-> id, records |-> [p \in Participants |-> Presences!Nothing], timers |-> {}]
          /\ log = [newest |-> [p \in Participants |-> <<>>], fired |-> {}]
    BY Zenon DEF Presences!Init
  <2>2. Presences!Nothing \in PresenceRecords /\ Presences!Nothing.phase = "Absent"
    BY DEF Presences!Nothing, PresenceRecords, PresencePhases, PresenceConfigured
  <2>3. /\ state.id = id /\ state.records = [p \in Participants |-> Presences!Nothing] /\ state.timers = {}
        /\ log.fired = {} /\ log.newest = [p \in Participants |-> <<>>]
        /\ \A p \in Participants : state.records[p] = Presences!Nothing
    BY <2>1
  <2>4. PresenceTyped
    BY <2>1, <2>2, <2>3 DEF PresenceTyped
  <2>5. Bounded /\ Named /\ Recorded /\ Presences!PresenceIsExact
    BY <2>2, <2>3 DEF Bounded, Named, Recorded, Presences!PresenceIsExact
  <2> QED BY <2>4, <2>5 DEF PresenceInv
<1>2. PresenceInv /\ [Presences!Next]_<<state, log>> => PresenceInv'
  <2> SUFFICES ASSUME PresenceInv, [Presences!Next]_<<state, log>> PROVE PresenceInv'
    OBVIOUS
  <2>1. CASE UNCHANGED <<state, log>>
    BY <2>1 DEF PresenceInv, PresenceTyped, Bounded, Named, Recorded,
                Presences!PresenceIsExact
  <2>2. ASSUME NEW p \in Participants, NEW version \in Versions,
      NEW lifetime \in Lifetimes,
               Presences!Announce(p, version, lifetime)
        PROVE  PresenceInv'
    BY <2>2, IntroduceStep DEF Presences!Announce, Presences!Refresh
  <2>3. ASSUME NEW t \in state.timers, Presences!Elapsed(t) PROVE PresenceInv'
    BY <2>3, ElapsedStep
  <2> QED BY <2>1, <2>2, <2>3 DEF Presences!Next
<1>3. PresenceInv => Presences!PresenceIsExact
  BY DEF PresenceInv
<1> QED BY <1>1, <1>2, <1>3, PTL DEF Presences!Spec
=============================================================================
