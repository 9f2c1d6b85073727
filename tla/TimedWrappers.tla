---------------------------- MODULE TimedWrappers ----------------------------
(***************************************************************************)
(* The four timer wrappers of crates/actors/src/time around one wrapped    *)
(* behavior: OneShot, Periodic, ReceiveTimeout and Deadline, over the      *)
(* TimerLease and OneShotSchedule of domain.rs.  Each owns its ingress, so *)
(* a new schedule may or may not displace the queued one.                  *)
(***************************************************************************)
EXTENDS Timers

VARIABLES
    kind,       \* which wrapper
    inner,      \* the wrapped behavior: "new", "running" or "stopped"
    lease,      \* TimerLease; OneShotSchedule uses NeverIssued, Armed and Idle
    fired,      \* history: how often each generation reached the reaction
    active      \* history: generations armed before the latest user activity

vars == <<kind, inner, lease, fired, active, timerVars>>

Kinds == {"OneShot", "Periodic", "ReceiveTimeout", "Deadline"}

NeverIssued == [at |-> "NeverIssued"]
Armed(g) == [at |-> "Armed", generation |-> g]
Idle(g) == [at |-> "Idle", generation |-> g]

Init ==
    /\ TimersInit
    /\ kind \in Kinds
    /\ inner = "new"
    /\ lease \in IF kind = "Deadline" THEN {NeverIssued, Armed(0)} ELSE {NeverIssued}
    /\ fired = [g \in Generations |-> 0]
    /\ active = {}

-----------------------------------------------------------------------------
(* TimerLease.                                                               *)

\* arm: a fresh generation, or exhaustion.
ArmedNext(l) ==
    CASE l.at = "NeverIssued" -> Armed(0)
      [] l.at = "Exhausted" -> l
      [] OTHER -> IF Successor(l.generation) \in Generations
                  THEN Armed(Successor(l.generation))
                  ELSE [at |-> "Exhausted"]

\* accept: the live generation is consumed.
Accepted(g) == Idle(g)

Accepts(g) == lease = Armed(g)

Disarmed == IF lease.at = "Armed" THEN Idle(lease.generation) ELSE lease

\* An armed generation is scheduled at this wrapper's own ingress.
Scheduled(l) ==
    IF l.at = "Armed" THEN armed' \in {{l.generation}, armed \cup {l.generation}}
    ELSE UNCHANGED armed

-----------------------------------------------------------------------------
(* The wrappers.                                                             *)

\* init: a terminal inner initialization schedules nothing.
Initialize ==
    /\ inner = "new"
    /\ \/ /\ inner' = "stopped"
          /\ lease' = Disarmed
          /\ UNCHANGED armed
       \/ /\ inner' = "running"
          /\ lease' = IF kind = "Deadline" THEN lease ELSE ArmedNext(lease)
          /\ Scheduled(lease')
    /\ UNCHANGED <<kind, fired, active, elapsed>>

\* Slip: a message does not renew the period.
UserEventIdle ==
    /\ inner = "running" /\ inner' = "running"
    /\ active' = {g \in Generations : lease.at \in {"Armed", "Idle"} /\ g <= lease.generation}
    /\ UNCHANGED <<kind, lease, fired, timerVars>>

\* transition on a user communication: only ReceiveTimeout counts it, and only
\* when the inner behavior continues.  An inner error changes no lease.
UserEvent ==
    /\ inner = "running"
    /\ \/ /\ inner' = "stopped"
          /\ lease' = IF kind = "OneShot" THEN lease ELSE Disarmed
          /\ UNCHANGED <<active, armed>>
       \/ /\ inner' = "running"
          /\ active' = {g \in Generations :
                           lease.at \in {"Armed", "Idle"} /\ g <= lease.generation}
          /\ IF kind = "ReceiveTimeout"
             THEN lease' = ArmedNext(lease) /\ Scheduled(lease')
             ELSE UNCHANGED <<lease, armed>>
    /\ UNCHANGED <<kind, fired, elapsed>>

\* transition on any other inner event: never activity.
ServiceEvent ==
    /\ inner = "running"
    /\ inner' = "stopped"
    /\ lease' = IF kind = "OneShot" THEN lease ELSE Disarmed
    /\ UNCHANGED <<kind, fired, active, timerVars>>

\* wrap_and_rearm: only Periodic continues after a reaction.
Rearmed(l) == IF kind = "Periodic" THEN ArmedNext(l) ELSE l

Reaction(g) ==
    /\ fired' = [fired EXCEPT ![g] = @ + 1]
    /\ \/ /\ inner' = "stopped" /\ lease' = Accepted(g) /\ UNCHANGED armed
       \/ /\ inner' = "running" /\ lease' = Rearmed(Accepted(g))
          /\ IF kind = "Periodic" THEN Scheduled(lease') ELSE UNCHANGED armed

Elapsed(g) ==
    /\ inner = "running"
    /\ Deliver(g)
    /\ IF Accepts(g) THEN Reaction(g) ELSE UNCHANGED <<inner, lease, fired, armed>>
    /\ UNCHANGED <<kind, active>>

Clock == Elapse /\ UNCHANGED <<kind, inner, lease, fired, active>>

Next ==
    \/ Initialize \/ UserEvent \/ ServiceEvent \/ Clock
    \/ \E g \in elapsed : Elapsed(g)

Spec == Init /\ [][Next]_vars

-----------------------------------------------------------------------------
(* Properties.                                                               *)

\* A generation reaches the reaction once, however often its notification is
\* delivered, and the wrappers that never re-arm react once in all.
ReactsOnce ==
    /\ \A g \in Generations : fired[g] <= 1
    /\ kind \in {"OneShot", "Deadline"} => \A g \in Generations \ {0} : fired[g] = 0
=============================================================================
