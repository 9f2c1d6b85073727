---------------------------- MODULE Termination ----------------------------
(***************************************************************************)
(* The wrappers that react to the termination of another actor: the monitor *)
(* of an exact incarnation, with its cancellation; the monitor of a logical *)
(* name; terminal propagation; and the recurring watch.  A behavior has one *)
(* wrapper and one peer.  The reports of the runtime may overtake each      *)
(* other, except that no stop is reported before the observation started.   *)
(***************************************************************************)
EXTENDS Naturals, FiniteSets

CONSTANT MaxStops      \* incarnations of a logical name that stop

VARIABLES state, log

vars == <<state, log>>

Fact(name) == <<name, "None", 0>>

Outcomes == {"Normal", "Abnormal"}

\* propagate_all, propagate_abnormal and stop_on_abnormal_death.
Policies == {"All", "Abnormal"}

Propagates(policy, outcome) == policy = "All" \/ outcome = "Abnormal"

\* request_once: the request is issued by initialization.
Init ==
  /\ \/ \E kind \in {"Established", "Logical"} :
          state = [kind |-> kind, policy |-> "All", mail |-> {}, stopped |-> FALSE,
                   observation |-> IF kind = "Logical" THEN "Observing" ELSE "Requested",
                   relation |-> IF kind = "Logical" THEN "Live" ELSE "Asked"]
     \/ \E kind \in {"Propagation", "Watch"}, policy \in Policies :
          state = [kind |-> kind, policy |-> policy, mail |-> {}, stopped |-> FALSE,
                   observation |-> "Observing", relation |-> "Live"]
  /\ log = [stops |-> 0, reacted |-> 0]

-----------------------------------------------------------------------------
(* The runtime.                                                             *)

\* The observation starts, or its id is taken.
Observe ==
  /\ state.relation = "Asked"
  /\ \/ state' = [state EXCEPT !.relation = "Starting", !.mail = @ \cup {Fact("Started")}]
     \/ state' = [state EXCEPT !.relation = "None", !.mail = @ \cup {Fact("ObserveRejected")}]
  /\ UNCHANGED log

\* The peer stops; a logical name may denote another incarnation afterwards.
PeerStops(outcome) ==
  /\ state.relation = "Live" /\ log.stops < MaxStops
  /\ state' = [state EXCEPT !.mail = @ \cup {<<"Stopped", outcome, log.stops>>},
                            !.relation = IF state.kind = "Established" THEN "Ended" ELSE @]
  /\ log' = [log EXCEPT !.stops = @ + 1]

\* The cancellation reaches the runtime before the stop, or after it.
CancelArrives ==
  /\ Fact("Cancel") \in state.mail
  /\ state' = [state EXCEPT
       !.mail = (@ \ {Fact("Cancel")}) \cup
         {Fact(IF state.relation = "Live" THEN "Cancelled" ELSE "CancelRejected")},
       !.relation = IF @ = "Live" THEN "None" ELSE @]
  /\ UNCHANGED log

-----------------------------------------------------------------------------
(* The exact monitor.                                                       *)

Report(message) == message \in state.mail /\ state.kind = "Established"

Becomes(message, observation) ==
  state' = [state EXCEPT !.mail = @ \ {message}, !.observation = observation]

Refused(message) == state' = [state EXCEPT !.mail = @ \ {message}]

AcceptStarted ==
  /\ Report(Fact("Started"))
  /\ IF state.observation = "Requested"
     THEN state' = [state EXCEPT !.mail = @ \ {Fact("Started")}, !.observation = "Observing",
                                 !.relation = "Live"]
     ELSE Refused(Fact("Started"))
  /\ UNCHANGED log

AcceptObserveRejected ==
  /\ Report(Fact("ObserveRejected"))
  /\ IF state.observation = "Requested"
     THEN Becomes(Fact("ObserveRejected"), "ObserveRejected") ELSE Refused(Fact("ObserveRejected"))
  /\ UNCHANGED log

TakeCancellation ==
  /\ state.kind = "Established" /\ state.observation = "Observing"
  /\ state' = [state EXCEPT !.observation = "CancelPending", !.mail = @ \cup {Fact("Cancel")}]
  /\ UNCHANGED log

AcceptCancelRejected ==
  /\ Report(Fact("CancelRejected"))
  /\ CASE state.observation = "CancelPending" ->
            Becomes(Fact("CancelRejected"), "CancelRejectedWaiting")
       [] state.observation = "StoppedAwaitingCancel" ->
            Becomes(Fact("CancelRejected"), "StoppedWithCancelRejected")
       [] OTHER -> Refused(Fact("CancelRejected"))
  /\ UNCHANGED log

AcceptCancelled ==
  /\ Report(Fact("Cancelled"))
  /\ IF state.observation = "CancelPending"
     THEN Becomes(Fact("Cancelled"), "Cancelled") ELSE Refused(Fact("Cancelled"))
  /\ UNCHANGED log

\* Mutant: a stop closes the cancellation that is still being answered.
AfterStopForgetful(observation) ==
  CASE observation \in {"Observing", "CancelPending"} -> "Stopped"
    [] OTHER -> "Refused"

\* Every stop is reacted to in a state that still owns the open cancellation.
AfterStop(observation) ==
  CASE observation = "Observing" -> "Stopped"
    [] observation = "CancelPending" -> "StoppedAwaitingCancel"
    [] observation = "CancelRejectedWaiting" -> "StoppedWithCancelRejected"
    [] OTHER -> "Refused"

Stops == {m \in state.mail : m[1] = "Stopped"}

AcceptStopped(message) ==
  /\ Report(message)
  /\ IF AfterStop(state.observation) = "Refused"
     THEN Refused(message) /\ UNCHANGED log
     ELSE /\ Becomes(message, AfterStop(state.observation))
          /\ log' = [log EXCEPT !.reacted = @ + 1]

-----------------------------------------------------------------------------
(* The wrappers of a logical name.                                          *)

\* LogicalTermination: the first report is reacted to, later ones are refused.
ReactLogical(message) ==
  /\ message \in state.mail /\ state.kind = "Logical"
  /\ IF state.observation = "Observing"
     THEN Becomes(message, "Observed") /\ log' = [log EXCEPT !.reacted = @ + 1]
     ELSE Refused(message) /\ UNCHANGED log

\* Discharged or propagated once; propagation stops this actor.
Propagate(message) ==
  /\ message \in state.mail /\ state.kind = "Propagation" /\ ~state.stopped
  /\ CASE state.observation # "Observing" ->
            Refused(message) /\ UNCHANGED log
       [] state.observation = "Observing" /\ ~Propagates(state.policy, message[2]) ->
            /\ Becomes(message, "Discharged")
            /\ log' = [log EXCEPT !.reacted = @ + 1]
       [] OTHER ->
            /\ state' = [state EXCEPT !.mail = @ \ {message},
                           !.observation = "Propagated", !.stopped = TRUE]
            /\ log' = [log EXCEPT !.reacted = @ + 1]

\* The watch stays: every matching report is reacted to.
Watch(message) ==
  /\ message \in state.mail /\ state.kind = "Watch" /\ ~state.stopped
  /\ state' = [state EXCEPT !.mail = @ \ {message},
                            !.stopped = Propagates(state.policy, message[2])]
  /\ log' = [log EXCEPT !.reacted = @ + 1]

Next ==
  \/ Observe \/ CancelArrives
  \/ \E outcome \in Outcomes : PeerStops(outcome)
  \/ AcceptStarted \/ AcceptObserveRejected \/ TakeCancellation
  \/ AcceptCancelRejected \/ AcceptCancelled
  \/ \E m \in Stops : AcceptStopped(m) \/ ReactLogical(m) \/ Propagate(m) \/ Watch(m)

Spec == Init /\ [][Next]_vars

\* However a stop, a cancellation and their answers overtake each other: an
\* exact monitor reacts to a stop once, never to one it cancelled in time, and
\* once everything has arrived it has settled, with a rejected cancellation
\* still in its hands; a logical monitor and a propagation react to the first
\* stop only, and a watch to each one until it stops itself.
StopReactedOnce ==
  /\ state.kind # "Watch" => log.reacted <= 1
  /\ state.kind = "Established" =>
       /\ state.observation = "Cancelled" => log.reacted = 0
       /\ state.mail = {} =>
            /\ log.reacted = log.stops
            /\ state.observation \notin
                 {"CancelPending", "CancelRejectedWaiting", "StoppedAwaitingCancel"}
            /\ state.relation = "Ended" <=>
                 state.observation \in {"Stopped", "StoppedWithCancelRejected"}
  /\ state.kind \in {"Logical", "Propagation"} /\ state.mail = {} /\ log.stops > 0 =>
       log.reacted = 1
  /\ state.kind = "Watch" /\ ~state.stopped => log.reacted = log.stops - Cardinality(state.mail)
=============================================================================
