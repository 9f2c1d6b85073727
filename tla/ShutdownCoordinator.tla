------------------------ MODULE ShutdownCoordinator ------------------------
(***************************************************************************)
(* An ordered shutdown: a plan of phases, derived from a dependency tree or *)
(* collected from the children an actor creates at initialization, and the  *)
(* coordinator that asks one phase at a time to stop.  Stops, rejections    *)
(* and the collected plan travel as messages and arrive in any order.       *)
(***************************************************************************)
EXTENDS Naturals, FiniteSets, Sequences, SequencesExt

CONSTANT Children

VARIABLES state, log

vars == <<state, log>>

\* ShutdownTree::new: a phase is what no remaining child depends on.  An empty
\* phase stands for the Cycle error.
Phases(edges) ==
  LET Layer[remaining \in SUBSET Children] ==
        LET phase == {c \in remaining : ~\E e \in edges : e[2] = c /\ e[1] \in remaining}
        IN IF remaining = {} THEN <<>>
           ELSE IF phase = {} THEN <<{}>> ELSE <<phase>> \o Layer[remaining \ phase]
  IN Layer[Children]

Cycle(plan) == {} \in ToSet(plan)

\* BuildShutdownPlan: one child per phase, in the declared order of the roles.
RolePlan(roles) == [i \in DOMAIN roles |-> {roles[i]}]

RoleEdges(roles) ==
  {<<roles[p[1]], roles[p[2]]>> :
     p \in {q \in (DOMAIN roles) \X (DOMAIN roles) : q[1] < q[2]}}

Machine(name, plan) == [name |-> name, plan |-> plan, phase |-> 0, awaiting |-> {}]

\* A coordinator over an installed plan, or behind a planner that observes the
\* creations of its children.
Init ==
  /\ \/ \E edges \in SUBSET (Children \X Children) :
          /\ ~Cycle(Phases(edges))
          /\ state = [edges |-> edges, planning |-> "Reported",
                      kids |-> [c \in Children |-> "Running"], mail |-> {},
                      coordinator |-> Machine("Ready", Phases(edges))]
     \/ \E roles \in SetToSeqs(Children) :
          state = [edges |-> RoleEdges(roles), planning |-> roles,
                   kids |-> [c \in Children |-> "Creating"], mail |-> {},
                   coordinator |-> Machine("AwaitingPlan", <<>>)]
  /\ log = [asked |-> <<>>, early |-> {}, requested |-> FALSE]

Gone == {c \in Children : state.kids[c] = "Gone"}

\* phase_actions: one ShutdownChild per child of the phase.  The runtime
\* rejects the one for a child that is gone.
Ask(s, children) ==
  /\ state' = [s EXCEPT
       !.kids = [c \in Children |-> IF c \in children /\ @[c] = "Running" THEN "Asked" ELSE @[c]],
       !.mail = @ \cup ({"Rejected"} \X (children \cap Gone))]
  /\ log' = [log EXCEPT
       !.asked = @ \o SetToSeq({[child |-> c, gone |-> Gone] : c \in children}),
       !.requested = TRUE]

\* StartPhase of the first phase, or the stop of an empty plan.
StartPlan(s, plan) ==
  IF plan = <<>>
  THEN /\ state' = [s EXCEPT !.coordinator = Machine("Completed", plan)]
       /\ log' = [log EXCEPT !.requested = TRUE]
  ELSE Ask([s EXCEPT !.coordinator = [name |-> "Stopping", plan |-> plan, phase |-> 1,
                                      awaiting |-> plan[1]]], plan[1])

InstallPlan ==
  /\ <<"Plan">> \in state.mail
  /\ LET s == [state EXCEPT !.mail = @ \ {<<"Plan">>}]
         plan == RolePlan(state.planning)
     IN \/ /\ state.coordinator.name = "AwaitingPlan"
           /\ state' = [s EXCEPT !.coordinator = Machine("Ready", plan)]
           /\ UNCHANGED log
        \/ /\ state.coordinator.name = "AwaitingPlanAfterShutdown"
           /\ StartPlan(s, plan)

\* A repeated request changes nothing.
RequestShutdown ==
  \/ /\ state.coordinator.name = "AwaitingPlan"
     /\ state' = [state EXCEPT !.coordinator.name = "AwaitingPlanAfterShutdown"]
     /\ log' = [log EXCEPT !.requested = TRUE]
  \/ /\ state.coordinator.name = "Ready"
     /\ StartPlan(state, state.coordinator.plan)

\* child_stopped: the last awaited child of a phase starts the next one.
Advance(s, c) ==
  LET k == s.coordinator
      left == k.awaiting \ {c}
  IN CASE left # {} ->
            /\ state' = [s EXCEPT !.coordinator.awaiting = left]
            /\ UNCHANGED log
       [] left = {} /\ k.phase = Len(k.plan) ->
            /\ state' = [s EXCEPT !.coordinator = Machine("Completed", k.plan)]
            /\ UNCHANGED log
       [] OTHER ->
            Ask([s EXCEPT !.coordinator.phase = @ + 1,
                          !.coordinator.awaiting = k.plan[k.phase + 1]],
                k.plan[k.phase + 1])

\* A stop that is not awaited is an error that changes nothing.
ChildStopped(c) ==
  /\ <<"Stopped", c>> \in state.mail
  /\ LET s == [state EXCEPT !.mail = @ \ {<<"Stopped", c>>}]
     IN IF c \in state.coordinator.awaiting
        THEN Advance(s, c)
        ELSE /\ state' = s
             /\ log' = [log EXCEPT !.early = @ \cup {c}]

\* Awaited or not, a rejection is an error that changes nothing.
ChildRejected(c) ==
  /\ <<"Rejected", c>> \in state.mail
  /\ state' = [state EXCEPT !.mail = @ \ {<<"Rejected", c>>}]
  /\ UNCHANGED log

\* creation_resolved: the last established child builds and reports the plan; a
\* rejected creation is an error and leaves the child awaited for ever.
CreationResolved(c) ==
  /\ state.kids[c] = "Creating"
  /\ \/ LET established == {d \in Children : state.kids[d] # "Creating"} \cup {c}
        IN state' = [state EXCEPT !.kids[c] = "Running",
             !.mail = IF established = Children /\ ~\E d \in Children : state.kids[d] = "Rejected"
                      THEN @ \cup {<<"Plan">>} ELSE @]
     \/ state' = [state EXCEPT !.kids[c] = "Rejected"]
  /\ UNCHANGED log

\* A child asked to stop does (StopOnShutdown, FinalizeOnShutdown)...
StopOnShutdown(c) ==
  /\ state.kids[c] = "Asked"
  /\ state' = [state EXCEPT !.kids[c] = "Gone", !.mail = @ \cup {<<"Stopped", c>>}]
  /\ UNCHANGED log

\* ...and a child may stop of itself at any time.
StopsOfItself(c) ==
  /\ state.kids[c] = "Running"
  /\ state' = [state EXCEPT !.kids[c] = "Gone", !.mail = @ \cup {<<"Stopped", c>>}]
  /\ UNCHANGED log

\* Behavior(inner): the wrapped behavior's actions pass through, its own stop
\* included, which ends the coordinator wherever its plan is.
BehaviorStops ==
  /\ state' = [state EXCEPT !.coordinator = Machine("Left", <<>>)]
  /\ UNCHANGED log

Next ==
  /\ state.coordinator.name \notin {"Completed", "Left"}
  /\ \/ InstallPlan \/ RequestShutdown \/ BehaviorStops
     \/ \E c \in Children :
          ChildStopped(c) \/ ChildRejected(c) \/ CreationResolved(c)
            \/ StopOnShutdown(c) \/ StopsOfItself(c)

Spec == Init /\ [][Next]_vars

\* A child is asked to stop once, and only when every child that depends on it
\* is gone; the plan ends only when every child is; and once asked to shut down,
\* before or after its plan exists, the coordinator does stop when nothing is on
\* its way, unless a child stopped before its phase (the code refuses that
\* report and awaits it again) or was never created (shutdown_coordinator.rs).
\* Only the wrapped behavior's own stop ends it with children left.
ShutdownInPhases ==
  /\ \A i, j \in DOMAIN log.asked :
       i # j => log.asked[i].child # log.asked[j].child
  /\ \A i \in DOMAIN log.asked : \A e \in state.edges :
       e[2] = log.asked[i].child => e[1] \in log.asked[i].gone
  /\ state.coordinator.name = "Completed" => Gone = Children
  /\ \/ state.coordinator.name \in {"Completed", "Left"} \/ ~log.requested
     \/ state.mail # {} \/ log.early # {}
     \/ \E c \in Children : state.kids[c] \in {"Creating", "Asked", "Rejected"}
=============================================================================
