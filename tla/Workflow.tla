------------------------------ MODULE Workflow ------------------------------
(***************************************************************************)
(* The dependency-ordered workflow (crates/actors/src/workflow/            *)
(* coordinator.rs): a validated definition of steps and (required,         *)
(* dependent) pairs, one run of it, completions and failures reported in   *)
(* any order, and cancellation.                                            *)
(***************************************************************************)
EXTENDS Integers, Sequences, SequencesExt, FiniteSetsExt

CONSTANTS
  Steps,          \* the steps, in definition order
  Dependencies    \* the pairs a definition is drawn from

VARIABLES
  state,  \* [dependencies, phase, steps, route]
  log     \* [completed : order of accepted completions, ended : terminal replies]

Required(dependencies, step) == {d[1] : d \in {e \in dependencies : e[2] = step}}

\* One pass over the steps reaches those whose prerequisites were reached;
\* validate repeats it until all are reached or a pass reaches nothing.
Reached(dependencies) ==
  LET Visit(reached, step) ==
        IF ~Contains(reached, step) /\ Required(dependencies, step) \subseteq Range(reached)
        THEN Append(reached, step) ELSE reached
      Pass(reached, n) == FoldLeft(Visit, reached, Steps)
  IN FoldLeft(Pass, <<>>, [n \in DOMAIN Steps |-> n])

Validate(dependencies) ==
  /\ Steps # <<>> /\ IsInjective(Steps)
  /\ \A d \in dependencies : d[1] \in Range(Steps) /\ d[2] \in Range(Steps) /\ d[1] # d[2]
  /\ Len(Reached(dependencies)) = Len(Steps)

Init ==
  \E dependencies \in SUBSET Dependencies :
    /\ Validate(dependencies)
    /\ state = [dependencies |-> dependencies, phase |-> "Ready",
                steps |-> [s \in Range(Steps) |-> "Blocked"], route |-> "none"]
    /\ log = [completed |-> <<>>, ended |-> <<>>]

Terminal == {"Succeeded", "Failed", "Cancelled"}

Ends(phase, route) ==
  log' = [log EXCEPT !.ended = Append(@, <<phase, route>>)]

\* A second Start is answered AlreadyStarted on its own route.
Start(route) ==
  /\ state.phase = "Ready"
  /\ state' = [state EXCEPT
       !.phase = "Running", !.route = route,
       !.steps = [s \in DOMAIN @ |->
         IF Required(state.dependencies, s) = {} THEN "Active" ELSE "Blocked"]]
  /\ UNCHANGED log

\* Mutant: a step is activated as soon as one of its prerequisites completed.
ActivatedEarly(steps, dependencies) ==
  [s \in DOMAIN steps |->
     IF /\ steps[s] = "Blocked"
        /\ \E r \in Required(dependencies, s) : steps[r] = "Completed"
     THEN "Active" ELSE steps[s]]

\* The blocked steps all of whose prerequisites are complete become active.
Activated(steps, dependencies) ==
  [s \in DOMAIN steps |->
     IF /\ steps[s] = "Blocked"
        /\ \A r \in Required(dependencies, s) : steps[r] = "Completed"
     THEN "Active" ELSE steps[s]]

\* Only an active step of a running workflow completes or fails.
Complete(step) ==
  /\ state.phase = "Running" /\ state.steps[step] = "Active"
  /\ \E steps \in {[state.steps EXCEPT ![step] = "Completed"]} :
       IF \A s \in DOMAIN steps : steps[s] = "Completed"
       THEN /\ state' = [state EXCEPT !.phase = "Succeeded", !.steps = steps]
            /\ log' = [log EXCEPT !.completed = Append(@, step),
                                  !.ended = Append(@, <<"Succeeded", state.route>>)]
       ELSE /\ state' = [state EXCEPT !.steps = Activated(steps, state.dependencies)]
            /\ log' = [log EXCEPT !.completed = Append(@, step)]

Fail(step) ==
  /\ state.phase = "Running" /\ state.steps[step] = "Active"
  /\ state' = [state EXCEPT !.phase = "Failed"]
  /\ Ends("Failed", state.route)

\* Cancellation answers, and keeps, the canceller's route.
Cancel(route) ==
  /\ state.phase \in {"Ready", "Running"}
  /\ state' = [state EXCEPT !.phase = "Cancelled", !.route = route]
  /\ Ends("Cancelled", route)

Next ==
  \/ \E route \in {"p", "q"} : Start(route) \/ Cancel(route)
  \/ \E step \in Range(Steps) : Complete(step) \/ Fail(step)

Spec == Init /\ [][Next]_<<state, log>>

-----------------------------------------------------------------------------
(* Property *)

\* Whatever graph the definition passed validation with: completions respect
\* the dependencies; in a running workflow a step waits only for prerequisites
\* that are still open, and some step is active, so no accepted definition can
\* leave a run waiting with nothing to do; and a run ends once.
DependenciesOrderSteps ==
  /\ \A d \in state.dependencies, i \in DOMAIN log.completed :
       log.completed[i] = d[2] => \E j \in 1..(i - 1) : log.completed[j] = d[1]
  /\ state.phase = "Running" =>
       /\ \E s \in DOMAIN state.steps : state.steps[s] = "Active"
       /\ \A s \in DOMAIN state.steps :
            (state.steps[s] = "Blocked") <=>
              (Required(state.dependencies, s) \ Range(log.completed) # {})
  /\ Len(log.ended) = (IF state.phase \in Terminal THEN 1 ELSE 0)
  /\ state.phase = "Succeeded" => Range(log.completed) = Range(Steps)
=============================================================================
