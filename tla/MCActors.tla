------------------------------- MODULE MCActors -------------------------------
(***************************************************************************)
(* The small actors, and the interpretation of a turn's actions.  They     *)
(* share nothing: a behavior is the behavior of one of them, chosen at the *)
(* start, and they take turns in using the same cells.                     *)
(***************************************************************************)
EXTENDS Timers, Integers, Sequences, ActionItems

VARIABLES
    actor,                      \* whose behavior this is
    state, log, c3, c4, c5, c6  \* its variables

cells == <<actor, state, log, c3, c4, c5, c6, armed, elapsed>>

-----------------------------------------------------------------------------
(* The timed actors.                                                         *)

Holders == {"a", "b"}
L == INSTANCE Lease WITH lease <- state, grants <- log, due <- c3, released <- c4,
        expired <- c5
T == INSTANCE TimedWrappers WITH kind <- state, inner <- log, lease <- c3, fired <- c4,
        active <- c5
B == INSTANCE CircuitBreaker WITH MaxGeneration <- 2, Threshold <- 2, MaxAttempt <- 8,
        phase <- state, next <- log, inFlight <- c3, settled <- c4, failed <- c5, opening <- c6

-----------------------------------------------------------------------------
(* Routing.                                                                  *)

Queue == INSTANCE WorkQueue WITH Capacity <- 2, Workers <- {"v", "w"}, MaxJobs <- 6,
        available <- state, waiting <- log, submitted <- c3, assigned <- c4,
        rejected <- c5, owed <- c6
Rendezvous == INSTANCE WorkQueue WITH Capacity <- 0, Workers <- {"v", "w"}, MaxJobs <- 6,
        available <- state, waiting <- log, submitted <- c3, assigned <- c4,
        rejected <- c5, owed <- c6
Seq1 == INSTANCE Sequencer WITH First <- 1, MaxSequence <- 5, Values <- {"a", "b"},
        expected <- state, pending <- log, delivered <- c3, accepted <- c4
Dedup == INSTANCE Deduplicator WITH Capacity <- 2, Keys <- {"k", "l", "m", "n"},
        MaxDeliveries <- 6, retained <- state

\* Two items of every key.
KeyOf(item) == item[1]

Gate == INSTANCE OrderGate WITH Keys <- 1..3, Items <- (1..3) \X {"first", "second"},
        watermark <- state, held <- log, sent <- c3, refused <- c4, delivered <- c5
Buf == INSTANCE Buffer WITH Capacity <- 2, MaxOffers <- 6,
        overflow <- state, queued <- log, offered <- c3, released <- c4, returned <- c5
Heap == INSTANCE PriorityQueue WITH Capacity <- 3, MaxOrder <- 4, Priorities <- {1, 2},
        next <- state, queued <- log, accepted <- c3, released <- c4

\* A mixing of two numbers in which points collide and go round.
Mixed(left, right) == (3 * left + 2 * right) % 7

Rout == INSTANCE Router WITH Routes <- {"x", "y", "z"}, Keys <- {0, 3, 5},
        Versions <- {1, 2}, Values <- {1, 2}, Replicas <- 2
Req == INSTANCE Requests WITH Keys <- {"k", "l"}, Routes <- {"p", "q"},
        Participants <- {"a", "b"}
Res == INSTANCE Resources WITH Capacity <- 2, Tokens <- {1, 2, 3},
        Keys <- {"k", "l", "m", "n"}, MaxHistory <- 5

-----------------------------------------------------------------------------
(* Discovery, operations, workflow, lifecycle.                               *)

Pres == INSTANCE Presence WITH Participants <- {"x", "y"}, Versions <- 1..3,
        Lifetimes <- {1, 2}, TimerIds <- {1, 2}, MaxGeneration <- 3
Disc == INSTANCE Discovery WITH Topics <- {"t", "u"}, Routes <- {"x", "y"}, MaxHistory <- 5
Ops == INSTANCE Operations WITH Components <- {"x", "y"}, Dependencies <- {"x"},
        Versions <- 1..3
Flow == INSTANCE Workflow WITH Steps <- <<1, 2, 3, 4>>,
        Dependencies <- {<<1, 1>>} \cup {d \in (1..4) \X (1..4) : d[1] # d[2]}
Bar == INSTANCE Barrier WITH Members <- {"x", "y", "z"}, MaxGeneration <- 2,
        Counts <- {0, 1, 3}, MaxArrivals <- 5
Shut == INSTANCE ShutdownCoordinator WITH Children <- {"a", "b", "c"}
Term == INSTANCE Termination WITH MaxStops <- 3

\* Phase functions in which one kind may be deferred anywhere, one may move on
\* and one always does.
Follows == [p |-> "q", q |-> "r", r |-> "p"]
Tables ==
    {[phase \in {"p", "q", "r"} |->
        [a |-> first[phase],
         b |-> IF second[phase] = "Goto" THEN Follows[phase] ELSE second[phase],
         c |-> Follows[phase]]] :
       first \in [{"p", "q", "r"} -> {"Defer", "Stay", "Fail"}],
       second \in [{"p", "q", "r"} -> {"Defer", "Goto", "Stop"}]}

Mach == INSTANCE Machine WITH MaxMessages <- 3
Sta == INSTANCE Stash WITH Limit <- 2, MaxMessages <- 4

-----------------------------------------------------------------------------
(* Interpretation: turns that between them return every kind of lane and of  *)
(* item; After(item, n) is blocked by the n-th row of the birth lane.        *)

Item(item) == [item |-> item, creation |-> 0]
After(item, row) == [item |-> item, creation |-> row]
Batch(n) == <<Item(Creations)>> \o [i \in 1..n |-> Item(RoutedCreation)]

Shapes == {
    <<<<"Births", Batch(2)>>,
      <<"Vec", <<After(ObserveChild, 2), Item(Delivery)>>>>,
      <<"SourceActions", <<After(ObserveCreation, 3), Item(ScheduleAfter)>>>>,
      <<"InterpreterRequests", <<After(ShutdownChild, 3)>>>>>>,
    <<<<"RetirementBirths", Batch(1)>>,
      <<"ReplyDeliveries", <<Item(Delivery), Item(EstablishedDelivery)>>>>,
      <<"Vec", <<Item(DiagnosticAction), Item(DiagnosticAction)>>>>,
      <<"HeterogeneousShutdownSends", <<Item(ShutdownChild), Item(ShutdownChild)>>>>>>,
    <<<<"NoBirths", <<>>>>,
      <<"SourceActions", <<Item(AssignWorker), Item(PrepareWorkers), Item(ProxyOperation)>>>>,
      <<"NoSends", <<>>>>,
      <<"SourceActions", <<Item(ScheduleAt), Item(StartWorker)>>>>>>,
    <<<<"Births", Batch(1)>>,
      <<"Vec", <<After(ChildDelivery, 2), After(ChildInput, 2)>>>>,
      <<"InterpreterRequests", <<After(ObserveEstablishedCreation, 2), Item(ObservePeer)>>>>,
      <<"Vec", <<Item(ReportToParent), Item(CustomerDelivery)>>>>>>,
    <<<<"Births", Batch(0)>>,
      <<"SourceActions", <<Item(InitializeWorker), Item(CancelObservation)>>>>,
      <<"Vec", <<Item(ReportShutdownPlan)>>>>,
      <<"InterpreterRequests",
        <<Item(ObserveEstablished), Item(ShutdownEstablished), Item(ReportTerminalOutcome)>>>>>> }

Turns == INSTANCE Interpretation
Kids == INSTANCE Children WITH MaxChildren <- 3, MaxId <- 5

-----------------------------------------------------------------------------

ActorsInit ==
    \/ actor = "Lease" /\ L!Init /\ c6 = "unused"
    \/ actor = "TimedWrappers" /\ T!Init /\ c6 = "unused"
    \/ actor = "CircuitBreaker" /\ B!Init
    \/ /\ TimersInit
       /\ \/ actor = "WorkQueue" /\ Queue!Init
          \/ actor = "Rendezvous" /\ Rendezvous!Init
          \/ actor = "Sequencer" /\ Seq1!Init /\ c5 = "unused" /\ c6 = "unused"
          \/ actor = "OrderGate" /\ Gate!Init /\ c6 = "unused"
          \/ actor = "Buffer" /\ Buf!Init /\ c6 = "unused"
          \/ actor = "PriorityQueue" /\ Heap!Init /\ c5 = "unused" /\ c6 = "unused"
          \/ /\ c3 = "unused" /\ c4 = "unused" /\ c5 = "unused" /\ c6 = "unused"
             /\ \/ actor = "Deduplicator" /\ Dedup!Init
                \/ actor = "Router" /\ Rout!Init
                \/ actor = "Requests" /\ Req!Init
                \/ actor = "Resources" /\ Res!Init
                \/ actor = "Presence" /\ Pres!Init
                \/ actor = "Discovery" /\ Disc!Init
                \/ actor = "Operations" /\ Ops!Init
                \/ actor = "Workflow" /\ Flow!Init
                \/ actor = "Barrier" /\ Bar!Init
                \/ actor = "ShutdownCoordinator" /\ Shut!Init
                \/ actor = "Termination" /\ Term!Init
                \/ actor = "Machine" /\ Mach!Init
                \/ actor = "Stash" /\ Sta!Init
                \/ actor = "Interpretation" /\ Turns!Init
                \/ actor = "Children" /\ Kids!Init

ActorsNext ==
    /\ UNCHANGED actor
    /\ \/ actor = "Lease" /\ L!Next /\ UNCHANGED c6
       \/ actor = "TimedWrappers" /\ T!Next /\ UNCHANGED c6
       \/ actor = "CircuitBreaker" /\ B!Next
       \/ /\ UNCHANGED timerVars
          /\ \/ actor = "WorkQueue" /\ Queue!Next
             \/ actor = "Rendezvous" /\ Rendezvous!Next
             \/ actor = "Sequencer" /\ Seq1!Next /\ UNCHANGED <<c5, c6>>
             \/ actor = "OrderGate" /\ Gate!Next /\ UNCHANGED c6
             \/ actor = "Buffer" /\ Buf!Next /\ UNCHANGED c6
             \/ actor = "PriorityQueue" /\ Heap!Next /\ UNCHANGED <<c5, c6>>
             \/ /\ UNCHANGED <<c3, c4, c5, c6>>
                /\ \/ actor = "Deduplicator" /\ Dedup!Next
                   \/ actor = "Router" /\ Rout!Next
                   \/ actor = "Requests" /\ Req!Next
                   \/ actor = "Resources" /\ Res!Next
                   \/ actor = "Presence" /\ Pres!Next
                   \/ actor = "Discovery" /\ Disc!Next
                   \/ actor = "Operations" /\ Ops!Next
                   \/ actor = "Workflow" /\ Flow!Next
                   \/ actor = "Barrier" /\ Bar!Next
                   \/ actor = "ShutdownCoordinator" /\ Shut!Next
                   \/ actor = "Termination" /\ Term!Next
                   \/ actor = "Machine" /\ Mach!Next
                   \/ actor = "Stash" /\ Sta!Next
                   \/ actor = "Interpretation" /\ Turns!Next
                   \/ actor = "Children" /\ Kids!Next

ActorsSpec == ActorsInit /\ [][ActorsNext]_cells

\* The clock advances and a running actor is handed its notifications; nothing
\* is assumed of those who use an actor.
FairActorsSpec ==
    /\ ActorsSpec
    /\ WF_cells(actor = "Lease" /\ L!Clock /\ UNCHANGED <<actor, c6>>)
    /\ WF_cells(actor = "CircuitBreaker" /\ B!Clock /\ UNCHANGED actor)
    /\ \A g \in Generations :
         /\ WF_cells(actor = "Lease" /\ L!Elapsed(g) /\ UNCHANGED <<actor, c6>>)
         /\ WF_cells(actor = "CircuitBreaker" /\ B!Elapsed(g) /\ UNCHANGED actor)
         /\ WF_cells(/\ actor = "TimedWrappers" /\ T!Clock
                     /\ g \in armed /\ g \notin armed' /\ UNCHANGED <<actor, c6>>)
         /\ WF_cells(actor = "TimedWrappers" /\ T!Elapsed(g) /\ UNCHANGED <<actor, c6>>)

-----------------------------------------------------------------------------
(* The timed actors' properties.                                             *)

\* Lease: a generation fences; no two grants share one, and the current hold is
\* the newest grant ever made.
TokensFence == actor = "Lease" => L!TokensFence

\* Late or repeated timer evidence changes nothing it is not about: a lease
\* expires only after its own interval and ends once, a wrapper reacts once to
\* a generation, and a breaker is closed exactly while fewer than the threshold of
\* operations in a row failed and offers a probe only after the whole reset
\* interval, unless a notification of an earlier outage with the same generation
\* is still to come (circuit_breaker.rs starts every outage at generation 0).
EvidenceIsFresh ==
    /\ actor = "Lease" => L!NoEarlyExpiry /\ L!EndsOnce
    /\ actor = "TimedWrappers" => T!ReactsOnce
    /\ actor = "CircuitBreaker" => B!OpensAtThreshold /\ B!WholeResetInterval

\* Receive timeout: what it reports is silence since the generation was armed.
SilenceIsReal ==
    [][actor = "TimedWrappers" =>
         \A g \in Generations :
            state = "ReceiveTimeout" /\ c4'[g] > c4[g] => g \notin c5]_cells

\* Time leads on: every lease hold ends, every armed generation of a running
\* wrapper is consumed, a periodic wrapper goes through its generations, and an
\* open circuit offers a probe.
TimeLeadsOn ==
    /\ \A g \in Generations :
         /\ (actor = "Lease" /\ state.at = "Held" /\ state.generation = g)
               ~> ~(actor = "Lease" /\ state.at = "Held" /\ state.generation = g)
         /\ (actor = "TimedWrappers" /\ log = "running" /\ c3 = T!Armed(g))
               ~> ~(actor = "TimedWrappers" /\ log = "running" /\ c3 = T!Armed(g))
    /\ (actor = "TimedWrappers" /\ state = "Periodic" /\ log = "running")
          ~> (actor = "TimedWrappers" /\ (log = "stopped" \/ \A g \in Generations : c4[g] = 1))
    /\ (actor = "CircuitBreaker" /\ state.at = "Open")
          ~> (actor = "CircuitBreaker" /\ state.at = "Available")

-----------------------------------------------------------------------------
(* The other actors' properties.                                             *)

\* Work queue: jobs are assigned in submission order, and the workers listed as
\* available are those whose latest announcement is unanswered.
FirstSubmittedFirst ==
    /\ actor = "WorkQueue" => Queue!FirstSubmittedFirst /\ Queue!AvailabilityIsExact
    /\ actor = "Rendezvous" => Rendezvous!FirstSubmittedFirst /\ Rendezvous!AvailabilityIsExact

\* Sequencer, deduplicator and order gate: consecutive sequences, each once; no
\* key twice within the window; exactly what is beyond the watermark is held.
InOrderOnce ==
    /\ actor = "Sequencer" => Seq1!InOrderOnce
    /\ actor = "Deduplicator" => Dedup!WindowHolds
    /\ actor = "OrderGate" => Gate!GateIsExact

\* What leaves a queue leaves it in order: held items in key order, and the most
\* urgent, among equals the oldest, first.
LeavesInOrder ==
    [][/\ actor = "OrderGate" => Gate!LeaveInKeyOrder
       /\ actor = "PriorityQueue" => Heap!UrgentThenOldest]_cells

\* Inputs put aside are kept: a state machine's deferred messages, a stash and a
\* buffer hold each value in one place, and nothing that could be handled waits.
HeldInputsKept ==
    /\ actor = "Machine" => Mach!DeferredAreKept
    /\ actor = "Stash" => Sta!StashKeepsAll
    /\ actor = "Buffer" => Buf!EveryValueAccounted

\* The newest fact about an identity is the one that counts, through every
\* reordering, departure and return: routing evidence, presence, health,
\* readiness and configuration.
NewestFactCounts ==
    /\ actor = "Router" => Rout!RoutedByIdentity
    /\ actor = "Presence" => Pres!PresenceIsExact
    /\ actor = "Operations" => Ops!NewestFactWins

\* A request has one end: correlated replies, acknowledgements, tasks, the one
\* operation that owns a circuit breaker, and the reaction to a peer's
\* termination.
OneEnd ==
    /\ actor = "CircuitBreaker" => B!SingleFlight
    /\ actor = "Requests" => Req!RequestsEndOnce
    /\ actor = "Termination" => Term!StopReactedOnce

\* Phases follow each other: children are asked to stop after their dependents
\* stopped, steps start after their prerequisites, and nobody passes a barrier
\* before all arrived.
PhasesInOrder ==
    /\ actor = "ShutdownCoordinator" => Shut!ShutdownInPhases
    /\ actor = "Workflow" => Flow!DependenciesOrderSteps
    /\ actor = "Barrier" => Bar!NobodyPassesEarly

\* Tokens, cached keys, subscriptions and bindings are what the history of
\* requests left.
TablesAreExact ==
    /\ actor = "Resources" => Res!CapacityIsExact
    /\ actor = "Discovery" => Disc!MembersAreCurrent

\* Interpretation: actions are attempted once and in their order, and the child of
\* a creation is established at the role that declared it.
InterpretedInOrder ==
    /\ actor = "Interpretation" => Turns!InterpretedInOrder
    /\ actor = "Children" => Kids!ChildrenReachTheirRole

\* Interpretation: an action is withheld only behind a failure.
BlockedOnlyByFailure == actor = "Interpretation" => Turns!BlockedOnlyByFailure

\* Interpretation: the source is given every settlement it asked for.
SettlementsReachSource == actor = "Interpretation" => Turns!SettlementsReachSource
===============================================================================
