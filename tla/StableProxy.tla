---------------------------- MODULE StableProxy ----------------------------
(***************************************************************************)
(* The stable worker proxy of crates/actors/src/templates/proxy: one       *)
(* public identity in front of a succession of worker incarnations.  The   *)
(* owner starts, replaces and shuts down; the runtime creates workers,     *)
(* runs their initialization and startup, answers shutdown requests and    *)
(* reports stops.  Every answer reaches the proxy as a fact in an          *)
(* unordered mailbox, and one action below is one fold of one event.       *)
(*                                                                         *)
(* A worker attempt is its creation id.  Its initialization attempt, its   *)
(* startup grant and its shutdown id are issued once per attempt by the    *)
(* code and are identified with it.                                        *)
(***************************************************************************)
EXTENDS Naturals, Sequences, FiniteSets

CONSTANT MaxAttempts      \* ids one CreationSequence can issue (2^64 - 1)

ASSUME MaxAttemptsAssumption == MaxAttempts \in Nat

VARIABLES
    proxy,      \* ProxyState with what the current alternative owns
    next,       \* CreationSequence::next; MaxAttempts + 1 is exhaustion
    requests,   \* emitted actions the runtime has not answered yet
    facts,      \* answers on their way to the proxy
    host,       \* external: what the runtime knows of each incarnation
    asked,      \* workers for which ShutdownEstablished was emitted
    outcome,    \* ReportToParent outcomes about each attempt, in order
    served,     \* workers that were handed a service command
    diagnosed   \* facts returned to the owner as ProxyDiagnostic

vars == <<proxy, next, requests, facts, host, asked, outcome, served, diagnosed>>

Attempts == 1..MaxAttempts

Empty == {"Dormant", "EmptyInitial", "EmptyAfter"}
StartPhases == {"Creating", "Initializing", "Starting", "ReturningWorker"}
Replacing == {"ReturningPredecessor", "SuccessorResultAwaitingShutdown"}

\* The shutdown alternatives that own a WorkerStopping join.
Departures == {"ShutdownReturningWorker", "ReturningWorkerStart",
               "ShutdownReturningPredecessor", "ReturningSuccessor",
               "DepartingInitialization", "DepartingStartup"}

ShuttingDown == Departures \cup
    {"WaitingForCreation", "WaitingForInitialization", "WaitingForStartup",
     "WaitingForPredecessor"}

States == Empty \cup StartPhases \cup {"Ready", "Stopped"}
          \cup Replacing \cup ShuttingDown

Results == {"Ready", "Unavailable", "CreationRejected"}
Works == {"None", "Pending", "WaitingForStart", "Running", "Returned"} \cup Results

\* worker: the attempt the alternative owns (pending, current, departing, or
\* the previous one of EmptyAfter).  replaces, awaiting: WorkerStartKind and
\* PredecessorShutdown (replaces = 0 is Initial).  stopped, resolved: the exact
\* stop and shutdown resolution of worker already retained.  successor: the
\* reserved id of ReturningPredecessor.
ProxyStates ==
    [at : States, worker : 0..MaxAttempts, replaces : 0..MaxAttempts,
     awaiting : BOOLEAN, stopped : BOOLEAN, resolved : BOOLEAN,
     work : Works, successor : 0..MaxAttempts]

Owning(at, worker) ==
    [at |-> at, worker |-> worker, replaces |-> 0, awaiting |-> FALSE,
     stopped |-> FALSE, resolved |-> FALSE, work |-> "None", successor |-> 0]

Requests == [op : {"CreateChild", "InitializeWorker", "StartWorker", "RunPlan",
                   "ShutdownEstablished"}, worker : Attempts]

FactKinds == {"Created", "Initialized", "Startup", "ShutdownResolved", "WorkerStopped"}
FactResults == {"Established", "Rejected", "ReadyForStartup", "EffectsRejected",
                "Stopped", "Started", "StartRejected", "Ready", "None"}
Facts == [kind : FactKinds, worker : Attempts, result : FactResults]

Ask(op, w) == [op |-> op, worker |-> w]
Fact(kind, w, result) == [kind |-> kind, worker |-> w, result |-> result]

Init ==
    /\ proxy = Owning("Dormant", 0)
    /\ next = 1
    /\ requests = {}
    /\ facts = {}
    /\ host = [a \in Attempts |-> "unborn"]
    /\ asked = {}
    /\ outcome = [a \in Attempts |-> <<>>]
    /\ served = {}
    /\ diagnosed = {}

-----------------------------------------------------------------------------
(* Actions a fold returns beside the next state.                           *)

Emit(rs) ==
    /\ requests' = requests \cup rs
    /\ asked' = asked \cup {a \in Attempts : Ask("ShutdownEstablished", a) \in rs}

Silent == UNCHANGED <<requests, asked>>

RequestWorkerShutdown == Emit({Ask("ShutdownEstablished", proxy.worker)})

\* create_worker: the observation and the creation leave together.
CreateWorker(w) == Emit({Ask("CreateChild", w)})

\* Slip: a later report replaces the earlier one.
ReportOverwrites(w, results) == outcome' = [outcome EXCEPT ![w] = results]

Report(w, results) == outcome' = [outcome EXCEPT ![w] = @ \o results]

\* diagnose: the fact goes back to the owner and the state is unchanged.
Diagnose(f) ==
    /\ diagnosed' = diagnosed \cup {f}
    /\ UNCHANGED <<proxy, requests, asked, outcome>>

-----------------------------------------------------------------------------
(* Results of a worker start.                                              *)

\* publish_replacement; with replaces = 0 it is the Initial report.
Publish(p) ==
    /\ proxy' = CASE p.work = "Ready" /\ ~p.stopped -> Owning("Ready", p.worker)
                  [] p.work = "CreationRejected" ->
                       Owning(IF p.replaces = 0 THEN "EmptyInitial" ELSE "EmptyAfter",
                              p.replaces)
                  [] OTHER -> Owning("EmptyAfter", p.worker)
    /\ Report(p.worker, IF p.work = "Ready" /\ p.stopped
                        THEN <<"Ready", "WorkerStopped">> ELSE <<p.work>>)

\* worker_creation_rejected, worker_start_ready and worker_start_empty: an
\* initial result is reported, a replacement waits for its predecessor.
SettleStart(result) ==
    LET p == [proxy EXCEPT !.at = "SuccessorResultAwaitingShutdown", !.work = result,
                           !.stopped = FALSE, !.resolved = FALSE]
    IN  IF proxy.awaiting THEN proxy' = p /\ UNCHANGED outcome ELSE Publish(p)

\* return_worker: a worker that failed before readiness is shut down.
ReturnWorker ==
    /\ proxy' = [proxy EXCEPT !.at = "ReturningWorker", !.work = "None"]
    /\ RequestWorkerShutdown
    /\ UNCHANGED outcome

\* worker_returned: whatever failed, the start ends without a worker.
WorkerReturned == SettleStart("Unavailable")

\* stop_with: the proxy stops with everything it still owned.
StopWith(worker) == Owning("Stopped", worker)

\* finish_start_retirement, successor_departed and stop_with.
Retired(p) ==
    IF p.awaiting THEN [Owning("WaitingForPredecessor", p.worker)
                          EXCEPT !.replaces = p.replaces, !.awaiting = TRUE]
                  ELSE StopWith(p.worker)

\* WorkerStopping: the departure is complete once both parts have arrived.
Joined(p) == p.stopped /\ p.resolved

\* rejoin_initialization_departure and rejoin_startup_departure: outstanding
\* work is waited for after both parts.
RejoinInitialization(p) ==
    IF p.work # "Returned" THEN [p EXCEPT !.at = "WaitingForInitialization"] ELSE Retired(p)

RejoinStartup(p) ==
    IF p.work # "Returned" THEN [p EXCEPT !.at = "WaitingForStartup"] ELSE Retired(p)

\* A departure inside shutdown.
Rejoin(p) ==
    CASE ~Joined(p) -> p
      [] Joined(p) /\ p.at = "DepartingInitialization" -> RejoinInitialization(p)
      [] Joined(p) /\ p.at = "DepartingStartup" -> RejoinStartup(p)
      [] OTHER -> Retired(p)

Creating(w, replaces, awaiting) ==
    [Owning("Creating", w) EXCEPT !.replaces = replaces, !.awaiting = awaiting]

-----------------------------------------------------------------------------
(* Owner and service input.                                                *)

\* Slip: an installed worker is served before it is ready.
ServiceInstalled ==
    /\ served' = IF proxy.at \in {"Starting", "Ready"}
                 THEN served \cup {proxy.worker} ELSE served
    /\ UNCHANGED <<proxy, next, requests, facts, host, asked, outcome, diagnosed>>

Service ==
    /\ proxy.at # "Stopped"
    /\ served' = IF proxy.at = "Ready" THEN served \cup {proxy.worker} ELSE served
    /\ UNCHANGED <<proxy, next, requests, facts, host, asked, outcome, diagnosed>>

\* start_initial, begin_initial: an overlap or an exhausted sequence returns
\* the submission and changes nothing.
OwnerStart ==
    /\ proxy.at # "Stopped"
    /\ IF proxy.at = "Dormant" /\ next \in Attempts
       THEN /\ proxy' = Creating(next, 0, FALSE)
            /\ next' = next + 1
            /\ CreateWorker(next)
            /\ UNCHANGED <<facts, host, outcome, served, diagnosed>>
       ELSE UNCHANGED vars

\* Slip: an exhausted sequence still issues an id.
OwnerReplaceExhausted ==
    /\ proxy.at = "EmptyAfter"
    /\ proxy' = Creating(next, proxy.worker, FALSE)
    /\ next' = next + 1
    /\ Emit({Ask("CreateChild", next)})
    /\ UNCHANGED <<facts, host, outcome, served, diagnosed>>

\* Slip: the successor is created with the predecessor's shutdown request.
OwnerReplaceEager ==
    /\ proxy.at \in {"Ready", "EmptyAfter"} /\ next \in Attempts
    /\ proxy' = Creating(next, proxy.worker, proxy.at = "Ready")
    /\ next' = next + 1
    /\ Emit({Ask("CreateChild", next)}
            \cup IF proxy.at = "Ready" THEN {Ask("ShutdownEstablished", proxy.worker)} ELSE {})
    /\ UNCHANGED <<facts, host, outcome, served, diagnosed>>

\* replace_worker.
OwnerReplace ==
    /\ proxy.at # "Stopped"
    /\ IF proxy.at \in {"Ready", "EmptyAfter"} /\ next \in Attempts
       THEN /\ next' = next + 1
            /\ \/ /\ proxy.at = "Ready"
                  /\ proxy' = [proxy EXCEPT !.at = "ReturningPredecessor",
                                            !.successor = next]
                  /\ RequestWorkerShutdown
               \/ /\ proxy.at = "EmptyAfter"
                  /\ proxy' = Creating(next, proxy.worker, FALSE)
                  /\ CreateWorker(next)
            /\ UNCHANGED <<facts, host, outcome, served, diagnosed>>
       ELSE UNCHANGED vars

\* begin_startup_shutdown: a stop already retained makes a request needless.
BeginStartupShutdown ==
    IF proxy.stopped
    THEN proxy' = [proxy EXCEPT !.at = "WaitingForStartup"] /\ Silent
    ELSE proxy' = [proxy EXCEPT !.at = "DepartingStartup"] /\ RequestWorkerShutdown

\* shutdown_start.
ShutdownStart ==
    /\ proxy.at \in StartPhases
    /\ UNCHANGED outcome
    /\ \/ /\ proxy.at = "Creating"
          /\ proxy' = [proxy EXCEPT !.at = "WaitingForCreation"]
          /\ Silent
       \/ /\ proxy.at = "ReturningWorker"
          /\ proxy' = [proxy EXCEPT !.at = "ReturningWorkerStart"]
          /\ Silent
       \/ /\ proxy.at = "Initializing"
          /\ IF proxy.stopped
             THEN /\ proxy' = [proxy EXCEPT !.at = "WaitingForInitialization",
                                            !.work = "Pending"]
                  /\ Silent
             ELSE /\ proxy' = [proxy EXCEPT !.at = "DepartingInitialization",
                                            !.work = "Pending"]
                  /\ RequestWorkerShutdown
       \/ proxy.at = "Starting" /\ BeginStartupShutdown

\* shutdown_replacement: a successor not yet created is returned, a ready one
\* is shut down, any other result waits for the predecessor.
ShutdownReplacement ==
    \/ /\ proxy.at = "ReturningPredecessor"
       /\ proxy' = [proxy EXCEPT !.at = "ShutdownReturningPredecessor"]
       /\ Report(proxy.successor, <<"CancelledBeforeBirth">>)
       /\ Silent
    \/ /\ proxy.at = "SuccessorResultAwaitingShutdown"
       /\ UNCHANGED outcome
       /\ IF proxy.work = "Ready" /\ ~proxy.stopped
          THEN /\ proxy' = [proxy EXCEPT !.at = "ReturningSuccessor", !.work = "None"]
               /\ RequestWorkerShutdown
          ELSE /\ proxy' = Retired(proxy)
               /\ Silent

\* owner_shutdown; repeated while shutting down it changes nothing.
OwnerShutdown ==
    /\ proxy.at # "Stopped"
    /\ \/ /\ proxy.at \in Empty
          /\ proxy' = StopWith(proxy.worker)
          /\ Silent
          /\ UNCHANGED outcome
       \/ /\ proxy.at = "Ready"
          /\ proxy' = [proxy EXCEPT !.at = "ShutdownReturningWorker"]
          /\ RequestWorkerShutdown
          /\ UNCHANGED outcome
       \/ ShutdownStart
       \/ ShutdownReplacement
       \/ proxy.at \in ShuttingDown /\ UNCHANGED <<proxy, requests, asked, outcome>>
    /\ UNCHANGED <<next, facts, host, served, diagnosed>>

-----------------------------------------------------------------------------
(* Runtime facts.  The guards are the exact-correlation tests of the code;  *)
(* every other fact is diagnosed.                                           *)

\* PendingWorker::admit_creation.
CreationAdmitted(f) ==
    f.worker = proxy.worker /\ proxy.at \in {"Creating", "WaitingForCreation"}

\* created and created_one: the settled batch is this worker's, established or
\* given back.
CreatedOne(f) == CreationAdmitted(f) /\ f.result = "Established"

CreatedNone(f) == CreationAdmitted(f) /\ f.result = "Rejected"

AwaitInitialization ==
    /\ proxy' = [proxy EXCEPT !.at = "Initializing"]
    /\ Emit({Ask("InitializeWorker", proxy.worker)})

\* begin_shutdown_initialization: the worker is initialized and shut down at
\* once, or only initialized when its stop is already retained.
BeginShutdownInitialization ==
    IF proxy.stopped
    THEN /\ proxy' = [proxy EXCEPT !.at = "WaitingForInitialization", !.work = "Pending"]
         /\ Emit({Ask("InitializeWorker", proxy.worker)})
    ELSE /\ proxy' = [proxy EXCEPT !.at = "DepartingInitialization", !.work = "Pending"]
         /\ Emit({Ask("InitializeWorker", proxy.worker),
                  Ask("ShutdownEstablished", proxy.worker)})

\* workers_created and shutdown_workers_created.
WorkersCreated(f) ==
    /\ f.kind = "Created"
    /\ \/ /\ CreatedOne(f)
          /\ \/ proxy.at = "Creating" /\ AwaitInitialization
             \/ proxy.at = "WaitingForCreation" /\ BeginShutdownInitialization
          /\ UNCHANGED <<outcome, diagnosed>>
       \/ /\ CreatedNone(f)
          /\ \/ proxy.at = "Creating" /\ SettleStart("CreationRejected")
             \/ /\ proxy.at = "WaitingForCreation"
                /\ proxy' = Retired(proxy)
                /\ UNCHANGED outcome
          /\ Silent /\ UNCHANGED diagnosed
       \/ ~CreationAdmitted(f) /\ Diagnose(f)

\* CurrentWorker::admit_initialization, and the one result a departure keeps.
InitializationAdmitted(f) ==
    /\ f.worker = proxy.worker
    /\ \/ proxy.at \in {"Initializing", "WaitingForInitialization"}
       \/ proxy.at = "DepartingInitialization" /\ proxy.work = "Pending"

\* Slip: initialization counts as readiness.
InitializationIsReadiness(f) ==
    SettleStart("Ready") /\ Emit({Ask("StartWorker", proxy.worker)})

\* initialization_resolved.
InitializationResolved(f) ==
    \/ /\ f.result = "ReadyForStartup" /\ ~proxy.stopped
       /\ proxy' = [proxy EXCEPT !.at = "Starting", !.work = "WaitingForStart"]
       /\ Emit({Ask("StartWorker", proxy.worker)})
       /\ UNCHANGED outcome
    \/ f.result = "EffectsRejected" /\ ~proxy.stopped /\ ReturnWorker
    \/ /\ f.result = "Stopped" \/ proxy.stopped
       /\ SettleStart("Unavailable")
       /\ Silent

\* Slip: an initialized worker is shut down although it is departing already.
InitializedShutdownAgain(f) ==
    /\ proxy' = [proxy EXCEPT !.work = "Returned"]
    /\ Emit({Ask("ShutdownEstablished", proxy.worker)})
    /\ UNCHANGED outcome

\* retain_initialization_while_departing and retain_initialization_stop: the
\* result is kept while the worker departs, and its own stop fills the stop the
\* departure still lacks.
RetainInitialization(p, f) ==
    [p EXCEPT !.work = "Returned", !.stopped = @ \/ f.result = "Stopped"]

\* classify_initialization_after_stop: every result of a stopped worker ends it.
InitializationAfterStop(p) == Retired(p)

\* admit_worker_initialized_during_shutdown.
InitializedDuringShutdown(f) ==
    /\ proxy' = IF proxy.at = "WaitingForInitialization" THEN InitializationAfterStop(proxy)
                ELSE Rejoin(RetainInitialization(proxy, f))
    /\ Silent
    /\ UNCHANGED outcome

\* worker_initialized and shutdown_worker_initialized.
WorkerInitialized(f) ==
    /\ f.kind = "Initialized"
    /\ \/ /\ InitializationAdmitted(f)
          /\ \/ proxy.at = "Initializing" /\ InitializationResolved(f)
             \/ proxy.at # "Initializing" /\ InitializedDuringShutdown(f)
          /\ UNCHANGED diagnosed
       \/ ~InitializationAdmitted(f) /\ Diagnose(f)

\* admit_startup, and the outcome each StartupProgress can accept.
StartupAdmitted(f) ==
    /\ f.worker = proxy.worker
    /\ proxy.at \in {"Starting", "DepartingStartup", "WaitingForStartup"}
    /\ \/ proxy.work = "WaitingForStart" /\ f.result \in {"Started", "StartRejected"}
       \/ proxy.work = "Running" /\ f.result \in {"Ready", "Rejected"}

\* startup_waiting and startup_running.
StartupProgressed(f) ==
    \/ /\ f.result = "Started"
       /\ proxy' = [proxy EXCEPT !.work = "Running"]
       /\ Silent
       /\ UNCHANGED outcome
    \/ /\ f.result # "Started" /\ proxy.stopped
       /\ SettleStart("Unavailable")
       /\ Silent
    \/ /\ f.result = "Ready" /\ ~proxy.stopped
       /\ SettleStart("Ready")
       /\ Silent
    \/ f.result \in {"StartRejected", "Rejected"} /\ ~proxy.stopped /\ ReturnWorker

\* Slip: a startup result is published although the proxy is closing.
StartupIgnoresShutdown(f) == StartupProgressed(f)

\* advance_startup_during_shutdown under both shutdown alternatives.
StartupDuringShutdown(f) ==
    /\ proxy' = CASE f.result = "Started" -> [proxy EXCEPT !.work = "Running"]
                  [] f.result # "Started" /\ proxy.at = "DepartingStartup" ->
                       [proxy EXCEPT !.work = "Returned"]
                  [] OTHER -> Retired(proxy)
    /\ Silent
    /\ UNCHANGED outcome

SettleShutdownStartup(f) == proxy.at # "Starting" /\ StartupDuringShutdown(f)

\* settle_worker_startup.
WorkerStartupReported(f) ==
    /\ f.kind = "Startup"
    /\ \/ /\ StartupAdmitted(f)
          /\ \/ proxy.at = "Starting" /\ StartupProgressed(f)
             \/ SettleShutdownStartup(f)
          /\ UNCHANGED diagnosed
       \/ ~StartupAdmitted(f) /\ Diagnose(f)

\* CurrentWorker::admit_stop, PendingWorker::admit_stop and the alternatives
\* that have a place for a stop.
StopAdmitted(f) ==
    /\ f.worker = proxy.worker /\ ~proxy.stopped
    /\ \/ proxy.at \in StartPhases \cup Departures \cup {"ReturningPredecessor", "Ready"}
       \/ proxy.at = "SuccessorResultAwaitingShutdown" /\ proxy.work = "Ready"

\* worker_start_stopped and admit_pre_ready_stop.
StartStopped ==
    /\ proxy.at \in StartPhases
    /\ Silent
    /\ IF proxy.at = "ReturningWorker" /\ proxy.resolved
       THEN WorkerReturned
       ELSE proxy' = [proxy EXCEPT !.stopped = TRUE] /\ UNCHANGED outcome

\* start_successor_after_stop: the successor is created on the predecessor's
\* stop; its shutdown result may still be awaited.
StartSuccessorAfterStop ==
    /\ proxy' = Creating(proxy.successor, proxy.worker, ~proxy.resolved)
    /\ CreateWorker(proxy.successor)
    /\ Report(proxy.worker, <<"WorkerStopped">>)

\* replacement_worker_stopped.
ReplacementStopped ==
    \/ proxy.at = "ReturningPredecessor" /\ StartSuccessorAfterStop
    \/ /\ proxy.at = "SuccessorResultAwaitingShutdown"
       /\ proxy' = [proxy EXCEPT !.stopped = TRUE]
       /\ Silent
       /\ UNCHANGED outcome

\* shutdown_worker_stopped.
ShutdownStopped ==
    /\ proxy.at \in ShuttingDown
    /\ proxy' = Rejoin([proxy EXCEPT !.stopped = TRUE])
    /\ Silent
    /\ UNCHANGED outcome

\* worker_stopped.
WorkerStopped(f) ==
    /\ f.kind = "WorkerStopped"
    /\ \/ /\ StopAdmitted(f)
          /\ \/ /\ proxy.at = "Ready"
                /\ proxy' = Owning("EmptyAfter", proxy.worker)
                /\ Report(proxy.worker, <<"WorkerStopped">>)
                /\ Silent
             \/ StartStopped
             \/ ReplacementStopped
             \/ ShutdownStopped
          /\ UNCHANGED diagnosed
       \/ ~StopAdmitted(f) /\ Diagnose(f)

\* The shutdown result of the predecessor that a replacement still awaits.
PredecessorResolution(f) ==
    /\ f.worker = proxy.replaces /\ proxy.awaiting
    /\ proxy.at \in StartPhases \cup {"SuccessorResultAwaitingShutdown",
                                      "ReturningSuccessor", "WaitingForPredecessor"}

\* Slip: a result is kept only outside an owner shutdown.
ResolutionOnlyOpen(f) ==
    /\ f.worker = proxy.worker /\ ~proxy.resolved
    /\ proxy.at \in {"ReturningWorker", "ReturningPredecessor"}

\* WorkerStopping::shutdown_resolved for the departing worker itself.
DepartureResolution(f) ==
    /\ f.worker = proxy.worker /\ ~proxy.resolved
    /\ proxy.at \in Departures \cup {"ReturningWorker", "ReturningPredecessor"}

\* replacement_shutdown_resolved and finish_replacement, with the alternatives of
\* shutdown_resolved that keep the predecessor's result.
PredecessorResolved(f) ==
    /\ PredecessorResolution(f)
    /\ \/ /\ proxy.at \in StartPhases \cup {"ReturningSuccessor"}
          /\ proxy' = [proxy EXCEPT !.awaiting = FALSE]
          /\ UNCHANGED outcome
       \/ /\ proxy.at = "SuccessorResultAwaitingShutdown"
          /\ Publish(proxy)
       \/ /\ proxy.at = "WaitingForPredecessor"
          /\ proxy' = StopWith(proxy.worker)
          /\ UNCHANGED outcome

\* shutdown_resolved; successor_departed waits for a predecessor still awaited.
SuccessorDeparted(p) == IF Joined(p) THEN Retired(p) ELSE p

ShutdownResolved(p) ==
    IF p.at = "ReturningSuccessor" THEN SuccessorDeparted(p) ELSE Rejoin(p)

\* Slip: the result is recorded, and a worker that stopped before it not returned.
DepartureResolvedWaits(f) ==
    /\ DepartureResolution(f)
    /\ proxy' = LET p == [proxy EXCEPT !.resolved = TRUE]
                IN  IF proxy.at \in Departures THEN ShutdownResolved(p) ELSE p
    /\ UNCHANGED outcome

\* worker_start_shutdown_resolved, replacement_shutdown_resolved for the
\* predecessor on its way out, and shutdown_resolved.
DepartureResolved(f) ==
    /\ DepartureResolution(f)
    /\ \/ /\ proxy.at = "ReturningWorker" /\ proxy.stopped
          /\ WorkerReturned
       \/ /\ ~(proxy.at = "ReturningWorker" /\ proxy.stopped)
          /\ proxy' = LET p == [proxy EXCEPT !.resolved = TRUE]
                      IN  IF proxy.at \in Departures THEN ShutdownResolved(p) ELSE p
          /\ UNCHANGED outcome

\* worker_shutdown_resolved.
WorkerShutdownResolved(f) ==
    /\ f.kind = "ShutdownResolved"
    /\ \/ /\ PredecessorResolved(f) \/ DepartureResolved(f)
          /\ Silent /\ UNCHANGED diagnosed
       \/ /\ ~PredecessorResolution(f) /\ ~DepartureResolution(f)
          /\ Diagnose(f)

\* One turn of the proxy's mailbox.  A stopped behavior admits nothing.
Handle(f) ==
    /\ f \in facts
    /\ proxy.at # "Stopped"
    /\ \/ WorkersCreated(f)
       \/ WorkerInitialized(f)
       \/ WorkerStartupReported(f)
       \/ WorkerStopped(f)
       \/ WorkerShutdownResolved(f)
    /\ facts' = facts \ {f}
    /\ UNCHANGED <<next, host, served>>

-----------------------------------------------------------------------------
(* External: the Bombay runtime and the workers it hosts, as the proxy's     *)
(* requests and events use them.  Answers to different requests, and a       *)
(* worker's stop, are independent admissions and may overtake each other.    *)

Answer(r, more, fs) ==
    /\ r \in requests
    /\ requests' = (requests \ {r}) \cup more
    /\ facts' = facts \cup fs
    /\ UNCHANGED <<proxy, next, asked, outcome, served, diagnosed>>

\* CreateChild either establishes the child or returns it.
SettleCreation(a) ==
    \/ /\ Answer(Ask("CreateChild", a), {}, {Fact("Created", a, "Established")})
       /\ host' = [host EXCEPT ![a] = "alive"]
    \/ /\ Answer(Ask("CreateChild", a), {}, {Fact("Created", a, "Rejected")})
       /\ UNCHANGED host

\* InitializeWorker settles whatever became of the worker; initialization may
\* itself stop it, and then the termination observer reports the stop as well.
SettleInitialization(a) ==
    \/ /\ \E result \in {"ReadyForStartup", "EffectsRejected"} :
              Answer(Ask("InitializeWorker", a), {}, {Fact("Initialized", a, result)})
       /\ UNCHANGED host
    \/ /\ Answer(Ask("InitializeWorker", a), {},
                 {Fact("Initialized", a, "Stopped")}
                 \cup {f \in {Fact("WorkerStopped", a, "None")} : host[a] = "alive"})
       /\ host' = [host EXCEPT ![a] = "dead"]

\* StartWorker is refused whole or started; the plan's result is released only
\* after the proxy admitted Started.
SettleStartup(a) ==
    /\ \/ Answer(Ask("StartWorker", a), {}, {Fact("Startup", a, "StartRejected")})
       \/ Answer(Ask("StartWorker", a), {Ask("RunPlan", a)},
                 {Fact("Startup", a, "Started")})
       \/ /\ Fact("Startup", a, "Started") \notin facts
          /\ \E result \in {"Ready", "Rejected"} :
                 Answer(Ask("RunPlan", a), {}, {Fact("Startup", a, result)})
    /\ UNCHANGED host

\* ShutdownEstablished is accepted, or rejected as already stopping or stopped;
\* either settlement returns its id.
SettleShutdown(a) ==
    /\ Answer(Ask("ShutdownEstablished", a), {}, {Fact("ShutdownResolved", a, "None")})
    /\ UNCHANGED host

\* A worker stops by itself, or because StopOnShutdown received the request.
StopWorker(a) ==
    /\ host[a] = "alive"
    /\ host' = [host EXCEPT ![a] = "dead"]
    /\ facts' = facts \cup {Fact("WorkerStopped", a, "None")}
    /\ UNCHANGED <<proxy, next, requests, asked, outcome, served, diagnosed>>

SettleRequest(a) ==
    SettleCreation(a) \/ SettleInitialization(a) \/ SettleStartup(a) \/ SettleShutdown(a)

Owner == OwnerStart \/ OwnerReplace \/ OwnerShutdown

Next ==
    \/ Service
    \/ Owner
    \/ \E f \in facts : Handle(f)
    \/ \E a \in Attempts : SettleRequest(a) \/ StopWorker(a)

Spec == Init /\ [][Next]_vars

\* The mailbox is drained, every request is answered, and a worker that was
\* asked to shut down stops.  Nothing is assumed of the owner or of a healthy
\* worker.
Fairness ==
    /\ WF_vars(\E f \in facts : Handle(f))
    /\ WF_vars(\E a \in Attempts : SettleRequest(a))
    /\ WF_vars(\E a \in asked : StopWorker(a))

FairSpec == Spec /\ Fairness

-----------------------------------------------------------------------------
(* Properties.                                                               *)

\* Every variable holds a value of its kind.
TypeOK ==
    /\ proxy \in ProxyStates
    /\ next \in 1..(MaxAttempts + 1)
    /\ requests \subseteq Requests
    /\ facts \subseteq Facts
    /\ host \in [Attempts -> {"unborn", "alive", "dead"}]
    /\ asked \subseteq Attempts
    /\ outcome \in [Attempts -> Seq(Results \cup {"WorkerStopped", "CancelledBeforeBirth"})]
    /\ served \subseteq Attempts
    /\ diagnosed \subseteq Facts

\* One proxy owns at most one installed worker: a successor is created only
\* after the predecessor's stop, so no two incarnations are ever alive or on
\* their way to life together, whatever the order of stop and shutdown result.
OneIncarnation ==
    \A a, b \in Attempts :
        /\ host[a] = "alive" \/ Ask("CreateChild", a) \in requests
        /\ host[b] = "alive" \/ Ask("CreateChild", b) \in requests
        => a = b

\* Installation is not readiness: while the proxy routes commands, its worker
\* was reported Ready and nothing else, was never asked to shut down, and no
\* answer for it but its stop is outstanding.
ReadyIsExact ==
    proxy.at = "Ready" =>
        /\ outcome[proxy.worker] = <<"Ready">>
        /\ proxy.worker \notin asked
        /\ \A r \in requests : r.worker # proxy.worker
        /\ \A f \in facts : f.worker = proxy.worker => f.kind = "WorkerStopped"

\* Every submission that was issued an attempt gets one disposition: a closed
\* set of report sequences, and the only attempts without a report are the one
\* the proxy still works on and the one its retirement keeps.
Dispositions == {<<>>, <<"Ready">>, <<"Ready", "WorkerStopped">>, <<"Unavailable">>,
                 <<"CreationRejected">>, <<"CancelledBeforeBirth">>}

OneDisposition ==
    \A a \in Attempts :
        /\ outcome[a] \in Dispositions
        /\ a < next /\ outcome[a] = <<>> => a \in {proxy.worker, proxy.successor}

\* A runtime answer is consumed by the state that asked for it: creation,
\* initialization and startup answers are never returned as unexpected, and a
\* shutdown result only to an owner that is already closing the proxy.
AnswersConsumed ==
    \A f \in diagnosed :
        \/ f.kind = "WorkerStopped"
        \/ f.kind = "ShutdownResolved" /\ proxy.at \in ShuttingDown \cup {"Stopped"}

\* A stopped proxy leaves nothing behind: no worker alive or being created, and
\* no request that could still bring an answer nobody owns.
StoppedIsSettled ==
    proxy.at = "Stopped" =>
        /\ \A a \in Attempts : host[a] # "alive"
        /\ requests = {}
        /\ \A f \in facts : f.kind = "WorkerStopped"

\* Every operation is settled: one disposition, no answer turned away while the
\* proxy is open, and nothing left behind by a stopped one.
OperationsSettled == OneDisposition /\ AnswersConsumed /\ StoppedIsSettled

\* No worker is asked to shut down twice, across replacement, a failed start
\* and an owner shutdown that overtakes either.
ShutdownAskedOnce ==
    [][\A a \in asked : Ask("ShutdownEstablished", a) \notin requests' \ requests]_vars

\* Shutdown closes admission: no later step readmits work, issues an attempt or
\* reports a worker ready.
ClosingIsFinal ==
    [][proxy.at \in ShuttingDown \cup {"Stopped"} =>
         /\ proxy'.at \in ShuttingDown \cup {"Stopped"}
         /\ next' = next /\ served' = served
         /\ outcome' = outcome]_vars

\* The two losses that keep a closing proxy from stopping.  The predecessor's
\* shutdown result came while the successor was still being returned, or the
\* worker's stop overtook its creation; both were diagnosed, not kept.
Stranded ==
    \/ /\ proxy.at = "WaitingForPredecessor"
       /\ Fact("ShutdownResolved", proxy.replaces, "None") \in diagnosed
    \/ /\ proxy.at \in Departures /\ ~proxy.stopped
       /\ Fact("WorkerStopped", proxy.worker, "None") \in diagnosed

\* Every start and every replacement comes to a result.
StartsSettle ==
    proxy.at \in StartPhases \cup Replacing ~> proxy.at \notin StartPhases \cup Replacing

\* Every shutdown comes to rest, and short of the two losses at Stopped.
ShutdownSettles == proxy.at \in ShuttingDown ~> proxy.at = "Stopped" \/ Stranded

\* Both the predecessor's result and the successor's departure stay owned in
\* either order, so a closing replacement stops once both have come.
PredecessorReturns == proxy.at = "WaitingForPredecessor" ~> proxy.at = "Stopped"

\* A stop that overtakes its creation is kept while the creation drains.
EarlyStopKept ==
    proxy.at = "WaitingForCreation" =>
        Fact("WorkerStopped", proxy.worker, "None") \notin diagnosed

-----------------------------------------------------------------------------
(* The proxy keeps the contract of ProxyContract: its alternatives map to   *)
(* the phases an owner can know, its creation sequence to the submissions    *)
(* issued.                                                                   *)

Phase ==
    CASE proxy.at \in Empty -> "Empty"
      [] proxy.at \in StartPhases \cup Replacing -> "Working"
      [] proxy.at \in ShuttingDown -> "Closing"
      [] OTHER -> proxy.at

Contract == INSTANCE ProxyContract
    WITH phase <- Phase, issued <- next - 1, reports <- outcome

\* Every step of the proxy and of the runtime around it is a step of the
\* contract or leaves what the owner can know unchanged.
KeepsContract == Contract!Spec
=============================================================================
