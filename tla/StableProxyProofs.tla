-------------------------- MODULE StableProxyProofs --------------------------
(***************************************************************************)
(* Proofs about the stable proxy for any number of attempts: first its own *)
(* state, then its exchange with the runtime (one shutdown request per     *)
(* worker, a readiness nothing contradicts, no answer that finds its place *)
(* taken), and last that it implements its contract and settles every      *)
(* operation.                                                              *)
(***************************************************************************)
EXTENDS StableProxy, TLAPS

\* The named parts of a handler are always unfolded.
USE DEF RequestWorkerShutdown, CreateWorker, WorkerReturned, StopWith, BeginStartupShutdown,
        CreatedOne, CreatedNone, AwaitInitialization, RetainInitialization,
        InitializationAfterStop, SettleShutdownStartup, StartSuccessorAfterStop,
        RejoinInitialization, RejoinStartup

Held == States \ {"Dormant", "EmptyInitial", "Stopped"}

\* Every alternative that names a worker names an issued one, a reserved
\* successor is an attempt, and a result that waits is a result.
Custodian ==
    /\ proxy.at \in Held => proxy.worker \in Attempts
    /\ proxy.at = "ReturningPredecessor" => proxy.successor \in Attempts
    /\ proxy.at = "SuccessorResultAwaitingShutdown" => proxy.work \in Results

TypeInv == TypeOK /\ Custodian

Live(a) == host[a] = "alive" \/ Ask("CreateChild", a) \in requests

\* The alternatives whose worker may be alive.
Hosting ==
    /\ proxy.worker \in Attempts
    /\ ~proxy.stopped
    /\ \/ proxy.at \in StartPhases \cup Departures
                        \cup {"Ready", "ReturningPredecessor", "WaitingForCreation"}
       \/ proxy.at = "SuccessorResultAwaitingShutdown" /\ proxy.work = "Ready"

OnlyWorkerLives == \A a \in Attempts : Live(a) => a = proxy.worker /\ Hosting

\* A fact after which its worker cannot be alive.
Parting(f) ==
    \/ f.kind = "WorkerStopped"
    \/ f.kind = "Initialized" /\ f.result = "Stopped"
    \/ f.kind = "Created" /\ f.result = "Rejected"

PartedAreDead == \A f \in facts : Parting(f) => ~Live(f.worker)

\* Nothing was ever asked or said of an attempt not yet issued or only reserved.
Touched(a) ==
    /\ a < next
    /\ proxy.at = "ReturningPredecessor" => a # proxy.successor

Freshness ==
    /\ \A r \in requests : Touched(r.worker)
    /\ \A f \in facts : Touched(f.worker)
    /\ \A a \in Attempts : host[a] # "unborn" => Touched(a)
    /\ proxy.worker < next /\ proxy.replaces < next /\ proxy.successor < next
    /\ proxy.at = "ReturningPredecessor" => proxy.worker # proxy.successor

\* A worker is initialized only after its creation settled.
Births ==
    \A a \in Attempts :
        /\ Ask("CreateChild", a) \in requests => host[a] = "unborn"
        /\ Ask("InitializeWorker", a) \in requests => host[a] # "unborn"
        /\ Fact("Created", a, "Established") \in facts => host[a] # "unborn"

IInv == TypeInv /\ OnlyWorkerLives /\ PartedAreDead /\ Freshness /\ Births

-----------------------------------------------------------------------------
(* Type correctness.                                                         *)

Reports == Seq(Results \cup {"WorkerStopped", "CancelledBeforeBirth"})

\* The parts of the state a fold may write.
FoldTyped ==
    /\ proxy \in ProxyStates
    /\ Custodian
    /\ requests \subseteq Requests
    /\ asked \subseteq Attempts
    /\ outcome \in [Attempts -> Reports]
    /\ diagnosed \subseteq Facts

\* A sequence of one element.
LEMMA Singleton == ASSUME NEW S, NEW x \in S PROVE <<x>> \in Seq(S)
OBVIOUS

\* Owning builds a well-typed alternative.
LEMMA OwningTyped ==
    ASSUME NEW at \in States, NEW w \in 0..MaxAttempts
    PROVE  Owning(at, w) \in ProxyStates
BY MaxAttemptsAssumption DEF Owning, ProxyStates, Works

\* A fresh start is a well-typed alternative.
LEMMA CreatingTyped ==
    ASSUME NEW w \in Attempts, NEW r \in 0..MaxAttempts, NEW b \in BOOLEAN,
           proxy' = Creating(w, r, b)
    PROVE  proxy' \in ProxyStates /\ Custodian'
<1>1. proxy' = [at |-> "Creating", worker |-> w, replaces |-> r, awaiting |-> b,
                stopped |-> FALSE, resolved |-> FALSE, work |-> "None", successor |-> 0]
  BY Zenon DEF Creating, Owning
<1>2. proxy' \in ProxyStates
  BY <1>1, MaxAttemptsAssumption DEF ProxyStates, States, StartPhases, Works, Attempts
<1>3. Custodian'
  BY <1>1 DEF Custodian
<1>4. QED BY <1>2, <1>3

\* A report extends the sequence of one attempt.
LEMMA ReportTyped ==
    ASSUME outcome \in [Attempts -> Reports], NEW w \in Attempts,
           NEW rs \in Reports, Report(w, rs)
    PROVE  outcome' \in [Attempts -> Reports]
BY DEF Report, Reports

\* Requests about an attempt are requests.
LEMMA AskTyped ==
    ASSUME NEW w \in Attempts,
           NEW op \in {"CreateChild", "InitializeWorker", "StartWorker", "RunPlan",
                       "ShutdownEstablished"}
    PROVE  Ask(op, w) \in Requests
BY DEF Ask, Requests

\* Emitted requests are added to the outstanding ones.
LEMMA EmitTyped ==
    ASSUME requests \subseteq Requests, asked \subseteq Attempts,
           NEW rs \in SUBSET Requests, Emit(rs)
    PROVE  requests' \subseteq Requests /\ asked' \subseteq Attempts
BY DEF Emit

\* Publishing a result leaves a well-typed alternative and a report.
LEMMA PublishTyped ==
    ASSUME outcome \in [Attempts -> Reports], NEW p \in ProxyStates,
           p.worker \in Attempts, p.work \in Results, Publish(p)
    PROVE  proxy' \in ProxyStates /\ Custodian' /\ outcome' \in [Attempts -> Reports]
<1>1. outcome' \in [Attempts -> Reports]
  <2>1. (IF p.work = "Ready" /\ p.stopped THEN <<"Ready", "WorkerStopped">>
                                          ELSE <<p.work>>) \in Reports
    <3>1. CASE p.work = "Ready" /\ p.stopped
      BY <3>1 DEF Reports, Results
    <3>2. CASE ~(p.work = "Ready" /\ p.stopped)
      <4>1. p.work \in Results \cup {"WorkerStopped", "CancelledBeforeBirth"}
        OBVIOUS
      <4>2. <<p.work>> \in Reports
        BY <4>1, Singleton DEF Reports
      <4>3. QED BY <3>2, <4>2
    <3>3. QED BY <3>1, <3>2
  <2>2. QED BY <2>1, ReportTyped DEF Publish
<1>2. \/ proxy' = Owning("Ready", p.worker)
      \/ proxy' = Owning("EmptyInitial", p.replaces)
      \/ proxy' = Owning("EmptyAfter", p.replaces) /\ p.replaces # 0
      \/ proxy' = Owning("EmptyAfter", p.worker)
  BY DEF Publish
<1>3. p.replaces \in 0..MaxAttempts /\ p.worker \in 0..MaxAttempts
  BY MaxAttemptsAssumption DEF ProxyStates, Attempts
<1>4. proxy' \in ProxyStates
  BY <1>2, <1>3, OwningTyped DEF States, Empty
<1>5. Custodian'
  BY <1>2, <1>3, MaxAttemptsAssumption DEF Custodian, Owning, Attempts, Held
<1>6. QED BY <1>1, <1>4, <1>5

\* A settled start is published or kept as a result.
LEMMA SettleStartTyped ==
    ASSUME FoldTyped, proxy.worker \in Attempts, NEW result \in Results,
           SettleStart(result)
    PROVE  proxy' \in ProxyStates /\ Custodian' /\ outcome' \in [Attempts -> Reports]
<1> DEFINE p == [proxy EXCEPT !.at = "SuccessorResultAwaitingShutdown", !.work = result,
                              !.stopped = FALSE, !.resolved = FALSE]
<1>1. p \in ProxyStates /\ p.worker \in Attempts /\ p.work \in Results
      /\ p.at = "SuccessorResultAwaitingShutdown"
  BY Zenon DEF FoldTyped, ProxyStates, States, Replacing, Works
<1>2. CASE proxy.awaiting
  <2>1. proxy' = p /\ outcome' = outcome
    BY <1>2 DEF SettleStart
  <2>2. QED BY <1>1, <2>1 DEF FoldTyped, Custodian
<1>3. CASE ~proxy.awaiting
  <2>1. Publish(p)
    BY <1>3 DEF SettleStart
  <2> HIDE DEF p
  <2>2. QED BY <1>1, <2>1, PublishTyped DEF FoldTyped
<1>4. QED BY <1>2, <1>3

\* Retirement waits for the predecessor or stops, and keeps the worker.
LEMMA RetiredTyped ==
    ASSUME NEW p \in ProxyStates
    PROVE  /\ Retired(p) \in ProxyStates
           /\ Retired(p).worker = p.worker
           /\ Retired(p).at \in {"WaitingForPredecessor", "Stopped"}
<1>1. CASE p.awaiting
  <2>1. Retired(p) =
          [at |-> "WaitingForPredecessor", worker |-> p.worker, replaces |-> p.replaces,
           awaiting |-> TRUE, stopped |-> FALSE, resolved |-> FALSE, work |-> "None",
           successor |-> 0]
    BY Zenon, <1>1 DEF Retired, Owning
  <2>2. QED BY <2>1, MaxAttemptsAssumption DEF ProxyStates, States, ShuttingDown, Works
<1>2. CASE ~p.awaiting
  <2>1. Retired(p) = Owning("Stopped", p.worker)
    BY <1>2 DEF Retired
  <2>2. p.worker \in 0..MaxAttempts /\ "Stopped" \in States
    BY DEF ProxyStates, States
  <2>3. QED BY <2>1, <2>2, OwningTyped DEF Owning
<1>3. QED BY <1>1, <1>2

\* A successor that departed is an ordinary departure.
LEMMA ShutdownResolvedRejoins ==
    ASSUME NEW p
    PROVE  ShutdownResolved(p) = Rejoin(p)
BY DEF ShutdownResolved, SuccessorDeparted, Rejoin

\* A joined departure waits for outstanding work or retires.
LEMMA RejoinTyped ==
    ASSUME NEW p \in ProxyStates
    PROVE  /\ Rejoin(p) \in ProxyStates
           /\ Rejoin(p).worker = p.worker
           /\ Rejoin(p).at \in {p.at, "WaitingForInitialization", "WaitingForStartup",
                                "WaitingForPredecessor", "Stopped"}
<1>1. CASE ~Joined(p)
  BY <1>1 DEF Rejoin
<1>2. CASE Joined(p) /\ Rejoin(p) = Retired(p)
  BY <1>2, RetiredTyped
<1>3. CASE \E at \in {"WaitingForInitialization", "WaitingForStartup"} :
              Rejoin(p) = [p EXCEPT !.at = at]
  BY <1>3 DEF ProxyStates, States, ShuttingDown
<1>4. QED BY <1>1, <1>2, <1>3 DEF Rejoin

\* An alternative with the same worker that is not a replacement's own keeps
\* the custody facts.
LEMMA SameWorkerTyped ==
    ASSUME proxy.worker \in Attempts, proxy'.worker = proxy.worker,
           proxy'.at \notin {"ReturningPredecessor", "SuccessorResultAwaitingShutdown"}
    PROVE  Custodian'
BY DEF Custodian

\* Changing the alternative, the work or the parts retained keeps the type.
LEMMA MoveTyped ==
    ASSUME proxy \in ProxyStates, proxy.worker \in Attempts,
           NEW at \in States, NEW work \in Works, NEW stopped \in BOOLEAN,
           NEW resolved \in BOOLEAN, NEW awaiting \in BOOLEAN,
           at \notin {"ReturningPredecessor", "SuccessorResultAwaitingShutdown"},
           proxy' = [proxy EXCEPT !.at = at, !.work = work, !.stopped = stopped,
                                  !.resolved = resolved, !.awaiting = awaiting]
    PROVE  proxy' \in ProxyStates /\ Custodian'
<1>1. proxy' \in ProxyStates /\ proxy'.worker = proxy.worker /\ proxy'.at = at
  BY Zenon DEF ProxyStates
<1>2. QED BY Zenon, <1>1, SameWorkerTyped

\* The names of the alternatives a fold moves to.
LEMMA Names ==
    /\ StartPhases \cup Departures \cup ShuttingDown \cup {"Ready", "Stopped"} \subseteq States
    /\ StartPhases \cup ShuttingDown \cup {"Ready", "EmptyAfter"} \cup Replacing \subseteq Held
    /\ {"None", "Pending", "WaitingForStart", "Running", "Returned"} \subseteq Works
    /\ Results \subseteq Works
BY DEF States, Held, StartPhases, Departures, ShuttingDown, Works, Empty, Replacing

\* A shutdown of the owner in every alternative.
LEMMA OwnerShutdownTyped ==
    ASSUME FoldTyped, next \in 1..(MaxAttempts + 1), OwnerShutdown
    PROVE  FoldTyped' /\ next' \in 1..(MaxAttempts + 1)
<1>0. UNCHANGED <<next, diagnosed>> /\ proxy \in ProxyStates
  BY DEF OwnerShutdown, FoldTyped
<1>1. CASE proxy.at \in Empty
  <2>1. proxy' = Owning("Stopped", proxy.worker)
        /\ UNCHANGED <<requests, asked, outcome>>
    BY <1>1 DEF OwnerShutdown, ShutdownStart, ShutdownReplacement, Silent, Empty,
                StartPhases, ShuttingDown, Departures
  <2>2. proxy' \in ProxyStates
    BY Zenon, <2>1, <1>0, Names, OwningTyped DEF ProxyStates
  <2>3. Custodian'
    BY <2>1 DEF Custodian, Held, Owning
  <2>4. QED BY <1>0, <2>1, <2>2, <2>3 DEF FoldTyped
<1>2. CASE proxy.at \notin Empty
  <2>0. proxy.worker \in Attempts
    BY <1>2, Names DEF OwnerShutdown, FoldTyped, Custodian, Held, ProxyStates, Empty
  <2>1. CASE proxy.at \in ShuttingDown /\ UNCHANGED <<proxy, requests, asked, outcome>>
    BY <1>0, <2>1 DEF FoldTyped, Custodian
  <2>2. CASE proxy.at = "Ready"
             /\ proxy' = [proxy EXCEPT !.at = "ShutdownReturningWorker"]
             /\ Emit({Ask("ShutdownEstablished", proxy.worker)})
             /\ UNCHANGED outcome
    <3>1. "ShutdownReturningWorker" \in States
      BY DEF States, ShuttingDown, Departures
    <3>2. proxy' \in ProxyStates /\ proxy'.worker = proxy.worker
          /\ proxy'.at = "ShutdownReturningWorker"
      BY <1>0, <2>2, <3>1 DEF ProxyStates
    <3>3. Custodian'
      BY <2>0, <3>2, SameWorkerTyped
    <3>4. requests' \subseteq Requests /\ asked' \subseteq Attempts
      BY <2>0, <2>2, AskTyped, EmitTyped DEF FoldTyped
    <3>5. QED BY <1>0, <2>2, <3>2, <3>3, <3>4 DEF FoldTyped
  <2>3. CASE ShutdownStart
    <3>1. /\ proxy' \in ProxyStates
          /\ proxy'.worker = proxy.worker
          /\ proxy'.at \in ShuttingDown
      <4>1. \/ \E at \in ShuttingDown : proxy' = [proxy EXCEPT !.at = at]
            \/ \E at \in ShuttingDown :
                  proxy' = [proxy EXCEPT !.at = at, !.work = "Pending"]
        BY <2>3 DEF ShutdownStart, ShuttingDown, Departures
      <4>2. ASSUME NEW at \in ShuttingDown, proxy' = [proxy EXCEPT !.at = at]
            PROVE  proxy' \in ProxyStates /\ proxy'.worker = proxy.worker /\ proxy'.at = at
        BY <1>0, <4>2, Names DEF ProxyStates
      <4>3. ASSUME NEW at \in ShuttingDown,
                   proxy' = [proxy EXCEPT !.at = at, !.work = "Pending"]
            PROVE  proxy' \in ProxyStates /\ proxy'.worker = proxy.worker /\ proxy'.at = at
        BY Zenon, <1>0, <4>3, Names DEF ProxyStates
      <4>4. QED BY Zenon, <4>1, <4>2, <4>3
    <3>2. Custodian'
      BY <2>0, <3>1, SameWorkerTyped DEF ShuttingDown, Departures
    <3>3. UNCHANGED outcome
      BY Zenon, <2>3 DEF ShutdownStart
    <3>4. requests' \subseteq Requests /\ asked' \subseteq Attempts
      <4>1. CASE Emit({Ask("ShutdownEstablished", proxy.worker)})
        BY <2>0, <4>1, AskTyped, EmitTyped DEF FoldTyped
      <4>2. CASE Silent
        BY <4>2 DEF Silent, FoldTyped
      <4>3. QED BY <2>3, <4>1, <4>2 DEF ShutdownStart
    <3>5. QED BY <1>0, <3>1, <3>2, <3>3, <3>4 DEF FoldTyped
  <2>4. CASE ShutdownReplacement
    <3>1. CASE proxy.at = "ReturningPredecessor"
      <4>1. /\ proxy' = [proxy EXCEPT !.at = "ShutdownReturningPredecessor"]
            /\ Report(proxy.successor, <<"CancelledBeforeBirth">>)
            /\ UNCHANGED <<requests, asked>>
        BY <2>4, <3>1 DEF ShutdownReplacement, Silent
      <4>2. /\ proxy' \in ProxyStates
            /\ proxy'.worker = proxy.worker
            /\ proxy'.at = "ShutdownReturningPredecessor"
        BY <1>0, <4>1, Names DEF ProxyStates, ShuttingDown, Departures
      <4>3. Custodian'
        BY <2>0, <4>2, SameWorkerTyped
      <4>4. outcome' \in [Attempts -> Reports]
        <5>1. <<"CancelledBeforeBirth">> \in Reports
          BY Singleton DEF Reports
        <5>2. proxy.successor \in Attempts
          BY <3>1 DEF FoldTyped, Custodian
        <5>3. QED BY <4>1, <5>1, <5>2, ReportTyped DEF FoldTyped
      <4>5. QED BY <1>0, <4>1, <4>2, <4>3, <4>4 DEF FoldTyped
    <3>2. CASE proxy.at = "SuccessorResultAwaitingShutdown"
      <4>1. CASE /\ proxy' = [proxy EXCEPT !.at = "ReturningSuccessor", !.work = "None"]
                 /\ Emit({Ask("ShutdownEstablished", proxy.worker)})
                 /\ UNCHANGED outcome
        <5>1. /\ proxy' \in ProxyStates
              /\ proxy'.worker = proxy.worker
              /\ proxy'.at = "ReturningSuccessor"
          BY Zenon, <1>0, <4>1, Names DEF ProxyStates, ShuttingDown, Departures
        <5>2. Custodian'
          BY <2>0, <5>1, SameWorkerTyped
        <5>3. requests' \subseteq Requests /\ asked' \subseteq Attempts
          BY <2>0, <4>1, AskTyped, EmitTyped DEF FoldTyped
        <5>4. QED BY <1>0, <4>1, <5>1, <5>2, <5>3 DEF FoldTyped
      <4>2. CASE proxy' = Retired(proxy) /\ UNCHANGED <<requests, asked, outcome>>
        <5>1. Custodian'
          BY <1>0, <2>0, <4>2, RetiredTyped, SameWorkerTyped
        <5>2. QED BY <1>0, <4>2, <5>1, RetiredTyped DEF FoldTyped
      <4>3. QED BY <2>4, <3>2, <4>1, <4>2 DEF ShutdownReplacement, Silent
    <3>3. QED BY <2>4, <3>1, <3>2 DEF ShutdownReplacement
  <2>5. QED BY <1>2, <2>1, <2>2, <2>3, <2>4 DEF OwnerShutdown
<1>3. QED BY <1>1, <1>2

\* Owner and service turns.
LEMMA OwnerTyped ==
    ASSUME FoldTyped, next \in 1..(MaxAttempts + 1), Owner
    PROVE  FoldTyped' /\ next' \in 1..(MaxAttempts + 1)
<1> USE MaxAttemptsAssumption
<1>1. CASE UNCHANGED vars
  BY <1>1 DEF vars, FoldTyped, Custodian
<1>2. CASE OwnerStart /\ next \in Attempts
           /\ proxy' = Creating(next, 0, FALSE) /\ next' = next + 1
           /\ Emit({Ask("CreateChild", next)}) /\ UNCHANGED <<outcome, diagnosed>>
  <2>1. proxy' \in ProxyStates /\ Custodian'
    <3>1. 0 \in 0..MaxAttempts OBVIOUS
    <3>2. QED BY Zenon, <1>2, <3>1, CreatingTyped
  <2>2. requests' \subseteq Requests /\ asked' \subseteq Attempts
    BY <1>2, AskTyped, EmitTyped DEF FoldTyped
  <2>3. next' \in 1..(MaxAttempts + 1)
    BY <1>2 DEF Attempts
  <2>4. QED BY Zenon, <1>2, <2>1, <2>2, <2>3 DEF FoldTyped
<1>3. CASE OwnerReplace /\ ~UNCHANGED vars
  <2>0. next \in Attempts /\ next' = next + 1 /\ UNCHANGED <<outcome, diagnosed>>
        /\ proxy.worker \in Attempts
    BY Zenon, <1>3 DEF OwnerReplace, FoldTyped, Custodian, Held, States, Empty
  <2>1. CASE proxy' = [proxy EXCEPT !.at = "ReturningPredecessor", !.successor = next]
             /\ Emit({Ask("ShutdownEstablished", proxy.worker)})
    <3> next \in 0..MaxAttempts /\ "ReturningPredecessor" \in States
      BY <2>0 DEF Attempts, States, Replacing
    <3>0. proxy' \in ProxyStates
      BY Zenon, <2>1 DEF FoldTyped, ProxyStates
    <3>1. proxy' \in ProxyStates /\ Custodian'
      BY <2>0, <2>1, <3>0 DEF FoldTyped, ProxyStates, Custodian
    <3>2. requests' \subseteq Requests /\ asked' \subseteq Attempts
      BY <2>0, <2>1, AskTyped, EmitTyped DEF FoldTyped
    <3>3. QED BY <2>0, <3>1, <3>2 DEF FoldTyped, Attempts
  <2>2. CASE proxy' = Creating(next, proxy.worker, FALSE)
             /\ Emit({Ask("CreateChild", next)})
    <3>1. proxy' \in ProxyStates /\ Custodian'
      BY Zenon, <2>0, <2>2, CreatingTyped DEF FoldTyped, ProxyStates
    <3>2. requests' \subseteq Requests /\ asked' \subseteq Attempts
      BY <2>0, <2>2, AskTyped, EmitTyped DEF FoldTyped
    <3>3. QED BY <2>0, <3>1, <3>2 DEF FoldTyped, Attempts
  <2>3. QED BY Zenon, <1>3, <2>1, <2>2 DEF OwnerReplace
<1>4. CASE OwnerShutdown
  BY <1>4, OwnerShutdownTyped
<1>5. QED BY Zenon, <1>1, <1>2, <1>3, <1>4 DEF Owner, OwnerStart

\* A diagnosed fact changes nothing but the diagnostics.
LEMMA DiagnoseTyped ==
    ASSUME FoldTyped, NEW f \in Facts, Diagnose(f)
    PROVE  FoldTyped'
BY DEF Diagnose, FoldTyped, Custodian

\* The creation result keeps the fold well typed.
LEMMA WorkersCreatedTyped ==
    ASSUME FoldTyped, NEW f \in Facts, WorkersCreated(f)
    PROVE  FoldTyped'
<1>1. CASE ~CreationAdmitted(f)
  BY <1>1, DiagnoseTyped DEF WorkersCreated
<1>2. CASE CreationAdmitted(f)
  <2>0. proxy \in ProxyStates /\ proxy.worker \in Attempts /\ UNCHANGED diagnosed
    BY <1>2, Names DEF CreationAdmitted, WorkersCreated, FoldTyped, Custodian, Facts
  <2>1. CASE proxy' = [proxy EXCEPT !.at = "Initializing"]
             /\ Emit({Ask("InitializeWorker", proxy.worker)}) /\ UNCHANGED outcome
    <3>1. /\ proxy' \in ProxyStates /\ proxy'.worker = proxy.worker
          /\ proxy'.at = "Initializing"
      BY <2>0, <2>1, Names DEF ProxyStates, StartPhases
    <3>2. Custodian'
      BY <2>0, <3>1, SameWorkerTyped
    <3>3. requests' \subseteq Requests /\ asked' \subseteq Attempts
      BY <2>0, <2>1, AskTyped, EmitTyped DEF FoldTyped
    <3>4. QED BY <2>0, <2>1, <3>1, <3>2, <3>3 DEF FoldTyped
  <2>2. CASE BeginShutdownInitialization /\ UNCHANGED outcome
    <3>0. \E at \in {"WaitingForInitialization", "DepartingInitialization"} :
             proxy' = [proxy EXCEPT !.at = at, !.work = "Pending"]
      BY <2>2 DEF BeginShutdownInitialization
    <3>1. /\ proxy' \in ProxyStates /\ proxy'.worker = proxy.worker
          /\ proxy'.at \in {"WaitingForInitialization", "DepartingInitialization"}
      BY Zenon, <2>0, <3>0, Names DEF ProxyStates, ShuttingDown, Departures
    <3>2. Custodian'
      BY <2>0, <3>1, SameWorkerTyped
    <3>3. requests' \subseteq Requests /\ asked' \subseteq Attempts
      <4>1. {Ask("InitializeWorker", proxy.worker)} \subseteq Requests
            /\ {Ask("InitializeWorker", proxy.worker),
                Ask("ShutdownEstablished", proxy.worker)} \subseteq Requests
        BY <2>0, AskTyped
      <4>2. QED BY <2>2, <4>1, EmitTyped DEF BeginShutdownInitialization, FoldTyped
    <3>4. QED BY <2>0, <2>2, <3>1, <3>2, <3>3 DEF FoldTyped
  <2>3. CASE SettleStart("CreationRejected") /\ Silent
    BY <2>0, <2>3, SettleStartTyped DEF FoldTyped, Silent, Results
  <2>4. CASE proxy' = Retired(proxy) /\ UNCHANGED outcome /\ Silent
    <3>1. Custodian'
      BY <2>0, <2>4, RetiredTyped, SameWorkerTyped
    <3>2. QED BY <2>0, <2>4, <3>1, RetiredTyped DEF FoldTyped, Silent
  <2>5. QED BY <1>2, <2>1, <2>2, <2>3, <2>4 DEF WorkersCreated
<1>3. QED BY <1>1, <1>2

\* A worker that failed before readiness is shut down.
LEMMA ReturnWorkerTyped ==
    ASSUME FoldTyped, proxy.worker \in Attempts, ReturnWorker, UNCHANGED diagnosed
    PROVE  FoldTyped'
<1>1. /\ proxy' \in ProxyStates /\ proxy'.worker = proxy.worker
      /\ proxy'.at = "ReturningWorker"
  BY Zenon, Names DEF ReturnWorker, ProxyStates, StartPhases, FoldTyped
<1>2. Custodian'
  BY <1>1, SameWorkerTyped
<1>3. requests' \subseteq Requests /\ asked' \subseteq Attempts
  BY AskTyped, EmitTyped DEF ReturnWorker, FoldTyped
<1>4. QED BY <1>1, <1>2, <1>3 DEF FoldTyped, ReturnWorker

\* The initialization result keeps the fold well typed.
LEMMA WorkerInitializedTyped ==
    ASSUME FoldTyped, NEW f \in Facts, WorkerInitialized(f)
    PROVE  FoldTyped'
<1>1. CASE ~InitializationAdmitted(f)
  BY <1>1, DiagnoseTyped DEF WorkerInitialized
<1>2. CASE InitializationAdmitted(f)
  <2>0. proxy \in ProxyStates /\ proxy.worker \in Attempts /\ UNCHANGED diagnosed
    BY <1>2 DEF InitializationAdmitted, WorkerInitialized, FoldTyped, Facts
  <2>1. CASE InitializationResolved(f)
    <3>1. CASE proxy' = [proxy EXCEPT !.at = "Starting", !.work = "WaitingForStart"]
               /\ Emit({Ask("StartWorker", proxy.worker)}) /\ UNCHANGED outcome
      <4>1. /\ proxy' \in ProxyStates /\ proxy'.worker = proxy.worker
            /\ proxy'.at = "Starting"
        BY Zenon, <2>0, <3>1, Names DEF ProxyStates, StartPhases
      <4>2. Custodian'
        BY <2>0, <4>1, SameWorkerTyped
      <4>3. requests' \subseteq Requests /\ asked' \subseteq Attempts
        BY <2>0, <3>1, AskTyped, EmitTyped DEF FoldTyped
      <4>4. QED BY <2>0, <3>1, <4>1, <4>2, <4>3 DEF FoldTyped
    <3>2. CASE ReturnWorker
      BY <2>0, <3>2, ReturnWorkerTyped
    <3>3. CASE SettleStart("Unavailable") /\ Silent
      BY <2>0, <3>3, SettleStartTyped DEF FoldTyped, Silent, Results
    <3>4. QED BY <2>1, <3>1, <3>2, <3>3 DEF InitializationResolved
  <2>2. CASE InitializedDuringShutdown(f) /\ proxy.at # "Initializing"
    <3>1. CASE proxy' = Retired(proxy)
      <4>1. Custodian'
        BY <2>0, <3>1, RetiredTyped, SameWorkerTyped
      <4>2. QED BY <2>0, <2>2, <3>1, <4>1, RetiredTyped
                DEF FoldTyped, Silent, InitializedDuringShutdown
    <3>2. CASE /\ proxy.at = "DepartingInitialization"
               /\ proxy' = Rejoin([proxy EXCEPT !.work = "Returned",
                                               !.stopped = @ \/ f.result = "Stopped"])
      <4> DEFINE p == [proxy EXCEPT !.work = "Returned",
                                    !.stopped = @ \/ f.result = "Stopped"]
      <4>1. p \in ProxyStates /\ p.worker = proxy.worker /\ p.at = "DepartingInitialization"
        BY Zenon, <2>0, <3>2, Names DEF ProxyStates
      <4>2. proxy' = Rejoin(p)
        BY <3>2
      <4> HIDE DEF p
      <4>3. /\ proxy' \in ProxyStates /\ proxy'.worker = proxy.worker
            /\ proxy'.at \notin {"ReturningPredecessor", "SuccessorResultAwaitingShutdown"}
        BY <4>1, <4>2, RejoinTyped
      <4>4. Custodian'
        BY <2>0, <4>3, SameWorkerTyped
      <4>5. QED BY <2>0, <2>2, <4>3, <4>4 DEF FoldTyped, Silent, InitializedDuringShutdown
    <3>3. QED BY <1>2, <2>2, <3>1, <3>2 DEF InitializedDuringShutdown, InitializationAdmitted
  <2>3. QED BY <1>2, <2>1, <2>2 DEF WorkerInitialized
<1>3. QED BY <1>1, <1>2

\* A startup report keeps the fold well typed.
LEMMA WorkerStartupReportedTyped ==
    ASSUME FoldTyped, NEW f \in Facts, WorkerStartupReported(f)
    PROVE  FoldTyped'
<1>1. CASE ~StartupAdmitted(f)
  BY <1>1, DiagnoseTyped DEF WorkerStartupReported
<1>2. CASE StartupAdmitted(f)
  <2>0. /\ proxy \in ProxyStates /\ proxy.worker \in Attempts /\ UNCHANGED diagnosed
        /\ proxy.at \in {"Starting", "DepartingStartup", "WaitingForStartup"}
    BY <1>2 DEF StartupAdmitted, WorkerStartupReported, FoldTyped, Facts
  <2>1. CASE SettleStart("Unavailable") /\ Silent
    BY <2>0, <2>1, SettleStartTyped DEF FoldTyped, Silent, Results
  <2>2. CASE SettleStart("Ready") /\ Silent
    BY <2>0, <2>2, SettleStartTyped DEF FoldTyped, Silent, Results
  <2>3. CASE ReturnWorker
    BY <2>0, <2>3, ReturnWorkerTyped
  <2>4. CASE /\ \E work \in {"Running", "Returned"} : proxy' = [proxy EXCEPT !.work = work]
             /\ Silent /\ UNCHANGED outcome
    <3>1. proxy' \in ProxyStates /\ proxy'.worker = proxy.worker /\ proxy'.at = proxy.at
      BY <2>0, <2>4, Names DEF ProxyStates
    <3>2. Custodian'
      BY <2>0, <3>1, SameWorkerTyped
    <3>3. QED BY <2>0, <2>4, <3>1, <3>2 DEF FoldTyped, Silent
  <2>5. CASE proxy' = Retired(proxy) /\ Silent /\ UNCHANGED outcome
    <3>1. Custodian'
      BY <2>0, <2>5, RetiredTyped, SameWorkerTyped
    <3>2. QED BY <2>0, <2>5, <3>1, RetiredTyped DEF FoldTyped, Silent
  <2>6. CASE StartupProgressed(f)
    BY <2>1, <2>2, <2>3, <2>4, <2>6 DEF StartupProgressed
  <2>7. CASE StartupDuringShutdown(f)
    BY <2>4, <2>5, <2>7 DEF StartupDuringShutdown
  <2>8. QED BY <1>2, <2>6, <2>7 DEF WorkerStartupReported
<1>3. QED BY <1>1, <1>2

\* A worker stop keeps the fold well typed.
LEMMA WorkerStoppedTyped ==
    ASSUME FoldTyped, NEW f \in Facts, WorkerStopped(f)
    PROVE  FoldTyped'
<1>1. CASE ~StopAdmitted(f)
  BY <1>1, DiagnoseTyped DEF WorkerStopped
<1>2. CASE StopAdmitted(f)
  <2>0. proxy \in ProxyStates /\ proxy.worker \in Attempts /\ UNCHANGED diagnosed
    BY <1>2 DEF StopAdmitted, WorkerStopped, FoldTyped, Facts
  <2> <<"WorkerStopped">> \in Reports
    BY Singleton DEF Reports
  <2>1. CASE /\ proxy' = Owning("EmptyAfter", proxy.worker)
             /\ Report(proxy.worker, <<"WorkerStopped">>) /\ Silent
    <3>1. proxy' \in ProxyStates
      BY <2>0, <2>1, OwningTyped DEF ProxyStates, States, Empty
    <3>2. Custodian'
      BY <2>0, <2>1, SameWorkerTyped DEF Owning
    <3>3. outcome' \in [Attempts -> Reports]
      BY <2>0, <2>1, ReportTyped DEF FoldTyped
    <3>4. QED BY <2>0, <2>1, <3>1, <3>2, <3>3 DEF FoldTyped, Silent
  <2>2. CASE SettleStart("Unavailable") /\ Silent
    BY <2>0, <2>2, SettleStartTyped DEF FoldTyped, Silent, Results
  <2>3. CASE proxy' = [proxy EXCEPT !.stopped = TRUE] /\ Silent /\ UNCHANGED outcome
             /\ proxy.at # "ReturningPredecessor"
    <3>1. proxy' \in ProxyStates /\ proxy'.worker = proxy.worker
          /\ proxy'.at = proxy.at /\ proxy'.work = proxy.work
      BY Zenon, <2>0, <2>3 DEF ProxyStates
    <3>2. Custodian'
      BY <2>0, <2>3, <3>1 DEF FoldTyped, Custodian
    <3>3. QED BY <2>0, <2>3, <3>1, <3>2 DEF FoldTyped, Silent
  <2>4. CASE /\ proxy.at = "ReturningPredecessor"
             /\ proxy' = Creating(proxy.successor, proxy.worker, ~proxy.resolved)
             /\ Emit({Ask("CreateChild", proxy.successor)})
             /\ Report(proxy.worker, <<"WorkerStopped">>)
    <3>0. /\ proxy.successor \in Attempts
          /\ proxy.worker \in 0..MaxAttempts
          /\ (~proxy.resolved) \in BOOLEAN
      BY <2>0, <2>4 DEF FoldTyped, Custodian, ProxyStates
    <3>1. proxy' \in ProxyStates /\ Custodian'
      BY Zenon, <2>4, <3>0, CreatingTyped
    <3>2. requests' \subseteq Requests /\ asked' \subseteq Attempts
      BY <2>4, <3>0, AskTyped, EmitTyped DEF FoldTyped
    <3>3. outcome' \in [Attempts -> Reports]
      BY <2>0, <2>4, ReportTyped DEF FoldTyped
    <3>4. QED BY <2>0, <3>1, <3>2, <3>3 DEF FoldTyped
  <2>5. CASE ShutdownStopped
    <3> DEFINE p == [proxy EXCEPT !.stopped = TRUE]
    <3>1. p \in ProxyStates /\ p.worker = proxy.worker /\ p.at = proxy.at
      BY Zenon, <2>0 DEF ProxyStates
    <3>2. proxy' = Rejoin(p) /\ Silent /\ UNCHANGED outcome /\ proxy.at \in ShuttingDown
      BY <2>5 DEF ShutdownStopped
    <3> HIDE DEF p
    <3>3. /\ proxy' \in ProxyStates /\ proxy'.worker = proxy.worker
          /\ proxy'.at \notin {"ReturningPredecessor", "SuccessorResultAwaitingShutdown"}
      BY <3>1, <3>2, RejoinTyped DEF ShuttingDown, Departures
    <3>4. Custodian'
      BY <2>0, <3>3, SameWorkerTyped
    <3>5. QED BY <2>0, <3>2, <3>3, <3>4 DEF FoldTyped, Silent
  <2>6. CASE StartStopped
    BY <2>2, <2>3, <2>6 DEF StartStopped, StartPhases
  <2>7. CASE ReplacementStopped
    BY <2>3, <2>4, <2>7 DEF ReplacementStopped
  <2>8. QED BY <1>2, <2>1, <2>5, <2>6, <2>7 DEF WorkerStopped
<1>3. QED BY <1>1, <1>2

\* A shutdown result keeps the fold well typed.
LEMMA WorkerShutdownResolvedTyped ==
    ASSUME FoldTyped, NEW f \in Facts, WorkerShutdownResolved(f)
    PROVE  FoldTyped'
<1>1. CASE Diagnose(f)
  BY <1>1, DiagnoseTyped
<1>2. CASE PredecessorResolved(f) /\ Silent /\ UNCHANGED diagnosed
  <2>0. proxy \in ProxyStates /\ proxy.worker \in Attempts
    BY <1>2, Names DEF PredecessorResolved, PredecessorResolution, FoldTyped, Custodian,
                       Replacing, ShuttingDown, Departures
  <2>1. CASE /\ proxy.at \in StartPhases \cup {"ReturningSuccessor"}
             /\ proxy' = [proxy EXCEPT !.awaiting = FALSE] /\ UNCHANGED outcome
    <3>1. proxy' \in ProxyStates /\ proxy'.worker = proxy.worker /\ proxy'.at = proxy.at
      BY Zenon, <2>0, <2>1 DEF ProxyStates
    <3>2. Custodian'
      BY <2>0, <2>1, <3>1, SameWorkerTyped DEF StartPhases
    <3>3. QED BY <1>2, <2>1, <3>1, <3>2 DEF FoldTyped, Silent
  <2>2. CASE proxy.at = "SuccessorResultAwaitingShutdown" /\ Publish(proxy)
    <3>1. proxy.work \in Results
      BY <2>2 DEF FoldTyped, Custodian
    <3>2. QED BY <1>2, <2>0, <2>2, <3>1, PublishTyped DEF FoldTyped, Silent
  <2>3. CASE proxy' = Owning("Stopped", proxy.worker) /\ UNCHANGED outcome
    <3>1. proxy' \in ProxyStates
      BY Zenon, <2>0, <2>3, Names, OwningTyped DEF ProxyStates
    <3>2. Custodian'
      BY <2>0, <2>3, SameWorkerTyped DEF Owning
    <3>3. QED BY <1>2, <2>3, <3>1, <3>2 DEF FoldTyped, Silent
  <2>4. QED
    BY <1>2, <2>1, <2>2, <2>3 DEF PredecessorResolved
<1>3. CASE DepartureResolved(f) /\ Silent /\ UNCHANGED diagnosed
  <2>0. proxy \in ProxyStates /\ proxy.worker \in Attempts
    BY <1>3 DEF DepartureResolved, DepartureResolution, FoldTyped, Facts
  <2>1. CASE SettleStart("Unavailable")
    BY <1>3, <2>0, <2>1, SettleStartTyped DEF FoldTyped, Silent, Results
  <2> DEFINE p == [proxy EXCEPT !.resolved = TRUE]
  <2>2. CASE proxy' = Rejoin(p) /\ proxy.at \in Departures /\ UNCHANGED outcome
    <3>1. p \in ProxyStates /\ p.worker = proxy.worker /\ p.at = proxy.at
      BY Zenon, <2>0 DEF ProxyStates
    <3> HIDE DEF p
    <3>2. /\ proxy' \in ProxyStates /\ proxy'.worker = proxy.worker
          /\ proxy'.at \notin {"ReturningPredecessor", "SuccessorResultAwaitingShutdown"}
      BY <2>2, <3>1, RejoinTyped DEF Departures
    <3>3. Custodian'
      BY <2>0, <3>2, SameWorkerTyped
    <3>4. QED BY <1>3, <2>2, <3>2, <3>3 DEF FoldTyped, Silent
  <2>3. CASE proxy' = p /\ UNCHANGED outcome
    <3>1. /\ proxy' \in ProxyStates /\ proxy'.worker = proxy.worker
          /\ proxy'.at = proxy.at /\ proxy'.work = proxy.work
          /\ proxy'.successor = proxy.successor
      BY Zenon, <2>0, <2>3 DEF ProxyStates
    <3>2. Custodian'
      BY <2>0, <3>1 DEF FoldTyped, Custodian
    <3>3. QED BY <1>3, <2>3, <3>1, <3>2 DEF FoldTyped, Silent
  <2>4. QED
    BY <1>3, <2>1, <2>2, <2>3, ShutdownResolvedRejoins DEF DepartureResolved
<1>4. QED BY <1>1, <1>2, <1>3 DEF WorkerShutdownResolved

\* Runtime answers and stops add facts about attempts.
LEMMA RuntimeTyped ==
    ASSUME TypeInv, NEW a \in Attempts, SettleRequest(a) \/ StopWorker(a)
    PROVE  TypeInv'
<1>0. UNCHANGED <<proxy, next, asked, outcome, served, diagnosed>>
  BY DEF SettleRequest, SettleCreation, SettleInitialization, SettleStartup, SettleShutdown,
         StopWorker, Answer
<1>1. host' \in [Attempts -> {"unborn", "alive", "dead"}]
  BY Zenon DEF SettleRequest, SettleCreation, SettleInitialization, SettleStartup, SettleShutdown,
         StopWorker, TypeInv, TypeOK
<1>2. requests' \subseteq Requests
  BY AskTyped DEF SettleRequest, SettleCreation, SettleInitialization, SettleStartup,
         SettleShutdown, StopWorker, Answer, TypeInv, TypeOK
<1>3. facts' \subseteq Facts
  <2>1. \A k \in FactKinds, r \in FactResults : Fact(k, a, r) \in Facts
    BY DEF Fact, Facts
  <2>2. QED
    BY <2>1 DEF SettleRequest, SettleCreation, SettleInitialization, SettleStartup,
         SettleShutdown, StopWorker, Answer, TypeInv, TypeOK, FactKinds, FactResults
<1>4. QED BY <1>0, <1>1, <1>2, <1>3 DEF TypeInv, TypeOK, Custodian

\* Every step keeps TypeInv.
LEMMA TypeStep ==
    ASSUME TypeInv, [Next]_vars
    PROVE  TypeInv'
<1>0. FoldTyped
  BY DEF TypeInv, TypeOK, FoldTyped, Reports
<1>1. CASE Owner
  <2>1. FoldTyped' /\ next' \in 1..(MaxAttempts + 1)
    BY <1>0, <1>1, OwnerTyped DEF TypeInv, TypeOK
  <2>2. UNCHANGED <<facts, host, served>>
    BY Zenon, <1>1 DEF Owner, OwnerStart, OwnerReplace, OwnerShutdown, vars
  <2>3. QED BY <2>1, <2>2 DEF FoldTyped, TypeInv, TypeOK, Reports
<1>2. CASE Service
  <2>1. served' \subseteq Attempts
    BY <1>2, Names DEF Service, TypeInv, TypeOK, Custodian
  <2>2. UNCHANGED <<proxy, next, requests, facts, host, asked, outcome, diagnosed>>
    BY <1>2 DEF Service
  <2>3. QED BY <2>1, <2>2 DEF TypeInv, TypeOK, Custodian
<1>3. ASSUME NEW f \in facts, Handle(f) PROVE TypeInv'
  <2>1. f \in Facts
    BY DEF TypeInv, TypeOK
  <2>2. FoldTyped'
    <3>1. CASE WorkersCreated(f)
      BY <1>0, <2>1, <3>1, WorkersCreatedTyped
    <3>2. CASE WorkerInitialized(f)
      BY <1>0, <2>1, <3>2, WorkerInitializedTyped
    <3>3. CASE WorkerStartupReported(f)
      BY <1>0, <2>1, <3>3, WorkerStartupReportedTyped
    <3>4. CASE WorkerStopped(f)
      BY <1>0, <2>1, <3>4, WorkerStoppedTyped
    <3>5. CASE WorkerShutdownResolved(f)
      BY <1>0, <2>1, <3>5, WorkerShutdownResolvedTyped
    <3>6. QED BY <1>3, <3>1, <3>2, <3>3, <3>4, <3>5 DEF Handle
  <2>3. facts' \subseteq Facts /\ UNCHANGED <<next, host, served>>
    BY <1>3 DEF Handle, TypeInv, TypeOK
  <2>4. QED BY <2>2, <2>3 DEF FoldTyped, TypeInv, TypeOK, Reports
<1>4. CASE \E a \in Attempts : SettleRequest(a) \/ StopWorker(a)
  BY <1>4, RuntimeTyped
<1>5. CASE UNCHANGED vars
  BY <1>5 DEF vars, TypeInv, TypeOK, Custodian
<1>6. QED BY <1>1, <1>2, <1>3, <1>4, <1>5 DEF Next

\* The dormant proxy satisfies TypeInv.
LEMMA TypeInit == Init => TypeInv
<1> SUFFICES ASSUME Init PROVE TypeInv
  OBVIOUS
<1>1. proxy \in ProxyStates
  <2>1. 0 \in 0..MaxAttempts /\ "Dormant" \in States
    BY MaxAttemptsAssumption DEF States, Empty
  <2>2. QED BY <2>1, OwningTyped DEF Init
<1>2. Custodian
  BY DEF Init, Custodian, Owning, Held
<1>3. outcome \in [Attempts -> Reports]
  BY DEF Init, Reports
<1>4. QED BY <1>1, <1>2, <1>3, MaxAttemptsAssumption DEF Init, TypeInv, TypeOK, Reports

\* Every reachable state is well typed, and each alternative that names a worker
\* names an issued attempt, for any number of attempts.
THEOREM TypeCorrect == Spec => []TypeOK
<1>1. TypeInv => TypeOK
  BY DEF TypeInv
<1>2. QED BY <1>1, TypeInit, TypeStep, PTL DEF Spec

-----------------------------------------------------------------------------
(* At most one incarnation.                                                  *)

NoneLive == \A a \in Attempts : ~Live(a)

\* What a fold does to the identities the proxy holds, to the custody of a live
\* worker, and to the outstanding requests, when it creates no worker.
Moves ==
    /\ proxy'.worker \in {proxy.worker, proxy.replaces}
    /\ proxy'.replaces \in {0, proxy.replaces}
    /\ proxy'.successor \in {0, proxy.successor}
    /\ proxy'.at = "ReturningPredecessor" =>
          /\ proxy.at = "ReturningPredecessor"
          /\ proxy'.worker = proxy.worker /\ proxy'.successor = proxy.successor

Keeps == Hosting /\ ~NoneLive => proxy'.worker = proxy.worker /\ Hosting'

Quiet ==
    \A r \in requests' : \/ r \in requests
                         \/ /\ r.op # "CreateChild" /\ r.worker = proxy.worker
                            /\ r.op = "InitializeWorker" => host[r.worker] # "unborn"

\* Without a live worker of its own the proxy has none at all.
LEMMA NotHosting ==
    ASSUME IInv, ~Hosting \/ ~Live(proxy.worker)
    PROVE  NoneLive
BY DEF IInv, OnlyWorkerLives, NoneLive

\* A fact that parts with the proxy's worker leaves none alive.
LEMMA PartingFact ==
    ASSUME IInv, NEW f \in facts, Parting(f), f.worker = proxy.worker
    PROVE  NoneLive
BY NotHosting DEF IInv, PartedAreDead

\* A fold that creates no worker preserves the inductive invariant.
LEMMA QuietFold ==
    ASSUME IInv, TypeInv', Moves, Keeps, Quiet,
           facts' \subseteq facts, UNCHANGED <<next, host>>,
           proxy.worker \in Attempts \/ requests' \subseteq requests
    PROVE  IInv'
<1>0. TypeInv /\ next \in Nat /\ 0 < next
  BY MaxAttemptsAssumption DEF IInv, TypeInv, TypeOK
<1>1. \A a \in Attempts : Live(a)' => Live(a)
  BY DEF Live, Quiet, Ask
<1>2. OnlyWorkerLives'
  BY <1>1 DEF OnlyWorkerLives, IInv, Keeps, NoneLive
<1>3. PartedAreDead'
  <2>1. \A f \in facts : f.worker \in Attempts
    BY <1>0 DEF TypeInv, TypeOK, Facts
  <2>2. QED BY <1>1, <2>1 DEF IInv, PartedAreDead, Parting
<1>4. Freshness'
  <2>1. \A a \in Nat : Touched(a) => Touched(a)'
    BY DEF Touched, Moves
  <2>2. requests \subseteq Requests /\ facts \subseteq Facts
        /\ Attempts \subseteq Nat
    BY <1>0 DEF TypeInv, TypeOK, Attempts
  <2>3. \A r \in requests : r.worker \in Nat /\ Touched(r.worker)
    BY Zenon, <2>2 DEF IInv, Freshness, Requests
  <2>4. \A f \in facts : f.worker \in Nat /\ Touched(f.worker)
    BY Zenon, <2>2 DEF IInv, Freshness, Facts
  <2>5. proxy.worker \in Nat /\ Touched(proxy.worker)
    BY <1>0 DEF IInv, Freshness, Touched, TypeInv, TypeOK, ProxyStates
  <2>6. \A r \in requests' : Touched(r.worker)'
    BY <2>1, <2>3, <2>5 DEF Quiet
  <2>7. \A f \in facts' : Touched(f.worker)'
    BY <2>1, <2>4
  <2>8. \A a \in Attempts : host'[a] # "unborn" => Touched(a)'
    BY <2>1, <2>2 DEF IInv, Freshness
  <2>9. /\ proxy'.worker < next' /\ proxy'.replaces < next' /\ proxy'.successor < next'
        /\ proxy'.at = "ReturningPredecessor" => proxy'.worker # proxy'.successor
    BY <1>0 DEF Moves, IInv, Freshness
  <2>10. QED BY <2>6, <2>7, <2>8, <2>9 DEF Freshness
<1>5. Births'
  BY Zenon DEF Births, Quiet, Ask, IInv
<1>6. QED BY <1>2, <1>3, <1>4, <1>5 DEF IInv

\* Publishing and settling a start.
LEMMA PublishMoves ==
    ASSUME NEW p, Publish(p)
    PROVE  /\ proxy'.worker \in {p.worker, p.replaces}
           /\ proxy'.replaces = 0 /\ proxy'.successor = 0 /\ ~proxy'.stopped
           /\ proxy'.at \in {"Ready", "EmptyInitial", "EmptyAfter"}
           /\ p.work = "Ready" /\ ~p.stopped =>
                 proxy'.at = "Ready" /\ proxy'.worker = p.worker
BY DEF Publish, Owning

\* Settling a start keeps its worker and issues no attempt.
LEMMA SettleStartMoves ==
    ASSUME TypeInv, NEW result \in Results, SettleStart(result)
    PROVE  /\ Moves
           /\ result = "Ready" /\ proxy.worker \in Attempts =>
                 proxy'.worker = proxy.worker /\ Hosting'
<1> DEFINE p == [proxy EXCEPT !.at = "SuccessorResultAwaitingShutdown", !.work = result,
                              !.stopped = FALSE, !.resolved = FALSE]
<1>1. /\ p.worker = proxy.worker /\ p.replaces = proxy.replaces
      /\ p.successor = proxy.successor /\ ~p.stopped /\ p.work = result
      /\ p.at = "SuccessorResultAwaitingShutdown"
  BY DEF TypeInv, TypeOK, ProxyStates
<1>2. CASE proxy.awaiting
  <2>1. proxy' = p
    BY <1>2 DEF SettleStart
  <2> HIDE DEF p
  <2>2. QED BY <1>1, <2>1 DEF Moves, Hosting
<1>3. CASE ~proxy.awaiting
  <2>1. Publish(p)
    BY <1>3 DEF SettleStart
  <2> HIDE DEF p
  <2>2. QED BY <1>1, <2>1, PublishMoves DEF Moves, Hosting
<1>4. QED BY <1>2, <1>3

\* Finishing a retirement names the same worker.
LEMMA RetiredMoves ==
    ASSUME NEW p
    PROVE  /\ Retired(p).worker = p.worker
           /\ Retired(p).replaces \in {0, p.replaces}
           /\ Retired(p).successor = 0
           /\ Retired(p).at \in {"WaitingForPredecessor", "Stopped"}
BY DEF Retired, Owning

\* Joining stop and shutdown result names the same worker.
LEMMA RejoinMoves ==
    ASSUME NEW p \in ProxyStates
    PROVE  /\ Rejoin(p).worker = p.worker
           /\ Rejoin(p).replaces \in {0, p.replaces}
           /\ Rejoin(p).successor \in {0, p.successor}
           /\ Rejoin(p).at \in {p.at, "WaitingForInitialization", "WaitingForStartup",
                                "WaitingForPredecessor", "Stopped"}
           /\ Rejoin(p) = p \/ p.stopped
<1>1. CASE ~Joined(p)
  BY <1>1 DEF Rejoin
<1>2. CASE Joined(p) /\ Rejoin(p) = Retired(p)
  BY <1>2, RetiredMoves DEF Joined
<1>3. CASE Joined(p) /\ \E at \in {"WaitingForInitialization", "WaitingForStartup"} :
              Rejoin(p) = [p EXCEPT !.at = at]
  BY <1>3 DEF ProxyStates, Joined
<1>4. QED BY <1>1, <1>2, <1>3 DEF Rejoin

\* Emitting anything but a creation is quiet.
LEMMA EmitQuiet ==
    ASSUME \/ Silent
           \/ Emit({Ask("StartWorker", proxy.worker)})
           \/ Emit({Ask("ShutdownEstablished", proxy.worker)})
           \/ /\ host[proxy.worker] # "unborn"
              /\ \/ Emit({Ask("InitializeWorker", proxy.worker)})
                 \/ Emit({Ask("InitializeWorker", proxy.worker),
                          Ask("ShutdownEstablished", proxy.worker)})
    PROVE  Quiet
<1>1. CASE Silent
  BY <1>1 DEF Silent, Quiet
<1>2. ASSUME NEW rs, Emit(rs),
             \A r \in rs : /\ r.op # "CreateChild" /\ r.worker = proxy.worker
                           /\ r.op = "InitializeWorker" => host[r.worker] # "unborn"
      PROVE  Quiet
  BY <1>2 DEF Emit, Quiet
<1>3. \A op \in {"InitializeWorker", "StartWorker", "ShutdownEstablished"} :
         Ask(op, proxy.worker).op = op /\ Ask(op, proxy.worker).worker = proxy.worker
  BY DEF Ask
<1>4. QED BY <1>1, <1>2, <1>3

\* What QuietFold asks of a handler.
Folds == Moves /\ Keeps /\ Quiet /\ (proxy.worker \in Attempts \/ requests' \subseteq requests)

\* Returning a fact as a diagnostic changes no ownership.
LEMMA DiagnoseFolds ==
    ASSUME NEW f, Diagnose(f)
    PROVE  Folds
<1>1. proxy' = proxy /\ requests' = requests
  BY DEF Diagnose
<1>2. Moves
  BY <1>1 DEF Moves
<1>3. Keeps
  BY <1>1 DEF Keeps, Hosting
<1>4. QED BY <1>1, <1>2, <1>3 DEF Folds, Quiet

\* A new alternative that keeps the identities and, when it hosted a live
\* worker, still hosts it.
LEMMA RenamedFolds ==
    ASSUME proxy.worker \in Attempts, Quiet,
           proxy'.worker = proxy.worker, proxy'.replaces \in {0, proxy.replaces},
           proxy'.successor \in {0, proxy.successor},
           proxy'.at # "ReturningPredecessor",
           \/ NoneLive
           \/ ~Hosting
           \/ /\ ~proxy.stopped => ~proxy'.stopped
              /\ proxy'.at \in StartPhases \cup Departures
    PROVE  Folds
BY DEF Folds, Moves, Keeps, Hosting

\* The creation result is a legal fold of a pending fact.
LEMMA WorkersCreatedFolds ==
    ASSUME IInv, NEW f \in facts, WorkersCreated(f)
    PROVE  Folds
<1>0. proxy \in ProxyStates /\ f.worker \in Attempts
  BY DEF IInv, TypeInv, TypeOK, Facts
<1>1. CASE ~CreationAdmitted(f)
  BY <1>1, DiagnoseFolds DEF WorkersCreated
<1>2. CASE CreationAdmitted(f)
  <2>0. proxy.worker = f.worker /\ proxy.worker \in Attempts
    BY <1>0, <1>2 DEF CreationAdmitted
  <2>1. CASE f.result = "Established"
    <3>0. host[proxy.worker] # "unborn"
      <4>1. f = Fact("Created", f.worker, "Established")
        BY <2>1 DEF WorkersCreated, Fact, IInv, TypeInv, TypeOK, Facts
      <4>2. QED BY <2>0, <4>1 DEF IInv, Births
    <3>1. Quiet
      BY <1>2, <2>1, <3>0, EmitQuiet DEF WorkersCreated, BeginShutdownInitialization
    <3>2. \/ proxy' = [proxy EXCEPT !.at = "Initializing"]
          \/ proxy.stopped
             /\ proxy' = [proxy EXCEPT !.at = "WaitingForInitialization", !.work = "Pending"]
          \/ proxy' = [proxy EXCEPT !.at = "DepartingInitialization", !.work = "Pending"]
      BY <1>2, <2>1 DEF WorkersCreated, BeginShutdownInitialization
    <3>3. /\ proxy'.worker = proxy.worker /\ proxy'.replaces = proxy.replaces
          /\ proxy'.successor = proxy.successor /\ proxy'.stopped = proxy.stopped
          /\ proxy'.at \in {"Initializing", "WaitingForInitialization",
                            "DepartingInitialization"}
          /\ proxy.stopped \/ proxy'.at # "WaitingForInitialization"
      BY Zenon, <1>0, <3>2 DEF ProxyStates
    <3>4. QED BY <2>0, <3>1, <3>3, RenamedFolds DEF StartPhases, Departures, Hosting
  <2>2. CASE f.result = "Rejected"
    <3>1. NoneLive
      BY <2>0, <2>2, PartingFact DEF Parting, WorkersCreated
    <3>2. Quiet
      BY <1>2, <2>2, EmitQuiet DEF WorkersCreated
    <3>3. CASE SettleStart("CreationRejected")
      <4>1. Moves
        BY <3>3, SettleStartMoves DEF IInv, Results
      <4>2. QED BY <2>0, <3>1, <3>2, <4>1 DEF Folds, Keeps
    <3>4. CASE proxy' = Retired(proxy)
      BY <2>0, <3>1, <3>2, <3>4, RetiredMoves, RenamedFolds
    <3>5. QED BY <1>2, <2>2, <3>3, <3>4 DEF WorkersCreated
  <2>3. QED BY <1>2, <2>1, <2>2 DEF WorkersCreated
<1>3. QED BY <1>1, <1>2

\* The initialization result is a legal fold of a pending fact.
LEMMA WorkerInitializedFolds ==
    ASSUME IInv, NEW f \in facts, WorkerInitialized(f)
    PROVE  Folds
<1>0. proxy \in ProxyStates /\ f.worker \in Attempts
  BY DEF IInv, TypeInv, TypeOK, Facts
<1>1. CASE ~InitializationAdmitted(f)
  BY <1>1, DiagnoseFolds DEF WorkerInitialized
<1>2. CASE InitializationAdmitted(f)
  <2>0. proxy.worker = f.worker /\ proxy.worker \in Attempts
    BY <1>0, <1>2 DEF InitializationAdmitted
  <2>1. Quiet
    BY <1>2, EmitQuiet DEF WorkerInitialized, InitializationResolved, ReturnWorker,
                           InitializedDuringShutdown
  <2>2. f.result = "Stopped" => NoneLive
    BY <2>0, PartingFact DEF Parting, WorkerInitialized
  <2>3. CASE InitializationResolved(f)
    <3>1. CASE \/ proxy' = [proxy EXCEPT !.at = "Starting", !.work = "WaitingForStart"]
               \/ ReturnWorker
      <4>1. /\ proxy'.worker = proxy.worker /\ proxy'.replaces = proxy.replaces
            /\ proxy'.successor = proxy.successor /\ proxy'.stopped = proxy.stopped
            /\ proxy'.at \in {"Starting", "ReturningWorker"}
        BY Zenon, <1>0, <3>1 DEF ProxyStates, ReturnWorker
      <4>2. QED BY <2>0, <2>1, <4>1, RenamedFolds DEF StartPhases
    <3>2. CASE SettleStart("Unavailable") /\ (f.result = "Stopped" \/ proxy.stopped)
      <4>1. Moves
        BY <3>2, SettleStartMoves DEF IInv, Results
      <4>2. Keeps
        BY <2>2, <3>2 DEF Keeps, Hosting
      <4>3. QED BY <2>0, <2>1, <4>1, <4>2 DEF Folds
    <3>3. QED BY <2>3, <3>1, <3>2 DEF InitializationResolved
  <2>4. CASE InitializedDuringShutdown(f) /\ proxy.at # "Initializing"
    <3>1. CASE proxy.at = "WaitingForInitialization" /\ proxy' = Retired(proxy)
      <4>1. ~Hosting
        BY <3>1 DEF Hosting, StartPhases, Departures
      <4>2. QED BY <2>0, <2>1, <3>1, <4>1, RetiredMoves, RenamedFolds
    <3>2. CASE /\ proxy.at = "DepartingInitialization"
               /\ proxy' = Rejoin([proxy EXCEPT !.work = "Returned",
                                               !.stopped = @ \/ f.result = "Stopped"])
      <4> DEFINE p == [proxy EXCEPT !.work = "Returned",
                                    !.stopped = @ \/ f.result = "Stopped"]
      <4>1. /\ p \in ProxyStates /\ p.worker = proxy.worker /\ p.at = proxy.at
            /\ p.replaces = proxy.replaces /\ p.successor = proxy.successor
            /\ p.stopped => proxy.stopped \/ f.result = "Stopped"
        BY Zenon, <1>0, Names DEF ProxyStates
      <4>2. proxy' = Rejoin(p)
        BY <3>2
      <4> HIDE DEF p
      <4>3. /\ proxy'.worker = proxy.worker
            /\ proxy'.replaces \in {0, proxy.replaces}
            /\ proxy'.successor \in {0, proxy.successor}
            /\ proxy'.at # "ReturningPredecessor"
            /\ proxy' = p \/ p.stopped
        BY <3>2, <4>1, <4>2, RejoinMoves
      <4>4. \/ NoneLive \/ ~Hosting
            \/ ~proxy'.stopped /\ proxy'.at = "DepartingInitialization"
        BY <2>2, <3>2, <4>1, <4>3 DEF Hosting
      <4>5. QED BY <2>0, <2>1, <4>3, <4>4, RenamedFolds DEF Departures
    <3>3. QED BY <1>2, <2>4, <3>1, <3>2 DEF InitializedDuringShutdown, InitializationAdmitted
  <2>5. QED BY <1>2, <2>3, <2>4 DEF WorkerInitialized
<1>3. QED BY <1>1, <1>2

\* A startup report is a legal fold of a pending fact.
LEMMA WorkerStartupReportedFolds ==
    ASSUME IInv, NEW f \in facts, WorkerStartupReported(f)
    PROVE  Folds
<1>0. proxy \in ProxyStates /\ f.worker \in Attempts
  BY DEF IInv, TypeInv, TypeOK, Facts
<1>1. CASE ~StartupAdmitted(f)
  BY <1>1, DiagnoseFolds DEF WorkerStartupReported
<1>2. CASE StartupAdmitted(f)
  <2>0. /\ proxy.worker = f.worker /\ proxy.worker \in Attempts
        /\ proxy.at \in {"Starting", "DepartingStartup", "WaitingForStartup"}
    BY <1>0, <1>2 DEF StartupAdmitted
  <2>1. Quiet
    BY <1>2, EmitQuiet DEF WorkerStartupReported, StartupProgressed, ReturnWorker,
                           StartupDuringShutdown
  <2>2. CASE \/ \E work \in {"Running", "Returned"} : proxy' = [proxy EXCEPT !.work = work]
             \/ ReturnWorker
    <3>1. /\ proxy'.worker = proxy.worker /\ proxy'.replaces = proxy.replaces
          /\ proxy'.successor = proxy.successor /\ proxy'.stopped = proxy.stopped
          /\ proxy'.at \in {proxy.at, "ReturningWorker"}
      BY Zenon, <1>0, <2>2 DEF ProxyStates, ReturnWorker
    <3>2. Hosting => proxy.at # "WaitingForStartup"
      BY DEF Hosting, StartPhases, Departures
    <3>3. QED BY <2>0, <2>1, <3>1, <3>2, RenamedFolds DEF StartPhases, Departures
  <2>3. CASE SettleStart("Unavailable") /\ proxy.stopped
    <3>1. Moves
      BY <2>3, SettleStartMoves DEF IInv, Results
    <3>2. Keeps
      BY <2>3 DEF Keeps, Hosting
    <3>3. QED BY <2>0, <2>1, <3>1, <3>2 DEF Folds
  <2>4. CASE SettleStart("Ready")
    <3>1. Moves /\ proxy'.worker = proxy.worker /\ Hosting'
      BY <2>0, <2>4, SettleStartMoves DEF IInv, Results
    <3>2. QED BY <2>0, <2>1, <3>1 DEF Folds, Keeps
  <2>5. CASE proxy' = Retired(proxy) /\ proxy.at = "WaitingForStartup"
    <3>1. ~Hosting
      BY <2>5 DEF Hosting, StartPhases, Departures
    <3>2. QED BY <2>0, <2>1, <2>5, <3>1, RetiredMoves, RenamedFolds
  <2>6. CASE StartupProgressed(f)
    BY <2>2, <2>3, <2>4, <2>6 DEF StartupProgressed
  <2>7. CASE StartupDuringShutdown(f) /\ proxy.at # "Starting"
    BY <2>0, <2>2, <2>5, <2>7 DEF StartupDuringShutdown
  <2>8. QED BY <1>2, <2>6, <2>7 DEF WorkerStartupReported
<1>3. QED BY <1>1, <1>2

\* A stop that creates no successor.
LEMMA WorkerStoppedFolds ==
    ASSUME IInv, NEW f \in facts, WorkerStopped(f),
           ~(StopAdmitted(f) /\ proxy.at = "ReturningPredecessor")
    PROVE  Folds
<1>0. proxy \in ProxyStates /\ f.worker \in Attempts
  BY DEF IInv, TypeInv, TypeOK, Facts
<1>1. CASE ~StopAdmitted(f)
  BY <1>1, DiagnoseFolds DEF WorkerStopped
<1>2. CASE StopAdmitted(f) /\ proxy.at # "ReturningPredecessor"
  <2>0. /\ proxy.worker = f.worker /\ proxy.worker \in Attempts
        /\ proxy.at # "ReturningPredecessor"
    BY <1>0, <1>2 DEF StopAdmitted
  <2>1. NoneLive
    BY <2>0, PartingFact DEF Parting, WorkerStopped
  <2>2. Silent
    BY <1>2 DEF WorkerStopped, StartStopped, ReplacementStopped, ShutdownStopped
  <2>3. Quiet
    BY <2>2, EmitQuiet
  <2>4. CASE SettleStart("Unavailable")
    <3>1. Moves
      BY <2>4, SettleStartMoves DEF IInv, Results
    <3>2. QED BY <2>0, <2>1, <2>3, <3>1 DEF Folds, Keeps
  <2>5. CASE proxy' = Owning("EmptyAfter", proxy.worker)
    <3>1. /\ proxy'.worker = proxy.worker /\ proxy'.replaces = 0 /\ proxy'.successor = 0
          /\ proxy'.at = "EmptyAfter"
      BY <2>5 DEF Owning
    <3>2. QED BY <2>0, <2>1, <2>3, <3>1, RenamedFolds
  <2> DEFINE p == [proxy EXCEPT !.stopped = TRUE]
  <2>6. /\ p \in ProxyStates /\ p.worker = proxy.worker /\ p.at = proxy.at
        /\ p.replaces = proxy.replaces /\ p.successor = proxy.successor
    BY Zenon, <1>0 DEF ProxyStates
  <2>7. CASE proxy' = p
    <3> HIDE DEF p
    <3>1. QED BY <2>0, <2>1, <2>3, <2>6, <2>7, RenamedFolds
  <2>8. CASE proxy' = Rejoin(p)
    <3> HIDE DEF p
    <3>1. /\ proxy'.worker = proxy.worker
          /\ proxy'.replaces \in {0, proxy.replaces}
          /\ proxy'.successor \in {0, proxy.successor}
          /\ proxy'.at # "ReturningPredecessor"
      BY <2>0, <2>6, <2>8, RejoinMoves
    <3>2. QED BY <2>0, <2>1, <2>3, <3>1, RenamedFolds
  <2>9. QED
    BY <1>2, <2>0, <2>4, <2>5, <2>7, <2>8
       DEF WorkerStopped, StartStopped, ReplacementStopped, ShutdownStopped
<1>3. QED BY <1>1, <1>2

\* A shutdown result is a legal fold of a pending fact.
LEMMA WorkerShutdownResolvedFolds ==
    ASSUME IInv, NEW f \in facts, WorkerShutdownResolved(f)
    PROVE  Folds
<1>0. proxy \in ProxyStates /\ f.worker \in Attempts /\ Custodian
  BY DEF IInv, TypeInv, TypeOK, Facts
<1>1. CASE Diagnose(f)
  BY <1>1, DiagnoseFolds
<1>2. CASE PredecessorResolved(f) /\ Silent
  <2>0. proxy.worker \in Attempts /\ Quiet
    BY <1>0, <1>2, Names, EmitQuiet DEF PredecessorResolved, PredecessorResolution,
       Custodian, Replacing, ShuttingDown, Departures
  <2>1. CASE /\ proxy.at \in StartPhases \cup {"ReturningSuccessor"}
             /\ proxy' = [proxy EXCEPT !.awaiting = FALSE]
    <3>1. /\ proxy'.worker = proxy.worker /\ proxy'.replaces = proxy.replaces
          /\ proxy'.successor = proxy.successor /\ proxy'.stopped = proxy.stopped
          /\ proxy'.at = proxy.at
      BY <1>0, <2>1 DEF ProxyStates
    <3>2. QED BY <2>0, <2>1, <3>1, RenamedFolds DEF StartPhases, Departures
  <2>2. CASE proxy.at = "SuccessorResultAwaitingShutdown" /\ Publish(proxy)
    <3>1. Moves
      BY <2>2, PublishMoves DEF Moves
    <3>2. Keeps
      BY <2>2, PublishMoves DEF Keeps, Hosting, StartPhases, Departures
    <3>3. QED BY <2>0, <3>1, <3>2 DEF Folds
  <2>3. CASE proxy.at = "WaitingForPredecessor" /\ proxy' = Owning("Stopped", proxy.worker)
    <3>1. /\ proxy'.worker = proxy.worker /\ proxy'.replaces = 0 /\ proxy'.successor = 0
          /\ proxy'.at = "Stopped" /\ ~Hosting
      BY <2>3 DEF Owning, Hosting, StartPhases, Departures
    <3>2. QED BY <2>0, <3>1, RenamedFolds
  <2>4. QED BY <1>2, <2>1, <2>2, <2>3 DEF PredecessorResolved
<1>3. CASE DepartureResolved(f) /\ Silent
  <2>0. proxy.worker \in Attempts /\ Quiet
    BY <1>0, <1>3, EmitQuiet DEF DepartureResolved, DepartureResolution
  <2>1. CASE proxy.stopped /\ SettleStart("Unavailable")
    <3>1. Moves
      BY <2>1, SettleStartMoves DEF IInv, Results
    <3>2. Keeps
      BY <2>1 DEF Keeps, Hosting
    <3>3. QED BY <2>0, <3>1, <3>2 DEF Folds
  <2> DEFINE p == [proxy EXCEPT !.resolved = TRUE]
  <2>2. /\ p \in ProxyStates /\ p.worker = proxy.worker /\ p.at = proxy.at
        /\ p.replaces = proxy.replaces /\ p.successor = proxy.successor
        /\ p.stopped = proxy.stopped
    BY Zenon, <1>0 DEF ProxyStates
  <2>3. CASE proxy' = Rejoin(p) /\ proxy.at \in Departures
    <3> HIDE DEF p
    <3>1. /\ proxy'.worker = proxy.worker
          /\ proxy'.replaces \in {0, proxy.replaces}
          /\ proxy'.successor \in {0, proxy.successor}
          /\ proxy'.at # "ReturningPredecessor"
          /\ proxy' = p \/ proxy.stopped
      BY <2>2, <2>3, RejoinMoves DEF Departures
    <3>2. QED BY <2>0, <2>2, <2>3, <3>1, RenamedFolds DEF Hosting
  <2>4. CASE proxy' = p /\ proxy.at \in {"ReturningWorker", "ReturningPredecessor"}
    <3> HIDE DEF p
    <3>1. Moves
      BY <2>2, <2>4 DEF Moves
    <3>2. Keeps
      BY <2>2, <2>4 DEF Keeps, Hosting
    <3>3. QED BY <2>0, <3>1, <3>2 DEF Folds
  <2>5. QED
    BY <1>3, <2>1, <2>3, <2>4, ShutdownResolvedRejoins DEF DepartureResolved, DepartureResolution
<1>4. QED BY <1>1, <1>2, <1>3 DEF WorkerShutdownResolved

\* Owner shutdown is a legal fold without a fact.
LEMMA OwnerShutdownFolds ==
    ASSUME IInv, OwnerShutdown
    PROVE  Folds
<1>0. proxy \in ProxyStates /\ Custodian
  BY DEF IInv, TypeInv, TypeOK
<1>1. Quiet
  BY EmitQuiet DEF OwnerShutdown, ShutdownStart, ShutdownReplacement, Silent
<1>2. CASE proxy.at \in Empty
  <2>1. proxy' = Owning("Stopped", proxy.worker) /\ requests' = requests
    BY <1>2 DEF OwnerShutdown, ShutdownStart, ShutdownReplacement, Silent, Empty,
                StartPhases, ShuttingDown, Departures
  <2>2. ~Hosting
    BY <1>2 DEF Hosting, Empty, StartPhases, Departures
  <2>3. QED BY <1>1, <2>1, <2>2 DEF Folds, Moves, Keeps, Owning
<1>3. CASE proxy.at \notin Empty
  <2>0. proxy.worker \in Attempts
    BY <1>0, <1>3 DEF OwnerShutdown, Custodian, Held, ProxyStates, Empty
  <2>1. CASE UNCHANGED proxy
    <3>1. Moves
      BY <2>1 DEF Moves
    <3>2. Keeps
      BY <2>1 DEF Keeps, Hosting
    <3>3. QED BY <1>1, <2>0, <3>1, <3>2 DEF Folds
  <2>2. CASE \/ \E at \in Departures : proxy' = [proxy EXCEPT !.at = at]
             \/ \E at \in Departures, work \in Works :
                   proxy' = [proxy EXCEPT !.at = at, !.work = work]
    <3>1. /\ proxy'.worker = proxy.worker /\ proxy'.replaces = proxy.replaces
          /\ proxy'.successor = proxy.successor /\ proxy'.stopped = proxy.stopped
          /\ proxy'.at \in Departures
      BY Zenon, <1>0, <2>2 DEF ProxyStates
    <3>2. QED BY <1>1, <2>0, <3>1, RenamedFolds DEF Departures
  <2>3. CASE /\ proxy.stopped
             /\ \/ proxy' = [proxy EXCEPT !.at = "WaitingForInitialization",
                                          !.work = "Pending"]
                \/ proxy' = [proxy EXCEPT !.at = "WaitingForStartup"]
    <3>1. /\ proxy'.worker = proxy.worker /\ proxy'.replaces = proxy.replaces
          /\ proxy'.successor = proxy.successor
          /\ proxy'.at \in {"WaitingForInitialization", "WaitingForStartup"}
      BY Zenon, <1>0, <2>3 DEF ProxyStates
    <3>2. QED BY <1>1, <2>0, <2>3, <3>1, RenamedFolds DEF Hosting
  <2>4. CASE proxy.at = "Creating" /\ proxy' = [proxy EXCEPT !.at = "WaitingForCreation"]
    <3>1. /\ proxy'.worker = proxy.worker /\ proxy'.replaces = proxy.replaces
          /\ proxy'.successor = proxy.successor /\ proxy'.stopped = proxy.stopped
          /\ proxy'.at = "WaitingForCreation"
      BY <1>0, <2>4 DEF ProxyStates
    <3>2. Moves
      BY <3>1 DEF Moves
    <3>3. Keeps
      BY <2>0, <3>1 DEF Keeps, Hosting
    <3>4. QED BY <1>1, <2>0, <3>2, <3>3 DEF Folds
  <2>5. CASE /\ proxy.at = "SuccessorResultAwaitingShutdown" /\ proxy' = Retired(proxy)
             /\ ~(proxy.work = "Ready" /\ ~proxy.stopped)
    <3>1. ~Hosting
      BY <2>5 DEF Hosting, StartPhases, Departures
    <3>2. QED BY <1>1, <2>0, <2>5, <3>1, RetiredMoves, RenamedFolds
  <2>6. CASE ShutdownStart
    BY Zenon, <2>2, <2>3, <2>4, <2>6, Names DEF ShutdownStart, Departures
  <2>7. CASE ShutdownReplacement
    BY Zenon, <2>2, <2>5, <2>7, Names DEF ShutdownReplacement, Departures
  <2>8. CASE proxy' = [proxy EXCEPT !.at = "ShutdownReturningWorker"]
    BY <2>2, <2>8 DEF Departures
  <2>9. QED BY <1>3, <2>1, <2>6, <2>7, <2>8 DEF OwnerShutdown
<1>4. QED BY <1>2, <1>3

\* Creating an attempt nothing was said of, when no worker lives.
LEMMA CreationFold ==
    ASSUME IInv, TypeInv', NoneLive, NEW w \in Attempts, ~Touched(w), w < next',
           next' \in {next, next + 1}, NEW r, r < next, NEW b,
           proxy' = Creating(w, r, b), Emit({Ask("CreateChild", w)}),
           facts' \subseteq facts, host' = host
    PROVE  IInv'
<1>0. /\ next \in Nat /\ 0 < next /\ w \in Nat
      /\ requests \subseteq Requests /\ facts \subseteq Facts
  BY MaxAttemptsAssumption DEF IInv, TypeInv, TypeOK, Attempts
<1>1. requests' = requests \cup {Ask("CreateChild", w)}
  BY DEF Emit
<1>2. /\ proxy'.at = "Creating" /\ proxy'.worker = w /\ proxy'.replaces = r
      /\ ~proxy'.stopped /\ proxy'.successor = 0
  BY DEF Creating, Owning
<1>3. \A a \in Attempts : Live(a)' => a = w
  BY <1>1 DEF NoneLive, Live, Ask
<1>4. OnlyWorkerLives'
  BY <1>2, <1>3 DEF OnlyWorkerLives, Hosting, StartPhases
<1>5. PartedAreDead'
  <2>1. \A f \in facts : f.worker \in Attempts /\ f.worker # w
    BY <1>0 DEF IInv, Freshness, Facts
  <2>2. QED BY <1>3, <2>1 DEF PartedAreDead, Parting
<1>6. Freshness'
  <2>1. \A a \in Nat : Touched(a) => Touched(a)'
    BY <1>0, <1>2 DEF Touched
  <2>2. /\ \A q \in requests : q.worker \in Nat /\ Touched(q.worker)
        /\ \A f \in facts : f.worker \in Nat /\ Touched(f.worker)
        /\ Attempts \subseteq Nat
    BY <1>0 DEF IInv, Freshness, Requests, Facts, Attempts
  <2>3. Ask("CreateChild", w).worker = w /\ Touched(w)'
    BY <1>2 DEF Ask, Touched
  <2>4. \A q \in requests' : Touched(q.worker)'
    BY <1>1, <2>1, <2>2, <2>3
  <2>5. \A f \in facts' : Touched(f.worker)'
    BY <2>1, <2>2
  <2>6. \A a \in Attempts : host'[a] # "unborn" => Touched(a)'
    BY <2>1, <2>2 DEF IInv, Freshness
  <2>7. /\ proxy'.worker < next' /\ proxy'.replaces < next' /\ proxy'.successor < next'
    <3>1. r < next'
      <4>1. CASE next' = next
        BY <4>1
      <4>2. CASE next' = next + 1 /\ r \in Nat
        BY <1>0, <4>2
      <4>3. r \in Nat
        BY <1>2 DEF TypeInv, TypeOK, ProxyStates
      <4>4. QED BY <4>1, <4>2, <4>3
    <3>2. QED BY <1>0, <1>2, <3>1
  <2>8. QED BY <1>2, <2>4, <2>5, <2>6, <2>7 DEF Freshness
<1>7. Births'
  <2>1. host[w] = "unborn"
    BY DEF IInv, Freshness
  <2>2. QED BY Zenon, <1>1, <2>1 DEF Births, IInv, Ask
<1>8. QED BY <1>4, <1>5, <1>6, <1>7 DEF IInv

\* The ready worker is asked to make room for a reserved successor.
LEMMA ReserveFold ==
    ASSUME IInv, TypeInv', proxy.at = "Ready", next' = next + 1,
           proxy' = [proxy EXCEPT !.at = "ReturningPredecessor", !.successor = next],
           Emit({Ask("ShutdownEstablished", proxy.worker)}),
           UNCHANGED <<facts, host>>
    PROVE  IInv'
<1>0. /\ next \in Nat /\ proxy \in ProxyStates /\ proxy.worker \in Attempts
      /\ requests \subseteq Requests /\ facts \subseteq Facts
  BY MaxAttemptsAssumption, Names DEF IInv, TypeInv, TypeOK, Custodian
<1>1. requests' = requests \cup {Ask("ShutdownEstablished", proxy.worker)}
  BY DEF Emit
<1>2. /\ proxy'.at = "ReturningPredecessor" /\ proxy'.worker = proxy.worker
      /\ proxy'.replaces = proxy.replaces /\ proxy'.stopped = proxy.stopped
      /\ proxy'.successor = next
  BY <1>0 DEF ProxyStates
<1>3. \A a \in Attempts : Live(a)' => Live(a)
  BY <1>1 DEF Live, Ask
<1>4. OnlyWorkerLives'
  BY <1>2, <1>3 DEF OnlyWorkerLives, Hosting, IInv
<1>5. PartedAreDead'
  BY <1>0, <1>3 DEF PartedAreDead, Parting, IInv, Facts
<1>6. Freshness'
  <2>1. \A a \in Nat : Touched(a) => Touched(a)'
    BY <1>0, <1>2 DEF Touched
  <2>2. /\ \A q \in requests : q.worker \in Nat /\ Touched(q.worker)
        /\ \A f \in facts : f.worker \in Nat /\ Touched(f.worker)
        /\ Attempts \subseteq Nat
    BY <1>0 DEF IInv, Freshness, Requests, Facts, Attempts
  <2>3. /\ Ask("ShutdownEstablished", proxy.worker).worker = proxy.worker
        /\ Touched(proxy.worker)'
    BY <1>0, <2>1, <2>2 DEF Ask, Touched, IInv, Freshness
  <2>4. \A q \in requests' : Touched(q.worker)'
    BY <1>1, <2>1, <2>2, <2>3
  <2>5. \A f \in facts' : Touched(f.worker)'
    BY <2>1, <2>2
  <2>6. \A a \in Attempts : host'[a] # "unborn" => Touched(a)'
    BY <2>1, <2>2 DEF IInv, Freshness
  <2>7. proxy.worker < next /\ proxy.replaces < next
        /\ proxy.worker \in Nat /\ proxy.replaces \in Nat
    BY <1>0 DEF IInv, Freshness, ProxyStates
  <2>8. QED BY <1>0, <1>2, <2>4, <2>5, <2>6, <2>7 DEF Freshness
<1>7. Births'
  BY Zenon, <1>1 DEF Births, IInv, Ask
<1>8. QED BY <1>4, <1>5, <1>6, <1>7 DEF IInv

\* A runtime step adds facts about one attempt and settles or stops it.
RuntimeMove(a, fs) ==
    /\ Touched(a)
    /\ UNCHANGED <<proxy, next>>
    /\ facts' = facts \cup fs
    /\ \A f \in fs : f.worker = a
    /\ Fact("Created", a, "Established") \in fs => host'[a] # "unborn"
    /\ \A r \in requests' : \/ r \in requests
                            \/ r.op = "RunPlan" /\ r.worker = a
    /\ \A b \in Attempts : b # a => host'[b] = host[b]
    /\ host[a] # "unborn" => host'[a] # "unborn"
    /\ Live(a)' => Live(a)
    /\ \A f \in facts' : Parting(f) /\ f.worker = a => ~Live(a)'
    /\ Ask("CreateChild", a) \in requests' => host'[a] = "unborn"

\* A move of the runtime on one attempt keeps IInv.
LEMMA RuntimeFold ==
    ASSUME IInv, TypeInv', NEW a \in Attempts, NEW fs, RuntimeMove(a, fs)
    PROVE  IInv'
<1> USE DEF RuntimeMove
<1>0. facts \subseteq Facts /\ requests \subseteq Requests
  BY DEF IInv, TypeInv, TypeOK
<1>1. \A b \in Attempts : Live(b)' => Live(b)
  BY DEF Live, Ask
<1>2. OnlyWorkerLives'
  BY <1>1 DEF OnlyWorkerLives, Hosting, IInv
<1>3. PartedAreDead'
  BY <1>0, <1>1 DEF PartedAreDead, Parting, IInv, Facts
<1>4. Freshness'
  <2>1. \A b : Touched(b)' <=> Touched(b)
    BY DEF Touched
  <2>2. /\ \A r \in requests' : Touched(r.worker)'
        /\ \A f \in facts' : Touched(f.worker)'
    BY <2>1 DEF IInv, Freshness
  <2>3. \A b \in Attempts : host'[b] # "unborn" => Touched(b)'
    BY <2>1 DEF IInv, Freshness
  <2>4. QED BY <2>2, <2>3 DEF IInv, Freshness
<1>5. Births'
  BY Zenon DEF Births, IInv, Ask, Fact
<1>6. QED BY <1>2, <1>3, <1>4, <1>5 DEF IInv

\* An answer to a request and a worker stop are such moves.
LEMMA RuntimeStep ==
    ASSUME IInv, TypeInv', NEW a \in Attempts, SettleRequest(a) \/ StopWorker(a)
    PROVE  IInv'
<1>0. /\ host \in [Attempts -> {"unborn", "alive", "dead"}]
      /\ UNCHANGED <<proxy, next>>
      /\ PartedAreDead /\ Births /\ Freshness
  BY DEF IInv, TypeInv, TypeOK, SettleRequest, SettleCreation, SettleInitialization,
         SettleStartup, SettleShutdown, StopWorker, Answer
<1>a. \A op : Ask(op, a) \in requests => Touched(a)
  BY <1>0 DEF Freshness, Ask
<1>b. \A k, r : /\ Fact(k, a, r).worker = a
                /\ Fact(k, a, r).kind = k
                /\ Fact(k, a, r).result = r
  BY DEF Fact
<1>c. \A op : Ask(op, a).op = op /\ Ask(op, a).worker = a
  BY DEF Ask
<1>1. CASE SettleCreation(a)
  <2>1. /\ Ask("CreateChild", a) \in requests
        /\ requests' = requests \ {Ask("CreateChild", a)}
    BY <1>1 DEF SettleCreation, Answer
  <2>2. Touched(a) /\ host[a] = "unborn" /\ Live(a)
    BY <1>0, <1>a, <2>1 DEF Births, Live
  <2>3. CASE /\ facts' = facts \cup {Fact("Created", a, "Established")}
             /\ host' = [host EXCEPT ![a] = "alive"]
    <3>1. \A f \in facts' : Parting(f) => f.worker # a
      BY <1>0, <1>b, <2>2, <2>3 DEF PartedAreDead, Parting
    <3>2. RuntimeMove(a, {Fact("Created", a, "Established")})
      BY <1>0, <1>b, <2>1, <2>2, <2>3, <3>1 DEF RuntimeMove
    <3>3. QED BY <1>0, <3>2, RuntimeFold
  <2>4. CASE /\ facts' = facts \cup {Fact("Created", a, "Rejected")}
             /\ host' = host
    <3>1. ~Live(a)'
      BY <2>1, <2>2, <2>4 DEF Live
    <3>2. Fact("Created", a, "Established") \notin {Fact("Created", a, "Rejected")}
      BY <1>b
    <3>3. RuntimeMove(a, {Fact("Created", a, "Rejected")})
      BY <1>0, <1>b, <2>1, <2>2, <2>4, <3>1, <3>2 DEF RuntimeMove
    <3>4. QED BY <3>3, RuntimeFold
  <2>5. QED BY <1>1, <2>3, <2>4 DEF SettleCreation, Answer
<1>2. CASE SettleInitialization(a)
  <2>1. /\ Ask("InitializeWorker", a) \in requests
        /\ requests' \subseteq requests
    BY <1>2 DEF SettleInitialization, Answer
  <2>2. Touched(a) /\ host[a] # "unborn" /\ Ask("CreateChild", a) \notin requests
    BY <1>0, <1>a, <2>1 DEF Births
  <2>3. ASSUME NEW result \in {"ReadyForStartup", "EffectsRejected"},
               facts' = facts \cup {Fact("Initialized", a, result)}, host' = host
        PROVE  IInv'
    <3>1. Live(a)' => Live(a)
      BY <2>1, <2>3 DEF Live
    <3>2. \A f \in facts' : Parting(f) /\ f.worker = a => ~Live(a)'
      BY <1>0, <1>b, <2>3, <3>1 DEF PartedAreDead, Parting
    <3>3. Fact("Created", a, "Established") \notin {Fact("Initialized", a, result)}
      BY <1>b
    <3>4. RuntimeMove(a, {Fact("Initialized", a, result)})
      BY <1>0, <1>b, <2>1, <2>2, <2>3, <3>1, <3>2, <3>3 DEF RuntimeMove
    <3>5. QED BY <3>4, RuntimeFold
  <2>4. ASSUME NEW fs, \A f \in fs : f.worker = a /\ f.kind # "Created",
               facts' = facts \cup fs, host' = [host EXCEPT ![a] = "dead"]
        PROVE  IInv'
    <3>1. ~Live(a)' /\ host'[a] = "dead"
      BY <1>0, <2>1, <2>2, <2>4 DEF Live
    <3>2. Fact("Created", a, "Established") \notin fs
      BY <1>b, <2>4
    <3>3. RuntimeMove(a, fs)
      BY <1>0, <2>1, <2>2, <2>4, <3>1, <3>2 DEF RuntimeMove
    <3>4. QED BY <3>3, RuntimeFold
  <2> DEFINE ds == {Fact("Initialized", a, "Stopped")}
                   \cup {f \in {Fact("WorkerStopped", a, "None")} : host[a] = "alive"}
  <2>5. \A f \in ds : f.worker = a /\ f.kind # "Created"
    BY <1>b
  <2>6. \/ \E result \in {"ReadyForStartup", "EffectsRejected"} :
              facts' = facts \cup {Fact("Initialized", a, result)} /\ host' = host
        \/ facts' = facts \cup ds /\ host' = [host EXCEPT ![a] = "dead"]
    BY <1>2 DEF SettleInitialization, Answer
  <2> HIDE DEF ds
  <2>7. QED BY <2>3, <2>4, <2>5, <2>6
<1>3. CASE SettleStartup(a) \/ SettleShutdown(a)
  <2>1. /\ \E op : Ask(op, a) \in requests
        /\ \A r \in requests' : r \in requests \/ r = Ask("RunPlan", a)
        /\ host' = host
        /\ \E k \in {"Startup", "ShutdownResolved"}, r \in FactResults :
              facts' = facts \cup {Fact(k, a, r)}
    BY <1>3 DEF SettleStartup, SettleShutdown, Answer, FactResults
  <2>2. PICK k \in {"Startup", "ShutdownResolved"}, r \in FactResults :
             facts' = facts \cup {Fact(k, a, r)}
    BY <2>1
  <2>3. Touched(a)
    BY <1>a, <2>1
  <2>4. Ask("CreateChild", a) \in requests' => Ask("CreateChild", a) \in requests
    BY <1>c, <2>1
  <2>5. Live(a)' => Live(a)
    BY <2>1, <2>4 DEF Live
  <2>6. \A f \in facts' : Parting(f) /\ f.worker = a => ~Live(a)'
    BY <1>0, <1>b, <2>2, <2>5 DEF PartedAreDead, Parting
  <2>7. Fact("Created", a, "Established") \notin {Fact(k, a, r)}
    BY <1>b
  <2>8. Ask("CreateChild", a) \in requests' => host'[a] = "unborn"
    BY <1>0, <2>1, <2>4 DEF Births
  <2>9. RuntimeMove(a, {Fact(k, a, r)})
    BY <1>0, <1>b, <1>c, <2>1, <2>2, <2>3, <2>5, <2>6, <2>7, <2>8 DEF RuntimeMove
  <2>10. QED BY <2>9, RuntimeFold
<1>4. CASE StopWorker(a)
  <2>1. /\ host[a] = "alive" /\ host' = [host EXCEPT ![a] = "dead"]
        /\ facts' = facts \cup {Fact("WorkerStopped", a, "None")}
        /\ requests' = requests
    BY <1>4 DEF StopWorker
  <2>2. Touched(a) /\ Ask("CreateChild", a) \notin requests
    BY <1>0, <2>1 DEF Freshness, Births
  <2>3. ~Live(a)' /\ host'[a] = "dead"
    BY <1>0, <2>1, <2>2 DEF Live
  <2>4. Fact("Created", a, "Established") \notin {Fact("WorkerStopped", a, "None")}
    BY <1>b
  <2>5. RuntimeMove(a, {Fact("WorkerStopped", a, "None")})
    BY <1>0, <1>b, <2>1, <2>2, <2>3, <2>4 DEF RuntimeMove
  <2>6. QED BY <2>5, RuntimeFold
<1>5. QED BY <1>1, <1>2, <1>3, <1>4 DEF SettleRequest

\* Every step keeps IInv.
LEMMA InductiveStep ==
    ASSUME IInv, [Next]_vars
    PROVE  IInv'
<1>0. TypeInv /\ TypeInv'
  BY TypeStep DEF IInv
<1>1. CASE OwnerStart /\ ~UNCHANGED vars
  <2>1. /\ proxy.at = "Dormant" /\ next \in Attempts /\ next' = next + 1
        /\ proxy' = Creating(next, 0, FALSE) /\ Emit({Ask("CreateChild", next)})
        /\ UNCHANGED <<facts, host>>
    BY Zenon, <1>1 DEF OwnerStart
  <2>2. NoneLive
    BY <2>1, NotHosting DEF Hosting, StartPhases, Departures
  <2>3. ~Touched(next) /\ next < next' /\ 0 < next
    BY <2>1, MaxAttemptsAssumption DEF Touched, Attempts
  <2>4. QED BY Zenon, <1>0, <2>1, <2>2, <2>3, CreationFold
<1>2. CASE OwnerReplace /\ ~UNCHANGED vars
  <2>1. CASE proxy.at = "EmptyAfter"
    <3>1. /\ next \in Attempts /\ next' = next + 1
          /\ proxy' = Creating(next, proxy.worker, FALSE)
          /\ Emit({Ask("CreateChild", next)}) /\ UNCHANGED <<facts, host>>
      BY Zenon, <1>2, <2>1 DEF OwnerReplace
    <3>2. NoneLive
      BY <2>1, NotHosting DEF Hosting, StartPhases, Departures
    <3>3. ~Touched(next) /\ next < next' /\ proxy.worker < next
      BY <3>1, MaxAttemptsAssumption DEF Touched, Attempts, IInv, Freshness
    <3>4. QED BY Zenon, <1>0, <3>1, <3>2, <3>3, CreationFold
  <2>2. CASE proxy.at = "Ready"
    <3>1. /\ next' = next + 1
          /\ proxy' = [proxy EXCEPT !.at = "ReturningPredecessor", !.successor = next]
          /\ Emit({Ask("ShutdownEstablished", proxy.worker)})
          /\ UNCHANGED <<facts, host>>
      BY <1>2, <2>2 DEF OwnerReplace
    <3>2. QED BY <1>0, <2>2, <3>1, ReserveFold
  <2>3. QED BY Zenon, <1>2, <2>1, <2>2 DEF OwnerReplace
<1>3. CASE OwnerShutdown
  <2>1. Folds
    BY <1>3, OwnerShutdownFolds
  <2>2. UNCHANGED <<next, facts, host>>
    BY <1>3 DEF OwnerShutdown
  <2>3. QED BY <1>0, <2>1, <2>2, QuietFold DEF Folds
<1>4. CASE Service \/ UNCHANGED vars
  <2>1. UNCHANGED <<proxy, next, requests, facts, host>>
    BY <1>4 DEF Service, vars
  <2>2. Moves
    BY <2>1 DEF Moves
  <2>3. Keeps
    BY <2>1 DEF Keeps, Hosting
  <2>4. Quiet
    BY <2>1 DEF Quiet
  <2>5. QED BY <1>0, <2>1, <2>2, <2>3, <2>4, QuietFold
<1>5. ASSUME NEW f \in facts, Handle(f) PROVE IInv'
  <2>1. facts' \subseteq facts /\ UNCHANGED <<next, host>>
    BY <1>5 DEF Handle
  <2>2. CASE Folds
    BY <1>0, <2>1, <2>2, QuietFold DEF Folds
  <2>3. CASE WorkerStopped(f) /\ StopAdmitted(f) /\ proxy.at = "ReturningPredecessor"
    <3>1. /\ proxy' = Creating(proxy.successor, proxy.worker, ~proxy.resolved)
          /\ Emit({Ask("CreateChild", proxy.successor)})
      BY <2>3 DEF WorkerStopped, StartStopped, ReplacementStopped, ShutdownStopped,
                  StartPhases, ShuttingDown, Departures
    <3>2. NoneLive
      BY <2>3, PartingFact DEF Parting, WorkerStopped, StopAdmitted
    <3>3. proxy.successor \in Attempts /\ ~Touched(proxy.successor)
          /\ proxy.successor < next' /\ proxy.worker < next
      BY <1>0, <2>1, <2>3 DEF Touched, IInv, Freshness, TypeInv, Custodian
    <3>4. QED BY <1>0, <2>1, <3>1, <3>2, <3>3, CreationFold
  <2>4. QED
    BY <1>5, <2>2, <2>3, WorkersCreatedFolds, WorkerInitializedFolds,
       WorkerStartupReportedFolds, WorkerStoppedFolds, WorkerShutdownResolvedFolds DEF Handle
<1>6. CASE \E a \in Attempts : SettleRequest(a) \/ StopWorker(a)
  BY <1>0, <1>6, RuntimeStep
<1>7. QED BY <1>1, <1>2, <1>3, <1>4, <1>5, <1>6 DEF Next, Owner

\* The dormant proxy satisfies IInv.
LEMMA InductiveInit == Init => IInv
<1> SUFFICES ASSUME Init PROVE IInv
  OBVIOUS
<1>1. TypeInv
  BY TypeInit
<1>2. OnlyWorkerLives /\ PartedAreDead /\ Births
  BY DEF Init, OnlyWorkerLives, PartedAreDead, Births, Live
<1>3. Freshness
  BY DEF Init, Freshness, Owning
<1>4. QED BY <1>1, <1>2, <1>3 DEF IInv

\* For any number of attempts, no two incarnations of the worker are ever alive
\* or on their way to life together.
THEOREM SingleIncarnation == Spec => []OneIncarnation
<1>1. IInv => OneIncarnation
  BY DEF IInv, OnlyWorkerLives, OneIncarnation, Live
<1>2. QED BY <1>1, InductiveInit, InductiveStep, PTL DEF Spec

-----------------------------------------------------------------------------
(* Shutdown closes admission.                                                *)

Closing == ShuttingDown \cup {"Stopped"}

\* No fold of a closing proxy leaves the closing alternatives or reports.
LEMMA ClosingFold ==
    ASSUME TypeInv, proxy.at \in ShuttingDown, NEW f \in facts, Handle(f)
    PROVE  proxy'.at \in Closing /\ outcome' = outcome
<1>0. /\ proxy \in ProxyStates
      /\ proxy.at \notin StartPhases \cup Replacing \cup {"Ready"}
      /\ "WaitingForPredecessor" \in Closing /\ "Stopped" \in Closing
      /\ proxy.at \in Closing
  BY DEF TypeInv, TypeOK, ShuttingDown, Departures, StartPhases, Replacing, Closing
<1>1. CASE Diagnose(f)
  BY <1>0, <1>1 DEF Diagnose
<1>2. CASE proxy' = Retired(proxy) /\ outcome' = outcome
  BY <1>0, <1>2, RetiredMoves
<1>3. ASSUME NEW p \in ProxyStates, p.at = proxy.at, proxy' = Rejoin(p), outcome' = outcome
      PROVE  proxy'.at \in Closing /\ outcome' = outcome
  <2>1. proxy'.at \in {p.at, "WaitingForInitialization", "WaitingForStartup",
                       "WaitingForPredecessor", "Stopped"}
    BY <1>3, RejoinMoves
  <2>2. QED BY <1>0, <1>3, <2>1 DEF Closing, ShuttingDown
<1>4. CASE WorkersCreated(f)
  <2>1. CASE BeginShutdownInitialization /\ outcome' = outcome
    BY Zenon, <1>0, <2>1 DEF BeginShutdownInitialization, ProxyStates, Closing, ShuttingDown,
                      Departures
  <2>2. QED BY <1>0, <1>1, <1>2, <1>4, <2>1
            DEF WorkersCreated, CreationAdmitted, StartPhases
<1>5. CASE WorkerInitialized(f)
  <2> DEFINE p == [proxy EXCEPT !.work = "Returned", !.stopped = @ \/ f.result = "Stopped"]
  <2>1. p \in ProxyStates /\ p.at = proxy.at
    BY Zenon, <1>0, Names DEF ProxyStates
  <2>2. \/ Diagnose(f)
        \/ proxy' = Retired(proxy) /\ outcome' = outcome
        \/ proxy' = Rejoin(p) /\ outcome' = outcome
    BY <1>0, <1>5 DEF WorkerInitialized, InitializedDuringShutdown, StartPhases
  <2> HIDE DEF p
  <2>3. QED BY <1>1, <1>2, <1>3, <2>1, <2>2
<1>6. CASE WorkerStartupReported(f)
  <2>1. \/ Diagnose(f)
        \/ proxy' = Retired(proxy) /\ outcome' = outcome
        \/ /\ \E work \in Works : proxy' = [proxy EXCEPT !.work = work]
           /\ outcome' = outcome
    BY <1>0, <1>6 DEF WorkerStartupReported, StartupDuringShutdown, StartPhases, Works
  <2>2. ASSUME NEW work \in Works, proxy' = [proxy EXCEPT !.work = work]
        PROVE  proxy'.at = proxy.at
    BY <1>0, <2>2 DEF ProxyStates
  <2>3. QED BY <1>0, <1>1, <1>2, <2>1, <2>2
<1>7. CASE WorkerStopped(f)
  <2> DEFINE p == [proxy EXCEPT !.stopped = TRUE]
  <2>1. p \in ProxyStates /\ p.at = proxy.at
    BY Zenon, <1>0 DEF ProxyStates
  <2>2. Diagnose(f) \/ (proxy' = Rejoin(p) /\ outcome' = outcome)
    BY <1>0, <1>7 DEF WorkerStopped, StartStopped, ReplacementStopped, ShutdownStopped,
                      Replacing
  <2> HIDE DEF p
  <2>3. QED BY <1>1, <1>3, <2>1, <2>2
<1>8. CASE WorkerShutdownResolved(f)
  <2> DEFINE p == [proxy EXCEPT !.resolved = TRUE]
  <2>1. p \in ProxyStates /\ p.at = proxy.at
    BY Zenon, <1>0 DEF ProxyStates
  <2>2. CASE PredecessorResolved(f)
    <3>1. CASE proxy' = [proxy EXCEPT !.awaiting = FALSE] /\ outcome' = outcome
      BY <1>0, <3>1 DEF ProxyStates
    <3>2. CASE proxy' = Owning("Stopped", proxy.worker) /\ outcome' = outcome
      BY <1>0, <3>2 DEF Owning
    <3>3. QED BY <1>0, <2>2, <3>1, <3>2 DEF PredecessorResolved, Replacing
  <2>3. CASE DepartureResolved(f)
    <3>1. proxy' = Rejoin(p) /\ outcome' = outcome
      BY <1>0, <2>3, ShutdownResolvedRejoins
         DEF DepartureResolved, DepartureResolution, StartPhases, Replacing
    <3> HIDE DEF p
    <3>2. QED BY <1>3, <2>1, <3>1
  <2>4. QED BY <1>1, <1>8, <2>2, <2>3 DEF WorkerShutdownResolved
<1>9. QED BY <1>4, <1>5, <1>6, <1>7, <1>8 DEF Handle

\* From a closing proxy every step stays closing and reports nothing new.
LEMMA ClosingStep ==
    ASSUME TypeInv, [Next]_vars, proxy.at \in Closing
    PROVE  /\ proxy'.at \in Closing
           /\ next' = next /\ served' = served /\ outcome' = outcome
<1>0. proxy.at \notin Empty \cup StartPhases \cup Replacing \cup {"Ready"}
  BY DEF Closing, ShuttingDown, Departures, StartPhases, Replacing, Empty
<1>1. CASE Owner
  BY Zenon, <1>0, <1>1 DEF Owner, OwnerStart, OwnerReplace, OwnerShutdown, ShutdownStart,
                    ShutdownReplacement, vars, Empty, Replacing
<1>2. CASE Service
  BY <1>0, <1>2 DEF Service
<1>3. ASSUME NEW f \in facts, Handle(f)
      PROVE  /\ proxy'.at \in Closing
             /\ next' = next /\ served' = served /\ outcome' = outcome
  BY <1>3, ClosingFold DEF Handle, Closing
<1>4. CASE \E a \in Attempts : SettleRequest(a) \/ StopWorker(a)
  BY <1>4 DEF SettleRequest, SettleCreation, SettleInitialization, SettleStartup,
              SettleShutdown, StopWorker, Answer
<1>5. CASE UNCHANGED vars
  BY <1>5 DEF vars
<1>6. QED BY <1>1, <1>2, <1>3, <1>4, <1>5 DEF Next

\* For any number of attempts, a closing proxy stays closing: it issues no
\* attempt, serves no command and reports no further outcome.
THEOREM ShutdownIsFinal == Spec => ClosingIsFinal
<1>1. TypeInv /\ [Next]_vars =>
        [proxy.at \in ShuttingDown \cup {"Stopped"} =>
           /\ proxy'.at \in ShuttingDown \cup {"Stopped"}
           /\ next' = next /\ served' = served
           /\ outcome' = outcome]_vars
  BY ClosingStep DEF Closing
<1>2. QED BY <1>1, TypeInit, TypeStep, PTL DEF Spec, ClosingIsFinal

-----------------------------------------------------------------------------
(* The exchange with the runtime.                                            *)

\* The alternatives in which the newest attempt is being worked on.
InWork == StartPhases \cup {"SuccessorResultAwaitingShutdown"}

\* The alternatives whose worker was not asked to shut down.
Unasked ==
    \/ proxy.at \in {"Creating", "WaitingForCreation", "Initializing", "Starting", "Ready"}
    \/ proxy.at = "SuccessorResultAwaitingShutdown" /\ proxy.work = "Ready"

InStartup == proxy.at \in {"Starting", "DepartingStartup", "WaitingForStartup"}

\* The work on its worker whose answer the alternative waits for.
Due ==
    CASE proxy.at \in {"Creating", "WaitingForCreation"} -> "CreateChild"
      [] \/ proxy.at \in {"Initializing", "WaitingForInitialization"}
         \/ proxy.at = "DepartingInitialization" /\ proxy.work = "Pending" ->
           "InitializeWorker"
      [] InStartup /\ proxy.work = "WaitingForStart" -> "StartWorker"
      [] InStartup /\ proxy.work = "Running" -> "RunPlan"
      [] OTHER -> "None"

AnswersTo(op, w) ==
    CASE op = "CreateChild" -> {Fact("Created", w, x) : x \in {"Established", "Rejected"}}
      [] op = "InitializeWorker" ->
           {Fact("Initialized", w, x) : x \in {"ReadyForStartup", "EffectsRejected", "Stopped"}}
      [] op = "StartWorker" -> {Fact("Startup", w, x) : x \in {"Started", "StartRejected"}}
      [] op = "RunPlan" -> {Fact("Startup", w, x) : x \in {"Ready", "Rejected"}}
      [] OTHER -> {}

WorkKinds == {"Created", "Initialized", "Startup"}

Expected(f) == f.kind \in WorkKinds => f \in AnswersTo(Due, proxy.worker)

\* Work is asked for one piece at a time: its request or its one answer is
\* outstanding, and a started plan runs while Started is still on its way.
Working ==
    /\ \A f \in facts : Expected(f)
    /\ \A f, g \in facts : f.kind \in WorkKinds /\ g.kind \in WorkKinds => f = g
    /\ \A r \in requests : r.op # "ShutdownEstablished" =>
          \/ r = Ask(Due, proxy.worker) /\ \A f \in facts : f.kind \notin WorkKinds
          \/ /\ r = Ask("RunPlan", proxy.worker) /\ Due = "StartWorker"
             /\ Fact("Startup", proxy.worker, "Started") \in facts

\* The workers whose shutdown result has a place in the alternative.
Leaving ==
    {a \in Attempts :
       \/ /\ a = proxy.worker /\ ~proxy.resolved
          /\ proxy.at \in Departures \cup {"ReturningWorker", "ReturningPredecessor"}
       \/ a = proxy.replaces /\ proxy.awaiting}

\* A shutdown is outstanding only for a worker that has such a place, and once.
Parted ==
    /\ \A r \in requests : r.op = "ShutdownEstablished" => r.worker \in Leaving \cap asked
    /\ \A f \in facts : f.kind = "ShutdownResolved" =>
          /\ f.worker \in Leaving \cap asked
          /\ Ask("ShutdownEstablished", f.worker) \notin requests
    /\ \A f, g \in facts : /\ f.kind = "ShutdownResolved" /\ g.kind = "ShutdownResolved"
                           /\ f.worker = g.worker
                           => f = g

Form ==
    /\ Unasked => ~proxy.resolved
    /\ proxy.awaiting => proxy.at \in InWork \cup ShuttingDown

Exchange ==
    /\ \A a \in asked : Touched(a)
    /\ Unasked => proxy.worker \notin asked
    /\ Form /\ Working /\ Parted

AskedAtMostOnce == \A a \in asked : Ask("ShutdownEstablished", a) \notin requests' \ requests

-----------------------------------------------------------------------------
(* What a fold of f does to the exchange.                                    *)

\* The work that is due goes on, is concluded by its answer, or has started.
Continues(f) ==
    Due # "None" => f.kind \notin WorkKinds /\ Due' = Due /\ proxy'.worker = proxy.worker

Concludes(f) == Due # "None" => f.kind \in WorkKinds /\ f.result # "Started"

Begins(f) ==
    /\ f.kind = "Startup" /\ f.result = "Started"
    /\ Due' = "RunPlan" /\ proxy'.worker = proxy.worker

\* The worker is asked to shut down, which was not done before.
Sheds == Unasked /\ ~Unasked' /\ proxy.worker \in Leaving' /\ proxy.worker \in asked'

\* Only the next work and a shutdown are asked for.
Asking(f) ==
    /\ requests \subseteq requests'
    /\ \A r \in requests' \ requests :
          \/ r = Ask(Due', proxy'.worker) /\ Concludes(f)
          \/ r = Ask("ShutdownEstablished", proxy.worker) /\ Sheds
    /\ asked' = asked \/ (Sheds /\ asked' = asked \cup {proxy.worker})

\* No place of a shutdown result is given up before the result.
Kept(f) ==
    \A a \in Leaving : a \in Leaving' \/ (f.kind = "ShutdownResolved" /\ f.worker = a)

Unsheds == Unasked' => \/ Unasked /\ proxy'.worker = proxy.worker
                       \/ ~Touched(proxy'.worker)

Moving(f) ==
    /\ Form' /\ Unsheds /\ Kept(f)
    /\ Continues(f) \/ Concludes(f) \/ Begins(f)
    /\ proxy'.at \in Closing => proxy'.worker = proxy.worker

Exchanges(f) == Moving(f) /\ Asking(f)

\* A fold that asks for nothing.
LEMMA SilentAsks == ASSUME NEW f, Silent PROVE Asking(f)
BY DEF Silent, Asking

\* A fold that asks for the next work.
LEMMA WorkAsks ==
    ASSUME NEW f, Concludes(f), NEW w, w = proxy'.worker, Due' # "ShutdownEstablished",
           Emit({Ask(Due', w)})
    PROVE  Asking(f)
<1>1. \A a \in Attempts : Ask("ShutdownEstablished", a) # Ask(Due', w)
  BY DEF Ask
<1>2. requests' = requests \cup {Ask(Due', w)} /\ asked' = asked
  BY <1>1 DEF Emit
<1>3. QED BY <1>2 DEF Asking

\* A fold that asks for a shutdown, and maybe for an initialization.
LEMMA ShutdownAsks ==
    ASSUME NEW f, Unasked, ~Unasked', proxy.worker \in Leaving', proxy.worker \in Attempts,
           \/ Emit({Ask("ShutdownEstablished", proxy.worker)})
           \/ /\ Emit({Ask("InitializeWorker", proxy.worker),
                       Ask("ShutdownEstablished", proxy.worker)})
              /\ Due' = "InitializeWorker" /\ proxy'.worker = proxy.worker /\ Concludes(f)
    PROVE  Asking(f)
<1>1. \A a \in Attempts :
         /\ Ask("ShutdownEstablished", a) # Ask("InitializeWorker", proxy.worker)
         /\ Ask("ShutdownEstablished", a) = Ask("ShutdownEstablished", proxy.worker)
               => a = proxy.worker
  BY DEF Ask
<1>2. asked' = asked \cup {proxy.worker} /\ Sheds
  BY <1>1 DEF Emit, Sheds
<1>3. /\ requests \subseteq requests'
      /\ \A r \in requests' \ requests :
            \/ r = Ask(Due', proxy'.worker) /\ Concludes(f)
            \/ r = Ask("ShutdownEstablished", proxy.worker)
  BY DEF Emit
<1>4. QED BY <1>2, <1>3 DEF Asking

-----------------------------------------------------------------------------
(* The ends of a fold.                                                       *)

\* Every place but the predecessor's was filled.
Released(f) ==
    \A a \in Leaving : \/ proxy.awaiting /\ a = proxy.replaces
                       \/ f.kind = "ShutdownResolved" /\ f.worker = a

\* An alternative without a worker owes and awaits nothing.
LEMMA OwningExchange ==
    ASSUME NEW f, NEW at \in Empty \cup {"Stopped"}, NEW w, proxy' = Owning(at, w), Silent,
           Concludes(f), \A a \in Leaving : f.kind = "ShutdownResolved" /\ f.worker = a,
           at = "Stopped" => w = proxy.worker
    PROVE  Exchanges(f)
<1>1. /\ proxy'.at = at /\ proxy'.worker = w /\ proxy'.awaiting = FALSE
      /\ proxy'.work = "None"
  BY DEF Owning
<1>2. ~Unasked' /\ (at \in Closing => at = "Stopped")
  BY <1>1 DEF Unasked, Empty, Closing, ShuttingDown, Departures
<1>3. QED BY <1>1, <1>2, SilentAsks DEF Exchanges, Moving, Form, Unsheds, Kept

\* A retirement keeps the predecessor's place.
LEMMA RetiredExchange ==
    ASSUME NEW f, NEW p \in ProxyStates, p.worker = proxy.worker,
           p.awaiting = proxy.awaiting, p.replaces = proxy.replaces,
           proxy' = Retired(p), Silent, Concludes(f), Released(f)
    PROVE  Exchanges(f)
<1>1. CASE p.awaiting
  <2>1. /\ proxy'.at = "WaitingForPredecessor" /\ proxy'.worker = proxy.worker
        /\ proxy'.replaces = proxy.replaces /\ proxy'.awaiting = TRUE
    BY <1>1 DEF Retired, Owning
  <2>2. ~Unasked' /\ Form'
    BY <2>1 DEF Unasked, Form, ShuttingDown
  <2>3. Kept(f)
    BY <2>1 DEF Kept, Released, Leaving
  <2>4. QED BY <2>1, <2>2, <2>3, SilentAsks DEF Exchanges, Moving, Unsheds
<1>2. CASE ~p.awaiting
  <2>1. proxy' = Owning("Stopped", proxy.worker)
    BY <1>2 DEF Retired
  <2>2. QED BY <1>2, <2>1, OwningExchange DEF Released
<1>3. QED BY <1>1, <1>2

\* A departure that goes on, or is complete.
LEMMA RejoinExchange ==
    ASSUME NEW f, NEW p \in ProxyStates, proxy \in ProxyStates,
           p.at = proxy.at, proxy.at \in Departures,
           p.worker = proxy.worker, p.awaiting = proxy.awaiting, p.replaces = proxy.replaces,
           proxy' = Rejoin(p), Silent,
           \/ p.work = proxy.work /\ f.kind \notin WorkKinds
           \/ p.work = "Returned" /\ Concludes(f),
           p.resolved => proxy.resolved \/ (f.kind = "ShutdownResolved" /\ f.worker = proxy.worker)
    PROVE  Exchanges(f)
<1>1. ASSUME NEW at, at = proxy.at \/ p.resolved, proxy'.at = at, at \in ShuttingDown,
             at # "WaitingForCreation",
             proxy'.worker = p.worker, proxy'.awaiting = p.awaiting,
             proxy'.replaces = p.replaces, proxy'.resolved = p.resolved,
             Continues(f) \/ Concludes(f)
      PROVE  Exchanges(f)
  <2>1. ~Unasked' /\ Form'
    BY <1>1 DEF Unasked, Form, ShuttingDown, Departures
  <2>2. Kept(f)
    BY <1>1 DEF Kept, Leaving
  <2>3. QED BY <1>1, <2>1, <2>2, SilentAsks DEF Exchanges, Moving, Unsheds
<1>2. proxy.at \in ShuttingDown /\ proxy.at # "WaitingForCreation"
  BY DEF ShuttingDown, Departures
<1>3. CASE ~Joined(p)
  <2>1. proxy' = p
    BY <1>3 DEF Rejoin
  <2>2. Continues(f) \/ Concludes(f)
    BY <2>1 DEF Continues, Due, InStartup
  <2>3. QED BY <1>1, <1>2, <2>1, <2>2
<1>4. CASE /\ Joined(p) /\ p.at = "DepartingInitialization" /\ p.work # "Returned"
  <2>1. proxy' = [p EXCEPT !.at = "WaitingForInitialization"]
    BY <1>4 DEF Rejoin
  <2>2. /\ proxy'.at = "WaitingForInitialization" /\ proxy'.worker = p.worker
        /\ proxy'.awaiting = p.awaiting /\ proxy'.replaces = p.replaces
        /\ proxy'.resolved = p.resolved /\ proxy'.work = p.work
    BY <2>1 DEF ProxyStates
  <2>3. Continues(f)
    BY <1>4, <2>2 DEF Continues, Due, InStartup
  <2>4. p.resolved /\ "WaitingForInitialization" \in ShuttingDown
    BY <1>4 DEF Joined, ShuttingDown
  <2>5. QED BY <1>1, <2>2, <2>3, <2>4
<1>5. CASE /\ Joined(p) /\ p.at = "DepartingStartup" /\ p.work # "Returned"
  <2>1. proxy' = [p EXCEPT !.at = "WaitingForStartup"]
    BY <1>5 DEF Rejoin
  <2>2. /\ proxy'.at = "WaitingForStartup" /\ proxy'.worker = p.worker
        /\ proxy'.awaiting = p.awaiting /\ proxy'.replaces = p.replaces
        /\ proxy'.resolved = p.resolved /\ proxy'.work = p.work
    BY <2>1 DEF ProxyStates
  <2>3. Continues(f)
    BY <1>5, <2>2 DEF Continues, Due, InStartup
  <2>4. p.resolved /\ "WaitingForStartup" \in ShuttingDown
    BY <1>5 DEF Joined, ShuttingDown
  <2>5. QED BY <1>1, <2>2, <2>3, <2>4
<1>6. CASE /\ Joined(p)
           /\ p.at \in {"DepartingInitialization", "DepartingStartup"} => p.work = "Returned"
  <2>1. proxy' = Retired(p)
    BY <1>6 DEF Rejoin
  <2>2. Concludes(f)
    BY <1>6 DEF Concludes, Due, InStartup, Departures
  <2>3. Released(f)
    BY <1>6 DEF Released, Leaving, Joined
  <2>4. QED BY <2>1, <2>2, <2>3, RetiredExchange
<1>7. QED BY <1>3, <1>4, <1>5, <1>6

\* A start that failed: its worker owes nothing.
LEMMA FailedStartExchange ==
    ASSUME TypeInv, NEW f, NEW result \in {"Unavailable", "CreationRejected"},
           SettleStart(result), Silent, Concludes(f), Released(f)
    PROVE  Exchanges(f)
<1> DEFINE p == [proxy EXCEPT !.at = "SuccessorResultAwaitingShutdown", !.work = result,
                              !.stopped = FALSE, !.resolved = FALSE]
<1>1. /\ p.work = result /\ p.at = "SuccessorResultAwaitingShutdown"
      /\ p.awaiting = proxy.awaiting /\ p.replaces = proxy.replaces
      /\ p.worker = proxy.worker
  BY DEF TypeInv, TypeOK, ProxyStates
<1>2. CASE proxy.awaiting
  <2>1. proxy' = p
    BY <1>2 DEF SettleStart
  <2> HIDE DEF p
  <2>2. ~Unasked' /\ Form'
    BY <1>1, <2>1 DEF Unasked, Form, InWork
  <2>3. Kept(f)
    BY <1>1, <2>1 DEF Kept, Released, Leaving
  <2>4. QED BY <1>1, <2>1, <2>2, <2>3, SilentAsks DEF Exchanges, Moving, Unsheds
<1>3. CASE ~proxy.awaiting
  <2>1. Publish(p)
    BY <1>3 DEF SettleStart
  <2> HIDE DEF p
  <2>2. \E at \in {"EmptyInitial", "EmptyAfter"} : \E w : proxy' = Owning(at, w)
    BY <1>1, <2>1 DEF Publish
  <2>3. QED BY <1>3, <2>2, OwningExchange DEF Released, Empty
<1>4. QED BY <1>2, <1>3

\* A start that came to readiness.
LEMMA ReadyStartExchange ==
    ASSUME TypeInv, proxy.at = "Starting", SettleStart("Ready"), Silent,
           NEW f, Concludes(f)
    PROVE  Exchanges(f)
<1> DEFINE p == [proxy EXCEPT !.at = "SuccessorResultAwaitingShutdown", !.work = "Ready",
                              !.stopped = FALSE, !.resolved = FALSE]
<1>1. /\ p.work = "Ready" /\ p.at = "SuccessorResultAwaitingShutdown"
      /\ p.worker = proxy.worker /\ p.stopped = FALSE /\ p.resolved = FALSE
      /\ p.awaiting = proxy.awaiting /\ p.replaces = proxy.replaces
  BY DEF TypeInv, TypeOK, ProxyStates
<1>2. /\ proxy'.worker = proxy.worker /\ ~proxy'.resolved
      /\ proxy'.at \in {"Ready", "SuccessorResultAwaitingShutdown"}
      /\ proxy'.at = "Ready" => ~proxy.awaiting /\ ~proxy'.awaiting
      /\ proxy'.at # "Ready" => proxy'.awaiting = proxy.awaiting
                                /\ proxy'.replaces = proxy.replaces
  <2>1. CASE proxy.awaiting
    <3>1. proxy' = p
      BY <2>1 DEF SettleStart
    <3>2. QED BY <1>1, <3>1
  <2>2. CASE ~proxy.awaiting
    <3>1. Publish(p)
      BY <2>2 DEF SettleStart
    <3> HIDE DEF p
    <3>2. proxy' = Owning("Ready", proxy.worker)
      BY <1>1, <3>1 DEF Publish
    <3>3. QED BY <2>2, <3>2 DEF Owning
  <2>3. QED BY <2>1, <2>2
<1>3. Form' /\ Unsheds
  BY <1>2 DEF Form, Unsheds, Unasked, InWork
<1>4. Kept(f)
  BY <1>2 DEF Kept, Leaving, Departures
<1>5. proxy'.at \notin Closing
  BY <1>2 DEF Closing, ShuttingDown, Departures
<1>6. QED BY <1>3, <1>4, <1>5, SilentAsks DEF Exchanges, Moving

\* A worker that failed before readiness is asked to shut down.
LEMMA ReturnWorkerExchange ==
    ASSUME TypeInv, Form, proxy.at \in {"Initializing", "Starting"}, ReturnWorker,
           NEW f, Concludes(f)
    PROVE  Exchanges(f)
<1>1. /\ proxy'.at = "ReturningWorker" /\ proxy'.worker = proxy.worker
      /\ proxy'.resolved = proxy.resolved /\ proxy'.awaiting = proxy.awaiting
      /\ proxy'.replaces = proxy.replaces /\ proxy.worker \in Attempts
  BY Names DEF ReturnWorker, TypeInv, TypeOK, Custodian, ProxyStates, StartPhases
<1>2. Unasked /\ ~Unasked' /\ Form'
  BY <1>1 DEF Unasked, Form, InWork, StartPhases
<1>3. proxy.worker \in Leaving' /\ Kept(f)
  BY <1>1, <1>2 DEF Kept, Leaving, Form, Departures
<1>4. QED BY <1>1, <1>2, <1>3, ShutdownAsks
          DEF Exchanges, Moving, Unsheds, ReturnWorker, Closing, ShuttingDown, Departures

\* An alternative that changes only what it retains of the same worker, or
\* waits on in a shutdown, with the work that is due.
LEMMA StayingExchange ==
    ASSUME NEW f, Form, proxy'.worker = proxy.worker, Silent,
           proxy'.replaces = proxy.replaces, proxy'.awaiting = proxy.awaiting,
           proxy'.resolved = proxy.resolved,
           Continues(f) \/ Concludes(f) \/ Begins(f),
           \/ /\ proxy'.at = proxy.at
              /\ proxy.at = "SuccessorResultAwaitingShutdown" => proxy'.work = proxy.work
           \/ /\ proxy.at \in Departures => proxy'.at \in Departures
              /\ proxy.at = "ReturningWorker" => proxy'.at = "ReturningWorkerStart"
              /\ proxy.at = "ReturningPredecessor" => proxy'.at = "ShutdownReturningPredecessor"
              /\ proxy'.at \in ShuttingDown
              /\ proxy'.at = "WaitingForCreation" => proxy.at = "Creating"
    PROVE  Exchanges(f)
<1>1. Form'
  BY DEF Form, Unasked, ShuttingDown, Departures
<1>2. Unsheds
  BY DEF Unsheds, Unasked, ShuttingDown, Departures
<1>3. Kept(f)
  BY DEF Kept, Leaving, Departures
<1>4. QED BY <1>1, <1>2, <1>3, SilentAsks DEF Exchanges, Moving

-----------------------------------------------------------------------------
(* The handlers.                                                             *)

\* An answer about work finds its place.
LEMMA ExpectedAdmitted ==
    ASSUME NEW f, Expected(f), f.kind \in WorkKinds
    PROVE  /\ f.worker = proxy.worker /\ Due # "None"
           /\ f.kind = "Created" => CreationAdmitted(f)
           /\ f.kind = "Initialized" => InitializationAdmitted(f)
           /\ f.kind = "Startup" => StartupAdmitted(f)
           /\ f.kind # "Startup" => Concludes(f)
<1>1. f \in AnswersTo(Due, proxy.worker)
  BY DEF Expected
<1>2. CASE proxy.at \in {"Creating", "WaitingForCreation"}
  <2>1. Due = "CreateChild"
    BY <1>2 DEF Due, InStartup
  <2>2. f.kind = "Created" /\ f.worker = proxy.worker /\ f.result # "Started"
    BY <1>1, <2>1 DEF AnswersTo, Fact
  <2>3. QED BY <1>2, <2>1, <2>2 DEF CreationAdmitted, Concludes
<1>3. CASE \/ proxy.at \in {"Initializing", "WaitingForInitialization"}
           \/ proxy.at = "DepartingInitialization" /\ proxy.work = "Pending"
  <2>1. Due = "InitializeWorker"
    BY <1>3 DEF Due, InStartup
  <2>2. f.kind = "Initialized" /\ f.worker = proxy.worker /\ f.result # "Started"
    BY <1>1, <2>1 DEF AnswersTo, Fact
  <2>3. QED BY <1>3, <2>1, <2>2 DEF InitializationAdmitted, Concludes
<1>4. CASE InStartup /\ proxy.work = "WaitingForStart"
  <2>1. Due = "StartWorker"
    BY <1>4 DEF Due, InStartup
  <2>2. /\ f.kind = "Startup" /\ f.worker = proxy.worker
        /\ f.result \in {"Started", "StartRejected"}
    BY <1>1, <2>1 DEF AnswersTo, Fact
  <2>3. QED BY <1>4, <2>1, <2>2 DEF StartupAdmitted, InStartup
<1>5. CASE InStartup /\ proxy.work = "Running"
  <2>1. Due = "RunPlan"
    BY <1>5 DEF Due, InStartup
  <2>2. /\ f.kind = "Startup" /\ f.worker = proxy.worker
        /\ f.result \in {"Ready", "Rejected"}
    BY <1>1, <2>1 DEF AnswersTo, Fact
  <2>3. QED BY <1>5, <2>1, <2>2 DEF StartupAdmitted, InStartup
<1>6. CASE Due = "None"
  BY <1>1, <1>6 DEF AnswersTo
<1>7. QED BY <1>2, <1>3, <1>4, <1>5, <1>6 DEF Due

\* A creation result: the worker is initialized, or its start is over.
LEMMA WorkersCreatedExchange ==
    ASSUME TypeInv, Form, NEW f, Expected(f), WorkersCreated(f)
    PROVE  Exchanges(f)
<1>0. proxy \in ProxyStates
  BY DEF TypeInv, TypeOK
<1>1. f.kind = "Created" /\ CreationAdmitted(f) /\ Concludes(f)
  BY ExpectedAdmitted DEF WorkersCreated, WorkKinds
<1>2. /\ proxy.at \in {"Creating", "WaitingForCreation"} /\ ~proxy.resolved
      /\ proxy.worker \in Attempts /\ Released(f)
  <2>1. proxy.at \in {"Creating", "WaitingForCreation"}
    BY <1>1 DEF CreationAdmitted
  <2>2. proxy.worker \in Attempts
    BY <2>1, Names DEF TypeInv, Custodian, StartPhases, ShuttingDown
  <2>3. QED BY <2>1, <2>2 DEF Form, Unasked, Released, Leaving, Departures
<1>3. CASE proxy.at = "Creating" /\ AwaitInitialization
  <2>1. /\ proxy'.at = "Initializing" /\ proxy'.worker = proxy.worker
        /\ proxy'.replaces = proxy.replaces /\ proxy'.awaiting = proxy.awaiting
        /\ proxy'.resolved = proxy.resolved
    BY <1>0, <1>3 DEF ProxyStates
  <2>2. Due' = "InitializeWorker" /\ Emit({Ask(Due', proxy.worker)})
    BY <1>3, <2>1 DEF Due, InStartup
  <2>3. Form' /\ Unsheds
    BY <1>2, <1>3, <2>1 DEF Form, Unsheds, Unasked, InWork, StartPhases
  <2>4. Kept(f) /\ proxy'.at \notin Closing
    BY <1>3, <2>1 DEF Kept, Leaving, Departures, Closing, ShuttingDown
  <2>5. Asking(f)
    BY <1>1, <2>1, <2>2, WorkAsks
  <2>6. QED BY <1>1, <2>3, <2>4, <2>5 DEF Exchanges, Moving
<1>4. ASSUME NEW at \in {"WaitingForInitialization", "DepartingInitialization"},
             proxy.at = "WaitingForCreation",
             proxy' = [proxy EXCEPT !.at = at, !.work = "Pending"],
             Asking(f)
      PROVE  Exchanges(f)
  <2>1. /\ proxy'.at = at /\ proxy'.worker = proxy.worker
        /\ proxy'.replaces = proxy.replaces /\ proxy'.awaiting = proxy.awaiting
        /\ proxy'.resolved = proxy.resolved
    BY <1>0, <1>4 DEF ProxyStates
  <2>2. Form' /\ Unsheds
    BY <1>2, <1>4, <2>1 DEF Form, Unsheds, Unasked, ShuttingDown, Departures
  <2>3. Kept(f)
    BY <1>4, <2>1 DEF Kept, Leaving, Departures
  <2>4. QED BY <1>1, <1>4, <2>1, <2>2, <2>3 DEF Exchanges, Moving
<1>5. CASE proxy.at = "WaitingForCreation" /\ BeginShutdownInitialization
  <2>1. CASE proxy.stopped
    <3>1. /\ proxy' = [proxy EXCEPT !.at = "WaitingForInitialization", !.work = "Pending"]
          /\ Emit({Ask("InitializeWorker", proxy.worker)})
      BY <1>5, <2>1 DEF BeginShutdownInitialization
    <3>2. proxy'.at = "WaitingForInitialization" /\ proxy'.worker = proxy.worker
      BY <1>0, <3>1 DEF ProxyStates
    <3>3. Due' = "InitializeWorker"
      BY <3>2 DEF Due, InStartup
    <3>4. Asking(f)
      BY <1>1, <3>1, <3>2, <3>3, WorkAsks
    <3>5. QED BY <1>4, <1>5, <3>1, <3>4
  <2>2. CASE ~proxy.stopped
    <3>1. /\ proxy' = [proxy EXCEPT !.at = "DepartingInitialization", !.work = "Pending"]
          /\ Emit({Ask("InitializeWorker", proxy.worker),
                   Ask("ShutdownEstablished", proxy.worker)})
      BY <1>5, <2>2 DEF BeginShutdownInitialization
    <3>2. /\ proxy'.at = "DepartingInitialization" /\ proxy'.worker = proxy.worker
          /\ proxy'.work = "Pending" /\ proxy'.resolved = proxy.resolved
      BY <1>0, <3>1 DEF ProxyStates
    <3>3. Due' = "InitializeWorker" /\ Unasked /\ ~Unasked'
      BY <1>5, <3>2 DEF Due, InStartup, Unasked
    <3>4. proxy.worker \in Leaving'
      BY <1>2, <3>2 DEF Leaving, Departures
    <3>5. Asking(f)
      BY <1>1, <1>2, <3>1, <3>2, <3>3, <3>4, ShutdownAsks
    <3>6. QED BY <1>4, <1>5, <3>1, <3>5
  <2>3. QED BY <2>1, <2>2
<1>6. CASE SettleStart("CreationRejected") /\ Silent
  BY <1>1, <1>2, <1>6, FailedStartExchange
<1>7. CASE proxy' = Retired(proxy) /\ Silent
  BY <1>0, <1>1, <1>2, <1>7, RetiredExchange
<1>8. QED BY <1>1, <1>3, <1>5, <1>6, <1>7 DEF WorkersCreated

\* An initialization result.
LEMMA WorkerInitializedExchange ==
    ASSUME TypeInv, Form, NEW f, Expected(f), WorkerInitialized(f)
    PROVE  Exchanges(f)
<1>0. proxy \in ProxyStates
  BY DEF TypeInv, TypeOK
<1>1. f.kind = "Initialized" /\ InitializationAdmitted(f) /\ Concludes(f)
  BY ExpectedAdmitted DEF WorkerInitialized, WorkKinds
<1>2. CASE proxy.at = "Initializing"
  <2>0. InitializationResolved(f) /\ Released(f)
    BY <1>1, <1>2 DEF WorkerInitialized, Released, Leaving, Departures
  <2>1. CASE /\ proxy' = [proxy EXCEPT !.at = "Starting", !.work = "WaitingForStart"]
             /\ Emit({Ask("StartWorker", proxy.worker)})
    <3>1. /\ proxy'.at = "Starting" /\ proxy'.worker = proxy.worker
          /\ proxy'.replaces = proxy.replaces /\ proxy'.awaiting = proxy.awaiting
          /\ proxy'.resolved = proxy.resolved /\ proxy'.work = "WaitingForStart"
      BY <1>0, <2>1 DEF ProxyStates
    <3>2. Due' = "StartWorker"
      BY <3>1 DEF Due, InStartup
    <3>3. Form' /\ Unsheds
      BY <1>2, <3>1 DEF Form, Unsheds, Unasked, InWork, StartPhases
    <3>4. Kept(f) /\ proxy'.at \notin Closing
      BY <1>2, <3>1 DEF Kept, Leaving, Departures, Closing, ShuttingDown
    <3>5. Asking(f)
      BY <1>1, <2>1, <3>1, <3>2, WorkAsks
    <3>6. QED BY <1>1, <3>3, <3>4, <3>5 DEF Exchanges, Moving
  <2>2. CASE ReturnWorker
    BY <1>1, <1>2, <2>2, ReturnWorkerExchange
  <2>3. CASE SettleStart("Unavailable") /\ Silent
    BY <1>1, <2>0, <2>3, FailedStartExchange
  <2>4. QED BY <2>0, <2>1, <2>2, <2>3 DEF InitializationResolved
<1>3. CASE proxy.at = "WaitingForInitialization"
  <2>1. proxy' = Retired(proxy) /\ Silent
    BY <1>1, <1>3 DEF WorkerInitialized, InitializedDuringShutdown
  <2>2. Released(f)
    BY <1>3 DEF Released, Leaving, Departures
  <2>3. QED BY <1>0, <1>1, <2>1, <2>2, RetiredExchange
<1>4. CASE proxy.at = "DepartingInitialization"
  <2> DEFINE p == RetainInitialization(proxy, f)
  <2>1. proxy' = Rejoin(p) /\ Silent
    BY <1>1, <1>4 DEF WorkerInitialized, InitializedDuringShutdown
  <2>2. /\ p.at = proxy.at /\ p.worker = proxy.worker /\ p.awaiting = proxy.awaiting
        /\ p.replaces = proxy.replaces /\ p.work = "Returned" /\ p.resolved = proxy.resolved
    BY <1>0 DEF ProxyStates
  <2>3. p \in ProxyStates
    <3>1. (proxy.stopped \/ f.result = "Stopped") \in BOOLEAN /\ "Returned" \in Works
      BY DEF Works
    <3>2. QED BY Zenon, <1>0, <3>1 DEF ProxyStates
  <2> HIDE DEF p
  <2>4. proxy.at \in Departures
    BY <1>4 DEF Departures
  <2>5. QED BY <1>0, <1>1, <2>1, <2>2, <2>3, <2>4, RejoinExchange
<1>5. QED BY <1>1, <1>2, <1>3, <1>4 DEF InitializationAdmitted

\* A startup result.
LEMMA WorkerStartupReportedExchange ==
    ASSUME TypeInv, Form, NEW f, Expected(f), WorkerStartupReported(f)
    PROVE  Exchanges(f)
<1>0. proxy \in ProxyStates
  BY DEF TypeInv, TypeOK
<1>1. f.kind = "Startup" /\ StartupAdmitted(f)
  BY ExpectedAdmitted DEF WorkerStartupReported, WorkKinds
<1>2. f.result # "Started" => Concludes(f)
  BY <1>1 DEF Concludes, WorkKinds
<1>3. CASE proxy' = [proxy EXCEPT !.work = "Running"] /\ Silent /\ f.result = "Started"
  <2>1. /\ proxy'.at = proxy.at /\ proxy'.worker = proxy.worker
        /\ proxy'.replaces = proxy.replaces /\ proxy'.awaiting = proxy.awaiting
        /\ proxy'.resolved = proxy.resolved /\ proxy'.work = "Running"
    BY <1>0, <1>3 DEF ProxyStates
  <2>2. Due' = "RunPlan" /\ proxy.at # "SuccessorResultAwaitingShutdown"
    BY <1>1, <2>1 DEF Due, InStartup, StartupAdmitted
  <2>3. QED BY <1>1, <1>3, <2>1, <2>2, StayingExchange DEF Begins
<1>4. CASE proxy.at = "Starting"
  <2>0. StartupProgressed(f) /\ Released(f)
    BY <1>1, <1>4 DEF WorkerStartupReported, Released, Leaving, Departures
  <2>1. CASE f.result # "Started" /\ SettleStart("Unavailable") /\ Silent
    BY <1>2, <2>0, <2>1, FailedStartExchange
  <2>2. CASE f.result # "Started" /\ SettleStart("Ready") /\ Silent
    BY <1>2, <1>4, <2>2, ReadyStartExchange
  <2>3. CASE f.result # "Started" /\ ReturnWorker
    BY <1>2, <1>4, <2>3, ReturnWorkerExchange
  <2>4. QED BY <1>3, <2>0, <2>1, <2>2, <2>3 DEF StartupProgressed
<1>5. CASE proxy.at \in {"DepartingStartup", "WaitingForStartup"} /\ f.result # "Started"
  <2>0. StartupDuringShutdown(f)
    BY <1>1, <1>5 DEF WorkerStartupReported
  <2>1. CASE proxy.at = "DepartingStartup"
    <3>1. proxy' = [proxy EXCEPT !.work = "Returned"] /\ Silent
      BY <1>5, <2>0, <2>1 DEF StartupDuringShutdown
    <3>2. /\ proxy'.at = proxy.at /\ proxy'.worker = proxy.worker
          /\ proxy'.replaces = proxy.replaces /\ proxy'.awaiting = proxy.awaiting
          /\ proxy'.resolved = proxy.resolved
      BY <1>0, <3>1 DEF ProxyStates
    <3>3. QED BY <1>2, <1>5, <2>1, <3>1, <3>2, StayingExchange
  <2>2. CASE proxy.at = "WaitingForStartup"
    <3>1. proxy' = Retired(proxy) /\ Silent
      BY <1>5, <2>0, <2>2 DEF StartupDuringShutdown
    <3>2. Released(f)
      BY <2>2 DEF Released, Leaving, Departures
    <3>3. QED BY <1>0, <1>2, <1>5, <3>1, <3>2, RetiredExchange
  <2>3. QED BY <1>5, <2>1, <2>2
<1>6. CASE proxy.at \in {"DepartingStartup", "WaitingForStartup"} /\ f.result = "Started"
  <2>1. proxy' = [proxy EXCEPT !.work = "Running"] /\ Silent
    BY <1>1, <1>6 DEF WorkerStartupReported, StartupDuringShutdown
  <2>2. QED BY <1>3, <1>6, <2>1
<1>7. QED BY <1>1, <1>4, <1>5, <1>6 DEF StartupAdmitted

\* An event about no work that leaves the alternative alone.
LEMMA DiagnosedExchange ==
    ASSUME Form, NEW f, f.kind \notin WorkKinds, UNCHANGED proxy, Silent
    PROVE  Exchanges(f)
<1>1. Continues(f)
  BY DEF Continues, Due, InStartup
<1>2. QED BY <1>1, StayingExchange

\* A worker's stop.
LEMMA WorkerStoppedExchange ==
    ASSUME TypeInv, Form, NEW f, WorkerStopped(f)
    PROVE  Exchanges(f)
<1>0. proxy \in ProxyStates /\ f.kind = "WorkerStopped" /\ f.kind \notin WorkKinds
  BY DEF TypeInv, TypeOK, WorkerStopped, WorkKinds
<1>1. CASE Diagnose(f)
  BY <1>0, <1>1, DiagnosedExchange DEF Diagnose, Silent
<1>2. CASE /\ proxy.at = "Ready" /\ proxy' = Owning("EmptyAfter", proxy.worker) /\ Silent
  <2>1. Concludes(f) /\ Leaving = {}
    BY <1>2 DEF Concludes, Due, InStartup, Leaving, Form, InWork, StartPhases, ShuttingDown,
                Departures
  <2>2. QED BY <1>2, <2>1, OwningExchange DEF Empty
<1>3. CASE /\ proxy' = [proxy EXCEPT !.stopped = TRUE] /\ Silent
           /\ proxy.at \in StartPhases \cup {"SuccessorResultAwaitingShutdown"}
  <2>1. /\ proxy'.at = proxy.at /\ proxy'.worker = proxy.worker
        /\ proxy'.replaces = proxy.replaces /\ proxy'.awaiting = proxy.awaiting
        /\ proxy'.resolved = proxy.resolved /\ proxy'.work = proxy.work
    BY <1>0, <1>3 DEF ProxyStates
  <2>2. Continues(f)
    BY <1>0, <2>1 DEF Continues, Due, InStartup
  <2>3. QED BY <1>3, <2>1, <2>2, StayingExchange
<1>4. CASE /\ proxy.at = "ReturningWorker" /\ proxy.resolved
           /\ SettleStart("Unavailable") /\ Silent
  <2>1. Concludes(f) /\ Released(f)
    BY <1>4 DEF Concludes, Due, InStartup, Released, Leaving
  <2>2. QED BY <1>4, <2>1, FailedStartExchange
<1>5. CASE proxy.at = "ReturningPredecessor" /\ StartSuccessorAfterStop
  <2>1. /\ proxy'.at = "Creating" /\ proxy'.worker = proxy.successor
        /\ proxy'.replaces = proxy.worker /\ proxy'.awaiting = ~proxy.resolved
        /\ proxy'.resolved = FALSE
    BY <1>5 DEF Creating, Owning
  <2>2. Due = "None" /\ Due' = "CreateChild"
    BY <1>5, <2>1 DEF Due, InStartup
  <2>3. Asking(f)
    BY <1>5, <2>1, <2>2, WorkAsks DEF Concludes
  <2>4. Form'
    BY <2>1 DEF Form, InWork, StartPhases
  <2>5. Unsheds
    BY <1>5, <2>1 DEF Unsheds, Touched
  <2>6. ~proxy.awaiting
    BY <1>5 DEF Form, InWork, StartPhases, ShuttingDown, Departures
  <2>7. Kept(f)
    BY Zenon, <2>1, <2>6 DEF Kept, Leaving
  <2>8. proxy'.at \notin Closing
    BY <2>1 DEF Closing, ShuttingDown, Departures
  <2>9. QED BY <2>2, <2>3, <2>4, <2>5, <2>7, <2>8 DEF Exchanges, Moving, Concludes
<1>6. CASE StopAdmitted(f) /\ ShutdownStopped
  <2> DEFINE p == [proxy EXCEPT !.stopped = TRUE]
  <2>1. proxy' = Rejoin(p) /\ Silent
    BY <1>6 DEF ShutdownStopped
  <2>2. /\ p \in ProxyStates /\ p.at = proxy.at /\ p.worker = proxy.worker
        /\ p.awaiting = proxy.awaiting /\ p.replaces = proxy.replaces
        /\ p.work = proxy.work /\ p.resolved = proxy.resolved
    BY Zenon, <1>0 DEF ProxyStates
  <2> HIDE DEF p
  <2>3. proxy.at \in Departures
    BY <1>6 DEF ShutdownStopped, StopAdmitted, ShuttingDown, StartPhases
  <2>4. QED BY <1>0, <2>1, <2>2, <2>3, RejoinExchange
<1>7. QED
  BY <1>1, <1>2, <1>3, <1>4, <1>5, <1>6
     DEF WorkerStopped, StartStopped, ReplacementStopped

\* A shutdown result.
LEMMA WorkerShutdownResolvedExchange ==
    ASSUME TypeInv, Form, NEW f, WorkerShutdownResolved(f)
    PROVE  Exchanges(f)
<1>0. proxy \in ProxyStates /\ f.kind = "ShutdownResolved" /\ f.kind \notin WorkKinds
  BY DEF TypeInv, TypeOK, WorkerShutdownResolved, WorkKinds
<1>1. CASE Diagnose(f)
  BY <1>0, <1>1, DiagnosedExchange DEF Diagnose, Silent
<1>2. CASE /\ proxy.at \in StartPhases \cup {"ReturningSuccessor"}
           /\ PredecessorResolution(f) /\ Silent
           /\ proxy' = [proxy EXCEPT !.awaiting = FALSE]
  <2>1. /\ proxy'.at = proxy.at /\ proxy'.worker = proxy.worker
        /\ proxy'.replaces = proxy.replaces /\ proxy'.awaiting = FALSE
        /\ proxy'.resolved = proxy.resolved /\ proxy'.work = proxy.work
    BY <1>0, <1>2 DEF ProxyStates
  <2>2. Continues(f)
    BY <1>0, <2>1 DEF Continues, Due, InStartup
  <2>3. Form' /\ Unsheds
    BY <2>1 DEF Form, Unsheds, Unasked
  <2>4. Kept(f)
    BY <1>0, <1>2, <2>1 DEF Kept, Leaving, PredecessorResolution
  <2>5. QED BY <1>2, <2>1, <2>2, <2>3, <2>4, SilentAsks DEF Exchanges, Moving
<1>3. CASE /\ proxy.at = "SuccessorResultAwaitingShutdown"
           /\ PredecessorResolution(f) /\ Silent /\ Publish(proxy)
  <2>1. Concludes(f) /\ \A a \in Leaving : f.kind = "ShutdownResolved" /\ f.worker = a
    BY <1>0, <1>3 DEF Concludes, Due, InStartup, Leaving, PredecessorResolution, Departures
  <2>2. CASE proxy.work = "Ready" /\ ~proxy.stopped
    <3>1. proxy' = Owning("Ready", proxy.worker)
      BY <1>3, <2>2 DEF Publish
    <3>2. /\ proxy'.at = "Ready" /\ proxy'.worker = proxy.worker
          /\ proxy'.awaiting = FALSE /\ proxy'.resolved = FALSE
      BY <3>1 DEF Owning
    <3>3. Form' /\ Unsheds
      BY <1>3, <2>2, <3>2 DEF Form, Unsheds, Unasked
    <3>4. QED BY <1>3, <2>1, <3>2, <3>3, SilentAsks DEF Exchanges, Moving, Kept
  <2>3. CASE ~(proxy.work = "Ready" /\ ~proxy.stopped)
    <3>1. \E at \in {"EmptyInitial", "EmptyAfter"} : \E w : proxy' = Owning(at, w)
      BY <1>3, <2>3 DEF Publish
    <3>2. QED BY <1>3, <2>1, <3>1, OwningExchange DEF Empty
  <2>4. QED BY <2>2, <2>3
<1>4. CASE /\ proxy.at = "WaitingForPredecessor"
           /\ PredecessorResolution(f) /\ Silent
           /\ proxy' = Owning("Stopped", proxy.worker)
  <2>1. Concludes(f) /\ \A a \in Leaving : f.kind = "ShutdownResolved" /\ f.worker = a
    BY <1>0, <1>4 DEF Concludes, Due, InStartup, Leaving, PredecessorResolution, Departures
  <2>2. QED BY Zenon, <1>4, <2>1, OwningExchange
<1>5. CASE /\ proxy.at = "ReturningWorker" /\ DepartureResolution(f)
           /\ SettleStart("Unavailable") /\ Silent
  <2>1. Concludes(f) /\ Released(f)
    BY <1>0, <1>5 DEF Concludes, Due, InStartup, Released, Leaving, DepartureResolution
  <2>2. QED BY <1>5, <2>1, FailedStartExchange
<1>6. CASE DepartureResolution(f) /\ Silent /\
           proxy' = LET p == [proxy EXCEPT !.resolved = TRUE]
                    IN  IF proxy.at \in Departures THEN ShutdownResolved(p) ELSE p
  <2> DEFINE p == [proxy EXCEPT !.resolved = TRUE]
  <2>1. proxy' = IF proxy.at \in Departures THEN ShutdownResolved(p) ELSE p
    BY <1>6
  <2>2. /\ p \in ProxyStates /\ p.at = proxy.at /\ p.worker = proxy.worker
        /\ p.awaiting = proxy.awaiting /\ p.replaces = proxy.replaces
        /\ p.work = proxy.work
    BY Zenon, <1>0 DEF ProxyStates
  <2> HIDE DEF p
  <2>3. f.worker = proxy.worker
    BY <1>6 DEF DepartureResolution
  <2>4. CASE proxy.at \in Departures
    <3>1. proxy' = Rejoin(p)
      BY <2>1, <2>4, ShutdownResolvedRejoins
    <3>2. QED BY Zenon, <1>0, <1>6, <2>2, <2>3, <2>4, <3>1, RejoinExchange
  <2>5. CASE proxy.at \in {"ReturningWorker", "ReturningPredecessor"}
    <3>1. proxy' = p /\ proxy'.at \notin Closing
      BY <2>1, <2>2, <2>5 DEF Departures, Closing, ShuttingDown
    <3>2. Continues(f)
      BY <1>0, <2>2, <3>1 DEF Continues, Due, InStartup
    <3>3. Form' /\ Unsheds
      BY <2>2, <2>5, <3>1 DEF Form, Unsheds, Unasked
    <3>4. Kept(f)
      BY <1>0, <2>2, <2>3, <3>1 DEF Kept, Leaving
    <3>5. QED BY <1>6, <3>1, <3>2, <3>3, <3>4, SilentAsks DEF Exchanges, Moving
  <2>6. QED BY <1>6, <2>4, <2>5 DEF DepartureResolution
<1>7. QED
  BY <1>1, <1>2, <1>3, <1>4, <1>5, <1>6
     DEF WorkerShutdownResolved, PredecessorResolved, DepartureResolved

\* The owner's input is no fact.
Nothing == Fact("None", 0, "None")

\* A worker in place is asked to shut down, and its work goes on.
LEMMA SheddingExchange ==
    ASSUME Form, NEW f, f.kind \notin WorkKinds, Unasked, proxy.worker \in Attempts,
           RequestWorkerShutdown, Due = "None" \/ Due' = Due,
           proxy'.worker = proxy.worker, proxy'.replaces = proxy.replaces,
           proxy'.awaiting = proxy.awaiting, proxy'.resolved = proxy.resolved,
           \/ proxy'.at \in Departures
           \/ proxy'.at = "ReturningPredecessor" /\ ~proxy.awaiting
    PROVE  Exchanges(f)
<1>1. ~Unasked' /\ Form'
  BY DEF Unasked, Form, ShuttingDown, Departures
<1>2. proxy.worker \in Leaving' /\ Kept(f)
  BY DEF Kept, Leaving, Form, Unasked, Departures
<1>3. Asking(f)
  BY <1>1, <1>2, ShutdownAsks
<1>4. Continues(f)
  BY DEF Continues
<1>5. QED BY <1>1, <1>2, <1>3, <1>4 DEF Exchanges, Moving, Unsheds

\* The owner's shutdown: the worker in place is asked to go.
LEMMA OwnerShutdownExchange ==
    ASSUME TypeInv, Form, OwnerShutdown
    PROVE  Exchanges(Nothing)
<1>0. proxy \in ProxyStates /\ Nothing.kind \notin WorkKinds
  BY DEF TypeInv, TypeOK, Nothing, Fact, WorkKinds
<1>1. CASE proxy.at \in Empty /\ proxy' = Owning("Stopped", proxy.worker) /\ Silent
  <2>1. Concludes(Nothing) /\ Leaving = {}
    BY <1>1 DEF Concludes, Due, InStartup, Leaving, Form, InWork, StartPhases, ShuttingDown,
                Departures, Empty
  <2>2. QED BY <1>1, <2>1, OwningExchange
<1>2. CASE UNCHANGED <<proxy, requests, asked>>
  BY <1>0, <1>2, DiagnosedExchange DEF Silent
<1>3. ASSUME NEW at \in ShuttingDown, NEW work,
             \/ proxy' = [proxy EXCEPT !.at = at] /\ work = proxy.work
             \/ proxy' = [proxy EXCEPT !.at = at, !.work = work]
      PROVE  /\ proxy'.at = at /\ proxy'.work = work
             /\ proxy'.worker = proxy.worker /\ proxy'.replaces = proxy.replaces
             /\ proxy'.awaiting = proxy.awaiting /\ proxy'.resolved = proxy.resolved
  BY Zenon, <1>0, <1>3 DEF ProxyStates
<1>4. {"ShutdownReturningWorker", "ReturningWorkerStart", "DepartingInitialization",
       "DepartingStartup", "ShutdownReturningPredecessor", "ReturningSuccessor"}
          \subseteq Departures
      /\ Departures \cup {"WaitingForCreation", "WaitingForInitialization",
                          "WaitingForStartup"} \subseteq ShuttingDown
  BY DEF ShuttingDown, Departures
<1>5. /\ proxy.at \in {"Ready", "Initializing", "Starting"} =>
            Unasked /\ proxy.worker \in Attempts
      /\ proxy.at = "SuccessorResultAwaitingShutdown" /\ proxy.work = "Ready" =>
            Unasked /\ proxy.worker \in Attempts
  BY Names DEF Unasked, StartPhases, Replacing, TypeInv, Custodian
<1>6. CASE proxy.at = "Ready" /\ proxy' = [proxy EXCEPT !.at = "ShutdownReturningWorker"]
           /\ RequestWorkerShutdown
  <2>1. Due = "None"
    BY <1>6 DEF Due, InStartup
  <2>2. QED BY <1>0, <1>3, <1>4, <1>5, <1>6, <2>1, SheddingExchange, Zenon
<1>7. CASE ShutdownStart
  <2>1. CASE proxy.at = "ReturningWorker"
    <3>1. Silent /\ proxy' = [proxy EXCEPT !.at = "ReturningWorkerStart"]
      BY <1>7, <2>1 DEF ShutdownStart
    <3>2. Continues(Nothing)
      BY <2>1 DEF Continues, Due, InStartup
    <3>3. QED BY <1>3, <1>4, <2>1, <3>1, <3>2, StayingExchange, Zenon DEF Departures
  <2>2. CASE proxy.at = "Initializing"
    <3>1. CASE proxy.stopped
      <4>1. /\ proxy' = [proxy EXCEPT !.at = "WaitingForInitialization", !.work = "Pending"]
            /\ Silent
        BY <1>7, <2>2, <3>1 DEF ShutdownStart
      <4>2. proxy'.at = "WaitingForInitialization" /\ proxy'.worker = proxy.worker
        BY <1>3, <1>4, <4>1, Zenon
      <4>3. Continues(Nothing)
        BY <1>0, <2>2, <4>2 DEF Continues, Due, InStartup
      <4>4. QED BY <1>3, <1>4, <2>2, <4>1, <4>3, StayingExchange, Zenon DEF Departures
    <3>2. CASE ~proxy.stopped
      <4>1. /\ proxy' = [proxy EXCEPT !.at = "DepartingInitialization", !.work = "Pending"]
            /\ RequestWorkerShutdown
        BY <1>7, <2>2, <3>2 DEF ShutdownStart
      <4>2. proxy'.at = "DepartingInitialization" /\ proxy'.work = "Pending"
        BY <1>3, <1>4, <4>1, Zenon
      <4>3. Due' = Due
        BY <2>2, <4>2 DEF Due, InStartup
      <4>4. QED BY <1>0, <1>3, <1>4, <1>5, <2>2, <4>1, <4>3, SheddingExchange, Zenon
    <3>3. QED BY <3>1, <3>2
  <2>3. CASE proxy.at = "Starting"
    <3>1. CASE proxy.stopped
      <4>1. proxy' = [proxy EXCEPT !.at = "WaitingForStartup"] /\ Silent
        BY <1>7, <2>3, <3>1 DEF ShutdownStart
      <4>2. /\ proxy'.at = "WaitingForStartup" /\ proxy'.worker = proxy.worker
            /\ proxy'.work = proxy.work
        BY <1>3, <1>4, <4>1, Zenon
      <4>3. Continues(Nothing)
        BY <1>0, <2>3, <4>2 DEF Continues, Due, InStartup
      <4>4. QED BY <1>3, <1>4, <2>3, <4>1, <4>3, StayingExchange, Zenon DEF Departures
    <3>2. CASE ~proxy.stopped
      <4>1. proxy' = [proxy EXCEPT !.at = "DepartingStartup"] /\ RequestWorkerShutdown
        BY <1>7, <2>3, <3>2 DEF ShutdownStart
      <4>2. proxy'.at = "DepartingStartup" /\ proxy'.work = proxy.work
        BY <1>3, <1>4, <4>1, Zenon
      <4>3. Due' = Due
        BY <2>3, <4>2 DEF Due, InStartup
      <4>4. QED BY <1>0, <1>3, <1>4, <1>5, <2>3, <4>1, <4>3, SheddingExchange, Zenon
    <3>3. QED BY <3>1, <3>2
  <2>4. CASE proxy.at = "Creating"
    <3>1. proxy' = [proxy EXCEPT !.at = "WaitingForCreation"] /\ Silent
      BY <1>7, <2>4 DEF ShutdownStart
    <3>2. proxy'.at = "WaitingForCreation" /\ proxy'.worker = proxy.worker
      BY <1>3, <1>4, <3>1, Zenon
    <3>3. Continues(Nothing)
      BY <1>0, <2>4, <3>2 DEF Continues, Due, InStartup
    <3>4. QED BY <1>3, <1>4, <2>4, <3>1, <3>3, StayingExchange, Zenon DEF Departures
  <2>5. QED BY <1>7, <2>1, <2>2, <2>3, <2>4 DEF ShutdownStart, StartPhases
<1>8. CASE ShutdownReplacement
  <2>0. Due = "None"
    BY <1>8 DEF ShutdownReplacement, Due, InStartup
  <2>1. CASE proxy.at = "SuccessorResultAwaitingShutdown" /\ proxy' = Retired(proxy) /\ Silent
    <3>1. Concludes(Nothing) /\ Released(Nothing)
      BY <2>0, <2>1 DEF Concludes, Released, Leaving, Departures
    <3>2. QED BY <1>0, <2>1, <3>1, RetiredExchange
  <2>2. CASE /\ proxy.at = "ReturningPredecessor"
             /\ proxy' = [proxy EXCEPT !.at = "ShutdownReturningPredecessor"] /\ Silent
    <3>1. Continues(Nothing)
      BY <2>0 DEF Continues
    <3>2. QED BY <1>3, <1>4, <2>2, <3>1, StayingExchange, Zenon DEF Departures
  <2>3. CASE /\ proxy.at = "SuccessorResultAwaitingShutdown" /\ proxy.work = "Ready"
             /\ proxy' = [proxy EXCEPT !.at = "ReturningSuccessor", !.work = "None"]
             /\ RequestWorkerShutdown
    BY <1>0, <1>3, <1>4, <1>5, <2>0, <2>3, SheddingExchange, Zenon
  <2>4. QED BY <1>8, <2>1, <2>2, <2>3 DEF ShutdownReplacement
<1>9. QED BY <1>1, <1>2, <1>6, <1>7, <1>8 DEF OwnerShutdown

\* A submission: a new worker, or a shutdown of the old one.
LEMMA SubmissionExchange ==
    ASSUME TypeInv, Form, OwnerStart \/ OwnerReplace
    PROVE  Exchanges(Nothing)
<1>0. proxy \in ProxyStates /\ next \in Nat /\ Nothing.kind \notin WorkKinds
  BY MaxAttemptsAssumption DEF TypeInv, TypeOK, Nothing, Fact, WorkKinds
<1>1. CASE UNCHANGED vars
  BY <1>0, <1>1, DiagnosedExchange DEF vars, Silent
<1>2. ASSUME NEW w, proxy.at \in Empty, proxy' = Creating(next, w, FALSE), CreateWorker(next)
      PROVE  Exchanges(Nothing)
  <2>1. /\ proxy'.at = "Creating" /\ proxy'.worker = next
        /\ proxy'.awaiting = FALSE /\ proxy'.resolved = FALSE
    BY <1>2 DEF Creating, Owning
  <2>2. Concludes(Nothing) /\ Leaving = {}
    BY <1>2 DEF Concludes, Due, InStartup, Leaving, Form, InWork, StartPhases, ShuttingDown,
                Departures, Empty
  <2>3. Unsheds /\ Form'
    <3>1. ~Touched(proxy'.worker)
      BY <1>0, <2>1 DEF Touched
    <3>2. Form'
      BY <2>1 DEF Form
    <3>3. QED BY <3>1, <3>2 DEF Unsheds
  <2>4. Due' = "CreateChild"
    BY <2>1 DEF Due, InStartup
  <2>5. Asking(Nothing)
    BY Zenon, <1>2, <2>1, <2>2, <2>4, WorkAsks
  <2>6. proxy'.at \notin Closing
    BY <2>1 DEF Closing, ShuttingDown, Departures
  <2>7. QED BY <2>2, <2>3, <2>5, <2>6 DEF Exchanges, Moving, Kept
<1>3. CASE /\ proxy.at = "Ready"
           /\ proxy' = [proxy EXCEPT !.at = "ReturningPredecessor", !.successor = next]
           /\ RequestWorkerShutdown
  <2>1. /\ proxy'.at = "ReturningPredecessor" /\ proxy.worker \in Attempts
        /\ proxy'.worker = proxy.worker /\ proxy'.replaces = proxy.replaces
        /\ proxy'.awaiting = proxy.awaiting /\ proxy'.resolved = proxy.resolved
    BY <1>0, <1>3, Names DEF ProxyStates, TypeInv, Custodian
  <2>2. Unasked /\ Due = "None" /\ ~proxy.awaiting
    BY <1>3 DEF Unasked, Due, InStartup, Form, InWork, StartPhases, ShuttingDown, Departures
  <2>3. QED BY <1>0, <1>3, <2>1, <2>2, SheddingExchange
<1>4. "Dormant" \in Empty /\ "EmptyAfter" \in Empty
  BY DEF Empty
<1>5. CASE OwnerStart
  BY <1>1, <1>2, <1>4, <1>5, Zenon DEF OwnerStart
<1>6. CASE OwnerReplace
  BY <1>1, <1>2, <1>3, <1>4, <1>6, Zenon DEF OwnerReplace
<1>7. QED BY <1>5, <1>6

-----------------------------------------------------------------------------
(* The exchange is kept.                                                     *)

\* When no answer is on its way, the requests are for the work that is due.
LEMMA NoAnswerWorking ==
    ASSUME \A g \in facts' : g.kind \notin WorkKinds,
           \A r \in requests' : r.op # "ShutdownEstablished" => r = Ask(Due', proxy'.worker)
    PROVE  Working'
BY DEF Working, Expected

\* With nothing due, neither an answer nor a request about work is outstanding.
LEMMA NothingDue ==
    ASSUME TypeInv, Working, Due = "None"
    PROVE  /\ \A g \in facts : g.kind \notin WorkKinds
           /\ \A r \in requests : r.op = "ShutdownEstablished"
<1>1. AnswersTo("None", proxy.worker) = {}
  BY DEF AnswersTo
<1>2. \A r \in requests : r # Ask("None", proxy.worker)
  <2>1. \A r \in Requests : r.op # "None"
    BY DEF Requests
  <2>2. Ask("None", proxy.worker).op = "None"
    BY DEF Ask
  <2>3. QED BY <2>1, <2>2 DEF TypeInv, TypeOK
<1>3. QED BY <1>1, <1>2 DEF Working, Expected

\* A fold keeps the work paired.
LEMMA FoldWorking ==
    ASSUME TypeInv, Working, NEW f \in facts \cup {Nothing}, facts' = facts \ {f}, Exchanges(f)
    PROVE  Working'
<1>0. /\ f.kind \in WorkKinds => f \in facts
      /\ requests \subseteq requests'
      /\ \A r \in requests' \ requests : r.op # "ShutdownEstablished" =>
            r = Ask(Due', proxy'.worker) /\ Concludes(f)
  <2>1. Nothing.kind \notin WorkKinds
    BY DEF Nothing, Fact, WorkKinds
  <2>2. \A w : Ask("ShutdownEstablished", w).op = "ShutdownEstablished"
    BY DEF Ask
  <2>3. QED BY <2>1, <2>2 DEF Exchanges, Asking
<1>1. CASE Due = "None"
  BY <1>0, <1>1, NothingDue, NoAnswerWorking
<1>2. CASE Due # "None" /\ Continues(f)
  <2>1. f.kind \notin WorkKinds /\ Due' = Due /\ proxy'.worker = proxy.worker
    BY <1>2 DEF Continues
  <2>2. \A r \in requests' : r.op # "ShutdownEstablished" => r \in requests
    BY <1>0, <1>2, <2>1 DEF Concludes
  <2>3. \A w : Fact("Startup", w, "Started") # f
    BY <2>1 DEF Fact, WorkKinds
  <2>4. \A g \in facts' : Expected(g)'
    BY <2>1 DEF Working, Expected
  <2>5. QED BY <2>1, <2>2, <2>3, <2>4 DEF Working
<1>3. CASE Due # "None" /\ Concludes(f)
  <2>1. f \in facts /\ f.kind \in WorkKinds /\ f.result # "Started"
    BY <1>0, <1>3 DEF Concludes
  <2>2. \A g \in facts' : g.kind \notin WorkKinds
    BY <2>1 DEF Working
  <2>3. Fact("Startup", proxy.worker, "Started") \notin facts
    BY <2>1 DEF Working, Fact, WorkKinds
  <2>4. \A r \in requests : r.op = "ShutdownEstablished"
    BY <2>1, <2>3 DEF Working
  <2>5. QED BY <1>0, <2>2, <2>4, NoAnswerWorking
<1>4. CASE Due # "None" /\ Begins(f)
  <2>1. /\ f.kind \in WorkKinds /\ f \in facts
        /\ Due' = "RunPlan" /\ proxy'.worker = proxy.worker
    BY <1>0, <1>4 DEF Begins, WorkKinds
  <2>2. \A g \in facts' : g.kind \notin WorkKinds
    BY <2>1 DEF Working
  <2>3. \A r \in requests : r.op # "ShutdownEstablished" => r = Ask("RunPlan", proxy.worker)
    BY <2>1 DEF Working
  <2>4. QED BY <1>0, <2>1, <2>2, <2>3, NoAnswerWorking
<1>5. QED BY <1>1, <1>2, <1>3, <1>4 DEF Exchanges, Moving

\* A fold that moves by the rules keeps the exchange and asks no worker twice.
LEMMA FoldExchange ==
    ASSUME IInv, Exchange, \A a \in Nat : Touched(a) => Touched(a)',
           NEW f \in facts \cup {Nothing}, facts' = facts \ {f}, Exchanges(f)
    PROVE  Exchange' /\ AskedAtMostOnce
<1>0. /\ asked \subseteq Nat /\ Attempts \subseteq Nat /\ Working
      /\ \A a \in asked : Touched(a)'
  BY MaxAttemptsAssumption DEF IInv, TypeInv, TypeOK, Attempts, Exchange
<1>1. Due' # "ShutdownEstablished"
  BY DEF Due
<1>2. /\ requests \subseteq requests'
      /\ \A r \in requests' \ requests : r.op = "ShutdownEstablished" =>
            r = Ask("ShutdownEstablished", proxy.worker) /\ Sheds
  <2>1. \A w : Ask(Due', w).op # "ShutdownEstablished"
    BY <1>1 DEF Ask
  <2>2. QED BY <2>1 DEF Exchanges, Asking
<1>3. \A a : Ask("ShutdownEstablished", a).op = "ShutdownEstablished"
             /\ Ask("ShutdownEstablished", a).worker = a
  BY DEF Ask
<1>4. Sheds => proxy.worker \notin asked
  BY DEF Sheds, Exchange
<1>5. AskedAtMostOnce
  BY <1>2, <1>3, <1>4 DEF AskedAtMostOnce
<1>6. asked' = asked \/ (Sheds /\ asked' = asked \cup {proxy.worker})
  BY DEF Exchanges, Asking
<1>7. \A a \in asked' : Touched(a)'
  <2>1. ASSUME Sheds, NEW w, w = proxy.worker PROVE Touched(w)'
    <3>1. w \in Attempts
      BY <2>1 DEF Sheds, Leaving
    <3>2. Touched(w)
      BY <2>1 DEF Sheds, Unasked, IInv, Freshness, Touched
    <3>3. QED BY <1>0, <3>1, <3>2
  <2>2. QED BY Zenon, <1>0, <1>6, <2>1
<1>8. Unasked' => proxy'.worker \notin asked'
  <2>1. SUFFICES ASSUME Unasked' PROVE proxy'.worker \notin asked'
    OBVIOUS
  <2>2. asked' = asked
    BY <1>6, <2>1 DEF Sheds
  <2>3. QED BY <2>1, <2>2 DEF Exchanges, Moving, Unsheds, Exchange
<1>9. Working'
  BY <1>0, FoldWorking DEF IInv
<1>10. Parted'
  <2>1. ASSUME NEW r \in requests', r.op = "ShutdownEstablished"
        PROVE  r.worker \in Leaving' \cap asked'
    <3>1. CASE r \in requests
      <4>1. r.worker \in Leaving \cap asked /\ r.worker \in asked'
        BY <1>6, <2>1, <3>1 DEF Exchange, Parted
      <4>2. r = Ask("ShutdownEstablished", r.worker)
        BY <2>1, <3>1 DEF IInv, TypeInv, TypeOK, Requests, Ask
      <4>3. ~(f.kind = "ShutdownResolved" /\ f.worker = r.worker)
        <5>1. Nothing.kind # "ShutdownResolved"
          BY DEF Nothing, Fact
        <5>2. QED BY <3>1, <4>2, <5>1 DEF Exchange, Parted
      <4>4. QED BY <4>1, <4>3 DEF Exchanges, Moving, Kept
    <3>2. CASE r \notin requests
      BY <1>2, <1>3, <2>1, <3>2 DEF Sheds
    <3>3. QED BY <3>1, <3>2
  <2>2. ASSUME NEW g \in facts', g.kind = "ShutdownResolved"
        PROVE  /\ g.worker \in Leaving' \cap asked'
               /\ Ask("ShutdownEstablished", g.worker) \notin requests'
    <3>1. /\ g \in facts /\ g # f /\ g.worker \in Leaving \cap asked
          /\ Ask("ShutdownEstablished", g.worker) \notin requests
      BY <2>2 DEF Exchange, Parted
    <3>2. ~(f.kind = "ShutdownResolved" /\ f.worker = g.worker)
      <4>1. Nothing.kind # "ShutdownResolved"
        BY DEF Nothing, Fact
      <4>2. QED BY <2>2, <3>1, <4>1 DEF Exchange, Parted
    <3>3. g.worker \in Leaving' \cap asked'
      BY <1>6, <3>1, <3>2 DEF Exchanges, Moving, Kept
    <3>4. QED BY <1>2, <1>3, <1>4, <3>1, <3>3
  <2>3. QED BY <2>1, <2>2 DEF Parted, Exchange
<1>11. Form'
  BY DEF Exchanges, Moving
<1>12. QED BY <1>5, <1>7, <1>8, <1>9, <1>10, <1>11 DEF Exchange

WorkOps == {"CreateChild", "InitializeWorker", "StartWorker", "RunPlan"}

\* An outstanding request about work is the one that is due.
LEMMA RequestDue ==
    ASSUME Working, NEW a, NEW op \in WorkOps, Ask(op, a) \in requests,
           op = "RunPlan" => Fact("Startup", a, "Started") \notin facts
    PROVE  /\ op = Due /\ a = proxy.worker
           /\ \A g \in facts : g.kind \notin WorkKinds
           /\ \A r \in requests \ {Ask(op, a)} : r.op = "ShutdownEstablished"
<1>1. /\ Ask(op, a).op = op /\ Ask(op, a).worker = a /\ op # "ShutdownEstablished"
      /\ \A w : Ask("RunPlan", w).op = "RunPlan" /\ Ask("RunPlan", w).worker = w
      /\ Ask(Due, proxy.worker).op = Due /\ Ask(Due, proxy.worker).worker = proxy.worker
  BY DEF Ask, WorkOps
<1>2. op = Due /\ a = proxy.worker /\ \A g \in facts : g.kind \notin WorkKinds
  BY <1>1 DEF Working
<1>3. Fact("Startup", proxy.worker, "Started") \notin facts
  BY <1>2 DEF Fact, WorkKinds
<1>4. QED BY <1>2, <1>3 DEF Working

\* The request for op is replaced by its answer g.
Answers(op, a, g) ==
    /\ Ask(op, a) \in requests
    /\ op = "RunPlan" => Fact("Startup", a, "Started") \notin facts
    /\ requests' = (requests \ {Ask(op, a)}) \cup {}
    /\ g \in AnswersTo(op, a) /\ g \in facts' /\ g.kind \in WorkKinds
    /\ \A h \in facts' : h \in facts \/ h = g \/ h.kind = "WorkerStopped"

\* Its answer takes its place.
LEMMA AnswerExchange ==
    ASSUME TypeInv, Working, Parted, UNCHANGED <<proxy, asked>>,
           NEW a, NEW op \in WorkOps, NEW g, Answers(op, a, g)
    PROVE  Working' /\ Parted'
<1>0. Due' = Due /\ Leaving' = Leaving /\ "WorkerStopped" \notin WorkKinds
      /\ "ShutdownResolved" \notin WorkKinds
  BY DEF Due, InStartup, Leaving, WorkKinds
<1>1. /\ op = Due /\ a = proxy.worker
      /\ \A h \in facts : h.kind \notin WorkKinds
      /\ \A r \in requests' : r.op = "ShutdownEstablished"
  BY RequestDue DEF Answers
<1>2. \A h \in facts' : h.kind \in WorkKinds => h = g
  BY <1>0, <1>1 DEF Answers
<1>3. Working'
  BY <1>0, <1>1, <1>2 DEF Answers, Working, Expected
<1>4. \A h \in facts' : h.kind = "ShutdownResolved" => h \in facts
  BY <1>0 DEF Answers
<1>5. Parted'
  BY <1>0, <1>4 DEF Answers, Parted
<1>6. QED BY <1>3, <1>5

\* Facts of the exit side change nothing about the work.
LEMMA WorkKept ==
    ASSUME Working, UNCHANGED proxy, Due' = Due,
           requests' \subseteq requests, facts \subseteq facts',
           \A f \in facts' : f \in facts \/ f.kind \notin WorkKinds
    PROVE  Working'
<1>1. \A f : Expected(f)' = Expected(f)
  BY DEF Expected
<1>2. \A f \in facts' : Expected(f)
  BY DEF Working, Expected
<1>3. \A f, g \in facts' : f.kind \in WorkKinds /\ g.kind \in WorkKinds => f = g
  BY DEF Working
<1>4. \A r \in requests : r.op # "ShutdownEstablished" =>
          \/ r = Ask(Due, proxy.worker) /\ \A f \in facts' : f.kind \notin WorkKinds
          \/ /\ r = Ask("RunPlan", proxy.worker) /\ Due = "StartWorker"
             /\ Fact("Startup", proxy.worker, "Started") \in facts'
  BY DEF Working
<1>5. QED BY <1>1, <1>2, <1>3, <1>4 DEF Working

\* Neither new work nor its facts change anything about the shutdowns asked for.
LEMMA PartKept ==
    ASSUME Parted, UNCHANGED asked, Leaving' = Leaving,
           \A r \in requests' : r \in requests \/ r.op # "ShutdownEstablished",
           \A f \in facts' : f.kind = "ShutdownResolved" => f \in facts
    PROVE  Parted'
<1>1. \A w : Ask("ShutdownEstablished", w).op = "ShutdownEstablished"
  BY DEF Ask
<1>2. \A w : Ask("ShutdownEstablished", w) \in requests'
                => Ask("ShutdownEstablished", w) \in requests
  BY <1>1
<1>3. QED BY <1>2 DEF Parted

\* The runtime answers what was asked.
LEMMA RuntimeExchange ==
    ASSUME IInv, Exchange, NEW a \in Attempts, SettleRequest(a) \/ StopWorker(a)
    PROVE  Exchange' /\ AskedAtMostOnce
<1>0. UNCHANGED <<proxy, next, asked>> /\ TypeInv /\ Working /\ Parted
  BY DEF SettleRequest, SettleCreation, SettleInitialization, SettleStartup, SettleShutdown,
         StopWorker, Answer, IInv, Exchange
<1>1. /\ Unasked' = Unasked /\ Due' = Due /\ Leaving' = Leaving
      /\ \A b \in asked : Touched(b) => Touched(b)'
      /\ Form => Form'
  BY <1>0 DEF Unasked, Due, InStartup, Leaving, Touched, Form
<1>2. AskedAtMostOnce
  <2>1. ASSUME SettleCreation(a) \/ SettleInitialization(a) PROVE requests' \subseteq requests
    BY <2>1 DEF SettleCreation, SettleInitialization, Answer
  <2>2. ASSUME SettleStartup(a) PROVE requests' \subseteq requests \cup {Ask("RunPlan", a)}
    BY <2>2 DEF SettleStartup, Answer
  <2>3. ASSUME SettleShutdown(a) \/ StopWorker(a) PROVE requests' \subseteq requests
    BY <2>3 DEF SettleShutdown, StopWorker, Answer
  <2>4. requests' \subseteq requests \cup {Ask("RunPlan", a)}
    BY <2>1, <2>2, <2>3 DEF SettleRequest
  <2>5. \A b : Ask("ShutdownEstablished", b) # Ask("RunPlan", a)
    BY DEF Ask
  <2>6. QED BY <2>4, <2>5 DEF AskedAtMostOnce
<1>3. \A kind, w, x : Fact(kind, w, x).kind = kind /\ Fact(kind, w, x).worker = w
  BY DEF Fact
<1>4. "Created" \in WorkKinds /\ "Initialized" \in WorkKinds /\ "Startup" \in WorkKinds
      /\ "ShutdownResolved" \notin WorkKinds /\ "WorkerStopped" \notin WorkKinds
  BY DEF WorkKinds
<1>5. ASSUME SettleCreation(a) PROVE Working' /\ Parted'
  <2>1. PICK x \in {"Established", "Rejected"} :
            Answer(Ask("CreateChild", a), {}, {Fact("Created", a, x)})
    BY <1>5 DEF SettleCreation
  <2>2. Fact("Created", a, x) \in AnswersTo("CreateChild", a)
    BY DEF AnswersTo
  <2>3. Answers("CreateChild", a, Fact("Created", a, x))
    BY <1>3, <1>4, <2>1, <2>2 DEF Answer, Answers
  <2>4. QED BY <1>0, <2>3, AnswerExchange DEF WorkOps
<1>6. ASSUME SettleInitialization(a) PROVE Working' /\ Parted'
  <2>0. PICK x \in {"ReadyForStartup", "EffectsRejected", "Stopped"} :
          /\ Ask("InitializeWorker", a) \in requests
          /\ requests' = (requests \ {Ask("InitializeWorker", a)}) \cup {}
          /\ Fact("Initialized", a, x) \in facts'
          /\ \A h \in facts' : \/ h \in facts \/ h = Fact("Initialized", a, x)
                               \/ h = Fact("WorkerStopped", a, "None")
    <3>1. CASE \E x \in {"ReadyForStartup", "EffectsRejected"} :
                  Answer(Ask("InitializeWorker", a), {}, {Fact("Initialized", a, x)})
      BY <3>1 DEF Answer
    <3>2. CASE Answer(Ask("InitializeWorker", a), {},
                      {Fact("Initialized", a, "Stopped")}
                      \cup {f \in {Fact("WorkerStopped", a, "None")} : host[a] = "alive"})
      BY <3>2 DEF Answer
    <3>3. QED BY <1>6, <3>1, <3>2 DEF SettleInitialization
  <2>1. Fact("Initialized", a, x) \in AnswersTo("InitializeWorker", a)
    BY DEF AnswersTo
  <2>2. Answers("InitializeWorker", a, Fact("Initialized", a, x))
    BY <1>3, <1>4, <2>0, <2>1 DEF Answers
  <2>3. QED BY <1>0, <2>2, AnswerExchange DEF WorkOps
<1>7. ASSUME SettleStartup(a) PROVE Working' /\ Parted'
  <2>1. CASE Answer(Ask("StartWorker", a), {}, {Fact("Startup", a, "StartRejected")})
    <3>1. Fact("Startup", a, "StartRejected") \in AnswersTo("StartWorker", a)
      BY DEF AnswersTo
    <3>2. Answers("StartWorker", a, Fact("Startup", a, "StartRejected"))
      BY <1>3, <1>4, <2>1, <3>1 DEF Answer, Answers
    <3>3. QED BY <1>0, <3>2, AnswerExchange DEF WorkOps
  <2>2. CASE /\ Fact("Startup", a, "Started") \notin facts
             /\ \E x \in {"Ready", "Rejected"} :
                   Answer(Ask("RunPlan", a), {}, {Fact("Startup", a, x)})
    <3>1. PICK x \in {"Ready", "Rejected"} :
              Answer(Ask("RunPlan", a), {}, {Fact("Startup", a, x)})
      BY <2>2
    <3>2. Fact("Startup", a, x) \in AnswersTo("RunPlan", a)
      BY DEF AnswersTo
    <3>3. Answers("RunPlan", a, Fact("Startup", a, x))
      BY <1>3, <1>4, <2>2, <3>1, <3>2 DEF Answer, Answers
    <3>4. QED BY <1>0, <3>3, AnswerExchange DEF WorkOps
  <2>3. CASE Answer(Ask("StartWorker", a), {Ask("RunPlan", a)},
                    {Fact("Startup", a, "Started")})
    <3>1. /\ "StartWorker" = Due /\ a = proxy.worker
          /\ \A g \in facts : g.kind \notin WorkKinds
          /\ \A r \in requests \ {Ask("StartWorker", a)} : r.op = "ShutdownEstablished"
      BY <1>0, <2>3, RequestDue DEF Answer, WorkOps
    <3>2. Fact("Startup", a, "Started") \in AnswersTo("StartWorker", a)
      BY DEF AnswersTo
    <3>3. /\ \A r \in requests' : \/ r.op = "ShutdownEstablished" /\ r \in requests
                                  \/ r = Ask("RunPlan", a)
          /\ facts' = facts \cup {Fact("Startup", a, "Started")}
      BY <2>3, <3>1 DEF Answer
    <3>4. Working'
      BY <1>0, <1>1, <3>1, <3>2, <3>3 DEF Working, Expected
    <3>5. Ask("RunPlan", a).op # "ShutdownEstablished"
      BY DEF Ask
    <3>6. \A f \in facts' : f.kind = "ShutdownResolved" => f \in facts
      BY <1>3, <3>3
    <3>7. Parted'
      BY <1>0, <1>1, <3>3, <3>5, <3>6, PartKept
    <3>8. QED BY <3>4, <3>7
  <2>4. QED BY <1>7, <2>1, <2>2, <2>3 DEF SettleStartup
<1>8. ASSUME SettleShutdown(a) PROVE Working' /\ Parted'
  <2>1. /\ Ask("ShutdownEstablished", a) \in requests
        /\ requests' = requests \ {Ask("ShutdownEstablished", a)}
        /\ facts' = facts \cup {Fact("ShutdownResolved", a, "None")}
    BY <1>8 DEF SettleShutdown, Answer
  <2>2. Working'
    BY <1>0, <1>1, <1>3, <1>4, <2>1, WorkKept
  <2>3. a \in Leaving \cap asked /\ \A g \in facts : g.kind = "ShutdownResolved" => g.worker # a
    <3>1. Ask("ShutdownEstablished", a).op = "ShutdownEstablished"
          /\ Ask("ShutdownEstablished", a).worker = a
      BY DEF Ask
    <3>2. QED BY Zenon, <1>0, <2>1, <3>1 DEF Parted
  <2>4. /\ \A r \in requests' : r \in requests
        /\ Ask("ShutdownEstablished", a) \notin requests'
        /\ \A f \in facts' : f.kind = "ShutdownResolved" => f \in facts \/ f.worker = a
        /\ \A f \in facts' : f.kind = "ShutdownResolved" /\ f.worker = a
                              => f = Fact("ShutdownResolved", a, "None")
    BY <1>3, <2>1, <2>3
  <2>5. Parted'
    BY <1>0, <1>1, <2>3, <2>4 DEF Parted
  <2>6. QED BY <2>2, <2>5
<1>9. ASSUME StopWorker(a) PROVE Working' /\ Parted'
  <2>1. requests' = requests /\ facts' = facts \cup {Fact("WorkerStopped", a, "None")}
    BY <1>9 DEF StopWorker
  <2>2. Working'
    BY <1>0, <1>1, <1>3, <1>4, <2>1, WorkKept
  <2>3. \A f \in facts' : f.kind = "ShutdownResolved" => f \in facts
    BY <1>3, <2>1
  <2>4. Parted'
    BY <1>0, <1>1, <2>1, <2>3, PartKept
  <2>5. QED BY <2>2, <2>4
<1>10. Working' /\ Parted'
  BY <1>5, <1>6, <1>7, <1>8, <1>9 DEF SettleRequest
<1>11. QED BY <1>0, <1>1, <1>2, <1>10 DEF Exchange

\* Every step keeps the exchange, asks no worker twice, and gives no other worker
\* to a proxy that closes.
LEMMA ExchangeStep ==
    ASSUME IInv, Exchange, \A a \in Nat : Touched(a) => Touched(a)', [Next]_vars
    PROVE  /\ Exchange' /\ AskedAtMostOnce
           /\ proxy'.at \in Closing => proxy'.worker = proxy.worker
<1>0. TypeInv /\ Form /\ Working
  BY DEF IInv, Exchange
<1>1. Nothing \notin facts
  <2>1. \A f \in Facts : f.worker \in Attempts
    BY DEF Facts
  <2>2. Nothing.worker \notin Attempts
    BY MaxAttemptsAssumption DEF Nothing, Fact, Attempts
  <2>3. QED BY <1>0, <2>1, <2>2 DEF TypeInv, TypeOK
<1>2. ASSUME UNCHANGED facts, Exchanges(Nothing)
      PROVE  /\ Exchange' /\ AskedAtMostOnce
             /\ proxy'.at \in Closing => proxy'.worker = proxy.worker
  <2>1. facts' = facts \ {Nothing}
    BY <1>1, <1>2
  <2>2. Exchange' /\ AskedAtMostOnce
    BY <1>0, <1>2, <2>1, FoldExchange
  <2>3. QED BY Zenon, <1>2, <2>2 DEF Exchanges, Moving
<1>3. CASE UNCHANGED vars \/ Service
  <2>1. UNCHANGED <<proxy, requests, asked, facts>> /\ Nothing.kind \notin WorkKinds
    BY <1>3 DEF vars, Service, Nothing, Fact, WorkKinds
  <2>2. QED BY <1>0, <1>2, <2>1, DiagnosedExchange DEF Silent
<1>4. CASE OwnerStart \/ OwnerReplace
  <2>1. UNCHANGED facts
    <3>1. CASE OwnerStart
      BY <3>1, Zenon DEF OwnerStart, vars
    <3>2. CASE OwnerReplace
      BY <3>2, Zenon DEF OwnerReplace, vars
    <3>3. QED BY <1>4, <3>1, <3>2
  <2>2. QED BY <1>0, <1>2, <1>4, <2>1, SubmissionExchange
<1>5. CASE OwnerShutdown
  <2>1. UNCHANGED facts
    BY <1>5 DEF OwnerShutdown
  <2>2. QED BY <1>0, <1>2, <1>5, <2>1, OwnerShutdownExchange
<1>6. ASSUME NEW f \in facts, Handle(f)
      PROVE  /\ Exchange' /\ AskedAtMostOnce
             /\ proxy'.at \in Closing => proxy'.worker = proxy.worker
  <2>1. Expected(f)
    BY <1>0 DEF Working
  <2>2. Exchanges(f)
    BY <1>0, <1>6, <2>1, WorkersCreatedExchange, WorkerInitializedExchange,
       WorkerStartupReportedExchange, WorkerStoppedExchange, WorkerShutdownResolvedExchange
       DEF Handle
  <2>3. facts' = facts \ {f}
    BY <1>6 DEF Handle
  <2>4. Exchange' /\ AskedAtMostOnce
    BY <1>0, <2>2, <2>3, FoldExchange
  <2>5. QED BY <2>2, <2>4 DEF Exchanges, Moving
<1>7. ASSUME NEW a \in Attempts, SettleRequest(a) \/ StopWorker(a)
      PROVE  /\ Exchange' /\ AskedAtMostOnce
             /\ proxy'.at \in Closing => proxy'.worker = proxy.worker
  <2>1. UNCHANGED proxy
    BY Zenon, <1>7 DEF SettleRequest, SettleCreation, SettleInitialization, SettleStartup,
                SettleShutdown, StopWorker, Answer
  <2>2. QED BY <1>7, <2>1, RuntimeExchange
<1>8. QED BY Zenon, <1>3, <1>4, <1>5, <1>6, <1>7 DEF Next, Owner

-----------------------------------------------------------------------------
(* Diagnosed answers.                                                        *)

\* Only a stop, or a shutdown result of a proxy that is closing, is diagnosed.
LEMMA DiagnosedOnly ==
    ASSUME TypeInv, Exchange, NEW f \in facts, Handle(f)
    PROVE  \/ diagnosed' = diagnosed
           \/ /\ diagnosed' = diagnosed \cup {f}
              /\ \/ f.kind = "WorkerStopped"
                 \/ f.kind = "ShutdownResolved" /\ proxy.at \in ShuttingDown
<1>0. Expected(f) /\ Form
  BY DEF Exchange, Working
<1>1. f.kind \in WorkKinds => diagnosed' = diagnosed
  <2>1. f.kind = "Created" \/ f.kind = "Initialized" \/ f.kind = "Startup" => f.kind \in WorkKinds
    BY DEF WorkKinds
  <2>2. CASE WorkersCreated(f)
    BY <1>0, <2>1, <2>2, ExpectedAdmitted DEF WorkersCreated
  <2>3. CASE WorkerInitialized(f)
    BY Zenon, <1>0, <2>1, <2>3, ExpectedAdmitted DEF WorkerInitialized
  <2>4. CASE WorkerStartupReported(f)
    BY Zenon, <1>0, <2>1, <2>4, ExpectedAdmitted DEF WorkerStartupReported
  <2>5. QED
    BY Zenon, <2>2, <2>3, <2>4
       DEF Handle, WorkerStopped, WorkerShutdownResolved, WorkKinds
<1>2. CASE WorkerShutdownResolved(f)
  <2>1. CASE ~PredecessorResolution(f) /\ ~DepartureResolution(f) /\ Diagnose(f)
    <3>1. f.worker \in Leaving /\ f.kind = "ShutdownResolved"
      BY Zenon, <1>2 DEF Exchange, Parted, WorkerShutdownResolved
    <3>2. f.worker = proxy.replaces /\ proxy.awaiting
      BY Zenon, <2>1, <3>1 DEF Leaving, DepartureResolution
    <3>3. proxy.at \in ShuttingDown
      BY Zenon, <1>0, <2>1, <3>2 DEF Form, PredecessorResolution, InWork
    <3>4. QED BY <2>1, <3>1, <3>3 DEF Diagnose
  <2>2. QED BY <1>2, <2>1 DEF WorkerShutdownResolved
<1>3. CASE WorkerStopped(f)
  BY <1>3 DEF WorkerStopped, Diagnose
<1>4. QED
  BY <1>1, <1>2, <1>3
     DEF Handle, WorkersCreated, WorkerInitialized, WorkerStartupReported, WorkKinds

\* No step returns an answer that the open proxy asked for.
LEMMA ConsumedStep ==
    ASSUME TypeInv, Exchange, AnswersConsumed, [Next]_vars
    PROVE  AnswersConsumed'
<1>1. proxy.at \in Closing => proxy'.at \in Closing
  BY ClosingStep
<1>2. ASSUME UNCHANGED diagnosed PROVE AnswersConsumed'
  BY <1>1, <1>2 DEF AnswersConsumed, Closing
<1>3. ASSUME NEW f \in facts, Handle(f) PROVE AnswersConsumed'
  BY <1>1, <1>2, <1>3, DiagnosedOnly DEF AnswersConsumed, Closing
<1>4. CASE Service \/ UNCHANGED vars \/ OwnerShutdown
  BY <1>2, <1>4 DEF Service, vars, OwnerShutdown
<1>5. CASE OwnerStart
  BY <1>2, <1>5, Zenon DEF OwnerStart, vars
<1>6. CASE OwnerReplace
  BY <1>2, <1>6, Zenon DEF OwnerReplace, vars
<1>7. ASSUME NEW a \in Attempts, SettleRequest(a) \/ StopWorker(a) PROVE AnswersConsumed'
  BY Zenon, <1>2, <1>7 DEF SettleRequest, SettleCreation, SettleInitialization, SettleStartup,
                    SettleShutdown, StopWorker, Answer
<1>8. QED BY <1>3, <1>4, <1>5, <1>6, <1>7 DEF Next, Owner

-----------------------------------------------------------------------------
(* The contract.                                                             *)

\* Attempt w, or none when w is 0, is the only one whose last report is Ready.
Serving(w) == \A a \in Attempts : outcome[a] = <<"Ready">> <=> a = w

\* The reports agree with the alternative: what was issued last is unreported
\* while it is worked on, and the worker in service is the one the proxy holds.
Ledger ==
    /\ \A a \in Attempts : a >= next => outcome[a] = <<>>
    /\ proxy.at \in Empty => Serving(0)
    /\ proxy.at = "Ready" => Serving(proxy.worker)
    /\ proxy.at \in InWork =>
          Serving(0) /\ proxy.worker = next - 1 /\ outcome[proxy.worker] = <<>>
    /\ proxy.at = "SuccessorResultAwaitingShutdown" => proxy.awaiting
    /\ proxy.at = "ReturningPredecessor" =>
          /\ Serving(proxy.worker)
          /\ proxy.successor = next - 1 /\ outcome[proxy.successor] = <<>>

-----------------------------------------------------------------------------
(* What a step does to the alternative and to the reports.                   *)

Rests ==
    /\ UNCHANGED <<next, outcome, served>>
    /\ \/ UNCHANGED proxy
       \/ /\ proxy.at \in InWork /\ proxy'.at \in InWork
          /\ proxy'.worker = proxy.worker
          /\ proxy'.at = "SuccessorResultAwaitingShutdown" => proxy'.awaiting
       \/ /\ proxy.at = "ReturningPredecessor" /\ proxy'.at = proxy.at
          /\ proxy'.worker = proxy.worker /\ proxy'.successor = proxy.successor

Serves ==
    /\ proxy.at = "Ready"
    /\ served' = served \cup {proxy.worker}
    /\ UNCHANGED <<proxy, next, outcome>>

Submits ==
    /\ next \in Attempts /\ next' = next + 1
    /\ \/ proxy.at \in Empty /\ proxy'.at = "Creating" /\ proxy'.worker = next
       \/ /\ proxy.at = "Ready" /\ proxy'.at = "ReturningPredecessor"
          /\ proxy'.worker = proxy.worker /\ proxy'.successor = next
    /\ UNCHANGED <<outcome, served>>

Departs ==
    /\ \/ proxy.at = "Ready" /\ proxy'.at = "EmptyAfter"
       \/ /\ proxy.at = "ReturningPredecessor" /\ proxy'.at = "Creating"
          /\ proxy'.worker = proxy.successor
    /\ Report(proxy.worker, <<"WorkerStopped">>)
    /\ UNCHANGED <<next, served>>

Settles ==
    /\ proxy.at \in InWork
    /\ \/ /\ proxy'.at = "Ready" /\ proxy'.worker = proxy.worker
          /\ Report(proxy.worker, <<"Ready">>)
       \/ /\ proxy'.at \in Empty
          /\ \E r \in Contract!Failures \cup {<<"Ready", "WorkerStopped">>} :
                Report(proxy.worker, r)
    /\ UNCHANGED <<next, served>>

Closes ==
    /\ \/ proxy.at \in Empty /\ proxy'.at = "Stopped" /\ UNCHANGED outcome
       \/ /\ proxy.at \in InWork \cup {"Ready"} /\ proxy'.at \in ShuttingDown
          /\ UNCHANGED outcome
       \/ /\ proxy.at = "ReturningPredecessor" /\ proxy'.at \in ShuttingDown
          /\ Report(proxy.successor, <<"CancelledBeforeBirth">>)
    /\ UNCHANGED <<next, served>>

Ends ==
    /\ proxy.at \in Closing /\ proxy'.at \in Closing
    /\ proxy.at = "Stopped" => proxy'.at = "Stopped"
    /\ UNCHANGED <<next, outcome, served>>

Shapes == Rests \/ Serves \/ Submits \/ Departs \/ Settles \/ Closes \/ Ends

-----------------------------------------------------------------------------
(* Every step has one of these shapes.                                       *)

\* A published start is a settled one.
LEMMA PublishShape ==
    ASSUME NEW p, p.worker = proxy.worker, p.work \in Results, proxy.at \in InWork,
           Publish(p), UNCHANGED <<next, served>>
    PROVE  Settles
<1>1. CASE p.work = "Ready" /\ ~p.stopped
  <2>1. proxy'.at = "Ready" /\ proxy'.worker = p.worker /\ Report(p.worker, <<"Ready">>)
    BY <1>1 DEF Publish, Owning
  <2>2. QED BY <2>1 DEF Settles
<1>2. CASE ~(p.work = "Ready" /\ ~p.stopped)
  <2>1. proxy'.at \in Empty
    BY <1>2 DEF Publish, Owning, Empty
  <2>2. PICK r : /\ r = IF p.work = "Ready" /\ p.stopped
                        THEN <<"Ready", "WorkerStopped">> ELSE <<p.work>>
                 /\ Report(p.worker, r)
    BY DEF Publish
  <2>3. r \in Contract!Failures \cup {<<"Ready", "WorkerStopped">>}
    BY <1>2, <2>2 DEF Results, Contract!Failures
  <2>4. QED BY <2>1, <2>2, <2>3 DEF Settles
<1>3. QED BY <1>1, <1>2

\* Settling a start publishes it or keeps its result for the predecessor.
LEMMA SettleStartShape ==
    ASSUME TypeInv, proxy.at \in StartPhases, NEW result \in Results,
           SettleStart(result), UNCHANGED <<next, served>>
    PROVE  Rests \/ Settles
<1> DEFINE p == [proxy EXCEPT !.at = "SuccessorResultAwaitingShutdown", !.work = result,
                              !.stopped = FALSE, !.resolved = FALSE]
<1>1. /\ p.worker = proxy.worker /\ p.work = result
      /\ p.awaiting = proxy.awaiting /\ p.at = "SuccessorResultAwaitingShutdown"
  BY DEF TypeInv, TypeOK, ProxyStates
<1>2. CASE proxy.awaiting
  <2>1. proxy' = p /\ outcome' = outcome
    BY <1>2 DEF SettleStart
  <2> HIDE DEF p
  <2>2. QED BY Zenon, <1>1, <1>2, <2>1 DEF Rests, InWork
<1>3. CASE ~proxy.awaiting
  <2>1. Publish(p)
    BY <1>3 DEF SettleStart
  <2> HIDE DEF p
  <2>2. QED BY <1>1, <2>1, PublishShape DEF InWork
<1>4. QED BY <1>2, <1>3

\* A start that goes on with the same worker.
LEMMA StartGoesOn ==
    ASSUME proxy.at \in StartPhases, proxy'.at \in StartPhases, proxy'.worker = proxy.worker,
           UNCHANGED <<next, outcome, served>>
    PROVE  Rests
BY DEF Rests, InWork, StartPhases

\* A creation result while the proxy is open.
LEMMA WorkersCreatedShape ==
    ASSUME TypeInv, proxy.at \notin Closing, NEW f, WorkersCreated(f),
           UNCHANGED <<next, served>>
    PROVE  Shapes
<1>0. proxy \in ProxyStates /\ proxy.at # "WaitingForCreation"
  BY DEF TypeInv, TypeOK, Closing, ShuttingDown
<1>1. CASE Diagnose(f)
  BY <1>1 DEF Diagnose, Shapes, Rests
<1>2. CASE proxy.at = "Creating" /\ AwaitInitialization /\ UNCHANGED outcome
  <2>1. proxy'.at = "Initializing" /\ proxy'.worker = proxy.worker
    BY <1>0, <1>2 DEF ProxyStates
  <2>2. QED BY <1>2, <2>1, StartGoesOn DEF StartPhases, Shapes
<1>3. CASE proxy.at = "Creating" /\ SettleStart("CreationRejected")
  BY <1>3, SettleStartShape DEF StartPhases, Shapes, Results
<1>4. QED BY <1>0, <1>1, <1>2, <1>3 DEF WorkersCreated

\* Returning a worker is part of its start.
LEMMA ReturnWorkerShape ==
    ASSUME TypeInv, proxy.at \in StartPhases, ReturnWorker, UNCHANGED <<next, served>>
    PROVE  Rests
<1>1. proxy'.at = "ReturningWorker" /\ proxy'.worker = proxy.worker /\ UNCHANGED outcome
  BY DEF ReturnWorker, TypeInv, TypeOK, ProxyStates
<1>2. QED BY <1>1, StartGoesOn DEF StartPhases

\* An initialization result while the proxy is open.
LEMMA WorkerInitializedShape ==
    ASSUME TypeInv, proxy.at \notin Closing, NEW f, WorkerInitialized(f),
           UNCHANGED <<next, served>>
    PROVE  Shapes
<1>0. proxy \in ProxyStates
      /\ proxy.at \notin {"WaitingForInitialization", "DepartingInitialization"}
  BY DEF TypeInv, TypeOK, Closing, ShuttingDown, Departures
<1>1. CASE Diagnose(f)
  BY <1>1 DEF Diagnose, Shapes, Rests
<1>2. CASE proxy.at = "Initializing" /\ InitializationResolved(f)
  <2>0. proxy.at \in StartPhases
    BY <1>2 DEF StartPhases
  <2>1. CASE /\ proxy' = [proxy EXCEPT !.at = "Starting", !.work = "WaitingForStart"]
             /\ UNCHANGED outcome
    <3>1. proxy'.at = "Starting" /\ proxy'.worker = proxy.worker
      BY <1>0, <2>1 DEF ProxyStates
    <3>2. QED BY <2>0, <2>1, <3>1, StartGoesOn DEF StartPhases, Shapes
  <2>2. CASE ReturnWorker
    BY <2>0, <2>2, ReturnWorkerShape DEF Shapes
  <2>3. CASE SettleStart("Unavailable")
    BY <2>0, <2>3, SettleStartShape DEF Shapes, Results
  <2>4. QED BY <1>2, <2>1, <2>2, <2>3 DEF InitializationResolved
<1>3. QED BY <1>0, <1>1, <1>2 DEF WorkerInitialized, InitializationAdmitted

\* A startup report while the proxy is open.
LEMMA WorkerStartupReportedShape ==
    ASSUME TypeInv, proxy.at \notin Closing, NEW f, WorkerStartupReported(f),
           UNCHANGED <<next, served>>
    PROVE  Shapes
<1>0. proxy \in ProxyStates
      /\ proxy.at \notin {"WaitingForStartup", "DepartingStartup"}
  BY DEF TypeInv, TypeOK, Closing, ShuttingDown, Departures
<1>1. CASE Diagnose(f)
  BY <1>1 DEF Diagnose, Shapes, Rests
<1>2. CASE proxy.at = "Starting" /\ StartupProgressed(f)
  <2>0. proxy.at \in StartPhases
    BY <1>2 DEF StartPhases
  <2>1. CASE proxy' = [proxy EXCEPT !.work = "Running"] /\ UNCHANGED outcome
    <3>1. proxy'.at = proxy.at /\ proxy'.worker = proxy.worker
      BY <1>0, <2>1 DEF ProxyStates
    <3>2. QED BY <2>0, <2>1, <3>1, StartGoesOn DEF Shapes
  <2>2. CASE ReturnWorker
    BY <2>0, <2>2, ReturnWorkerShape DEF Shapes
  <2>3. CASE SettleStart("Unavailable") \/ SettleStart("Ready")
    BY <2>0, <2>3, SettleStartShape DEF Shapes, Results
  <2>4. QED BY <1>2, <2>1, <2>2, <2>3 DEF StartupProgressed
<1>3. QED BY <1>0, <1>1, <1>2 DEF WorkerStartupReported, StartupAdmitted

\* A stop while the proxy is open.
LEMMA WorkerStoppedShape ==
    ASSUME TypeInv, Ledger, proxy.at \notin Closing, NEW f, WorkerStopped(f),
           UNCHANGED <<next, served>>
    PROVE  Shapes
<1>0. proxy \in ProxyStates /\ proxy.at \notin ShuttingDown
  BY DEF TypeInv, TypeOK, Closing
<1>1. CASE Diagnose(f)
  BY <1>1 DEF Diagnose, Shapes, Rests
<1>2. CASE /\ proxy.at = "Ready" /\ proxy' = Owning("EmptyAfter", proxy.worker)
           /\ Report(proxy.worker, <<"WorkerStopped">>)
  BY <1>2 DEF Owning, Shapes, Departs
<1>3. CASE proxy.at = "ReturningPredecessor" /\ StartSuccessorAfterStop
  BY <1>3 DEF Creating, Owning, Shapes, Departs
<1>4. CASE /\ proxy.at \in InWork /\ UNCHANGED outcome
           /\ proxy' = [proxy EXCEPT !.stopped = TRUE]
  <2>1. /\ proxy'.at = proxy.at /\ proxy'.worker = proxy.worker
        /\ proxy'.awaiting = proxy.awaiting
    BY <1>0, <1>4 DEF ProxyStates
  <2>2. QED BY <1>4, <2>1 DEF Shapes, Rests, Ledger
<1>5. CASE proxy.at \in StartPhases /\ SettleStart("Unavailable")
  BY <1>5, SettleStartShape DEF Shapes, Results
<1>6. QED BY <1>0, <1>1, <1>2, <1>3, <1>4, <1>5
          DEF WorkerStopped, StartStopped, ReplacementStopped, ShutdownStopped, InWork

\* A shutdown result while the proxy is open.
LEMMA WorkerShutdownResolvedShape ==
    ASSUME TypeInv, Ledger, proxy.at \notin Closing, NEW f, WorkerShutdownResolved(f),
           UNCHANGED <<next, served>>
    PROVE  Shapes
<1>0. /\ proxy \in ProxyStates /\ Custodian
      /\ proxy.at \notin Departures \cup {"WaitingForPredecessor"}
  BY DEF TypeInv, TypeOK, Closing, ShuttingDown
<1>1. CASE Diagnose(f)
  BY <1>1 DEF Diagnose, Shapes, Rests
<1>2. CASE PredecessorResolved(f)
  <2>1. CASE /\ proxy.at \in StartPhases /\ UNCHANGED outcome
             /\ proxy' = [proxy EXCEPT !.awaiting = FALSE]
    <3>1. proxy'.at = proxy.at /\ proxy'.worker = proxy.worker
      BY <1>0, <2>1 DEF ProxyStates
    <3>2. QED BY <2>1, <3>1, StartGoesOn DEF Shapes
  <2>2. CASE proxy.at = "SuccessorResultAwaitingShutdown" /\ Publish(proxy)
    BY <1>0, <2>2, PublishShape DEF Shapes, InWork, Custodian
  <2>3. QED BY <1>0, <1>2, <2>1, <2>2 DEF PredecessorResolved, Departures
<1>3. CASE DepartureResolved(f)
  <2>1. CASE proxy.at = "ReturningWorker" /\ SettleStart("Unavailable")
    BY <2>1, SettleStartShape DEF Shapes, Results, StartPhases
  <2>2. CASE /\ proxy.at \in {"ReturningWorker", "ReturningPredecessor"} /\ UNCHANGED outcome
             /\ proxy' = [proxy EXCEPT !.resolved = TRUE]
    <3>1. /\ proxy'.at = proxy.at /\ proxy'.worker = proxy.worker
          /\ proxy'.successor = proxy.successor
      BY <1>0, <2>2 DEF ProxyStates
    <3>2. QED BY <2>2, <3>1 DEF Shapes, Rests, InWork, StartPhases
  <2>3. QED BY <1>0, <1>3, <2>1, <2>2 DEF DepartureResolved, DepartureResolution
<1>4. QED BY <1>1, <1>2, <1>3 DEF WorkerShutdownResolved

\* A shutdown of the owner while the proxy is open.
LEMMA OwnerShutdownShape ==
    ASSUME TypeInv, Ledger, proxy.at \notin Closing, OwnerShutdown
    PROVE  Closes
<1>0. /\ proxy \in ProxyStates /\ proxy.at \notin ShuttingDown /\ UNCHANGED <<next, served>>
  BY DEF TypeInv, TypeOK, Closing, OwnerShutdown
<1>1. CASE proxy.at \in Empty /\ proxy' = Owning("Stopped", proxy.worker) /\ UNCHANGED outcome
  BY <1>0, <1>1 DEF Owning, Closes
<1>2. CASE /\ proxy.at \in InWork \cup {"Ready"} /\ UNCHANGED outcome
           /\ \E at \in ShuttingDown :
                 \/ proxy' = [proxy EXCEPT !.at = at]
                 \/ \E work \in Works : proxy' = [proxy EXCEPT !.at = at, !.work = work]
  <2>1. proxy'.at \in ShuttingDown
    BY Zenon, <1>0, <1>2 DEF ProxyStates
  <2>2. QED BY Zenon, <1>0, <1>2, <2>1 DEF Closes
<1>3. CASE ShutdownStart
  <2>1. {"WaitingForCreation", "ReturningWorkerStart", "WaitingForInitialization",
         "DepartingInitialization", "WaitingForStartup", "DepartingStartup"}
            \subseteq ShuttingDown
    BY DEF ShuttingDown, Departures
  <2>2. QED BY Zenon, <1>2, <1>3, <2>1, Names DEF ShutdownStart, InWork
<1>4. CASE proxy.at = "Ready" /\ proxy' = [proxy EXCEPT !.at = "ShutdownReturningWorker"]
           /\ UNCHANGED outcome
  BY <1>2, <1>4 DEF ShuttingDown, Departures
<1>5. CASE ShutdownReplacement
  <2>1. CASE /\ proxy.at = "ReturningPredecessor"
             /\ proxy' = [proxy EXCEPT !.at = "ShutdownReturningPredecessor"]
             /\ Report(proxy.successor, <<"CancelledBeforeBirth">>)
    <3>1. proxy'.at \in ShuttingDown
      BY <1>0, <2>1 DEF ProxyStates, ShuttingDown, Departures
    <3>2. QED BY <1>0, <2>1, <3>1 DEF Closes
  <2>2. CASE /\ proxy.at = "SuccessorResultAwaitingShutdown" /\ UNCHANGED outcome
             /\ proxy' = [proxy EXCEPT !.at = "ReturningSuccessor", !.work = "None"]
    BY Zenon, <1>2, <2>2, Names DEF ShuttingDown, Departures, InWork
  <2>3. CASE /\ proxy.at = "SuccessorResultAwaitingShutdown" /\ UNCHANGED outcome
             /\ proxy' = Retired(proxy)
    <3>1. proxy'.at = "WaitingForPredecessor"
      BY <2>3 DEF Ledger, Retired, Owning
    <3>2. QED BY <1>0, <2>3, <3>1 DEF Closes, InWork, ShuttingDown
  <2>4. QED BY <1>5, <2>1, <2>2, <2>3 DEF ShutdownReplacement
<1>6. QED BY <1>0, <1>1, <1>3, <1>4, <1>5 DEF OwnerShutdown

\* Every step of the proxy and its runtime has one of the shapes.
LEMMA StepShapes ==
    ASSUME TypeInv, Ledger, [Next]_vars
    PROVE  Shapes
<1>1. CASE proxy.at \in Closing
  <2>1. proxy.at = "Stopped" => UNCHANGED proxy
    <3>1. SUFFICES ASSUME proxy.at = "Stopped" PROVE UNCHANGED proxy
      OBVIOUS
    <3>2. CASE Service \/ Owner
      BY <3>1, <3>2 DEF Service, Owner, OwnerStart, OwnerReplace, OwnerShutdown
    <3>3. CASE \E a \in Attempts : SettleRequest(a) \/ StopWorker(a)
      BY <3>3 DEF SettleRequest, SettleCreation, SettleInitialization, SettleStartup,
                  SettleShutdown, StopWorker, Answer
    <3>4. QED BY <3>1, <3>2, <3>3 DEF Next, Handle, vars
  <2>2. QED BY <1>1, <2>1, ClosingStep DEF Shapes, Ends
<1>2. CASE proxy.at \notin Closing
  <2>1. CASE UNCHANGED vars
    BY <2>1 DEF vars, Shapes, Rests
  <2>2. CASE Service
    BY <2>2 DEF Service, Shapes, Serves, Rests
  <2>3. CASE OwnerStart
    BY Zenon, <2>1, <2>3 DEF OwnerStart, Shapes, Submits, Creating, Owning, Empty
  <2>4. CASE OwnerReplace
    <3>1. CASE /\ proxy.at = "Ready" /\ next \in Attempts /\ next' = next + 1
               /\ proxy' = [proxy EXCEPT !.at = "ReturningPredecessor", !.successor = next]
               /\ UNCHANGED <<outcome, served>>
      <4>1. /\ proxy'.at = "ReturningPredecessor" /\ proxy'.worker = proxy.worker
            /\ proxy'.successor = next
        BY <3>1 DEF TypeInv, TypeOK, ProxyStates
      <4>2. QED BY <3>1, <4>1 DEF Shapes, Submits
    <3>2. CASE /\ proxy.at = "EmptyAfter" /\ next \in Attempts /\ next' = next + 1
               /\ proxy' = Creating(next, proxy.worker, FALSE)
               /\ UNCHANGED <<outcome, served>>
      BY <3>2 DEF Shapes, Submits, Creating, Owning, Empty
    <3>3. QED BY Zenon, <2>1, <2>4, <3>1, <3>2 DEF OwnerReplace
  <2>5. CASE OwnerShutdown
    BY <1>2, <2>5, OwnerShutdownShape DEF Shapes
  <2>6. CASE \E f \in facts : Handle(f)
    BY <1>2, <2>6, WorkersCreatedShape, WorkerInitializedShape, WorkerStartupReportedShape,
       WorkerStoppedShape, WorkerShutdownResolvedShape DEF Handle
  <2>7. CASE \E a \in Attempts : SettleRequest(a) \/ StopWorker(a)
    BY <2>7 DEF SettleRequest, SettleCreation, SettleInitialization, SettleStartup,
                SettleShutdown, StopWorker, Answer, Shapes, Rests
  <2>8. QED BY <2>1, <2>2, <2>3, <2>4, <2>5, <2>6, <2>7 DEF Next, Owner
<1>3. QED BY <1>1, <1>2

-----------------------------------------------------------------------------
(* Each shape keeps the ledger and is a step of the contract.                *)

\* The phase each alternative maps to.
LEMMA PhaseNames ==
    /\ proxy.at \in Empty => Phase = "Empty"
    /\ proxy.at \in InWork \cup {"ReturningPredecessor"} => Phase = "Working"
    /\ proxy.at = "Ready" => Phase = "Ready"
    /\ proxy.at \in ShuttingDown => Phase = "Closing"
    /\ proxy.at = "Stopped" => Phase = "Stopped"
BY DEF Phase, InWork, Empty, StartPhases, Replacing, ShuttingDown, Departures

\* The same of the next alternative.
LEMMA PhaseNamesNext ==
    /\ proxy'.at \in Empty => Phase' = "Empty"
    /\ proxy'.at \in InWork \cup {"ReturningPredecessor"} => Phase' = "Working"
    /\ proxy'.at = "Ready" => Phase' = "Ready"
    /\ proxy'.at \in ShuttingDown => Phase' = "Closing"
    /\ proxy'.at = "Stopped" => Phase' = "Stopped"
BY DEF Phase, InWork, Empty, StartPhases, Replacing, ShuttingDown, Departures

\* The groups of alternatives are disjoint.
LEMMA Groups ==
    /\ {"Creating", "SuccessorResultAwaitingShutdown"} \subseteq InWork
    /\ "EmptyAfter" \in Empty
    /\ \A at \in Empty : at \notin InWork \cup {"Ready", "ReturningPredecessor"}
    /\ \A at \in InWork : at \notin {"Ready", "ReturningPredecessor"}
    /\ \A at \in Closing : at \notin Empty \cup InWork \cup {"Ready", "ReturningPredecessor"}
BY DEF InWork, Empty, StartPhases, Closing, ShuttingDown, Departures

\* Report sequences that are told apart, and how they grow.
LEMMA ReportSequences ==
    /\ <<"Ready">> # <<>>
    /\ <<"Ready", "WorkerStopped">> # <<"Ready">>
    /\ <<"CancelledBeforeBirth">> # <<"Ready">>
    /\ \A r \in Contract!Failures : r # <<"Ready">> /\ <<>> \o r = r
    /\ <<>> \o <<"Ready">> = <<"Ready">>
    /\ <<>> \o <<"CancelledBeforeBirth">> = <<"CancelledBeforeBirth">>
    /\ <<>> \o <<"Ready", "WorkerStopped">> = <<"Ready", "WorkerStopped">>
    /\ <<"Ready">> \o <<"WorkerStopped">> = <<"Ready", "WorkerStopped">>
<1>1. \A r \in Contract!Failures : r # <<"Ready">>
  BY DEF Contract!Failures
<1>2. \A r \in Contract!Failures : <<>> \o r = r
  BY DEF Contract!Failures
<1>3. <<"Ready", "WorkerStopped">> # <<"Ready">>
  OBVIOUS
<1>4. <<"Ready">> \o <<"WorkerStopped">> = <<"Ready", "WorkerStopped">>
  <2> DEFINE S == {"Ready", "WorkerStopped"}
             s == <<"Ready">> \o <<"WorkerStopped">>
             t == <<"Ready", "WorkerStopped">>
  <2>1. t \in Seq(S) /\ Len(t) = 2 /\ t[1] = "Ready" /\ t[2] = "WorkerStopped"
    OBVIOUS
  <2>2. s \in Seq(S) /\ Len(s) = 2 /\ s[1] = "Ready" /\ s[2] = "WorkerStopped"
    OBVIOUS
  <2> HIDE DEF S, s, t
  <2>3. s = [i \in 1..2 |-> IF i = 1 THEN "Ready" ELSE "WorkerStopped"]
    BY <2>2
  <2>4. t = [i \in 1..2 |-> IF i = 1 THEN "Ready" ELSE "WorkerStopped"]
    BY <2>1
  <2>5. QED BY Zenon, <2>3, <2>4 DEF s, t
<1>5. QED BY <1>1, <1>2, <1>3, <1>4

\* One step of the contract, or none, that keeps the ledger.
Simulates == Ledger' /\ [Contract!Next]_(Contract!contractVars)

\* A step that reports and issues nothing and stays in its phase.
LEMMA RestsSimulates ==
    ASSUME TypeInv, Ledger, Rests
    PROVE  Simulates
<1>1. CASE UNCHANGED proxy
  BY <1>1 DEF Rests, Simulates, Ledger, Serving, Contract!contractVars, Phase
<1>2. CASE /\ proxy.at \in InWork /\ proxy'.at \in InWork
           /\ proxy'.worker = proxy.worker
           /\ proxy'.at = "SuccessorResultAwaitingShutdown" => proxy'.awaiting
  <2>1. Phase' = Phase
    BY <1>2, PhaseNames, PhaseNamesNext
  <2>2. Ledger'
    BY <1>2, Groups DEF Rests, Ledger, Serving
  <2>3. QED BY <2>1, <2>2 DEF Rests, Simulates, Contract!contractVars
<1>3. CASE /\ proxy.at = "ReturningPredecessor" /\ proxy'.at = proxy.at
           /\ proxy'.worker = proxy.worker /\ proxy'.successor = proxy.successor
  <2>1. Phase' = Phase
    BY <1>3, PhaseNames, PhaseNamesNext
  <2>2. Ledger'
    BY <1>3, Groups DEF Rests, Ledger, Serving
  <2>3. QED BY <2>1, <2>2 DEF Rests, Simulates, Contract!contractVars
<1>4. QED BY <1>1, <1>2, <1>3 DEF Rests

\* An attempt that was reported is one that was issued.
LEMMA Issued ==
    ASSUME TypeInv, Ledger, NEW a \in Attempts, outcome[a] # <<>>
    PROVE  a \in 1..(next - 1)
BY MaxAttemptsAssumption DEF Ledger, TypeInv, TypeOK, Attempts

\* A command reaches the worker in service.
LEMMA ServesSimulates ==
    ASSUME TypeInv, Ledger, Serves
    PROVE  Simulates
<1>1. Phase = "Ready" /\ Phase' = Phase
  BY PhaseNames, PhaseNamesNext DEF Serves
<1>2. proxy.worker \in Attempts /\ outcome[proxy.worker] = <<"Ready">>
  BY Names DEF Serves, Ledger, Serving, TypeInv, Custodian
<1>3. proxy.worker \in 1..(next - 1)
  BY <1>2, ReportSequences, Issued
<1>4. Contract!Serve
  BY <1>1, <1>2, <1>3 DEF Contract!Serve, Contract!InService, Serves
<1>5. Ledger'
  BY DEF Serves, Ledger, Serving
<1>6. QED BY <1>4, <1>5 DEF Simulates, Contract!Next

\* A submission is the next attempt.
LEMMA SubmitsSimulates ==
    ASSUME TypeInv, Ledger, Submits
    PROVE  Simulates
<1>0. next \in Nat /\ next \in 1..MaxAttempts /\ Attempts \subseteq Nat
  BY MaxAttemptsAssumption DEF Submits, Attempts
<1>1. Phase \in {"Empty", "Ready"} /\ Phase' = "Working"
  BY PhaseNames, PhaseNamesNext, Groups DEF Submits
<1>2. Contract!Submit
  BY <1>0, <1>1, MaxAttemptsAssumption DEF Contract!Submit, Submits
<1>3. \A a \in Attempts : a >= next' => outcome'[a] = <<>>
  BY <1>0 DEF Submits, Ledger
<1>4. outcome'[next] = <<>> /\ next = next' - 1
  BY <1>0 DEF Submits, Ledger
<1>5. CASE proxy.at \in Empty /\ proxy'.at = "Creating" /\ proxy'.worker = next
  <2>1. Serving(0)'
    BY <1>5 DEF Submits, Ledger, Serving
  <2>2. QED BY <1>2, <1>3, <1>4, <1>5, <2>1, Groups DEF Ledger, Simulates, Contract!Next
<1>6. CASE /\ proxy.at = "Ready" /\ proxy'.at = "ReturningPredecessor"
           /\ proxy'.worker = proxy.worker /\ proxy'.successor = next
  <2>1. Serving(proxy.worker)'
    BY <1>6 DEF Submits, Ledger, Serving
  <2>2. QED BY <1>2, <1>3, <1>4, <1>6, <2>1, Groups DEF Ledger, Simulates, Contract!Next
<1>7. QED BY <1>5, <1>6 DEF Submits

\* What a report adds to an attempt that was issued.
LEMMA ReportEffect ==
    ASSUME TypeInv, NEW w \in Attempts, NEW rs, Report(w, rs)
    PROVE  /\ outcome' = [outcome EXCEPT ![w] = outcome[w] \o rs]
           /\ outcome'[w] = outcome[w] \o rs
           /\ \A a \in Attempts : a # w => outcome'[a] = outcome[a]
BY DEF Report, TypeInv, TypeOK

\* The worker in service departs.
LEMMA DepartsSimulates ==
    ASSUME TypeInv, Ledger, Departs
    PROVE  Simulates
<1>0. next \in Nat /\ Attempts \subseteq Nat
  BY MaxAttemptsAssumption DEF TypeInv, TypeOK, Attempts
<1>1. PICK w \in Attempts : w = proxy.worker
  BY Names DEF Departs, TypeInv, Custodian, Replacing
<1>2. outcome[w] = <<"Ready">> /\ \A a \in Attempts : outcome[a] = <<"Ready">> => a = w
  BY <1>1 DEF Departs, Ledger, Serving
<1>3. /\ outcome' = [outcome EXCEPT ![w] = <<"Ready", "WorkerStopped">>]
      /\ outcome'[w] = <<"Ready", "WorkerStopped">>
      /\ \A a \in Attempts : a # w => outcome'[a] = outcome[a]
  <2>1. Report(w, <<"WorkerStopped">>)
    BY <1>1 DEF Departs
  <2>2. QED BY Zenon, <1>2, <2>1, ReportEffect, ReportSequences
<1>4. w \in 1..(next - 1)
  BY <1>2, ReportSequences, Issued
<1>5. Serving(0)'
  BY <1>0, <1>2, <1>3, ReportSequences DEF Serving, Attempts
<1>6. \A a \in Attempts : a >= next' => outcome'[a] = <<>>
  BY <1>0, <1>3, <1>4 DEF Departs, Ledger
<1>7. CASE proxy.at = "Ready" /\ proxy'.at = "EmptyAfter"
  <2>1. Phase = "Ready" /\ Phase' = "Empty"
    BY <1>7, PhaseNames, PhaseNamesNext, Groups
  <2>2. Contract!Depart
    BY Zenon, <1>2, <1>3, <1>4, <2>1 DEF Contract!Depart, Contract!InService, Departs
  <2>3. Ledger'
    BY <1>5, <1>6, <1>7, Groups DEF Ledger
  <2>4. QED BY <2>2, <2>3 DEF Simulates, Contract!Next
<1>8. CASE /\ proxy.at = "ReturningPredecessor" /\ proxy'.at = "Creating"
           /\ proxy'.worker = proxy.successor
  <2>1. Phase = "Working" /\ Phase' = "Working"
    BY <1>8, PhaseNames, PhaseNamesNext, Groups
  <2>2. Contract!Depart
    BY Zenon, <1>2, <1>3, <1>4, <2>1 DEF Contract!Depart, Contract!InService, Departs
  <2>3. proxy.successor \in Attempts /\ outcome[proxy.successor] = <<>>
        /\ proxy.successor = next - 1
    BY <1>8 DEF Ledger, TypeInv, Custodian
  <2>4. outcome'[proxy.successor] = <<>>
    BY <1>2, <1>3, <2>3, ReportSequences
  <2>5. Ledger'
    BY <1>5, <1>6, <1>8, <2>3, <2>4, Groups DEF Ledger, Departs
  <2>6. QED BY <2>2, <2>5 DEF Simulates, Contract!Next
<1>9. QED BY <1>7, <1>8 DEF Departs

\* The attempt in work is settled.
LEMMA SettlesSimulates ==
    ASSUME TypeInv, Ledger, Settles
    PROVE  Simulates
<1>0. next \in Nat /\ Attempts \subseteq Nat /\ 0 \notin Attempts
  BY MaxAttemptsAssumption DEF TypeInv, TypeOK, Attempts
<1>1. PICK w \in Attempts : w = proxy.worker
  BY Names DEF Settles, InWork, TypeInv, Custodian, Replacing
<1>2. Serving(0) /\ w = next - 1 /\ outcome[w] = <<>>
  BY <1>1 DEF Settles, Ledger
<1>3. Phase = "Working" /\ \A a \in 1..(next - 1) : outcome[a] # <<"Ready">>
  <2>1. 1..(next - 1) \subseteq Attempts
    BY MaxAttemptsAssumption DEF TypeInv, TypeOK, Attempts
  <2>2. QED BY <1>0, <1>2, <2>1, PhaseNames DEF Serving, Settles
<1>4. ASSUME NEW r, Report(w, r), <<>> \o r = r
      PROVE  /\ outcome' = [outcome EXCEPT ![w] = r] /\ outcome'[w] = r
             /\ \A a \in Attempts : a # w => outcome'[a] = outcome[a]
             /\ \A a \in Attempts : a >= next' => outcome'[a] = <<>>
  <2>1. /\ outcome' = [outcome EXCEPT ![w] = r] /\ outcome'[w] = r
        /\ \A a \in Attempts : a # w => outcome'[a] = outcome[a]
    BY Zenon, <1>2, <1>4, ReportEffect
  <2>2. QED BY <1>0, <1>2, <2>1 DEF Settles, Ledger
<1>5. CASE /\ proxy'.at = "Ready" /\ proxy'.worker = proxy.worker
           /\ Report(proxy.worker, <<"Ready">>)
  <2>1. /\ outcome' = [outcome EXCEPT ![w] = <<"Ready">>] /\ outcome'[w] = <<"Ready">>
        /\ \A a \in Attempts : a # w => outcome'[a] = outcome[a]
        /\ \A a \in Attempts : a >= next' => outcome'[a] = <<>>
    BY <1>1, <1>4, <1>5, ReportSequences
  <2>2. Phase' = "Ready"
    BY <1>5, PhaseNamesNext
  <2>3. Contract!Settle
    BY <1>2, <1>3, <2>1, <2>2 DEF Contract!Settle, Contract!InService, Settles
  <2>4. Serving(proxy.worker)'
    BY Zenon, <1>0, <1>1, <1>2, <1>5, <2>1 DEF Serving
  <2>5. Ledger'
    BY <1>5, <2>1, <2>4, Groups DEF Ledger
  <2>6. QED BY <2>3, <2>5 DEF Simulates, Contract!Next
<1>6. ASSUME proxy'.at \in Empty,
             NEW r \in Contract!Failures \cup {<<"Ready", "WorkerStopped">>},
             Report(proxy.worker, r)
      PROVE  Simulates
  <2>1. /\ outcome' = [outcome EXCEPT ![w] = r] /\ outcome'[w] = r
        /\ \A a \in Attempts : a # w => outcome'[a] = outcome[a]
        /\ \A a \in Attempts : a >= next' => outcome'[a] = <<>>
    BY <1>1, <1>4, <1>6, ReportSequences
  <2>2. Phase' = "Empty"
    BY <1>6, PhaseNamesNext
  <2>3. Contract!Settle
    BY Zenon, <1>2, <1>3, <2>1, <2>2 DEF Contract!Settle, Contract!InService, Settles
  <2>4. Serving(0)'
    BY <1>0, <1>2, <2>1, ReportSequences DEF Serving
  <2>5. Ledger'
    BY <1>6, <2>1, <2>4, Groups DEF Ledger
  <2>6. QED BY <2>3, <2>5 DEF Simulates, Contract!Next
<1>7. QED BY <1>5, <1>6 DEF Settles

\* Shutdown closes the contract and hands an uncreated submission back.
LEMMA ClosesSimulates ==
    ASSUME TypeInv, Ledger, Closes
    PROVE  Simulates
<1>0. next \in Nat /\ Attempts \subseteq Nat
  BY MaxAttemptsAssumption DEF TypeInv, TypeOK, Attempts
<1>1. proxy'.at \in Closing /\ UNCHANGED <<next, served>>
  BY DEF Closes, Closing
<1>2. ASSUME \A a \in Attempts : a >= next' => outcome'[a] = <<>>
      PROVE  Ledger'
  BY <1>1, <1>2, Groups DEF Ledger
<1>3. CASE UNCHANGED outcome
  <2>1. \/ Phase = "Empty" /\ Phase' = "Stopped"
        \/ Phase \in {"Working", "Ready"} /\ Phase' = "Closing"
    BY PhaseNames, PhaseNamesNext DEF Closes
  <2>2. Contract!Close
    BY <1>1, <1>3, <2>1 DEF Contract!Close
  <2>3. Ledger'
    BY <1>1, <1>2, <1>3 DEF Ledger
  <2>4. QED BY <2>2, <2>3 DEF Simulates, Contract!Next
<1>4. CASE /\ proxy.at = "ReturningPredecessor" /\ proxy'.at \in ShuttingDown
           /\ Report(proxy.successor, <<"CancelledBeforeBirth">>)
  <2>1. Phase = "Working" /\ Phase' = "Closing"
    BY <1>4, PhaseNames, PhaseNamesNext
  <2>2. PICK w \in Attempts : w = proxy.successor
    BY <1>4 DEF TypeInv, Custodian
  <2>3. w = next - 1 /\ outcome[w] = <<>>
    BY <1>4, <2>2 DEF Ledger
  <2>4. /\ outcome' = [outcome EXCEPT ![w] = <<"CancelledBeforeBirth">>]
        /\ \A a \in Attempts : a # w => outcome'[a] = outcome[a]
    BY <1>4, <2>2, <2>3, ReportEffect, ReportSequences
  <2>5. Contract!Close
    BY <1>1, <2>1, <2>3, <2>4 DEF Contract!Close
  <2>6. Ledger'
    BY <1>0, <1>1, <1>2, <2>3, <2>4 DEF Ledger
  <2>7. QED BY <2>5, <2>6 DEF Simulates, Contract!Next
<1>5. QED BY <1>3, <1>4 DEF Closes

\* A closing proxy stays closing or stops.
LEMMA EndsSimulates ==
    ASSUME TypeInv, Ledger, Ends
    PROVE  Simulates
<1>1. Ledger'
  BY Groups DEF Ends, Ledger
<1>2. Phase' = Phase \/ (Phase = "Closing" /\ Phase' = "Stopped")
  BY PhaseNames, PhaseNamesNext DEF Ends, Closing
<1>3. QED BY <1>1, <1>2 DEF Ends, Simulates, Contract!contractVars, Contract!Next, Contract!Stop

\* Every step keeps the ledger and is a step of the contract or stutters.
LEMMA SimulationStep ==
    TypeInv /\ Ledger /\ [Next]_vars => Simulates
BY StepShapes, RestsSimulates, ServesSimulates, SubmitsSimulates, DepartsSimulates,
   SettlesSimulates, ClosesSimulates, EndsSimulates DEF Shapes

\* The dormant proxy has nothing to report, as the contract starts.
LEMMA SimulationInit == Init => Ledger /\ Contract!Init
<1> SUFFICES ASSUME Init PROVE Ledger /\ Contract!Init
  OBVIOUS
<1>1. proxy.at = "Dormant" /\ next = 1 /\ outcome = [a \in Attempts |-> <<>>] /\ served = {}
  BY DEF Init, Owning
<1>2. "Dormant" \in Empty
  BY DEF Empty
<1>3. Serving(0)
  BY <1>1, MaxAttemptsAssumption, ReportSequences DEF Serving, Attempts
<1>4. Ledger
  BY <1>1, <1>2, <1>3, Groups DEF Ledger
<1>5. Contract!Init
  BY <1>1, <1>2, PhaseNames DEF Contract!Init, Attempts
<1>6. QED BY <1>4, <1>5

\* For any number of attempts, whatever the runtime answers and in whatever
\* order, the owner sees a proxy that keeps the contract: one submission in work
\* at a time, one disposition each, commands only to the worker last reported
\* ready, and its departure reported before a successor is.
THEOREM ContractKept == Spec => KeepsContract
<1>1. Init => TypeInv /\ Ledger /\ Contract!Init
  BY TypeInit, SimulationInit
<1>2. TypeInv /\ Ledger /\ [Next]_vars => TypeInv' /\ Ledger'
  BY TypeStep, SimulationStep DEF Simulates
<1>3. TypeInv /\ Ledger /\ [Next]_vars => [Contract!Next]_(Contract!contractVars)
  BY SimulationStep DEF Simulates
<1>4. QED BY <1>1, <1>2, <1>3, PTL DEF Spec, KeepsContract, Contract!Spec

-----------------------------------------------------------------------------
(* Dispositions.                                                             *)

\* The issued attempts that were not reported yet, and whom the alternative
\* still owes a report.
Unreported == {a \in Attempts : a < next /\ outcome[a] = <<>>}

Owed ==
    CASE proxy.at \in Empty \cup {"Ready"} -> {}
      [] proxy.at = "ReturningPredecessor" -> {proxy.successor}
      [] OTHER -> {proxy.worker}

Accounted == (\A a \in Attempts : outcome[a] \in Dispositions) /\ Unreported \subseteq Owed

\* A report makes a disposition, and is one.
LEMMA ReportsAreDispositions ==
    /\ <<>> \in Dispositions
    /\ {<<"Ready">>, <<"Ready", "WorkerStopped">>, <<"CancelledBeforeBirth">>}
          \cup Contract!Failures \subseteq Dispositions \ {<<>>}
<1>1. /\ <<"Ready">> # <<>> /\ <<"Ready", "WorkerStopped">> # <<>>
      /\ <<"CancelledBeforeBirth">> # <<>> /\ <<"Unavailable">> # <<>>
      /\ <<"CreationRejected">> # <<>>
  OBVIOUS
<1>2. QED BY <1>1 DEF Dispositions, Contract!Failures

\* What is owed in each group of alternatives.
LEMMA OwedIs ==
    /\ proxy.at \in Empty \cup {"Ready"} => Owed = {}
    /\ proxy.at = "ReturningPredecessor" => Owed = {proxy.successor}
    /\ proxy.at \in InWork \cup Closing => Owed = {proxy.worker}
BY DEF Owed, Empty, InWork, StartPhases, Closing, ShuttingDown, Departures

\* The same after a step.
LEMMA OwedIsNext ==
    /\ proxy'.at \in Empty \cup {"Ready"} => Owed' = {}
    /\ proxy'.at = "ReturningPredecessor" => Owed' = {proxy'.successor}
    /\ proxy'.at \in InWork \cup Closing => Owed' = {proxy'.worker}
BY DEF Owed, Empty, InWork, StartPhases, Closing, ShuttingDown, Departures

\* One report of an attempt that had none, or of the departing worker.
LEMMA ReportAccounts ==
    ASSUME TypeInv, Accounted, NEW w \in Attempts, NEW r, Report(w, r), UNCHANGED next,
           \/ outcome[w] = <<>> /\ <<>> \o r = r /\ r \in Dispositions \ {<<>>}
           \/ outcome[w] = <<"Ready">> /\ r = <<"WorkerStopped">>
    PROVE  /\ \A a \in Attempts : outcome'[a] \in Dispositions
           /\ Unreported' = Unreported \ {w}
<1>1. /\ outcome'[w] = outcome[w] \o r
      /\ \A a \in Attempts : a # w => outcome'[a] = outcome[a]
  BY ReportEffect
<1>2. outcome'[w] \in Dispositions \ {<<>>}
  BY Zenon, <1>1, ReportSequences, ReportsAreDispositions
<1>3. QED BY Zenon, <1>1, <1>2 DEF Accounted, Unreported

\* Every step keeps the account.
LEMMA AccountedStep ==
    ASSUME IInv, Ledger, Accounted, [Next]_vars,
           proxy'.at \in Closing => proxy'.worker = proxy.worker
    PROVE  Accounted'
<1>0. TypeInv /\ next \in Nat /\ Attempts \subseteq Nat /\ Shapes
  BY StepShapes, MaxAttemptsAssumption DEF IInv, TypeInv, TypeOK, Attempts
<1>1. ASSUME UNCHANGED <<next, outcome>>, Unreported \subseteq Owed' PROVE Accounted'
  BY <1>1 DEF Accounted, Unreported
<1>2. ASSUME NEW w \in Attempts, NEW r, Report(w, r), UNCHANGED next,
             \/ outcome[w] = <<>> /\ <<>> \o r = r /\ r \in Dispositions \ {<<>>}
             \/ outcome[w] = <<"Ready">> /\ r = <<"WorkerStopped">>,
             Unreported \ {w} \subseteq Owed'
      PROVE  Accounted'
  BY <1>0, <1>2, ReportAccounts DEF Accounted
<1>3. CASE Rests
  <2>1. CASE UNCHANGED proxy
    BY <1>1, <1>3, <2>1 DEF Rests, Owed, Accounted
  <2>2. CASE proxy.at \in InWork /\ proxy'.at \in InWork /\ proxy'.worker = proxy.worker
    BY <1>1, <1>3, <2>2, OwedIs, OwedIsNext DEF Rests, Accounted
  <2>3. CASE /\ proxy.at = "ReturningPredecessor" /\ proxy'.at = proxy.at
             /\ proxy'.successor = proxy.successor
    BY <1>1, <1>3, <2>3, OwedIs, OwedIsNext DEF Rests, Accounted
  <2>4. QED BY <1>3, <2>1, <2>2, <2>3 DEF Rests
<1>4. CASE Serves
  BY <1>1, <1>4 DEF Serves, Owed, Accounted
<1>5. CASE Submits
  <2>1. Unreported' \subseteq Unreported \cup {next} /\ outcome' = outcome
    <3>1. outcome' = outcome /\ next' = next + 1
      BY <1>5 DEF Submits
    <3>2. \A a \in Attempts : a < next + 1 => a < next \/ a = next
      BY <1>0
    <3>3. QED BY <3>1, <3>2 DEF Unreported
  <2>2. Unreported = {} /\ next \in Owed'
    <3>1. proxy.at \in Empty \cup {"Ready"}
      BY <1>5 DEF Submits
    <3>2. "Creating" \in InWork
      BY DEF InWork, StartPhases
    <3>3. QED BY <1>5, <3>1, <3>2, OwedIs, OwedIsNext DEF Submits, Accounted
  <2>3. QED BY <2>1, <2>2 DEF Accounted
<1>6. CASE Departs
  <2>1. proxy.worker \in Attempts /\ outcome[proxy.worker] = <<"Ready">>
    BY Zenon, <1>0, <1>6, Names DEF Departs, TypeInv, Custodian, Ledger, Serving, Replacing
  <2>2. Unreported \subseteq Owed'
    <3>1. "Creating" \in InWork /\ "EmptyAfter" \in Empty
      BY DEF InWork, StartPhases, Empty
    <3>2. QED BY <1>6, <3>1, OwedIs, OwedIsNext DEF Departs, Accounted
  <2>3. QED BY <1>2, <1>6, <2>1, <2>2 DEF Departs
<1>7. CASE Settles
  <2>1. proxy.worker \in Attempts /\ outcome[proxy.worker] = <<>>
    BY <1>0, <1>7, Names DEF Settles, TypeInv, Custodian, Ledger, InWork, Replacing
  <2>2. Unreported \ {proxy.worker} = {}
    BY <1>7, OwedIs DEF Settles, Accounted
  <2>3. PICK r \in {<<"Ready">>, <<"Ready", "WorkerStopped">>} \cup Contract!Failures :
            Report(proxy.worker, r)
    BY <1>7 DEF Settles
  <2>4. <<>> \o r = r /\ r \in Dispositions \ {<<>>}
    BY <2>3, ReportSequences, ReportsAreDispositions
  <2>5. QED BY <1>2, <1>7, <2>1, <2>2, <2>3, <2>4 DEF Settles
<1>8. CASE Closes
  <2>1. CASE /\ proxy.at \in Empty \cup InWork \cup {"Ready"} /\ proxy'.at \in Closing
             /\ UNCHANGED outcome
    <3>1. Owed \subseteq Owed'
      BY <2>1, OwedIs, OwedIsNext
    <3>2. QED BY <1>1, <1>8, <2>1, <3>1 DEF Closes, Accounted
  <2>2. CASE /\ proxy.at = "ReturningPredecessor"
             /\ Report(proxy.successor, <<"CancelledBeforeBirth">>)
    <3>1. proxy.successor \in Attempts /\ outcome[proxy.successor] = <<>>
      BY <1>0, <2>2 DEF TypeInv, Custodian, Ledger
    <3>2. Unreported \ {proxy.successor} = {}
      BY <2>2, OwedIs DEF Accounted
    <3>3. QED BY <1>2, <1>8, <2>2, <3>1, <3>2, ReportSequences, ReportsAreDispositions
              DEF Closes
  <2>3. QED BY <1>8, <2>1, <2>2 DEF Closes, Closing
<1>9. CASE Ends
  <2>1. Owed' = Owed
    BY <1>9, OwedIs, OwedIsNext DEF Ends
  <2>2. QED BY <1>1, <1>9, <2>1 DEF Ends, Accounted
<1>10. QED BY <1>0, <1>3, <1>4, <1>5, <1>6, <1>7, <1>8, <1>9 DEF Shapes

-----------------------------------------------------------------------------
(* What the exchange establishes.                                            *)

AllInv == IInv /\ Ledger /\ Exchange /\ Accounted /\ AnswersConsumed

\* What was issued stays issued.
LEMMA TouchedStays ==
    ASSUME TypeInv, Ledger, [Next]_vars
    PROVE  \A a \in Nat : Touched(a) => Touched(a)'
<1>0. next \in Nat
  BY MaxAttemptsAssumption DEF TypeInv, TypeOK
<1>1. next' \in Nat /\ next <= next'
  BY <1>0, StepShapes DEF Shapes, Rests, Serves, Submits, Departs, Settles, Closes, Ends
<1>2. proxy'.at = "ReturningPredecessor" =>
        \/ proxy.at = "ReturningPredecessor" /\ proxy'.successor = proxy.successor
        \/ proxy'.successor = next
  BY StepShapes, Groups
     DEF Shapes, Rests, Serves, Submits, Departs, Settles, Closes, Ends, Closing
<1>3. QED BY <1>0, <1>1, <1>2 DEF Touched

\* It holds of the dormant proxy, and every step keeps it.
LEMMA AllInvariant == (Init => AllInv) /\ (AllInv /\ [Next]_vars => AllInv')
<1>1. ASSUME Init PROVE Exchange /\ Accounted /\ AnswersConsumed
  <2>1. proxy.at = "Dormant" /\ proxy.awaiting = FALSE
    BY <1>1 DEF Init, Owning
  <2>2. Exchange /\ AnswersConsumed
    BY <1>1, <2>1 DEF Init, Exchange, Unasked, Form, Working, Parted, AnswersConsumed
  <2>3. \A a \in Attempts : outcome[a] = <<>> /\ ~(a < next)
    BY <1>1, MaxAttemptsAssumption DEF Init, Attempts
  <2>4. QED BY <2>2, <2>3, ReportsAreDispositions DEF Accounted, Unreported
<1>2. AllInv => TypeInv
  BY DEF AllInv, IInv
<1>3. QED
  BY <1>1, <1>2, InductiveInit, SimulationInit, InductiveStep, SimulationStep, ExchangeStep,
     AccountedStep, ConsumedStep, TouchedStays
     DEF AllInv, Simulates

\* For any number of attempts, a worker is asked to shut down at most once,
\* whichever of a replacement, a failed start and an owner shutdown asks first.
THEOREM AskedOnce == Spec => ShutdownAskedOnce
<1>1. AllInv /\ [Next]_vars =>
        [\A a \in asked : Ask("ShutdownEstablished", a) \notin requests' \ requests]_vars
  BY ExchangeStep, TouchedStays DEF AllInv, IInv, AskedAtMostOnce
<1>2. QED BY <1>1, AllInvariant, PTL DEF Spec, ShutdownAskedOnce

\* For any number of attempts, a proxy that routes commands has a worker that was
\* reported Ready and nothing else, was never asked to shut down, and owes no
\* answer: no late fact but its own stop can reach the proxy about it.
THEOREM ReadinessIsExact == Spec => []ReadyIsExact
<1>1. AllInv => ReadyIsExact
  <2> SUFFICES ASSUME AllInv, proxy.at = "Ready"
               PROVE  /\ outcome[proxy.worker] = <<"Ready">>
                      /\ proxy.worker \notin asked
                      /\ \A r \in requests : r.worker # proxy.worker
                      /\ \A f \in facts : f.worker = proxy.worker => f.kind = "WorkerStopped"
    BY DEF ReadyIsExact
  <2>1. proxy.worker \in Attempts /\ Serving(proxy.worker)
    BY Names DEF AllInv, IInv, TypeInv, Custodian, Ledger
  <2>2. proxy.worker \notin asked
    BY DEF AllInv, Exchange, Unasked
  <2>3. Due = "None"
    BY DEF Due, InStartup
  <2>4. /\ \A f \in facts : f.kind \notin WorkKinds
        /\ \A r \in requests : r.op = "ShutdownEstablished"
    BY <2>3, NothingDue DEF AllInv, IInv, Exchange
  <2>5. \A f \in facts : f.kind \in {"WorkerStopped", "ShutdownResolved"}
    BY <2>4 DEF AllInv, IInv, TypeInv, TypeOK, Facts, FactKinds, WorkKinds
  <2>6. QED BY <2>1, <2>2, <2>4, <2>5 DEF AllInv, Exchange, Parted, Serving
<1>2. QED BY <1>1, AllInvariant, PTL DEF Spec

\* For any number of attempts, every operation is settled: each submission gets
\* one disposition, an open proxy turns no answer away, and a stopped one leaves
\* no worker, no request and no answer behind.
THEOREM EveryOperationSettles == Spec => []OperationsSettled
<1>1. AllInv => OneDisposition
  <2>1. ASSUME AllInv, NEW a \in Owed PROVE a \in {proxy.worker, proxy.successor}
    BY <2>1 DEF Owed
  <2>2. QED BY <2>1 DEF AllInv, Accounted, Unreported, OneDisposition
<1>2. AllInv => StoppedIsSettled
  <2> SUFFICES ASSUME AllInv, proxy.at = "Stopped"
               PROVE  /\ \A a \in Attempts : host[a] # "alive"
                      /\ requests = {}
                      /\ \A f \in facts : f.kind = "WorkerStopped"
    BY DEF StoppedIsSettled
  <2>1. \A a \in Attempts : host[a] # "alive"
    BY DEF AllInv, IInv, OnlyWorkerLives, Live, Hosting, StartPhases, Departures
  <2>2. Due = "None" /\ Leaving = {}
    BY DEF Due, InStartup, Leaving, AllInv, Exchange, Form, InWork, StartPhases, ShuttingDown,
           Departures
  <2>3. /\ \A f \in facts : f.kind \notin WorkKinds
        /\ \A r \in requests : r.op = "ShutdownEstablished"
    BY <2>2, NothingDue DEF AllInv, IInv, Exchange
  <2>4. requests = {} /\ \A f \in facts : f.kind # "ShutdownResolved"
    BY <2>2, <2>3 DEF AllInv, Exchange, Parted
  <2>5. \A f \in facts : f.kind = "WorkerStopped"
    BY <2>3, <2>4 DEF AllInv, IInv, TypeInv, TypeOK, Facts, FactKinds, WorkKinds
  <2>6. QED BY <2>1, <2>4, <2>5
<1>3. AllInv => OperationsSettled
  BY <1>1, <1>2 DEF OperationsSettled, AllInv
<1>4. QED BY <1>3, AllInvariant, PTL DEF Spec
=============================================================================
