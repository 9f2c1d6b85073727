--------------------------- MODULE DynamicSupervisor ---------------------------
(***************************************************************************)
(* DynamicSupervisor (templates/supervisor/directory): keyed services that *)
(* are started, replaced, cancelled and stopped by command, each behind a  *)
(* stable proxy of its own.  The supervisor `sup' is a record, every       *)
(* handler an operator on it.                                              *)
(*                                                                         *)
(*   services  the entry of each key.  Beside generation, operation,       *)
(*             creation and phase it has the fields of its phase:          *)
(*             service/worker (Ready or Empty, and of which attempt),      *)
(*             latest, shutdown/stopped (the join of the shutdown's        *)
(*             settlement with the proxy's exit), and for a retirement     *)
(*             what it is for (work), the custody of an input the proxy    *)
(*             may hold (input) and the operation that input belongs to    *)
(*             (of)                                                        *)
(*   told      per operation, the lifecycle facts and returned             *)
(*             submissions its callers were sent                           *)
(***************************************************************************)
EXTENDS Naturals, Sequences, FiniteSets, FiniteSetsExt, Drain, TLC

CONSTANTS
    Keys,
    EntryLimit, StartupLimit,
    MaxGenerations, MaxOperations, MaxCreations,
                      \* identifiers left before each sequence is exhausted
    MaxFaults

VARIABLES sup, owed, proxy, faults

vars == <<sup, owed, proxy, faults>>

(* UnexpectedExit, and whether the drain is bounded; they do not interact. *)
Configs == [exit : {"KeepEmpty", "Retire"}, limited : {FALSE}]
              \cup [exit : {"KeepEmpty"}, limited : {TRUE}]

NoEntry ==
    [gen |-> 0, op |-> 0, creation |-> 0, phase |-> "Absent", service |-> "None",
     worker |-> 0, latest |-> "Committed", shutdown |-> "None", stopped |-> FALSE,
     work |-> "None", input |-> "None", of |-> 0]

Req(op, c, n) == [op |-> op, of |-> {c}, n |-> n]

Entries(p) == {k \in Keys : p.services[k] # NoEntry}

With(p, k, e) == [p EXCEPT !.services[k] = e]

Send(p, op, e) == [p EXCEPT !.sent = @ \cup {Req(op, e.creation, e.op)}]

Tell(p, op, fact) == [p EXCEPT !.told[op] = Append(@, fact)]

(* An input that fits no entry is given back as the actor's error, or only *)
(* diagnosed; neither touches an entry.                                    *)
Rejected(p) == p

Diagnosed(p) == p

At(e, phase) ==
    [NoEntry EXCEPT !.gen = e.gen, !.op = e.op, !.creation = e.creation, !.phase = phase]

Available(e, service, worker, latest) ==
    [At(e, "Available") EXCEPT !.service = service, !.worker = worker, !.latest = latest]

(* The entry of the exact proxy a fact names.                              *)
TakeProxyEntry(p, c) == {k \in Entries(p) : p.services[k].creation = c}

-----------------------------------------------------------------------------
(* Retirement: the proxy is asked to stop.  `input' is "None" unless the   *)
(* proxy may hold the worker of operation `of'.                            *)

Retire(p, k, e, work, input, of) ==
    Send(With(p, k, [At(e, "Retiring") EXCEPT
                        !.shutdown = "AwaitingSettlement", !.work = work,
                        !.input = input, !.of = of]), "shutdown", e)

BeginStop(p, k, e, service, worker) ==
    Send(With(p, k, [At(e, "Stopping") EXCEPT
                        !.shutdown = "AwaitingSettlement", !.service = service,
                        !.worker = worker]), "shutdown", e)

EntryRetired(p, k) == Tell(With(p, k, NoEntry), p.services[k].op, "EntryRetired")

OperationCancelled(p, k, outcome) == EntryRetired(Tell(p, p.services[k].op, outcome), k)

(* A retirement closes when the shutdown is settled, the proxy is gone and *)
(* a transferred worker has been accounted for.                            *)
Closes(e) ==
    /\ e.shutdown \in {"Accepted", "Rejected"} /\ e.stopped
    /\ e.input \notin {"AwaitingSettlement", "AwaitingOutcome"}

(* Mutant: a start that was stopped at its proxy is not accounted for.     *)
StoppedStartForgotten(p, k) == EntryRetired(Tell(p, p.services[k].op, "StopFinished"), k)

StoppedStart(p, k) ==
    LET e == p.services[k]
        q == Tell(p, e.of, "Interrupted")
    IN  EntryRetired(IF e.shutdown = "Accepted" THEN Tell(q, e.op, "StopFinished") ELSE q, k)

InterruptedChange(p, k) == EntryRetired(Tell(p, p.services[k].of, "Interrupted"), k)

SettleRetirement(p, k) ==
    LET e == p.services[k]
    IN  CASE ~Closes(e) -> p
          [] e.work = "CancelledWorkerReturned" -> OperationCancelled(p, k, "CancellationClosed")
          [] e.work \in {"CancelStart", "CancelReplacement"} ->
                OperationCancelled(p, k, "OperationCancelled")
          [] e.work = "StopStart" -> StoppedStart(p, k)
          [] e.work \in {"SupervisorStart", "SupervisorReplacement"} ->
                InterruptedChange(p, k)
          [] OTHER -> EntryRetired(p, k)

-----------------------------------------------------------------------------
(* Startup slots.                                                          *)

Occupies(e) ==
    \/ e.phase \in {"WaitingForProxyInput", "WaitingForProxyOutcome",
                    "ReplacementAwaitingReceipt", "ReplacementAwaitingOutcome"}
    \/ e.input \in {"AwaitingSettlement", "AwaitingOutcome"}

Waits(e) == e.phase \in {"WaitingForStartup", "ReplacementQueued"}

(* The waiting change with the lowest operation takes a free slot.         *)
AuthorizeWaiting(p) ==
    LET waiting == {k \in Keys : Waits(p.services[k])}
        k == CHOOSE w \in waiting :
               \A v \in waiting : p.services[w].op <= p.services[v].op
        e == p.services[k]
    IN  CASE waiting = {} -> p
          [] Cardinality({s \in Keys : Occupies(p.services[s])}) >= StartupLimit -> p
          [] e.phase = "WaitingForStartup" ->
                Send(With(p, k, At(e, "WaitingForProxyInput")), "start", e)
          [] OTHER ->
                Send(With(p, k, [e EXCEPT !.phase = "ReplacementAwaitingReceipt"]),
                     "replace", e)

-----------------------------------------------------------------------------
(* Commands.  A refused command only answers its sender.                   *)

Start(p, k) ==
    LET e == [NoEntry EXCEPT !.gen = p.gens + 1, !.op = p.ops + 1,
                             !.creation = p.creations + 1, !.phase = "CreatingProxy"]
    IN  IF \/ p.services[k] # NoEntry
           \/ Cardinality(Entries(p)) >= EntryLimit
           \/ p.gens = MaxGenerations \/ p.ops = MaxOperations
           \/ p.creations = MaxCreations
        THEN p
        ELSE Send([With(p, k, e) EXCEPT !.gens = @ + 1, !.ops = @ + 1, !.creations = @ + 1],
                  "create", [e EXCEPT !.op = 0])

Replace(p, k) ==
    LET e == p.services[k]
    IN  IF e.phase # "Available" \/ p.ops = MaxOperations THEN p
        ELSE AuthorizeWaiting(
                With([p EXCEPT !.ops = @ + 1], k,
                     [e EXCEPT !.phase = "ReplacementQueued", !.op = p.ops + 1,
                               !.latest = "Committed"]))

(* A start the proxy may already hold is stopped with its proxy.           *)
StopStart(p, k, e, of) ==
    Retire(p, k, e, "StopStart",
           IF e.phase = "WaitingForProxyInput" THEN "AwaitingSettlement" ELSE "AwaitingOutcome",
           of)

Stop(p, k) ==
    LET e == p.services[k]
        q == [p EXCEPT !.ops = @ + 1]
        f == [e EXCEPT !.op = p.ops + 1]
    IN  CASE e.phase \notin {"Available", "CreatingProxy", "WaitingForStartup",
                             "WaitingForProxyInput", "WaitingForProxyOutcome"} -> p
          [] p.ops = MaxOperations -> With(p, k, [e EXCEPT !.latest = "Committed"])
          [] e.phase = "Available" -> BeginStop(q, k, f, e.service, e.worker)
          [] e.phase = "CreatingProxy" ->
                With(q, k, [At(f, "StoppingProxyCreation") EXCEPT !.of = e.op])
          [] e.phase = "WaitingForStartup" ->
                Tell(BeginStop(q, k, f, "None", 0), e.op, "Interrupted")
          [] OTHER -> StopStart(q, k, f, e.op)

CancelStart(p, k) ==
    LET e == p.services[k]
    IN  CASE e.phase = "CreatingProxy" ->
                Tell(With(p, k, At(e, "CancellingProxyCreation")), e.op, "Returned")
          [] e.phase = "WaitingForStartup" ->
                Tell(Retire(p, k, e, "CancelledWorkerReturned", "None", 0), e.op, "Returned")
          [] e.phase = "WaitingForProxyInput" ->
                Retire(p, k, e, "CancelStart", "AwaitingSettlement", e.op)
          [] e.phase = "WaitingForProxyOutcome" ->
                Retire(p, k, e, "CancelStart", "AwaitingOutcome", e.op)

CancelReplacement(p, k) ==
    LET e == p.services[k]
    IN  CASE e.phase = "ReplacementQueued" ->
                Tell(With(p, k, Available(e, e.service, e.worker, "Cancelled")), e.op, "Returned")
          [] e.phase = "ReplacementAwaitingReceipt" ->
                Retire(p, k, e, "CancelReplacement", "AwaitingSettlement", e.op)
          [] e.phase = "ReplacementAwaitingOutcome" ->
                Retire(p, k, e, "CancelReplacement", "AwaitingOutcome", e.op)

(* An authority names the operation it may cancel; what has been committed *)
(* or cancelled already is only answered.                                  *)
Cancel(p, k, op) ==
    LET e == p.services[k]
    IN  CASE e.op # op -> p
          [] e.phase \in {"CreatingProxy", "WaitingForStartup", "WaitingForProxyInput",
                          "WaitingForProxyOutcome"} -> CancelStart(p, k)
          [] e.phase \in {"ReplacementQueued", "ReplacementAwaitingReceipt",
                          "ReplacementAwaitingOutcome"} -> CancelReplacement(p, k)
          [] OTHER -> p

-----------------------------------------------------------------------------
(* Shutdown of the supervisor.                                             *)

ShutdownEntry(p, k) ==
    LET e == p.services[k]
    IN  CASE e.phase = "CreatingProxy" ->
                Tell(With(p, k, At(e, "ShuttingDownProxyCreation")), e.op, "Interrupted")
          [] e.phase = "StoppingProxyCreation" ->
                Tell(With(p, k, At(e, "DrainingProxyCreationStop")), e.of, "Interrupted")
          [] Waits(e) ->
                Tell(Retire(p, k, e, "SupervisorShutdown", "None", 0), e.op, "Interrupted")
          [] e.phase = "Available" -> Retire(p, k, e, "SupervisorShutdown", "None", 0)
          [] e.phase = "WaitingForProxyInput" ->
                Retire(p, k, e, "SupervisorStart", "AwaitingSettlement", e.op)
          [] e.phase = "WaitingForProxyOutcome" ->
                Retire(p, k, e, "SupervisorStart", "AwaitingOutcome", e.op)
          [] e.phase = "ReplacementAwaitingReceipt" ->
                Retire(p, k, e, "SupervisorReplacement", "AwaitingSettlement", e.op)
          [] e.phase = "ReplacementAwaitingOutcome" ->
                Retire(p, k, e, "SupervisorReplacement", "AwaitingOutcome", e.op)
          [] OTHER -> p

BeginShutdown(p) ==
    LET q == FoldSet(LAMBDA k, r : ShutdownEntry(r, k), p, Entries(p))
    IN  IF p.mode # "Accepting" THEN p
        ELSE [q EXCEPT !.mode = "ShuttingDown", !.deadline = DeadlineBegin(p.conf.limited),
                       !.sent = IF p.conf.limited
                                THEN @ \cup {[op |-> "schedule", of |-> {}, n |-> 0]} ELSE @]

ApplyShutdownStep(p) ==
    IF p.mode = "ShuttingDown" /\ (Entries(p) = {} \/ Expired(p.deadline))
    THEN [p EXCEPT !.mode = "Stopped"]
    ELSE p

-----------------------------------------------------------------------------
(* Settlements.                                                            *)

(* The proxy of an entry was created, or refused; meanwhile the start may  *)
(* have been cancelled or stopped, or the supervisor may drain.            *)

StartCreation(p, k, committed) ==
    LET e == p.services[k]
    IN  IF committed THEN AuthorizeWaiting(With(p, k, At(e, "WaitingForStartup")))
        ELSE Tell(With(p, k, NoEntry), e.op, "StartCreationRejected")

ShutdownCreation(p, k, committed) ==
    IF committed THEN Retire(p, k, p.services[k], "SupervisorShutdown", "None", 0)
    ELSE EntryRetired(p, k)

DrainedCreation(p, k, committed) ==
    IF committed THEN BeginStop(p, k, p.services[k], "None", 0) ELSE EntryRetired(p, k)

(* Mutant: a proxy created for a cancelled start is forgotten.             *)
CancelledCreationForgets(p, k, committed) == OperationCancelled(p, k, "CancellationClosed")

CancelledCreation(p, k, committed) ==
    IF committed THEN Retire(p, k, p.services[k], "CancelledWorkerReturned", "None", 0)
    ELSE OperationCancelled(p, k, "CancellationClosed")

StoppedCreation(p, k, committed) ==
    Tell(IF committed THEN BeginStop(p, k, p.services[k], "None", 0) ELSE EntryRetired(p, k),
         p.services[k].of, "Interrupted")

AcceptCreations(p, k, committed) ==
    LET phase == p.services[k].phase
    IN  CASE phase = "CreatingProxy" -> StartCreation(p, k, committed)
          [] phase = "ShuttingDownProxyCreation" -> ShutdownCreation(p, k, committed)
          [] phase = "DrainingProxyCreationStop" -> DrainedCreation(p, k, committed)
          [] phase = "CancellingProxyCreation" -> CancelledCreation(p, k, committed)
          [] phase = "StoppingProxyCreation" -> StoppedCreation(p, k, committed)
          [] OTHER -> Rejected(p)

AcceptStartInput(p, k, accepted) ==
    LET e == p.services[k]
    IN  IF accepted THEN With(p, k, [e EXCEPT !.phase = "WaitingForProxyOutcome"])
        ELSE Tell(AuthorizeWaiting(Retire(p, k, e, "StartFailed", "None", 0)),
                  e.op, "StartInputRejected")

AcceptReplacementInput(p, k, accepted) ==
    LET e == p.services[k]
    IN  IF accepted THEN With(p, k, [e EXCEPT !.phase = "ReplacementAwaitingOutcome"])
        ELSE Tell(AuthorizeWaiting(With(p, k, Available(e, e.service, e.worker, "Committed"))),
                  e.op, "ReplacementInputRejected")

(* Mutant: an accepted shutdown waits for an exit that has already come.   *)
AcceptStoppingInputWaits(p, k, accepted) ==
    With(p, k, [p.services[k] EXCEPT !.shutdown = "Accepted", !.stopped = FALSE])

(* A stop that could not be delivered gives the service back, unless the   *)
(* proxy is gone or has no service to give back.                           *)
AcceptStoppingInput(p, k, accepted) ==
    LET e == p.services[k]
        Finished(q) == Tell(q, e.op, "StopFinished")
    IN  CASE e.stopped -> EntryRetired(Finished(p), k)
          [] accepted -> With(p, k, [e EXCEPT !.shutdown = "Accepted"])
          [] e.service # "None" ->
                Finished(With(p, k, Available(e, e.service, e.worker, "Committed")))
          [] OTHER ->
                Finished(With(p, k, [At(e, "Retiring") EXCEPT !.shutdown = "Rejected",
                                                              !.work = "InterruptedStart"]))

(* The settlement is the shutdown's or the one of the transferred worker.  *)
AcceptRetiringInput(p, k, op, accepted) ==
    LET e == p.services[k]
        shut == [e EXCEPT !.shutdown = IF accepted THEN "Accepted" ELSE "Rejected"]
        held == [e EXCEPT !.input = IF accepted THEN "AwaitingOutcome" ELSE "InputRejected"]
        Settle(q) == AuthorizeWaiting(SettleRetirement(q, k))
    IN  CASE op = "shutdown" /\ e.shutdown = "AwaitingSettlement" ->
                Settle(With(IF ~accepted /\ e.work = "StopStart"
                            THEN Tell(p, e.op, "StopFinished") ELSE p, k, shut))
          [] op # "shutdown" /\ e.input = "AwaitingSettlement" -> Settle(With(p, k, held))
          [] OTHER -> Rejected(p)

AcceptProxyInput(p, k, op, accepted) ==
    LET e == p.services[k]
    IN  CASE e.phase = "WaitingForProxyInput" /\ op = "start" ->
                AcceptStartInput(p, k, accepted)
          [] e.phase = "ReplacementAwaitingReceipt" /\ op = "replace" ->
                AcceptReplacementInput(p, k, accepted)
          [] e.phase = "Stopping" /\ e.shutdown = "AwaitingSettlement" /\ op = "shutdown" ->
                AcceptStoppingInput(p, k, accepted)
          [] e.phase = "Retiring" -> AcceptRetiringInput(p, k, op, accepted)
          [] OTHER -> Rejected(p)

-----------------------------------------------------------------------------
(* Facts about a proxy.                                                    *)

(* Mutant: an exit is expected only after the shutdown's settlement.       *)
AcceptProxyStopInOrder(p, k) ==
    LET e == p.services[k]
    IN  IF e.phase \in {"Stopping", "Retiring"} /\ e.shutdown = "Accepted"
        THEN SettleRetirement(With(p, k, [e EXCEPT !.stopped = TRUE, !.phase = "Retiring"]), k)
        ELSE Diagnosed(p)

AcceptProxyStop(p, k) ==
    LET e == p.services[k]
    IN  CASE e.phase = "Stopping" /\ e.shutdown = "AwaitingSettlement" /\ ~e.stopped ->
                With(p, k, [e EXCEPT !.stopped = TRUE])
          [] e.phase = "Stopping" /\ e.shutdown = "Accepted" /\ ~e.stopped ->
                EntryRetired(Tell(p, e.op, "StopFinished"), k)
          [] e.phase = "Retiring" /\ ~e.stopped ->
                SettleRetirement(With(p, k, [e EXCEPT !.stopped = TRUE]), k)
          [] OTHER -> Diagnosed(p)

AcceptInitialOutcome(p, k, attempt, ready) ==
    LET e == p.services[k]
    IN  IF ready
        THEN Tell(AuthorizeWaiting(With(p, k, Available(e, "Ready", attempt, "Committed"))),
                  e.op, "Started")
        ELSE Tell(AuthorizeWaiting(Retire(p, k, e, "StartFailed", "None", 0)),
                  e.op, "StartOutcomeRejected")

AcceptReplacementOutcome(p, k, attempt, replaces, outcome) ==
    LET e == p.services[k]
        Serves(service, worker, fact) ==
            Tell(AuthorizeWaiting(With(p, k, Available(e, service, worker, "Committed"))),
                 e.op, fact)
    IN  CASE outcome # "NotReplaceable" /\ replaces # e.worker -> Diagnosed(p)
          [] outcome = "Ready" -> Serves("Ready", attempt, "Replaced")
          [] outcome \in {"NotReplaceable", "AttemptsExhausted"} ->
                Serves(e.service, e.worker, "ReplacementFailed")
          [] outcome = "CreationRejected" -> Serves("Empty", replaces, "ReplacementFailed")
          [] outcome = "Unavailable" -> Serves("Empty", attempt, "ReplacementFailed")
          [] OTHER -> Diagnosed(p)

AcceptRetiringOutcome(p, k, change) ==
    LET e == p.services[k]
        Initial == {"CancelStart", "StopStart", "SupervisorStart"}
    IN  IF (change = "start") = (e.work \in Initial)
        THEN AuthorizeWaiting(SettleRetirement(
                With(p, k, [e EXCEPT !.input = "ProxyReported"]), k))
        ELSE Diagnosed(p)

AcceptWorkerStopped(p, k, worker) ==
    LET e == p.services[k]
    IN  CASE \/ e.phase # "Available" \/ e.service # "Ready" \/ e.worker # worker ->
                Diagnosed(p)
          [] p.conf.exit = "KeepEmpty" -> With(p, k, [e EXCEPT !.service = "Empty"])
          [] p.conf.exit = "Retire" -> Retire(p, k, e, "UnexpectedWorkerStopped", "None", 0)

AcceptProxyReport(p, k, r) ==
    LET e == p.services[k]
        held == e.phase = "Retiring" /\ e.input = "AwaitingOutcome"
    IN  CASE r.type = "Initial" /\ e.phase = "WaitingForProxyOutcome" ->
                AcceptInitialOutcome(p, k, r.attempt, r.ready)
          [] r.type = "Replacement" /\ e.phase = "ReplacementAwaitingOutcome" ->
                AcceptReplacementOutcome(p, k, r.attempt, r.replaces, r.outcome)
          [] r.type = "Initial" /\ held -> AcceptRetiringOutcome(p, k, "start")
          [] r.type = "Replacement" /\ held -> AcceptRetiringOutcome(p, k, "replace")
          [] r.type = "WorkerStopped" -> AcceptWorkerStopped(p, k, r.worker)
          [] OTHER -> Diagnosed(p)

-----------------------------------------------------------------------------
(* The fold.  A fact of a proxy no entry owns is refused: settlements as   *)
(* the actor's error, reports and exits as a diagnostic.  A creation batch *)
(* that failed as a whole is refused without looking for its entry.        *)

ProxyFact(p, e) ==
    LET c     == IF e.type = "CreationsSettled" THEN CHOOSE d \in DOMAIN e.committed : TRUE
                 ELSE e.proxy
        found == TakeProxyEntry(p, c)
        k     == CHOOSE j \in found : TRUE
    IN  CASE e.type = "CreationsSettled" /\ ~e.routed -> Rejected(p)
          [] found = {} ->
                IF e.type \in {"CreationsSettled", "InputSettled"} THEN Rejected(p)
                ELSE Diagnosed(p)
          [] e.type = "CreationsSettled" -> AcceptCreations(p, k, e.committed[c])
          [] e.type = "InputSettled" -> AcceptProxyInput(p, k, e.op, e.answer = "Accepted")
          [] e.type = "ProxyStopped" -> AcceptProxyStop(p, k)
          [] OTHER -> AcceptProxyReport(p, k, e)

Command(p, e) ==
    CASE p.mode # "Accepting" -> p
      [] e.type = "Start" -> Start(p, e.key)
      [] e.type = "Replace" -> Replace(p, e.key)
      [] e.type = "Stop" -> Stop(p, e.key)
      [] e.type = "Cancel" -> Cancel(p, e.key, e.op)

ShutdownTimer(p, e) ==
    CASE e.type = "ScheduleSettled" /\ p.deadline = "Scheduling" ->
            [p EXCEPT !.deadline = DeadlineSettled(e.answer = "Accepted")]
      [] e.type = "Elapsed" /\ p.deadline = "Waiting" -> [p EXCEPT !.deadline = "Elapsed"]
      [] OTHER -> Rejected(p)

Commands == {"Start", "Replace", "Stop", "Cancel"}

Transition(p, e) ==
    ApplyShutdownStep(
        CASE e.type \in Commands -> Command(p, e)
          [] e.type = "Shutdown" -> BeginShutdown(p)
          [] e.type \in {"ScheduleSettled", "Elapsed"} -> ShutdownTimer(p, e)
          [] OTHER -> ProxyFact(p, e))

Fleet == INSTANCE ProxyFleet WITH Proxies <- 1 .. MaxCreations

Operations == 1 .. MaxOperations

Init ==
    /\ \E conf \in Configs :
          sup = [mode |-> "Accepting", deadline |-> "Unlimited", conf |-> conf,
                 services |-> [k \in Keys |-> NoEntry], gens |-> 0, ops |-> 0, creations |-> 0,
                 sent |-> {}, told |-> [o \in Operations |-> <<>>]]
    /\ owed = {}
    /\ Fleet!FleetInit

(* Commands and the supervisor's own shutdown request; a caller cancels    *)
(* only what it was given the authority for.                               *)
Request ==
    /\ sup.mode # "Stopped"
    /\ UNCHANGED <<proxy, faults>>
    /\ \/ \E k \in Keys, type \in {"Start", "Replace", "Stop"} :
             Fleet!Take([type |-> type, key |-> k], {}, {})
       \/ \E k \in Keys, o \in 1 .. sup.ops :
             Fleet!Take([type |-> "Cancel", key |-> k, op |-> o], {}, {})
       \/ Fleet!Take([type |-> "Shutdown"], {}, {})

Next == Request \/ Fleet!FleetNext

Spec == Init /\ [][Next]_vars

(* Keys are only compared.                                                 *)
Symmetry == Permutations(Keys)

-----------------------------------------------------------------------------
(* Properties.                                                             *)

ChangeEnds == {"Started", "StartCreationRejected", "StartInputRejected",
               "StartOutcomeRejected", "Replaced", "ReplacementFailed",
               "ReplacementInputRejected", "Interrupted", "Returned", "OperationCancelled",
               "StopFinished"}

EndsOf(o) == Len(SelectSeq(sup.told[o], LAMBDA f : f \in ChangeEnds))

(* The operations whose end an entry still owes.                           *)
Owes(e) ==
    CASE e.phase \in {"CreatingProxy", "Stopping", "DrainingProxyCreationStop"}
           \/ Waits(e) \/ (Occupies(e) /\ e.phase # "Retiring") -> {e.op}
      [] e.phase = "StoppingProxyCreation" -> {e.op, e.of}
      [] e.work = "StopStart" ->
            {e.of} \cup (IF e.shutdown = "Rejected" THEN {} ELSE {e.op})
      [] e.input # "None" -> {e.of}
      [] OTHER -> {}

(* Every accepted start, replacement and stop ends in exactly one fact:    *)
(* the worker serves, is rejected, is returned to the caller that          *)
(* cancelled it or reported interrupted, or the stop is finished (or, of a *)
(* proxy that was never born, the entry retired).  Until then exactly one  *)
(* entry owes that end, whichever of settlements, outcomes, exits,         *)
(* cancellations and shutdowns come first.                                 *)
ChangeSettledOnce ==
    sup.mode # "Stopped" =>
        \A o \in 1 .. sup.ops :
            LET owers == {k \in Keys : o \in Owes(sup.services[k])}
            IN  \/ Cardinality(owers) = 1 /\ EndsOf(o) = 0
                \/ owers = {} /\ EndsOf(o) = 1
                \/ owers = {} /\ sup.told[o] = <<"EntryRetired">>

(* Every proxy that is alive or being created has one entry, and a stopped *)
(* supervisor that did not run out of time has outlived all of them.       *)
ProxyCustody ==
    \A c \in 1 .. MaxCreations :
        proxy[c].at \in {"Up", "Closing"} \/ Fleet!Owed("create", c) =>
            \/ Cardinality(TakeProxyEntry(sup, c)) = 1
            \/ sup.mode = "Stopped" /\ Expired(sup.deadline)

(* The workers that proxies were handed and have not accounted for stay in *)
(* the startup limit, also when their services are being cancelled or      *)
(* stopped, and no change waits while a slot is free.                      *)
SlotsExact ==
    LET busy == {c \in 1 .. MaxCreations : proxy[c].pending # 0 \/ Fleet!InputOwed(c)}
    IN  sup.mode # "Stopped" =>
          /\ Cardinality(busy) <= StartupLimit
          /\ (\E k \in Keys : Waits(sup.services[k])) => Cardinality(busy) = StartupLimit

InCreation(e) ==
    e.phase \in {"CreatingProxy", "StoppingProxyCreation", "CancellingProxyCreation",
                "ShuttingDownProxyCreation", "DrainingProxyCreationStop"}

(* What an entry holds of its proxy is what became of it, however          *)
(* settlements, exits, cancellations and shutdowns cross: it awaits a      *)
(* creation only while the runtime owes it or failed its whole batch, a    *)
(* proxy that takes its shutdown is one being stopped, and the exit of     *)
(* such a proxy is recorded, also when it overtakes the settlement.  Only  *)
(* the death of a proxy that nobody asked to stop may go unrecorded.       *)
EntriesMirrorProxies ==
    \A k \in Entries(sup) :
        LET e  == sup.services[k]
            at == proxy[e.creation].at
        IN  /\ IF InCreation(e) THEN at = "Unrouted" \/ Fleet!Owed("create", e.creation)
               ELSE at \notin {"Unborn", "Unrouted"}
            /\ at \in {"Closing", "Gone"} => e.phase \in {"Stopping", "Retiring"}
            /\ at = "Closing" => e.shutdown = "Accepted"
            /\ at = "Gone" => e.stopped
            /\ e.stopped => at \in {"Gone", "Dead"}

(* When the runtime owes nothing, no entry is left in the middle of a      *)
(* change, except that one whose creation batch failed as a whole waits    *)
(* for ever (accept_creations gives that settlement back), and one whose   *)
(* proxy refused to stop, or had died, still retires; without a failure a  *)
(* shutdown has ended.                                                     *)
SettlesWhenQuiet ==
    Fleet!Quiet =>
        /\ \A k \in Entries(sup) :
              LET e == sup.services[k]
              IN  \/ e.phase = "Available"
                  \/ InCreation(e) /\ proxy[e.creation].at = "Unrouted"
                  \/ e.phase = "Retiring" /\ e.shutdown = "Rejected" /\ ~e.stopped
        /\ sup.mode = "ShuttingDown" => faults < MaxFaults

(* "Stable-proxy death in any phase retires that exact entry generation":  *)
(* no entry keeps its place in service when its proxy has died.            *)
ProxyDeathRetires ==
    \A k \in Entries(sup) :
        proxy[sup.services[k].creation].at = "Dead" =>
            sup.services[k].phase \in {"Stopping", "Retiring"}

(* "transforms every retained entry into one exhaustive drain entry": once *)
(* the supervisor shuts down, no entry is or goes back in service.         *)
DrainOwnsEveryEntry ==
    sup.mode = "ShuttingDown" => \A k \in Keys : sup.services[k].phase # "Available"

(* Every proxy is followed by one entry and within the startup limit.      *)
ProxiesAccounted == ProxyCustody /\ SlotsExact
==============================================================================
