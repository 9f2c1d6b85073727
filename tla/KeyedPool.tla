------------------------------- MODULE KeyedPool -------------------------------
(***************************************************************************)
(* KeyedPool (templates/pool/router): a pool of directly owned workers in  *)
(* which every key is bound to one role, every role has its own backlog,   *)
(* and a binding can be moved or removed by management commands.  Workers  *)
(* recover through a single source and the pool retires in order, as in    *)
(* FifoPool; where the two differ, this module follows the keyed code.     *)
(*                                                                         *)
(* A binding is [role, gen]; gen 0 stands for an unbound key.              *)
(***************************************************************************)
EXTENDS PoolMember, SequencesExt

CONSTANTS
    NKeys,
    BindingCapacity,
    MaxGenerations    \* identifiers left before the sequence is exhausted

VARIABLES pool, submitted, owed, up, gone, work, clock, faults, lost

vars == <<pool, submitted, owed, up, gone, work, clock, faults, lost>>

Keys == 1 .. NKeys
Unbound == [role |-> 0, gen |-> 0]

-----------------------------------------------------------------------------
(* Binding table.                                                          *)

Bound(p) == {k \in Keys : p.bindings[k] # Unbound}

Bind(p, k, r) == [p EXCEPT !.bindings[k] = [role |-> r, gen |-> p.gens + 1]]

(* reserve takes a fresh generation, which a later rejection does not give *)
(* back.                                                                   *)
ReserveRejection(p) ==
    CASE Cardinality(Bound(p)) >= BindingCapacity -> "BindingCapacityExhausted"
      [] p.gens = MaxGenerations -> "BindingGenerationExhausted"
      [] OTHER -> "None"

Reserve(p) == [p EXCEPT !.gens = @ + 1]

Unbind(p, ks) ==
    [p EXCEPT !.bindings = [k \in Keys |-> IF k \in ks THEN Unbound ELSE @[k]]]

QueueTarget(p, r) ==
    IF Cardinality(p.queue[r]) >= BacklogCapacity THEN "QueueFull" ELSE "Queue"

AdmissionTarget(p, r) ==
    LET m == p.member[r]
    IN  CASE m.at = "Idle" -> "Assign"
          [] \/ m.at \in Recovering \cup {"Creating", "WaitingForStartup", "Busy"}
             \/ m.at \in {"Initializing", "StartupRequested", "Starting"} /\ m.stop = NoStop ->
                QueueTarget(p, r)
          [] OTHER -> "Unavailable"

-----------------------------------------------------------------------------
(* Admission and dispatch.                                                 *)

AssignTo(p, r, j) ==
    Send([With(p, r, Assign(p.member[r], j)) EXCEPT !.assignments = @ - 1], "assign", r, j)

QueueAt(p, r, j) == [p EXCEPT !.queue[r] = @ \cup {j}]

AcceptSubmission(p, j) ==
    LET k        == p.conf.key[j]
        bound    == p.bindings[k] # Unbound
        r        == IF bound THEN p.bindings[k].role ELSE p.conf.selector[k]
        reserved == IF bound THEN p ELSE Reserve(p)
        issued   == [reserved EXCEPT !.jobs = @ - 1]
        commit(q) == IF bound THEN q
                     ELSE [q EXCEPT !.bindings[k] = [role |-> r, gen |-> q.gens]]
        target   == AdmissionTarget(p, r)
        Refuse(q) == Deliver(q, j, "Rejected")
    IN  CASE r \notin Roles -> Refuse(p)
          [] ~bound /\ ReserveRejection(p) # "None" -> Refuse(p)
          [] target \in {"QueueFull", "Unavailable"} -> Refuse(reserved)
          [] p.jobs = 0 -> Refuse(reserved)
          [] target = "Assign" /\ p.assignments = 0 -> Refuse(issued)
          [] target = "Assign" ->
                Deliver(AssignTo(commit(issued), r, j), j, "Accepted")
          [] target = "Queue" ->
                Deliver(QueueAt(commit(issued), r, j), j, "Accepted")

(* One job at most: a role has one worker.                                 *)
FillRole(p, r) ==
    LET j == Min(p.queue[r])
        q == [p EXCEPT !.queue[r] = @ \ {j}]
    IN  CASE p.member[r].at # "Idle" \/ p.queue[r] = {} -> p
          [] p.assignments = 0 -> Deliver(q, j, "ReturnedQueued")
          [] OTHER -> AssignTo(q, r, j)

Rebalance(p, k, target) ==
    LET b == p.bindings[k]
    IN  CASE target \notin Roles -> p
          [] AdmissionTarget(p, target) = "Unavailable" -> p
          [] b = Unbound /\ ReserveRejection(p) # "None" -> p
          [] b = Unbound \/ (b.role # target /\ p.gens < MaxGenerations) ->
                Reserve(Bind(p, k, target))
          [] OTHER -> p

(* A management command carries the generation its sender last saw, 0 for  *)
(* an unbound key; target 0 asks to unbind.                                *)
AcceptBinding(p, k, expected, target) ==
    CASE expected # p.bindings[k].gen -> p
      [] target = 0 -> Unbind(p, {k})
      [] OTHER -> Rebalance(p, k, target)

-----------------------------------------------------------------------------
(* Retirement.                                                             *)

(* Mutant: only the backlogs are returned, not the assigned jobs.          *)
BeginRetirementQueued(p) ==
    LET members == [r \in Roles |-> Shutdown(p.member[r], TRUE)]
    IN  [DeliverAll(Unbind(p, Keys), UNION Range(p.queue), "ReturnedQueued") EXCEPT
            !.mode = "Retiring", !.member = members, !.queue = [r \in Roles |-> {}]]

BeginRetirement(p) ==
    LET targets  == {r \in Roles : ShutdownTarget(p.member[r])}
        reserved == Cardinality(targets) <= p.shutdowns
        members  == [r \in Roles |-> Shutdown(p.member[r], reserved)]
        busy     == {r \in Roles : p.member[r].at = "Busy"}
        returned == DeliverAll(DeliverAll(Unbind(p, Keys), UNION Range(p.queue),
                                          "ReturnedQueued"),
                               {p.member[r].job : r \in busy}, "ReturnedAssigned")
        requests == {Req("shutdown", {WorkerOf(p, r)}, NoJob) : r \in targets}
        schedule == IF p.conf.limited THEN {Req("schedule", {}, NoJob)} ELSE {}
    IN  [returned EXCEPT
            !.mode = CASE ~reserved -> "ForcedRetirement"
                       [] \A r \in Roles : ~Waiting(members[r]) -> "Stopped"
                       [] OTHER -> "Retiring",
            !.member = members,
            !.queue = [r \in Roles |-> {}],
            !.shutdowns = IF reserved THEN @ - Cardinality(targets) ELSE @,
            !.deadline = IF reserved THEN DeadlineBegin(p.conf.limited) ELSE @,
            !.sent = IF reserved THEN @ \cup requests \cup schedule ELSE @]

ContinueRetirement(p) ==
    CASE p.deadline \in {"NotScheduled", "Elapsed"} -> [p EXCEPT !.mode = "ForcedRetirement"]
      [] \A r \in Roles : ~Waiting(p.member[r]) -> [p EXCEPT !.mode = "Stopped"]
      [] OTHER -> p

(* retain_worker: those of the running workers a shutdown id is left for.  *)
RetainWorkers(p, running) ==
    {w \in running : Cardinality({v \in running : v[1] < w[1]}) < p.shutdowns}

AcceptCorrelatedCreations(p, outcome) ==
    LET batch   == DOMAIN outcome
        running == {w \in batch : StillRuns(p.member[w[1]], outcome[w])}
        asked   == RetainWorkers(p, running)
        settled == [p EXCEPT
                      !.member = [r \in Roles |->
                          IF WorkerOf(p, r) \in batch
                          THEN AcceptCreation(@[r], outcome[WorkerOf(p, r)],
                                              WorkerOf(p, r) \in asked)
                          ELSE @[r]],
                      !.shutdowns = @ - Cardinality(asked),
                      !.sent = @ \cup {Req("shutdown", {w}, NoJob) : w \in asked}]
    IN  IF asked # running THEN [settled EXCEPT !.mode = "ForcedRetirement"]
        ELSE ContinueRetirement(settled)

(* A batch is taken whole, and only when every row of it is awaited.       *)
AcceptWorkerCreations(p, outcome) ==
    IF \A w \in DOMAIN outcome : Holds(p, w, {"AwaitingCreation"})
    THEN AcceptCorrelatedCreations(p, outcome) ELSE p

AcceptWorkerCreationRejections(p, batch) ==
    AcceptWorkerCreations(p, [w \in batch |-> "Rejected"])

RetiringInitialization(p, w, report) ==
    IF p.member[w[1]].n # w[2] THEN p
    ELSE ContinueRetirement(With(p, w[1], AcceptWorkerInitialization(p.member[w[1]], report)))

RetiringStartup(p, w, report) ==
    IF p.member[w[1]].n # w[2] THEN p
    ELSE ContinueRetirement(With(p, w[1], AcceptWorkerStartup(p.member[w[1]], report)))

AcceptWorkerExit(p, w, kind) ==
    LET m == p.member[w[1]]
    IN  IF m.n # w[2] \/ ~AcceptsExit(m) THEN p
        ELSE ContinueRetirement(With(p, w[1], AcceptExit(m, kind)))

AcceptWorkerShutdown(p, w) ==
    LET m == p.member[w[1]]
    IN  IF m.n # w[2] \/ ~AcceptsShutdownSettlement(m) THEN p
        ELSE ContinueRetirement(With(p, w[1], AcceptShutdownSettlement(m)))

RetiredPreparationStart(p, w, accepted) ==
    LET m     == p.member[w[1]]
        start == AcceptRetiringPreparationStart(m, accepted)
    IN  CASE ~Current(p, w) \/ start = "Unrelated" -> p
          [] start = "Started" ->
                ContinueRetirement(With(p, w[1], [m EXCEPT !.sub = "Started"]))
          [] start = "Failed" ->
                ContinueRetirement([With(p, w[1], Drained(m)) EXCEPT !.source = "Available"])

RetiredPreparationReturn(p, w) ==
    LET m == p.member[w[1]]
    IN  IF ~Current(p, w) \/ AcceptRetiringPreparationReturn(m, TRUE) = "Unrelated" THEN p
        ELSE ContinueRetirement([With(p, w[1], Drained(m)) EXCEPT !.source = "Available"])

RetirementSchedule(p, ws, accepted) ==
    CASE \E w \in ws : Holds(p, w, {"AwaitingRestartSchedule"}) ->
            LET w == CHOOSE v \in ws : Holds(p, v, {"AwaitingRestartSchedule"})
            IN  ContinueRetirement(With(p, w[1], Drained(p.member[w[1]])))
      [] ws = {} /\ p.deadline = "Scheduling" ->
            ContinueRetirement([p EXCEPT !.deadline = DeadlineSettled(accepted)])
      [] OTHER -> p

AcceptDeadline(p, ws) ==
    IF ws = {} /\ p.deadline = "Waiting"
    THEN ContinueRetirement([p EXCEPT !.deadline = "Elapsed"]) ELSE p

-----------------------------------------------------------------------------
(* Recovery of one role.                                                   *)

RequestPreparation(p, r) ==
    Send([With(p, r, At(p.member[r], "Preparing", "Issued")) EXCEPT
            !.source = "AwaitingReturn"], "prepare", r, NoJob)

PrepareNextWaiting(p) ==
    LET r == First({s \in Roles : p.member[s].at = "WaitingForSource"})
    IN  IF r = 0 \/ p.source # "Available" THEN p ELSE RequestPreparation(p, r)

(* Mutant: the bindings outlive their role.                                *)
RetireRoleBound(p, r) ==
    [DeliverAll(With(p, r, Retire(p.member[r])), p.queue[r], "ReturnedQueued")
        EXCEPT !.queue[r] = {}]

(* A role that ends takes its backlog and its bindings with it.            *)
RetireRole(p, r) ==
    LET q == DeliverAll(With(p, r, Retire(p.member[r])), p.queue[r], "ReturnedQueued")
    IN  Unbind([q EXCEPT !.queue[r] = {}], {k \in Keys : p.bindings[k].role = r})

RetireUnrecoveredWorker(p, r) ==
    IF p.conf.failure = "StopPool" THEN BeginRetirement(With(p, r, Retire(p.member[r])))
    ELSE PrepareNextWaiting(RetireRole(p, r))

ReturnAssigned(p, j) == Deliver(p, j, "ReturnedAssigned")

(* Mutant: a retried job follows its key's present binding.                *)
RequeueByKey(p, r, j) ==
    LET b == p.bindings[p.conf.key[j]]
    IN  [p EXCEPT !.queue[IF b = Unbound THEN r ELSE b.role] = @ \cup {j}]

(* A retried job goes back to the backlog of the role that lost it, even   *)
(* when its key has been bound to another role since.                      *)
Requeue(p, r, j) == [p EXCEPT !.queue[r] = @ \cup {j}]

(* The worker's observed stop decides whether its role is recovered, and   *)
(* that decides what becomes of the interrupted job, NoJob if there was    *)
(* none.                                                                   *)
RecoverWorker(p, r, interrupted) ==
    LET m        == p.member[r]
        decision == Decide(p.conf.policy, p.conf.failure, p.source, m.stop)
        recovers == decision \in {"PrepareWorker", "WaitForSource"}
        q        == CASE interrupted = NoJob -> p
                      [] recovers /\ p.conf.interruption = "Retry" ->
                            Requeue(p, r, interrupted)
                      [] OTHER -> ReturnAssigned(p, interrupted)
    IN  CASE decision = "PrepareWorker" -> RequestPreparation(q, r)
          [] decision = "WaitForSource" -> With(q, r, At(m, "WaitingForSource", NoSub))
          [] decision = "RetireRole" -> RetireRole(q, r)
          [] decision = "StopPool" -> BeginRetirement(With(q, r, Retire(m)))

BeginReplacement(p, r) ==
    LET q == [With(p, r, Start(p.member[r].n + 1)) EXCEPT !.creations = @ - 1]
    IN  Send(q, "create", r, NoJob)

(* The settled rows are taken in role order.  Once a rejected row has made *)
(* the pool retire, the remaining ones are taken by the retiring pool.     *)
AcceptCreations(p, outcome) ==
    LET batch   == DOMAIN outcome
        Row(q, r) ==
            LET w == WorkerOf(p, r)
            IN  CASE w \notin batch \/ q.mode # "Operating" -> q
                  [] outcome[w] = "Established" ->
                        Send(With(q, r, AdmitCreation(q.member[r], outcome[w])),
                             "initialize", r, NoJob)
                  [] OTHER -> RetireUnrecoveredWorker(q, r)
        settled == FoldLeft(Row, p, [r \in Roles |-> r])
        rest    == {w \in batch : Holds(settled, w, {"AwaitingCreation"})}
    IN  CASE \E w \in batch : ~Holds(p, w, {"Creating"}) -> p
          [] settled.mode = "Retiring" /\ rest # {} ->
                AcceptWorkerCreations(settled, [w \in rest |-> outcome[w]])
          [] OTHER -> settled

RejectCreationBatch(p, batch) == AcceptCreations(p, [w \in batch |-> "Rejected"])

AuthorizeWaiting(p) ==
    LET occupied  == Cardinality({r \in Roles : Occupied(p.member[r])})
        waiting   == {r \in Roles : p.member[r].at = "WaitingForStartup"}
        available == IF occupied >= StartupLimit THEN 0 ELSE StartupLimit - occupied
        released  == {r \in waiting : Cardinality({s \in waiting : s < r}) < available}
    IN  [p EXCEPT
            !.member = [r \in Roles |-> IF r \in released
                                        THEN AuthorizeStartup(@[r]) ELSE @[r]],
            !.sent = @ \cup {Req("start", {WorkerOf(p, r)}, NoJob) : r \in released}]

(* Only the report of success is matched; any other is diagnosed and the   *)
(* worker stays where it was.                                              *)
AcceptInitialization(p, w, report) ==
    LET m == p.member[w[1]]
    IN  IF ~(Holds(p, w, {"Initializing"}) /\ AdmitsInitialization(m, report)) THEN p
        ELSE AuthorizeWaiting(With(p, w[1], At(m, "WaitingForStartup", NoSub)))

AcceptStartup(p, w, report) ==
    LET m == p.member[w[1]]
    IN  IF ~(Holds(p, w, {"StartupRequested", "Starting"}) /\ AdmitsStartup(m, report)) THEN p
        ELSE AuthorizeWaiting(FillRole(With(p, w[1], AdmitStartup(m)), w[1]))

AcceptWorkerPreparationStart(p, w, accepted) ==
    LET r     == w[1]
        start == AcceptPreparationStart(p.member[r], accepted)
    IN  CASE ~Current(p, w) \/ start = "Unrelated" -> p
          [] start = "Started" -> With(p, r, [p.member[r] EXCEPT !.sub = "Started"])
          [] start = "Failed" -> RetireUnrecoveredWorker([p EXCEPT !.source = "Available"], r)

AcceptWorkerPreparationReturn(p, w, prepared) ==
    LET r      == w[1]
        m      == p.member[r]
        delay  == Calculate(p.conf.release, m.n)
        q      == [p EXCEPT !.source = "Available"]
        paid   == [q EXCEPT !.charges = Charged(@, RestartLimit, m.since, 1)]
        timed  == [With(paid, r, At(m, "Scheduling", NoSub)) EXCEPT !.timers = @ - 1]
        return == AcceptPreparationReturn(m, prepared)
    IN  CASE ~Current(p, w) \/ return = "Unrelated" -> p
          [] \/ return = "Failed"
             \/ ~Admits(p.charges, RestartLimit, m.since, 1)
             \/ delay = Overflow
             \/ delay = 0 /\ p.creations = 0
             \/ delay > 0 /\ p.timers = 0 -> RetireUnrecoveredWorker(q, r)
          [] delay = 0 -> PrepareNextWaiting(BeginReplacement(paid, r))
          [] OTHER -> PrepareNextWaiting(Send(timed, "schedule", r, NoJob))

AcceptRestartSchedule(p, w, accepted) ==
    LET r     == w[1]
        admit == AdmitRestartSchedule(p.member[r], accepted)
    IN  CASE ~Current(p, w) \/ admit = "Unrelated" -> p
          [] admit = "WaitingForTimer" -> With(p, r, At(p.member[r], admit, NoSub))
          [] admit = "Returned" -> RetireUnrecoveredWorker(p, r)

AcceptRestartTimer(p, w) ==
    CASE ~(Current(p, w) /\ AdmitsRestartTimer(p.member[w[1]])) -> p
      [] p.creations = 0 -> RetireUnrecoveredWorker(p, w[1])
      [] OTHER -> BeginReplacement(p, w[1])

-----------------------------------------------------------------------------
(* Assignments and worker exits while Operating.                           *)

CompleteAssignment(p, r) ==
    LET m == p.member[r]
        q == Deliver(p, m.job, "Completed")
    IN  IF m.stop = NoStop THEN FillRole(With(q, r, At(m, "Idle", NoSub)), r)
        ELSE RecoverWorker(q, r, NoJob)

InterruptAssignment(p, r, j) == RecoverWorker(p, r, j)

QuarantineWorker(p, r) ==
    Send([With(p, r, At(p.member[r], "Stopping", "AwaitingBoth")) EXCEPT
            !.shutdowns = @ - 1], "shutdown", r, NoJob)

AcceptAssignmentReceipt(p, w, j) ==
    LET r       == w[1]
        m       == p.member[r]
        verdict == ReceiptVerdict(m)
    IN  CASE ~(Holds(p, w, {"Busy"}) /\ m.job = j) -> p
          [] verdict = "Waiting" -> With(p, r, [m EXCEPT !.sub = "Accepted"])
          [] verdict = "JobCompleted" -> CompleteAssignment(p, r)
          [] verdict = "JobInterrupted" -> InterruptAssignment(p, r, j)
          [] OTHER -> p

(* A refusal that contradicts a completion makes the pool retire.          *)
ConflictingCompletion(p) == IF p.mode = "Operating" THEN BeginRetirement(p) ELSE p

RejectAssignmentDelivery(p, w, j) ==
    LET r        == w[1]
        m        == p.member[r]
        verdict  == RejectionVerdict(m)
        returned == IF verdict = "JobReturned" THEN Requeue(p, r, j)
                    ELSE ReturnAssigned(p, j)
        handled  == IF m.stop = NoStop THEN QuarantineWorker(returned, r)
                    ELSE RecoverWorker([returned EXCEPT !.shutdowns = @ - 1], r, NoJob)
    IN  CASE ~(Holds(p, w, {"Busy"}) /\ m.job = j) -> p
          [] p.shutdowns = 0 -> BeginRetirement(p)
          [] verdict = "Unexpected" -> [p EXCEPT !.shutdowns = @ - 1]
          [] verdict = "ConflictingCompletion" -> ConflictingCompletion(handled)
          [] OTHER -> handled

AcceptCompletion(p, w, j) ==
    LET r       == w[1]
        m       == p.member[r]
        verdict == CompletionVerdict(m)
    IN  CASE ~(Holds(p, w, {"Busy"}) /\ m.job = j) -> p
          [] verdict = "Waiting" -> With(p, r, HoldCompletion(m))
          [] verdict = "JobCompleted" -> CompleteAssignment(p, r)
          [] OTHER -> p

(* An exit is matched only once the worker has become ready; an earlier    *)
(* one is diagnosed and otherwise forgotten.                               *)
AcceptWorkerStop(p, w, kind, now) ==
    LET r        == w[1]
        m        == p.member[r]
        recorded == With(p, r, Stopped(m, kind, now))
        verdict  == ExitVerdict(m)
        join     == JoinStopped(m.sub)
    IN  CASE m.n # w[2] -> p
          [] m.at = "Idle" -> RecoverWorker(recorded, r, NoJob)
          [] m.at = "Busy" /\ verdict = "Waiting" -> With(p, r, HoldExit(m, kind, now))
          [] m.at = "Busy" /\ verdict = "JobInterrupted" ->
                InterruptAssignment(recorded, r, m.job)
          [] m.at = "Stopping" /\ join = "Done" -> RecoverWorker(recorded, r, NoJob)
          [] m.at = "Stopping" /\ join = "AwaitingSettlement" ->
                With(p, r, [Stopped(m, kind, now) EXCEPT !.sub = join])
          [] OTHER -> p

AcceptQuarantineShutdown(p, w) ==
    LET r    == w[1]
        join == JoinSettled(p.member[r].sub)
    IN  CASE ~Holds(p, w, {"Stopping"}) -> p
          [] join = "Done" -> RecoverWorker(p, r, NoJob)
          [] join = "AwaitingStop" -> With(p, r, [p.member[r] EXCEPT !.sub = join])
          [] OTHER -> p

-----------------------------------------------------------------------------
(* transition.  Outside Operating a command is diagnosed, not answered.    *)

Operate(p, e) ==
    CASE e.type = "Submit" -> AcceptSubmission(p, e.job)
      [] e.type = "Binding" -> AcceptBinding(p, e.key, e.expected, e.target)
      [] e.type = "Shutdown" -> BeginRetirement(p)
      [] e.type = "WorkerCreationsSettled" -> AcceptCreations(p, e.outcome)
      [] e.type = "CreationBatchRejected" -> RejectCreationBatch(p, e.of)
      [] e.type = "WorkerInitialization" -> AcceptInitialization(p, e.worker, e.report)
      [] e.type = "WorkerStartup" -> AcceptStartup(p, e.worker, e.report)
      [] e.type = "AssignmentSettled" /\ e.result = "Accepted" ->
            AcceptAssignmentReceipt(p, e.worker, e.job)
      [] e.type = "AssignmentSettled" /\ e.result = "Rejected" ->
            RejectAssignmentDelivery(p, e.worker, e.job)
      [] e.type = "WorkerCompleted" -> AcceptCompletion(p, e.worker, e.job)
      [] e.type = "WorkerStopped" -> AcceptWorkerStop(p, e.worker, e.kind, e.now)
      [] e.type = "WorkerShutdownSettled" -> AcceptQuarantineShutdown(p, e.worker)
      [] e.type = "PreparationStarted" ->
            AcceptWorkerPreparationStart(p, e.worker, e.accepted)
      [] e.type = "PreparationReturned" ->
            AcceptWorkerPreparationReturn(p, e.worker, e.prepared)
      [] e.type = "ScheduleSettled" /\ e.of # {} ->
            AcceptRestartSchedule(p, CHOOSE w \in e.of : TRUE, e.accepted)
      [] e.type = "Elapsed" /\ e.of # {} ->
            AcceptRestartTimer(p, CHOOSE w \in e.of : TRUE)
      [] OTHER -> p

Retiring(p, e) ==
    CASE e.type = "WorkerCreationsSettled" -> AcceptWorkerCreations(p, e.outcome)
      [] e.type = "CreationBatchRejected" -> AcceptWorkerCreationRejections(p, e.of)
      [] e.type = "WorkerStopped" -> AcceptWorkerExit(p, e.worker, e.kind)
      [] e.type = "WorkerShutdownSettled" -> AcceptWorkerShutdown(p, e.worker)
      [] e.type = "WorkerInitialization" -> RetiringInitialization(p, e.worker, e.report)
      [] e.type = "WorkerStartup" -> RetiringStartup(p, e.worker, e.report)
      [] e.type = "PreparationStarted" ->
            RetiredPreparationStart(p, e.worker, e.accepted)
      [] e.type = "PreparationReturned" -> RetiredPreparationReturn(p, e.worker)
      [] e.type = "ScheduleSettled" -> RetirementSchedule(p, e.of, e.accepted)
      [] e.type = "Elapsed" -> AcceptDeadline(p, e.of)
      [] OTHER -> p

Transition(p, e) == IF p.mode = "Operating" THEN Operate(p, e) ELSE Retiring(p, e)

Runtime == INSTANCE PoolRuntime WITH MaxIncarnations <- MaxCreations + 1

(* A manager rebalances or unbinds a key, by what it last heard of it.     *)
ManageBinding ==
    /\ pool.mode = "Operating"
    /\ \E k \in Keys, expected \in {0, pool.gens}, target \in 0 .. NRoles + 1 :
          Runtime!Take([type |-> "Binding", key |-> k, expected |-> expected,
                        target |-> target], {}, {}, {})
    /\ UNCHANGED <<submitted, faults>>
    /\ Runtime!Stays

-----------------------------------------------------------------------------

Started(conf) ==
    [mode |-> "Operating", member |-> [r \in Roles |-> Start(1)],
     queue |-> [r \in Roles |-> {}], bindings |-> [k \in Keys |-> Unbound], gens |-> 0,
     source |-> "Available", charges |-> <<>>, deadline |-> "Unlimited", conf |-> conf,
     jobs |-> MaxJobs, assignments |-> MaxAssignments, shutdowns |-> MaxShutdowns,
     creations |-> MaxCreations, timers |-> MaxTimers,
     sent |-> {}, told |-> [j \in Jobs |-> <<>>]]

Init ==
    /\ pool \in {Started(c) : c \in Configs}
    /\ Runtime!RuntimeInit({Req("create", {<<r, 1>> : r \in Roles}, NoJob)}, pool.conf.faults)

Next == Runtime!RuntimeNext \/ ManageBinding

Spec == Init /\ [][Next]_vars

-----------------------------------------------------------------------------
(* Properties.                                                             *)

Operating == pool.mode = "Operating"
Retires   == pool.mode = "Retiring"
Accepted(p, j) == p.told[j] # <<>> /\ p.told[j][1] = "Accepted"

(* The roles that hold an accepted job, in their backlog or at a worker.   *)
Holders(p, j) == Assignees(p, j) \cup {r \in Roles : j \in p.queue[r]}

(* An accepted job is with one role, or finished with the one outcome its  *)
(* customer was sent; a rejected one is with nobody.                       *)
AcceptedConservation ==
    \A j \in 1 .. submitted :
        /\ Accepted(pool, j) =>
              Cardinality(Holders(pool, j)) + Cardinality(Outcomes(pool, j)) = 1
        /\ ~Accepted(pool, j) => Holders(pool, j) = {} /\ Cardinality(Outcomes(pool, j)) <= 1

(* A job stays with the role that accepted it until it is finished: a      *)
(* retry, a refused assignment or a rebalanced key never moves it.  And a  *)
(* binding that changes gets a generation no binding had before, so a      *)
(* manager's stale expectation can never match a later binding.            *)
RolesAreFenced ==
    [][/\ \A j \in Jobs :
             Holders(pool, j) # {} => Holders(pool', j) \in {Holders(pool, j), {}}
       /\ \A k \in Keys :
             LET b == pool'.bindings[k]
             IN  b # pool.bindings[k] => b = Unbound \/ b.gen > pool.gens]_vars

(* A key is bound to a role that can still serve it, within the capacity,  *)
(* and a role that retired keeps neither a binding nor a job.              *)
BindingsLive ==
    /\ Cardinality(Bound(pool)) <= BindingCapacity
    /\ Operating =>
          /\ \A k \in Bound(pool) : pool.member[pool.bindings[k].role].at # "Retired"
          /\ \A r \in Roles : pool.member[r].at = "Retired" => pool.queue[r] = {}
    /\ ~Operating => Bound(pool) = {}

(* An idle worker's role has no backlog, and startups stay in their limit. *)
OwnRoleServed ==
    /\ \A r \in Roles : pool.member[r].at = "Idle" => pool.queue[r] = {}
    /\ Cardinality({r \in Roles : Occupied(pool.member[r])}) <= StartupLimit

(* The single worker source is out with exactly one role, the one that     *)
(* waits for its return, and no role queues for a source that is idle.     *)
KeyedSourceCustody ==
    LET borrowers == {r \in Roles :
                        pool.member[r].at \in {"Preparing", "AwaitingPreparation"}}
    IN  Operating \/ Retires =>
          /\ Cardinality(borrowers) = IF pool.source = "Available" THEN 0 ELSE 1
          /\ Cardinality({q \in owed : q.op \in {"prepare", "prepared"}})
                = Cardinality(borrowers)
          /\ (\E r \in Roles : pool.member[r].at = "WaitingForSource") =>
                pool.source = "AwaitingReturn"

(* Every running worker is the current one of a role that follows it, and  *)
(* a pool that reports Stopped has outlived all it created.                *)
KeyedWorkerCustody ==
    /\ Operating \/ Retires =>
          \A w \in up :
              /\ pool.member[w[1]].n = w[2]
              /\ pool.member[w[1]].at \in WorkerPhases \cup {"Established"}
    /\ pool.mode = "Stopped" =>
          up = {} /\ \A q \in owed : q.op \notin {"create", "exit"}

(* "It never strands a silent worker": when the runtime owes nothing and   *)
(* no running worker has work, every accepted job has been answered and a  *)
(* retiring pool has ended.                                                *)
KeyedNeverStuck ==
    Runtime!Quiet =>
        /\ ~Retires
        /\ lost = {} => \A j \in 1 .. submitted :
                           Accepted(pool, j) => Outcomes(pool, j) # {}

(* Bindings lead to roles that can serve, and an idle role has no backlog. *)
BindingsServed == BindingsLive /\ OwnRoleServed

(* The worker source and every worker stay in the pool's custody.          *)
KeyedCustody == KeyedSourceCustody /\ KeyedWorkerCustody

-----------------------------------------------------------------------------
(* A small instance for TLC.                                               *)

Immediate == [kind |-> "Immediate", initial |-> 0, maximum |-> 0]
Delayed   == [kind |-> "Linear", initial |-> 1, maximum |-> 2]

(* The selector sends key 1 to role 1; in the last pool it knows no role   *)
(* for key 2.                                                              *)
MCConfigs ==
    {[policy |-> "Permanent", failure |-> "RetireRole", interruption |-> "Retry",
      faults |-> 1, limited |-> FALSE, release |-> Immediate, key |-> <<1, 1>>, selector |-> <<1, 2>>],
     [policy |-> "Transient", failure |-> "StopPool", interruption |-> "Fail",
      faults |-> 1, limited |-> FALSE, release |-> Delayed, key |-> <<1, 2>>, selector |-> <<1, 1>>],
     [policy |-> "Temporary", failure |-> "RetireRole", interruption |-> "Retry",
      faults |-> 1, limited |-> TRUE, release |-> Immediate, key |-> <<1, 2>>, selector |-> <<1, 0>>]}

MCLimit == [maximum |-> 1, window |-> 2]
==============================================================================
