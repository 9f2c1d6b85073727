------------------------------- MODULE FifoPool -------------------------------
(***************************************************************************)
(* FifoPool (templates/pool/queue): a pool of directly owned workers with  *)
(* one global first-in first-out backlog, circular dispatch, worker        *)
(* recovery through a single worker source, and an orderly shutdown.       *)
(* `pool' is the actor's state.                                            *)
(***************************************************************************)
EXTENDS PoolMember

VARIABLES pool, submitted, owed, up, gone, work, clock, faults, lost

vars == <<pool, submitted, owed, up, gone, work, clock, faults, lost>>

-----------------------------------------------------------------------------

(* The first idle member at or after the circular cursor, 0 if none.       *)
AvailablePosition(p) ==
    LET At0(offset) == ((p.cursor + offset) % NRoles) + 1
        idle == {o \in 0 .. NRoles - 1 : p.member[At0(o)].at = "Idle"}
    IN  IF idle = {} THEN 0 ELSE At0(Min(idle))

(* Some member can still serve work, now or after recovery.                *)
Recoverable(p) ==
    \E r \in Roles :
        /\ p.member[r].at # "Retired"
        /\ p.member[r].at \in Recovering \cup {"Stopping"} => p.conf.policy # "Temporary"

-----------------------------------------------------------------------------
(* Dispatch.                                                               *)

DispatchTo(p, r, j) ==
    Send([With(p, r, Assign(p.member[r], j)) EXCEPT
            !.assignments = @ - 1, !.cursor = r], "assign", r, j)

(* Mutant: work that was assigned before goes behind fresh work.           *)
FillOneRetriedLast(p) ==
    LET fresh == p.backlog \ p.retried
        j == Min(IF fresh # {} THEN fresh ELSE p.backlog)
        q == [p EXCEPT !.backlog = @ \ {j}, !.retried = @ \ {j}]
    IN  IF AvailablePosition(p) = 0 \/ p.backlog = {} \/ p.assignments = 0 THEN p
        ELSE DispatchTo(q, AvailablePosition(p), j)

FillOne(p) ==
    LET j == Min(p.backlog)
        q == [p EXCEPT !.backlog = @ \ {j}, !.retried = @ \ {j}]
    IN  IF AvailablePosition(p) = 0 \/ p.backlog = {} THEN p
        ELSE IF p.assignments > 0 THEN DispatchTo(q, AvailablePosition(p), j)
        ELSE Deliver(q, j, IF j \in p.retried THEN "ReturnedAssigned" ELSE "ReturnedQueued")

(* The loop ends when no member is idle or the backlog is empty; each      *)
(* round takes one job, so NJobs rounds are always enough.                 *)
FillFifo(p) ==
    LET filled[i \in 0 .. NJobs] == IF i = 0 THEN p ELSE FillOne(filled[i - 1])
    IN  filled[NJobs]

ReturnUnrecoverableJobs(p) ==
    IF Recoverable(p) THEN p
    ELSE [DeliverAll(p, p.backlog, "ReturnedQueued") EXCEPT !.backlog = {}, !.retried = {}]

AcceptSubmission(p, j) ==
    LET q == [p EXCEPT !.jobs = @ - 1]
    IN  IF \/ ~Recoverable(p) \/ p.jobs = 0
           \/ AvailablePosition(p) = 0 /\ Cardinality(p.backlog) >= BacklogCapacity
        THEN Deliver(p, j, "Rejected")
        ELSE IF AvailablePosition(p) = 0
        THEN Deliver([q EXCEPT !.backlog = @ \cup {j}], j, "Accepted")
        ELSE IF p.assignments = 0 THEN Deliver(q, j, "Rejected")
        ELSE Deliver(DispatchTo(q, AvailablePosition(p), j), j, "Accepted")

-----------------------------------------------------------------------------
(* Shutdown.                                                               *)

BeginShutdown(p) ==
    LET targets  == {r \in Roles : ShutdownTarget(p.member[r])}
        reserved == Cardinality(targets) <= p.shutdowns
        busy     == {r \in Roles : p.member[r].at = "Busy"}
        members  == [r \in Roles |-> Shutdown(p.member[r], reserved)]
        returned == DeliverAll(DeliverAll(p, p.backlog, "ReturnedQueued"),
                               {p.member[r].job : r \in busy}, "ReturnedAssigned")
        requests == IF reserved
                    THEN {Req("shutdown", {WorkerOf(p, r)}, NoJob) : r \in targets}
                    ELSE {}
        drained  == \A r \in Roles : ~Waiting(members[r])
        schedule == IF reserved /\ ~drained /\ p.conf.limited
                    THEN {Req("schedule", {}, NoJob)} ELSE {}
    IN  [returned EXCEPT
            !.mode = IF ~reserved THEN "ForcedRetirement"
                     ELSE IF drained THEN "Stopped" ELSE "Draining",
            !.member = members,
            !.backlog = {}, !.retried = {},
            !.shutdowns = IF reserved THEN @ - Cardinality(targets) ELSE @,
            !.deadline = IF reserved /\ ~drained THEN DeadlineBegin(p.conf.limited) ELSE @,
            !.sent = @ \cup requests \cup schedule]

ContinueDraining(p) ==
    IF Expired(p.deadline) THEN [p EXCEPT !.mode = "ForcedRetirement"]
    ELSE IF \A r \in Roles : ~Waiting(p.member[r]) THEN [p EXCEPT !.mode = "Stopped"]
    ELSE p

-----------------------------------------------------------------------------
(* Recovery of one role.                                                   *)

RequestPreparation(p, r) ==
    Send([With(p, r, At(p.member[r], "Preparing", "Issued")) EXCEPT
            !.source = "AwaitingReturn"], "prepare", r, NoJob)

PrepareNextWaiting(p) ==
    LET r == First({s \in Roles : p.member[s].at = "WaitingForSource"})
    IN  IF r = 0 \/ p.source # "Available" THEN p ELSE RequestPreparation(p, r)

RetireRoleAfterError(p, r) ==
    LET q == With(p, r, Retire(p.member[r]))
    IN  IF p.conf.failure = "StopPool" THEN BeginShutdown(q)
        ELSE ReturnUnrecoverableJobs(FillFifo(PrepareNextWaiting(q)))

(* The member's observed stop decides whether its role is recovered.       *)
RecoverWorker(p, r) ==
    LET m        == p.member[r]
        decision == Decide(p.conf.policy, p.conf.failure, p.source, m.stop)
        retired  == With(p, r, Retire(m))
    IN  CASE decision = "PrepareWorker" -> FillFifo(RequestPreparation(p, r))
          [] decision = "WaitForSource" ->
                FillFifo(With(p, r, At(m, "WaitingForSource", NoSub)))
          [] decision = "RetireRole" -> ReturnUnrecoverableJobs(FillFifo(retired))
          [] decision = "StopPool" -> BeginShutdown(retired)

AuthorizeWaiting(p) ==
    LET occupied  == Cardinality({r \in Roles : Occupied(p.member[r])})
        waiting   == {r \in Roles : p.member[r].at = "WaitingForStartup"}
        available == IF occupied >= StartupLimit THEN 0 ELSE StartupLimit - occupied
        released  == {r \in waiting : Cardinality({s \in waiting : s < r}) < available}
    IN  [p EXCEPT
            !.member = [r \in Roles |-> IF r \in released
                                        THEN AuthorizeStartup(@[r]) ELSE @[r]],
            !.sent = @ \cup {Req("start", {WorkerOf(p, r)}, NoJob) : r \in released}]

ContinueAfterPreReadyStop(p, r) ==
    LET q == RecoverWorker(p, r)
    IN  IF q.mode = "Operating" THEN AuthorizeWaiting(q) ELSE q

RequestWorkerShutdown(p, r) ==
    Send([With(p, r, At(p.member[r], "Stopping", "AwaitingBoth")) EXCEPT
            !.shutdowns = @ - 1], "shutdown", r, NoJob)

BeginReplacement(p, r) ==
    LET q == [With(p, r, Start(p.member[r].n + 1)) EXCEPT !.creations = @ - 1]
    IN  Send(q, "create", r, NoJob)

-----------------------------------------------------------------------------
(* Handlers of worker facts while Operating.  An input whose exact         *)
(* correlation nobody holds is diagnosed and leaves the state alone.       *)

AcceptCreations(p, outcome) ==
    LET batch   == DOMAIN outcome
        settled == [p EXCEPT
                      !.member = [r \in Roles |->
                          IF \E w \in batch : w[1] = r
                          THEN AdmitCreation(@[r], outcome[WorkerOf(p, r)]) ELSE @[r]],
                      !.sent = {Req("initialize", {w}, NoJob) :
                                  w \in {v \in batch : outcome[v] = "Established"}}]
    IN  IF \E w \in batch : ~Holds(p, w, {"Creating"}) THEN p
        ELSE IF \A w \in batch : outcome[w] = "Established" THEN settled
        ELSE IF p.conf.failure = "StopPool" THEN BeginShutdown(settled)
        ELSE ReturnUnrecoverableJobs(FillFifo(settled))

(* A whole batch that was refused: every member of it is retired.          *)
RejectCreationBatch(p, batch) == AcceptCreations(p, [w \in batch |-> "Rejected"])

(* An initialization that failed, or whose worker is known to be gone.     *)
ReturnedInitialization(p, r, report, kind, now) ==
    LET m == p.member[r]
    IN  IF m.stop # NoStop THEN ContinueAfterPreReadyStop(p, r)
        ELSE IF report = "Stopped"
        THEN ContinueAfterPreReadyStop(With(p, r, Stopped(m, kind, now)), r)
        ELSE IF p.shutdowns = 0 THEN BeginShutdown(p)
        ELSE RequestWorkerShutdown(p, r)

AcceptInitialization(p, w, report, kind, now) ==
    LET r == w[1]
        m == p.member[r]
    IN  IF ~Holds(p, w, {"Initializing"}) THEN p
        ELSE IF AdmitsInitialization(m, report)
        THEN AuthorizeWaiting(With(p, r, At(m, "WaitingForStartup", NoSub)))
        ELSE ReturnedInitialization(p, r, report, kind, now)

(* A live worker that did not become ready is asked to stop.               *)
UnusableStartup(p, r) ==
    IF p.shutdowns = 0 THEN BeginShutdown(p)
    ELSE AuthorizeWaiting(RequestWorkerShutdown(p, r))

(* The startup of a worker whose exit came before its outcome.             *)
StoppedStartup(p, r) == ContinueAfterPreReadyStop(p, r)

AcceptStartup(p, w, report) ==
    LET r == w[1]
        m == p.member[r]
        q == With(p, r, AdmitStartup(m))
    IN  IF ~Holds(p, w, {"StartupRequested", "Starting"}) THEN p
        ELSE IF AdmitsStartup(m, report)
        THEN AuthorizeWaiting(IF q.member[r].at = "Idle" THEN FillFifo(q) ELSE q)
        ELSE IF report = "Started" THEN p
        ELSE IF m.stop # NoStop THEN StoppedStartup(p, r)
        ELSE UnusableStartup(p, r)

CompleteAssignment(p, r) ==
    LET m == p.member[r]
        q == Deliver(p, m.job, "Completed")
    IN  IF m.stop = NoStop THEN FillFifo(With(q, r, At(m, "Idle", NoSub)))
        ELSE RecoverWorker(q, r)

(* Back to its place in admission order, marked as assigned before.        *)
Requeue(p, j) == [p EXCEPT !.backlog = @ \cup {j}, !.retried = @ \cup {j}]

(* Mutant: the interrupted job is not put back.                            *)
InterruptAssignmentForgets(p, r) ==
    RecoverWorker(IF p.conf.interruption = "Fail"
                  THEN Deliver(p, p.member[r].job, "ReturnedAssigned") ELSE p, r)

InterruptAssignment(p, r) ==
    LET j == p.member[r].job
    IN  RecoverWorker(IF p.conf.interruption = "Fail" THEN Deliver(p, j, "ReturnedAssigned")
                      ELSE Requeue(p, j), r)

AcceptAssignmentReceipt(p, w, j) ==
    LET r       == w[1]
        m       == p.member[r]
        verdict == ReceiptVerdict(m)
    IN  IF ~(Holds(p, w, {"Busy"}) /\ m.job = j) THEN p
        ELSE CASE verdict = "Waiting" -> With(p, r, [m EXCEPT !.sub = "Accepted"])
               [] verdict = "JobCompleted" -> CompleteAssignment(p, r)
               [] verdict = "JobInterrupted" -> InterruptAssignment(p, r)
               [] OTHER -> p

(* A refusal that contradicts a completion stops the pool.                 *)
ConflictingCompletion(p) == IF p.mode = "Operating" THEN BeginShutdown(p) ELSE p

(* The worker refused the job.  It is taken out of service, the job goes   *)
(* back to the backlog.                                                    *)
RejectAssignmentDelivery(p, w, j) ==
    LET r        == w[1]
        m        == p.member[r]
        verdict  == RejectionVerdict(m)
        stopped  == m.stop # NoStop
        returned == IF verdict = "JobReturned" THEN Requeue(p, j)
                    ELSE Deliver(p, j, "ReturnedAssigned")
        handled  == IF stopped THEN RecoverWorker([returned EXCEPT !.shutdowns = @ - 1], r)
                    ELSE RequestWorkerShutdown(returned, r)
    IN  IF ~(Holds(p, w, {"Busy"}) /\ m.job = j) THEN p
        ELSE IF p.shutdowns = 0 THEN BeginShutdown(p)
        ELSE CASE verdict = "Unexpected" -> [p EXCEPT !.shutdowns = @ - 1]
               [] verdict = "JobReturned" -> IF stopped THEN handled ELSE FillFifo(handled)
               [] OTHER -> ConflictingCompletion(handled)

AcceptCompletion(p, w, j) ==
    LET r       == w[1]
        m       == p.member[r]
        verdict == CompletionVerdict(m)
    IN  IF ~(Holds(p, w, {"Busy"}) /\ m.job = j) THEN p
        ELSE CASE verdict = "Waiting" -> With(p, r, HoldCompletion(m))
               [] verdict = "JobCompleted" -> CompleteAssignment(p, r)
               [] OTHER -> p

(* The exit of a busy worker is joined with its assignment.                *)
AssignedWorkerStop(p, r, kind, now) ==
    LET m       == p.member[r]
        verdict == ExitVerdict(m)
    IN  CASE verdict = "Waiting" -> With(p, r, HoldExit(m, kind, now))
          [] verdict = "JobInterrupted" ->
                InterruptAssignment(With(p, r, Stopped(m, kind, now)), r)
          [] OTHER -> p

(* The exit of a worker that was asked to stop is joined with the request. *)
StoppingWorkerStop(p, r, kind, now) ==
    LET m    == p.member[r]
        join == JoinStopped(m.sub)
    IN  CASE join = "Done" -> RecoverWorker(With(p, r, Stopped(m, kind, now)), r)
          [] join = "AwaitingSettlement" ->
                With(p, r, [Stopped(m, kind, now) EXCEPT !.sub = join])
          [] OTHER -> p

AcceptWorkerStop(p, w, kind, now) ==
    LET r        == w[1]
        m        == p.member[r]
        recorded == With(p, r, Stopped(m, kind, now))
    IN  IF ~Current(p, w) THEN p
        ELSE CASE m.at \in {"Creating", "Initializing", "StartupRequested", "Starting"} ->
                    IF m.stop = NoStop THEN recorded ELSE p
               [] m.at = "WaitingForStartup" -> ContinueAfterPreReadyStop(recorded, r)
               [] m.at = "Idle" -> RecoverWorker(recorded, r)
               [] m.at = "Busy" -> AssignedWorkerStop(p, r, kind, now)
               [] m.at = "Stopping" -> StoppingWorkerStop(p, r, kind, now)
               [] OTHER -> p

AcceptWorkerShutdown(p, w) ==
    LET r    == w[1]
        join == JoinSettled(p.member[r].sub)
    IN  IF ~Holds(p, w, {"Stopping"}) THEN p
        ELSE CASE join = "Done" -> RecoverWorker(p, r)
               [] join = "AwaitingStop" -> With(p, r, [p.member[r] EXCEPT !.sub = join])
               [] OTHER -> p

AcceptWorkerPreparationStart(p, w, accepted) ==
    LET r     == w[1]
        start == AcceptPreparationStart(p.member[r], accepted)
    IN  IF ~Current(p, w) \/ start = "Unrelated" THEN p
        ELSE IF start = "Started" THEN With(p, r, [p.member[r] EXCEPT !.sub = "Started"])
        ELSE RetireRoleAfterError([p EXCEPT !.source = "Available"], r)

(* The prepared replacement is charged to the restart budget and created   *)
(* now or after a delay; every failure gives the source back and retires   *)
(* the role.                                                               *)
AcceptWorkerPreparationReturn(p, w, prepared) ==
    LET r      == w[1]
        m      == p.member[r]
        delay  == Calculate(p.conf.release, m.n)
        q      == [p EXCEPT !.source = "Available"]
        paid   == [q EXCEPT !.charges = Charged(@, RestartLimit, m.since, 1)]
        timed  == [With(paid, r, At(m, "Scheduling", NoSub)) EXCEPT !.timers = @ - 1]
        return == AcceptPreparationReturn(m, prepared)
    IN  IF ~Current(p, w) \/ return = "Unrelated" THEN p
        ELSE IF \/ return = "Failed"
                \/ ~Admits(p.charges, RestartLimit, m.since, 1)
                \/ delay = Overflow
                \/ delay = 0 /\ p.creations = 0
                \/ delay > 0 /\ p.timers = 0
        THEN RetireRoleAfterError(q, r)
        ELSE IF delay = 0 THEN PrepareNextWaiting(BeginReplacement(paid, r))
        ELSE PrepareNextWaiting(Send(timed, "schedule", r, NoJob))

AcceptRestartSchedule(p, w, accepted) ==
    LET r     == w[1]
        admit == AdmitRestartSchedule(p.member[r], accepted)
    IN  IF ~Current(p, w) \/ admit = "Unrelated" THEN p
        ELSE IF admit = "WaitingForTimer" THEN With(p, r, At(p.member[r], admit, NoSub))
        ELSE RetireRoleAfterError(p, r)

AcceptRestartTimer(p, w) ==
    IF ~(Current(p, w) /\ AdmitsRestartTimer(p.member[w[1]])) THEN p
    ELSE IF p.creations = 0 THEN RetireRoleAfterError(p, w[1])
    ELSE BeginReplacement(p, w[1])

-----------------------------------------------------------------------------
(* Handlers while Draining.                                                *)

(* retain_worker: those of the running workers a shutdown id is left for.  *)
RetainWorkers(p, running) ==
    {w \in running : Cardinality({v \in running : v[1] < w[1]}) < p.shutdowns}

AcceptDrainCreations(p, outcome) ==
    LET batch   == DOMAIN outcome
        running == {w \in batch : StillRuns(p.member[w[1]], outcome[w])}
        stopped == RetainWorkers(p, running)
        settled == [p EXCEPT
                      !.member = [r \in Roles |->
                          IF WorkerOf(p, r) \in batch
                          THEN AcceptCreation(@[r], outcome[WorkerOf(p, r)],
                                              WorkerOf(p, r) \in stopped)
                          ELSE @[r]],
                      !.shutdowns = @ - Cardinality(stopped),
                      !.sent = {Req("shutdown", {w}, NoJob) : w \in stopped}]
    IN  IF \E w \in batch : ~Holds(p, w, {"AwaitingCreation"}) THEN p
        ELSE IF stopped # running THEN [settled EXCEPT !.mode = "ForcedRetirement"]
        ELSE ContinueDraining(settled)

RejectDrainCreations(p, batch) ==
    AcceptDrainCreations(p, [w \in batch |-> "Rejected"])

AcceptDrainInitialization(p, w, report) ==
    IF p.member[w[1]].n # w[2] THEN p
    ELSE ContinueDraining(With(p, w[1], AcceptWorkerInitialization(p.member[w[1]], report)))

AcceptDrainStartup(p, w, report) ==
    IF p.member[w[1]].n # w[2] THEN p
    ELSE ContinueDraining(With(p, w[1], AcceptWorkerStartup(p.member[w[1]], report)))

AcceptDrainStop(p, w, kind) ==
    LET m == p.member[w[1]]
    IN  IF m.n # w[2] \/ ~AcceptsExit(m) THEN p
        ELSE ContinueDraining(With(p, w[1], AcceptExit(m, kind)))

AcceptDrainShutdown(p, w) ==
    LET m == p.member[w[1]]
    IN  IF m.n # w[2] \/ ~AcceptsShutdownSettlement(m) THEN p
        ELSE ContinueDraining(With(p, w[1], AcceptShutdownSettlement(m)))

AcceptDrainPreparationStart(p, w, accepted) ==
    LET m     == p.member[w[1]]
        start == AcceptRetiringPreparationStart(m, accepted)
    IN  IF ~Current(p, w) \/ start = "Unrelated" THEN p
        ELSE IF start = "Started"
        THEN ContinueDraining(With(p, w[1], [m EXCEPT !.sub = "Started"]))
        ELSE ContinueDraining([With(p, w[1], Drained(m)) EXCEPT !.source = "Available"])

AcceptDrainPreparationReturn(p, w) ==
    LET m == p.member[w[1]]
    IN  IF ~Current(p, w) \/ AcceptRetiringPreparationReturn(m, TRUE) = "Unrelated" THEN p
        ELSE ContinueDraining([With(p, w[1], Drained(m)) EXCEPT !.source = "Available"])

AcceptDrainSchedule(p, ws, accepted) ==
    CASE \E w \in ws : Holds(p, w, {"AwaitingRestartSchedule"}) ->
            LET w == CHOOSE v \in ws : Holds(p, v, {"AwaitingRestartSchedule"})
            IN  ContinueDraining(With(p, w[1], Drained(p.member[w[1]])))
      [] ws = {} /\ p.deadline = "Scheduling" ->
            ContinueDraining([p EXCEPT !.deadline = DeadlineSettled(accepted)])
      [] OTHER -> p

AcceptDrainDeadline(p, ws) ==
    IF ws = {} /\ p.deadline = "Waiting"
    THEN ContinueDraining([p EXCEPT !.deadline = "Elapsed"]) ELSE p

-----------------------------------------------------------------------------
(* transition.  A pool that has stopped takes no further input.            *)

Operate(p, e) ==
    CASE e.type = "Submit" -> AcceptSubmission(p, e.job)
      [] e.type = "Shutdown" -> BeginShutdown(p)
      [] e.type = "WorkerCreationsSettled" -> AcceptCreations(p, e.outcome)
      [] e.type = "CreationBatchRejected" -> RejectCreationBatch(p, e.of)
      [] e.type = "WorkerInitialization" ->
            AcceptInitialization(p, e.worker, e.report, e.kind, e.now)
      [] e.type = "WorkerStartup" -> AcceptStartup(p, e.worker, e.report)
      [] e.type = "AssignmentSettled" /\ e.result = "Accepted" ->
            AcceptAssignmentReceipt(p, e.worker, e.job)
      [] e.type = "AssignmentSettled" /\ e.result = "Rejected" ->
            RejectAssignmentDelivery(p, e.worker, e.job)
      [] e.type = "WorkerCompleted" -> AcceptCompletion(p, e.worker, e.job)
      [] e.type = "WorkerStopped" -> AcceptWorkerStop(p, e.worker, e.kind, e.now)
      [] e.type = "WorkerShutdownSettled" -> AcceptWorkerShutdown(p, e.worker)
      [] e.type = "PreparationStarted" ->
            AcceptWorkerPreparationStart(p, e.worker, e.accepted)
      [] e.type = "PreparationReturned" ->
            AcceptWorkerPreparationReturn(p, e.worker, e.prepared)
      [] e.type = "ScheduleSettled" /\ e.of # {} ->
            AcceptRestartSchedule(p, CHOOSE w \in e.of : TRUE, e.accepted)
      [] e.type = "Elapsed" /\ e.of # {} ->
            AcceptRestartTimer(p, CHOOSE w \in e.of : TRUE)
      [] OTHER -> p

Drain(p, e) ==
    CASE e.type = "Submit" -> Deliver(p, e.job, "Rejected")
      [] e.type = "WorkerCreationsSettled" -> AcceptDrainCreations(p, e.outcome)
      [] e.type = "CreationBatchRejected" -> RejectDrainCreations(p, e.of)
      [] e.type = "WorkerInitialization" -> AcceptDrainInitialization(p, e.worker, e.report)
      [] e.type = "WorkerStartup" -> AcceptDrainStartup(p, e.worker, e.report)
      [] e.type = "WorkerStopped" -> AcceptDrainStop(p, e.worker, e.kind)
      [] e.type = "WorkerShutdownSettled" -> AcceptDrainShutdown(p, e.worker)
      [] e.type = "PreparationStarted" ->
            AcceptDrainPreparationStart(p, e.worker, e.accepted)
      [] e.type = "PreparationReturned" -> AcceptDrainPreparationReturn(p, e.worker)
      [] e.type = "ScheduleSettled" -> AcceptDrainSchedule(p, e.of, e.accepted)
      [] e.type = "Elapsed" -> AcceptDrainDeadline(p, e.of)
      [] OTHER -> p

Transition(p, e) == IF p.mode = "Operating" THEN Operate(p, e) ELSE Drain(p, e)

Runtime == INSTANCE PoolRuntime WITH MaxIncarnations <- MaxCreations + 1

-----------------------------------------------------------------------------

(* start: one creation batch for the whole roster.                         *)
Started(conf) ==
    [mode |-> "Operating", member |-> [r \in Roles |-> Start(1)],
     backlog |-> {}, retried |-> {}, cursor |-> 0, source |-> "Available",
     charges |-> <<>>, deadline |-> "Unlimited", conf |-> conf,
     jobs |-> MaxJobs, assignments |-> MaxAssignments, shutdowns |-> MaxShutdowns,
     creations |-> MaxCreations, timers |-> MaxTimers,
     sent |-> {}, told |-> [j \in Jobs |-> <<>>]]

Init ==
    /\ pool \in {Started(c) : c \in Configs}
    /\ Runtime!RuntimeInit({Req("create", {<<r, 1>> : r \in Roles}, NoJob)}, pool.conf.faults)

Next == Runtime!RuntimeNext

Spec == Init /\ [][Next]_vars

-----------------------------------------------------------------------------
(* Properties.                                                             *)

Operating == pool.mode = "Operating"
Draining  == pool.mode = "Draining"

(* A submitted job is in exactly one place: in the backlog, with one busy  *)
(* worker, or finished with the one outcome its customer was sent.  It is  *)
(* never answered twice, retried twice at once, or dropped, whatever the   *)
(* order in which receipt, completion and worker exit arrive.              *)
JobConservation ==
    \A j \in 1 .. submitted :
        /\ Cardinality({j} \cap pool.backlog) + Cardinality(Assignees(pool, j))
             + Cardinality(Outcomes(pool, j)) = 1
        /\ Outcomes(pool, j) # {} => pool.told[j][Len(pool.told[j])] \in Terminal

(* The single worker source is out with exactly one role, the one that     *)
(* waits for its return, and no role queues for a source that is idle.     *)
SourceCustody ==
    LET borrowers == {r \in Roles :
                        pool.member[r].at \in {"Preparing", "AwaitingPreparation"}}
    IN  Operating \/ Draining =>
          /\ Cardinality(borrowers) = IF pool.source = "Available" THEN 0 ELSE 1
          /\ Cardinality({q \in owed : q.op \in {"prepare", "prepared"}})
                = Cardinality(borrowers)
          /\ (\E r \in Roles : pool.member[r].at = "WaitingForSource") =>
                pool.source = "AwaitingReturn"

(* After a completed fold no queued job coexists with an idle worker, and  *)
(* none stays queued once every role is retired.                           *)
NoStrandedWork ==
    Operating /\ pool.backlog # {} =>
        /\ \A r \in Roles : pool.member[r].at # "Idle"
        /\ \E r \in Roles : pool.member[r].at # "Retired"

(* The pool never loses a running worker: each one is the current          *)
(* incarnation of a role that still follows it, and a pool that reports    *)
(* Stopped has outlived every worker and every creation it requested.      *)
WorkerCustody ==
    /\ Operating \/ Draining =>
          \A w \in up :
              /\ pool.member[w[1]].n = w[2]
              /\ pool.member[w[1]].at \in WorkerPhases \cup {"Established"}
    /\ pool.mode = "Stopped" =>
          up = {} /\ \A q \in owed : q.op \notin {"create", "exit"}

(* The declared limits hold: retries overshoot the backlog capacity by at  *)
(* most one job per role, startups run at most StartupLimit at a time, and *)
(* the window never holds more replacements than the restart limit.        *)
WithinLimits ==
    /\ Cardinality(pool.backlog) <= BacklogCapacity + NRoles
    /\ Cardinality({r \in Roles : Occupied(pool.member[r])}) <= StartupLimit
    /\ Replacements(pool.charges) <= RestartLimit.maximum

(* Work leaves the backlog in admission order: a job handed to a worker is *)
(* older than everything still queued, retried jobs included.              *)
AdmissionOrder ==
    [][\A r \in Roles :
          LET m == pool'.member[r]
          IN  (m.at = "Busy" /\ m.job # pool.member[r].job) =>
                \A j \in pool'.backlog : m.job < j]_vars

(* Nobody waits for a fact that will never come.  When the runtime owes    *)
(* nothing and no running worker has work, an operating pool has answered  *)
(* every job, unless the delivery of an assignment was left in doubt, and  *)
(* a draining pool has ended.                                              *)
NobodyWaits ==
    Runtime!Quiet =>
        /\ ~Draining
        /\ lost = {} => \A j \in 1 .. submitted : Outcomes(pool, j) # {}

(* Jobs are neither lost, doubled, left beside an idle worker nor queued   *)
(* beyond the declared limits.                                             *)
JobsAccounted == JobConservation /\ NoStrandedWork /\ WithinLimits

(* The worker source and every worker stay in the pool's custody.          *)
PoolCustody == SourceCustody /\ WorkerCustody
=============================================================================
