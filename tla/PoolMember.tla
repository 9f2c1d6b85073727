------------------------------ MODULE PoolMember ------------------------------
(***************************************************************************)
(* One worker role of a pool (templates/pool/worker.rs and assignment.rs), *)
(* shared by FifoPool and KeyedPool.  A member is one record:              *)
(*                                                                         *)
(*   at       its MemberState and WorkerPhase, or, once the pool retires,  *)
(*            its RetirementStatus ("Departed": removed from the list)     *)
(*   n        which incarnation of the role it is; <<role, n>> stands for  *)
(*            the creation id and for every attempt, ticket, timer and     *)
(*            shutdown id issued for that incarnation                      *)
(*   stop     the observed exit, if any, and `since', its clock stamp      *)
(*   job      the assigned job while Busy                                  *)
(*   sub      the delivery of that assignment, the shutdown join, or the   *)
(*            preparation expectation                                      *)
(*   custody  the startup a retiring worker still owns                     *)
(***************************************************************************)
EXTENDS Naturals, Drain, RestartBudget, FiniteSets, FiniteSetsExt

CONSTANTS
    NRoles,           \* the roster is 1..NRoles, in declaration order
    NJobs,            \* bound: customers submit jobs 1..NJobs, in that order
    BacklogCapacity,
    StartupLimit,
    RestartLimit,     \* [maximum, window]
    Configs,          \* policies the pool may be built with, and the bound on
                      \* unprovoked faults they are checked under
    MaxJobs, MaxAssignments, MaxShutdowns, MaxCreations, MaxTimers
                      \* identifiers left before each sequence is exhausted

ASSUME PoolAssumption ==
    /\ NRoles \in Nat /\ NRoles # 0    \* OrderedRoles has a first role
    /\ NJobs \in Nat
    /\ BacklogCapacity \in Nat /\ StartupLimit \in Nat
    /\ RestartLimit.maximum \in Nat /\ RestartLimit.window \in Nat
    /\ {MaxJobs, MaxAssignments, MaxShutdowns, MaxCreations, MaxTimers} \subseteq Nat
    /\ \A c \in Configs : c.failure \in {"RetireRole", "StopPool"}

NoJob  == 0
NoStop == "None"
NoSub  == "None"

Deliveries == {"AwaitingReceipt", "Accepted", "CompletionHasPriority",
               "WorkerExitHasPriority", "WorkerExitThenCompletion"}
Joins      == {"AwaitingBoth", "AwaitingStop", "AwaitingSettlement"}

WorkerPhases == {"Initializing", "WaitingForStartup", "StartupRequested",
                 "Starting", "Idle", "Busy", "Stopping"}
Recovering   == {"WaitingForSource", "Preparing", "Scheduling", "WaitingForTimer"}
MemberStates == {"Creating", "Retired"} \cup WorkerPhases \cup Recovering
RetirementStatuses == {"AwaitingCreation", "Established", "AwaitingPreparation",
                       "AwaitingRestartSchedule", "Drained", "Departed"}

At(m, at, sub) ==
    [at |-> at, n |-> m.n, stop |-> m.stop, since |-> m.since,
     job |-> NoJob, sub |-> sub, custody |-> NoSub]

Cleared(m, at, sub) ==
    [at |-> at, n |-> m.n, stop |-> NoStop, since |-> 0,
     job |-> NoJob, sub |-> sub, custody |-> NoSub]

Stopped(m, kind, now) == [m EXCEPT !.stop = kind, !.since = now]

(* Member::start: a fresh incarnation whose creation is requested.         *)
Start(n) == [at |-> "Creating", n |-> n, stop |-> NoStop, since |-> 0,
             job |-> NoJob, sub |-> NoSub, custody |-> NoSub]

Retire(m) == Cleared(m, "Retired", NoSub)

AdmitCreation(m, outcome) ==
    IF outcome = "Established" THEN [m EXCEPT !.at = "Initializing"]
    ELSE Retire(m)

AdmitsInitialization(m, report) ==
    m.at = "Initializing" /\ m.stop = NoStop /\ report = "ReadyForStartup"

(* authorize_startup: the permit is spent on one startup request.          *)
AuthorizeStartup(m) == At(m, "StartupRequested", NoSub)

AdmitsStartup(m, report) ==
    \/ m.at = "StartupRequested" /\ report = "Started"
    \/ m.at = "Starting" /\ m.stop = NoStop /\ report = "Ready"

AdmitStartup(m) ==
    [m EXCEPT !.at = IF @ = "StartupRequested" THEN "Starting" ELSE "Idle"]

Occupied(m) == m.at \in {"StartupRequested", "Starting"}

-----------------------------------------------------------------------------
(* The join of an assignment's receipt, completion and worker exit, which  *)
(* may arrive in any order.  A verdict is "Waiting" while the assignment   *)
(* stays Busy, "Unexpected" when the input is only diagnosed, and          *)
(* otherwise the disposition of the job.                                   *)

Assign(m, job) == [m EXCEPT !.at = "Busy", !.job = job, !.sub = "AwaitingReceipt"]

ReceiptVerdict(m) ==
    CASE m.sub = "AwaitingReceipt" -> "Waiting"
      [] m.sub = "CompletionHasPriority" -> "JobCompleted"
      [] m.sub \in {"WorkerExitHasPriority", "WorkerExitThenCompletion"} ->
            "JobInterrupted"
      [] m.sub = "Accepted" -> "Unexpected"

RejectionVerdict(m) ==
    CASE m.sub \in {"AwaitingReceipt", "WorkerExitHasPriority"} -> "JobReturned"
      [] m.sub \in {"CompletionHasPriority", "WorkerExitThenCompletion"} ->
            "ConflictingCompletion"
      [] m.sub = "Accepted" -> "Unexpected"

CompletionVerdict(m) ==
    CASE m.sub \in {"AwaitingReceipt", "WorkerExitHasPriority"} -> "Waiting"
      [] m.sub = "Accepted" -> "JobCompleted"
      [] m.sub \in {"CompletionHasPriority", "WorkerExitThenCompletion"} ->
            "Unexpected"

HoldCompletion(m) ==
    [m EXCEPT !.sub = IF @ = "AwaitingReceipt" THEN "CompletionHasPriority"
                      ELSE "WorkerExitThenCompletion"]

ExitVerdict(m) ==
    CASE m.sub = "AwaitingReceipt" -> "Waiting"
      [] m.sub = "CompletionHasPriority" /\ m.stop = NoStop -> "Waiting"
      [] m.sub = "Accepted" -> "JobInterrupted"
      [] OTHER -> "Unexpected"

HoldExit(m, kind, now) ==
    [Stopped(m, kind, now) EXCEPT
        !.sub = IF @ = "AwaitingReceipt" THEN "WorkerExitHasPriority" ELSE @]

-----------------------------------------------------------------------------
(* ShutdownJoin: a requested shutdown ends when both its settlement and    *)
(* the exact exit have arrived.                                            *)

JoinSettled(join) ==
    CASE join = "AwaitingBoth" -> "AwaitingStop"
      [] join = "AwaitingSettlement" -> "Done"
      [] OTHER -> "Unexpected"

(* Mutant: an exit that overtakes the settlement is forgotten.             *)
JoinStoppedInOrder(join) ==
    IF join = "AwaitingStop" THEN "Done" ELSE "Unexpected"

JoinStopped(join) ==
    CASE join = "AwaitingBoth" -> "AwaitingSettlement"
      [] join = "AwaitingStop" -> "Done"
      [] OTHER -> "Unexpected"

(* The workers a whole-pool shutdown must address.                         *)
ShutdownTarget(m) ==
    \/ m.at \in {"WaitingForStartup", "Idle"}
    \/ /\ m.at \in {"Initializing", "StartupRequested", "Starting", "Busy"}
       /\ m.stop = NoStop

(* retire_worker: the worker is asked to stop when an id was reserved.     *)
RetireWorker(m, custody, requested) ==
    [Cleared(m, "Established", IF requested THEN "AwaitingBoth" ELSE "NotRequested")
        EXCEPT !.custody = custody]

StartupCustody(m) ==
    CASE m.at \in {"Initializing", "StartupRequested", "Starting"} -> m.at
      [] m.at = "WaitingForStartup" -> "StartupPermit"
      [] OTHER -> NoSub

Departed(m) == Cleared(m, "Departed", NoSub)
Drained(m)  == Cleared(m, "Drained", NoSub)

(* A recovery under way is waited for only while the runtime still owes    *)
(* the source or the settlement of a timer.  Nothing else is waited for.   *)
ShutdownRecovering(m) ==
    CASE m.at = "Preparing" -> Cleared(m, "AwaitingPreparation", m.sub)
      [] m.at = "Scheduling" -> Cleared(m, "AwaitingRestartSchedule", NoSub)
      [] OTHER -> Drained(m)

Shutdown(m, requested) ==
    IF m.at = "Creating" THEN [m EXCEPT !.at = "AwaitingCreation"]
    ELSE IF ShutdownTarget(m) THEN RetireWorker(m, StartupCustody(m), requested)
    ELSE IF m.at = "Stopping" /\ m.sub # "AwaitingSettlement"
         THEN Cleared(m, "Established", m.sub)
    ELSE ShutdownRecovering(m)

Waiting(m) == m.at \in RetirementStatuses \ {"Drained", "Departed"}

(* RetiringWorker::accept_exit.                                            *)
AcceptsExit(m) ==
    \/ m.at = "AwaitingCreation" /\ m.stop = NoStop
    \/ m.at = "Established" /\ m.sub \in {"AwaitingBoth", "AwaitingStop"}

AcceptExit(m, kind) ==
    IF m.at = "AwaitingCreation" THEN [m EXCEPT !.stop = kind]
    ELSE IF m.sub = "AwaitingBoth" THEN [m EXCEPT !.sub = "AwaitingSettlement"]
    ELSE Departed(m)

(* RetiringWorker::accept_creation and accept_creation_rejection, with the *)
(* custody they yield retained: a worker that came up after the pool began *)
(* to retire is asked to stop; a rejected or already stopped one departs.  *)
StillRuns(m, outcome) == outcome = "Established" /\ m.stop = NoStop

(* Mutant: a worker that comes up during the drain is dropped.             *)
AcceptCreationForgets(m, outcome, requested) == Departed(m)

AcceptCreation(m, outcome, requested) ==
    IF StillRuns(m, outcome) THEN RetireWorker(m, "StartupPlan", requested)
    ELSE Departed(m)

AcceptsShutdownSettlement(m) ==
    m.at = "Established" /\ m.sub \in {"AwaitingBoth", "AwaitingSettlement"}

AcceptShutdownSettlement(m) ==
    IF m.sub = "AwaitingBoth" THEN [m EXCEPT !.sub = "AwaitingStop"]
    ELSE Departed(m)

(* accept_worker_initialization: only an exact stop report advances the    *)
(* join; a second stop is returned and leaves the custody in place.        *)
AcceptWorkerInitialization(m, report) ==
    IF m.at # "Established" \/ m.custody # "Initializing" \/ m.sub \notin Joins THEN m
    ELSE IF report # "Stopped" THEN [m EXCEPT !.custody = NoSub]
    ELSE CASE m.sub = "AwaitingBoth" ->
                [m EXCEPT !.sub = "AwaitingSettlement", !.custody = NoSub]
           [] m.sub = "AwaitingStop" -> Departed(m)
           [] OTHER -> m

AcceptWorkerStartup(m, report) ==
    IF m.at # "Established" \/ m.custody \notin {"StartupRequested", "Starting"} THEN m
    ELSE [m EXCEPT !.custody = IF report = "Started" THEN "Starting" ELSE NoSub]

-----------------------------------------------------------------------------
(* RecoveringWorker: one replacement, from the borrowed source to the      *)
(* release of the prepared worker.                                         *)

(* The exact issue of the preparation is settled once.                     *)
PreparationStart(m, accepted) ==
    IF m.sub # "Issued" THEN "Unrelated"
    ELSE IF accepted THEN "Started" ELSE "Failed"

(* The source comes back after its preparation started, with or without a  *)
(* worker.                                                                 *)
PreparationReturn(m, prepared) ==
    IF m.sub # "Started" THEN "Unrelated"
    ELSE IF prepared THEN "Ready" ELSE "Failed"

AcceptPreparationStart(m, accepted) ==
    IF m.at = "Preparing" THEN PreparationStart(m, accepted) ELSE "Unrelated"

AcceptPreparationReturn(m, prepared) ==
    IF m.at = "Preparing" THEN PreparationReturn(m, prepared) ELSE "Unrelated"

(* The same two inputs of a retiring member.                               *)
AcceptRetiringPreparationStart(m, accepted) ==
    IF m.at = "AwaitingPreparation" THEN PreparationStart(m, accepted) ELSE "Unrelated"

AcceptRetiringPreparationReturn(m, prepared) ==
    IF m.at = "AwaitingPreparation" THEN PreparationReturn(m, prepared) ELSE "Unrelated"

(* An accepted timer is waited for; otherwise the replacement is returned. *)
AdmitRestartSchedule(m, accepted) ==
    IF m.at # "Scheduling" THEN "Unrelated"
    ELSE IF accepted THEN "WaitingForTimer" ELSE "Returned"

AdmitsRestartTimer(m) == m.at = "WaitingForTimer"

-----------------------------------------------------------------------------
(* PoolRecoveryState: what one worker stop makes of its role.  A pool owns *)
(* a single worker source, which a recovery borrows.                       *)

Recovers(policy, kind) ==
    \/ policy = "Permanent"
    \/ policy = "Transient" /\ kind = "Abnormal"

Decide(policy, failure, source, kind) ==
    CASE Recovers(policy, kind) /\ source = "Available" -> "PrepareWorker"
      [] Recovers(policy, kind) /\ source # "Available" -> "WaitForSource"
      [] OTHER -> failure

-----------------------------------------------------------------------------
(* Readings and updates of a pool state that the folds of FifoPool and     *)
(* KeyedPool share.  A handler is an operator from pool states to pool      *)
(* states, as the code's handlers are folds; the field `sent' collects the  *)
(* requests of the current fold and `told[j]' every outcome the customer of *)
(* job j was sent.                                                          *)

Roles == 1 .. NRoles
Jobs  == 1 .. NJobs

Req(op, of, job) == [op |-> op, of |-> of, job |-> job]

WorkerOf(p, r) == <<r, p.member[r].n>>

With(p, r, m) == [p EXCEPT !.member[r] = m]

Send(p, op, r, job) == [p EXCEPT !.sent = @ \cup {Req(op, {WorkerOf(p, r)}, job)}]

Deliver(p, j, outcome) == [p EXCEPT !.told[j] = Append(@, outcome)]

DeliverAll(p, js, outcome) ==
    [p EXCEPT !.told = [j \in Jobs |-> IF j \in js THEN Append(@[j], outcome) ELSE @[j]]]

First(S) == IF S = {} THEN 0 ELSE Min(S)

(* The exact incarnation is the one its role has now.                      *)
Current(p, w) == p.member[w[1]].n = w[2]

(* The member that holds this exact incarnation in one of these states.    *)
Holds(p, w, states) == p.member[w[1]].n = w[2] /\ p.member[w[1]].at \in states

Terminal == {"Completed", "ReturnedAssigned", "ReturnedQueued", "Rejected"}

(* Where the customer of job j was told its end.                            *)
Outcomes(p, j) == {i \in DOMAIN p.told[j] : p.told[j][i] \in Terminal}

Assignees(p, j) == {r \in Roles : p.member[r].at = "Busy" /\ p.member[r].job = j}
==============================================================================
