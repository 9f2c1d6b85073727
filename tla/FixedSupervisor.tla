--------------------------- MODULE FixedSupervisor ---------------------------
(***************************************************************************)
(* FixedSupervisor (templates/supervisor/roster): a declared list of roles *)
(* behind one stable proxy each, started in declaration order under a      *)
(* startup limit and recovered one for one, one for all or rest for one.   *)
(* A role is its position, and the proxy created for it has that number.   *)
(* The supervisor `sup' is a record, every handler an operator on it.      *)
(*                                                                         *)
(*   member    per role: phase; worker, the attempt in service or to be    *)
(*             replaced; batch, the trigger of the recovery that owns the  *)
(*             role (0: none); stopped/response, the join of the           *)
(*             predecessor's stop with the replacement's outcome;          *)
(*             shutdown/exited, the join of the proxy's shutdown with its  *)
(*             exit; own, what a draining role still waits to hear of;     *)
(*             preparation, the worker preparation the role expects        *)
(*   release   per trigger: whether the batch may issue its replacements,  *)
(*             and the timer it waits for                                  *)
(*   source    where the one worker source is                              *)
(*   cancelled timers whose schedule the drain still waits for             *)
(*   told      per role, the lifecycle facts                               *)
(*   diagnosed the inputs that were not admitted: settlements of a start,  *)
(*             a replacement, a shutdown or a restart timer, first         *)
(*             outcomes and worker stops, with the role they are about     *)
(***************************************************************************)
EXTENDS Naturals, Sequences, FiniteSets, FiniteSetsExt, RestartBudget, Drain

CONSTANTS
    Roles,            \* 1 .. n
    StartupLimit,
    Limit,            \* [maximum, window]
    MaxTickets,       \* recovery tickets left before the sequence is exhausted
    MaxFaults,
    Configs           \* [strategy, policy, reaction, terminate, release, limited]

VARIABLES sup, owed, proxy, faults

vars == <<sup, owed, proxy, faults>>

Req(op, of, n) == [op |-> op, of |-> of, n |-> n]

NewMember ==
    [phase |-> "CreatingProxy", worker |-> 0, batch |-> 0, stopped |-> FALSE,
     response |-> "None", shutdown |-> "None", exited |-> FALSE, own |-> "None",
     preparation |-> "None", at |-> 0, recoveries |-> 0]

NoRelease == [at |-> "None", timer |-> 0]

Started(m, worker) ==
    [NewMember EXCEPT !.phase = "Online", !.worker = worker, !.recoveries = m.recoveries]

Put(p, r, m) == [p EXCEPT !.member[r] = m]

At(p, r, phase) == [p EXCEPT !.member[r].phase = phase]

Tell(p, r, facts) == [p EXCEPT !.told[r] = @ \o facts]

Send(p, op, r) == [p EXCEPT !.sent = @ \cup {Req(op, {r}, p.member[r].worker + 1)}]

Accepted(e) == e.answer = "Accepted"

Batch(p, t) == {r \in Roles : p.member[r].batch = t}

(* unexpected_input: the input is only diagnosed, which may end the actor. *)
Unexpected(p, e) ==
    LET what  == IF e.type = "InputSettled" THEN e.op ELSE e.type
        about == CASE e.type \in {"InputSettled", "Initial", "WorkerStopped"} -> {e.proxy}
                   [] e.type = "ScheduleSettled" -> e.of
                   [] OTHER -> {}
        q == [p EXCEPT !.diagnosed = @ \cup ({what} \X about)]
    IN  IF p.conf.terminate THEN [q EXCEPT !.mode = "Stopped"] ELSE q

-----------------------------------------------------------------------------
(* Authorization: roles in declaration order, a recovery at the place of   *)
(* its first member, until the startup limit is used up or a role that has *)
(* no proxy yet, or never will, blocks those behind it.                    *)

(* Mutant: a replacement whose receipt came no longer counts.              *)
AuthorizationCountUntilReceipt(m) ==
    \/ m.batch = 0 /\ m.phase \in {"InputDispatched", "AwaitingOutcome"}
    \/ m.phase = "Replacing" /\ m.response = "InputPending"

AuthorizationCount(m) ==
    \/ m.batch = 0 /\ m.phase \in {"InputDispatched", "AwaitingOutcome"}
    \/ m.phase = "Replacing" /\ m.response \in {"InputPending", "OutcomePending"}

Occupied(p) == Cardinality({r \in Roles : AuthorizationCount(p.member[r])})

Position(p, r) ==
    IF p.member[r].batch = 0 THEN r ELSE Min(Batch(p, p.member[r].batch))

Blocks(m) == m.batch = 0 /\ m.phase \in {"CreatingProxy", "BirthRejected", "InputRejected"}

Issuable(p, r) ==
    LET m == p.member[r]
    IN  /\ \/ m.batch = 0 /\ m.phase = "Waiting"
           \/ /\ m.batch # 0 /\ m.phase \in {"Online", "Stopped"}
              /\ p.release[m.batch].at = "Ready"
        /\ \A b \in Roles : Blocks(p.member[b]) => Position(p, r) < b

Issue(m) ==
    IF m.phase = "Waiting" THEN [m EXCEPT !.phase = "InputDispatched"]
    ELSE [m EXCEPT !.phase = "Replacing", !.stopped = (m.phase = "Stopped"),
                   !.response = "InputPending"]

Authorize(p) ==
    LET able == {r \in Roles : Issuable(p, r)}
        Before(s, r) == \/ Position(p, s) < Position(p, r)
                        \/ Position(p, s) = Position(p, r) /\ s < r
        now == {r \in able : Cardinality({s \in able : Before(s, r)}) < StartupLimit - Occupied(p)}
        Op(m) == IF m.phase = "Waiting" THEN "start" ELSE "replace"
    IN  IF Occupied(p) > StartupLimit THEN [p EXCEPT !.diagnosed = @ \cup {<<"AuthorizationStateRejected", 0>>}]
        ELSE [p EXCEPT
                !.member = [r \in Roles |-> IF r \in now THEN Issue(@[r]) ELSE @[r]],
                !.sent = @ \cup {Req(Op(p.member[r]), {r}, p.member[r].worker + 1) : r \in now}]

-----------------------------------------------------------------------------
(* Shutdown of one proxy: its settlement and its exit come in any order.   *)

BeginStop(p, r, phase) ==
    Send(Put(p, r, [p.member[r] EXCEPT !.phase = phase, !.batch = 0,
                                       !.shutdown = "Dispatched"]), "shutdown", r)

Joined(m) == m.shutdown \in {"Accepted", "Rejected"} /\ m.exited

Joins(p, r) == IF Joined(p.member[r]) THEN At(p, r, "Retired") ELSE p

ShutdownSettled(p, r, accepted) ==
    Joins([p EXCEPT !.member[r].shutdown = IF accepted THEN "Accepted" ELSE "Rejected"], r)

(* Mutant: an exit that overtakes the settlement is lost.                  *)
ExitedInOrder(p, r) ==
    IF p.member[r].shutdown = "Dispatched" THEN p
    ELSE Joins([p EXCEPT !.member[r].exited = TRUE], r)

Exited(p, r) == Joins([p EXCEPT !.member[r].exited = TRUE], r)

(* member_retired and authorize_waiting after either half.                 *)
AfterStop(p, r) ==
    Authorize(IF p.member[r].phase = "Retired" THEN Tell(p, r, <<"MemberRetired">>) ELSE p)

-----------------------------------------------------------------------------
(* Shutdown of the supervisor.                                             *)

BeginMemberShutdown(m) ==
    LET n == [m EXCEPT !.batch = 0]
    IN  CASE m.phase = "CreatingProxy" -> [n EXCEPT !.phase = "AwaitingProxyBirth"]
          [] m.phase = "BirthRejected" -> [n EXCEPT !.phase = "AbsentProxy"]
          [] m.phase = "Retired" -> n
          [] m.phase \in {"Stopping", "Unrecovered"} -> [n EXCEPT !.phase = "Stopping"]
          [] OTHER -> [n EXCEPT !.phase = "Stopping", !.shutdown = "Dispatched",
                                !.own = IF m.phase \in {"InputDispatched", "AwaitingOutcome",
                                                        "Replacing"}
                                        THEN m.phase ELSE "None"]

BeginShutdown(p) ==
    LET stops == {r \in Roles : p.member[r].phase \notin {"CreatingProxy", "BirthRejected",
                                                         "Retired", "Stopping", "Unrecovered"}}
        deadline == DeadlineBegin(p.conf.limited)
    IN  [p EXCEPT
           !.mode = "ShuttingDown",
           !.member = [r \in Roles |-> BeginMemberShutdown(@[r])],
           !.release = [r \in Roles |-> NoRelease],
           !.cancelled = {p.release[t].timer : t \in {s \in Roles : p.release[s].at = "Scheduling"}},
           !.deadline = deadline,
           !.sent = @ \cup {Req("shutdown", {r}, p.member[r].worker + 1) : r \in stops}
                      \cup (IF deadline = "Scheduling" THEN {Req("schedule", {}, 0)} ELSE {})]

Unresolved(m) ==
    \/ m.phase \in {"AwaitingProxyBirth", "Stopping"}
    \/ m.phase = "Retired" /\ m.own = "Replacing"
                           /\ m.response \in {"InputPending", "OutcomePending"}
    \/ m.phase = "Retired" /\ m.preparation # "None"

IntoStep(p) ==
    IF \/ Expired(p.deadline)
       \/ /\ p.cancelled = {} /\ p.source # "PreparingWorkers"
          /\ \A r \in Roles : ~Unresolved(p.member[r])
    THEN [p EXCEPT !.mode = "Stopped"] ELSE p

-----------------------------------------------------------------------------
(* Failure reactions.  A terminal diagnostic ends the supervisor.          *)

(* A role that is not recovered: its proxy is asked to stop, alone or with *)
(* the whole roster.  None of the three looks for waiting roles.           *)
React(p, r) ==
    CASE p.conf.terminate -> [p EXCEPT !.mode = "Stopped"]
      [] p.conf.reaction = "RetireMember" -> BeginStop(p, r, "Unrecovered")
      [] OTHER -> BeginShutdown(p)

(* The batch ends before any replacement was issued: its peers go back to  *)
(* what they were and the trigger is empty.                                *)
Dissolve(p, t) ==
    LET Freed(m) == [m EXCEPT !.batch = 0, !.preparation = "None",
                              !.phase = IF @ = "Stopped" THEN "Empty" ELSE @]
    IN  [p EXCEPT !.member = [r \in Roles |-> IF p.member[r].batch = t THEN Freed(@[r]) ELSE @[r]],
                  !.release[t] = NoRelease]

(* A member leaves the recovery, which ends with its last member.          *)
Leave(p, r, m) ==
    LET t == p.member[r].batch
        q == Put(p, r, [m EXCEPT !.batch = 0])
    IN  IF Batch(q, t) = {} THEN [q EXCEPT !.release[t] = NoRelease] ELSE q

ApplyReplacementFailure(p, r) ==
    LET m == p.member[r]
        told == IF m.stopped THEN Tell(p, r, <<"WorkerStopped">>) ELSE p
        left == Leave(told, r, [m EXCEPT !.stopped = FALSE, !.response = "None"])
        failed == BeginStop(left, r, "Unrecovered")
    IN  CASE p.conf.terminate -> [failed EXCEPT !.mode = "Stopped"]
          [] p.conf.reaction = "RetireMember" -> failed
          [] OTHER -> BeginShutdown(failed)

StopAfterInitialFailure(p, r) == BeginStop(p, r, "Stopping")

InitialFailure(p, r) ==
    CASE p.conf.terminate -> [p EXCEPT !.mode = "Stopped"]
      [] p.conf.reaction = "RetireMember" -> StopAfterInitialFailure(p, r)
      [] OTHER -> IntoStep(BeginShutdown(p))

-----------------------------------------------------------------------------
(* Proxies: births, input settlements and outcomes of an operating roster. *)

ProxyCreated(m, committed) ==
    [m EXCEPT !.phase = IF committed THEN "Waiting" ELSE "BirthRejected"]

AcceptBirths(p, committed) ==
    Authorize([p EXCEPT !.member = [r \in Roles |-> ProxyCreated(@[r], committed[r])]])

(* Mutant: the successor is online before its predecessor's stop is known. *)
ReplacementProgressOnOutcome(p, r) ==
    LET m == p.member[r]
    IN  CASE m.response = "Ready" ->
                Authorize(Tell(Leave(p, r, Started(m, m.worker + 1)), r, <<"Restarted">>))
          [] (m.stopped /\ m.response = "Failed") \/ m.response = "InputRejected" ->
                ApplyReplacementFailure(p, r)
          [] OTHER -> Authorize(p)

(* Mutant: the successor is entered under its predecessor's attempt.       *)
ReplacementProgressSameAttempt(p, r) ==
    LET m == p.member[r]
    IN  CASE m.stopped /\ m.response = "Ready" ->
                Authorize(Tell(Leave(p, r, Started(m, m.worker)), r,
                               <<"WorkerStopped", "Restarted">>))
          [] (m.stopped /\ m.response = "Failed") \/ m.response = "InputRejected" ->
                ApplyReplacementFailure(p, r)
          [] OTHER -> Authorize(p)

(* accept_replacement_completion: one turn tells of the stop and the start.*)
Restarted(p, r) ==
    LET m == p.member[r]
    IN  Authorize(Tell(Leave(p, r, Started(m, m.worker + 1)), r,
                       <<"WorkerStopped", "Restarted">>))

(* replacement_progress: the predecessor's stop and the outcome are both   *)
(* needed before the successor counts as online.                           *)
ReplacementProgress(p, r) ==
    LET m == p.member[r]
    IN  CASE m.stopped /\ m.response = "Ready" -> Restarted(p, r)
          [] (m.stopped /\ m.response = "Failed") \/ m.response = "InputRejected" ->
                ApplyReplacementFailure(p, r)
          [] OTHER -> Authorize(p)

(* The settlement of a start, or of the shutdown of one proxy.             *)
StartSettled(p, r, accepted) ==
    At(p, r, IF accepted THEN "AwaitingOutcome" ELSE "InputRejected")

MemberOperation(p, e) ==
    LET r == e.proxy
        m == p.member[r]
    IN  CASE e.op = "start" /\ m.batch = 0 /\ m.phase = "InputDispatched" ->
                Authorize(StartSettled(p, r, Accepted(e)))
          [] e.op = "shutdown" /\ m.phase \in {"Stopping", "Unrecovered"}
                              /\ m.shutdown = "Dispatched" ->
                AfterStop(ShutdownSettled(p, r, Accepted(e)), r)
          [] OTHER -> Unexpected(p, e)

(* WorkerReplacement: its three facts, of a recovery and of a drain.  It   *)
(* gives back a settlement that is neither accepted nor rejected.          *)
InputAdmitted(m, e) ==
    e.op = "replace" /\ m.response = "InputPending" /\ e.answer # "Unserved"

InputAnswered(m, accepted) ==
    [m EXCEPT !.response = IF accepted THEN "OutcomePending" ELSE "InputRejected"]

OutcomeAdmitted(m, e) ==
    /\ e.type = "Replacement" /\ m.response = "OutcomePending"
    /\ e.outcome # "NotReplaceable" /\ e.replaces = m.worker

Returned(m, e) == [m EXCEPT !.response = IF e.outcome = "Ready" THEN "Ready" ELSE "Failed"]

StopAdmitted(m, e) == e.type = "WorkerStopped" /\ ~m.stopped /\ m.worker = e.worker

(* The recovery of a role looks at the answer to its replacement ...       *)
ReplacementOperation(p, e) ==
    LET r == e.proxy
    IN  ReplacementProgress(Put(p, r, InputAnswered(p.member[r], Accepted(e))), r)

(* A replacement is looked for before a start or a shutdown.               *)
AcceptOperation(p, e) ==
    LET m == p.member[e.proxy]
    IN  IF m.phase = "Replacing" /\ InputAdmitted(m, e)
        THEN ReplacementOperation(p, e) ELSE MemberOperation(p, e)

InitialDecision(m, e) ==
    CASE ~(m.batch = 0 /\ m.phase = "AwaitingOutcome") -> "Rejected"
      [] e.ready -> "Ready"
      [] OTHER -> "Failed"

AcceptInitialOutcome(p, e) ==
    LET r == e.proxy
        decision == InitialDecision(p.member[r], e)
    IN  CASE decision = "Rejected" -> Unexpected(p, e)
          [] decision = "Ready" ->
                Authorize(Tell(Put(p, r, Started(p.member[r], e.attempt)), r, <<"Started">>))
          [] decision = "Failed" -> InitialFailure(p, r)

(* ... and at the reports about it: a peer may stop before its replacement *)
(* is issued, and afterwards the stop and the outcome come in any order.   *)
ReportVerdict(p, m, e) ==
    CASE /\ m.batch # 0 /\ m.phase = "Online" /\ p.release[m.batch].at # "Preparing"
         /\ e.type = "WorkerStopped" /\ m.worker = e.worker -> "PeerStopped"
      [] m.phase = "Replacing" /\ OutcomeAdmitted(m, e) -> "Returned"
      [] m.phase = "Replacing" /\ StopAdmitted(m, e) -> "PredecessorStopped"
      [] OTHER -> "Unrelated"

AcceptRecoveryReport(p, e) ==
    LET r == e.proxy
        m == p.member[r]
        verdict == ReportVerdict(p, m, e)
    IN  CASE verdict = "PeerStopped" -> Authorize(At(p, r, "Stopped"))
          [] verdict = "Returned" -> ReplacementProgress(Put(p, r, Returned(m, e)), r)
          [] verdict = "PredecessorStopped" ->
                ReplacementProgress([p EXCEPT !.member[r].stopped = TRUE], r)

AcceptProxyStop(p, e) ==
    LET m == p.member[e.proxy]
    IN  IF m.phase \in {"Stopping", "Unrecovered"} /\ ~m.exited
        THEN AfterStop(Exited(p, e.proxy), e.proxy)
        ELSE Unexpected(p, e)

-----------------------------------------------------------------------------
(* Recovery of a stopped worker.                                           *)

Eligible(conf, kind) ==
    \/ conf.policy = "Permanent"
    \/ conf.policy = "Transient" /\ kind = "Abnormal"

Scope(conf, t) ==
    CASE conf.strategy = "OneForOne" -> {t}
      [] conf.strategy = "OneForAll" -> Roles
      [] OTHER -> {r \in Roles : r >= t}

Selectable(m) == m.batch = 0 /\ m.phase \in {"Online", "InputDispatched", "AwaitingOutcome"}

BeginRecovery(p, t, at) ==
    LET scope == Scope(p.conf, t)
        Selected(r, m) == IF r = t THEN [m EXCEPT !.phase = "Stopped", !.batch = t, !.at = at,
                                                  !.preparation = "Issued"]
                          ELSE [m EXCEPT !.batch = t]
    IN  [p EXCEPT !.member = [r \in Roles |-> IF r \in scope THEN Selected(r, @[r]) ELSE @[r]],
                  !.release[t] = [at |-> "Preparing", timer |-> 0],
                  !.source = "PreparingWorkers",
                  !.sent = @ \cup {Req("prepare", scope, t)}]

(* accept_worker_stop: an ineligible stop leaves the role empty; otherwise *)
(* the source must be there and every peer of the scope must be free.      *)
AcceptWorkerStop(p, e) ==
    LET r == e.proxy
    IN  CASE ~Eligible(p.conf, e.kind) -> Tell(At(p, r, "Empty"), r, <<"WorkerStopped">>)
          [] p.source # "Available" -> Unexpected(p, e)
          [] \E s \in Scope(p.conf, r) : ~Selectable(p.member[s]) -> Unexpected(p, e)
          [] OTHER -> BeginRecovery(p, r, e.now)

(* A stop is a recovery's own when its role is online and runs this worker.*)
OwnsOnline(m, e) == m.batch = 0 /\ m.phase = "Online" /\ m.worker = e.worker

-----------------------------------------------------------------------------
(* Preparation, admission and release.                                     *)

FailedPreparation(p, t) == React([Dissolve(p, t) EXCEPT !.source = "Available"], t)

AcceptPreparationStart(p, e) ==
    CASE p.member[e.n].preparation # "Issued" -> Unexpected(p, e)
      [] Accepted(e) -> [p EXCEPT !.member[e.n].preparation = "Started"]
      [] OTHER -> FailedPreparation(p, e.n)

(* decide_prepared: a ticket, then the budget, then the delay.             *)
Denied(p, t, delay) ==
    \/ p.tickets = MaxTickets
    \/ ~Admits(p.budget, Limit, p.member[t].at, Cardinality(Batch(p, t)))
    \/ delay = Overflow

(* admit_recovery: what is admitted is authorized at once, or scheduled.   *)
AdmitRecovery(p, t, timer) ==
    Authorize(IF timer = 0 THEN p
              ELSE [p EXCEPT !.sent = @ \cup {Req("schedule", {t}, timer)}])

DecidePrepared(p, t) ==
    LET m == p.member[t]
        delay == Calculate(p.conf.release, m.recoveries + 1)
        ticket == p.tickets + 1
        timer == IF delay = 0 THEN 0 ELSE ticket
    IN  IF Denied(p, t, delay) THEN FailedPreparation(p, t)
        ELSE AdmitRecovery([p EXCEPT
               !.source = "Available",
               !.budget = Charged(@, Limit, m.at, Cardinality(Batch(p, t))),
               !.tickets = ticket,
               !.member[t].recoveries = @ + 1,
               !.member[t].preparation = "None",
               !.release[t] = [at |-> IF delay = 0 THEN "Ready" ELSE "Scheduling",
                               timer |-> timer]], t, timer)

AcceptPreparationReturn(p, e) ==
    CASE p.member[e.n].preparation # "Started" -> Unexpected(p, e)
      [] e.prepared -> DecidePrepared(p, e.n)
      [] OTHER -> FailedPreparation(p, e.n)

(* The batch whose release waits for this timer, if there is one.          *)
Releases(p, e, at) == {t \in e.of : p.release[t] = [at |-> at, timer |-> e.n]}

(* A schedule that is neither accepted nor rejected is nobody's.           *)
AcceptSchedule(p, e) ==
    IF Releases(p, e, "Scheduling") # {} /\ e.answer # "Unserved"
    THEN LET t == CHOOSE t \in e.of : TRUE
         IN  IF Accepted(e) THEN Authorize([p EXCEPT !.release[t].at = "Waiting"])
             ELSE React(Dissolve(p, t), t)
    ELSE Unexpected(p, e)

AcceptElapsed(p, e) ==
    IF Releases(p, e, "Waiting") # {}
    THEN Authorize([p EXCEPT !.release[CHOOSE t \in e.of : TRUE].at = "Ready"])
    ELSE Unexpected(p, e)

-----------------------------------------------------------------------------
(* A roster that shuts down.  What it still expects settles exactly the    *)
(* role it belongs to; the supervisor stops when nothing is left.          *)

DrainBirths(p, committed) ==
    IntoStep([p EXCEPT
        !.member = [r \in Roles |->
            IF committed[r] THEN [@[r] EXCEPT !.phase = "Stopping", !.shutdown = "Dispatched"]
            ELSE [@[r] EXCEPT !.phase = "AbsentProxy"]],
        !.sent = @ \cup {Req("shutdown", {r}, 1) : r \in {s \in Roles : committed[s]}}])

(* What a proxy's start or replacement still owes it: the input's answer,  *)
(* then the outcome.                                                       *)
OwnsInput(m, e) ==
    \/ m.own = "InputDispatched" /\ e.op = "start"
    \/ m.own = "Replacing" /\ InputAdmitted(m, e)

OwnInput(m, e) ==
    IF m.own = "Replacing" THEN InputAnswered(m, Accepted(e))
    ELSE [m EXCEPT !.own = IF Accepted(e) THEN "AwaitingOutcome" ELSE "None"]

OwnsOutcome(m, e) ==
    \/ m.own = "AwaitingOutcome" /\ e.type = "Initial"
    \/ m.own = "Replacing" /\ (OutcomeAdmitted(m, e) \/ StopAdmitted(m, e))

OwnOutcome(m, e) ==
    CASE e.type = "Initial" -> [m EXCEPT !.own = "None"]
      [] e.type = "Replacement" -> Returned(m, e)
      [] e.type = "WorkerStopped" -> [m EXCEPT !.stopped = TRUE]

DrainOperation(p, e) ==
    LET r == e.proxy
        m == p.member[r]
    IN  CASE e.op = "shutdown" /\ m.phase = "Stopping" /\ m.shutdown = "Dispatched" ->
                IntoStep(ShutdownSettled(p, r, Accepted(e)))
          [] OwnsInput(m, e) -> IntoStep(Put(p, r, OwnInput(m, e)))
          [] OTHER -> Unexpected(p, e)

DrainOutcome(p, e) ==
    LET m == p.member[e.proxy]
    IN  IF OwnsOutcome(m, e) THEN IntoStep(Put(p, e.proxy, OwnOutcome(m, e)))
        ELSE Unexpected(p, e)

DrainStop(p, e) ==
    LET m == p.member[e.proxy]
    IN  IF m.phase = "Stopping" /\ ~m.exited THEN IntoStep(Exited(p, e.proxy))
        ELSE Unexpected(p, e)

(* The source that comes back, or was never taken, is kept with the drain. *)
OwnPreparationStart(m, accepted) ==
    [m EXCEPT !.preparation = IF accepted THEN "Started" ELSE "None"]

DrainPreparationStart(p, e) ==
    LET m == p.member[e.n]
    IN  IF m.preparation # "Issued" THEN Unexpected(p, e)
        ELSE IntoStep([Put(p, e.n, OwnPreparationStart(m, Accepted(e))) EXCEPT
                         !.source = IF Accepted(e) THEN @ ELSE "Retirement"])

OwnPreparationReturn(m) == [m EXCEPT !.preparation = "None"]

DrainPreparationReturn(p, e) ==
    LET m == p.member[e.n]
    IN  IF m.preparation # "Started" THEN Unexpected(p, e)
        ELSE IntoStep([Put(p, e.n, OwnPreparationReturn(m)) EXCEPT !.source = "Retirement"])

DrainSchedule(p, e) ==
    CASE e.n \in p.cancelled -> IntoStep([p EXCEPT !.cancelled = @ \ {e.n}])
      [] e.of = {} /\ p.deadline = "Scheduling" ->
            IntoStep([p EXCEPT !.deadline = DeadlineSettled(Accepted(e))])
      [] OTHER -> Unexpected(p, e)

DrainElapsed(p, e) ==
    IF e.of = {} /\ p.deadline = "Waiting" THEN IntoStep([p EXCEPT !.deadline = "Elapsed"])
    ELSE Unexpected(p, e)

-----------------------------------------------------------------------------
(* transition: each input is handed to the roster, operating or not.       *)

Operating(p) == p.mode = "Operating"

(* A batch that failed as a whole is the actor's error, or leaves a roster *)
(* that drains without proxies.                                            *)
AcceptProxyBirth(p, e) ==
    CASE ~Operating(p) -> DrainBirths(p, e.committed)
      [] e.routed -> AcceptBirths(p, e.committed)
      [] OTHER -> p

AcceptProxyOperation(p, e) ==
    IF Operating(p) THEN AcceptOperation(p, e) ELSE DrainOperation(p, e)

AcceptProxyReport(p, e) ==
    LET m == p.member[e.proxy]
    IN  IF ~Operating(p) THEN DrainOutcome(p, e)
        ELSE CASE ReportVerdict(p, m, e) # "Unrelated" -> AcceptRecoveryReport(p, e)
               [] e.type = "Initial" -> AcceptInitialOutcome(p, e)
               [] e.type = "WorkerStopped" /\ OwnsOnline(m, e) -> AcceptWorkerStop(p, e)
               [] OTHER -> Unexpected(p, e)

AcceptProxyExit(p, e) == IF Operating(p) THEN AcceptProxyStop(p, e) ELSE DrainStop(p, e)

(* The source must be out for either input of a preparation.               *)
AcceptWorkerPreparationStart(p, e) ==
    IF p.source # "PreparingWorkers" THEN Unexpected(p, e)
    ELSE IF Operating(p) THEN AcceptPreparationStart(p, e) ELSE DrainPreparationStart(p, e)

AcceptWorkerPreparationReturn(p, e) ==
    IF p.source # "PreparingWorkers" THEN Unexpected(p, e)
    ELSE IF Operating(p) THEN AcceptPreparationReturn(p, e) ELSE DrainPreparationReturn(p, e)

AcceptRestartSchedule(p, e) ==
    IF Operating(p) THEN AcceptSchedule(p, e) ELSE DrainSchedule(p, e)

AcceptRestartElapsed(p, e) ==
    IF Operating(p) THEN AcceptElapsed(p, e) ELSE DrainElapsed(p, e)

AcceptCommand(p) == IntoStep(IF Operating(p) THEN BeginShutdown(p) ELSE p)

Transition(p, e) ==
    CASE e.type = "CreationsSettled" -> AcceptProxyBirth(p, e)
      [] e.type = "InputSettled" -> AcceptProxyOperation(p, e)
      [] e.type \in {"Initial", "Replacement", "WorkerStopped"} -> AcceptProxyReport(p, e)
      [] e.type = "ProxyStopped" -> AcceptProxyExit(p, e)
      [] e.type = "PreparationStarted" -> AcceptWorkerPreparationStart(p, e)
      [] e.type = "PreparationReturned" -> AcceptWorkerPreparationReturn(p, e)
      [] e.type = "ScheduleSettled" -> AcceptRestartSchedule(p, e)
      [] e.type = "Elapsed" -> AcceptRestartElapsed(p, e)
      [] e.type = "Shutdown" -> AcceptCommand(p)

Fleet == INSTANCE ProxyFleet WITH Proxies <- Roles

-----------------------------------------------------------------------------

(* init: one creation batch for the whole roster.                          *)
Init ==
    /\ \E conf \in Configs :
          sup = [mode |-> "Operating", conf |-> conf, member |-> [r \in Roles |-> NewMember],
                 release |-> [r \in Roles |-> NoRelease],
                 source |-> IF conf.policy = "Temporary" THEN "Temporary" ELSE "Available",
                 budget |-> <<>>, tickets |-> 0, cancelled |-> {}, deadline |-> "Unlimited",
                 sent |-> {}, told |-> [r \in Roles |-> <<>>],
                 diagnosed |-> {}]
    /\ owed = {Req("create", Roles, 0)}
    /\ Fleet!FleetInit

Shutdown ==
    /\ sup.mode = "Operating"
    /\ UNCHANGED <<proxy, faults>>
    /\ Fleet!Take([type |-> "Shutdown"], {}, {})

Next == Shutdown \/ Fleet!FleetNext

Spec == Init /\ [][Next]_vars

-----------------------------------------------------------------------------
(* Properties.                                                             *)

Diagnosed(type, r) == <<type, r>> \in sup.diagnosed

(* The answer to its replacement was given back, so it waits for ever.     *)
Stranded(r) ==
    /\ sup.member[r].response = "InputPending" /\ Diagnosed("replace", r)
    /\ "Replacing" \in {sup.member[r].phase, sup.member[r].own}

(* What the supervisor holds to be in service is: the attempt of an online *)
(* role is the one its proxy runs, unless its stop was only diagnosed or   *)
(* the proxy died, which nobody reacts to; and behind an empty role        *)
(* nothing runs.                                                           *)
ServiceIsExact ==
    sup.mode = "Operating" =>
        \A r \in Roles :
            LET m == sup.member[r]
            IN  /\ m.phase = "Online" =>
                      \/ proxy[r].worker = m.worker
                      \/ Diagnosed("WorkerStopped", r) \/ proxy[r].at = "Dead"
                /\ m.phase \in {"Empty", "Stopped"} => proxy[r].worker = 0

(* The worker source is away exactly while one preparation is outstanding, *)
(* and one role, operating or draining, expects that preparation.          *)
SourceCustody ==
    LET out == {q \in owed : q.op \in {"prepare", "prepared"}}
        expecting == {r \in Roles : sup.member[r].preparation # "None"}
    IN  sup.mode # "Stopped" =>
          /\ (sup.source = "PreparingWorkers") = (out # {})
          /\ expecting = {q.n : q \in out} /\ Cardinality(out) <= 1

(* No more roles change their worker at once than the startup limit, the   *)
(* supervisor never finds more, and with nothing outstanding every role    *)
(* that still waits stands behind one whose proxy or input was refused, or *)
(* behind replacements that are stranded and hold the whole limit.         *)
StartsWithinLimit ==
    sup.mode = "Operating" =>
        /\ ~Diagnosed("AuthorizationStateRejected", 0)
        /\ sup.conf.strategy = "OneForOne" =>
              Cardinality({r \in Roles : proxy[r].pending # 0 \/ Fleet!InputOwed(r)}) <= StartupLimit
        /\ Fleet!Quiet /\ (\E r \in Roles : Issuable(sup, r)) =>
              Cardinality({r \in Roles : Stranded(r)}) = StartupLimit

(* A role is reported started once, then stopped and restarted in turn,    *)
(* and nothing is reported of a role after its retirement.                 *)
LifecycleAlternates ==
    \A r \in Roles :
        LET told == sup.told[r]
        IN  \A i \in DOMAIN told :
              CASE told[i] = "Started" -> i = 1
                [] told[i] = "WorkerStopped" -> i > 1 /\ told[i - 1] \in {"Started", "Restarted"}
                [] told[i] = "Restarted" -> i > 1 /\ told[i - 1] = "WorkerStopped"
                [] OTHER -> i = Len(told)

(* A supervisor that stops by itself has outlived every proxy it created,  *)
(* unless its deadline passed or a terminal diagnostic ended it.           *)
StopsLast ==
    sup.mode = "Stopped" /\ ~sup.conf.terminate /\ ~Expired(sup.deadline) =>
        /\ sup.source # "PreparingWorkers"
        /\ \A r \in Roles : ~Fleet!Alive(r) /\ ~Fleet!Owed("create", r)

(* Why a role may be left in the middle of a recovery: its predecessor     *)
(* outlived its refused replacement, or left with a stop that was only     *)
(* diagnosed or with its proxy; its batch waits for a start it no longer   *)
(* follows; or the answer to its replacement or to its restart timer was   *)
(* given back, here or by the role that holds the startup limit.           *)
LeftInRecovery(r) ==
    LET m == sup.member[r]
    IN  \/ /\ m.phase = "Replacing" /\ ~m.stopped
           /\ \/ m.response = "Failed" /\ proxy[r].worker = m.worker
              \/ /\ m.response \in {"Ready", "Failed"}
                 /\ Diagnosed("WorkerStopped", r) \/ proxy[r].at = "Dead"
        \/ m.phase \in {"InputDispatched", "AwaitingOutcome"}
        \/ Stranded(r)
        \/ sup.release[m.batch].at = "Scheduling" /\ Diagnosed("ScheduleSettled", m.batch)
        \/ Issuable(sup, r)

(* When the runtime owes nothing, no role is left in the middle of a       *)
(* recovery but for those reasons; a role being stopped has a proxy that   *)
(* refused or had died, one being created a batch that failed as a whole;  *)
(* and a shutdown has ended unless it waits for such a role or timer.      *)
SettlesWhenQuiet ==
    Fleet!Quiet /\ sup.mode # "Stopped" =>
        /\ \A r \in Roles :
              LET m == sup.member[r]
              IN  CASE m.batch # 0 -> LeftInRecovery(r)
                    [] m.phase \in {"Stopping", "Unrecovered"} ->
                          m.shutdown = "Rejected" /\ ~m.exited
                    [] m.phase \in {"CreatingProxy", "AwaitingProxyBirth"} ->
                          proxy[r].at = "Unrouted"
                    [] OTHER -> sup.mode = "Operating" \/ m.phase \in {"Retired", "AbsentProxy"}
        /\ sup.mode = "ShuttingDown" =>
              \/ \E r \in Roles : \/ sup.member[r].phase \in {"Stopping", "AwaitingProxyBirth"}
                                  \/ Stranded(r)
              \/ sup.cancelled # {} /\ \E t \in Roles : Diagnosed("ScheduleSettled", t)

(* "An `AwaitingInitial` participant continues to process its exact        *)
(* `InitialPhase`": an operating supervisor never turns away the           *)
(* settlement or the outcome of a role's first start.                      *)
InitialPhaseContinues ==
    sup.mode = "Operating" =>
        ~\E r \in Roles : Diagnosed("start", r) \/ Diagnosed("Initial", r)

(* One preparation at a time, and no more starts than the limit admits.    *)
StartsAccounted == SourceCustody /\ StartsWithinLimit

(* What the supervisor reports of its roles and of itself is in order.     *)
ReportsInOrder == LifecycleAlternates /\ StopsLast

-----------------------------------------------------------------------------
(* A small instance for TLC.                                               *)

MCLimit == [maximum |-> 2, window |-> 2]

Conf(strategy, policy, reaction, terminate, release, limited) ==
    [strategy |-> strategy, policy |-> policy, reaction |-> reaction,
     terminate |-> terminate, limited |-> limited,
     release |-> [kind |-> release, initial |-> 1, maximum |-> 4]]

MCConfigs ==
    {Conf("OneForOne", "Permanent", "RetireMember", FALSE, "Constant", FALSE),
     Conf("OneForOne", "Transient", "StopSupervisor", FALSE, "Immediate", FALSE),
     Conf("OneForAll", "Permanent", "RetireMember", FALSE, "Exponential", FALSE),
     Conf("RestForOne", "Permanent", "StopSupervisor", FALSE, "Linear", FALSE),
     Conf("RestForOne", "Permanent", "RetireMember", TRUE, "Constant", FALSE),
     Conf("OneForOne", "Temporary", "RetireMember", FALSE, "Immediate", TRUE)}
==============================================================================
