----------------------------- MODULE PoolRuntime -----------------------------
(***************************************************************************)
(* What a pool sees of the Bombay runtime and of its own workers, modelled *)
(* from the requests the pools send and the events they match              *)
(* (pool/queue/event.rs, pool/router/event.rs).  Neither is under the      *)
(* pools' control: settlements of different requests arrive in any order,  *)
(* an exit may overtake the settlement of the creation or of the           *)
(* assignment it follows, and a completion may arrive after the exit of    *)
(* the worker that sent it.                                                *)
(*                                                                         *)
(*   owed    requests the runtime has yet to answer: [op, of, job], where  *)
(*           `of' is the set of workers addressed (a creation batch has    *)
(*           several) and `job' the assigned job                           *)
(*   up      workers that run, and `gone', the ones that have exited       *)
(*   work    <<worker, job>>: a completion that may still arrive           *)
(*   clock   stamps of worker exits, one per exit                          *)
(*   faults  how many more exits, rejections and faults nobody asked for   *)
(*           may happen: the bound of the model                            *)
(*   lost    jobs whose delivery settled as Corrupt or Unattempted         *)
(***************************************************************************)
EXTENDS Naturals, FiniteSets

CONSTANTS
    NJobs, NRoles,
    MaxIncarnations,     \* incarnations of one role
    Transition(_, _)     \* the pool's fold: state and event to state

VARIABLES pool, submitted, owed, up, gone, work, clock, faults, lost

runtimeVars == <<owed, up, gone, work, clock, faults, lost>>

Req(op, of, job) == [op |-> op, of |-> of, job |-> job]

Stays == UNCHANGED <<up, gone, clock, lost>>

Fault == /\ faults > 0
         /\ faults' = faults - 1

FaultIf(bad) == IF bad THEN Fault ELSE UNCHANGED faults

(* The pool takes one event.  The requests it sends join the ones that are *)
(* outstanding, a worker that is asked to stop owes its exit, and one that *)
(* is assigned a job may complete it.                                      *)
Take(event, answered, completed, extra) ==
    \E p \in {Transition(pool, event)} :
        /\ pool' = [p EXCEPT !.sent = {}]
        /\ owed' = (owed \ answered) \cup p.sent \cup extra
                     \cup {Req("exit", q.of, 0) :
                            q \in {s \in p.sent : s.op = "shutdown" /\ s.of \subseteq up'}}
        /\ work' = (work \ completed)
                     \cup UNION {{<<w, q.job>> : w \in q.of \cap up'} :
                                   q \in {s \in p.sent : s.op = "assign"}}

Exits(ws) ==
    /\ up' = up \ ws
    /\ gone' = gone \cup ws
    /\ clock' = clock + 1

-----------------------------------------------------------------------------

Submit ==
    /\ submitted < NJobs
    /\ submitted' = submitted + 1
    /\ UNCHANGED faults /\ Stays
    /\ Take([type |-> "Submit", job |-> submitted + 1], {}, {}, {})

(* A Shutdown command, or the shutdown request of the pool's own parent.   *)
ShutdownPool ==
    /\ pool.mode = "Operating"
    /\ UNCHANGED <<submitted, faults>> /\ Stays
    /\ Take([type |-> "Shutdown"], {}, {}, {})

(* A worker whose exit overtook the settlement was created.                *)
WorkerCreationsSettled(q) ==
    /\ q.op = "create"
    /\ \E rejected \in SUBSET (q.of \ gone) :
          /\ FaultIf(rejected # {})
          /\ up' = up \cup (q.of \ (gone \cup rejected))
          /\ UNCHANGED <<gone, clock, lost>>
          /\ Take([type |-> "WorkerCreationsSettled",
                   outcome |-> [w \in q.of |-> IF w \in rejected THEN "Rejected"
                                               ELSE "Established"]], {q}, {}, {})

WorkerCreationBatchRejected(q) ==
    /\ q.op = "create"
    /\ q.of \cap gone = {}
    /\ Fault /\ Stays
    /\ Take([type |-> "CreationBatchRejected", of |-> q.of], {q}, {}, {})

(* A worker that stops while it initializes is reported twice: by its      *)
(* initialization and by its exit notice.                                  *)
WorkerInitialization(q) ==
    /\ q.op = "initialize"
    /\ \E w \in q.of, report \in {"ReadyForStartup", "EffectsRejected", "Stopped"} :
          LET dies == report = "Stopped" /\ w \in up
          IN  /\ FaultIf(w \in up /\ report # "ReadyForStartup")
              /\ IF dies THEN Exits({w}) ELSE UNCHANGED <<up, gone, clock>>
              /\ Take([type |-> "WorkerInitialization", worker |-> w, report |-> report,
                       kind |-> "Abnormal", now |-> clock'],
                      {q, Req("exit", IF dies THEN q.of ELSE {}, 0)}, {},
                      IF dies THEN {Req("notice", q.of, 0)} ELSE {})
    /\ UNCHANGED lost

(* The two reports of an authorized startup: that it began, and its end.   *)
WorkerStartup(q) ==
    /\ q.op \in {"start", "ready"}
    /\ Stays
    /\ \E w \in q.of, good \in BOOLEAN :
          LET report == CASE q.op = "start" -> IF good THEN "Started" ELSE "StartRejected"
                          [] OTHER -> IF good THEN "Ready" ELSE "Rejected"
          IN  /\ FaultIf(w \in up /\ ~good)
              /\ Take([type |-> "WorkerStartup", worker |-> w, report |-> report], {q}, {},
                      IF report = "Started" THEN {Req("ready", q.of, 0)} ELSE {})

(* The settlement of an assignment; one that was never attempted, or whose *)
(* delivery is in doubt, settles as Unattempted.                           *)
AssignmentSettled(q) ==
    /\ q.op = "assign"
    /\ UNCHANGED <<up, gone, clock>>
    /\ \E w \in q.of, result \in {"Accepted", "Rejected", "Unattempted"} :
          /\ FaultIf(result = "Unattempted" \/ (result = "Rejected" /\ w \in up))
          /\ lost' = IF result = "Unattempted" THEN lost \cup {q.job} ELSE lost
          /\ Take([type |-> "AssignmentSettled", worker |-> w, job |-> q.job,
                   result |-> result],
                  {q}, IF result = "Accepted" THEN {} ELSE {<<w, q.job>>}, {})

WorkerCompletes(w, j) ==
    /\ UNCHANGED faults /\ Stays
    /\ Take([type |-> "WorkerCompleted", worker |-> w, job |-> j], {}, {<<w, j>>}, {})

WorkerShutdownSettled(q) ==
    /\ q.op = "shutdown"
    /\ UNCHANGED faults /\ Stays
    /\ \E w \in q.of : Take([type |-> "WorkerShutdownSettled", worker |-> w], {q}, {}, {})

(* The exit of a worker that was asked to stop, or the notice of an exit   *)
(* that its initialization already reported.                               *)
WorkerExits(q) ==
    /\ q.op \in {"exit", "notice"}
    /\ IF q.op = "exit" THEN Exits(q.of) ELSE UNCHANGED <<up, gone, clock>>
    /\ \E w \in q.of :
          Take([type |-> "WorkerStopped", worker |-> w, kind |-> "Normal", now |-> clock'],
               {q}, {}, {})
    /\ UNCHANGED <<faults, lost>>

(* A worker stops of its own accord, perhaps before its creation settles.  *)
WorkerFails(w, kind) ==
    /\ Fault
    /\ w \notin gone
    /\ w \in up \/ \E q \in owed : q.op = "create" /\ w \in q.of
    /\ Exits({w})
    /\ UNCHANGED lost
    /\ Take([type |-> "WorkerStopped", worker |-> w, kind |-> kind, now |-> clock'],
            {Req("exit", {w}, 0)}, {}, {})

(* A worker source settles the request to prepare and later comes back.    *)
WorkerPreparationStarted(q) ==
    /\ q.op = "prepare"
    /\ Stays
    /\ \E w \in q.of, accepted \in BOOLEAN :
          /\ FaultIf(~accepted)
          /\ Take([type |-> "PreparationStarted", worker |-> w, accepted |-> accepted], {q},
                  {}, IF accepted THEN {Req("prepared", q.of, 0)} ELSE {})

WorkerPreparationReturned(q) ==
    /\ q.op = "prepared"
    /\ Stays
    /\ \E w \in q.of, prepared \in BOOLEAN :
          /\ FaultIf(~prepared)
          /\ Take([type |-> "PreparationReturned", worker |-> w, prepared |-> prepared],
                  {q}, {}, {})

(* Timers: a role's restart delay, or, of no worker, the drain deadline.   *)
ScheduleSettled(q) ==
    /\ q.op = "schedule"
    /\ Stays
    /\ \E accepted \in BOOLEAN :
          /\ FaultIf(~accepted)
          /\ Take([type |-> "ScheduleSettled", of |-> q.of, accepted |-> accepted], {q}, {},
                  IF accepted THEN {Req("elapse", q.of, 0)} ELSE {})

TimerElapsed(q) ==
    /\ q.op = "elapse"
    /\ UNCHANGED faults /\ Stays
    /\ Take([type |-> "Elapsed", of |-> q.of], {q}, {}, {})

-----------------------------------------------------------------------------

RuntimeInit(sent, bound) ==
    /\ submitted = 0
    /\ owed = sent
    /\ up = {} /\ gone = {} /\ work = {} /\ lost = {}
    /\ clock = 0 /\ faults = bound

Settlement ==
    \E q \in owed :
        \/ WorkerCreationsSettled(q)
        \/ WorkerCreationBatchRejected(q)
        \/ WorkerInitialization(q)
        \/ WorkerStartup(q)
        \/ AssignmentSettled(q)
        \/ WorkerShutdownSettled(q)
        \/ WorkerExits(q)
        \/ WorkerPreparationStarted(q)
        \/ WorkerPreparationReturned(q)
        \/ ScheduleSettled(q)
        \/ TimerElapsed(q)

Completion == \E c \in work : WorkerCompletes(c[1], c[2])

Failure ==
    \E r \in 1 .. NRoles, n \in 1 .. MaxIncarnations, kind \in {"Normal", "Abnormal"} :
        WorkerFails(<<r, n>>, kind)

(* A pool that has stopped takes no further event.                         *)
RuntimeNext ==
    /\ pool.mode \notin {"Stopped", "ForcedRetirement"}
    /\ \/ Submit
       \/ ShutdownPool
       \/ UNCHANGED submitted /\ (Settlement \/ Completion \/ Failure)

(* Nothing more will come by itself: the runtime has answered everything   *)
(* and no running worker has work.                                         *)
Quiet == owed = {} /\ \A c \in work : c[1] \notin up
==============================================================================
