------------------------------ MODULE ProxyFleet ------------------------------
(***************************************************************************)
(* What a supervisor sees of the Bombay runtime and of the stable proxies  *)
(* it created, modelled from the requests DynamicSupervisor and            *)
(* FixedSupervisor send and the events they match; what a proxy reports    *)
(* follows ProxyContract.  Each proxy takes its inputs in the order they   *)
(* were sent.  A change of worker is settled when it is delivered, before  *)
(* anything the proxy reports about it; the exit of a proxy may overtake   *)
(* the settlement of the shutdown that caused it, and its last report.  A  *)
(* proxy that shuts down while it starts a worker suppresses that report,  *)
(* so the report of a proxy that was asked to stop may also never come.    *)
(* A proxy may die that nobody asked to stop, at any time, and a batch of  *)
(* creations may fail as a whole.                                          *)
(*                                                                         *)
(*   sup     the supervisor; `sent' holds the requests of its last turn    *)
(*   owed    requests still to be settled: [op, of, n], `of' the proxies   *)
(*           addressed, n the operation of a "start" or a "replace"        *)
(*   proxy   [at, worker, last, pending, kind]: the attempt that runs      *)
(*           (0: none), the latest attempt, and the change in work.  At:   *)
(*           Unborn, Unrouted (its batch failed as a whole), Up, Closing,  *)
(*           Gone (it was asked to stop) or Dead (it was not)              *)
(*   faults  how many more failures nobody asked for may happen: a bound   *)
(***************************************************************************)
EXTENDS Naturals, FiniteSets

CONSTANTS
    Proxies,             \* creation identifiers
    MaxFaults,
    Transition(_, _)     \* the supervisor's fold: state and event to state

VARIABLES sup, owed, proxy, faults

Req(op, of, n) == [op |-> op, of |-> of, n |-> n]

Unborn == [at |-> "Unborn", worker |-> 0, last |-> 0, pending |-> 0, kind |-> "None"]

Inputs == {"start", "replace"}

(* How the runtime settles a request.  Unserved: its evidence is corrupt,  *)
(* or it was not attempted behind one that is.  Nothing is blocked: these  *)
(* requests have no prerequisite.                                          *)
Answers == {"Accepted", "Rejected", "Unserved"}

FaultIf(bad) ==
    IF bad THEN faults > 0 /\ faults' = faults - 1 ELSE UNCHANGED faults

(* The supervisor takes one event and its requests become outstanding.     *)
Take(event, answered, extra) ==
    \E s \in {Transition(sup, event)} :
        /\ sup' = [s EXCEPT !.sent = {}]
        /\ owed' = (owed \ answered) \cup s.sent \cup extra

Owed(op, c) == \E q \in owed : q.op = op /\ c \in q.of

InputOwed(c) == \E op \in Inputs : Owed(op, c)

(* A proxy that was asked to stop may report anything about the change it  *)
(* has in work, without that being a fault.                                *)
Ends(c) ==
    \/ proxy[c].at \in {"Closing", "Gone"}
    \/ proxy[c].at = "Up" /\ Owed("shutdown", c)

Alive(c) == proxy[c].at \in {"Up", "Closing"}

(* What reaches a proxy after it left is rejected, and that is no further  *)
(* fault; the shutdown it was asked for was delivered before.              *)
Answered(op, c, answer) ==
    IF proxy[c].at = "Dead" \/ (proxy[c].at = "Gone" /\ op # "shutdown")
    THEN answer # "Accepted" /\ FaultIf(answer = "Unserved")
    ELSE FaultIf(answer # "Accepted")

-----------------------------------------------------------------------------

(* A routed batch settles each creation; one that is rejected as a whole   *)
(* or corrupt settles none.                                                *)
CreationsSettled(q) ==
    /\ q.op = "create"
    /\ \E routed \in BOOLEAN, rejected \in SUBSET q.of :
          /\ ~routed => rejected = q.of
          /\ FaultIf(rejected # {})
          /\ proxy' = [c \in Proxies |->
                         CASE c \notin q.of -> proxy[c]
                           [] ~routed -> [proxy[c] EXCEPT !.at = "Unrouted"]
                           [] c \in rejected -> proxy[c]
                           [] OTHER -> [proxy[c] EXCEPT !.at = "Up"]]
          /\ Take([type |-> "CreationsSettled", routed |-> routed,
                   committed |-> [c \in q.of |-> c \notin rejected]], {q}, {})

InputSettled(q) ==
    /\ q.op \in Inputs
    /\ \E c \in q.of, answer \in Answers :
          /\ Answered(q.op, c, answer)
          /\ proxy' = IF answer = "Accepted"
                      THEN [proxy EXCEPT ![c].pending = q.n, ![c].kind = q.op]
                      ELSE proxy
          /\ Take([type |-> "InputSettled", proxy |-> c, op |-> q.op, answer |-> answer],
                  {q}, {})

InitialOutcome(c) ==
    /\ proxy[c].kind = "start"
    /\ \E ready \in BOOLEAN :
          /\ FaultIf(~ready /\ ~Ends(c))
          /\ LET n == proxy[c].pending
             IN  /\ proxy' = [proxy EXCEPT
                         ![c].pending = 0, ![c].kind = "None", ![c].last = n,
                         ![c].worker = IF ready /\ Alive(c) THEN n ELSE 0]
                 /\ Take([type |-> "Initial", proxy |-> c, attempt |-> n, ready |-> ready],
                         {}, {})

(* A replacement is resolved once its predecessor has left; it may be      *)
(* refused before that, and a closing proxy hands it back.                 *)
Possible(c, outcome) ==
    CASE outcome \in {"Ready", "CreationRejected", "Unavailable"} -> proxy[c].worker = 0
      [] outcome = "CancelledBeforeBirth" -> Ends(c)
      [] outcome = "NotReplaceable" -> proxy[c].last = 0
      [] OTHER -> TRUE

ReplacementOutcome(c) ==
    /\ proxy[c].kind = "replace"
    /\ \E outcome \in {"Ready", "NotReplaceable", "AttemptsExhausted", "CreationRejected",
                       "Unavailable", "CancelledBeforeBirth"} :
          /\ Possible(c, outcome)
          /\ FaultIf(outcome # "Ready" /\ ~Ends(c))
          /\ LET n == proxy[c].pending
             IN  /\ proxy' = [proxy EXCEPT
                         ![c].pending = 0, ![c].kind = "None",
                         ![c].last = IF outcome \in {"Ready", "Unavailable"} THEN n ELSE @,
                         ![c].worker = IF outcome = "Ready" /\ Alive(c) THEN n ELSE @]
                 /\ Take([type |-> "Replacement", proxy |-> c, attempt |-> n,
                          replaces |-> proxy[c].last, outcome |-> outcome], {}, {})

(* The worker in service leaves: to make room, with its proxy, or by itself. *)
WorkerStopped(c) ==
    /\ proxy[c].worker # 0
    /\ FaultIf(~Ends(c) /\ proxy[c].kind # "replace")
    /\ proxy' = [proxy EXCEPT ![c].worker = 0]
    /\ \E kind \in {"Normal", "Abnormal"} :
          Take([type |-> "WorkerStopped", proxy |-> c, worker |-> proxy[c].worker,
                kind |-> kind, now |-> MaxFaults - faults'], {}, {})

ShutdownSettled(q) ==
    /\ q.op = "shutdown"
    /\ \E c \in q.of, answer \in Answers :
          /\ ~InputOwed(c)
          /\ Answered(q.op, c, answer)
          /\ proxy' = IF answer = "Accepted" /\ proxy[c].at = "Up"
                      THEN [proxy EXCEPT ![c].at = "Closing"] ELSE proxy
          /\ Take([type |-> "InputSettled", proxy |-> c, op |-> q.op, answer |-> answer],
                  {q}, {})

(* A proxy leaves when it took a shutdown, or dies.                        *)
ProxyExits(c) ==
    /\ Alive(c)
    /\ FaultIf(proxy[c].at = "Up" /\ (InputOwed(c) \/ ~Owed("shutdown", c)))
    /\ proxy' = [proxy EXCEPT ![c].at = IF Ends(c) THEN "Gone" ELSE "Dead", ![c].worker = 0]
    /\ Take([type |-> "ProxyStopped", proxy |-> c], {}, {})

(* Timers: a recovery's delay or, of no proxy, the drain deadline.         *)
ScheduleSettled(q) ==
    /\ q.op = "schedule"
    /\ \E answer \in Answers :
          /\ FaultIf(answer # "Accepted")
          /\ Take([type |-> "ScheduleSettled", of |-> q.of, n |-> q.n, answer |-> answer],
                  {q}, IF answer = "Accepted" THEN {Req("elapse", q.of, q.n)} ELSE {})
    /\ UNCHANGED proxy

TimerElapsed(q) ==
    /\ q.op = "elapse"
    /\ UNCHANGED <<proxy, faults>>
    /\ Take([type |-> "Elapsed", of |-> q.of, n |-> q.n], {q}, {})

(* One PrepareWorkers request: its start is acknowledged, its return comes *)
(* later with the prepared workers or with what the source refused.        *)
PreparationSettled(q) ==
    /\ q.op = "prepare"
    /\ \E answer \in Answers :
          /\ FaultIf(answer # "Accepted")
          /\ Take([type |-> "PreparationStarted", n |-> q.n, answer |-> answer],
                  {q}, IF answer = "Accepted" THEN {Req("prepared", q.of, q.n)} ELSE {})
    /\ UNCHANGED proxy

PreparationReturned(q) ==
    /\ q.op = "prepared"
    /\ \E prepared \in BOOLEAN :
          /\ FaultIf(~prepared)
          /\ Take([type |-> "PreparationReturned", n |-> q.n, prepared |-> prepared], {q}, {})
    /\ UNCHANGED proxy

-----------------------------------------------------------------------------

FleetInit ==
    /\ proxy = [c \in Proxies |-> Unborn]
    /\ faults = MaxFaults

Settlement ==
    \E q \in owed :
        \/ CreationsSettled(q)
        \/ InputSettled(q)
        \/ ShutdownSettled(q)
        \/ ScheduleSettled(q)
        \/ TimerElapsed(q)
        \/ PreparationSettled(q)
        \/ PreparationReturned(q)

Report ==
    \E c \in Proxies :
        InitialOutcome(c) \/ ReplacementOutcome(c) \/ WorkerStopped(c) \/ ProxyExits(c)

(* A supervisor that has stopped takes no further event.                   *)
FleetNext == sup.mode # "Stopped" /\ (Settlement \/ Report)

(* Nothing more will come by itself.  A proxy that left with a report      *)
(* suppressed keeps the fleet from being quiet.                            *)
Quiet ==
    /\ owed = {}
    /\ \A c \in Proxies : proxy[c].pending = 0 /\ proxy[c].at # "Closing"
==============================================================================
