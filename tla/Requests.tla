------------------------------ MODULE Requests ------------------------------
(***************************************************************************)
(* The tables of keyed one-shot lifecycles: the Correlator of one reply    *)
(* per key and the Acknowledgements of several participants per key        *)
(* (crates/actors/src/routing/correlator.rs, acknowledgements.rs), and the *)
(* Task (crates/actors/src/lifecycle/task.rs), a table of one key that     *)
(* stops with its result.  Keys are never forgotten, so a late or repeated *)
(* input always meets the terminal record.                                 *)
(***************************************************************************)
EXTENDS Integers, Sequences, SequencesExt, FiniteSetsExt

CONSTANTS Keys, Routes, Participants

VARIABLES
  state,  \* [table : which table, records : key -> record]
  log     \* [ended : answers that ended a lifecycle, begun : what was begun, seen]

Absent == [phase |-> "Absent", route |-> "none", remaining |-> <<>>, acknowledged |-> <<>>]

Init ==
  \E table \in {"Correlator", "Acknowledgements", "Task"} :
    /\ state = [table |-> table, records |-> [k \in Keys |->
         IF table = "Task" THEN [Absent EXCEPT !.phase = "Pending"] ELSE Absent]]
    /\ log = [ended |-> {}, begun |-> [k \in Keys |-> {}], seen |-> [k \in Keys |-> {}]]

Ended(key, result, route) ==
  log' = [log EXCEPT !.ended = @ \cup {<<key, result, route, Cardinality(log.ended)>>}]

-----------------------------------------------------------------------------
(* The correlator *)

\* AlreadyPending, ReopenCompleted and ReopenCancelled are refused.
Begin(key, route) ==
  /\ state.table = "Correlator" /\ state.records[key].phase = "Absent"
  /\ state' = [state EXCEPT !.records[key].phase = "Pending", !.records[key].route = route]
  /\ log' = [log EXCEPT !.begun[key] = {route}]

\* Unknown, completed and cancelled keys are refused; the reply goes to the
\* route the key was begun with.
Resolve(key) ==
  /\ state.table = "Correlator" /\ state.records[key].phase = "Pending"
  /\ state' = [state EXCEPT !.records[key].phase = "Completed"]
  /\ Ended(key, "Resolved", state.records[key].route)

CancelPending(key) ==
  /\ state.table = "Correlator" /\ state.records[key].phase = "Pending"
  /\ state' = [state EXCEPT !.records[key].phase = "Cancelled"]
  /\ Ended(key, "Cancelled", state.records[key].route)

-----------------------------------------------------------------------------
(* The acknowledgements: every command is answered on its own route *)

Distinct(participants) ==
  FoldLeft(LAMBDA kept, p : IF Contains(kept, p) THEN kept ELSE Append(kept, p),
           <<>>, participants)

BeginAcknowledgement(key, participants) ==
  /\ state.table = "Acknowledgements" /\ state.records[key].phase = "Absent"
  /\ \E distinct \in {Distinct(participants)} :
       /\ state' = [state EXCEPT !.records[key] =
            [@ EXCEPT !.phase = IF distinct = <<>> THEN "Completed" ELSE "Pending",
                      !.remaining = distinct]]
       /\ log' = [log EXCEPT !.begun[key] = Range(participants),
                             !.ended = IF distinct = <<>>
                                       THEN @ \cup {<<key, "Completed", "own", Cardinality(@)>>}
                                       ELSE @]

AcknowledgeVerdict(record, participant) ==
  CASE record.phase = "Absent" -> "Unknown"
    [] record.phase \in {"Completed", "Cancelled"} -> record.phase
    [] record.phase = "Pending" /\ Contains(record.acknowledged, participant)
         -> "DuplicateParticipant"
    [] record.phase = "Pending" /\ ~Contains(record.acknowledged, participant)
         /\ ~Contains(record.remaining, participant) -> "UnexpectedParticipant"
    [] OTHER -> "Accepted"

\* Every other verdict is a typed rejection that changes nothing.
Acknowledge(key, participant) ==
  /\ state.table = "Acknowledgements"
  /\ AcknowledgeVerdict(state.records[key], participant) = "Accepted"
  /\ \E remaining \in {SelectSeq(state.records[key].remaining, LAMBDA p : p # participant)} :
       /\ state' = [state EXCEPT !.records[key] =
            [@ EXCEPT !.remaining = remaining, !.acknowledged = Append(@, participant),
                      !.phase = IF remaining = <<>> THEN "Completed" ELSE "Pending"]]
       /\ log' = [log EXCEPT !.seen[key] = @ \cup {participant},
                             !.ended = IF remaining = <<>>
                                       THEN @ \cup {<<key, "Completed", "own", Cardinality(@)>>}
                                       ELSE @]

CancelAcknowledgement(key) ==
  /\ state.table = "Acknowledgements" /\ state.records[key].phase = "Pending"
  /\ state' = [state EXCEPT !.records[key].phase = "Cancelled"]
  /\ Ended(key, "Cancelled", "own")

-----------------------------------------------------------------------------
(* The task: its first result or cancellation ends it, and stops it *)

Finish(key, phase, route) ==
  /\ state.table = "Task" /\ state.records[key].phase = "Pending"
  /\ state' = [state EXCEPT !.records[key].phase = phase]
  /\ Ended(key, phase, route)

Next ==
  \E key \in Keys :
    \/ \E route \in Routes : Begin(key, route)
    \/ Resolve(key)
    \/ CancelPending(key)
    \/ \E participants \in SeqOf(Participants, 3) : BeginAcknowledgement(key, participants)
    \/ \E participant \in Participants : Acknowledge(key, participant)
    \/ CancelAcknowledgement(key)
    \/ \E phase \in {"Completed", "Cancelled"}, route \in Routes : Finish(key, phase, route)

Spec == Init /\ [][Next]_<<state, log>>

-----------------------------------------------------------------------------
(* Property *)

\* Every lifecycle is ended by exactly one answer, whatever arrives late or
\* twice: the correlator's goes to the route that began the key, and an
\* acknowledgement is complete when each declared participant has answered,
\* however often it was declared, and stays pending as long as one has not.
RequestsEndOnce ==
  \A key \in Keys :
    LET record == state.records[key]
        ends == {e \in log.ended : e[1] = key}
    IN /\ Cardinality(ends) = (IF record.phase \in {"Completed", "Cancelled"} THEN 1 ELSE 0)
       /\ state.table = "Correlator" => \A e \in ends : e[3] \in log.begun[key]
       /\ state.table = "Acknowledgements" /\ record.phase # "Absent" =>
            /\ Range(record.remaining) = log.begun[key] \ log.seen[key]
            /\ record.phase # "Cancelled" =>
                 ((record.phase = "Completed") <=> (log.begun[key] = log.seen[key]))
=============================================================================
