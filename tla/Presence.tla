------------------------------ MODULE Presence ------------------------------
(***************************************************************************)
(* The presence table (crates/actors/src/discovery/presence.rs): versioned *)
(* announcements with a lifetime, each of which schedules a timer named    *)
(* (id, generation).  The application maps participants to timer ids, and  *)
(* may map two of them to the same id.  Timers are never cancelled: an     *)
(* elapsed timer is recognised, or not, by its name alone.                 *)
(***************************************************************************)
EXTENDS Integers, FiniteSetsExt

CONSTANTS
  Participants,
  Versions,
  Lifetimes,
  TimerIds,        \* the application's timer_id
  MaxGeneration    \* u64::MAX in the code

VARIABLES
  state,  \* [records : participant -> record, timers : outstanding requests]
  log     \* [newest : participant -> the timer of its newest announcement, fired]

Timer(id, generation, owner) == [id |-> id, generation |-> generation, owner |-> owner]
Nothing == [phase |-> "Absent", version |-> 0, generation |-> 0, lifetime |-> 0]

Init ==
  \E id \in [Participants -> TimerIds] :
    /\ state = [id |-> id, records |-> [p \in Participants |-> Nothing], timers |-> {}]
    /\ log = [newest |-> [p \in Participants |-> <<>>], fired |-> {}]

\* Mutant: the generation continues the participant's own timer only.
NextGenerationOwn(s, p) ==
  IF s.records[p].phase = "Absent" THEN 0 ELSE s.records[p].generation + 1

\* One past every generation of the same timer id; above the maximum is None.
NextGeneration(s, p) ==
  LET same == {q \in Participants : s.records[q].phase # "Absent" /\ s.id[q] = s.id[p]}
  IN IF same = {} THEN 0 ELSE Max({s.records[q].generation : q \in same}) + 1

\* A present participant with the same timer id.
TimerCollision(s, p) ==
  \E q \in Participants \ {p} : s.id[q] = s.id[p] /\ s.records[q].phase = "Present"

\* introduce and the accepting end of refresh.
Introduce(p, version, lifetime) ==
  \E generation \in {NextGeneration(state, p)} :
    /\ generation <= MaxGeneration
    /\ state' = [state EXCEPT
         !.records[p] = [phase |-> "Present", version |-> version,
                         generation |-> generation, lifetime |-> lifetime],
         !.timers = @ \cup {Timer(state.id[p], generation, p)}]
    /\ log' = [log EXCEPT !.newest[p] = <<state.id[p], generation, version>>]

\* Only a newer version refreshes; stale, repeated and conflicting
\* announcements are answered and change nothing.
Refresh(p, version, lifetime) ==
  /\ version > state.records[p].version
  /\ Introduce(p, version, lifetime)

Announce(p, version, lifetime) ==
  /\ ~TimerCollision(state, p)
  /\ IF state.records[p].phase = "Absent"
     THEN Introduce(p, version, lifetime)
     ELSE Refresh(p, version, lifetime)

\* A timer elapses; it expires the present record of its id and generation.
Elapsed(t) ==
  \E expired \in {{p \in Participants : /\ state.id[p] = t.id
                                        /\ state.records[p].phase = "Present"
                                        /\ state.records[p].generation = t.generation}} :
    /\ state' = [state EXCEPT
         !.timers = @ \ {t},
         !.records = [p \in Participants |->
           IF p \in expired THEN [@[p] EXCEPT !.phase = "Expired"] ELSE @[p]]]
    /\ log' = [log EXCEPT !.fired = @ \cup {<<t.owner, t.generation>>}]

Next ==
  \/ \E p \in Participants, version \in Versions, lifetime \in Lifetimes :
       Announce(p, version, lifetime)
  \/ \E t \in state.timers : Elapsed(t)

Spec == Init /\ [][Next]_<<state, log>>

-----------------------------------------------------------------------------
(* Property *)

\* A participant is Expired exactly when the timer of its own newest accepted
\* announcement has fired: neither an older timer of it nor the timer of
\* another participant on the same id expires it, and a present participant's
\* timer is still to come.
PresenceIsExact ==
  \A p \in Participants :
    LET record == state.records[p] IN
    record.phase # "Absent" =>
      /\ log.newest[p][3] = record.version
      /\ (record.phase = "Expired") <=> (<<p, log.newest[p][2]>> \in log.fired)
      /\ record.phase = "Present" =>
           Timer(state.id[p], record.generation, p) \in state.timers
=============================================================================
