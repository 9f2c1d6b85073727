------------------------------ MODULE Machine ------------------------------
(***************************************************************************)
(* The phase machine: a message moves it, is consumed in place, or is       *)
(* deferred; a change of phase drains the deferred ones again.  A turn runs *)
(* on a staged copy that is committed only when the whole turn succeeds.    *)
(***************************************************************************)
EXTENDS Naturals, Sequences, SequencesExt

CONSTANTS
  Tables,         \* the phase functions: what each phase does with each kind
  MaxMessages

VARIABLES state, log

vars == <<state, log>>

\* The phase function is the user's: Stay, Defer, Stop, Fail or a phase to go to.
\* One that decides by the user state S as well is not among the Tables: what it
\* defers could be ripe after a change of S alone, which no drain looks for.
Init ==
  /\ \E on \in Tables : \E phase \in DOMAIN on :
       state = [on |-> on, phase |-> phase, held |-> <<>>, stopped |-> FALSE]
  /\ log = [received |-> <<>>, consumed |-> <<>>]

\* A message is <<number, kind>>.  The turn's copy also counts what it consumed.
Advance(m, message) ==
  LET move == m.on[m.phase][message[2]]
      used == [m EXCEPT !.consumed = Append(@, message)]
  IN CASE move = "Fail" -> [machine |-> m, outcome |-> "Fail"]
       [] move = "Defer" -> [machine |-> [m EXCEPT !.held = Append(@, message)],
                             outcome |-> "Continue"]
       [] move = "Stay" -> [machine |-> used, outcome |-> "Continue"]
       [] move = "Stop" -> [machine |-> used, outcome |-> "Stop"]
       [] OTHER -> [machine |-> [used EXCEPT !.phase = move],
                    outcome |-> IF move = m.phase THEN "Continue" ELSE "PhaseChanged"]

RECURSIVE DrainOnce(_, _), DrainBatch(_, _)

DrainOnce(m, batch) ==
  IF batch = <<>> THEN [machine |-> m, outcome |-> "Continue"]
  ELSE LET r == Advance(m, Head(batch))
       IN IF r.outcome \in {"Fail", "Stop"}
          THEN [r EXCEPT !.machine.held = @ \o Tail(batch)]
          ELSE DrainOnce(r.machine, Tail(batch))

\* A new phase appends what was deferred again to the running batch.
DrainBatch(m, batch) ==
  IF batch = <<>> THEN [machine |-> m, outcome |-> "Continue"]
  ELSE LET r == Advance(m, Head(batch))
       IN CASE r.outcome \in {"Fail", "Stop"} ->
                 [r EXCEPT !.machine.held = @ \o Tail(batch)]
            [] r.outcome = "PhaseChanged" ->
                 DrainBatch([r.machine EXCEPT !.held = <<>>], Tail(batch) \o r.machine.held)
            [] OTHER -> DrainBatch(r.machine, Tail(batch))

\* Mutant: messages deferred again behind a change of state are not retried.
DrainShort(m) == DrainOnce([m EXCEPT !.held = <<>>], m.held)

Drain(m) == DrainBatch([m EXCEPT !.held = <<>>], m.held)

\* The whole transition.
Turn(m, message) ==
  LET r == Advance(m, message)
  IN IF r.outcome = "PhaseChanged" THEN Drain(r.machine) ELSE r

Staged == [on |-> state.on, phase |-> state.phase, held |-> state.held,
           stopped |-> state.stopped, consumed |-> log.consumed]

\* A failed turn returns its message and changes nothing.
Receive(kind) ==
  /\ ~state.stopped /\ Len(log.received) < MaxMessages
  /\ \E message \in {<<Len(log.received) + 1, kind>>} :
       \E r \in {Turn(Staged, message)} :
         IF r.outcome = "Fail"
         THEN /\ log' = [log EXCEPT !.received = Append(@, <<message[1], "Returned">>)]
              /\ UNCHANGED state
         ELSE /\ state' = [on |-> r.machine.on, phase |-> r.machine.phase,
                           held |-> r.machine.held, stopped |-> r.outcome = "Stop"]
              /\ log' = [received |-> Append(log.received, message),
                         consumed |-> r.machine.consumed]

Next == \E kind \in DOMAIN state.on[state.phase] : Receive(kind)

Spec == Init /\ [][Next]_vars

\* However phases change in the middle of a drain: every accepted message is
\* consumed once or still held, once; and a running machine holds only messages
\* its present phase defers, so none waits for a phase that already came.
DeferredAreKept ==
  LET accepted == {m \in ToSet(log.received) : m[2] # "Returned"}
  IN /\ ToSet(log.consumed) \cup ToSet(state.held) = accepted
     /\ Len(log.consumed) + Len(state.held) = Len(SelectSeq(log.received,
                                                LAMBDA m : m[2] # "Returned"))
     /\ ~state.stopped =>
          \A i \in DOMAIN state.held : state.on[state.phase][state.held[i][2]] = "Defer"
=============================================================================
