------------------------------- MODULE Stash -------------------------------
(***************************************************************************)
(* The stash wrappers: the inner behavior routes each message to the stash, *)
(* to itself, or to itself with a release of the stash.  A limited stash    *)
(* refuses what it has no room for.  The inner behavior has two modes; it   *)
(* may change mode or stop on the messages it is given.                     *)
(***************************************************************************)
EXTENDS Naturals, Sequences, SequencesExt

CONSTANTS Limit, MaxMessages

VARIABLES state, log

vars == <<state, log>>

\* What the inner behavior does with a delivered message of each kind.
Kinds == {"plain", "switch", "halt"}

Routes == {"Stash", "Deliver", "Release"}

Init ==
  /\ \E route \in [BOOLEAN -> [Kinds -> Routes]], limited \in BOOLEAN :
       state = [route |-> route, limited |-> limited, mode |-> FALSE, held |-> <<>>,
                stopped |-> FALSE]
  /\ log = [received |-> <<>>, delivered |-> <<>>, refused |-> <<>>]

\* A turn's working copy: the stash and what it has delivered.
Deliver(s, message) ==
  [s EXCEPT !.delivered = Append(@, message),
            !.mode = IF message[2] = "switch" THEN ~@ ELSE @,
            !.stopped = message[2] = "halt"]

RECURSIVE DrainInto(_, _)

\* Each held message is routed anew; a stop leaves the unread ones behind the
\* ones stashed again (the drop of HeldInputs).  A Release does not nest.
DrainInto(s, unread) ==
  CASE s.stopped -> [s EXCEPT !.held = @ \o unread]
    [] unread = <<>> -> s
    [] OTHER ->
         LET message == Head(unread)
         IN IF s.route[s.mode][message[2]] = "Stash"
            THEN DrainInto([s EXCEPT !.held = Append(@, message)], Tail(unread))
            ELSE DrainInto(Deliver(s, message), Tail(unread))

Release(s) == DrainInto([s EXCEPT !.held = <<>>], s.held)

\* UnlimitedStash::receive.
Accept(s, message) ==
  LET route == s.route[s.mode][message[2]]
  IN CASE route = "Stash" -> [s EXCEPT !.held = Append(@, message)]
       [] route = "Deliver" -> Deliver(s, message)
       [] OTHER -> LET done == Deliver(s, message)
                   IN IF done.stopped THEN done ELSE Release(done)

Refuses(message) ==
  /\ state.limited /\ Len(state.held) >= Limit
  /\ state.route[state.mode][message[2]] = "Stash"

Working == [route |-> state.route, limited |-> state.limited, mode |-> state.mode,
            held |-> state.held, stopped |-> state.stopped, delivered |-> log.delivered]

Receive(kind) ==
  /\ ~state.stopped /\ Len(log.received) < MaxMessages
  /\ \E message \in {<<Len(log.received) + 1, kind>>} :
       \/ /\ Refuses(message)
          /\ log' = [log EXCEPT !.received = Append(@, message),
                                !.refused = Append(@, message)]
          /\ UNCHANGED state
       \/ /\ ~Refuses(message)
          /\ \E s \in {Accept(Working, message)} :
               /\ state' = [route |-> s.route, limited |-> s.limited, mode |-> s.mode,
                            held |-> s.held, stopped |-> s.stopped]
               /\ log' = [log EXCEPT !.received = Append(@, message),
                                     !.delivered = s.delivered]

Next == \E kind \in Kinds : Receive(kind)

Spec == Init /\ [][Next]_vars

\* However routing changes in the middle of a release, and even if the inner
\* behavior stops there: every message is delivered, refused or held, once;
\* the held ones keep their order of arrival and stay within the limit.
StashKeepsAll ==
  /\ ToSet(log.delivered) \cup ToSet(state.held) \cup ToSet(log.refused)
       = ToSet(log.received)
  /\ Len(log.delivered) + Len(state.held) + Len(log.refused) = Len(log.received)
  /\ \A i \in 1..(Len(state.held) - 1) : state.held[i][1] < state.held[i + 1][1]
  /\ state.limited => Len(state.held) <= Limit
=============================================================================
