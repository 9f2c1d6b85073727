------------------------------- MODULE Router -------------------------------
(***************************************************************************)
(* The unicast router (crates/actors/src/routing/router.rs) with its four  *)
(* static policies: RoundRobin, LeastLoaded, ConsistentHash and            *)
(* RendezvousHash.  A policy never sees a member's identity: it keeps a    *)
(* cursor, or evidence, by POSITION in the member sequence, and positions  *)
(* shift when a member leaves.                                             *)
(***************************************************************************)
EXTENDS Integers, Sequences, SequencesExt, FiniteSetsExt

CONSTANTS
  Routes,         \* the destinations that may be members
  Keys,           \* hashes of route keys
  Versions,       \* evidence versions
  Values,         \* loads or stable tokens
  Mixed(_, _),    \* mixed_hash: what a policy makes of two 64-bit numbers
  Replicas        \* virtual points of one member on the ring

VARIABLES
  state,  \* [strategy, members, next, evidence]
  log     \* [newest : the newest evidence by route, turn : whose turn it is]

Unknown == <<>>
Nobody == "nobody"

-----------------------------------------------------------------------------
(* The policies *)

\* A selection is the position chosen (1-based), or 0 for None.
RoundRobinSelect(s) ==
  IF s.members = <<>> THEN 0 ELSE (s.next % Len(s.members)) + 1

\* Positions with evidence.
Tokens(s) == {i \in DOMAIN s.evidence : i <= Len(s.members) /\ s.evidence[i] # Unknown}

LeastLoadedSelect(s) ==
  IF Tokens(s) = {} THEN 0
  ELSE CHOOSE i \in Tokens(s) :
         \A j \in Tokens(s) : \/ s.evidence[i][2] < s.evidence[j][2]
                              \/ s.evidence[i][2] = s.evidence[j][2] /\ i <= j

\* The first point at or after the key, going round at the end of the ring.
ConsistentSelect(s, key) ==
  LET points == {<<Mixed(s.evidence[i][2], r), i>> : i \in Tokens(s), r \in 0..(Replicas - 1)}
      Behind(p) == IF p[1] < key THEN 1 ELSE 0
      Before(p, q) ==
        \/ Behind(p) < Behind(q)
        \/ Behind(p) = Behind(q) /\ p[1] < q[1]
        \/ Behind(p) = Behind(q) /\ p[1] = q[1] /\ p[2] <= q[2]
  IN IF points = {} THEN 0
     ELSE (CHOOSE p \in points : \A q \in points : Before(p, q))[2]

RendezvousSelect(s, key) ==
  LET Score(i) == Mixed(key, s.evidence[i][2]) IN
  IF Tokens(s) = {} THEN 0
  ELSE CHOOSE i \in Tokens(s) :
         \A j \in Tokens(s) : Score(i) > Score(j) \/ (Score(i) = Score(j) /\ i <= j)

Select(s, key) ==
  CASE s.strategy = "RoundRobin" -> RoundRobinSelect(s)
    [] s.strategy = "LeastLoaded" -> LeastLoadedSelect(s)
    [] s.strategy = "ConsistentHash" -> ConsistentSelect(s, key)
    [] s.strategy = "RendezvousHash" -> RendezvousSelect(s, key)

Added(s, route) ==
  [s EXCEPT !.members = Append(@, route),
            !.evidence = IF s.strategy = "RoundRobin" THEN @ ELSE Append(@, Unknown)]

\* index is 0-based, as in the code.
CursorRemoved(next, index, remaining) ==
  IF remaining = 0 THEN 0
  ELSE (IF index < next THEN next - 1 ELSE next) % remaining

\* Evidence leaves with its member.
EvidenceRemoved(evidence, index) ==
  IF index < Len(evidence) THEN RemoveAt(evidence, index + 1) ELSE evidence

\* What evidence a member's accepted one becomes, or the rejection.
ObserveLoad(evidence, version, load) ==
  CASE evidence = Unknown -> <<version, load>>
    [] evidence # Unknown /\ version > evidence[1] -> <<version, load>>
    [] OTHER -> evidence

ObserveToken(evidence, version, token) ==
  IF evidence = Unknown \/ version > evidence[1] THEN <<version, token>> ELSE evidence

-----------------------------------------------------------------------------
(* The router *)

\* Router::new keeps the first of equal recipients.
Unique(recipients) ==
  FoldLeft(LAMBDA kept, route : IF Contains(kept, route) THEN kept ELSE Append(kept, route),
           <<>>, recipients)

Init ==
  \E strategy \in {"RoundRobin", "LeastLoaded", "ConsistentHash", "RendezvousHash"},
     recipients \in SeqOf(Routes, 2) :
    /\ state = FoldLeft(Added, [strategy |-> strategy, members |-> <<>>, next |-> 0,
                                evidence |-> <<>>], Unique(recipients))
    /\ log = [newest |-> [r \in Routes |-> Unknown],
              turn |-> IF recipients = <<>> THEN Nobody ELSE recipients[1]]

\* The member after a position, going round: whose turn follows.
Following(members, index) == members[(index % Len(members)) + 1]

AddMember(route) ==
  /\ ~Contains(state.members, route)
  /\ state' = Added(state, route)
  /\ log' = [log EXCEPT !.turn = IF @ = Nobody THEN route ELSE @]

\* An absent recipient changes nothing.
Removed(s, route) ==
  LET index == SelectInSeq(s.members, LAMBDA r : r = route) - 1
      rest == RemoveAt(s.members, index + 1)
  IN [s EXCEPT !.members = rest,
               !.next = IF s.strategy = "RoundRobin"
                        THEN CursorRemoved(@, index, Len(rest)) ELSE @,
               !.evidence = EvidenceRemoved(@, index)]

RemoveMember(route) ==
  /\ Contains(state.members, route)
  /\ state' = Removed(state, route)
  /\ log' = [log EXCEPT
       !.newest[route] = Unknown,
       !.turn = IF Len(state.members) = 1 THEN Nobody
                ELSE IF @ = route
                THEN Following(state.members, SelectInSeq(state.members, LAMBDA r : r = route))
                ELSE @]

\* A selection is committed only when it names a member.
Route(key) ==
  \E index \in {Select(state, key)} :
    /\ index \in DOMAIN state.members
    /\ state' = [state EXCEPT !.next = IF state.strategy = "RoundRobin"
                                       THEN index % Len(state.members) ELSE @]
    /\ log' = [log EXCEPT !.turn = IF state.strategy = "RoundRobin"
                                   THEN Following(state.members, index) ELSE @]

\* Evidence about a stranger, stale or conflicting evidence changes nothing.
Observe(route, version, value) ==
  /\ state.strategy # "RoundRobin"
  /\ Contains(state.members, route)
  /\ \E index \in {SelectInSeq(state.members, LAMBDA r : r = route)} :
       state' = [state EXCEPT !.evidence[index] =
                   IF state.strategy = "LeastLoaded"
                   THEN ObserveLoad(@, version, value) ELSE ObserveToken(@, version, value)]
  /\ log' = [log EXCEPT !.newest[route] =
               IF @ = Unknown \/ version > @[1] THEN <<version, value>> ELSE @]

Next ==
  \/ \E route \in Routes : AddMember(route) \/ RemoveMember(route)
  \/ \E key \in Keys : Route(key)
  \/ \E route \in Routes, version \in Versions, value \in Values :
       Observe(route, version, value)

Spec == Init /\ [][Next]_<<state, log>>

-----------------------------------------------------------------------------
(* Property *)

Chosen(s, key) == LET index == Select(s, key) IN
  IF index \in DOMAIN s.members THEN s.members[index] ELSE Nobody

\* Positions stand for identities through every join and departure: each
\* member's evidence is the newest observed of THAT member since it joined (a
\* member that left and came back starts Unknown); the rotation goes on with
\* the member whose turn it was; and taking a member away re-routes only the
\* keys that member was serving.
RoutedByIdentity ==
  /\ state.strategy # "RoundRobin" =>
       /\ Len(state.evidence) = Len(state.members)
       /\ \A i \in DOMAIN state.members : state.evidence[i] = log.newest[state.members[i]]
       /\ \A key \in Keys, route \in Range(state.members) :
            Chosen(state, key) # route => Chosen(Removed(state, route), key) = Chosen(state, key)
  /\ state.strategy = "RoundRobin" => Chosen(state, 0) = log.turn
=============================================================================
