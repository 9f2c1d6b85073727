------------------------------ MODULE Discovery ------------------------------
(***************************************************************************)
(* The naming actors (crates/actors/src/discovery): PubSub and Topic       *)
(* (subscribers per topic, or of one), Registry (key to recipient, bound   *)
(* and unbound by exact recipient) and Resolver (a Registry that is fixed  *)
(* at construction).  Subscribers and binders are independent actors whose *)
(* requests interleave.                                                    *)
(***************************************************************************)
EXTENDS Integers, Sequences, SequencesExt, FiniteSetsExt

CONSTANTS Topics, Routes, MaxHistory

VARIABLES
  state,  \* [actor, members : topic -> subscribers, bindings : key -> recipient]
  log     \* accepted changes and what was delivered

Unbound == "unbound"

\* The resolver is built from distinct bindings only.
Init ==
  /\ \E actor \in {"PubSub", "Topic", "Registry", "Resolver"},
        bindings \in [Topics -> Routes \cup {Unbound}] :
       /\ actor # "Resolver" => \A t \in Topics : bindings[t] = Unbound
       /\ state = [actor |-> actor, members |-> [t \in Topics |-> <<>>], bindings |-> bindings]
  /\ log = [changes |-> <<>>, given |-> state.bindings, sent |-> <<>>]

Changed(kind, topic, route) ==
  [log EXCEPT !.changes = Append(@, <<kind, topic, route>>)]

\* A Topic is a PubSub of one topic.
Of(topic) == state.actor = "PubSub" \/ (state.actor = "Topic" /\ topic = CHOOSE t \in Topics : TRUE)

\* A second subscription changes nothing, its place included.
Subscribe(topic, route) ==
  /\ Of(topic) /\ Len(log.changes) < MaxHistory
  /\ state' = [state EXCEPT !.members[topic] =
       IF Contains(@, route) THEN @ ELSE Append(@, route)]
  /\ log' = Changed("Subscribe", topic, route)

\* UnknownTopic and NotSubscribed change nothing.
Unsubscribe(topic, route) ==
  /\ Of(topic) /\ Len(log.changes) < MaxHistory
  /\ Contains(state.members[topic], route)
  /\ state' = [state EXCEPT !.members[topic] = SelectSeq(@, LAMBDA r : r # route)]
  /\ log' = Changed("Unsubscribe", topic, route)

\* NoSubscribers is refused.
Publish(topic) ==
  /\ Of(topic) /\ state.members[topic] # <<>>
  /\ log' = [log EXCEPT !.sent = <<topic, state.members[topic]>>]
  /\ UNCHANGED state

Bind(key, route) ==
  /\ state.actor = "Registry" /\ Len(log.changes) < MaxHistory
  /\ state.bindings[key] = Unbound
  /\ state' = [state EXCEPT !.bindings[key] = route]
  /\ log' = Changed("Bind", key, route)

\* NotBound and StaleBinding change nothing.
Unbind(key, route) ==
  /\ state.actor = "Registry" /\ Len(log.changes) < MaxHistory
  /\ state.bindings[key] = route
  /\ state' = [state EXCEPT !.bindings[key] = Unbound]
  /\ log' = Changed("Unbind", key, route)

\* Registry lookup and resolver resolution; Unbound is Missing.
Lookup(key) ==
  /\ state.actor \in {"Registry", "Resolver"}
  /\ log' = [log EXCEPT !.sent = <<key, <<state.bindings[key]>>>>]
  /\ UNCHANGED state

Next ==
  \E topic \in Topics :
    \/ \E route \in Routes :
         \/ Subscribe(topic, route) \/ Unsubscribe(topic, route)
         \/ Bind(topic, route) \/ Unbind(topic, route)
    \/ Publish(topic)
    \/ Lookup(topic)

Spec == Init /\ [][Next]_<<state, log>>

-----------------------------------------------------------------------------
(* Property *)

Joins(topic, route) ==
  {i \in DOMAIN log.changes : log.changes[i] \in {<<"Subscribe", topic, route>>, <<"Bind", topic, route>>}}

Leaves(topic, route) ==
  {i \in DOMAIN log.changes : log.changes[i] \in {<<"Unsubscribe", topic, route>>, <<"Unbind", topic, route>>}}

\* When the route's present membership began, 0 if it is not a member.
Since(topic, route) ==
  LET left == Max({0} \cup Leaves(topic, route))
      after == {i \in Joins(topic, route) : i > left}
  IN IF after = {} THEN 0 ELSE Min(after)

\* Only an actor's own request ends its membership: the subscribers of a topic
\* are those that joined and have not left since, each once and in the order
\* they joined, and a key is bound to the one recipient that bound it and has
\* not unbound it, whatever stale requests of others came between.
MembersAreCurrent ==
  \A topic \in Topics :
    LET members == state.members[topic]
        current == {r \in Routes : Since(topic, r) > 0}
    IN CASE state.actor \in {"PubSub", "Topic"} ->
              /\ Range(members) = current /\ IsInjective(members)
              /\ \A i, j \in DOMAIN members :
                   i < j => Since(topic, members[i]) < Since(topic, members[j])
         [] state.actor = "Registry" ->
              current = {state.bindings[topic]} \ {Unbound}
         [] state.actor = "Resolver" -> state.bindings = log.given
=============================================================================
