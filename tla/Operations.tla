----------------------------- MODULE Operations -----------------------------
(***************************************************************************)
(* The operational tables of versioned facts (crates/actors/src/           *)
(* operations): one Configuration, the Health of components that come and  *)
(* go, and the Readiness of a fixed set of dependencies.  Facts are        *)
(* delivered in any order, late and repeatedly.                            *)
(***************************************************************************)
EXTENDS Integers, Sequences, SequencesExt, FiniteSetsExt

CONSTANTS Components, Dependencies, Versions

VARIABLES
  state,  \* [table, facts : name -> <<>> or <<version, value>>]
  log     \* name -> version -> the first value told of it

\* What each table says of a name; Removed is health's tombstone.
Values(table) ==
  CASE table = "Configuration" -> {"old", "new"}
    [] table = "Health" -> {"Healthy", "Unhealthy", "Removed"}
    [] table = "Readiness" -> {"Ready", "NotReady"}

Init ==
  \E table \in {"Configuration", "Health", "Readiness"} :
    /\ state = [table |-> table, facts |-> [c \in Components |-> <<>>]]
    /\ log = [c \in Components |-> [v \in Versions |-> "untold"]]

\* Configuration::apply.
Apply(fact, version, value) ==
  IF fact = <<>> \/ version > fact[1] THEN <<version, value>> ELSE fact

\* Health::commit: a removal is a fact with a version like any other.
Commit(fact, version, value) ==
  IF fact = <<>> \/ version > fact[1] THEN <<version, value>> ELSE fact

\* Readiness::observe: only configured dependencies have facts.
ObserveReadiness(name, fact, version, value) ==
  IF name \in Dependencies /\ (fact = <<>> \/ version > fact[1])
  THEN <<version, value>> ELSE fact

\* A stale or conflicting fact is refused and changes nothing.
Tell(name, version, value) ==
  /\ value \in Values(state.table)
  /\ state.table = "Configuration" => name \in Dependencies
  /\ state' = [state EXCEPT !.facts[name] =
       CASE state.table = "Configuration" -> Apply(@, version, value)
         [] state.table = "Health" -> Commit(@, version, value)
         [] state.table = "Readiness" -> ObserveReadiness(name, @, version, value)]
  /\ log' = [log EXCEPT ![name][version] = IF @ = "untold" THEN value ELSE @]

Next ==
  \E name \in Components, version \in Versions :
    \E value \in Values(state.table) : Tell(name, version, value)

Spec == Init /\ [][Next]_<<state, log>>

-----------------------------------------------------------------------------
(* What is reported, and the property *)

\* HealthReport: the present components; overall is the worst of them.
Report == {c \in Components : state.facts[c] # <<>> /\ state.facts[c][2] # "Removed"}

Overall ==
  IF \E c \in Report : state.facts[c][2] = "Unhealthy" THEN "Unhealthy" ELSE "Healthy"

Ready == \A d \in Dependencies : state.facts[d] # <<>> /\ state.facts[d][2] = "Ready"

\* The newest value told of a name: of its highest version, the first.
Newest(name) ==
  LET told == {v \in Versions : log[name][v] # "untold"}
  IN IF told = {} THEN "untold" ELSE log[name][Max(told)]

\* The tables do not depend on the order facts arrive in: health is unhealthy
\* exactly when the newest fact of some component is, a removed component
\* stays away whatever older facts arrive late, readiness means the newest
\* fact of every dependency is Ready, and a configuration is the newest told.
NewestFactWins ==
  /\ state.table = "Health" =>
       /\ Report = {c \in Components : Newest(c) \notin {"untold", "Removed"}}
       /\ (Overall = "Unhealthy") <=> (\E c \in Components : Newest(c) = "Unhealthy")
  /\ state.table = "Readiness" => (Ready <=> (\A d \in Dependencies : Newest(d) = "Ready"))
  /\ state.table = "Configuration" =>
       \A d \in Dependencies : Newest(d) # "untold" => state.facts[d][2] = Newest(d)
=============================================================================
