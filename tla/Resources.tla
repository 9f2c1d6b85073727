------------------------------ MODULE Resources ------------------------------
(***************************************************************************)
(* The two actors that ration a fixed capacity: the token-bucket           *)
(* RateLimiter (crates/actors/src/routing/rate_limiter.rs) and the         *)
(* least-recently-used Cache (crates/actors/src/persistence/cache.rs).     *)
(***************************************************************************)
EXTENDS Integers, Sequences, SequencesExt, FiniteSetsExt

CONSTANTS
  Capacity,
  Tokens,       \* costs asked for and tokens refilled
  Keys,
  MaxHistory    \* bound on the inputs that change something

VARIABLES
  state,  \* [actor, available] or [actor, entries]
  log     \* what was admitted and refilled, or the keys in order of use

\* The limiter starts with any admissible number of tokens.
Init ==
  \/ \E initial \in 0..Capacity :
       /\ state = [actor |-> "RateLimiter", available |-> initial, entries |-> <<>>]
       /\ log = <<[start |-> initial, delta |-> 0, key |-> "none"]>>
  \/ /\ state = [actor |-> "Cache", available |-> 0, entries |-> <<>>]
     /\ log = <<>>

Use(key, delta) == log' = Append(log, [start |-> 0, delta |-> delta, key |-> key])

-----------------------------------------------------------------------------
(* The rate limiter *)

AcquireVerdict(available, cost) ==
  CASE cost > Capacity -> "ExceedsCapacity"
    [] cost <= Capacity /\ cost > available -> "InsufficientTokens"
    [] OTHER -> "Admitted"

\* A refusal takes nothing.
Acquire(cost) ==
  /\ state.actor = "RateLimiter" /\ Len(log) < MaxHistory
  /\ AcquireVerdict(state.available, cost) = "Admitted"
  /\ state' = [state EXCEPT !.available = @ - cost]
  /\ Use("none", -cost)

Refill(tokens) ==
  /\ state.actor = "RateLimiter" /\ Len(log) < MaxHistory
  /\ state' = [state EXCEPT !.available = Min({@ + tokens, Capacity})]
  /\ Use("none", tokens)

-----------------------------------------------------------------------------
(* The cache: entries from the least to the most recently used *)

Without(entries, key) == SelectSeq(entries, LAMBDA k : k # key)

\* Mutant: a key that is replaced evicts another one from a full cache.
StoredAnew(entries, key) ==
  Append(Without(IF Len(entries) = Capacity THEN Tail(entries) ELSE entries, key), key)

\* Replacing a key frees its place; only a new key evicts.
Stored(entries, key) ==
  LET kept == Without(entries, key)
  IN Append(IF kept = entries /\ Len(kept) = Capacity THEN Tail(kept) ELSE kept, key)

Put(key) ==
  /\ state.actor = "Cache" /\ Len(log) < MaxHistory
  /\ state' = [state EXCEPT !.entries = Stored(@, key)]
  /\ Use(key, 1)

\* A hit makes the entry the most recently used; a miss changes nothing.
Get(key) ==
  /\ state.actor = "Cache" /\ Len(log) < MaxHistory
  /\ Contains(state.entries, key)
  /\ state' = [state EXCEPT !.entries = Append(Without(@, key), key)]
  /\ Use(key, 0)

Evict(key) ==
  /\ state.actor = "Cache" /\ Len(log) < MaxHistory
  /\ Contains(state.entries, key)
  /\ state' = [state EXCEPT !.entries = Without(@, key)]
  /\ Use(key, -1)

Next ==
  \/ \E n \in Tokens : Acquire(n) \/ Refill(n)
  \/ \E key \in Keys : Put(key) \/ Get(key) \/ Evict(key)

Spec == Init /\ [][Next]_<<state, log>>

-----------------------------------------------------------------------------
(* Property *)

\* Sum of what happened after position i.
Since(i) == FoldLeft(LAMBDA sum, e : sum + e.delta, 0, SubSeq(log, i + 1, Len(log)))

LastUse(key) == Max({0} \cup {i \in DOMAIN log : log[i].key = key})

\* The tokens are exactly what the history allows: in no stretch of it were
\* more admitted than the capacity and the refills of that stretch, and none
\* was lost otherwise.  The cache holds the keys used last, oldest first: an
\* absent key was removed, or as many other keys as fit were used after it.
CapacityIsExact ==
  /\ state.actor = "RateLimiter" =>
       state.available = Min({log[1].start + Since(1)} \cup {Capacity + Since(i) : i \in DOMAIN log})
  /\ state.actor = "Cache" =>
       /\ IsInjective(state.entries) /\ Len(state.entries) <= Capacity
       /\ \A i, j \in DOMAIN state.entries :
            i < j => LastUse(state.entries[i]) < LastUse(state.entries[j])
       /\ \A key \in Keys \ Range(state.entries) :
            LET last == LastUse(key) IN
            last > 0 /\ log[last].delta # -1 =>
              Cardinality({log[i].key : i \in (last + 1)..Len(log)}) >= Capacity
=============================================================================
