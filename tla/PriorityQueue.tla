---------------------------- MODULE PriorityQueue ----------------------------
(***************************************************************************)
(* The stable priority queue of routing/priority_queue.rs.  The values are *)
(* numbered in the order they are accepted.                                *)
(***************************************************************************)
EXTENDS Naturals, FiniteSets

CONSTANTS
    Capacity,
    MaxOrder,       \* u64::MAX, the last insertion token
    Priorities      \* a set of naturals, ordered as P: Ord

VARIABLES
    next,       \* Option<u64>: MaxOrder + 1 is None
    queued,     \* BinaryHeap<Entry>, as a set of entries
    accepted,   \* history: number of values accepted
    released    \* history: values handed to a target

vars == <<next, queued, accepted, released>>

None == MaxOrder + 1

Init == next = 0 /\ queued = {} /\ accepted = 0 /\ released = {}


\* checked_add
Advance == next + 1

\* A full queue and an exhausted token return the offer.
Admits == Cardinality(queued) < Capacity /\ next # None


Offer(priority) ==
    IF ~Admits THEN UNCHANGED vars
    ELSE /\ next' = Advance
         /\ accepted' = accepted + 1
         /\ queued' = queued \cup {[value |-> accepted', priority |-> priority, order |-> next]}
         /\ UNCHANGED released

\* Entry::cmp
Outranks(e, f) ==
    e.priority > f.priority \/ (e.priority = f.priority /\ e.order < f.order)

\* An empty queue replies Empty.
Release ==
    IF queued = {} THEN UNCHANGED vars
    ELSE \E top \in queued :
           /\ \A e \in queued \ {top} : ~Outranks(e, top)
           /\ queued' = queued \ {top}
           /\ released' = released \cup {top.value}
           /\ UNCHANGED <<next, accepted>>

Next == Release \/ \E p \in Priorities : Offer(p)

Spec == Init /\ [][Next]_vars

-----------------------------------------------------------------------------
(* Properties.                                                               *)

\* Every release takes the most urgent value, and among equals the one accepted
\* first, up to the last insertion token.
UrgentThenOldest ==
    \A gone \in queued \ queued', stays \in queued' \cap queued :
       \/ gone.priority > stays.priority
       \/ gone.priority = stays.priority /\ gone.value < stays.value
=============================================================================
