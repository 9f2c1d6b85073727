---------------------------- MODULE Deduplicator ----------------------------
(***************************************************************************)
(* The bounded-memory deduplicator of routing/deduplicator.rs.             *)
(***************************************************************************)
EXTENDS Naturals, Sequences, SequencesExt

CONSTANTS
    Capacity,
    Keys,
    MaxDeliveries    \* bound: deliveries explored

VARIABLES
    retained,   \* VecDeque<K>
    log         \* history: keys delivered, in order

vars == <<retained, log>>

Init == retained = <<>> /\ log = <<>>

Room == IF Len(retained) = Capacity THEN Tail(retained) ELSE retained

\* transition: a retained key is returned as Duplicate.
Deliver(key) ==
    IF Contains(retained, key) THEN UNCHANGED vars
    ELSE /\ Len(log) < MaxDeliveries
         /\ retained' = Append(Room, key)
         /\ log' = Append(log, key)

Next == \E k \in Keys : Deliver(k)

Spec == Init /\ [][Next]_vars

-----------------------------------------------------------------------------
(* Properties.                                                               *)

\* A key is delivered again only after Capacity other deliveries, and a key is
\* remembered no longer than that: a duplicate inside the window never passes and
\* a key outside it is never refused.
WindowHolds ==
    /\ \A i, j \in 1..Len(log) : i < j /\ log[i] = log[j] => j - i > Capacity
    /\ retained = SubSeq(log, IF Len(log) > Capacity THEN Len(log) - Capacity + 1 ELSE 1,
                         Len(log))
=============================================================================
