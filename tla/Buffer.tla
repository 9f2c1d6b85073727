------------------------------- MODULE Buffer -------------------------------
(***************************************************************************)
(* The pull buffer of routing/buffer.rs under each of its overflow         *)
(* policies.  The values are numbered in the order they are offered.       *)
(***************************************************************************)
EXTENDS Naturals, Sequences, SequencesExt, FiniteSets

CONSTANTS
    Capacity,
    MaxOffers       \* bound: values offered

OverflowPolicy == {"Reject", "DropOldest", "DropNewest"}

VARIABLES
    overflow,   \* the configured policy
    queued,     \* VecDeque<Buffered>
    offered,    \* history: number of values offered
    released,   \* history: values handed to a target, in order
    returned    \* history: values returned to their producers, in order

vars == <<overflow, queued, offered, released, returned>>

Init ==
    /\ overflow \in OverflowPolicy
    /\ queued = <<>> /\ offered = 0 /\ released = <<>> /\ returned = <<>>

\* The offer at a full queue.
Overflow(value) ==
    IF overflow = "DropOldest"
    THEN queued' = Append(Tail(queued), value) /\ returned' = Append(returned, Head(queued))
    ELSE returned' = Append(returned, value) /\ UNCHANGED queued

Offer ==
    /\ offered < MaxOffers
    /\ offered' = offered + 1
    /\ IF Len(queued) < Capacity
       THEN queued' = Append(queued, offered') /\ UNCHANGED returned
       ELSE Overflow(offered')
    /\ UNCHANGED <<overflow, released>>

\* An empty buffer replies Empty.
Release ==
    IF queued = <<>> THEN UNCHANGED vars
    ELSE /\ released' = Append(released, Head(queued))
         /\ queued' = Tail(queued)
         /\ UNCHANGED <<overflow, offered, returned>>

Next == Offer \/ Release

Spec == Init /\ [][Next]_vars

-----------------------------------------------------------------------------
(* Properties.                                                               *)

\* Every value offered is queued, released or returned to its producer, exactly
\* one of them; values leave in the order they were offered; and DropOldest keeps
\* the newest, so what it queues is the unbroken end of what was offered.
EveryValueAccounted ==
    LET kept == released \o queued
    IN  /\ Len(kept \o returned) = offered /\ ToSet(kept \o returned) = 1..offered
        /\ \A i, j \in 1..Len(kept) : i < j => kept[i] < kept[j]
        /\ overflow = "DropOldest" =>
              queued = [i \in 1..Len(queued) |-> offered - Len(queued) + i]
=============================================================================
