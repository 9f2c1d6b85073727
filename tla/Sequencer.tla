------------------------------ MODULE Sequencer ------------------------------
(***************************************************************************)
(* The gap-buffering sequencer of routing/sequencer.rs.  Producers retry   *)
(* and race: any sequence may be offered at any time, with any value.      *)
(***************************************************************************)
EXTENDS Naturals, Sequences, FiniteSets, Functions

CONSTANTS
    First,          \* the sequence expected first
    MaxSequence,    \* u64::MAX
    Values

VARIABLES
    expected,   \* Option<Sequence>: MaxSequence + 1 is None
    pending,    \* BTreeMap<Sequence, Pending>
    delivered,  \* history: values handed to the target, in order
    accepted    \* history: the value accepted for each sequence

vars == <<expected, pending, delivered, accepted>>

Offered == 0..MaxSequence
None == MaxSequence + 1

Init ==
    /\ expected = First
    /\ pending = <<>>
    /\ delivered = <<>>
    /\ accepted = <<>>

\* Slip: the loop stops one sequence early.
RunOne(p) == IF expected \in DOMAIN p THEN expected + 1 ELSE expected

\* The first sequence at or after expected that is not pending.
Run(p) == CHOOSE n \in expected..None :
              /\ n \notin DOMAIN p
              /\ \A m \in expected..(n - 1) : m \in DOMAIN p

\* Stale, Duplicate and Exhausted offers go back to the producer.
Accepts(s) == expected # None /\ s >= expected /\ s \notin DOMAIN pending

\* transition: the offer is stored and the contiguous run is released.
Offer(s, v) ==
    IF ~Accepts(s) THEN UNCHANGED vars
    ELSE LET p == [x \in DOMAIN pending \cup {s} |-> IF x = s THEN v ELSE pending[x]]
             next == Run(p)
         IN  /\ expected' = next
             /\ pending' = Restrict(p, {x \in DOMAIN p : x >= next})
             /\ delivered' = delivered \o [i \in 1..(next - expected) |-> p[expected + i - 1]]
             /\ accepted' = IF s \in DOMAIN accepted THEN accepted
                            ELSE [x \in DOMAIN accepted \cup {s} |->
                                     IF x = s THEN v ELSE accepted[x]]

Next == \E s \in Offered, v \in Values : Offer(s, v)

Spec == Init /\ [][Next]_vars

-----------------------------------------------------------------------------
(* Properties.                                                               *)

\* The target sees sequences First, First + 1, ... without gap or repetition,
\* each with the first value accepted for it, whatever order and however often
\* the producers offered them; and what was accepted and not delivered waits for
\* a gap, so nothing is left behind at the end of the sequence domain.
InOrderOnce ==
    /\ expected = First + Len(delivered)
    /\ \A i \in 1..Len(delivered) :
          First + i - 1 \in DOMAIN accepted /\ delivered[i] = accepted[First + i - 1]
    /\ DOMAIN accepted = DOMAIN pending \cup First..(expected - 1)
    /\ expected \notin DOMAIN pending
    /\ expected = None => pending = <<>>
=============================================================================
