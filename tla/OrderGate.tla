------------------------------ MODULE OrderGate ------------------------------
(***************************************************************************)
(* The watermark gate of routing/order_gate.rs.  An item is one Hold       *)
(* message; several items may carry the same key.                          *)
(***************************************************************************)
EXTENDS Naturals, Sequences, SequencesExt, FiniteSets

CONSTANTS
    Keys,           \* a set of naturals, ordered as K: Ord
    Items,          \* the Hold messages that are sent
    KeyOf(_)        \* the key an item carries

VARIABLES
    watermark,  \* Option<K>: the empty set or a singleton
    held,       \* BTreeMap<K, Held>, as the set of items held
    sent,       \* history: items submitted
    refused,    \* history: items returned as Duplicate
    delivered   \* history: items handed to their targets, in order

vars == <<watermark, held, sent, refused, delivered>>

Init ==
    /\ watermark = {} /\ held = {} /\ sent = {} /\ refused = {}
    /\ delivered = <<>>

Passed(key) == \E w \in watermark : key <= w

\* hold: at or below the watermark an item passes at once; a key already held
\* returns the newcomer.
Hold(item) ==
    /\ item \in Items \ sent
    /\ sent' = sent \cup {item}
    /\ \/ /\ Passed(KeyOf(item))
          /\ delivered' = Append(delivered, item)
          /\ UNCHANGED <<held, refused>>
       \/ /\ ~Passed(KeyOf(item))
          /\ IF \E h \in held : KeyOf(h) = KeyOf(item)
             THEN refused' = refused \cup {item} /\ UNCHANGED held
             ELSE held' = held \cup {item} /\ UNCHANGED refused
          /\ UNCHANGED delivered
    /\ UNCHANGED watermark

\* held.range(..=through)
Released(through) == {h \in held : KeyOf(h) <= through}

\* Slip: the released items are not put in key order.
InKeyOrderNot(S) == SetToSortSeq(S, LAMBDA a, b : KeyOf(a) > KeyOf(b))

InKeyOrder(S) == SetToSortSeq(S, LAMBDA a, b : KeyOf(a) < KeyOf(b))

\* open: an opening at or below the watermark is stale.
OpenThrough(through) ==
    IF Passed(through) THEN UNCHANGED vars
    ELSE /\ delivered' = delivered \o InKeyOrder(Released(through))
         /\ held' = held \ Released(through)
         /\ watermark' = {through}
         /\ UNCHANGED <<sent, refused>>

Next ==
    \/ \E item \in Items : Hold(item)
    \/ \E k \in Keys : OpenThrough(k)

Spec == Init /\ [][Next]_vars

-----------------------------------------------------------------------------
(* Properties.                                                               *)

\* The gate holds exactly what is beyond the watermark, and every submitted item
\* is delivered once, held or returned, never two of them: an item that races
\* with the opening of its key is neither kept for ever nor delivered twice.
GateIsExact ==
    /\ \A i \in 1..Len(delivered) : Passed(KeyOf(delivered[i]))
    /\ \A h \in held : ~Passed(KeyOf(h))
    /\ sent = ToSet(delivered) \cup held \cup refused
    /\ Cardinality(sent) = Len(delivered) + Cardinality(held) + Cardinality(refused)

\* A step: the items one opening releases leave in key order, whatever order
\* they came in.
LeaveInKeyOrder ==
    \A i, j \in (Len(delivered) + 1)..Len(delivered') :
       i < j => KeyOf(delivered'[i]) < KeyOf(delivered'[j])
=============================================================================
