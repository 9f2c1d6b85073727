----------------------------- MODULE Children -----------------------------
(***************************************************************************)
(* The children of one turn.  A behavior stages its creations as values of *)
(* a closed sum, ChildChoice: a child is Head or behind as many Tails as    *)
(* its place in the sum, and a wrapper appends its own creations to those  *)
(* it wraps by rewriting both.  The host then receives each creation at the *)
(* occurrence its place selects.                                           *)
(*                                                                         *)
(* A sum is [heads, last]: the roles of its Heads, outermost first, and the *)
(* role of a bare child that ends it, or Never.  A place is a count of      *)
(* Tails.  A role is <<part, i>>, the i-th child declared by a part.        *)
(***************************************************************************)
EXTENDS Naturals, Sequences, SequencesExt

CONSTANTS
    MaxChildren,      \* children one part declares
    MaxId             \* the last id of the sequence

VARIABLES state, log

Never == <<0, 0>>

Empty == [heads |-> <<>>, last |-> Never]

Places(node) == node.heads \o (IF node.last = Never THEN <<>> ELSE <<node.last>>)

\* issue: an id is never issued again; the last one exhausts the sequence.
Issue(next) == IF next = MaxId THEN 0 ELSE next + 1

CreateChild(id, role, place) == [id |-> id, child |-> role, place |-> place]

\* stage: a later child is in front of the earlier ones in the sum and behind
\* them in the batch.
Stage(product) ==
  [i \in DOMAIN product |->
     CreateChild(product[i].id, product[i].child, Len(product) - i)]

Choice(product) ==
  [heads |-> Reverse([i \in DOMAIN product |-> product[i].child]), last |-> Never]

-----------------------------------------------------------------------------
(* Appending.                                                               *)

\* The empty sum is the unit; a bare child becomes a Head.
AppendNode(prefix, tail) ==
  CASE prefix = Empty -> tail
    [] tail = Empty -> prefix
    [] OTHER -> [heads |-> Places(prefix) \o tail.heads, last |-> tail.last]

AppendPrefix(node, creation) == creation

AppendTail(node, creation) == [creation EXCEPT !.place = @ + Len(Places(node))]

AppendCreations(prefix, tail) ==
  [node |-> AppendNode(prefix.node, tail.node),
   creations |-> [i \in DOMAIN prefix.creations |-> AppendPrefix(prefix.node, prefix.creations[i])]
              \o [i \in DOMAIN tail.creations |-> AppendTail(prefix.node, tail.creations[i])]]

-----------------------------------------------------------------------------
Init ==
  /\ state = [next |-> 1, product |-> <<>>, parts |-> <<>>, waiting |-> <<>>, node |-> Empty]
  /\ log = [declared |-> <<>>, established |-> <<>>, returned |-> <<>>]

Part == Len(state.parts) + 1

\* Children::create.
Create ==
  /\ Part <= 2 /\ Len(state.product) < MaxChildren /\ state.next # 0
  /\ LET role == <<Part, Len(state.product) + 1>>
     IN /\ state' = [state EXCEPT !.next = Issue(@),
                                  !.product = Append(@, CreateChild(state.next, role, 0))]
        /\ log' = [log EXCEPT !.declared = Append(@, <<state.next, role>>)]

\* into_creates, or the one bare child of a part.
IntoCreates ==
  /\ Part <= 2
  /\ \/ state' = [state EXCEPT !.product = <<>>,
          !.parts = Append(@, [node |-> Choice(state.product), creations |-> Stage(state.product)])]
     \/ /\ Len(state.product) = 1
        /\ state' = [state EXCEPT !.product = <<>>,
             !.parts = Append(@, [node |-> [heads |-> <<>>, last |-> state.product[1].child],
                                  creations |-> state.product])]
  /\ UNCHANGED log

\* The wrapper combines the two products, and the batch is interpreted.
Wrap ==
  /\ Len(state.parts) = 2
  /\ LET whole == AppendCreations(state.parts[1], state.parts[2])
     IN state' = [state EXCEPT !.node = whole.node, !.waiting = whole.creations,
                               !.parts = Append(@, whole)]
  /\ UNCHANGED log

\* dispatch_birth_at: the host establishes the child at its occurrence; one it
\* does not accept comes back at the place it had.
DispatchBirth ==
  /\ state.waiting # <<>>
  /\ LET creation == Head(state.waiting)
     IN /\ state' = [state EXCEPT !.waiting = Tail(@)]
        /\ \E accepted \in BOOLEAN :
             log' = [log EXCEPT
               !.established = Append(@, <<creation.id, Places(state.node)[creation.place + 1]>>),
               !.returned = IF accepted THEN @ ELSE Append(@, creation)]

Next == Create \/ IntoCreates \/ Wrap \/ DispatchBirth

Spec == Init /\ [][Next]_<<state, log>>

\* Every child is established at the role that declared it, under the id it was
\* issued and in declaration order, however the products around it are shaped;
\* and a child that comes back still selects its role (creation.rs).
ChildrenReachTheirRole ==
  /\ log.established = SubSeq(log.declared, 1, Len(log.established))
  /\ \A i \in DOMAIN log.returned :
       Places(state.node)[log.returned[i].place + 1] = log.returned[i].child
  /\ \A i, j \in DOMAIN log.declared : log.declared[i][1] = log.declared[j][1] => i = j
=============================================================================
