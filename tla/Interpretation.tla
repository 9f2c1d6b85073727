--------------------------- MODULE Interpretation ---------------------------
(***************************************************************************)
(* What happens to the Actions a turn returns.  A host interprets them:     *)
(* the creations first, then the sends, each product lane by lane and each  *)
(* lane item by item, in an async traversal whose future the host may drop  *)
(* at every await.  The settled product is then offered back to the actor   *)
(* that issued it, one source input per round.                              *)
(*                                                                         *)
(* An Actions value is the sequence of its lanes in traversal order: lane 1 *)
(* is the creation product, the last lane is the one a wrapper owns         *)
(* (SendLayer), and the lanes between are the fields of the wrapped         *)
(* behavior's named send product.  A row is "Held" while its input is in    *)
(* custody, then the reply that consumed it; "Lost" is the row with neither.*)
(* Row 1 of a birth lane is the routing of the whole batch.                 *)
(***************************************************************************)
EXTENDS Naturals, Sequences, SequencesExt, ActionItems

CONSTANT Shapes        \* the modelled turns' Actions: the kind and the items of each lane

VARIABLES state, log

vars == <<state, log>>

Births == {"Births", "RetirementBirths"}

Lane(kind, items) ==
  [kind |-> kind, items |-> items, rows |-> [i \in DOMAIN items |-> "Held"],
   progress |-> "Original", source |-> "Original", reply |-> "None",
   rest |-> <<>>]

Has(lane, reply) == \E i \in DOMAIN lane.rows : lane.rows[i] = reply

Answered(row) == row \notin {"Held", "Lost"}

First(lane) ==
  CHOOSE i \in DOMAIN lane.rows :
    /\ ~Answered(lane.rows[i])
    /\ \A j \in 1..(i - 1) : Answered(lane.rows[j])

-----------------------------------------------------------------------------
(* Interpreting one lane up to its next await.                              *)

(* Mutant: the rows behind a corrupt one are waited for.                   *)
FinishRowsRunsOn(lane) ==
  IF lane.progress = "Interpreting" /\ \A i \in DOMAIN lane.rows : Answered(lane.rows[i])
  THEN [lane EXCEPT !.progress = IF Has(lane, "Corrupt") THEN "Corrupt" ELSE "Complete"]
  ELSE lane

\* finish_item_rows: every row up to the first corrupt one is answered and
\* every later one untouched, else the lane stays Interpreting.
FinishRows(lane) ==
  LET corrupt == {i \in DOMAIN lane.rows : lane.rows[i] = "Corrupt"}
      last == IF corrupt = {} THEN Len(lane.rows)
              ELSE CHOOSE i \in corrupt : \A j \in corrupt : i <= j
      complete == \A i \in DOMAIN lane.rows :
                    IF i > last THEN lane.rows[i] = "Held" ELSE Answered(lane.rows[i])
  IN IF lane.progress = "Interpreting" /\ complete
     THEN [lane EXCEPT !.progress = IF corrupt = {} THEN "Complete" ELSE "Corrupt"]
     ELSE lane

Prepare(lane) ==
  IF lane.progress = "Original" THEN [lane EXCEPT !.progress = "Interpreting"] ELSE lane

InterpretItems(lane) == FinishRows(Prepare(lane))

InterpretSourceActions(lane) == FinishRows(Prepare(lane))

InterpretRequests(lane) == FinishRows(Prepare(lane))

InterpretReplies(lane) == FinishRows(Prepare(lane))

InterpretShutdowns(lane) == FinishRows(Prepare(lane))

\* A batch whose routing is refused is complete with no child attempted.
FinishRouting(lane) ==
  IF lane.progress = "Interpreting" /\ lane.rows[1] = "Rejected"
  THEN [lane EXCEPT !.progress = "Complete"]
  ELSE lane

InterpretBirths(lane) == FinishRows(FinishRouting(Prepare(lane)))

Empty(lane) == [lane EXCEPT !.progress = IF @ = "Original" THEN "Complete" ELSE @]

InterpretLane(lane) ==
  CASE lane.kind = "Vec" -> InterpretItems(lane)
    [] lane.kind = "SourceActions" -> InterpretSourceActions(lane)
    [] lane.kind = "InterpreterRequests" -> InterpretRequests(lane)
    [] lane.kind = "ReplyDeliveries" -> InterpretReplies(lane)
    [] lane.kind = "HeterogeneousShutdownSends" -> InterpretShutdowns(lane)
    [] lane.kind \in Births -> InterpretBirths(lane)
    [] OTHER -> Empty(lane)

Unattempted(lane) ==
  [lane EXCEPT !.progress = IF @ = "Original" THEN "Complete" ELSE @]

\* The combined verdict of a product's lanes.
Combined(lanes) ==
  CASE \E i \in DOMAIN lanes : lanes[i].progress \in {"Original", "Interpreting"}
         -> "Interpreting"
    [] \E i \in DOMAIN lanes : lanes[i].progress = "Corrupt" -> "Corrupt"
    [] OTHER -> "Complete"

\* The later product runs only behind a complete one; behind a corrupt one it
\* is returned unattempted, and behind an unfinished one it is left alone.
Behind(earlier, later, interpreted, unattempted) ==
  CASE Combined(earlier) = "Complete" -> interpreted
    [] Combined(earlier) = "Corrupt" -> unattempted
    [] OTHER -> later

UnattemptedLanes(lanes) == [i \in DOMAIN lanes |-> Unattempted(lanes[i])]

InterpretNamed(lanes) ==
  FoldLeft(LAMBDA done, lane :
             Append(done, Behind(done, lane, InterpretLane(lane), Unattempted(lane))),
           <<>>, lanes)

InterpretLayer(lanes) ==
  LET inner == InterpretNamed(Front(lanes))
      last == Last(lanes)
  IN Append(inner, Behind(inner, last, InterpretLane(last), Unattempted(last)))

(* Mutant: the sends are interpreted before the creations.                 *)
InterpretSendsFirst(lanes) ==
  LET sends == InterpretLayer(Tail(lanes))
      births == Head(lanes)
  IN <<Behind(sends, births, InterpretLane(births), Unattempted(births))>> \o sends

InterpretActions(lanes) ==
  LET creations == <<InterpretLane(Head(lanes))>>
      sends == Tail(lanes)
  IN creations \o Behind(creations, sends, InterpretLayer(sends), UnattemptedLanes(sends))

\* The status projection of a settled lane and of the whole settlement.
Classify(lane) ==
  CASE lane.kind \in Births /\ lane.rows[1] # "Accepted" -> lane.rows[1]
    [] Has(lane, "Corrupt") \/ Has(lane, "Held") -> "Corrupt"
    [] Has(lane, "Rejected") \/ Has(lane, "Blocked") -> "Rejected"
    [] OTHER -> "Accepted"

Combine(earlier, later) ==
  IF "Corrupt" \in {earlier, later} THEN "Corrupt"
  ELSE IF "Rejected" \in {earlier, later} THEN "Rejected" ELSE "Accepted"

Status(lanes) ==
  FoldLeft(LAMBDA status, lane : Combine(status, Classify(lane)), "Accepted", lanes)

-----------------------------------------------------------------------------
(* Offering the settled product to its source.                              *)

\* The indexes of the rows a settled lane returns; a birth batch is one
\* source input, absent when it settled with no child.
Settlements(lane) ==
  IF lane.kind \in Births
  THEN IF lane.rows = <<"Accepted">> THEN <<>> ELSE <<1>>
  ELSE [i \in DOMAIN lane.rows |-> i]

OfferRows(lane) ==
  [lane EXCEPT !.source = IF lane.rest = <<>> THEN "Exhausted" ELSE "Offering"]

OfferBatch(lane) ==
  [lane EXCEPT !.source = IF lane.rest = <<>> THEN "Exhausted" ELSE "Offering"]

RetainBatch(lane) ==
  [lane EXCEPT !.source = IF lane.rest = <<>> THEN "Exhausted" ELSE "Retained"]

\* An accepted row is discharged, unless its receipt is one that is kept.
RetainRows(lane) ==
  LET kept == SelectSeq(lane.rest, LAMBDA i : lane.rows[i] # "Accepted")
  IN [lane EXCEPT !.rest = kept,
                  !.source = IF kept = <<>> THEN "Exhausted" ELSE "Retained"]

RetainReplies(lane) == RetainRows(lane)

ExhaustShutdowns(lane) == [lane EXCEPT !.source = "Exhausted"]

ExhaustNoSends(lane) == [lane EXCEPT !.source = "Exhausted"]

PrepareSource(lane) ==
  CASE lane.source # "Original" -> lane
    [] lane.kind = "SourceActions" -> OfferRows(lane)
    [] lane.kind = "Births" -> OfferBatch(lane)
    [] lane.kind = "RetirementBirths" -> RetainBatch(lane)
    [] lane.kind \in {"Vec", "InterpreterRequests"} -> RetainRows(lane)
    [] lane.kind = "ReplyDeliveries" -> RetainReplies(lane)
    [] lane.kind = "HeterogeneousShutdownSends" -> ExhaustShutdowns(lane)
    [] OTHER -> ExhaustNoSends(lane)

(* Mutant: an input the source refused is dropped.                         *)
FinishOfferForgetful(lane) ==
  CASE lane.source = "Offering" /\ lane.reply = "Ok" ->
         [lane EXCEPT !.source = "Admitted", !.rest = Tail(@)]
    [] lane.source = "Offering" /\ lane.reply = "Err" ->
         [lane EXCEPT !.source = "Closed", !.rest = Tail(@)]
    [] OTHER -> lane

\* A refused input comes back in front of the untouched suffix.
FinishOffer(lane) ==
  CASE lane.source = "Offering" /\ lane.reply = "Ok" ->
         [lane EXCEPT !.source = "Admitted", !.rest = Tail(@)]
    [] lane.source = "Offering" /\ lane.reply = "Err" ->
         [lane EXCEPT !.source = "Closed"]
    [] OTHER -> lane

\* offer_source_in_order: the later product is offered only when the earlier
\* one has nothing (left) for its source.
OfferInOrder(lanes) ==
  FoldLeft(LAMBDA done, lane :
             Append(done, IF \A i \in DOMAIN done :
                               done[i].source \in {"Exhausted", "Retained"}
                          THEN FinishOffer(PrepareSource(lane)) ELSE lane),
           <<>>, lanes)

FinishPair(earlier, later) ==
  CASE earlier \in {"Admitted", "Closed"} /\ later = "Original" -> earlier
    [] earlier = "Exhausted" /\ later # "Original" -> later
    [] earlier = "Retained" /\ later # "Original" ->
         IF later = "Exhausted" THEN "Retained" ELSE later
    [] OTHER -> earlier

FinishSource(lanes) ==
  FoldRight(LAMBDA lane, later : FinishPair(lane.source, later),
            Front(lanes), Last(lanes).source)

-----------------------------------------------------------------------------
Init ==
  /\ \E shape \in Shapes :
       state = [lanes |-> [i \in DOMAIN shape |-> Lane(shape[i][1], shape[i][2])],
                stage |-> "Interpreting", future |-> "None", verdict |-> "None"]
  /\ log = [attempts |-> <<>>, admitted |-> <<>>]

Lost == \E i \in DOMAIN state.lanes : Has(state.lanes[i], "Lost")

\* Entering the traversal, or polling it on after a reply: it runs to its next
\* await, or to its end.  Over a lost row it returns without a verdict.
Interpret ==
  /\ state.stage = "Interpreting" /\ state.future \in {"None", "Ready"} /\ ~Lost
  /\ \E lanes \in {InterpretActions(state.lanes)} :
       IF Combined(lanes) = "Interpreting"
       THEN state' = [state EXCEPT !.lanes = lanes, !.future = "Pending"]
       ELSE state' = [state EXCEPT
              !.lanes = [i \in DOMAIN lanes |->
                           [lanes[i] EXCEPT !.rest = Settlements(lanes[i])]],
              !.future = "None", !.stage = "Offering"]
  /\ UNCHANGED log

Current ==
  CHOOSE i \in DOMAIN state.lanes : state.lanes[i].progress = "Interpreting"

\* The host answers the loaned item.  An item that names a creation of the same
\* Actions is blocked exactly when that creation is not committed.
HostReplies(entry) ==
  IF entry.creation # 0 /\ state.lanes[1].rows[entry.creation] # "Accepted"
  THEN {"Blocked", "Corrupt"}
  ELSE Replies(entry.item) \ {"Blocked"}

Settle ==
  /\ state.stage = "Interpreting" /\ state.future = "Pending"
  /\ \E l \in {Current} : \E row \in {First(state.lanes[l])} :
       \E reply \in HostReplies(state.lanes[l].items[row]) :
         /\ state' = [state EXCEPT !.lanes[l].rows[row] = reply, !.future = "Ready"]
         /\ log' = [log EXCEPT !.attempts = Append(@, <<l, row>>)]

\* The future is dropped.  Custody is outside it, except for a child whose
\* request settle_child took before it awaited dispatch_birth.
Cancel ==
  /\ state.future \in {"Pending", "Ready"}
  /\ LET l == Current
         row == First(state.lanes[l])
     IN state' = IF /\ state.stage = "Interpreting" /\ state.future = "Pending"
                    /\ state.lanes[l].kind \in Births /\ row > 1
                 THEN [state EXCEPT !.future = "None", !.lanes[l].rows[row] = "Lost"]
                 ELSE [state EXCEPT !.future = "None"]
  /\ UNCHANGED log

\* One round: offer at most one input, and start the next round over the
\* residual once it is admitted.
Offer ==
  /\ state.stage = "Offering" /\ state.future \in {"None", "Ready"}
  /\ \E lanes \in {OfferInOrder(state.lanes)} : \E verdict \in {FinishSource(lanes)} :
       state' =
         CASE verdict = "Offering" ->
                [state EXCEPT !.lanes = lanes, !.future = "Pending"]
           [] verdict = "Admitted" ->
                [state EXCEPT !.future = "None",
                   !.lanes = [i \in DOMAIN lanes |->
                     [lanes[i] EXCEPT !.source = "Original", !.reply = "None"]]]
           [] OTHER ->
                [state EXCEPT !.lanes = lanes, !.future = "None",
                              !.stage = "Done", !.verdict = verdict]
  /\ UNCHANGED log

\* The host admits the offered input to the actor's mailbox, or is closed.
Admit ==
  /\ state.stage = "Offering" /\ state.future = "Pending"
  /\ \E l \in DOMAIN state.lanes :
       /\ state.lanes[l].source = "Offering"
       /\ \/ /\ state' = [state EXCEPT !.lanes[l].reply = "Ok", !.future = "Ready"]
             /\ log' = [log EXCEPT
                  !.admitted = Append(@, <<l, Head(state.lanes[l].rest)>>)]
          \/ /\ state' = [state EXCEPT !.lanes[l].reply = "Err", !.future = "Ready"]
             /\ UNCHANGED log

Next == Interpret \/ Settle \/ Cancel \/ Offer \/ Admit

Spec == Init /\ [][Next]_vars

-----------------------------------------------------------------------------
Before(p, q) == p[1] < q[1] \/ (p[1] = q[1] /\ p[2] < q[2])

Ordered(places) ==
  \A i, j \in DOMAIN places : i < j => Before(places[i], places[j])

Row(place) == state.lanes[place[1]].rows[place[2]]

Places == UNION {{l} \X DOMAIN state.lanes[l].rows : l \in DOMAIN state.lanes}

\* Whatever awaits the traversal is dropped at and however often it is entered
\* again: items are attempted in the order of the product, each at most once,
\* none after a corruption; a finished traversal leaves only the rows behind a
\* corruption (or the children of an unrouted batch) unattempted, and its
\* verdict is Corrupt exactly when the settlement's status is (sending.rs).  A
\* traversal that lost a child in settle_child never finishes.
InterpretedInOrder ==
  /\ Ordered(log.attempts)
  /\ \A i \in 1..(Len(log.attempts) - 1) : Row(log.attempts[i]) # "Corrupt"
  /\ state.stage # "Interpreting" =>
       /\ \A p \in Places : Row(p) = "Held" =>
            \/ \E q \in Places : Before(q, p) /\ Row(q) = "Corrupt"
            \/ p[1] = 1 /\ state.lanes[1].rows[1] = "Rejected"
       /\ Combined(state.lanes) = "Corrupt" <=> Status(state.lanes) = "Corrupt"

\* An item blocked by a creation of its own Actions names one that did not and
\* will not commit: creations are resolved before any send is attempted.
BlockedOnlyByFailure ==
  \A l \in DOMAIN state.lanes : \A i \in DOMAIN state.lanes[l].rows :
    state.lanes[l].rows[i] = "Blocked" =>
      LET creation == state.lanes[1].rows[state.lanes[l].items[i].creation]
      IN \/ creation \notin {"Accepted", "Held"}
         \/ creation = "Held" /\ state.lanes[1].progress \in {"Complete", "Corrupt"}

\* Every settlement of a source action reaches the actor that issued it, in
\* order and once, or is still in the residual when admission closes; and what
\* was not accepted is retained, except in a lane of heterogeneous shutdowns,
\* whose settlements always count as exhausted.
SettlementsReachSource ==
  /\ Ordered(log.admitted)
  /\ state.stage # "Interpreting" =>
       \A l \in DOMAIN state.lanes :
         LET lane == state.lanes[l]
             rest == ToSet(IF lane.reply = "Ok" /\ lane.source = "Offering"
                           THEN Tail(lane.rest) ELSE lane.rest)
             admitted == {p[2] : p \in {q \in ToSet(log.admitted) : q[1] = l}}
         IN IF lane.kind \in {"SourceActions", "Births"}
            THEN /\ rest \cup admitted = ToSet(Settlements(lane))
                 /\ rest \cap admitted = {}
                 /\ state.stage = "Done" /\ state.verdict # "Closed" => rest = {}
            ELSE /\ admitted = {}
                 /\ \A i \in ToSet(Settlements(lane)) :
                      lane.rows[i] # "Accepted" => i \in rest
                 /\ state.verdict = "Exhausted" =>
                      rest = {} \/ lane.kind = "HeterogeneousShutdownSends"
=============================================================================
