---------------------------- MODULE FifoPoolGuard ----------------------------
(***************************************************************************)
(* The FIFO pool and the runtime around it: every action of the two keeps  *)
(* the workers and their source in the custody that FifoPoolCustody        *)
(* defines, and that custody implies what the pool promises, for any       *)
(* roster and any policies.                                                *)
(***************************************************************************)
EXTENDS FifoPoolEvents

-----------------------------------------------------------------------------
(* Custody across the actions of the runtime.                                *)

\* The requests P are those of Q as far as creations and the source go, but for
\* what the runtime itself owes.
Frames(Q, P) ==
    /\ \A t \in P : t \in Q \/ t.op \in {"ready", "elapse", "notice", "exit"}
    /\ \A t \in Q : t.op \in {"create", "prepare", "prepared"} => t \in P

\* Settlements of other requests, and exits, leave the custody to the pool.
LEMMA FramesKept ==
    ASSUME NEW p, NEW q, NEW O, NEW P, NEW U, NEW V, NEW G, NEW H, Custody(p, O, U, G),
           q \in Wide, q.member = p.member, q.source = p.source, q.sent = {},
           P \subseteq Requests, V \subseteq U, G \subseteq H, Frames(O \cup p.sent, P)
    PROVE  Custody(q, P, V, H)
<1> DEFINE Q == O \cup p.sent
<1>0. /\ Followed(p, U) /\ Awaited(p, Q, G) /\ Lent(p, Q) /\ Formed(Q, p.sent)
      /\ Q \in SUBSET Requests /\ Frames(Q, P) /\ P \cup q.sent = P /\ V \in SUBSET U
  BY DEF Custody, Wide
<1> HIDE DEF Q
<1>1. \A r \in Roles : Keeps(p.member[r], q.member[r], WorkerOf(p, r), V, H)
  <2>1. ASSUME NEW r \in Roles PROVE Steady(p.member[r], p.member[r], WorkerOf(p, r), U, G)
    BY Zenon, SteadySame
  <2>2. ASSUME NEW r \in Roles PROVE Keeps(p.member[r], p.member[r], WorkerOf(p, r), V, H)
    <3>1. Keeps(p.member[r], p.member[r], WorkerOf(p, r), U, G)
      BY <2>1 DEF Steady
    <3>2. QED BY <3>1 DEF Keeps
  <2>3. QED BY Zenon, <2>2
<1>2. Followed(q, V)
  BY Zenon, <1>0, <1>1, FollowedKept
<1>3. Awaited(q, P, H)
  <2>1. \A t \in P : t.op = "create" => t \in Q
    BY <1>0 DEF Frames
  <2>2. QED BY Zenon, <1>0, <1>1, <2>1, AwaitedKept
<1>4. Lent(q, P)
  <2>1. \A t \in P : t.op \in {"prepare", "prepared"} => t \in Q
    BY <1>0 DEF Frames
  <2>2. \A r \in Roles : Loan(q, r) = Loan(p, r)
    BY DEF Loan, WorkerOf
  <2>3. \A r \in Roles : Loan(p, r) \in Q => Loan(p, r) \in P
    <3>1. \A r : Loan(p, r).op \in {"prepare", "prepared"}
      BY DEF Loan, Req
    <3>2. QED BY <1>0, <3>1 DEF Frames
  <2>4. QED BY Zenon, <1>0, <2>1, <2>2, <2>3 DEF Lent
<1>5. Formed(P \cup q.sent, q.sent)
  BY <1>0 DEF Formed, Frames
<1>6. QED BY <1>0, <1>2, <1>3, <1>4, <1>5 DEF Custody

\* The same of what a fold may leave behind.
LEMMA FramesFine ==
    ASSUME NEW p, NEW q, NEW O, NEW P, NEW U, NEW V, NEW G, NEW H, Fine(p, O, U, G),
           q \in Wide, q.member = p.member, q.source = p.source, q.sent = {}, q.mode = p.mode,
           P \subseteq Requests, V \subseteq U, G \subseteq H, Frames(O \cup p.sent, P)
    PROVE  Fine(q, P, V, H)
<1>1. Custody(p, O, U, G)
  BY DEF Fine, Run, Over
<1>2. Custody(q, P, V, H)
  BY <1>1, FramesKept
<1>3. QED BY <1>2 DEF Fine, Run, Over, Claimed

-----------------------------------------------------------------------------
(* The pool and its runtime.                                                 *)

\* A pool that takes events, between two of them.
Ready(p, O, U, G) ==
    Fine(p, O, U, G) /\ p.mode \notin {"Stopped", "ForcedRetirement"} /\ p.sent = {}

\* Such a pool operates or drains.
LEMMA ReadyModes ==
    ASSUME NEW p, NEW O, NEW U, NEW G, Ready(p, O, U, G)
    PROVE  /\ Custody(p, O, U, G) /\ p.sent = {} /\ p \in Wide
           /\ \/ p.mode = "Operating" /\ Run(p, O, U, G) /\ Claimed(p)
              \/ p.mode # "Operating" /\ Winding(p, O, U, G)
<1>1. Custody(p, O, U, G) /\ p \in Wide
  BY DEF Ready, Fine, Run, Over, Custody
<1>2. p.mode \in {"Operating", "Draining", "Stopped", "ForcedRetirement"}
  BY <1>1 DEF Wide
<1>3. QED BY <1>1, <1>2 DEF Ready, Fine, Run, Over, Winding

\* The exits the runtime owes are of running workers, the notices of gone ones.
Extern(P, U, G) ==
    \A q \in P : /\ q.op = "exit" => \E w \in U : q = Req("exit", {w}, 0)
                 /\ q.op = "notice" => q.of \subseteq G

\* The invariant that holds the custody together.
Guarded ==
    /\ Fine(pool, owed, up, gone) /\ pool.sent = {} /\ Extern(owed, up, gone)
    /\ up \cap gone = {} /\ clock \in Nat /\ submitted \in 0 .. NJobs
    /\ \A c \in work : c[1] \in Workers

\* An initialization and a shutdown address one worker.
LEMMA Addressed ==
    ASSUME NEW Q, NEW S, Formed(Q, S), NEW q \in Q, q.op \in {"initialize", "shutdown"}
    PROVE  \E w \in Workers : q.of = {w}
BY DEF Formed

\* The runtime takes over what a fold has sent.
LEMMA CustodyTaken ==
    ASSUME NEW e, NEW answered, NEW completed, NEW extra,
           Runtime!Take(e, answered, completed, extra), NEW P, P = (owed \ answered) \cup extra,
           Fine(Transition(pool, e), P, up', gone'), Extern(P, up', gone'),
           up' \cap gone' = {}, clock' \in Nat, submitted' \in 0 .. NJobs,
           \A c \in work : c[1] \in Workers
    PROVE  Guarded'
<1> DEFINE x == Transition(pool, e)
           y == [x EXCEPT !.sent = {}]
           E == {Req("exit", q.of, 0) :
                   q \in {s \in x.sent : s.op = "shutdown" /\ s.of \subseteq up'}}
           W == UNION {{<<w, q.job>> : w \in q.of \cap up'} :
                          q \in {s \in x.sent : s.op = "assign"}}
           Q == P \cup x.sent \cup E
<1>1. /\ pool' = y /\ owed' = (owed \ answered) \cup x.sent \cup extra \cup E
      /\ work' = (work \ completed) \cup W
  BY DEF Runtime!Take, Runtime!Req, Req
<1>2. owed' = Q
  BY <1>1
<1>3. /\ x \in Wide /\ x.sent \subseteq Requests /\ P \subseteq Requests
      /\ Formed(P \cup x.sent, x.sent)
  BY DEF Fine, Run, Over, Custody, Wide
<1> HIDE DEF x
<1>4. /\ y \in Wide /\ y.member = x.member /\ y.source = x.source /\ y.sent = {}
      /\ y.mode = x.mode
  BY Zenon, <1>3 DEF Wide
<1> HIDE DEF y
<1>5. ASSUME NEW t \in E
      PROVE  t \in Requests /\ t.op = "exit" /\ \E w \in up' : t = Req("exit", {w}, 0)
  <2>1. PICK q \in x.sent : q.op = "shutdown" /\ q.of \subseteq up' /\ t = Req("exit", q.of, 0)
    BY DEF E
  <2>2. q \in Requests /\ q \in P \cup x.sent /\ q.op \in {"initialize", "shutdown"}
    BY <1>3, <2>1
  <2>3. PICK w \in Workers : q.of = {w}
    BY Zenon, <1>3, <2>2, Addressed
  <2>4. w \in up' /\ t = Req("exit", {w}, 0)
    BY <2>1, <2>3
  <2>5. t \in Requests /\ t.op = "exit"
    BY <2>3, <2>4, PoolAssumption DEF Req, Requests, Ops
  <2>6. QED BY Zenon, <2>4, <2>5
<1> HIDE DEF E
<1>6. Q \subseteq Requests
  BY <1>3, <1>5
<1>7. Frames(P \cup x.sent, Q)
  BY <1>5 DEF Frames
<1>8. Extern(Q, up', gone')
  <2>1. \A t \in x.sent : t.op \notin {"exit", "notice"}
    BY <1>3 DEF Formed
  <2>2. QED BY Zenon, <1>5, <2>1 DEF Extern
<1>9. \A c \in work' : c[1] \in Workers
  <2>1. ASSUME NEW c \in W PROVE c[1] \in Workers
    <3>1. PICK q \in x.sent : c \in {<<w, q.job>> : w \in q.of \cap up'}
      BY DEF W
    <3>2. PICK w \in q.of : c = <<w, q.job>>
      BY <3>1
    <3>3. QED BY <1>3, <3>2 DEF Requests
  <2>2. QED BY <1>1, <2>1
<1> HIDE DEF Q
<1>10. Fine(y, Q, up', gone')
  <2>1. Fine(x, P, up', gone')
    BY DEF x
  <2>2. up' \subseteq up' /\ gone' \subseteq gone'
    OBVIOUS
  <2>3. QED BY Zenon, <1>4, <1>6, <1>7, <2>1, <2>2, FramesFine
<1>11. QED BY Zenon, <1>1, <1>2, <1>4, <1>8, <1>9, <1>10 DEF Guarded

\* Before a fold that is about neither creations nor the source.
LEMMA Framed ==
    ASSUME Guarded, pool.mode \notin {"Stopped", "ForcedRetirement"}, NEW P, NEW V, NEW H,
           P \subseteq Requests, V \subseteq up, gone \subseteq H, Frames(owed, P)
    PROVE  Ready(pool, P, V, H)
<1>1. /\ Fine(pool, owed, up, gone) /\ pool.sent = {} /\ pool \in Wide
  BY DEF Guarded, Fine, Run, Over, Custody
<1>2. Frames(owed \cup pool.sent, P)
  BY <1>1
<1>3. Fine(pool, P, V, H)
  BY <1>1, <1>2, FramesFine
<1>4. QED BY <1>1, <1>3 DEF Ready

-----------------------------------------------------------------------------
(* One event in either mode.                                                 *)

\* A fold that changes nothing.
LEMMA Unmoved ==
    ASSUME NEW p, NEW O, NEW U, NEW G, Ready(p, O, U, G)
    PROVE  Fine(p, O, U, G)
BY DEF Ready

\* A submission that is refused.
LEMMA DrainSubmitOver ==
    ASSUME NEW p, NEW O, NEW U, NEW G, Winding(p, O, U, G), NEW j
    PROVE  Fine(Deliver(p, j, "Rejected"), O, U, G)
<1>1. p \in Wide /\ "Rejected" \in Words
  BY DEF Winding, Custody, Words
<1>2. Same(p, Deliver(p, j, "Rejected"))
  BY Zenon, <1>1, SameUpdates
<1>3. QED BY Zenon, <1>2, SameOver DEF Fine, Over, Winding

\* A submission.
LEMMA FoldSubmit ==
    ASSUME Counting, NEW p, NEW O, NEW U, NEW G, Ready(p, O, U, G), NEW j \in 0 .. NJobs
    PROVE  Fine(Transition(p, [type |-> "Submit", job |-> j]), O, U, G)
<1> DEFINE e == [type |-> "Submit", job |-> j]
<1>1. Transition(p, e) = IF p.mode = "Operating" THEN AcceptSubmission(p, j) ELSE Deliver(p, j, "Rejected")
  BY DEF Transition, Operate, Drain
<1> HIDE DEF e
<1>2. /\ p.mode = "Operating" => Run(p, O, U, G) /\ Claimed(p)
      /\ p.mode # "Operating" => Winding(p, O, U, G)
  BY ReadyModes
<1>3. p.mode = "Operating" => Fine(AcceptSubmission(p, j), O, U, G)
  BY <1>2, SubmissionOn
<1>4. p.mode # "Operating" => Fine(Deliver(p, j, "Rejected"), O, U, G)
  BY <1>2, DrainSubmitOver
<1>5. QED BY <1>1, <1>3, <1>4 DEF e

\* The report of an initialization.
LEMMA FoldInitialization ==
    ASSUME Counting, NEW p, NEW O, NEW U, NEW G, Ready(p, O, U, G), NEW w \in Workers,
           NEW report, NEW kind \in Stops, NEW now \in Nat, report = "Stopped" => w \notin U
    PROVE  Fine(Transition(p, [type |-> "WorkerInitialization", worker |-> w, report |-> report,
                                kind |-> kind, now |-> now]), O, U, G)
<1> DEFINE e == [type |-> "WorkerInitialization", worker |-> w, report |-> report,
                                kind |-> kind, now |-> now]
<1>1. Transition(p, e) = IF p.mode = "Operating" THEN AcceptInitialization(p, w, report, kind, now) ELSE AcceptDrainInitialization(p, w, report)
  BY DEF Transition, Operate, Drain
<1> HIDE DEF e
<1>2. /\ p.mode = "Operating" => Run(p, O, U, G) /\ Claimed(p)
      /\ p.mode # "Operating" => Winding(p, O, U, G)
  BY ReadyModes
<1>3. p.mode = "Operating" => Fine(AcceptInitialization(p, w, report, kind, now), O, U, G)
  BY <1>2, InitializationOn
<1>4. p.mode # "Operating" => Fine(AcceptDrainInitialization(p, w, report), O, U, G)
  BY <1>2, DrainInitializationOver
<1>5. QED BY <1>1, <1>3, <1>4 DEF e

\* The report of a startup.
LEMMA FoldStartup ==
    ASSUME Counting, NEW p, NEW O, NEW U, NEW G, Ready(p, O, U, G), NEW w \in Workers, NEW report
    PROVE  Fine(Transition(p, [type |-> "WorkerStartup", worker |-> w, report |-> report]), O, U, G)
<1> DEFINE e == [type |-> "WorkerStartup", worker |-> w, report |-> report]
<1>1. Transition(p, e) = IF p.mode = "Operating" THEN AcceptStartup(p, w, report) ELSE AcceptDrainStartup(p, w, report)
  BY DEF Transition, Operate, Drain
<1> HIDE DEF e
<1>2. /\ p.mode = "Operating" => Run(p, O, U, G) /\ Claimed(p)
      /\ p.mode # "Operating" => Winding(p, O, U, G)
  BY ReadyModes
<1>3. p.mode = "Operating" => Fine(AcceptStartup(p, w, report), O, U, G)
  BY <1>2, StartupOn
<1>4. p.mode # "Operating" => Fine(AcceptDrainStartup(p, w, report), O, U, G)
  BY <1>2, DrainStartupOver
<1>5. QED BY <1>1, <1>3, <1>4 DEF e

\* The exit of a worker.
LEMMA FoldStop ==
    ASSUME Counting, NEW p, NEW O, NEW U, NEW G, Ready(p, O, U, G), NEW w \in Workers,
           w \notin U, w \in G, NEW kind \in Stops, NEW now \in Nat
    PROVE  Fine(Transition(p, [type |-> "WorkerStopped", worker |-> w, kind |-> kind, now |-> now]), O, U, G)
<1> DEFINE e == [type |-> "WorkerStopped", worker |-> w, kind |-> kind, now |-> now]
<1>1. Transition(p, e) = IF p.mode = "Operating" THEN AcceptWorkerStop(p, w, kind, now) ELSE AcceptDrainStop(p, w, kind)
  BY DEF Transition, Operate, Drain
<1> HIDE DEF e
<1>2. /\ p.mode = "Operating" => Run(p, O, U, G) /\ Claimed(p)
      /\ p.mode # "Operating" => Winding(p, O, U, G)
  BY ReadyModes
<1>3. p.mode = "Operating" => Fine(AcceptWorkerStop(p, w, kind, now), O, U, G)
  BY <1>2, WorkerStopOn
<1>4. p.mode # "Operating" => Fine(AcceptDrainStop(p, w, kind), O, U, G)
  BY <1>2, DrainStopOver
<1>5. QED BY <1>1, <1>3, <1>4 DEF e

\* The settlement of a shutdown request.
LEMMA FoldShutdown ==
    ASSUME Counting, NEW p, NEW O, NEW U, NEW G, Ready(p, O, U, G), NEW w \in Workers
    PROVE  Fine(Transition(p, [type |-> "WorkerShutdownSettled", worker |-> w]), O, U, G)
<1> DEFINE e == [type |-> "WorkerShutdownSettled", worker |-> w]
<1>1. Transition(p, e) = IF p.mode = "Operating" THEN AcceptWorkerShutdown(p, w) ELSE AcceptDrainShutdown(p, w)
  BY DEF Transition, Operate, Drain
<1> HIDE DEF e
<1>2. /\ p.mode = "Operating" => Run(p, O, U, G) /\ Claimed(p)
      /\ p.mode # "Operating" => Winding(p, O, U, G)
  BY ReadyModes
<1>3. p.mode = "Operating" => Fine(AcceptWorkerShutdown(p, w), O, U, G)
  BY <1>2, SettledOn
<1>4. p.mode # "Operating" => Fine(AcceptDrainShutdown(p, w), O, U, G)
  BY <1>2, DrainShutdownOver
<1>5. QED BY <1>1, <1>3, <1>4 DEF e

\* The completion of an assignment.
LEMMA FoldCompletion ==
    ASSUME Counting, NEW p, NEW O, NEW U, NEW G, Ready(p, O, U, G), NEW w \in Workers, NEW j
    PROVE  Fine(Transition(p, [type |-> "WorkerCompleted", worker |-> w, job |-> j]), O, U, G)
<1> DEFINE e == [type |-> "WorkerCompleted", worker |-> w, job |-> j]
<1>1. Transition(p, e) = IF p.mode = "Operating" THEN AcceptCompletion(p, w, j) ELSE p
  BY DEF Transition, Operate, Drain
<1> HIDE DEF e
<1>2. /\ p.mode = "Operating" => Run(p, O, U, G) /\ Claimed(p)
      /\ p.mode # "Operating" => Winding(p, O, U, G)
  BY ReadyModes
<1>3. p.mode = "Operating" => Fine(AcceptCompletion(p, w, j), O, U, G)
  BY <1>2, CompletionOn
<1>4. p.mode # "Operating" => Fine(p, O, U, G)
  BY <1>2, Unmoved
<1>5. QED BY <1>1, <1>3, <1>4 DEF e

\* The receipt of an assignment.
LEMMA FoldAccepted ==
    ASSUME Counting, NEW p, NEW O, NEW U, NEW G, Ready(p, O, U, G), NEW w \in Workers, NEW j
    PROVE  Fine(Transition(p, [type |-> "AssignmentSettled", worker |-> w, job |-> j,
                                result |-> "Accepted"]), O, U, G)
<1> DEFINE e == [type |-> "AssignmentSettled", worker |-> w, job |-> j,
                                result |-> "Accepted"]
<1>1. Transition(p, e) = IF p.mode = "Operating" THEN AcceptAssignmentReceipt(p, w, j) ELSE p
  BY DEF Transition, Operate, Drain
<1> HIDE DEF e
<1>2. /\ p.mode = "Operating" => Run(p, O, U, G) /\ Claimed(p)
      /\ p.mode # "Operating" => Winding(p, O, U, G)
  BY ReadyModes
<1>3. p.mode = "Operating" => Fine(AcceptAssignmentReceipt(p, w, j), O, U, G)
  BY <1>2, ReceiptOn
<1>4. p.mode # "Operating" => Fine(p, O, U, G)
  BY <1>2, Unmoved
<1>5. QED BY <1>1, <1>3, <1>4 DEF e

\* The refusal of an assignment.
LEMMA FoldRejected ==
    ASSUME Counting, NEW p, NEW O, NEW U, NEW G, Ready(p, O, U, G), NEW w \in Workers, NEW j
    PROVE  Fine(Transition(p, [type |-> "AssignmentSettled", worker |-> w, job |-> j,
                                result |-> "Rejected"]), O, U, G)
<1> DEFINE e == [type |-> "AssignmentSettled", worker |-> w, job |-> j,
                                result |-> "Rejected"]
<1>1. Transition(p, e) = IF p.mode = "Operating" THEN RejectAssignmentDelivery(p, w, j) ELSE p
  BY DEF Transition, Operate, Drain
<1> HIDE DEF e
<1>2. /\ p.mode = "Operating" => Run(p, O, U, G) /\ Claimed(p)
      /\ p.mode # "Operating" => Winding(p, O, U, G)
  BY ReadyModes
<1>3. p.mode = "Operating" => Fine(RejectAssignmentDelivery(p, w, j), O, U, G)
  BY <1>2, RefusalOn
<1>4. p.mode # "Operating" => Fine(p, O, U, G)
  BY <1>2, Unmoved
<1>5. QED BY <1>1, <1>3, <1>4 DEF e

\* An assignment whose delivery is in doubt.
LEMMA FoldUnattempted ==
    ASSUME Counting, NEW p, NEW O, NEW U, NEW G, Ready(p, O, U, G), NEW w, NEW j
    PROVE  Fine(Transition(p, [type |-> "AssignmentSettled", worker |-> w, job |-> j,
                                result |-> "Unattempted"]), O, U, G)
<1> DEFINE e == [type |-> "AssignmentSettled", worker |-> w, job |-> j,
                                result |-> "Unattempted"]
<1>1. Transition(p, e) = IF p.mode = "Operating" THEN p ELSE p
  BY DEF Transition, Operate, Drain
<1> HIDE DEF e
<1>2. /\ p.mode = "Operating" => Run(p, O, U, G) /\ Claimed(p)
      /\ p.mode # "Operating" => Winding(p, O, U, G)
  BY ReadyModes
<1>3. p.mode = "Operating" => Fine(p, O, U, G)
  BY <1>2, Unmoved
<1>4. p.mode # "Operating" => Fine(p, O, U, G)
  BY <1>2, Unmoved
<1>5. QED BY <1>1, <1>3, <1>4 DEF e

\* A request to shut the pool down.
LEMMA FoldShutdownPool ==
    ASSUME Counting, NEW p, NEW O, NEW U, NEW G, Ready(p, O, U, G), p.mode = "Operating"
    PROVE  Fine(Transition(p, [type |-> "Shutdown"]), O, U, G)
<1>1. Transition(p, [type |-> "Shutdown"]) = BeginShutdown(p)
  BY DEF Transition, Operate
<1>2. Run(p, O, U, G)
  BY ReadyModes
<1>3. Over(BeginShutdown(p), O, U, G)
  BY <1>2, ShutdownOver
<1>4. QED BY <1>1, <1>3 DEF Fine

\* The settlement of a creation batch.
LEMMA FoldCreations ==
    ASSUME Counting, NEW p, NEW O, NEW U, NEW G, Ready(p, O, U, G),
           NEW q \in O, q.op = "create", NEW outcome, DOMAIN outcome = q.of
    PROVE  Fine(Transition(p, [type |-> "WorkerCreationsSettled", outcome |-> outcome]), O \ {q}, Created(outcome, U, G), G)
<1> DEFINE e == [type |-> "WorkerCreationsSettled", outcome |-> outcome]
<1>1. Transition(p, e) = IF p.mode = "Operating" THEN AcceptCreations(p, outcome) ELSE AcceptDrainCreations(p, outcome)
  BY DEF Transition, Operate, Drain
<1> HIDE DEF e
<1>2. /\ p.mode = "Operating" => Run(p, O, U, G) /\ Claimed(p)
      /\ p.mode # "Operating" => Winding(p, O, U, G)
      /\ p.sent = {}
  BY ReadyModes
<1>3. p.mode = "Operating" => Fine(AcceptCreations(p, outcome), O \ {q}, Created(outcome, U, G), G)
  BY <1>2, CreationsOn
<1>4. p.mode # "Operating" => Fine(AcceptDrainCreations(p, outcome), O \ {q}, Created(outcome, U, G), G)
  BY <1>2, DrainCreationsOver
<1>5. QED BY <1>1, <1>3, <1>4 DEF e

\* The refusal of a creation batch.
LEMMA FoldBatchRejected ==
    ASSUME Counting, NEW p, NEW O, NEW U, NEW G, Ready(p, O, U, G), NEW q \in O, q.op = "create"
    PROVE  Fine(Transition(p, [type |-> "CreationBatchRejected", of |-> q.of]), O \ {q}, U, G)
<1> DEFINE outcome == [w \in q.of |-> "Rejected"]
           e == [type |-> "CreationBatchRejected", of |-> q.of]
           f == [type |-> "WorkerCreationsSettled", outcome |-> outcome]
<1>1. DOMAIN outcome = q.of /\ Created(outcome, U, G) = U
  BY DEF Created
<1> HIDE DEF outcome
<1>2. Transition(p, e) = Transition(p, f)
  <2>1. RejectCreationBatch(p, q.of) = AcceptCreations(p, outcome)
    BY DEF RejectCreationBatch, outcome
  <2>2. RejectDrainCreations(p, q.of) = AcceptDrainCreations(p, outcome)
    BY DEF RejectDrainCreations, outcome
  <2>3. QED BY <2>1, <2>2 DEF Transition, Operate, Drain
<1>3. Fine(Transition(p, f), O \ {q}, Created(outcome, U, G), G)
  BY <1>1, FoldCreations
<1> HIDE DEF e, f
<1>4. QED BY <1>1, <1>2, <1>3 DEF e

\* The worker source has begun to prepare a worker.
LEMMA FoldPreparationStarted ==
    ASSUME Counting, NEW p, NEW O, NEW U, NEW G, Ready(p, O, U, G),
           NEW q \in O, q.op = "prepare", NEW w \in q.of
    PROVE  Fine(Transition(p, [type |-> "PreparationStarted", worker |-> w, accepted |-> TRUE]), (O \ {q}) \cup {Req("prepared", q.of, 0)}, U, G)
<1> DEFINE e == [type |-> "PreparationStarted", worker |-> w, accepted |-> TRUE]
<1>1. Transition(p, e) = IF p.mode = "Operating" THEN AcceptWorkerPreparationStart(p, w, TRUE) ELSE AcceptDrainPreparationStart(p, w, TRUE)
  BY DEF Transition, Operate, Drain
<1> HIDE DEF e
<1>2. /\ p.mode = "Operating" => Run(p, O, U, G) /\ Claimed(p)
      /\ p.mode # "Operating" => Winding(p, O, U, G)
      /\ p.sent = {}
  BY ReadyModes
<1>3. p.mode = "Operating" => Fine(AcceptWorkerPreparationStart(p, w, TRUE), (O \ {q}) \cup {Req("prepared", q.of, 0)}, U, G)
  BY Zenon, <1>2, PreparationStartOn
<1>4. p.mode # "Operating" => Fine(AcceptDrainPreparationStart(p, w, TRUE), (O \ {q}) \cup {Req("prepared", q.of, 0)}, U, G)
  BY Zenon, <1>2, DrainPreparationsOver
<1>5. QED BY Zenon, <1>1, <1>3, <1>4 DEF e

\* The worker source has refused to.
LEMMA FoldPreparationRefused ==
    ASSUME Counting, NEW p, NEW O, NEW U, NEW G, Ready(p, O, U, G),
           NEW q \in O, q.op = "prepare", NEW w \in q.of
    PROVE  Fine(Transition(p, [type |-> "PreparationStarted", worker |-> w, accepted |-> FALSE]), O \ {q}, U, G)
<1> DEFINE e == [type |-> "PreparationStarted", worker |-> w, accepted |-> FALSE]
<1>1. Transition(p, e) = IF p.mode = "Operating" THEN AcceptWorkerPreparationStart(p, w, FALSE) ELSE AcceptDrainPreparationStart(p, w, FALSE)
  BY DEF Transition, Operate, Drain
<1> HIDE DEF e
<1>2. /\ p.mode = "Operating" => Run(p, O, U, G) /\ Claimed(p)
      /\ p.mode # "Operating" => Winding(p, O, U, G)
      /\ p.sent = {}
  BY ReadyModes
<1>3. p.mode = "Operating" => Fine(AcceptWorkerPreparationStart(p, w, FALSE), O \ {q}, U, G)
  BY Zenon, <1>2, PreparationStartOn
<1>4. p.mode # "Operating" => Fine(AcceptDrainPreparationStart(p, w, FALSE), O \ {q}, U, G)
  BY Zenon, <1>2, DrainPreparationsOver
<1>5. QED BY Zenon, <1>1, <1>3, <1>4 DEF e

\* The worker source comes back.
LEMMA FoldPreparationReturned ==
    ASSUME Counting, NEW p, NEW O, NEW U, NEW G, Ready(p, O, U, G),
           NEW q \in O, q.op = "prepared", NEW w \in q.of, NEW prepared \in BOOLEAN
    PROVE  Fine(Transition(p, [type |-> "PreparationReturned", worker |-> w, prepared |-> prepared]), O \ {q}, U, G)
<1> DEFINE e == [type |-> "PreparationReturned", worker |-> w, prepared |-> prepared]
<1>1. Transition(p, e) = IF p.mode = "Operating" THEN AcceptWorkerPreparationReturn(p, w, prepared) ELSE AcceptDrainPreparationReturn(p, w)
  BY DEF Transition, Operate, Drain
<1> HIDE DEF e
<1>2. /\ p.mode = "Operating" => Run(p, O, U, G) /\ Claimed(p)
      /\ p.mode # "Operating" => Winding(p, O, U, G)
      /\ p.sent = {}
  BY ReadyModes
<1>3. p.mode = "Operating" => Fine(AcceptWorkerPreparationReturn(p, w, prepared), O \ {q}, U, G)
  BY <1>2, PreparationReturnOn
<1>4. p.mode # "Operating" => Fine(AcceptDrainPreparationReturn(p, w), O \ {q}, U, G)
  BY Zenon, <1>2, DrainPreparationsOver
<1>5. QED BY <1>1, <1>3, <1>4 DEF e

\* The settlement of a timer request.
LEMMA FoldSchedule ==
    ASSUME Counting, NEW p, NEW O, NEW U, NEW G, Ready(p, O, U, G), NEW ws \in SUBSET Workers, NEW accepted
    PROVE  Fine(Transition(p, [type |-> "ScheduleSettled", of |-> ws, accepted |-> accepted]), O, U, G)
<1> DEFINE e == [type |-> "ScheduleSettled", of |-> ws, accepted |-> accepted]
           w == CHOOSE v \in ws : TRUE
<1>1. Transition(p, e) = IF p.mode = "Operating" THEN IF ws = {} THEN p ELSE AcceptRestartSchedule(p, w, accepted)
                         ELSE AcceptDrainSchedule(p, ws, accepted)
  BY DEF Transition, Operate, Drain
<1> HIDE DEF e
<1>2. /\ p.mode = "Operating" => Run(p, O, U, G) /\ Claimed(p)
      /\ p.mode # "Operating" => Winding(p, O, U, G)
      /\ p.sent = {}
  BY ReadyModes
<1>3. p.mode = "Operating" /\ ws # {} => Fine(AcceptRestartSchedule(p, w, accepted), O, U, G)
  <2>1. ws # {} => w \in Workers
    OBVIOUS
  <2> HIDE DEF w
  <2>2. QED BY <1>2, <2>1, TimersOn
<1>4. p.mode # "Operating" => Fine(AcceptDrainSchedule(p, ws, accepted), O, U, G)
  BY Zenon, <1>2, DrainTimersOver
<1>5. Fine(p, O, U, G)
  BY Unmoved
<1> HIDE DEF w
<1>6. QED BY <1>1, <1>3, <1>4, <1>5 DEF e

\* A timer has elapsed.
LEMMA FoldElapsed ==
    ASSUME Counting, NEW p, NEW O, NEW U, NEW G, Ready(p, O, U, G), NEW ws \in SUBSET Workers
    PROVE  Fine(Transition(p, [type |-> "Elapsed", of |-> ws]), O, U, G)
<1> DEFINE e == [type |-> "Elapsed", of |-> ws]
           w == CHOOSE v \in ws : TRUE
<1>1. Transition(p, e) = IF p.mode = "Operating" THEN IF ws = {} THEN p ELSE AcceptRestartTimer(p, w)
                         ELSE AcceptDrainDeadline(p, ws)
  BY DEF Transition, Operate, Drain
<1> HIDE DEF e
<1>2. /\ p.mode = "Operating" => Run(p, O, U, G) /\ Claimed(p)
      /\ p.mode # "Operating" => Winding(p, O, U, G)
      /\ p.sent = {}
  BY ReadyModes
<1>3. p.mode = "Operating" /\ ws # {} => Fine(AcceptRestartTimer(p, w), O, U, G)
  <2>1. ws # {} => w \in Workers
    OBVIOUS
  <2> HIDE DEF w
  <2>2. QED BY <1>2, <2>1, TimersOn
<1>4. p.mode # "Operating" => Fine(AcceptDrainDeadline(p, ws), O, U, G)
  BY <1>2, DrainTimersOver
<1>5. Fine(p, O, U, G)
  BY Unmoved
<1> HIDE DEF w
<1>6. QED BY <1>1, <1>3, <1>4, <1>5 DEF e

-----------------------------------------------------------------------------
(* The actions of the runtime.                                               *)

\* The pool takes events and the custody is whole.
Serving == Guarded /\ pool.mode \notin {"Stopped", "ForcedRetirement"}

\* An answer that concerns neither creations nor the source, what it leaves to
\* follow, and the workers V that run and H that are gone then.
Leaves(answered, extra, V, H) ==
    /\ \A t \in answered : t.op \notin {"create", "prepare", "prepared"}
    /\ \A t \in extra : /\ t \in Requests /\ t.op \in {"ready", "elapse", "notice"}
                        /\ t.op = "notice" => t.of \subseteq H
    /\ \A t \in owed \ answered : t.op = "exit" => \E w \in V : t = Req("exit", {w}, 0)

\* What the invariant says while the pool takes events.
LEMMA ServingFacts ==
    ASSUME Serving
    PROVE  /\ Ready(pool, owed, up, gone) /\ owed \subseteq Requests
           /\ Extern(owed, up, gone) /\ up \cap gone = {} /\ Formed(owed, {})
           /\ clock \in Nat /\ submitted \in 0 .. NJobs /\ \A c \in work : c[1] \in Workers
<1>1. /\ Fine(pool, owed, up, gone) /\ pool.sent = {} /\ Extern(owed, up, gone)
      /\ up \cap gone = {} /\ clock \in Nat /\ submitted \in 0 .. NJobs
      /\ \A c \in work : c[1] \in Workers
  BY DEF Serving, Guarded
<1>2. Custody(pool, owed, up, gone)
  BY <1>1 DEF Fine, Run, Over
<1>3. owed \subseteq Requests /\ Formed(owed, {})
  BY <1>1, <1>2 DEF Custody, Formed
<1>4. QED BY <1>1, <1>3 DEF Ready, Serving

\* Such an answer leaves the pool ready.
LEMMA Between ==
    ASSUME Serving, NEW answered, NEW extra, NEW V, NEW H, V \subseteq up, gone \subseteq H,
           Leaves(answered, extra, V, H)
    PROVE  /\ Ready(pool, (owed \ answered) \cup extra, V, H)
           /\ Extern((owed \ answered) \cup extra, V, H)
<1> DEFINE P == (owed \ answered) \cup extra
<1>0. owed \subseteq Requests /\ Extern(owed, up, gone)
  BY ServingFacts
<1>1. P \subseteq Requests
  BY <1>0 DEF Leaves
<1>2. Frames(owed, P)
  BY DEF Leaves, Frames
<1>3. Extern(P, V, H)
  <2>1. ASSUME NEW q \in P, q.op = "exit" PROVE \E w \in V : q = Req("exit", {w}, 0)
    BY Zenon, <2>1 DEF Leaves
  <2>2. ASSUME NEW q \in P, q.op = "notice" PROVE q.of \subseteq H
    BY <1>0, <2>2 DEF Leaves, Extern
  <2>3. QED BY Zenon, <2>1, <2>2 DEF Extern
<1> HIDE DEF P
<1>4. Ready(pool, P, V, H)
  BY <1>1, <1>2, Framed DEF Serving
<1>5. QED BY <1>3, <1>4 DEF P

\* An answer that no worker's life or death goes with.
LEMMA Quietly ==
    ASSUME Serving, NEW q \in owed, q.op \in {"initialize", "start", "ready", "assign",
               "shutdown", "notice", "schedule", "elapse"}, NEW op \in {"ready", "elapse"}
    PROVE  /\ Leaves({q}, {}, up, gone) /\ Leaves({q}, {Req(op, q.of, 0)}, up, gone)
           /\ Leaves({q, Req("exit", {}, 0)}, {}, up, gone)
<1>1. owed \subseteq Requests /\ Extern(owed, up, gone)
  BY ServingFacts
<1>2. Req(op, q.of, 0) \in Requests /\ Req(op, q.of, 0).op = op
  BY <1>1, PoolAssumption DEF Req, Requests, Ops
<1>3. \A t \in owed : t.op = "exit" => \E w \in up : t = Req("exit", {w}, 0)
  BY <1>1 DEF Extern
<1>4. Req("exit", {}, 0).op = "exit"
  BY DEF Req
<1>5. QED BY Zenon, <1>2, <1>3, <1>4 DEF Leaves

\* After such an answer.
LEMMA QuietlyTaken ==
    ASSUME Serving, NEW e, NEW answered, NEW completed, NEW extra,
           Runtime!Take(e, answered, completed, extra), Leaves(answered, extra, up, gone),
           Fine(Transition(pool, e), (owed \ answered) \cup extra, up, gone),
           up' = up, gone' = gone, clock' = clock, submitted' \in 0 .. NJobs
    PROVE  Guarded'
<1> DEFINE P == (owed \ answered) \cup extra
<1>1. Extern(P, up, gone)
  <2>1. up \subseteq up /\ gone \subseteq gone
    OBVIOUS
  <2>2. QED BY <2>1, Between
<1>2. P = (owed \ answered) \cup extra /\ Fine(Transition(pool, e), P, up, gone)
  OBVIOUS
<1>3. up \cap gone = {} /\ clock \in Nat /\ \A c \in work : c[1] \in Workers
  BY ServingFacts
<1> HIDE DEF P
<1>4. Fine(Transition(pool, e), P, up', gone') /\ Extern(P, up', gone')
  BY Zenon, <1>1, <1>2
<1>5. up' \cap gone' = {} /\ clock' \in Nat
  BY <1>3
<1>6. QED BY <1>2, <1>3, <1>4, <1>5, CustodyTaken

\* Before an answer of that kind the fold may begin.
LEMMA QuietlyReady ==
    ASSUME Serving, NEW answered, NEW extra, Leaves(answered, extra, up, gone)
    PROVE  Ready(pool, (owed \ answered) \cup extra, up, gone)
<1>1. up \subseteq up /\ gone \subseteq gone
  OBVIOUS
<1>2. QED BY Zenon, <1>1, Between

\* Nothing is answered.
LEMMA Unanswered ==
    ASSUME Serving
    PROVE  Leaves({}, {}, up, gone)
<1>1. Extern(owed, up, gone)
  BY ServingFacts
<1>2. QED BY <1>1 DEF Leaves, Extern

\* A customer submits a job.
LEMMA SubmitGuarded ==
    ASSUME Counting, Serving, Runtime!Submit
    PROVE  Guarded'
<1> DEFINE e == [type |-> "Submit", job |-> submitted + 1]
           P == (owed \ {}) \cup {}
<1>1. /\ submitted < NJobs /\ submitted' = submitted + 1
      /\ up' = up /\ gone' = gone /\ clock' = clock /\ Runtime!Take(e, {}, {}, {})
  BY DEF Runtime!Submit, Runtime!Stays
<1>2. submitted + 1 \in 0 .. NJobs /\ submitted' \in 0 .. NJobs
  BY <1>1, ServingFacts, PoolAssumption
<1>3. Leaves({}, {}, up, gone)
  BY Unanswered
<1>4. Ready(pool, P, up, gone)
  BY <1>3, QuietlyReady
<1> HIDE DEF P
<1>5. Fine(Transition(pool, e), P, up, gone)
  BY <1>2, <1>4, FoldSubmit
<1> HIDE DEF e
<1>6. QED BY <1>1, <1>2, <1>3, <1>5, QuietlyTaken DEF P

\* The pool is told to shut down.
LEMMA ShutdownGuarded ==
    ASSUME Counting, Serving, Runtime!ShutdownPool
    PROVE  Guarded'
<1> DEFINE e == [type |-> "Shutdown"]
           P == (owed \ {}) \cup {}
<1>1. /\ pool.mode = "Operating" /\ submitted' = submitted
      /\ up' = up /\ gone' = gone /\ clock' = clock /\ Runtime!Take(e, {}, {}, {})
  BY DEF Runtime!ShutdownPool, Runtime!Stays
<1>2. submitted' \in 0 .. NJobs
  BY <1>1, ServingFacts
<1>3. Leaves({}, {}, up, gone)
  BY Unanswered
<1>4. Ready(pool, P, up, gone)
  BY <1>3, QuietlyReady
<1> HIDE DEF P
<1>5. Fine(Transition(pool, e), P, up, gone)
  BY <1>1, <1>4, FoldShutdownPool
<1> HIDE DEF e
<1>6. QED BY <1>1, <1>2, <1>3, <1>5, QuietlyTaken DEF P

\* A worker completes a job.
LEMMA CompletionGuarded ==
    ASSUME Counting, Serving, submitted' = submitted, Runtime!Completion
    PROVE  Guarded'
<1> DEFINE e(w, j) == [type |-> "WorkerCompleted", worker |-> w, job |-> j]
           P == (owed \ {}) \cup {}
<1>0. /\ submitted' \in 0 .. NJobs
      /\ \A c \in work : c[1] \in Workers
  BY ServingFacts
<1>1. PICK w, j : /\ w \in Workers /\ up' = up /\ gone' = gone /\ clock' = clock
                  /\ Runtime!Take(e(w, j), {}, {<<w, j>>}, {})
  BY Zenon, <1>0 DEF Runtime!Completion, Runtime!WorkerCompletes, Runtime!Stays
<1>3. Leaves({}, {}, up, gone)
  BY Unanswered
<1>4. Ready(pool, P, up, gone)
  BY <1>3, QuietlyReady
<1> HIDE DEF P
<1>5. Fine(Transition(pool, e(w, j)), P, up, gone)
  BY <1>1, <1>4, FoldCompletion
<1> HIDE DEF e
<1>6. QED BY <1>0, <1>1, <1>3, <1>5, QuietlyTaken DEF P

\* A request to a worker to stop is settled.
LEMMA ShutdownSettledGuarded ==
    ASSUME Counting, Serving, submitted' = submitted, NEW q \in owed,
           Runtime!WorkerShutdownSettled(q)
    PROVE  Guarded'
<1> DEFINE e(w) == [type |-> "WorkerShutdownSettled", worker |-> w]
           P == (owed \ {q}) \cup {}
<1>0. submitted' \in 0 .. NJobs /\ owed \subseteq Requests
  BY ServingFacts
<1>1. PICK w \in q.of : /\ q.op = "shutdown" /\ up' = up /\ gone' = gone /\ clock' = clock
                        /\ Runtime!Take(e(w), {q}, {}, {})
  BY DEF Runtime!WorkerShutdownSettled, Runtime!Stays
<1>2. w \in Workers
  BY <1>0 DEF Requests
<1>3. Leaves({q}, {}, up, gone)
  BY Zenon, <1>1, Quietly
<1>4. Ready(pool, P, up, gone)
  BY <1>3, QuietlyReady
<1> HIDE DEF P
<1>5. Fine(Transition(pool, e(w)), P, up, gone)
  BY <1>2, <1>4, FoldShutdown
<1> HIDE DEF e
<1>6. QED BY <1>0, <1>1, <1>3, <1>5, QuietlyTaken DEF P

\* A worker reports on its startup.
LEMMA StartupGuarded ==
    ASSUME Counting, Serving, submitted' = submitted, NEW q \in owed, Runtime!WorkerStartup(q)
    PROVE  Guarded'
<1> DEFINE e(w, report)  == [type |-> "WorkerStartup", worker |-> w, report |-> report]
           extra(report) == IF report = "Started" THEN {Runtime!Req("ready", q.of, 0)} ELSE {}
           P(report)     == (owed \ {q}) \cup extra(report)
<1>0. submitted' \in 0 .. NJobs /\ owed \subseteq Requests
  BY ServingFacts
<1>1. PICK w, report : /\ w \in q.of /\ q.op \in {"start", "ready"}
                       /\ up' = up /\ gone' = gone /\ clock' = clock
                       /\ Runtime!Take(e(w, report), {q}, {}, extra(report))
  BY Zenon DEF Runtime!WorkerStartup, Runtime!Stays
<1>2. w \in Workers
  BY <1>0, <1>1 DEF Requests
<1>3. Leaves({q}, extra(report), up, gone)
  <2>1. Leaves({q}, {}, up, gone) /\ Leaves({q}, {Req("ready", q.of, 0)}, up, gone)
    BY Zenon, <1>1, Quietly
  <2>2. QED BY <2>1 DEF Runtime!Req, Req
<1>4. Ready(pool, P(report), up, gone)
  BY <1>3, QuietlyReady
<1> HIDE DEF P
<1>5. Fine(Transition(pool, e(w, report)), P(report), up, gone)
  BY <1>2, <1>4, FoldStartup
<1> HIDE DEF e, extra
<1>6. QED BY <1>0, <1>1, <1>3, <1>5, QuietlyTaken DEF P

\* The delivery of an assignment is settled.
LEMMA AssignmentGuarded ==
    ASSUME Counting, Serving, submitted' = submitted, NEW q \in owed,
           Runtime!AssignmentSettled(q)
    PROVE  Guarded'
<1> DEFINE e(w, result) == [type |-> "AssignmentSettled", worker |-> w, job |-> q.job,
                            result |-> result]
           P == (owed \ {q}) \cup {}
<1>0. submitted' \in 0 .. NJobs /\ owed \subseteq Requests
  BY ServingFacts
<1>1. PICK w, result, completed :
         /\ w \in q.of /\ q.op = "assign" /\ result \in {"Accepted", "Rejected", "Unattempted"}
         /\ up' = up /\ gone' = gone /\ clock' = clock
         /\ Runtime!Take(e(w, result), {q}, completed, {})
  BY Zenon DEF Runtime!AssignmentSettled
<1>2. w \in Workers
  BY <1>0, <1>1 DEF Requests
<1>3. Leaves({q}, {}, up, gone)
  BY Zenon, <1>1, Quietly
<1>4. Ready(pool, P, up, gone)
  BY <1>3, QuietlyReady
<1> HIDE DEF P
<1>5. Fine(Transition(pool, e(w, result)), P, up, gone)
  <2>1. CASE result = "Accepted" BY <1>2, <1>4, <2>1, FoldAccepted
  <2>2. CASE result = "Rejected" BY <1>2, <1>4, <2>2, FoldRejected
  <2>3. CASE result = "Unattempted" BY <1>2, <1>4, <2>3, FoldUnattempted
  <2>4. QED BY <1>1, <2>1, <2>2, <2>3
<1> HIDE DEF e
<1>6. QED BY <1>0, <1>1, <1>3, <1>5, QuietlyTaken DEF P

\* A timer request is settled.
LEMMA ScheduleGuarded ==
    ASSUME Counting, Serving, submitted' = submitted, NEW q \in owed, Runtime!ScheduleSettled(q)
    PROVE  Guarded'
<1> DEFINE e(accepted) == [type |-> "ScheduleSettled", of |-> q.of, accepted |-> accepted]
           extra(accepted) == IF accepted THEN {Runtime!Req("elapse", q.of, 0)} ELSE {}
           P(accepted) == (owed \ {q}) \cup extra(accepted)
<1>0. submitted' \in 0 .. NJobs /\ owed \subseteq Requests
  BY ServingFacts
<1>1. PICK accepted \in BOOLEAN :
         /\ q.op = "schedule" /\ up' = up /\ gone' = gone /\ clock' = clock
         /\ Runtime!Take(e(accepted), {q}, {}, extra(accepted))
  BY DEF Runtime!ScheduleSettled, Runtime!Stays
<1>2. q.of \in SUBSET Workers
  BY <1>0 DEF Requests
<1>3. Leaves({q}, extra(accepted), up, gone)
  <2>1. Leaves({q}, {}, up, gone) /\ Leaves({q}, {Req("elapse", q.of, 0)}, up, gone)
    BY Zenon, <1>1, Quietly
  <2>2. QED BY Zenon, <2>1 DEF Runtime!Req, Req
<1>4. Ready(pool, P(accepted), up, gone)
  BY <1>3, QuietlyReady
<1> HIDE DEF P
<1>5. Fine(Transition(pool, e(accepted)), P(accepted), up, gone)
  BY <1>2, <1>4, FoldSchedule
<1> HIDE DEF e, extra
<1>6. QED BY <1>0, <1>1, <1>3, <1>5, QuietlyTaken DEF P

\* A timer elapses.
LEMMA ElapsedGuarded ==
    ASSUME Counting, Serving, submitted' = submitted, NEW q \in owed, Runtime!TimerElapsed(q)
    PROVE  Guarded'
<1> DEFINE e == [type |-> "Elapsed", of |-> q.of]
           P == (owed \ {q}) \cup {}
<1>0. submitted' \in 0 .. NJobs /\ owed \subseteq Requests
  BY ServingFacts
<1>1. /\ q.op = "elapse" /\ up' = up /\ gone' = gone /\ clock' = clock
      /\ Runtime!Take(e, {q}, {}, {})
  BY DEF Runtime!TimerElapsed, Runtime!Stays
<1>2. q.of \in SUBSET Workers
  BY <1>0 DEF Requests
<1>3. Leaves({q}, {}, up, gone)
  BY Zenon, <1>1, Quietly
<1>4. Ready(pool, P, up, gone)
  BY <1>3, QuietlyReady
<1> HIDE DEF P
<1>5. Fine(Transition(pool, e), P, up, gone)
  BY <1>2, <1>4, FoldElapsed
<1> HIDE DEF e
<1>6. QED BY <1>0, <1>1, <1>3, <1>5, QuietlyTaken DEF P

\* The other requests are left to the runtime.
LEMMA ExternKept ==
    ASSUME NEW P, NEW U, NEW V, NEW G, Extern(P, U, G), U \subseteq V, NEW q
    PROVE  Extern(P \ {q}, V, G) /\ \A t : Extern((P \ {q}) \cup {Req("prepared", t, 0)}, V, G)
<1>1. \A t \in P : /\ t.op = "exit" => \E w \in V : t = Req("exit", {w}, 0)
                   /\ t.op = "notice" => t.of \subseteq G
  BY DEF Extern
<1>2. \A t : Req("prepared", t, 0).op \notin {"exit", "notice"}
  BY DEF Req
<1>3. QED BY Zenon, <1>1, <1>2 DEF Extern

\* The worker source settles the request to prepare a worker.
LEMMA PreparationStartGuarded ==
    ASSUME Counting, Serving, submitted' = submitted, NEW q \in owed,
           Runtime!WorkerPreparationStarted(q)
    PROVE  Guarded'
<1> DEFINE e(w, accepted)  == [type |-> "PreparationStarted", worker |-> w,
                               accepted |-> accepted]
           extra(accepted) == IF accepted THEN {Runtime!Req("prepared", q.of, 0)} ELSE {}
           P(accepted) == (owed \ {q}) \cup extra(accepted)
<1>0. /\ Ready(pool, owed, up, gone) /\ Extern(owed, up, gone) /\ up \cap gone = {}
      /\ clock \in Nat /\ submitted \in 0 .. NJobs /\ \A c \in work : c[1] \in Workers
  BY ServingFacts
<1>1. PICK w, accepted : /\ w \in q.of /\ accepted \in BOOLEAN /\ q.op = "prepare"
                         /\ up' = up /\ gone' = gone /\ clock' = clock
                         /\ Runtime!Take(e(w, accepted), {q}, {}, extra(accepted))
  BY DEF Runtime!WorkerPreparationStarted, Runtime!Stays
<1>2. /\ accepted => P(accepted) = (owed \ {q}) \cup {Req("prepared", q.of, 0)}
      /\ ~accepted => P(accepted) = owed \ {q}
  BY <1>1 DEF Runtime!Req, Req
<1>3. Extern(P(accepted), up, gone)
  <2>1. up \subseteq up
    OBVIOUS
  <2>2. /\ Extern(owed \ {q}, up, gone)
        /\ Extern((owed \ {q}) \cup {Req("prepared", q.of, 0)}, up, gone)
    BY Zenon, <1>0, <2>1, ExternKept
  <2> HIDE DEF P
  <2>3. QED BY <1>1, <1>2, <2>2
<1> HIDE DEF P
<1>4. Fine(Transition(pool, e(w, accepted)), P(accepted), up, gone)
  <2>1. CASE accepted
    <3>1. accepted = TRUE
      BY <1>1, <2>1
    <3>2. Fine(Transition(pool, e(w, TRUE)), (owed \ {q}) \cup {Req("prepared", q.of, 0)}, up, gone)
      BY <1>0, <1>1, FoldPreparationStarted
    <3> HIDE DEF e
    <3>3. QED BY Zenon, <1>2, <3>1, <3>2
  <2>2. CASE ~accepted
    <3>1. accepted = FALSE
      BY <1>1, <2>2
    <3>2. Fine(Transition(pool, e(w, FALSE)), owed \ {q}, up, gone)
      BY <1>0, <1>1, FoldPreparationRefused
    <3> HIDE DEF e
    <3>3. QED BY Zenon, <1>2, <3>1, <3>2
  <2>3. QED BY <2>1, <2>2
<1> HIDE DEF e
<1>5. P(accepted) = (owed \ {q}) \cup extra(accepted)
  BY DEF P
<1> HIDE DEF extra
<1>6. /\ Fine(Transition(pool, e(w, accepted)), P(accepted), up', gone')
      /\ Extern(P(accepted), up', gone') /\ up' \cap gone' = {} /\ clock' \in Nat
      /\ submitted' \in 0 .. NJobs
  BY Zenon, <1>0, <1>1, <1>3, <1>4
<1>7. QED BY <1>0, <1>1, <1>5, <1>6, CustodyTaken

\* The worker source comes back.
LEMMA PreparationReturnGuarded ==
    ASSUME Counting, Serving, submitted' = submitted, NEW q \in owed,
           Runtime!WorkerPreparationReturned(q)
    PROVE  Guarded'
<1> DEFINE e(w, prepared) == [type |-> "PreparationReturned", worker |-> w,
                              prepared |-> prepared]
           P == owed \ {q}
<1>0. /\ Ready(pool, owed, up, gone) /\ Extern(owed, up, gone) /\ up \cap gone = {}
      /\ clock \in Nat /\ submitted \in 0 .. NJobs /\ \A c \in work : c[1] \in Workers
  BY ServingFacts
<1>1. PICK w, prepared : /\ w \in q.of /\ prepared \in BOOLEAN /\ q.op = "prepared"
                         /\ up' = up /\ gone' = gone /\ clock' = clock
                         /\ Runtime!Take(e(w, prepared), {q}, {}, {})
  BY Zenon DEF Runtime!WorkerPreparationReturned, Runtime!Stays
<1>3. Extern(P, up, gone)
  <2>1. up \subseteq up
    OBVIOUS
  <2>2. QED BY Zenon, <1>0, <2>1, ExternKept
<1>4. Fine(Transition(pool, e(w, prepared)), P, up, gone)
  BY <1>0, <1>1, FoldPreparationReturned
<1> HIDE DEF e
<1>5. P = (owed \ {q}) \cup {}
  OBVIOUS
<1> HIDE DEF P
<1>6. /\ Fine(Transition(pool, e(w, prepared)), P, up', gone')
      /\ Extern(P, up', gone') /\ up' \cap gone' = {} /\ clock' \in Nat
      /\ submitted' \in 0 .. NJobs
  BY Zenon, <1>0, <1>1, <1>3, <1>4
<1>7. QED BY <1>0, <1>1, <1>5, <1>6, CustodyTaken

\* A creation batch is settled: the workers that were established run, unless
\* their exit came first.
LEMMA CreationsGuarded ==
    ASSUME Counting, Serving, submitted' = submitted, NEW q \in owed,
           Runtime!WorkerCreationsSettled(q)
    PROVE  Guarded'
<1> DEFINE outcome(rejected) ==
               [w \in q.of |-> IF w \in rejected THEN "Rejected" ELSE "Established"]
           e(rejected) == [type |-> "WorkerCreationsSettled", outcome |-> outcome(rejected)]
           P == owed \ {q}
<1>0. /\ Ready(pool, owed, up, gone) /\ Extern(owed, up, gone) /\ up \cap gone = {}
      /\ clock \in Nat /\ submitted \in 0 .. NJobs /\ \A c \in work : c[1] \in Workers
  BY ServingFacts
<1>1. PICK rejected : /\ q.op = "create" /\ up' = up \cup (q.of \ (gone \cup rejected))
                      /\ gone' = gone /\ clock' = clock
                      /\ Runtime!Take(e(rejected), {q}, {}, {})
  BY DEF Runtime!WorkerCreationsSettled
<1>2. up' = Created(outcome(rejected), up, gone) /\ DOMAIN outcome(rejected) = q.of
  BY <1>1 DEF Created
<1>3. Extern(P, up', gone)
  <2>1. up \subseteq up'
    BY <1>1
  <2>2. QED BY Zenon, <1>0, <2>1, ExternKept
<1> HIDE DEF outcome
<1>4. Fine(Transition(pool, e(rejected)), P, up', gone)
  <2>1. Fine(Transition(pool, e(rejected)), P, Created(outcome(rejected), up, gone), gone)
    BY <1>0, <1>1, <1>2, FoldCreations
  <2>2. QED BY <1>2, <2>1
<1> HIDE DEF e
<1>5. P = (owed \ {q}) \cup {}
  OBVIOUS
<1> HIDE DEF P
<1>6. /\ Fine(Transition(pool, e(rejected)), P, up', gone')
      /\ Extern(P, up', gone') /\ clock' \in Nat /\ submitted' \in 0 .. NJobs
  BY Zenon, <1>0, <1>1, <1>3, <1>4
<1>7. up' \cap gone' = {}
  BY <1>0, <1>1
<1>8. QED BY Zenon, <1>0, <1>1, <1>5, <1>6, <1>7, CustodyTaken

\* A creation batch is refused.
LEMMA BatchGuarded ==
    ASSUME Counting, Serving, submitted' = submitted, NEW q \in owed,
           Runtime!WorkerCreationBatchRejected(q)
    PROVE  Guarded'
<1> DEFINE e == [type |-> "CreationBatchRejected", of |-> q.of]
           P == owed \ {q}
<1>0. /\ Ready(pool, owed, up, gone) /\ Extern(owed, up, gone) /\ up \cap gone = {}
      /\ clock \in Nat /\ submitted \in 0 .. NJobs /\ \A c \in work : c[1] \in Workers
  BY ServingFacts
<1>1. /\ q.op = "create" /\ up' = up /\ gone' = gone /\ clock' = clock
      /\ Runtime!Take(e, {q}, {}, {})
  BY DEF Runtime!WorkerCreationBatchRejected, Runtime!Stays
<1>3. Extern(P, up, gone)
  <2>1. up \subseteq up
    OBVIOUS
  <2>2. QED BY Zenon, <1>0, <2>1, ExternKept
<1>4. Fine(Transition(pool, e), P, up, gone)
  BY <1>0, <1>1, FoldBatchRejected
<1> HIDE DEF e
<1>5. P = (owed \ {q}) \cup {}
  OBVIOUS
<1> HIDE DEF P
<1>6. /\ Fine(Transition(pool, e), P, up', gone')
      /\ Extern(P, up', gone') /\ up' \cap gone' = {} /\ clock' \in Nat
      /\ submitted' \in 0 .. NJobs
  BY Zenon, <1>0, <1>1, <1>3, <1>4
<1>7. QED BY <1>0, <1>1, <1>5, <1>6, CustodyTaken

\* Neither creations nor the source are answered.
Others(answered) == \A t \in answered : t.op \notin {"create", "prepare", "prepared"}

\* A worker exits, and what was to follow from it is no longer owed.
LEMMA Departs ==
    ASSUME Serving, NEW w \in Workers, NEW answered, NEW extra, Req("exit", {w}, 0) \in answered,
           Others(answered), extra \subseteq {Req("notice", {w}, 0)}
    PROVE  /\ Leaves(answered, extra, up \ {w}, gone \cup {w})
           /\ Ready(pool, (owed \ answered) \cup extra, up \ {w}, gone \cup {w})
           /\ Extern((owed \ answered) \cup extra, up \ {w}, gone \cup {w})
           /\ (up \ {w}) \cap (gone \cup {w}) = {}
<1>0. Extern(owed, up, gone) /\ up \cap gone = {}
  BY ServingFacts
<1>1. \A t \in extra : /\ t \in Requests /\ t.op = "notice" /\ t.of = {w}
  BY PoolAssumption DEF Req, Requests, Ops
<1>2. ASSUME NEW t \in owed \ answered, t.op = "exit"
      PROVE  \E v \in up \ {w} : t = Req("exit", {v}, 0)
  <2>1. PICK v \in up : t = Req("exit", {v}, 0)
    BY Zenon, <1>0, <1>2 DEF Extern
  <2>2. v # w
    BY <2>1
  <2>3. QED BY <2>1, <2>2
<1>3. Leaves(answered, extra, up \ {w}, gone \cup {w})
  <2>1. \A t \in extra : /\ t \in Requests /\ t.op \in {"ready", "elapse", "notice"}
                         /\ t.op = "notice" => t.of \subseteq gone \cup {w}
    BY <1>1
  <2>2. \A t \in answered : t.op \notin {"create", "prepare", "prepared"}
    BY DEF Others
  <2>3. \A t \in owed \ answered : t.op = "exit" => \E v \in up \ {w} : t = Req("exit", {v}, 0)
    BY <1>2
  <2>4. QED BY Zenon, <2>1, <2>2, <2>3 DEF Leaves
<1>4. up \ {w} \subseteq up /\ gone \subseteq gone \cup {w}
  OBVIOUS
<1>5. /\ Ready(pool, (owed \ answered) \cup extra, up \ {w}, gone \cup {w})
      /\ Extern((owed \ answered) \cup extra, up \ {w}, gone \cup {w})
  BY <1>3, <1>4, Between
<1>6. QED BY <1>0, <1>3, <1>5

\* A worker stops of its own accord.
LEMMA FailureGuarded ==
    ASSUME Counting, Serving, submitted' = submitted, Runtime!Failure
    PROVE  Guarded'
<1> DEFINE e(w, kind) == [type |-> "WorkerStopped", worker |-> w, kind |-> kind,
                          now |-> clock']
<1>0. clock \in Nat /\ submitted \in 0 .. NJobs /\ \A c \in work : c[1] \in Workers
  BY ServingFacts
<1>1. PICK r \in 1 .. NRoles, n \in 1 .. MaxCreations + 1, kind \in {"Normal", "Abnormal"} :
         Runtime!WorkerFails(<<r, n>>, kind)
  BY DEF Runtime!Failure
<1> DEFINE w == <<r, n>>
           answered == {Req("exit", {w}, 0)}
           P == (owed \ answered) \cup {}
<1>2. w \in Workers /\ kind \in Stops
  BY DEF Workers, Roles, Stops
<1>3. /\ clock' = clock + 1 /\ up' = up \ {w} /\ gone' = gone \cup {w}
      /\ Runtime!Take(e(w, kind), answered, {}, {})
  BY <1>1 DEF Runtime!WorkerFails, Runtime!Exits, Runtime!Req, Req
<1> HIDE DEF w
<1>4. /\ Ready(pool, P, up \ {w}, gone \cup {w}) /\ Extern(P, up \ {w}, gone \cup {w})
      /\ (up \ {w}) \cap (gone \cup {w}) = {}
  <2>1. /\ Req("exit", {w}, 0) \in answered /\ Others(answered)
        /\ {} \subseteq {Req("notice", {w}, 0)}
    BY DEF Req, Others
  <2> HIDE DEF answered
  <2>2. QED BY Zenon, <1>2, <2>1, Departs
<1>5. clock' \in Nat /\ submitted' \in 0 .. NJobs /\ w \notin up' /\ w \in gone'
  BY <1>0, <1>3
<1> HIDE DEF P
<1>6. Ready(pool, P, up', gone') /\ Extern(P, up', gone') /\ up' \cap gone' = {}
  BY Zenon, <1>3, <1>4
<1>7. Fine(Transition(pool, e(w, kind)), P, up', gone')
  BY <1>2, <1>5, <1>6, FoldStop
<1> HIDE DEF e, answered
<1>8. P = (owed \ answered) \cup {}
  BY DEF P
<1>9. QED BY Zenon, <1>0, <1>3, <1>5, <1>6, <1>7, <1>8, CustodyTaken

\* A worker reports its initialization, in which it may have died.
LEMMA InitializationGuarded ==
    ASSUME Counting, Serving, submitted' = submitted, NEW q \in owed,
           Runtime!WorkerInitialization(q)
    PROVE  Guarded'
<1> DEFINE e(w, report) == [type |-> "WorkerInitialization", worker |-> w,
                            report |-> report, kind |-> "Abnormal", now |-> clock']
           dies(w, report) == report = "Stopped" /\ w \in up
           answered(w, report) ==
               {q, Runtime!Req("exit", IF dies(w, report) THEN q.of ELSE {}, 0)}
           extra(w, report) ==
               IF dies(w, report) THEN {Runtime!Req("notice", q.of, 0)} ELSE {}
<1>0. /\ clock \in Nat /\ submitted' \in 0 .. NJobs /\ \A c \in work : c[1] \in Workers
      /\ owed \subseteq Requests /\ Formed(owed, {}) /\ "Abnormal" \in Stops
  BY ServingFacts DEF Stops
<1>1. PICK w, report :
         /\ w \in q.of /\ q.op = "initialize"
         /\ IF dies(w, report) THEN /\ up' = up \ {w} /\ gone' = gone \cup {w}
                                    /\ clock' = clock + 1
            ELSE up' = up /\ gone' = gone /\ clock' = clock
         /\ Runtime!Take(e(w, report), answered(w, report), {}, extra(w, report))
  BY Zenon DEF Runtime!WorkerInitialization, Runtime!Exits
<1>2. w \in Workers /\ q.of = {w}
  <2>1. w \in Workers
    BY <1>0, <1>1 DEF Requests
  <2>2. PICK v \in Workers : q.of = {v}
    BY <1>0, <1>1, Addressed
  <2>3. QED BY <1>1, <2>1, <2>2
<1>3. CASE dies(w, report)
  <2> DEFINE A == {q, Req("exit", {w}, 0)}
             X == {Req("notice", {w}, 0)}
             P == (owed \ A) \cup X
  <2>1. /\ up' = up \ {w} /\ gone' = gone \cup {w} /\ clock' = clock + 1
        /\ answered(w, report) = A /\ extra(w, report) = X
    BY <1>1, <1>2, <1>3 DEF Req, Runtime!Req
  <2>2. Runtime!Take(e(w, report), A, {}, X)
    BY Zenon, <1>1, <2>1
  <2>3. Req("exit", {w}, 0) \in A /\ Others(A) /\ X \subseteq {Req("notice", {w}, 0)}
    BY <1>1 DEF Others, Req
  <2> HIDE DEF A, X, e
  <2>4. /\ Ready(pool, P, up \ {w}, gone \cup {w}) /\ Extern(P, up \ {w}, gone \cup {w})
        /\ (up \ {w}) \cap (gone \cup {w}) = {}
    BY Zenon, <1>2, <2>3, Departs
  <2> HIDE DEF P
  <2>5. Ready(pool, P, up', gone') /\ Extern(P, up', gone') /\ up' \cap gone' = {}
    BY Zenon, <2>1, <2>4
  <2>6. clock' \in Nat /\ w \notin up'
    BY <1>0, <2>1
  <2>7. Fine(Transition(pool, e(w, report)), P, up', gone')
    BY <1>0, <1>2, <2>5, <2>6, FoldInitialization DEF e
  <2>8. P = (owed \ A) \cup X
    BY DEF P
  <2>9. QED BY <1>0, <2>2, <2>5, <2>6, <2>7, <2>8, CustodyTaken
<1>4. CASE ~dies(w, report)
  <2> DEFINE A == {q, Req("exit", {}, 0)}
             P == (owed \ A) \cup {}
  <2>1. /\ up' = up /\ gone' = gone /\ clock' = clock
        /\ answered(w, report) = A /\ extra(w, report) = {}
    BY <1>1, <1>4 DEF Req, Runtime!Req
  <2>2. Runtime!Take(e(w, report), A, {}, {})
    BY Zenon, <1>1, <2>1
  <2>3. Leaves(A, {}, up, gone)
    BY Zenon, <1>1, Quietly
  <2>4. report = "Stopped" => w \notin up
    BY <1>4
  <2> HIDE DEF A, e
  <2>5. Ready(pool, P, up, gone)
    BY <2>3, QuietlyReady
  <2> HIDE DEF P
  <2>6. clock' \in Nat
    BY <1>0, <2>1
  <2>7. Fine(Transition(pool, e(w, report)), P, up, gone)
    BY <1>0, <1>2, <2>4, <2>5, <2>6, FoldInitialization DEF e
  <2>8. QED BY <1>0, <2>1, <2>2, <2>3, <2>7, QuietlyTaken DEF P
<1>5. QED BY Zenon, <1>3, <1>4

\* A worker exits that was asked to, or its exit is noticed.
LEMMA ExitsGuarded ==
    ASSUME Counting, Serving, submitted' = submitted, NEW q \in owed, Runtime!WorkerExits(q)
    PROVE  Guarded'
<1> DEFINE e(w) == [type |-> "WorkerStopped", worker |-> w, kind |-> "Normal",
                    now |-> clock']
           P == (owed \ {q}) \cup {}
<1>0. /\ clock \in Nat /\ submitted' \in 0 .. NJobs /\ \A c \in work : c[1] \in Workers
      /\ owed \subseteq Requests /\ Extern(owed, up, gone) /\ up \cap gone = {}
      /\ "Normal" \in Stops
  BY ServingFacts DEF Stops
<1>1. PICK w \in q.of :
         /\ q.op \in {"exit", "notice"}
         /\ IF q.op = "exit" THEN /\ up' = up \ q.of /\ gone' = gone \cup q.of
                                  /\ clock' = clock + 1
            ELSE up' = up /\ gone' = gone /\ clock' = clock
         /\ Runtime!Take(e(w), {q}, {}, {})
  BY DEF Runtime!WorkerExits, Runtime!Exits
<1>2. w \in Workers
  BY <1>0 DEF Requests
<1>3. CASE q.op = "exit"
  <2>1. q.of = {w} /\ q = Req("exit", {w}, 0)
    <3>1. PICK v \in up : q = Req("exit", {v}, 0)
      BY <1>0, <1>3 DEF Extern
    <3>2. q.of = {v}
      BY <3>1 DEF Req
    <3>3. QED BY <3>1, <3>2
  <2>2. up' = up \ {w} /\ gone' = gone \cup {w} /\ clock' = clock + 1
    BY <1>1, <1>3, <2>1
  <2>3. Req("exit", {w}, 0) \in {q} /\ Others({q}) /\ {} \subseteq {Req("notice", {w}, 0)}
    BY <1>3, <2>1 DEF Others
  <2>4. /\ Ready(pool, P, up \ {w}, gone \cup {w}) /\ Extern(P, up \ {w}, gone \cup {w})
        /\ (up \ {w}) \cap (gone \cup {w}) = {}
    <3> DEFINE A == {q}
    <3>1. Req("exit", {w}, 0) \in A /\ Others(A) /\ P = (owed \ A) \cup {}
      BY <2>3
    <3> HIDE DEF A, P
    <3>2. QED BY Zenon, <1>2, <2>3, <3>1, Departs
  <2> HIDE DEF P
  <2>5. Ready(pool, P, up', gone') /\ Extern(P, up', gone') /\ up' \cap gone' = {}
    BY Zenon, <2>2, <2>4
  <2>6. clock' \in Nat /\ w \notin up' /\ w \in gone'
    BY <1>0, <2>2
  <2>7. Fine(Transition(pool, e(w)), P, up', gone')
    BY <1>0, <1>2, <2>5, <2>6, FoldStop
  <2> HIDE DEF e
  <2>8. P = (owed \ {q}) \cup {}
    BY DEF P
  <2>9. QED BY <1>0, <1>1, <2>5, <2>6, <2>7, <2>8, CustodyTaken
<1>4. CASE q.op = "notice"
  <2>1. up' = up /\ gone' = gone /\ clock' = clock
    BY <1>1, <1>4
  <2>2. w \in gone /\ w \notin up
    BY <1>0, <1>4 DEF Extern
  <2>3. Leaves({q}, {}, up, gone)
    BY Zenon, <1>4, Quietly
  <2>4. Ready(pool, P, up, gone)
    BY <2>3, QuietlyReady
  <2>5. clock' \in Nat
    BY <1>0, <2>1
  <2> HIDE DEF P
  <2>6. Fine(Transition(pool, e(w)), P, up, gone)
    BY <1>0, <1>2, <2>2, <2>4, <2>5, FoldStop
  <2> HIDE DEF e
  <2>7. QED BY <1>0, <1>1, <2>1, <2>3, <2>6, QuietlyTaken DEF P
<1>5. QED BY <1>1, <1>3, <1>4

\* Every step of the system keeps the custody.
LEMMA NextGuarded ==
    ASSUME Counting, Guarded, [Next]_vars
    PROVE  Guarded'
<1>1. CASE UNCHANGED vars
  BY <1>1 DEF vars, Guarded
<1>2. CASE Next
  <2>1. /\ Serving
        /\ \/ Runtime!Submit \/ Runtime!ShutdownPool
           \/ submitted' = submitted /\ Runtime!Settlement
           \/ submitted' = submitted /\ Runtime!Completion
           \/ submitted' = submitted /\ Runtime!Failure
    BY <1>2 DEF Next, Runtime!RuntimeNext, Serving
  <2>2. CASE submitted' = submitted /\ Runtime!Settlement
    <3>1. PICK q \in owed :
             \/ Runtime!WorkerCreationsSettled(q)
             \/ Runtime!WorkerCreationBatchRejected(q)
             \/ Runtime!WorkerInitialization(q)
             \/ Runtime!WorkerStartup(q)
             \/ Runtime!AssignmentSettled(q)
             \/ Runtime!WorkerShutdownSettled(q)
             \/ Runtime!WorkerExits(q)
             \/ Runtime!WorkerPreparationStarted(q)
             \/ Runtime!WorkerPreparationReturned(q)
             \/ Runtime!ScheduleSettled(q)
             \/ Runtime!TimerElapsed(q)
      BY <2>2 DEF Runtime!Settlement
    <3>2. QED BY <2>1, <2>2, <3>1, CreationsGuarded, BatchGuarded, InitializationGuarded,
                 StartupGuarded, AssignmentGuarded, ShutdownSettledGuarded, ExitsGuarded,
                 PreparationStartGuarded, PreparationReturnGuarded, ScheduleGuarded,
                 ElapsedGuarded
  <2>3. QED BY <2>1, <2>2, SubmitGuarded, ShutdownGuarded, CompletionGuarded, FailureGuarded
<1>3. QED BY <1>1, <1>2

\* The initial states: the whole roster is being created and nothing runs.
LEMMA InitGuarded ==
    ASSUME Init
    PROVE  Guarded
<1> DEFINE members == [r \in Roles |-> Start(1)]
           told == [j \in Jobs |-> <<>>]
           batch == {<<r, 1>> : r \in Roles}
           q == Req("create", batch, NoJob)
<1>1. PICK c \in Configs : pool = Started(c)
  BY DEF Init
<1>2. /\ submitted = 0 /\ clock = 0 /\ work = {} /\ up = {} /\ gone = {} /\ owed = {q}
  BY DEF Init, Runtime!RuntimeInit
<1>3. /\ pool.mode = "Operating" /\ pool.member = members /\ pool.source = "Available"
      /\ pool.sent = {}
  BY <1>1 DEF Started
<1>4. Start(1) \in Members /\ Start(1).at = "Creating" /\ Start(1).n = 1
      /\ Start(1).sub = NoSub /\ Start(1).stop = NoStop
  <2>1. "Creating" \in States /\ NoStop \in Stops /\ NoSub \in Subs /\ NoSub \in Custodies
        /\ NoJob \in 0 .. NJobs
    BY Names
  <2>2. QED BY <2>1 DEF Start, Members
<1>5. /\ members \in [Roles -> Members]
      /\ \A r \in Roles : /\ pool.member[r].at = "Creating" /\ pool.member[r].n = 1
                          /\ pool.member[r].sub = NoSub /\ pool.member[r].stop = NoStop
  BY Zenon, <1>3, <1>4
<1>6. pool \in Wide
  <2>1. /\ 0 \in 0 .. NRoles /\ "Unlimited" \in Deadlines /\ <<>> \in Seq(Charges)
        /\ MaxJobs \in Int /\ MaxAssignments \in Int /\ MaxShutdowns \in Int
        /\ MaxCreations \in Int /\ MaxTimers \in Int
    BY PoolAssumption DEF Deadlines
  <2>2. told \in [Jobs -> Seq(Words)]
    OBVIOUS
  <2> HIDE DEF members, told
  <2> DEFINE started == [mode |-> "Operating", member |-> members,
                         backlog |-> {}, retried |-> {}, cursor |-> 0, source |-> "Available",
                         charges |-> <<>>, deadline |-> "Unlimited", conf |-> c,
                         jobs |-> MaxJobs, assignments |-> MaxAssignments, shutdowns |-> MaxShutdowns,
                         creations |-> MaxCreations, timers |-> MaxTimers,
                         sent |-> {}, told |-> told]
  <2>3. pool = started
    BY Zenon, <1>1 DEF Started, members, told
  <2>4. /\ "Operating" \in {"Operating", "Draining", "Stopped", "ForcedRetirement"}
        /\ "Available" \in {"Available", "AwaitingReturn"}
        /\ {} \in SUBSET (0 .. NJobs) /\ {} \in SUBSET Requests
    BY Zenon
  <2>5. started \in Wide
    BY Zenon, <1>5, <2>1, <2>2, <2>4 DEF Wide
  <2>6. QED BY Zenon, <2>3, <2>5
<1> HIDE DEF members, told
<1>7. /\ q \in Requests /\ q.op = "create" /\ q.of = batch /\ batch \subseteq Workers
  BY PoolAssumption DEF Req, Requests, Ops, Workers, NoJob
<1>8. batch # {}
  <2>1. 1 \in Roles
    BY PoolAssumption DEF Roles
  <2>2. QED BY Zenon, <2>1
<1>9. owed \cup pool.sent = {q}
  BY <1>2, <1>3
<1>10. \A w \in batch : Holds(pool, w, Newborn)
  BY <1>5 DEF Holds, Newborn
<1> HIDE DEF batch, q
<1>11. Formed({q}, {})
  BY <1>7, <1>8 DEF Formed
<1>12. Followed(pool, up)
  BY <1>2 DEF Followed
<1>13. Awaited(pool, {q}, gone)
  BY <1>5, <1>7, <1>10 DEF Awaited
<1>14. Lent(pool, {q})
  <2>1. \A r \in Roles : pool.member[r].at \notin Borrower
    BY <1>5 DEF Borrower
  <2>2. QED BY <1>3, <1>7, <2>1 DEF Lent
<1>15. Custody(pool, owed, up, gone)
  BY <1>2, <1>3, <1>6, <1>7, <1>9, <1>11, <1>12, <1>13, <1>14 DEF Custody
<1>16. Fine(pool, owed, up, gone)
  BY <1>3, <1>5, <1>15 DEF Fine, Run, Claimed, MemberStates
<1>17. Extern(owed, up, gone)
  BY <1>2, <1>7 DEF Extern
<1>18. QED BY <1>2, <1>3, <1>16, <1>17, PoolAssumption DEF Guarded

\* The invariant says that the source and the workers are in custody.
LEMMA GuardedCustody ==
    ASSUME Counting, Guarded
    PROVE  PoolCustody
<1> DEFINE borrowers == {r \in Roles : pool.member[r].at \in {"Preparing", "AwaitingPreparation"}}
           loans == {q \in owed : q.op \in {"prepare", "prepared"}}
<1>0. /\ Fine(pool, owed, up, gone) /\ Custody(pool, owed, up, gone) /\ pool.sent = {}
      /\ Extern(owed, up, gone) /\ pool \in Wide
  BY DEF Guarded, Fine, Run, Over, Custody
<1>1. /\ Followed(pool, up) /\ Awaited(pool, owed, gone) /\ Lent(pool, owed)
      /\ Formed(owed, {}) /\ owed \subseteq Requests
  <2>1. owed \cup pool.sent = owed
    BY <1>0
  <2>2. QED BY <1>0, <2>1 DEF Custody
<1>2. pool.source = "Available" => borrowers = {} /\ loans = {}
  BY <1>1 DEF Lent, Borrower
<1>3. pool.source # "Available" => \E r : borrowers = {r} /\ loans = {Loan(pool, r)}
  <2>1. SUFFICES ASSUME pool.source # "Available"
                 PROVE  \E r : borrowers = {r} /\ loans = {Loan(pool, r)}
    OBVIOUS
  <2>2. pool.source = "AwaitingReturn"
    BY <1>0, <2>1 DEF Wide
  <2>3. PICK r \in Roles : pool.member[r].at \in Borrower
    BY <1>1, <2>2 DEF Lent
  <2>4. borrowers = {r}
    BY <1>1, <2>3 DEF Lent, Borrower
  <2>5. Loan(pool, r) \in owed /\ Loan(pool, r).op \in {"prepare", "prepared"}
    BY <1>1, <2>3 DEF Lent, Loan, Req
  <2>6. \A q \in loans : q = Loan(pool, r)
    BY <1>1, <2>3 DEF Lent
  <2>7. loans = {Loan(pool, r)}
    BY <2>5, <2>6
  <2>8. QED BY <2>4, <2>7
<1>4. /\ Cardinality(borrowers) = IF pool.source = "Available" THEN 0 ELSE 1
      /\ Cardinality(loans) = Cardinality(borrowers)
  <2>1. Cardinality({}) = 0 /\ \A x : Cardinality({x}) = 1
    BY Zenon, CountEmpty, CountSingleton
  <2> HIDE DEF borrowers, loans
  <2>2. QED BY Zenon, <1>2, <1>3, <2>1
<1>5. (\E r \in Roles : pool.member[r].at = "WaitingForSource") => pool.source = "AwaitingReturn"
  BY <1>0 DEF Fine, Run, Claimed, Over, RetirementStatuses
<1>6. SourceCustody
  BY <1>4, <1>5 DEF SourceCustody
<1>7. \A w \in up : /\ pool.member[w[1]].n = w[2]
                    /\ pool.member[w[1]].at \in WorkerPhases \cup {"Established"}
  BY <1>1 DEF Followed, Current, Live
<1>8. pool.mode = "Stopped" => up = {} /\ \A q \in owed : q.op \notin {"create", "exit"}
  <2>1. SUFFICES ASSUME pool.mode = "Stopped"
                 PROVE  up = {} /\ \A q \in owed : q.op \notin {"create", "exit"}
    OBVIOUS
  <2>2. \A r \in Roles : pool.member[r].at \in {"Drained", "Departed"}
    BY <1>0, <2>1 DEF Fine, Run, Over, Waiting
  <2>3. up = {}
    BY <1>1, <1>7, <2>2 DEF Followed, Workers, WorkerPhases
  <2>4. ASSUME NEW q \in owed, q.op = "create" PROVE FALSE
    <3>1. PICK w \in q.of : Holds(pool, w, Newborn)
      BY <1>1, <2>4 DEF Formed, Awaited
    <3>2. w[1] \in Roles
      BY <1>1 DEF Requests, Workers
    <3>3. QED BY <2>2, <3>1, <3>2 DEF Holds, Newborn
  <2>5. ASSUME NEW q \in owed, q.op = "exit" PROVE FALSE
    BY <1>0, <2>3, <2>5 DEF Extern
  <2>6. QED BY <2>3, <2>4, <2>5
<1>9. WorkerCustody
  BY <1>7, <1>8 DEF WorkerCustody
<1>10. QED BY <1>6, <1>9 DEF PoolCustody

-----------------------------------------------------------------------------
(* The facts about numbers and finite sets, from the library.                *)

Sets == INSTANCE FiniteSetTheorems

\* The library's sets, sizes and injections are those of the pool.
LEMMA SameSets ==
    /\ \A S : Sets!IsFiniteSet(S) = IsFiniteSet(S)
    /\ \A S : Sets!Cardinality(S) = Cardinality(S)
    /\ \A S, T : Sets!Injection(S, T) = Injection(S, T)
<1>1. \A S : Sets!IsFiniteSet(S) = IsFiniteSet(S)
  BY Zenon DEF Sets!IsFiniteSet, IsFiniteSet
<1>2. \A S : Sets!Cardinality(S) = Cardinality(S)
  BY Zenon DEF Sets!Cardinality, Cardinality
<1>3. \A S, T : Sets!Injection(S, T) = Injection(S, T)
  BY Zenon DEF Sets!Injection, Injection, Sets!IsInjective, IsInjective
<1>4. QED BY Zenon, <1>1, <1>2, <1>3

\* A nonempty set of numbers has a least element.
LEMMA LeastNumber ==
    ASSUME NEW T, T \subseteq Nat, T # {}
    PROVE  \E x \in T : \A y \in T : x <= y
<1>1. \E x \in T : \A y \in T : ~(<<y, x>> \in Sets!OpToRel(<, Nat))
  BY Zenon, Sets!NatLessThanWellFounded, Sets!WFMin
<1>2. \A x, y \in Nat : <<y, x>> \in Sets!OpToRel(<, Nat) <=> y < x
  BY DEF Sets!OpToRel
<1>3. \E x \in T : \A y \in T : ~(y < x)
  BY Zenon, <1>1, <1>2
<1>4. QED BY <1>3

\* The facts the steps rest on.
LEMMA Counts == Counting
<1>1. \A T : T \subseteq Nat /\ T # {} => \E x \in T : \A y \in T : x <= y
  BY Zenon, LeastNumber
<1>2. \A a, b \in Int :
         IsFiniteSet(a .. b) /\ Cardinality(a .. b) = IF a > b THEN 0 ELSE b - a + 1
  BY SameSets, Sets!FS_Interval
<1>3. /\ \A S : IsFiniteSet(S) => Cardinality(S) \in Nat
      /\ \A S : IsFiniteSet(S) =>
            \A T \in SUBSET S : IsFiniteSet(T) /\ Cardinality(T) <= Cardinality(S)
  BY Zenon, SameSets, Sets!FS_CardinalityType, Sets!FS_Subset
<1>4. /\ IsFiniteSet({}) /\ Cardinality({}) = 0
      /\ \A x : IsFiniteSet({x}) /\ Cardinality({x}) = 1
  BY Zenon, SameSets, Sets!FS_EmptySet, Sets!FS_Singleton
<1>5. \A S, x : IsFiniteSet(S) =>
         /\ IsFiniteSet(S \cup {x})
         /\ Cardinality(S \cup {x}) = IF x \in S THEN Cardinality(S) ELSE Cardinality(S) + 1
  BY SameSets, Sets!FS_AddElement
<1>6. \A S, x : IsFiniteSet(S) =>
         /\ IsFiniteSet(S \ {x})
         /\ Cardinality(S \ {x}) = IF x \in S THEN Cardinality(S) - 1 ELSE Cardinality(S)
  BY SameSets, Sets!FS_RemoveElement
<1>7. \A S, T : IsFiniteSet(S) /\ IsFiniteSet(T) =>
         Cardinality(S \cup T) = Cardinality(S) + Cardinality(T) - Cardinality(S \cap T)
  BY SameSets, Sets!FS_Union
<1>8. \A S, T : \A f \in Injection(S, T) : IsFiniteSet(T) =>
         IsFiniteSet(S) /\ Cardinality(S) <= Cardinality(T)
  BY Zenon, SameSets, Sets!FS_Injection
<1>9. QED BY Zenon, <1>1, <1>2, <1>3, <1>4, <1>5, <1>6, <1>7, <1>8 DEF Counting

-----------------------------------------------------------------------------
(* The theorems.                                                             *)

\* Guarded is an invariant of the FIFO pool and the runtime around it.
THEOREM PoolGuarded == Spec => []Guarded
<1>1. Guarded /\ [Next]_vars => Guarded'
  BY Counts, NextGuarded
<1>2. QED BY InitGuarded, <1>1, PTL DEF Spec

\* However creations, preparations, exits, timers and shutdowns interleave, the
\* worker source is out with exactly the one role that waits for its return, no
\* role queues for a source that is there, every running worker is the current
\* incarnation of a role that follows it, and a pool that has stopped has outlived
\* its workers and its creations (recovery and draining, templates/pool/queue).
THEOREM CustodyIsKept == Spec => []PoolCustody
<1>1. Guarded => PoolCustody
  BY Counts, GuardedCustody
<1>2. QED BY PoolGuarded, <1>1, PTL
=============================================================================
