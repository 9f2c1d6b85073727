-------------------------- MODULE FifoPoolCustody ---------------------------
(***************************************************************************)
(* What one fold of the FIFO pool keeps: the worker source and every       *)
(* worker stay in the pool's custody, for any roster, any number of jobs   *)
(* and any policies.  Here: the parts the folds are made of, shutdown and  *)
(* the recovery of a role.                                                 *)
(***************************************************************************)
EXTENDS FifoPoolFacts

\* What a customer is told.
Words == {"Accepted", "Completed", "ReturnedAssigned", "ReturnedQueued", "Rejected"}

\* A pool state, whatever its customers were told.
Wide ==
    [mode : {"Operating", "Draining", "Stopped", "ForcedRetirement"},
     member : [Roles -> Members], backlog : SUBSET (0 .. NJobs),
     retried : SUBSET (0 .. NJobs),
     cursor : 0 .. NRoles, source : {"Available", "AwaitingReturn"}, charges : Seq(Charges),
     deadline : Deadlines, conf : Configs, jobs : Int, assignments : Int, shutdowns : Int,
     creations : Int, timers : Int, sent : SUBSET Requests, told : [Jobs -> Seq(Words)]]

Newborn  == {"Creating", "AwaitingCreation"}
Borrower == {"Preparing", "AwaitingPreparation"}

\* A worker with this record may be running: no exit of it was observed.
Live(m) ==
    /\ m.at \in WorkerPhases \cup {"Established"} /\ m.stop = NoStop
    /\ m.sub # "AwaitingSettlement"
    /\ m.at = "Busy" => m.sub \in {"AwaitingReceipt", "Accepted", "CompletionHasPriority"}

\* The request by which a role has the worker source.
Loan(p, r) ==
    Req(IF p.member[r].sub = "Issued" THEN "prepare" ELSE "prepared", {WorkerOf(p, r)}, NoJob)

\* The running workers U are followed.
Followed(p, U) == \A w \in U : w \in Workers /\ Current(p, w) /\ Live(p.member[w[1]])

\* The creations among the requests Q are each awaited, once; of a new worker an
\* exit is recorded only when it is gone, and nothing else.
Awaited(p, Q, G) ==
    /\ \A q \in Q : q.op = "create" => \A w \in q.of : Holds(p, w, Newborn)
    /\ \A q, t \in Q : q.op = "create" /\ t.op = "create" /\ q.of \cap t.of # {} => q = t
    /\ \A r \in Roles : p.member[r].at \in Newborn =>
          p.member[r].sub = NoSub /\ (p.member[r].stop # NoStop => WorkerOf(p, r) \in G)

\* The source is out with one role, by one of the requests Q, or with none.
Lent(p, Q) ==
    /\ \A q \in Q : q.op \in {"prepare", "prepared"} =>
          \E r \in Roles : p.member[r].at \in Borrower /\ q = Loan(p, r)
    /\ \A r \in Roles : p.member[r].at \in Borrower =>
          /\ p.source = "AwaitingReturn" /\ Loan(p, r) \in Q
          /\ p.member[r].sub \in {"Issued", "Started"}
    /\ \A r, t \in Roles : p.member[r].at \in Borrower /\ p.member[t].at \in Borrower => r = t
    /\ p.source = "AwaitingReturn" => \E r \in Roles : p.member[r].at \in Borrower

\* The fold, with the requests S of its own, addresses workers as it should.
Formed(Q, S) ==
    /\ \A q \in Q : /\ q.op \in {"initialize", "shutdown"} => \E w \in Workers : q.of = {w}
                    /\ q.op = "create" => q.of # {}
    /\ \A q \in S : q.op \notin {"exit", "notice"}

\* In the course of a fold: the runtime owes O, the workers U run, G are gone.
Custody(p, O, U, G) ==
    /\ p \in Wide /\ O \subseteq Requests /\ Formed(O \cup p.sent, p.sent)
    /\ Followed(p, U) /\ Awaited(p, O \cup p.sent, G) /\ Lent(p, O \cup p.sent)

-----------------------------------------------------------------------------
(* Steps that leave creations and the source alone.                          *)

\* The requests that concern neither.
Plain ==
    {t \in Requests : /\ t.op \in {"initialize", "start", "assign", "shutdown", "schedule"}
                      /\ t.op \in {"initialize", "shutdown"} => \E w \in Workers : t.of = {w}}

\* What may become of the record m of worker w.
Keeps(m, k, w, U, G) ==
    /\ k.n = m.n
    /\ w \in U => Live(k)
    /\ m.at \in Newborn <=> k.at \in Newborn
    /\ k.at \in Newborn => k.sub = m.sub /\ (k.stop # NoStop => m.stop # NoStop \/ w \in G)

\* The same, and of its loan of the source nothing.
Steady(m, k, w, U, G) ==
    /\ Keeps(m, k, w, U, G)
    /\ m.at \in Borrower <=> k.at \in Borrower
    /\ k.at \in Borrower => k.sub = m.sub

Step(p, q, U, G) ==
    /\ q \in Wide /\ q.source = p.source
    /\ p.sent \subseteq q.sent /\ q.sent \subseteq p.sent \cup Plain
    /\ \A r \in Roles : Steady(p.member[r], q.member[r], WorkerOf(p, r), U, G)

\* The workers that still run are followed.
LEMMA FollowedKept ==
    ASSUME NEW p, NEW q, NEW U, NEW V \in SUBSET U, NEW G, Followed(p, U),
           \A r \in Roles : Keeps(p.member[r], q.member[r], WorkerOf(p, r), V, G)
    PROVE  Followed(q, V)
<1>1. ASSUME NEW w \in V PROVE w \in Workers /\ Current(q, w) /\ Live(q.member[w[1]])
  <2>1. w \in Workers /\ Current(p, w) /\ w[1] \in Roles
    BY DEF Followed, Workers
  <2>2. WorkerOf(p, w[1]) = w
    BY <2>1 DEF WorkerOf, Current, Workers
  <2>3. QED BY <2>1, <2>2 DEF Keeps, Current
<1>2. QED BY <1>1 DEF Followed

\* The creations that are left are awaited.
LEMMA AwaitedKept ==
    ASSUME NEW p, NEW q, NEW Q \in SUBSET Requests, NEW P, NEW U, NEW G, NEW H,
           Awaited(p, Q, G), G \subseteq H, \A t \in P : t.op = "create" => t \in Q,
           \A r \in Roles : Keeps(p.member[r], q.member[r], WorkerOf(p, r), U, H)
    PROVE  Awaited(q, P, H)
<1>1. ASSUME NEW t \in P, t.op = "create", NEW w \in t.of
      PROVE  Holds(q, w, Newborn)
  <2>1. t \in Q /\ Holds(p, w, Newborn)
    BY <1>1 DEF Awaited
  <2>2. w[1] \in Roles
    BY <1>1, <2>1 DEF Requests, Workers
  <2>3. QED BY <2>1, <2>2 DEF Holds, Keeps
<1>2. ASSUME NEW r \in Roles, q.member[r].at \in Newborn
      PROVE  q.member[r].sub = NoSub /\ (q.member[r].stop # NoStop => WorkerOf(q, r) \in H)
  BY Zenon, <1>2 DEF Awaited, Keeps, WorkerOf
<1>3. QED BY <1>1, <1>2 DEF Awaited

\* Such a step keeps the custody.
LEMMA StepKept ==
    ASSUME NEW p, NEW q, NEW O, NEW U, NEW G, Custody(p, O, U, G), Step(p, q, U, G)
    PROVE  Custody(q, O, U, G)
<1>0. \A t \in Plain : t.op \notin {"create", "prepare", "prepared"}
  BY DEF Plain
<1>1. /\ \A r \in Roles : Steady(p.member[r], q.member[r], WorkerOf(p, r), U, G)
      /\ \A r \in Roles : WorkerOf(q, r) = WorkerOf(p, r)
      /\ \A t \in O \cup q.sent : t \in O \cup p.sent \/ t \in Plain
      /\ O \cup p.sent \subseteq O \cup q.sent
      /\ q.source = p.source
  BY Zenon DEF Step, Steady, Keeps, WorkerOf
<1>2. Followed(q, U)
  <2>1. U \in SUBSET U /\ Followed(p, U)
    BY DEF Custody
  <2>2. QED BY Zenon, <1>1, <2>1, FollowedKept DEF Steady
<1>3. Awaited(q, O \cup q.sent, G)
  <2>1. Awaited(p, O \cup p.sent, G) /\ O \cup p.sent \in SUBSET Requests /\ G \subseteq G
    BY DEF Custody, Wide
  <2>2. \A t \in O \cup q.sent : t.op = "create" => t \in O \cup p.sent
    BY <1>0, <1>1
  <2>3. QED BY Zenon, <1>1, <2>1, <2>2, AwaitedKept DEF Steady
<1>4. Lent(q, O \cup q.sent)
  <2>0. Lent(p, O \cup p.sent)
    BY DEF Custody
  <2>1. \A r \in Roles :
           /\ p.member[r].at \in Borrower <=> q.member[r].at \in Borrower
           /\ p.member[r].at \in Borrower =>
                 Loan(q, r) = Loan(p, r) /\ q.member[r].sub = p.member[r].sub
    BY <1>1 DEF Steady, Keeps, Loan
  <2>2. ASSUME NEW t \in O \cup q.sent, t.op \in {"prepare", "prepared"}
        PROVE  \E r \in Roles : q.member[r].at \in Borrower /\ t = Loan(q, r)
    <3>1. t \in O \cup p.sent
      BY <1>0, <1>1, <2>2
    <3>2. PICK r \in Roles : p.member[r].at \in Borrower /\ t = Loan(p, r)
      BY <2>0, <2>2, <3>1 DEF Lent
    <3>3. QED BY Zenon, <2>1, <3>2
  <2>3. ASSUME NEW r \in Roles, q.member[r].at \in Borrower
        PROVE  /\ q.source = "AwaitingReturn" /\ Loan(q, r) \in O \cup q.sent
               /\ q.member[r].sub \in {"Issued", "Started"}
    <3>1. p.member[r].at \in Borrower
      BY Zenon, <2>1, <2>3
    <3>2. QED BY Zenon, <1>1, <2>0, <2>1, <3>1 DEF Lent
  <2>4. QED BY Zenon, <1>1, <2>0, <2>1, <2>2, <2>3 DEF Lent
<1>5. Formed(O \cup q.sent, q.sent)
  BY <1>0 DEF Custody, Formed, Step, Plain
<1>6. QED BY <1>2, <1>3, <1>4, <1>5 DEF Custody, Step

-----------------------------------------------------------------------------
(* The parts of a fold of an operating pool.                                 *)

Run(p, O, U, G) ==
    /\ Custody(p, O, U, G) /\ p.mode = "Operating"
    /\ \A r \in Roles : p.member[r].at \in MemberStates

\* Nobody queues for a source that is there.
Claimed(p) == p.source = "AwaitingReturn" \/ \A r \in Roles : p.member[r].at # "WaitingForSource"

\* q follows p in a fold.
Onward(p, q, O, U, G) == Run(q, O, U, G) /\ q.conf = p.conf /\ (Claimed(p) => Claimed(q))

Calm(p, q, U, G) ==
    /\ Step(p, q, U, G) /\ q.mode = p.mode /\ q.conf = p.conf
    /\ \A r \in Roles :
          /\ q.member[r].at \in MemberStates
          /\ q.member[r].at = "WaitingForSource" =>
                p.member[r].at = "WaitingForSource" \/ p.source = "AwaitingReturn"

\* A step that leaves creations and the source alone goes on with the fold.
LEMMA CalmOn ==
    ASSUME NEW p, NEW q, NEW O, NEW U, NEW G, Run(p, O, U, G), Calm(p, q, U, G)
    PROVE  Onward(p, q, O, U, G)
<1>1. Custody(q, O, U, G)
  BY StepKept DEF Run, Calm
<1>2. Run(q, O, U, G)
  BY <1>1 DEF Run, Calm
<1>3. Claimed(p) => Claimed(q)
  BY DEF Claimed, Calm, Step
<1>4. QED BY <1>2, <1>3 DEF Onward, Calm

\* The record of a worker stays as it is.
LEMMA SteadySame ==
    ASSUME NEW p, NEW O, NEW U, NEW G, Custody(p, O, U, G), NEW r \in Roles
    PROVE  Steady(p.member[r], p.member[r], WorkerOf(p, r), U, G)
<1>1. p.member[r].n \in Nat
  BY DEF Custody, Wide, Members
<1>2. WorkerOf(p, r) \in U => Live(p.member[r])
  BY DEF Custody, Followed, WorkerOf
<1>3. QED BY <1>2 DEF Steady, Keeps

\* Only backlog, customers and counters change.
Same(p, q) ==
    /\ q \in Wide /\ q.member = p.member /\ q.source = p.source /\ q.sent = p.sent
    /\ q.mode = p.mode /\ q.conf = p.conf

\* Such a step goes on with the fold.
LEMMA SameOn ==
    ASSUME NEW p, NEW q, NEW O, NEW U, NEW G, Run(p, O, U, G), Same(p, q)
    PROVE  Onward(p, q, O, U, G)
<1>1. \A r \in Roles : Steady(p.member[r], q.member[r], WorkerOf(p, r), U, G)
  BY SteadySame DEF Run, Same
<1>2. Calm(p, q, U, G)
  BY <1>1 DEF Calm, Step, Same, Run
<1>3. QED BY <1>2, CalmOn

\* One role's record is replaced.
LEMMA WithOn ==
    ASSUME NEW p, NEW O, NEW U, NEW G, Run(p, O, U, G), NEW r \in Roles, NEW k \in Members,
           Steady(p.member[r], k, WorkerOf(p, r), U, G), k.at \in MemberStates,
           k.at = "WaitingForSource" => p.source = "AwaitingReturn"
    PROVE  Onward(p, With(p, r, k), O, U, G) /\ With(p, r, k) \in Wide
<1> DEFINE q == With(p, r, k)
<1>0. p \in Wide
  BY DEF Run, Custody
<1>1. /\ q \in Wide /\ q.source = p.source /\ q.sent = p.sent /\ q.mode = p.mode
      /\ q.conf = p.conf /\ q.member = [p.member EXCEPT ![r] = k]
  BY Zenon, <1>0 DEF With, Wide
<1>2. p.member \in [Roles -> Members]
  BY <1>0 DEF Wide
<1> HIDE DEF q
<1>3. \A t \in Roles : q.member[t] = IF t = r THEN k ELSE p.member[t]
  BY <1>1, <1>2
<1>4. \A t \in Roles : Steady(p.member[t], q.member[t], WorkerOf(p, t), U, G)
  BY Zenon, <1>3, SteadySame DEF Run
<1>5. Step(p, q, U, G)
  BY Zenon, <1>1, <1>4 DEF Step
<1>6. Calm(p, q, U, G)
  BY <1>1, <1>3, <1>5 DEF Calm, Run
<1>7. QED BY <1>1, <1>6, CalmOn DEF q

\* A request that is about neither joins those of the fold.
LEMMA SendOn ==
    ASSUME NEW p, NEW O, NEW U, NEW G, Run(p, O, U, G), NEW r \in Roles,
           NEW op \in {"initialize", "start", "assign", "shutdown", "schedule"},
           NEW j \in 0 .. NJobs
    PROVE  Onward(p, Send(p, op, r, j), O, U, G) /\ Send(p, op, r, j) \in Wide
<1> DEFINE q == Send(p, op, r, j)
           t == Req(op, {WorkerOf(p, r)}, j)
<1>0. p \in Wide /\ p.member[r].n \in Nat
  BY DEF Run, Custody, Wide, Members
<1>1. t \in Plain
  <2>1. WorkerOf(p, r) \in Workers
    BY <1>0 DEF WorkerOf, Workers
  <2>2. QED BY <2>1 DEF Plain, Requests, Req, Ops
<1>2. t \in Requests
  BY <1>1 DEF Plain
<1>3. /\ q \in Wide /\ q.source = p.source /\ q.sent = p.sent \cup {t} /\ q.mode = p.mode
      /\ q.conf = p.conf /\ q.member = p.member
  BY Zenon, <1>0, <1>2 DEF Send, Wide
<1> HIDE DEF q, t
<1>4. \A s \in Roles : Steady(p.member[s], q.member[s], WorkerOf(p, s), U, G)
  BY Zenon, <1>3, SteadySame DEF Run
<1>5. Step(p, q, U, G)
  BY <1>1, <1>3, <1>4 DEF Step
<1>6. Calm(p, q, U, G)
  BY <1>3, <1>5 DEF Calm, Run
<1>7. QED BY <1>3, <1>6, CalmOn DEF q

\* Updates of the backlog, of the customers and of the identifiers left.
LEMMA SameUpdates ==
    ASSUME NEW p \in Wide
    PROVE  /\ \A j, t : t \in Words => Same(p, Deliver(p, j, t))
           /\ \A J : \A t \in Words : Same(p, DeliverAll(p, J, t))
           /\ \A j \in 0 .. NJobs : Same(p, Requeue(p, j))
           /\ \A j \in 0 .. NJobs : Same(p, [p EXCEPT !.backlog = @ \cup {j}])
           /\ \A j : Same(p, [p EXCEPT !.backlog = @ \ {j}, !.retried = @ \ {j}])
           /\ Same(p, [p EXCEPT !.backlog = {}, !.retried = {}])
           /\ Same(p, [p EXCEPT !.jobs = @ - 1])
           /\ Same(p, [p EXCEPT !.shutdowns = @ - 1])
           /\ \A r \in Roles : Same(p, [p EXCEPT !.assignments = @ - 1, !.cursor = r])
<1>1. ASSUME NEW j, NEW t \in Words PROVE Same(p, Deliver(p, j, t))
  <2> DEFINE f == [i \in Jobs |-> IF i = j THEN Append(p.told[i], t) ELSE p.told[i]]
  <2>1. p.told \in [Jobs -> Seq(Words)]
    BY DEF Wide
  <2>2. \A i \in Jobs : Append(p.told[i], t) \in Seq(Words)
    BY <2>1
  <2>3. f \in [Jobs -> Seq(Words)]
    BY Zenon, <2>1, <2>2
  <2>4. [p.told EXCEPT ![j] = Append(@, t)] = f
    BY Zenon, <2>1
  <2>5. Deliver(p, j, t) = [p EXCEPT !.told = f]
    BY Zenon, <2>4 DEF Deliver
  <2> HIDE DEF f
  <2>6. QED BY Zenon, <2>3, <2>5 DEF Wide, Same
<1>2. ASSUME NEW J, NEW t \in Words PROVE Same(p, DeliverAll(p, J, t))
  <2> DEFINE f == [j \in Jobs |-> IF j \in J THEN Append(p.told[j], t) ELSE p.told[j]]
  <2>1. \A j \in Jobs : p.told[j] \in Seq(Words)
    BY DEF Wide
  <2>2. \A j \in Jobs : Append(p.told[j], t) \in Seq(Words)
    BY <2>1
  <2>3. f \in [Jobs -> Seq(Words)]
    BY Zenon, <2>1, <2>2
  <2>4. DeliverAll(p, J, t) = [p EXCEPT !.told = f]
    BY DEF DeliverAll, Wide
  <2> HIDE DEF f
  <2>5. QED BY Zenon, <2>3, <2>4 DEF Wide, Same
<1>3. ASSUME NEW j \in 0 .. NJobs
      PROVE  Same(p, Requeue(p, j)) /\ Same(p, [p EXCEPT !.backlog = @ \cup {j}])
  <2>1. p.backlog \cup {j} \in SUBSET (0 .. NJobs) /\ p.retried \cup {j} \in SUBSET (0 .. NJobs)
    BY DEF Wide
  <2>2. QED BY Zenon, <2>1 DEF Requeue, Wide, Same
<1>4. ASSUME NEW j PROVE Same(p, [p EXCEPT !.backlog = @ \ {j}, !.retried = @ \ {j}])
  <2>1. p.backlog \ {j} \in SUBSET (0 .. NJobs) /\ p.retried \ {j} \in SUBSET (0 .. NJobs)
    BY DEF Wide
  <2>2. QED BY Zenon, <2>1 DEF Wide, Same
<1>5. Same(p, [p EXCEPT !.backlog = {}, !.retried = {}])
  BY Zenon DEF Wide, Same
<1>6. /\ p.jobs - 1 \in Int /\ p.shutdowns - 1 \in Int /\ p.assignments - 1 \in Int
      /\ \A r \in Roles : r \in 0 .. NRoles
  BY DEF Wide, Roles
<1>7. /\ Same(p, [p EXCEPT !.jobs = @ - 1]) /\ Same(p, [p EXCEPT !.shutdowns = @ - 1])
      /\ \A r \in Roles : Same(p, [p EXCEPT !.assignments = @ - 1, !.cursor = r])
  BY Zenon, <1>6 DEF Wide, Same
<1>8. QED BY Zenon, <1>1, <1>2, <1>3, <1>4, <1>5, <1>7

\* Two stretches of a fold.
LEMMA OnwardTwice ==
    ASSUME NEW p, NEW q, NEW t, NEW O, NEW U, NEW G,
           Onward(p, q, O, U, G), Onward(q, t, O, U, G)
    PROVE  Onward(p, t, O, U, G)
BY DEF Onward

\* The search finds an idle role or none.
LEMMA Spare ==
    ASSUME Counting, NEW p \in Wide, AvailablePosition(p) # 0
    PROVE  AvailablePosition(p) \in Roles /\ p.member[AvailablePosition(p)].at = "Idle"
<1> DEFINE Spot(o) == ((p.cursor + o) % NRoles) + 1
           idle == {o \in 0 .. NRoles - 1 : p.member[Spot(o)].at = "Idle"}
<1>0. NRoles \in Nat /\ p.cursor \in 0 .. NRoles
  BY PoolAssumption DEF Wide
<1>1. \A o \in 0 .. NRoles - 1 : Spot(o) \in Roles
  BY <1>0 DEF Roles
<1>2. idle # {} /\ AvailablePosition(p) = Spot(Min(idle))
  BY DEF AvailablePosition
<1>3. idle \subseteq Nat
  BY <1>0
<1>4. Min(idle) \in idle
  BY <1>2, <1>3, Least, Zenon
<1>5. QED BY <1>1, <1>2, <1>4, Zenon

\* A job is handed to an idle role.
LEMMA DispatchOn ==
    ASSUME NEW p, NEW O, NEW U, NEW G, Run(p, O, U, G), NEW r \in Roles, NEW j \in 0 .. NJobs,
           p.member[r].at = "Idle"
    PROVE  Onward(p, DispatchTo(p, r, j), O, U, G)
<1> DEFINE m == p.member[r]
           k == Assign(m, j)
           q == With(p, r, k)
           u == [q EXCEPT !.assignments = @ - 1, !.cursor = r]
<1>0. p \in Wide /\ m \in Members
  BY DEF Run, Custody, Wide
<1>1. /\ k \in Members /\ k.at = "Busy" /\ k.n = m.n /\ k.stop = m.stop
      /\ k.sub = "AwaitingReceipt"
  <2>1. "Busy" \in States /\ "AwaitingReceipt" \in Subs
    BY Names
  <2>2. QED BY Zenon, <1>0, <2>1 DEF Assign, Members
<1>2. Steady(m, k, WorkerOf(p, r), U, G)
  <2>1. WorkerOf(p, r) \in U => Live(m)
    BY SteadySame DEF Run, Steady, Keeps
  <2>2. QED BY <1>1, <2>1 DEF Steady, Keeps, Live, Newborn, Borrower, WorkerPhases
<1> HIDE DEF k
<1>3. k.at \in MemberStates /\ k.at # "WaitingForSource"
  BY <1>1 DEF MemberStates, WorkerPhases
<1>4. Onward(p, q, O, U, G) /\ q \in Wide
  BY <1>1, <1>2, <1>3, WithOn
<1> HIDE DEF q
<1>5. Onward(q, u, O, U, G)
  <2>1. Same(q, u)
    BY Zenon, <1>4, SameUpdates
  <2> HIDE DEF u
  <2>2. QED BY <1>4, <2>1, SameOn DEF Onward
<1>6. DispatchTo(p, r, j) = Send(u, "assign", r, j)
  BY DEF DispatchTo, u, q, k
<1> HIDE DEF u
<1>7. Onward(u, DispatchTo(p, r, j), O, U, G)
  <2>1. Run(u, O, U, G)
    BY <1>5 DEF Onward
  <2>2. Onward(u, Send(u, "assign", r, j), O, U, G)
    BY <2>1, SendOn
  <2>3. QED BY Zenon, <1>6, <2>2
<1>8. QED BY <1>4, <1>5, <1>7, OnwardTwice

\* One job of the queue is handed out or returned.
LEMMA FillOneOn ==
    ASSUME Counting, NEW p, NEW O, NEW U, NEW G, Run(p, O, U, G)
    PROVE  Onward(p, FillOne(p), O, U, G)
<1> DEFINE j == Min(p.backlog)
           r == AvailablePosition(p)
           q == [p EXCEPT !.backlog = @ \ {j}, !.retried = @ \ {j}]
           t == IF j \in p.retried THEN "ReturnedAssigned" ELSE "ReturnedQueued"
<1>0. p \in Wide
  BY DEF Run, Custody
<1>1. CASE r = 0 \/ p.backlog = {}
  <2>1. FillOne(p) = p
    BY <1>1 DEF FillOne
  <2>2. QED BY <2>1 DEF Onward
<1>2. CASE r # 0 /\ p.backlog # {}
  <2>1. p.backlog \subseteq Nat /\ p.backlog \subseteq 0 .. NJobs
    BY <1>0 DEF Wide
  <2>2. j \in 0 .. NJobs
    BY Zenon, <1>2, <2>1, Least
  <2>3. r \in Roles /\ p.member[r].at = "Idle"
    BY <1>0, <1>2, Spare
  <2>4. Same(p, q)
    BY Zenon, <1>0, SameUpdates
  <2>5. FillOne(p) = IF p.assignments > 0 THEN DispatchTo(q, r, j) ELSE Deliver(q, j, t)
    BY <1>2 DEF FillOne
  <2>6. t \in Words
    BY DEF Words
  <2> HIDE DEF j, r, q, t
  <2>7. Onward(p, q, O, U, G)
    BY <2>4, SameOn
  <2>8. Onward(q, DispatchTo(q, r, j), O, U, G)
    BY <2>2, <2>3, <2>4, <2>7, DispatchOn DEF Same, Onward
  <2>9. Onward(q, Deliver(q, j, t), O, U, G)
    <3>1. Same(q, Deliver(q, j, t))
      <4>1. q \in Wide
        BY <2>4 DEF Same
      <4>2. \A x, y : y \in Words => Same(q, Deliver(q, x, y))
        BY Zenon, <4>1, SameUpdates
      <4>3. QED BY Zenon, <2>6, <4>2
    <3>2. QED BY <2>7, <3>1, SameOn DEF Onward
  <2>10. QED BY <2>5, <2>7, <2>8, <2>9, OnwardTwice
<1>3. QED BY <1>1, <1>2

\* The queue is served.
LEMMA FillFifoOn ==
    ASSUME Counting, NEW p, NEW O, NEW U, NEW G, Run(p, O, U, G)
    PROVE  Onward(p, FillFifo(p), O, U, G)
<1> DEFINE S == {q \in Wide : Onward(p, q, O, U, G)}
<1>1. p \in S
  BY DEF Onward, Run, Custody
<1>2. ASSUME NEW q \in S PROVE FillOne(q) \in S
  <2>1. Onward(q, FillOne(q), O, U, G)
    BY FillOneOn DEF Onward
  <2>2. Onward(p, FillOne(q), O, U, G)
    BY <2>1, OnwardTwice
  <2>3. QED BY <2>2 DEF Onward, Run, Custody
<1> HIDE DEF S
<1>3. \E f \in [0 .. NJobs -> S] : FillFifo(p) = f[NJobs]
  BY Zenon, <1>1, <1>2, FillRounds
<1>4. FillFifo(p) \in S
  BY <1>3, PoolAssumption
<1>5. QED BY <1>4 DEF S

\* With no role left to serve them the queued jobs go back.
LEMMA UnrecoverableOn ==
    ASSUME NEW p, NEW O, NEW U, NEW G, Run(p, O, U, G)
    PROVE  Onward(p, ReturnUnrecoverableJobs(p), O, U, G)
<1> DEFINE d == DeliverAll(p, p.backlog, "ReturnedQueued")
           q == [d EXCEPT !.backlog = {}, !.retried = {}]
<1>0. p \in Wide
  BY DEF Run, Custody
<1>1. CASE Recoverable(p)
  BY <1>1 DEF ReturnUnrecoverableJobs, Onward
<1>2. CASE ~Recoverable(p)
  <2>1. ReturnUnrecoverableJobs(p) = q
    BY <1>2 DEF ReturnUnrecoverableJobs
  <2>2. Same(p, d)
    <3>1. "ReturnedQueued" \in Words
      BY DEF Words
    <3>2. QED BY Zenon, <1>0, <3>1, SameUpdates
  <2> HIDE DEF d
  <2>3. Same(d, q)
    BY Zenon, <2>2, SameUpdates DEF Same
  <2> HIDE DEF q
  <2>4. Onward(p, d, O, U, G) /\ Onward(d, q, O, U, G)
    BY <2>2, <2>3, SameOn DEF Onward
  <2>5. QED BY <2>1, <2>4, OnwardTwice
<1>3. QED BY <1>1, <1>2

\* Waiting roles are authorized to start.
LEMMA AuthorizeOn ==
    ASSUME NEW p, NEW O, NEW U, NEW G, Run(p, O, U, G)
    PROVE  Onward(p, AuthorizeWaiting(p), O, U, G)
<1> DEFINE occupied  == Cardinality({r \in Roles : Occupied(p.member[r])})
           waiting   == {r \in Roles : p.member[r].at = "WaitingForStartup"}
           available == IF occupied >= StartupLimit THEN 0 ELSE StartupLimit - occupied
           released  == {r \in waiting : Cardinality({t \in waiting : t < r}) < available}
           members   == [r \in Roles |-> IF r \in released
                                         THEN AuthorizeStartup(p.member[r]) ELSE p.member[r]]
           starts    == {Req("start", {WorkerOf(p, r)}, NoJob) : r \in released}
           sent      == p.sent \cup starts
           q         == [p EXCEPT !.member = members, !.sent = sent]
<1>1. p \in Wide /\ \A r \in Roles : p.member[r] \in Members
  BY DEF Run, Custody, Wide
<1>2. AuthorizeWaiting(p) = q
  BY DEF AuthorizeWaiting
<1>3. released \subseteq Roles /\ \A r \in released : p.member[r].at = "WaitingForStartup"
  OBVIOUS
<1> HIDE DEF released
<1>4. \A r \in Roles : LET k == AuthorizeStartup(p.member[r]) IN
         /\ k \in Members /\ k.at = "StartupRequested" /\ k.n = p.member[r].n
         /\ k.stop = p.member[r].stop /\ k.sub = NoSub
  BY Zenon, <1>1, Records DEF AuthorizeStartup, At
<1>5. members \in [Roles -> Members]
  BY <1>1, <1>4
<1>6. \A r \in Roles :
         IF r \in released THEN members[r] = AuthorizeStartup(p.member[r])
         ELSE members[r] = p.member[r]
  BY Zenon
<1>7. starts \subseteq Plain
  <2>1. \A r \in Roles : WorkerOf(p, r) \in Workers
    BY <1>1 DEF WorkerOf, Workers, Members
  <2>2. \A of \in SUBSET Workers : Req("start", of, NoJob) \in Plain
    BY Names DEF Req, Requests, Ops, Plain
  <2>3. QED BY Zenon, <1>3, <2>1, <2>2
<1>8. sent \subseteq Requests /\ p.sent \subseteq sent /\ sent \subseteq p.sent \cup Plain
  BY Zenon, <1>1, <1>7 DEF Wide, Plain
<1> HIDE DEF members, sent
<1>9. /\ q \in Wide /\ q.member = members /\ q.sent = sent /\ q.source = p.source
      /\ q.mode = p.mode /\ q.conf = p.conf
  BY Zenon, <1>1, <1>5, <1>8 DEF Wide
<1> HIDE DEF q
<1>10. ASSUME NEW r \in Roles
       PROVE  /\ Steady(p.member[r], q.member[r], WorkerOf(p, r), U, G)
              /\ q.member[r].at \in MemberStates
              /\ q.member[r].at = "WaitingForSource" => p.member[r].at = "WaitingForSource"
  <2>1. Steady(p.member[r], p.member[r], WorkerOf(p, r), U, G) /\ p.member[r].at \in MemberStates
    BY SteadySame DEF Run
  <2>2. CASE r \notin released
    BY Zenon, <1>6, <1>9, <2>1, <2>2
  <2>3. CASE r \in released
    <3>1. /\ q.member[r].at = "StartupRequested" /\ q.member[r].n = p.member[r].n
          /\ q.member[r].stop = p.member[r].stop /\ q.member[r].sub = NoSub
      BY <1>4, <1>6, <1>9, <2>3
    <3>2. p.member[r].at = "WaitingForStartup"
      BY Zenon, <1>3, <2>3
    <3>3. QED BY <2>1, <3>1, <3>2, Names
             DEF Steady, Keeps, Live, Newborn, Borrower, WorkerPhases, MemberStates
  <2>4. QED BY <2>2, <2>3
<1>11. Calm(p, q, U, G)
  BY Zenon, <1>8, <1>9, <1>10 DEF Calm, Step
<1>12. QED BY <1>2, <1>11, CalmOn

-----------------------------------------------------------------------------
(* A pool that shuts down.                                                   *)

Over(p, O, U, G) ==
    /\ Custody(p, O, U, G) /\ p.mode # "Operating"
    /\ \A r \in Roles : p.member[r].at \in RetirementStatuses
    /\ p.mode = "Stopped" => \A r \in Roles : ~Waiting(p.member[r])

\* What a fold may leave behind.
Fine(p, O, U, G) == (Run(p, O, U, G) /\ Claimed(p)) \/ Over(p, O, U, G)

\* A role that retires keeps its worker, its creation or its loan.
LEMMA ShutdownKeeps ==
    ASSUME NEW m \in Members, m.at \in MemberStates, NEW requested \in BOOLEAN, NEW w, NEW U,
           NEW G, w \in U => Live(m)
    PROVE  Steady(m, Shutdown(m, requested), w, U, G)
<1> DEFINE k == Shutdown(m, requested)
<1>0. /\ \A at, sub : LET c == Cleared(m, at, sub) IN
            c.at = at /\ c.n = m.n /\ c.stop = NoStop /\ c.sub = sub
      /\ m.at \in {"Creating", "Retired", "Initializing", "WaitingForStartup",
                   "StartupRequested", "Starting", "Idle", "Busy", "Stopping",
                   "WaitingForSource", "Preparing", "Scheduling", "WaitingForTimer"}
  BY DEF Cleared, MemberStates, WorkerPhases, Recovering
<1>1. CASE m.at = "Creating"
  <2>1. k = [m EXCEPT !.at = "AwaitingCreation"]
    BY <1>1 DEF Shutdown
  <2>2. k.at = "AwaitingCreation" /\ k.n = m.n /\ k.stop = m.stop /\ k.sub = m.sub
    BY <2>1 DEF Members
  <2> HIDE DEF k
  <2>3. QED BY <1>1, <2>2 DEF Steady, Keeps, Live, WorkerPhases, Newborn, Borrower, k
<1>2. CASE m.at # "Creating" /\ ShutdownTarget(m)
  <2> DEFINE sub == IF requested THEN "AwaitingBoth" ELSE "NotRequested"
             c == Cleared(m, "Established", sub)
  <2>1. k = [c EXCEPT !.custody = StartupCustody(m)]
    BY <1>2 DEF Shutdown, RetireWorker
  <2>2. sub \in {"AwaitingBoth", "NotRequested"}
    OBVIOUS
  <2>3. k.at = "Established" /\ k.n = m.n /\ k.stop = NoStop /\ k.sub = sub
    BY <2>1 DEF Cleared
  <2> HIDE DEF k, sub
  <2>4. Live(k)
    BY <2>2, <2>3 DEF Live
  <2>5. m.at \notin Newborn \cup Borrower
    BY <1>2 DEF ShutdownTarget, Newborn, Borrower
  <2>6. QED BY <2>3, <2>4, <2>5 DEF Steady, Keeps, Newborn, Borrower, k
<1>3. CASE m.at = "Stopping" /\ m.sub # "AwaitingSettlement"
  <2>1. k = Cleared(m, "Established", m.sub)
    BY <1>3 DEF Shutdown, ShutdownTarget
  <2>2. k.at = "Established" /\ k.n = m.n /\ k.stop = NoStop /\ k.sub = m.sub
    BY <1>0, <2>1
  <2> HIDE DEF k
  <2>3. QED BY <1>3, <2>2 DEF Steady, Keeps, Live, WorkerPhases, Newborn, Borrower, k
<1>4. CASE m.at = "Preparing"
  <2>1. k = Cleared(m, "AwaitingPreparation", m.sub)
    BY <1>4 DEF Shutdown, ShutdownTarget, ShutdownRecovering
  <2>2. k.at = "AwaitingPreparation" /\ k.n = m.n /\ k.sub = m.sub
    BY <1>0, <2>1
  <2> HIDE DEF k
  <2>3. QED BY <1>4, <2>2 DEF Steady, Keeps, Live, WorkerPhases, Newborn, Borrower, k
<1>5. CASE /\ m.at \notin {"Creating", "Preparing"} /\ ~ShutdownTarget(m)
           /\ ~(m.at = "Stopping" /\ m.sub # "AwaitingSettlement")
  <2>1. k = Cleared(m, "AwaitingRestartSchedule", NoSub) \/ k = Drained(m)
    BY <1>5 DEF Shutdown, ShutdownRecovering
  <2>2. k.at \in {"AwaitingRestartSchedule", "Drained"} /\ k.n = m.n
    BY <1>0, <2>1 DEF Drained
  <2> HIDE DEF k
  <2>3. ~Live(m)
    BY <1>0, <1>5 DEF Live, ShutdownTarget, WorkerPhases
  <2>4. m.at \notin Newborn \cup Borrower
    BY <1>0, <1>5 DEF Newborn, Borrower
  <2>5. QED BY <2>2, <2>3, <2>4 DEF Steady, Keeps, Newborn, Borrower, k
<1>6. QED BY <1>1, <1>2, <1>3, <1>4, <1>5

\* The shutdown of an operating pool.
LEMMA ShutdownOver ==
    ASSUME Counting, NEW p, NEW O, NEW U, NEW G, Run(p, O, U, G)
    PROVE  Over(BeginShutdown(p), O, U, G)
<1> DEFINE targets  == {r \in Roles : ShutdownTarget(p.member[r])}
           reserved == Cardinality(targets) <= p.shutdowns
           busy     == {r \in Roles : p.member[r].at = "Busy"}
           members  == [r \in Roles |-> Shutdown(p.member[r], reserved)]
           first    == DeliverAll(p, p.backlog, "ReturnedQueued")
           returned == DeliverAll(first, {p.member[r].job : r \in busy}, "ReturnedAssigned")
           requests == IF reserved
                       THEN {Req("shutdown", {WorkerOf(p, r)}, NoJob) : r \in targets}
                       ELSE {}
           drained  == \A r \in Roles : ~Waiting(members[r])
           schedule == IF reserved /\ ~drained /\ p.conf.limited
                       THEN {Req("schedule", {}, NoJob)} ELSE {}
           mode     == IF ~reserved THEN "ForcedRetirement"
                       ELSE IF drained THEN "Stopped" ELSE "Draining"
           shutdowns == IF reserved THEN returned.shutdowns - Cardinality(targets)
                        ELSE returned.shutdowns
           deadline == IF reserved /\ ~drained THEN DeadlineBegin(p.conf.limited)
                       ELSE returned.deadline
           sent     == returned.sent \cup requests \cup schedule
           q == [returned EXCEPT !.mode = mode, !.member = members, !.backlog = {},
                   !.retried = {}, !.shutdowns = shutdowns, !.deadline = deadline,
                   !.sent = sent]
<1>1. BeginShutdown(p) = q
  BY DEF BeginShutdown
<1>2. /\ p \in Wide /\ \A r \in Roles : p.member[r] \in Members /\ p.member[r].at \in MemberStates
      /\ Custody(p, O, U, G)
  BY DEF Run, Custody, Wide
<1>3. Same(p, returned)
  <2>1. "ReturnedQueued" \in Words /\ "ReturnedAssigned" \in Words
    BY DEF Words
  <2>2. Same(p, first)
    BY Zenon, <1>2, <2>1, SameUpdates
  <2> HIDE DEF first
  <2>3. first \in Wide
    BY <2>2 DEF Same
  <2>4. Same(first, returned)
    <3>1. \A J : \A t \in Words : Same(first, DeliverAll(first, J, t))
      BY Zenon, <2>3, SameUpdates
    <3>2. QED BY Zenon, <2>1, <3>1
  <2> HIDE DEF returned
  <2>5. QED BY <2>2, <2>4 DEF Same
<1> HIDE DEF returned
<1>4. returned \in Wide /\ returned.sent = p.sent /\ returned.source = p.source
  BY <1>3 DEF Same
<1>5. Cardinality(targets) \in Nat
  BY FiniteRoles
<1>6. reserved \in BOOLEAN
  OBVIOUS
<1>7. /\ members \in [Roles -> Members]
      /\ \A r \in Roles : members[r].at \in RetirementStatuses
      /\ \A r \in Roles : Steady(p.member[r], members[r], WorkerOf(p, r), U, G)
  <2> HIDE DEF reserved
  <2>1. \A r \in Roles : WorkerOf(p, r) \in U => Live(p.member[r])
    BY <1>2, SteadySame DEF Steady, Keeps
  <2>2. \A r \in Roles : members[r] = Shutdown(p.member[r], reserved)
    OBVIOUS
  <2>3. \A r \in Roles : Steady(p.member[r], members[r], WorkerOf(p, r), U, G)
    BY Zenon, <1>2, <1>6, <2>1, <2>2, ShutdownKeeps
  <2>4. QED BY <1>2, <1>6, <2>3, ShutdownType
<1>8. requests \subseteq Plain /\ schedule \subseteq Plain
  <2>1. \A r \in Roles : WorkerOf(p, r) \in Workers
    BY <1>2 DEF WorkerOf, Workers, Members
  <2>2. \A w \in Workers : Req("shutdown", {w}, NoJob) \in Plain
    BY Names DEF Req, Requests, Ops, Plain
  <2>3. Req("schedule", {}, NoJob) \in Plain
    BY Names DEF Req, Requests, Ops, Plain
  <2>4. QED BY Zenon, <2>1, <2>2, <2>3
<1>9. mode \in {"Draining", "Stopped", "ForcedRetirement"} /\ (mode = "Stopped" => drained)
  OBVIOUS
<1>10. deadline \in Deadlines
  BY <1>4 DEF DeadlineBegin, Deadlines, Wide
<1>11. shutdowns \in Int
  BY <1>4, <1>5 DEF Wide
<1> HIDE DEF requests, schedule
<1>12. sent \subseteq Requests /\ p.sent \subseteq sent /\ sent \subseteq p.sent \cup Plain
  BY Zenon, <1>4, <1>8 DEF Wide, Plain
<1> HIDE DEF mode, members, shutdowns, deadline, sent
<1>13. /\ q \in Wide /\ q.member = members /\ q.sent = sent /\ q.source = p.source
       /\ q.mode = mode
  BY Zenon, <1>4, <1>7, <1>9, <1>10, <1>11, <1>12 DEF Wide
<1> HIDE DEF q
<1>14. Step(p, q, U, G)
  BY Zenon, <1>7, <1>12, <1>13 DEF Step
<1>15. Custody(q, O, U, G)
  BY <1>2, <1>14, StepKept
<1>16. QED BY <1>1, <1>7, <1>9, <1>13, <1>15 DEF Over

-----------------------------------------------------------------------------
(* Recovery of one role.                                                     *)

\* Who runs is established, and not new, recovering or retired.
LEMMA Absent ==
    ASSUME NEW p, NEW O, NEW U, NEW G, Custody(p, O, U, G), NEW r \in Roles, ~Live(p.member[r])
    PROVE  WorkerOf(p, r) \notin U
BY DEF Custody, Followed, WorkerOf

\* The role has no worker, no creation and no loan.
Vacant(p, r, U) ==
    p.member[r].at \notin Newborn \cup Borrower /\ WorkerOf(p, r) \notin U

\* A vacant role goes on to recover or retires.
LEMMA VacantOn ==
    ASSUME NEW p, NEW O, NEW U, NEW G, Run(p, O, U, G), NEW r \in Roles, Vacant(p, r, U),
           NEW k \in Members, k.n = p.member[r].n,
           k.at \in {"Retired", "WaitingForSource", "Scheduling", "WaitingForTimer"},
           k.at = "WaitingForSource" => p.source = "AwaitingReturn"
    PROVE  Onward(p, With(p, r, k), O, U, G) /\ With(p, r, k) \in Wide
<1>1. k.at \in MemberStates /\ k.at \notin Newborn \cup Borrower
  BY DEF MemberStates, Recovering, Newborn, Borrower
<1>2. Steady(p.member[r], k, WorkerOf(p, r), U, G)
  BY <1>1 DEF Steady, Keeps, Vacant
<1>3. QED BY <1>1, <1>2, WithOn

\* A vacant role borrows the source.
LEMMA PreparationOn ==
    ASSUME NEW p, NEW O, NEW U, NEW G, Run(p, O, U, G), p.source = "Available",
           NEW r \in Roles, Vacant(p, r, U)
    PROVE  LET q == RequestPreparation(p, r)
           IN  Run(q, O, U, G) /\ Claimed(q) /\ q.conf = p.conf
<1> DEFINE m == p.member[r]
           k == At(m, "Preparing", "Issued")
           t == Req("prepare", {WorkerOf(p, r)}, NoJob)
           q == RequestPreparation(p, r)
<1>0. /\ p \in Wide /\ O \subseteq Requests /\ m \in Members /\ m.n \in Nat
      /\ p.member \in [Roles -> Members]
      /\ Followed(p, U) /\ Awaited(p, O \cup p.sent, G) /\ Lent(p, O \cup p.sent)
      /\ Formed(O \cup p.sent, p.sent) /\ p.mode = "Operating"
  BY DEF Run, Custody, Wide, Members
<1>1. k \in Members /\ k.at = "Preparing" /\ k.n = m.n /\ k.sub = "Issued"
  BY Zenon, <1>0, Records DEF At
<1>2. t \in Requests /\ t.op = "prepare"
  <2>1. WorkerOf(p, r) \in Workers
    BY <1>0 DEF WorkerOf, Workers
  <2>2. QED BY <2>1, Names DEF Req, Requests, Ops
<1>3. /\ q \in Wide /\ q.member = [p.member EXCEPT ![r] = k] /\ q.sent = p.sent \cup {t}
      /\ q.source = "AwaitingReturn" /\ q.mode = p.mode /\ q.conf = p.conf
  <2> DEFINE u == [p EXCEPT !.member[r] = k, !.source = "AwaitingReturn"]
             v == [u EXCEPT !.sent = @ \cup {t}]
  <2>1. /\ u \in Wide /\ u.member = [p.member EXCEPT ![r] = k] /\ u.sent = p.sent
        /\ u.source = "AwaitingReturn" /\ u.mode = p.mode /\ u.conf = p.conf
    <3> HIDE DEF k
    <3>1. QED BY Zenon, <1>0, <1>1 DEF Wide
  <2>2. u.member[r].n = m.n
    BY <1>0, <1>1, <2>1
  <2>3. q = v
    <3>1. q = Send([With(p, r, k) EXCEPT !.source = "AwaitingReturn"], "prepare", r, NoJob)
      BY DEF RequestPreparation
    <3>2. [With(p, r, k) EXCEPT !.source = "AwaitingReturn"] = u
      BY DEF With
    <3> HIDE DEF u, q
    <3>3. WorkerOf(u, r) = WorkerOf(p, r)
      BY <2>2 DEF WorkerOf
    <3>4. QED BY Zenon, <3>1, <3>2, <3>3 DEF Send
  <2> HIDE DEF u, t
  <2>4. u.sent \cup {t} \in SUBSET Requests
    BY <1>2, <2>1 DEF Wide
  <2>5. /\ v \in Wide /\ v.member = u.member /\ v.sent = u.sent \cup {t}
        /\ v.source = u.source /\ v.mode = u.mode /\ v.conf = u.conf
    BY Zenon, <2>1, <2>4 DEF Wide
  <2> HIDE DEF q, v
  <2>6. QED BY Zenon, <2>1, <2>3, <2>5
<1> HIDE DEF q, k
<1>4. \A s \in Roles : q.member[s] = IF s = r THEN k ELSE p.member[s]
  BY <1>0, <1>3
<1>5. \A s \in Roles : Keeps(p.member[s], q.member[s], WorkerOf(p, s), U, G)
  <2>1. Keeps(m, k, WorkerOf(p, r), U, G)
    BY <1>1 DEF Keeps, Vacant, Newborn
  <2>2. \A s \in Roles : Keeps(p.member[s], p.member[s], WorkerOf(p, s), U, G)
    BY SteadySame DEF Run, Steady
  <2>3. QED BY Zenon, <1>4, <2>1, <2>2
<1>6. Followed(q, U)
  <2>1. U \in SUBSET U
    OBVIOUS
  <2>2. QED BY Zenon, <1>0, <1>5, <2>1, FollowedKept
<1>7. Awaited(q, O \cup q.sent, G)
  <2>1. O \cup p.sent \in SUBSET Requests /\ G \subseteq G
    BY <1>0 DEF Wide
  <2>2. \A s \in O \cup q.sent : s.op = "create" => s \in O \cup p.sent
    BY <1>2, <1>3
  <2>3. QED BY Zenon, <1>0, <1>5, <2>1, <2>2, AwaitedKept
<1>8. Lent(q, O \cup q.sent)
  <2>1. \A s \in Roles : p.member[s].at \notin Borrower
    BY <1>0 DEF Lent
  <2>2. \A s \in O \cup p.sent : s.op \notin {"prepare", "prepared"}
    BY <1>0, <2>1 DEF Lent
  <2>3. \A s \in Roles : q.member[s].at \in Borrower => s = r
    BY <1>4, <2>1
  <2>4. k.at \in Borrower /\ q.member[r] = k
    BY <1>1, <1>4 DEF Borrower
  <2>5. Loan(q, r) = t
    BY <1>1, <2>4 DEF Loan, WorkerOf
  <2> HIDE DEF t
  <2>6. QED BY <1>1, <1>3, <2>2, <2>3, <2>4, <2>5 DEF Lent
<1>9. Formed(O \cup q.sent, q.sent)
  BY Zenon, <1>0, <1>2, <1>3 DEF Formed
<1>10. \A s \in Roles : q.member[s].at \in MemberStates
  BY <1>1, <1>4 DEF Run, MemberStates, Recovering
<1>11. QED BY <1>0, <1>3, <1>6, <1>7, <1>8, <1>9, <1>10 DEF Run, Custody, Claimed, q

\* The first role that queues for the source gets it.
LEMMA NextOn ==
    ASSUME Counting, NEW p, NEW O, NEW U, NEW G, Run(p, O, U, G)
    PROVE  LET q == PrepareNextWaiting(p)
           IN  Run(q, O, U, G) /\ Claimed(q) /\ q.conf = p.conf
<1> DEFINE W == {t \in Roles : p.member[t].at = "WaitingForSource"}
           r == First(W)
<1>1. W \subseteq Nat /\ 0 \notin W
  BY FiniteRoles
<1>2. CASE W = {}
  <2>1. PrepareNextWaiting(p) = p
    BY <1>2 DEF PrepareNextWaiting, First
  <2>2. QED BY <1>2, <2>1 DEF Claimed
<1>3. CASE p.source # "Available"
  <2>1. PrepareNextWaiting(p) = p /\ p.source = "AwaitingReturn"
    BY <1>3 DEF PrepareNextWaiting, Run, Custody, Wide
  <2>2. QED BY <2>1 DEF Claimed
<1>4. CASE W # {} /\ p.source = "Available"
  <2>1. r \in W
    BY Zenon, <1>1, <1>4, Least DEF First
  <2>2. r # 0 /\ PrepareNextWaiting(p) = RequestPreparation(p, r)
    BY Zenon, <1>1, <1>4, <2>1 DEF PrepareNextWaiting
  <2>3. r \in Roles /\ p.member[r].at = "WaitingForSource"
    BY <2>1
  <2> HIDE DEF r
  <2>4. Vacant(p, r, U)
    <3>1. ~Live(p.member[r])
      BY <2>3 DEF Live, WorkerPhases
    <3>2. WorkerOf(p, r) \notin U
      BY <2>3, <3>1, Absent DEF Run
    <3>3. QED BY <2>3, <3>2 DEF Vacant, Newborn, Borrower
  <2>5. QED BY <1>4, <2>2, <2>3, <2>4, PreparationOn
<1>5. QED BY <1>2, <1>3, <1>4

\* The role is retired after an error, or the pool shuts down for it.
LEMMA ErrorOn ==
    ASSUME Counting, NEW p, NEW O, NEW U, NEW G, NEW r \in Roles,
           Run(With(p, r, Retire(p.member[r])), O, U, G)
    PROVE  Fine(RetireRoleAfterError(p, r), O, U, G)
<1> DEFINE q == With(p, r, Retire(p.member[r]))
           n == PrepareNextWaiting(q)
           f == FillFifo(n)
<1>1. RetireRoleAfterError(p, r) \in {BeginShutdown(q), ReturnUnrecoverableJobs(f)}
  BY DEF RetireRoleAfterError
<1>2. Run(q, O, U, G)
  OBVIOUS
<1> HIDE DEF q
<1>3. Run(n, O, U, G) /\ Claimed(n)
  BY <1>2, NextOn
<1> HIDE DEF n
<1>4. Onward(n, f, O, U, G)
  BY <1>3, FillFifoOn
<1> HIDE DEF f
<1>5. Onward(f, ReturnUnrecoverableJobs(f), O, U, G)
  BY <1>4, UnrecoverableOn DEF Onward
<1>6. Over(BeginShutdown(q), O, U, G)
  BY <1>2, ShutdownOver
<1>7. QED BY <1>1, <1>3, <1>4, <1>5, <1>6 DEF Fine, Onward

\* The decision on the stop of a vacant role.
LEMMA RecoverOn ==
    ASSUME Counting, NEW p, NEW O, NEW U, NEW G, Run(p, O, U, G), Claimed(p),
           NEW r \in Roles, Vacant(p, r, U)
    PROVE  Fine(RecoverWorker(p, r), O, U, G)
<1> DEFINE m == p.member[r]
           decision == Decide(p.conf.policy, p.conf.failure, p.source, m.stop)
           retired == With(p, r, Retire(m))
           waits == With(p, r, At(m, "WaitingForSource", NoSub))
           borrows == RequestPreparation(p, r)
<1>0. p \in Wide /\ m \in Members /\ p.conf.failure \in {"RetireRole", "StopPool"}
  BY PoolAssumption DEF Run, Custody, Wide
<1>1. \/ decision = "PrepareWorker" /\ p.source = "Available"
      \/ decision = "WaitForSource" /\ p.source # "Available"
      \/ decision \in {"RetireRole", "StopPool"}
  BY <1>0 DEF Decide
<1>2. RecoverWorker(p, r) =
         CASE decision = "PrepareWorker" -> FillFifo(borrows)
           [] decision = "WaitForSource" -> FillFifo(waits)
           [] decision = "RetireRole" -> ReturnUnrecoverableJobs(FillFifo(retired))
           [] decision = "StopPool" -> BeginShutdown(retired)
  BY Zenon DEF RecoverWorker
<1> HIDE DEF decision
<1>3. CASE decision = "PrepareWorker" /\ p.source = "Available"
  <2>1. Run(borrows, O, U, G) /\ Claimed(borrows)
    BY <1>3, PreparationOn
  <2> HIDE DEF borrows
  <2>2. Onward(borrows, FillFifo(borrows), O, U, G)
    BY <2>1, FillFifoOn
  <2>3. QED BY <1>2, <1>3, <2>1, <2>2 DEF Onward, Fine
<1>4. CASE decision = "WaitForSource" /\ p.source # "Available"
  <2>1. p.source = "AwaitingReturn"
    BY <1>0, <1>4 DEF Wide
  <2>2. LET k == At(m, "WaitingForSource", NoSub)
        IN  k \in Members /\ k.at = "WaitingForSource" /\ k.n = m.n
    BY Zenon, <1>0, Records DEF At
  <2>3. Onward(p, waits, O, U, G)
    BY <2>1, <2>2, VacantOn
  <2> HIDE DEF waits
  <2>4. Onward(waits, FillFifo(waits), O, U, G)
    BY <2>3, FillFifoOn DEF Onward
  <2>5. QED BY <1>2, <1>4, <2>3, <2>4 DEF Onward, Fine
<1>5. CASE decision \in {"RetireRole", "StopPool"}
  <2>1. Retire(m) \in Members /\ Retire(m).at = "Retired" /\ Retire(m).n = m.n
    BY <1>0, Records DEF Retire, Cleared
  <2>2. Onward(p, retired, O, U, G)
    BY <2>1, VacantOn
  <2> HIDE DEF retired
  <2> DEFINE f == FillFifo(retired)
  <2>3. Onward(retired, f, O, U, G)
    BY <2>2, FillFifoOn DEF Onward
  <2>4. RecoverWorker(p, r) \in {BeginShutdown(retired), ReturnUnrecoverableJobs(f)}
    BY <1>2, <1>5
  <2> HIDE DEF f
  <2>5. Onward(f, ReturnUnrecoverableJobs(f), O, U, G)
    BY <2>3, UnrecoverableOn DEF Onward
  <2>6. Over(BeginShutdown(retired), O, U, G)
    BY <2>2, ShutdownOver DEF Onward
  <2>7. QED BY <2>2, <2>3, <2>4, <2>5, <2>6 DEF Fine, Onward
<1>6. QED BY <1>1, <1>3, <1>4, <1>5

\* The same, and the permit of a worker that did not start goes to others.
LEMMA ContinueOn ==
    ASSUME Counting, NEW p, NEW O, NEW U, NEW G, Run(p, O, U, G), Claimed(p),
           NEW r \in Roles, Vacant(p, r, U)
    PROVE  Fine(ContinueAfterPreReadyStop(p, r), O, U, G)
<1> DEFINE q == RecoverWorker(p, r)
<1>1. Fine(q, O, U, G)
  BY RecoverOn
<1>2. ContinueAfterPreReadyStop(p, r) = IF q.mode = "Operating" THEN AuthorizeWaiting(q) ELSE q
  BY DEF ContinueAfterPreReadyStop
<1> HIDE DEF q
<1>3. CASE q.mode = "Operating"
  <2>1. Run(q, O, U, G) /\ Claimed(q)
    BY <1>1, <1>3 DEF Fine, Over
  <2>2. Onward(q, AuthorizeWaiting(q), O, U, G)
    BY <2>1, AuthorizeOn
  <2>3. QED BY <1>2, <1>3, <2>1, <2>2 DEF Fine, Onward
<1>4. CASE q.mode # "Operating"
  BY <1>1, <1>2, <1>4
<1>5. QED BY <1>3, <1>4

\* A worker is asked to stop.
LEMMA StopOn ==
    ASSUME NEW p, NEW O, NEW U, NEW G, Run(p, O, U, G), NEW r \in Roles,
           p.member[r].at \notin Newborn \cup Borrower
    PROVE  Onward(p, RequestWorkerShutdown(p, r), O, U, G)
<1> DEFINE m == p.member[r]
           k == At(m, "Stopping", "AwaitingBoth")
           q == With(p, r, k)
           u == [q EXCEPT !.shutdowns = @ - 1]
<1>0. m \in Members
  BY DEF Run, Custody, Wide
<1>1. /\ k \in Members /\ k.at = "Stopping" /\ k.n = m.n /\ k.stop = m.stop
      /\ k.sub = "AwaitingBoth"
  BY Zenon, <1>0, Records DEF At
<1> HIDE DEF k
<1>2. Steady(m, k, WorkerOf(p, r), U, G)
  <2>1. WorkerOf(p, r) \in U => Live(m)
    BY SteadySame DEF Run, Steady, Keeps
  <2>2. QED BY <1>1, <2>1 DEF Steady, Keeps, Live, Newborn, Borrower, WorkerPhases
<1>3. k.at \in MemberStates /\ k.at # "WaitingForSource"
  BY <1>1 DEF MemberStates, WorkerPhases
<1>4. Onward(p, q, O, U, G) /\ q \in Wide
  BY <1>1, <1>2, <1>3, WithOn
<1> HIDE DEF q
<1>5. Same(q, u)
  BY Zenon, <1>4, SameUpdates
<1>6. RequestWorkerShutdown(p, r) = Send(u, "shutdown", r, NoJob)
  BY DEF RequestWorkerShutdown, u, q, k
<1> HIDE DEF u
<1>7. Onward(q, u, O, U, G)
  BY <1>4, <1>5, SameOn DEF Onward
<1>8. Onward(u, RequestWorkerShutdown(p, r), O, U, G)
  <2>1. Run(u, O, U, G)
    BY <1>7 DEF Onward
  <2>2. Onward(u, Send(u, "shutdown", r, NoJob), O, U, G)
    BY <2>1, SendOn, Names
  <2>3. QED BY Zenon, <1>6, <2>2
<1>9. QED BY <1>4, <1>7, <1>8, OnwardTwice

\* q creates the next incarnation of role r of p.
Bears(p, q, r) ==
    LET n == p.member[r].n + 1
    IN  /\ q \in Wide /\ q.member = [p.member EXCEPT ![r] = Start(n)]
        /\ q.sent = p.sent \cup {Req("create", {<<r, n>>}, NoJob)}
        /\ q.source = p.source /\ q.mode = p.mode /\ q.conf = p.conf

\* The creation of a replacement.
LEMMA BornOn ==
    ASSUME NEW p, NEW q, NEW O, NEW U, NEW G, Run(p, O, U, G), NEW r \in Roles,
           Vacant(p, r, U), Bears(p, q, r)
    PROVE  Onward(p, q, O, U, G)
<1> DEFINE n == p.member[r].n + 1
           v == <<r, n>>
           k == Start(n)
           t == Req("create", {v}, NoJob)
<1>0. /\ p \in Wide /\ O \subseteq Requests /\ p.member[r].n \in Nat
      /\ p.member \in [Roles -> Members]
      /\ Followed(p, U) /\ Awaited(p, O \cup p.sent, G) /\ Lent(p, O \cup p.sent)
      /\ Formed(O \cup p.sent, p.sent) /\ p.mode = "Operating"
  BY DEF Run, Custody, Wide, Members
<1>1. k.at = "Creating" /\ k.n = n /\ k.stop = NoStop /\ k.sub = NoSub
  BY DEF Start
<1>2. /\ q \in Wide /\ q.sent = p.sent \cup {t} /\ q.source = p.source /\ q.mode = p.mode
      /\ q.conf = p.conf /\ t.op = "create" /\ t.of = {v} /\ v[1] = r /\ v[2] = n
  BY DEF Bears, Req
<1>3. \A s \in Roles : q.member[s] = IF s = r THEN k ELSE p.member[s]
  <2>1. q.member = [p.member EXCEPT ![r] = k]
    BY DEF Bears
  <2> HIDE DEF k
  <2>2. QED BY <1>0, <2>1
<1> HIDE DEF k, t
<1>4. Followed(q, U)
  <2>1. ASSUME NEW w \in U PROVE w \in Workers /\ Current(q, w) /\ Live(q.member[w[1]])
    <3>1. w \in Workers /\ Current(p, w) /\ Live(p.member[w[1]]) /\ w[1] \in Roles
      BY <1>0 DEF Followed, Workers
    <3>2. w = WorkerOf(p, w[1])
      BY <3>1 DEF WorkerOf, Current, Workers
    <3>3. w[1] # r
      BY <3>2 DEF Vacant
    <3>4. QED BY <1>3, <3>1, <3>3 DEF Current
  <2>2. QED BY <2>1 DEF Followed
<1>5. \A s \in O \cup p.sent : s.op = "create" =>
         \A w \in s.of : w[1] \in Roles \ {r} /\ Holds(p, w, Newborn)
  <2>1. ASSUME NEW s \in O \cup p.sent, s.op = "create", NEW w \in s.of
        PROVE  w[1] \in Roles \ {r} /\ Holds(p, w, Newborn)
    <3>1. Holds(p, w, Newborn)
      BY <1>0, <2>1 DEF Awaited
    <3>2. s \in Requests
      BY <1>0 DEF Wide
    <3>3. w[1] \in Roles
      BY <2>1, <3>2 DEF Requests, Workers
    <3>4. QED BY <3>1, <3>3 DEF Holds, Vacant
  <2>2. QED BY <2>1
<1>6. Awaited(q, O \cup q.sent, G)
  <2>1. ASSUME NEW s \in O \cup q.sent, s.op = "create", NEW w \in s.of
        PROVE  Holds(q, w, Newborn)
    <3>1. CASE s = t
      <4>1. w = v
        BY <1>2, <2>1, <3>1
      <4>2. QED BY <1>1, <1>2, <1>3, <4>1 DEF Holds, Newborn
    <3>2. CASE s \in O \cup p.sent
      BY <1>3, <1>5, <2>1, <3>2 DEF Holds
    <3>3. QED BY <1>2, <3>1, <3>2
  <2>2. ASSUME NEW s \in O \cup q.sent, NEW u \in O \cup q.sent, s.op = "create",
               u.op = "create", s.of \cap u.of # {}
        PROVE  s = u
    <3>1. \A x \in O \cup p.sent : x.op = "create" => x.of \cap t.of = {}
      BY <1>2, <1>5
    <3>2. QED BY <1>0, <1>2, <2>2, <3>1 DEF Awaited
  <2>3. ASSUME NEW s \in Roles, q.member[s].at \in Newborn
        PROVE  q.member[s].sub = NoSub /\ (q.member[s].stop # NoStop => WorkerOf(q, s) \in G)
    BY Zenon, <1>0, <1>1, <1>3, <2>3 DEF Awaited, WorkerOf
  <2>4. QED BY <2>1, <2>2, <2>3 DEF Awaited
<1>7. Lent(q, O \cup q.sent)
  <2>1. ASSUME NEW s \in Roles
        PROVE  /\ q.member[s].at \in Borrower <=> p.member[s].at \in Borrower
               /\ q.member[s].at \in Borrower =>
                     q.member[s].sub = p.member[s].sub /\ Loan(q, s) = Loan(p, s)
    <3>1. CASE s = r
      BY <1>1, <1>3, <3>1 DEF Vacant, Borrower
    <3>2. CASE s # r
      BY <1>3, <3>2 DEF Loan, WorkerOf
    <3>3. QED BY <3>1, <3>2
  <2>2. \A x \in O \cup q.sent : x.op \in {"prepare", "prepared"} => x \in O \cup p.sent
    BY <1>2
  <2>3. O \cup p.sent \subseteq O \cup q.sent
    BY <1>2
  <2>4. ASSUME NEW x \in O \cup q.sent, x.op \in {"prepare", "prepared"}
        PROVE  \E s \in Roles : q.member[s].at \in Borrower /\ x = Loan(q, s)
    <3>1. PICK s \in Roles : p.member[s].at \in Borrower /\ x = Loan(p, s)
      BY <1>0, <2>2, <2>4 DEF Lent
    <3>2. QED BY <2>1, <3>1
  <2>5. ASSUME NEW s \in Roles, q.member[s].at \in Borrower
        PROVE  /\ q.source = "AwaitingReturn" /\ Loan(q, s) \in O \cup q.sent
               /\ q.member[s].sub \in {"Issued", "Started"}
    <3>1. p.member[s].at \in Borrower
      BY <2>1, <2>5
    <3>2. QED BY Zenon, <1>0, <1>2, <2>1, <2>3, <2>5, <3>1 DEF Lent
  <2>6. QED BY Zenon, <1>0, <1>2, <2>1, <2>4, <2>5 DEF Lent
<1>8. Formed(O \cup q.sent, q.sent)
  BY Zenon, <1>0, <1>2 DEF Formed
<1>9. \A s \in Roles : q.member[s].at \in MemberStates /\ (s = r => q.member[s].at = "Creating")
  BY <1>1, <1>3 DEF Run, MemberStates
<1>10. Run(q, O, U, G)
  BY <1>0, <1>2, <1>4, <1>6, <1>7, <1>8, <1>9 DEF Run, Custody
<1>11. Claimed(p) => Claimed(q)
  BY <1>2, <1>3, <1>9 DEF Claimed
<1>12. QED BY <1>2, <1>10, <1>11 DEF Onward

\* BeginReplacement is such a creation.
LEMMA ReplacementBears ==
    ASSUME NEW p \in Wide, NEW r \in Roles
    PROVE  Bears(p, BeginReplacement(p, r), r)
<1> DEFINE n == p.member[r].n + 1
           k == Start(n)
           t == Req("create", {<<r, n>>}, NoJob)
           u == [p EXCEPT !.member[r] = k, !.creations = @ - 1]
           v == [u EXCEPT !.sent = @ \cup {t}]
<1>1. n \in Nat /\ p.creations - 1 \in Int /\ p.member \in [Roles -> Members]
  BY DEF Wide, Members
<1>2. k \in Members /\ k.n = n
  BY <1>1, Names DEF Start, Members
<1>3. t \in Requests
  BY <1>1, Names DEF Req, Requests, Ops, Workers
<1> HIDE DEF k
<1>4. /\ u \in Wide /\ u.member = [p.member EXCEPT ![r] = k] /\ u.sent = p.sent
      /\ u.source = p.source /\ u.mode = p.mode /\ u.conf = p.conf
  BY Zenon, <1>1, <1>2 DEF Wide
<1>5. u.member[r] = k
  BY <1>1, <1>4
<1>6. BeginReplacement(p, r) = Send(u, "create", r, NoJob)
  BY DEF BeginReplacement, With, k
<1> HIDE DEF u
<1>7. WorkerOf(u, r) = <<r, n>>
  BY <1>2, <1>5 DEF WorkerOf
<1>8. BeginReplacement(p, r) = v
  BY Zenon, <1>6, <1>7 DEF Send
<1> HIDE DEF t
<1>9. u.sent \cup {t} \in SUBSET Requests
  BY <1>3, <1>4 DEF Wide
<1>10. /\ v \in Wide /\ v.member = u.member /\ v.sent = u.sent \cup {t}
       /\ v.source = u.source /\ v.mode = u.mode /\ v.conf = u.conf
  BY Zenon, <1>4, <1>9 DEF Wide
<1> HIDE DEF v, n
<1>11. QED BY Zenon, <1>4, <1>8, <1>10 DEF Bears, k, t, n

-----------------------------------------------------------------------------
(* The handlers of an operating pool.                                        *)

\* A fold that goes on from a state of an operating pool leaves one.
LEMMA OnFine ==
    ASSUME NEW p, NEW q, NEW O, NEW U, NEW G, Claimed(p), Onward(p, q, O, U, G)
    PROVE  Fine(q, O, U, G)
BY DEF Fine, Onward

\* A fact about a worker that does not run is recorded.
LEMMA RecordOn ==
    ASSUME NEW p, NEW O, NEW U, NEW G, Run(p, O, U, G), Claimed(p), NEW r \in Roles,
           NEW k \in Members, k.at = p.member[r].at, k.n = p.member[r].n,
           WorkerOf(p, r) \notin U, k.at \in Newborn => WorkerOf(p, r) \in G,
           k.at \in Newborn \cup Borrower => k.sub = p.member[r].sub
    PROVE  LET q == With(p, r, k)
           IN  /\ Onward(p, q, O, U, G) /\ q.member[r] = k
               /\ k.at \notin Newborn \cup Borrower => Vacant(q, r, U)
<1>1. Steady(p.member[r], k, WorkerOf(p, r), U, G)
  BY DEF Steady, Keeps
<1>2. k.at \in MemberStates /\ (k.at = "WaitingForSource" => p.source = "AwaitingReturn")
  BY DEF Run, Claimed
<1>3. Onward(p, With(p, r, k), O, U, G)
  BY <1>1, <1>2, WithOn
<1>4. p.member \in [Roles -> Members] /\ With(p, r, k).member = [p.member EXCEPT ![r] = k]
  BY Zenon DEF Run, Custody, Wide, With
<1>5. With(p, r, k).member[r] = k
  BY <1>4
<1>6. QED BY <1>3, <1>5 DEF Vacant, WorkerOf

\* The exit of a worker is recorded, unless it is awaited.
LEMMA StoppedOn ==
    ASSUME NEW p, NEW O, NEW U, NEW G, Run(p, O, U, G), Claimed(p), NEW r \in Roles,
           WorkerOf(p, r) \notin U, p.member[r].at \in Newborn => WorkerOf(p, r) \in G,
           NEW kind \in Stops, NEW now \in Nat
    PROVE  LET k == Stopped(p.member[r], kind, now)
               q == With(p, r, k)
           IN  /\ Onward(p, q, O, U, G) /\ q.member[r] = k /\ k.at = p.member[r].at
               /\ k.at \notin Newborn \cup Borrower => Vacant(q, r, U)
<1> DEFINE m == p.member[r]
           k == Stopped(m, kind, now)
<1>1. m \in Members
  BY DEF Run, Custody, Wide
<1>2. k \in Members /\ k.at = m.at /\ k.n = m.n /\ k.sub = m.sub
  BY Zenon, <1>1 DEF Stopped, Members
<1> HIDE DEF k
<1>3. /\ Onward(p, With(p, r, k), O, U, G) /\ With(p, r, k).member[r] = k
      /\ k.at \notin Newborn \cup Borrower => Vacant(With(p, r, k), r, U)
  BY <1>2, RecordOn
<1>4. QED BY Zenon, <1>2, <1>3 DEF k, m

\* A submission.
LEMMA SubmissionOn ==
    ASSUME Counting, NEW p, NEW O, NEW U, NEW G, Run(p, O, U, G), Claimed(p), NEW j \in 0 .. NJobs
    PROVE  Fine(AcceptSubmission(p, j), O, U, G)
<1> DEFINE q == [p EXCEPT !.jobs = @ - 1]
           b == [q EXCEPT !.backlog = @ \cup {j}]
           r == AvailablePosition(p)
           d == DispatchTo(q, r, j)
<1>0. p \in Wide /\ "Rejected" \in Words /\ "Accepted" \in Words
  BY DEF Run, Custody, Words
<1>1. \/ AcceptSubmission(p, j) = Deliver(p, j, "Rejected")
      \/ AcceptSubmission(p, j) = Deliver(b, j, "Accepted")
      \/ AcceptSubmission(p, j) = Deliver(q, j, "Rejected")
      \/ r # 0 /\ AcceptSubmission(p, j) = Deliver(d, j, "Accepted")
  BY DEF AcceptSubmission
<1>2. Same(p, q)
  BY Zenon, <1>0, SameUpdates
<1> HIDE DEF q
<1>3. q \in Wide /\ q.member = p.member
  BY <1>2 DEF Same
<1>4. Same(q, b)
  BY Zenon, <1>3, SameUpdates
<1> HIDE DEF b
<1>5. Onward(p, q, O, U, G) /\ Onward(q, b, O, U, G)
  BY <1>2, <1>4, SameOn DEF Onward
<1>6. r # 0 => Onward(q, d, O, U, G)
  <2>1. r # 0 => r \in Roles /\ q.member[r].at = "Idle"
    BY <1>0, <1>3, Spare
  <2> HIDE DEF r
  <2>2. QED BY <1>5, <2>1, DispatchOn DEF Onward
<1> HIDE DEF r, d
<1>7. ASSUME NEW x, Run(x, O, U, G), NEW t \in Words
      PROVE  Onward(x, Deliver(x, j, t), O, U, G)
  <2>1. x \in Wide
    BY <1>7 DEF Run, Custody
  <2>2. Same(x, Deliver(x, j, t))
    BY Zenon, <2>1, SameUpdates
  <2>3. QED BY <1>7, <2>2, SameOn
<1>8. CASE AcceptSubmission(p, j) \in {Deliver(p, j, "Rejected"), Deliver(q, j, "Rejected")}
  BY <1>0, <1>5, <1>7, <1>8 DEF Fine, Onward
<1>9. CASE AcceptSubmission(p, j) = Deliver(b, j, "Accepted")
  BY <1>0, <1>5, <1>7, <1>9 DEF Fine, Onward
<1>10. CASE r # 0 /\ AcceptSubmission(p, j) = Deliver(d, j, "Accepted")
  BY <1>0, <1>5, <1>6, <1>7, <1>10 DEF Fine, Onward
<1>11. QED BY <1>1, <1>8, <1>9, <1>10

\* The report of an initialization.
LEMMA InitializationOn ==
    ASSUME Counting, NEW p, NEW O, NEW U, NEW G, Run(p, O, U, G), Claimed(p), NEW w \in Workers,
           NEW report, NEW kind \in Stops, NEW now \in Nat,
           report = "Stopped" => w \notin U
    PROVE  Fine(AcceptInitialization(p, w, report, kind, now), O, U, G)
<1> DEFINE r == w[1]
           m == p.member[r]
           k == At(m, "WaitingForStartup", NoSub)
           q == With(p, r, k)
           x == With(p, r, Stopped(m, kind, now))
           a == AcceptInitialization(p, w, report, kind, now)
<1>0. r \in Roles /\ m \in Members
  BY DEF Workers, Run, Custody, Wide
<1>1. CASE ~Holds(p, w, {"Initializing"})
  BY <1>1 DEF AcceptInitialization, Fine
<1>2. CASE Holds(p, w, {"Initializing"})
  <2>1. WorkerOf(p, r) = w /\ m.at = "Initializing"
    BY <1>2 DEF Holds, WorkerOf, Workers
  <2>2. m.at \notin Newborn \cup Borrower
    BY <2>1 DEF Newborn, Borrower
  <2>3. CASE m.stop = NoStop /\ report = "ReadyForStartup"
    <3>1. a = AuthorizeWaiting(q)
      BY <1>2, <2>1, <2>3 DEF AcceptInitialization, AdmitsInitialization
    <3>2. /\ k \in Members /\ k.at = "WaitingForStartup" /\ k.n = m.n /\ k.stop = m.stop
          /\ k.sub = NoSub
      BY Zenon, <1>0, Records DEF At
    <3> HIDE DEF k
    <3>3. Live(k) /\ k.at \in MemberStates /\ k.at \notin Newborn \cup Borrower
      BY <2>3, <3>2, Names DEF Live, WorkerPhases, MemberStates, Newborn, Borrower
    <3>4. Steady(m, k, WorkerOf(p, r), U, G)
      BY <2>2, <3>2, <3>3 DEF Steady, Keeps
    <3>5. Onward(p, q, O, U, G)
      BY <1>0, <3>2, <3>3, <3>4, WithOn
    <3> HIDE DEF q
    <3>6. Onward(q, AuthorizeWaiting(q), O, U, G)
      BY <3>5, AuthorizeOn DEF Onward
    <3>7. QED BY <3>1, <3>5, <3>6 DEF Fine, Onward
  <2>4. CASE m.stop # NoStop
    <3>1. a = ContinueAfterPreReadyStop(p, r)
      BY <1>2, <2>4 DEF AcceptInitialization, AdmitsInitialization, ReturnedInitialization
    <3>2. ~Live(m)
      BY <2>4 DEF Live
    <3>3. Vacant(p, r, U)
      BY <1>0, <2>2, <3>2, Absent DEF Vacant, Run
    <3>4. QED BY <1>0, <3>1, <3>3, ContinueOn
  <2>5. CASE m.stop = NoStop /\ report = "Stopped"
    <3>1. a = ContinueAfterPreReadyStop(x, r)
      BY <1>2, <2>5 DEF AcceptInitialization, AdmitsInitialization, ReturnedInitialization
    <3>2. Onward(p, x, O, U, G) /\ Vacant(x, r, U)
      BY <1>0, <2>1, <2>2, <2>5, StoppedOn
    <3> HIDE DEF x
    <3>3. QED BY <1>0, <3>1, <3>2, ContinueOn DEF Onward
  <2>6. CASE m.stop = NoStop /\ report \notin {"Stopped", "ReadyForStartup"}
    <3>1. a \in {BeginShutdown(p), RequestWorkerShutdown(p, r)}
      BY <1>2, <2>6 DEF AcceptInitialization, AdmitsInitialization, ReturnedInitialization
    <3>2. Over(BeginShutdown(p), O, U, G)
      BY ShutdownOver
    <3>3. Onward(p, RequestWorkerShutdown(p, r), O, U, G)
      BY <1>0, <2>2, StopOn
    <3>4. QED BY <3>1, <3>2, <3>3 DEF Fine, Onward
  <2>7. QED BY <2>3, <2>4, <2>5, <2>6
<1>3. QED BY <1>1, <1>2

\* The reports of a startup.
LEMMA StartupOn ==
    ASSUME Counting, NEW p, NEW O, NEW U, NEW G, Run(p, O, U, G), Claimed(p), NEW w \in Workers,
           NEW report
    PROVE  Fine(AcceptStartup(p, w, report), O, U, G)
<1> DEFINE r == w[1]
           m == p.member[r]
           k == AdmitStartup(m)
           q == With(p, r, k)
           a == AcceptStartup(p, w, report)
<1>0. r \in Roles /\ m \in Members
  BY DEF Workers, Run, Custody, Wide
<1>1. CASE ~Holds(p, w, {"StartupRequested", "Starting"})
  BY <1>1 DEF AcceptStartup, Fine
<1>2. CASE Holds(p, w, {"StartupRequested", "Starting"})
  <2>1. WorkerOf(p, r) = w /\ m.at \in {"StartupRequested", "Starting"}
    BY <1>2 DEF Holds, WorkerOf, Workers
  <2>2. m.at \notin Newborn \cup Borrower
    BY <2>1 DEF Newborn, Borrower
  <2>3. CASE AdmitsStartup(m, report)
    <3>1. a \in {AuthorizeWaiting(FillFifo(q)), AuthorizeWaiting(q)}
      BY <1>2, <2>3 DEF AcceptStartup
    <3>2. /\ k \in Members /\ k.at \in {"Starting", "Idle"} /\ k.n = m.n /\ k.stop = m.stop
          /\ k.sub = m.sub
      <4>1. {"Starting", "Idle"} \subseteq States
        BY Names
      <4>2. QED BY <1>0, <4>1 DEF AdmitStartup, Members
    <3> HIDE DEF k
    <3>3. k.at \in MemberStates \ {"WaitingForSource"} /\ k.at \notin Newborn \cup Borrower
      BY <3>2 DEF WorkerPhases, MemberStates, Newborn, Borrower
    <3>4. Steady(m, k, WorkerOf(p, r), U, G)
      <4>1. WorkerOf(p, r) \in U => Live(m)
        BY <1>0, SteadySame DEF Run, Steady, Keeps
      <4>2. Live(m) => Live(k)
        BY <3>2 DEF Live, WorkerPhases
      <4>3. QED BY <2>2, <3>2, <3>3, <4>1, <4>2 DEF Steady, Keeps
    <3>5. Onward(p, q, O, U, G)
      BY <1>0, <3>2, <3>3, <3>4, WithOn
    <3> HIDE DEF q
    <3> DEFINE f == FillFifo(q)
    <3>6. Onward(q, AuthorizeWaiting(q), O, U, G) /\ Onward(q, f, O, U, G)
      BY <3>5, AuthorizeOn, FillFifoOn DEF Onward
    <3> HIDE DEF f
    <3>7. Onward(f, AuthorizeWaiting(f), O, U, G)
      BY <3>6, AuthorizeOn DEF Onward
    <3>8. a \in {AuthorizeWaiting(f), AuthorizeWaiting(q)}
      BY Zenon, <3>1 DEF f
    <3> HIDE DEF a
    <3>9. QED BY <3>5, <3>6, <3>7, <3>8 DEF Fine, Onward, a
  <2>4. CASE ~AdmitsStartup(m, report) /\ report = "Started"
    BY <1>2, <2>4 DEF AcceptStartup, Fine
  <2>5. CASE ~AdmitsStartup(m, report) /\ report # "Started" /\ m.stop # NoStop
    <3>1. a = ContinueAfterPreReadyStop(p, r)
      BY <1>2, <2>5 DEF AcceptStartup, StoppedStartup
    <3>2. ~Live(m)
      BY <2>5 DEF Live
    <3>3. Vacant(p, r, U)
      BY <1>0, <2>2, <3>2, Absent DEF Vacant, Run
    <3>4. QED BY <1>0, <3>1, <3>3, ContinueOn
  <2>6. CASE ~AdmitsStartup(m, report) /\ report # "Started" /\ m.stop = NoStop
    <3> DEFINE z == RequestWorkerShutdown(p, r)
    <3>1. a \in {BeginShutdown(p), AuthorizeWaiting(z)}
      BY <1>2, <2>6 DEF AcceptStartup, UnusableStartup
    <3>2. Over(BeginShutdown(p), O, U, G)
      BY ShutdownOver
    <3>3. Onward(p, z, O, U, G)
      BY <1>0, <2>2, StopOn
    <3> HIDE DEF z, a
    <3>4. Onward(z, AuthorizeWaiting(z), O, U, G)
      BY <3>3, AuthorizeOn DEF Onward
    <3>5. QED BY <3>1, <3>2, <3>3, <3>4 DEF Fine, Onward, a
  <2>7. QED BY <2>3, <2>4, <2>5, <2>6
<1>3. QED BY <1>1, <1>2

\* The end of a job, of a worker that may have exited.
LEMMA CompleteOn ==
    ASSUME Counting, NEW p, NEW O, NEW U, NEW G, Run(p, O, U, G), Claimed(p), NEW r \in Roles,
           p.member[r].at = "Busy"
    PROVE  Fine(CompleteAssignment(p, r), O, U, G)
<1> DEFINE m == p.member[r]
           q == Deliver(p, m.job, "Completed")
           k == At(m, "Idle", NoSub)
           x == With(q, r, k)
<1>0. p \in Wide /\ m \in Members /\ m.at \notin Newborn \cup Borrower
  BY DEF Run, Custody, Wide, Newborn, Borrower
<1>1. CompleteAssignment(p, r) = IF m.stop = NoStop THEN FillFifo(x) ELSE RecoverWorker(q, r)
  BY DEF CompleteAssignment
<1>2. Same(p, q)
  <2>1. "Completed" \in Words
    BY DEF Words
  <2>2. QED BY Zenon, <1>0, <2>1, SameUpdates
<1> HIDE DEF q
<1>3. Onward(p, q, O, U, G) /\ q.member = p.member /\ q.member[r] = m
  BY <1>2, SameOn DEF Same
<1>4. CASE m.stop = NoStop
  <2>1. k \in Members /\ k.at = "Idle" /\ k.n = m.n /\ k.stop = NoStop /\ k.sub = NoSub
    BY Zenon, <1>0, <1>4, Records DEF At
  <2> HIDE DEF k
  <2>2. Live(k) /\ k.at \in MemberStates \ {"WaitingForSource"} /\ k.at \notin Newborn \cup Borrower
    BY <2>1, Names DEF Live, WorkerPhases, MemberStates, Newborn, Borrower
  <2>3. Steady(q.member[r], k, WorkerOf(q, r), U, G)
    BY <1>0, <1>3, <2>1, <2>2 DEF Steady, Keeps
  <2>4. Onward(q, x, O, U, G)
    BY <1>3, <2>1, <2>2, <2>3, WithOn DEF Onward
  <2> HIDE DEF x
  <2>5. Onward(x, FillFifo(x), O, U, G)
    BY <2>4, FillFifoOn DEF Onward
  <2>6. QED BY <1>1, <1>3, <1>4, <2>4, <2>5 DEF Fine, Onward
<1>5. CASE m.stop # NoStop
  <2>1. ~Live(q.member[r])
    BY <1>3, <1>5 DEF Live
  <2>2. Vacant(q, r, U)
    BY <1>0, <1>3, <2>1, Absent DEF Vacant, Run, Onward
  <2>3. QED BY <1>1, <1>3, <1>5, <2>2, RecoverOn DEF Onward
<1>6. QED BY <1>4, <1>5

\* A job whose worker is gone.
LEMMA InterruptOn ==
    ASSUME Counting, NEW p, NEW O, NEW U, NEW G, Run(p, O, U, G), Claimed(p), NEW r \in Roles,
           Vacant(p, r, U)
    PROVE  Fine(InterruptAssignment(p, r), O, U, G)
<1> DEFINE j == p.member[r].job
           q == IF p.conf.interruption = "Fail" THEN Deliver(p, j, "ReturnedAssigned")
                ELSE Requeue(p, j)
<1>0. p \in Wide /\ j \in 0 .. NJobs /\ "ReturnedAssigned" \in Words
  BY DEF Run, Custody, Wide, Members, Words
<1>1. InterruptAssignment(p, r) = RecoverWorker(q, r)
  BY DEF InterruptAssignment
<1> HIDE DEF j
<1>2. Same(p, q)
  BY Zenon, <1>0, SameUpdates
<1> HIDE DEF q
<1>3. Onward(p, q, O, U, G) /\ q.member = p.member
  BY <1>2, SameOn DEF Same
<1>4. Vacant(q, r, U)
  BY <1>3 DEF Vacant, WorkerOf
<1>5. QED BY <1>1, <1>3, <1>4, RecoverOn DEF Onward

\* A busy role, and what its delivery may become.
LEMMA DeliveryOn ==
    ASSUME NEW p, NEW O, NEW U, NEW G, Run(p, O, U, G), NEW r \in Roles, p.member[r].at = "Busy",
           NEW sub \in Subs, Live(p.member[r]) =>
              sub \in {"AwaitingReceipt", "Accepted", "CompletionHasPriority"}
    PROVE  Onward(p, With(p, r, [p.member[r] EXCEPT !.sub = sub]), O, U, G)
<1> DEFINE m == p.member[r]
           k == [m EXCEPT !.sub = sub]
<1>0. m \in Members
  BY DEF Run, Custody, Wide
<1>1. k \in Members /\ k.at = "Busy" /\ k.n = m.n /\ k.stop = m.stop /\ k.sub = sub
  BY Zenon, <1>0 DEF Members
<1> HIDE DEF k
<1>2. k.at \in MemberStates \ {"WaitingForSource"} /\ k.at \notin Newborn \cup Borrower
  BY <1>1 DEF WorkerPhases, MemberStates, Newborn, Borrower
<1>3. WorkerOf(p, r) \in U => Live(m)
  BY SteadySame DEF Run, Steady, Keeps
<1>4. Live(m) => Live(k)
  BY <1>1 DEF Live
<1>5. Steady(m, k, WorkerOf(p, r), U, G)
  BY <1>1, <1>2, <1>3, <1>4 DEF Steady, Keeps
<1>6. QED BY Zenon, <1>1, <1>2, <1>5, WithOn DEF k

\* The receipt of an assignment.
LEMMA ReceiptOn ==
    ASSUME Counting, NEW p, NEW O, NEW U, NEW G, Run(p, O, U, G), Claimed(p), NEW w \in Workers,
           NEW j
    PROVE  Fine(AcceptAssignmentReceipt(p, w, j), O, U, G)
<1> DEFINE r == w[1]
           m == p.member[r]
           a == AcceptAssignmentReceipt(p, w, j)
<1>0. r \in Roles
  BY DEF Workers
<1>1. CASE ~(Holds(p, w, {"Busy"}) /\ m.job = j)
  BY <1>1 DEF AcceptAssignmentReceipt, Fine
<1>2. CASE Holds(p, w, {"Busy"}) /\ m.job = j
  <2>1. m.at = "Busy"
    BY <1>2 DEF Holds
  <2>2. a = CASE ReceiptVerdict(m) = "Waiting" -> With(p, r, [m EXCEPT !.sub = "Accepted"])
              [] ReceiptVerdict(m) = "JobCompleted" -> CompleteAssignment(p, r)
              [] ReceiptVerdict(m) = "JobInterrupted" -> InterruptAssignment(p, r)
              [] OTHER -> p
    BY <1>2 DEF AcceptAssignmentReceipt
  <2> HIDE DEF a
  <2>3. CASE ReceiptVerdict(m) = "Waiting"
    <3>1. "Accepted" \in Subs
      BY Names
    <3>2. Onward(p, With(p, r, [m EXCEPT !.sub = "Accepted"]), O, U, G)
      BY <1>0, <2>1, <3>1, DeliveryOn
    <3>3. QED BY <2>2, <2>3, <3>2 DEF Fine, Onward, a
  <2>4. CASE ReceiptVerdict(m) = "JobCompleted"
    BY <1>0, <2>1, <2>2, <2>4, CompleteOn DEF a
  <2>5. CASE ReceiptVerdict(m) = "JobInterrupted"
    <3>1. ~Live(m)
      BY <2>1, <2>5 DEF Live, ReceiptVerdict
    <3>2. Vacant(p, r, U)
      BY <1>0, <2>1, <3>1, Absent DEF Vacant, Run, Newborn, Borrower
    <3>3. QED BY <1>0, <2>2, <2>5, <3>2, InterruptOn DEF a
  <2>6. CASE ReceiptVerdict(m) \notin {"Waiting", "JobCompleted", "JobInterrupted"}
    <3>1. a = p
      BY <2>2, <2>6
    <3>2. QED BY <3>1 DEF Fine, a
  <2>7. QED BY <2>3, <2>4, <2>5, <2>6
<1>3. QED BY <1>1, <1>2

\* The refusal of an assignment.
LEMMA RefusalOn ==
    ASSUME Counting, NEW p, NEW O, NEW U, NEW G, Run(p, O, U, G), Claimed(p), NEW w \in Workers,
           NEW j
    PROVE  Fine(RejectAssignmentDelivery(p, w, j), O, U, G)
<1> DEFINE r == w[1]
           m == p.member[r]
           verdict == RejectionVerdict(m)
           returned == IF verdict = "JobReturned" THEN Requeue(p, j)
                       ELSE Deliver(p, j, "ReturnedAssigned")
           spent == [returned EXCEPT !.shutdowns = @ - 1]
           recovered == RecoverWorker(spent, r)
           stopped == RequestWorkerShutdown(returned, r)
           counted == [p EXCEPT !.shutdowns = @ - 1]
           a == RejectAssignmentDelivery(p, w, j)
<1>0. r \in Roles /\ p \in Wide /\ m \in Members /\ "ReturnedAssigned" \in Words
  BY DEF Workers, Run, Custody, Wide, Words
<1>1. CASE ~(Holds(p, w, {"Busy"}) /\ m.job = j)
  BY <1>1 DEF RejectAssignmentDelivery, Fine
<1>2. CASE Holds(p, w, {"Busy"}) /\ m.job = j
  <2>1. m.at = "Busy" /\ j \in 0 .. NJobs /\ m.at \notin Newborn \cup Borrower
    BY <1>0, <1>2 DEF Holds, Newborn, Borrower, Members
  <2>2. \/ a \in {BeginShutdown(p), counted}
        \/ m.stop # NoStop /\ a \in {recovered, ConflictingCompletion(recovered)}
        \/ m.stop = NoStop /\ a \in {FillFifo(stopped), ConflictingCompletion(stopped)}
    BY <1>2 DEF RejectAssignmentDelivery
  <2> HIDE DEF verdict, a
  <2>3. Same(p, returned)
    BY Zenon, <1>0, <2>1, SameUpdates
  <2>4. Same(p, counted)
    BY Zenon, <1>0, SameUpdates
  <2> HIDE DEF counted, returned
  <2>5. Onward(p, counted, O, U, G) /\ Onward(p, returned, O, U, G)
    BY <2>3, <2>4, SameOn
  <2>6. returned \in Wide /\ returned.member = p.member
    BY <2>3 DEF Same
  <2>7. Same(returned, spent)
    BY Zenon, <2>6, SameUpdates
  <2> HIDE DEF spent
  <2>8. Onward(returned, spent, O, U, G) /\ spent.member = p.member
    BY <2>5, <2>6, <2>7, SameOn DEF Same, Onward
  <2>9. Over(BeginShutdown(p), O, U, G)
    BY ShutdownOver
  <2>10. ASSUME NEW x, Fine(x, O, U, G) PROVE Fine(ConflictingCompletion(x), O, U, G)
    <3>1. CASE x.mode = "Operating"
      <4>1. Run(x, O, U, G)
        BY <2>10, <3>1 DEF Fine, Over
      <4>2. QED BY <3>1, <4>1, ShutdownOver DEF ConflictingCompletion, Fine
    <3>2. CASE x.mode # "Operating"
      BY <2>10, <3>2 DEF ConflictingCompletion
    <3>3. QED BY <3>1, <3>2
  <2>11. CASE a \in {BeginShutdown(p), counted}
    BY <2>5, <2>9, <2>11 DEF Fine, Onward, a
  <2>12. CASE m.stop # NoStop /\ a \in {recovered, ConflictingCompletion(recovered)}
    <3>1. ~Live(m) /\ spent.member[r] = m
      BY <2>8, <2>12 DEF Live
    <3>2. Vacant(spent, r, U)
      BY <1>0, <2>1, <2>5, <2>8, <3>1, Absent DEF Vacant, Run, Onward
    <3>3. Fine(recovered, O, U, G)
      BY <1>0, <2>5, <2>8, <3>2, RecoverOn DEF Onward
    <3> HIDE DEF recovered
    <3>4. QED BY <2>10, <2>12, <3>3 DEF a
  <2>13. CASE m.stop = NoStop /\ a \in {FillFifo(stopped), ConflictingCompletion(stopped)}
    <3>1. Onward(returned, stopped, O, U, G)
      BY <1>0, <2>1, <2>5, <2>6, StopOn DEF Onward
    <3> HIDE DEF stopped
    <3>2. Onward(stopped, FillFifo(stopped), O, U, G)
      BY <3>1, FillFifoOn DEF Onward
    <3>3. Fine(stopped, O, U, G) /\ Fine(FillFifo(stopped), O, U, G)
      BY <2>5, <3>1, <3>2 DEF Onward, Fine
    <3>4. QED BY <2>10, <2>13, <3>3 DEF a
  <2>14. QED BY <2>2, <2>11, <2>12, <2>13
<1>3. QED BY <1>1, <1>2

\* The completion of a job.
LEMMA CompletionOn ==
    ASSUME Counting, NEW p, NEW O, NEW U, NEW G, Run(p, O, U, G), Claimed(p), NEW w \in Workers,
           NEW j
    PROVE  Fine(AcceptCompletion(p, w, j), O, U, G)
<1> DEFINE r == w[1]
           m == p.member[r]
           a == AcceptCompletion(p, w, j)
           sub == IF m.sub = "AwaitingReceipt" THEN "CompletionHasPriority"
                  ELSE "WorkerExitThenCompletion"
           x == With(p, r, [m EXCEPT !.sub = sub])
<1>0. r \in Roles /\ m \in Members
  BY DEF Workers, Run, Custody, Wide
<1>1. CASE ~(Holds(p, w, {"Busy"}) /\ m.job = j)
  BY <1>1 DEF AcceptCompletion, Fine
<1>2. CASE Holds(p, w, {"Busy"}) /\ m.job = j
  <2>1. m.at = "Busy"
    BY <1>2 DEF Holds
  <2>2. \/ CompletionVerdict(m) = "Waiting" /\ a = x
        \/ a = CompleteAssignment(p, r)
        \/ a = p
    BY <1>2 DEF AcceptCompletion, HoldCompletion
  <2> HIDE DEF a
  <2>3. CASE CompletionVerdict(m) = "Waiting" /\ a = x
    <3>1. Live(m) => m.sub = "AwaitingReceipt"
      BY <2>1, <2>3 DEF Live, CompletionVerdict
    <3>2. sub \in Subs /\ (Live(m) => sub = "CompletionHasPriority")
      BY <3>1, Names
    <3> HIDE DEF sub
    <3>3. Onward(p, x, O, U, G)
      BY <1>0, <2>1, <3>2, DeliveryOn
    <3>4. QED BY <2>3, <3>3 DEF Fine, Onward, a
  <2>4. CASE a = CompleteAssignment(p, r)
    BY <1>0, <2>1, <2>4, CompleteOn DEF a
  <2>5. CASE a = p
    BY <2>5 DEF Fine, a
  <2>6. QED BY <2>2, <2>3, <2>4, <2>5
<1>3. QED BY <1>1, <1>2
=============================================================================
