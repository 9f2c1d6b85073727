--------------------------- MODULE FifoPoolEvents ---------------------------
(***************************************************************************)
(* The handlers of the FIFO pool, operating and draining: each keeps the   *)
(* custody of the worker source and of every worker.                       *)
(***************************************************************************)
EXTENDS FifoPoolCustody

\* The exit of a worker that was asked to stop.
LEMMA StoppingOn ==
    ASSUME Counting, NEW p, NEW O, NEW U, NEW G, Run(p, O, U, G), Claimed(p), NEW r \in Roles,
           p.member[r].at = "Stopping", WorkerOf(p, r) \notin U, NEW kind \in Stops, NEW now \in Nat
    PROVE  Fine(StoppingWorkerStop(p, r, kind, now), O, U, G)
<1> DEFINE m == p.member[r]
           s == Stopped(m, kind, now)
           k == [s EXCEPT !.sub = "AwaitingSettlement"]
           a == StoppingWorkerStop(p, r, kind, now)
<1>0. m \in Members /\ m.at \notin Newborn \cup Borrower
  BY DEF Run, Custody, Wide, Newborn, Borrower
<1>1. a \in {RecoverWorker(With(p, r, s), r), With(p, r, k), p}
  BY DEF StoppingWorkerStop
<1> HIDE DEF a
<1>2. s \in Members /\ s.at = m.at /\ s.n = m.n
  BY Zenon, <1>0 DEF Stopped, Members
<1>3. Onward(p, With(p, r, s), O, U, G) /\ Vacant(With(p, r, s), r, U)
  BY <1>0, <1>2, RecordOn
<1> HIDE DEF s
<1>4. k \in Members /\ k.at = m.at /\ k.n = m.n
  <2>1. "AwaitingSettlement" \in Subs
    BY Names
  <2>2. QED BY Zenon, <1>2, <2>1 DEF Members
<1> HIDE DEF k
<1>5. Onward(p, With(p, r, k), O, U, G)
  BY <1>0, <1>4, RecordOn
<1>6. Fine(RecoverWorker(With(p, r, s), r), O, U, G)
  BY <1>3, RecoverOn DEF Onward
<1>7. QED BY <1>1, <1>5, <1>6 DEF Fine, Onward, a

\* The exit of a busy worker.
LEMMA AssignedOn ==
    ASSUME Counting, NEW p, NEW O, NEW U, NEW G, Run(p, O, U, G), Claimed(p), NEW r \in Roles,
           p.member[r].at = "Busy", WorkerOf(p, r) \notin U, NEW kind \in Stops, NEW now \in Nat
    PROVE  Fine(AssignedWorkerStop(p, r, kind, now), O, U, G)
<1> DEFINE m == p.member[r]
           s == Stopped(m, kind, now)
           k == HoldExit(m, kind, now)
           a == AssignedWorkerStop(p, r, kind, now)
<1>0. m \in Members /\ m.at \notin Newborn \cup Borrower
  BY DEF Run, Custody, Wide, Newborn, Borrower
<1>1. a \in {InterruptAssignment(With(p, r, s), r), With(p, r, k), p}
  BY DEF AssignedWorkerStop
<1> HIDE DEF a
<1>2. s \in Members /\ s.at = m.at /\ s.n = m.n
  BY Zenon, <1>0 DEF Stopped, Members
<1>3. Onward(p, With(p, r, s), O, U, G) /\ Vacant(With(p, r, s), r, U)
  BY <1>0, <1>2, RecordOn
<1>4. k \in Members /\ k.at = m.at /\ k.n = m.n
  <2>1. "WorkerExitHasPriority" \in Subs
    BY Names
  <2>2. \E sub \in Subs : k = [s EXCEPT !.sub = sub]
    BY <1>2, <2>1 DEF HoldExit, Members
  <2> HIDE DEF s
  <2>3. QED BY <1>2, <2>2 DEF Members
<1> HIDE DEF k, s
<1>5. Onward(p, With(p, r, k), O, U, G)
  BY <1>0, <1>4, RecordOn
<1>6. Fine(InterruptAssignment(With(p, r, s), r), O, U, G)
  BY <1>3, InterruptOn DEF Onward
<1>7. QED BY <1>1, <1>5, <1>6 DEF Fine, Onward, a

\* The exit of a worker.
LEMMA WorkerStopOn ==
    ASSUME Counting, NEW p, NEW O, NEW U, NEW G, Run(p, O, U, G), Claimed(p), NEW w \in Workers,
           w \notin U, w \in G, NEW kind \in Stops, NEW now \in Nat
    PROVE  Fine(AcceptWorkerStop(p, w, kind, now), O, U, G)
<1> DEFINE r == w[1]
           m == p.member[r]
           q == With(p, r, Stopped(m, kind, now))
           a == AcceptWorkerStop(p, w, kind, now)
<1>0. r \in Roles
  BY DEF Workers
<1>1. CASE ~Current(p, w)
  BY <1>1 DEF AcceptWorkerStop, Fine
<1>2. CASE Current(p, w)
  <2>1. WorkerOf(p, r) = w
    BY <1>2 DEF Current, WorkerOf, Workers
  <2>2. \/ a \in {p, q}
        \/ m.at = "WaitingForStartup" /\ a = ContinueAfterPreReadyStop(q, r)
        \/ m.at = "Idle" /\ a = RecoverWorker(q, r)
        \/ m.at = "Busy" /\ a = AssignedWorkerStop(p, r, kind, now)
        \/ m.at = "Stopping" /\ a = StoppingWorkerStop(p, r, kind, now)
    BY Zenon, <1>2 DEF AcceptWorkerStop
  <2> HIDE DEF a
  <2>3. /\ Onward(p, q, O, U, G) /\ (m.at \notin Newborn \cup Borrower => Vacant(q, r, U))
    BY Zenon, <1>0, <2>1, StoppedOn
  <2> HIDE DEF q
  <2>4. CASE a \in {p, q}
    BY <2>3, <2>4 DEF Fine, Onward, a
  <2>5. CASE m.at \in {"WaitingForStartup", "Idle"}
             /\ a \in {ContinueAfterPreReadyStop(q, r), RecoverWorker(q, r)}
    <3>1. Vacant(q, r, U)
      BY <2>3, <2>5 DEF Newborn, Borrower
    <3>2. /\ Fine(ContinueAfterPreReadyStop(q, r), O, U, G)
          /\ Fine(RecoverWorker(q, r), O, U, G)
      BY <1>0, <2>3, <3>1, ContinueOn, RecoverOn DEF Onward
    <3>3. QED BY <2>5, <3>2 DEF a
  <2>6. CASE m.at = "Busy" /\ a = AssignedWorkerStop(p, r, kind, now)
    BY <1>0, <2>1, <2>6, AssignedOn DEF a
  <2>7. CASE m.at = "Stopping" /\ a = StoppingWorkerStop(p, r, kind, now)
    BY <1>0, <2>1, <2>7, StoppingOn DEF a
  <2>8. QED BY <2>2, <2>4, <2>5, <2>6, <2>7
<1>3. QED BY <1>1, <1>2

\* The settlement of a shutdown request.
LEMMA SettledOn ==
    ASSUME Counting, NEW p, NEW O, NEW U, NEW G, Run(p, O, U, G), Claimed(p), NEW w \in Workers
    PROVE  Fine(AcceptWorkerShutdown(p, w), O, U, G)
<1> DEFINE r == w[1]
           m == p.member[r]
           k == [m EXCEPT !.sub = "AwaitingStop"]
           a == AcceptWorkerShutdown(p, w)
<1>0. r \in Roles /\ m \in Members
  BY DEF Workers, Run, Custody, Wide
<1>1. CASE ~Holds(p, w, {"Stopping"})
  BY <1>1 DEF AcceptWorkerShutdown, Fine
<1>2. CASE Holds(p, w, {"Stopping"})
  <2>1. m.at = "Stopping" /\ m.at \notin Newborn \cup Borrower
    BY <1>2 DEF Holds, Newborn, Borrower
  <2>2. \/ m.sub = "AwaitingSettlement" /\ a = RecoverWorker(p, r)
        \/ a \in {p, With(p, r, k)}
    BY <1>2 DEF AcceptWorkerShutdown, JoinSettled
  <2> HIDE DEF a
  <2>3. CASE m.sub = "AwaitingSettlement" /\ a = RecoverWorker(p, r)
    <3>1. ~Live(m)
      BY <2>3 DEF Live
    <3>2. Vacant(p, r, U)
      BY <1>0, <2>1, <3>1, Absent DEF Vacant, Run
    <3>3. QED BY <1>0, <2>3, <3>2, RecoverOn DEF a
  <2>4. CASE a \in {p, With(p, r, k)}
    <3>1. k \in Members /\ k.at = m.at /\ k.n = m.n /\ k.stop = m.stop /\ k.sub = "AwaitingStop"
      <4>1. "AwaitingStop" \in Subs
        BY Names
      <4>2. QED BY Zenon, <1>0, <4>1 DEF Members
    <3> HIDE DEF k
    <3>2. WorkerOf(p, r) \in U => Live(m)
      BY <1>0, SteadySame DEF Run, Steady, Keeps
    <3>3. Live(m) => Live(k)
      BY <2>1, <3>1 DEF Live
    <3>4. Steady(m, k, WorkerOf(p, r), U, G)
      BY <2>1, <3>1, <3>2, <3>3 DEF Steady, Keeps
    <3>5. k.at \in MemberStates \ {"WaitingForSource"}
      BY <2>1, <3>1 DEF MemberStates, WorkerPhases
    <3>6. Onward(p, With(p, r, k), O, U, G)
      BY <1>0, <3>1, <3>4, <3>5, WithOn
    <3>7. QED BY <2>4, <3>6 DEF Fine, Onward, a
  <2>5. QED BY <2>2, <2>3, <2>4
<1>3. QED BY <1>1, <1>2

\* The timer of a delayed replacement is settled, and elapses.
LEMMA TimersOn ==
    ASSUME Counting, NEW p, NEW O, NEW U, NEW G, Run(p, O, U, G), Claimed(p), NEW w \in Workers
    PROVE  /\ \A accepted : Fine(AcceptRestartSchedule(p, w, accepted), O, U, G)
           /\ Fine(AcceptRestartTimer(p, w), O, U, G)
<1> DEFINE r == w[1]
           m == p.member[r]
           k == At(m, "WaitingForTimer", NoSub)
<1>0. r \in Roles /\ p \in Wide /\ m \in Members
  BY DEF Workers, Run, Custody, Wide
<1>1. m.at \in {"Scheduling", "WaitingForTimer"} => Vacant(p, r, U)
  <2>1. m.at \in {"Scheduling", "WaitingForTimer"} => ~Live(m)
    BY DEF Live, WorkerPhases
  <2>2. QED BY <1>0, <2>1, Absent DEF Vacant, Run, Newborn, Borrower
<1>2. Vacant(p, r, U) => Fine(RetireRoleAfterError(p, r), O, U, G)
  <2>1. Retire(m) \in Members /\ Retire(m).at = "Retired" /\ Retire(m).n = m.n
    BY <1>0, Records DEF Retire, Cleared
  <2>2. Vacant(p, r, U) => Run(With(p, r, Retire(m)), O, U, G)
    BY <1>0, <2>1, VacantOn DEF Onward
  <2>3. QED BY <1>0, <2>2, ErrorOn
<1>3. Vacant(p, r, U) => Fine(With(p, r, k), O, U, G)
  <2>1. k \in Members /\ k.at = "WaitingForTimer" /\ k.n = m.n
    BY Zenon, <1>0, Records DEF At
  <2> HIDE DEF k
  <2>2. QED BY <1>0, <2>1, VacantOn DEF Onward, Fine
<1>4. Vacant(p, r, U) => Fine(BeginReplacement(p, r), O, U, G)
  BY <1>0, BornOn, ReplacementBears DEF Onward, Fine
<1>5. Fine(p, O, U, G)
  BY DEF Fine
<1>6. ASSUME NEW accepted PROVE Fine(AcceptRestartSchedule(p, w, accepted), O, U, G)
  <2>1. \/ AcceptRestartSchedule(p, w, accepted) = p
        \/ /\ m.at = "Scheduling"
           /\ AcceptRestartSchedule(p, w, accepted) \in {With(p, r, k), RetireRoleAfterError(p, r)}
    BY DEF AcceptRestartSchedule, AdmitRestartSchedule
  <2>2. QED BY <1>1, <1>2, <1>3, <1>5, <2>1
<1>7. Fine(AcceptRestartTimer(p, w), O, U, G)
  <2>1. \/ AcceptRestartTimer(p, w) = p
        \/ /\ m.at = "WaitingForTimer"
           /\ AcceptRestartTimer(p, w) \in {BeginReplacement(p, r), RetireRoleAfterError(p, r)}
    BY DEF AcceptRestartTimer, AdmitsRestartTimer
  <2>2. QED BY <1>1, <1>2, <1>4, <1>5, <2>1
<1>8. QED BY <1>6, <1>7

-----------------------------------------------------------------------------
(* The loan of the worker source.                                            *)

\* Who has the source.
LEMMA LoanOf ==
    ASSUME NEW p, NEW O, NEW U, NEW G, Custody(p, O, U, G), NEW q \in O,
           q.op \in {"prepare", "prepared"}, NEW w \in q.of
    PROVE  /\ w[1] \in Roles /\ w = WorkerOf(p, w[1]) /\ w \in Workers /\ w \notin U
           /\ Current(p, w) /\ q = Loan(p, w[1]) /\ q.of = {w}
           /\ p.member[w[1]].at \in Borrower
           /\ p.member[w[1]].sub = IF q.op = "prepare" THEN "Issued" ELSE "Started"
<1>1. PICK r \in Roles : p.member[r].at \in Borrower /\ q = Loan(p, r)
  BY DEF Custody, Lent
<1>2. p.member[r] \in Members /\ p.member[r].sub \in {"Issued", "Started"}
  BY <1>1 DEF Custody, Lent, Wide
<1>3. w = WorkerOf(p, r) /\ q.of = {w} /\ w[1] = r /\ w[2] = p.member[r].n
  BY <1>1 DEF Loan, Req, WorkerOf
<1>4. q.op = IF p.member[r].sub = "Issued" THEN "prepare" ELSE "prepared"
  BY <1>1 DEF Loan, Req
<1>5. w \in Workers
  BY <1>2, <1>3 DEF Workers, WorkerOf, Members
<1>6. w \notin U
  BY <1>1, <1>3, Absent DEF Live, Borrower, WorkerPhases
<1>7. QED BY <1>1, <1>2, <1>3, <1>4, <1>5, <1>6 DEF Current

\* One role's record is replaced, and the source is where it is.
Amends(p, x, r, k) ==
    /\ x \in Wide /\ k \in Members /\ x.member = [p.member EXCEPT ![r] = k] /\ x.sent = {}
    /\ k.n = p.member[r].n /\ k.at \notin Newborn

\* The requests P are among O, but for the return of a preparation.
Among(P, O) == \A t \in P : t \in O \/ t.op = "prepared"

Unnoticed(p, x, P, U, G, r, k) ==
    /\ Followed(x, U) /\ Awaited(x, P, G) /\ Formed(P \cup x.sent, x.sent)
    /\ \A s \in Roles : x.member[s] = IF s = r THEN k ELSE p.member[s]
    /\ \A s \in Roles : WorkerOf(x, s) = WorkerOf(p, s)

\* The workers and the creations do not notice.
LEMMA AmendsKept ==
    ASSUME NEW p, NEW x, NEW O, NEW P, NEW U, NEW G, Custody(p, O, U, G), NEW r \in Roles,
           NEW k, Amends(p, x, r, k), p.member[r].at \in Borrower,
           Among(P, O)
    PROVE  Unnoticed(p, x, P, U, G, r, k)
<1>0. p \in Wide /\ p.member \in [Roles -> Members]
  BY DEF Custody, Wide
<1>1. \A s \in Roles : x.member[s] = IF s = r THEN k ELSE p.member[s]
  BY <1>0 DEF Amends
<1>2. WorkerOf(p, r) \notin U
  BY Absent DEF Live, Borrower, WorkerPhases
<1>3. Keeps(p.member[r], k, WorkerOf(p, r), U, G)
  BY <1>2 DEF Keeps, Amends, Newborn, Borrower
<1>4. \A s \in Roles : Keeps(p.member[s], x.member[s], WorkerOf(p, s), U, G)
  BY Zenon, <1>1, <1>3, SteadySame DEF Steady
<1>5. Followed(x, U)
  <2>1. Followed(p, U) /\ U \in SUBSET U
    BY DEF Custody
  <2>2. QED BY Zenon, <1>4, <2>1, FollowedKept
<1>6. Awaited(x, P, G)
  <2>1. Awaited(p, O \cup p.sent, G) /\ O \cup p.sent \in SUBSET Requests /\ G \subseteq G
    BY <1>0 DEF Custody, Wide
  <2>2. \A t \in P : t.op = "create" => t \in O \cup p.sent
    BY DEF Among
  <2>3. QED BY Zenon, <1>4, <2>1, <2>2, AwaitedKept
<1>7. Formed(P \cup x.sent, x.sent)
  <2>1. Formed(O \cup p.sent, p.sent) /\ x.sent = {}
    BY DEF Custody, Amends
  <2>2. QED BY <2>1 DEF Formed, Among
<1>8. \A s \in Roles : WorkerOf(x, s) = WorkerOf(p, s)
  BY <1>1 DEF WorkerOf, Amends
<1>9. QED BY Zenon, <1>1, <1>5, <1>6, <1>7, <1>8 DEF Unnoticed

\* The source comes back.
LEMMA ReturnedKept ==
    ASSUME NEW p, NEW x, NEW O, NEW U, NEW G, Custody(p, O, U, G), p.sent = {}, NEW r \in Roles,
           NEW k, Amends(p, x, r, k), p.member[r].at \in Borrower, k.at \notin Borrower,
           x.source = "Available"
    PROVE  Custody(x, O \ {Loan(p, r)}, U, G)
<1> DEFINE P == O \ {Loan(p, r)}
<1>0. Among(P, O)
  BY DEF Among
<1>1. /\ Followed(x, U) /\ Awaited(x, P, G) /\ Formed(P \cup x.sent, x.sent)
      /\ \A s \in Roles : x.member[s] = IF s = r THEN k ELSE p.member[s]
      /\ \A s \in Roles : WorkerOf(x, s) = WorkerOf(p, s)
  <2> HIDE DEF P
  <2>1. Unnoticed(p, x, P, U, G, r, k)
    BY Zenon, <1>0, AmendsKept
  <2>2. QED BY Zenon, <2>1 DEF Unnoticed
<1>2. /\ \A s \in Roles : p.member[s].at \in Borrower => s = r
      /\ \A q \in O : q.op \in {"prepare", "prepared"} =>
            \E s \in Roles : p.member[s].at \in Borrower /\ q = Loan(p, s)
  <2>1. Lent(p, O \cup p.sent) /\ O \cup p.sent = O
    BY DEF Custody
  <2>2. Lent(p, O)
    BY Zenon, <2>1
  <2>3. QED BY Zenon, <2>2 DEF Lent
<1>3. \A s \in Roles : x.member[s].at \notin Borrower
  BY Zenon, <1>1, <1>2
<1>4. \A q \in P : q.op \notin {"prepare", "prepared"}
  BY Zenon, <1>2
<1>5. x.source # "AwaitingReturn" /\ x.sent = {} /\ x \in Wide /\ P \cup x.sent = P
      /\ P \subseteq Requests
  BY DEF Amends, Custody
<1> HIDE DEF P
<1>6. Lent(x, P)
  BY Zenon, <1>3, <1>4, <1>5 DEF Lent
<1>7. Custody(x, P, U, G)
  BY Zenon, <1>1, <1>5, <1>6 DEF Custody
<1>8. QED BY <1>7 DEF P

\* The preparation has started.
LEMMA StartedKept ==
    ASSUME NEW p, NEW x, NEW O, NEW U, NEW G, Custody(p, O, U, G), p.sent = {}, NEW r \in Roles,
           NEW k, Amends(p, x, r, k), p.member[r].at \in Borrower, k.at \in Borrower,
           k.sub = "Started", x.source = p.source
    PROVE  Custody(x, (O \ {Loan(p, r)}) \cup {Req("prepared", {WorkerOf(p, r)}, 0)}, U, G)
<1> DEFINE t == Req("prepared", {WorkerOf(p, r)}, 0)
           P == (O \ {Loan(p, r)}) \cup {t}
<1>00. t.op = "prepared" /\ t \in Requests
  BY PoolAssumption DEF Req, Requests, Ops, WorkerOf, Workers, Custody, Wide, Members
<1> DEFINE Loans == {"prepare", "prepared"}
<1>01. "prepared" \in Loans
  OBVIOUS
<1>0. Among(P, O)
  BY <1>00 DEF Among
<1>1. /\ Followed(x, U) /\ Awaited(x, P, G) /\ Formed(P \cup x.sent, x.sent)
      /\ \A s \in Roles : x.member[s] = IF s = r THEN k ELSE p.member[s]
      /\ \A s \in Roles : WorkerOf(x, s) = WorkerOf(p, s)
  <2> HIDE DEF P
  <2>1. Unnoticed(p, x, P, U, G, r, k)
    BY Zenon, <1>0, AmendsKept
  <2>2. QED BY Zenon, <2>1 DEF Unnoticed
<1>2. /\ \A s \in Roles : p.member[s].at \in Borrower => s = r
      /\ \A q \in O : q.op \in Loans =>
            \E s \in Roles : p.member[s].at \in Borrower /\ q = Loan(p, s)
      /\ p.source = "AwaitingReturn"
  <2>1. Lent(p, O \cup p.sent) /\ O \cup p.sent = O
    BY DEF Custody
  <2>2. Lent(p, O)
    BY Zenon, <2>1
  <2>3. QED BY Zenon, <2>2 DEF Lent
<1>3. Loan(x, r) = t
  BY <1>1 DEF Loan, NoJob
<1> HIDE DEF t
<1>4. \A s \in Roles : x.member[s].at \in Borrower <=> s = r
  BY Zenon, <1>1, <1>2
<1>5. \A q \in P : q.op \in Loans => q = t
  BY Zenon, <1>2
<1>6. x.sent = {} /\ x \in Wide /\ P \cup x.sent = P /\ P \subseteq Requests /\ t \in P
  BY <1>00 DEF Amends, Custody
<1>7. x.member[r].sub \in {"Issued", "Started"}
  BY <1>1
<1> HIDE DEF P
<1>8. Lent(x, P)
  <2>1. \A q \in P : q.op \in Loans =>
          \E s \in Roles : x.member[s].at \in Borrower /\ q = Loan(x, s)
    BY Zenon, <1>3, <1>4, <1>5
  <2>2. QED BY Zenon, <1>2, <1>3, <1>4, <1>6, <1>7, <2>1 DEF Lent
<1>9. Custody(x, P, U, G)
  BY Zenon, <1>1, <1>6, <1>8 DEF Custody
<1>10. QED BY <1>9 DEF P, t

\* In an operating pool the role goes on without the source.
LEMMA ReturnedOn ==
    ASSUME NEW p, NEW x, NEW O, NEW U, NEW G, Run(p, O, U, G), p.sent = {}, NEW r \in Roles,
           NEW k, Amends(p, x, r, k), p.member[r].at \in Borrower,
           k.at \in {"Retired", "Scheduling"}, x.source = "Available", x.mode = p.mode
    PROVE  Run(x, O \ {Loan(p, r)}, U, G) /\ Vacant(x, r, U)
<1>0. k.at \notin Borrower /\ k.at \in MemberStates /\ k.at \notin Newborn
  BY DEF Borrower, Newborn, MemberStates, Recovering
<1>1. Custody(p, O, U, G)
  BY DEF Run
<1>2. Custody(x, O \ {Loan(p, r)}, U, G)
  BY Zenon, <1>0, <1>1, ReturnedKept
<1>3. \A s \in Roles : x.member[s] = IF s = r THEN k ELSE p.member[s]
  BY <1>1 DEF Amends, Custody, Wide
<1>4. Run(x, O \ {Loan(p, r)}, U, G)
  BY <1>0, <1>2, <1>3 DEF Run
<1>5. WorkerOf(x, r) \notin U
  BY <1>2, <1>3, Absent DEF Live, WorkerPhases
<1>6. QED BY <1>0, <1>3, <1>4, <1>5 DEF Vacant

\* The source is returned without a worker.
LEMMA UnpreparedOn ==
    ASSUME Counting, NEW p, NEW O, NEW U, NEW G, Run(p, O, U, G), p.sent = {}, NEW r \in Roles,
           p.member[r].at \in Borrower
    PROVE  Fine(RetireRoleAfterError([p EXCEPT !.source = "Available"], r),
                O \ {Loan(p, r)}, U, G)
<1> DEFINE b == [p EXCEPT !.source = "Available"]
           m == p.member[r]
           k == Retire(m)
           x == With(b, r, k)
<1>0. p \in Wide /\ m \in Members
  BY DEF Run, Custody, Wide
<1>1. b \in Wide /\ b.source = "Available" /\ b.member = p.member /\ b.sent = {} /\ b.mode = p.mode
  BY Zenon, <1>0 DEF Wide
<1>2. k \in Members /\ k.at = "Retired" /\ k.n = m.n
  BY <1>0, Records DEF Retire, Cleared
<1> HIDE DEF b, k
<1>3. /\ x \in Wide /\ x.source = b.source /\ x.sent = b.sent /\ x.mode = b.mode
      /\ x.member = [b.member EXCEPT ![r] = k]
  BY Zenon, <1>1, <1>2 DEF With, Wide
<1> HIDE DEF x
<1>4. Amends(p, x, r, k)
  BY <1>1, <1>2, <1>3 DEF Amends, Newborn
<1>5. Run(x, O \ {Loan(p, r)}, U, G)
  BY <1>1, <1>2, <1>3, <1>4, ReturnedOn
<1>6. With(b, r, Retire(b.member[r])) = x
  BY <1>1 DEF x, k
<1>7. Fine(RetireRoleAfterError(b, r), O \ {Loan(p, r)}, U, G)
  BY <1>5, <1>6, ErrorOn
<1>8. QED BY <1>7 DEF b

\* The settlement of the request to prepare a worker.
LEMMA PreparationStartOn ==
    ASSUME Counting, NEW p, NEW O, NEW U, NEW G, Run(p, O, U, G), p.sent = {}, NEW q \in O,
           q.op = "prepare", NEW w \in q.of
    PROVE  /\ Fine(AcceptWorkerPreparationStart(p, w, TRUE),
                   (O \ {q}) \cup {Req("prepared", q.of, 0)}, U, G)
           /\ Fine(AcceptWorkerPreparationStart(p, w, FALSE), O \ {q}, U, G)
<1> DEFINE r == w[1]
           m == p.member[r]
           k == [m EXCEPT !.sub = "Started"]
           x == With(p, r, k)
           P == (O \ {q}) \cup {Req("prepared", q.of, 0)}
<1>1. Custody(p, O, U, G) /\ q.op \in {"prepare", "prepared"}
  BY DEF Run
<1>2. /\ r \in Roles /\ w = WorkerOf(p, r) /\ Current(p, w) /\ q = Loan(p, r) /\ q.of = {w}
      /\ m.at \in Borrower /\ m.sub = "Issued"
  BY <1>1, LoanOf
<1>3. m.at = "Preparing" /\ p \in Wide /\ m \in Members
  BY Zenon, <1>1, <1>2 DEF Run, Borrower, MemberStates, WorkerPhases, Recovering, Custody, Wide
<1>4. /\ AcceptWorkerPreparationStart(p, w, TRUE) = x
      /\ AcceptWorkerPreparationStart(p, w, FALSE)
            = RetireRoleAfterError([p EXCEPT !.source = "Available"], r)
  BY <1>2, <1>3
     DEF AcceptWorkerPreparationStart, AcceptPreparationStart, PreparationStart
<1>5. Fine(AcceptWorkerPreparationStart(p, w, FALSE), O \ {q}, U, G)
  <2>1. Fine(RetireRoleAfterError([p EXCEPT !.source = "Available"], r),
             O \ {Loan(p, r)}, U, G)
    BY <1>2, UnpreparedOn
  <2>2. QED BY Zenon, <1>2, <1>4, <2>1
<1>6. k \in Members /\ k.at = "Preparing" /\ k.n = m.n /\ k.sub = "Started"
  <2>1. "Started" \in Subs
    BY Names
  <2>2. QED BY Zenon, <1>3, <2>1 DEF Members
<1> HIDE DEF k
<1>7. /\ x \in Wide /\ x.source = p.source /\ x.sent = {} /\ x.mode = p.mode
      /\ x.member = [p.member EXCEPT ![r] = k]
  BY Zenon, <1>2, <1>3, <1>6 DEF With, Wide
<1>8. Amends(p, x, r, k) /\ k.at \in Borrower
  BY Zenon, <1>6, <1>7 DEF Amends, Newborn, Borrower
<1> HIDE DEF x
<1>9. Custody(x, P, U, G)
  BY <1>1, <1>2, <1>6, <1>7, <1>8, StartedKept
<1>10. \A s \in Roles : x.member[s].at \in MemberStates
  BY <1>3, <1>6, <1>7 DEF Run, MemberStates, Wide, Recovering
<1>11. p.source = "AwaitingReturn"
  BY <1>1, <1>2 DEF Custody, Lent
<1>12. Fine(x, P, U, G)
  BY <1>7, <1>9, <1>10, <1>11 DEF Fine, Run, Claimed
<1>13. QED BY Zenon, <1>4, <1>5, <1>12

\* The prepared worker is created at once.
LEMMA ImmediateOn ==
    ASSUME Counting, NEW p, NEW O, NEW U, NEW G, Run(p, O, U, G), p.sent = {}, NEW r \in Roles,
           p.member[r].at \in Borrower, NEW paid \in Wide, paid.source = "Available",
           paid.sent = {}, paid.mode = p.mode, paid.member = p.member
    PROVE  Fine(PrepareNextWaiting(BeginReplacement(paid, r)), O \ {Loan(p, r)}, U, G)
<1> DEFINE m == p.member[r]
           k == Retire(m)
           z == With(paid, r, k)
           b == BeginReplacement(paid, r)
           P == O \ {Loan(p, r)}
<1>0. m \in Members
  BY DEF Run, Custody, Wide
<1>1. k \in Members /\ k.at = "Retired" /\ k.n = m.n
  BY <1>0, Records DEF Retire, Cleared
<1> HIDE DEF k
<1>2. /\ z \in Wide /\ z.source = paid.source /\ z.sent = paid.sent /\ z.mode = paid.mode
      /\ z.member = [paid.member EXCEPT ![r] = k] /\ z.conf = paid.conf
  BY Zenon, <1>1 DEF With, Wide
<1> HIDE DEF z
<1>3. Amends(p, z, r, k)
  BY <1>1, <1>2 DEF Amends, Newborn
<1>4. Run(z, P, U, G) /\ Vacant(z, r, U)
  BY Zenon, <1>1, <1>2, <1>3, ReturnedOn
<1>5. Bears(paid, b, r)
  BY ReplacementBears
<1>6. z.member[r].n = m.n /\ paid.member \in [Roles -> Members]
  BY <1>0, <1>1, <1>2 DEF Wide
<1>7. [z.member EXCEPT ![r] = Start(m.n + 1)] = [paid.member EXCEPT ![r] = Start(m.n + 1)]
  BY <1>2, <1>6
<1> HIDE DEF b
<1>8. Bears(z, b, r)
  BY Zenon, <1>2, <1>5, <1>6, <1>7 DEF Bears
<1>9. Run(b, P, U, G)
  BY <1>4, <1>8, BornOn DEF Onward
<1> HIDE DEF P
<1>10. Fine(PrepareNextWaiting(b), P, U, G)
  BY <1>9, NextOn DEF Fine
<1>11. QED BY <1>10 DEF b, P

\* The prepared worker is created after a delay.
LEMMA DelayedOn ==
    ASSUME Counting, NEW p, NEW O, NEW U, NEW G, Run(p, O, U, G), p.sent = {}, NEW r \in Roles,
           p.member[r].at \in Borrower, NEW paid \in Wide, paid.source = "Available",
           paid.sent = {}, paid.mode = p.mode, paid.member = p.member
    PROVE  LET timed == [With(paid, r, At(p.member[r], "Scheduling", NoSub))
                            EXCEPT !.timers = @ - 1]
           IN  Fine(PrepareNextWaiting(Send(timed, "schedule", r, NoJob)),
                    O \ {Loan(p, r)}, U, G)
<1> DEFINE m == p.member[r]
           k == At(m, "Scheduling", NoSub)
           z == With(paid, r, k)
           timed == [z EXCEPT !.timers = @ - 1]
           b == Send(timed, "schedule", r, NoJob)
           P == O \ {Loan(p, r)}
<1>0. m \in Members
  BY DEF Run, Custody, Wide
<1>1. k \in Members /\ k.at = "Scheduling" /\ k.n = m.n
  BY Zenon, <1>0, Records DEF At
<1> HIDE DEF k
<1>2. /\ z \in Wide /\ z.source = paid.source /\ z.sent = paid.sent /\ z.mode = paid.mode
      /\ z.member = [paid.member EXCEPT ![r] = k]
  BY Zenon, <1>1 DEF With, Wide
<1> HIDE DEF z
<1>3. z.timers - 1 \in Int
  BY <1>2 DEF Wide
<1>4. /\ timed \in Wide /\ timed.source = z.source /\ timed.sent = z.sent
      /\ timed.mode = z.mode /\ timed.member = z.member
  BY Zenon, <1>2, <1>3 DEF Wide
<1> HIDE DEF timed
<1>5. Amends(p, timed, r, k)
  BY <1>1, <1>2, <1>4 DEF Amends, Newborn
<1>6. Run(timed, P, U, G)
  BY <1>1, <1>2, <1>4, <1>5, ReturnedOn
<1>7. NoJob \in 0 .. NJobs
  BY PoolAssumption DEF NoJob
<1> HIDE DEF P
<1>8. Run(b, P, U, G)
  BY <1>6, <1>7, SendOn DEF Onward
<1> HIDE DEF b
<1>9. Fine(PrepareNextWaiting(b), P, U, G)
  BY <1>8, NextOn DEF Fine
<1>10. QED BY <1>9 DEF b, timed, z, k, P

\* The source comes back, with a worker or without.
LEMMA PreparationReturnOn ==
    ASSUME Counting, NEW p, NEW O, NEW U, NEW G, Run(p, O, U, G), p.sent = {}, NEW q \in O,
           q.op = "prepared", NEW w \in q.of, NEW prepared \in BOOLEAN
    PROVE  Fine(AcceptWorkerPreparationReturn(p, w, prepared), O \ {q}, U, G)
<1> DEFINE r     == w[1]
           m     == p.member[r]
           delay == Calculate(p.conf.release, m.n)
           b     == [p EXCEPT !.source = "Available"]
           c     == Charged(b.charges, RestartLimit, m.since, 1)
           paid  == [b EXCEPT !.charges = c]
           timed == [With(paid, r, At(m, "Scheduling", NoSub)) EXCEPT !.timers = @ - 1]
           fails == RetireRoleAfterError(b, r)
           born  == PrepareNextWaiting(BeginReplacement(paid, r))
           waits == PrepareNextWaiting(Send(timed, "schedule", r, NoJob))
           a     == AcceptWorkerPreparationReturn(p, w, prepared)
           P     == O \ {Loan(p, r)}
<1>1. Custody(p, O, U, G) /\ q.op \in {"prepare", "prepared"}
  BY DEF Run
<1>2. r \in Roles /\ Current(p, w) /\ q = Loan(p, r) /\ m.at \in Borrower /\ m.sub = "Started"
  BY <1>1, LoanOf
<1>3. m.at = "Preparing" /\ p \in Wide /\ m \in Members
  BY Zenon, <1>1, <1>2 DEF Run, Borrower, MemberStates, WorkerPhases, Recovering, Custody, Wide
<1>4. \/ a = fails
      \/ Admits(p.charges, RestartLimit, m.since, 1) /\ a \in {born, waits}
  BY <1>2, <1>3
     DEF AcceptWorkerPreparationReturn, AcceptPreparationReturn, PreparationReturn
<1>5. Fine(fails, P, U, G)
  BY <1>2, UnpreparedOn
<1>6. /\ b \in Wide /\ b.source = "Available" /\ b.sent = {} /\ b.mode = p.mode
      /\ b.member = p.member /\ b.charges = p.charges
  BY Zenon, <1>3 DEF Wide
<1> HIDE DEF b
<1>7. ASSUME Admits(p.charges, RestartLimit, m.since, 1)
      PROVE  Fine(born, P, U, G) /\ Fine(waits, P, U, G)
  <2>1. p.charges \in Seq(Charges) /\ m.since \in Nat
    BY <1>3 DEF Wide, Members
  <2>2. c \in Seq(Charges)
    BY <1>6, <1>7, <2>1, ChargedWithin
  <2> HIDE DEF c
  <2>3. /\ paid \in Wide /\ paid.source = "Available" /\ paid.sent = {} /\ paid.mode = p.mode
        /\ paid.member = p.member
    BY Zenon, <1>6, <2>2 DEF Wide
  <2> HIDE DEF paid, P
  <2>4. Fine(born, O \ {Loan(p, r)}, U, G)
    BY <1>2, <2>3, ImmediateOn
  <2>5. Fine(waits, O \ {Loan(p, r)}, U, G)
    BY <1>2, <2>3, DelayedOn
  <2>6. QED BY Zenon, <2>4, <2>5 DEF P
<1> HIDE DEF fails, born, waits
<1>8. P = O \ {q}
  BY <1>2
<1> HIDE DEF P, a
<1>9. Fine(a, P, U, G)
  BY Zenon, <1>4, <1>5, <1>7
<1>10. QED BY <1>8, <1>9 DEF a

-----------------------------------------------------------------------------
(* The settlement of a creation batch.                                       *)

\* The batch q is settled: its roles are no longer new, and of its workers those
\* that V has run.
Settles(p, x, q, U, V) ==
    /\ x \in Wide /\ x.source = p.source /\ x.sent \subseteq Plain
    /\ \A r \in Roles :
          IF WorkerOf(p, r) \in q.of
          THEN x.member[r].n = p.member[r].n /\ x.member[r].at \notin Newborn \cup Borrower
          ELSE x.member[r] = p.member[r]
    /\ \A w \in V : w \in U \/ (w \in q.of /\ Live(x.member[w[1]]))

\* A creation batch that is settled leaves the custody of the rest.
LEMMA BatchKept ==
    ASSUME NEW p, NEW x, NEW O, NEW U, NEW V, NEW G, Custody(p, O, U, G), p.sent = {},
           NEW q \in O, q.op = "create", Settles(p, x, q, U, V)
    PROVE  Custody(x, O \ {q}, V, G)
<1> DEFINE P == O \ {q}
<1>0. /\ p \in Wide /\ x \in Wide /\ O \subseteq Requests /\ x.sent \subseteq Plain
      /\ Followed(p, U) /\ Formed(O, {}) /\ Awaited(p, O, G) /\ Lent(p, O)
  <2>1. O \cup p.sent = O
    OBVIOUS
  <2>2. QED BY Zenon, <2>1 DEF Custody, Settles
<1>1. \A t \in Plain : t \in Requests /\ t.op \notin {"create", "prepare", "prepared", "exit", "notice"}
  BY DEF Plain
<1>2. \A t \in P \cup x.sent :
         t.op \in {"create", "prepare", "prepared"} => t \in O /\ t # q
  BY <1>0, <1>1
<1>3. \A w \in q.of : w \in Workers /\ Holds(p, w, Newborn)
  BY <1>0 DEF Awaited, Requests
<1>4. \A w \in Workers : w[1] \in Roles /\ (Current(p, w) => WorkerOf(p, w[1]) = w)
  BY DEF Workers, Current, WorkerOf
<1>5. \A r \in Roles : /\ WorkerOf(x, r) = WorkerOf(p, r) /\ x.member[r].n = p.member[r].n
                       /\ \/ x.member[r] = p.member[r] /\ WorkerOf(p, r) \notin q.of
                          \/ /\ WorkerOf(p, r) \in q.of
                             /\ x.member[r].at \notin Newborn \cup Borrower
  BY DEF Settles, WorkerOf
<1>6. Followed(x, V)
  <2>1. SUFFICES ASSUME NEW w \in V
                 PROVE  w \in Workers /\ Current(x, w) /\ Live(x.member[w[1]])
    BY DEF Followed
  <2>2. CASE w \in U
    <3>1. w \in Workers /\ Current(p, w) /\ Live(p.member[w[1]])
      BY <1>0, <2>2 DEF Followed
    <3>2. w[1] \in Roles /\ WorkerOf(p, w[1]) = w
      BY <1>4, <3>1
    <3>3. w \notin q.of
      <4>1. p.member[w[1]].at \notin Newborn
        BY <3>1 DEF Live, Newborn, WorkerPhases
      <4>2. QED BY <1>3, <4>1 DEF Holds
    <3>4. x.member[w[1]] = p.member[w[1]]
      BY <1>5, <3>2, <3>3
    <3>5. QED BY <3>1, <3>4 DEF Current
  <2>3. CASE w \notin U
    <3>1. w \in q.of /\ Live(x.member[w[1]])
      BY <2>3 DEF Settles
    <3>2. w \in Workers /\ w[1] \in Roles /\ p.member[w[1]].n = w[2]
      BY <1>3, <1>4, <3>1 DEF Holds
    <3>3. QED BY <1>5, <3>1, <3>2 DEF Current
  <2>4. QED BY <2>2, <2>3
<1>7. Awaited(x, P \cup x.sent, G)
  <2>1. ASSUME NEW t \in P \cup x.sent, t.op = "create", NEW w \in t.of
        PROVE  Holds(x, w, Newborn)
    <3>1. t \in O /\ t # q
      BY <1>2, <2>1
    <3>2. Holds(p, w, Newborn) /\ w \in Workers
      BY <1>0, <2>1, <3>1 DEF Awaited, Requests
    <3>3. w \notin q.of
      BY <1>0, <2>1, <3>1 DEF Awaited
    <3>4. w[1] \in Roles /\ WorkerOf(p, w[1]) = w
      BY <1>4, <3>2 DEF Holds, Current
    <3>5. x.member[w[1]] = p.member[w[1]]
      BY <1>5, <3>3, <3>4
    <3>6. QED BY <3>2, <3>5 DEF Holds
  <2>2. \A s, t \in P \cup x.sent :
           s.op = "create" /\ t.op = "create" /\ s.of \cap t.of # {} => s = t
    <3>1. \A t \in P \cup x.sent : t.op = "create" => t \in O
      BY <1>2
    <3> HIDE DEF P
    <3>2. QED BY Zenon, <1>0, <3>1 DEF Awaited
  <2>3. ASSUME NEW r \in Roles, x.member[r].at \in Newborn
        PROVE  x.member[r].sub = NoSub /\ (x.member[r].stop # NoStop => WorkerOf(x, r) \in G)
    <3>1. x.member[r] = p.member[r] /\ WorkerOf(x, r) = WorkerOf(p, r)
      BY <1>5, <2>3
    <3>2. QED BY Zenon, <1>0, <2>3, <3>1 DEF Awaited
  <2> HIDE DEF P
  <2>4. QED BY Zenon, <2>1, <2>2, <2>3 DEF Awaited
<1>8. Lent(x, P \cup x.sent)
  <2> DEFINE Q == P \cup x.sent
  <2>1. \A r \in Roles : p.member[r].at \in Borrower => WorkerOf(p, r) \notin q.of
    <3>1. ASSUME NEW r \in Roles, WorkerOf(p, r) \in q.of PROVE p.member[r].at \in Newborn
      BY <1>3, <3>1 DEF Holds, WorkerOf
    <3>2. QED BY <3>1 DEF Newborn, Borrower
  <2>2. \A r \in Roles :
           /\ x.member[r].at \in Borrower <=> p.member[r].at \in Borrower
           /\ p.member[r].at \in Borrower =>
                 Loan(x, r) = Loan(p, r) /\ x.member[r].sub = p.member[r].sub
    <3>1. ASSUME NEW r \in Roles, p.member[r].at \in Borrower
          PROVE  x.member[r] = p.member[r] /\ Loan(x, r) = Loan(p, r)
      <4>1. x.member[r] = p.member[r] /\ WorkerOf(x, r) = WorkerOf(p, r)
        BY <1>5, <2>1, <3>1
      <4>2. QED BY <4>1 DEF Loan
    <3>2. \A r \in Roles : x.member[r].at \in Borrower => x.member[r] = p.member[r]
      BY Zenon, <1>5
    <3>3. QED BY Zenon, <3>1, <3>2
  <2>3. \A t \in Q : t.op \in {"prepare", "prepared"} => t \in O
    BY <1>2
  <2>4. \A r \in Roles : p.member[r].at \in Borrower => Loan(p, r) \in Q
    <3>1. \A r : Loan(p, r).op # "create"
      BY DEF Loan, Req
    <3>2. QED BY <1>0, <3>1 DEF Lent
  <2>5. x.source = p.source
    BY DEF Settles
  <2> HIDE DEF Q
  <2>6. Lent(x, Q)
    <3>1. ASSUME NEW t \in Q, t.op \in {"prepare", "prepared"}
          PROVE  \E r \in Roles : x.member[r].at \in Borrower /\ t = Loan(x, r)
      <4>1. PICK r \in Roles : p.member[r].at \in Borrower /\ t = Loan(p, r)
        BY <1>0, <2>3, <3>1 DEF Lent
      <4>2. QED BY <2>2, <4>1
    <3>2. ASSUME NEW r \in Roles, x.member[r].at \in Borrower
          PROVE  /\ x.source = "AwaitingReturn" /\ Loan(x, r) \in Q
                 /\ x.member[r].sub \in {"Issued", "Started"}
      BY Zenon, <1>0, <2>2, <2>4, <2>5, <3>2 DEF Lent
    <3>3. QED BY Zenon, <1>0, <2>2, <2>5, <3>1, <3>2 DEF Lent
  <2>7. QED BY <2>6 DEF Q
<1>9. Formed(P \cup x.sent, x.sent)
  BY <1>0, <1>1 DEF Formed, Plain
<1>10. QED BY <1>0, <1>6, <1>7, <1>8, <1>9 DEF Custody

\* A request to initialize or to stop one worker is of the plain kind.
LEMMA PlainRequest ==
    ASSUME NEW w \in Workers
    PROVE  /\ Req("initialize", {w}, NoJob) \in Plain
           /\ Req("shutdown", {w}, NoJob) \in Plain
<1>1. ASSUME NEW op \in {"initialize", "shutdown"}
      PROVE  Req(op, {w}, NoJob) \in Plain
  <2> DEFINE t == Req(op, {w}, NoJob)
  <2>1. op \in {"initialize", "start", "assign", "shutdown", "schedule"} /\ op \in Ops
    BY DEF Ops
  <2>2. NoJob \in 0 .. NJobs
    BY PoolAssumption DEF NoJob
  <2>3. t \in Requests /\ t.op = op /\ t.of = {w}
    BY <2>1, <2>2 DEF Req, Requests
  <2>4. t \in Plain
    <3> HIDE DEF t
    <3>1. QED BY Zenon, <2>1, <2>3 DEF Plain
  <2>5. QED BY <2>4
<1>2. QED BY Zenon, <1>1

\* The workers that run once the batch is settled.
Created(outcome, U, G) ==
    U \cup {w \in DOMAIN outcome : outcome[w] = "Established" /\ w \notin G}

\* The settlement of a batch in an operating pool.
LEMMA CreationsOn ==
    ASSUME Counting, NEW p, NEW O, NEW U, NEW G, Run(p, O, U, G), Claimed(p), p.sent = {},
           NEW q \in O, q.op = "create", NEW outcome, DOMAIN outcome = q.of
    PROVE  Fine(AcceptCreations(p, outcome), O \ {q}, Created(outcome, U, G), G)
<1> DEFINE V == Created(outcome, U, G)
           P == O \ {q}
           good == {v \in q.of : outcome[v] = "Established"}
           members == [r \in Roles |-> IF \E w \in q.of : w[1] = r
                                       THEN AdmitCreation(p.member[r], outcome[WorkerOf(p, r)])
                                       ELSE p.member[r]]
           sent == {Req("initialize", {w}, NoJob) : w \in good}
           x == [p EXCEPT !.member = members, !.sent = sent]
<1>0. /\ p \in Wide /\ O \subseteq Requests /\ Awaited(p, O \cup p.sent, G)
      /\ Custody(p, O, U, G) /\ p.mode = "Operating"
      /\ \A r \in Roles : p.member[r] \in Members /\ p.member[r].at \in MemberStates
  BY DEF Run, Custody, Wide
<1>1. \A w \in q.of : /\ w \in Workers /\ w[1] \in Roles /\ WorkerOf(p, w[1]) = w
                      /\ p.member[w[1]].at = "Creating" /\ Holds(p, w, {"Creating"})
                      /\ p.member[w[1]].sub = NoSub
                      /\ w \notin G => p.member[w[1]].stop = NoStop
  <2>1. SUFFICES ASSUME NEW w \in q.of
                 PROVE  /\ w \in Workers /\ w[1] \in Roles /\ WorkerOf(p, w[1]) = w
                        /\ p.member[w[1]].at = "Creating" /\ Holds(p, w, {"Creating"})
                        /\ p.member[w[1]].sub = NoSub
                        /\ w \notin G => p.member[w[1]].stop = NoStop
    BY Zenon
  <2>2. w \in Workers /\ Holds(p, w, Newborn)
    BY <1>0 DEF Awaited, Requests
  <2>3. w[1] \in Roles /\ WorkerOf(p, w[1]) = w
    BY <2>2 DEF Holds, WorkerOf, Workers
  <2>4. p.member[w[1]].at = "Creating"
    BY <1>0, <2>2, <2>3 DEF Holds, Newborn, MemberStates, WorkerPhases, Recovering
  <2>5. p.member[w[1]].at \in Newborn
    BY <2>4 DEF Newborn
  <2>6. p.member[w[1]].sub = NoSub /\ (p.member[w[1]].stop # NoStop => w \in G)
    BY Zenon, <1>0, <2>3, <2>5 DEF Awaited
  <2>7. QED BY <2>2, <2>3, <2>4, <2>6 DEF Holds
<1>2. \A r \in Roles : (\E w \in q.of : w[1] = r) <=> WorkerOf(p, r) \in q.of
  <2>1. \A r \in Roles : WorkerOf(p, r)[1] = r
    BY DEF WorkerOf
  <2>2. QED BY Zenon, <1>1, <2>1
<1>3. \A r \in Roles : members[r] = IF WorkerOf(p, r) \in q.of
                                    THEN AdmitCreation(p.member[r], outcome[WorkerOf(p, r)])
                                    ELSE p.member[r]
  BY <1>2
<1>4. ASSUME NEW m \in Members, NEW o, m.at = "Creating"
      PROVE  LET k == AdmitCreation(m, o) IN
             /\ k \in Members /\ k.n = m.n /\ k.at \in {"Initializing", "Retired"}
             /\ o = "Established" => k.at = "Initializing" /\ k.stop = m.stop /\ k.sub = m.sub
  <2>1. Retire(m) \in Members /\ Retire(m).at = "Retired" /\ Retire(m).n = m.n
    BY Records DEF Retire, Cleared
  <2>2. "Initializing" \in States
    BY Names
  <2>3. LET k == [m EXCEPT !.at = "Initializing"] IN
        k \in Members /\ k.n = m.n /\ k.at = "Initializing" /\ k.stop = m.stop /\ k.sub = m.sub
    BY Zenon, <2>2 DEF Members
  <2>4. QED BY <2>1, <2>3 DEF AdmitCreation
<1>5. ASSUME NEW r \in Roles
      PROVE  /\ members[r] \in Members /\ members[r].at \in MemberStates
             /\ WorkerOf(p, r) \in q.of =>
                   /\ members[r].n = p.member[r].n /\ members[r].at \notin Newborn \cup Borrower
                   /\ members[r].at # "WaitingForSource"
             /\ WorkerOf(p, r) \notin q.of => members[r] = p.member[r]
  <2>1. CASE WorkerOf(p, r) \in q.of
    <3> DEFINE k == AdmitCreation(p.member[r], outcome[WorkerOf(p, r)])
    <3>1. p.member[r].at = "Creating"
      BY <1>1, <2>1 DEF WorkerOf
    <3>2. k \in Members /\ k.n = p.member[r].n /\ k.at \in {"Initializing", "Retired"}
      BY <1>0, <1>4, <3>1
    <3>3. members[r] = k
      BY <1>3, <2>1
    <3> HIDE DEF k, members
    <3>4. QED BY <2>1, <3>2, <3>3 DEF MemberStates, WorkerPhases, Newborn, Borrower
  <2>2. CASE WorkerOf(p, r) \notin q.of
    BY <1>0, <1>3, <2>2
  <2>3. QED BY <2>1, <2>2
<1>6. \A w \in good : w \notin G => Live(members[w[1]])
  <2>1. SUFFICES ASSUME NEW w \in q.of, outcome[w] = "Established", w \notin G
                 PROVE  Live(members[w[1]])
    BY Zenon
  <2>2. members[w[1]] = AdmitCreation(p.member[w[1]], outcome[w])
    BY <1>1, <1>3
  <2> HIDE DEF members
  <2>3. /\ members[w[1]].at = "Initializing" /\ members[w[1]].stop = NoStop
        /\ members[w[1]].sub = NoSub
    <3> DEFINE m == p.member[w[1]]
               k == AdmitCreation(m, outcome[w])
    <3>1. m \in Members /\ m.at = "Creating" /\ m.sub = NoSub /\ m.stop = NoStop
      BY Zenon, <1>0, <1>1, <2>1
    <3>2. k.at = "Initializing" /\ k.stop = m.stop /\ k.sub = m.sub
      <4> HIDE DEF m
      <4>1. QED BY Zenon, <1>4, <2>1, <3>1
    <3> HIDE DEF k, m
    <3>3. members[w[1]] = k
      BY Zenon, <2>2 DEF k, m
    <3>4. QED BY Zenon, <3>1, <3>2, <3>3
  <2>4. QED BY <2>3 DEF Live, WorkerPhases, NoSub
<1>7. sent \subseteq Plain /\ sent \subseteq Requests
  <2>1. ASSUME NEW w \in good PROVE Req("initialize", {w}, NoJob) \in Plain
    <3>1. w \in Workers
      BY <1>1
    <3>2. QED BY Zenon, <3>1, PlainRequest
  <2>2. QED BY Zenon, <2>1 DEF Plain
<1>8. members \in [Roles -> Members]
  BY <1>5
<1>9. AcceptCreations(p, outcome) \in
         {x, BeginShutdown(x), ReturnUnrecoverableJobs(FillFifo(x))}
  BY <1>1 DEF AcceptCreations
<1>10. \A w \in V : w \in U \/ (w \in q.of /\ w \in good /\ w \notin G)
  BY DEF Created
<1> HIDE DEF members, sent, good, V, P
<1>11. /\ x \in Wide /\ x.member = members /\ x.sent = sent /\ x.source = p.source
       /\ x.mode = p.mode /\ x.conf = p.conf
  BY Zenon, <1>0, <1>7, <1>8 DEF Wide
<1> HIDE DEF x
<1>12. Settles(p, x, q, U, V)
  <2>1. \A w \in V : w \in U \/ (w \in q.of /\ Live(x.member[w[1]]))
    BY Zenon, <1>6, <1>10, <1>11
  <2>2. \A r \in Roles :
          IF WorkerOf(p, r) \in q.of
          THEN x.member[r].n = p.member[r].n /\ x.member[r].at \notin Newborn \cup Borrower
          ELSE x.member[r] = p.member[r]
    BY Zenon, <1>5, <1>11
  <2>3. QED BY Zenon, <1>7, <1>11, <2>1, <2>2 DEF Settles
<1>13. Custody(x, P, V, G)
  BY Zenon, <1>0, <1>12, BatchKept DEF P
<1>14. Run(x, P, V, G)
  BY Zenon, <1>0, <1>5, <1>11, <1>13 DEF Run
<1>15. Claimed(x)
  BY <1>5, <1>11 DEF Claimed
<1>16. Fine(x, P, V, G) /\ Fine(BeginShutdown(x), P, V, G)
  BY <1>14, <1>15, ShutdownOver DEF Fine
<1>17. Fine(ReturnUnrecoverableJobs(FillFifo(x)), P, V, G)
  BY <1>14, <1>15, FillFifoOn, UnrecoverableOn DEF Fine, Onward
<1>18. Fine(AcceptCreations(p, outcome), P, V, G)
  BY <1>9, <1>16, <1>17
<1>19. QED BY <1>18 DEF P, V

-----------------------------------------------------------------------------
(* A pool that drains.                                                      *)

Winding(p, O, U, G) ==
    /\ Custody(p, O, U, G) /\ p.mode = "Draining"
    /\ \A r \in Roles : p.member[r].at \in RetirementStatuses

\* The pool goes on draining, or ends.
LEMMA ContinueOver ==
    ASSUME NEW p, NEW O, NEW U, NEW G, Winding(p, O, U, G)
    PROVE  Fine(ContinueDraining(p), O, U, G)
<1>1. ASSUME NEW mode \in {"Stopped", "ForcedRetirement"}
      PROVE  LET x == [p EXCEPT !.mode = mode] IN
             Custody(x, O, U, G) /\ x.mode = mode /\ x.member = p.member
  <2> DEFINE x == [p EXCEPT !.mode = mode]
  <2>1. p \in Wide /\ Custody(p, O, U, G)
    BY DEF Winding, Custody
  <2>2. /\ x \in Wide /\ x.mode = mode /\ x.member = p.member /\ x.source = p.source
        /\ x.sent = p.sent
    BY Zenon, <2>1 DEF Wide
  <2> HIDE DEF x
  <2>3. \A r \in Roles : Steady(p.member[r], x.member[r], WorkerOf(p, r), U, G)
    BY Zenon, <2>1, <2>2, SteadySame
  <2>4. Step(p, x, U, G)
    BY Zenon, <2>2, <2>3 DEF Step
  <2>5. Custody(x, O, U, G)
    BY <2>1, <2>4, StepKept
  <2>6. QED BY <2>2, <2>5 DEF x
<1>2. CASE Expired(p.deadline)
  <2> DEFINE x == [p EXCEPT !.mode = "ForcedRetirement"]
  <2>1. ContinueDraining(p) = x
    BY <1>2 DEF ContinueDraining
  <2>2. Custody(x, O, U, G) /\ x.mode = "ForcedRetirement" /\ x.member = p.member
    BY <1>1
  <2> HIDE DEF x
  <2>3. QED BY <2>1, <2>2 DEF Fine, Over, Winding
<1>3. CASE ~Expired(p.deadline) /\ \A r \in Roles : ~Waiting(p.member[r])
  <2> DEFINE x == [p EXCEPT !.mode = "Stopped"]
  <2>1. ContinueDraining(p) = x
    BY <1>3 DEF ContinueDraining
  <2>2. Custody(x, O, U, G) /\ x.mode = "Stopped" /\ x.member = p.member
    BY <1>1
  <2> HIDE DEF x
  <2>3. QED BY <1>3, <2>1, <2>2 DEF Fine, Over, Winding
<1>4. CASE ~Expired(p.deadline) /\ ~(\A r \in Roles : ~Waiting(p.member[r]))
  <2>1. ContinueDraining(p) = p
    BY <1>4 DEF ContinueDraining
  <2>2. QED BY <2>1 DEF Fine, Over, Winding
<1>5. QED BY <1>2, <1>3, <1>4

\* One role's record is replaced, and the pool goes on.
LEMMA WithOver ==
    ASSUME NEW p, NEW O, NEW U, NEW G, Winding(p, O, U, G), NEW r \in Roles, NEW k \in Members,
           Steady(p.member[r], k, WorkerOf(p, r), U, G), k.at \in RetirementStatuses
    PROVE  Fine(ContinueDraining(With(p, r, k)), O, U, G)
<1> DEFINE q == With(p, r, k)
<1>0. p \in Wide /\ Custody(p, O, U, G)
  BY DEF Winding, Custody
<1>1. /\ q \in Wide /\ q.source = p.source /\ q.sent = p.sent /\ q.mode = p.mode
      /\ q.member = [p.member EXCEPT ![r] = k]
  BY Zenon, <1>0 DEF With, Wide
<1> HIDE DEF q
<1>2. \A t \in Roles : q.member[t] = IF t = r THEN k ELSE p.member[t]
  BY <1>0, <1>1 DEF Wide
<1>3. \A t \in Roles : Steady(p.member[t], q.member[t], WorkerOf(p, t), U, G)
  BY Zenon, <1>0, <1>2, SteadySame
<1>4. Step(p, q, U, G)
  BY Zenon, <1>1, <1>3 DEF Step
<1>5. Custody(q, O, U, G)
  BY <1>0, <1>4, StepKept
<1>6. Winding(q, O, U, G)
  BY <1>1, <1>2, <1>5 DEF Winding
<1>7. QED BY <1>6, ContinueOver DEF q

\* A role whose worker does not run departs, or is drained.
LEMMA RecordsOver ==
    ASSUME NEW m \in Members, m.at \notin Newborn \cup Borrower, NEW w, NEW U, NEW G, w \notin U
    PROVE  /\ \A k : k \in Members /\ k.n = m.n /\ k.at \notin Newborn \cup Borrower =>
                 Steady(m, k, w, U, G)
           /\ Departed(m) \in Members /\ Departed(m).at = "Departed" /\ Departed(m).n = m.n
           /\ Drained(m) \in Members /\ Drained(m).at = "Drained" /\ Drained(m).n = m.n
<1>1. "Departed" \in States /\ "Drained" \in States /\ NoSub \in Subs
  BY Names
<1>2. Departed(m) \in Members /\ Drained(m) \in Members
  BY <1>1, MemberTypes DEF Departed, Drained
<1>3. /\ Departed(m).at = "Departed" /\ Departed(m).n = m.n
      /\ Drained(m).at = "Drained" /\ Drained(m).n = m.n
  BY DEF Departed, Drained, Cleared
<1>4. \A k : k \in Members /\ k.n = m.n /\ k.at \notin Newborn \cup Borrower =>
         Steady(m, k, w, U, G)
  BY DEF Steady, Keeps
<1>5. QED BY <1>2, <1>3, <1>4

\* The report of an initialization.
LEMMA DrainInitializationOver ==
    ASSUME NEW p, NEW O, NEW U, NEW G, Winding(p, O, U, G), NEW w \in Workers, NEW report,
           report = "Stopped" => w \notin U
    PROVE  Fine(AcceptDrainInitialization(p, w, report), O, U, G)
<1> DEFINE r == w[1]
           m == p.member[r]
           k == AcceptWorkerInitialization(m, report)
<1>0. r \in Roles /\ m \in Members /\ m.at \in RetirementStatuses /\ Custody(p, O, U, G)
  BY DEF Workers, Winding, Custody, Wide
<1>1. CASE m.n # w[2]
  BY <1>1 DEF AcceptDrainInitialization, Fine, Over, Winding
<1>2. CASE m.n = w[2]
  <2>1. WorkerOf(p, r) = w
    BY <1>2 DEF WorkerOf, Workers
  <2>2. AcceptDrainInitialization(p, w, report) = ContinueDraining(With(p, r, k))
    BY <1>2 DEF AcceptDrainInitialization
  <2>3. k \in Members /\ Steady(m, k, w, U, G) /\ k.at \in RetirementStatuses
    <3>1. CASE k = m
      BY <1>0, <2>1, <3>1, SteadySame
    <3>2. CASE m.at = "Established" /\ k = [m EXCEPT !.custody = NoSub]
      <4>1. k \in Members /\ k.at = m.at /\ k.n = m.n /\ k.sub = m.sub /\ k.stop = m.stop
        <5>1. NoSub \in Custodies
          BY Names
        <5>2. QED BY Zenon, <1>0, <3>2, <5>1 DEF Members
      <4> HIDE DEF k
      <4>2. w \in U => Live(k)
        <5>1. w \in U => Live(m)
          BY <1>0, <2>1, SteadySame DEF Steady, Keeps
        <5>2. QED BY <4>1, <5>1 DEF Live
      <4>3. QED BY <1>0, <3>2, <4>1, <4>2 DEF Steady, Keeps, Newborn, Borrower
    <3>3. CASE /\ m.at = "Established" /\ w \notin U
               /\ k \in {Departed(m), [m EXCEPT !.sub = "AwaitingSettlement", !.custody = NoSub]}
      <4>0. m.at \notin Newborn \cup Borrower
        BY <3>3 DEF Newborn, Borrower
      <4>1. LET l == [m EXCEPT !.sub = "AwaitingSettlement", !.custody = NoSub]
            IN  l \in Members /\ l.at = m.at /\ l.n = m.n
        <5>1. NoSub \in Custodies /\ "AwaitingSettlement" \in Subs
          BY Names
        <5>2. QED BY Zenon, <1>0, <5>1 DEF Members
      <4>2. k \in Members /\ k.n = m.n /\ k.at \in {"Established", "Departed"}
        BY Zenon, <1>0, <3>3, <4>0, <4>1, RecordsOver
      <4> HIDE DEF k
      <4>3. k.at \notin Newborn \cup Borrower /\ k.at \in RetirementStatuses
        BY <4>2 DEF Newborn, Borrower, RetirementStatuses
      <4>4. QED BY <1>0, <3>3, <4>0, <4>2, <4>3, RecordsOver
    <3>4. QED BY Zenon, <3>1, <3>2, <3>3 DEF AcceptWorkerInitialization
  <2> HIDE DEF k
  <2>4. QED BY <1>0, <2>1, <2>2, <2>3, WithOver
<1>3. QED BY <1>1, <1>2

\* The report of a startup.
LEMMA DrainStartupOver ==
    ASSUME NEW p, NEW O, NEW U, NEW G, Winding(p, O, U, G), NEW w \in Workers, NEW report
    PROVE  Fine(AcceptDrainStartup(p, w, report), O, U, G)
<1> DEFINE r == w[1]
           m == p.member[r]
           k == AcceptWorkerStartup(m, report)
<1>0. r \in Roles /\ m \in Members /\ m.at \in RetirementStatuses /\ Custody(p, O, U, G)
  BY DEF Workers, Winding, Custody, Wide
<1>1. CASE m.n # w[2]
  BY <1>1 DEF AcceptDrainStartup, Fine, Over, Winding
<1>2. CASE m.n = w[2]
  <2>1. WorkerOf(p, r) = w
    BY <1>2 DEF WorkerOf, Workers
  <2>2. AcceptDrainStartup(p, w, report) = ContinueDraining(With(p, r, k))
    BY <1>2 DEF AcceptDrainStartup
  <2>3. \/ k = m
        \/ m.at = "Established" /\ \E c \in Custodies : k = [m EXCEPT !.custody = c]
    BY DEF AcceptWorkerStartup, Custodies
  <2> HIDE DEF k
  <2>4. /\ k \in Members /\ k.at = m.at /\ k.n = m.n /\ k.sub = m.sub /\ k.stop = m.stop
    BY Zenon, <1>0, <2>3 DEF Members
  <2>5. Steady(m, k, w, U, G)
    <3>1. w \in U => Live(m)
      BY <1>0, <2>1, SteadySame DEF Steady, Keeps
    <3>2. Live(m) => Live(k)
      BY <2>4 DEF Live
    <3>3. QED BY <2>4, <3>1, <3>2 DEF Steady, Keeps
  <2>6. QED BY <1>0, <2>1, <2>2, <2>4, <2>5, WithOver
<1>3. QED BY <1>1, <1>2

\* The exit of a worker.
LEMMA DrainStopOver ==
    ASSUME NEW p, NEW O, NEW U, NEW G, Winding(p, O, U, G), NEW w \in Workers, w \notin U,
           w \in G, NEW kind \in Stops
    PROVE  Fine(AcceptDrainStop(p, w, kind), O, U, G)
<1> DEFINE r == w[1]
           m == p.member[r]
           k == AcceptExit(m, kind)
<1>0. r \in Roles /\ m \in Members /\ m.at \in RetirementStatuses
  BY DEF Workers, Winding, Custody, Wide
<1>1. CASE m.n # w[2] \/ ~AcceptsExit(m)
  BY <1>1 DEF AcceptDrainStop, Fine, Over, Winding
<1>2. CASE m.n = w[2] /\ AcceptsExit(m)
  <2>1. WorkerOf(p, r) = w
    BY <1>2 DEF WorkerOf, Workers
  <2>2. AcceptDrainStop(p, w, kind) = ContinueDraining(With(p, r, k))
    BY <1>2 DEF AcceptDrainStop
  <2>3. k \in Members /\ Steady(m, k, w, U, G) /\ k.at \in RetirementStatuses
    <3>1. CASE m.at = "AwaitingCreation"
      <4>1. k \in Members /\ k.at = m.at /\ k.n = m.n /\ k.sub = m.sub
        <5>1. k = [m EXCEPT !.stop = kind]
          BY <3>1 DEF AcceptExit
        <5>2. QED BY Zenon, <1>0, <5>1 DEF Members
      <4> HIDE DEF k
      <4>2. QED BY <1>0, <4>1 DEF Steady, Keeps
    <3>2. CASE m.at = "Established"
      <4>0. m.at \notin Newborn \cup Borrower
        BY <3>2 DEF Newborn, Borrower
      <4>1. LET l == [m EXCEPT !.sub = "AwaitingSettlement"]
            IN  l \in Members /\ l.at = m.at /\ l.n = m.n
        <5>1. "AwaitingSettlement" \in Subs
          BY Names
        <5>2. QED BY Zenon, <1>0, <5>1 DEF Members
      <4>2. k \in {Departed(m), [m EXCEPT !.sub = "AwaitingSettlement"]}
        BY <3>2 DEF AcceptExit
      <4>3. k \in Members /\ k.n = m.n /\ k.at \in {"Established", "Departed"}
        BY Zenon, <1>0, <3>2, <4>0, <4>1, <4>2, RecordsOver
      <4> HIDE DEF k
      <4>4. k.at \notin Newborn \cup Borrower /\ k.at \in RetirementStatuses
        BY <4>3 DEF Newborn, Borrower, RetirementStatuses
      <4>5. QED BY <1>0, <4>0, <4>3, <4>4, RecordsOver
    <3>3. QED BY <1>2, <3>1, <3>2 DEF AcceptsExit
  <2> HIDE DEF k
  <2>4. QED BY <1>0, <2>1, <2>2, <2>3, WithOver
<1>3. QED BY <1>1, <1>2

\* The settlement of a shutdown request.
LEMMA DrainShutdownOver ==
    ASSUME NEW p, NEW O, NEW U, NEW G, Winding(p, O, U, G), NEW w \in Workers
    PROVE  Fine(AcceptDrainShutdown(p, w), O, U, G)
<1> DEFINE r == w[1]
           m == p.member[r]
           k == AcceptShutdownSettlement(m)
<1>0. r \in Roles /\ m \in Members /\ m.at \in RetirementStatuses /\ Custody(p, O, U, G)
  BY DEF Workers, Winding, Custody, Wide
<1>1. CASE m.n # w[2] \/ ~AcceptsShutdownSettlement(m)
  BY <1>1 DEF AcceptDrainShutdown, Fine, Over, Winding
<1>2. CASE m.n = w[2] /\ AcceptsShutdownSettlement(m)
  <2>1. WorkerOf(p, r) = w
    BY <1>2 DEF WorkerOf, Workers
  <2>2. AcceptDrainShutdown(p, w) = ContinueDraining(With(p, r, k))
    BY <1>2 DEF AcceptDrainShutdown
  <2>3. m.at = "Established" /\ m.at \notin Newborn \cup Borrower
    BY <1>2 DEF AcceptsShutdownSettlement, Newborn, Borrower
  <2>4. k \in Members /\ Steady(m, k, w, U, G) /\ k.at \in RetirementStatuses
    <3>1. CASE m.sub = "AwaitingBoth"
      <4>1. k = [m EXCEPT !.sub = "AwaitingStop"]
        BY <3>1 DEF AcceptShutdownSettlement
      <4>2. /\ k \in Members /\ k.at = m.at /\ k.n = m.n /\ k.stop = m.stop
            /\ k.sub = "AwaitingStop"
        <5>1. "AwaitingStop" \in Subs
          BY Names
        <5>2. QED BY Zenon, <1>0, <4>1, <5>1 DEF Members
      <4> HIDE DEF k
      <4>3. w \in U => Live(m)
        BY <1>0, <2>1, SteadySame DEF Steady, Keeps
      <4>4. Live(m) => Live(k)
        BY <2>3, <4>2 DEF Live
      <4>5. QED BY <1>0, <2>3, <4>2, <4>3, <4>4 DEF Steady, Keeps
    <3>2. CASE m.sub = "AwaitingSettlement"
      <4>1. k = Departed(m)
        BY <3>2 DEF AcceptShutdownSettlement
      <4>2. w \notin U
        BY <1>0, <2>1, <3>2, Absent DEF Live
      <4> HIDE DEF k
      <4>3. k \in Members /\ k.at = "Departed" /\ k.n = m.n
        <5>1. Departed(m) \in Members /\ Departed(m).at = "Departed" /\ Departed(m).n = m.n
          BY Zenon, <1>0, <2>3, <4>2, RecordsOver
        <5>2. QED BY Zenon, <4>1, <5>1
      <4>4. k.at \notin Newborn \cup Borrower /\ k.at \in RetirementStatuses
        BY <4>3 DEF Newborn, Borrower, RetirementStatuses
      <4>5. QED BY <1>0, <2>3, <4>2, <4>3, <4>4, RecordsOver
    <3>3. QED BY <1>2, <3>1, <3>2 DEF AcceptsShutdownSettlement
  <2> HIDE DEF k
  <2>5. QED BY <1>0, <2>1, <2>2, <2>4, WithOver
<1>3. QED BY <1>1, <1>2

\* Only the deadline or the customers change.
LEMMA SameOver ==
    ASSUME NEW p, NEW q, NEW O, NEW U, NEW G, Winding(p, O, U, G), Same(p, q)
    PROVE  Winding(q, O, U, G)
<1>0. Custody(p, O, U, G)
  BY DEF Winding
<1>1. \A r \in Roles : Steady(p.member[r], q.member[r], WorkerOf(p, r), U, G)
  BY <1>0, SteadySame DEF Same
<1>2. Step(p, q, U, G)
  BY <1>1 DEF Step, Same
<1>3. Custody(q, O, U, G)
  BY <1>0, <1>2, StepKept
<1>4. QED BY <1>3 DEF Winding, Same

\* The deadline of the drain, and the timers of restarts that are given up.
LEMMA DrainTimersOver ==
    ASSUME NEW p, NEW O, NEW U, NEW G, Winding(p, O, U, G), NEW ws \in SUBSET Workers
    PROVE  /\ \A accepted : Fine(AcceptDrainSchedule(p, ws, accepted), O, U, G)
           /\ Fine(AcceptDrainDeadline(p, ws), O, U, G)
<1>0. p \in Wide /\ Custody(p, O, U, G) /\ Fine(p, O, U, G)
  BY DEF Winding, Custody, Fine, Over
<1>1. ASSUME NEW d \in Deadlines PROVE Fine(ContinueDraining([p EXCEPT !.deadline = d]), O, U, G)
  <2> DEFINE x == [p EXCEPT !.deadline = d]
  <2>1. Same(p, x)
    BY Zenon, <1>0 DEF Same, Wide
  <2> HIDE DEF x
  <2>2. QED BY <2>1, SameOver, ContinueOver DEF x
<1>2. Fine(AcceptDrainDeadline(p, ws), O, U, G)
  BY <1>0, <1>1 DEF AcceptDrainDeadline, Deadlines
<1>3. ASSUME NEW accepted PROVE Fine(AcceptDrainSchedule(p, ws, accepted), O, U, G)
  <2>1. CASE \E w \in ws : Holds(p, w, {"AwaitingRestartSchedule"})
    <3> DEFINE w == CHOOSE v \in ws : Holds(p, v, {"AwaitingRestartSchedule"})
               r == w[1]
               m == p.member[r]
    <3>1. w \in ws /\ Holds(p, w, {"AwaitingRestartSchedule"})
      BY <2>1
    <3>2. AcceptDrainSchedule(p, ws, accepted) = ContinueDraining(With(p, r, Drained(m)))
      BY <2>1 DEF AcceptDrainSchedule
    <3> HIDE DEF w
    <3>3. /\ r \in Roles /\ m \in Members /\ m.at = "AwaitingRestartSchedule"
          /\ m.at \notin Newborn \cup Borrower
      BY <1>0, <3>1 DEF Holds, Workers, Wide, Newborn, Borrower
    <3>4. WorkerOf(p, r) \notin U
      BY <1>0, <3>3, Absent DEF Live, WorkerPhases
    <3>5. Drained(m) \in Members /\ Drained(m).at = "Drained" /\ Drained(m).n = m.n
      BY <3>3, <3>4, RecordsOver
    <3>6. Drained(m).at \notin Newborn \cup Borrower /\ Drained(m).at \in RetirementStatuses
      BY <3>5 DEF Newborn, Borrower, RetirementStatuses
    <3>7. Steady(m, Drained(m), WorkerOf(p, r), U, G)
      BY <3>3, <3>4, <3>5, <3>6, RecordsOver
    <3>8. QED BY <3>2, <3>3, <3>5, <3>6, <3>7, WithOver
  <2>2. CASE ~\E w \in ws : Holds(p, w, {"AwaitingRestartSchedule"})
    <3>1. DeadlineSettled(accepted) \in Deadlines
      BY DEF DeadlineSettled, Deadlines
    <3>2. AcceptDrainSchedule(p, ws, accepted) \in
             {p, ContinueDraining([p EXCEPT !.deadline = DeadlineSettled(accepted)])}
      BY <2>2 DEF AcceptDrainSchedule
    <3>3. QED BY <1>0, <1>1, <3>1, <3>2
  <2>3. QED BY <2>1, <2>2
<1>4. QED BY <1>2, <1>3

\* The source comes back to a draining pool.
LEMMA DrainReturnedOver ==
    ASSUME NEW p, NEW O, NEW U, NEW G, Winding(p, O, U, G), p.sent = {}, NEW r \in Roles,
           p.member[r].at \in Borrower
    PROVE  Fine(ContinueDraining([With(p, r, Drained(p.member[r])) EXCEPT !.source = "Available"]),
                O \ {Loan(p, r)}, U, G)
<1> DEFINE m == p.member[r]
           k == Drained(m)
           y == With(p, r, k)
           x == [y EXCEPT !.source = "Available"]
           P == O \ {Loan(p, r)}
<1>0. p \in Wide /\ m \in Members /\ Custody(p, O, U, G)
  BY DEF Winding, Custody, Wide
<1>1. k \in Members /\ k.at = "Drained" /\ k.n = m.n
  <2>1. "Drained" \in States /\ NoSub \in Subs
    BY Names
  <2>2. QED BY <1>0, <2>1, MemberTypes DEF Drained, Cleared
<1> HIDE DEF k
<1>2. y \in Wide /\ y.sent = {} /\ y.mode = p.mode /\ y.member = [p.member EXCEPT ![r] = k]
  BY Zenon, <1>0, <1>1 DEF With, Wide
<1> HIDE DEF y
<1>3. /\ x \in Wide /\ x.sent = {} /\ x.mode = p.mode /\ x.source = "Available"
      /\ x.member = [p.member EXCEPT ![r] = k]
  BY Zenon, <1>2 DEF Wide
<1> HIDE DEF x
<1>4. Amends(p, x, r, k) /\ k.at \notin Borrower
  BY <1>1, <1>3 DEF Amends, Newborn, Borrower
<1>5. Custody(x, P, U, G)
  BY Zenon, <1>0, <1>3, <1>4, ReturnedKept
<1>6. \A s \in Roles : x.member[s].at \in RetirementStatuses
  BY <1>0, <1>1, <1>3 DEF Winding, RetirementStatuses, Wide
<1>7. Winding(x, P, U, G)
  BY <1>3, <1>5, <1>6 DEF Winding
<1>8. QED BY <1>7, ContinueOver DEF x, y, k

\* The settlements of a preparation in a draining pool.
LEMMA DrainPreparationsOver ==
    ASSUME NEW p, NEW O, NEW U, NEW G, Winding(p, O, U, G), p.sent = {}, NEW q \in O,
           q.op \in {"prepare", "prepared"}, NEW w \in q.of
    PROVE  /\ q.op = "prepare" =>
                 /\ Fine(AcceptDrainPreparationStart(p, w, TRUE),
                         (O \ {q}) \cup {Req("prepared", q.of, 0)}, U, G)
                 /\ Fine(AcceptDrainPreparationStart(p, w, FALSE), O \ {q}, U, G)
           /\ q.op = "prepared" => Fine(AcceptDrainPreparationReturn(p, w), O \ {q}, U, G)
<1> DEFINE r == w[1]
           m == p.member[r]
           k == [m EXCEPT !.sub = "Started"]
           x == With(p, r, k)
           P == (O \ {q}) \cup {Req("prepared", q.of, 0)}
           back == ContinueDraining([With(p, r, Drained(m)) EXCEPT !.source = "Available"])
<1>1. Custody(p, O, U, G)
  BY DEF Winding
<1>2. /\ r \in Roles /\ w = WorkerOf(p, r) /\ Current(p, w) /\ q = Loan(p, r) /\ q.of = {w}
      /\ m.at \in Borrower /\ m.sub = IF q.op = "prepare" THEN "Issued" ELSE "Started"
  BY <1>1, LoanOf
<1>3. m.at = "AwaitingPreparation" /\ p \in Wide /\ m \in Members
  BY <1>1, <1>2 DEF Winding, Borrower, RetirementStatuses, Custody, Wide
<1>4. /\ q.op = "prepare" => /\ AcceptDrainPreparationStart(p, w, TRUE) = ContinueDraining(x)
                             /\ AcceptDrainPreparationStart(p, w, FALSE) = back
      /\ q.op = "prepared" => AcceptDrainPreparationReturn(p, w) = back
  BY <1>2, <1>3 DEF AcceptDrainPreparationStart, AcceptRetiringPreparationStart, PreparationStart,
        AcceptDrainPreparationReturn, AcceptRetiringPreparationReturn, PreparationReturn
<1>5. Fine(back, O \ {q}, U, G)
  <2>1. Fine(back, O \ {Loan(p, r)}, U, G)
    BY <1>2, DrainReturnedOver
  <2>2. QED BY <1>2, <2>1
<1>6. k \in Members /\ k.at = "AwaitingPreparation" /\ k.n = m.n /\ k.sub = "Started"
  <2>1. "Started" \in Subs
    BY Names
  <2>2. QED BY Zenon, <1>3, <2>1 DEF Members
<1> HIDE DEF k, back
<1>7. /\ x \in Wide /\ x.source = p.source /\ x.sent = {} /\ x.mode = p.mode
      /\ x.member = [p.member EXCEPT ![r] = k]
  BY Zenon, <1>2, <1>3, <1>6 DEF With, Wide
<1>8. Amends(p, x, r, k) /\ k.at \in Borrower
  BY Zenon, <1>6, <1>7 DEF Amends, Newborn, Borrower
<1> HIDE DEF x
<1>9. Custody(x, P, U, G)
  <2>1. Custody(x, (O \ {Loan(p, r)}) \cup {Req("prepared", {WorkerOf(p, r)}, 0)}, U, G)
    BY Zenon, <1>1, <1>2, <1>6, <1>7, <1>8, StartedKept
  <2>2. QED BY Zenon, <1>2, <2>1
<1>10. \A s \in Roles : x.member[s].at \in RetirementStatuses
  BY <1>3, <1>6, <1>7 DEF Winding, RetirementStatuses, Wide
<1>11. Fine(ContinueDraining(x), P, U, G)
  BY Zenon, <1>7, <1>9, <1>10, ContinueOver DEF Winding
<1>12. QED BY Zenon, <1>4, <1>5, <1>11

\* The settlement of a batch in a draining pool.
LEMMA DrainCreationsOver ==
    ASSUME Counting, NEW p, NEW O, NEW U, NEW G, Winding(p, O, U, G), p.sent = {},
           NEW q \in O, q.op = "create", NEW outcome, DOMAIN outcome = q.of
    PROVE  Fine(AcceptDrainCreations(p, outcome), O \ {q}, Created(outcome, U, G), G)
<1> DEFINE V == Created(outcome, U, G)
           P == O \ {q}
           running == {w \in q.of : StillRuns(p.member[w[1]], outcome[w])}
           stopped == RetainWorkers(p, running)
           Settle(r) == AcceptCreation(p.member[r], outcome[WorkerOf(p, r)],
                                       WorkerOf(p, r) \in stopped)
           members == [r \in Roles |-> IF WorkerOf(p, r) \in q.of THEN Settle(r)
                                       ELSE p.member[r]]
           shutdowns == p.shutdowns - Cardinality(stopped)
           sent == {Req("shutdown", {w}, NoJob) : w \in stopped}
           x == [p EXCEPT !.member = members, !.shutdowns = shutdowns, !.sent = sent]
           y == [x EXCEPT !.mode = "ForcedRetirement"]
<1>0. /\ p \in Wide /\ O \subseteq Requests /\ Awaited(p, O \cup p.sent, G)
      /\ Custody(p, O, U, G) /\ p.mode = "Draining"
      /\ \A r \in Roles : p.member[r] \in Members /\ p.member[r].at \in RetirementStatuses
  BY DEF Winding, Custody, Wide
<1>1. \A w \in q.of : /\ w \in Workers /\ w[1] \in Roles /\ WorkerOf(p, w[1]) = w
                      /\ Holds(p, w, {"AwaitingCreation"})
                      /\ w \notin G => p.member[w[1]].stop = NoStop
  <2>1. SUFFICES ASSUME NEW w \in q.of
                 PROVE  /\ w \in Workers /\ w[1] \in Roles /\ WorkerOf(p, w[1]) = w
                        /\ Holds(p, w, {"AwaitingCreation"})
                        /\ w \notin G => p.member[w[1]].stop = NoStop
    BY Zenon
  <2>2. w \in Workers /\ Holds(p, w, Newborn)
    BY <1>0 DEF Awaited, Requests
  <2>3. w[1] \in Roles /\ WorkerOf(p, w[1]) = w
    BY <2>2 DEF Holds, WorkerOf, Workers
  <2>4. p.member[w[1]].at = "AwaitingCreation"
    BY <1>0, <2>2, <2>3 DEF Holds, Newborn, RetirementStatuses
  <2>5. p.member[w[1]].at \in Newborn
    BY <2>4 DEF Newborn
  <2>6. p.member[w[1]].stop # NoStop => w \in G
    BY Zenon, <1>0, <2>3, <2>5 DEF Awaited
  <2>7. QED BY <2>2, <2>3, <2>4, <2>6 DEF Holds
<1>2. ASSUME NEW m \in Members, NEW o, NEW b \in BOOLEAN
      PROVE  LET k == AcceptCreation(m, o, b) IN
             /\ k \in Members /\ k.n = m.n /\ k.at \in {"Established", "Departed"}
             /\ o = "Established" /\ m.stop = NoStop => Live(k)
  <2> DEFINE sub == IF b THEN "AwaitingBoth" ELSE "NotRequested"
             c == Cleared(m, "Established", sub)
             k == AcceptCreation(m, o, b)
  <2>1. sub \in Subs /\ "Established" \in States /\ "Departed" \in States /\ NoSub \in Subs
    BY Names
  <2>2. /\ c \in Members /\ c.at = "Established" /\ c.n = m.n /\ c.stop = NoStop
        /\ c.sub = sub /\ sub # "AwaitingSettlement"
    <3>1. c \in Members
      BY Zenon, <2>1, MemberTypes
    <3>2. QED BY <3>1 DEF Cleared
  <2>3. Departed(m) \in Members /\ Departed(m).at = "Departed" /\ Departed(m).n = m.n
    BY <2>1, MemberTypes DEF Departed, Cleared
  <2>4. RetireWorker(m, "StartupPlan", b) = [c EXCEPT !.custody = "StartupPlan"]
    BY DEF RetireWorker
  <2> HIDE DEF c, sub
  <2> DEFINE d == [c EXCEPT !.custody = "StartupPlan"]
  <2>5. d \in Members /\ d.at = c.at /\ d.n = c.n /\ d.stop = c.stop /\ d.sub = c.sub
    <3>1. "StartupPlan" \in Custodies
      BY DEF Custodies
    <3>2. QED BY Zenon, <2>2, <3>1 DEF Members
  <2> HIDE DEF d
  <2>6. Live(d)
    BY <2>2, <2>5 DEF Live
  <2>7. k = IF o = "Established" /\ m.stop = NoStop THEN d ELSE Departed(m)
    BY <2>4 DEF AcceptCreation, StillRuns, d
  <2> HIDE DEF k
  <2>8. QED BY <2>2, <2>3, <2>5, <2>6, <2>7 DEF k
<1>3. ASSUME NEW r \in Roles
      PROVE  /\ members[r] \in Members /\ members[r].at \in RetirementStatuses
             /\ WorkerOf(p, r) \in q.of =>
                   /\ members[r].n = p.member[r].n /\ members[r].at \notin Newborn \cup Borrower
             /\ WorkerOf(p, r) \notin q.of => members[r] = p.member[r]
  <2>1. CASE WorkerOf(p, r) \in q.of
    <3> DEFINE k == Settle(r)
    <3>1. members[r] = k
      BY <2>1
    <3> HIDE DEF stopped, members
    <3>2. (WorkerOf(p, r) \in stopped) \in BOOLEAN
      OBVIOUS
    <3>3. k \in Members /\ k.n = p.member[r].n /\ k.at \in {"Established", "Departed"}
      BY Zenon, <1>0, <1>2, <3>2
    <3> HIDE DEF k
    <3>4. QED BY <2>1, <3>1, <3>3 DEF RetirementStatuses, Newborn, Borrower
  <2>2. CASE WorkerOf(p, r) \notin q.of
    <3>1. members[r] = p.member[r]
      BY <2>2
    <3> HIDE DEF members
    <3>2. QED BY <1>0, <2>2, <3>1
  <2>3. QED BY <2>1, <2>2
<1>4. ASSUME NEW w \in q.of, outcome[w] = "Established", w \notin G
      PROVE  Live(members[w[1]])
  <2> DEFINE r == w[1]
             b == w \in stopped
  <2>1. r \in Roles /\ WorkerOf(p, r) = w /\ p.member[r].stop = NoStop /\ p.member[r] \in Members
    BY <1>0, <1>1, <1>4
  <2>2. b \in BOOLEAN
    OBVIOUS
  <2>3. members[r] = AcceptCreation(p.member[r], outcome[w], b)
    BY <2>1
  <2> HIDE DEF members, stopped, b
  <2>4. Live(AcceptCreation(p.member[r], outcome[w], b))
    BY <1>2, <1>4, <2>1, <2>2
  <2>5. QED BY <2>3, <2>4
<1>5. stopped \subseteq q.of
  BY DEF RetainWorkers
<1>6. Cardinality(stopped) \in Nat
  <2>1. IsFiniteSet(stopped)
    <3> DEFINE f == [w \in stopped |-> w[1]]
    <3>1. \A w \in stopped : w \in Workers /\ w[1] \in Roles /\ WorkerOf(p, w[1]) = w
      BY <1>1, <1>5
    <3> HIDE DEF stopped
    <3>2. f \in Injection(stopped, Roles)
      BY <3>1 DEF Injection, IsInjective
    <3>3. IsFiniteSet(Roles)
      BY FiniteRoles
    <3>4. QED BY Zenon, <3>2, <3>3, CountInjection
  <2>2. QED BY Zenon, <2>1, CountType
<1> HIDE DEF stopped
<1>7. sent \subseteq Plain /\ sent \subseteq Requests
  <2>1. ASSUME NEW w \in stopped PROVE Req("shutdown", {w}, NoJob) \in Plain
    <3>1. w \in Workers
      BY <1>1, <1>5
    <3>2. QED BY Zenon, <3>1, PlainRequest
  <2>2. QED BY Zenon, <2>1 DEF Plain
<1>8. members \in [Roles -> Members]
  BY <1>3
<1>9. shutdowns \in Int
  BY <1>0, <1>6 DEF Wide
<1>10. AcceptDrainCreations(p, outcome) \in {y, ContinueDraining(x)}
  BY <1>1 DEF AcceptDrainCreations, stopped
<1>11. \A w \in V : w \in U \/ (w \in q.of /\ outcome[w] = "Established" /\ w \notin G)
  BY DEF Created
<1> HIDE DEF members, sent, V, P, shutdowns
<1>12. /\ x \in Wide /\ x.member = members /\ x.sent = sent /\ x.source = p.source
       /\ x.mode = p.mode
  BY Zenon, <1>0, <1>7, <1>8, <1>9 DEF Wide
<1> HIDE DEF x
<1>13. /\ y \in Wide /\ y.member = members /\ y.sent = sent /\ y.source = p.source
       /\ y.mode = "ForcedRetirement"
  BY Zenon, <1>12 DEF Wide
<1> HIDE DEF y
<1>14. \A z \in {x, y} : Custody(z, P, V, G) /\ \A r \in Roles : z.member[r].at \in RetirementStatuses
  <2>1. SUFFICES ASSUME NEW z, z \in Wide, z.member = members, z.sent = sent, z.source = p.source
                 PROVE  Custody(z, P, V, G) /\ \A r \in Roles : z.member[r].at \in RetirementStatuses
    BY Zenon, <1>12, <1>13
  <2>2. \A w \in V : w \in U \/ (w \in q.of /\ Live(z.member[w[1]]))
    BY Zenon, <1>4, <1>11, <2>1
  <2>3. \A r \in Roles :
          IF WorkerOf(p, r) \in q.of
          THEN z.member[r].n = p.member[r].n /\ z.member[r].at \notin Newborn \cup Borrower
          ELSE z.member[r] = p.member[r]
    BY Zenon, <1>3, <2>1
  <2>4. Settles(p, z, q, U, V)
    BY Zenon, <1>7, <2>1, <2>2, <2>3 DEF Settles
  <2>5. Custody(z, P, V, G)
    BY Zenon, <1>0, <2>4, BatchKept DEF P
  <2>6. QED BY Zenon, <1>3, <2>1, <2>5
<1>15. Fine(y, P, V, G)
  BY <1>13, <1>14 DEF Fine, Over
<1>16. Fine(ContinueDraining(x), P, V, G)
  BY <1>0, <1>12, <1>14, ContinueOver DEF Winding
<1>17. Fine(AcceptDrainCreations(p, outcome), P, V, G)
  BY <1>10, <1>15, <1>16
<1>18. QED BY <1>17 DEF P, V
=============================================================================
